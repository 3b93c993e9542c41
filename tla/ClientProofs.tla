---------------------------- MODULE ClientProofs ----------------------------
(***************************************************************************)
(* What Client guarantees for any tasks, connections, requests and bounds: *)
(* types, and that the attributes of a TrueNASClient always speak of one   *)
(* connection.  What is pending and what is subscribed belongs to the      *)
(* current connection, and that connection has a reader.                   *)
(***************************************************************************)
EXTENDS Client, TLAPS

\* The pcs at which a task has a request of its own.
CallPcs == {"sending", "sendClose", "await", "failLock", "failClose"}

\* A task that has a request knows its id and its connection.
CallLocals == \A t \in Tasks : pc[t] \in CallPcs => trpc[t] \in Rpcs /\ tws[t] \in Conns

\* TypeOK is not inductive alone: SendOk and CallReply use the locals of the call.
TypeInv == TypeOK /\ CallLocals

TaskTypes ==
    /\ pc \in [Tasks -> Pcs]
    /\ op \in [Tasks -> OpNames \cup {None}]
    /\ tws \in [Tasks -> Conns \cup {None}]
    /\ trpc \in [Tasks -> Rpcs \cup {None}]
    /\ tsid \in [Tasks -> SubIds \cup {None}]
    /\ out \in [Tasks -> {"returned", "raised"}]

-----------------------------------------------------------------------------
(* What the parts of several actions do *)

LEMMA TypeInit == Init => TypeInv
<1> SUFFICES ASSUME Init PROVE TypeInv
  OBVIOUS
<1> USE DEF Init
<1>1. MaxRpc \in Nat
  BY ClientAssumption
<1>2. nextId \in 1..(MaxRpc + 1)
  BY <1>1
<1>3. queue \in [Rpcs -> Seq(Conns \cup {TERM})]
  OBVIOUS
<1>4. /\ fut \in [Rpcs -> FutStates]
      /\ pc \in [Tasks -> Pcs]
  BY DEF FutStates, Pcs
<1>5. CallLocals
  BY DEF CallLocals, CallPcs
<1> QED
  BY <1>2, <1>3, <1>4, <1>5 DEF TypeOK, TypeInv

LEMMA FinishEffect ==
    ASSUME TypeOK, NEW t \in Tasks, NEW o \in {"returned", "raised"}, Finish(t, o)
    PROVE  /\ TaskTypes'
           /\ pc'[t] = "idle" /\ tws'[t] = None /\ trpc'[t] = None
           /\ \A u \in Tasks \ {t} : /\ pc'[u] = pc[u] /\ op'[u] = op[u] /\ tws'[u] = tws[u]
                                     /\ trpc'[u] = trpc[u] /\ tsid'[u] = tsid[u]
BY DEF TypeOK, TaskTypes, Finish, Go, Pcs

LEMMA EndCallEffect ==
    ASSUME TypeOK, NEW t \in Tasks, NEW o \in {"returned", "raised"}, NEW rejected \in BOOLEAN,
           EndCall(t, o, rejected)
    PROVE  /\ TaskTypes'
           /\ pc'[t] \in {"idle", "forgetLock"} /\ trpc'[t] = None
           /\ pmLock' \in Tasks \cup {None}
           /\ \A u \in Tasks \ {t} : /\ pc'[u] = pc[u] /\ op'[u] = op[u] /\ tws'[u] = tws[u]
                                     /\ trpc'[u] = trpc[u] /\ tsid'[u] = tsid[u]
<1>1. pmLock' \in Tasks \cup {None}
  BY DEF EndCall, TypeOK
<1>2. CASE Finish(t, o)
  BY <1>1, <1>2, FinishEffect
<1>3. CASE /\ Go(t, "forgetLock")
           /\ trpc' = [trpc EXCEPT ![t] = None]
           /\ out' = [out EXCEPT ![t] = o]
           /\ UNCHANGED <<op, tws, tsid>>
  BY <1>1, <1>3 DEF TypeOK, TaskTypes, Go, Pcs
<1> QED
  BY <1>2, <1>3 DEF EndCall

LEMMA PutAllType ==
    ASSUME TypeOK, NEW Q, NEW m \in Conns \cup {TERM}, PutAll(Q, m)
    PROVE  queue' \in [Rpcs -> Seq(Conns \cup {TERM})]
BY DEF TypeOK, PutAll

LEMMA DetachType ==
    ASSUME TypeOK, NEW failing, DetachConnection(failing)
    PROVE  /\ ws' \in Conns \cup {None} /\ pmWs' \in Conns \cup {None}
           /\ pending' \subseteq Rpcs
           /\ subs' \in [SubIds -> Rpcs \cup {None}]
           /\ fut' \in [Rpcs -> FutStates]
           /\ queue' \in [Rpcs -> Seq(Conns \cup {TERM})]
<1>1. queue' \in [Rpcs -> Seq(Conns \cup {TERM})]
  BY PutAllType DEF DetachConnection, EndSubscriptions
<1> QED
  BY <1>1 DEF TypeOK, DetachConnection, FailCalls, EndSubscriptions, FutStates

LEMMA ReleaseType ==
    ASSUME TypeOK, NEW c, ReleaseSocket(c)
    PROVE  /\ sock' \in [Conns -> {"new", "open", "closed"}]
           /\ rd' \in [Conns -> {"none", "recv", "route", "route2", "teardown", "done"}]
           /\ msg' \in [Conns -> ReplyMsgs \cup NoteMsgs \cup CollMsgs \cup {NoMsg}]
           /\ optSent' = optSent /\ allotted' = allotted /\ unanswered' = unanswered
BY DEF TypeOK, ReleaseSocket, CloseSocket, CancelReader

-----------------------------------------------------------------------------
(* Type correctness *)

LEMMA TypeStep == TypeInv /\ [Next]_vars => TypeInv'
<1> SUFFICES ASSUME TypeOK, CallLocals, [Next]_vars PROVE TypeOK' /\ CallLocals'
  BY DEF TypeInv
<1>0. MaxRpc \in Nat
  BY ClientAssumption
<1> USE DEF TypeOK, CallLocals, CallPcs, session, locks, requests, wire, reader, locals
<1>1. ASSUME NEW t \in Tasks, NEW o \in OpNames, Start(t, o) PROVE TypeOK' /\ CallLocals'
  BY <1>1
  DEF Start, Go, FirstPc, Pcs
<1>2. ASSUME NEW t \in Tasks, ConnectLock(t) PROVE TypeOK' /\ CallLocals'
  BY <1>2, FinishEffect
  DEF ConnectLock, TaskTypes, Go, Pcs, LockPcs
<1>3. ASSUME NEW t \in Tasks, NEW c \in Conns, OpenWebsocket(t, c) PROVE TypeOK' /\ CallLocals'
  BY <1>3
  DEF OpenWebsocket, Go, Pcs, LockPcs
<1>4. ASSUME NEW t \in Tasks, OpenTimeout(t) PROVE TypeOK' /\ CallLocals'
  BY <1>4
  DEF OpenTimeout, Go, Pcs, LockPcs
<1>5. ASSUME NEW t \in Tasks, OpenError(t) PROVE TypeOK' /\ CallLocals'
  BY <1>5, FinishEffect
  DEF OpenError, TaskTypes
<1>6. ASSUME NEW t \in Tasks, LoginOk(t) PROVE TypeOK' /\ CallLocals'
  <2>1. CASE ~privateMethods /\ Establish(t)
    BY <1>6, <2>1, FinishEffect DEF Establish, TaskTypes
  <2>2. CASE privateMethods /\ Go(t, "option")
    <3>1. optSent' \in [Conns -> Nat]
      BY <1>6, <2>2 DEF LoginOk, Establish
    <3> QED
      BY <1>6, <2>2, <3>1 DEF LoginOk, Establish, Go, Pcs, LockPcs
  <2> QED
    BY <1>6, <2>1, <2>2 DEF LoginOk
<1>7. ASSUME NEW t \in Tasks, OptionReply(t) PROVE TypeOK' /\ CallLocals'
  BY <1>7, FinishEffect
  DEF OptionReply, Establish, TaskTypes
<1>8. ASSUME NEW t \in Tasks, LoginError(t) PROVE TypeOK' /\ CallLocals'
  BY <1>8
  DEF LoginError, Go, Pcs, LockPcs
<1>9. ASSUME NEW t \in Tasks, ConnectClosed(t) PROVE TypeOK' /\ CallLocals'
  BY <1>9, FinishEffect
  DEF ConnectClosed, DropUntracked, CloseSocket, TaskTypes
<1>10. ASSUME NEW t \in Tasks, CloseLock(t) PROVE TypeOK' /\ CallLocals'
  <2>1. CASE ws = None /\ Finish(t, "returned") /\ UNCHANGED <<session, lock>>
    BY <1>10, <2>1, FinishEffect DEF CloseLock, TaskTypes
  <2>2. CASE /\ ws # None /\ DetachConnection(pending) /\ lock' = t
             /\ tws' = [tws EXCEPT ![t] = ws] /\ Go(t, "closeWs")
             /\ UNCHANGED <<op, trpc, tsid, out>>
    <3>1. TaskTypes' /\ CallLocals'
      BY <2>2 DEF TaskTypes, Go, Pcs, LockPcs
    <3> QED
      BY <1>10, <2>2, <3>1, DetachType DEF CloseLock, TaskTypes
  <2> QED
    BY <1>10, <2>1, <2>2 DEF CloseLock
<1>11. ASSUME NEW t \in Tasks, CloseWebsocket(t) PROVE TypeOK' /\ CallLocals'
  BY <1>11
  DEF CloseWebsocket, CloseSocket, Go, Pcs
<1>12. ASSUME NEW t \in Tasks, AwaitReader(t) PROVE TypeOK' /\ CallLocals'
  BY <1>12, FinishEffect
  DEF AwaitReader, TaskTypes
<1>13. ASSUME NEW t \in Tasks, CallRefused(t) PROVE TypeOK' /\ CallLocals'
  BY <1>13, EndCallEffect
  DEF CallRefused, Raise, TaskTypes
<1>14. ASSUME NEW t \in Tasks, NEW e \in Events, CallSend(t, e) PROVE TypeOK' /\ CallLocals'
  BY <1>14, <1>0
  DEF CallSend, Register, Go, FutStates, Rpcs, Pcs, LockPcs
<1>15. ASSUME NEW t \in Tasks, SendOk(t) PROVE TypeOK' /\ CallLocals'
  BY <1>15
  DEF SendOk, Go, Pcs
<1>16. ASSUME NEW t \in Tasks, SendError(t) PROVE TypeOK' /\ CallLocals'
  BY <1>16, EndCallEffect, DetachType
  DEF SendError, Raise, TaskTypes, Unregister, Go, Pcs, LockPcs
<1>17. ASSUME NEW t \in Tasks, FailedCallClosed(t) PROVE TypeOK' /\ CallLocals'
  BY <1>17, EndCallEffect, ReleaseType
  DEF FailedCallClosed, Raise, TaskTypes, Unregister, Untrack
<1>18. ASSUME NEW t \in Tasks, CallReply(t) PROVE TypeOK' /\ CallLocals'
  <2>1. TaskTypes' /\ CallLocals' /\ pmLock' \in Tasks \cup {None}
    <3>1. CASE EndCall(t, "returned", FALSE)
      BY <3>1, EndCallEffect DEF TaskTypes
    <3>2. CASE EndCall(t, IF op[t] = "enable" THEN "returned" ELSE "raised", fut[trpc[t]] = "error")
      <4>1. (IF op[t] = "enable" THEN "returned" ELSE "raised") \in {"returned", "raised"}
        OBVIOUS
      <4>2. (fut[trpc[t]] = "error") \in BOOLEAN
        OBVIOUS
      <4> QED
        BY <3>2, <4>1, <4>2, EndCallEffect DEF TaskTypes
    <3> QED
      BY <1>18, <3>1, <3>2 DEF CallReply
  <2>2. /\ subs' \in [SubIds -> Rpcs \cup {None}] /\ handed' \subseteq Rpcs
        /\ pending' \subseteq Rpcs /\ pmWs' \in Conns \cup {None}
    BY <1>18 DEF CallReply, RecordOption, Unregister, Untrack
  <2> QED
    BY <1>18, <2>1, <2>2 DEF CallReply, TaskTypes
<1>19. ASSUME NEW t \in Tasks, CallLost(t) PROVE TypeOK' /\ CallLocals'
  BY <1>19, EndCallEffect
  DEF CallLost, Raise, TaskTypes, Unregister, Untrack
<1>20. ASSUME NEW t \in Tasks, CallTimeout(t) PROVE TypeOK' /\ CallLocals'
  BY <1>20
  DEF CallTimeout, CancelFuture, FutStates, Go, Pcs
<1>21. ASSUME NEW t \in Tasks, FailedCallLock(t) PROVE TypeOK' /\ CallLocals'
  <2>1. CASE /\ ws = tws[t] /\ DetachConnection(pending) /\ lock' = t /\ Go(t, "failClose")
             /\ UNCHANGED <<pmLock, locals>>
    <3>1. TaskTypes' /\ CallLocals'
      BY <1>21, <2>1 DEF FailedCallLock, TaskTypes, Go, Pcs, LockPcs
    <3> QED
      BY <1>21, <2>1, <3>1, DetachType DEF FailedCallLock, TaskTypes
  <2>2. CASE /\ ws # tws[t] /\ Unregister(trpc[t]) /\ Untrack(trpc[t]) /\ Raise(t)
             /\ UNCHANGED <<ws, pmWs, fut, queue, lock>>
    <3>1. TaskTypes' /\ CallLocals' /\ pmLock' \in Tasks \cup {None}
      BY <2>2, EndCallEffect DEF Raise, TaskTypes
    <3> QED
      BY <1>21, <2>2, <3>1 DEF FailedCallLock, TaskTypes, Unregister, Untrack
  <2> QED
    BY <1>21, <2>1, <2>2 DEF FailedCallLock
<1>22. ASSUME NEW t \in Tasks, NEW s \in SubIds, UnsubscribeLock(t, s) PROVE TypeOK' /\ CallLocals'
  <2>1. CASE Finish(t, "returned")
    BY <1>22, <2>1, FinishEffect DEF UnsubscribeLock, TaskTypes
  <2>2. CASE /\ tws' = [tws EXCEPT ![t] = ws] /\ tsid' = [tsid EXCEPT ![t] = s]
             /\ Go(t, "callLock") /\ UNCHANGED <<op, trpc, out>>
    BY <1>22, <2>2 DEF UnsubscribeLock, Go, Pcs
  <2> QED
    BY <1>22, <2>1, <2>2 DEF UnsubscribeLock
<1>23. ASSUME NEW t \in Tasks, ForgetSubscription(t) PROVE TypeOK' /\ CallLocals'
  <2>1. TaskTypes' /\ CallLocals'
    <3>1. out[t] \in {"returned", "raised"} /\ Finish(t, out[t])
      BY <1>23 DEF ForgetSubscription
    <3>2. /\ TaskTypes' /\ pc'[t] = "idle"
          /\ \A u \in Tasks \ {t} : pc'[u] = pc[u] /\ trpc'[u] = trpc[u] /\ tws'[u] = tws[u]
      <4> HIDE DEF TypeOK, CallLocals
      <4> QED
        BY <3>1, FinishEffect
    <3> QED
      BY <3>2 DEF TaskTypes
  <2>2. queue' \in [Rpcs -> Seq(Conns \cup {TERM})] /\ subs' \in [SubIds -> Rpcs \cup {None}]
    <3>1. CASE PutAll({subs[tsid[t]]} \ {None}, TERM) /\ subs' = [subs EXCEPT ![tsid[t]] = None]
      BY <3>1, PutAllType
    <3>2. CASE UNCHANGED <<queue, subs>>
      BY <3>2
    <3> QED
      BY <1>23, <3>1, <3>2 DEF ForgetSubscription
  <2> QED
    BY <1>23, <2>1, <2>2 DEF ForgetSubscription, TaskTypes
<1>24. ASSUME NEW t \in Tasks, EnableLock(t) PROVE TypeOK' /\ CallLocals'
  BY <1>24, FinishEffect
  DEF EnableLock, MayEnable, OptionMissing, TaskTypes, Go, Pcs
<1>25. ASSUME NEW t \in Tasks, CancelWaiting(t) PROVE TypeOK' /\ CallLocals'
  BY <1>25, FinishEffect
  DEF CancelWaiting, TaskTypes
<1>26. ASSUME NEW t \in Tasks, CancelLogin(t) PROVE TypeOK' /\ CallLocals'
  BY <1>26, FinishEffect
  DEF CancelLogin, DropUntracked, CloseSocket, TaskTypes
<1>27. ASSUME NEW t \in Tasks, CancelCloseWebsocket(t) PROVE TypeOK' /\ CallLocals'
  BY <1>27, FinishEffect, ReleaseType
  DEF CancelCloseWebsocket, TaskTypes
<1>28. ASSUME NEW t \in Tasks, CancelAwaitReader(t) PROVE TypeOK' /\ CallLocals'
  BY <1>28
  DEF CancelAwaitReader, CancelReader, Go, Pcs
<1>29. ASSUME NEW t \in Tasks, CancelCallLock(t) PROVE TypeOK' /\ CallLocals'
  BY <1>29, EndCallEffect
  DEF CancelCallLock, Raise, TaskTypes
<1>30. ASSUME NEW t \in Tasks, CancelSending(t) PROVE TypeOK' /\ CallLocals'
  BY <1>30, EndCallEffect
  DEF CancelSending, Raise, TaskTypes, Unregister
<1>31. ASSUME NEW t \in Tasks, CancelAwait(t) PROVE TypeOK' /\ CallLocals'
  BY <1>31, EndCallEffect
  DEF CancelAwait, CancelFuture, FutStates, Raise, TaskTypes, Unregister, Untrack
<1>32. ASSUME NEW t \in Tasks, CancelFailedCallLock(t) PROVE TypeOK' /\ CallLocals'
  <2>1. TaskTypes' /\ CallLocals' /\ pmLock' \in Tasks \cup {None}
    BY <1>32, EndCallEffect DEF CancelFailedCallLock, Raise, TaskTypes
  <2>2. CASE DetachConnection(pending) /\ ReleaseSocket(tws[t])
    BY <1>32, <2>1, <2>2, DetachType, ReleaseType DEF CancelFailedCallLock, TaskTypes
  <2>3. CASE /\ Unregister(trpc[t]) /\ Untrack(trpc[t])
             /\ UNCHANGED <<ws, pmWs, fut, queue, wire, reader>>
    BY <1>32, <2>1, <2>3 DEF CancelFailedCallLock, TaskTypes, Unregister, Untrack
  <2> QED
    BY <1>32, <2>2, <2>3 DEF CancelFailedCallLock
<1>33. ASSUME NEW c \in Conns, ReceiveClosed(c) PROVE TypeOK' /\ CallLocals'
  BY <1>33
  DEF ReceiveClosed, Reading
<1>34. ASSUME NEW c \in Conns, ReceiveBadFrame(c) PROVE TypeOK' /\ CallLocals'
  BY <1>34
  DEF ReceiveBadFrame, Reading
<1>35. ASSUME NEW c \in Conns, HandleRpcResponse(c) PROVE TypeOK' /\ CallLocals'
  <2>1. msg[c] \in ReplyMsgs
    BY <1>35 DEF HandleRpcResponse, ReplyMsgs, NoteMsgs, CollMsgs, NoMsg
  <2>2. msg[c].id \in Rpcs /\ msg[c].kind \in FutStates /\ msg[c].sid \in SubIds \cup {None}
    BY <2>1 DEF ReplyMsgs, FutStates
  <2>3. subs' \in [SubIds -> Rpcs \cup {None}] /\ fut' \in [Rpcs -> FutStates] /\ pending' \subseteq Rpcs
    BY <1>35, <2>2 DEF HandleRpcResponse
  <2> QED
    BY <1>35, <2>3 DEF HandleRpcResponse, Routed
<1>36. ASSUME NEW c \in Conns, HandleSubscriptionNotification(c) PROVE TypeOK' /\ CallLocals'
  BY <1>36, PutAllType
  DEF HandleSubscriptionNotification, Routed
<1>37. ASSUME NEW c \in Conns, HandleCollectionTop(c) PROVE TypeOK' /\ CallLocals'
  <2>1. msg[c] \in CollMsgs
    BY <1>37 DEF HandleCollectionTop, ReplyMsgs, NoteMsgs, CollMsgs, NoMsg
  <2>2. MatchingQueues(c, msg[c].top) \subseteq Rpcs
    BY DEF MatchingQueues, Tracked
  <2>3. WithSeen(c) \in CollMsgs
    BY <2>1, <2>2 DEF WithSeen, CollMsgs
  <2>4. queue' \in [Rpcs -> Seq(Conns \cup {TERM})]
    BY <1>37, PutAllType DEF HandleCollectionTop
  <2>5. /\ rd' \in [Conns -> {"none", "recv", "route", "route2", "teardown", "done"}]
        /\ msg' \in [Conns -> ReplyMsgs \cup NoteMsgs \cup CollMsgs \cup {NoMsg}]
    BY <1>37, <2>3 DEF HandleCollectionTop, Routed
  <2> QED
    BY <1>37, <2>4, <2>5 DEF HandleCollectionTop, Routed
<1>38. ASSUME NEW c \in Conns, HandleCollectionParams(c) PROVE TypeOK' /\ CallLocals'
  BY <1>38, PutAllType
  DEF HandleCollectionParams, Routed
<1>39. ASSUME NEW c \in Conns, TeardownConnection(c) PROVE TypeOK' /\ CallLocals'
  BY <1>39, DetachType
  DEF TeardownConnection, DetachIfCurrent
<1>40. ASSUME NEW c \in Conns, Drop(c) PROVE TypeOK' /\ CallLocals'
  BY <1>40
  DEF Drop, CloseSocket
<1>41. ASSUME NEW c \in Conns, NEW r \in Rpcs, NEW k \in Kinds, NEW s \in SubIds \cup {None},
             ReceiveReply(c, r, k, s) PROVE TypeOK' /\ CallLocals'
  <2>1. [type |-> "reply", id |-> r, kind |-> k, sid |-> s] \in ReplyMsgs
    BY ClientAssumption DEF ReplyMsgs
  <2> QED
    BY <1>41, <2>1 DEF ReceiveReply, Reading
<1>42. ASSUME NEW c \in Conns, NEW s \in SubIds, ReceiveNotification(c, s)
      PROVE TypeOK' /\ CallLocals'
  BY <1>42 DEF ReceiveNotification, Reading, Notifies, NoteMsgs
<1>43. ASSUME NEW c \in Conns, NEW top \in Collections \cup {None}, NEW inner \in Collections \cup {None},
             ReceiveCollection(c, top, inner) PROVE TypeOK' /\ CallLocals'
  <2>1. [type |-> "collection", top |-> top, inner |-> inner, seen |-> {}] \in CollMsgs
    BY DEF CollMsgs
  <2> QED
    BY <1>43, <2>1 DEF ReceiveCollection, Reading, Notifies
<1>44. CASE UNCHANGED vars
  BY <1>44 DEF vars
<1> QED
  BY <1>1, <1>2, <1>3, <1>4, <1>5, <1>6, <1>7, <1>8, <1>9, <1>10, <1>11, <1>12, <1>13,
     <1>14, <1>15, <1>16, <1>17, <1>18, <1>19, <1>20, <1>21, <1>22, <1>23, <1>24, <1>25,
     <1>26, <1>27, <1>28, <1>29, <1>30, <1>31, <1>32, <1>33, <1>34, <1>35, <1>36, <1>37,
     <1>38, <1>39, <1>40, <1>41, <1>42, <1>43, <1>44
  DEF Next, Connect, Close, Call, Unsubscribe, Cancel, Receive, Route

\* Every attribute of the client, every local of a task and every queue keeps its
\* type, and a task with a request knows its id and connection.
THEOREM TypeCorrect == Spec => []TypeOK
<1>1. Spec => []TypeInv
  BY TypeInit, TypeStep, PTL DEF Spec
<1> QED
  BY <1>1, PTL DEF TypeInv

-----------------------------------------------------------------------------
(* The session *)

\* A task holds self._lock exactly while it is suspended inside it.
LockHeld == \A t \in Tasks : lock = t <=> pc[t] \in LockPcs

\* The connections a suspended task and the client refer to:
\* - whoever holds the lock, and is not just sending a request, has found or made
\*   the client disconnected;
\* - the connection connect() is setting up is fresh and has no reader yet;
\* - what is being closed was established, and is no longer the current one.
TaskConnection(t) ==
    /\ pc[t] \in LockPcs \ {"sending"} => ws = None
    /\ pc[t] \in {"login", "option", "connClose"} =>
           tws[t] \in Conns /\ rd[tws[t]] = "none" /\ sock[tws[t]] # "new"
    /\ pc[t] \in {"closeWs", "closeReader", "closeCancelled", "sendClose", "failClose"} =>
           tws[t] \in Conns /\ rd[tws[t]] # "none" /\ ws # tws[t]

NewUnused == \A c \in Conns : sock[c] = "new" => rd[c] = "none"

ConnectionInv == (\A t \in Tasks : TaskConnection(t)) /\ NewUnused /\ CurrentHasReader

\* The ids in the tables were all given out.
UsedIds ==
    /\ \A r \in pending : r < nextId
    /\ \A s \in SubIds : subs[s] # None => subs[s] < nextId

TableInv == UsedIds /\ PendingOnCurrent /\ SubscriptionsOnCurrent

SessionInv == LockHeld /\ ConnectionInv /\ TableInv

-----------------------------------------------------------------------------

LEMMA SessionInit == Init => SessionInv
<1> SUFFICES ASSUME Init PROVE SessionInv
  OBVIOUS
<1>1. LockHeld
  BY ClientAssumption DEF Init, LockHeld, LockPcs
<1>2. ConnectionInv
  BY DEF Init, ConnectionInv, TaskConnection, NewUnused, CurrentHasReader, LockPcs
<1>3. TableInv
  BY DEF Init, TableInv, UsedIds, PendingOnCurrent, SubscriptionsOnCurrent
<1> QED
  BY <1>1, <1>2, <1>3 DEF SessionInv

LEMMA GoEffect ==
    ASSUME TypeOK, NEW t \in Tasks, NEW p, Go(t, p)
    PROVE  pc'[t] = p /\ \A u \in Tasks \ {t} : pc'[u] = pc[u]
BY DEF TypeOK, Go

LEMMA FinishMoves ==
    ASSUME TypeOK, NEW t \in Tasks, NEW o, Finish(t, o)
    PROVE  pc'[t] = "idle" /\ \A u \in Tasks \ {t} : pc'[u] = pc[u] /\ tws'[u] = tws[u]
BY DEF TypeOK, Finish, Go

LEMMA EndCallMoves ==
    ASSUME TypeOK, NEW t \in Tasks, NEW o, NEW rejected, EndCall(t, o, rejected)
    PROVE  /\ pc'[t] \in {"idle", "forgetLock"}
           /\ \A u \in Tasks \ {t} : pc'[u] = pc[u] /\ tws'[u] = tws[u]
BY DEF TypeOK, EndCall, Finish, Go

LEMMA MaxRpcNat == MaxRpc \in Nat
BY ClientAssumption

LEMMA DetachEffect ==
    ASSUME NEW failing, DetachConnection(failing)
    PROVE  ws' = None /\ pending' = {} /\ \A s \in SubIds : subs'[s] = None
BY DEF DetachConnection, FailCalls, EndSubscriptions

\* A task that enters or leaves self._lock, and one that does neither.
LEMMA LockMoves ==
    ASSUME LockHeld, NEW t \in Tasks, \A u \in Tasks \ {t} : pc'[u] = pc[u],
           \/ lock = None /\ lock' = t /\ pc'[t] \in LockPcs
           \/ lock = t /\ lock' = None /\ pc'[t] \notin LockPcs
           \/ lock' = lock /\ (pc'[t] \in LockPcs <=> pc[t] \in LockPcs)
    PROVE  LockHeld'
BY ClientAssumption DEF LockHeld

\* A step that starts no reader and establishes no connection.
ConnectionFrame ==
    /\ ws' \in {ws, None} /\ CurrentHasReader'
    /\ \A c \in Conns : /\ rd'[c] = "none" <=> rd[c] = "none"
                        /\ sock'[c] = "new" => sock[c] = "new"

LEMMA NoneIsNone == None \notin Conns /\ None \notin Tasks
BY ClientAssumption

LEMMA SameConnections ==
    ASSUME ConnectionInv, UNCHANGED <<ws, rd, sock>>
    PROVE  ConnectionFrame
BY DEF ConnectionFrame, ConnectionInv, CurrentHasReader

\* The reader of a connection that is not the current one is cancelled.
LEMMA CancelReaderFrame ==
    ASSUME TypeOK, ConnectionInv, NEW d \in Conns, rd[d] # "none", ws # d, CancelReader(d),
           ws' = ws, sock' = sock \/ CloseSocket(d)
    PROVE  ConnectionFrame
BY NoneIsNone
DEF TypeOK, CancelReader, CloseSocket, ConnectionInv, CurrentHasReader, ConnectionFrame

LEMMA ConnectionMoves ==
    ASSUME TypeOK, ConnectionInv, NEW t \in Tasks, ConnectionFrame, TaskConnection(t)',
           \A u \in Tasks \ {t} : pc'[u] = pc[u] /\ tws'[u] = tws[u]
    PROVE  ConnectionInv'
<1> USE NoneIsNone DEF ConnectionFrame, ConnectionInv
<1>1. NewUnused'
  BY DEF NewUnused
<1>2. ASSUME NEW u \in Tasks, pc'[u] = pc[u], tws'[u] = tws[u] PROVE TaskConnection(u)'
  BY <1>2 DEF TaskConnection
<1> QED
  BY <1>1, <1>2

LEMMA ReaderMoves ==
    ASSUME TypeOK, ConnectionInv, ConnectionFrame, pc' = pc, tws' = tws
    PROVE  ConnectionInv'
<1> USE NoneIsNone DEF ConnectionFrame, ConnectionInv
<1>1. NewUnused'
  BY DEF NewUnused
<1>2. ASSUME NEW u \in Tasks, pc'[u] = pc[u], tws'[u] = tws[u] PROVE TaskConnection(u)'
  BY <1>2 DEF TaskConnection
<1> QED
  BY <1>1, <1>2

\* The tables only lose entries, and all of them when the connection is replaced.
LEMMA TablesShrink ==
    ASSUME TableInv, pending' \subseteq pending, \A s \in SubIds : subs'[s] \in {subs[s], None},
           conn' = conn, nextId' = nextId,
           \/ ws' = ws
           \/ ws = None
           \/ pending' = {} /\ \A s \in SubIds : subs'[s] = None
    PROVE  TableInv'
BY DEF TableInv, UsedIds, PendingOnCurrent, SubscriptionsOnCurrent

-----------------------------------------------------------------------------

\* connect() ends: the connection it set up becomes the current one, and no other
\* task refers to it.
LEMMA EstablishSession ==
    ASSUME TypeOK, LockHeld, ConnectionInv, TableInv, NEW t \in Tasks,
           pc[t] \in {"login", "option"}, Establish(t)
    PROVE  LockHeld' /\ ConnectionInv' /\ TableInv'
<1> USE DEF requests, wire
<1>1. /\ lock = t /\ ws = None
      /\ tws[t] \in Conns /\ rd[tws[t]] = "none" /\ sock[tws[t]] # "new"
  BY DEF LockHeld, ConnectionInv, TaskConnection, LockPcs
<1>2. pc'[t] = "idle" /\ \A u \in Tasks \ {t} : pc'[u] = pc[u] /\ tws'[u] = tws[u]
  BY FinishMoves DEF Establish
<1>3. LockHeld'
  BY <1>1, <1>2, LockMoves DEF Establish, LockPcs
<1>4. TableInv'
  BY <1>1, TablesShrink DEF Establish
<1>5. ws' = tws[t] /\ rd' = [rd EXCEPT ![tws[t]] = "recv"] /\ sock' = sock
  BY DEF Establish
<1>6. \A u \in Tasks : TaskConnection(u)'
  <2>1. TaskConnection(t)'
    BY <1>2 DEF TaskConnection, LockPcs
  <2>2. ASSUME NEW u \in Tasks \ {t} PROVE TaskConnection(u)'
    <3>1. pc[u] \notin LockPcs
      BY <1>1 DEF LockHeld
    <3> QED
      BY <1>1, <1>2, <1>5, <3>1 DEF TypeOK, ConnectionInv, TaskConnection, LockPcs
  <2> QED
    BY <2>1, <2>2
<1>7. NewUnused' /\ CurrentHasReader'
  BY <1>1, <1>5, NoneIsNone DEF TypeOK, ConnectionInv, NewUnused, CurrentHasReader
<1> QED
  BY <1>3, <1>4, <1>6, <1>7 DEF ConnectionInv

\* A task that goes to wait for a lock, for its reply, or returns, and leaves the
\* connections alone.
LEMMA QuietStep ==
    ASSUME TypeOK, LockHeld, ConnectionInv, TableInv, NEW t \in Tasks,
           UNCHANGED <<ws, rd, sock, conn, nextId>>, pending' \subseteq pending,
           \A s \in SubIds : subs'[s] \in {subs[s], None},
           pc'[t] \notin LockPcs \cup {"closeReader", "closeCancelled"},
           \A u \in Tasks \ {t} : pc'[u] = pc[u] /\ tws'[u] = tws[u],
           \/ pc[t] \in LockPcs /\ lock' = None
           \/ pc[t] \notin LockPcs /\ lock' = lock
    PROVE  LockHeld' /\ ConnectionInv' /\ TableInv'
<1>1. LockHeld'
  BY LockMoves DEF LockHeld
<1>2. TaskConnection(t)'
  BY DEF TaskConnection, LockPcs
<1>3. ConnectionInv'
  BY <1>2, SameConnections, ConnectionMoves
<1>4. TableInv'
  BY TablesShrink
<1> QED
  BY <1>1, <1>3, <1>4

LEMMA SessionStep == TypeInv /\ SessionInv /\ [Next]_vars => SessionInv'
<1> SUFFICES ASSUME TypeOK, CallLocals, LockHeld, ConnectionInv, TableInv, [Next]_vars
             PROVE  LockHeld' /\ ConnectionInv' /\ TableInv'
  BY DEF TypeInv, SessionInv
<1> USE DEF session, locks, requests, wire, reader, locals
<1>1. ASSUME NEW t \in Tasks, NEW o \in OpNames, Start(t, o)
      PROVE  LockHeld' /\ ConnectionInv' /\ TableInv'
  BY <1>1, QuietStep, GoEffect DEF Start, FirstPc, LockPcs
<1>2. ASSUME NEW t \in Tasks, ConnectLock(t) PROVE LockHeld' /\ ConnectionInv' /\ TableInv'
  <2>1. LockHeld'
    BY <1>2, LockMoves, FinishMoves, GoEffect DEF ConnectLock, LockPcs, LockHeld
  <2>2. TableInv'
    BY <1>2, TablesShrink, FinishMoves, GoEffect DEF ConnectLock
  <2>3. TaskConnection(t)'
    BY <1>2, FinishMoves, GoEffect
    DEF ConnectLock, TypeOK, ConnectionInv, TaskConnection, CurrentHasReader, LockPcs
  <2>4. ConnectionFrame
    BY <1>2, SameConnections DEF ConnectLock
  <2>5. ConnectionInv'
    BY <1>2, <2>3, <2>4, ConnectionMoves, FinishMoves, GoEffect DEF ConnectLock, TypeOK
  <2> QED
    BY <2>1, <2>2, <2>5
<1>3. ASSUME NEW t \in Tasks, NEW c \in Conns, OpenWebsocket(t, c)
      PROVE  LockHeld' /\ ConnectionInv' /\ TableInv'
  <2>1. LockHeld'
    BY <1>3, LockMoves, GoEffect DEF OpenWebsocket, LockPcs, LockHeld
  <2>2. TableInv'
    BY <1>3, TablesShrink, GoEffect DEF OpenWebsocket
  <2>3. TaskConnection(t)'
    BY <1>3, GoEffect, NoneIsNone
    DEF OpenWebsocket, TypeOK, ConnectionInv, TaskConnection, NewUnused, LockPcs
  <2>4. ConnectionFrame
    BY <1>3, GoEffect, NoneIsNone
    DEF OpenWebsocket, TypeOK, ConnectionFrame, ConnectionInv, CurrentHasReader
  <2>5. ConnectionInv'
    BY <1>3, <2>3, <2>4, ConnectionMoves, GoEffect DEF OpenWebsocket, TypeOK
  <2> QED
    BY <2>1, <2>2, <2>5
<1>4. ASSUME NEW t \in Tasks, OpenTimeout(t) PROVE LockHeld' /\ ConnectionInv' /\ TableInv'
  <2>1. LockHeld'
    BY <1>4, LockMoves, GoEffect DEF OpenTimeout, LockPcs, LockHeld
  <2>2. TableInv'
    BY <1>4, TablesShrink, GoEffect DEF OpenTimeout
  <2>3. TaskConnection(t)'
    BY <1>4, GoEffect
    DEF OpenTimeout, TypeOK, ConnectionInv, TaskConnection, CurrentHasReader, LockPcs
  <2>4. ConnectionFrame
    BY <1>4, SameConnections DEF OpenTimeout
  <2>5. ConnectionInv'
    BY <1>4, <2>3, <2>4, ConnectionMoves, GoEffect DEF OpenTimeout, TypeOK
  <2> QED
    BY <2>1, <2>2, <2>5
<1>5. ASSUME NEW t \in Tasks, OpenError(t) PROVE LockHeld' /\ ConnectionInv' /\ TableInv'
  BY <1>5, QuietStep, FinishMoves DEF OpenError, LockPcs
<1>6. ASSUME NEW t \in Tasks, LoginOk(t) PROVE LockHeld' /\ ConnectionInv' /\ TableInv'
  <2>1. CASE Establish(t)
    BY <1>6, <2>1, EstablishSession DEF LoginOk
  <2>2. CASE Go(t, "option") /\ UNCHANGED <<session, locks, requests, sock, reader, locals>>
    <3>1. LockHeld'
      BY <1>6, <2>2, LockMoves, GoEffect DEF LoginOk, LockPcs, LockHeld
    <3>2. TableInv'
      BY <2>2, TablesShrink
    <3>3. TaskConnection(t)'
      BY <1>6, <2>2, GoEffect DEF LoginOk, ConnectionInv, TaskConnection, LockPcs
    <3>4. ConnectionInv'
      BY <2>2, <3>3, SameConnections, ConnectionMoves, GoEffect
    <3> QED
      BY <3>1, <3>2, <3>4
  <2> QED
    BY <1>6, <2>1, <2>2 DEF LoginOk
<1>7. ASSUME NEW t \in Tasks, OptionReply(t) PROVE LockHeld' /\ ConnectionInv' /\ TableInv'
  BY <1>7, EstablishSession DEF OptionReply
<1>8. ASSUME NEW t \in Tasks, LoginError(t) PROVE LockHeld' /\ ConnectionInv' /\ TableInv'
  <2>1. LockHeld'
    BY <1>8, LockMoves, GoEffect DEF LoginError, LockPcs, LockHeld
  <2>2. TableInv'
    BY <1>8, TablesShrink, GoEffect DEF LoginError
  <2>3. TaskConnection(t)'
    BY <1>8, GoEffect
    DEF LoginError, TypeOK, ConnectionInv, TaskConnection, CurrentHasReader, LockPcs
  <2>4. ConnectionFrame
    BY <1>8, SameConnections DEF LoginError
  <2>5. ConnectionInv'
    BY <1>8, <2>3, <2>4, ConnectionMoves, GoEffect DEF LoginError, TypeOK
  <2> QED
    BY <2>1, <2>2, <2>5
<1>9. ASSUME NEW t \in Tasks, ConnectClosed(t) PROVE LockHeld' /\ ConnectionInv' /\ TableInv'
  <2>1. LockHeld'
    BY <1>9, LockMoves, FinishMoves
    DEF ConnectClosed, DropUntracked, CloseSocket, LockPcs, LockHeld
  <2>2. TableInv'
    BY <1>9, TablesShrink, FinishMoves DEF ConnectClosed, DropUntracked, CloseSocket
  <2>3. TaskConnection(t)'
    BY <1>9, FinishMoves
    DEF ConnectClosed, DropUntracked, CloseSocket, TypeOK, ConnectionInv, TaskConnection,
        CurrentHasReader, LockPcs
  <2>4. ConnectionFrame
    BY <1>9, FinishMoves, NoneIsNone
    DEF ConnectClosed, DropUntracked, CloseSocket, TypeOK, ConnectionFrame, ConnectionInv,
        CurrentHasReader
  <2>5. ConnectionInv'
    BY <1>9, <2>3, <2>4, ConnectionMoves, FinishMoves
    DEF ConnectClosed, DropUntracked, CloseSocket, TypeOK
  <2> QED
    BY <2>1, <2>2, <2>5
<1>10. ASSUME NEW t \in Tasks, CloseLock(t) PROVE LockHeld' /\ ConnectionInv' /\ TableInv'
  <2>1. LockHeld'
    BY <1>10, LockMoves, FinishMoves, GoEffect, DetachEffect DEF CloseLock, LockPcs, LockHeld
  <2>2. TableInv'
    BY <1>10, TablesShrink, FinishMoves, GoEffect, DetachEffect DEF CloseLock
  <2>3. TaskConnection(t)'
    BY <1>10, FinishMoves, GoEffect, DetachEffect
    DEF CloseLock, TypeOK, ConnectionInv, TaskConnection, CurrentHasReader, LockPcs
  <2>4. ConnectionFrame
    BY <1>10, FinishMoves, GoEffect, DetachEffect, NoneIsNone
    DEF CloseLock, TypeOK, ConnectionFrame, ConnectionInv, CurrentHasReader
  <2>5. ConnectionInv'
    BY <1>10, <2>3, <2>4, ConnectionMoves, FinishMoves, GoEffect, DetachEffect
    DEF CloseLock, TypeOK
  <2> QED
    BY <2>1, <2>2, <2>5
<1>11. ASSUME NEW t \in Tasks, CloseWebsocket(t) PROVE LockHeld' /\ ConnectionInv' /\ TableInv'
  <2>1. LockHeld'
    BY <1>11, LockMoves, GoEffect DEF CloseWebsocket, CloseSocket, LockPcs, LockHeld
  <2>2. TableInv'
    BY <1>11, TablesShrink, GoEffect DEF CloseWebsocket, CloseSocket
  <2>3. TaskConnection(t)'
    BY <1>11, GoEffect
    DEF CloseWebsocket, CloseSocket, TypeOK, ConnectionInv, TaskConnection, CurrentHasReader,
        LockPcs
  <2>4. ConnectionFrame
    BY <1>11, GoEffect, NoneIsNone
    DEF CloseWebsocket, CloseSocket, TypeOK, ConnectionFrame, ConnectionInv, CurrentHasReader
  <2>5. ConnectionInv'
    BY <1>11, <2>3, <2>4, ConnectionMoves, GoEffect DEF CloseWebsocket, CloseSocket, TypeOK
  <2> QED
    BY <2>1, <2>2, <2>5
<1>12. ASSUME NEW t \in Tasks, AwaitReader(t) PROVE LockHeld' /\ ConnectionInv' /\ TableInv'
  BY <1>12, QuietStep, FinishMoves DEF AwaitReader, LockPcs
<1>13. ASSUME NEW t \in Tasks, CallRefused(t) PROVE LockHeld' /\ ConnectionInv' /\ TableInv'
  BY <1>13, QuietStep, EndCallMoves DEF CallRefused, Raise, LockPcs
<1>14. ASSUME NEW t \in Tasks, NEW e \in Events, CallSend(t, e)
      PROVE  LockHeld' /\ ConnectionInv' /\ TableInv'
  <2>1. LockHeld'
    BY <1>14, LockMoves, GoEffect DEF CallSend, Register, LockPcs, LockHeld
  <2>2. TableInv'
    BY <1>14, MaxRpcNat
    DEF CallSend, Register, TypeOK, Rpcs, TableInv, UsedIds, PendingOnCurrent,
        SubscriptionsOnCurrent
  <2>3. TaskConnection(t)'
    BY <1>14, GoEffect
    DEF CallSend, Register, TypeOK, ConnectionInv, TaskConnection, CurrentHasReader, LockPcs
  <2>4. ConnectionFrame
    BY <1>14, SameConnections DEF CallSend, Register
  <2>5. ConnectionInv'
    BY <1>14, <2>3, <2>4, ConnectionMoves, GoEffect DEF CallSend, Register, TypeOK
  <2> QED
    BY <2>1, <2>2, <2>5
<1>15. ASSUME NEW t \in Tasks, SendOk(t) PROVE LockHeld' /\ ConnectionInv' /\ TableInv'
  BY <1>15, QuietStep, GoEffect DEF SendOk, LockPcs
<1>16. ASSUME NEW t \in Tasks, SendError(t) PROVE LockHeld' /\ ConnectionInv' /\ TableInv'
  <2>0. pc[t] = "sending" /\ lock = t
    BY <1>16 DEF SendError, LockHeld, LockPcs
  <2>1. CASE /\ ws = tws[t] /\ DetachConnection(pending \ {trpc[t]}) /\ Go(t, "sendClose")
             /\ UNCHANGED <<locks, locals>>
    <3>1. LockHeld'
      BY <2>0, <2>1, LockMoves, GoEffect DEF LockPcs
    <3>2. TableInv'
      BY <1>16, <2>1, TablesShrink, DetachEffect DEF SendError
    <3>3. ws' = None /\ UNCHANGED <<rd, sock, tws>>
      BY <1>16, <2>1, DetachEffect DEF SendError
    <3>4. ConnectionFrame
      BY <3>3 DEF ConnectionFrame, CurrentHasReader
    <3>5. tws[t] \in Conns /\ rd[tws[t]] # "none"
      BY <2>0, <2>1, NoneIsNone DEF CallLocals, CallPcs, ConnectionInv, CurrentHasReader
    <3>6. TaskConnection(t)'
      BY <2>1, <3>3, <3>5, GoEffect, NoneIsNone DEF TaskConnection, LockPcs
    <3>7. ConnectionInv'
      BY <2>1, <3>3, <3>4, <3>6, ConnectionMoves, GoEffect
    <3> QED
      BY <3>1, <3>2, <3>7
  <2>2. CASE /\ ws # tws[t] /\ Unregister(trpc[t]) /\ lock' = None /\ Raise(t)
             /\ UNCHANGED <<ws, pmWs, fut, queue, subs>>
    <3>1. /\ pc'[t] \in {"idle", "forgetLock"}
          /\ \A u \in Tasks \ {t} : pc'[u] = pc[u] /\ tws'[u] = tws[u]
      BY <2>2, EndCallMoves DEF Raise
    <3>2. LockHeld'
      BY <2>0, <2>2, <3>1, LockMoves DEF LockPcs
    <3>3. TableInv'
      BY <1>16, <2>2, TablesShrink DEF SendError, Unregister
    <3>4. TaskConnection(t)'
      BY <3>1 DEF TaskConnection, LockPcs
    <3>5. ConnectionInv'
      BY <1>16, <2>2, <3>1, <3>4, SameConnections, ConnectionMoves DEF SendError
    <3> QED
      BY <3>2, <3>3, <3>5
  <2> QED
    BY <1>16, <2>1, <2>2 DEF SendError
<1>17. ASSUME NEW t \in Tasks, FailedCallClosed(t)
      PROVE  LockHeld' /\ ConnectionInv' /\ TableInv'
  <2>1. LockHeld'
    BY <1>17, LockMoves, EndCallMoves
    DEF FailedCallClosed, Raise, Unregister, Untrack, ReleaseSocket, CloseSocket, CancelReader,
        LockPcs, LockHeld
  <2>2. TableInv'
    BY <1>17, TablesShrink, EndCallMoves
    DEF FailedCallClosed, Raise, Unregister, Untrack, ReleaseSocket, CloseSocket, CancelReader
  <2>3. TaskConnection(t)'
    BY <1>17, EndCallMoves
    DEF FailedCallClosed, Raise, Unregister, Untrack, ReleaseSocket, CloseSocket, CancelReader,
        TypeOK, ConnectionInv, TaskConnection, CurrentHasReader, LockPcs
  <2>4. ConnectionFrame
    <3>1. tws[t] \in Conns /\ rd[tws[t]] # "none" /\ ws # tws[t]
      BY <1>17 DEF FailedCallClosed, ConnectionInv, TaskConnection
    <3> QED
      BY <1>17, <3>1, CancelReaderFrame DEF FailedCallClosed, ReleaseSocket
  <2>5. ConnectionInv'
    BY <1>17, <2>3, <2>4, ConnectionMoves, EndCallMoves
    DEF FailedCallClosed, Raise, Unregister, Untrack, ReleaseSocket, CloseSocket, CancelReader,
        TypeOK
  <2> QED
    BY <2>1, <2>2, <2>5
<1>18. ASSUME NEW t \in Tasks, CallReply(t) PROVE LockHeld' /\ ConnectionInv' /\ TableInv'
  BY <1>18, QuietStep, EndCallMoves DEF CallReply, Unregister, Untrack, RecordOption, LockPcs
<1>19. ASSUME NEW t \in Tasks, CallLost(t) PROVE LockHeld' /\ ConnectionInv' /\ TableInv'
  BY <1>19, QuietStep, EndCallMoves DEF CallLost, Raise, Unregister, Untrack, LockPcs
<1>20. ASSUME NEW t \in Tasks, CallTimeout(t) PROVE LockHeld' /\ ConnectionInv' /\ TableInv'
  BY <1>20, QuietStep, GoEffect DEF CallTimeout, LockPcs
<1>21. ASSUME NEW t \in Tasks, FailedCallLock(t) PROVE LockHeld' /\ ConnectionInv' /\ TableInv'
  <2>0. pc[t] = "failLock" /\ lock = None
    BY <1>21 DEF FailedCallLock
  <2>1. CASE /\ ws = tws[t] /\ DetachConnection(pending) /\ lock' = t /\ Go(t, "failClose")
             /\ UNCHANGED <<pmLock, locals>>
    <3>1. LockHeld'
      BY <2>0, <2>1, LockMoves, GoEffect DEF LockPcs
    <3>2. TableInv'
      BY <1>21, <2>1, TablesShrink, DetachEffect DEF FailedCallLock
    <3>3. ws' = None /\ UNCHANGED <<rd, sock, tws>>
      BY <1>21, <2>1, DetachEffect DEF FailedCallLock
    <3>4. ConnectionFrame
      BY <3>3 DEF ConnectionFrame, CurrentHasReader
    <3>5. tws[t] \in Conns /\ rd[tws[t]] # "none"
      BY <2>0, <2>1, NoneIsNone DEF CallLocals, CallPcs, ConnectionInv, CurrentHasReader
    <3>6. TaskConnection(t)'
      BY <2>1, <3>3, <3>5, GoEffect, NoneIsNone DEF TaskConnection, LockPcs
    <3>7. ConnectionInv'
      BY <2>1, <3>3, <3>4, <3>6, ConnectionMoves, GoEffect
    <3> QED
      BY <3>1, <3>2, <3>7
  <2>2. CASE /\ ws # tws[t] /\ Unregister(trpc[t]) /\ Untrack(trpc[t]) /\ Raise(t)
             /\ UNCHANGED <<ws, pmWs, fut, queue, lock>>
    <3>1. /\ pc'[t] \in {"idle", "forgetLock"}
          /\ \A u \in Tasks \ {t} : pc'[u] = pc[u] /\ tws'[u] = tws[u]
      BY <2>2, EndCallMoves DEF Raise
    <3>2. LockHeld'
      BY <2>0, <2>2, <3>1, LockMoves DEF LockPcs
    <3>3. TableInv'
      BY <1>21, <2>2, TablesShrink DEF FailedCallLock, Unregister, Untrack
    <3>4. TaskConnection(t)'
      BY <3>1 DEF TaskConnection, LockPcs
    <3>5. ConnectionInv'
      BY <1>21, <2>2, <3>1, <3>4, SameConnections, ConnectionMoves DEF FailedCallLock
    <3> QED
      BY <3>2, <3>3, <3>5
  <2> QED
    BY <1>21, <2>1, <2>2 DEF FailedCallLock
<1>22. ASSUME NEW t \in Tasks, NEW s \in SubIds, UnsubscribeLock(t, s)
      PROVE  LockHeld' /\ ConnectionInv' /\ TableInv'
  <2>1. /\ pc[t] \notin LockPcs /\ pc'[t] \in {"idle", "callLock"}
        /\ \A u \in Tasks \ {t} : pc'[u] = pc[u] /\ tws'[u] = tws[u]
    BY <1>22, FinishMoves, GoEffect DEF UnsubscribeLock, TypeOK, LockPcs
  <2> QED
    BY <1>22, <2>1, QuietStep DEF UnsubscribeLock, LockPcs
<1>23. ASSUME NEW t \in Tasks, ForgetSubscription(t)
      PROVE  LockHeld' /\ ConnectionInv' /\ TableInv'
  <2>1. LockHeld'
    BY <1>23, LockMoves, FinishMoves DEF ForgetSubscription, LockPcs, LockHeld
  <2>2. TableInv'
    <3>1. \A s \in SubIds : subs'[s] \in {subs[s], None}
      BY <1>23 DEF ForgetSubscription, TypeOK
    <3> QED
      BY <1>23, <3>1, TablesShrink DEF ForgetSubscription
  <2>3. TaskConnection(t)'
    BY <1>23, FinishMoves
    DEF ForgetSubscription, TypeOK, ConnectionInv, TaskConnection, CurrentHasReader, LockPcs
  <2>4. ConnectionFrame
    BY <1>23, SameConnections DEF ForgetSubscription
  <2>5. ConnectionInv'
    BY <1>23, <2>3, <2>4, ConnectionMoves, FinishMoves DEF ForgetSubscription, TypeOK
  <2> QED
    BY <2>1, <2>2, <2>5
<1>24. ASSUME NEW t \in Tasks, EnableLock(t) PROVE LockHeld' /\ ConnectionInv' /\ TableInv'
  <2>1. /\ pc[t] \notin LockPcs /\ pc'[t] \in {"idle", "callLock"}
        /\ \A u \in Tasks \ {t} : pc'[u] = pc[u] /\ tws'[u] = tws[u]
    BY <1>24, FinishMoves, GoEffect DEF EnableLock, TypeOK, LockPcs
  <2> QED
    BY <1>24, <2>1, QuietStep DEF EnableLock, LockPcs
<1>25. ASSUME NEW t \in Tasks, CancelWaiting(t) PROVE LockHeld' /\ ConnectionInv' /\ TableInv'
  BY <1>25, QuietStep, FinishMoves DEF CancelWaiting, LockPcs
<1>26. ASSUME NEW t \in Tasks, CancelLogin(t) PROVE LockHeld' /\ ConnectionInv' /\ TableInv'
  <2>1. LockHeld'
    BY <1>26, LockMoves, FinishMoves
    DEF CancelLogin, DropUntracked, CloseSocket, LockPcs, LockHeld
  <2>2. TableInv'
    BY <1>26, TablesShrink, FinishMoves DEF CancelLogin, DropUntracked, CloseSocket
  <2>3. TaskConnection(t)'
    BY <1>26, FinishMoves
    DEF CancelLogin, DropUntracked, CloseSocket, TypeOK, ConnectionInv, TaskConnection,
        CurrentHasReader, LockPcs
  <2>4. ConnectionFrame
    BY <1>26, FinishMoves, NoneIsNone
    DEF CancelLogin, DropUntracked, CloseSocket, TypeOK, ConnectionFrame, ConnectionInv,
        CurrentHasReader
  <2>5. ConnectionInv'
    BY <1>26, <2>3, <2>4, ConnectionMoves, FinishMoves
    DEF CancelLogin, DropUntracked, CloseSocket, TypeOK
  <2> QED
    BY <2>1, <2>2, <2>5
<1>27. ASSUME NEW t \in Tasks, CancelCloseWebsocket(t)
      PROVE  LockHeld' /\ ConnectionInv' /\ TableInv'
  <2>1. LockHeld'
    BY <1>27, LockMoves, FinishMoves
    DEF CancelCloseWebsocket, ReleaseSocket, CloseSocket, CancelReader, LockPcs, LockHeld
  <2>2. TableInv'
    BY <1>27, TablesShrink, FinishMoves
    DEF CancelCloseWebsocket, ReleaseSocket, CloseSocket, CancelReader
  <2>3. TaskConnection(t)'
    BY <1>27, FinishMoves
    DEF CancelCloseWebsocket, ReleaseSocket, CloseSocket, CancelReader, TypeOK, ConnectionInv,
        TaskConnection, CurrentHasReader, LockPcs
  <2>4. ConnectionFrame
    <3>1. tws[t] \in Conns /\ rd[tws[t]] # "none" /\ ws # tws[t]
      BY <1>27 DEF CancelCloseWebsocket, ConnectionInv, TaskConnection
    <3> QED
      BY <1>27, <3>1, CancelReaderFrame DEF CancelCloseWebsocket, ReleaseSocket
  <2>5. ConnectionInv'
    BY <1>27, <2>3, <2>4, ConnectionMoves, FinishMoves
    DEF CancelCloseWebsocket, ReleaseSocket, CloseSocket, CancelReader, TypeOK
  <2> QED
    BY <2>1, <2>2, <2>5
<1>28. ASSUME NEW t \in Tasks, CancelAwaitReader(t)
      PROVE  LockHeld' /\ ConnectionInv' /\ TableInv'
  <2>1. LockHeld'
    BY <1>28, LockMoves, GoEffect DEF CancelAwaitReader, CancelReader, LockPcs, LockHeld
  <2>2. TableInv'
    BY <1>28, TablesShrink, GoEffect DEF CancelAwaitReader, CancelReader
  <2>3. TaskConnection(t)'
    BY <1>28, GoEffect
    DEF CancelAwaitReader, CancelReader, TypeOK, ConnectionInv, TaskConnection,
        CurrentHasReader, LockPcs
  <2>4. ConnectionFrame
    <3>1. tws[t] \in Conns /\ rd[tws[t]] # "none" /\ ws # tws[t]
      BY <1>28 DEF CancelAwaitReader, ConnectionInv, TaskConnection
    <3> QED
      BY <1>28, <3>1, CancelReaderFrame DEF CancelAwaitReader
  <2>5. ConnectionInv'
    BY <1>28, <2>3, <2>4, ConnectionMoves, GoEffect DEF CancelAwaitReader, CancelReader, TypeOK
  <2> QED
    BY <2>1, <2>2, <2>5
<1>29. ASSUME NEW t \in Tasks, CancelCallLock(t) PROVE LockHeld' /\ ConnectionInv' /\ TableInv'
  BY <1>29, QuietStep, EndCallMoves DEF CancelCallLock, Raise, LockPcs
<1>30. ASSUME NEW t \in Tasks, CancelSending(t) PROVE LockHeld' /\ ConnectionInv' /\ TableInv'
  BY <1>30, QuietStep, EndCallMoves DEF CancelSending, Raise, Unregister, LockPcs
<1>31. ASSUME NEW t \in Tasks, CancelAwait(t) PROVE LockHeld' /\ ConnectionInv' /\ TableInv'
  BY <1>31, QuietStep, EndCallMoves DEF CancelAwait, Raise, Unregister, Untrack, LockPcs
<1>32. ASSUME NEW t \in Tasks, CancelFailedCallLock(t)
      PROVE  LockHeld' /\ ConnectionInv' /\ TableInv'
  <2>1. LockHeld'
    BY <1>32, LockMoves, EndCallMoves, DetachEffect
    DEF CancelFailedCallLock, Raise, Unregister, Untrack, ReleaseSocket, CloseSocket,
        CancelReader, LockPcs, LockHeld
  <2>2. TableInv'
    BY <1>32, TablesShrink, EndCallMoves, DetachEffect
    DEF CancelFailedCallLock, Raise, Unregister, Untrack, ReleaseSocket, CloseSocket,
        CancelReader
  <2>3. TaskConnection(t)'
    BY <1>32, EndCallMoves, DetachEffect
    DEF CancelFailedCallLock, Raise, Unregister, Untrack, ReleaseSocket, CloseSocket,
        CancelReader, TypeOK, ConnectionInv, TaskConnection, CurrentHasReader, LockPcs
  <2>4. ConnectionFrame
    BY <1>32, EndCallMoves, DetachEffect, NoneIsNone
    DEF CancelFailedCallLock, Raise, Unregister, Untrack, ReleaseSocket, CloseSocket,
        CancelReader, TypeOK, ConnectionFrame, ConnectionInv, CurrentHasReader
  <2>5. ConnectionInv'
    BY <1>32, <2>3, <2>4, ConnectionMoves, EndCallMoves, DetachEffect
    DEF CancelFailedCallLock, Raise, Unregister, Untrack, ReleaseSocket, CloseSocket,
        CancelReader, TypeOK
  <2> QED
    BY <2>1, <2>2, <2>5
<1>33. ASSUME NEW c \in Conns, NEW r \in Rpcs, NEW k \in Kinds, NEW s \in SubIds \cup {None},
              ReceiveReply(c, r, k, s)
      PROVE  LockHeld' /\ ConnectionInv' /\ TableInv'
  <2>1. LockHeld'
    BY <1>33 DEF ReceiveReply, Reading, LockHeld
  <2>2. TableInv'
    BY <1>33, TablesShrink DEF ReceiveReply, Reading
  <2>3. ConnectionFrame
    BY <1>33, NoneIsNone
    DEF ReceiveReply, Reading, TypeOK, ConnectionFrame, ConnectionInv, CurrentHasReader
  <2>4. ConnectionInv'
    BY <1>33, <2>3, ReaderMoves DEF ReceiveReply, Reading
  <2> QED
    BY <2>1, <2>2, <2>4
<1>34. ASSUME NEW c \in Conns, NEW s \in SubIds, ReceiveNotification(c, s)
      PROVE  LockHeld' /\ ConnectionInv' /\ TableInv'
  <2>1. LockHeld'
    BY <1>34 DEF ReceiveNotification, Reading, Notifies, LockHeld
  <2>2. TableInv'
    BY <1>34, TablesShrink DEF ReceiveNotification, Reading, Notifies
  <2>3. ConnectionFrame
    BY <1>34, NoneIsNone
    DEF ReceiveNotification, Reading, Notifies, TypeOK, ConnectionFrame, ConnectionInv,
        CurrentHasReader
  <2>4. ConnectionInv'
    BY <1>34, <2>3, ReaderMoves DEF ReceiveNotification, Reading, Notifies
  <2> QED
    BY <2>1, <2>2, <2>4
<1>35. ASSUME NEW c \in Conns, NEW top \in Collections \cup {None},
              NEW inner \in Collections \cup {None}, ReceiveCollection(c, top, inner)
      PROVE  LockHeld' /\ ConnectionInv' /\ TableInv'
  <2>1. LockHeld'
    BY <1>35 DEF ReceiveCollection, Reading, Notifies, LockHeld
  <2>2. TableInv'
    BY <1>35, TablesShrink DEF ReceiveCollection, Reading, Notifies
  <2>3. ConnectionFrame
    BY <1>35, NoneIsNone
    DEF ReceiveCollection, Reading, Notifies, TypeOK, ConnectionFrame, ConnectionInv,
        CurrentHasReader
  <2>4. ConnectionInv'
    BY <1>35, <2>3, ReaderMoves DEF ReceiveCollection, Reading, Notifies
  <2> QED
    BY <2>1, <2>2, <2>4
<1>36. ASSUME NEW c \in Conns, ReceiveClosed(c) PROVE LockHeld' /\ ConnectionInv' /\ TableInv'
  <2>1. LockHeld'
    BY <1>36 DEF ReceiveClosed, Reading, LockHeld
  <2>2. TableInv'
    BY <1>36, TablesShrink DEF ReceiveClosed, Reading
  <2>3. ConnectionFrame
    BY <1>36, NoneIsNone
    DEF ReceiveClosed, Reading, TypeOK, ConnectionFrame, ConnectionInv, CurrentHasReader
  <2>4. ConnectionInv'
    BY <1>36, <2>3, ReaderMoves DEF ReceiveClosed, Reading
  <2> QED
    BY <2>1, <2>2, <2>4
<1>37. ASSUME NEW c \in Conns, ReceiveBadFrame(c) PROVE LockHeld' /\ ConnectionInv' /\ TableInv'
  <2>1. LockHeld'
    BY <1>37 DEF ReceiveBadFrame, Reading, LockHeld
  <2>2. TableInv'
    BY <1>37, TablesShrink DEF ReceiveBadFrame, Reading
  <2>3. ConnectionFrame
    BY <1>37, NoneIsNone
    DEF ReceiveBadFrame, Reading, TypeOK, ConnectionFrame, ConnectionInv, CurrentHasReader
  <2>4. ConnectionInv'
    BY <1>37, <2>3, ReaderMoves DEF ReceiveBadFrame, Reading
  <2> QED
    BY <2>1, <2>2, <2>4
<1>38. ASSUME NEW c \in Conns, HandleRpcResponse(c)
      PROVE  LockHeld' /\ ConnectionInv' /\ TableInv'
  <2>1. LockHeld'
    BY <1>38 DEF HandleRpcResponse, Routed, LockHeld
  <2>2. TableInv'
    <3>1. msg[c].id \in pending => msg[c].id < nextId
      BY DEF TableInv, UsedIds
    <3>2. /\ pending' \subseteq pending
          /\ \A s \in SubIds : \/ subs'[s] = subs[s]
                               \/ subs'[s] = msg[c].id /\ ws = c /\ msg[c].id \in pending
          /\ UNCHANGED <<ws, nextId, conn>>
      BY <1>38 DEF HandleRpcResponse, TypeOK
    <3> QED
      BY <3>1, <3>2 DEF TableInv, UsedIds, PendingOnCurrent, SubscriptionsOnCurrent
  <2>3. ConnectionFrame
    BY <1>38, NoneIsNone
    DEF HandleRpcResponse, Routed, TypeOK, ConnectionFrame, ConnectionInv, CurrentHasReader
  <2>4. ConnectionInv'
    BY <1>38, <2>3, ReaderMoves DEF HandleRpcResponse, Routed
  <2> QED
    BY <2>1, <2>2, <2>4
<1>39. ASSUME NEW c \in Conns, HandleSubscriptionNotification(c)
      PROVE  LockHeld' /\ ConnectionInv' /\ TableInv'
  <2>1. LockHeld'
    BY <1>39 DEF HandleSubscriptionNotification, Routed, LockHeld
  <2>2. TableInv'
    BY <1>39, TablesShrink DEF HandleSubscriptionNotification, Routed
  <2>3. ConnectionFrame
    BY <1>39, NoneIsNone
    DEF HandleSubscriptionNotification, Routed, TypeOK, ConnectionFrame, ConnectionInv,
        CurrentHasReader
  <2>4. ConnectionInv'
    BY <1>39, <2>3, ReaderMoves DEF HandleSubscriptionNotification, Routed
  <2> QED
    BY <2>1, <2>2, <2>4
<1>40. ASSUME NEW c \in Conns, HandleCollectionTop(c)
      PROVE  LockHeld' /\ ConnectionInv' /\ TableInv'
  <2>1. LockHeld'
    BY <1>40 DEF HandleCollectionTop, Routed, LockHeld
  <2>2. TableInv'
    BY <1>40, TablesShrink DEF HandleCollectionTop, Routed
  <2>3. ConnectionFrame
    BY <1>40, NoneIsNone
    DEF HandleCollectionTop, Routed, TypeOK, ConnectionFrame, ConnectionInv, CurrentHasReader
  <2>4. ConnectionInv'
    BY <1>40, <2>3, ReaderMoves DEF HandleCollectionTop, Routed
  <2> QED
    BY <2>1, <2>2, <2>4
<1>41. ASSUME NEW c \in Conns, HandleCollectionParams(c)
      PROVE  LockHeld' /\ ConnectionInv' /\ TableInv'
  <2>1. LockHeld'
    BY <1>41 DEF HandleCollectionParams, Routed, LockHeld
  <2>2. TableInv'
    BY <1>41, TablesShrink DEF HandleCollectionParams, Routed
  <2>3. ConnectionFrame
    BY <1>41, NoneIsNone
    DEF HandleCollectionParams, Routed, TypeOK, ConnectionFrame, ConnectionInv, CurrentHasReader
  <2>4. ConnectionInv'
    BY <1>41, <2>3, ReaderMoves DEF HandleCollectionParams, Routed
  <2> QED
    BY <2>1, <2>2, <2>4
<1>42. ASSUME NEW c \in Conns, TeardownConnection(c)
      PROVE  LockHeld' /\ ConnectionInv' /\ TableInv'
  <2>1. LockHeld'
    BY <1>42 DEF TeardownConnection, DetachIfCurrent, LockHeld
  <2>2. TableInv'
    BY <1>42, TablesShrink, DetachEffect DEF TeardownConnection, DetachIfCurrent
  <2>3. ConnectionFrame
    BY <1>42, DetachEffect, NoneIsNone
    DEF TeardownConnection, DetachIfCurrent, TypeOK, ConnectionFrame, ConnectionInv,
        CurrentHasReader
  <2>4. ConnectionInv'
    BY <1>42, <2>3, ReaderMoves DEF TeardownConnection, DetachIfCurrent
  <2> QED
    BY <2>1, <2>2, <2>4
<1>43. ASSUME NEW c \in Conns, Drop(c) PROVE LockHeld' /\ ConnectionInv' /\ TableInv'
  <2>1. LockHeld'
    BY <1>43 DEF Drop, CloseSocket, LockHeld
  <2>2. TableInv'
    BY <1>43, TablesShrink DEF Drop, CloseSocket
  <2>3. ConnectionFrame
    BY <1>43, NoneIsNone
    DEF Drop, CloseSocket, TypeOK, ConnectionFrame, ConnectionInv, CurrentHasReader
  <2>4. ConnectionInv'
    BY <1>43, <2>3, ReaderMoves DEF Drop, CloseSocket
  <2> QED
    BY <2>1, <2>2, <2>4
<1>44. CASE UNCHANGED vars
  BY <1>44
  DEF vars, LockHeld, TableInv, UsedIds, PendingOnCurrent, SubscriptionsOnCurrent,
      ConnectionInv, TaskConnection, NewUnused, CurrentHasReader
<1> QED
  BY <1>1, <1>2, <1>3, <1>4, <1>5, <1>6, <1>7, <1>8, <1>9, <1>10, <1>11, <1>12, <1>13,
     <1>14, <1>15, <1>16, <1>17, <1>18, <1>19, <1>20, <1>21, <1>22, <1>23, <1>24, <1>25,
     <1>26, <1>27, <1>28, <1>29, <1>30, <1>31, <1>32, <1>33, <1>34, <1>35, <1>36, <1>37,
     <1>38, <1>39, <1>40, <1>41, <1>42, <1>43, <1>44
  DEF Next, Connect, Close, Call, Unsubscribe, Cancel, Receive, Route

LEMMA SessionAlways == Spec => []SessionInv
<1>1. Init => TypeInv /\ SessionInv
  BY TypeInit, SessionInit
<1>2. TypeInv /\ SessionInv /\ [Next]_vars => (TypeInv /\ SessionInv)'
  BY TypeStep, SessionStep
<1> QED
  BY <1>1, <1>2, PTL DEF Spec

\* _pending_calls never holds a call of a connection that is gone: every path
\* that replaces self._ws first fails and clears the calls of the old one.
THEOREM PendingAlwaysOnCurrent == Spec => []PendingOnCurrent
<1>1. SessionInv => PendingOnCurrent
  BY DEF SessionInv, TableInv
<1> QED
  BY <1>1, SessionAlways, PTL

\* _subscriptions never holds a queue of a connection that is gone, although the
\* reply hook of subscribe() and the detach of a cancelled call run unordered.
THEOREM SubscriptionsAlwaysOnCurrent == Spec => []SubscriptionsOnCurrent
<1>1. SessionInv => SubscriptionsOnCurrent
  BY DEF SessionInv, TableInv
<1> QED
  BY <1>1, SessionAlways, PTL

\* The connection in self._ws always has a reader that has not ended, so that
\* its loss will be noticed and its pending calls failed.
THEOREM CurrentAlwaysHasReader == Spec => []CurrentHasReader
<1>1. SessionInv => CurrentHasReader
  BY DEF SessionInv, ConnectionInv
<1> QED
  BY <1>1, SessionAlways, PTL
=============================================================================
