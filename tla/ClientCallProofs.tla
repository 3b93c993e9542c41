-------------------------- MODULE ClientCallProofs --------------------------
(***************************************************************************)
(* Every request of a TrueNASClient is accounted for: a pending entry has  *)
(* a task that will remove it, and a waiting task has an entry through     *)
(* which the reader or a detach can wake it.                               *)
(***************************************************************************)
EXTENDS ClientProofs

-----------------------------------------------------------------------------
(* Inductive invariants, on top of TypeInv and SessionInv *)

\* A task has a request only while it is in _call_on_connection, one that was
\* given out before and was written to the connection the task remembers.
OwnRequest(t) ==
    trpc[t] # None => pc[t] \in CallPcs /\ trpc[t] < nextId /\ conn[trpc[t]] = tws[t]

\* No two tasks share a request.
RequestsDistinct ==
    \A t, u \in Tasks : trpc[t] # None /\ trpc[t] = trpc[u] => t = u

\* WaitingCallIsPending holds from the registration on, while send() is suspended.
Wakeable(t) ==
    pc[t] \in {"sending", "await"} /\ fut[trpc[t]] = "wait" => trpc[t] \in pending

OwnerPcs == {"sending", "await", "failLock"}

CallInv ==
    /\ \A t \in Tasks : OwnRequest(t)
    /\ RequestsDistinct
    /\ \A t \in Tasks : Wakeable(t)
    /\ PendingHasOwner

\* enable_private_methods() in task t, from the moment it has its own lock: it
\* remembers an established connection, not yet known to have the option when the
\* request is still to be sent, and one that replaced it got the option from its
\* connect(), which found the flag set.
EnableTask(t) ==
    op[t] = "enable" =>
        /\ privateMethods
        /\ pc[t] \in CallPcs \cup {"pmLock", "callLock"}
        /\ pc[t] # "pmLock" =>
               /\ pmLock = t /\ tws[t] \in Conns /\ rd[tws[t]] # "none"
               /\ ws \notin {None, tws[t]} => pmWs = ws
        /\ pc[t] = "callLock" => pmWs # tws[t]
        /\ pc[t] \in CallPcs => optSent[tws[t]] > 0

ConnectTask(t) == pc[t] = "option" => privateMethods /\ optSent[tws[t]] > 0

OptionInv == (\A t \in Tasks : EnableTask(t) /\ ConnectTask(t)) /\ OptionWasSent

\* The pcs at which a task holds a connection that is not, or not any more, the
\* client's: it is being set up or closed.
HoldPcs == LockPcs \ {"opening", "retrying", "sending"}
Holds(t, c) == tws[t] = c /\ pc[t] \in HoldPcs

\* An open socket is the current one or held, and the reader gives up the current
\* connection only when its socket is closed.  Frames that break the reader void both.
SocketInv ==
    ~BadFrames =>
        /\ \A c \in Conns : sock[c] = "open" => ws = c \/ \E t \in Tasks : Holds(t, c)
        /\ ReaderKeepsOpenSocket

\* Before a method has looked at the connection its task remembers none, and
\* unsubscribe() knows its subscription from then on.
MethodLocals(t) ==
    /\ pc[t] \in {"idle", "connLock", "opening", "retrying", "closeLock", "unsubLock", "pmLock"} =>
           tws[t] = None
    /\ pc[t] = "callLock" /\ op[t] \notin {"unsubscribe", "enable"} => tws[t] = None
    /\ pc[t] \in {"unsubLock", "forgetLock"} => op[t] = "unsubscribe"
    /\ pc[t] = "pmLock" => op[t] = "enable"
    /\ op[t] = "unsubscribe" /\ pc[t] # "unsubLock" => tsid[t] \in SubIds

LocalsInv == \A t \in Tasks : MethodLocals(t)

-----------------------------------------------------------------------------

\* Only the task that takes a step moves.
Moves(t) ==
    \A u \in Tasks \ {t} : /\ pc'[u] = pc[u] /\ op'[u] = op[u] /\ tws'[u] = tws[u]
                           /\ trpc'[u] = trpc[u] /\ tsid'[u] = tsid[u]

TaskNext(t) ==
    \/ \E o \in OpNames : Start(t, o)
    \/ Connect(t) \/ Close(t) \/ Call(t) \/ Unsubscribe(t) \/ EnableLock(t) \/ Cancel(t)

ConnNext(c) == Receive(c) \/ Route(c) \/ Drop(c)

LEMMA FinishEnds ==
    ASSUME TypeOK, NEW t \in Tasks, NEW o, Finish(t, o)
    PROVE  Moves(t) /\ pc'[t] = "idle" /\ op'[t] = None /\ tws'[t] = None /\ trpc'[t] = None
BY DEF TypeOK, Finish, Go, Moves

LEMMA EndCallEnds ==
    ASSUME TypeOK, NEW t \in Tasks, NEW o, NEW rejected, EndCall(t, o, rejected)
    PROVE  /\ Moves(t) /\ pc'[t] \in {"idle", "forgetLock"} /\ trpc'[t] = None
           /\ \/ op[t] = "unsubscribe" /\ pc'[t] = "forgetLock"
                 /\ op'[t] = op[t] /\ tws'[t] = tws[t] /\ tsid'[t] = tsid[t]
              \/ pc'[t] = "idle" /\ op'[t] = None /\ tws'[t] = None
           /\ pmLock' = IF pmLock = t THEN None ELSE pmLock
<1>1. CASE Finish(t, o)
  BY <1>1, FinishEnds DEF EndCall
<1>2. CASE /\ op[t] = "unsubscribe" /\ Go(t, "forgetLock")
           /\ trpc' = [trpc EXCEPT ![t] = None]
           /\ UNCHANGED <<op, tws, tsid>>
  BY <1>2 DEF EndCall, Go, TypeOK, Moves
<1> QED
  BY <1>1, <1>2 DEF EndCall

LEMMA GoMoves ==
    ASSUME TypeOK, NEW t \in Tasks, NEW p, Go(t, p), UNCHANGED locals
    PROVE  /\ Moves(t) /\ pc'[t] = p
           /\ op'[t] = op[t] /\ tws'[t] = tws[t] /\ trpc'[t] = trpc[t] /\ tsid'[t] = tsid[t]
BY DEF TypeOK, Go, Moves, locals

LEMMA OnlyOneMoves ==
    ASSUME TypeOK, NEW t \in Tasks, TaskNext(t)
    PROVE  Moves(t)
<1> USE DEF locals
<1>1. ASSUME NEW o \in OpNames, Start(t, o) PROVE Moves(t)
  BY <1>1 DEF Start, Go, TypeOK, Moves
<1>2. CASE Connect(t)
  BY <1>2, FinishEnds, GoMoves
  DEF Connect, ConnectLock, OpenTimeout, OpenError, LoginOk, OptionReply, LoginError,
      ConnectClosed, DropUntracked, Establish, OpenWebsocket, Go, TypeOK, Moves
<1>3. CASE Close(t)
  BY <1>3, FinishEnds, GoMoves
  DEF Close, CloseLock, CloseWebsocket, AwaitReader, Go, TypeOK, Moves
<1>4. CASE Call(t)
  <2>1. ASSUME NEW e \in Events, CallSend(t, e) PROVE Moves(t)
    BY <2>1 DEF CallSend, Go, TypeOK, Moves
  <2>2. CASE CallRefused(t) \/ SendOk(t) \/ SendError(t) \/ FailedCallClosed(t)
    BY <2>2, EndCallEnds, GoMoves DEF CallRefused, SendOk, SendError, FailedCallClosed, Raise
  <2>3. CASE CallReply(t) \/ CallLost(t) \/ CallTimeout(t) \/ FailedCallLock(t)
    BY <2>3, EndCallEnds, GoMoves DEF CallReply, CallLost, CallTimeout, FailedCallLock, Raise
  <2> QED
    BY <1>4, <2>1, <2>2, <2>3 DEF Call
<1>5. CASE Unsubscribe(t)
  BY <1>5, FinishEnds
  DEF Unsubscribe, ForgetSubscription, UnsubscribeLock, Go, TypeOK, Moves
<1>6. CASE EnableLock(t)
  BY <1>6, FinishEnds DEF EnableLock, Go, TypeOK, Moves
<1>7. CASE Cancel(t)
  BY <1>7, FinishEnds, EndCallEnds, GoMoves
  DEF Cancel, CancelWaiting, CancelLogin, DropUntracked, CancelCloseWebsocket,
      CancelAwaitReader, CancelCallLock, CancelSending, CancelAwait, CancelFailedCallLock, Raise
<1> QED
  BY <1>1, <1>2, <1>3, <1>4, <1>5, <1>6, <1>7 DEF TaskNext

LEMMA NextSteps ==
    ASSUME [Next]_vars
    PROVE  \/ \E t \in Tasks : TaskNext(t)
           \/ \E c \in Conns : ConnNext(c)
           \/ UNCHANGED vars
BY DEF Next, TaskNext, ConnNext

-----------------------------------------------------------------------------
(* Requests *)

LEMMA CallInit == Init => CallInv
BY DEF Init, CallInv, OwnRequest, RequestsDistinct, Wakeable, PendingHasOwner

\* A step of task t that registers nothing: its request stays with it or ends with
\* it, and the other requests that are dropped from the table are woken.
LEMMA CallsKept ==
    ASSUME TypeInv, TypeInv', CallInv, NEW t \in Tasks, Moves(t), nextId' = nextId, conn' = conn,
           \/ trpc'[t] = None /\ trpc[t] \notin pending' /\ pc'[t] \notin CallPcs
           \/ /\ trpc'[t] = trpc[t] /\ tws'[t] = tws[t] /\ pc'[t] \in CallPcs
              /\ trpc[t] \in pending' => pc'[t] \in OwnerPcs
              /\ Wakeable(t)',
           pending' \subseteq pending,
           \A r \in Rpcs : r # trpc[t] /\ fut'[r] = "wait" =>
                               fut[r] = "wait" /\ (r \in pending => r \in pending')
    PROVE  CallInv'
<1>1. \A u \in Tasks : OwnRequest(u)'
  BY DEF CallInv, OwnRequest, Moves
<1>2. RequestsDistinct'
  BY DEF CallInv, RequestsDistinct, Moves
<1>3. \A u \in Tasks : Wakeable(u)'
  <2>1. Wakeable(t)'
    BY DEF Wakeable, CallPcs
  <2>2. ASSUME NEW u \in Tasks \ {t}, pc[u] \in {"sending", "await"}, fut'[trpc[u]] = "wait"
        PROVE  trpc[u] \in pending'
    <3>1. trpc[u] \in Rpcs /\ trpc[u] # None
      BY <2>2, ClientAssumption DEF TypeInv, CallLocals, CallPcs
    <3>2. trpc[u] # trpc[t]
      BY <3>1 DEF CallInv, RequestsDistinct
    <3> QED
      BY <2>2, <3>1, <3>2 DEF CallInv, Wakeable
  <2> QED
    BY <2>1, <2>2 DEF Wakeable, Moves
<1>4. PendingHasOwner'
  <2> SUFFICES ASSUME NEW r \in pending'
               PROVE  \E u \in Tasks : trpc'[u] = r /\ pc'[u] \in OwnerPcs
    BY DEF PendingHasOwner, OwnerPcs
  <2>1. PICK u \in Tasks : trpc[u] = r /\ pc[u] \in OwnerPcs
    BY DEF CallInv, PendingHasOwner, OwnerPcs
  <2>2. CASE u = t
    BY <2>1, <2>2
  <2>3. CASE u # t
    BY <2>1, <2>3 DEF Moves
  <2> QED
    BY <2>2, <2>3
<1> QED
  BY <1>1, <1>2, <1>3, <1>4 DEF CallInv

\* A step of a reader, of the server or of nobody.
LEMMA CallsLeft ==
    ASSUME TypeInv, CallInv, UNCHANGED <<pc, trpc, tws, nextId, conn>>,
           pending' \subseteq pending,
           \A r \in Rpcs : fut'[r] = "wait" => fut[r] = "wait" /\ (r \in pending => r \in pending')
    PROVE  CallInv'
<1>1. \A u \in Tasks : OwnRequest(u)'
  BY DEF CallInv, OwnRequest
<1>2. RequestsDistinct'
  BY DEF CallInv, RequestsDistinct
<1>3. \A u \in Tasks : Wakeable(u)'
  BY DEF CallInv, Wakeable, TypeInv, CallLocals, CallPcs
<1>4. PendingHasOwner'
  BY DEF CallInv, PendingHasOwner
<1> QED
  BY <1>1, <1>2, <1>3, <1>4 DEF CallInv

\* A detach wakes all it was told to, and drops the others with the table.
LEMMA DetachWakes ==
    ASSUME TypeOK, NEW failing, DetachConnection(failing)
    PROVE  /\ pending' = {}
           /\ \A r \in Rpcs : fut'[r] = "wait" => fut[r] = "wait" /\ r \notin failing
BY DEF TypeOK, DetachConnection, FailCalls

\* A task without a request takes a step that does not make one.
LEMMA NoRequestStep ==
    ASSUME TypeInv, TypeInv', CallInv, NEW t \in Tasks, Moves(t), nextId' = nextId, conn' = conn,
           pc[t] \notin CallPcs, pc'[t] \notin CallPcs, trpc'[t] \in {trpc[t], None},
           \/ UNCHANGED <<pending, fut>>
           \/ DetachConnection(pending)
    PROVE  CallInv'
<1>1. trpc[t] = None /\ trpc'[t] = None
  BY DEF CallInv, OwnRequest
<1>2. None \notin pending'
  BY ClientAssumption DEF TypeInv, TypeOK
<1>3. CASE UNCHANGED <<pending, fut>>
  BY <1>1, <1>2, <1>3, CallsKept
<1>4. CASE DetachConnection(pending)
  BY <1>1, <1>2, <1>4, DetachWakes, CallsKept DEF TypeInv
<1> QED
  BY <1>3, <1>4

\* _call_on_connection ends.
LEMMA RequestEnds ==
    ASSUME TypeInv, TypeInv', CallInv, NEW t \in Tasks, NEW o, NEW rejected,
           EndCall(t, o, rejected), nextId' = nextId, conn' = conn,
           \/ Unregister(trpc[t]) /\ fut' = fut
           \/ Unregister(trpc[t]) /\ CancelFuture(trpc[t])
           \/ DetachConnection(pending)
    PROVE  CallInv'
<1>1. Moves(t) /\ trpc'[t] = None /\ pc'[t] \notin CallPcs
  BY EndCallEnds DEF CallPcs, TypeInv
<1>2. CASE Unregister(trpc[t]) /\ (fut' = fut \/ CancelFuture(trpc[t]))
  <2>1. pending' = pending \ {trpc[t]}
    BY <1>2 DEF Unregister
  <2>2. \A r \in Rpcs : r # trpc[t] => fut'[r] = fut[r]
    BY <1>2 DEF CancelFuture, TypeInv, TypeOK
  <2> QED
    BY <1>1, <2>1, <2>2, CallsKept
<1>3. CASE DetachConnection(pending)
  BY <1>1, <1>3, DetachWakes, CallsKept DEF TypeInv
<1> QED
  BY <1>2, <1>3

LEMMA CallStep == TypeInv /\ SessionInv /\ CallInv /\ [Next]_vars => CallInv'
<1> SUFFICES ASSUME TypeInv, SessionInv, CallInv, [Next]_vars PROVE CallInv'
  OBVIOUS
<1>0. TypeInv' /\ TypeOK
  BY TypeStep DEF TypeInv
<1>a. ASSUME NEW t \in Tasks, TaskNext(t) PROVE Moves(t)
  BY <1>0, <1>a, OnlyOneMoves
<1> USE DEF session, locks, requests, wire, reader, locals, CallPcs
<1>1. ASSUME NEW t \in Tasks, NEW o \in OpNames, Start(t, o) PROVE CallInv'
  <2>1. pc[t] = "idle" /\ pc'[t] \notin CallPcs
    BY <1>0, <1>1, GoEffect DEF Start, FirstPc
  <2> QED
    BY <1>0, <1>1, <1>a, <2>1, NoRequestStep DEF Start, TaskNext
<1>2. ASSUME NEW t \in Tasks, Connect(t) PROVE CallInv'
  <2>1. Moves(t)
    BY <1>2, <1>a DEF TaskNext
  <2>2. /\ UNCHANGED <<nextId, conn, pending, fut>>
        /\ pc[t] \notin CallPcs /\ pc'[t] \notin CallPcs /\ trpc'[t] \in {trpc[t], None}
    BY <1>0, <1>2, FinishEnds, GoEffect
    DEF Connect, ConnectLock, OpenTimeout, OpenError, LoginOk, OptionReply, LoginError,
        ConnectClosed, DropUntracked, Establish, OpenWebsocket
  <2> QED
    BY <1>0, <2>1, <2>2, NoRequestStep
<1>3. ASSUME NEW t \in Tasks, Close(t) PROVE CallInv'
  <2>1. Moves(t)
    BY <1>3, <1>a DEF TaskNext
  <2>2. /\ UNCHANGED <<nextId, conn>>
        /\ UNCHANGED <<pending, fut>> \/ DetachConnection(pending)
        /\ pc[t] \notin CallPcs /\ pc'[t] \notin CallPcs /\ trpc'[t] \in {trpc[t], None}
    BY <1>0, <1>3, FinishEnds, GoEffect DEF Close, CloseLock, CloseWebsocket, AwaitReader
  <2> QED
    BY <1>0, <2>1, <2>2, NoRequestStep
<1>4. ASSUME NEW t \in Tasks, CallRefused(t) PROVE CallInv'
  <2>1. Moves(t)
    BY <1>4, <1>a DEF TaskNext, Call
  <2>2. pc[t] \notin CallPcs /\ pc'[t] \notin CallPcs /\ trpc'[t] = None
    BY <1>0, <1>4, EndCallEnds DEF CallRefused, Raise
  <2> QED
    BY <1>0, <1>4, <2>1, <2>2, NoRequestStep DEF CallRefused
<1>5. ASSUME NEW t \in Tasks, NEW e \in Events, CallSend(t, e) PROVE CallInv'
  <2>1. Moves(t)
    BY <1>5, <1>a DEF TaskNext, Call
  <2>2. /\ nextId \in Rpcs /\ nextId' = nextId + 1 /\ trpc'[t] = nextId
        /\ tws'[t] = ws /\ pc'[t] = "sending" /\ pc[t] = "callLock"
        /\ conn'[nextId] = ws /\ pending' = pending \cup {nextId}
        /\ \A r \in Rpcs \ {nextId} : conn'[r] = conn[r] /\ fut'[r] = fut[r]
    BY <1>0, <1>5, MaxRpcNat DEF CallSend, Register, Go, TypeOK, Rpcs
  <2>3. trpc[t] = None /\ None \notin Rpcs
    BY <2>2, ClientAssumption DEF CallInv, OwnRequest
  <2>4. ASSUME NEW u \in Tasks \ {t}, trpc[u] # None
        PROVE  trpc[u] \in Rpcs /\ trpc[u] < nextId /\ trpc[u] # nextId
    BY <1>0, <2>2, <2>4, MaxRpcNat DEF CallInv, OwnRequest, TypeOK, Rpcs
  <2>5. \A u \in Tasks : OwnRequest(u)'
    <3>1. OwnRequest(t)'
      BY <2>2, MaxRpcNat DEF OwnRequest, Rpcs
    <3>2. ASSUME NEW u \in Tasks \ {t}, trpc[u] # None PROVE trpc[u] < nextId'
      BY <2>2, <2>4, <3>2, MaxRpcNat DEF Rpcs
    <3>3. ASSUME NEW u \in Tasks \ {t} PROVE OwnRequest(u)'
      BY <2>1, <2>2, <2>4, <3>2 DEF CallInv, OwnRequest, Moves
    <3> QED
      BY <3>1, <3>3
  <2>6. RequestsDistinct'
    BY <2>1, <2>2, <2>4 DEF CallInv, RequestsDistinct, Moves
  <2>7. \A u \in Tasks : Wakeable(u)'
    <3>1. Wakeable(t)'
      BY <2>2 DEF Wakeable
    <3>2. ASSUME NEW u \in Tasks \ {t} PROVE Wakeable(u)'
      <4>1. pc[u] \in {"sending", "await"} => trpc[u] \in Rpcs
        BY DEF TypeInv, CallLocals
      <4>2. pc[u] \in {"sending", "await"} => fut'[trpc[u]] = fut[trpc[u]]
        BY <2>2, <2>3, <2>4, <4>1
      <4> QED
        BY <2>1, <2>2, <4>2 DEF CallInv, Wakeable, Moves
    <3> QED
      BY <3>1, <3>2
  <2>8. PendingHasOwner'
    <3> SUFFICES ASSUME NEW r \in pending'
                 PROVE  \E u \in Tasks : trpc'[u] = r /\ pc'[u] \in OwnerPcs
      BY DEF PendingHasOwner, OwnerPcs
    <3>1. CASE r = nextId
      BY <2>2, <3>1 DEF OwnerPcs
    <3>2. CASE r \in pending
      <4>1. PICK u \in Tasks : trpc[u] = r /\ pc[u] \in OwnerPcs
        BY <3>2 DEF CallInv, PendingHasOwner, OwnerPcs
      <4> QED
        BY <2>1, <2>2, <4>1 DEF Moves, OwnerPcs
    <3> QED
      BY <2>2, <3>1, <3>2
  <2> QED
    BY <2>5, <2>6, <2>7, <2>8 DEF CallInv
<1>6. ASSUME NEW t \in Tasks, SendOk(t) PROVE CallInv'
  <2>1. Moves(t)
    BY <1>6, <1>a DEF TaskNext, Call
  <2>2. /\ pc[t] = "sending" /\ pc'[t] = "await" /\ trpc'[t] = trpc[t] /\ tws'[t] = tws[t]
        /\ UNCHANGED <<nextId, conn, pending, fut>>
    BY <1>0, <1>6, GoMoves DEF SendOk
  <2>3. Wakeable(t)'
    BY <2>2 DEF CallInv, Wakeable
  <2> QED
    BY <1>0, <2>1, <2>2, <2>3, CallsKept DEF OwnerPcs
<1>7. ASSUME NEW t \in Tasks, SendError(t) PROVE CallInv'
  <2>1. CASE DetachConnection(pending \ {trpc[t]}) /\ Go(t, "sendClose") /\ UNCHANGED locals
    <3>1. Moves(t) /\ pc'[t] = "sendClose" /\ trpc'[t] = trpc[t] /\ tws'[t] = tws[t]
      BY <1>0, <2>1, GoMoves
    <3>2. pending' = {} /\ \A r \in Rpcs : fut'[r] = "wait" =>
                              fut[r] = "wait" /\ r \notin pending \ {trpc[t]}
      BY <1>0, <2>1, DetachWakes
    <3>3. Wakeable(t)'
      BY <3>1 DEF Wakeable
    <3> QED
      BY <1>0, <1>7, <3>1, <3>2, <3>3, CallsKept DEF SendError
  <2>2. CASE Unregister(trpc[t]) /\ Raise(t) /\ fut' = fut
    BY <1>0, <1>7, <2>2, RequestEnds DEF SendError, Raise
  <2> QED
    BY <1>7, <2>1, <2>2 DEF SendError
<1>8. ASSUME NEW t \in Tasks, FailedCallClosed(t) PROVE CallInv'
  BY <1>0, <1>8, RequestEnds DEF FailedCallClosed, Raise
<1>9. ASSUME NEW t \in Tasks, CallReply(t) PROVE CallInv'
  <2>1. PICK o, rejected : EndCall(t, o, rejected)
    BY <1>9 DEF CallReply
  <2> QED
    BY <1>0, <1>9, <2>1, RequestEnds DEF CallReply
<1>10. ASSUME NEW t \in Tasks, CallLost(t) PROVE CallInv'
  BY <1>0, <1>10, RequestEnds DEF CallLost, Raise
<1>11. ASSUME NEW t \in Tasks, CallTimeout(t) PROVE CallInv'
  <2>1. /\ Moves(t) /\ pc[t] = "await" /\ pc'[t] = "failLock"
        /\ trpc'[t] = trpc[t] /\ tws'[t] = tws[t]
        /\ UNCHANGED <<nextId, conn, pending>>
    BY <1>0, <1>11, GoMoves DEF CallTimeout
  <2>2. \A r \in Rpcs : r # trpc[t] => fut'[r] = fut[r]
    BY <1>0, <1>11 DEF CallTimeout, CancelFuture, TypeOK
  <2>3. Wakeable(t)'
    BY <2>1 DEF Wakeable
  <2> QED
    BY <1>0, <2>1, <2>2, <2>3, CallsKept DEF OwnerPcs
<1>12. ASSUME NEW t \in Tasks, FailedCallLock(t) PROVE CallInv'
  <2>1. CASE DetachConnection(pending) /\ Go(t, "failClose") /\ UNCHANGED locals
    <3>1. Moves(t) /\ pc'[t] = "failClose" /\ trpc'[t] = trpc[t] /\ tws'[t] = tws[t]
      BY <1>0, <2>1, GoMoves
    <3>2. pending' = {} /\ \A r \in Rpcs : fut'[r] = "wait" => fut[r] = "wait" /\ r \notin pending
      BY <1>0, <2>1, DetachWakes
    <3>3. Wakeable(t)'
      BY <3>1 DEF Wakeable
    <3> QED
      BY <1>0, <1>12, <3>1, <3>2, <3>3, CallsKept DEF FailedCallLock
  <2>2. CASE Unregister(trpc[t]) /\ Raise(t) /\ fut' = fut
    BY <1>0, <1>12, <2>2, RequestEnds DEF FailedCallLock, Raise
  <2> QED
    BY <1>12, <2>1, <2>2 DEF FailedCallLock
<1>13. ASSUME NEW t \in Tasks, Unsubscribe(t) PROVE CallInv'
  <2>1. Moves(t)
    BY <1>13, <1>a DEF TaskNext
  <2>2. /\ UNCHANGED <<nextId, conn, pending, fut>>
        /\ pc[t] \notin CallPcs /\ pc'[t] \notin CallPcs /\ trpc'[t] \in {trpc[t], None}
    BY <1>0, <1>13, FinishEnds, GoEffect DEF Unsubscribe, ForgetSubscription, UnsubscribeLock
  <2> QED
    BY <1>0, <2>1, <2>2, NoRequestStep
<1>14. ASSUME NEW t \in Tasks, EnableLock(t) PROVE CallInv'
  <2>1. Moves(t)
    BY <1>14, <1>a DEF TaskNext
  <2>2. /\ UNCHANGED <<nextId, conn, pending, fut>>
        /\ pc[t] \notin CallPcs /\ pc'[t] \notin CallPcs /\ trpc'[t] \in {trpc[t], None}
    BY <1>0, <1>14, FinishEnds, GoEffect DEF EnableLock
  <2> QED
    BY <1>0, <2>1, <2>2, NoRequestStep
<1>15. ASSUME NEW t \in Tasks, Cancel(t) PROVE CallInv'
  <2>1. Moves(t)
    BY <1>15, <1>a DEF TaskNext
  <2>2. CASE \/ CancelWaiting(t) \/ CancelLogin(t) \/ CancelCloseWebsocket(t)
             \/ CancelAwaitReader(t) \/ CancelCallLock(t)
    <3>1. CASE CancelWaiting(t) \/ CancelLogin(t)
      BY <1>0, <2>1, <3>1, FinishEnds, NoRequestStep DEF CancelWaiting, CancelLogin, DropUntracked
    <3>2. CASE CancelCloseWebsocket(t)
      BY <1>0, <2>1, <3>2, FinishEnds, NoRequestStep DEF CancelCloseWebsocket
    <3>3. CASE CancelAwaitReader(t)
      BY <1>0, <2>1, <3>3, GoMoves, NoRequestStep DEF CancelAwaitReader
    <3>4. CASE CancelCallLock(t)
      BY <1>0, <2>1, <3>4, EndCallEnds, NoRequestStep DEF CancelCallLock, Raise
    <3> QED
      BY <2>2, <3>1, <3>2, <3>3, <3>4
  <2>3. CASE CancelSending(t)
    BY <1>0, <2>3, RequestEnds DEF CancelSending, Raise
  <2>4. CASE CancelAwait(t)
    BY <1>0, <2>4, RequestEnds DEF CancelAwait, Raise
  <2>5. CASE CancelFailedCallLock(t)
    BY <1>0, <2>5, RequestEnds DEF CancelFailedCallLock, Raise
  <2> QED
    BY <1>15, <2>2, <2>3, <2>4, <2>5 DEF Cancel
<1>16. ASSUME NEW c \in Conns, Receive(c) \/ Drop(c) PROVE CallInv'
  <2>1. UNCHANGED <<pc, trpc, tws, nextId, conn, pending, fut>>
    BY <1>16
    DEF Receive, ReceiveReply, ReceiveNotification, ReceiveCollection, ReceiveClosed,
        ReceiveBadFrame, Reading, Drop
  <2> QED
    BY <2>1, CallsLeft
<1>17. ASSUME NEW c \in Conns, HandleRpcResponse(c) PROVE CallInv'
  <2>1. /\ UNCHANGED <<pc, trpc, tws, nextId, conn>>
        /\ pending' \subseteq pending
    BY <1>17 DEF HandleRpcResponse
  <2>2. msg[c].type = "reply" /\ msg[c].id \in Rpcs /\ msg[c].kind \in ReplyKinds
    BY <1>0, <1>17
    DEF HandleRpcResponse, TypeOK, ReplyMsgs, NoteMsgs, CollMsgs, NoMsg
  <2>3. \A r \in Rpcs : fut'[r] = "wait" => fut[r] = "wait" /\ (r \in pending => r \in pending')
    BY <1>0, <1>17, <2>2 DEF HandleRpcResponse, TypeOK, ReplyKinds
  <2> QED
    BY <2>1, <2>3, CallsLeft
<1>18. ASSUME NEW c \in Conns, \/ HandleSubscriptionNotification(c) \/ HandleCollectionTop(c)
                               \/ HandleCollectionParams(c)
       PROVE  CallInv'
  <2>1. UNCHANGED <<pc, trpc, tws, nextId, conn, pending, fut>>
    BY <1>18 DEF HandleSubscriptionNotification, HandleCollectionTop, HandleCollectionParams
  <2> QED
    BY <2>1, CallsLeft
<1>19. ASSUME NEW c \in Conns, TeardownConnection(c) PROVE CallInv'
  <2>1. UNCHANGED <<pc, trpc, tws, nextId, conn>>
    BY <1>19 DEF TeardownConnection
  <2>2. CASE DetachConnection(pending)
    BY <1>0, <2>1, <2>2, DetachWakes, CallsLeft
  <2>3. CASE UNCHANGED session
    BY <2>1, <2>3, CallsLeft
  <2> QED
    BY <1>19, <2>2, <2>3 DEF TeardownConnection, DetachIfCurrent
<1>20. CASE UNCHANGED vars
  BY <1>20, CallsLeft DEF vars
<1>21. ASSUME NEW t \in Tasks, TaskNext(t) PROVE CallInv'
  BY <1>21, <1>1, <1>2, <1>3, <1>4, <1>5, <1>6, <1>7, <1>8, <1>9, <1>10, <1>11, <1>12, <1>13,
     <1>14, <1>15
  DEF TaskNext, Call
<1>22. ASSUME NEW c \in Conns, ConnNext(c) PROVE CallInv'
  BY <1>22, <1>16, <1>17, <1>18, <1>19 DEF ConnNext, Route
<1> QED
  BY <1>20, <1>21, <1>22, NextSteps

LEMMA CallAlways == Spec => [](TypeInv /\ SessionInv /\ CallInv)
<1>1. Init => TypeInv /\ SessionInv /\ CallInv
  BY TypeInit, SessionInit, CallInit
<1>2. TypeInv /\ SessionInv /\ CallInv /\ [Next]_vars => (TypeInv /\ SessionInv /\ CallInv)'
  BY TypeStep, SessionStep, CallStep
<1> QED
  BY <1>1, <1>2, PTL DEF Spec

\* Whoever awaits a reply can still be woken by the reader or by a detach, whatever
\* was detached, with or without the lock, while its request was being sent.
THEOREM WaitingCallAlwaysPending == Spec => []WaitingCallIsPending
<1>1. CallInv => WaitingCallIsPending
  BY DEF CallInv, Wakeable, WaitingCallIsPending
<1> QED
  BY <1>1, CallAlways, PTL

\* _pending_calls holds no entry whose call has ended: every way out of
\* _call_on_connection takes its entry along.
THEOREM PendingAlwaysHasOwner == Spec => []PendingHasOwner
<1>1. CallInv => PendingHasOwner
  BY DEF CallInv
<1> QED
  BY <1>1, CallAlways, PTL

-----------------------------------------------------------------------------
(* The option of enable_private_methods() *)

LEMMA OptionInit == Init => OptionInv
BY ClientAssumption DEF Init, OptionInv, EnableTask, ConnectTask, OptionWasSent, OpNames

\* What a step does that neither establishes a connection nor records an option.
OptionFrame ==
    /\ privateMethods => privateMethods'
    /\ \A c \in Conns : optSent'[c] >= optSent[c] /\ (rd[c] # "none" => rd'[c] # "none")
    /\ UNCHANGED <<ws, pmWs>> \/ (ws' = None /\ pmWs' = None)

LEMMA OptionSentFrame ==
    ASSUME TypeOK, TypeOK', OptionFrame, OptionWasSent
    PROVE  OptionWasSent'
BY DEF TypeOK, OptionFrame, OptionWasSent

\* What the other tasks need of such a step.
LEMMA OptionTasksFrame ==
    ASSUME TypeInv, TypeInv', SessionInv, OptionFrame, NEW u \in Tasks, EnableTask(u), ConnectTask(u),
           pc'[u] = pc[u], op'[u] = op[u], tws'[u] = tws[u], pmLock = u => pmLock' = u
    PROVE  EnableTask(u)' /\ ConnectTask(u)'
<1>1. ASSUME NEW c \in Conns, optSent[c] > 0 PROVE optSent'[c] > 0
  <2>1. optSent[c] \in Nat /\ optSent'[c] \in Nat /\ optSent'[c] >= optSent[c]
    BY DEF TypeInv, TypeOK, OptionFrame
  <2> QED
    BY <1>1, <2>1
<1>2. EnableTask(u)'
  <2> SUFFICES ASSUME op[u] = "enable" PROVE EnableTask(u)'
    BY DEF EnableTask
  <2>1. /\ privateMethods' /\ pc'[u] \in CallPcs \cup {"pmLock", "callLock"}
        /\ pc[u] # "pmLock" => pmLock' = u /\ tws[u] \in Conns /\ rd'[tws[u]] # "none"
    BY DEF EnableTask, OptionFrame
  <2>2. pc[u] # "pmLock" => (ws' \notin {None, tws[u]} => pmWs' = ws')
    BY DEF EnableTask, OptionFrame
  <2>3. pc[u] = "callLock" => pmWs' # tws[u]
    BY NoneIsNone DEF EnableTask, OptionFrame
  <2>4. pc[u] \in CallPcs => optSent'[tws[u]] > 0
    BY <1>1 DEF EnableTask, CallPcs
  <2> QED
    BY <2>1, <2>2, <2>3, <2>4 DEF EnableTask
<1>3. ConnectTask(u)'
  <2>1. pc[u] = "option" => tws[u] \in Conns
    BY DEF SessionInv, ConnectionInv, TaskConnection
  <2> QED
    BY <1>1, <2>1 DEF ConnectTask, OptionFrame
<1> QED
  BY <1>2, <1>3

LEMMA OptionsKept ==
    ASSUME TypeInv, TypeInv', SessionInv, OptionInv, NEW t \in Tasks, Moves(t), OptionFrame,
           EnableTask(t)', ConnectTask(t)',
           \A u \in Tasks \ {t} : pmLock = u => pmLock' = u
    PROVE  OptionInv'
<1>1. ASSUME NEW u \in Tasks \ {t} PROVE EnableTask(u)' /\ ConnectTask(u)'
  BY OptionTasksFrame DEF OptionInv, Moves
<1>2. OptionWasSent'
  BY OptionSentFrame DEF OptionInv, TypeInv
<1> QED
  BY <1>1, <1>2 DEF OptionInv

LEMMA OptionsLeft ==
    ASSUME TypeInv, TypeInv', SessionInv, OptionInv, OptionFrame, UNCHANGED <<pc, op, tws, pmLock>>
    PROVE  OptionInv'
<1>1. ASSUME NEW u \in Tasks PROVE EnableTask(u)' /\ ConnectTask(u)'
  BY OptionTasksFrame DEF OptionInv
<1>2. OptionWasSent'
  BY OptionSentFrame DEF OptionInv, TypeInv
<1> QED
  BY <1>1, <1>2 DEF OptionInv

LEMMA NoneNoMethod == None # "enable" /\ None # "unsubscribe" /\ None # "subscribe"
BY ClientAssumption DEF OpNames

\* A method returns or raises, its request is over.
LEMMA OptionsFinish ==
    ASSUME TypeInv, TypeInv', SessionInv, OptionInv, NEW t \in Tasks, OptionFrame,
           \/ (\E o : Finish(t, o)) /\ pmLock' = pmLock
           \/ \E o, rejected : EndCall(t, o, rejected)
    PROVE  OptionInv'
<1>1. /\ Moves(t) /\ op'[t] # "enable" /\ pc'[t] \in {"idle", "forgetLock"}
      /\ \A u \in Tasks \ {t} : pmLock = u => pmLock' = u
  <2>1. CASE (\E o : Finish(t, o)) /\ pmLock' = pmLock
    <3>1. PICK o : Finish(t, o)
      BY <2>1
    <3> QED
      BY <2>1, <3>1, FinishEnds, NoneNoMethod DEF TypeInv
  <2>2. CASE \E o, rejected : EndCall(t, o, rejected)
    <3>1. PICK o, rejected : EndCall(t, o, rejected)
      BY <2>2
    <3>2. /\ Moves(t) /\ op'[t] # "enable" /\ pc'[t] \in {"idle", "forgetLock"}
          /\ pmLock' = IF pmLock = t THEN None ELSE pmLock
      BY <3>1, EndCallEnds, NoneNoMethod DEF TypeInv
    <3> QED
      BY <3>2
  <2> QED
    BY <2>1, <2>2
<1>2. EnableTask(t)' /\ ConnectTask(t)'
  BY <1>1 DEF EnableTask, ConnectTask
<1> QED
  BY <1>1, <1>2, OptionsKept

\* connect() ends.  Whoever waits in enable_private_methods() set the flag before, so
\* that the new connection has the option.
LEMMA OptionsEstablish ==
    ASSUME TypeInv, TypeInv', SessionInv, OptionInv, NEW t \in Tasks,
           pc[t] = "option" \/ (pc[t] = "login" /\ ~privateMethods), Establish(t)
    PROVE  OptionInv'
<1>1. /\ ws = None /\ pmWs = None
      /\ tws[t] \in Conns /\ rd[tws[t]] = "none"
  BY NoneIsNone
  DEF SessionInv, ConnectionInv, TaskConnection, LockPcs, OptionInv, OptionWasSent
<1>2. Moves(t) /\ pc'[t] = "idle" /\ op'[t] = None
  BY FinishEnds DEF Establish, TypeInv
<1>3. /\ ws' = tws[t] /\ pmWs' = IF privateMethods THEN tws[t] ELSE None
      /\ UNCHANGED <<privateMethods, pmLock, optSent>>
      /\ \A c \in Conns : rd[c] # "none" => rd'[c] # "none"
  BY <1>1 DEF Establish, wire, TypeInv, TypeOK
<1>4. OptionWasSent'
  <2>1. CASE privateMethods
    BY <1>3, <2>1 DEF OptionInv, ConnectTask, OptionWasSent
  <2>2. CASE ~privateMethods
    BY <1>3, <2>2 DEF OptionWasSent
  <2> QED
    BY <2>1, <2>2
<1>5. EnableTask(t)' /\ ConnectTask(t)'
  BY <1>2, NoneNoMethod DEF EnableTask, ConnectTask
<1>6. ASSUME NEW u \in Tasks \ {t} PROVE EnableTask(u)' /\ ConnectTask(u)'
  <2>1. pc'[u] = pc[u] /\ op'[u] = op[u] /\ tws'[u] = tws[u]
    BY <1>2 DEF Moves
  <2>2. EnableTask(u) /\ ConnectTask(u)
    BY DEF OptionInv
  <2>3. EnableTask(u)'
    <3> SUFFICES ASSUME op[u] = "enable" PROVE EnableTask(u)'
      BY <2>1 DEF EnableTask
    <3>1. privateMethods /\ pmWs' = ws' /\ ws' = tws[t]
      BY <1>3, <2>2 DEF EnableTask
    <3>2. pc[u] # "pmLock" => tws[u] \in Conns /\ rd[tws[u]] # "none" /\ tws[u] # tws[t]
      BY <1>1, <2>2 DEF EnableTask
    <3> QED
      BY <1>3, <2>1, <2>2, <3>1, <3>2 DEF EnableTask
  <2>4. ConnectTask(u)'
    BY <1>3, <2>1, <2>2 DEF ConnectTask
  <2> QED
    BY <2>3, <2>4
<1> QED
  BY <1>4, <1>5, <1>6 DEF OptionInv

\* A reply to a call; one of enable_private_methods() is noted.
LEMMA OptionsReply ==
    ASSUME TypeInv, TypeInv', SessionInv, OptionInv, NEW t \in Tasks, CallReply(t)
    PROVE  OptionInv'
<1> USE DEF wire, reader
<1>1. PICK o, rejected : EndCall(t, o, rejected)
  BY DEF CallReply
<1>2. UNCHANGED <<ws, privateMethods, optSent, rd>> /\ pc[t] = "await"
  BY DEF CallReply
<1>3. CASE ~(op[t] = "enable" /\ ws = tws[t])
  <2>1. pmWs' = pmWs
    BY <1>3 DEF CallReply, RecordOption
  <2>2. OptionFrame
    BY <1>2, <2>1 DEF OptionFrame, TypeInv, TypeOK
  <2> QED
    BY <1>1, <2>2, OptionsFinish
<1>4. CASE op[t] = "enable" /\ ws = tws[t]
  <2>1. pmWs' = ws /\ pmLock = t /\ tws[t] \in Conns /\ optSent[tws[t]] > 0
    BY <1>2, <1>4 DEF CallReply, RecordOption, OptionInv, EnableTask, CallPcs
  <2>2. Moves(t) /\ op'[t] # "enable" /\ pc'[t] \in {"idle", "forgetLock"}
    BY <1>1, <1>4, EndCallEnds, NoneNoMethod DEF TypeInv
  <2>3. ASSUME NEW u \in Tasks \ {t} PROVE EnableTask(u)' /\ ConnectTask(u)'
    BY <1>2, <2>1, <2>2, <2>3 DEF Moves, OptionInv, EnableTask, ConnectTask
  <2>4. EnableTask(t)' /\ ConnectTask(t)'
    BY <2>2 DEF EnableTask, ConnectTask
  <2>5. OptionWasSent'
    BY <1>2, <1>4, <2>1 DEF OptionWasSent
  <2> QED
    BY <2>3, <2>4, <2>5 DEF OptionInv
<1> QED
  BY <1>3, <1>4

LEMMA OptionStep ==
    TypeInv /\ SessionInv /\ OptionInv /\ [Next]_vars => OptionInv'
<1> SUFFICES ASSUME TypeInv, SessionInv, OptionInv, [Next]_vars PROVE OptionInv'
  OBVIOUS
<1>0. TypeInv' /\ TypeOK
  BY TypeStep DEF TypeInv
<1>a. ASSUME NEW t \in Tasks, TaskNext(t) PROVE Moves(t)
  BY <1>0, <1>a, OnlyOneMoves
<1>b. ASSUME UNCHANGED <<privateMethods, optSent>>, UNCHANGED <<ws, pmWs>> \/ (ws' = None /\ pmWs' = None),
             \A c \in Conns : rd[c] # "none" => rd'[c] # "none"
      PROVE  OptionFrame
  BY <1>0, <1>b DEF OptionFrame, TypeOK
<1>c. ASSUME NEW c, rd' = rd \/ CancelReader(c)
      PROVE  \A d \in Conns : rd[d] # "none" => rd'[d] # "none"
  BY <1>0, <1>c DEF CancelReader, TypeOK
<1>d. ASSUME NEW failing, DetachConnection(failing) PROVE ws' = None /\ pmWs' = None
  BY <1>d DEF DetachConnection
<1> USE DEF session, locks, requests, wire, reader, locals
<1>1. ASSUME NEW t \in Tasks, NEW o \in OpNames, Start(t, o) PROVE OptionInv'
  <2>1. /\ Moves(t) /\ op'[t] = o /\ pc'[t] = FirstPc(o)
        /\ privateMethods' = (privateMethods \/ o = "enable")
        /\ UNCHANGED <<ws, pmWs, optSent, rd, pmLock>>
    BY <1>0, <1>1 DEF Start, Go, TypeOK, Moves
  <2>2. OptionFrame
    BY <1>0, <2>1 DEF OptionFrame, TypeOK
  <2>3. EnableTask(t)' /\ ConnectTask(t)'
    BY <2>1 DEF EnableTask, ConnectTask, FirstPc, CallPcs, OpNames
  <2> QED
    BY <1>0, <2>1, <2>2, <2>3, OptionsKept
<1>2. ASSUME NEW t \in Tasks, Connect(t) PROVE OptionInv'
  <2>0. Moves(t)
    BY <1>2, <1>a DEF TaskNext
  <2>1. CASE \/ ConnectLock(t) /\ ws # None
             \/ OpenError(t) \/ ConnectClosed(t)
    <3>1. /\ \E o : Finish(t, o)
          /\ UNCHANGED <<privateMethods, optSent, ws, pmWs, rd, pmLock>>
      BY <2>1 DEF ConnectLock, OpenError, ConnectClosed, DropUntracked, CloseSocket
    <3> QED
      BY <1>0, <1>b, <3>1, OptionsFinish
  <2>2. ASSUME \/ ConnectLock(t) /\ ws = None
               \/ OpenTimeout(t) \/ LoginError(t)
               \/ \E c \in Conns : OpenWebsocket(t, c)
        PROVE  OptionInv'
    <3>1. /\ UNCHANGED <<privateMethods, optSent, ws, pmWs, rd, pmLock, op>>
          /\ pc[t] \in {"connLock", "opening", "retrying", "login", "option"}
          /\ pc'[t] \in {"opening", "retrying", "login", "connClose"}
      BY <1>0, <2>2, GoEffect DEF ConnectLock, OpenTimeout, LoginError, OpenWebsocket
    <3>2. EnableTask(t)' /\ ConnectTask(t)'
      BY <3>1 DEF OptionInv, EnableTask, ConnectTask, CallPcs
    <3> QED
      BY <1>0, <1>b, <2>0, <3>1, <3>2, OptionsKept
  <2>3. CASE LoginOk(t) /\ privateMethods
    <3>1. /\ UNCHANGED <<privateMethods, ws, pmWs, rd, pmLock, op, tws>> /\ pc[t] = "login"
          /\ pc'[t] = "option" /\ optSent' = [optSent EXCEPT ![tws[t]] = @ + 1]
      BY <1>0, <2>3, GoEffect DEF LoginOk
    <3>2. tws[t] \in Conns
      BY <3>1 DEF SessionInv, ConnectionInv, TaskConnection
    <3>3. OptionFrame /\ optSent'[tws[t]] > 0
      BY <1>0, <3>1, <3>2 DEF OptionFrame, TypeOK
    <3>4. EnableTask(t)' /\ ConnectTask(t)'
      BY <2>3, <3>1, <3>3 DEF OptionInv, EnableTask, ConnectTask, CallPcs
    <3> QED
      BY <1>0, <2>0, <3>1, <3>3, <3>4, OptionsKept
  <2>4. CASE (LoginOk(t) /\ ~privateMethods) \/ OptionReply(t)
    BY <1>0, <2>4, OptionsEstablish DEF LoginOk, OptionReply
  <2> QED
    BY <1>2, <2>1, <2>2, <2>3, <2>4 DEF Connect, ConnectLock
<1>3. ASSUME NEW t \in Tasks, Close(t) PROVE OptionInv'
  <2>0. Moves(t)
    BY <1>3, <1>a DEF TaskNext
  <2>1. CASE AwaitReader(t) \/ (CloseLock(t) /\ ws = None)
    <3>1. /\ \E o : Finish(t, o)
          /\ UNCHANGED <<privateMethods, optSent, ws, pmWs, rd, pmLock>>
      BY <2>1 DEF AwaitReader, CloseLock
    <3> QED
      BY <1>0, <1>b, <3>1, OptionsFinish
  <2>2. CASE CloseWebsocket(t) \/ (CloseLock(t) /\ ws # None)
    <3>1. /\ UNCHANGED <<privateMethods, optSent, rd, pmLock, op>>
          /\ UNCHANGED <<ws, pmWs>> \/ (ws' = None /\ pmWs' = None)
          /\ pc[t] \in {"closeLock", "closeWs"} /\ pc'[t] \in {"closeWs", "closeReader"}
      BY <1>0, <1>d, <2>2, GoEffect DEF CloseWebsocket, CloseLock, CloseSocket
    <3>2. EnableTask(t)' /\ ConnectTask(t)'
      BY <3>1 DEF OptionInv, EnableTask, ConnectTask, CallPcs
    <3> QED
      BY <1>0, <1>b, <2>0, <3>1, <3>2, OptionsKept
  <2> QED
    BY <1>3, <2>1, <2>2 DEF Close
<1>4. ASSUME NEW t \in Tasks, CallRefused(t) PROVE OptionInv'
  BY <1>0, <1>4, <1>b, OptionsFinish DEF CallRefused, Raise
<1>5. ASSUME NEW t \in Tasks, NEW e \in Events, CallSend(t, e) PROVE OptionInv'
  <2>1. /\ Moves(t) /\ op'[t] = op[t] /\ tws'[t] = ws /\ pc'[t] = "sending" /\ pc[t] = "callLock"
        /\ ws \in Conns /\ UNCHANGED <<privateMethods, ws, pmWs, rd, pmLock>>
        /\ op[t] = "enable" => ws = tws[t]
    BY <1>0, <1>5 DEF CallSend, ExpectationFails, Go, TypeOK, Moves
  <2>2. OptionFrame /\ (op[t] = "enable" => optSent'[ws] > 0)
    BY <1>0, <1>5, <2>1 DEF CallSend, OptionFrame, TypeOK
  <2>3. EnableTask(t)' /\ ConnectTask(t)'
    BY <2>1, <2>2 DEF OptionInv, EnableTask, ConnectTask, CallPcs
  <2> QED
    BY <1>0, <2>1, <2>2, <2>3, OptionsKept
<1>6. ASSUME NEW t \in Tasks,
             \/ SendOk(t) \/ CallTimeout(t)
             \/ SendError(t) /\ ws = tws[t]
             \/ FailedCallLock(t) /\ ws = tws[t]
      PROVE  OptionInv'
  <2>1. /\ Moves(t)
        /\ UNCHANGED <<privateMethods, optSent, rd, pmLock, op, tws>>
        /\ UNCHANGED <<ws, pmWs>> \/ (ws' = None /\ pmWs' = None)
        /\ pc[t] \in CallPcs /\ pc'[t] \in CallPcs
    BY <1>0, <1>6, <1>d, GoMoves DEF SendOk, CallTimeout, SendError, FailedCallLock, CallPcs
  <2>2. EnableTask(t)' /\ ConnectTask(t)'
    BY <2>1, NoneIsNone DEF OptionInv, EnableTask, ConnectTask, CallPcs
  <2> QED
    BY <1>0, <1>b, <2>1, <2>2, OptionsKept
<1>7. ASSUME NEW t \in Tasks,
             \/ SendError(t) /\ ws # tws[t]
             \/ FailedCallLock(t) /\ ws # tws[t]
             \/ CallLost(t)
      PROVE  OptionInv'
  BY <1>0, <1>7, <1>b, OptionsFinish DEF SendError, FailedCallLock, CallLost, Raise
<1>8. ASSUME NEW t \in Tasks, FailedCallClosed(t) PROVE OptionInv'
  BY <1>0, <1>8, <1>b, <1>c, OptionsFinish
  DEF FailedCallClosed, ReleaseSocket, CloseSocket, Raise
<1>9. ASSUME NEW t \in Tasks, CallReply(t) PROVE OptionInv'
  BY <1>0, <1>9, OptionsReply
<1>10. ASSUME NEW t \in Tasks, Unsubscribe(t) PROVE OptionInv'
  <2>0. Moves(t)
    BY <1>10, <1>a DEF TaskNext
  <2>1. ASSUME NEW s \in SubIds, UnsubscribeLock(t, s) PROVE OptionInv'
    <3>1. CASE subs[s] = None
      BY <1>0, <1>b, <2>1, <3>1, OptionsFinish DEF UnsubscribeLock
    <3>2. CASE subs[s] # None
      <4>1. /\ UNCHANGED <<privateMethods, optSent, ws, pmWs, rd, pmLock, op>>
            /\ pc[t] = "unsubLock" /\ pc'[t] = "callLock"
        BY <1>0, <2>1, <3>2, GoEffect DEF UnsubscribeLock
      <4>2. EnableTask(t)' /\ ConnectTask(t)'
        BY <4>1 DEF OptionInv, EnableTask, ConnectTask, CallPcs
      <4> QED
        BY <1>0, <1>b, <2>0, <4>1, <4>2, OptionsKept
    <3> QED
      BY <3>1, <3>2
  <2>2. CASE ForgetSubscription(t)
    BY <1>0, <1>b, <2>2, OptionsFinish DEF ForgetSubscription
  <2> QED
    BY <1>10, <2>1, <2>2 DEF Unsubscribe
<1>11. ASSUME NEW t \in Tasks, EnableLock(t) PROVE OptionInv'
  <2>1. CASE ~OptionMissing
    BY <1>0, <1>b, <1>11, <2>1, OptionsFinish DEF EnableLock
  <2>2. CASE OptionMissing
    <3>1. /\ Moves(t) /\ UNCHANGED <<privateMethods, optSent, ws, pmWs, rd, op>>
          /\ pc[t] = "pmLock" /\ pc'[t] = "callLock" /\ tws'[t] = ws
          /\ pmLock = None /\ pmLock' = t /\ ws \in Conns /\ pmWs # ws
      BY <1>0, <1>11, <2>2 DEF EnableLock, MayEnable, OptionMissing, Go, TypeOK, Moves
    <3>2. rd[ws] # "none" /\ (op[t] = "enable" => privateMethods)
      BY <3>1, NoneIsNone
      DEF OptionInv, EnableTask, SessionInv, ConnectionInv, CurrentHasReader
    <3>3. EnableTask(t)' /\ ConnectTask(t)'
      BY <3>1, <3>2 DEF EnableTask, ConnectTask, CallPcs
    <3> QED
      BY <1>0, <1>b, <3>1, <3>3, NoneIsNone, OptionsKept
  <2> QED
    BY <2>1, <2>2
<1>12. ASSUME NEW t \in Tasks, Cancel(t) PROVE OptionInv'
  <2>1. CASE CancelWaiting(t) \/ CancelLogin(t)
    <3>1. /\ \E o : Finish(t, o)
          /\ UNCHANGED <<privateMethods, optSent, ws, pmWs, rd, pmLock>>
      BY <2>1 DEF CancelWaiting, CancelLogin, DropUntracked, CloseSocket
    <3> QED
      BY <1>0, <1>b, <3>1, OptionsFinish
  <2>2. CASE CancelCloseWebsocket(t)
    BY <1>0, <1>b, <1>c, <2>2, OptionsFinish
    DEF CancelCloseWebsocket, ReleaseSocket, CloseSocket
  <2>3. CASE CancelAwaitReader(t)
    <3>1. /\ Moves(t) /\ UNCHANGED <<privateMethods, optSent, ws, pmWs, pmLock, op>>
          /\ pc[t] \in {"closeReader", "closeCancelled"} /\ pc'[t] = "closeCancelled"
          /\ CancelReader(tws[t])
      BY <1>0, <2>3, GoMoves DEF CancelAwaitReader
    <3>2. EnableTask(t)' /\ ConnectTask(t)'
      BY <3>1 DEF OptionInv, EnableTask, ConnectTask, CallPcs
    <3> QED
      BY <1>0, <1>b, <1>c, <3>1, <3>2, OptionsKept
  <2>4. CASE CancelCallLock(t) \/ CancelSending(t) \/ CancelAwait(t)
    BY <1>0, <1>b, <2>4, OptionsFinish DEF CancelCallLock, CancelSending, CancelAwait, Raise
  <2>5. CASE CancelFailedCallLock(t)
    <3>1. CASE ws = tws[t]
      <4>1. OptionFrame
        BY <1>0, <1>b, <1>c, <1>d, <2>5, <3>1
        DEF CancelFailedCallLock, ReleaseSocket, CloseSocket
      <4> QED
        BY <1>0, <2>5, <4>1, OptionsFinish DEF CancelFailedCallLock, Raise
    <3>2. CASE ws # tws[t]
      BY <1>0, <1>b, <2>5, <3>2, OptionsFinish DEF CancelFailedCallLock, Raise
    <3> QED
      BY <3>1, <3>2
  <2> QED
    BY <1>12, <2>1, <2>2, <2>3, <2>4, <2>5 DEF Cancel
<1>13. ASSUME NEW c \in Conns, ConnNext(c) PROVE OptionInv'
  <2>1. CASE Receive(c)
    <3>1. /\ UNCHANGED <<pc, op, tws, pmLock, privateMethods, optSent, ws, pmWs>>
          /\ \A d \in Conns : rd[d] # "none" => rd'[d] # "none"
      BY <1>0, <2>1
      DEF Receive, ReceiveReply, ReceiveNotification, ReceiveCollection, ReceiveClosed,
          ReceiveBadFrame, Reading, TypeOK
    <3> QED
      BY <1>0, <1>b, <3>1, OptionsLeft
  <2>2. CASE Drop(c)
    BY <1>0, <1>b, <2>2, OptionsLeft DEF Drop, CloseSocket
  <2>3. CASE Route(c)
    <3>1. /\ UNCHANGED <<pc, op, tws, pmLock, privateMethods, optSent>>
          /\ UNCHANGED <<ws, pmWs>> \/ (ws' = None /\ pmWs' = None)
      BY <1>d, <2>3
      DEF Route, HandleRpcResponse, HandleSubscriptionNotification, HandleCollectionTop,
          HandleCollectionParams, TeardownConnection, DetachIfCurrent
    <3>2. \A d \in Conns : rd[d] # "none" => rd'[d] # "none"
      BY <1>0, <2>3
      DEF Route, HandleRpcResponse, HandleSubscriptionNotification, HandleCollectionTop,
          HandleCollectionParams, TeardownConnection, Routed, TypeOK
    <3> QED
      BY <1>0, <1>b, <3>1, <3>2, OptionsLeft
  <2> QED
    BY <1>13, <2>1, <2>2, <2>3 DEF ConnNext
<1>14. CASE UNCHANGED vars
  BY <1>0, <1>14, <1>b, OptionsLeft DEF vars
<1>15. ASSUME NEW t \in Tasks, TaskNext(t) PROVE OptionInv'
  BY <1>15, <1>1, <1>2, <1>3, <1>4, <1>5, <1>6, <1>7, <1>8, <1>9, <1>10, <1>11, <1>12
  DEF TaskNext, Call
<1> QED
  BY <1>13, <1>14, <1>15, NextSteps

LEMMA OptionAlways == Spec => [](TypeInv /\ SessionInv /\ OptionInv)
<1>1. Init => TypeInv /\ SessionInv /\ OptionInv
  BY TypeInit, SessionInit, OptionInit
<1>2. TypeInv /\ SessionInv /\ OptionInv /\ [Next]_vars => (TypeInv /\ SessionInv /\ OptionInv)'
  BY TypeStep, SessionStep, OptionStep
<1> QED
  BY <1>1, <1>2, PTL DEF Spec

\* _private_methods_ws is None or the current connection, and core.set_options was
\* written to it, by connect() or by enable_private_methods().
THEOREM OptionAlwaysSent == Spec => []OptionWasSent
<1>1. OptionInv => OptionWasSent
  BY DEF OptionInv
<1> QED
  BY <1>1, OptionAlways, PTL

\* No step writes core.set_options to the connection recorded as having it, although
\* enable_private_methods() reads self._ws without self._lock.
THEOREM OptionNeverResent == Spec => OptionNotResent
<1>1. ASSUME TypeInv, SessionInv, OptionInv, [Next]_vars
      PROVE  [\A c \in Conns : optSent'[c] > optSent[c] => pmWs # c]_vars
  <2> USE DEF wire
  <2>1. TypeOK
    BY <1>1 DEF TypeInv
  <2>2. ASSUME NEW t \in Tasks, LoginOk(t), privateMethods
        PROVE  \A c \in Conns : pmWs # c
    BY <1>1, <2>2, NoneIsNone
    DEF LoginOk, SessionInv, ConnectionInv, TaskConnection, LockPcs, OptionInv, OptionWasSent
  <2>3. ASSUME NEW t \in Tasks, NEW e \in Events, CallSend(t, e)
        PROVE  \A c \in Conns : optSent'[c] > optSent[c] => pmWs # c
    <3>1. CASE op[t] = "enable"
      <4>1. pmWs # ws
        BY <1>1, <2>3, <3>1 DEF CallSend, ExpectationFails, OptionInv, EnableTask
      <4> QED
        BY <2>1, <2>3, <3>1, <4>1 DEF CallSend, TypeOK
    <3>2. CASE op[t] # "enable"
      BY <2>1, <2>3, <3>2 DEF CallSend, TypeOK
    <3> QED
      BY <3>1, <3>2
  <2>4. ASSUME NEW t \in Tasks, TaskNext(t), ~(LoginOk(t) /\ privateMethods),
               ~\E e \in Events : CallSend(t, e)
        PROVE  optSent' = optSent
    <3>1. CASE Connect(t)
      BY <2>4, <3>1
      DEF Connect, ConnectLock, OpenTimeout, OpenError, LoginOk, OptionReply, LoginError,
          ConnectClosed, DropUntracked, CloseSocket, Establish, OpenWebsocket
    <3>2. CASE (\E o \in OpNames : Start(t, o)) \/ Close(t) \/ Unsubscribe(t) \/ EnableLock(t)
      BY <3>2
      DEF Start, Close, CloseLock, CloseWebsocket, CloseSocket, AwaitReader, Unsubscribe,
          UnsubscribeLock, ForgetSubscription, EnableLock
    <3>3. CASE Call(t)
      BY <2>4, <3>3
      DEF Call, CallRefused, SendOk, SendError, FailedCallClosed, ReleaseSocket, CloseSocket,
          CallReply, CallLost, CallTimeout, FailedCallLock
    <3>4. CASE Cancel(t)
      BY <3>4
      DEF Cancel, CancelWaiting, CancelLogin, DropUntracked, CancelCloseWebsocket, ReleaseSocket,
          CloseSocket, CancelAwaitReader, CancelCallLock, CancelSending, CancelAwait,
          CancelFailedCallLock
    <3> QED
      BY <2>4, <3>1, <3>2, <3>3, <3>4 DEF TaskNext
  <2>5. ASSUME NEW c \in Conns, ConnNext(c) PROVE optSent' = optSent
    BY <2>5
    DEF ConnNext, Receive, ReceiveReply, ReceiveNotification, ReceiveCollection, ReceiveClosed,
        ReceiveBadFrame, Reading, Drop, CloseSocket, Route, HandleRpcResponse,
        HandleSubscriptionNotification, HandleCollectionTop, HandleCollectionParams,
        TeardownConnection
  <2>6. optSent' = optSent => \A c \in Conns : ~(optSent'[c] > optSent[c])
    BY <2>1 DEF TypeOK
  <2> QED
    BY <1>1, <2>2, <2>3, <2>4, <2>5, <2>6, NextSteps
<1> QED
  BY OptionAlways, <1>1, PTL DEF Spec, OptionNotResent

\* Once enable_private_methods() has returned, the connection there is has the option,
\* whatever was closed and opened while it waited.
THEOREM EnableAlwaysTakesEffect == Spec => EnableTakesEffect
<1>1. ASSUME TypeInv, SessionInv, OptionInv, [Next]_vars
      PROVE  [\A t \in Tasks : op[t] = "enable" /\ pc'[t] = "idle" /\ out'[t] = "returned"
                                => ws' = None \/ pmWs' = ws']_vars
  <2> SUFFICES ASSUME NEW t \in Tasks, op[t] = "enable", pc'[t] = "idle", out'[t] = "returned",
                      ~UNCHANGED vars
               PROVE  ws' = None \/ pmWs' = ws'
    OBVIOUS
  <2>0. TypeOK
    BY <1>1 DEF TypeInv
  <2>1. pc[t] \in CallPcs \cup {"pmLock", "callLock"} /\ pc[t] # "idle"
    BY <1>1 DEF OptionInv, EnableTask, CallPcs
  <2>2. TaskNext(t)
    <3>1. ASSUME NEW c \in Conns, ConnNext(c) PROVE pc' = pc
      BY <3>1
      DEF ConnNext, Receive, ReceiveReply, ReceiveNotification, ReceiveCollection, ReceiveClosed,
          ReceiveBadFrame, Reading, Drop, Route, HandleRpcResponse,
          HandleSubscriptionNotification, HandleCollectionTop, HandleCollectionParams,
          TeardownConnection
    <3>2. ASSUME NEW u \in Tasks, u # t, TaskNext(u) PROVE pc'[t] = pc[t]
      BY <2>0, <3>2, OnlyOneMoves DEF Moves
    <3> QED
      BY <1>1, <2>1, <3>1, <3>2, NextSteps
  <2>3. CASE EnableLock(t)
    BY <2>0, <2>3, GoEffect DEF EnableLock, OptionMissing, session
  <2>4. CASE CallReply(t)
    <3>1. /\ pmWs' = (IF ws = tws[t] THEN ws ELSE pmWs) /\ ws' = ws /\ pc[t] = "await"
      BY <2>4 DEF CallReply, RecordOption
    <3>2. ws \in {None, tws[t]} \/ pmWs = ws
      BY <1>1, <3>1 DEF OptionInv, EnableTask
    <3> QED
      BY <3>1, <3>2
  <2>5. ASSUME Raise(t) PROVE FALSE
    BY <2>0, <2>5 DEF Raise, EndCall, Finish, TypeOK
  <2>6. CASE Call(t) /\ ~CallReply(t)
    BY <2>0, <2>5, <2>6, GoEffect
    DEF Call, CallRefused, CallSend, SendOk, SendError, FailedCallClosed, CallLost, CallTimeout,
        FailedCallLock
  <2>7. CASE Cancel(t)
    <3>1. ~CancelLogin(t) /\ ~CancelCloseWebsocket(t) /\ ~CancelAwaitReader(t)
      BY <2>1 DEF CancelLogin, CancelCloseWebsocket, CancelAwaitReader, CallPcs
    <3>2. ~CancelWaiting(t)
      BY <2>0 DEF CancelWaiting, Finish, TypeOK
    <3> QED
      BY <2>5, <2>7, <3>1, <3>2
      DEF Cancel, CancelCallLock, CancelSending, CancelAwait, CancelFailedCallLock
  <2>8. CASE \/ \E o \in OpNames : Start(t, o)
             \/ Connect(t) \/ Close(t) \/ Unsubscribe(t)
    BY <2>1, <2>8
    DEF CallPcs, Start, Connect, ConnectLock, OpenTimeout, OpenError, LoginOk, OptionReply,
        LoginError, ConnectClosed, OpenWebsocket, Close, CloseLock, CloseWebsocket, AwaitReader,
        Unsubscribe, ForgetSubscription, UnsubscribeLock
  <2> QED
    BY <2>2, <2>3, <2>4, <2>6, <2>7, <2>8 DEF TaskNext
<1> QED
  BY OptionAlways, <1>1, PTL DEF Spec, EnableTakesEffect

-----------------------------------------------------------------------------
(* Sockets *)

LEMMA SocketInit == Init => SocketInv
BY NoneIsNone DEF Init, SocketInv, ReaderKeepsOpenSocket

\* What becomes of the readers and the sockets in a step that gives up no current
\* connection whose socket is open.
ReaderFrame ==
    \A c \in Conns : rd'[c] = "teardown" /\ ws' = c =>
        \/ sock'[c] = "closed"
        \/ rd[c] = "teardown" /\ ws = c /\ sock'[c] = sock[c]

LEMMA ReaderFrameKeeps ==
    ASSUME SocketInv, ReaderFrame, ~BadFrames
    PROVE  ReaderKeepsOpenSocket'
BY DEF SocketInv, ReaderFrame, ReaderKeepsOpenSocket

\* An open socket that task t gave up is the current one or held by t.
LEMMA SocketsKept ==
    ASSUME SocketInv, ReaderFrame, NEW t \in Tasks, Moves(t),
           \A c \in Conns : sock'[c] = "open" =>
               \/ ws' = c \/ Holds(t, c)'
               \/ sock[c] = "open" /\ ws # c /\ ~Holds(t, c)
    PROVE  SocketInv'
<1> SUFFICES ASSUME ~BadFrames PROVE SocketInv'
  BY DEF SocketInv
<1>1. ReaderKeepsOpenSocket'
  BY ReaderFrameKeeps
<1>2. ASSUME NEW c \in Conns, sock'[c] = "open" PROVE ws' = c \/ \E u \in Tasks : Holds(u, c)'
  <2>1. CASE ws' = c \/ Holds(t, c)'
    BY <2>1
  <2>2. CASE sock[c] = "open" /\ ws # c /\ ~Holds(t, c)
    <3>1. PICK u \in Tasks : Holds(u, c)
      BY <2>2 DEF SocketInv
    <3>2. Holds(u, c)'
      BY <2>2, <3>1 DEF Moves, Holds
    <3> QED
      BY <3>2
  <2> QED
    BY <1>2, <2>1, <2>2
<1> QED
  BY <1>1, <1>2 DEF SocketInv

LEMMA SocketsLeft ==
    ASSUME SocketInv, ReaderFrame, UNCHANGED <<pc, tws>>,
           \A c \in Conns : sock'[c] = "open" => sock[c] = "open" /\ (ws = c => ws' = c)
    PROVE  SocketInv'
<1> SUFFICES ASSUME ~BadFrames PROVE SocketInv'
  BY DEF SocketInv
<1>1. ReaderKeepsOpenSocket'
  BY ReaderFrameKeeps
<1> QED
  BY <1>1 DEF SocketInv, Holds

\* The task holds no connection, and leaves the sockets alone.
LEMMA SocketsQuiet ==
    ASSUME SocketInv, NEW t \in Tasks, Moves(t), pc[t] \notin HoldPcs, UNCHANGED <<sock, ws, rd>>
    PROVE  SocketInv'
BY SocketsKept DEF ReaderFrame, Holds

\* A task closes the socket it holds.
LEMMA SocketsClose ==
    ASSUME TypeOK, SessionInv, SocketInv, NEW t \in Tasks, Moves(t), pc[t] \in HoldPcs,
           CloseSocket(tws[t]), ws' = ws, rd' = rd \/ CancelReader(tws[t])
    PROVE  SocketInv'
<1>1. ws = None /\ tws[t] \in Conns
  BY DEF HoldPcs, LockPcs, SessionInv, ConnectionInv, TaskConnection
<1>2. sock'[tws[t]] = "closed" /\ \A c \in Conns \ {tws[t]} : sock'[c] = sock[c]
  BY <1>1 DEF CloseSocket, TypeOK
<1>3. ReaderFrame
  BY <1>1, NoneIsNone DEF ReaderFrame
<1> QED
  BY <1>1, <1>2, <1>3, NoneIsNone, SocketsKept DEF Holds

\* A task detaches the current connection to close it.
LEMMA SocketsDetach ==
    ASSUME SocketInv, NEW t \in Tasks, Moves(t), pc[t] \notin HoldPcs, ws' = None,
           UNCHANGED <<sock, rd>>, pc'[t] \in HoldPcs, tws'[t] = ws
    PROVE  SocketInv'
BY SocketsKept, NoneIsNone DEF ReaderFrame, Holds

LEMMA SocketsEstablish ==
    ASSUME TypeOK, SessionInv, SocketInv, NEW t \in Tasks, Moves(t), pc[t] \in {"login", "option"},
           Establish(t)
    PROVE  SocketInv'
<1>1. ws = None /\ tws[t] \in Conns
  BY DEF LockPcs, SessionInv, ConnectionInv, TaskConnection
<1>2. ws' = tws[t] /\ rd'[tws[t]] = "recv" /\ sock' = sock
  BY <1>1 DEF Establish, wire, TypeOK
<1>3. ReaderFrame
  BY <1>2 DEF ReaderFrame
<1> QED
  BY <1>1, <1>2, <1>3, NoneIsNone, SocketsKept DEF Holds

LEMMA SocketStep == TypeInv /\ SessionInv /\ SocketInv /\ [Next]_vars => SocketInv'
<1> SUFFICES ASSUME TypeInv, TypeOK, SessionInv, SocketInv, [Next]_vars PROVE SocketInv'
  BY DEF TypeInv
<1>a. ASSUME NEW t \in Tasks, TaskNext(t) PROVE Moves(t)
  BY <1>a, OnlyOneMoves
<1> USE DEF session, locks, requests, wire, reader, locals
<1>1. ASSUME NEW t \in Tasks, NEW o \in OpNames, Start(t, o) PROVE SocketInv'
  BY <1>1, <1>a, SocketsQuiet DEF TaskNext, Start, HoldPcs, LockPcs
<1>2. ASSUME NEW t \in Tasks, Connect(t) PROVE SocketInv'
  <2>0. Moves(t)
    BY <1>2, <1>a DEF TaskNext
  <2>1. CASE ConnectLock(t) \/ OpenTimeout(t) \/ OpenError(t)
    BY <2>0, <2>1, SocketsQuiet DEF ConnectLock, OpenTimeout, OpenError, HoldPcs, LockPcs
  <2>2. ASSUME NEW c \in Conns, OpenWebsocket(t, c) PROVE SocketInv'
    <3>1. /\ pc[t] \notin HoldPcs /\ Holds(t, c)' /\ UNCHANGED <<ws, rd>>
          /\ \A d \in Conns \ {c} : sock'[d] = sock[d]
      BY <2>2, GoEffect DEF OpenWebsocket, HoldPcs, LockPcs, Holds, TypeOK
    <3>2. rd[c] # "teardown" /\ \A d \in Conns \ {c} : sock'[d] = sock[d]
      BY <2>2, <3>1 DEF OpenWebsocket, SessionInv, ConnectionInv, NewUnused
    <3>3. ReaderFrame
      BY <3>1, <3>2 DEF ReaderFrame
    <3> QED
      BY <2>0, <3>1, <3>3, SocketsKept DEF Holds
  <2>3. CASE LoginError(t) \/ (LoginOk(t) /\ privateMethods)
    <3>1. /\ UNCHANGED <<sock, ws, rd>> /\ tws'[t] = tws[t]
          /\ pc'[t] \in HoldPcs /\ pc[t] \in HoldPcs
      BY <2>3, GoEffect DEF LoginError, LoginOk, HoldPcs, LockPcs
    <3> QED
      BY <2>0, <3>1, SocketsKept DEF ReaderFrame, Holds
  <2>4. CASE (LoginOk(t) /\ ~privateMethods) \/ OptionReply(t)
    BY <2>0, <2>4, SocketsEstablish DEF LoginOk, OptionReply
  <2>5. CASE ConnectClosed(t)
    BY <2>0, <2>5, SocketsClose DEF ConnectClosed, DropUntracked, HoldPcs, LockPcs
  <2> QED
    BY <1>2, <2>1, <2>2, <2>3, <2>4, <2>5 DEF Connect
<1>3. ASSUME NEW t \in Tasks, Close(t) PROVE SocketInv'
  <2>0. Moves(t)
    BY <1>3, <1>a DEF TaskNext
  <2>1. CASE AwaitReader(t) \/ (CloseLock(t) /\ ws = None)
    BY <2>0, <2>1, SocketsQuiet DEF AwaitReader, CloseLock, HoldPcs, LockPcs
  <2>2. CASE CloseLock(t) /\ ws # None
    <3>1. ws' = None /\ pc'[t] \in HoldPcs /\ tws'[t] = ws
      BY <2>2, DetachEffect, GoEffect DEF CloseLock, HoldPcs, LockPcs, TypeOK
    <3> QED
      BY <2>0, <2>2, <3>1, SocketsDetach DEF CloseLock, HoldPcs, LockPcs
  <2>3. CASE CloseWebsocket(t)
    BY <2>0, <2>3, SocketsClose DEF CloseWebsocket, HoldPcs, LockPcs
  <2> QED
    BY <1>3, <2>1, <2>2, <2>3 DEF Close
<1>4. ASSUME NEW t \in Tasks, Call(t) PROVE SocketInv'
  <2>0. Moves(t)
    BY <1>4, <1>a DEF TaskNext
  <2>1. CASE \/ CallRefused(t) \/ SendOk(t) \/ CallReply(t) \/ CallLost(t) \/ CallTimeout(t)
             \/ SendError(t) /\ ws # tws[t]
             \/ FailedCallLock(t) /\ ws # tws[t]
             \/ \E e \in Events : CallSend(t, e)
    <3>1. pc[t] \notin HoldPcs /\ UNCHANGED <<sock, ws, rd>>
      BY <2>1
      DEF CallRefused, SendOk, CallReply, CallLost, CallTimeout, SendError, FailedCallLock,
          CallSend, HoldPcs, LockPcs
    <3> QED
      BY <2>0, <3>1, SocketsQuiet
  <2>2. CASE (SendError(t) /\ ws = tws[t]) \/ (FailedCallLock(t) /\ ws = tws[t])
    <3>1. /\ ws' = None /\ pc'[t] \in HoldPcs /\ tws'[t] = ws /\ pc[t] \notin HoldPcs
          /\ UNCHANGED <<sock, rd>>
      BY <2>2, DetachEffect, GoEffect DEF SendError, FailedCallLock, HoldPcs, LockPcs
    <3> QED
      BY <2>0, <3>1, SocketsDetach
  <2>3. CASE FailedCallClosed(t)
    BY <2>0, <2>3, SocketsClose DEF FailedCallClosed, ReleaseSocket, HoldPcs, LockPcs
  <2> QED
    BY <1>4, <2>1, <2>2, <2>3 DEF Call
<1>5. ASSUME NEW t \in Tasks, Unsubscribe(t) \/ EnableLock(t) PROVE SocketInv'
  <2>1. Moves(t)
    BY <1>5, <1>a DEF TaskNext
  <2>2. pc[t] \notin HoldPcs /\ UNCHANGED <<sock, ws, rd>>
    BY <1>5 DEF Unsubscribe, UnsubscribeLock, ForgetSubscription, EnableLock, HoldPcs, LockPcs
  <2> QED
    BY <2>1, <2>2, SocketsQuiet
<1>6. ASSUME NEW t \in Tasks, Cancel(t) PROVE SocketInv'
  <2>0. Moves(t)
    BY <1>6, <1>a DEF TaskNext
  <2>1. CASE \/ CancelWaiting(t) \/ CancelCallLock(t) \/ CancelSending(t) \/ CancelAwait(t)
             \/ CancelFailedCallLock(t) /\ ws # tws[t]
    <3>1. pc[t] \notin HoldPcs /\ UNCHANGED <<sock, ws, rd>>
      BY <2>1
      DEF CancelWaiting, CancelCallLock, CancelSending, CancelAwait, CancelFailedCallLock,
          HoldPcs, LockPcs
    <3> QED
      BY <2>0, <3>1, SocketsQuiet
  <2>2. CASE CancelLogin(t) \/ CancelCloseWebsocket(t)
    BY <2>0, <2>2, SocketsClose
    DEF CancelLogin, DropUntracked, CancelCloseWebsocket, ReleaseSocket, HoldPcs, LockPcs
  <2>3. CASE CancelAwaitReader(t)
    <3>1. pc[t] \notin HoldPcs /\ UNCHANGED <<sock, ws>> /\ tws[t] \in Conns /\ ws # tws[t]
      BY <2>3
      DEF CancelAwaitReader, HoldPcs, LockPcs, SessionInv, ConnectionInv, TaskConnection
    <3>2. \A c \in Conns \ {tws[t]} : rd'[c] = rd[c]
      BY <2>3 DEF CancelAwaitReader, CancelReader, TypeOK
    <3>3. ReaderFrame
      BY <3>1, <3>2 DEF ReaderFrame
    <3> QED
      BY <2>0, <3>1, <3>3, SocketsKept DEF Holds
  <2>4. CASE CancelFailedCallLock(t) /\ ws = tws[t]
    <3>1. /\ pc[t] \notin HoldPcs /\ ws' = None /\ tws[t] \in Conns
          /\ CloseSocket(tws[t])
      BY <2>4, DetachEffect
      DEF CancelFailedCallLock, ReleaseSocket, HoldPcs, LockPcs, TypeInv, CallLocals, CallPcs
    <3>2. sock'[tws[t]] = "closed" /\ \A c \in Conns \ {tws[t]} : sock'[c] = sock[c]
      BY <3>1 DEF CloseSocket, TypeOK
    <3>3. ReaderFrame
      BY <3>1, NoneIsNone DEF ReaderFrame
    <3> QED
      BY <2>0, <2>4, <3>1, <3>2, <3>3, SocketsKept DEF Holds
  <2> QED
    BY <1>6, <2>1, <2>2, <2>3, <2>4 DEF Cancel
<1>7. ASSUME NEW c \in Conns, Receive(c) PROVE SocketInv'
  <2> SUFFICES ASSUME ~BadFrames PROVE SocketInv'
    BY DEF SocketInv
  <2>1. /\ UNCHANGED <<pc, tws, sock, ws>>
        /\ \A d \in Conns \ {c} : rd'[d] = rd[d]
        /\ rd'[c] = "teardown" => sock[c] = "closed"
    BY <1>7
    DEF Receive, ReceiveReply, ReceiveNotification, ReceiveCollection, ReceiveClosed,
        ReceiveBadFrame, Reading, TypeOK
  <2>2. ReaderFrame
    BY <2>1 DEF ReaderFrame
  <2> QED
    BY <2>1, <2>2, SocketsLeft
<1>8. ASSUME NEW c \in Conns, Route(c) /\ ~TeardownConnection(c) PROVE SocketInv'
  <2>1. UNCHANGED <<pc, tws, sock, ws>>
    BY <1>8
    DEF Route, HandleRpcResponse, HandleSubscriptionNotification, HandleCollectionTop,
        HandleCollectionParams
  <2>2. /\ \A d \in Conns \ {c} : rd'[d] = rd[d]
        /\ rd'[c] # "teardown"
    BY <1>8
    DEF Route, HandleRpcResponse, HandleSubscriptionNotification, HandleCollectionTop,
        HandleCollectionParams, Routed, TypeOK
  <2>3. ReaderFrame
    BY <2>1, <2>2 DEF ReaderFrame
  <2> QED
    BY <2>1, <2>3, SocketsLeft
<1>9. ASSUME NEW c \in Conns, TeardownConnection(c) PROVE SocketInv'
  <2> SUFFICES ASSUME ~BadFrames PROVE SocketInv'
    BY DEF SocketInv
  <2>1. /\ UNCHANGED <<pc, tws, sock>> /\ rd[c] = "teardown"
        /\ \A d \in Conns \ {c} : rd'[d] = rd[d]
        /\ rd'[c] = "done"
        /\ (ws = c /\ ws' = None) \/ ws' = ws
    BY <1>9, DetachEffect DEF TeardownConnection, DetachIfCurrent, TypeOK
  <2>2. ws = c => sock[c] = "closed"
    BY <2>1 DEF SocketInv, ReaderKeepsOpenSocket
  <2>3. ReaderFrame
    BY <2>1, NoneIsNone DEF ReaderFrame
  <2> QED
    BY <2>1, <2>2, <2>3, SocketsLeft
<1>10. ASSUME NEW c \in Conns, Drop(c) PROVE SocketInv'
  <2>1. /\ UNCHANGED <<pc, tws, ws, rd>>
        /\ \A d \in Conns : sock'[d] \in {sock[d], "closed"}
    BY <1>10 DEF Drop, CloseSocket, TypeOK
  <2>2. ReaderFrame
    BY <2>1 DEF ReaderFrame
  <2> QED
    BY <2>1, <2>2, SocketsLeft
<1>11. CASE UNCHANGED vars
  BY <1>11, SocketsLeft DEF vars, ReaderFrame
<1>12. ASSUME NEW t \in Tasks, TaskNext(t) PROVE SocketInv'
  BY <1>12, <1>1, <1>2, <1>3, <1>4, <1>5, <1>6 DEF TaskNext
<1>13. ASSUME NEW c \in Conns, ConnNext(c) PROVE SocketInv'
  BY <1>13, <1>7, <1>8, <1>9, <1>10 DEF ConnNext
<1> QED
  BY <1>11, <1>12, <1>13, NextSteps

LEMMA SocketAlways == Spec => []SocketInv
<1>1. Init => TypeInv /\ SessionInv /\ SocketInv
  BY TypeInit, SessionInit, SocketInit
<1>2. TypeInv /\ SessionInv /\ SocketInv /\ [Next]_vars => (TypeInv /\ SessionInv /\ SocketInv)'
  BY TypeStep, SessionStep, SocketStep
<1> QED
  BY <1>1, <1>2, PTL DEF Spec

\* No failure, timeout or cancel leaves an open socket that is neither the current
\* connection nor in the hands of a task, unless a frame broke the reader.
THEOREM SocketsNeverLeak == Spec => [](~BadFrames => NoSocketLeak)
<1>1. SocketInv => (~BadFrames => NoSocketLeak)
  BY DEF SocketInv, NoSocketLeak, Holds, HoldPcs
<1> QED
  BY <1>1, SocketAlways, PTL

\* A frame that makes _parse_message raise is the only reason for which the reader gives
\* up a current connection that is still open: no timeout, cancel or close() of any task
\* does that.
THEOREM ReaderAlwaysKeepsOpenSocket == Spec => [](~BadFrames => ReaderKeepsOpenSocket)
<1>1. SocketInv => (~BadFrames => ReaderKeepsOpenSocket)
  BY DEF SocketInv
<1> QED
  BY <1>1, SocketAlways, PTL

-----------------------------------------------------------------------------
(* Newer connections *)

LEMMA LocalsInit == Init => LocalsInv
BY NoneNoMethod DEF Init, LocalsInv, MethodLocals

LEMMA LocalsKept ==
    ASSUME LocalsInv, NEW t \in Tasks, Moves(t), MethodLocals(t)'
    PROVE  LocalsInv'
BY DEF LocalsInv, MethodLocals, Moves

LEMMA LocalsFinish ==
    ASSUME TypeOK, LocalsInv, NEW t \in Tasks, NEW o, Finish(t, o)
    PROVE  LocalsInv'
<1>1. Moves(t) /\ pc'[t] = "idle" /\ op'[t] = None /\ tws'[t] = None
  BY FinishEnds
<1>2. MethodLocals(t)'
  BY <1>1, NoneNoMethod DEF MethodLocals
<1> QED
  BY <1>1, <1>2, LocalsKept

LEMMA LocalsEndCall ==
    ASSUME TypeOK, LocalsInv, NEW t \in Tasks, NEW o, NEW rejected, EndCall(t, o, rejected),
           pc[t] # "unsubLock"
    PROVE  LocalsInv'
<1>1. CASE Finish(t, o)
  BY <1>1, LocalsFinish
<1>2. CASE op[t] = "unsubscribe" /\ ~Finish(t, o)
  <2>1. /\ Moves(t)
        /\ pc'[t] = "forgetLock" /\ op'[t] = "unsubscribe" /\ tsid'[t] = tsid[t]
    BY <1>2, EndCallEnds, NoneNoMethod, GoEffect DEF EndCall, TypeOK
  <2>2. MethodLocals(t)'
    BY <1>2, <2>1 DEF LocalsInv, MethodLocals
  <2> QED
    BY <2>1, <2>2, LocalsKept
<1> QED
  BY <1>1, <1>2 DEF EndCall

\* A task goes on inside its method.
LEMMA LocalsGo ==
    ASSUME TypeOK, LocalsInv, NEW t \in Tasks, NEW p, Go(t, p), UNCHANGED locals, pc[t] # "unsubLock",
           p \in {"opening", "retrying"} => tws[t] = None,
           p \notin {"idle", "connLock", "closeLock", "unsubLock", "pmLock", "callLock", "forgetLock"}
    PROVE  LocalsInv'
<1>1. Moves(t) /\ pc'[t] = p /\ op'[t] = op[t] /\ tws'[t] = tws[t] /\ tsid'[t] = tsid[t]
  BY GoMoves
<1>2. MethodLocals(t)'
  BY <1>1 DEF LocalsInv, MethodLocals
<1> QED
  BY <1>1, <1>2, LocalsKept

LEMMA LocalsStep == TypeInv /\ LocalsInv /\ [Next]_vars => LocalsInv'
<1> SUFFICES ASSUME TypeOK, LocalsInv, [Next]_vars PROVE LocalsInv'
  BY DEF TypeInv
<1> USE DEF locals
<1>1. ASSUME NEW t \in Tasks, NEW o \in OpNames, Start(t, o) PROVE LocalsInv'
  <2>1. /\ Moves(t) /\ op'[t] = o /\ pc'[t] = FirstPc(o) /\ tws'[t] = tws[t] /\ pc[t] = "idle"
    BY <1>1 DEF Start, Go, TypeOK, Moves
  <2>2. MethodLocals(t)'
    BY <2>1 DEF LocalsInv, MethodLocals, FirstPc, OpNames
  <2> QED
    BY <2>1, <2>2, LocalsKept
<1>2. ASSUME NEW t \in Tasks, Connect(t) PROVE LocalsInv'
  <2>1. CASE OpenError(t) \/ OptionReply(t) \/ ConnectClosed(t)
    BY <2>1, LocalsFinish DEF OpenError, OptionReply, Establish, ConnectClosed, DropUntracked
  <2>2. CASE ConnectLock(t)
    <3>1. tws[t] = None
      BY <2>2 DEF ConnectLock, LocalsInv, MethodLocals
    <3> QED
      BY <2>2, <3>1, LocalsFinish, LocalsGo DEF ConnectLock
  <2>3. CASE OpenTimeout(t)
    <3>1. tws[t] = None
      BY <2>3 DEF OpenTimeout, LocalsInv, MethodLocals
    <3> QED
      BY <2>3, <3>1, LocalsGo DEF OpenTimeout
  <2>4. CASE LoginOk(t) \/ LoginError(t)
    BY <2>4, LocalsFinish, LocalsGo DEF LoginOk, Establish, LoginError
  <2>5. ASSUME NEW c \in Conns, OpenWebsocket(t, c) PROVE LocalsInv'
    <3>1. /\ Moves(t) /\ pc'[t] = "login" /\ op'[t] = op[t] /\ tsid'[t] = tsid[t]
          /\ pc[t] \in {"opening", "retrying"}
      BY <2>5 DEF OpenWebsocket, Go, TypeOK, Moves
    <3>2. MethodLocals(t)'
      BY <3>1 DEF LocalsInv, MethodLocals
    <3> QED
      BY <3>1, <3>2, LocalsKept
  <2> QED
    BY <1>2, <2>1, <2>2, <2>3, <2>4, <2>5 DEF Connect
<1>3. ASSUME NEW t \in Tasks, Close(t) PROVE LocalsInv'
  <2>1. CASE CloseWebsocket(t) \/ AwaitReader(t)
    BY <2>1, LocalsFinish, LocalsGo DEF CloseWebsocket, AwaitReader
  <2>2. CASE CloseLock(t)
    <3>1. CASE Finish(t, "returned")
      BY <3>1, LocalsFinish
    <3>2. CASE Go(t, "closeWs") /\ tws' = [tws EXCEPT ![t] = ws] /\ UNCHANGED <<op, trpc, tsid>>
      <4>1. Moves(t) /\ pc'[t] = "closeWs" /\ op'[t] = op[t] /\ tsid'[t] = tsid[t]
        BY <3>2 DEF Go, TypeOK, Moves
      <4>2. MethodLocals(t)'
        BY <2>2, <4>1 DEF CloseLock, LocalsInv, MethodLocals
      <4> QED
        BY <4>1, <4>2, LocalsKept
    <3> QED
      BY <2>2, <3>1, <3>2 DEF CloseLock
  <2> QED
    BY <1>3, <2>1, <2>2 DEF Close
<1>4. ASSUME NEW t \in Tasks, Call(t) PROVE LocalsInv'
  <2>1. CASE CallRefused(t) \/ FailedCallClosed(t) \/ CallReply(t) \/ CallLost(t)
    BY <2>1, LocalsEndCall DEF CallRefused, FailedCallClosed, CallReply, CallLost, Raise
  <2>2. CASE SendOk(t) \/ SendError(t) \/ CallTimeout(t) \/ FailedCallLock(t)
    BY <2>2, LocalsEndCall, LocalsGo DEF SendOk, SendError, CallTimeout, FailedCallLock, Raise
  <2>3. ASSUME NEW e \in Events, CallSend(t, e) PROVE LocalsInv'
    <3>1. /\ Moves(t) /\ pc'[t] = "sending" /\ op'[t] = op[t] /\ tsid'[t] = tsid[t]
          /\ pc[t] = "callLock"
      BY <2>3 DEF CallSend, Go, TypeOK, Moves
    <3>2. MethodLocals(t)'
      BY <3>1 DEF LocalsInv, MethodLocals
    <3> QED
      BY <3>1, <3>2, LocalsKept
  <2> QED
    BY <1>4, <2>1, <2>2, <2>3 DEF Call
<1>5. ASSUME NEW t \in Tasks, Unsubscribe(t) PROVE LocalsInv'
  <2>1. CASE ForgetSubscription(t)
    BY <2>1, LocalsFinish DEF ForgetSubscription
  <2>2. ASSUME NEW s \in SubIds, UnsubscribeLock(t, s), subs[s] # None PROVE LocalsInv'
    <3>1. /\ Moves(t) /\ pc'[t] = "callLock" /\ op'[t] = op[t] /\ tsid'[t] = s
          /\ pc[t] = "unsubLock"
      BY <2>2 DEF UnsubscribeLock, Go, TypeOK, Moves
    <3>2. MethodLocals(t)'
      BY <3>1 DEF LocalsInv, MethodLocals
    <3> QED
      BY <3>1, <3>2, LocalsKept
  <2>3. ASSUME NEW s \in SubIds, UnsubscribeLock(t, s), subs[s] = None PROVE LocalsInv'
    BY <2>3, LocalsFinish DEF UnsubscribeLock
  <2> QED
    BY <1>5, <2>1, <2>2, <2>3 DEF Unsubscribe
<1>6. ASSUME NEW t \in Tasks, EnableLock(t) PROVE LocalsInv'
  <2>1. CASE ~OptionMissing
    BY <1>6, <2>1, LocalsFinish DEF EnableLock
  <2>2. CASE OptionMissing
    <3>1. /\ Moves(t) /\ pc'[t] = "callLock" /\ op'[t] = op[t] /\ pc[t] = "pmLock"
      BY <1>6, <2>2 DEF EnableLock, Go, TypeOK, Moves
    <3>2. MethodLocals(t)'
      BY <3>1 DEF LocalsInv, MethodLocals
    <3> QED
      BY <3>1, <3>2, LocalsKept
  <2> QED
    BY <2>1, <2>2
<1>7. ASSUME NEW t \in Tasks, Cancel(t) PROVE LocalsInv'
  <2>1. CASE CancelWaiting(t) \/ CancelLogin(t) \/ CancelCloseWebsocket(t)
    BY <2>1, LocalsFinish DEF CancelWaiting, CancelLogin, DropUntracked, CancelCloseWebsocket
  <2>2. CASE CancelAwaitReader(t)
    BY <2>2, LocalsGo DEF CancelAwaitReader
  <2>3. CASE CancelCallLock(t) \/ CancelSending(t) \/ CancelAwait(t) \/ CancelFailedCallLock(t)
    BY <2>3, LocalsEndCall
    DEF CancelCallLock, CancelSending, CancelAwait, CancelFailedCallLock, Raise
  <2> QED
    BY <1>7, <2>1, <2>2, <2>3 DEF Cancel
<1>8. ASSUME UNCHANGED <<pc, op, tws, tsid>> PROVE LocalsInv'
  BY <1>8 DEF LocalsInv, MethodLocals
<1>9. ASSUME NEW c \in Conns, ConnNext(c) PROVE UNCHANGED <<pc, op, tws, tsid>>
  BY <1>9
  DEF ConnNext, Receive, ReceiveReply, ReceiveNotification, ReceiveCollection, ReceiveClosed,
      ReceiveBadFrame, Reading, Drop, Route, HandleRpcResponse, HandleSubscriptionNotification,
      HandleCollectionTop, HandleCollectionParams, TeardownConnection
<1>10. ASSUME NEW t \in Tasks, TaskNext(t) PROVE LocalsInv'
  BY <1>10, <1>1, <1>2, <1>3, <1>4, <1>5, <1>6, <1>7 DEF TaskNext
<1> QED
  BY <1>8, <1>9, <1>10, NextSteps DEF vars

\* The current connection and all that belongs to it is left alone by task t.
LeftAlone(t) ==
    /\ UNCHANGED <<ws, pmWs, subs, queue>>
    /\ pending' = pending \ {trpc[t]}
    /\ \A r \in pending : fut'[r] = fut[r]
    /\ sock'[ws] = sock[ws] /\ rd'[ws] = rd[ws]

\* A task that remembers an older connection leaves the current one alone.
LEMMA OldTaskStep ==
    ASSUME TypeInv, SessionInv, CallInv, LocalsInv, NEW t \in Tasks, TaskNext(t),
           tws[t] \notin {ws, None}, ws # None, pc'[t] # pc[t]
    PROVE  LeftAlone(t)
<1>0. TypeOK /\ ws \in Conns
  BY DEF TypeInv, TypeOK
<1>1. /\ pc[t] \notin LockPcs \ {"sending"}
      /\ pc[t] \notin {"idle", "connLock", "closeLock", "unsubLock", "pmLock"}
      /\ pc[t] = "callLock" => op[t] \in {"unsubscribe", "enable"}
      /\ pc[t] \in {"closeReader", "closeCancelled"} => tws[t] \in Conns
  BY DEF SessionInv, ConnectionInv, TaskConnection, LocalsInv, MethodLocals
<1>2. trpc[t] \notin pending
  <2>1. CASE trpc[t] = None
    BY <1>0, <2>1, ClientAssumption DEF TypeOK
  <2>2. CASE trpc[t] # None
    BY <2>2 DEF CallInv, OwnRequest, SessionInv, TableInv, PendingOnCurrent
  <2> QED
    BY <2>1, <2>2
<1>3. ASSUME pc[t] \in CallPcs, Untrack(trpc[t]) PROVE subs' = subs
  <2>1. trpc[t] \in Rpcs /\ trpc[t] # None /\ conn[trpc[t]] = tws[t]
    BY <1>3, ClientAssumption DEF TypeInv, CallLocals, CallInv, OwnRequest
  <2>2. \A s \in SubIds : subs[s] # trpc[t]
    BY <2>1 DEF SessionInv, TableInv, SubscriptionsOnCurrent
  <2> QED
    BY <1>0, <1>3, <2>2 DEF Untrack, TypeOK
<1>4. pending \ {trpc[t]} = pending
  BY <1>2
<1> USE DEF session, locks, requests, wire, reader, locals, LockPcs, CallPcs
<1>5. CASE (\E o \in OpNames : Start(t, o)) \/ EnableLock(t)
  BY <1>1, <1>5 DEF Start, EnableLock
<1>6. CASE Connect(t)
  BY <1>1, <1>6
  DEF Connect, ConnectLock, OpenTimeout, OpenError, LoginOk, OptionReply, LoginError,
      ConnectClosed, OpenWebsocket
<1>7. CASE Close(t)
  BY <1>1, <1>4, <1>7 DEF Close, CloseLock, CloseWebsocket, AwaitReader, LeftAlone
<1>8. CASE Call(t)
  <2>1. CASE CallRefused(t) \/ SendOk(t)
    BY <1>4, <2>1 DEF CallRefused, SendOk, LeftAlone
  <2>2. CASE SendError(t) \/ FailedCallLock(t) \/ CallLost(t)
    BY <1>3, <2>2 DEF SendError, FailedCallLock, CallLost, Unregister, LeftAlone
  <2>3. CASE FailedCallClosed(t) \/ (\E e \in Events : CallSend(t, e))
    BY <1>1, <2>3 DEF FailedCallClosed, CallSend, ExpectationFails
  <2>4. CASE CallReply(t)
    BY <1>3, <2>4 DEF CallReply, RecordOption, Unregister, LeftAlone
  <2>5. CASE CallTimeout(t)
    <3>1. \A r \in pending : fut'[r] = fut[r]
      BY <1>0, <1>2, <2>5 DEF CallTimeout, CancelFuture, TypeOK
    <3> QED
      BY <1>4, <2>5, <3>1 DEF CallTimeout, LeftAlone
  <2> QED
    BY <1>8, <2>1, <2>2, <2>3, <2>4, <2>5 DEF Call
<1>9. CASE Unsubscribe(t)
  BY <1>1, <1>4, <1>9 DEF Unsubscribe, UnsubscribeLock, ForgetSubscription, LeftAlone
<1>10. CASE Cancel(t)
  <2>1. CASE CancelWaiting(t) \/ CancelCallLock(t)
    BY <1>4, <2>1 DEF CancelWaiting, CancelCallLock, LeftAlone
  <2>2. CASE CancelLogin(t) \/ CancelCloseWebsocket(t)
    BY <1>1, <2>2 DEF CancelLogin, CancelCloseWebsocket
  <2>3. CASE CancelAwaitReader(t)
    <3>1. rd'[ws] = rd[ws]
      BY <1>0, <2>3 DEF CancelAwaitReader, CancelReader, TypeOK
    <3> QED
      BY <1>4, <2>3, <3>1 DEF CancelAwaitReader, LeftAlone
  <2>4. CASE CancelSending(t)
    BY <2>4 DEF CancelSending, Unregister, LeftAlone
  <2>5. CASE CancelAwait(t)
    <3>1. \A r \in pending : fut'[r] = fut[r]
      BY <1>0, <1>2, <2>5 DEF CancelAwait, CancelFuture, TypeOK
    <3> QED
      BY <1>3, <2>5, <3>1 DEF CancelAwait, Unregister, LeftAlone
  <2>6. CASE CancelFailedCallLock(t)
    BY <1>3, <2>6 DEF CancelFailedCallLock, Unregister, LeftAlone
  <2> QED
    BY <1>10, <2>1, <2>2, <2>3, <2>4, <2>5, <2>6 DEF Cancel
<1> QED
  BY <1>5, <1>6, <1>7, <1>8, <1>9, <1>10 DEF TaskNext

\* A step of the reader of an older connection leaves the current one alone.
LEMMA OldReaderStep ==
    ASSUME TypeOK, NEW c \in Conns, ConnNext(c), ws # c
    PROVE  UNCHANGED <<ws, pmWs, pending, fut, subs, queue>>
<1> USE DEF session
<1>1. ASSUME PutAll({}, c) PROVE queue' = queue
  BY <1>1 DEF PutAll, TypeOK
<1>2. CASE Receive(c) \/ Drop(c)
  BY <1>2
  DEF Receive, ReceiveReply, ReceiveNotification, ReceiveCollection, ReceiveClosed,
      ReceiveBadFrame, Reading, Drop
<1>3. CASE HandleRpcResponse(c) \/ TeardownConnection(c)
  BY <1>3 DEF HandleRpcResponse, TeardownConnection, DetachIfCurrent
<1>4. CASE HandleSubscriptionNotification(c)
  BY <1>1, <1>4 DEF HandleSubscriptionNotification, NotedQueues
<1>5. CASE HandleCollectionTop(c)
  BY <1>1, <1>5 DEF HandleCollectionTop, MatchingQueues
<1>6. CASE HandleCollectionParams(c)
  <2>1. UnseenQueues(c) = {}
    BY DEF UnseenQueues, MatchingQueues
  <2> QED
    BY <1>1, <1>6, <2>1 DEF HandleCollectionParams
<1> QED
  BY <1>2, <1>3, <1>4, <1>5, <1>6 DEF ConnNext, Route

\* What a task does to the reader of an older connection leaves the current one alone.
LEMMA ReaderOfTaskStep ==
    ASSUME TypeInv, SessionInv, NEW t \in Tasks, TaskNext(t), NEW c \in Conns, c # ws,
           rd'[c] # rd[c], ws # None
    PROVE  UNCHANGED <<ws, pmWs, pending, fut, subs, queue>>
<1>0. TypeOK /\ ws \in Conns
  BY DEF TypeInv, TypeOK
<1>1. pc[t] \notin LockPcs \ {"sending"}
  BY DEF SessionInv, ConnectionInv, TaskConnection
<1> USE DEF session, locks, requests, wire, reader, locals, LockPcs
<1>2. CASE (\E o \in OpNames : Start(t, o)) \/ EnableLock(t) \/ Close(t) \/ Unsubscribe(t)
  BY <1>2
  DEF Start, EnableLock, Close, CloseLock, CloseWebsocket, AwaitReader, Unsubscribe,
      UnsubscribeLock, ForgetSubscription
<1>3. CASE Connect(t)
  BY <1>1, <1>3
  DEF Connect, ConnectLock, OpenTimeout, OpenError, LoginOk, OptionReply, LoginError,
      ConnectClosed, OpenWebsocket
<1>4. CASE Call(t)
  BY <1>1, <1>4
  DEF Call, CallRefused, SendOk, SendError, FailedCallClosed, CallReply, CallLost, CallTimeout,
      FailedCallLock, CallSend
<1>5. CASE Cancel(t) /\ ~CancelFailedCallLock(t)
  BY <1>1, <1>5
  DEF Cancel, CancelWaiting, CancelLogin, CancelCloseWebsocket, CancelAwaitReader, CancelCallLock,
      CancelSending, CancelAwait
<1>6. CASE CancelFailedCallLock(t)
  <2>1. CASE ws = tws[t]
    BY <1>0, <1>6, <2>1 DEF CancelFailedCallLock, ReleaseSocket, CancelReader, TypeOK
  <2>2. CASE ws # tws[t]
    BY <1>6, <2>2 DEF CancelFailedCallLock
  <2> QED
    BY <2>1, <2>2
<1> QED
  BY <1>2, <1>3, <1>4, <1>5, <1>6 DEF TaskNext

\* Whatever the reader of an older connection or a call that was made there still
\* does, the current connection, its calls and its subscriptions are not touched.
THEOREM NewConnectionAlwaysUntouched == Spec => NewConnectionUntouched
<1> DEFINE Inv == TypeInv /\ SessionInv /\ CallInv /\ LocalsInv
<1>1. Init => Inv
  BY TypeInit, SessionInit, CallInit, LocalsInit
<1>2. Inv /\ [Next]_vars => Inv'
  BY TypeStep, SessionStep, CallStep, LocalsStep
<1>3. ASSUME Inv, [Next]_vars
      PROVE  [/\ \A c \in Conns \ {ws} : rd'[c] # rd[c] /\ ws # None =>
                     UNCHANGED <<ws, pmWs, pending, fut, subs, queue>>
              /\ \A t \in Tasks : tws[t] \notin {ws, None} /\ pc'[t] # pc[t] /\ ws # None =>
                     /\ UNCHANGED <<ws, pmWs, subs, queue>>
                     /\ pending' = pending \ {trpc[t]}
                     /\ \A r \in pending : fut'[r] = fut[r]
                     /\ sock'[ws] = sock[ws] /\ rd'[ws] = rd[ws]]_vars
  <2>0. TypeOK
    BY <1>3 DEF TypeInv
  <2>1. ASSUME NEW t \in Tasks, TaskNext(t), NEW u \in Tasks, pc'[u] # pc[u] PROVE u = t
    BY <2>0, <2>1, OnlyOneMoves DEF Moves
  <2>2. ASSUME NEW d \in Conns, ConnNext(d)
        PROVE  pc' = pc /\ \A c \in Conns : rd'[c] # rd[c] => c = d
    <3>1. CASE Receive(d) \/ Drop(d)
      BY <2>0, <3>1
      DEF Receive, ReceiveReply, ReceiveNotification, ReceiveCollection, ReceiveClosed,
          ReceiveBadFrame, Reading, Drop, reader, TypeOK
    <3>2. CASE Route(d)
      BY <2>0, <3>2
      DEF Route, HandleRpcResponse, HandleSubscriptionNotification, HandleCollectionTop,
          HandleCollectionParams, TeardownConnection, Routed, TypeOK
    <3> QED
      BY <2>2, <3>1, <3>2 DEF ConnNext
  <2>3. ASSUME NEW c \in Conns \ {ws}, rd'[c] # rd[c], ws # None, ~UNCHANGED vars
        PROVE  UNCHANGED <<ws, pmWs, pending, fut, subs, queue>>
    BY <1>3, <2>0, <2>2, <2>3, OldReaderStep, ReaderOfTaskStep, NextSteps
  <2>4. ASSUME NEW t \in Tasks, tws[t] \notin {ws, None}, pc'[t] # pc[t], ws # None,
               ~UNCHANGED vars
        PROVE  LeftAlone(t)
    <3>1. TaskNext(t)
      BY <1>3, <2>1, <2>2, <2>4, NextSteps
    <3> QED
      BY <1>3, <2>4, <3>1, OldTaskStep
  <2> QED
    BY <2>3, <2>4 DEF LeftAlone
<1> QED
  BY <1>1, <1>2, <1>3, PTL DEF Spec, NewConnectionUntouched

-----------------------------------------------------------------------------
(* unsubscribe() *)

\* unsubscribe() ends its subscription locally, whatever was answered and whoever closed
\* or replaced the connection meanwhile: only a cancel in _forget_subscription can leave
\* it tracked.
THEOREM UnsubscribeAlwaysEndsLocally == Spec => (~Cancels => UnsubscribeEndsLocally)
<1> SUFFICES ASSUME ~Cancels PROVE Spec => UnsubscribeEndsLocally
  OBVIOUS
<1>1. ASSUME TypeInv, LocalsInv, [Next]_vars
      PROVE  [\A t \in Tasks : pc[t] = "forgetLock" /\ pc'[t] = "idle" /\ ws' = tws[t]
                               => subs'[tsid[t]] = None]_vars
  <2> SUFFICES ASSUME NEW t \in Tasks, pc[t] = "forgetLock", pc'[t] = "idle", ws' = tws[t],
                      ~UNCHANGED vars
               PROVE  subs'[tsid[t]] = None
    OBVIOUS
  <2>0. TypeOK
    BY <1>1 DEF TypeInv
  <2>1. tsid[t] \in SubIds
    BY <1>1 DEF LocalsInv, MethodLocals
  <2>2. TaskNext(t)
    <3>1. ASSUME NEW c \in Conns, ConnNext(c) PROVE pc' = pc
      BY <3>1
      DEF ConnNext, Receive, ReceiveReply, ReceiveNotification, ReceiveCollection, ReceiveClosed,
          ReceiveBadFrame, Reading, Drop, Route, HandleRpcResponse,
          HandleSubscriptionNotification, HandleCollectionTop, HandleCollectionParams,
          TeardownConnection
    <3>2. ASSUME NEW u \in Tasks \ {t}, TaskNext(u) PROVE pc'[t] = pc[t]
      BY <2>0, <3>2, OnlyOneMoves DEF Moves
    <3> QED
      BY <1>1, <3>1, <3>2, NextSteps
  <2>3. ForgetSubscription(t)
    <3>1. ~Connect(t) /\ ~Close(t) /\ ~EnableLock(t) /\ ~\E o \in OpNames : Start(t, o)
      BY DEF Connect, ConnectLock, OpenTimeout, OpenError, LoginOk, OptionReply, LoginError,
             ConnectClosed, OpenWebsocket, Close, CloseLock, CloseWebsocket, AwaitReader,
             EnableLock, Start
    <3>2. ~Call(t)
      BY DEF Call, CallRefused, SendOk, SendError, FailedCallClosed, CallReply, CallLost,
             CallTimeout, FailedCallLock, CallSend
    <3>3. ~Cancel(t) /\ \A s \in SubIds : ~UnsubscribeLock(t, s)
      BY DEF Cancel, UnsubscribeLock
    <3> QED
      BY <2>2, <3>1, <3>2, <3>3 DEF TaskNext, Unsubscribe
  <2>4. ws' = ws
    BY <2>3 DEF ForgetSubscription
  <2> QED
    BY <2>0, <2>1, <2>3, <2>4 DEF ForgetSubscription, TypeOK
<1> QED
  BY <1>1, TypeInit, TypeStep, LocalsInit, LocalsStep, PTL DEF Spec, UnsubscribeEndsLocally
=============================================================================
