------------------------------- MODULE Client -------------------------------
(***************************************************************************)
(* TrueNASClient of client.py: one WebSocket connection shared by the      *)
(* asyncio tasks of a program, and the reader task that routes what the    *)
(* server sends.                                                           *)
(*                                                                         *)
(* asyncio runs one task at a time and switches only where a coroutine     *)
(* suspends, so an action is everything a task does between two            *)
(* suspensions.  A task waiting in `async with self._lock` has a pc that   *)
(* ends in "Lock"; the action of that pc needs the lock to be free.  Any   *)
(* waiter may take a free lock (asyncio serves them in FIFO order, which   *)
(* is one of these orders).  A cancel or a timeout may strike at any       *)
(* suspension, also when the awaited future is already done.               *)
(***************************************************************************)
EXTENDS Naturals, Sequences, FiniteSets

CONSTANTS
    Tasks,       \* the tasks that call the client's methods
    Conns,       \* the ClientConnection objects connect() may obtain (bound)
    SubIds,      \* the subscription ids the server hands out
    Events,      \* the events tasks subscribe to: "a" is <<"a">>, "a:b" is <<"a", "b">>
    Collections, \* the collections notifications name, written like events
    Ops,         \* Ops[t]: the methods task t may call
    Kinds,       \* the kinds of reply the server may give, see ReplyKinds
    MaxRpc,      \* bound on the requests registered over a behaviour
    MaxQueue,    \* bound on the notifications held by one queue
    Cancels,     \* TRUE when tasks may be cancelled
    BadFrames,   \* TRUE when a frame may make the reader raise (_parse_message)
    None         \* Python's None

OpNames == {"connect", "close", "call", "subscribe", "unsubscribe", "enable"}
Rpcs == 1..MaxRpc
TERM == "terminator"   \* SUBSCRIPTION_TERMINATOR
\* What a reply says: a result, a result that is no string, an error, neither.
ReplyKinds == {"ok", "nonstr", "error", "malformed"}

ASSUME ClientAssumption ==
    /\ MaxRpc \in Nat /\ MaxQueue \in Nat
    /\ Ops \in [Tasks -> SUBSET OpNames] /\ Kinds \subseteq ReplyKinds
    /\ Cancels \in BOOLEAN /\ BadFrames \in BOOLEAN
    /\ None \notin Tasks /\ None \notin Conns /\ None \notin SubIds
    /\ None \notin Rpcs /\ None \notin Events /\ None \notin Collections /\ None \notin OpNames
    /\ TERM \notin Conns \cup {None}

VARIABLES
    \* attributes of TrueNASClient
    ws,             \* self._ws
    pmWs,           \* self._private_methods_ws
    pending,        \* the keys of self._pending_calls
    subs,           \* self._subscriptions: id -> the call that made the queue
    privateMethods, \* self._private_methods
    nextId,         \* self._next_id_value
    lock, pmLock,   \* the tasks that hold self._lock and self._private_methods_lock
    \* per request (rpc id)
    fut,            \* the state of its future
    queue,          \* the asyncio.Queue a subscribe() made
    conn,           \* the connection it was written to
    event,          \* the event of a core.subscribe, None for other methods
    handed,         \* the subscribe() calls that returned their queue
    \* per connection
    sock,           \* the socket, as the websockets library sees it
    optSent,        \* how often core.set_options was written to it
    allotted,       \* the subscription ids the server gave on it
    unanswered,     \* the requests the server may still answer
    rd, msg,        \* the reader task: where it is and what it routes
    \* per task: its pc, its method, its locals ws, rpc_id and subscription_id,
    \* and whether the method returned or raised
    pc, op, tws, trpc, tsid, out

session == <<ws, pmWs, pending, subs, fut, queue>>   \* what a detach clears
locks == <<lock, pmLock>>
requests == <<nextId, conn, event, handed>>
wire == <<sock, optSent, allotted, unanswered>>
reader == <<rd, msg>>
locals == <<op, tws, trpc, tsid, out>>
vars == <<session, privateMethods, locks, requests, wire, reader, pc, locals>>

FutStates == {"none", "wait", "lost", "cancelled"} \cup ReplyKinds
ReplyMsgs == [type: {"reply"}, id: Rpcs, kind: ReplyKinds, sid: SubIds \cup {None}]
NoteMsgs == [type: {"note"}, sid: SubIds]
CollMsgs == [type: {"collection"}, top: Collections \cup {None},
             inner: Collections \cup {None}, seen: SUBSET Rpcs]
NoMsg == [type |-> "none"]

\* The pcs at which a task is suspended while it holds self._lock, and the others.
LockPcs == {"opening", "retrying", "login", "option", "connClose",
            "closeWs", "sending", "sendClose", "failClose"}
Pcs == LockPcs \cup
       {"idle", "connLock", "closeLock", "closeReader", "closeCancelled", "callLock",
        "await", "failLock", "unsubLock", "forgetLock", "pmLock"}

TypeOK ==
    /\ ws \in Conns \cup {None} /\ pmWs \in Conns \cup {None}
    /\ lock \in Tasks \cup {None} /\ pmLock \in Tasks \cup {None}
    /\ privateMethods \in BOOLEAN
    /\ nextId \in 1..(MaxRpc + 1)
    /\ pending \subseteq Rpcs /\ handed \subseteq Rpcs /\ unanswered \subseteq Rpcs
    /\ subs \in [SubIds -> Rpcs \cup {None}]
    /\ fut \in [Rpcs -> FutStates]
    /\ queue \in [Rpcs -> Seq(Conns \cup {TERM})]
    /\ conn \in [Rpcs -> Conns \cup {None}]
    /\ event \in [Rpcs -> Events \cup {None}]
    /\ sock \in [Conns -> {"new", "open", "closed"}]
    /\ optSent \in [Conns -> Nat]
    /\ allotted \in [Conns -> SUBSET SubIds]
    /\ rd \in [Conns -> {"none", "recv", "route", "route2", "teardown", "done"}]
    /\ msg \in [Conns -> ReplyMsgs \cup NoteMsgs \cup CollMsgs \cup {NoMsg}]
    /\ pc \in [Tasks -> Pcs]
    /\ op \in [Tasks -> OpNames \cup {None}]
    /\ tws \in [Tasks -> Conns \cup {None}]
    /\ trpc \in [Tasks -> Rpcs \cup {None}]
    /\ tsid \in [Tasks -> SubIds \cup {None}]
    /\ out \in [Tasks -> {"returned", "raised"}]

Init ==
    /\ ws = None /\ pmWs = None /\ lock = None /\ pmLock = None
    /\ privateMethods = FALSE
    /\ nextId = 1
    /\ pending = {} /\ handed = {} /\ unanswered = {}
    /\ subs = [s \in SubIds |-> None]
    /\ fut = [r \in Rpcs |-> "none"]
    /\ queue = [r \in Rpcs |-> <<>>]
    /\ conn = [r \in Rpcs |-> None]
    /\ event = [r \in Rpcs |-> None]
    /\ sock = [c \in Conns |-> "new"]
    /\ optSent = [c \in Conns |-> 0]
    /\ allotted = [c \in Conns |-> {}]
    /\ rd = [c \in Conns |-> "none"]
    /\ msg = [c \in Conns |-> NoMsg]
    /\ pc = [t \in Tasks |-> "idle"]
    /\ op = [t \in Tasks |-> None]
    /\ tws = [t \in Tasks |-> None]
    /\ trpc = [t \in Tasks |-> None]
    /\ tsid = [t \in Tasks |-> None]
    /\ out = [t \in Tasks |-> "returned"]

-----------------------------------------------------------------------------
(* Parts of several actions *)

\* The calls whose queue self._subscriptions holds.
Tracked == {subs[s] : s \in SubIds} \ {None}

\* Definitions named Fault... are faulty variants of the definition they precede;
\* no specification uses them.  Each shows that a property can fail.

FaultUntrack(r) == UNCHANGED subs
\* subscribe() takes the queue of call r out of self._subscriptions, if it is there.
Untrack(r) == subs' = [s \in SubIds |-> IF subs[s] = r THEN None ELSE subs[s]]

\* Putting m into the queues of the calls in Q.
PutAll(Q, m) == queue' = [r \in Rpcs |-> IF r \in Q THEN Append(queue[r], m) ELSE queue[r]]

FaultFailKeeps(failing) ==
    fut' = [r \in Rpcs |-> IF r \in failing THEN "lost" ELSE fut[r]] /\ UNCHANGED pending
FaultFailDrops(failing) == pending' = {} /\ UNCHANGED fut
\* The calls in failing get the error of their connection.
FailCalls(failing) ==
    /\ fut' = [r \in Rpcs |-> IF r \in failing /\ fut[r] = "wait" THEN "lost" ELSE fut[r]]
    /\ pending' = {}

FaultEndKeeps == PutAll(Tracked, TERM) /\ UNCHANGED subs
FaultEndDrops == subs' = [s \in SubIds |-> None] /\ UNCHANGED queue
\* Every subscription ends.
EndSubscriptions ==
    /\ PutAll(Tracked, TERM)
    /\ subs' = [s \in SubIds |-> None]

FaultDetach(failing) == ws' = None /\ FailCalls(failing) /\ EndSubscriptions /\ UNCHANGED pmWs
\* Clearing the current connection's state.
DetachConnection(failing) ==
    /\ ws' = None
    /\ pmWs' = None
    /\ FailCalls(failing)
    /\ EndSubscriptions

FaultRegister(r) == pending' = pending \cup {r + 1} /\ fut' = [fut EXCEPT ![r] = "wait"]
Register(r) == pending' = pending \cup {r} /\ fut' = [fut EXCEPT ![r] = "wait"]

FaultUnregister(r) == UNCHANGED pending
Unregister(r) == pending' = pending \ {r}

\* The future of an interrupted wait is cancelled unless it is done.
CancelFuture(r) == fut' = [fut EXCEPT ![r] = IF @ = "wait" THEN "cancelled" ELSE @]

CloseSocket(c) == sock' = [sock EXCEPT ![c] = "closed"] /\ UNCHANGED <<optSent, allotted, unanswered>>

\* A cancel takes the reader into its finally clause, or out of it.
CancelReader(c) ==
    /\ rd' = [rd EXCEPT ![c] = IF @ \in {"recv", "route", "route2"} THEN "teardown" ELSE "done"]
    /\ msg' = [msg EXCEPT ![c] = NoMsg]

FaultReleaseSocket(c) == CancelReader(c) /\ UNCHANGED wire
\* Stopping the reader and dropping the transport of a detached connection.
ReleaseSocket(c) == CloseSocket(c) /\ CancelReader(c)

Go(t, p) == pc' = [pc EXCEPT ![t] = p]

\* The method task t called returns or raises.
Finish(t, o) ==
    /\ Go(t, "idle")
    /\ op' = [op EXCEPT ![t] = None]
    /\ tws' = [tws EXCEPT ![t] = None]
    /\ trpc' = [trpc EXCEPT ![t] = None]
    /\ tsid' = [tsid EXCEPT ![t] = None]
    /\ out' = [out EXCEPT ![t] = o]

\* _call_on_connection ended: unsubscribe() goes on to _forget_subscription
\* unless the server rejected the request, and enable_private_methods() leaves
\* its lock.
EndCall(t, o, rejected) ==
    /\ \/ /\ op[t] = "unsubscribe" /\ ~rejected
          /\ Go(t, "forgetLock")
          /\ trpc' = [trpc EXCEPT ![t] = None]
          /\ out' = [out EXCEPT ![t] = o]
          /\ UNCHANGED <<op, tws, tsid>>
       \/ /\ op[t] # "unsubscribe" \/ rejected
          /\ Finish(t, o)
    /\ pmLock' = IF pmLock = t THEN None ELSE pmLock

Raise(t) == EndCall(t, "raised", FALSE)

\* The requests that may still need an id: a bound, no part of the code.
IdsWanted == Cardinality({t \in Tasks : pc[t] \in {"callLock", "unsubLock", "pmLock"}})

-----------------------------------------------------------------------------
(* A task calls a method *)

FirstPc(o) ==
    CASE o = "connect" -> "connLock" [] o = "close" -> "closeLock"
      [] o = "unsubscribe" -> "unsubLock" [] o = "enable" -> "pmLock"
      [] OTHER -> "callLock"

Start(t, o) ==
    /\ pc[t] = "idle"
    /\ o \in Ops[t]
    /\ o \notin {"connect", "close"} => nextId + IdsWanted <= MaxRpc
    /\ Go(t, FirstPc(o))
    /\ op' = [op EXCEPT ![t] = o]
    /\ out' = [out EXCEPT ![t] = "returned"]
    /\ privateMethods' = (privateMethods \/ o = "enable")
    /\ UNCHANGED <<session, locks, requests, wire, reader, tws, trpc, tsid>>

-----------------------------------------------------------------------------
(* connect() *)

ConnectLock(t) ==
    /\ pc[t] = "connLock"
    /\ lock = None
    /\ \/ /\ ws # None
          /\ Finish(t, "returned")
          /\ UNCHANGED lock
       \/ /\ ws = None
          /\ lock' = t
          /\ Go(t, "opening")
          /\ UNCHANGED locals
    /\ UNCHANGED <<session, privateMethods, pmLock, requests, wire, reader>>

OpenWebsocket(t, c) ==
    /\ pc[t] \in {"opening", "retrying"}
    /\ sock[c] = "new"
    /\ sock' = [sock EXCEPT ![c] = "open"]
    /\ tws' = [tws EXCEPT ![t] = c]
    /\ Go(t, "login")
    /\ UNCHANGED <<session, privateMethods, locks, requests, optSent, allotted,
                   unanswered, reader, op, trpc, tsid, out>>

\* The first handshake timeout is retried once.
OpenTimeout(t) ==
    /\ pc[t] = "opening"
    /\ Go(t, "retrying")
    /\ UNCHANGED <<session, privateMethods, locks, requests, wire, reader, locals>>

\* Any other error, a second timeout, or a cancel.
OpenError(t) ==
    /\ pc[t] \in {"opening", "retrying"}
    /\ lock' = None
    /\ Finish(t, "raised")
    /\ UNCHANGED <<session, privateMethods, pmLock, requests, wire, reader>>

\* The end of connect(): the connection becomes the current one.
Establish(t) ==
    /\ ws' = tws[t]
    /\ pmWs' = IF privateMethods THEN tws[t] ELSE pmWs
    /\ rd' = [rd EXCEPT ![tws[t]] = "recv"]
    /\ lock' = None
    /\ Finish(t, "returned")
    /\ UNCHANGED <<pending, subs, fut, queue, privateMethods, pmLock, requests, wire, msg>>

\* After the login, the flag decides whether the option is sent first.
LoginOk(t) ==
    /\ pc[t] = "login"
    /\ \/ ~privateMethods /\ Establish(t)
       \/ /\ privateMethods
          /\ optSent' = [optSent EXCEPT ![tws[t]] = @ + 1]
          /\ Go(t, "option")
          /\ UNCHANGED <<session, privateMethods, locks, requests, sock, allotted,
                         unanswered, reader, locals>>

\* A reply to core.set_options; an error or a missing result is only logged.
OptionReply(t) == pc[t] = "option" /\ Establish(t)

\* An error reply, a rejected key, a timeout or a lost connection.
LoginError(t) ==
    /\ pc[t] \in {"login", "option"}
    /\ Go(t, "connClose")
    /\ UNCHANGED <<session, privateMethods, locks, requests, wire, reader, locals>>

\* connect() drops the socket nothing tracks yet and raises.
DropUntracked(t) ==
    /\ CloseSocket(tws[t])
    /\ lock' = None
    /\ Finish(t, "raised")
    /\ UNCHANGED <<session, privateMethods, pmLock, requests, reader>>

ConnectClosed(t) == pc[t] = "connClose" /\ DropUntracked(t)

-----------------------------------------------------------------------------
(* close() *)

CloseLock(t) ==
    /\ pc[t] = "closeLock"
    /\ lock = None
    /\ \/ /\ ws = None
          /\ Finish(t, "returned")
          /\ UNCHANGED <<session, lock>>
       \/ /\ ws # None
          /\ DetachConnection(pending)
          /\ lock' = t
          /\ tws' = [tws EXCEPT ![t] = ws]
          /\ Go(t, "closeWs")
          /\ UNCHANGED <<op, trpc, tsid, out>>
    /\ UNCHANGED <<privateMethods, pmLock, requests, wire, reader>>

FaultCloseWebsocket(t) ==
    /\ pc[t] = "closeWs"
    /\ CloseSocket(tws[t])
    /\ Go(t, "closeReader")
    /\ UNCHANGED <<session, privateMethods, locks, requests, reader, locals>>
CloseWebsocket(t) ==
    /\ pc[t] = "closeWs"
    /\ CloseSocket(tws[t])
    /\ lock' = None
    /\ Go(t, "closeReader")
    /\ UNCHANGED <<session, privateMethods, pmLock, requests, reader, locals>>

\* The awaited reader ended, and with it a close() that was cancelled meanwhile.
AwaitReader(t) ==
    /\ pc[t] \in {"closeReader", "closeCancelled"}
    /\ rd[tws[t]] = "done"
    /\ Finish(t, IF pc[t] = "closeReader" THEN "returned" ELSE "raised")
    /\ UNCHANGED <<session, privateMethods, locks, requests, wire, reader>>

-----------------------------------------------------------------------------
(* _call_on_connection() *)

\* unsubscribe() and enable_private_methods() expect the connection they saw.
ExpectationFails(t) == op[t] \in {"unsubscribe", "enable"} /\ ws # tws[t]

\* Not connected, not on the expected connection, or params that json.dumps
\* rejects: nothing is registered.  (The ids of requests that are never
\* registered, like this one and the login's, are not counted.)
CallRefused(t) ==
    /\ pc[t] = "callLock"
    /\ lock = None
    /\ ws = None \/ ExpectationFails(t) \/ op[t] = "call"
    /\ Raise(t)
    /\ UNCHANGED <<session, lock, privateMethods, requests, wire, reader>>

CallSend(t, e) ==
    /\ pc[t] = "callLock"
    /\ lock = None
    /\ ws # None /\ ~ExpectationFails(t)
    /\ nextId <= MaxRpc
    /\ nextId' = nextId + 1
    /\ lock' = t
    /\ Register(nextId)
    /\ conn' = [conn EXCEPT ![nextId] = ws]
    /\ event' = [event EXCEPT ![nextId] = IF op[t] = "subscribe" THEN e ELSE None]
    /\ tws' = [tws EXCEPT ![t] = ws]
    /\ trpc' = [trpc EXCEPT ![t] = nextId]
    /\ Go(t, "sending")
    /\ optSent' = IF op[t] = "enable" THEN [optSent EXCEPT ![ws] = @ + 1] ELSE optSent
    /\ UNCHANGED <<ws, pmWs, subs, queue, privateMethods, pmLock, handed,
                   sock, allotted, unanswered, reader, op, tsid, out>>

SendOk(t) ==
    /\ pc[t] = "sending"
    /\ lock' = None
    /\ unanswered' = unanswered \cup {trpc[t]}
    /\ Go(t, "await")
    /\ UNCHANGED <<session, privateMethods, pmLock, requests, sock, optSent, allotted,
                   reader, locals>>

\* send() found the connection closing or closed.
SendError(t) ==
    /\ pc[t] = "sending"
    /\ \/ /\ ws = tws[t]
          /\ DetachConnection(pending \ {trpc[t]})
          /\ Go(t, "sendClose")
          /\ UNCHANGED <<locks, locals>>
       \/ /\ ws # tws[t]
          /\ Unregister(trpc[t])
          /\ lock' = None
          /\ Raise(t)
          /\ UNCHANGED <<ws, pmWs, fut, queue, subs>>
    /\ UNCHANGED <<privateMethods, requests, wire, reader>>

\* ws.close() of _close_websocket_locked ended or was cancelled.
FailedCallClosed(t) ==
    /\ pc[t] \in {"sendClose", "failClose"}
    /\ ReleaseSocket(tws[t])
    /\ lock' = None
    /\ Unregister(trpc[t])
    /\ Untrack(trpc[t])
    /\ Raise(t)
    /\ UNCHANGED <<ws, pmWs, fut, queue, privateMethods, requests>>

\* A reply with a result; subscribe() also wants a string, and its connection
\* still to be the current one.
Succeeds(t) ==
    /\ fut[trpc[t]] = "ok"
    /\ op[t] = "subscribe" => ws = tws[t]

FaultRecordOption(t) == UNCHANGED pmWs
\* enable_private_methods() notes the connection, if it still is the current one.
RecordOption(t) == pmWs' = IF op[t] = "enable" /\ ws = tws[t] THEN ws ELSE pmWs

\* The future has the reply.  enable_private_methods() only logs a failure.
CallReply(t) ==
    /\ pc[t] = "await"
    /\ fut[trpc[t]] \in ReplyKinds
    /\ Unregister(trpc[t])
    /\ \/ /\ Succeeds(t)
          /\ handed' = IF op[t] = "subscribe" THEN handed \cup {trpc[t]} ELSE handed
          /\ EndCall(t, "returned", FALSE)
          /\ UNCHANGED subs
       \/ /\ ~Succeeds(t)
          /\ Untrack(trpc[t])
          /\ EndCall(t, IF op[t] = "enable" THEN "returned" ELSE "raised",
                     fut[trpc[t]] = "error")
          /\ UNCHANGED handed
    /\ RecordOption(t)
    /\ UNCHANGED <<ws, lock, privateMethods, nextId, fut, conn, event, queue, wire, reader>>

\* A detach failed the future.
CallLost(t) ==
    /\ pc[t] = "await"
    /\ fut[trpc[t]] = "lost"
    /\ Unregister(trpc[t])
    /\ Untrack(trpc[t])
    /\ Raise(t)
    /\ UNCHANGED <<ws, pmWs, fut, queue, lock, privateMethods, requests, wire, reader>>

CallTimeout(t) ==
    /\ pc[t] = "await"
    /\ CancelFuture(trpc[t])
    /\ Go(t, "failLock")
    /\ UNCHANGED <<ws, pmWs, pending, subs, queue, privateMethods, locks, requests, wire,
                   reader, locals>>

\* A call that timed out closes its connection, but never a newer one.
FailedCallLock(t) ==
    /\ pc[t] = "failLock"
    /\ lock = None
    /\ \/ /\ ws = tws[t]
          /\ DetachConnection(pending)
          /\ lock' = t
          /\ Go(t, "failClose")
          /\ UNCHANGED <<pmLock, locals>>
       \/ /\ ws # tws[t]
          /\ Unregister(trpc[t])
          /\ Untrack(trpc[t])
          /\ Raise(t)
          /\ UNCHANGED <<ws, pmWs, fut, queue, lock>>
    /\ UNCHANGED <<privateMethods, requests, wire, reader>>

-----------------------------------------------------------------------------
(* unsubscribe() and enable_private_methods(), around their request *)

UnsubscribeLock(t, s) ==
    /\ pc[t] = "unsubLock"
    /\ lock = None
    /\ \/ /\ subs[s] = None
          /\ Finish(t, "returned")
       \/ /\ subs[s] # None
          /\ tws' = [tws EXCEPT ![t] = ws]
          /\ tsid' = [tsid EXCEPT ![t] = s]
          /\ Go(t, "callLock")
          /\ UNCHANGED <<op, trpc, out>>
    /\ UNCHANGED <<session, privateMethods, locks, requests, wire, reader>>

ForgetSubscription(t) ==
    /\ pc[t] = "forgetLock"
    /\ lock = None
    /\ \/ /\ ws = tws[t]
          /\ PutAll({subs[tsid[t]]} \ {None}, TERM)
          /\ subs' = [subs EXCEPT ![tsid[t]] = None]
       \/ ws # tws[t] /\ UNCHANGED <<queue, subs>>
    /\ Finish(t, out[t])
    /\ UNCHANGED <<ws, pmWs, pending, fut, privateMethods, locks, requests, wire, reader>>

\* The option is wanted on the current connection and was not sent on it.
OptionMissing == ws # None /\ pmWs # ws

FaultMayEnable == TRUE
MayEnable == pmLock = None
EnableLock(t) ==
    /\ pc[t] = "pmLock"
    /\ MayEnable
    /\ \/ /\ ~OptionMissing
          /\ Finish(t, "returned")
          /\ UNCHANGED pmLock
       \/ /\ OptionMissing
          /\ pmLock' = t
          /\ tws' = [tws EXCEPT ![t] = ws]
          /\ Go(t, "callLock")
          /\ UNCHANGED <<op, trpc, tsid, out>>
    /\ UNCHANGED <<session, lock, privateMethods, requests, wire, reader>>

-----------------------------------------------------------------------------
(* A task is cancelled where it is suspended; FailedCallClosed and OpenError
   are the same with and without a cancel. *)

\* Waiting for a lock with nothing to undo, or woken and not running yet (a task that
\* finds the lock free does not suspend; that it may be cancelled there too adds
\* behaviours).  In _forget_subscription the subscription is then left as it is.
CancelWaiting(t) ==
    /\ pc[t] \in {"connLock", "closeLock", "unsubLock", "pmLock", "forgetLock"}
    /\ Finish(t, "raised")
    /\ UNCHANGED <<session, privateMethods, locks, requests, wire, reader>>

CancelLogin(t) == pc[t] \in {"login", "option"} /\ DropUntracked(t)

CancelCloseWebsocket(t) ==
    /\ pc[t] = "closeWs"
    /\ ReleaseSocket(tws[t])
    /\ lock' = None
    /\ Finish(t, "raised")
    /\ UNCHANGED <<session, privateMethods, pmLock, requests>>

\* Cancelling a task that awaits the reader task cancels the reader.
CancelAwaitReader(t) ==
    /\ pc[t] \in {"closeReader", "closeCancelled"}
    /\ CancelReader(tws[t])
    /\ Go(t, "closeCancelled")
    /\ UNCHANGED <<session, privateMethods, locks, requests, wire, locals>>

CancelCallLock(t) ==
    /\ pc[t] = "callLock"
    /\ Raise(t)
    /\ UNCHANGED <<session, lock, privateMethods, requests, wire, reader>>

\* The request may or may not have been written.
CancelSending(t) ==
    /\ pc[t] = "sending"
    /\ lock' = None
    /\ Unregister(trpc[t])
    /\ unanswered' \in {unanswered, unanswered \cup {trpc[t]}}
    /\ Raise(t)
    /\ UNCHANGED <<ws, pmWs, subs, fut, queue, privateMethods, requests,
                   sock, optSent, allotted, reader>>

CancelAwait(t) ==
    /\ pc[t] = "await"
    /\ CancelFuture(trpc[t])
    /\ Unregister(trpc[t])
    /\ Untrack(trpc[t])
    /\ Raise(t)
    /\ UNCHANGED <<ws, pmWs, queue, lock, privateMethods, requests, wire, reader>>

\* The one detach that runs without the lock.
CancelFailedCallLock(t) ==
    /\ pc[t] = "failLock"
    /\ \/ /\ ws = tws[t]
          /\ DetachConnection(pending)
          /\ ReleaseSocket(tws[t])
       \/ /\ ws # tws[t]
          /\ Unregister(trpc[t])
          /\ Untrack(trpc[t])
          /\ UNCHANGED <<ws, pmWs, fut, queue, wire, reader>>
    /\ Raise(t)
    /\ UNCHANGED <<lock, privateMethods, requests>>

Cancel(t) ==
    /\ Cancels
    /\ \/ CancelWaiting(t) \/ CancelLogin(t) \/ CancelCloseWebsocket(t)
       \/ CancelAwaitReader(t) \/ CancelCallLock(t) \/ CancelSending(t)
       \/ CancelAwait(t) \/ CancelFailedCallLock(t)

-----------------------------------------------------------------------------
(* The reader task of connection c *)

Reading(c, m, where) ==
    /\ rd[c] = "recv"
    /\ rd' = [rd EXCEPT ![c] = where]
    /\ msg' = [msg EXCEPT ![c] = m]
    /\ UNCHANGED <<session, privateMethods, locks, requests, sock, optSent, pc, locals>>

\* The next message answers request r.  The server gives a subscription an id
\* it has not used on this connection; it may have used it on another one.
ReceiveReply(c, r, k, s) ==
    /\ r \in unanswered
    /\ conn[r] = c
    /\ k = "nonstr" => event[r] # None
    /\ s # None => event[r] # None /\ k \in {"ok", "error"} /\ s \notin allotted[c]
    /\ event[r] # None /\ k = "ok" => s # None
    /\ Reading(c, [type |-> "reply", id |-> r, kind |-> k, sid |-> s], "route")
    /\ unanswered' = unanswered \ {r}
    /\ allotted' = [allotted EXCEPT ![c] = @ \cup ({s} \ {None})]

\* The connection sends notifications; no queue is full (a bound).
Notifies(c) ==
    /\ sock[c] = "open"
    /\ \A r \in Rpcs : Len(queue[r]) < MaxQueue
    /\ UNCHANGED <<allotted, unanswered>>

\* The next message is a notification of a subscription, sent to its id.
ReceiveNotification(c, s) ==
    /\ Notifies(c)
    /\ s \in allotted[c]
    /\ Reading(c, [type |-> "note", sid |-> s], "route")

\* The next message names a collection, at its top level or in its params.
ReceiveCollection(c, top, inner) ==
    /\ Notifies(c)
    /\ allotted[c] # {}
    /\ top # None \/ inner # None
    /\ Reading(c, [type |-> "collection", top |-> top, inner |-> inner, seen |-> {}],
               IF top # None THEN "route" ELSE "route2")

\* recv() raised ConnectionClosed.
ReceiveClosed(c) ==
    /\ sock[c] = "closed"
    /\ Reading(c, NoMsg, "teardown")
    /\ UNCHANGED <<allotted, unanswered>>

\* A frame json.loads rejects with an error other than JSONDecodeError: the
\* loop ends, the socket stays as it is.
ReceiveBadFrame(c) ==
    /\ BadFrames
    /\ sock[c] = "open"
    /\ Reading(c, NoMsg, "teardown")
    /\ UNCHANGED <<allotted, unanswered>>

\* The reader holds the lock only within a step, and reads on after it.
Routed(c) ==
    /\ lock = None
    /\ rd' = [rd EXCEPT ![c] = "recv"]
    /\ msg' = [msg EXCEPT ![c] = NoMsg]

\* The reply completes the future of a pending call, after its reply hook: the
\* one of subscribe() tracks the queue under the id in the reply.
HandleRpcResponse(c) ==
    LET m == msg[c] IN
    /\ rd[c] = "route"
    /\ m.type = "reply"
    /\ pending' = IF ws = c THEN pending \ {m.id} ELSE pending
    /\ IF ws = c /\ m.id \in pending /\ fut[m.id] = "wait"
       THEN /\ fut' = [fut EXCEPT ![m.id] = m.kind]
            /\ subs' = IF m.sid # None THEN [subs EXCEPT ![m.sid] = m.id] ELSE subs
       ELSE UNCHANGED <<fut, subs>>
    /\ Routed(c)
    /\ UNCHANGED <<ws, pmWs, queue, privateMethods, locks, requests, wire, pc, locals>>

FaultNotedQueues(c) == {subs[msg[c].sid]} \ {None}
\* The queue tracked under the notification's id, if c is the current connection.
NotedQueues(c) == IF ws = c THEN {subs[msg[c].sid]} \ {None} ELSE {}
HandleSubscriptionNotification(c) ==
    /\ rd[c] = "route"
    /\ msg[c].type = "note"
    /\ PutAll(NotedQueues(c), c)
    /\ Routed(c)
    /\ UNCHANGED <<ws, pmWs, pending, subs, fut, privateMethods, locks, requests, wire,
                   pc, locals>>

\* A collection is an event, or an event with an argument.
MatchesSubscription(collection, e) ==
    \/ collection = e
    \/ Len(collection) = 2 /\ <<collection[1]>> = e

MatchingQueues(c, collection) ==
    IF ws = c THEN {r \in Tracked : MatchesSubscription(collection, event[r])} ELSE {}

FaultWithSeen(c) == msg[c]
\* The queues notified at the top level are remembered for the second lookup.
WithSeen(c) == [msg[c] EXCEPT !.seen = MatchingQueues(c, msg[c].top)]

\* The two lookups each take the lock; no queue gets the message twice.
HandleCollectionTop(c) ==
    LET m == msg[c] IN
    /\ rd[c] = "route"
    /\ m.type = "collection"
    /\ PutAll(MatchingQueues(c, m.top), c)
    /\ \/ m.inner = None /\ Routed(c)
       \/ /\ m.inner # None
          /\ lock = None
          /\ rd' = [rd EXCEPT ![c] = "route2"]
          /\ msg' = [msg EXCEPT ![c] = WithSeen(c)]
    /\ UNCHANGED <<ws, pmWs, pending, subs, fut, privateMethods, locks, requests, wire,
                   pc, locals>>

UnseenQueues(c) == MatchingQueues(c, msg[c].inner) \ msg[c].seen
HandleCollectionParams(c) ==
    /\ rd[c] = "route2"
    /\ PutAll(UnseenQueues(c), c)
    /\ Routed(c)
    /\ UNCHANGED <<ws, pmWs, pending, subs, fut, privateMethods, locks, requests, wire,
                   pc, locals>>

FaultDetachAny(c) == DetachConnection(pending)
FaultDetachNone(c) == UNCHANGED session
\* Only the current connection is detached.
DetachIfCurrent(c) ==
    \/ ws = c /\ DetachConnection(pending)
    \/ ws # c /\ UNCHANGED session
TeardownConnection(c) ==
    /\ rd[c] = "teardown"
    /\ lock = None
    /\ DetachIfCurrent(c)
    /\ rd' = [rd EXCEPT ![c] = "done"]
    /\ UNCHANGED <<privateMethods, locks, requests, wire, msg, pc, locals>>

\* The server or the network ends the connection.
Drop(c) ==
    /\ sock[c] = "open"
    /\ CloseSocket(c)
    /\ UNCHANGED <<session, privateMethods, locks, requests, reader, pc, locals>>

-----------------------------------------------------------------------------

Connect(t) ==
    \/ ConnectLock(t) \/ OpenTimeout(t) \/ OpenError(t) \/ LoginOk(t) \/ OptionReply(t)
    \/ LoginError(t) \/ ConnectClosed(t)
    \/ \E c \in Conns : OpenWebsocket(t, c)
Close(t) == CloseLock(t) \/ CloseWebsocket(t) \/ AwaitReader(t)
Call(t) ==
    \/ CallRefused(t) \/ SendOk(t) \/ SendError(t) \/ FailedCallClosed(t)
    \/ CallReply(t) \/ CallLost(t) \/ CallTimeout(t) \/ FailedCallLock(t)
    \/ \E e \in Events : CallSend(t, e)
Unsubscribe(t) == ForgetSubscription(t) \/ \E s \in SubIds : UnsubscribeLock(t, s)

Receive(c) ==
    \/ \E r \in Rpcs, k \in Kinds, s \in SubIds \cup {None} : ReceiveReply(c, r, k, s)
    \/ \E s \in SubIds : ReceiveNotification(c, s)
    \/ \E top, inner \in Collections \cup {None} : ReceiveCollection(c, top, inner)
    \/ ReceiveClosed(c) \/ ReceiveBadFrame(c)
Route(c) ==
    \/ HandleRpcResponse(c) \/ HandleSubscriptionNotification(c)
    \/ HandleCollectionTop(c) \/ HandleCollectionParams(c) \/ TeardownConnection(c)

Next ==
    \/ \E t \in Tasks :
          \/ \E o \in OpNames : Start(t, o)
          \/ Connect(t) \/ Close(t) \/ Call(t) \/ Unsubscribe(t) \/ EnableLock(t) \/ Cancel(t)
    \/ \E c \in Conns : Receive(c) \/ Route(c) \/ Drop(c)

Spec == Init /\ [][Next]_vars

-----------------------------------------------------------------------------
(* Properties *)

\* Every pending call was sent on the current connection: a detach fails and
\* clears those of the old one (the comment in _handle_rpc_response).
PendingOnCurrent == \A r \in pending : ws # None /\ conn[r] = ws

\* A call that waits for its reply can still be woken: its future is where the
\* reader and a detach find it.  Otherwise only its timeout would end it.
WaitingCallIsPending ==
    \A t \in Tasks : pc[t] = "await" /\ fut[trpc[t]] = "wait" => trpc[t] \in pending

\* No entry of _pending_calls outlives its call, however the call ended.
PendingHasOwner ==
    \A r \in pending : \E t \in Tasks :
        trpc[t] = r /\ pc[t] \in {"sending", "await", "failLock"}

\* Every tracked subscription was made on the current connection.
SubscriptionsOnCurrent ==
    \A s \in SubIds : subs[s] # None => ws # None /\ conn[subs[s]] = ws

\* No queue is tracked that nobody reads: its subscribe() returned it or has
\* not ended yet.  A cancelled or failed subscribe() leaves nothing behind.
TrackedHasReader ==
    \A r \in Tracked :
        \/ r \in handed
        \/ \E t \in Tasks : trpc[t] = r /\ pc[t] \in {"await", "failLock"}

\* subscribe() keeps the promise stated in SubscriptionFeed: a queue is fed only
\* while tracked and only by its own connection, and one that was returned is
\* untracked only with a terminator, the last thing it gets.
Feed == INSTANCE SubscriptionFeed
            WITH Reqs <- Rpcs, Sources <- Conns, feed <- queue, source <- conn,
                 open <- Tracked, returned <- handed
ImplementsFeed == Feed!FeedSpec

\* An open socket is the current connection or some task is about to make it
\* that or to close it: no failure and no cancel leaves a socket behind.
NoSocketLeak ==
    \A c \in Conns : sock[c] = "open" =>
        \/ ws = c
        \/ \E t \in Tasks : tws[t] = c /\ pc[t] \in LockPcs

\* The current connection has a reader that will detach it once it is lost.
CurrentHasReader == ws # None => rd[ws] \in {"recv", "route", "route2", "teardown"}

\* The reader only gives up a connection whose socket is closed (the docstring
\* of _parse_message: "or None on failure", upon which the loop reads on).
ReaderKeepsOpenSocket ==
    \A c \in Conns : rd[c] = "teardown" /\ ws = c => sock[c] = "closed"

\* What is recorded as having the option is the current connection, and
\* core.set_options was written to it.
OptionWasSent == pmWs # None => pmWs = ws /\ optSent[pmWs] > 0

\* core.set_options is not written again to a connection known to have it.
OptionNotResent ==
    [][\A c \in Conns : optSent'[c] > optSent[c] => pmWs # c]_vars

\* When enable_private_methods() returns, the connection there is, if any, has
\* the option: the one it saw, or a newer one whose connect() sent it.
EnableTakesEffect ==
    [][\A t \in Tasks : op[t] = "enable" /\ pc'[t] = "idle" /\ out'[t] = "returned"
                        => ws' = None \/ pmWs' = ws']_vars

\* Nothing that belongs to an older connection touches the current one: not the
\* old reader, and not a call that failed, timed out or was cancelled there.
NewConnectionUntouched ==
    [][/\ \A c \in Conns \ {ws} : rd'[c] # rd[c] /\ ws # None =>
              UNCHANGED <<ws, pmWs, pending, fut, subs, queue>>
       /\ \A t \in Tasks : tws[t] \notin {ws, None} /\ pc'[t] # pc[t] /\ ws # None =>
              /\ UNCHANGED <<ws, pmWs, subs, queue>>
              /\ pending' = pending \ {trpc[t]}
              /\ \A r \in pending : fut'[r] = fut[r]
              /\ sock'[ws] = sock[ws] /\ rd'[ws] = rd[ws]]_vars

\* unsubscribe() ends the subscription locally unless the server rejected the
\* request ("On every other outcome (success, a malformed response,
\* cancellation), the subscription ends locally").
UnsubscribeEndsLocally ==
    [][\A t \in Tasks : pc[t] = "forgetLock" /\ pc'[t] = "idle" /\ ws' = tws[t]
                        => subs'[tsid[t]] = None]_vars

-----------------------------------------------------------------------------
(* Liveness *)

\* What ends by itself: the handshake, the login and ws.close() have timeouts of
\* the library or of the client, a send ends at the latest with the keepalive.
Progress(t) ==
    \/ \E c \in Conns : OpenWebsocket(t, c)
    \/ OpenTimeout(t) \/ OpenError(t) \/ LoginOk(t) \/ OptionReply(t) \/ LoginError(t)
    \/ ConnectClosed(t) \/ CloseWebsocket(t) \/ AwaitReader(t)
    \/ SendOk(t) \/ SendError(t) \/ FailedCallClosed(t)
    \/ CallReply(t) \/ CallLost(t) \/ CallTimeout(t)

\* What waits for a lock; asyncio.Lock serves its waiters in order.
Acquire(t) ==
    \/ ConnectLock(t) \/ CloseLock(t) \/ FailedCallLock(t) \/ ForgetSubscription(t)
    \/ EnableLock(t) \/ CallRefused(t)
    \/ \E e \in Events : CallSend(t, e)
    \/ \E s \in SubIds : UnsubscribeLock(t, s)

Fairness ==
    /\ \A t \in Tasks : WF_vars(Progress(t)) /\ SF_vars(Acquire(t))
    /\ \A c \in Conns : WF_vars(ReceiveClosed(c)) /\ SF_vars(Route(c))

FairSpec == Spec /\ Fairness

\* Every method a task calls ends, close() and a timed-out call included: the
\* reader that close() awaits needs the lock, and never waits for that close().
EveryCallEnds == \A t \in Tasks : (pc[t] # "idle") ~> (pc[t] = "idle")

\* A lost connection is noticed: it stops being the current one and its reader ends.
LossIsNoticed ==
    \A c \in Conns : (sock[c] = "closed" /\ rd[c] # "none") ~> (ws # c /\ rd[c] = "done")

=============================================================================
