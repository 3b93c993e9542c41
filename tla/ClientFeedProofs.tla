-------------------------- MODULE ClientFeedProofs --------------------------
(***************************************************************************)
(* Client implements SubscriptionFeed: its steps, seen through the queues, *)
(* are steps of the feed, so that what a consumer may rely on holds of it; *)
(* no subscription is tracked that nobody reads, and every notification    *)
(* reaches each queue it is meant for exactly once.                        *)
(***************************************************************************)
EXTENDS ClientCallProofs, ClientDelivery

-----------------------------------------------------------------------------
(* Inductive invariant, on top of TypeInv, SessionInv, CallInv and LocalsInv *)

\* A request not given out yet has no connection and an empty queue.
Blank(r) == r >= nextId => conn[r] = None /\ queue[r] = <<>>

\* While its future waits, a request is not tracked and its queue is empty.
Untouched(r) == fut[r] = "wait" => r \notin Tracked /\ queue[r] = <<>>

\* A request has an event exactly when subscribe() made it; its queue is not
\* returned while it runs, and once it succeeded is tracked or was ended.
SubscribeTask(t) ==
    trpc[t] # None =>
        /\ event[trpc[t]] # None <=> op[t] = "subscribe"
        /\ trpc[t] \notin handed
        /\ op[t] = "subscribe" /\ fut[trpc[t]] = "ok" =>
               trpc[t] \in Tracked \/ Feed!Ended(trpc[t])

\* A reply on its way has an id only for a subscription, one that is new on the
\* connection, and has one when the subscription succeeded.
ReplyOnWay(c) ==
    rd[c] = "route" /\ msg[c].type = "reply" =>
        /\ msg[c].id < nextId
        /\ msg[c].sid # None => event[msg[c].id] # None /\ msg[c].sid \in allotted[c]
        /\ msg[c].sid # None /\ ws = c => subs[msg[c].sid] = None
        /\ msg[c].kind = "ok" /\ event[msg[c].id] # None => msg[c].sid # None

\* Subscriptions have different queues, and ids the current connection gave out.
SubscriptionTable ==
    /\ \A s \in SubIds : subs[s] # None => event[subs[s]] # None /\ s \in allotted[ws]
    /\ \A s, z \in SubIds : subs[s] # None /\ subs[s] = subs[z] => s = z

FeedInv ==
    /\ \A r \in Rpcs : Blank(r) /\ Untouched(r)
    /\ \A t \in Tasks : SubscribeTask(t)
    /\ \A r \in unanswered \cup handed : r < nextId
    /\ \A c \in Conns : ReplyOnWay(c)
    /\ SubscriptionTable
    /\ TrackedHasReader

-----------------------------------------------------------------------------

LEMMA FeedInit == Init => FeedInv
<1> SUFFICES ASSUME Init PROVE FeedInv
  OBVIOUS
<1>1. Tracked = {}
  BY DEF Init, Tracked
<1> QED
  BY <1>1
  DEF Init, FeedInv, Blank, Untouched, SubscribeTask, ReplyOnWay, SubscriptionTable,
      TrackedHasReader

LEMMA TrackedIs ==
    ASSUME NEW r
    PROVE  r \in Tracked <=> r # None /\ \E s \in SubIds : subs[s] = r
BY DEF Tracked

LEMMA TrackedUsed ==
    ASSUME TypeOK, SessionInv, NEW r \in Tracked
    PROVE  r \in Rpcs /\ r < nextId /\ conn[r] = ws /\ ws # None
BY TrackedIs DEF TypeOK, SessionInv, TableInv, UsedIds, SubscriptionsOnCurrent

LEMMA ReplyFields ==
    ASSUME TypeOK, NEW c \in Conns, msg[c].type = "reply"
    PROVE  msg[c].id \in Rpcs /\ msg[c].kind \in ReplyKinds /\ msg[c].sid \in SubIds \cup {None}
<1>1. msg[c] \in ReplyMsgs \cup NoteMsgs \cup CollMsgs \cup {NoMsg}
  BY DEF TypeOK
<1>2. msg[c] \notin NoteMsgs
  BY DEF NoteMsgs
<1>3. msg[c] \notin CollMsgs
  BY DEF CollMsgs
<1>4. msg[c] # NoMsg
  BY DEF NoMsg
<1>5. msg[c] \in ReplyMsgs
  BY <1>1, <1>2, <1>3, <1>4
<1> QED
  BY <1>5 DEF ReplyMsgs

\* What a step does to the requests and the tables that sends no request, routes no
\* reply and receives none.
FeedFrame ==
    /\ UNCHANGED <<nextId, conn, event>>
    /\ \A r \in Rpcs : /\ fut'[r] = "wait" => fut[r] = "wait"
                       /\ fut'[r] = "ok" => fut[r] = "ok" \/ event[r] = None
                       /\ r \notin Tracked => queue'[r] = queue[r]
    /\ \A s \in SubIds : subs'[s] \in {subs[s], None}
    /\ ws' = ws \/ \A s \in SubIds : subs'[s] = None
    /\ allotted' = allotted
    /\ \A r \in unanswered' \cup handed' : r < nextId
    /\ \A c \in Conns : rd'[c] = "route" /\ msg'[c].type = "reply" =>
                            rd[c] = "route" /\ msg'[c] = msg[c] /\ (ws' = c => ws = c)

LEMMA FrameTracked ==
    ASSUME FeedFrame
    PROVE  Tracked' \subseteq Tracked
BY DEF FeedFrame, Tracked

LEMMA FeedFrameKeeps ==
    ASSUME TypeInv, SessionInv, FeedInv, FeedFrame
    PROVE  /\ \A r \in Rpcs : Blank(r)' /\ Untouched(r)'
           /\ \A r \in (unanswered \cup handed)' : r < nextId'
           /\ \A c \in Conns : ReplyOnWay(c)'
           /\ SubscriptionTable'
<1>0. TypeOK
  BY DEF TypeInv
<1>1. ASSUME NEW r \in Rpcs PROVE Blank(r)'
  <2>1. r >= nextId => r \notin Tracked
    BY <1>0, TrackedUsed, MaxRpcNat DEF TypeOK, Rpcs
  <2> QED
    BY <2>1 DEF FeedInv, FeedFrame, Blank
<1>2. ASSUME NEW r \in Rpcs PROVE Untouched(r)'
  BY FrameTracked DEF FeedInv, FeedFrame, Untouched
<1>3. ASSUME NEW c \in Conns PROVE ReplyOnWay(c)'
  <2> SUFFICES ASSUME rd'[c] = "route", msg'[c].type = "reply" PROVE ReplyOnWay(c)'
    BY DEF ReplyOnWay
  <2>1. rd[c] = "route" /\ msg'[c] = msg[c] /\ (ws' = c => ws = c)
    BY DEF FeedFrame
  <2>2. ReplyOnWay(c)
    BY DEF FeedInv
  <2>3. msg[c].sid \in SubIds \cup {None}
    BY <1>0, <2>1, ReplyFields
  <2> QED
    BY <2>1, <2>2, <2>3 DEF ReplyOnWay, FeedFrame
<1>4. SubscriptionTable'
  BY DEF FeedInv, FeedFrame, SubscriptionTable
<1> QED
  BY <1>1, <1>2, <1>3, <1>4 DEF FeedFrame

\* The queues that are no longer tracked were ended, except for those in R.
EndedUnless(R) == \A r \in Tracked \ R : r \in Tracked' \/ Feed!Ended(r)'

LEMMA OtherSubscribeTask ==
    ASSUME TypeInv, FeedInv, FeedFrame, NEW u \in Tasks, NEW R, EndedUnless(R),
           trpc'[u] = trpc[u], op'[u] = op[u],
           trpc[u] # None => trpc[u] \notin R /\ trpc[u] \notin handed'
    PROVE  SubscribeTask(u)'
<1> SUFFICES ASSUME trpc[u] # None PROVE SubscribeTask(u)'
  BY DEF SubscribeTask
<1>1. trpc[u] \in Rpcs /\ SubscribeTask(u)
  BY DEF TypeInv, TypeOK, FeedInv
<1>2. Feed!Ended(trpc[u]) /\ trpc[u] \notin Tracked => Feed!Ended(trpc[u])'
  BY <1>1 DEF Feed!Ended, FeedFrame
<1>3. trpc[u] \in Tracked => trpc[u] \in Tracked' \/ Feed!Ended(trpc[u])'
  BY DEF EndedUnless
<1> QED
  BY <1>1, <1>2, <1>3 DEF SubscribeTask, FeedFrame

\* A step of task t; what it abandons is its own.
LEMMA FeedKept ==
    ASSUME TypeInv, SessionInv, CallInv, FeedInv, FeedFrame, NEW t \in Tasks, Moves(t),
           EndedUnless({trpc[t]}), SubscribeTask(t)',
           handed \subseteq handed', handed' \subseteq handed \cup {trpc[t]},
           trpc[t] \in Tracked' => \/ trpc[t] \in handed'
                                   \/ trpc'[t] = trpc[t] /\ pc'[t] \in {"await", "failLock"}
    PROVE  FeedInv'
<1>1. ASSUME NEW u \in Tasks \ {t} PROVE SubscribeTask(u)'
  <2>1. trpc'[u] = trpc[u] /\ op'[u] = op[u]
    BY DEF Moves
  <2>2. trpc[u] # None => trpc[u] # trpc[t] /\ trpc[u] \notin handed
    BY DEF CallInv, RequestsDistinct, FeedInv, SubscribeTask
  <2> QED
    BY <2>1, <2>2, OtherSubscribeTask
<1>2. TrackedHasReader'
  <2> SUFFICES ASSUME NEW r \in Tracked', r \notin handed'
               PROVE  \E u \in Tasks : trpc'[u] = r /\ pc'[u] \in {"await", "failLock"}
    BY DEF TrackedHasReader
  <2>1. PICK u \in Tasks : trpc[u] = r /\ pc[u] \in {"await", "failLock"}
    BY FrameTracked DEF FeedInv, TrackedHasReader
  <2>2. CASE u = t
    BY <2>1, <2>2
  <2>3. CASE u # t
    BY <2>1, <2>3 DEF Moves
  <2> QED
    BY <2>2, <2>3
<1> QED
  BY <1>1, <1>2, FeedFrameKeeps DEF FeedInv

LEMMA FeedLeft ==
    ASSUME TypeInv, SessionInv, CallInv, FeedInv, FeedFrame, UNCHANGED <<pc, op, trpc, handed>>,
           EndedUnless({})
    PROVE  FeedInv'
<1>1. ASSUME NEW u \in Tasks PROVE SubscribeTask(u)'
  BY OtherSubscribeTask DEF FeedInv, SubscribeTask
<1>2. TrackedHasReader'
  BY FrameTracked DEF FeedInv, TrackedHasReader
<1> QED
  BY <1>1, <1>2, FeedFrameKeeps DEF FeedInv

\* The frame of a step that leaves the queues, the subscriptions and the connections alone.
LEMMA QuietFrame ==
    ASSUME TypeInv, CallInv, FeedInv, UNCHANGED <<nextId, conn, event, allotted, subs, queue, ws, handed>>,
           NEW t \in Tasks, unanswered' \subseteq unanswered \cup ({trpc[t]} \ {None}),
           fut' = fut \/ CancelFuture(trpc[t]),
           NEW c, UNCHANGED <<rd, msg>> \/ CancelReader(c)
    PROVE  FeedFrame /\ Tracked' = Tracked /\ EndedUnless({})
<1>0. TypeOK
  BY DEF TypeInv
<1>1. Tracked' = Tracked
  BY DEF Tracked
<1>2. \A r \in unanswered' \cup handed' : r < nextId
  BY DEF FeedInv, CallInv, OwnRequest
<1>3. \A r \in Rpcs : fut'[r] \in {fut[r], "cancelled"}
  BY <1>0 DEF CancelFuture, TypeOK
<1>4. \A d \in Conns : rd'[d] = "route" => rd[d] = "route" /\ msg'[d] = msg[d]
  BY <1>0 DEF CancelReader, TypeOK
<1> QED
  BY <1>1, <1>2, <1>3, <1>4 DEF FeedFrame, EndedUnless

\* The frame of a detach: every queue that was tracked has been ended.
LEMMA DetachFrame ==
    ASSUME TypeInv, FeedInv, NEW failing, DetachConnection(failing),
           UNCHANGED <<nextId, conn, event, allotted, unanswered, handed>>,
           NEW c, UNCHANGED <<rd, msg>> \/ CancelReader(c) \/ (rd' = [rd EXCEPT ![c] = "done"] /\ msg' = msg)
    PROVE  FeedFrame /\ Tracked' = {} /\ EndedUnless({})
<1>0. TypeOK
  BY DEF TypeInv
<1>1. ws' = None /\ \A s \in SubIds : subs'[s] = None
  BY DetachEffect
<1>2. Tracked' = {}
  BY <1>1 DEF Tracked
<1>3. queue' = [r \in Rpcs |-> IF r \in Tracked THEN Append(queue[r], TERM) ELSE queue[r]]
  BY DEF DetachConnection, EndSubscriptions, PutAll
<1>4. ASSUME NEW r \in Tracked PROVE Feed!Ended(r)'
  <2>1. r \in Rpcs /\ queue[r] \in Seq(Conns \cup {TERM})
    BY <1>0, TrackedIs DEF TypeOK
  <2>2. queue'[r] = Append(queue[r], TERM)
    BY <1>3, <2>1
  <2> QED
    BY <2>1, <2>2 DEF Feed!Ended
<1>5. \A r \in Rpcs : fut'[r] \in {fut[r], "lost"}
  BY <1>0 DEF DetachConnection, FailCalls, TypeOK
<1>6. \A d \in Conns : rd'[d] = "route" => rd[d] = "route" /\ msg'[d] = msg[d]
  BY <1>0 DEF CancelReader, TypeOK
<1>7. FeedFrame
  BY <1>1, <1>3, <1>5, <1>6, NoneIsNone DEF FeedFrame, FeedInv
<1> QED
  BY <1>2, <1>4, <1>7 DEF EndedUnless

\* The frame of the end of a request, whose queue is taken out.
LEMMA UntrackFrame ==
    ASSUME TypeInv, FeedInv, NEW t \in Tasks, trpc[t] # None, Untrack(trpc[t]),
           UNCHANGED <<nextId, conn, event, allotted, unanswered, queue, ws, handed>>,
           fut' = fut \/ CancelFuture(trpc[t]),
           NEW c, UNCHANGED <<rd, msg>> \/ CancelReader(c)
    PROVE  FeedFrame /\ Tracked' = Tracked \ {trpc[t]} /\ EndedUnless({trpc[t]})
<1>0. TypeOK
  BY DEF TypeInv
<1>1. Tracked' = Tracked \ {trpc[t]}
  BY DEF Tracked, Untrack
<1>2. \A s \in SubIds : subs'[s] \in {subs[s], None}
  BY DEF Untrack
<1>3. \A r \in Rpcs : fut'[r] \in {fut[r], "cancelled"}
  BY <1>0 DEF CancelFuture, TypeOK
<1>4. \A d \in Conns : rd'[d] = "route" => rd[d] = "route" /\ msg'[d] = msg[d]
  BY <1>0 DEF CancelReader, TypeOK
<1> QED
  BY <1>1, <1>2, <1>3, <1>4 DEF FeedFrame, EndedUnless, FeedInv

\* A task without a request takes a step.
LEMMA FeedNoRequest ==
    ASSUME TypeInv, SessionInv, CallInv, FeedInv, FeedFrame, NEW t \in Tasks, Moves(t),
           pc[t] \notin CallPcs, trpc'[t] \in {trpc[t], None}, handed' = handed, EndedUnless({})
    PROVE  FeedInv'
<1>1. trpc[t] = None /\ trpc'[t] = None
  BY DEF CallInv, OwnRequest
<1>2. SubscribeTask(t)' /\ None \notin Tracked'
  BY <1>1 DEF SubscribeTask, Tracked
<1> QED
  BY <1>1, <1>2, FeedKept DEF EndedUnless

\* A task goes on with its request.
LEMMA FeedCallGoes ==
    ASSUME TypeInv, SessionInv, CallInv, FeedInv, FeedFrame, NEW t \in Tasks, Moves(t),
           trpc'[t] = trpc[t], op'[t] = op[t], handed' = handed, EndedUnless({}),
           trpc[t] \in Tracked' => pc'[t] \in {"await", "failLock"}
    PROVE  FeedInv'
<1>1. SubscribeTask(t)'
  BY OtherSubscribeTask DEF FeedInv, SubscribeTask
<1> QED
  BY <1>1, FeedKept DEF EndedUnless

\* A task ends its request without returning a queue.
LEMMA FeedCallEnds ==
    ASSUME TypeInv, SessionInv, CallInv, FeedInv, FeedFrame, NEW t \in Tasks, NEW o, NEW rejected,
           EndCall(t, o, rejected), handed' = handed, EndedUnless({trpc[t]}), trpc[t] \notin Tracked'
    PROVE  FeedInv'
<1>1. Moves(t) /\ trpc'[t] = None
  BY EndCallEnds DEF TypeInv
<1>2. SubscribeTask(t)'
  BY <1>1 DEF SubscribeTask
<1> QED
  BY <1>1, <1>2, FeedKept

\* The reply to a request cannot have been routed before send() returned.
LEMMA NotTrackedYet ==
    ASSUME CallInv, FeedInv, NEW t \in Tasks, pc[t] \in CallPcs \ {"await", "failLock"}, trpc[t] # None
    PROVE  trpc[t] \notin Tracked
BY DEF CallInv, RequestsDistinct, FeedInv, SubscribeTask, TrackedHasReader

-----------------------------------------------------------------------------
(* The steps that make, answer and return a subscription *)

LEMMA FeedSend ==
    ASSUME TypeInv, SessionInv, CallInv, FeedInv, NEW t \in Tasks, NEW e \in Events, CallSend(t, e)
    PROVE  FeedInv'
<1>0. TypeOK /\ MaxRpc \in Nat
  BY MaxRpcNat DEF TypeInv
<1> USE DEF reader
<1>1. /\ nextId \in Rpcs /\ nextId' = nextId + 1 /\ pc[t] = "callLock"
      /\ UNCHANGED <<ws, subs, queue, handed, allotted, unanswered, rd, msg>>
      /\ conn'[nextId] = ws /\ fut'[nextId] = "wait"
      /\ event'[nextId] = IF op[t] = "subscribe" THEN e ELSE None
      /\ \A r \in Rpcs \ {nextId} : conn'[r] = conn[r] /\ fut'[r] = fut[r] /\ event'[r] = event[r]
  BY <1>0 DEF CallSend, Register, TypeOK, Rpcs
<1>2. Moves(t) /\ trpc'[t] = nextId /\ op'[t] = op[t]
  BY <1>0 DEF CallSend, Moves, Go, TypeOK
<1>3. Tracked' = Tracked /\ \A r \in Tracked : r \in Rpcs /\ r # nextId
  <2>1. Tracked' = Tracked
    BY <1>1 DEF Tracked
  <2>2. \A r \in Tracked : r \in Rpcs /\ r < nextId
    BY <1>0, TrackedUsed
  <2>3. \A r \in Rpcs : r < nextId => r # nextId
    BY <1>0 DEF Rpcs
  <2> QED
    BY <2>1, <2>2, <2>3
<1>4. nextId \in Nat /\ \A r \in Rpcs : r \in Nat
  BY <1>0, <1>1 DEF Rpcs
<1>5. ASSUME NEW r \in Rpcs PROVE Blank(r)'
  <2> SUFFICES ASSUME r >= nextId + 1 PROVE conn'[r] = None /\ queue'[r] = <<>>
    BY <1>1 DEF Blank
  <2>1. r # nextId /\ r >= nextId
    BY <1>4
  <2> QED
    BY <1>1, <2>1 DEF FeedInv, Blank
<1>6. ASSUME NEW r \in Rpcs PROVE Untouched(r)'
  <2>1. CASE r = nextId
    BY <1>1, <1>3, <1>4, <2>1 DEF FeedInv, Blank, Untouched
  <2>2. CASE r # nextId
    BY <1>1, <1>3, <2>2 DEF FeedInv, Untouched
  <2> QED
    BY <2>1, <2>2
<1>7. SubscribeTask(t)'
  <2>1. nextId \notin handed
    BY <1>4 DEF FeedInv
  <2>2. e # None
    BY ClientAssumption
  <2> QED
    BY <1>1, <1>2, <2>1, <2>2 DEF SubscribeTask
<1>8. ASSUME NEW u \in Tasks \ {t} PROVE SubscribeTask(u)'
  <2>1. trpc'[u] = trpc[u] /\ op'[u] = op[u]
    BY <1>2 DEF Moves
  <2> SUFFICES ASSUME trpc[u] # None PROVE SubscribeTask(u)'
    BY <2>1 DEF SubscribeTask
  <2>2. trpc[u] \in Rpcs /\ trpc[u] < nextId
    BY <1>0 DEF TypeOK, CallInv, OwnRequest
  <2>3. trpc[u] # nextId
    BY <1>4, <2>2
  <2>4. SubscribeTask(u)
    BY DEF FeedInv
  <2>5. Feed!Ended(trpc[u])' <=> Feed!Ended(trpc[u])
    BY <1>1, <2>1 DEF Feed!Ended
  <2> QED
    BY <1>1, <1>3, <2>1, <2>2, <2>3, <2>4, <2>5 DEF SubscribeTask
<1>9. \A r \in (unanswered \cup handed)' : r < nextId'
  BY <1>0, <1>1, <1>4 DEF FeedInv, TypeOK
<1>10. ASSUME NEW c \in Conns PROVE ReplyOnWay(c)'
  <2> SUFFICES ASSUME rd[c] = "route", msg[c].type = "reply" PROVE ReplyOnWay(c)'
    BY <1>1 DEF ReplyOnWay
  <2>1. msg[c].id \in Rpcs /\ ReplyOnWay(c)
    BY <1>0, ReplyFields DEF FeedInv
  <2>2. msg[c].id < nextId
    BY <2>1 DEF ReplyOnWay
  <2>3. \A r \in Rpcs : r < nextId => r # nextId /\ r < nextId + 1
    BY <1>4
  <2> QED
    BY <1>1, <2>1, <2>2, <2>3 DEF ReplyOnWay
<1>11. SubscriptionTable'
  <2>1. \A s \in SubIds : subs[s] # None => event'[subs[s]] = event[subs[s]]
    BY <1>1, <1>3 DEF Tracked
  <2> QED
    BY <1>1, <2>1 DEF FeedInv, SubscriptionTable
<1>12. TrackedHasReader'
  <2>1. trpc[t] = None
    BY <1>1 DEF CallInv, OwnRequest, CallPcs
  <2> SUFFICES ASSUME NEW r \in Tracked, r \notin handed
               PROVE  \E u \in Tasks : trpc'[u] = r /\ pc'[u] \in {"await", "failLock"}
    BY <1>1, <1>3 DEF TrackedHasReader
  <2>2. PICK u \in Tasks : trpc[u] = r /\ pc[u] \in {"await", "failLock"}
    BY DEF FeedInv, TrackedHasReader
  <2> QED
    BY <1>1, <1>2, <2>2 DEF Moves
<1> QED
  BY <1>5, <1>6, <1>7, <1>8, <1>9, <1>10, <1>11, <1>12 DEF FeedInv

\* The reply to a core.subscribe that is still waited for: its queue is tracked.
Tracks(c) ==
    rd[c] = "route" /\ msg[c].type = "reply" /\ ws = c /\ msg[c].id \in pending
        /\ fut[msg[c].id] = "wait" /\ msg[c].sid # None

LEMMA TracksEffect ==
    ASSUME TypeOK, FeedInv, NEW c \in Conns, HandleRpcResponse(c), Tracks(c)
    PROVE  /\ msg[c].id \in Rpcs /\ msg[c].sid \in SubIds /\ subs[msg[c].sid] = None
           /\ msg[c].id \notin Tracked /\ Tracked' = Tracked \cup {msg[c].id}
           /\ subs'[msg[c].sid] = msg[c].id
           /\ \A s \in SubIds \ {msg[c].sid} : subs'[s] = subs[s]
           /\ fut'[msg[c].id] # "wait"
           /\ \A r \in Rpcs \ {msg[c].id} : fut'[r] = fut[r]
<1>1. msg[c].id \in Rpcs /\ msg[c].kind \in ReplyKinds /\ msg[c].sid \in SubIds
  BY ReplyFields DEF Tracks
<1>2. subs[msg[c].sid] = None /\ msg[c].id \notin Tracked
  BY <1>1 DEF Tracks, FeedInv, ReplyOnWay, Untouched
<1>3. /\ fut' = [fut EXCEPT ![msg[c].id] = msg[c].kind]
      /\ subs' = [subs EXCEPT ![msg[c].sid] = msg[c].id]
  BY DEF HandleRpcResponse, Tracks
<1>4. /\ subs'[msg[c].sid] = msg[c].id
      /\ \A s \in SubIds \ {msg[c].sid} : subs'[s] = subs[s]
  BY <1>1, <1>3 DEF TypeOK
<1>5. msg[c].id # None
  BY <1>1, ClientAssumption
<1>6. Tracked' = Tracked \cup {msg[c].id}
  <2>1. ASSUME NEW r PROVE r \in Tracked' <=> r # None /\ \E s \in SubIds : subs'[s] = r
    BY DEF Tracked
  <2> QED
    BY <1>1, <1>2, <1>4, <1>5, <2>1, TrackedIs
<1>7. fut'[msg[c].id] # "wait" /\ \A r \in Rpcs \ {msg[c].id} : fut'[r] = fut[r]
  BY <1>1, <1>3 DEF TypeOK, ReplyKinds
<1> QED
  BY <1>1, <1>2, <1>4, <1>6, <1>7

LEMMA FeedTracks ==
    ASSUME TypeInv, SessionInv, CallInv, FeedInv, NEW c \in Conns, HandleRpcResponse(c), Tracks(c)
    PROVE  FeedInv'
<1> DEFINE i == msg[c].id
           z == msg[c].sid
<1> HIDE DEF i, z
<1>0. TypeOK
  BY DEF TypeInv
<1> USE DEF locals, requests, wire
<1>1. /\ i \in Rpcs /\ z \in SubIds /\ subs[z] = None
      /\ i \notin Tracked /\ Tracked' = Tracked \cup {i}
      /\ subs'[z] = i
      /\ \A s \in SubIds \ {z} : subs'[s] = subs[s]
      /\ fut'[i] # "wait"
      /\ \A r \in Rpcs \ {i} : fut'[r] = fut[r]
  BY <1>0, TracksEffect DEF i, z
<1>2. /\ UNCHANGED <<pc, op, trpc, nextId, conn, event, queue, handed, ws, allotted, unanswered>>
      /\ rd'[c] = "recv" /\ \A d \in Conns \ {c} : rd'[d] = rd[d] /\ msg'[d] = msg[d]
      /\ lock = None
  BY <1>0 DEF HandleRpcResponse, Routed, TypeOK
<1>3. /\ ws = c /\ event[i] # None /\ z \in allotted[ws] /\ i \in pending
      /\ z # None
  BY DEF Tracks, FeedInv, ReplyOnWay, i, z
<1>4. \A r \in Rpcs : Blank(r)' /\ Untouched(r)'
  BY <1>1, <1>2 DEF FeedInv, Blank, Untouched
<1>5. ASSUME NEW u \in Tasks PROVE SubscribeTask(u)'
  <2>1. SubscribeTask(u) /\ trpc[u] \in Rpcs \cup {None}
    BY <1>0 DEF FeedInv, TypeOK
  <2>2. Feed!Ended(trpc[u])' <=> Feed!Ended(trpc[u])
    BY <1>2 DEF Feed!Ended
  <2> QED
    BY <1>1, <1>2, <2>1, <2>2 DEF SubscribeTask
<1>6. \A r \in (unanswered \cup handed)' : r < nextId'
  BY <1>2 DEF FeedInv
<1>7. ASSUME NEW d \in Conns PROVE ReplyOnWay(d)'
  <2>1. CASE d = c
    BY <1>2, <2>1 DEF ReplyOnWay
  <2>2. CASE d # c
    BY <1>2, <1>3, <2>2 DEF FeedInv, ReplyOnWay
  <2> QED
    BY <2>1, <2>2
<1>8. SubscriptionTable'
  <2>1. \A s \in SubIds : subs[s] # i
    BY <1>1, ClientAssumption DEF Tracked
  <2> QED
    BY <1>1, <1>2, <1>3, <2>1 DEF FeedInv, SubscriptionTable
<1>9. TrackedHasReader'
  <2>1. PICK u \in Tasks : trpc[u] = i /\ pc[u] \in OwnerPcs
    BY <1>3 DEF CallInv, PendingHasOwner, OwnerPcs
  <2>2. pc[u] \notin LockPcs
    BY <1>2, NoneIsNone DEF SessionInv, LockHeld
  <2>3. pc[u] \in {"await", "failLock"}
    BY <2>1, <2>2 DEF OwnerPcs, LockPcs
  <2> QED
    BY <1>1, <1>2, <2>1, <2>3 DEF FeedInv, TrackedHasReader
<1> QED
  BY <1>4, <1>5, <1>6, <1>7, <1>8, <1>9 DEF FeedInv

LEMMA FeedReceiveReply ==
    ASSUME TypeInv, SessionInv, CallInv, FeedInv, NEW c \in Conns, NEW r \in Rpcs,
           NEW k \in Kinds, NEW s \in SubIds \cup {None}, ReceiveReply(c, r, k, s)
    PROVE  FeedInv'
<1>0. TypeOK
  BY DEF TypeInv
<1> USE DEF session, locals, requests
<1>1. /\ UNCHANGED <<pc, op, trpc, nextId, conn, event, queue, handed, ws, subs, fut>>
      /\ unanswered' \subseteq unanswered /\ r \in unanswered /\ conn[r] = c
      /\ \A d \in Conns \ {c} : rd'[d] = rd[d] /\ msg'[d] = msg[d] /\ allotted'[d] = allotted[d]
      /\ allotted'[c] = allotted[c] \cup ({s} \ {None})
      /\ msg'[c] = [type |-> "reply", id |-> r, kind |-> k, sid |-> s]
  BY <1>0 DEF ReceiveReply, Reading, TypeOK
<1>2. Tracked' = Tracked
  BY <1>1 DEF Tracked
<1>3. \A x \in Rpcs : Blank(x)' /\ Untouched(x)'
  BY <1>1, <1>2 DEF FeedInv, Blank, Untouched
<1>4. ASSUME NEW u \in Tasks PROVE SubscribeTask(u)'
  BY <1>1, <1>2 DEF FeedInv, SubscribeTask, Feed!Ended
<1>5. \A x \in (unanswered \cup handed)' : x < nextId'
  BY <1>1 DEF FeedInv
<1>6. ASSUME NEW d \in Conns PROVE ReplyOnWay(d)'
  <2>1. CASE d # c
    BY <1>1, <2>1 DEF FeedInv, ReplyOnWay
  <2>2. CASE d = c
    <3>1. msg'[d].id = r /\ msg'[d].sid = s /\ msg'[d].kind = k
      BY <1>1, <2>2
    <3>2. s # None => event[r] # None /\ s \notin allotted[c]
      BY DEF ReceiveReply
    <3>3. s # None /\ ws = c => subs[s] = None
      BY <3>2 DEF FeedInv, SubscriptionTable
    <3>4. k = "ok" /\ event[r] # None => s # None
      BY DEF ReceiveReply
    <3>5. r < nextId
      BY <1>1 DEF FeedInv
    <3> QED
      BY <1>1, <2>2, <3>1, <3>2, <3>3, <3>4, <3>5 DEF ReplyOnWay
  <2> QED
    BY <2>1, <2>2
<1>7. SubscriptionTable'
  <2>1. \A d \in Conns : allotted[d] \subseteq allotted'[d]
    BY <1>1
  <2>2. \A x \in SubIds : subs[x] # None => ws \in Conns
    BY <1>0 DEF SessionInv, TableInv, SubscriptionsOnCurrent, TypeOK
  <2> QED
    BY <1>1, <2>1, <2>2 DEF FeedInv, SubscriptionTable
<1>8. TrackedHasReader'
  BY <1>1, <1>2 DEF FeedInv, TrackedHasReader
<1> QED
  BY <1>3, <1>4, <1>5, <1>6, <1>7, <1>8 DEF FeedInv

-----------------------------------------------------------------------------

\* The queues a message is put into are tracked.
LEMMA DeliverFrame ==
    ASSUME TypeInv, FeedInv, NEW c \in Conns, NEW Q, Q \subseteq Tracked, PutAll(Q, c),
           UNCHANGED <<nextId, conn, event, allotted, unanswered, handed, fut, subs, ws>>,
           rd'[c] # "route", \A d \in Conns \ {c} : rd'[d] = rd[d] /\ msg'[d] = msg[d]
    PROVE  FeedFrame /\ EndedUnless({})
<1>1. Tracked' = Tracked
  BY DEF Tracked
<1>2. \A r \in Rpcs \ Tracked : queue'[r] = queue[r]
  BY DEF PutAll
<1> QED
  BY <1>1, <1>2 DEF FeedFrame, EndedUnless, FeedInv

LEMMA DeliveredTracked ==
    ASSUME NEW c \in Conns, rd[c] \in {"route", "route2"}
    PROVE  /\ msg[c].type = "note" /\ msg[c] \in NoteMsgs => NotedQueues(c) \subseteq Tracked
           /\ \A x : MatchingQueues(c, x) \subseteq Tracked
           /\ UnseenQueues(c) \subseteq Tracked
BY DEF NotedQueues, MatchingQueues, UnseenQueues, Tracked, NoteMsgs

LEMMA NoteFields ==
    ASSUME TypeOK, NEW c \in Conns, msg[c].type = "note"
    PROVE  msg[c] \in NoteMsgs
<1>1. msg[c] \in ReplyMsgs \cup NoteMsgs \cup CollMsgs \cup {NoMsg}
  BY DEF TypeOK
<1>2. msg[c] \notin ReplyMsgs
  BY DEF ReplyMsgs
<1>3. msg[c] \notin CollMsgs
  BY DEF CollMsgs
<1>4. msg[c] # NoMsg
  BY DEF NoMsg
<1> QED
  BY <1>1, <1>2, <1>3, <1>4

\* The steps of a task.
LEMMA FeedTaskStep ==
    ASSUME TypeInv, SessionInv, CallInv, LocalsInv, FeedInv, NEW t \in Tasks, TaskNext(t)
    PROVE  FeedInv'
<1>0. TypeOK /\ Moves(t)
  BY OnlyOneMoves DEF TypeInv
<1>q. ASSUME UNCHANGED <<nextId, conn, event, allotted, unanswered, subs, queue, fut, ws, handed, rd, msg>>
      PROVE  FeedFrame /\ EndedUnless({})
  BY <1>q, QuietFrame
<1>r. pc[t] \in CallPcs => trpc[t] # None /\ trpc[t] \in Rpcs
  BY ClientAssumption DEF TypeInv, CallLocals
<1> USE DEF session, locks, requests, wire, reader, locals, CallPcs
<1>1. ASSUME NEW o \in OpNames, Start(t, o) PROVE FeedInv'
  BY <1>0, <1>1, <1>q, FeedNoRequest DEF Start
<1>2. CASE Connect(t)
  <2>1. pc[t] \notin CallPcs /\ trpc'[t] \in {trpc[t], None} /\ handed' = handed
    BY <1>0, <1>2, FinishEnds
    DEF Connect, ConnectLock, OpenTimeout, OpenError, LoginOk, OptionReply, LoginError,
        ConnectClosed, DropUntracked, Establish, OpenWebsocket
  <2>2. FeedFrame /\ EndedUnless({})
    <3>1. CASE Establish(t) /\ pc[t] \in {"login", "option"}
      <4>1. /\ UNCHANGED <<nextId, conn, event, allotted, unanswered, subs, queue, fut, handed, msg>>
            /\ tws[t] \in Conns /\ rd[tws[t]] = "none" /\ ws = None
            /\ rd' = [rd EXCEPT ![tws[t]] = "recv"]
            /\ ws' = tws[t]
        BY <3>1 DEF Establish, SessionInv, ConnectionInv, TaskConnection, LockPcs
      <4>2. \A s \in SubIds : subs[s] = None
        BY <4>1 DEF SessionInv, TableInv, SubscriptionsOnCurrent
      <4>3. Tracked' = Tracked
        BY <4>1 DEF Tracked
      <4>4. \A d \in Conns : rd'[d] = "route" => rd[d] = "route" /\ ws' # d
        BY <1>0, <4>1 DEF TypeOK
      <4> QED
        BY <4>1, <4>2, <4>3, <4>4 DEF FeedFrame, EndedUnless, FeedInv
    <3>2. CASE ~(Establish(t) /\ pc[t] \in {"login", "option"})
      <4>1. UNCHANGED <<nextId, conn, event, allotted, unanswered, subs, queue, fut, ws, handed, rd, msg>>
        BY <1>2, <3>2
        DEF Connect, ConnectLock, OpenTimeout, OpenError, LoginOk, OptionReply, LoginError,
            ConnectClosed, DropUntracked, CloseSocket, OpenWebsocket
      <4> QED
        BY <1>q, <4>1
    <3> QED
      BY <3>1, <3>2
  <2> QED
    BY <1>0, <2>1, <2>2, FeedNoRequest
<1>3. CASE Close(t)
  <2>1. pc[t] \notin CallPcs /\ trpc'[t] \in {trpc[t], None} /\ handed' = handed
    BY <1>0, <1>3, FinishEnds DEF Close, CloseLock, CloseWebsocket, AwaitReader
  <2>2. FeedFrame /\ EndedUnless({})
    <3>1. CASE CloseLock(t) /\ ws # None
      BY <3>1, DetachFrame DEF CloseLock
    <3>2. CASE (CloseLock(t) /\ ws = None) \/ CloseWebsocket(t) \/ AwaitReader(t)
      BY <1>q, <3>2 DEF CloseLock, CloseWebsocket, CloseSocket, AwaitReader
    <3> QED
      BY <1>3, <3>1, <3>2 DEF Close
  <2> QED
    BY <1>0, <2>1, <2>2, FeedNoRequest
<1>4. CASE CallRefused(t)
  BY <1>0, <1>4, <1>q, EndCallEnds, FeedNoRequest DEF CallRefused, Raise
<1>5. ASSUME NEW e \in Events, CallSend(t, e) PROVE FeedInv'
  BY <1>5, FeedSend
<1>6. CASE SendOk(t)
  <2>1. trpc'[t] = trpc[t] /\ op'[t] = op[t] /\ pc'[t] = "await" /\ handed' = handed
    BY <1>0, <1>6, GoMoves DEF SendOk
  <2>2. FeedFrame /\ EndedUnless({})
    BY <1>6, <1>r, QuietFrame DEF SendOk
  <2> QED
    BY <1>0, <2>1, <2>2, FeedCallGoes
<1>7. CASE SendError(t)
  <2>1. CASE ws = tws[t]
    <3>1. trpc'[t] = trpc[t] /\ op'[t] = op[t] /\ handed' = handed
      BY <1>0, <1>7, <2>1, GoMoves DEF SendError
    <3>2. FeedFrame /\ Tracked' = {} /\ EndedUnless({})
      BY <1>7, <2>1, DetachFrame DEF SendError
    <3> QED
      BY <1>0, <3>1, <3>2, FeedCallGoes
  <2>2. CASE ws # tws[t]
    <3>1. Tracked' = Tracked /\ FeedFrame /\ EndedUnless({})
      BY <1>7, <2>2, QuietFrame DEF SendError
    <3>2. trpc[t] \notin Tracked
      BY <1>7, <1>r, NotTrackedYet DEF SendError
    <3> QED
      BY <1>7, <2>2, <3>1, <3>2, FeedCallEnds DEF SendError, Raise, EndedUnless
  <2> QED
    BY <2>1, <2>2
<1>8. CASE FailedCallClosed(t)
  <2>1. FeedFrame /\ Tracked' = Tracked \ {trpc[t]} /\ EndedUnless({trpc[t]})
    BY <1>8, <1>r, UntrackFrame DEF FailedCallClosed, ReleaseSocket, CloseSocket
  <2> QED
    BY <1>8, <2>1, FeedCallEnds DEF FailedCallClosed, Raise
<1>9. CASE CallReply(t)
  <2>1. /\ pc[t] = "await" /\ trpc[t] # None /\ trpc[t] \in Rpcs
        /\ UNCHANGED <<nextId, conn, event, allotted, unanswered, queue, fut, ws, rd, msg>>
    BY <1>9, <1>r DEF CallReply
  <2>2. PICK o, rejected : EndCall(t, o, rejected)
    BY <1>9 DEF CallReply
  <2>3. CASE ~Succeeds(t)
    <3>1. Untrack(trpc[t]) /\ handed' = handed
      BY <1>9, <2>3 DEF CallReply
    <3>2. FeedFrame /\ Tracked' = Tracked \ {trpc[t]} /\ EndedUnless({trpc[t]})
      BY <2>1, <3>1, UntrackFrame
    <3> QED
      BY <2>2, <3>1, <3>2, FeedCallEnds
  <2>4. CASE Succeeds(t)
    <3>1. subs' = subs /\ handed' = IF op[t] = "subscribe" THEN handed \cup {trpc[t]} ELSE handed
      BY <1>9, <2>4 DEF CallReply
    <3>2. Tracked' = Tracked
      BY <3>1 DEF Tracked
    <3>3. trpc[t] < nextId
      BY <2>1 DEF CallInv, OwnRequest
    <3>4. FeedFrame /\ EndedUnless({})
      BY <2>1, <3>1, <3>2, <3>3 DEF FeedFrame, EndedUnless, FeedInv
    <3>5. Moves(t) /\ trpc'[t] = None
      BY <1>0, <2>2, EndCallEnds
    <3>6. trpc[t] \in Tracked => op[t] = "subscribe"
      BY <2>1, TrackedIs DEF FeedInv, SubscribeTask, SubscriptionTable
    <3> QED
      BY <3>1, <3>2, <3>4, <3>5, <3>6, FeedKept DEF SubscribeTask, EndedUnless
  <2> QED
    BY <2>3, <2>4
<1>10. CASE CallLost(t)
  <2>1. FeedFrame /\ Tracked' = Tracked \ {trpc[t]} /\ EndedUnless({trpc[t]})
    BY <1>10, <1>r, UntrackFrame DEF CallLost
  <2> QED
    BY <1>10, <2>1, FeedCallEnds DEF CallLost, Raise
<1>11. CASE CallTimeout(t)
  <2>1. trpc'[t] = trpc[t] /\ op'[t] = op[t] /\ pc'[t] = "failLock" /\ handed' = handed
    BY <1>0, <1>11, GoMoves DEF CallTimeout
  <2>2. FeedFrame /\ EndedUnless({})
    BY <1>11, QuietFrame DEF CallTimeout
  <2> QED
    BY <1>0, <2>1, <2>2, FeedCallGoes
<1>12. CASE FailedCallLock(t)
  <2>1. CASE ws = tws[t]
    <3>1. trpc'[t] = trpc[t] /\ op'[t] = op[t] /\ handed' = handed
      BY <1>0, <1>12, <2>1, GoMoves DEF FailedCallLock
    <3>2. FeedFrame /\ Tracked' = {} /\ EndedUnless({})
      BY <1>12, <2>1, DetachFrame DEF FailedCallLock
    <3> QED
      BY <1>0, <3>1, <3>2, FeedCallGoes
  <2>2. CASE ws # tws[t]
    <3>1. FeedFrame /\ Tracked' = Tracked \ {trpc[t]} /\ EndedUnless({trpc[t]})
      BY <1>12, <1>r, <2>2, UntrackFrame DEF FailedCallLock
    <3> QED
      BY <1>12, <2>2, <3>1, FeedCallEnds DEF FailedCallLock, Raise
  <2> QED
    BY <2>1, <2>2
<1>13. CASE ForgetSubscription(t)
  <2>1. /\ pc[t] \notin CallPcs /\ trpc'[t] = None
        /\ UNCHANGED <<nextId, conn, event, allotted, unanswered, fut, ws, rd, msg, handed>>
    BY <1>0, <1>13, FinishEnds DEF ForgetSubscription
  <2>2. tsid[t] \in SubIds
    BY <1>13 DEF ForgetSubscription, LocalsInv, MethodLocals
  <2>3. FeedFrame /\ EndedUnless({})
    <3>1. CASE ws # tws[t]
      BY <1>13, <1>q, <2>1, <3>1 DEF ForgetSubscription
    <3>2. CASE ws = tws[t]
      <4> DEFINE q == subs[tsid[t]]
      <4>1. /\ subs'[tsid[t]] = None /\ \A s \in SubIds \ {tsid[t]} : subs'[s] = subs[s]
            /\ queue' = [r \in Rpcs |-> IF r \in {q} \ {None} THEN Append(queue[r], TERM) ELSE queue[r]]
        BY <1>0, <1>13, <2>2, <3>2 DEF ForgetSubscription, PutAll, TypeOK
      <4>2. \A r \in Rpcs \ Tracked : queue'[r] = queue[r]
        BY <2>2, <4>1, TrackedIs
      <4>3. FeedFrame
        BY <2>1, <4>1, <4>2 DEF FeedFrame, FeedInv
      <4>4. ASSUME NEW r \in Tracked PROVE r \in Tracked' \/ Feed!Ended(r)'
        <5>1. CASE r # q
          <6>1. PICK s \in SubIds : subs[s] = r /\ r # None
            BY TrackedIs
          <6>2. subs'[s] = r
            BY <4>1, <5>1, <6>1
          <6> QED
            BY <6>1, <6>2 DEF Tracked
        <5>2. CASE r = q
          <6>1. r \in Rpcs /\ r # None /\ queue[r] \in Seq(Conns \cup {TERM})
            BY <1>0, TrackedIs DEF TypeOK
          <6>2. queue'[r] = Append(queue[r], TERM)
            BY <4>1, <5>2, <6>1
          <6> QED
            BY <6>1, <6>2 DEF Feed!Ended
        <5> QED
          BY <5>1, <5>2
      <4> QED
        BY <4>3, <4>4 DEF EndedUnless
    <3> QED
      BY <3>1, <3>2
  <2> QED
    BY <1>0, <2>1, <2>3, FeedNoRequest
<1>14. CASE (\E s \in SubIds : UnsubscribeLock(t, s)) \/ EnableLock(t)
  <2>1. pc[t] \notin CallPcs /\ trpc'[t] \in {trpc[t], None} /\ handed' = handed
    BY <1>0, <1>14, FinishEnds DEF UnsubscribeLock, EnableLock
  <2>2. FeedFrame /\ EndedUnless({})
    BY <1>14, <1>q DEF UnsubscribeLock, EnableLock
  <2> QED
    BY <1>0, <2>1, <2>2, FeedNoRequest
<1>15. CASE Cancel(t)
  <2>1. CASE CancelWaiting(t) \/ CancelLogin(t)
    BY <1>0, <2>1, <1>q, FinishEnds, FeedNoRequest
    DEF CancelWaiting, CancelLogin, DropUntracked, CloseSocket
  <2>2. CASE CancelCloseWebsocket(t)
    <3>1. FeedFrame /\ EndedUnless({})
      BY <2>2, QuietFrame DEF CancelCloseWebsocket, ReleaseSocket, CloseSocket
    <3> QED
      BY <1>0, <2>2, <3>1, FinishEnds, FeedNoRequest DEF CancelCloseWebsocket
  <2>3. CASE CancelAwaitReader(t)
    <3>1. FeedFrame /\ EndedUnless({})
      BY <2>3, QuietFrame DEF CancelAwaitReader
    <3> QED
      BY <1>0, <2>3, <3>1, FeedNoRequest DEF CancelAwaitReader
  <2>4. CASE CancelCallLock(t)
    BY <1>0, <2>4, <1>q, EndCallEnds, FeedNoRequest DEF CancelCallLock, Raise
  <2>5. CASE CancelSending(t)
    <3>1. Tracked' = Tracked /\ FeedFrame /\ EndedUnless({})
      BY <1>r, <2>5, QuietFrame DEF CancelSending
    <3>2. trpc[t] \notin Tracked
      BY <1>r, <2>5, NotTrackedYet DEF CancelSending
    <3> QED
      BY <2>5, <3>1, <3>2, FeedCallEnds DEF CancelSending, Raise, EndedUnless
  <2>6. CASE CancelAwait(t)
    <3>1. FeedFrame /\ Tracked' = Tracked \ {trpc[t]} /\ EndedUnless({trpc[t]})
      BY <1>r, <2>6, UntrackFrame DEF CancelAwait
    <3> QED
      BY <2>6, <3>1, FeedCallEnds DEF CancelAwait, Raise
  <2>7. CASE CancelFailedCallLock(t)
    <3>1. CASE ws = tws[t]
      <4>1. FeedFrame /\ Tracked' = {} /\ EndedUnless({})
        BY <2>7, <3>1, DetachFrame DEF CancelFailedCallLock, ReleaseSocket, CloseSocket
      <4> QED
        BY <2>7, <4>1, FeedCallEnds DEF CancelFailedCallLock, Raise, EndedUnless
    <3>2. CASE ws # tws[t]
      <4>1. FeedFrame /\ Tracked' = Tracked \ {trpc[t]} /\ EndedUnless({trpc[t]})
        BY <1>r, <2>7, <3>2, UntrackFrame DEF CancelFailedCallLock
      <4> QED
        BY <2>7, <3>2, <4>1, FeedCallEnds DEF CancelFailedCallLock, Raise
    <3> QED
      BY <3>1, <3>2
  <2> QED
    BY <1>15, <2>1, <2>2, <2>3, <2>4, <2>5, <2>6, <2>7 DEF Cancel
<1> QED
  BY <1>1, <1>2, <1>3, <1>4, <1>5, <1>6, <1>7, <1>8, <1>9, <1>10, <1>11, <1>12, <1>13, <1>14,
     <1>15
  DEF TaskNext, Call, Unsubscribe

\* The steps of a reader and of the server.
LEMMA FeedConnStep ==
    ASSUME TypeInv, SessionInv, CallInv, FeedInv, NEW c \in Conns, ConnNext(c)
    PROVE  FeedInv'
<1>0. TypeOK
  BY DEF TypeInv
<1> USE DEF session, locks, requests, wire, reader, locals
<1>1. ASSUME NEW r \in Rpcs, NEW k \in Kinds, NEW s \in SubIds \cup {None}, ReceiveReply(c, r, k, s)
      PROVE  FeedInv'
  BY <1>1, FeedReceiveReply
<1>2. CASE \/ \E s \in SubIds : ReceiveNotification(c, s)
           \/ \E top, inner \in Collections \cup {None} : ReceiveCollection(c, top, inner)
           \/ ReceiveClosed(c) \/ ReceiveBadFrame(c)
  <2>1. /\ UNCHANGED <<pc, op, trpc, nextId, conn, event, allotted, unanswered, subs, queue, fut, ws, handed>>
        /\ \A d \in Conns \ {c} : rd'[d] = rd[d] /\ msg'[d] = msg[d]
    BY <1>0, <1>2
    DEF ReceiveNotification, ReceiveCollection, Notifies, ReceiveClosed, ReceiveBadFrame, Reading,
        TypeOK
  <2>2. msg'[c].type # "reply"
    BY <1>0, <1>2
    DEF ReceiveNotification, ReceiveCollection, ReceiveClosed, ReceiveBadFrame, Reading, TypeOK, NoMsg
  <2>3. Tracked' = Tracked
    BY <2>1 DEF Tracked
  <2>4. FeedFrame /\ EndedUnless({})
    BY <2>1, <2>2, <2>3 DEF FeedFrame, EndedUnless, FeedInv
  <2> QED
    BY <2>1, <2>4, FeedLeft
<1>3. CASE HandleRpcResponse(c) /\ Tracks(c)
  BY <1>3, FeedTracks
<1>4. CASE HandleRpcResponse(c) /\ ~Tracks(c)
  <2>1. msg[c].id \in Rpcs /\ msg[c].kind \in ReplyKinds /\ ReplyOnWay(c)
    BY <1>0, <1>4, ReplyFields DEF HandleRpcResponse, FeedInv
  <2>2. /\ UNCHANGED <<pc, op, trpc, nextId, conn, event, allotted, unanswered, subs, queue, ws, handed>>
        /\ rd'[c] = "recv" /\ \A d \in Conns \ {c} : rd'[d] = rd[d] /\ msg'[d] = msg[d]
    BY <1>0, <1>4 DEF HandleRpcResponse, Tracks, Routed, TypeOK
  <2>3. \A r \in Rpcs : /\ fut'[r] = "wait" => fut[r] = "wait"
                        /\ fut'[r] = "ok" => fut[r] = "ok" \/ event[r] = None
    <3>1. CASE fut' = fut
      BY <3>1
    <3>2. CASE fut' # fut
      <4>1. fut' = [fut EXCEPT ![msg[c].id] = msg[c].kind] /\ msg[c].sid = None
        BY <1>4, <3>2 DEF HandleRpcResponse, Tracks
      <4>2. msg[c].kind = "ok" => event[msg[c].id] = None
        BY <1>4, <2>1, <4>1 DEF HandleRpcResponse, ReplyOnWay
      <4>3. msg[c].kind # "wait"
        BY <2>1 DEF ReplyKinds
      <4> QED
        BY <1>0, <2>1, <4>1, <4>2, <4>3 DEF TypeOK
    <3> QED
      BY <3>1, <3>2
  <2>4. Tracked' = Tracked
    BY <2>2 DEF Tracked
  <2>5. FeedFrame /\ EndedUnless({})
    BY <2>2, <2>3, <2>4 DEF FeedFrame, EndedUnless, FeedInv
  <2> QED
    BY <2>2, <2>5, FeedLeft
<1>5. CASE HandleSubscriptionNotification(c)
  <2>1. NotedQueues(c) \subseteq Tracked
    BY <1>0, <1>5, NoteFields, DeliveredTracked DEF HandleSubscriptionNotification
  <2>2. /\ rd'[c] # "route" /\ \A d \in Conns \ {c} : rd'[d] = rd[d] /\ msg'[d] = msg[d]
    BY <1>0, <1>5 DEF HandleSubscriptionNotification, Routed, TypeOK
  <2>3. FeedFrame /\ EndedUnless({})
    BY <1>5, <2>1, <2>2, DeliverFrame DEF HandleSubscriptionNotification
  <2> QED
    BY <1>5, <2>3, FeedLeft DEF HandleSubscriptionNotification
<1>6. CASE HandleCollectionTop(c)
  <2>1. MatchingQueues(c, msg[c].top) \subseteq Tracked
    BY <1>6, DeliveredTracked DEF HandleCollectionTop
  <2>2. /\ rd'[c] # "route" /\ \A d \in Conns \ {c} : rd'[d] = rd[d] /\ msg'[d] = msg[d]
    BY <1>0, <1>6 DEF HandleCollectionTop, Routed, TypeOK
  <2>3. FeedFrame /\ EndedUnless({})
    BY <1>6, <2>1, <2>2, DeliverFrame DEF HandleCollectionTop
  <2> QED
    BY <1>6, <2>3, FeedLeft DEF HandleCollectionTop
<1>7. CASE HandleCollectionParams(c)
  <2>1. UnseenQueues(c) \subseteq Tracked
    BY <1>7, DeliveredTracked DEF HandleCollectionParams
  <2>2. /\ rd'[c] # "route" /\ \A d \in Conns \ {c} : rd'[d] = rd[d] /\ msg'[d] = msg[d]
    BY <1>0, <1>7 DEF HandleCollectionParams, Routed, TypeOK
  <2>3. FeedFrame /\ EndedUnless({})
    BY <1>7, <2>1, <2>2, DeliverFrame DEF HandleCollectionParams
  <2> QED
    BY <1>7, <2>3, FeedLeft DEF HandleCollectionParams
<1>8. CASE TeardownConnection(c)
  <2>1. CASE DetachConnection(pending)
    <3>1. FeedFrame /\ EndedUnless({})
      BY <1>8, <2>1, DetachFrame DEF TeardownConnection
    <3> QED
      BY <1>8, <3>1, FeedLeft DEF TeardownConnection
  <2>2. CASE UNCHANGED session
    <3>1. Tracked' = Tracked
      BY <2>2 DEF Tracked
    <3>2. \A d \in Conns : rd'[d] = "route" => rd[d] = "route"
      BY <1>0, <1>8 DEF TeardownConnection, TypeOK
    <3>3. FeedFrame /\ EndedUnless({})
      BY <1>8, <2>2, <3>1, <3>2 DEF TeardownConnection, FeedFrame, EndedUnless, FeedInv
    <3> QED
      BY <1>8, <3>3, FeedLeft DEF TeardownConnection
  <2> QED
    BY <1>8, <2>1, <2>2 DEF TeardownConnection, DetachIfCurrent
<1>9. CASE Drop(c)
  <2>1. Tracked' = Tracked
    BY <1>9 DEF Drop, Tracked
  <2>2. FeedFrame /\ EndedUnless({})
    BY <1>9, <2>1 DEF Drop, CloseSocket, FeedFrame, EndedUnless, FeedInv
  <2> QED
    BY <1>9, <2>2, FeedLeft DEF Drop
<1> QED
  BY <1>1, <1>2, <1>3, <1>4, <1>5, <1>6, <1>7, <1>8, <1>9 DEF ConnNext, Receive, Route

LEMMA FeedStep ==
    TypeInv /\ SessionInv /\ CallInv /\ LocalsInv /\ FeedInv /\ [Next]_vars => FeedInv'
<1> SUFFICES ASSUME TypeInv, SessionInv, CallInv, LocalsInv, FeedInv, [Next]_vars PROVE FeedInv'
  OBVIOUS
<1>1. ASSUME NEW t \in Tasks, TaskNext(t) PROVE FeedInv'
  BY <1>1, FeedTaskStep
<1>2. ASSUME NEW c \in Conns, ConnNext(c) PROVE FeedInv'
  BY <1>2, FeedConnStep
<1>3. CASE UNCHANGED vars
  <2> USE DEF vars, session, locks, requests, wire, reader, locals
  <2>1. Tracked' = Tracked
    BY <1>3 DEF Tracked
  <2>2. FeedFrame /\ EndedUnless({})
    BY <1>3, <2>1 DEF FeedFrame, EndedUnless, FeedInv
  <2> QED
    BY <1>3, <2>2, FeedLeft
<1> QED
  BY <1>1, <1>2, <1>3, NextSteps

ClientInv == TypeInv /\ SessionInv /\ CallInv /\ LocalsInv /\ FeedInv

LEMMA FeedAlways == Spec => []ClientInv
<1>1. Init => ClientInv
  BY TypeInit, SessionInit, CallInit, LocalsInit, FeedInit DEF ClientInv
<1>2. ClientInv /\ [Next]_vars => ClientInv'
  BY TypeStep, SessionStep, CallStep, LocalsStep, FeedStep DEF ClientInv
<1> QED
  BY <1>1, <1>2, PTL DEF Spec

\* A subscribe() that is cancelled, times out or fails leaves no queue behind in
\* self._subscriptions, whenever its reply was routed: a tracked queue is one that
\* was returned, or its subscribe() still runs.
THEOREM TrackedAlwaysHasReader == Spec => []TrackedHasReader
<1>1. ClientInv => TrackedHasReader
  BY DEF ClientInv, FeedInv
<1> QED
  BY <1>1, FeedAlways, PTL

-----------------------------------------------------------------------------
(* The steps of the feed *)

FeedMoves == [Feed!FeedNext]_(Feed!feedVars)

LEMMA FeedStutters ==
    ASSUME UNCHANGED <<queue, conn, subs, handed>>
    PROVE  FeedMoves
BY DEF FeedMoves, Feed!feedVars, Tracked

\* A detach ends every queue that is tracked.
LEMMA FeedEndsAll ==
    ASSUME TypeOK, NEW failing, DetachConnection(failing), UNCHANGED <<conn, handed>>
    PROVE  FeedMoves
<1>1. Tracked' = {}
  <2>1. \A s \in SubIds : subs'[s] = None
    BY DetachEffect
  <2> QED
    BY <2>1 DEF Tracked
<1>2. Feed!Put(Tracked, TERM)
  BY DEF DetachConnection, EndSubscriptions, PutAll, Feed!Put
<1>3. Tracked \subseteq Rpcs
  BY TrackedIs DEF TypeOK
<1>4. Feed!End(Tracked)
  BY <1>1, <1>2 DEF Feed!End
<1> QED
  BY <1>3, <1>4 DEF FeedMoves, Feed!FeedNext

\* A subscribe() that ends without returning its queue takes it out, if it is tracked.
LEMMA FeedAbandons ==
    ASSUME TypeOK, FeedInv, NEW t \in Tasks, trpc[t] \in Rpcs, trpc[t] # None, Untrack(trpc[t]),
           UNCHANGED <<queue, conn, handed>>
    PROVE  FeedMoves
<1>1. Tracked' = Tracked \ {trpc[t]}
  BY DEF Tracked, Untrack
<1>2. trpc[t] \notin handed
  BY DEF FeedInv, SubscribeTask
<1>3. CASE trpc[t] \in Tracked
  <2>1. Feed!Abandon(trpc[t])
    BY <1>1, <1>2, <1>3 DEF Feed!Abandon
  <2> QED
    BY <2>1 DEF FeedMoves, Feed!FeedNext
<1>4. CASE trpc[t] \notin Tracked
  BY <1>1, <1>4 DEF FeedMoves, Feed!feedVars
<1> QED
  BY <1>3, <1>4

\* A message is put into queues of its own connection only.
LEMMA FeedDelivers ==
    ASSUME TypeOK, SessionInv, NEW c \in Conns, NEW Q, Q \subseteq Tracked, ws = c \/ Q = {},
           PutAll(Q, c), UNCHANGED <<conn, subs, handed>>
    PROVE  FeedMoves
<1>1. Q \subseteq {r \in Tracked : conn[r] = c} /\ Q \subseteq Rpcs
  BY TrackedUsed
<1>2. Feed!Put(Q, c)
  BY DEF PutAll, Feed!Put
<1>3. Tracked' = Tracked
  BY DEF Tracked
<1>4. Feed!Deliver(Q, c)
  BY <1>1, <1>2, <1>3 DEF Feed!Deliver
<1> QED
  BY <1>1, <1>4 DEF FeedMoves, Feed!FeedNext

-----------------------------------------------------------------------------

LEMMA TaskStepFeeds ==
    ASSUME ClientInv, NEW t \in Tasks, TaskNext(t)
    PROVE  FeedMoves
<1>0. TypeOK /\ FeedInv /\ CallInv /\ SessionInv
  BY DEF ClientInv, TypeInv
<1>r. pc[t] \in CallPcs => trpc[t] # None /\ trpc[t] \in Rpcs
  BY ClientAssumption DEF ClientInv, TypeInv, CallLocals
<1> USE DEF session, locks, requests, wire, reader, locals, CallPcs
<1>1. CASE \E o \in OpNames : Start(t, o)
  BY <1>1, FeedStutters DEF Start
<1>2. CASE Connect(t)
  BY <1>2, FeedStutters
  DEF Connect, ConnectLock, OpenTimeout, OpenError, LoginOk, OptionReply, LoginError,
      ConnectClosed, DropUntracked, Establish, OpenWebsocket
<1>3. CASE Close(t)
  <2>1. CASE CloseLock(t) /\ ws # None
    BY <1>0, <2>1, FeedEndsAll DEF CloseLock
  <2>2. CASE (CloseLock(t) /\ ws = None) \/ CloseWebsocket(t) \/ AwaitReader(t)
    BY <2>2, FeedStutters DEF CloseLock, CloseWebsocket, AwaitReader
  <2> QED
    BY <1>3, <2>1, <2>2 DEF Close
<1>4. CASE CallRefused(t) \/ SendOk(t) \/ CallTimeout(t)
  BY <1>4, FeedStutters DEF CallRefused, SendOk, CallTimeout
<1>5. ASSUME NEW e \in Events, CallSend(t, e) PROVE FeedMoves
  <2>1. nextId \in Rpcs /\ conn[nextId] = None /\ ws \in Conns
    BY <1>0, <1>5, MaxRpcNat DEF CallSend, TypeOK, Rpcs, FeedInv, Blank
  <2>2. Tracked' = Tracked
    BY <1>5 DEF CallSend, Tracked
  <2>3. Feed!Request(nextId, ws)
    BY <1>5, <2>1, <2>2 DEF CallSend, Feed!Request
  <2> QED
    BY <2>1, <2>3 DEF FeedMoves, Feed!FeedNext
<1>6. CASE SendError(t)
  <2>1. CASE DetachConnection(pending \ {trpc[t]})
    BY <1>0, <1>6, <2>1, FeedEndsAll DEF SendError
  <2>2. CASE UNCHANGED <<queue, subs>>
    BY <1>6, <2>2, FeedStutters DEF SendError
  <2> QED
    BY <1>6, <2>1, <2>2 DEF SendError
<1>7. CASE FailedCallClosed(t) \/ CallLost(t)
  BY <1>0, <1>r, <1>7, FeedAbandons DEF FailedCallClosed, CallLost
<1>8. CASE CallReply(t)
  <2>1. CASE ~Succeeds(t)
    BY <1>0, <1>r, <1>8, <2>1, FeedAbandons DEF CallReply
  <2>2. CASE op[t] # "subscribe" /\ Succeeds(t)
    BY <1>8, <2>2, FeedStutters DEF CallReply
  <2>3. CASE op[t] = "subscribe" /\ Succeeds(t)
    <3>1. trpc[t] \in Tracked \/ Feed!Ended(trpc[t])
      BY <1>0, <1>r, <1>8, <2>3 DEF CallReply, Succeeds, FeedInv, SubscribeTask
    <3>2. UNCHANGED <<queue, conn, subs>> /\ handed' = handed \cup {trpc[t]}
      BY <1>8, <2>3 DEF CallReply
    <3>3. Tracked' = Tracked
      BY <3>2 DEF Tracked
    <3>4. Feed!Return(trpc[t])
      BY <3>1, <3>2, <3>3 DEF Feed!Return
    <3> QED
      BY <1>r, <1>8, <3>4 DEF CallReply, FeedMoves, Feed!FeedNext
  <2> QED
    BY <2>1, <2>2, <2>3
<1>9. CASE FailedCallLock(t)
  <2>1. CASE ws = tws[t]
    BY <1>0, <1>9, <2>1, FeedEndsAll DEF FailedCallLock
  <2>2. CASE ws # tws[t]
    BY <1>0, <1>r, <1>9, <2>2, FeedAbandons DEF FailedCallLock
  <2> QED
    BY <2>1, <2>2
<1>10. CASE ForgetSubscription(t)
  <2> DEFINE q == subs[tsid[t]]
  <2>1. tsid[t] \in SubIds /\ UNCHANGED <<conn, handed>>
    BY <1>10 DEF ForgetSubscription, ClientInv, LocalsInv, MethodLocals
  <2>2. CASE UNCHANGED <<queue, subs>>
    BY <2>1, <2>2, FeedStutters
  <2>3. CASE PutAll({q} \ {None}, TERM) /\ subs' = [subs EXCEPT ![tsid[t]] = None]
    <3>1. /\ subs'[tsid[t]] = None
          /\ \A s \in SubIds \ {tsid[t]} : subs'[s] = subs[s]
      BY <1>0, <2>1, <2>3 DEF TypeOK
    <3>2. \A s \in SubIds \ {tsid[t]} : subs[s] # None => subs[s] # q
      BY <1>0, <2>1 DEF FeedInv, SubscriptionTable
    <3>3. ASSUME NEW r PROVE r \in Tracked' <=> r \in Tracked /\ r # q
      BY <2>1, <3>1, <3>2 DEF Tracked
    <3>4. Tracked' = Tracked \ ({q} \ {None})
      BY <3>3 DEF Tracked
    <3>5. {q} \ {None} \subseteq Tracked /\ {q} \ {None} \subseteq Rpcs
      BY <1>0, <2>1 DEF Tracked, TypeOK
    <3>6. Feed!Put({q} \ {None}, TERM)
      BY <2>3 DEF PutAll, Feed!Put
    <3>7. Feed!End({q} \ {None})
      BY <2>1, <3>4, <3>5, <3>6 DEF Feed!End
    <3> QED
      BY <3>5, <3>7 DEF FeedMoves, Feed!FeedNext
  <2> QED
    BY <1>10, <2>2, <2>3 DEF ForgetSubscription
<1>11. CASE (\E s \in SubIds : UnsubscribeLock(t, s)) \/ EnableLock(t)
  BY <1>11, FeedStutters DEF UnsubscribeLock, EnableLock
<1>12. CASE Cancel(t)
  <2>1. CASE \/ CancelWaiting(t) \/ CancelLogin(t) \/ CancelCloseWebsocket(t)
             \/ CancelAwaitReader(t) \/ CancelCallLock(t) \/ CancelSending(t)
    BY <2>1, FeedStutters
    DEF CancelWaiting, CancelLogin, DropUntracked, CancelCloseWebsocket, CancelAwaitReader,
        CancelCallLock, CancelSending
  <2>2. CASE CancelAwait(t)
    BY <1>0, <1>r, <2>2, FeedAbandons DEF CancelAwait
  <2>3. CASE CancelFailedCallLock(t)
    <3>1. CASE ws = tws[t]
      BY <1>0, <2>3, <3>1, FeedEndsAll DEF CancelFailedCallLock
    <3>2. CASE ws # tws[t]
      BY <1>0, <1>r, <2>3, <3>2, FeedAbandons DEF CancelFailedCallLock
    <3> QED
      BY <3>1, <3>2
  <2> QED
    BY <1>12, <2>1, <2>2, <2>3 DEF Cancel
<1> QED
  BY <1>1, <1>2, <1>3, <1>4, <1>5, <1>6, <1>7, <1>8, <1>9, <1>10, <1>11, <1>12
  DEF TaskNext, Call, Unsubscribe

LEMMA ConnStepFeeds ==
    ASSUME ClientInv, NEW c \in Conns, ConnNext(c)
    PROVE  FeedMoves
<1>0. TypeOK /\ FeedInv /\ CallInv /\ SessionInv
  BY DEF ClientInv, TypeInv
<1> USE DEF session, requests
<1>1. CASE Receive(c) \/ Drop(c)
  BY <1>1, FeedStutters
  DEF Receive, ReceiveReply, ReceiveNotification, ReceiveCollection, Notifies, ReceiveClosed,
      ReceiveBadFrame, Reading, Drop
<1>2. CASE HandleRpcResponse(c) /\ Tracks(c)
  <2> DEFINE i == msg[c].id
  <2>1. i \in Rpcs /\ i \notin Tracked /\ Tracked' = Tracked \cup {i}
    BY <1>0, <1>2, TracksEffect
  <2>2. conn[i] # None /\ queue[i] = <<>>
    BY <1>0, <1>2, <2>1, NoneIsNone
    DEF Tracks, SessionInv, TableInv, PendingOnCurrent, FeedInv, Untouched
  <2>3. UNCHANGED <<queue, conn, handed>>
    BY <1>2 DEF HandleRpcResponse
  <2>4. Feed!Track(i)
    BY <2>1, <2>2, <2>3 DEF Feed!Track
  <2> QED
    BY <2>1, <2>4 DEF FeedMoves, Feed!FeedNext
<1>3. CASE HandleRpcResponse(c) /\ ~Tracks(c)
  BY <1>3, FeedStutters DEF HandleRpcResponse, Tracks
<1>4. CASE HandleSubscriptionNotification(c)
  <2>1. NotedQueues(c) \subseteq Tracked
    BY <1>0, <1>4, NoteFields, DeliveredTracked DEF HandleSubscriptionNotification
  <2>2. ws = c \/ NotedQueues(c) = {}
    BY DEF NotedQueues
  <2> QED
    BY <1>0, <1>4, <2>1, <2>2, FeedDelivers DEF HandleSubscriptionNotification
<1>5. CASE HandleCollectionTop(c)
  <2>1. /\ MatchingQueues(c, msg[c].top) \subseteq Tracked
        /\ ws = c \/ MatchingQueues(c, msg[c].top) = {}
    BY DEF MatchingQueues
  <2> QED
    BY <1>0, <1>5, <2>1, FeedDelivers DEF HandleCollectionTop
<1>6. CASE HandleCollectionParams(c)
  <2>1. UnseenQueues(c) \subseteq Tracked /\ (ws = c \/ UnseenQueues(c) = {})
    BY DEF UnseenQueues, MatchingQueues
  <2> QED
    BY <1>0, <1>6, <2>1, FeedDelivers DEF HandleCollectionParams
<1>7. CASE TeardownConnection(c)
  <2>1. CASE DetachConnection(pending)
    BY <1>0, <1>7, <2>1, FeedEndsAll DEF TeardownConnection
  <2>2. CASE UNCHANGED session
    BY <1>7, <2>2, FeedStutters DEF TeardownConnection
  <2> QED
    BY <1>7, <2>1, <2>2 DEF TeardownConnection, DetachIfCurrent
<1> QED
  BY <1>1, <1>2, <1>3, <1>4, <1>5, <1>6, <1>7 DEF ConnNext, Route

\* Client implements SubscriptionFeed for any number of tasks, connections and
\* requests: a queue is fed only while it is tracked and by its own connection, and
\* one that subscribe() returned stops being tracked only with a terminator.
THEOREM FeedIsImplemented == Spec => ImplementsFeed
<1>1. Init => Feed!FeedInit
  BY DEF Init, Feed!FeedInit, Tracked
<1>2. ASSUME ClientInv, [Next]_vars PROVE [Feed!FeedNext]_(Feed!feedVars)
  <2>1. ASSUME NEW t \in Tasks, TaskNext(t) PROVE FeedMoves
    BY <1>2, <2>1, TaskStepFeeds
  <2>2. ASSUME NEW c \in Conns, ConnNext(c) PROVE FeedMoves
    BY <1>2, <2>2, ConnStepFeeds
  <2>3. CASE UNCHANGED vars
    <3>1. UNCHANGED <<queue, conn, subs, handed>>
      BY <2>3 DEF vars, session, requests
    <3> QED
      BY <3>1, FeedStutters DEF FeedMoves
  <2> QED
    BY <1>2, <2>1, <2>2, <2>3, NextSteps DEF FeedMoves
<1> QED
  BY <1>1, <1>2, FeedAlways, PTL DEF Spec, ImplementsFeed, Feed!FeedSpec

\* What follows from SubscriptionFeed, for the queues of Client.
Promise == INSTANCE SubscriptionFeedProofs
               WITH Reqs <- Rpcs, Sources <- Conns, feed <- queue, source <- conn,
                    open <- Tracked, returned <- handed

\* Whatever is cancelled, timed out, lost or replaced: a terminator is the last thing a
\* queue gets, a queue holds messages of its own connection only, although a later
\* one may use the same id, and a queue that subscribe() returned is tracked or ended.
THEOREM ClientKeepsPromise == Spec => []Feed!FeedPromise
<1>1. Promise!FeedSpec => []Promise!FeedPromise
  <2>1. Promise!FeedAssumption
    BY ClientAssumption DEF Promise!FeedAssumption
  <2> QED
    BY <2>1, Promise!FeedKeepsPromise
<1>2. Feed!FeedInit => Promise!FeedInit
  BY DEF Feed!FeedInit, Promise!FeedInit
<1>3. [Feed!FeedNext]_(Feed!feedVars) => [Promise!FeedNext]_(Promise!feedVars)
  BY DEF Feed!FeedNext, Promise!FeedNext, Feed!feedVars, Promise!feedVars,
         Feed!Request, Promise!Request, Feed!Track, Promise!Track, Feed!Return, Promise!Return,
         Feed!Abandon, Promise!Abandon, Feed!Deliver, Promise!Deliver, Feed!End, Promise!End,
         Feed!Put, Promise!Put, Feed!Ended, Promise!Ended
<1>4. Promise!FeedPromise => Feed!FeedPromise
  BY DEF Feed!FeedPromise, Promise!FeedPromise,
         Feed!NothingAfterTerminator, Promise!NothingAfterTerminator,
         Feed!QueueOfOneConnection, Promise!QueueOfOneConnection,
         Feed!HandedQueueLives, Promise!HandedQueueLives, Feed!Ended, Promise!Ended
<1> QED
  BY <1>1, <1>2, <1>3, <1>4, FeedIsImplemented, PTL
  DEF ImplementsFeed, Feed!FeedSpec, Promise!FeedSpec

-----------------------------------------------------------------------------

(* The message a reader has in hand *)

\* What the message of c's reader is due to: its whole audience, then those of the
\* second lookup that the first has not reached.
DueAt(c) ==
    /\ rd[c] \in {"none", "recv"} => due[c] = {}
    /\ rd[c] = "route" => /\ due[c] = Audience(c)
                          /\ msg[c].type = "collection" => msg[c].top # None
    /\ rd[c] = "route2" => /\ msg[c] \in CollMsgs /\ msg[c].inner # None
                           /\ due[c] = UnseenQueues(c)

DueInv == due \in [Conns -> SUBSET Rpcs] /\ \A c \in Conns : DueAt(c)

\* The reader of c stays where it is, is started, or ends.
InHandFrame(c) ==
    \/ rd'[c] = rd[c] /\ msg'[c] = msg[c]
    \/ rd'[c] \in {"teardown", "done"}
    \/ rd[c] = "none" /\ rd'[c] = "recv"

\* Besides, no message of c is put anywhere, and subscriptions of c only end.
DueFrame(c) ==
    /\ InHandFrame(c)
    /\ \A r \in Rpcs : ~Puts(c, r)
    /\ rd[c] \in {"route", "route2"} /\ ws' = c => ws = c
    /\ ws = c /\ ws' # c => Tracked' = {}
    /\ ws = c => /\ \A s \in SubIds : subs'[s] \in {subs[s], None}
                 /\ \A r \in Tracked : event'[r] = event[r]

\* What a step owes the property, for connection c.
DueStep(c) ==
    /\ DueAt(c)'
    /\ \A r \in Rpcs : Puts(c, r) => r \in due[c]
    /\ rd'[c] = "recv" => due'[c] = {}

LEMMA AppendsOne ==
    ASSUME NEW S, NEW q \in Seq(S), NEW a \in S, NEW b \in S
    PROVE  Append(q, a) # q /\ (Append(q, a) = Append(q, b) => a = b)
<1>1. Len(Append(q, a)) = Len(q) + 1 /\ Append(q, a)[Len(q) + 1] = a
  OBVIOUS
<1>2. Append(q, b)[Len(q) + 1] = b
  OBVIOUS
<1> QED
  BY <1>1, <1>2

LEMMA NothingPut ==
    ASSUME TypeOK, NEW c \in Conns, queue' = queue
    PROVE  \A r \in Rpcs : ~Puts(c, r)
BY AppendsOne DEF TypeOK, Puts

LEMMA PutsWhere ==
    ASSUME TypeOK, NEW c \in Conns, NEW m \in Conns \cup {TERM}, NEW Q, PutAll(Q, m)
    PROVE  \A r \in Rpcs : Puts(c, r) <=> r \in Q /\ m = c
<1> SUFFICES ASSUME NEW r \in Rpcs PROVE Puts(c, r) <=> r \in Q /\ m = c
  OBVIOUS
<1>1. queue[r] \in Seq(Conns \cup {TERM})
  BY DEF TypeOK
<1>2. queue'[r] = IF r \in Q THEN Append(queue[r], m) ELSE queue[r]
  BY DEF PutAll
<1>3. /\ Append(queue[r], c) # queue[r]
      /\ Append(queue[r], m) = Append(queue[r], c) => m = c
  BY <1>1, AppendsOne
<1> QED
  BY <1>2, <1>3 DEF Puts

LEMMA QuietDue ==
    ASSUME TypeOK, NEW c \in Conns, InHandFrame(c), UNCHANGED <<ws, subs, event, queue>>
    PROVE  DueFrame(c)
BY NothingPut DEF DueFrame

LEMMA DetachDue ==
    ASSUME TypeOK, NEW c \in Conns, InHandFrame(c), NEW failing, DetachConnection(failing),
           UNCHANGED event
    PROVE  DueFrame(c)
<1>1. \A r \in Rpcs : ~Puts(c, r)
  BY PutsWhere, ClientAssumption DEF DetachConnection, EndSubscriptions
<1>2. Tracked' = {}
  BY DetachEffect DEF Tracked
<1> QED
  BY <1>1, <1>2, DetachEffect, NoneIsNone DEF DueFrame

LEMMA UntrackDue ==
    ASSUME TypeOK, NEW c \in Conns, InHandFrame(c), NEW r, Untrack(r),
           UNCHANGED <<ws, event, queue>>
    PROVE  DueFrame(c)
BY NothingPut DEF DueFrame, Untrack

LEMMA CancelsReader ==
    ASSUME TypeOK, NEW c \in Conns, NEW d, CancelReader(d)
    PROVE  InHandFrame(c)
BY DEF TypeOK, CancelReader, InHandFrame

\* The steps of a task put at most a terminator.
LEMMA DueTaskStep ==
    ASSUME ClientInv, NEW t \in Tasks, TaskNext(t), NEW c \in Conns
    PROVE  DueFrame(c)
<1>0. TypeOK /\ SessionInv /\ FeedInv
  BY DEF ClientInv, TypeInv
<1>q. ASSUME UNCHANGED <<ws, subs, event, queue>>, reader' = reader PROVE DueFrame(c)
  BY <1>0, <1>q, QuietDue DEF InHandFrame, reader
<1>d. ASSUME NEW failing, DetachConnection(failing), UNCHANGED event, reader' = reader
      PROVE  DueFrame(c)
  BY <1>0, <1>d, DetachDue DEF InHandFrame, reader
<1>u. ASSUME NEW r, Untrack(r), UNCHANGED <<ws, event, queue>>, reader' = reader
      PROVE  DueFrame(c)
  BY <1>0, <1>u, UntrackDue DEF InHandFrame, reader
<1> USE DEF session, locks, requests, wire, locals
<1>1. CASE \E o \in OpNames : Start(t, o)
  BY <1>1, <1>q DEF Start
<1>2. CASE Connect(t)
  <2>1. CASE Establish(t) /\ pc[t] \in {"login", "option"}
    <3>1. /\ UNCHANGED <<event, subs, queue, msg>>
          /\ tws[t] \in Conns /\ rd[tws[t]] = "none" /\ ws = None
          /\ rd' = [rd EXCEPT ![tws[t]] = "recv"]
          /\ ws' = tws[t]
      BY <1>0, <2>1 DEF Establish, SessionInv, ConnectionInv, TaskConnection, LockPcs
    <3>2. InHandFrame(c)
      BY <1>0, <3>1 DEF TypeOK, InHandFrame
    <3>3. \A r \in Rpcs : ~Puts(c, r)
      BY <1>0, <3>1, NothingPut
    <3> QED
      BY <3>1, <3>2, <3>3, NoneIsNone DEF DueFrame
  <2>2. CASE ~(Establish(t) /\ pc[t] \in {"login", "option"})
    BY <1>2, <1>q, <2>2
    DEF Connect, ConnectLock, OpenTimeout, OpenError, LoginOk, OptionReply, LoginError,
        ConnectClosed, DropUntracked, OpenWebsocket
  <2> QED
    BY <2>1, <2>2
<1>3. CASE Close(t)
  BY <1>3, <1>q, <1>d DEF Close, CloseLock, CloseWebsocket, AwaitReader
<1>4. CASE CallRefused(t) \/ SendOk(t) \/ CallTimeout(t)
  BY <1>4, <1>q DEF CallRefused, SendOk, CallTimeout
<1>5. ASSUME NEW e \in Events, CallSend(t, e) PROVE DueFrame(c)
  <2>1. UNCHANGED <<ws, subs, queue, reader>>
    BY <1>5 DEF CallSend
  <2>2. \A r \in Tracked : r < nextId /\ r \in Rpcs
    BY <1>0, TrackedUsed
  <2>3. \A r \in Tracked : event'[r] = event[r]
    BY <1>0, <1>5, <2>2, MaxRpcNat DEF CallSend, TypeOK, Rpcs
  <2>4. \A r \in Rpcs : ~Puts(c, r)
    BY <1>0, <2>1, NothingPut
  <2> QED
    BY <2>1, <2>3, <2>4 DEF DueFrame, InHandFrame, reader
<1>6. CASE SendError(t)
  BY <1>6, <1>q, <1>d DEF SendError
<1>7. CASE FailedCallClosed(t)
  BY <1>0, <1>7, UntrackDue, CancelsReader DEF FailedCallClosed, ReleaseSocket
<1>8. CASE CallReply(t)
  BY <1>8, <1>q, <1>u DEF CallReply
<1>9. CASE CallLost(t)
  BY <1>9, <1>u DEF CallLost
<1>10. CASE FailedCallLock(t)
  BY <1>10, <1>d, <1>u DEF FailedCallLock
<1>11. CASE ForgetSubscription(t)
  <2>1. UNCHANGED <<ws, event, reader>>
    BY <1>11 DEF ForgetSubscription
  <2>2. CASE UNCHANGED <<queue, subs>>
    BY <1>q, <2>1, <2>2
  <2>3. CASE PutAll({subs[tsid[t]]} \ {None}, TERM) /\ subs' = [subs EXCEPT ![tsid[t]] = None]
    <3>1. \A r \in Rpcs : ~Puts(c, r)
      BY <1>0, <2>3, PutsWhere, ClientAssumption
    <3>2. \A s \in SubIds : subs'[s] \in {subs[s], None}
      BY <1>0, <2>3 DEF TypeOK
    <3> QED
      BY <2>1, <3>1, <3>2 DEF DueFrame, InHandFrame, reader
  <2> QED
    BY <1>11, <2>2, <2>3 DEF ForgetSubscription
<1>12. CASE (\E s \in SubIds : UnsubscribeLock(t, s)) \/ EnableLock(t)
  BY <1>12, <1>q DEF UnsubscribeLock, EnableLock
<1>13. CASE Cancel(t)
  <2>1. CASE CancelWaiting(t) \/ CancelLogin(t) \/ CancelCallLock(t) \/ CancelSending(t)
    BY <2>1, <1>q DEF CancelWaiting, CancelLogin, DropUntracked, CancelCallLock, CancelSending,
                      reader
  <2>2. CASE CancelCloseWebsocket(t) \/ CancelAwaitReader(t)
    BY <1>0, <2>2, QuietDue, CancelsReader
    DEF CancelCloseWebsocket, CancelAwaitReader, ReleaseSocket
  <2>3. CASE CancelAwait(t)
    BY <2>3, <1>u DEF CancelAwait
  <2>4. CASE CancelFailedCallLock(t)
    BY <1>0, <2>4, <1>u, DetachDue, CancelsReader DEF CancelFailedCallLock, ReleaseSocket
  <2> QED
    BY <1>13, <2>1, <2>2, <2>3, <2>4 DEF Cancel
<1> QED
  BY <1>1, <1>2, <1>3, <1>4, <1>5, <1>6, <1>7, <1>8, <1>9, <1>10, <1>11, <1>12, <1>13
  DEF TaskNext, Call, Unsubscribe

\* The steps of another reader put only messages of its own connection.
LEMMA DueOtherStep ==
    ASSUME ClientInv, NEW d \in Conns, ConnNext(d), NEW c \in Conns, c # d
    PROVE  DueFrame(c)
<1>0. TypeOK
  BY DEF ClientInv, TypeInv
<1> USE DEF session, requests, reader
<1>1. InHandFrame(c) /\ UNCHANGED event
  BY <1>0
  DEF ConnNext, Receive, ReceiveReply, ReceiveNotification, ReceiveCollection, Notifies,
      ReceiveClosed, ReceiveBadFrame, Reading, Drop, Route, HandleRpcResponse,
      HandleSubscriptionNotification, HandleCollectionTop, HandleCollectionParams,
      TeardownConnection, Routed, TypeOK, InHandFrame
<1>2. CASE Receive(d) \/ Drop(d)
  <2>1. UNCHANGED <<ws, subs, queue>>
    BY <1>2
    DEF Receive, ReceiveReply, ReceiveNotification, ReceiveCollection, ReceiveClosed,
        ReceiveBadFrame, Reading, Drop
  <2> QED
    BY <1>0, <1>1, <2>1, QuietDue
<1>3. CASE HandleRpcResponse(d)
  <2>1. UNCHANGED <<ws, queue>> /\ (ws = c => subs' = subs)
    BY <1>3 DEF HandleRpcResponse
  <2>2. \A r \in Rpcs : ~Puts(c, r)
    BY <1>0, <2>1, NothingPut
  <2> QED
    BY <1>1, <2>1, <2>2 DEF DueFrame
<1>4. CASE HandleSubscriptionNotification(d) \/ HandleCollectionTop(d) \/ HandleCollectionParams(d)
  <2>1. PICK Q : PutAll(Q, d)
    BY <1>4 DEF HandleSubscriptionNotification, HandleCollectionTop, HandleCollectionParams
  <2>2. \A r \in Rpcs : ~Puts(c, r)
    BY <1>0, <2>1, PutsWhere
  <2>3. UNCHANGED <<ws, subs>>
    BY <1>4 DEF HandleSubscriptionNotification, HandleCollectionTop, HandleCollectionParams
  <2> QED
    BY <1>1, <2>2, <2>3 DEF DueFrame
<1>5. CASE TeardownConnection(d)
  BY <1>0, <1>1, <1>5, QuietDue, DetachDue DEF TeardownConnection, DetachIfCurrent
<1> QED
  BY <1>2, <1>3, <1>4, <1>5 DEF ConnNext, Route

LEMMA FollowIs ==
    ASSUME Follow, NEW c \in Conns
    PROVE  /\ Takes(c) => due'[c] = Audience(c)'
           /\ ~Takes(c) => due'[c] = {r \in due[c] \cap Tracked' : ~Puts(c, r)}
BY DEF Follow

LEMMA DueKept ==
    ASSUME ClientInv, DueInv, Follow, NEW c \in Conns, DueFrame(c)
    PROVE  DueStep(c)
<1>0. TypeOK /\ SubscriptionTable /\ DueAt(c) /\ due[c] \subseteq Rpcs
  BY DEF ClientInv, TypeInv, FeedInv, DueInv
<1>1. ~Takes(c) /\ \A r \in Rpcs : ~Puts(c, r)
  BY DEF DueFrame, InHandFrame, Takes
<1>2. due'[c] = due[c] \cap Tracked'
  BY <1>0, <1>1, FollowIs
<1>3. rd'[c] \in {"none", "recv"} => due'[c] = {}
  BY <1>0, <1>2 DEF DueFrame, InHandFrame, DueAt
<1>4. ASSUME rd'[c] \in {"route", "route2"} PROVE DueAt(c)'
  <2>1. rd'[c] = rd[c] /\ msg'[c] = msg[c]
    BY <1>4 DEF DueFrame, InHandFrame
  <2>2. CASE ws # c \/ ws' # c
    <3>1. due'[c] = {}
      BY <1>0, <1>2, <1>4, <2>1, <2>2
      DEF DueFrame, DueAt, Audience, UnseenQueues, MatchingQueues
    <3>2. ws' # c
      BY <1>4, <2>1, <2>2 DEF DueFrame
    <3>3. Audience(c)' = {} /\ UnseenQueues(c)' = {}
      BY <3>2 DEF Audience, UnseenQueues, MatchingQueues
    <3> QED
      BY <1>0, <1>4, <2>1, <3>1, <3>3 DEF DueAt
  <2>3. CASE ws = c /\ ws' = c
    <3>1. \A s \in SubIds : subs'[s] \in {subs[s], None}
      BY <2>3 DEF DueFrame
    <3>2. Tracked' \subseteq Tracked
      BY <3>1 DEF Tracked
    <3>3. \A r \in Tracked' : event'[r] = event[r]
      BY <2>3, <3>2 DEF DueFrame
    <3>4. \A x : MatchingQueues(c, x)' = MatchingQueues(c, x) \cap Tracked'
      BY <2>3, <3>2, <3>3 DEF MatchingQueues, MatchesSubscription
    <3>5. CASE rd[c] = "route2"
      BY <1>0, <1>2, <2>1, <3>4, <3>5 DEF DueAt, UnseenQueues
    <3>6. CASE rd[c] = "route"
      <4>1. ASSUME NEW r \in Tracked', msg[c].type = "note"
            PROVE  subs'[msg[c].sid] = r <=> subs[msg[c].sid] = r
        <5>1. msg[c].sid \in SubIds
          BY <1>0, <4>1, NoteFields DEF NoteMsgs
        <5>2. PICK s \in SubIds : subs'[s] = r /\ r # None
          BY <4>1 DEF Tracked
        <5>3. subs[s] = r
          BY <3>1, <5>2
        <5> QED
          BY <1>0, <3>1, <5>1, <5>2, <5>3 DEF SubscriptionTable
      <4>2. ASSUME NEW r \in Tracked'
            PROVE  Addressed(msg[c], r)' <=> Addressed(msg[c], r)
        BY <2>1, <3>3, <4>1, <4>2 DEF Addressed, MatchesSubscription
      <4>3. Audience(c)' = Audience(c) \cap Tracked'
        BY <2>3, <3>2, <4>2 DEF Audience
      <4> QED
        BY <1>0, <1>2, <2>1, <3>6, <4>3 DEF DueAt
    <3> QED
      BY <1>4, <2>1, <3>5, <3>6
  <2> QED
    BY <2>2, <2>3
<1> QED
  BY <1>1, <1>3, <1>4 DEF DueStep, DueAt

\* The next message: it is due to its audience, and put nowhere yet.
LEMMA DueTaken ==
    ASSUME ClientInv, DueInv, Follow, NEW c \in Conns, Receive(c)
    PROVE  DueStep(c)
<1>0. TypeOK /\ rd[c] = "recv" /\ DueAt(c)
  BY DEF ClientInv, TypeInv, DueInv, Receive, ReceiveReply, ReceiveNotification,
         ReceiveCollection, ReceiveClosed, ReceiveBadFrame, Reading
<1>1. \A r \in Rpcs : ~Puts(c, r)
  BY <1>0, NothingPut
  DEF Receive, ReceiveReply, ReceiveNotification, ReceiveCollection, ReceiveClosed,
      ReceiveBadFrame, Reading, session
<1>2. CASE ReceiveClosed(c) \/ ReceiveBadFrame(c)
  <2>1. rd'[c] = "teardown"
    BY <1>0, <1>2 DEF ReceiveClosed, ReceiveBadFrame, Reading, TypeOK
  <2> QED
    BY <1>1, <2>1 DEF DueStep, DueAt
<1>3. CASE \/ \E r \in Rpcs, k \in Kinds, s \in SubIds \cup {None} : ReceiveReply(c, r, k, s)
           \/ \E s \in SubIds : ReceiveNotification(c, s)
  <2>1. rd'[c] = "route" /\ msg'[c].type # "collection"
    BY <1>0, <1>3 DEF ReceiveReply, ReceiveNotification, Reading, TypeOK
  <2>2. due'[c] = Audience(c)'
    BY <1>0, <2>1, FollowIs DEF Takes
  <2> QED
    BY <1>1, <2>1, <2>2 DEF DueStep, DueAt
<1>4. ASSUME NEW top \in Collections \cup {None}, NEW inner \in Collections \cup {None},
             ReceiveCollection(c, top, inner)
      PROVE  DueStep(c)
  <2> DEFINE m == [type |-> "collection", top |-> top, inner |-> inner, seen |-> {}]
  <2>1. /\ msg'[c] = m /\ m \in CollMsgs /\ (top # None \/ inner # None)
        /\ rd'[c] = IF top # None THEN "route" ELSE "route2"
    BY <1>0, <1>4 DEF ReceiveCollection, Reading, TypeOK, CollMsgs
  <2>2. due'[c] = Audience(c)'
    BY <1>0, <2>1, FollowIs DEF Takes
  <2>3. CASE top # None
    BY <1>1, <2>1, <2>2, <2>3 DEF DueStep, DueAt
  <2>4. CASE top = None
    <3>1. \A r : Addressed(msg[c], r)' <=> MatchesSubscription(inner, event'[r])
      BY <2>1, <2>4 DEF Addressed, MatchesSubscription
    <3>2. Audience(c)' = UnseenQueues(c)'
      BY <2>1, <3>1 DEF Audience, UnseenQueues, MatchingQueues, MatchesSubscription
    <3> QED
      BY <1>1, <2>1, <2>2, <2>4, <3>2 DEF DueStep, DueAt
  <2> QED
    BY <2>3, <2>4
<1> QED
  BY <1>2, <1>3, <1>4 DEF Receive

\* The message in hand is routed.
LEMMA DueRouted ==
    ASSUME ClientInv, DueInv, Follow, NEW c \in Conns,
           \/ HandleRpcResponse(c) \/ HandleSubscriptionNotification(c)
           \/ HandleCollectionTop(c) \/ HandleCollectionParams(c)
    PROVE  DueStep(c)
<1>0. TypeOK /\ DueAt(c) /\ due[c] \subseteq Rpcs
  BY DEF ClientInv, TypeInv, DueInv
<1>1. due'[c] = {r \in due[c] \cap Tracked' : ~Puts(c, r)}
  <2>1. rd[c] \in {"route", "route2"}
    BY DEF HandleRpcResponse, HandleSubscriptionNotification, HandleCollectionTop,
           HandleCollectionParams
  <2> QED
    BY <2>1, FollowIs DEF Takes
<1>2. CASE HandleRpcResponse(c)
  <2>1. due[c] = {}
    BY <1>0, <1>2 DEF HandleRpcResponse, DueAt, Audience, Addressed
  <2>2. rd'[c] = "recv" /\ \A r \in Rpcs : ~Puts(c, r)
    BY <1>0, <1>2, NothingPut DEF HandleRpcResponse, Routed, TypeOK
  <2> QED
    BY <1>1, <2>1, <2>2 DEF DueStep, DueAt
<1>3. CASE HandleSubscriptionNotification(c)
  <2>1. msg[c].sid \in SubIds
    BY <1>0, <1>3, NoteFields DEF HandleSubscriptionNotification, NoteMsgs
  <2>2. due[c] = NotedQueues(c)
    BY <1>0, <1>3, <2>1
    DEF HandleSubscriptionNotification, DueAt, Audience, Addressed, NotedQueues, Tracked
  <2>3. rd'[c] = "recv" /\ \A r \in Rpcs : Puts(c, r) <=> r \in NotedQueues(c)
    BY <1>0, <1>3, PutsWhere DEF HandleSubscriptionNotification, Routed, TypeOK
  <2> QED
    BY <1>0, <1>1, <2>2, <2>3 DEF DueStep, DueAt
<1>4. CASE HandleCollectionTop(c)
  <2> DEFINE Top == MatchingQueues(c, msg[c].top)
  <2>1. msg[c] \in CollMsgs /\ msg[c].top # None
    BY <1>0, <1>4
    DEF HandleCollectionTop, DueAt, TypeOK, ReplyMsgs, NoteMsgs, CollMsgs, NoMsg
  <2>2. /\ Tracked' = Tracked /\ UNCHANGED <<ws, subs, event>>
        /\ \A r \in Rpcs : Puts(c, r) <=> r \in Top
    BY <1>0, <1>4, PutsWhere DEF HandleCollectionTop, Tracked, requests
  <2>3. due[c] = Audience(c) /\ Audience(c) \subseteq Tracked
    BY <1>0, <1>4 DEF HandleCollectionTop, DueAt, Audience
  <2>4. Top \subseteq Audience(c)
    BY <1>4, <2>1 DEF HandleCollectionTop, MatchingQueues, Audience, Addressed
  <2>5. due'[c] = Audience(c) \ Top
    BY <1>0, <1>1, <2>2, <2>3
  <2>6. CASE msg[c].inner = None /\ Routed(c)
    <3>1. Audience(c) \subseteq Top
      BY <1>4, <2>1, <2>6 DEF HandleCollectionTop, MatchingQueues, Audience, Addressed
    <3>2. rd'[c] = "recv"
      BY <1>0, <2>6 DEF Routed, TypeOK
    <3> QED
      BY <2>2, <2>3, <2>4, <2>5, <3>1, <3>2 DEF DueStep, DueAt
  <2>7. CASE msg[c].inner # None /\ rd' = [rd EXCEPT ![c] = "route2"]
                                 /\ msg' = [msg EXCEPT ![c] = WithSeen(c)]
    <3>1. Top \subseteq Rpcs
      BY <1>0, <2>3, <2>4
    <3>2. /\ rd'[c] = "route2" /\ msg'[c] = [msg[c] EXCEPT !.seen = Top]
      BY <1>0, <2>7 DEF WithSeen, TypeOK
    <3>3. msg'[c] \in CollMsgs /\ msg'[c].inner = msg[c].inner /\ msg'[c].seen = Top
      BY <2>1, <3>1, <3>2 DEF CollMsgs
    <3>4. UnseenQueues(c)' = MatchingQueues(c, msg[c].inner) \ Top
      BY <2>2, <3>3 DEF UnseenQueues, MatchingQueues, MatchesSubscription
    <3>5. Audience(c) = Top \cup MatchingQueues(c, msg[c].inner)
      BY <1>4, <2>1, <2>7 DEF HandleCollectionTop, Audience, Addressed, MatchingQueues
    <3> QED
      BY <2>2, <2>3, <2>4, <2>5, <2>7, <3>2, <3>3, <3>4, <3>5 DEF DueStep, DueAt
  <2> QED
    BY <1>4, <2>6, <2>7 DEF HandleCollectionTop
<1>5. CASE HandleCollectionParams(c)
  <2>1. due[c] = UnseenQueues(c)
    BY <1>0, <1>5 DEF HandleCollectionParams, DueAt
  <2>2. rd'[c] = "recv" /\ \A r \in Rpcs : Puts(c, r) <=> r \in UnseenQueues(c)
    BY <1>0, <1>5, PutsWhere DEF HandleCollectionParams, Routed, TypeOK
  <2> QED
    BY <1>0, <1>1, <2>1, <2>2 DEF DueStep, DueAt
<1> QED
  BY <1>2, <1>3, <1>4, <1>5

LEMMA DueOwnStep ==
    ASSUME ClientInv, DueInv, Follow, NEW c \in Conns, ConnNext(c)
    PROVE  DueStep(c)
<1>0. TypeOK
  BY DEF ClientInv, TypeInv
<1>1. CASE Drop(c)
  <2>1. DueFrame(c)
    BY <1>0, <1>1, QuietDue DEF Drop, InHandFrame, session, requests, reader
  <2> QED
    BY <2>1, DueKept
<1>2. CASE TeardownConnection(c)
  <2>1. InHandFrame(c) /\ UNCHANGED event
    BY <1>0, <1>2 DEF TeardownConnection, InHandFrame, TypeOK, requests
  <2>2. DueFrame(c)
    BY <1>0, <1>2, <2>1, QuietDue, DetachDue DEF TeardownConnection, DetachIfCurrent, session
  <2> QED
    BY <2>2, DueKept
<1> QED
  BY <1>1, <1>2, DueTaken, DueRouted DEF ConnNext, Route

LEMMA DueStepAlways ==
    ASSUME ClientInv, DueInv, DeliveryNext
    PROVE  DueInv' /\ \A c \in Conns : DueStep(c)
<1>0. Follow /\ [Next]_vars /\ due \in [Conns -> SUBSET Rpcs] /\ ClientInv'
  BY TypeStep, SessionStep, CallStep, LocalsStep, FeedStep DEF DeliveryNext, ClientInv, DueInv
<1>1. ASSUME NEW c \in Conns PROVE DueStep(c)
  <2>1. CASE \E t \in Tasks : TaskNext(t)
    BY <1>0, <2>1, DueTaskStep, DueKept
  <2>2. ASSUME NEW d \in Conns, ConnNext(d) PROVE DueStep(c)
    BY <1>0, <2>2, DueOtherStep, DueKept, DueOwnStep
  <2> QED
    BY <2>1, <2>2 DEF DeliveryNext, Next, TaskNext, ConnNext
<1>2. due' \in [Conns -> SUBSET Rpcs]
  <2>1. Tracked' \subseteq Rpcs
    BY <1>0, TrackedUsed DEF ClientInv, TypeInv, TypeOK, Tracked
  <2>2. \A c \in Conns : Audience(c)' \subseteq Tracked'
    BY DEF Audience
  <2> QED
    BY <1>0, <2>1, <2>2 DEF Follow
<1> QED
  BY <1>1, <1>2 DEF DueInv, DueStep

\* Whatever is cancelled, lost, replaced or unsubscribed between the two lookups of a
\* notification, it is put exactly once into each queue that it is meant for and that
\* stays tracked, and into no other.
THEOREM AlwaysDeliveredOnce == DeliverySpec => DeliveredOnce
<1>1. DeliveryInit => ClientInv /\ DueInv
  <2> SUFFICES ASSUME DeliveryInit PROVE ClientInv /\ DueInv
    OBVIOUS
  <2>1. ClientInv
    BY TypeInit, SessionInit, CallInit, LocalsInit, FeedInit DEF DeliveryInit, ClientInv
  <2>2. DueInv
    BY DEF DeliveryInit, Init, DueInv, DueAt
  <2> QED
    BY <2>1, <2>2
<1>2. ClientInv /\ DueInv /\ [DeliveryNext]_deliveryVars => (ClientInv /\ DueInv)'
  <2> SUFFICES ASSUME ClientInv, DueInv, [DeliveryNext]_deliveryVars
               PROVE  ClientInv' /\ DueInv'
    OBVIOUS
  <2>1. ClientInv'
    <3>1. [Next]_vars
      BY DEF DeliveryNext, deliveryVars
    <3> QED
      BY <3>1, TypeStep, SessionStep, CallStep, LocalsStep, FeedStep DEF ClientInv
  <2>2. CASE UNCHANGED deliveryVars
    <3>1. UNCHANGED <<due, rd, msg, ws, subs, event>>
      BY <2>2 DEF deliveryVars, vars, session, reader, requests
    <3>2. Tracked' = Tracked
      BY <3>1 DEF Tracked
    <3>3. \A c \in Conns : Audience(c)' = Audience(c) /\ UnseenQueues(c)' = UnseenQueues(c)
      BY <3>1, <3>2
      DEF Audience, Addressed, UnseenQueues, MatchingQueues, MatchesSubscription
    <3>4. ASSUME NEW c \in Conns PROVE DueAt(c)'
      <4>1. DueAt(c)
        BY DEF DueInv
      <4> QED
        BY <3>1, <3>3, <4>1 DEF DueAt
    <3>5. DueInv'
      BY <3>1, <3>4 DEF DueInv
    <3> QED
      BY <2>1, <3>5
  <2> QED
    BY <2>1, <2>2, DueStepAlways
<1>3. ClientInv /\ DueInv /\ [DeliveryNext]_deliveryVars =>
      [\A c \in Conns : /\ \A r \in Rpcs : Puts(c, r) => r \in due[c]
                        /\ rd'[c] = "recv" => due'[c] = {}]_deliveryVars
  BY DueStepAlways DEF DueStep
<1> QED
  BY <1>1, <1>2, <1>3, PTL DEF DeliverySpec, DeliveredOnce

=============================================================================
