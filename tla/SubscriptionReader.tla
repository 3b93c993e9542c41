-------------------------- MODULE SubscriptionReader --------------------------
(***************************************************************************)
(* Reading a subscription: calls of get_subscription_events(), which find  *)
(* the queue by its id, and a program that reads the queue subscribe()     *)
(* returned to it.  The queues are fed as SubscriptionFeed says, which     *)
(* Client implements.                                                      *)
(*                                                                         *)
(* An id names one request (the server's ids are unique).  _drain_events   *)
(* does not suspend, so a call takes everything it returns in one step.    *)
(***************************************************************************)
EXTENDS SubscriptionFeed

CONSTANTS
    Readers,  \* the tasks that call get_subscription_events()
    MaxFeed   \* bound on the messages put into one queue

ASSUME ReaderAssumption == MaxFeed \in Nat

VARIABLES
    taken,    \* taken[r]: how much of feed[r] was taken out of the queue
    received, \* received[r]: what was handed to the program, in order
    kpc,      \* per reader: its pc
    rq,       \* per reader: the subscription it reads
    waits,    \* per reader: event_timeout is not None
    raw,      \* raw[r]: the program awaits queue.get() in a loop
    swallowed \* the queues whose terminator get_subscription_events() took

calls == <<kpc, rq, waits>>
readerVars == <<feedVars, taken, received, calls, raw, swallowed>>

ReaderInit ==
    /\ FeedInit
    /\ taken = [r \in Reqs |-> 0]
    /\ received = [r \in Reqs |-> <<>>]
    /\ kpc = [k \in Readers |-> "idle"]
    /\ rq = [k \in Readers |-> None]
    /\ waits = [k \in Readers |-> FALSE]
    /\ raw = [r \in Reqs |-> "no"]
    /\ swallowed = {}

\* What the asyncio.Queue of r holds.
Queued(r) == SubSeq(feed[r], taken[r] + 1, Len(feed[r]))

\* get_nowait() until the queue is empty or the terminator was taken: the first
\* one, and what follows it would stay.
Drain(r) ==
    LET q == Queued(r)
        ends == {i \in 1..Len(q) : q[i] = TERM}
        first == CHOOSE i \in ends : \A j \in ends : i <= j
    IN  \/ /\ ends = {}
           /\ taken' = [taken EXCEPT ![r] = @ + Len(q)]
           /\ received' = [received EXCEPT ![r] = @ \o q]
           /\ UNCHANGED swallowed
        \/ /\ ends # {}
           /\ taken' = [taken EXCEPT ![r] = @ + first]
           /\ received' = [received EXCEPT ![r] = @ \o SubSeq(q, 1, first - 1)]
           /\ swallowed' = swallowed \cup {r}

Leave(k) ==
    /\ kpc' = [kpc EXCEPT ![k] = "idle"]
    /\ rq' = [rq EXCEPT ![k] = None]
    /\ waits' = [waits EXCEPT ![k] = FALSE]

\* A task calls get_subscription_events() with an id subscribe() returned.
GetEvents(k, r, w) ==
    /\ kpc[k] = "idle"
    /\ r \in returned
    /\ kpc' = [kpc EXCEPT ![k] = "lookup"]
    /\ rq' = [rq EXCEPT ![k] = r]
    /\ waits' = [waits EXCEPT ![k] = w]
    /\ UNCHANGED <<feedVars, taken, received, raw, swallowed>>

\* The lock is taken: KeyError when the id is no longer tracked.  Without a
\* timeout the call drains the queue and returns.
Lookup(k) ==
    /\ kpc[k] = "lookup"
    /\ \/ /\ rq[k] \notin open
          /\ Leave(k)
          /\ UNCHANGED <<taken, received, swallowed>>
       \/ /\ rq[k] \in open /\ waits[k]
          /\ kpc' = [kpc EXCEPT ![k] = "get"]
          /\ UNCHANGED <<rq, waits, taken, received, swallowed>>
       \/ /\ rq[k] \in open /\ ~waits[k]
          /\ Drain(rq[k])
          /\ Leave(k)
    /\ UNCHANGED <<feedVars, raw>>

\* queue.get() returned: the terminator ends the call, an event is the first of
\* those that are drained with it.
Get(k) ==
    /\ kpc[k] = "get"
    /\ Queued(rq[k]) # <<>>
    /\ Drain(rq[k])
    /\ Leave(k)
    /\ UNCHANGED <<feedVars, raw>>

FaultGetTimeout(k) ==
    /\ kpc[k] = "get"
    /\ taken' = [taken EXCEPT ![rq[k]] = IF Queued(rq[k]) = <<>> THEN @ ELSE @ + 1]
    /\ Leave(k)
    /\ UNCHANGED <<feedVars, received, raw, swallowed>>
FaultGetRetry(k) == kpc[k] = "get" /\ Queued(rq[k]) # <<>> /\ Leave(k)
                    /\ UNCHANGED <<feedVars, taken, received, raw, swallowed>>
\* The timeout or a cancel ends queue.get(), also when a message has woken it
\* already: asyncio.Queue then leaves the message in the queue.
GetTimeout(k) ==
    /\ kpc[k] = "get"
    /\ Leave(k)
    /\ UNCHANGED <<feedVars, taken, received, raw, swallowed>>

\* A cancel while the call waits for the lock.
LookupCancelled(k) ==
    /\ kpc[k] = "lookup"
    /\ Leave(k)
    /\ UNCHANGED <<feedVars, taken, received, raw, swallowed>>

\* The program reads the queue itself, one message at a time, up to the terminator.
RawStart(r) ==
    /\ r \in returned /\ raw[r] = "no"
    /\ raw' = [raw EXCEPT ![r] = "get"]
    /\ UNCHANGED <<feedVars, taken, received, calls, swallowed>>

RawGet(r) ==
    /\ raw[r] = "get"
    /\ Queued(r) # <<>>
    /\ taken' = [taken EXCEPT ![r] = @ + 1]
    /\ IF Head(Queued(r)) = TERM
       THEN raw' = [raw EXCEPT ![r] = "done"] /\ UNCHANGED received
       ELSE received' = [received EXCEPT ![r] = Append(@, Head(Queued(r)))] /\ UNCHANGED raw
    /\ UNCHANGED <<feedVars, calls, swallowed>>

\* The client's other tasks; the messages put into a queue are bounded.
Environment ==
    /\ FeedNext
    /\ \A r \in Reqs : Len(feed'[r]) <= MaxFeed
    /\ UNCHANGED <<taken, received, calls, raw, swallowed>>

ReaderNext ==
    \/ Environment
    \/ \E k \in Readers :
          \/ \E r \in Reqs, w \in BOOLEAN : GetEvents(k, r, w)
          \/ Lookup(k) \/ Get(k) \/ GetTimeout(k) \/ LookupCancelled(k)
    \/ \E r \in Reqs : RawStart(r) \/ RawGet(r)

ReaderSpec == ReaderInit /\ [][ReaderNext]_readerVars

\* The lock is served in order, an expired timeout fires, and a program that
\* awaits queue.get() runs when there is something to get.
ReaderFairness ==
    /\ \A k \in Readers : WF_readerVars(Lookup(k)) /\ WF_readerVars(GetTimeout(k))
    /\ \A r \in Reqs : WF_readerVars(RawGet(r))

ReaderFairSpec == ReaderSpec /\ ReaderFairness

-----------------------------------------------------------------------------
(* Properties *)

\* How many of the messages taken out of the queue of r were events: all, or all
\* but the terminator.
EventsTaken(r) ==
    IF taken[r] > 0 /\ feed[r][taken[r]] = TERM THEN taken[r] - 1 ELSE taken[r]

\* Whoever reads, with however many timeouts and cancels that race with an
\* arriving message: what the program got is, in order and once, what was taken
\* out of the queue; a call that gives up loses nothing.
NothingLost == \A r \in Reqs : received[r] = SubSeq(feed[r], 1, EventsTaken(r))

\* get_subscription_events() ends although the queue it reads may have been
\* emptied, its terminator included, by another reader.
ReadEnds == \A k \in Readers : (kpc[k] # "idle") ~> (kpc[k] = "idle")

\* A program that reads its queue itself sees the end of the subscription,
\* unless a get_subscription_events() took the terminator (it is put once).
RawReaderEnds ==
    \A r \in Reqs : (raw[r] = "get" /\ r \notin open) ~> (raw[r] = "done" \/ r \in swallowed)

=============================================================================
