--------------------------- MODULE SubscriptionFeed ---------------------------
(***************************************************************************)
(* What subscribe() promises of the queue it returns, without locks, tasks *)
(* or messages: a queue is fed by the one connection its request was sent  *)
(* on, and only while it is tracked in self._subscriptions; a queue that   *)
(* was returned stops being tracked only together with a terminator, the   *)
(* last thing it gets.  Client implements this (Client!ImplementsFeed).    *)
(***************************************************************************)
EXTENDS Naturals, Sequences

CONSTANTS
    Reqs,     \* the requests; a core.subscribe makes one queue
    Sources,  \* the connections
    TERM,     \* SUBSCRIPTION_TERMINATOR
    None

ASSUME FeedAssumption ==
    /\ None \notin Sources /\ TERM \notin Sources /\ TERM # None

VARIABLES
    feed,      \* feed[r]: everything ever put into the queue of request r
    source,    \* source[r]: the connection request r was sent on
    open,      \* the requests whose queue is tracked
    returned   \* the requests whose subscribe() returned its queue

feedVars == <<feed, source, open, returned>>

FeedTypeOK ==
    /\ feed \in [Reqs -> Seq(Sources \cup {TERM})]
    /\ source \in [Reqs -> Sources \cup {None}]
    /\ open \subseteq Reqs
    /\ returned \subseteq Reqs

FeedInit ==
    /\ feed = [r \in Reqs |-> <<>>]
    /\ source = [r \in Reqs |-> None]
    /\ open = {}
    /\ returned = {}

Ended(r) == feed[r] # <<>> /\ feed[r][Len(feed[r])] = TERM

Put(R, m) == feed' = [r \in Reqs |-> IF r \in R THEN Append(feed[r], m) ELSE feed[r]]

Request(r, c) ==
    /\ source[r] = None
    /\ source' = [source EXCEPT ![r] = c]
    /\ UNCHANGED <<feed, open, returned>>

\* The reader routes the reply of core.subscribe.
Track(r) ==
    /\ source[r] # None /\ r \notin open /\ feed[r] = <<>>
    /\ open' = open \cup {r}
    /\ UNCHANGED <<feed, source, returned>>

\* A message of connection c reaches some of the queues tracked on it.
Deliver(R, c) ==
    /\ R \subseteq {r \in open : source[r] = c}
    /\ Put(R, c)
    /\ UNCHANGED <<source, open, returned>>

\* Definitions named Fault... are faulty variants of the definition they precede.
FaultEnd(R) == R \subseteq open /\ open' = open \ R /\ UNCHANGED <<feed, source, returned>>
\* An unsubscribe() or a detach.
End(R) ==
    /\ R \subseteq open
    /\ Put(R, TERM)
    /\ open' = open \ R
    /\ UNCHANGED <<source, returned>>

Return(r) ==
    /\ r \in open \/ Ended(r)
    /\ returned' = returned \cup {r}
    /\ UNCHANGED <<feed, source, open>>

\* subscribe() raised after the reply was routed: nobody has the queue.
Abandon(r) ==
    /\ r \in open \ returned
    /\ open' = open \ {r}
    /\ UNCHANGED <<feed, source, returned>>

FeedNext ==
    \/ \E r \in Reqs, c \in Sources : Request(r, c)
    \/ \E r \in Reqs : Track(r) \/ Return(r) \/ Abandon(r)
    \/ \E R \in SUBSET Reqs, c \in Sources : Deliver(R, c)
    \/ \E R \in SUBSET Reqs : End(R)

FeedSpec == FeedInit /\ [][FeedNext]_feedVars

-----------------------------------------------------------------------------

\* A terminator is the last thing a queue ever gets (_drain_events stops there
\* "because the queue is no longer valid").
NothingAfterTerminator ==
    \A r \in Reqs : \A i \in 1..Len(feed[r]) : feed[r][i] = TERM => i = Len(feed[r])

\* A queue only holds messages of the connection its subscription was made on,
\* although the server may use the same id on a later connection.
QueueOfOneConnection ==
    \A r \in Reqs : \A i \in 1..Len(feed[r]) : feed[r][i] \in {source[r], TERM}

\* A queue that subscribe() returned is tracked, or was ended by a terminator:
\* its reader never waits for a connection that is gone.
HandedQueueLives == returned \subseteq open \cup {r \in Reqs : Ended(r)}

\* What a consumer may rely on.
FeedPromise == NothingAfterTerminator /\ QueueOfOneConnection /\ HandedQueueLives

=============================================================================
