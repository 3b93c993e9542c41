------------------------ MODULE SubscriptionFeedProofs ------------------------
(***************************************************************************)
(* What a consumer of a queue may rely on follows from SubscriptionFeed,   *)
(* for any requests and connections: a terminator is the last thing in a   *)
(* queue, a queue holds messages of one connection, and a queue that was   *)
(* returned is tracked or has been ended.                                  *)
(***************************************************************************)
EXTENDS SubscriptionFeed, SequenceTheorems, TLAPS

Messages == Sources \cup {TERM}

\* A tracked queue was requested and holds no terminator yet, and a queue that was not
\* requested is empty: what Deliver and End append is then in order.
TrackedUnended ==
    \A r \in open : source[r] # None /\ \A i \in 1..Len(feed[r]) : feed[r][i] # TERM
UnrequestedEmpty == \A r \in Reqs : source[r] = None => feed[r] = <<>>

FeedSound ==
    /\ FeedTypeOK /\ TrackedUnended /\ UnrequestedEmpty
    /\ NothingAfterTerminator /\ QueueOfOneConnection /\ HandedQueueLives

LEMMA FeedSoundInit == FeedInit => FeedSound
BY DEF FeedInit, FeedSound, FeedTypeOK, TrackedUnended, UnrequestedEmpty, NothingAfterTerminator,
       QueueOfOneConnection, HandedQueueLives

\* The queues after message m was put into those in R.
Grown(R, m) ==
    /\ feed' \in [Reqs -> Seq(Messages)]
    /\ \A r \in Reqs \ R : feed'[r] = feed[r]
    /\ \A r \in R : /\ Len(feed[r]) \in Nat /\ Len(feed'[r]) = Len(feed[r]) + 1
                    /\ \A i \in 1..Len(feed[r]) : feed'[r][i] = feed[r][i]
                    /\ feed'[r][Len(feed'[r])] = m /\ feed'[r] # <<>>

LEMMA AfterPut ==
    ASSUME FeedTypeOK, NEW R \in SUBSET Reqs, NEW m \in Messages, Put(R, m)
    PROVE  Grown(R, m)
<1>1. \A r \in Reqs : feed[r] \in Seq(Messages) /\ Append(feed[r], m) \in Seq(Messages)
  BY AppendProperties DEF FeedTypeOK, Messages
<1>2. ASSUME NEW r \in R
      PROVE  /\ Len(feed[r]) \in Nat /\ Len(feed'[r]) = Len(feed[r]) + 1
             /\ \A i \in 1..Len(feed[r]) : feed'[r][i] = feed[r][i]
             /\ feed'[r][Len(feed'[r])] = m /\ feed'[r] # <<>>
  <2>1. feed'[r] = Append(feed[r], m)
    BY DEF Put
  <2> QED
    BY <1>1, <2>1, AppendProperties, LenProperties
<1> QED
  BY <1>1, <1>2 DEF Put, Grown

\* A position of a queue that has grown is the last one or was there before.
LEMMA GrownPosition ==
    ASSUME NEW R, NEW m, Grown(R, m), NEW r \in R, NEW i \in 1..Len(feed'[r])
    PROVE  \/ i \in 1..Len(feed[r]) /\ feed'[r][i] = feed[r][i] /\ i # Len(feed'[r])
           \/ i = Len(feed'[r]) /\ feed'[r][i] = m
<1>1. /\ Len(feed[r]) \in Nat /\ Len(feed'[r]) = Len(feed[r]) + 1
      /\ \A k \in 1..Len(feed[r]) : feed'[r][k] = feed[r][k]
      /\ feed'[r][Len(feed'[r])] = m
  BY DEF Grown
<1>2. i \in 1..Len(feed[r]) \/ i = Len(feed'[r])
  BY <1>1
<1> QED
  BY <1>1, <1>2

LEMMA FeedSoundStep == FeedSound /\ [FeedNext]_feedVars => FeedSound'
<1> SUFFICES ASSUME FeedSound, [FeedNext]_feedVars PROVE FeedSound'
  OBVIOUS
<1>0. FeedTypeOK
  BY DEF FeedSound
<1>p. ASSUME NEW R \in SUBSET Reqs, NEW m \in Messages, Put(R, m) PROVE Grown(R, m)
  BY <1>0, <1>p, AfterPut
<1> USE DEF FeedSound, FeedTypeOK, TrackedUnended, UnrequestedEmpty, NothingAfterTerminator,
            QueueOfOneConnection, HandedQueueLives, Ended
<1>1. ASSUME NEW r \in Reqs, NEW c \in Sources, Request(r, c) PROVE FeedSound'
  BY <1>1, FeedAssumption DEF Request
<1>2. ASSUME NEW r \in Reqs, Track(r) PROVE FeedSound'
  BY <1>2 DEF Track
<1>3. ASSUME NEW r \in Reqs, Return(r) PROVE FeedSound'
  BY <1>3 DEF Return
<1>4. ASSUME NEW r \in Reqs, Abandon(r) PROVE FeedSound'
  BY <1>4 DEF Abandon
<1>5. ASSUME NEW R \in SUBSET Reqs, NEW c \in Sources, Deliver(R, c) PROVE FeedSound'
  <2>1. c \in Messages /\ c # TERM /\ c # None
    BY FeedAssumption DEF Messages
  <2>2. Put(R, c) /\ UNCHANGED <<source, open, returned>> /\ \A r \in R : r \in open /\ source[r] = c
    BY <1>5 DEF Deliver
  <2>3. Grown(R, c)
    BY <1>p, <2>1, <2>2
  <2>4. FeedTypeOK' /\ UnrequestedEmpty' /\ HandedQueueLives'
    BY <2>1, <2>2, <2>3 DEF Messages, Grown
  <2>5. ASSUME NEW r \in Reqs, NEW i \in 1..Len(feed'[r])
        PROVE  /\ feed'[r][i] = TERM => r \notin open /\ i = Len(feed'[r])
               /\ feed'[r][i] \in {source[r], TERM}
    <3>1. CASE r \in R
      <4>1. CASE i \in 1..Len(feed[r]) /\ feed'[r][i] = feed[r][i]
        BY <2>2, <3>1, <4>1
      <4>2. CASE feed'[r][i] = c
        BY <2>1, <2>2, <3>1, <4>2
      <4> QED
        BY <2>3, <3>1, <4>1, <4>2, GrownPosition
    <3>2. CASE r \notin R
      BY <2>3, <3>2 DEF Grown
    <3> QED
      BY <3>1, <3>2
  <2> QED
    BY <2>2, <2>4, <2>5
<1>6. ASSUME NEW R \in SUBSET Reqs, End(R) PROVE FeedSound'
  <2>1. Put(R, TERM) /\ UNCHANGED <<source, returned>> /\ open' = open \ R /\ R \subseteq open
    BY <1>6 DEF End
  <2>2. Grown(R, TERM)
    BY <1>p, <2>1 DEF Messages
  <2>3. FeedTypeOK' /\ UnrequestedEmpty' /\ HandedQueueLives' /\ TrackedUnended'
    BY <2>1, <2>2 DEF Messages, Grown
  <2>4. ASSUME NEW r \in Reqs, NEW i \in 1..Len(feed'[r])
        PROVE  /\ feed'[r][i] = TERM => i = Len(feed'[r])
               /\ feed'[r][i] \in {source[r], TERM}
    <3>1. CASE r \in R
      <4>1. CASE i \in 1..Len(feed[r]) /\ feed'[r][i] = feed[r][i]
        BY <2>1, <3>1, <4>1
      <4>2. CASE i = Len(feed'[r]) /\ feed'[r][i] = TERM
        BY <4>2
      <4> QED
        BY <2>2, <3>1, <4>1, <4>2, GrownPosition
    <3>2. CASE r \notin R
      BY <2>2, <3>2 DEF Grown
    <3> QED
      BY <3>1, <3>2
  <2> QED
    BY <2>1, <2>3, <2>4
<1>7. CASE UNCHANGED feedVars
  BY <1>7 DEF feedVars
<1> QED
  BY <1>1, <1>2, <1>3, <1>4, <1>5, <1>6, <1>7 DEF FeedNext

LEMMA FeedSoundAlways == FeedSpec => []FeedSound
BY FeedSoundInit, FeedSoundStep, PTL DEF FeedSpec

\* Every queue is fed in order: messages of its own connection, then one terminator;
\* and no queue that a program holds is left without either.
THEOREM FeedKeepsPromise == FeedSpec => []FeedPromise
<1>1. FeedSound => FeedPromise
  BY DEF FeedSound, FeedPromise
<1> QED
  BY <1>1, FeedSoundAlways, PTL
=============================================================================
