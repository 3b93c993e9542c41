------------------------------ MODULE CallerProofs ------------------------------
(***************************************************************************)
(* What three users of the client promise: the wait for a job, for any     *)
(* number of jobs and any gap the retry limit bridges, the gathered graphs *)
(* of get_system_stats(), for any number of graphs and connections, and    *)
(* get_subscription_events(), for any number of readers, queues and        *)
(* messages.                                                               *)
(***************************************************************************)
EXTENDS JobPoll, SystemGraphs, SubscriptionReader, SubscriptionFeedProofs, WellFoundedInduction,
        TLAPS

-----------------------------------------------------------------------------
(* _wait_for_job() *)

\* An answer that says the job has ended stays true, as a job ends once.
AnswerIsFinal == \A j \in Jobs : answer[j] \in TerminalStates => answer[j] = job[j]

\* missing_count of a job the server still lists counts polls of the gap the
\* server is in, the answer on its way included.
Counted(j) ==
    pc[j] # "done" =>
        /\ missing[j] < RetryLimit
        /\ j \notin dropped /\ pc[j] # "answered" => missing[j] <= gap[j]
        /\ j \notin dropped /\ pc[j] = "answered" /\ answer[j] = "missing" => missing[j] < gap[j]
CountIsGap == \A j \in Jobs : Counted(j)

JobInv == TypeOK /\ AnswerIsFinal /\ CountIsGap /\ OutcomeIsFinal /\ GapsAreBridged

LEMMA JobInit == Init => JobInv
<1> SUFFICES ASSUME Init PROVE JobInv
  OBVIOUS
<1> USE JobPollAssumption DEF Init, RetryLimit
<1>1. TypeOK
  BY DEF TypeOK, Answers, Outcomes, TerminalStates
<1>2. AnswerIsFinal /\ CountIsGap
  BY DEF AnswerIsFinal, CountIsGap, Counted, TerminalStates
<1>3. OutcomeIsFinal /\ GapsAreBridged
  BY DEF OutcomeIsFinal, GapsAreBridged
<1> QED
  BY <1>1, <1>2, <1>3 DEF JobInv

LEMMA JobTypes == JobInv /\ [Next]_vars => TypeOK'
<1> SUFFICES ASSUME TypeOK, CountIsGap, [Next]_vars PROVE TypeOK'
  BY DEF JobInv
<1> USE JobPollAssumption DEF TypeOK
<1>1. ASSUME NEW j \in Jobs, RunJob(j) \/ EndJob(j) \/ DropJob(j) PROVE TypeOK'
  BY <1>1 DEF RunJob, EndJob, DropJob
<1>2. ASSUME NEW j \in Jobs, CallError(j) \/ Begin(j) \/ Wake(j) PROVE TypeOK'
  BY <1>2 DEF CallError, Begin, Wake, Done, Outcomes
<1>3. ASSUME NEW j \in Jobs, Answer(j) PROVE TypeOK'
  BY <1>3 DEF Answer, Answers, RetryLimit
<1>4. ASSUME NEW j \in Jobs, ReadAnswer(j) PROVE TypeOK'
  <2>1. missing[j] \in 0..4
    <3>1. pc[j] # "done"
      BY <1>4 DEF ReadAnswer
    <3>2. missing[j] < 5
      BY <3>1 DEF CountIsGap, Counted, RetryLimit
    <3>3. missing[j] \in 0..5
      BY DEF RetryLimit
    <3> QED
      BY <3>2, <3>3
  <2>2. MissingCount(j) \in 0..RetryLimit
    BY <2>1 DEF MissingCount, RetryLimit
  <2> QED
    BY <1>4, <2>2 DEF ReadAnswer, Done, ResolveJobResult, Outcomes
<1>5. CASE UNCHANGED vars
  BY <1>5 DEF vars
<1> QED
  BY <1>1, <1>2, <1>3, <1>4, <1>5 DEF Next, Poll

LEMMA JobStep == JobInv /\ [Next]_vars => JobInv'
<1> SUFFICES ASSUME JobInv, [Next]_vars
             PROVE  AnswerIsFinal' /\ CountIsGap' /\ OutcomeIsFinal' /\ GapsAreBridged'
  BY JobTypes DEF JobInv
<1>t. TypeOK /\ AnswerIsFinal /\ CountIsGap /\ OutcomeIsFinal /\ GapsAreBridged
  BY DEF JobInv
<1> USE <1>t DEF TypeOK
<1>1. ASSUME NEW j \in Jobs, RunJob(j) \/ EndJob(j) \/ DropJob(j)
      PROVE  AnswerIsFinal' /\ CountIsGap' /\ OutcomeIsFinal' /\ GapsAreBridged'
  <2>1. AnswerIsFinal'
    BY <1>1 DEF RunJob, EndJob, DropJob, AnswerIsFinal, TerminalStates
  <2>2. CountIsGap'
    BY <1>1, JobPollAssumption DEF RunJob, EndJob, DropJob, CountIsGap, Counted, RetryLimit
  <2>3. OutcomeIsFinal'
    BY <1>1 DEF RunJob, EndJob, DropJob, OutcomeIsFinal, AnswerIsFinal, TerminalStates
  <2>4. GapsAreBridged'
    BY <1>1, JobPollAssumption DEF RunJob, EndJob, DropJob, GapsAreBridged, CountIsGap, Counted, RetryLimit
  <2> QED
    BY <2>1, <2>2, <2>3, <2>4
<1>2. ASSUME NEW j \in Jobs, CallError(j) \/ Begin(j) \/ Wake(j)
      PROVE  AnswerIsFinal' /\ CountIsGap' /\ OutcomeIsFinal' /\ GapsAreBridged'
  <2>1. AnswerIsFinal'
    BY <1>2 DEF CallError, Begin, Wake, Done, AnswerIsFinal, TerminalStates
  <2>2. CountIsGap'
    BY <1>2, JobPollAssumption DEF CallError, Begin, Wake, Done, CountIsGap, Counted, RetryLimit
  <2>3. OutcomeIsFinal'
    BY <1>2 DEF CallError, Begin, Wake, Done, OutcomeIsFinal, AnswerIsFinal, TerminalStates
  <2>4. GapsAreBridged'
    BY <1>2, JobPollAssumption DEF CallError, Begin, Wake, Done, GapsAreBridged, CountIsGap, Counted, RetryLimit
  <2> QED
    BY <2>1, <2>2, <2>3, <2>4
<1>3. ASSUME NEW j \in Jobs, Answer(j)
      PROVE  AnswerIsFinal' /\ CountIsGap' /\ OutcomeIsFinal' /\ GapsAreBridged'
  <2>1. AnswerIsFinal'
    BY <1>3 DEF Answer, AnswerIsFinal, TerminalStates
  <2>2. CountIsGap'
    <3>1. ASSUME NEW k \in Jobs \ {j} PROVE Counted(k)'
      BY <1>3 DEF Answer, CountIsGap, Counted
    <3>2. Counted(j) /\ missing[j] \in Nat /\ gap[j] \in Nat /\ pc[j] = "poll" /\ pc'[j] = "answered"
      BY <1>3, JobPollAssumption DEF Answer, CountIsGap, RetryLimit
    <3>3. /\ missing'[j] = missing[j] /\ dropped' = dropped
          /\ j \notin dropped /\ answer'[j] = "missing" => gap'[j] = gap[j] + 1
      BY <1>3 DEF Answer, TerminalStates
    <3>4. Counted(j)'
      BY <3>2, <3>3 DEF Counted, RetryLimit
    <3> QED
      BY <3>1, <3>4 DEF CountIsGap
  <2>3. OutcomeIsFinal'
    BY <1>3 DEF Answer, OutcomeIsFinal, AnswerIsFinal, TerminalStates
  <2>4. GapsAreBridged'
    BY <1>3, JobPollAssumption DEF Answer, GapsAreBridged, CountIsGap, Counted, RetryLimit
  <2> QED
    BY <2>1, <2>2, <2>3, <2>4
<1>4. ASSUME NEW j \in Jobs, ReadAnswer(j)
      PROVE  AnswerIsFinal' /\ CountIsGap' /\ OutcomeIsFinal' /\ GapsAreBridged'
  <2>5. Counted(j) /\ missing[j] \in 0..5 /\ gap[j] \in 0..MaxGap /\ pc[j] = "answered"
    <3>1. Counted(j) /\ pc[j] = "answered"
      BY <1>4 DEF ReadAnswer, CountIsGap
    <3> QED
      BY <3>1 DEF RetryLimit
  <2>1. AnswerIsFinal'
    BY <1>4 DEF ReadAnswer, MissingCount, GivesUp, JobEnded, Done, ResolveJobResult, AnswerIsFinal, TerminalStates
  <2>2. CountIsGap'
    <3>1. ASSUME NEW k \in Jobs \ {j} PROVE Counted(k)'
      BY <1>4 DEF ReadAnswer, Done, CountIsGap, Counted
    <3>2. /\ missing'[j] = MissingCount(j) /\ dropped' = dropped /\ gap'[j] = gap[j]
          /\ pc'[j] # "done" => pc'[j] = "sleep" /\ ~GivesUp(j)
      BY <1>4 DEF ReadAnswer, Done
    <3>3. Counted(j)'
      BY <2>5, <3>2 DEF MissingCount, GivesUp, Counted, RetryLimit
    <3> QED
      BY <3>1, <3>3 DEF CountIsGap
  <2>3. OutcomeIsFinal'
    BY <1>4 DEF ReadAnswer, MissingCount, GivesUp, JobEnded, Done, ResolveJobResult, OutcomeIsFinal, AnswerIsFinal, TerminalStates
  <2>4. GapsAreBridged'
    <3>1. GivesUp(j) => j \in dropped
      BY <2>5, JobPollAssumption DEF GivesUp, MissingCount, Counted, RetryLimit
    <3> QED
      BY <1>4, <3>1 DEF ReadAnswer, Done, ResolveJobResult, GapsAreBridged
  <2> QED
    BY <2>1, <2>2, <2>3, <2>4
<1>5. CASE UNCHANGED vars
  BY <1>5 DEF vars, AnswerIsFinal, CountIsGap, Counted, OutcomeIsFinal, GapsAreBridged
<1> QED
  BY <1>1, <1>2, <1>3, <1>4, <1>5 DEF Next, Poll

\* call(..., job=True) returns a result only of a job that succeeded, and raises
\* the job's error only for one that failed or was aborted.
THEOREM JobOutcomeIsFinal == Spec => []OutcomeIsFinal
<1>1. JobInv => OutcomeIsFinal
  BY DEF JobInv
<1> QED
  BY JobInit, JobStep, <1>1, PTL DEF Spec

\* A job is given up as never appearing only when the server has dropped it, as
\* long as no gap of the server's list reaches _JOB_MISSING_RETRY_LIMIT polls.
THEOREM JobGapsAreBridged == Spec => []GapsAreBridged
<1>1. JobInv => GapsAreBridged
  BY DEF JobInv
<1> QED
  BY JobInit, JobStep, <1>1, PTL DEF Spec

-----------------------------------------------------------------------------
(* get_system_stats() *)

\* A call that closed the connection has ended with an error of its own.
CloserFailed == \A g \in closedBy : g \in Asked /\ fetch[g] \in {"timeout", "send failed"}

GraphsInv == GraphsTypeOK /\ CloserFailed /\ RootCauseRaised

LEMMA GraphsInitially == GraphsInit => GraphsInv
<1> SUFFICES ASSUME GraphsInit PROVE GraphsInv
  OBVIOUS
<1>1. partial \in BOOLEAN
  BY Zenon DEF GraphsInit
<1> QED
  BY <1>1, SystemGraphsAssumption
  DEF GraphsInit, GraphsInv, GraphsTypeOK, CloserFailed, RootCauseRaised, Cputemp, CallEnds,
      IsDisconnectSymptom

\* A set of graphs that is not empty has a first one in the order they were asked for.
LEMMA FirstIsMember ==
    ASSUME NEW S \in SUBSET Nat, S # {}
    PROVE  First(S) \in S
<1>1. PICK g \in S : \A h \in S : ~(<<h, g>> \in OpToRel(<, Nat))
  BY NatLessThanWellFounded, WFMin
<1>2. ASSUME NEW h \in S PROVE g <= h
  <2>1. <<h, g>> \in Nat \X Nat /\ <<h, g>>[1] = h /\ <<h, g>>[2] = g
    OBVIOUS
  <2>2. ~(h < g)
    BY <1>1, <2>1 DEF OpToRel
  <2> QED
    BY <2>2
<1> QED
  BY <1>2 DEF First

\* What is raised is the error of one of the calls.
LEMMA FetchTypes ==
    ASSUME GraphsTypeOK, FetchGraphs
    PROVE  statsOutcome' \in {"returned", "exception"} \cup CallEnds
<1> DEFINE failed == {g \in Asked : fetch[g] # "data" /\ ~IsAbsentOptionalGraph(g)}
           fatal == {g \in failed : partial => fetch[g] \notin PerGraphErrors}
<1>1. ASSUME NEW S \in SUBSET Asked, S # {} PROVE fetch[First(S)] \in CallEnds
  <2>1. S \in SUBSET Nat
    BY DEF Asked
  <2>2. First(S) \in Asked
    BY <1>1, <2>1, FirstIsMember
  <2> QED
    BY <2>2 DEF FetchGraphs
<1>2. fatal # {} => PrimaryError(fatal) \in CallEnds
  BY <1>1 DEF PrimaryError
<1>3. ReportableFailures(failed) \in {"returned"} \cup CallEnds
  BY <1>2 DEF ReportableFailures
<1> QED
  BY <1>3 DEF FetchGraphs

\* The step that decides what get_system_stats() ends with.
LEMMA FetchRaisesCause ==
    ASSUME GraphsTypeOK, CloserFailed, FetchGraphs
    PROVE  RootCauseRaised'
<1> DEFINE failed == {g \in Asked : fetch[g] # "data" /\ ~IsAbsentOptionalGraph(g)}
           fatal == {g \in failed : partial => fetch[g] \notin PerGraphErrors}
           own == {g \in fatal : ~IsDisconnectSymptom(fetch[g])}
<1>1. UNCHANGED <<graphCount, fetch, closedBy>>
  BY DEF FetchGraphs
<1>2. fatal \subseteq Nat /\ own \subseteq Nat
  BY DEF Asked
<1>3. closedBy \subseteq own
  BY DEF CloserFailed, PerGraphErrors, IsDisconnectSymptom, IsAbsentOptionalGraph
<1>4. CASE statsOutcome' = "exception"
  BY <1>4 DEF RootCauseRaised, IsDisconnectSymptom
<1>5. CASE fatal = {} /\ statsOutcome' = "returned"
  <2>1. closedBy' = {}
    BY <1>1, <1>3, <1>5
  <2>2. \A g \in Asked : fetch[g] \in {"data"} \cup PerGraphErrors
    BY <1>5 DEF IsAbsentOptionalGraph, PerGraphErrors
  <2> QED
    BY <1>1, <1>5, <2>1, <2>2 DEF RootCauseRaised, IsDisconnectSymptom, Asked
<1>6. CASE fatal # {} /\ statsOutcome' = PrimaryError(fatal)
  <2>1. CASE own = {}
    <3>1. closedBy' = {} /\ fetch[First(fatal)] # "returned"
      BY <1>1, <1>2, <1>3, <1>6, <2>1, FirstIsMember DEF FetchGraphs, CallEnds, PerGraphErrors
    <3>2. statsOutcome' = fetch[First(fatal)]
      BY <1>6, <2>1 DEF PrimaryError
    <3> QED
      BY <3>1, <3>2 DEF RootCauseRaised
  <2>2. CASE own # {}
    <3>1. First(own) \in own
      BY <1>2, <2>2, FirstIsMember
    <3>2. statsOutcome' = fetch[First(own)]
      BY <1>6, <2>2 DEF PrimaryError
    <3> QED
      BY <3>1, <3>2 DEF RootCauseRaised, FetchGraphs, CallEnds, PerGraphErrors
  <2> QED
    BY <2>1, <2>2
<1> QED
  BY <1>4, <1>5, <1>6 DEF FetchGraphs, ReportableFailures

\* A detach leaves calls that have ended as they are.
LEMMA DetachedCalls ==
    ASSUME GraphsTypeOK
    PROVE  /\ Detached \in [1..Cputemp -> {"unsent", "sent", "closing"} \cup CallEnds]
           /\ \A g \in 1..Cputemp : fetch[g] # "sent" => Detached[g] = fetch[g]
BY DEF GraphsTypeOK, Detached, CallEnds

\* While the calls are under way there is nothing to be said of the outcome.
LEMMA UnderWay == statsOutcome' = "none" => RootCauseRaised'
BY DEF RootCauseRaised, IsDisconnectSymptom

LEMMA GraphsStep == GraphsInv /\ [GraphsNext]_graphVars => GraphsInv'
<1> SUFFICES ASSUME GraphsTypeOK, CloserFailed, RootCauseRaised, [GraphsNext]_graphVars
             PROVE  GraphsTypeOK' /\ CloserFailed' /\ RootCauseRaised'
  BY DEF GraphsInv
<1> USE SystemGraphsAssumption
<1>0. Asked \subseteq 1..Cputemp
  BY DEF GraphsTypeOK, Asked, Cputemp
<1>1. ASSUME NEW g \in Asked, SendGraph(g) \/ NotConnected(g) \/ TimesOut(g)
      PROVE  GraphsTypeOK' /\ CloserFailed' /\ RootCauseRaised'
  <2>1. GraphsTypeOK'
    BY <1>0, <1>1 DEF SendGraph, NotConnected, TimesOut, GraphsTypeOK, CallEnds
  <2>2. CloserFailed'
    BY <1>0, <1>1 DEF SendGraph, NotConnected, TimesOut, Turn, GraphsTypeOK, CloserFailed, Asked
  <2> QED
    BY <1>1, <2>1, <2>2, UnderWay DEF SendGraph, NotConnected, TimesOut, Turn
<1>2. ASSUME NEW g \in Asked, SendFails(g) \/ CloseLink(g)
      PROVE  GraphsTypeOK' /\ CloserFailed' /\ RootCauseRaised'
  <2>1. GraphsTypeOK'
    <3>1. \/ fetch' \in {[Detached EXCEPT ![g] = "send failed"], [Detached EXCEPT ![g] = "timeout"]}
          \/ fetch' = [fetch EXCEPT ![g] = "timeout"]
      BY <1>2 DEF SendFails, CloseLink
    <3>2. fetch' \in [1..Cputemp -> {"unsent", "sent", "closing"} \cup CallEnds]
      BY <3>1, DetachedCalls DEF GraphsTypeOK, CallEnds
    <3>3. link' \in {link, 0} /\ closedBy' \in {closedBy, closedBy \cup {g}}
      BY <1>2 DEF SendFails, CloseLink
    <3>4. link' \in 0..MaxLinks /\ closedBy' \subseteq 1..Cputemp
      BY <1>0, <3>3 DEF GraphsTypeOK
    <3> QED
      BY <1>2, <3>2, <3>4 DEF SendFails, CloseLink, GraphsTypeOK
  <2>2. CloserFailed'
    BY <1>0, <1>2, DetachedCalls DEF SendFails, CloseLink, Turn, GraphsTypeOK, CloserFailed, Asked
  <2> QED
    BY <1>2, <2>1, <2>2, UnderWay DEF SendFails, CloseLink, Turn
<1>3. ASSUME NEW g \in Asked, NEW end \in PerGraphErrors \cup {"data", "exception"},
             GraphReply(g, end)
      PROVE  GraphsTypeOK' /\ CloserFailed' /\ RootCauseRaised'
  <2>1. GraphsTypeOK'
    BY <1>0, <1>3 DEF GraphReply, GraphsTypeOK, CallEnds
  <2>2. CloserFailed'
    BY <1>0, <1>3 DEF GraphReply, GraphsTypeOK, CloserFailed, Asked
  <2> QED
    BY <1>3, <2>1, <2>2, UnderWay DEF GraphReply
<1>4. CASE LinkLost \/ Relink
  <2>1. GraphsTypeOK'
    <3>1. link' \in 0..MaxLinks /\ links' \in 0..MaxLinks
      BY <1>4 DEF LinkLost, Relink, GraphsTypeOK
    <3>2. fetch' \in [1..Cputemp -> {"unsent", "sent", "closing"} \cup CallEnds]
      BY <1>4, DetachedCalls DEF LinkLost, Relink, GraphsTypeOK
    <3> QED
      BY <1>4, <3>1, <3>2 DEF LinkLost, Relink, GraphsTypeOK
  <2>2. CloserFailed'
    BY <1>0, <1>4, DetachedCalls DEF LinkLost, Relink, CloserFailed, Asked
  <2> QED
    BY <1>4, <2>1, <2>2, UnderWay DEF LinkLost, Relink
<1>5. CASE FetchGraphs
  <2>1. GraphsTypeOK' /\ CloserFailed'
    <3>1. statsOutcome' \in {"none", "returned", "cancelled"} \cup CallEnds
      BY <1>5, FetchTypes DEF CallEnds
    <3>2. UNCHANGED <<link, links, graphCount, partial, fetch, sentOn, closedBy>>
      BY <1>5 DEF FetchGraphs
    <3> QED
      BY <3>1, <3>2 DEF GraphsTypeOK, CloserFailed, Asked
  <2> QED
    BY <1>5, <2>1, FetchRaisesCause
<1>6. CASE CancelStats
  BY <1>6 DEF CancelStats, GraphsTypeOK, CloserFailed, Asked, RootCauseRaised, IsDisconnectSymptom
<1>7. CASE UNCHANGED graphVars
  BY <1>7 DEF graphVars, GraphsTypeOK, CloserFailed, Asked, RootCauseRaised
<1> QED
  BY <1>1, <1>2, <1>3, <1>4, <1>5, <1>6, <1>7 DEF GraphsNext

\* When one of its own calls closed the connection, get_system_stats() raises a cause
\* and never a mere symptom, and it never returns as if nothing had happened.
THEOREM GraphsRootCauseRaised == GraphsSpec => []RootCauseRaised
<1>1. GraphsInv => RootCauseRaised
  BY DEF GraphsInv
<1> QED
  BY GraphsInitially, GraphsStep, <1>1, PTL DEF GraphsSpec

-----------------------------------------------------------------------------
(* get_subscription_events() *)

\* No more is taken than was put, and a call under way has a subscription to read.
ReaderTypeOK ==
    /\ taken \in [Reqs -> Nat]
    /\ received \in [Reqs -> Seq(Messages)]
    /\ kpc \in [Readers -> {"idle", "lookup", "get"}]
    /\ rq \in [Readers -> Reqs \cup {None}]
    /\ \A r \in Reqs : taken[r] <= Len(feed[r])
    /\ \A k \in Readers : kpc[k] # "idle" => rq[k] \in Reqs

\* NothingLost needs FeedSound: were something put after the terminator, a call that
\* took the terminator would have to leave it there.
ReaderInv == FeedSound /\ ReaderTypeOK /\ NothingLost

LEMMA ReaderInvInit == ReaderInit => ReaderInv
<1> SUFFICES ASSUME ReaderInit PROVE ReaderInv
  OBVIOUS
<1>1. FeedSound
  BY FeedSoundInit DEF ReaderInit
<1>2. \A r \in Reqs : feed[r] = <<>> /\ taken[r] = 0 /\ received[r] = <<>>
  BY DEF ReaderInit, FeedInit
<1>3. ReaderTypeOK
  BY <1>2 DEF ReaderInit, ReaderTypeOK
<1>4. NothingLost
  <2>1. SubSeq(<<>>, 1, 0) = <<>>
    BY SubSeqEmpty
  <2>2. ASSUME NEW r \in Reqs PROVE EventsTaken(r) = 0
    <3>1. ~(taken[r] > 0)
      BY <1>2
    <3> QED
      BY <1>2, <3>1 DEF EventsTaken
  <2> QED
    BY <1>2, <2>1, <2>2 DEF NothingLost
<1> QED
  BY <1>1, <1>3, <1>4 DEF ReaderInv

LEMMA SamePrefix ==
    ASSUME NEW S, NEW s \in Seq(S), NEW t \in Seq(S), NEW n \in Nat, n <= Len(s), n <= Len(t),
           \A i \in 1..n : s[i] = t[i]
    PROVE  SubSeq(s, 1, n) = SubSeq(t, 1, n)
<1>1. \A i \in 1..n : s[i] \in S /\ t[i] \in S
  BY ElementOfSeq, LenProperties
<1>2. /\ SubSeq(s, 1, n) \in Seq(S) /\ Len(SubSeq(s, 1, n)) = n
      /\ \A i \in 1..n : SubSeq(s, 1, n)[i] = s[i]
  BY <1>1, SubSeqProperties
<1>3. /\ SubSeq(t, 1, n) \in Seq(S) /\ Len(SubSeq(t, 1, n)) = n
      /\ \A i \in 1..n : SubSeq(t, 1, n)[i] = t[i]
  BY <1>1, SubSeqProperties
<1> QED
  BY <1>2, <1>3, SeqEqual

\* What a queue holds, after the first n messages were taken out of it.
LEMMA RestOf ==
    ASSUME NEW S, NEW s \in Seq(S), NEW n \in Nat, n <= Len(s)
    PROVE  LET q == SubSeq(s, n + 1, Len(s))
           IN  /\ q \in Seq(S) /\ Len(q) = Len(s) - n
               /\ \A i \in 1..Len(q) : q[i] = s[n + i]
<1>1. Len(s) \in Nat /\ \A i \in (n + 1)..Len(s) : s[i] \in S
  BY ElementOfSeq, LenProperties
<1> QED
  BY <1>1, SubSeqProperties

\* Taking up to position m, from position n on.
LEMMA PrefixGrows ==
    ASSUME NEW S, NEW s \in Seq(S), NEW n \in Nat, NEW m \in Nat, n <= m, m <= Len(s)
    PROVE  SubSeq(s, 1, n) \o SubSeq(SubSeq(s, n + 1, Len(s)), 1, m - n) = SubSeq(s, 1, m)
<1> DEFINE q == SubSeq(s, n + 1, Len(s))
           p == SubSeq(s, 1, n)
           d == SubSeq(q, 1, m - n)
<1>0. Len(s) \in Nat /\ \A i \in 1..Len(s) : s[i] \in S
  BY ElementOfSeq, LenProperties
<1>1. q \in Seq(S) /\ Len(q) = Len(s) - n /\ \A i \in 1..Len(q) : q[i] = s[n + i]
  BY RestOf
<1>2. p \in Seq(S) /\ Len(p) = n /\ \A i \in 1..n : p[i] = s[i]
  BY <1>0, SubSeqProperties
<1>3. d \in Seq(S) /\ Len(d) = m - n /\ \A i \in 1..(m - n) : d[i] = s[n + i]
  <2> HIDE DEF q
  <2>1. m - n \in Int /\ \A i \in 1..(m - n) : i \in 1..Len(q) /\ q[i] \in S
    BY <1>0, <1>1, ElementOfSeq
  <2>2. /\ d \in Seq(S) /\ Len(d) = (IF 1 <= m - n THEN m - n - 1 + 1 ELSE 0)
        /\ \A i \in 1..(m - n - 1 + 1) : d[i] = q[1 + i - 1]
    BY <2>1, SubSeqProperties
  <2> QED
    BY <1>1, <2>1, <2>2
<1>4. SubSeq(s, 1, m) \in Seq(S) /\ Len(SubSeq(s, 1, m)) = m /\ \A i \in 1..m : SubSeq(s, 1, m)[i] = s[i]
  BY <1>0, SubSeqProperties
<1>5. /\ p \o d \in Seq(S) /\ Len(p \o d) = m
      /\ \A i \in 1..m : (p \o d)[i] = s[i]
  <2> HIDE DEF p, d
  <2>0. /\ p \o d \in Seq(S) /\ Len(p \o d) = Len(p) + Len(d)
        /\ \A i \in 1..(Len(p) + Len(d)) : (p \o d)[i] = IF i <= Len(p) THEN p[i] ELSE d[i - Len(p)]
    BY <1>2, <1>3, ConcatProperties
  <2>1. /\ p \o d \in Seq(S) /\ Len(p \o d) = m
        /\ \A i \in 1..m : (p \o d)[i] = IF i <= n THEN p[i] ELSE d[i - n]
    BY <1>2, <1>3, <2>0
  <2>2. ASSUME NEW i \in 1..m PROVE (p \o d)[i] = s[i]
    <3>1. CASE i <= n
      BY <1>2, <2>1, <3>1
    <3>2. CASE ~(i <= n)
      <4>1. i - n \in 1..(m - n) /\ n + (i - n) = i
        BY <3>2
      <4> QED
        BY <1>3, <2>1, <3>2, <4>1
    <3> QED
      BY <3>1, <3>2
  <2> QED
    BY <2>1, <2>2
<1> QED
  <2> HIDE DEF p, d
  <2>1. p \o d = SubSeq(s, 1, m)
    BY <1>4, <1>5, SeqEqual
  <2> QED
    BY <2>1 DEF p, d

-----------------------------------------------------------------------------

\* While something is left in a queue its terminator was not taken.
LEMMA MoreToTake ==
    ASSUME FeedSound, ReaderTypeOK, NEW r \in Reqs
    PROVE  /\ EventsTaken(r) \in Nat /\ EventsTaken(r) <= taken[r]
           /\ taken[r] < Len(feed[r]) => EventsTaken(r) = taken[r]
<1>1. taken[r] \in Nat /\ Len(feed[r]) \in Nat /\ taken[r] <= Len(feed[r])
  BY LenProperties DEF ReaderTypeOK, FeedSound, FeedTypeOK
<1>2. \A i \in 1..Len(feed[r]) : feed[r][i] = TERM => i = Len(feed[r])
  BY DEF FeedSound, NothingAfterTerminator
<1> QED
  BY <1>1, <1>2 DEF EventsTaken

\* A step that leaves the feed alone and takes the queue of r up to position m.
LEMMA TakesUpTo ==
    ASSUME ReaderInv, feed' = feed, NEW r \in Reqs, NEW m \in Nat,
           taken[r] < m, m <= Len(feed[r]), taken' = [taken EXCEPT ![r] = m],
           NEW n \in Nat, n = (IF feed[r][m] = TERM THEN m - 1 ELSE m),
           received' = [received EXCEPT ![r] =
                            @ \o SubSeq(SubSeq(feed[r], taken[r] + 1, Len(feed[r])), 1, n - taken[r])]
    PROVE  /\ taken' \in [Reqs -> Nat] /\ received' \in [Reqs -> Seq(Messages)]
           /\ \A x \in Reqs : taken'[x] <= Len(feed'[x])
           /\ NothingLost'
<1>0. FeedSound /\ ReaderTypeOK /\ NothingLost
  BY DEF ReaderInv
<1>1. /\ feed[r] \in Seq(Messages) /\ Len(feed[r]) \in Nat /\ taken[r] \in Nat
      /\ \A i \in 1..Len(feed[r]) : feed[r][i] \in Messages
  BY <1>0, LenProperties, ElementOfSeq DEF FeedSound, FeedTypeOK, ReaderTypeOK, Messages
<1>2. EventsTaken(r) = taken[r]
  BY <1>0, <1>1, MoreToTake
<1>3. received[r] = SubSeq(feed[r], 1, taken[r])
  BY <1>0, <1>2 DEF NothingLost
<1>4. n <= Len(feed[r]) /\ taken[r] <= n
  BY <1>1
<1>5. received'[r] = SubSeq(feed[r], 1, n)
  <2>1. received'[r] = SubSeq(feed[r], 1, taken[r])
                           \o SubSeq(SubSeq(feed[r], taken[r] + 1, Len(feed[r])), 1, n - taken[r])
    BY <1>0, <1>3 DEF ReaderTypeOK
  <2> QED
    BY <1>1, <1>4, <2>1, PrefixGrows
<1>6. SubSeq(feed[r], 1, n) \in Seq(Messages)
  BY <1>1, <1>4, SubSeqProperties
<1>7. \A x \in Reqs \ {r} : taken'[x] = taken[x] /\ received'[x] = received[x]
  BY <1>0 DEF ReaderTypeOK
<1>8. taken'[r] = m /\ EventsTaken(r)' = n
  BY <1>0, <1>1 DEF ReaderTypeOK, EventsTaken
<1>9. ASSUME NEW x \in Reqs PROVE received'[x] = SubSeq(feed'[x], 1, EventsTaken(x)')
  <2>1. CASE x = r
    BY <1>5, <1>8, <2>1
  <2>2. CASE x # r
    BY <1>0, <1>7, <2>2 DEF NothingLost, EventsTaken
  <2> QED
    BY <2>1, <2>2
<1>10. taken' \in [Reqs -> Nat] /\ received' \in [Reqs -> Seq(Messages)]
  BY <1>0, <1>5, <1>6 DEF ReaderTypeOK
<1>11. \A x \in Reqs : taken'[x] <= Len(feed'[x])
  BY <1>0, <1>7, <1>8 DEF ReaderTypeOK
<1> QED
  BY <1>9, <1>10, <1>11 DEF NothingLost

LEMMA Drained ==
    ASSUME ReaderInv, feed' = feed, NEW r \in Reqs, Drain(r)
    PROVE  /\ taken' \in [Reqs -> Nat] /\ received' \in [Reqs -> Seq(Messages)]
           /\ \A x \in Reqs : taken'[x] <= Len(feed'[x])
           /\ NothingLost'
<1> DEFINE q == Queued(r)
           ends == {i \in 1..Len(q) : q[i] = TERM}
           first == CHOOSE i \in ends : \A j \in ends : i <= j
<1>0. FeedSound /\ ReaderTypeOK /\ NothingLost
  BY DEF ReaderInv
<1>1. /\ feed[r] \in Seq(Messages) /\ Len(feed[r]) \in Nat /\ taken[r] \in Nat
      /\ taken[r] <= Len(feed[r]) /\ received[r] \in Seq(Messages)
  BY <1>0, LenProperties DEF FeedSound, FeedTypeOK, ReaderTypeOK, Messages
<1>2. q \in Seq(Messages) /\ Len(q) = Len(feed[r]) - taken[r] /\ \A i \in 1..Len(q) : q[i] = feed[r][taken[r] + i]
  BY <1>1, RestOf DEF Queued
<1>3. \A i \in 1..Len(feed[r]) : feed[r][i] = TERM => i = Len(feed[r])
  BY <1>0 DEF FeedSound, NothingAfterTerminator
<1> HIDE DEF q
<1>4. CASE Len(q) = 0
  <2>1. ends = {} /\ q = <<>>
    BY <1>2, <1>4, EmptySeq
  <2>2. taken' = [taken EXCEPT ![r] = @ + Len(q)] /\ received' = [received EXCEPT ![r] = @ \o q]
    BY <2>1 DEF Drain, q
  <2>3. taken' = taken
    BY <1>0, <1>1, <1>4, <2>2 DEF ReaderTypeOK
  <2>4. received[r] \o q = received[r]
    BY <1>1, <2>1, ConcatEmptySeq
  <2>5. received' = received
    BY <1>0, <2>2, <2>4 DEF ReaderTypeOK
  <2> QED
    BY <1>0, <2>3, <2>5 DEF ReaderTypeOK, NothingLost, EventsTaken
<1>5. CASE Len(q) # 0 /\ ends = {}
  <2>1. taken' = [taken EXCEPT ![r] = Len(feed[r])] /\ received' = [received EXCEPT ![r] = @ \o q]
    BY <1>0, <1>1, <1>2, <1>5 DEF Drain, q, ReaderTypeOK
  <2>2. feed[r][Len(feed[r])] # TERM
    <3>1. Len(q) \in 1..Len(q) /\ taken[r] + Len(q) = Len(feed[r])
      BY <1>1, <1>2, <1>5
    <3>2. q[Len(q)] # TERM
      BY <1>5, <3>1
    <3> QED
      BY <1>2, <3>1, <3>2
  <2>3. q = SubSeq(q, 1, Len(feed[r]) - taken[r])
    BY <1>2, SubSeqFull
  <2>4. taken[r] < Len(feed[r])
    BY <1>1, <1>2, <1>5
  <2>5. received' = [received EXCEPT ![r] =
                        @ \o SubSeq(SubSeq(feed[r], taken[r] + 1, Len(feed[r])), 1, Len(feed[r]) - taken[r])]
    BY <2>1, <2>3 DEF q, Queued
  <2>6. Len(feed[r]) = (IF feed[r][Len(feed[r])] = TERM THEN Len(feed[r]) - 1 ELSE Len(feed[r]))
    BY <2>2
  <2>7. taken' = [taken EXCEPT ![r] = Len(feed[r])] /\ Len(feed[r]) <= Len(feed[r])
    BY <1>1, <2>1
  <2> QED
    BY <1>1, <2>4, <2>5, <2>6, <2>7, TakesUpTo
<1>6. CASE ends # {}
  <2>1. ends = {Len(q)} /\ Len(q) # 0
    <3>1. ASSUME NEW i \in ends PROVE i = Len(q)
      <4>1. i \in 1..Len(q) /\ q[i] = TERM
        OBVIOUS
      <4>2. taken[r] + i \in 1..Len(feed[r]) /\ feed[r][taken[r] + i] = TERM
        BY <1>1, <1>2, <4>1
      <4>3. taken[r] + i = Len(feed[r])
        BY <1>3, <4>2
      <4> QED
        BY <1>1, <1>2, <4>1, <4>3
    <3>2. PICK i \in ends : TRUE
      BY <1>6
    <3> QED
      BY <1>1, <1>2, <3>1, <3>2
  <2>2. first = Len(q)
    BY <1>1, <1>2, <2>1
  <2>3. /\ taken' = [taken EXCEPT ![r] = @ + first]
        /\ received' = [received EXCEPT ![r] = @ \o SubSeq(q, 1, first - 1)]
    BY <1>6 DEF Drain, q
  <2>4. taken' = [taken EXCEPT ![r] = Len(feed[r])]
    <3> HIDE DEF first
    <3>1. taken[r] + first = Len(feed[r])
      BY <1>1, <1>2, <2>2
    <3> QED
      BY <1>0, <2>3, <3>1 DEF ReaderTypeOK
  <2>5. feed[r][Len(feed[r])] = TERM
    BY <1>1, <1>2, <2>1
  <2>6. taken[r] < Len(feed[r]) /\ first - 1 = (Len(feed[r]) - 1) - taken[r]
    BY <1>1, <1>2, <2>1, <2>2
  <2>7. received' = [received EXCEPT ![r] =
                        @ \o SubSeq(SubSeq(feed[r], taken[r] + 1, Len(feed[r])), 1,
                                    (Len(feed[r]) - 1) - taken[r])]
    BY <2>3, <2>6 DEF q, Queued
  <2>8. Len(feed[r]) - 1 = (IF feed[r][Len(feed[r])] = TERM THEN Len(feed[r]) - 1 ELSE Len(feed[r]))
    BY <2>5
  <2>9. Len(feed[r]) - 1 \in Nat /\ Len(feed[r]) <= Len(feed[r])
    BY <1>1, <2>6
  <2> QED
    BY <1>1, <2>4, <2>6, <2>7, <2>8, <2>9, TakesUpTo
<1> QED
  BY <1>4, <1>5, <1>6

\* The program takes the next message itself.
LEMMA RawTaken ==
    ASSUME ReaderInv, NEW r \in Reqs, RawGet(r)
    PROVE  /\ taken' \in [Reqs -> Nat] /\ received' \in [Reqs -> Seq(Messages)]
           /\ \A x \in Reqs : taken'[x] <= Len(feed'[x])
           /\ NothingLost'
<1> DEFINE q == Queued(r)
           n == IF Head(q) = TERM THEN taken[r] ELSE taken[r] + 1
<1>0. FeedSound /\ ReaderTypeOK /\ NothingLost
  BY DEF ReaderInv
<1>1. /\ feed[r] \in Seq(Messages) /\ Len(feed[r]) \in Nat /\ taken[r] \in Nat
      /\ taken[r] <= Len(feed[r]) /\ received[r] \in Seq(Messages)
  BY <1>0, LenProperties DEF FeedSound, FeedTypeOK, ReaderTypeOK, Messages
<1>2. q \in Seq(Messages) /\ Len(q) = Len(feed[r]) - taken[r] /\ \A i \in 1..Len(q) : q[i] = feed[r][taken[r] + i]
  BY <1>1, RestOf DEF Queued
<1>3. /\ feed' = feed /\ q # <<>> /\ taken' = [taken EXCEPT ![r] = taken[r] + 1]
      /\ Head(q) = TERM => received' = received
      /\ Head(q) # TERM => received' = [received EXCEPT ![r] = Append(received[r], Head(q))]
  BY DEF RawGet, feedVars
<1> HIDE DEF q
<1>4. Len(q) \in Nat \ {0} /\ Head(q) = feed[r][taken[r] + 1] /\ Head(q) \in Messages
  <2>1. Len(q) \in Nat \ {0}
    BY <1>2, <1>3, EmptySeq
  <2>2. Head(q) = q[1] /\ Head(q) \in Messages
    BY <1>2, <1>3, HeadTailProperties
  <2> QED
    BY <1>2, <2>1, <2>2
<1>5. received' = [received EXCEPT ![r] = received[r] \o SubSeq(q, 1, n - taken[r])]
  <2>1. CASE Head(q) = TERM
    <3>1. n - taken[r] = 0
      BY <1>1, <2>1
    <3>2. SubSeq(q, 1, 0) = <<>>
      BY SubSeqEmpty
    <3>3. received[r] \o SubSeq(q, 1, n - taken[r]) = received[r]
      BY <1>1, <3>1, <3>2, ConcatEmptySeq
    <3> QED
      BY <1>0, <1>3, <2>1, <3>3 DEF ReaderTypeOK
  <2>2. CASE Head(q) # TERM
    <3>1. n - taken[r] = 1
      BY <1>1, <2>2
    <3>2. SubSeq(q, 1, 1) = <<Head(q)>>
      <4>1. 1 \in 1..Len(q) /\ q[1] = Head(q) /\ q[1] \in Messages
        BY <1>2, <1>4
      <4>2. SubSeq(q, 1, 1) \in Seq(Messages) /\ Len(SubSeq(q, 1, 1)) = 1 /\ SubSeq(q, 1, 1)[1] = q[1]
        BY <4>1, SubSeqProperties
      <4>3. <<Head(q)>> \in Seq(Messages) /\ Len(<<Head(q)>>) = 1 /\ <<Head(q)>>[1] = Head(q)
        BY <1>4
      <4>4. \A i \in 1..1 : SubSeq(q, 1, 1)[i] = <<Head(q)>>[i]
        BY <4>1, <4>2, <4>3
      <4> HIDE DEF q
      <4> QED
        BY <4>2, <4>3, <4>4, SeqEqual
    <3>3. received[r] \o SubSeq(q, 1, n - taken[r]) = Append(received[r], Head(q))
      BY <1>1, <1>4, <3>1, <3>2, AppendIsConcat
    <3> QED
      BY <1>3, <2>2, <3>3
  <2> QED
    BY <2>1, <2>2
<1>6. n \in Nat /\ n = (IF feed[r][taken[r] + 1] = TERM THEN (taken[r] + 1) - 1 ELSE taken[r] + 1)
  BY <1>1, <1>4
<1>7. taken[r] + 1 \in Nat /\ taken[r] < taken[r] + 1 /\ taken[r] + 1 <= Len(feed[r])
  BY <1>1, <1>2, <1>4
<1> HIDE DEF n
<1> QED
  BY <1>3, <1>5, <1>6, <1>7, TakesUpTo DEF q, Queued

\* What the client's other tasks do only adds to the queues.
LEMMA FeedGrows ==
    ASSUME FeedTypeOK, [FeedNext]_feedVars, NEW r \in Reqs
    PROVE  /\ Len(feed[r]) \in Nat /\ Len(feed'[r]) \in Nat /\ Len(feed[r]) <= Len(feed'[r])
           /\ \A i \in 1..Len(feed[r]) : feed'[r][i] = feed[r][i]
<1>1. feed[r] \in Seq(Messages) /\ Len(feed[r]) \in Nat
  BY LenProperties DEF FeedTypeOK, Messages
<1>2. CASE feed' = feed
  BY <1>1, <1>2
<1>3. ASSUME NEW R \in SUBSET Reqs, NEW m \in Messages, Put(R, m)
      PROVE  /\ Len(feed'[r]) \in Nat /\ Len(feed[r]) <= Len(feed'[r])
             /\ \A i \in 1..Len(feed[r]) : feed'[r][i] = feed[r][i]
  <2>1. Grown(R, m)
    BY <1>3, AfterPut
  <2> QED
    BY <1>1, <2>1 DEF Grown
<1>4. feed' = feed \/ \E R \in SUBSET Reqs, m \in Messages : Put(R, m)
  BY DEF FeedNext, feedVars, Request, Track, Return, Abandon, Deliver, End, Messages
<1> QED
  BY <1>1, <1>2, <1>3, <1>4

LEMMA ReaderInvStep == ReaderInv /\ [ReaderNext]_readerVars => ReaderInv'
<1> SUFFICES ASSUME ReaderInv, [ReaderNext]_readerVars PROVE ReaderInv'
  OBVIOUS
<1>0. FeedSound /\ ReaderTypeOK /\ NothingLost
  BY DEF ReaderInv
<1>1. CASE Environment
  <2>1. FeedSound' /\ [FeedNext]_feedVars /\ UNCHANGED <<taken, received, kpc, rq>>
    BY <1>0, <1>1, FeedSoundStep DEF Environment, calls
  <2>2. ASSUME NEW r \in Reqs
        PROVE  taken'[r] <= Len(feed'[r]) /\ received'[r] = SubSeq(feed'[r], 1, EventsTaken(r)')
    <3>1. /\ Len(feed[r]) \in Nat /\ Len(feed'[r]) \in Nat /\ Len(feed[r]) <= Len(feed'[r])
          /\ \A i \in 1..Len(feed[r]) : feed'[r][i] = feed[r][i]
      BY <1>0, <2>1, FeedGrows DEF FeedSound
    <3>2. taken[r] \in Nat /\ taken[r] <= Len(feed[r])
      BY <1>0 DEF ReaderTypeOK
    <3>3. EventsTaken(r)' = EventsTaken(r)
      BY <2>1, <3>1, <3>2 DEF EventsTaken
    <3>4. EventsTaken(r) \in Nat /\ EventsTaken(r) <= taken[r]
      BY <1>0, MoreToTake
    <3>5. feed[r] \in Seq(Messages) /\ feed'[r] \in Seq(Messages)
      BY <1>0, <2>1 DEF FeedSound, FeedTypeOK, Messages
    <3>6. SubSeq(feed[r], 1, EventsTaken(r)) = SubSeq(feed'[r], 1, EventsTaken(r))
      BY <3>1, <3>2, <3>4, <3>5, SamePrefix
    <3>7. taken'[r] <= Len(feed'[r])
      BY <2>1, <3>1, <3>2
    <3>8. received'[r] = SubSeq(feed[r], 1, EventsTaken(r))
      BY <1>0, <2>1 DEF NothingLost
    <3> QED
      BY <3>3, <3>6, <3>7, <3>8
  <2> QED
    BY <1>0, <2>1, <2>2 DEF ReaderInv, ReaderTypeOK, NothingLost
<1>2. ASSUME UNCHANGED <<feedVars, taken, received>>,
             kpc' \in [Readers -> {"idle", "lookup", "get"}], rq' \in [Readers -> Reqs \cup {None}],
             \A k \in Readers : kpc'[k] # "idle" => rq'[k] \in Reqs
      PROVE  ReaderInv'
  <2>1. FeedSound'
    BY <1>0, <1>2, FeedSoundStep
  <2> QED
    BY <1>0, <1>2, <2>1 DEF feedVars, ReaderInv, ReaderTypeOK, NothingLost, EventsTaken
<1>3. ASSUME NEW k \in Readers, Leave(k)
      PROVE  /\ kpc' \in [Readers -> {"idle", "lookup", "get"}] /\ rq' \in [Readers -> Reqs \cup {None}]
             /\ \A j \in Readers : kpc'[j] # "idle" => rq'[j] \in Reqs
  BY <1>0, <1>3 DEF Leave, ReaderTypeOK
<1>4. ASSUME UNCHANGED feedVars,
             /\ taken' \in [Reqs -> Nat] /\ received' \in [Reqs -> Seq(Messages)]
             /\ \A x \in Reqs : taken'[x] <= Len(feed'[x])
             /\ NothingLost',
             kpc' \in [Readers -> {"idle", "lookup", "get"}], rq' \in [Readers -> Reqs \cup {None}],
             \A k \in Readers : kpc'[k] # "idle" => rq'[k] \in Reqs
      PROVE  ReaderInv'
  BY <1>0, <1>4, FeedSoundStep DEF ReaderInv, ReaderTypeOK
<1>5. ASSUME NEW k \in Readers, NEW r \in Reqs, NEW w \in BOOLEAN, GetEvents(k, r, w) PROVE ReaderInv'
  BY <1>0, <1>2, <1>5 DEF GetEvents, ReaderTypeOK
<1>6. ASSUME NEW k \in Readers, Drain(rq[k]), Leave(k), UNCHANGED feedVars, kpc[k] # "idle"
      PROVE  ReaderInv'
  <2>1. rq[k] \in Reqs /\ feed' = feed
    BY <1>0, <1>6 DEF ReaderTypeOK, feedVars
  <2>2. /\ taken' \in [Reqs -> Nat] /\ received' \in [Reqs -> Seq(Messages)]
        /\ \A x \in Reqs : taken'[x] <= Len(feed'[x])
        /\ NothingLost'
    BY <1>6, <2>1, Drained
  <2> QED
    BY <1>3, <1>4, <1>6, <2>2
<1>7. ASSUME NEW k \in Readers, Lookup(k) PROVE ReaderInv'
  <2>1. CASE waits[k] /\ rq[k] \in open
    BY <1>0, <1>2, <1>7, <2>1 DEF Lookup, ReaderTypeOK
  <2>2. CASE rq[k] \notin open
    BY <1>2, <1>3, <1>7, <2>2 DEF Lookup
  <2>3. CASE ~waits[k] /\ rq[k] \in open
    BY <1>6, <1>7, <2>3 DEF Lookup
  <2> QED
    BY <2>1, <2>2, <2>3
<1>8. ASSUME NEW k \in Readers, Get(k) PROVE ReaderInv'
  BY <1>6, <1>8 DEF Get
<1>9. ASSUME NEW k \in Readers, GetTimeout(k) \/ LookupCancelled(k) PROVE ReaderInv'
  BY <1>2, <1>3, <1>9 DEF GetTimeout, LookupCancelled
<1>10. ASSUME NEW r \in Reqs, RawStart(r) PROVE ReaderInv'
  BY <1>0, <1>2, <1>10 DEF RawStart, calls, ReaderTypeOK
<1>11. ASSUME NEW r \in Reqs, RawGet(r) PROVE ReaderInv'
  <2>1. /\ taken' \in [Reqs -> Nat] /\ received' \in [Reqs -> Seq(Messages)]
        /\ \A x \in Reqs : taken'[x] <= Len(feed'[x])
        /\ NothingLost'
    BY <1>11, RawTaken
  <2> QED
    BY <1>0, <1>4, <1>11, <2>1 DEF RawGet, calls, ReaderTypeOK
<1>12. CASE UNCHANGED readerVars
  BY <1>0, <1>2, <1>12 DEF readerVars, calls, ReaderTypeOK
<1> QED
  BY <1>1, <1>5, <1>7, <1>8, <1>9, <1>10, <1>11, <1>12 DEF ReaderNext

\* Whoever reads a queue, by its id or directly, and however calls are timed out or
\* cancelled: the messages taken out of it reach the program once and in order.
THEOREM ReaderLosesNothing == ReaderSpec => []NothingLost
<1>1. ReaderSpec => []ReaderInv
  BY ReaderInvInit, ReaderInvStep, PTL DEF ReaderSpec
<1>2. ReaderInv => NothingLost
  BY DEF ReaderInv
<1> QED
  BY <1>1, <1>2, PTL
=============================================================================
