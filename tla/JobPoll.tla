------------------------------- MODULE JobPoll -------------------------------
(***************************************************************************)
(* call(..., job=True) of client.py: _wait_for_job polls core.get_jobs     *)
(* until the job ends, while the server runs the job, lists it late, or    *)
(* drops it from its list.  The calls it makes are those of Client, seen   *)
(* from outside: an answer, or an exception.                               *)
(***************************************************************************)
EXTENDS Naturals

CONSTANTS
    Jobs,       \* the jobs, each awaited by one task
    MaxGap      \* how many polls in a row the server may leave a job out

RetryLimit == 5          \* _JOB_MISSING_RETRY_LIMIT

\* Left out longer, a job counts as dropped.
ASSUME JobPollAssumption == MaxGap \in 0..(RetryLimit - 1)

TerminalStates == {"SUCCESS", "FAILED", "ABORTED"}
\* What the server may answer to core.get_jobs: no job, its state, or no list of jobs.
Answers == {"missing", "WAITING", "RUNNING", "junk"} \cup TerminalStates

VARIABLES
    job,      \* the state of each job on the server
    dropped,  \* the jobs the server has removed from its list
    gap,      \* the polls in a row, up to now, whose answer left a listed job out
    pc,       \* where _wait_for_job is
    answer,   \* the answer on its way to the task
    missing,  \* missing_count
    outcome   \* what call() returned or raised

vars == <<job, dropped, gap, pc, answer, missing, outcome>>

Outcomes == {"none", "result", "job error", "never appeared", "malformed id", "malformed answer",
             "call error"}

TypeOK ==
    /\ job \in [Jobs -> {"WAITING", "RUNNING"} \cup TerminalStates]
    /\ dropped \subseteq Jobs
    /\ gap \in [Jobs -> 0..MaxGap]
    /\ pc \in [Jobs -> {"start", "poll", "answered", "sleep", "done"}]
    /\ answer \in [Jobs -> Answers]
    /\ missing \in [Jobs -> 0..RetryLimit]
    /\ outcome \in [Jobs -> Outcomes]

Init ==
    /\ job = [j \in Jobs |-> "WAITING"]
    /\ dropped = {}
    /\ gap = [j \in Jobs |-> 0]
    /\ pc = [j \in Jobs |-> "start"]
    /\ answer = [j \in Jobs |-> "missing"]
    /\ missing = [j \in Jobs |-> 0]
    /\ outcome = [j \in Jobs |-> "none"]

Done(j, o) ==
    /\ pc' = [pc EXCEPT ![j] = "done"]
    /\ outcome' = [outcome EXCEPT ![j] = o]

-----------------------------------------------------------------------------
(* The server *)

RunJob(j) ==
    /\ job[j] = "WAITING" /\ job' = [job EXCEPT ![j] = "RUNNING"]
    /\ UNCHANGED <<dropped, gap, pc, answer, missing, outcome>>

EndJob(j) ==
    /\ job[j] \notin TerminalStates
    /\ \E s \in TerminalStates : job' = [job EXCEPT ![j] = s]
    /\ UNCHANGED <<dropped, gap, pc, answer, missing, outcome>>

\* The record of the job is removed, or was never there.
DropJob(j) ==
    /\ dropped' = dropped \cup {j}
    /\ UNCHANGED <<job, gap, pc, answer, missing, outcome>>

\* The answer says what holds now, if anything; it is read later.
Answer(j) ==
    /\ pc[j] = "poll"
    /\ \/ /\ j \notin dropped
          /\ answer' = [answer EXCEPT ![j] = job[j]]
          /\ gap' = [gap EXCEPT ![j] = 0]
       \/ /\ j \notin dropped /\ gap[j] < MaxGap
          /\ answer' = [answer EXCEPT ![j] = "missing"]
          /\ gap' = [gap EXCEPT ![j] = @ + 1]
       \/ /\ j \in dropped
          /\ answer' = [answer EXCEPT ![j] = "missing"]
          /\ UNCHANGED gap
       \/ answer' = [answer EXCEPT ![j] = "junk"] /\ UNCHANGED gap
    /\ pc' = [pc EXCEPT ![j] = "answered"]
    /\ UNCHANGED <<job, dropped, missing, outcome>>

-----------------------------------------------------------------------------
(* _wait_for_job() *)

\* The result of the call is a job id, or something else.
Begin(j) ==
    /\ pc[j] = "start"
    /\ \/ pc' = [pc EXCEPT ![j] = "poll"] /\ UNCHANGED outcome
       \/ Done(j, "malformed id")
    /\ UNCHANGED <<job, dropped, gap, answer, missing>>

\* The poll raises: a lost connection, a timeout, an error reply.
CallError(j) ==
    /\ pc[j] = "poll"
    /\ Done(j, "call error")
    /\ UNCHANGED <<job, dropped, gap, answer, missing>>

\* Definitions named Fault... are faulty variants of the definition they precede.
FaultMissingCount(j) == IF answer[j] = "missing" THEN missing[j] + 1 ELSE missing[j]
FaultMissingStays(j) == 0
\* missing_count after this answer.
MissingCount(j) == IF answer[j] = "missing" THEN missing[j] + 1 ELSE 0

GivesUp(j) == answer[j] = "missing" /\ MissingCount(j) >= RetryLimit

FaultResolve(s) == "result"
\* _resolve_job_result: what a job that ended in state s gives its caller.
ResolveJobResult(s) == IF s = "SUCCESS" THEN "result" ELSE "job error"

JobEnded(j) == answer[j] \in TerminalStates

\* An answer that is no list of jobs raises where it is looked into.
ReadAnswer(j) ==
    /\ pc[j] = "answered"
    /\ missing' = [missing EXCEPT ![j] = MissingCount(j)]
    /\ \/ JobEnded(j) /\ Done(j, ResolveJobResult(answer[j]))
       \/ GivesUp(j) /\ Done(j, "never appeared")
       \/ answer[j] = "junk" /\ Done(j, "malformed answer")
       \/ /\ ~JobEnded(j) /\ ~GivesUp(j) /\ answer[j] # "junk"
          /\ pc' = [pc EXCEPT ![j] = "sleep"]
          /\ UNCHANGED outcome
    /\ UNCHANGED <<job, dropped, gap, answer>>

\* asyncio.sleep(_JOB_POLL_INTERVAL) ends.
Wake(j) ==
    /\ pc[j] = "sleep"
    /\ pc' = [pc EXCEPT ![j] = "poll"]
    /\ UNCHANGED <<job, dropped, gap, answer, missing, outcome>>

Poll(j) == Begin(j) \/ Answer(j) \/ ReadAnswer(j) \/ Wake(j)
Next == \E j \in Jobs : RunJob(j) \/ EndJob(j) \/ DropJob(j) \/ CallError(j) \/ Poll(j)

Spec == Init /\ [][Next]_vars

-----------------------------------------------------------------------------

\* What the caller learns of a job is how the job ended, never an intermediate
\* state: a result only of a success, the job's error only of a failure.
OutcomeIsFinal ==
    \A j \in Jobs :
        /\ outcome[j] = "result" => job[j] = "SUCCESS"
        /\ outcome[j] = "job error" => job[j] \in {"FAILED", "ABORTED"}

\* A job is reported as missing only if the server dropped it: answers that
\* leave it out for a while are bridged, however many there are in total.
GapsAreBridged == \A j \in Jobs : outcome[j] = "never appeared" => j \in dropped

-----------------------------------------------------------------------------

\* Calls are answered or time out (EveryCallEnds of Client) and sleeps end.
\* Nothing is assumed of the job or of the server's list.
Fairness == \A j \in Jobs : WF_vars(Poll(j))
FairSpec == Spec /\ Fairness

\* Waiting for a job ends once the job has ended or was dropped; the loop has no
\* timeout of its own, so a job that runs on is awaited for ever.
WaitEnds ==
    \A j \in Jobs : (job[j] \in TerminalStates \/ j \in dropped) ~> (pc[j] = "done")
=============================================================================
