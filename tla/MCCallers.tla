------------------------------ MODULE MCCallers ------------------------------
(***************************************************************************)
(* Three users of the client for TLC: _wait_for_job(), the gathered graphs *)
(* of get_system_stats() and get_subscription_events().  They share        *)
(* nothing, so it is enough that one moves and the others rest.  Nor do    *)
(* the waits for two jobs: one job is enough.                              *)
(***************************************************************************)
EXTENDS JobPoll, SystemGraphs, SubscriptionReader

VARIABLE part   \* the user that moves

CallerVars == <<part, vars, graphVars, readerVars>>

CallerInit ==
    /\ part \in {"job", "graphs", "readers"}
    /\ Init /\ GraphsInit /\ ReaderInit
    /\ part # "graphs" => graphCount = Cputemp /\ ~partial

CallerNext ==
    /\ \/ part = "job" /\ Next /\ UNCHANGED <<graphVars, readerVars>>
       \/ part = "graphs" /\ GraphsNext /\ UNCHANGED <<vars, readerVars>>
       \/ part = "readers" /\ ReaderNext /\ UNCHANGED <<vars, graphVars>>
    /\ UNCHANGED part

\* Fairness is that of JobPoll, where the job moves, and of SubscriptionReader: readers
\* that rest have nothing to do.
CallerSpec ==
    /\ CallerInit /\ [][CallerNext]_CallerVars
    /\ \A j \in Jobs :
           WF_vars(part = "job" /\ Poll(j) /\ UNCHANGED <<part, graphVars, readerVars>>)
    /\ ReaderFairness
=============================================================================
