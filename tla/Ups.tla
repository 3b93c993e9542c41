---------------------------------- MODULE Ups ----------------------------------
(***************************************************************************)
(* get_ups() of TrueNASState (domain/state.py): it discovers which UPS     *)
(* graphs the server has, queries them concurrently and publishes the      *)
(* readings; what could not be read keeps its previous value and is listed *)
(* in ups_stale_graphs.                                                    *)
(*                                                                         *)
(* A reading is represented by the number of the call that took it, 0 when *)
(* its field is absent.  A consumer may look at ds["ups"],                 *)
(* ups_stale_graphs and stale_endpoints between any two actions.           *)
(***************************************************************************)
EXTENDS Naturals

CONSTANTS
    Graphs,    \* _UPS_GRAPHS; each feeds a field of its own
    MaxCalls   \* bound on the get_ups() calls of a behaviour

ASSUME UpsAssumption == MaxCalls \in Nat

Calls == 0..MaxCalls

VARIABLES
    ups,        \* ds["ups"]: which call read each field
    stale,      \* _ups_stale_graphs
    discoveryFailing, \* _KEY_UPS_NETDATA_GRAPHS is in _fallback_failing
    failing,    \* the graphs whose ups_graph: key is in _fallback_failing
    pc,         \* "idle", "discover", "query"
    available,  \* the graphs the call in flight discovered
    calls,      \* how many calls there were
    last,       \* the last call that returned
    discovered, \* the graphs of the last discovery that succeeded
    outcome     \* per graph, how its last query that was looked at ended

vars == <<ups, stale, discoveryFailing, failing, pc, available, calls, last,
          discovered, outcome>>

\* What a graph's query may end with: a reading, a recognized but empty series, a
\* malformed payload, a TrueNASError, another exception.
Results == {"reading", "empty", "malformed", "error", "exception"}

TypeOK ==
    /\ ups \in [Graphs -> Calls]
    /\ stale \subseteq Graphs /\ failing \subseteq Graphs
    /\ available \subseteq Graphs /\ discovered \subseteq Graphs
    /\ discoveryFailing \in BOOLEAN
    /\ pc \in {"idle", "discover", "query"}
    /\ calls \in Calls /\ last \in Calls
    /\ outcome \in [Graphs -> Results \cup {"none"}]

Init ==
    /\ ups = [g \in Graphs |-> 0]
    /\ stale = {} /\ failing = {} /\ discoveryFailing = FALSE
    /\ pc = "idle" /\ available = {}
    /\ calls = 0 /\ last = 0
    /\ discovered = {} /\ outcome = [g \in Graphs |-> "none"]

-----------------------------------------------------------------------------

\* Definitions named Fault... are faulty variants of the definition they precede.

\* stale_endpoints, as far as it is about "ups".
StaleEndpoint == discoveryFailing \/ stale # {}

\* get_ups() got the lock and asks for the graphs.
GetUps ==
    /\ pc = "idle" /\ calls < MaxCalls
    /\ pc' = "discover"
    /\ calls' = calls + 1
    /\ UNCHANGED <<ups, stale, discoveryFailing, failing, available, last, discovered,
                   outcome>>

FaultAllCachedUpsGraphs == stale
AllCachedUpsGraphs == {g \in Graphs : ups[g] # 0}

\* reporting.netdata_graphs failed or returned no list.
DiscoveryFails ==
    /\ pc = "discover"
    /\ discoveryFailing' = TRUE
    /\ stale' = AllCachedUpsGraphs
    /\ pc' = "idle"
    /\ last' = calls
    /\ UNCHANGED <<ups, failing, available, calls, discovered, outcome>>

FaultStillFailing(found) == failing
\* The keys of graphs that are gone are dropped.
StillFailing(found) == failing \cap found

Discover(found) ==
    /\ pc = "discover"
    /\ discoveryFailing' = FALSE
    /\ failing' = StillFailing(found)
    /\ discovered' = found
    /\ outcome' = [g \in Graphs |-> IF g \in found THEN outcome[g] ELSE "none"]
    /\ \/ /\ found = {}
          /\ ups' = [g \in Graphs |-> 0]
          /\ stale' = {}
          /\ pc' = "idle"
          /\ last' = calls
          /\ UNCHANGED available
       \/ /\ found # {}
          /\ pc' = "query"
          /\ available' = found
          /\ UNCHANGED <<ups, stale, last>>
    /\ UNCHANGED calls

\* _apply_ups_graph_result: the outcomes it notes as failed.
Fails(result) == result \in {"error", "malformed"}

\* It was applied to the results of the graphs in S.
ApplyResults(S, results) ==
    /\ failing' = (failing \ S) \cup {g \in S : Fails(results[g])}
    /\ outcome' = [g \in Graphs |-> IF g \in S THEN results[g] ELSE outcome[g]]

FaultStaleOf(missed) == missed
\* A graph without a reading is stale if it has a previous one.
StaleOf(missed) == {g \in missed : ups[g] # 0}

\* Every query of the call ended; the readings are merged and published.
Publish(results) ==
    /\ pc = "query"
    /\ \A g \in available : results[g] # "exception"
    /\ ApplyResults(available, results)
    /\ ups' = [g \in Graphs |-> IF g \notin available THEN 0
                                ELSE IF results[g] = "reading" THEN calls ELSE ups[g]]
    /\ stale' = StaleOf({g \in available : results[g] # "reading"})
    /\ pc' = "idle" /\ available' = {}
    /\ last' = calls
    /\ UNCHANGED <<discoveryFailing, calls, discovered>>

\* One query ended with another exception, which is raised when its turn comes;
\* the results before it have been noted, nothing is published.
RaiseResult(results) ==
    /\ pc = "query"
    /\ \E bad \in available : results[bad] = "exception"
    /\ \E done \in SUBSET {g \in available : results[g] # "exception"} :
           ApplyResults(done, results)
    /\ pc' = "idle" /\ available' = {}
    /\ UNCHANGED <<ups, stale, discoveryFailing, calls, last, discovered>>

\* The call was cancelled at one of its awaits, or the discovery raised an
\* exception that is no TrueNASError.
Cancel ==
    /\ pc # "idle"
    /\ pc' = "idle" /\ available' = {}
    /\ UNCHANGED <<ups, stale, discoveryFailing, failing, calls, last, discovered,
                   outcome>>

Next ==
    \/ GetUps \/ DiscoveryFails \/ Cancel
    \/ \E found \in SUBSET Graphs : Discover(found)
    \/ \E results \in [Graphs -> Results] : Publish(results) \/ RaiseResult(results)

Spec == Init /\ [][Next]_vars

-----------------------------------------------------------------------------

\* A field the last call that returned did not read is listed as stale, and its
\* endpoint too, at every moment a consumer may look: while a later call is under
\* way or after it was cancelled as well.
FreshUnlessStale ==
    \A g \in Graphs : ups[g] \notin {0, last} => g \in stale /\ StaleEndpoint

\* Only a field that is there is stale, and never one the last call has read: a
\* graph that has yet to yield a reading is not listed.
StaleHasValue == \A g \in stale : ups[g] # 0 /\ ups[g] < last

\* A graph's key says how its last query ended since it was last discovered: it is
\* neither stuck once the graph is gone nor silent about a failure.
KeyIsLastOutcome ==
    \A g \in Graphs : g \in failing <=> outcome[g] \in {"error", "malformed"}
=============================================================================
