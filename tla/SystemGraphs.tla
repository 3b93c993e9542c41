------------------------------ MODULE SystemGraphs ------------------------------
(***************************************************************************)
(* get_system_stats() of TrueNASSystem (system.py): the netdata graphs are *)
(* gathered over the one connection of the client, where a call that times *)
(* out, or cannot be sent, closes the connection under its siblings.  What *)
(* comes back is sorted into data, failures of one graph, failures of the  *)
(* connection and mere symptoms of these.                                  *)
(*                                                                         *)
(* The client is Client, seen by its callers: its lock serves them in      *)
(* order, and all calls have the same timeout.                             *)
(***************************************************************************)
EXTENDS Naturals

CONSTANTS
    MandatoryGraphs,  \* how many graphs are always asked for
    MaxLinks          \* bound on the connections of a behaviour

ASSUME SystemGraphsAssumption == MandatoryGraphs \in Nat \ {0} /\ MaxLinks \in Nat \ {0}

Cputemp == MandatoryGraphs + 1   \* asked for last, and not of a virtual machine

PerGraphErrors == {"rejected", "no such graph", "malformed"}   \* _PER_GRAPH_ERRORS
\* What ends a call besides data: "timeout" and "send failed" close the
\* connection, "disconnect" and "not connected" come of its being closed.
CallEnds == PerGraphErrors \cup
    {"data", "timeout", "send failed", "disconnect", "not connected", "exception"}

VARIABLES
    link, links,    \* the current connection, 0 for none; how many there were
    graphCount,     \* the graphs that are asked for are 1..graphCount
    partial,        \* the argument
    fetch,          \* how far the call for each graph is, or what it ended with
    sentOn,         \* the connection it was sent on, 0 if it was not
    closedBy,       \* the graphs whose calls closed a connection
    statsOutcome    \* "none", "returned", "cancelled", or the error that was raised

graphVars == <<link, links, graphCount, partial, fetch, sentOn, closedBy, statsOutcome>>

Asked == 1..graphCount

GraphsTypeOK ==
    /\ link \in 0..MaxLinks /\ links \in 0..MaxLinks
    /\ graphCount \in {MandatoryGraphs, Cputemp} /\ partial \in BOOLEAN
    /\ fetch \in [1..Cputemp -> {"unsent", "sent", "closing"} \cup CallEnds]
    /\ sentOn \in [1..Cputemp -> 0..MaxLinks]
    /\ closedBy \subseteq 1..Cputemp
    /\ statsOutcome \in {"none", "returned", "cancelled"} \cup CallEnds

GraphsInit ==
    /\ link = 1 /\ links = 1
    /\ graphCount \in {MandatoryGraphs, Cputemp} /\ partial \in BOOLEAN
    /\ fetch = [g \in 1..Cputemp |-> "unsent"]
    /\ sentOn = [g \in 1..Cputemp |-> 0]
    /\ closedBy = {}
    /\ statsOutcome = "none"

-----------------------------------------------------------------------------
(* The calls of the client *)

\* fetch when the current connection is detached: the calls pending on it fail.
Detached == [g \in 1..Cputemp |->
    IF fetch[g] = "sent" /\ sentOn[g] = link THEN "disconnect" ELSE fetch[g]]

\* It is the turn of g to take the lock and send.
Turn(g) ==
    /\ statsOutcome = "none"
    /\ fetch[g] = "unsent"
    /\ \A h \in 1..(g - 1) : fetch[h] # "unsent"

SendGraph(g) ==
    /\ Turn(g) /\ link # 0
    /\ fetch' = [fetch EXCEPT ![g] = "sent"]
    /\ sentOn' = [sentOn EXCEPT ![g] = link]
    /\ UNCHANGED <<link, links, graphCount, partial, closedBy, statsOutcome>>

\* send() raises: the call closes the connection it finds dead.
SendFails(g) ==
    /\ Turn(g) /\ link # 0
    /\ fetch' = [Detached EXCEPT ![g] = "send failed"]
    /\ link' = 0
    /\ closedBy' = closedBy \cup {g}
    /\ UNCHANGED <<links, graphCount, partial, sentOn, statsOutcome>>

NotConnected(g) ==
    /\ Turn(g) /\ link = 0
    /\ fetch' = [fetch EXCEPT ![g] = "not connected"]
    /\ UNCHANGED <<link, links, graphCount, partial, sentOn, closedBy, statsOutcome>>

\* The reply: data of the right shape or another, an error object, or an
\* exception that is no TrueNASError.
GraphReply(g, end) ==
    /\ statsOutcome = "none" /\ fetch[g] = "sent"
    /\ fetch' = [fetch EXCEPT ![g] = end]
    /\ UNCHANGED <<link, links, graphCount, partial, sentOn, closedBy, statsOutcome>>

\* The calls were sent in order, so their timeouts expire in order.
TimesOut(g) ==
    /\ statsOutcome = "none" /\ fetch[g] = "sent"
    /\ \A h \in 1..(g - 1) : fetch[h] # "sent"
    /\ fetch' = [fetch EXCEPT ![g] = "closing"]
    /\ UNCHANGED <<link, links, graphCount, partial, sentOn, closedBy, statsOutcome>>

\* _close_failed_call_connection has the lock.
CloseLink(g) ==
    /\ statsOutcome = "none" /\ fetch[g] = "closing"
    /\ \/ /\ link = sentOn[g]
          /\ fetch' = [Detached EXCEPT ![g] = "timeout"]
          /\ link' = 0
          /\ closedBy' = closedBy \cup {g}
       \/ /\ link # sentOn[g]
          /\ fetch' = [fetch EXCEPT ![g] = "timeout"]
          /\ UNCHANGED <<link, closedBy>>
    /\ UNCHANGED <<links, graphCount, partial, sentOn, statsOutcome>>

\* The server drops the connection, or another task closes it.
LinkLost ==
    /\ statsOutcome = "none" /\ link # 0
    /\ fetch' = Detached
    /\ link' = 0
    /\ UNCHANGED <<links, graphCount, partial, sentOn, closedBy, statsOutcome>>

\* Another task connects again.
Relink ==
    /\ statsOutcome = "none" /\ link = 0 /\ links < MaxLinks
    /\ link' = links + 1
    /\ links' = links + 1
    /\ UNCHANGED <<graphCount, partial, fetch, sentOn, closedBy, statsOutcome>>

-----------------------------------------------------------------------------
(* _fetch_graphs() *)

\* Definitions named Fault... are faulty variants of the definition they precede.

IsDisconnectSymptom(end) == end \in {"disconnect", "not connected"}

\* A graph that TrueNAS need not know.
IsAbsentOptionalGraph(g) == g = Cputemp /\ fetch[g] = "no such graph"

First(S) == CHOOSE g \in S : \A h \in S : g <= h

FaultPrimaryError(failed) == fetch[First(failed)]
\* The first error that is no symptom; the first one if all are.
PrimaryError(failed) ==
    LET own == {g \in failed : ~IsDisconnectSymptom(fetch[g])}
    IN  fetch[First(IF own # {} THEN own ELSE failed)]

\* _reportable_failures: what the call ends with, given the graphs that failed.
ReportableFailures(failed) ==
    LET fatal == {g \in failed : partial => fetch[g] \notin PerGraphErrors}
    IN  IF fatal = {} THEN "returned" ELSE PrimaryError(fatal)

\* All calls have ended.  An exception is raised in its turn, before any error
\* is looked at.
FetchGraphs ==
    /\ statsOutcome = "none"
    /\ \A g \in Asked : fetch[g] \in CallEnds
    /\ statsOutcome' =
          IF \E g \in Asked : fetch[g] = "exception" THEN "exception"
          ELSE ReportableFailures({g \in Asked : fetch[g] # "data" /\ ~IsAbsentOptionalGraph(g)})
    /\ UNCHANGED <<link, links, graphCount, partial, fetch, sentOn, closedBy>>

CancelStats ==
    /\ statsOutcome = "none"
    /\ statsOutcome' = "cancelled"
    /\ UNCHANGED <<link, links, graphCount, partial, fetch, sentOn, closedBy>>

GraphsNext ==
    \/ \E g \in Asked :
          \/ SendGraph(g) \/ SendFails(g) \/ NotConnected(g) \/ TimesOut(g) \/ CloseLink(g)
          \/ \E end \in PerGraphErrors \cup {"data", "exception"} : GraphReply(g, end)
    \/ LinkLost \/ Relink \/ FetchGraphs \/ CancelStats

GraphsSpec == GraphsInit /\ [][GraphsNext]_graphVars

-----------------------------------------------------------------------------

\* get_system_stats() never hides or mislabels a lost connection.  When one of its
\* own calls closed the connection, what it raises is a cause and not a symptom
\* ("the root cause is preferred"), in whatever order the calls were sent, answered
\* and cut off; and it returns, with None for a failed graph, only if no call failed
\* for the sake of the connection.
RootCauseRaised ==
    /\ IsDisconnectSymptom(statsOutcome) => closedBy = {}
    /\ statsOutcome = "returned" =>
          closedBy = {} /\ \A g \in Asked : fetch[g] \in {"data"} \cup PerGraphErrors
=============================================================================
