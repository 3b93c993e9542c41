------------------------------- MODULE FlatState -------------------------------
(***************************************************************************)
(* The methods of TrueNASState (domain/state.py) that validate their       *)
(* replies by hand: get_directoryservices(), get_alerts(), get_smb(),      *)
(* get_update() and get_arc().  They share the lock, held over a whole     *)
(* call, and _fallback_failing.                                            *)
(*                                                                         *)
(* A value is represented by the number of the call that read it, 0 for    *)
(* the value it starts with.                                               *)
(***************************************************************************)
EXTENDS Naturals

CONSTANTS
    ArcGraphs,    \* how many graphs _ARC_GRAPHS has
    MaxFlatCalls  \* bound on the calls of a behaviour

ASSUME FlatAssumption == ArcGraphs \in Nat \ {0} /\ MaxFlatCalls \in Nat

Endpoints == {"directoryservices", "alerts", "smb", "update", "arc"}
FlatKeys == {"dsConfig", "dsStatus", "alerts", "smb"}
FlatCalls == 0..MaxFlatCalls

VARIABLES
    read,        \* read[e]: the call that read ds[e], its status and graphs apart
    dsStatus,    \* the call that read the status in ds["directoryservices"]
    arc,         \* the call that read each field of ds["arc"]
    flatFailing, \* the keys in _fallback_failing
    smbDenied,   \* _smb_denied
    smbQueries,  \* how often smb.status was called
    flatPc,      \* "idle", or the RPC that is awaited
    arcDone,     \* how many graphs get_arc() has in its local arc
    flatCalls,   \* how many calls there were
    tried, done  \* per endpoint: its last call, and its last call that returned

flatData == <<read, dsStatus, arc>>
flatVars == <<flatData, flatFailing, smbDenied, smbQueries, flatPc, arcDone, flatCalls,
              tried, done>>

FlatTypeOK ==
    /\ {read, tried, done} \subseteq [Endpoints -> FlatCalls]
    /\ arc \in [1..ArcGraphs -> FlatCalls]
    /\ dsStatus \in FlatCalls /\ flatCalls \in FlatCalls /\ smbQueries \in FlatCalls
    /\ flatFailing \subseteq FlatKeys /\ smbDenied \in BOOLEAN
    /\ flatPc \in {"idle", "dsConfig", "dsStatus", "alerts", "smbEnable", "smb", "update", "arc"}
    /\ arcDone \in 0..(ArcGraphs - 1)

FlatInit ==
    /\ read = [e \in Endpoints |-> 0] /\ tried = read /\ done = read
    /\ dsStatus = 0 /\ arc = [i \in 1..ArcGraphs |-> 0]
    /\ flatFailing = {} /\ smbDenied = FALSE /\ smbQueries = 0
    /\ flatPc = "idle" /\ arcDone = 0 /\ flatCalls = 0

-----------------------------------------------------------------------------

\* Definitions named Fault... are faulty variants of the definition they precede.

FaultNote(failed, recovered) == flatFailing' = flatFailing \cup failed
\* The keys in recovered are dropped, those in failed set.
Note(failed, recovered) == flatFailing' = (flatFailing \ recovered) \cup failed

\* The call of endpoint e returns, with the endpoints in fresh read by it.
Return(e, fresh) ==
    /\ read' = [x \in Endpoints |-> IF x \in fresh THEN flatCalls ELSE read[x]]
    /\ done' = [done EXCEPT ![e] = flatCalls]
    /\ flatPc' = "idle"
    /\ UNCHANGED <<flatCalls, tried>>

FaultSmbPc == "smbEnable"
\* Once refused, get_smb() returns what it has without a query.
SmbPc == IF smbDenied THEN "idle" ELSE "smbEnable"

FirstRpc(e) ==
    CASE e = "directoryservices" -> "dsConfig" [] e = "smb" -> SmbPc [] OTHER -> e

GetFlat(e) ==
    /\ flatPc = "idle" /\ flatCalls < MaxFlatCalls
    /\ flatCalls' = flatCalls + 1
    /\ tried' = [tried EXCEPT ![e] = flatCalls']
    /\ flatPc' = FirstRpc(e)
    /\ done' = IF FirstRpc(e) = "idle" THEN [done EXCEPT ![e] = flatCalls'] ELSE done
    /\ arcDone' = 0
    /\ UNCHANGED <<flatData, flatFailing, smbDenied, smbQueries>>

\* directoryservices.config: no dict; no service or a disabled one, upon which the
\* map is emptied; an enabled one, upon which its status is asked for.
DsConfig(raw) ==
    /\ flatPc = "dsConfig"
    /\ \/ /\ raw = "malformed"
          /\ Note({"dsConfig"}, {})
          /\ Return("directoryservices", {})
          /\ UNCHANGED dsStatus
       \/ /\ raw = "disabled"
          /\ Note({}, {"dsConfig", "dsStatus"})
          /\ Return("directoryservices", {"directoryservices"})
          /\ dsStatus' = flatCalls
       \/ /\ raw = "enabled"
          /\ Note({}, {"dsConfig"})
          /\ flatPc' = "dsStatus"
          /\ UNCHANGED <<read, dsStatus, flatCalls, tried, done>>
    /\ UNCHANGED <<arc, smbDenied, smbQueries, arcDone>>

\* directoryservices.status: without a usable status the previous one is merged
\* into the fresh configuration ("unknown" if there is none).
DsStatus(usable) ==
    /\ flatPc = "dsStatus"
    /\ dsStatus' = IF usable THEN flatCalls ELSE dsStatus
    /\ IF usable THEN Note({}, {"dsStatus"}) ELSE Note({"dsStatus"}, {})
    /\ Return("directoryservices", {"directoryservices"})
    /\ UNCHANGED <<arc, smbDenied, smbQueries, arcDone>>

\* alert.list: an empty list and a list with a uuid-bearing entry are usable.
AlertsUsable(raw) == raw \notin {"malformed", "junk"}
Alerts(raw) ==
    /\ flatPc = "alerts"
    /\ IF AlertsUsable(raw) THEN Note({}, {"alerts"}) ELSE Note({"alerts"}, {})
    /\ Return("alerts", IF AlertsUsable(raw) THEN {"alerts"} ELSE {})
    /\ UNCHANGED <<dsStatus, arc, smbDenied, smbQueries, arcDone>>

\* enable_private_methods() returned; a refused option is only logged by it.
SmbEnabled ==
    /\ flatPc = "smbEnable"
    /\ smbQueries' = smbQueries + 1
    /\ flatPc' = "smb"
    /\ UNCHANGED <<flatData, flatFailing, smbDenied, arcDone, flatCalls, tried, done>>

\* smb.status: sessions, or something else.
SmbStatus(usable) ==
    /\ flatPc = "smb"
    /\ IF usable THEN Note({}, {"smb"}) ELSE Note({"smb"}, {})
    /\ Return("smb", IF usable THEN {"smb"} ELSE {})
    /\ UNCHANGED <<dsStatus, arc, smbDenied, smbQueries, arcDone>>

\* A TrueNASError of either call; EACCES can only come from smb.status.
SmbError(refused) ==
    /\ flatPc \in {"smbEnable", "smb"}
    /\ refused => flatPc = "smb"
    /\ smbDenied' = refused
    /\ Note({"smb"}, {})
    /\ Return("smb", {})
    /\ UNCHANGED <<dsStatus, arc, smbQueries, arcDone>>

\* update.status: a pending update, or "no update pending" for anything else.
UpdateStatus ==
    /\ flatPc = "update"
    /\ Return("update", {"update"})
    /\ UNCHANGED <<dsStatus, arc, flatFailing, smbDenied, smbQueries, arcDone>>

\* ds["arc"] when n graphs have been read: it is published with the last one.
ArcWith(n) == IF n = ArcGraphs THEN [i \in 1..ArcGraphs |-> flatCalls] ELSE arc
\* The graphs are queried one after the other; a malformed one yields None.
ArcGraph ==
    /\ flatPc = "arc"
    /\ arc' = ArcWith(arcDone + 1)
    /\ \/ /\ arcDone + 1 < ArcGraphs
          /\ arcDone' = arcDone + 1
          /\ UNCHANGED <<read, flatPc, flatCalls, tried, done>>
       \/ /\ arcDone + 1 = ArcGraphs
          /\ arcDone' = 0
          /\ Return("arc", {"arc"})
    /\ UNCHANGED <<dsStatus, flatFailing, smbDenied, smbQueries>>

\* A cancel at an await, or an error the method does not catch.
FlatRaise ==
    /\ flatPc # "idle"
    /\ flatPc' = "idle"
    /\ arcDone' = 0
    /\ UNCHANGED <<flatData, flatFailing, smbDenied, smbQueries, flatCalls, tried, done>>

FlatNext ==
    \/ \E e \in Endpoints : GetFlat(e)
    \/ \E raw \in {"malformed", "disabled", "enabled"} : DsConfig(raw)
    \/ \E raw \in {"malformed", "junk", "empty", "alerts"} : Alerts(raw)
    \/ \E usable \in BOOLEAN : DsStatus(usable) \/ SmbStatus(usable) \/ SmbError(usable)
    \/ SmbEnabled \/ UpdateStatus \/ ArcGraph \/ FlatRaise

FlatSpec == FlatInit /\ [][FlatNext]_flatVars

-----------------------------------------------------------------------------

FlatStale == {e \in {"alerts", "smb"} : e \in flatFailing}
             \cup (IF {"dsConfig", "dsStatus"} \cap flatFailing # {}
                   THEN {"directoryservices"} ELSE {})

\* The last call of e returned, and something of ds[e] is older than it.
KeptBy(e) ==
    \/ read[e] # done[e]
    \/ e = "directoryservices" /\ dsStatus # done[e]
    \/ e = "arc" /\ \E i \in 1..ArcGraphs : arc[i] # done[e]

\* After a call that returned, its endpoint is in stale_endpoints exactly when
\* ds[e] holds something the call did not read: a status carried into a fresh
\* configuration, the snapshot behind a reply of junk, the count of a refused
\* get_smb().  "arc" and "update" are never listed, and never keep anything.
StaleIffKept ==
    flatPc = "idle" =>
        \A e \in Endpoints : tried[e] = done[e] => (e \in FlatStale <=> KeptBy(e))

\* "for the lifetime of this object": once smb.status was refused it is not called
\* again, the count is kept and "smb" stays stale, whatever else is refreshed.
DeniedForGood ==
    [][smbDenied => smbDenied' /\ "smb" \in FlatStale' /\ UNCHANGED <<read["smb"], smbQueries>>]_flatVars
=============================================================================
