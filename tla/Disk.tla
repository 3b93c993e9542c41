---------------------------------- MODULE Disk ----------------------------------
(***************************************************************************)
(* get_disk() of TrueNASState (domain/state.py): the disks of disk.query,  *)
(* with temperatures from a netdata graph that is looked for once, and     *)
(* from disk.temperatures for every disk the graph did not refresh.        *)
(*                                                                         *)
(* A temperature is represented by the number of the call that read it, 0  *)
(* for None.  Of identifier, devname and name, the keys under which a      *)
(* reading may be filed, one is kept.  The key for unexpected errors of    *)
(* the enrichment is left out: both paths catch every TrueNASError, so it  *)
(* is never set.                                                           *)
(***************************************************************************)
EXTENDS Naturals

CONSTANTS
    Disks,        \* the uids disk.query may list
    DiskNames,    \* their names; two disks may have the same one
    Absent,       \* a disk that ds["disk"] does not hold
    MaxDiskCalls  \* bound on the get_disk() calls of a behaviour

ASSUME DiskAssumption == MaxDiskCalls \in Nat /\ Absent \notin DiskNames

VARIABLES
    disk,            \* ds["disk"]: the name of each disk it holds
    temperature,     \* which call read each disk's temperature
    diskTempGraph,   \* _disk_temp_graph: "unknown" (None), "none" (""), "found"
    netdataFailing,  \* _KEY_DISK_TEMP_NETDATA is in _fallback_failing
    fallbackFailing, \* _KEY_DISK_TEMP_FALLBACK is
    diskPc,          \* "idle", or the RPC that is awaited
    staleUids,       \* the disks the fallback is asked for
    diskCalls, diskLast, \* how many calls there were; the last that returned
    unanswered       \* the disks disk.temperatures had no number for, in the last call

diskFlags == <<netdataFailing, fallbackFailing>>
diskVars == <<disk, temperature, diskTempGraph, diskFlags, diskPc, staleUids,
              diskCalls, diskLast, unanswered>>

DiskTypeOK ==
    /\ disk \in [Disks -> DiskNames \cup {Absent}]
    /\ temperature \in [Disks -> 0..MaxDiskCalls]
    /\ diskTempGraph \in {"unknown", "none", "found"}
    /\ netdataFailing \in BOOLEAN /\ fallbackFailing \in BOOLEAN
    /\ diskPc \in {"idle", "query", "discover", "graph", "fallback"}
    /\ staleUids \subseteq Disks /\ unanswered \subseteq Disks
    /\ diskCalls \in 0..MaxDiskCalls /\ diskLast \in 0..MaxDiskCalls

DiskInit ==
    /\ disk = [d \in Disks |-> Absent]
    /\ temperature = [d \in Disks |-> 0]
    /\ diskTempGraph = "unknown"
    /\ netdataFailing = FALSE /\ fallbackFailing = FALSE
    /\ diskPc = "idle" /\ staleUids = {} /\ unanswered = {}
    /\ diskCalls = 0 /\ diskLast = 0

-----------------------------------------------------------------------------

\* The disks a map holds.
Listed(map) == {d \in Disks : map[d] # Absent}
Held == Listed(disk)

GetDisk ==
    /\ diskPc = "idle" /\ diskCalls < MaxDiskCalls
    /\ diskPc' = "query"
    /\ diskCalls' = diskCalls + 1
    /\ UNCHANGED <<disk, temperature, diskTempGraph, diskFlags, staleUids, diskLast,
                   unanswered>>

\* Definitions named Fault... are faulty variants of the definition they precede.

FaultFallbackUids(map, refreshed) == {d \in Listed(map) : temperature[d] = 0} \ refreshed
\* The disks the graph did not refresh, with or without an older temperature.
FallbackUids(map, refreshed) == Listed(map) \ refreshed

FaultNotConsulted == UNCHANGED fallbackFailing
\* The fallback was not consulted: its key is dropped.
NotConsulted == fallbackFailing' = FALSE

\* _update_disk_temperatures after the graph, for the disks in map with the
\* temperatures temps: the fallback, or the end of the call.
AfterGraph(map, temps, refreshed) ==
    /\ disk' = map
    /\ temperature' = [d \in Disks |-> IF d \in refreshed THEN diskCalls ELSE temps[d]]
    /\ staleUids' = FallbackUids(map, refreshed)
    /\ unanswered' = {}
    /\ \/ /\ FallbackUids(map, refreshed) # {}
          /\ diskPc' = "fallback"
          /\ UNCHANGED <<fallbackFailing, diskLast>>
       \/ /\ FallbackUids(map, refreshed) = {}
          /\ NotConsulted
          /\ diskPc' = "idle"
          /\ diskLast' = diskCalls
    /\ UNCHANGED diskCalls

\* A disk that is gone loses its record, and with it its temperature.
Kept(found) == [d \in Disks |-> IF found[d] = Absent THEN 0 ELSE temperature[d]]

\* disk.query answered: found holds the disks of a list; a reply parse_api cannot
\* use (no list, or no entry with an identifier) leaves the disks there are.
\* Without a graph to query the enrichment goes on to the fallback.
DiskQuery(found) ==
    /\ diskPc = "query"
    /\ \/ /\ diskTempGraph # "none"
          /\ disk' = found
          /\ temperature' = Kept(found)
          /\ diskPc' = IF diskTempGraph = "unknown" THEN "discover" ELSE "graph"
          /\ UNCHANGED <<diskFlags, staleUids, diskCalls, diskLast, unanswered>>
       \/ /\ diskTempGraph = "none"
          /\ netdataFailing' = FALSE
          /\ AfterGraph(found, Kept(found), {})
    /\ UNCHANGED diskTempGraph

\* reporting.netdata_graphs failed or returned no list: it is asked again next time.
DiskDiscoveryFails ==
    /\ diskPc = "discover"
    /\ netdataFailing' = TRUE
    /\ AfterGraph(disk, temperature, {})
    /\ UNCHANGED diskTempGraph

\* It listed a disk temperature graph, or none.
DiskDiscover(graph) ==
    /\ diskPc = "discover"
    /\ diskTempGraph' = graph
    /\ \/ /\ graph = "found"
          /\ diskPc' = "graph"
          /\ UNCHANGED <<disk, temperature, diskFlags, staleUids, diskCalls, diskLast,
                         unanswered>>
       \/ /\ graph = "none"
          /\ netdataFailing' = FALSE
          /\ AfterGraph(disk, temperature, {})

\* The query of the graph failed, or returned no list or one without disk entries.
GraphFails ==
    /\ diskPc = "graph"
    /\ netdataFailing' = TRUE
    /\ AfterGraph(disk, temperature, {})
    /\ UNCHANGED diskTempGraph

\* The graph has readings filed under names, none of them in an empty window.  A
\* name two disks share is resolved to one of them (the first in the map).
GraphReadings(names, owner) ==
    /\ diskPc = "graph"
    /\ \A n \in names : (\E d \in Held : disk[d] = n) => owner[n] \in Held /\ disk[owner[n]] = n
    /\ netdataFailing' = FALSE
    /\ AfterGraph(disk, temperature, {owner[n] : n \in {m \in names : \E d \in Held : disk[d] = m}})
    /\ UNCHANGED diskTempGraph

\* disk.temperatures failed or returned no dict.
FallbackFails ==
    /\ diskPc = "fallback"
    /\ fallbackFailing' = TRUE
    /\ diskPc' = "idle"
    /\ diskLast' = diskCalls
    /\ UNCHANGED <<disk, temperature, diskTempGraph, netdataFailing, staleUids, diskCalls,
                   unanswered>>

\* It answered with numbers for some names.
FallbackReadings(names) ==
    LET read == {d \in staleUids : disk[d] \in names} IN
    /\ diskPc = "fallback"
    /\ fallbackFailing' = FALSE
    /\ temperature' = [d \in Disks |-> IF d \in read THEN diskCalls ELSE temperature[d]]
    /\ unanswered' = staleUids \ read
    /\ diskPc' = "idle"
    /\ diskLast' = diskCalls
    /\ UNCHANGED <<disk, diskTempGraph, netdataFailing, staleUids, diskCalls>>

\* The call is cancelled at an await, disk.query raises, or another RPC raises
\* what is no TrueNASError.
DiskRaise ==
    /\ diskPc # "idle"
    /\ diskPc' = "idle"
    /\ UNCHANGED <<disk, temperature, diskTempGraph, diskFlags, staleUids, diskCalls,
                   diskLast, unanswered>>

DiskNext ==
    \/ GetDisk
    \/ \E found \in [Disks -> DiskNames \cup {Absent}] : DiskQuery(found)
    \/ DiskDiscoveryFails \/ GraphFails \/ FallbackFails \/ DiskRaise
    \/ \E graph \in {"none", "found"} : DiskDiscover(graph)
    \/ \E names \in SUBSET DiskNames :
          \/ FallbackReadings(names)
          \/ \E owner \in [DiskNames -> Disks] : GraphReadings(names, owner)

DiskSpec == DiskInit /\ [][DiskNext]_diskVars

-----------------------------------------------------------------------------

\* The last call returned, and no other was begun since.
Settled == diskPc = "idle" /\ diskCalls > 0 /\ diskLast = diskCalls

\* The failing key tells the truth about the last call, in both directions: it is
\* set exactly when some disk kept a temperature and disk.temperatures did not
\* even answer for it.  A missing key would leave a stuck value "silently
\* unwarned"; a key left behind would silence the warning of the next failure.
FailingIffStuck ==
    Settled => (fallbackFailing <=>
                   \E d \in Held : temperature[d] # diskLast /\ d \notin unanswered)
=============================================================================
