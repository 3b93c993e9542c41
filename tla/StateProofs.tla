------------------------------- MODULE StateProofs -------------------------------
(***************************************************************************)
(* What the methods of TrueNASState mark as stale or failing is what they  *)
(* carried over, for any sets of disks, names and graphs and any number    *)
(* of calls: get_ups(), get_disk(), the methods that depend on             *)
(* system.info, and the methods that validate their replies by hand.  And  *)
(* the figures of a pool fit together, whatever the server reports.        *)
(***************************************************************************)
EXTENDS Ups, Disk, SystemState, FlatState, PoolCapacity, TLAPS

-----------------------------------------------------------------------------
(* get_ups() *)

\* A call under way has a number of its own, and no reading is newer than the last
\* call that returned: only Publish writes one, and it makes its call the last.
ReadByReturned ==
    /\ last <= calls
    /\ pc # "idle" => last < calls
    /\ \A g \in Graphs : ups[g] <= last

UpsInv == TypeOK /\ ReadByReturned /\ FreshUnlessStale /\ StaleHasValue

\* The empty state of __init__ satisfies the invariant.
LEMMA UpsInit == Init => UpsInv
<1> SUFFICES ASSUME Init PROVE UpsInv
  OBVIOUS
<1>1. discoveryFailing \in BOOLEAN
  BY Zenon DEF Init
<1>2. 0 \in Calls
  BY UpsAssumption DEF Calls
<1>3. TypeOK
  BY <1>1, <1>2 DEF Init, TypeOK
<1>4. ReadByReturned /\ FreshUnlessStale /\ StaleHasValue
  BY DEF Init, ReadByReturned, FreshUnlessStale, StaleHasValue
<1>5. QED
  BY <1>3, <1>4 DEF UpsInv

\* The steps that leave readings, stale graphs and the last call alone.
LEMMA UpsQuietStep ==
  ASSUME UpsInv, TypeOK', UNCHANGED <<ups, stale, last>>,
         calls' >= calls, pc' # "idle" => pc # "idle" \/ calls' > calls,
         StaleEndpoint => StaleEndpoint'
  PROVE  UpsInv'
  BY DEF UpsInv, TypeOK, ReadByReturned, FreshUnlessStale, StaleHasValue, Calls

\* Every step of get_ups() keeps the invariant.
LEMMA UpsStep == UpsInv /\ [Next]_vars => UpsInv'
<1> SUFFICES ASSUME UpsInv, [Next]_vars PROVE UpsInv'
  OBVIOUS
<1> USE UpsAssumption
<1>1. CASE GetUps
  <2>1. TypeOK'
    BY <1>1 DEF GetUps, UpsInv, TypeOK, Calls
  <2>2. QED
    BY <1>1, <2>1 DEF GetUps, UpsInv, TypeOK, ReadByReturned, FreshUnlessStale,
                      StaleHasValue, StaleEndpoint, Calls
<1>2. CASE DiscoveryFails
  <2>1. TypeOK'
    BY <1>2 DEF DiscoveryFails, AllCachedUpsGraphs, UpsInv, TypeOK
  <2>2. ReadByReturned'
    BY <1>2 DEF DiscoveryFails, UpsInv, TypeOK, ReadByReturned, Calls
  <2>3. FreshUnlessStale'
    BY <1>2 DEF DiscoveryFails, AllCachedUpsGraphs, FreshUnlessStale, StaleEndpoint
  <2>4. StaleHasValue'
    BY <1>2 DEF DiscoveryFails, AllCachedUpsGraphs, UpsInv, TypeOK, ReadByReturned,
                StaleHasValue, Calls
  <2>5. QED
    BY <2>1, <2>2, <2>3, <2>4 DEF UpsInv
<1>3. ASSUME NEW found \in SUBSET Graphs, Discover(found)
      PROVE  UpsInv'
  <2>1. TypeOK'
    <3>1. (discoveryFailing \in BOOLEAN)'
      BY <1>3, Zenon DEF Discover
    <3>2. 0 \in Calls
      BY DEF Calls
    <3>3. QED
      BY <1>3, <3>1, <3>2 DEF Discover, StillFailing, UpsInv, TypeOK
  <2>2. CASE found = {}
    BY <1>3, <2>1, <2>2 DEF Discover, UpsInv, TypeOK, ReadByReturned, FreshUnlessStale,
                            StaleHasValue, Calls
  <2>3. CASE found # {}
    \* A field that is not fresh is in stale, so the endpoint stays stale.
    BY <1>3, <2>1, <2>3 DEF Discover, UpsInv, TypeOK, ReadByReturned, FreshUnlessStale,
                            StaleHasValue, StaleEndpoint, Calls
  <2>4. QED
    BY <2>2, <2>3
<1>4. ASSUME NEW results \in [Graphs -> Results], Publish(results)
      PROVE  UpsInv'
  <2>1. TypeOK'
    BY <1>4 DEF Publish, ApplyResults, Fails, StaleOf, UpsInv, TypeOK, Calls
  <2>2. ReadByReturned'
    BY <1>4 DEF Publish, UpsInv, TypeOK, ReadByReturned, Calls
  <2>3. FreshUnlessStale'
    BY <1>4 DEF Publish, StaleOf, UpsInv, TypeOK, FreshUnlessStale, StaleEndpoint, Calls
  <2>4. StaleHasValue'
    BY <1>4 DEF Publish, StaleOf, UpsInv, TypeOK, ReadByReturned, StaleHasValue, Calls
  <2>5. QED
    BY <2>1, <2>2, <2>3, <2>4 DEF UpsInv
<1>5. ASSUME NEW results \in [Graphs -> Results], RaiseResult(results)
      PROVE  UpsInv'
  <2>1. TypeOK'
    BY <1>5 DEF RaiseResult, ApplyResults, Fails, UpsInv, TypeOK
  <2>2. QED
    BY <1>5, <2>1, UpsQuietStep DEF RaiseResult, UpsInv, TypeOK, StaleEndpoint, Calls
<1>6. CASE Cancel
  <2>1. TypeOK'
    BY <1>6 DEF Cancel, UpsInv, TypeOK
  <2>2. QED
    BY <1>6, <2>1, UpsQuietStep DEF Cancel, UpsInv, TypeOK, StaleEndpoint, Calls
<1>7. CASE UNCHANGED vars
  <2>1. TypeOK'
    BY <1>7 DEF vars, UpsInv, TypeOK
  <2>2. QED
    BY <1>7, <2>1, UpsQuietStep DEF vars, UpsInv, TypeOK, StaleEndpoint, Calls
<1>8. QED
  BY <1>1, <1>2, <1>3, <1>4, <1>5, <1>6, <1>7 DEF Next

\* A reading of get_ups() that the last call that returned did not take is listed in
\* ups_stale_graphs, and "ups" in stale_endpoints, at every moment.
THEOREM UpsFreshUnlessStale == Spec => []FreshUnlessStale
<1>1. UpsInv => FreshUnlessStale
  BY DEF UpsInv
<1>2. QED
  BY UpsInit, UpsStep, <1>1, PTL DEF Spec

\* ups_stale_graphs lists no graph whose field is absent or fresh.
THEOREM UpsStaleHasValue == Spec => []StaleHasValue
<1>1. UpsInv => StaleHasValue
  BY DEF UpsInv
<1>2. QED
  BY UpsInit, UpsStep, <1>1, PTL DEF Spec
\* The results of the graphs in S were noted: their keys say how they ended.
LEMMA UpsKeysNoted ==
    ASSUME TypeOK, KeyIsLastOutcome, NEW S \in SUBSET Graphs,
           NEW results \in [Graphs -> Results], ApplyResults(S, results)
    PROVE  KeyIsLastOutcome'
BY DEF ApplyResults, Fails, TypeOK, KeyIsLastOutcome

LEMMA UpsKeyStep == UpsInv /\ KeyIsLastOutcome /\ [Next]_vars => KeyIsLastOutcome'
<1> SUFFICES ASSUME UpsInv, KeyIsLastOutcome, [Next]_vars PROVE KeyIsLastOutcome'
  OBVIOUS
<1>t. TypeOK
  BY DEF UpsInv
<1>1. CASE GetUps \/ DiscoveryFails \/ Cancel \/ UNCHANGED vars
  BY <1>1 DEF GetUps, DiscoveryFails, Cancel, vars, KeyIsLastOutcome
<1>2. ASSUME NEW found \in SUBSET Graphs, Discover(found) PROVE KeyIsLastOutcome'
  <2>1. /\ failing' = failing \cap found
        /\ outcome' = [g \in Graphs |-> IF g \in found THEN outcome[g] ELSE "none"]
    BY <1>2 DEF Discover, StillFailing
  <2> QED
    BY <1>t, <2>1 DEF KeyIsLastOutcome, TypeOK
<1>3. ASSUME NEW results \in [Graphs -> Results], Publish(results) PROVE KeyIsLastOutcome'
  BY <1>t, <1>3, UpsKeysNoted DEF Publish, TypeOK
<1>4. ASSUME NEW results \in [Graphs -> Results], RaiseResult(results) PROVE KeyIsLastOutcome'
  <2>1. PICK noted \in SUBSET available : ApplyResults(noted, results)
    BY <1>4 DEF RaiseResult
  <2> QED
    BY <1>t, <2>1, UpsKeysNoted DEF TypeOK
<1> QED
  BY <1>1, <1>2, <1>3, <1>4 DEF Next

\* The key of a graph in _fallback_failing says how its last query ended since the graph
\* was last discovered, also of the queries whose call raised halfway.
THEOREM UpsKeyIsLastOutcome == Spec => []KeyIsLastOutcome
<1>1. Init => KeyIsLastOutcome
  BY DEF Init, KeyIsLastOutcome
<1> QED
  BY UpsInit, UpsStep, <1>1, UpsKeyStep, PTL DEF Spec

-----------------------------------------------------------------------------
(* get_disk() *)

\* No temperature is newer than the call that is under way, and none was read by it
\* before it asks the fallback; a call that is under way has not returned.
ReadByCall ==
    /\ diskLast <= diskCalls
    /\ diskPc # "idle" => diskLast < diskCalls
    /\ \A d \in Disks : /\ temperature[d] <= diskCalls
                        /\ diskPc \in {"query", "discover", "graph"} => temperature[d] < diskCalls

\* The fallback is asked for exactly the disks whose temperature is not of this call.
AskedForStale ==
    diskPc = "fallback" =>
        /\ staleUids # {} /\ unanswered = {}
        /\ staleUids = {d \in Held : temperature[d] # diskCalls}

DiskInv == DiskTypeOK /\ ReadByCall /\ AskedForStale /\ FailingIffStuck

LEMMA DiskInitially == DiskInit => DiskInv
<1> SUFFICES ASSUME DiskInit PROVE DiskInv
  OBVIOUS
<1>1. netdataFailing \in BOOLEAN /\ fallbackFailing \in BOOLEAN
  BY Zenon DEF DiskInit
<1>2. DiskTypeOK
  BY <1>1, DiskAssumption DEF DiskInit, DiskTypeOK
<1> QED
  BY <1>2 DEF DiskInit, DiskInv, ReadByCall, AskedForStale, FailingIffStuck, Settled

\* The end of every path through the graph: the disks it did not refresh go to the
\* fallback, or there are none.
LEMMA AfterGraphStep ==
    ASSUME DiskTypeOK, ReadByCall, diskPc \in {"query", "discover", "graph"},
           NEW map \in [Disks -> DiskNames \cup {Absent}],
           NEW temps \in [Disks -> 0..MaxDiskCalls], \A d \in Disks : temps[d] < diskCalls,
           NEW refreshed \in SUBSET Disks, AfterGraph(map, temps, refreshed),
           netdataFailing' \in BOOLEAN, diskTempGraph' \in {"unknown", "none", "found"}
    PROVE  DiskInv'
<1> DEFINE rest == FallbackUids(map, refreshed)
<1>1. /\ disk' = map /\ staleUids' = rest /\ unanswered' = {} /\ diskCalls' = diskCalls
      /\ temperature' = [d \in Disks |-> IF d \in refreshed THEN diskCalls ELSE temps[d]]
  BY DEF AfterGraph
<1>2. rest = {d \in Disks : map[d] # Absent /\ d \notin refreshed}
  BY DEF FallbackUids, Listed
<1>3. \/ rest # {} /\ diskPc' = "fallback" /\ fallbackFailing' = fallbackFailing /\ diskLast' = diskLast
      \/ rest = {} /\ diskPc' = "idle" /\ fallbackFailing' = FALSE /\ diskLast' = diskCalls
  BY DEF AfterGraph, NotConsulted
<1>4. fallbackFailing' \in BOOLEAN
  BY <1>3, Zenon DEF DiskTypeOK
<1>5. DiskTypeOK'
  BY <1>1, <1>2, <1>3, <1>4 DEF DiskTypeOK
<1>6. ReadByCall'
  BY <1>1, <1>3 DEF DiskTypeOK, ReadByCall
<1>7. AskedForStale'
  BY <1>1, <1>2, <1>3 DEF DiskTypeOK, AskedForStale, Held, Listed
<1>8. FailingIffStuck'
  <2>1. CASE diskPc' = "fallback"
    BY <2>1 DEF FailingIffStuck, Settled
  <2>2. CASE rest = {} /\ diskPc' = "idle" /\ fallbackFailing' = FALSE /\ diskLast' = diskCalls
    <3>1. \A d \in Held' : temperature'[d] = diskLast'
      BY <1>1, <1>2, <2>2 DEF Held, Listed
    <3> QED
      BY <2>2, <3>1 DEF FailingIffStuck
  <2> QED
    BY <1>3, <2>1, <2>2
<1> QED
  BY <1>5, <1>6, <1>7, <1>8 DEF DiskInv

LEMMA DiskStep == DiskInv /\ [DiskNext]_diskVars => DiskInv'
<1> SUFFICES ASSUME DiskInv, [DiskNext]_diskVars PROVE DiskInv'
  OBVIOUS
<1> USE DiskAssumption
<1>t. DiskTypeOK /\ ReadByCall /\ AskedForStale /\ FailingIffStuck
  BY DEF DiskInv
<1>temps. temperature \in [Disks -> 0..MaxDiskCalls] /\ disk \in [Disks -> DiskNames \cup {Absent}]
  BY <1>t DEF DiskTypeOK
<1>1. CASE GetDisk
  <2>1. UNCHANGED <<netdataFailing, fallbackFailing>>
    BY <1>1 DEF GetDisk, diskFlags
  <2>2. DiskTypeOK' /\ ReadByCall'
    BY <1>1, <1>t, <2>1 DEF GetDisk, DiskTypeOK, ReadByCall
  <2>3. AskedForStale' /\ FailingIffStuck'
    BY <1>1 DEF GetDisk, AskedForStale, FailingIffStuck, Settled
  <2> QED
    BY <2>2, <2>3 DEF DiskInv
<1>2. ASSUME NEW found \in [Disks -> DiskNames \cup {Absent}], DiskQuery(found)
      PROVE  DiskInv'
  <2>1. diskPc = "query" /\ diskTempGraph' = diskTempGraph /\ \A d \in Disks : temperature[d] < diskCalls
    BY <1>2, <1>t DEF DiskQuery, ReadByCall
  <2>2. Kept(found) \in [Disks -> 0..MaxDiskCalls] /\ \A d \in Disks : Kept(found)[d] < diskCalls
    BY <1>t, <2>1 DEF Kept, DiskTypeOK, ReadByCall
  <2>3. CASE diskTempGraph = "none"
    <3>1. netdataFailing' \in BOOLEAN /\ AfterGraph(found, Kept(found), {})
      BY <1>2, <2>3, Zenon DEF DiskQuery
    <3> QED
      BY <1>t, <2>1, <2>2, <3>1, AfterGraphStep DEF DiskTypeOK
  <2>4. CASE diskTempGraph # "none"
    <3>1. /\ disk' = found /\ temperature' = Kept(found) /\ diskPc' \in {"discover", "graph"}
          /\ UNCHANGED <<netdataFailing, fallbackFailing, staleUids, diskCalls, diskLast, unanswered>>
      BY <1>2, <2>4 DEF DiskQuery, diskFlags
    <3>2. DiskTypeOK'
      BY <1>t, <2>1, <2>2, <3>1 DEF DiskTypeOK
    <3>3. ReadByCall'
      BY <1>t, <2>1, <2>2, <3>1 DEF DiskTypeOK, ReadByCall
    <3> QED
      BY <3>1, <3>2, <3>3 DEF DiskInv, AskedForStale, FailingIffStuck, Settled
  <2> QED
    BY <2>3, <2>4
<1>3. CASE DiskDiscoveryFails \/ GraphFails
  <2>1. /\ diskPc \in {"discover", "graph"} /\ diskTempGraph' = diskTempGraph
        /\ AfterGraph(disk, temperature, {})
    BY <1>3 DEF DiskDiscoveryFails, GraphFails
  <2>2. netdataFailing' \in BOOLEAN
    BY <1>3, Zenon DEF DiskDiscoveryFails, GraphFails
  <2> QED
    BY <1>t, <1>temps, <2>1, <2>2, AfterGraphStep DEF DiskTypeOK, ReadByCall
<1>4. ASSUME NEW graph \in {"none", "found"}, DiskDiscover(graph)
      PROVE  DiskInv'
  <2>1. CASE graph = "none"
    <3>1. diskPc = "discover" /\ diskTempGraph' = "none" /\ AfterGraph(disk, temperature, {})
      BY <1>4, <2>1 DEF DiskDiscover
    <3>2. netdataFailing' \in BOOLEAN
      BY <1>4, <2>1, Zenon DEF DiskDiscover
    <3> QED
      BY <1>t, <1>temps, <3>1, <3>2, AfterGraphStep DEF ReadByCall
  <2>2. CASE graph = "found"
    <3>1. /\ diskPc = "discover" /\ diskPc' = "graph" /\ diskTempGraph' = "found"
          /\ UNCHANGED <<disk, temperature, netdataFailing, fallbackFailing, staleUids,
                         diskCalls, diskLast, unanswered>>
      BY <1>4, <2>2 DEF DiskDiscover, diskFlags
    <3>2. DiskTypeOK' /\ ReadByCall'
      BY <1>t, <3>1 DEF DiskTypeOK, ReadByCall
    <3> QED
      BY <3>1, <3>2 DEF DiskInv, AskedForStale, FailingIffStuck, Settled
  <2> QED
    BY <2>1, <2>2
<1>5. ASSUME NEW names \in SUBSET DiskNames, NEW owner \in [DiskNames -> Disks],
             GraphReadings(names, owner)
      PROVE  DiskInv'
  <2> DEFINE refreshed == {owner[n] : n \in {m \in names : \E d \in Held : disk[d] = m}}
  <2>1. diskPc = "graph" /\ diskTempGraph' = diskTempGraph /\ AfterGraph(disk, temperature, refreshed)
    BY <1>5 DEF GraphReadings
  <2>2. netdataFailing' \in BOOLEAN
    BY <1>5, Zenon DEF GraphReadings
  <2>3. refreshed \in SUBSET Disks
    OBVIOUS
  <2> HIDE DEF refreshed
  <2> QED
    BY <1>t, <1>temps, <2>1, <2>2, <2>3, AfterGraphStep DEF DiskTypeOK, ReadByCall
<1>6. CASE FallbackFails
  <2>1. /\ diskPc = "fallback" /\ diskPc' = "idle" /\ diskLast' = diskCalls /\ fallbackFailing' = TRUE
        /\ UNCHANGED <<disk, temperature, diskTempGraph, netdataFailing, staleUids, diskCalls,
                       unanswered>>
    BY <1>6 DEF FallbackFails
  <2>2. fallbackFailing' \in BOOLEAN
    BY <2>1, Zenon
  <2>3. DiskTypeOK' /\ ReadByCall' /\ AskedForStale'
    BY <1>t, <2>1, <2>2 DEF DiskTypeOK, ReadByCall, AskedForStale
  <2>4. \E d \in Held' : temperature'[d] # diskLast' /\ d \notin unanswered'
    BY <1>t, <2>1 DEF AskedForStale, Held, Listed
  <2>5. FailingIffStuck'
    BY <2>1, <2>4 DEF FailingIffStuck
  <2> QED
    BY <2>3, <2>5 DEF DiskInv
<1>7. ASSUME NEW names \in SUBSET DiskNames, FallbackReadings(names)
      PROVE  DiskInv'
  <2> DEFINE read_ == {d \in staleUids : disk[d] \in names}
  <2>1. /\ diskPc = "fallback" /\ diskPc' = "idle" /\ diskLast' = diskCalls /\ fallbackFailing' = FALSE
        /\ temperature' = [d \in Disks |-> IF d \in read_ THEN diskCalls ELSE temperature[d]]
        /\ unanswered' = staleUids \ read_
        /\ UNCHANGED <<disk, diskTempGraph, netdataFailing, staleUids, diskCalls>>
    BY <1>7 DEF FallbackReadings
  <2>2. fallbackFailing' \in BOOLEAN
    BY <2>1, Zenon
  <2> HIDE DEF read_
  <2>3. DiskTypeOK' /\ ReadByCall' /\ AskedForStale'
    BY <1>t, <2>1, <2>2 DEF DiskTypeOK, ReadByCall, AskedForStale
  <2>4. \A d \in Held' : temperature'[d] = diskLast' \/ d \in unanswered'
    BY <1>t, <2>1 DEF AskedForStale, Held, Listed
  <2>5. FailingIffStuck'
    BY <2>1, <2>4 DEF FailingIffStuck
  <2> QED
    BY <2>3, <2>5 DEF DiskInv
<1>8. CASE DiskRaise
  <2>1. /\ diskPc # "idle" /\ diskPc' = "idle"
        /\ UNCHANGED <<disk, temperature, diskTempGraph, netdataFailing, fallbackFailing,
                       staleUids, diskCalls, diskLast, unanswered>>
    BY <1>8 DEF DiskRaise, diskFlags
  <2>2. DiskTypeOK' /\ ReadByCall'
    BY <1>t, <2>1 DEF DiskTypeOK, ReadByCall
  <2>3. AskedForStale' /\ ~Settled'
    BY <1>t, <2>1 DEF DiskTypeOK, ReadByCall, AskedForStale, Settled
  <2> QED
    BY <2>2, <2>3 DEF DiskInv, FailingIffStuck
<1>9. CASE UNCHANGED diskVars
  <2>1. UNCHANGED <<disk, temperature, diskTempGraph, netdataFailing, fallbackFailing, diskPc,
                    staleUids, diskCalls, diskLast, unanswered>>
    BY <1>9 DEF diskVars, diskFlags
  <2> QED
    BY <1>t, <2>1 DEF DiskInv, DiskTypeOK, ReadByCall, AskedForStale, FailingIffStuck, Settled,
                      Held, Listed
<1> QED
  BY <1>1, <1>2, <1>3, <1>4, <1>5, <1>6, <1>7, <1>8, <1>9 DEF DiskNext

\* After every get_disk() that returned, _KEY_DISK_TEMP_FALLBACK is failing exactly
\* when a disk kept an older temperature that disk.temperatures did not answer for.
THEOREM DiskFailingIffStuck == DiskSpec => []FailingIffStuck
<1>1. DiskInv => FailingIffStuck
  BY DEF DiskInv
<1> QED
  BY DiskInitially, DiskStep, <1>1, PTL DEF DiskSpec

-----------------------------------------------------------------------------
(* get_systeminfo(), get_systemstats() and get_container() *)

\* Nothing is newer than the last call, and a call that is under way has not returned.
SysCounted ==
    /\ info <= infoLast /\ infoLast <= sysCalls /\ statsLast <= sysCalls
    /\ sysPc # "idle" => infoLast < sysCalls

\* What is cached was true when it was read and its key is cleared, and what a call is about to ask follows
\* from what is cached now.
Detected ==
    /\ isVirtual = "yes" => hypervisor
    /\ isVirtual = "no" => ~hypervisor
    /\ version # "none" => version = server \/ upgraded
    /\ version # "none" => ~versionFailing
    /\ isVirtual # "none" => ~virtualFailing
    /\ sysPc = "graphs" => isVirtual = "yes"
    /\ sysPc = "cputempGraphs" => isVirtual = "no" \/ (isVirtual = "none" /\ virtualFailing)
    /\ sysPc = "virtInstance" => version # "v26" /\ (version = "none" => versionFailing)
    /\ sysPc \in {"detectVirtual", "detectVersion"} =>
           (IF sysPc = "detectVirtual" THEN isVirtual ELSE version) = "none"

\* g was read by the call under way, or it will be in the stale set, or it was not asked for.
Accounted(g) ==
    stats[g] = sysCalls \/ g \in statsStale \/ (g = "cputemp" /\ isVirtual = "yes")

\* Before the throughput query every other graph is accounted for, and the throughput
\* is only ever read for interfaces.
ReadSoFar ==
    /\ sysPc = "throughput" => interfaces /\ \A g \in StatGraphs \ {"interface"} : Accounted(g)
    /\ ~interfaces => stats["interface"] = 0

SysInv ==
    SysTypeOK /\ SysCounted /\ Detected /\ ReadSoFar /\ InfoStaleIffKept /\ StatsFreshUnlessStale

LEMMA SysInitially == SysInit => SysInv
<1> SUFFICES ASSUME SysInit PROVE SysInv
  OBVIOUS
<1> USE SysAssumption
<1>1. {interfaces, infoFailing, versionFailing, virtualFailing, upgraded} \subseteq BOOLEAN
  BY Zenon DEF SysInit
<1>2. SysTypeOK
  BY <1>1 DEF SysInit, SysTypeOK
<1> QED
  BY <1>2 DEF SysInit, SysInv, SysCounted, Detected, ReadSoFar, Accounted, InfoStaleIffKept,
              StatsFreshUnlessStale

\* What a step that leaves the statistics alone has to keep for them.
LEMMA StatsUntouched ==
    ASSUME SysInv, UNCHANGED <<stats, staleGraphs, statsStale, statsLast, interfaces>>,
           isVirtual = "yes" => isVirtual' = "yes",
           sysPc' # "throughput" \/ UNCHANGED <<sysPc, sysCalls>>
    PROVE  ReadSoFar' /\ StatsFreshUnlessStale'
BY SMT DEF SysInv, ReadSoFar, Accounted, StatsFreshUnlessStale

LEMMA SysBegin ==
    ASSUME SysInv, NEW at \in {"info", "detectVirtual", "graphs", "cputempGraphs",
                               "detectVersion", "virtInstance", "containerQuery"},
           Begin(at), UNCHANGED <<appliance, info, infoFailing, infoLast, interfaces, detection,
                                  statistics>>,
           at = "graphs" => isVirtual = "yes",
           at = "cputempGraphs" => isVirtual = "no",
           at = "virtInstance" => version = "legacy",
           at = "detectVirtual" => isVirtual = "none",
           at = "detectVersion" => version = "none"
    PROVE  SysInv'
<1>t. SysTypeOK /\ SysCounted /\ Detected /\ InfoStaleIffKept
  BY DEF SysInv
<1>1. UNCHANGED <<server, hypervisor, upgraded, info, infoFailing, infoLast, interfaces, version,
                  versionFailing, isVirtual, virtualFailing, stats, statFailing, staleGraphs,
                  statsStale, statsLast>>
  BY DEF appliance, detection, statistics
<1>2. sysPc = "idle" /\ sysPc' = at /\ sysCalls < MaxSysCalls /\ sysCalls' = sysCalls + 1
  BY DEF Begin
<1>3. SysTypeOK'
  BY <1>t, <1>1, <1>2, SysAssumption DEF SysTypeOK
<1>4. SysCounted' /\ InfoStaleIffKept'
  BY <1>t, <1>1, <1>2 DEF SysTypeOK, SysCounted, InfoStaleIffKept
<1>5. Detected'
  BY <1>t, <1>1, <1>2 DEF Detected
<1>6. ReadSoFar' /\ StatsFreshUnlessStale'
  BY <1>1, <1>2, StatsUntouched
<1> QED
  BY <1>3, <1>4, <1>5, <1>6 DEF SysInv

\* A step of a call under way that leaves the statistics and the interfaces alone.
LEMMA SysDetects ==
    ASSUME SysInv, SysTypeOK', Detected', InfoStaleIffKept',
           UNCHANGED <<statistics, interfaces, sysCalls>>,
           sysPc # "idle" \/ sysPc' = "idle" \/ UNCHANGED sysPc, sysPc' # "throughput",
           \/ UNCHANGED <<info, infoLast>>
           \/ infoLast' = sysCalls /\ sysPc' = "idle" /\ (info' = info \/ info' = sysCalls),
           isVirtual = "yes" => isVirtual' = "yes"
    PROVE  SysInv'
<1>1. UNCHANGED <<stats, staleGraphs, statsStale, statsLast, interfaces, sysCalls>>
  BY DEF statistics
<1>2. ReadSoFar' /\ StatsFreshUnlessStale'
  BY <1>1, StatsUntouched
<1>t. SysTypeOK /\ SysCounted
  BY DEF SysInv
<1>3. SysCounted'
  <2>1. CASE UNCHANGED <<info, infoLast>>
    BY <1>1, <1>t, <2>1 DEF SysCounted
  <2>2. CASE infoLast' = sysCalls /\ sysPc' = "idle" /\ (info' = info \/ info' = sysCalls)
    BY <1>1, <1>t, <2>2 DEF SysCounted, SysTypeOK
  <2> QED
    BY <2>1, <2>2
<1> QED
  BY <1>2, <1>3 DEF SysInv

\* The statistics are published: every graph was read, or is in the stale set, or was
\* not asked for.
LEMMA SysPublishes ==
    ASSUME SysInv, sysPc # "idle", NEW kept \in SUBSET StatGraphs, PublishStats(kept),
           UNCHANGED <<appliance, info, infoFailing, infoLast, interfaces, detection, sysCalls>>,
           stats' \in [StatGraphs -> 0..MaxSysCalls], statFailing' \subseteq StatGraphs,
           statsStale' \subseteq StatGraphs,
           ~interfaces => stats'["interface"] = 0,
           \A g \in StatGraphs : \/ stats'[g] = sysCalls \/ g \in kept
                                 \/ g = "cputemp" /\ isVirtual = "yes"
                                 \/ g = "interface" /\ stats'[g] = 0
    PROVE  SysInv'
<1>t. SysTypeOK /\ SysCounted /\ Detected /\ InfoStaleIffKept
  BY DEF SysInv
<1>1. UNCHANGED <<server, hypervisor, upgraded, info, infoFailing, infoLast, interfaces, version,
                  versionFailing, isVirtual, virtualFailing>>
  BY DEF appliance, detection
<1>2. staleGraphs' = kept /\ statsLast' = sysCalls /\ sysPc' = "idle"
  BY DEF PublishStats
<1>3. SysTypeOK'
  BY <1>t, <1>1, <1>2 DEF SysTypeOK
<1>4. SysCounted' /\ InfoStaleIffKept'
  BY <1>t, <1>1, <1>2 DEF SysTypeOK, SysCounted, InfoStaleIffKept
<1>5. Detected'
  BY <1>t, <1>1, <1>2 DEF Detected
<1>6. ReadSoFar'
  BY <1>1, <1>2 DEF ReadSoFar
<1>7. StatsFreshUnlessStale'
  BY <1>t, <1>1, <1>2 DEF SysTypeOK, StatsFreshUnlessStale
<1> QED
  BY <1>3, <1>4, <1>5, <1>6, <1>7 DEF SysInv

\* What a reply of system.info does to the cached version...
LEMMA Noted ==
    ASSUME SysTypeOK, Detected, NEW raw \in Infos, NoteVersion(raw)
    PROVE  /\ version' \in {"none", "legacy", "v26"}
           /\ upgraded' \in BOOLEAN /\ versionFailing' \in BOOLEAN
           /\ version' = "none" => version = "none" /\ versionFailing'
           /\ version' # "none" => ~versionFailing'
           /\ \/ version' = server
              \/ version' = version /\ upgraded' = upgraded
<1>1. CASE raw.version
  <2>1. version' = server /\ upgraded' = FALSE /\ versionFailing' = FALSE
    BY <1>1 DEF NoteVersion
  <2>2. upgraded' \in BOOLEAN /\ versionFailing' \in BOOLEAN
    BY <2>1, Zenon
  <2>3. ~versionFailing'
    BY <2>1
  <2> QED
    BY <2>1, <2>2, <2>3 DEF SysTypeOK
<1>2. CASE ~raw.version
  <2>1. versionFailing' = (versionFailing \/ version = "none") /\ UNCHANGED <<version, upgraded>>
    BY <1>2 DEF NoteVersion
  <2>2. versionFailing' \in BOOLEAN
    BY <2>1, Zenon
  <2>3. version # "none" => ~versionFailing'
    BY <2>1, Zenon DEF Detected
  <2>4. version = "none" => versionFailing'
    BY <2>1, Zenon
  <2> QED
    BY <2>1, <2>2, <2>3, <2>4 DEF SysTypeOK
<1> QED
  BY <1>1, <1>2

\* ... and to the cached answer of whether the system is virtual.
LEMMA Applied ==
    ASSUME SysTypeOK, Detected, NEW raw \in Infos, ApplyVirtualDetection(raw)
    PROVE  /\ isVirtual' \in {"none", "yes", "no"} /\ virtualFailing' \in BOOLEAN
           /\ isVirtual' = "none" => isVirtual = "none" /\ virtualFailing'
           /\ isVirtual' # "none" => ~virtualFailing'
           /\ isVirtual' = "yes" => hypervisor
           /\ isVirtual' = "no" => ~hypervisor
           /\ isVirtual = "yes" => isVirtual' = "yes"
<1>1. CASE raw.maker
  <2>1. isVirtual' = (IF hypervisor THEN "yes" ELSE "no") /\ virtualFailing' = FALSE
    BY <1>1 DEF ApplyVirtualDetection
  <2>2. virtualFailing' \in BOOLEAN
    BY <2>1, Zenon
  <2>3. ~virtualFailing'
    BY <2>1
  <2> QED
    BY <2>1, <2>2, <2>3 DEF Detected
<1>2. CASE ~raw.maker
  <2>1. virtualFailing' = (virtualFailing \/ isVirtual = "none") /\ isVirtual' = isVirtual
    BY <1>2 DEF ApplyVirtualDetection
  <2>2. virtualFailing' \in BOOLEAN
    BY <2>1, Zenon
  <2>3. isVirtual # "none" => ~virtualFailing'
    BY <2>1, Zenon DEF Detected
  <2>4. isVirtual = "none" => virtualFailing'
    BY <2>1, Zenon
  <2> QED
    BY <2>1, <2>2, <2>3, <2>4 DEF SysTypeOK, Detected
<1> QED
  BY <1>1, <1>2

LEMMA SysStep == SysInv /\ [SysNext]_sysVars => SysInv'
<1> SUFFICES ASSUME SysInv, [SysNext]_sysVars PROVE SysInv'
  OBVIOUS
<1> USE SysAssumption
<1>t. SysTypeOK /\ SysCounted /\ Detected /\ ReadSoFar /\ InfoStaleIffKept /\ StatsFreshUnlessStale
  BY DEF SysInv
<1>1. CASE GetSystemInfo
  BY <1>1, SysBegin DEF GetSystemInfo
<1>2. CASE GetSystemStats
  <2> DEFINE at == IF isVirtual = "none" THEN "detectVirtual" ELSE GraphsPc(isVirtual)
  <2>1. /\ at \in {"detectVirtual", "graphs", "cputempGraphs"}
        /\ at = "graphs" => isVirtual = "yes"
        /\ at = "cputempGraphs" => isVirtual = "no"
        /\ at = "detectVirtual" => isVirtual = "none"
    BY <1>t DEF GraphsPc, SysTypeOK
  <2>2. /\ Begin(at)
        /\ UNCHANGED <<appliance, info, infoFailing, infoLast, interfaces, detection, statistics>>
    BY <1>2 DEF GetSystemStats
  <2> HIDE DEF at
  <2> QED
    BY <2>1, <2>2, SysBegin
<1>3. CASE GetContainer
  <2> DEFINE at == IF version = "none" THEN "detectVersion" ELSE ContainerPc(version)
  <2>1. /\ at \in {"detectVersion", "virtInstance", "containerQuery"}
        /\ at = "virtInstance" => version = "legacy"
        /\ at = "detectVersion" => version = "none"
    BY <1>t DEF ContainerPc, SysTypeOK
  <2>2. /\ Begin(at)
        /\ UNCHANGED <<appliance, info, infoFailing, infoLast, interfaces, detection, statistics>>
    BY <1>3 DEF GetContainer
  <2> HIDE DEF at
  <2> QED
    BY <2>1, <2>2, SysBegin
<1>4. CASE GetInterfaces
  <2>1. /\ sysPc = "idle" /\ interfaces' = ~interfaces /\ stats' = [stats EXCEPT !["interface"] = 0]
        /\ UNCHANGED <<server, hypervisor, upgraded, info, infoFailing, infoLast, version,
                       versionFailing, isVirtual, virtualFailing, statFailing, staleGraphs,
                       statsStale, statsLast, sysPc, sysCalls>>
    BY <1>4 DEF GetInterfaces, appliance, detection
  <2>2. interfaces' \in BOOLEAN
    BY <2>1, Zenon
  <2>3. SysTypeOK'
    BY <1>t, <2>1, <2>2 DEF SysTypeOK
  <2>4. SysCounted' /\ InfoStaleIffKept' /\ Detected'
    BY <1>t, <2>1 DEF SysCounted, InfoStaleIffKept, Detected
  <2>5. stats'["interface"] = 0 /\ \A g \in StatGraphs \ {"interface"} : stats'[g] = stats[g]
    BY <1>t, <2>1 DEF SysTypeOK
  <2>6. ReadSoFar'
    BY <2>1, <2>5 DEF ReadSoFar
  <2>7. StatsFreshUnlessStale'
    BY <1>t, <2>1, <2>5 DEF StatsFreshUnlessStale
  <2> QED
    BY <2>3, <2>4, <2>6, <2>7 DEF SysInv
<1>5. ASSUME NEW raw \in Infos, SystemInfo(raw)
      PROVE  SysInv'
  <2>1. /\ sysPc = "info" /\ sysPc' = "idle" /\ infoLast' = sysCalls
        /\ UNCHANGED <<server, hypervisor, interfaces, statistics, sysCalls>>
    BY <1>5 DEF SystemInfo
  <2>2. UNCHANGED <<stats, statFailing, staleGraphs, statsStale, statsLast>>
    BY <2>1 DEF statistics
  <2>3. CASE raw.kind # "dict"
    <3>1. infoFailing' = TRUE /\ UNCHANGED <<info, upgraded, version, versionFailing, isVirtual,
                                            virtualFailing>>
      BY <1>5, <2>3 DEF SystemInfo, detection
    <3>2. infoFailing' \in BOOLEAN
      BY <3>1, Zenon
    <3>3. SysTypeOK'
      BY <1>t, <2>1, <2>2, <3>1, <3>2 DEF SysTypeOK
    <3>4. Detected' /\ InfoStaleIffKept'
      BY <1>t, <2>1, <3>1 DEF Detected, InfoStaleIffKept, SysCounted, SysTypeOK
    <3> QED
      BY <2>1, <3>1, <3>3, <3>4, SysDetects
  <2>4. CASE raw.kind = "dict"
    <3>1. infoFailing' = FALSE /\ info' = sysCalls /\ NoteVersion(raw) /\ ApplyVirtualDetection(raw)
      BY <1>5, <2>4 DEF SystemInfo
    <3>2. infoFailing' \in BOOLEAN
      BY <3>1, Zenon
    <3>3. SysTypeOK'
      BY <1>t, <2>1, <2>2, <3>1, <3>2, Noted, Applied DEF SysTypeOK
    <3>4. Detected' /\ InfoStaleIffKept'
      BY <1>t, <2>1, <3>1, Noted, Applied DEF Detected, InfoStaleIffKept, SysTypeOK
    <3> QED
      BY <1>t, <2>1, <3>1, <3>3, <3>4, SysDetects, Applied
  <2> QED
    BY <2>3, <2>4
<1>6. ASSUME NEW raw \in Infos, DetectVirtual(raw)
      PROVE  SysInv'
  <2>1. /\ sysPc = "detectVirtual" /\ sysPc' = GraphsPc(isVirtual')
        /\ UNCHANGED <<server, hypervisor, upgraded, info, infoFailing, infoLast, interfaces,
                       version, versionFailing, statistics, sysCalls>>
    BY <1>6 DEF DetectVirtual, appliance
  <2>2. UNCHANGED <<stats, statFailing, staleGraphs, statsStale, statsLast>>
    BY <2>1 DEF statistics
  <2>3. /\ virtualFailing' \in BOOLEAN /\ isVirtual' \in {"none", "yes", "no"}
        /\ isVirtual' = "none" => virtualFailing'
        /\ isVirtual' # "none" => ~virtualFailing'
        /\ isVirtual' = "yes" => hypervisor
        /\ isVirtual' = "no" => ~hypervisor
    <3>1. CASE ApplyVirtualDetection(raw)
      BY <1>t, <2>1, <3>1, Applied DEF Detected
    <3>2. CASE DetectFails /\ UNCHANGED isVirtual
      <4>1. virtualFailing' = TRUE
        BY <3>2 DEF DetectFails
      <4>2. virtualFailing' \in BOOLEAN
        BY <4>1, Zenon
      <4> QED
        BY <1>t, <2>1, <3>2, <4>1, <4>2 DEF Detected, SysTypeOK
    <3> QED
      BY <1>6, <3>1, <3>2 DEF DetectVirtual
  <2>4. sysPc' \in {"graphs", "cputempGraphs"}
    BY <2>1 DEF GraphsPc
  <2>5. SysTypeOK'
    BY <1>t, <2>1, <2>2, <2>3, <2>4 DEF SysTypeOK
  <2>6. Detected' /\ InfoStaleIffKept'
    BY <1>t, <2>1, <2>3, <2>4 DEF Detected, InfoStaleIffKept, GraphsPc
  <2> QED
    BY <1>t, <2>1, <2>4, <2>5, <2>6, SysDetects DEF Detected
<1>7. ASSUME NEW raw \in Infos, DetectVersion(raw)
      PROVE  SysInv'
  <2>1. /\ sysPc = "detectVersion" /\ sysPc' = ContainerPc(version') /\ NoteVersion(raw)
        /\ UNCHANGED <<server, hypervisor, info, infoFailing, infoLast, interfaces, isVirtual,
                       virtualFailing, statistics, sysCalls>>
    BY <1>7 DEF DetectVersion, DetectVersionKey
  <2>2. UNCHANGED <<stats, statFailing, staleGraphs, statsStale, statsLast>>
    BY <2>1 DEF statistics
  <2>3. sysPc' \in {"virtInstance", "containerQuery"} /\ (sysPc' = "virtInstance" => version' # "v26")
    BY <2>1 DEF ContainerPc
  <2>4. SysTypeOK'
    BY <1>t, <2>1, <2>2, <2>3, Noted DEF SysTypeOK
  <2>5. Detected' /\ InfoStaleIffKept'
    BY <1>t, <2>1, <2>3, Noted DEF Detected, InfoStaleIffKept
  <2> QED
    BY <2>1, <2>3, <2>4, <2>5, SysDetects
<1>8. CASE DetectVirtualError
  <2>1. /\ sysPc = "detectVirtual" /\ sysPc' = "cputempGraphs" /\ virtualFailing' = TRUE
        /\ UNCHANGED <<server, hypervisor, upgraded, info, infoFailing, infoLast, interfaces,
                       version, versionFailing, isVirtual, statistics, sysCalls>>
    BY <1>8 DEF DetectVirtualError, DetectFails, appliance
  <2>2. UNCHANGED <<stats, statFailing, staleGraphs, statsStale, statsLast>>
    BY <2>1 DEF statistics
  <2>3. virtualFailing' \in BOOLEAN
    BY <2>1, Zenon
  <2>4. SysTypeOK'
    BY <1>t, <2>1, <2>2, <2>3 DEF SysTypeOK
  <2>5. Detected' /\ InfoStaleIffKept'
    BY <1>t, <2>1 DEF Detected, InfoStaleIffKept
  <2> QED
    BY <2>1, <2>4, <2>5, SysDetects
<1>9. CASE ContainerReply \/ SysRaise
  <2>1. /\ sysPc' = "idle" /\ UNCHANGED <<statistics, sysCalls>>
        /\ UNCHANGED <<server, hypervisor, upgraded, info, infoFailing, infoLast, interfaces,
                       version, versionFailing, isVirtual, virtualFailing>>
    BY <1>9 DEF ContainerReply, SysRaise, appliance, detection
  <2>2. UNCHANGED <<stats, statFailing, staleGraphs, statsStale, statsLast>>
    BY <2>1 DEF statistics
  <2>3. SysTypeOK'
    BY <1>t, <2>1, <2>2 DEF SysTypeOK
  <2>4. Detected' /\ InfoStaleIffKept'
    BY <1>t, <2>1 DEF Detected, InfoStaleIffKept
  <2> QED
    BY <2>1, <2>3, <2>4, SysDetects
<1>10. CASE Upgrade
  <2>1. /\ sysPc = "idle" /\ server' = "v26" /\ upgraded' = (version # "none")
        /\ UNCHANGED <<hypervisor, info, infoFailing, infoLast, interfaces, version, versionFailing,
                       isVirtual, virtualFailing, statistics, sysPc, sysCalls>>
    BY <1>10 DEF Upgrade, detection
  <2>2. UNCHANGED <<stats, statFailing, staleGraphs, statsStale, statsLast>>
    BY <2>1 DEF statistics
  <2>3. upgraded' \in BOOLEAN
    BY <2>1, Zenon
  <2>4. SysTypeOK'
    BY <1>t, <2>1, <2>2, <2>3 DEF SysTypeOK
  <2>5. Detected' /\ InfoStaleIffKept'
    BY <1>t, <2>1 DEF Detected, InfoStaleIffKept
  <2> QED
    BY <2>1, <2>4, <2>5, SysDetects
<1>11. ASSUME NEW results \in [StatGraphs -> StatResults], SystemStatGraphs(results)
       PROVE  SysInv'
  <2> DEFINE missed == {g \in Queried : results[g] # "reading"}
  <2>1. /\ sysPc \in {"graphs", "cputempGraphs"}
        /\ stats' = [g \in StatGraphs |->
                        IF g \in Queried /\ results[g] = "reading" THEN sysCalls ELSE stats[g]]
        /\ UNCHANGED <<appliance, info, infoFailing, infoLast, interfaces, detection, sysCalls>>
    BY <1>11 DEF SystemStatGraphs
  <2>2. /\ stats' \in [StatGraphs -> 0..MaxSysCalls] /\ stats'["interface"] = stats["interface"]
        /\ missed \subseteq StatGraphs
    BY <1>t, <2>1 DEF SysTypeOK, Queried
  <2>3. \A g \in StatGraphs \ {"interface"} :
            stats'[g] = sysCalls \/ g \in missed \/ (g = "cputemp" /\ isVirtual = "yes")
    BY <1>t, <2>1 DEF Queried, Detected
  <2>4. CASE interfaces
    <3>1. /\ sysPc' = "throughput" /\ statsStale' = missed
          /\ statFailing' = (statFailing \ Queried) \cup missed
          /\ UNCHANGED <<staleGraphs, statsLast>>
      BY <1>11, <2>4 DEF SystemStatGraphs
    <3>2. UNCHANGED <<server, hypervisor, upgraded, info, infoFailing, infoLast, interfaces,
                      version, versionFailing, isVirtual, virtualFailing, sysCalls>>
      BY <2>1 DEF appliance, detection
    <3> HIDE DEF missed
    <3>3. SysTypeOK'
      BY <1>t, <2>2, <3>1, <3>2 DEF SysTypeOK
    <3>4. SysCounted' /\ Detected' /\ InfoStaleIffKept'
      BY <1>t, <2>1, <3>1, <3>2 DEF SysCounted, Detected, InfoStaleIffKept
    <3>5. ReadSoFar'
      BY <2>3, <2>4, <3>1, <3>2 DEF ReadSoFar, Accounted
    <3>6. \A g \in StatGraphs : stats'[g] = stats[g] \/ stats'[g] = sysCalls
      BY <2>1
    <3>7. StatsFreshUnlessStale'
      BY <1>t, <3>1, <3>2, <3>6 DEF StatsFreshUnlessStale, SysCounted, SysTypeOK
    <3> QED
      BY <3>3, <3>4, <3>5, <3>7 DEF SysInv
  <2>5. CASE ~interfaces
    <3>1. /\ PublishStats(missed) /\ statsStale' = statsStale
          /\ statFailing' = (statFailing \ (Queried \cup {"interface"})) \cup missed
      BY <1>11, <2>5 DEF SystemStatGraphs
    <3>2. stats'["interface"] = 0
      BY <1>t, <2>2, <2>5 DEF ReadSoFar
    <3> HIDE DEF missed
    <3>3. statFailing' \subseteq StatGraphs /\ statsStale' \subseteq StatGraphs
      BY <1>t, <2>2, <3>1 DEF SysTypeOK
    <3> QED
      BY <2>1, <2>2, <2>3, <3>1, <3>2, <3>3, SysPublishes
  <2> QED
    BY <2>4, <2>5
<1>12. ASSUME NEW results \in [StatGraphs -> StatResults], RaiseStat(results)
       PROVE  SysInv'
  <2>1. /\ sysPc \in {"graphs", "cputempGraphs"} /\ sysPc' = "idle"
        /\ UNCHANGED <<server, hypervisor, upgraded, info, infoFailing, infoLast, interfaces,
                       version, versionFailing, isVirtual, virtualFailing, sysCalls>>
        /\ UNCHANGED <<staleGraphs, statsStale, statsLast>>
    BY <1>12 DEF RaiseStat, appliance, detection
  <2>2. PICK done_ \in SUBSET Queried : ApplySystemStats(done_, results)
    BY <1>12 DEF RaiseStat
  <2>3. done_ \subseteq StatGraphs \ {"interface"}
    BY DEF Queried
  <2>4. /\ stats' \in [StatGraphs -> 0..MaxSysCalls] /\ stats'["interface"] = stats["interface"]
        /\ \A g \in StatGraphs : stats'[g] = stats[g] \/ stats'[g] = sysCalls
    BY <1>t, <2>2, <2>3 DEF ApplySystemStats, SysTypeOK
  <2>5. statFailing' \subseteq StatGraphs
    BY <1>t, <2>2, <2>3 DEF ApplySystemStats, SysTypeOK
  <2>6. SysTypeOK'
    BY <1>t, <2>1, <2>4, <2>5 DEF SysTypeOK
  <2>7. SysCounted' /\ Detected' /\ InfoStaleIffKept'
    BY <1>t, <2>1 DEF SysCounted, Detected, InfoStaleIffKept
  <2>8. ReadSoFar'
    BY <1>t, <2>1, <2>4 DEF ReadSoFar
  <2>9. StatsFreshUnlessStale'
    BY <1>t, <2>1, <2>4 DEF StatsFreshUnlessStale, SysCounted, SysTypeOK
  <2> QED
    BY <2>6, <2>7, <2>8, <2>9 DEF SysInv
<1>13. ASSUME NEW result \in StatResults, InterfaceThroughput(result)
       PROVE  SysInv'
  <2> DEFINE kept == IF result = "reading" THEN statsStale ELSE statsStale \cup {"interface"}
  <2>1. /\ sysPc = "throughput" /\ PublishStats(kept) /\ statsStale' = {}
        /\ UNCHANGED <<appliance, info, infoFailing, infoLast, interfaces, detection, sysCalls>>
    BY <1>13 DEF InterfaceThroughput
  <2>2. interfaces /\ \A g \in StatGraphs \ {"interface"} : Accounted(g)
    BY <1>t, <2>1 DEF ReadSoFar
  <2>3. /\ stats' = [g \in StatGraphs |->
                        IF g = "interface" /\ result = "reading" THEN sysCalls ELSE stats[g]]
        /\ statFailing' \subseteq StatGraphs
    BY <1>13, <1>t DEF InterfaceThroughput, ApplySystemStats, SysTypeOK
  <2>4. stats' \in [StatGraphs -> 0..MaxSysCalls]
    BY <1>t, <2>3 DEF SysTypeOK
  <2>5. \A g \in StatGraphs : \/ stats'[g] = sysCalls \/ g \in kept
                              \/ g = "cputemp" /\ isVirtual = "yes"
    BY <2>2, <2>3 DEF Accounted
  <2>6. kept \in SUBSET StatGraphs
    BY <1>t DEF SysTypeOK
  <2> HIDE DEF kept
  <2> QED
    BY <2>1, <2>2, <2>3, <2>4, <2>5, <2>6, SysPublishes
<1>14. CASE UNCHANGED sysVars
  <2>1. UNCHANGED <<server, hypervisor, upgraded, info, infoFailing, infoLast, interfaces,
                    version, versionFailing, isVirtual, virtualFailing, sysPc, sysCalls,
                    stats, statFailing, staleGraphs, statsStale, statsLast>>
    BY <1>14 DEF sysVars, appliance, detection, statistics
  <2>2. SysTypeOK' /\ SysCounted' /\ Detected' /\ InfoStaleIffKept'
    BY <1>t, <2>1 DEF SysTypeOK, SysCounted, Detected, InfoStaleIffKept
  <2>3. ReadSoFar' /\ StatsFreshUnlessStale'
    BY <1>t, <2>1 DEF ReadSoFar, Accounted, StatsFreshUnlessStale
  <2> QED
    BY <2>2, <2>3 DEF SysInv
<1> QED
  BY <1>1, <1>2, <1>3, <1>4, <1>5, <1>6, <1>7, <1>8, <1>9, <1>10, <1>11, <1>12, <1>13, <1>14
     DEF SysNext

\* "system_info" is stale exactly when the last get_systeminfo() that returned kept
\* what was there, whatever get_systemstats() and get_container() got from system.info.
THEOREM SystemInfoStaleIffKept == SysSpec => []InfoStaleIffKept
<1>1. SysInv => InfoStaleIffKept
  BY DEF SysInv
<1> QED
  BY SysInitially, SysStep, <1>1, PTL DEF SysSpec

\* A statistic that the last get_systemstats() did not read is listed in
\* systemstats_stale_graphs, "cputemp" of a virtual system and the throughput without
\* interfaces apart.
THEOREM SystemStatsFreshUnlessStale == SysSpec => []StatsFreshUnlessStale
<1>1. SysInv => StatsFreshUnlessStale
  BY DEF SysInv
<1> QED
  BY SysInitially, SysStep, <1>1, PTL DEF SysSpec

\* A default that is wrong has its key set while it is used, and is never cached: a
\* version and a kind of system that are cached were reported by the appliance.
THEOREM SystemDetectionHonest == SysSpec => []DetectionHonest
<1>1. SysInv => DetectionHonest
  BY DEF SysInv, SysTypeOK, Detected, DetectionHonest
<1> QED
  BY SysInitially, SysStep, <1>1, PTL DEF SysSpec

-----------------------------------------------------------------------------
(* get_directoryservices(), get_alerts(), get_smb(), get_update() and get_arc() *)

\* Whose call awaits the RPC at.
EndpointOf(at) ==
    CASE at \in {"dsConfig", "dsStatus"} -> "directoryservices"
      [] at \in {"smbEnable", "smb"} -> "smb"
      [] OTHER -> at

\* Nothing is newer than the last call; a call under way is the last of its endpoint,
\* and nothing was read by it yet.
FlatCounted ==
    /\ \A e \in Endpoints : read[e] <= flatCalls /\ tried[e] <= flatCalls /\ done[e] <= flatCalls
    /\ \A i \in 1..ArcGraphs : arc[i] <= flatCalls
    /\ dsStatus <= flatCalls /\ smbQueries <= flatCalls
UnderWay ==
    flatPc # "idle" =>
        /\ \A e \in Endpoints : read[e] < flatCalls /\ done[e] < flatCalls
        /\ \A i \in 1..ArcGraphs : arc[i] < flatCalls
        /\ dsStatus < flatCalls /\ (flatPc = "smbEnable" => smbQueries < flatCalls)
        /\ tried[EndpointOf(flatPc)] = flatCalls

\* Once refused, get_smb() is not asking, and its key is set.
RefusedForGood == smbDenied => "smb" \in flatFailing /\ flatPc \notin {"smbEnable", "smb"}

\* The status is asked for after a configuration that was usable.
ConfigUsable == flatPc = "dsStatus" => "dsConfig" \notin flatFailing

MarkedIffKept(e) == tried[e] = done[e] => (e \in FlatStale <=> KeptBy(e))

FlatInv ==
    /\ FlatTypeOK /\ FlatCounted /\ UnderWay /\ RefusedForGood /\ ConfigUsable
    /\ \A e \in Endpoints : MarkedIffKept(e)

LEMMA FlatInitially == FlatInit => FlatInv
<1> SUFFICES ASSUME FlatInit PROVE FlatInv
  OBVIOUS
<1> USE FlatAssumption
<1>1. smbDenied \in BOOLEAN
  BY Zenon DEF FlatInit
<1>2. FlatTypeOK
  BY <1>1 DEF FlatInit, FlatTypeOK, FlatCalls
<1>3. \A e \in Endpoints : MarkedIffKept(e)
  BY DEF FlatInit, MarkedIffKept, FlatStale, KeptBy
<1> QED
  BY <1>2, <1>3 DEF FlatInit, FlatInv, FlatCounted, UnderWay, RefusedForGood, ConfigUsable

\* The end of every call: what it read is of this call, everything else as it was.
LEMMA FlatReturns ==
    ASSUME FlatInv, flatPc # "idle", NEW e \in Endpoints, e = EndpointOf(flatPc),
           NEW fresh \in SUBSET {e}, Return(e, fresh),
           dsStatus' = dsStatus \/ (e = "directoryservices" /\ dsStatus' = flatCalls),
           arc' = arc \/ (e = "arc" /\ arc' = [i \in 1..ArcGraphs |-> flatCalls]),
           smbQueries' = smbQueries, arcDone' \in 0..(ArcGraphs - 1),
           flatFailing' \subseteq FlatKeys,
           \A x \in Endpoints : x # e => (x \in FlatStale' <=> x \in FlatStale),
           e \in FlatStale' <=> KeptBy(e)',
           smbDenied' \in BOOLEAN, smbDenied' => "smb" \in flatFailing'
    PROVE  FlatInv'
<1> USE FlatAssumption
<1>t. FlatTypeOK /\ FlatCounted /\ UnderWay /\ \A x \in Endpoints : MarkedIffKept(x)
  BY DEF FlatInv
<1>1. /\ read' = [x \in Endpoints |-> IF x \in fresh THEN flatCalls ELSE read[x]]
      /\ done' = [done EXCEPT ![e] = flatCalls]
      /\ flatPc' = "idle" /\ UNCHANGED <<flatCalls, tried>>
  BY DEF Return
<1>2. /\ done' \in [Endpoints -> FlatCalls] /\ read' \in [Endpoints -> FlatCalls]
      /\ \A x \in Endpoints : x # e => done'[x] = done[x] /\ read'[x] = read[x]
  BY <1>t, <1>1 DEF FlatTypeOK
<1>3. FlatTypeOK'
  BY <1>t, <1>1, <1>2 DEF FlatTypeOK, FlatCalls
<1>4. FlatCounted'
  BY <1>t, <1>1, <1>2 DEF FlatTypeOK, FlatCounted, FlatCalls
<1>5. ASSUME NEW x \in Endpoints PROVE MarkedIffKept(x)'
  <2>1. CASE x = e
    BY <2>1 DEF MarkedIffKept
  <2>2. CASE x # e
    <3>1. tried'[x] = tried[x] /\ done'[x] = done[x] /\ read'[x] = read[x]
      BY <1>1, <1>2, <2>2
    <3>2. KeptBy(x)' <=> KeptBy(x)
      BY <3>1, <2>2 DEF KeptBy
    <3>3. MarkedIffKept(x) /\ (x \in FlatStale' <=> x \in FlatStale)
      BY <1>t, <2>2
    <3> QED
      BY <3>1, <3>2, <3>3 DEF MarkedIffKept
  <2> QED
    BY <2>1, <2>2
<1> QED
  BY <1>1, <1>3, <1>4, <1>5 DEF FlatInv, UnderWay, RefusedForGood, ConfigUsable

LEMMA FlatStep == FlatInv /\ [FlatNext]_flatVars => FlatInv'
<1> SUFFICES ASSUME FlatInv, [FlatNext]_flatVars PROVE FlatInv'
  OBVIOUS
<1> USE FlatAssumption
<1>t. /\ FlatTypeOK /\ FlatCounted /\ UnderWay /\ RefusedForGood /\ ConfigUsable
      /\ \A e \in Endpoints : MarkedIffKept(e)
  BY DEF FlatInv
<1>1. ASSUME NEW e \in Endpoints, GetFlat(e)
      PROVE  FlatInv'
  <2>1. /\ flatPc = "idle" /\ flatCalls < MaxFlatCalls /\ flatCalls' = flatCalls + 1 /\ arcDone' = 0
        /\ flatPc' = FirstRpc(e) /\ tried' = [tried EXCEPT ![e] = flatCalls + 1]
        /\ done' = IF FirstRpc(e) = "idle" THEN [done EXCEPT ![e] = flatCalls + 1] ELSE done
        /\ UNCHANGED <<read, dsStatus, arc, flatFailing, smbDenied, smbQueries>>
    BY <1>1 DEF GetFlat, flatData
  <2>2. /\ FirstRpc(e) \in {"idle", "dsConfig", "alerts", "smbEnable", "update", "arc"}
        /\ FirstRpc(e) = "idle" <=> e = "smb" /\ smbDenied
        /\ FirstRpc(e) # "idle" => EndpointOf(FirstRpc(e)) = e
        /\ smbDenied => FirstRpc(e) # "smbEnable"
    BY DEF FirstRpc, SmbPc, EndpointOf, Endpoints
  <2>3. /\ tried' \in [Endpoints -> FlatCalls] /\ done' \in [Endpoints -> FlatCalls]
        /\ tried'[e] = flatCalls + 1
        /\ done'[e] = IF FirstRpc(e) = "idle" THEN flatCalls + 1 ELSE done[e]
        /\ \A x \in Endpoints : x # e => tried'[x] = tried[x] /\ done'[x] = done[x]
    BY <1>t, <2>1 DEF FlatTypeOK, FlatCalls
  <2>4. FlatTypeOK'
    BY <1>t, <2>1, <2>2, <2>3 DEF FlatTypeOK, FlatCalls
  <2>5. FlatCounted'
    BY <1>t, <2>1, <2>3 DEF FlatTypeOK, FlatCounted, FlatCalls
  <2>6. UnderWay'
    BY <1>t, <2>1, <2>2, <2>3 DEF FlatTypeOK, FlatCounted, UnderWay, FlatCalls
  <2>7. RefusedForGood' /\ ConfigUsable'
    BY <1>t, <2>1, <2>2 DEF RefusedForGood, ConfigUsable
  <2>8. ASSUME NEW x \in Endpoints PROVE MarkedIffKept(x)'
    <3>1. CASE x # e
      BY <1>t, <2>1, <2>3, <3>1 DEF MarkedIffKept, KeptBy, FlatStale
    <3>2. CASE x = e /\ FirstRpc(e) # "idle"
      <4>1. tried'[x] # done'[x]
        BY <1>t, <2>3, <3>2 DEF FlatTypeOK, FlatCounted, FlatCalls
      <4> QED
        BY <4>1 DEF MarkedIffKept
    <3>3. CASE x = e /\ FirstRpc(e) = "idle"
      <4>1. e = "smb" /\ smbDenied /\ "smb" \in flatFailing'
        BY <1>t, <2>1, <2>2, <3>3 DEF RefusedForGood
      <4>2. read'[x] # done'[x]
        BY <1>t, <2>1, <2>3, <3>3 DEF FlatTypeOK, FlatCounted, FlatCalls
      <4> QED
        BY <3>3, <4>1, <4>2 DEF MarkedIffKept, KeptBy, FlatStale
    <3> QED
      BY <3>1, <3>2, <3>3
  <2> QED
    BY <2>4, <2>5, <2>6, <2>7, <2>8 DEF FlatInv
<1>2. ASSUME NEW raw \in {"malformed", "disabled", "enabled"}, DsConfig(raw)
      PROVE  FlatInv'
  <2>1. /\ flatPc = "dsConfig" /\ UNCHANGED <<arc, smbDenied, smbQueries, arcDone>>
        /\ EndpointOf(flatPc) = "directoryservices"
    BY <1>2 DEF DsConfig, EndpointOf
  <2>2. CASE raw = "malformed"
    <3>1. /\ flatFailing' = flatFailing \cup {"dsConfig"} /\ dsStatus' = dsStatus
          /\ Return("directoryservices", {})
      BY <1>2, <2>2 DEF DsConfig, Note
    <3>2. KeptBy("directoryservices")'
      BY <1>t, <2>1, <3>1 DEF Return, KeptBy, UnderWay, FlatTypeOK, FlatCalls, Endpoints
    <3> QED
      BY <1>t, <2>1, <3>1, <3>2, FlatReturns DEF FlatTypeOK, FlatStale, FlatKeys, Endpoints,
                                                 RefusedForGood
  <2>3. CASE raw = "disabled"
    <3>1. /\ flatFailing' = flatFailing \ {"dsConfig", "dsStatus"} /\ dsStatus' = flatCalls
          /\ Return("directoryservices", {"directoryservices"})
      BY <1>2, <2>3 DEF DsConfig, Note
    <3>2. ~KeptBy("directoryservices")'
      BY <1>t, <3>1 DEF Return, KeptBy, FlatTypeOK, Endpoints
    <3> QED
      BY <1>t, <2>1, <3>1, <3>2, FlatReturns DEF FlatTypeOK, FlatStale, FlatKeys, Endpoints,
                                                 RefusedForGood
  <2>4. CASE raw = "enabled"
    <3>1. /\ flatFailing' = flatFailing \ {"dsConfig"} /\ flatPc' = "dsStatus"
          /\ UNCHANGED <<read, dsStatus, flatCalls, tried, done>>
      BY <1>2, <2>4 DEF DsConfig, Note
    <3>2. FlatTypeOK' /\ FlatCounted'
      BY <1>t, <2>1, <3>1 DEF FlatTypeOK, FlatCounted
    <3>3. UnderWay' /\ RefusedForGood' /\ ConfigUsable'
      BY <1>t, <2>1, <3>1 DEF UnderWay, RefusedForGood, ConfigUsable, EndpointOf
    <3>4. \A e \in Endpoints : MarkedIffKept(e)'
      <4>1. tried'["directoryservices"] # done'["directoryservices"]
        BY <1>t, <2>1, <3>1 DEF UnderWay, FlatTypeOK, FlatCalls, Endpoints
      <4>2. \A e \in Endpoints \ {"directoryservices"} : e \in FlatStale' <=> e \in FlatStale
        BY <3>1 DEF FlatStale
      <4> QED
        BY <1>t, <2>1, <3>1, <4>1, <4>2 DEF MarkedIffKept, KeptBy
    <3> QED
      BY <3>2, <3>3, <3>4 DEF FlatInv
  <2> QED
    BY <2>2, <2>3, <2>4
<1>3. ASSUME NEW raw \in {"malformed", "junk", "empty", "alerts"}, Alerts(raw)
      PROVE  FlatInv'
  <2> DEFINE fresh == IF AlertsUsable(raw) THEN {"alerts"} ELSE {}
  <2>1. /\ flatPc = "alerts" /\ Return("alerts", fresh)
        /\ UNCHANGED <<dsStatus, arc, smbDenied, smbQueries, arcDone>>
        /\ flatFailing' = IF AlertsUsable(raw) THEN flatFailing \ {"alerts"}
                          ELSE flatFailing \cup {"alerts"}
    BY <1>3 DEF Alerts, Note
  <2>2. EndpointOf(flatPc) = "alerts"
    BY <2>1 DEF EndpointOf
  <2>3. KeptBy("alerts")' <=> ~AlertsUsable(raw)
    BY <1>t, <2>1 DEF Return, KeptBy, UnderWay, FlatTypeOK, FlatCalls, Endpoints
  <2> QED
    BY <1>t, <2>1, <2>2, <2>3, FlatReturns DEF FlatTypeOK, FlatStale, FlatKeys, Endpoints,
                                               RefusedForGood
<1>4. ASSUME NEW usable \in BOOLEAN, DsStatus(usable)
      PROVE  FlatInv'
  <2>1. /\ flatPc = "dsStatus" /\ Return("directoryservices", {"directoryservices"})
        /\ UNCHANGED <<arc, smbDenied, smbQueries, arcDone>>
        /\ dsStatus' = IF usable THEN flatCalls ELSE dsStatus
        /\ flatFailing' = IF usable THEN flatFailing \ {"dsStatus"}
                          ELSE flatFailing \cup {"dsStatus"}
    BY <1>4 DEF DsStatus, Note
  <2>2. EndpointOf(flatPc) = "directoryservices" /\ "dsConfig" \notin flatFailing
    BY <1>t, <2>1 DEF EndpointOf, ConfigUsable
  <2>3. KeptBy("directoryservices")' <=> ~usable
    BY <1>t, <2>1 DEF Return, KeptBy, UnderWay, FlatTypeOK, FlatCalls, Endpoints
  <2>4. "directoryservices" \in FlatStale' <=> ~usable
    BY <2>1, <2>2 DEF FlatStale
  <2>5. \A x \in Endpoints \ {"directoryservices"} : x \in FlatStale' <=> x \in FlatStale
    BY <2>1 DEF FlatStale
  <2> QED
    BY <1>t, <2>1, <2>2, <2>3, <2>4, <2>5, FlatReturns DEF FlatTypeOK, FlatKeys, Endpoints,
                                                           RefusedForGood
<1>5. ASSUME NEW usable \in BOOLEAN, SmbStatus(usable)
      PROVE  FlatInv'
  <2> DEFINE fresh == IF usable THEN {"smb"} ELSE {}
  <2>1. /\ flatPc = "smb" /\ Return("smb", fresh)
        /\ UNCHANGED <<dsStatus, arc, smbDenied, smbQueries, arcDone>>
        /\ flatFailing' = IF usable THEN flatFailing \ {"smb"} ELSE flatFailing \cup {"smb"}
    BY <1>5 DEF SmbStatus, Note
  <2>2. EndpointOf(flatPc) = "smb" /\ ~smbDenied
    BY <1>t, <2>1 DEF EndpointOf, RefusedForGood
  <2>3. KeptBy("smb")' <=> ~usable
    BY <1>t, <2>1 DEF Return, KeptBy, UnderWay, FlatTypeOK, FlatCalls, Endpoints
  <2> QED
    BY <1>t, <2>1, <2>2, <2>3, FlatReturns DEF FlatTypeOK, FlatStale, FlatKeys, Endpoints
<1>6. ASSUME NEW refused \in BOOLEAN, SmbError(refused)
      PROVE  FlatInv'
  <2>1. /\ flatPc \in {"smbEnable", "smb"} /\ Return("smb", {}) /\ smbDenied' = refused
        /\ flatFailing' = flatFailing \cup {"smb"}
        /\ UNCHANGED <<dsStatus, arc, smbQueries, arcDone>>
    BY <1>6 DEF SmbError, Note
  <2>2. EndpointOf(flatPc) = "smb"
    BY <2>1 DEF EndpointOf
  <2>3. KeptBy("smb")'
    <3>1. read["smb"] < flatCalls /\ read["smb"] \in Nat /\ flatCalls \in Nat
      BY <1>t, <2>1 DEF UnderWay, FlatTypeOK, FlatCalls, Endpoints
    <3>2. read'["smb"] = read["smb"] /\ done'["smb"] = flatCalls
      BY <1>t, <2>1 DEF Return, FlatTypeOK, Endpoints
    <3> QED
      BY <3>1, <3>2 DEF KeptBy
  <2>4. smbDenied' \in BOOLEAN
    BY <2>1, Zenon
  <2> QED
    BY <1>t, <2>1, <2>2, <2>3, <2>4, FlatReturns DEF FlatTypeOK, FlatStale, FlatKeys, Endpoints
<1>7. CASE SmbEnabled
  <2>1. /\ flatPc = "smbEnable" /\ flatPc' = "smb" /\ smbQueries' = smbQueries + 1
        /\ UNCHANGED <<read, dsStatus, arc, flatFailing, smbDenied, arcDone, flatCalls, tried, done>>
    BY <1>7 DEF SmbEnabled, flatData
  <2>2. FlatTypeOK' /\ FlatCounted'
    BY <1>t, <2>1 DEF FlatTypeOK, FlatCalls, FlatCounted, UnderWay
  <2>3. UnderWay' /\ RefusedForGood' /\ ConfigUsable'
    BY <1>t, <2>1 DEF UnderWay, RefusedForGood, ConfigUsable, EndpointOf
  <2>4. \A e \in Endpoints : MarkedIffKept(e)'
    BY <1>t, <2>1 DEF MarkedIffKept, KeptBy, FlatStale
  <2> QED
    BY <2>2, <2>3, <2>4 DEF FlatInv
<1>8. CASE UpdateStatus
  <2>1. /\ flatPc = "update" /\ Return("update", {"update"})
        /\ UNCHANGED <<dsStatus, arc, flatFailing, smbDenied, smbQueries, arcDone>>
    BY <1>8 DEF UpdateStatus
  <2>2. EndpointOf(flatPc) = "update"
    BY <2>1 DEF EndpointOf
  <2>3. ~KeptBy("update")'
    BY <1>t, <2>1 DEF Return, KeptBy, FlatTypeOK, Endpoints
  <2> QED
    BY <1>t, <2>1, <2>2, <2>3, FlatReturns DEF FlatTypeOK, FlatStale, Endpoints, RefusedForGood
<1>9. CASE ArcGraph
  <2>1. /\ flatPc = "arc" /\ arc' = ArcWith(arcDone + 1)
        /\ UNCHANGED <<dsStatus, flatFailing, smbDenied, smbQueries>>
    BY <1>9 DEF ArcGraph
  <2>2. CASE arcDone + 1 < ArcGraphs
    <3>1. arcDone' = arcDone + 1 /\ UNCHANGED <<read, flatPc, flatCalls, tried, done>>
      BY <1>9, <2>2, <1>t DEF ArcGraph, FlatTypeOK
    <3>2. arc' = arc
      BY <1>t, <2>1, <2>2 DEF ArcWith, FlatTypeOK
    <3>3. arcDone' \in 0..(ArcGraphs - 1)
      BY <1>t, <2>2, <3>1 DEF FlatTypeOK
    <3>4. FlatTypeOK' /\ FlatCounted'
      BY <1>t, <2>1, <3>1, <3>2, <3>3 DEF FlatTypeOK, FlatCounted
    <3>5. UnderWay' /\ RefusedForGood' /\ ConfigUsable'
      BY <1>t, <2>1, <3>1, <3>2 DEF UnderWay, RefusedForGood, ConfigUsable, EndpointOf
    <3>6. \A e \in Endpoints : MarkedIffKept(e)'
      BY <1>t, <2>1, <3>1, <3>2 DEF MarkedIffKept, KeptBy, FlatStale
    <3> QED
      BY <3>4, <3>5, <3>6 DEF FlatInv
  <2>3. CASE arcDone + 1 = ArcGraphs
    <3>1. arcDone' = 0 /\ Return("arc", {"arc"})
      BY <1>9, <2>3, <1>t DEF ArcGraph, FlatTypeOK
    <3>2. arc' = [i \in 1..ArcGraphs |-> flatCalls]
      BY <2>1, <2>3 DEF ArcWith
    <3>3. ~KeptBy("arc")'
      BY <1>t, <3>1, <3>2 DEF Return, KeptBy, FlatTypeOK, Endpoints
    <3>4. EndpointOf(flatPc) = "arc"
      BY <2>1 DEF EndpointOf
    <3> QED
      BY <1>t, <2>1, <3>1, <3>2, <3>3, <3>4, FlatReturns DEF FlatTypeOK, FlatStale, Endpoints,
                                                             RefusedForGood
  <2> QED
    BY <1>9, <2>2, <2>3 DEF ArcGraph
<1>10. CASE FlatRaise
  <2>1. /\ flatPc' = "idle" /\ arcDone' = 0
        /\ UNCHANGED <<read, dsStatus, arc, flatFailing, smbDenied, smbQueries, flatCalls, tried, done>>
    BY <1>10 DEF FlatRaise, flatData
  <2>2. FlatTypeOK' /\ FlatCounted'
    BY <1>t, <2>1 DEF FlatTypeOK, FlatCounted
  <2>3. UnderWay' /\ RefusedForGood' /\ ConfigUsable'
    BY <1>t, <2>1 DEF UnderWay, RefusedForGood, ConfigUsable
  <2>4. \A e \in Endpoints : MarkedIffKept(e)'
    BY <1>t, <2>1 DEF MarkedIffKept, KeptBy, FlatStale
  <2> QED
    BY <2>2, <2>3, <2>4 DEF FlatInv
<1>11. CASE UNCHANGED flatVars
  <2>1. UNCHANGED <<read, dsStatus, arc, flatFailing, smbDenied, smbQueries, flatPc, arcDone,
                    flatCalls, tried, done>>
    BY <1>11 DEF flatVars, flatData
  <2>2. FlatTypeOK' /\ FlatCounted'
    BY <1>t, <2>1 DEF FlatTypeOK, FlatCounted
  <2>3. UnderWay' /\ RefusedForGood' /\ ConfigUsable'
    BY <1>t, <2>1 DEF UnderWay, RefusedForGood, ConfigUsable
  <2>4. \A e \in Endpoints : MarkedIffKept(e)'
    BY <1>t, <2>1 DEF MarkedIffKept, KeptBy, FlatStale
  <2> QED
    BY <2>2, <2>3, <2>4 DEF FlatInv
<1> QED
  BY <1>1, <1>2, <1>3, <1>4, <1>5, <1>6, <1>7, <1>8, <1>9, <1>10, <1>11 DEF FlatNext

\* After a call of get_directoryservices(), get_alerts(), get_smb(), get_update() or
\* get_arc() that returned, its endpoint is in stale_endpoints exactly when ds[e] holds
\* something that the call did not read, whatever the other four did since.
THEOREM FlatStaleIffKept == FlatSpec => []StaleIffKept
<1>1. FlatInv => StaleIffKept
  BY DEF FlatInv, MarkedIffKept, StaleIffKept
<1> QED
  BY FlatInitially, FlatStep, <1>1, PTL DEF FlatSpec

\* Once smb.status was refused it is not called again, the count is kept and "smb" stays
\* stale: the refusal is final, as the comment on _smb_denied says.
THEOREM SmbDeniedForGood == FlatSpec => DeniedForGood
<1>1. FlatInv /\ [FlatNext]_flatVars =>
          [smbDenied => smbDenied' /\ "smb" \in FlatStale' /\ UNCHANGED <<read["smb"], smbQueries>>]_flatVars
  <2> SUFFICES ASSUME FlatInv, FlatNext, smbDenied
               PROVE  smbDenied' /\ "smb" \in FlatStale' /\ UNCHANGED <<read["smb"], smbQueries>>
    OBVIOUS
  <2>1. flatPc \notin {"smbEnable", "smb"} /\ "smb" \in flatFailing /\ read \in [Endpoints -> FlatCalls]
    BY DEF FlatInv, RefusedForGood, FlatTypeOK
  <2>2. smbDenied' = smbDenied /\ smbQueries' = smbQueries
    BY <2>1 DEF FlatNext, GetFlat, DsConfig, DsStatus, Alerts, SmbEnabled, SmbStatus, SmbError,
                UpdateStatus, ArcGraph, FlatRaise
  <2>3. "smb" \in flatFailing'
    BY <2>1 DEF FlatNext, GetFlat, DsConfig, DsStatus, Alerts, SmbEnabled, SmbStatus, SmbError,
                UpdateStatus, ArcGraph, FlatRaise, Note
  <2>4. read'["smb"] = read["smb"]
    BY <2>1 DEF FlatNext, GetFlat, DsConfig, DsStatus, Alerts, SmbEnabled, SmbStatus, SmbError,
                UpdateStatus, ArcGraph, FlatRaise, Return, flatData, Endpoints
  <2> QED
    BY <2>2, <2>3, <2>4 DEF FlatStale
<1> QED
  BY FlatInitially, FlatStep, <1>1, PTL DEF FlatSpec, DeniedForGood

-----------------------------------------------------------------------------
(* _apply_pool_capacity() *)

\* Division, as far as the rounding needs it.
LEMMA QuotientBounds ==
    ASSUME NEW n \in Nat, NEW w \in Nat, w > 0, n <= 100 * w
    PROVE  /\ n \div w \in 0..100 /\ n % w \in 0..(w - 1)
           /\ n \div w = 100 => n % w = 0
<1> DEFINE q == n \div w
<1> DEFINE r == n % w
<1>1. q \in Int /\ r \in 0..(w - 1)
  OBVIOUS
<1>2. n = q * w + r
  OBVIOUS
<1> HIDE DEF q, r
<1>3. q <= 100
  <2> SUFFICES ASSUME q >= 101 PROVE FALSE
    BY <1>1
  <2>1. q * w >= 101 * w
    BY <1>1
  <2> QED
    BY <1>1, <1>2, <2>1
<1>4. q >= 0
  <2> SUFFICES ASSUME q <= -1 PROVE FALSE
    BY <1>1
  <2>1. q * w <= (-1) * w
    BY <1>1
  <2> QED
    BY <1>1, <1>2, <2>1
<1>5. q = 100 => r = 0
  BY <1>1, <1>2
<1> QED
  BY <1>1, <1>3, <1>4, <1>5 DEF q, r

\* round(100 * part / whole) is a percentage.
LEMMA PercentIsOne ==
    ASSUME NEW part \in Nat, NEW whole \in Nat, whole > 0, part <= whole
    PROVE  Percent(part, whole) \in 0..100
<1>1. 100 * part \in Nat /\ 100 * part <= 100 * whole
  OBVIOUS
<1> DEFINE n == 100 * part
<1>2. /\ n \div whole \in 0..100 /\ n % whole \in 0..(whole - 1)
      /\ n \div whole = 100 => n % whole = 0
  BY <1>1, QuotientBounds
<1> QED
  BY <1>2 DEF Percent

\* The entry that is derived from a size t of which a is available.
Derived(f, a, t) ==
    [free |-> f, size |-> t, allocated |-> t - a, available |-> a, total |-> t,
     usage |-> Percent(t - a, t)]
Plausible(a, t) == a \in Int /\ t \in Int /\ t > 0 /\ 0 <= a /\ a <= t
MaybeFigure == Int \cup {NoFigure}

LEMMA DerivedFits ==
    ASSUME NEW f, NEW a, NEW t, Plausible(a, t) PROVE FitTogether(Derived(f, a, t))
<1>1. Percent(t - a, t) \in 0..100
  BY PercentIsOne DEF Plausible
<1> QED
  BY <1>1 DEF FitTogether, Derived, Plausible

\* What _apply_pool_capacity() makes of any figures at all.
LEMMA CapacityDerived ==
    ASSUME NEW avail \in MaybeFigure, NEW used \in MaybeFigure, NEW total \in MaybeFigure,
           NEW f, NEW vals, NEW root, vals.free = f,
           (IF root # NoRoot THEN RootCapacity(root) ELSE PoolQueryCapacity(vals))
               = [available |-> avail, used |-> used, total |-> total]
    PROVE  \/ ApplyPoolCapacity(vals, root) = Unknown
           \/ /\ Plausible(avail, total)
              /\ ApplyPoolCapacity(vals, root) = Derived(f, avail, total)
<1> USE PoolCapacityAssumption DEF MaybeFigure
<1> DEFINE c == [available |-> avail, used |-> used, total |-> total]
<1>1. CASE NoFigure \in {avail, total}
  BY <1>1 DEF ApplyPoolCapacity
<1>2. CASE NoFigure \notin {avail, total} /\ ~IsPlausibleCapacity(avail, total, used)
  BY <1>2 DEF ApplyPoolCapacity
<1>3. CASE NoFigure \notin {avail, total} /\ IsPlausibleCapacity(avail, total, used)
  <2>1. avail \in Int /\ total \in Int /\ Plausible(avail, total)
    BY <1>3 DEF IsPlausibleCapacity, Plausible
  <2>2. Allocated(c) = total - avail
    BY <2>1 DEF Allocated
  <2> QED
    BY <1>3, <2>1, <2>2 DEF ApplyPoolCapacity, Derived
<1> QED
  BY <1>1, <1>2, <1>3

\* An entry is unknown, or derived from a plausible capacity; that of the boot pool is
\* derived from the figures it reports itself, so deriving it again changes nothing.
CapacityInv ==
    /\ entry = asRead
    /\ \/ entry = Unknown
       \/ \E f \in MaybeFigure, a \in Int, t \in Int :
             Plausible(a, t) /\ entry = Derived(f, a, t) /\ (capacityOf = "boot" => f = a)

LEMMA CapacityStep == CapacityInv /\ [CapacityNext]_capacityVars => CapacityInv'
<1> SUFFICES ASSUME CapacityInv, [CapacityNext]_capacityVars PROVE CapacityInv'
  OBVIOUS
<1> USE PoolCapacityAssumption
<1>1. ASSUME NEW vals \in PoolFigures, BootRead(vals) PROVE CapacityInv'
  <2> DEFINE total == IF vals.size # NoFigure /\ vals.size > 0 THEN vals.size
                      ELSE SumOrNone(vals.allocated, vals.free)
  <2>1. vals.free \in MaybeFigure /\ vals.allocated \in MaybeFigure /\ vals.size \in MaybeFigure
    BY DEF PoolFigures, Reported, MaybeFigure
  <2>2. total \in MaybeFigure
    BY <2>1 DEF MaybeFigure, SumOrNone
  <2>3. PoolQueryCapacity(vals) = [available |-> vals.free, used |-> vals.allocated, total |-> total]
    BY DEF PoolQueryCapacity
  <2> HIDE DEF total
  <2>4. \/ ApplyPoolCapacity(vals, NoRoot) = Unknown
        \/ /\ Plausible(vals.free, total)
           /\ ApplyPoolCapacity(vals, NoRoot) = Derived(vals.free, vals.free, total)
    BY <2>1, <2>2, <2>3, CapacityDerived
  <2> QED
    BY <1>1, <2>1, <2>4 DEF BootRead, CapacityInv, Plausible
<1>2. ASSUME NEW vals \in PoolFigures, NEW root \in RootDatasets, PoolRead(vals, root)
      PROVE  CapacityInv'
  <2>1. vals.free \in MaybeFigure /\ vals.allocated \in MaybeFigure /\ vals.size \in MaybeFigure
    BY DEF PoolFigures, Reported, MaybeFigure
  <2>2. \E avail \in MaybeFigure, used \in MaybeFigure, total \in MaybeFigure :
            (IF root # NoRoot THEN RootCapacity(root) ELSE PoolQueryCapacity(vals))
                = [available |-> avail, used |-> used, total |-> total]
    <3>1. CASE root = NoRoot
      <4> DEFINE total == IF vals.size # NoFigure /\ vals.size > 0 THEN vals.size
                          ELSE SumOrNone(vals.allocated, vals.free)
      <4>1. total \in MaybeFigure
        BY <2>1 DEF MaybeFigure, SumOrNone
      <4>2. PoolQueryCapacity(vals)
                = [available |-> vals.free, used |-> vals.allocated, total |-> total]
        BY DEF PoolQueryCapacity
      <4> QED
        BY <2>1, <3>1, <4>1, <4>2
    <3>2. CASE root # NoRoot
      <4>1. root.available \in MaybeFigure /\ root.used \in MaybeFigure
        BY <3>2 DEF RootDatasets, Reported, MaybeFigure
      <4>2. SumOrNone(root.available, root.used) \in MaybeFigure
        BY <4>1 DEF MaybeFigure, SumOrNone
      <4> QED
        BY <3>2, <4>1, <4>2 DEF RootCapacity
    <3> QED
      BY <3>1, <3>2
  <2>3. \/ entry' = Unknown
        \/ \E a \in MaybeFigure, t \in MaybeFigure :
              Plausible(a, t) /\ entry' = Derived(vals.free, a, t)
    <3>1. PICK avail \in MaybeFigure, used \in MaybeFigure, total \in MaybeFigure :
              (IF root # NoRoot THEN RootCapacity(root) ELSE PoolQueryCapacity(vals))
                  = [available |-> avail, used |-> used, total |-> total]
      BY <2>2
    <3>2. \/ ApplyPoolCapacity(vals, root) = Unknown
          \/ /\ Plausible(avail, total)
             /\ ApplyPoolCapacity(vals, root) = Derived(vals.free, avail, total)
      BY <3>1, CapacityDerived
    <3>3. entry' = ApplyPoolCapacity(vals, root)
      BY <1>2 DEF PoolRead
    <3> QED
      BY <3>2, <3>3
  <2> QED
    BY <1>2, <2>1, <2>3 DEF PoolRead, CapacityInv, Plausible
<1>3. CASE BootCarried
  <2>1. capacityOf = "boot" /\ entry' = ApplyPoolCapacity(entry, NoRoot) /\ entry = asRead
        /\ UNCHANGED <<capacityOf, asRead>>
    BY <1>3 DEF BootCarried, CapacityInv
  <2>2. CASE entry = Unknown
    <3>1. ApplyPoolCapacity(Unknown, NoRoot) = Unknown
      BY DEF ApplyPoolCapacity, PoolQueryCapacity, Unknown
    <3> QED
      BY <2>1, <2>2, <3>1 DEF CapacityInv
  <2>3. ASSUME NEW a \in Int, NEW t \in Int, Plausible(a, t), entry = Derived(a, a, t)
        PROVE  CapacityInv'
    <3>1. PoolQueryCapacity(entry) = [available |-> a, used |-> t - a, total |-> t]
      BY <2>3 DEF PoolQueryCapacity, Derived, Plausible
    <3>2. IsPlausibleCapacity(a, t, t - a) /\ NoFigure \notin {a, t}
      BY <2>3 DEF IsPlausibleCapacity, Plausible
    <3>3. entry.free = a
      BY <2>3 DEF Derived
    <3>4. ApplyPoolCapacity(entry, NoRoot) = Derived(a, a, t)
      BY <2>3, <3>1, <3>2, <3>3 DEF ApplyPoolCapacity, Allocated, Derived
    <3> QED
      BY <2>1, <2>3, <3>4 DEF CapacityInv, MaybeFigure
  <2> QED
    BY <2>1, <2>2, <2>3 DEF CapacityInv
<1>4. CASE UNCHANGED capacityVars
  BY <1>4 DEF CapacityInv, capacityVars
<1> QED
  BY <1>1, <1>2, <1>3, <1>4 DEF CapacityNext

\* Whatever numbers the server reports of a pool, the figures of its entry fit together,
\* and deriving those of a carried over entry again leaves it as it was read.
THEOREM PoolCapacityAddsUp == CapacitySpec => []CapacityAddsUp
<1>1. CapacityInit => CapacityInv
  BY DEF CapacityInit, CapacityInv
<1>2. CapacityInv => CapacityAddsUp
  BY DerivedFits DEF CapacityInv, CapacityAddsUp, FitTogether
<1> QED
  BY <1>1, CapacityStep, <1>2, PTL DEF CapacitySpec

=============================================================================
