------------------------------ MODULE SystemState ------------------------------
(***************************************************************************)
(* The methods of TrueNASState (domain/state.py) that depend on            *)
(* system.info: get_systeminfo(), get_systemstats() and get_container(),   *)
(* and the two things they cache from it for each other: the version,      *)
(* which decides what get_container() queries, and whether the system is   *)
(* virtual, which decides whether get_systemstats() queries "cputemp".     *)
(*                                                                         *)
(* The lock is held over a whole call.  A value is represented by the      *)
(* number of the call that read it, 0 for the seeded default.              *)
(***************************************************************************)
EXTENDS Naturals

CONSTANTS
    StatGraphs,  \* _SYSTEMSTATS_GRAPHS and "interface", the throughput graph
    MaxSysCalls  \* bound on the calls of a behaviour

ASSUME SysAssumption == MaxSysCalls \in Nat /\ {"cputemp", "interface"} \subseteq StatGraphs

VARIABLES
    \* the appliance: its version, and whether it runs on a hypervisor
    server, hypervisor,
    info,            \* ds["system_info"], as far as system.info fills it
    stats,           \* what each graph feeds: ds["system_info"], ds["interface"]
    interfaces,      \* ds["interface"] is not empty
    version,         \* _version: "none", "legacy" (before 26.0) or "v26"
    isVirtual,       \* _is_virtual: "none", "yes" or "no"
    infoFailing, versionFailing, virtualFailing,
                     \* _KEY_SYSTEM_INFO, _KEY_DETECT_VERSION, _KEY_DETECT_VIRTUAL
    statFailing,     \* the graphs whose key is in _fallback_failing
    staleGraphs,     \* _systemstats_stale_graphs
    sysPc,           \* "idle", or the await of the call in flight
    statsStale,      \* the local stale of get_systemstats()
    sysCalls,        \* how many calls there were
    infoLast, statsLast, \* the last get_systeminfo() and get_systemstats() that returned
    upgraded         \* the appliance was upgraded since the version was cached

appliance == <<server, hypervisor, upgraded>>
detection == <<version, versionFailing, isVirtual, virtualFailing>>
statistics == <<stats, statFailing, staleGraphs, statsStale, statsLast>>
sysVars == <<appliance, info, infoFailing, infoLast, interfaces, detection, statistics,
             sysPc, sysCalls>>

\* What a netdata graph's query may end with.
StatResults == {"reading", "unusable", "error", "exception"}
\* A system.info reply: no dict, {}, or a dict whose version and whose
\* manufacturer or product are usable or not.
Infos == [kind: {"malformed", "empty"}, version: {FALSE}, maker: {FALSE}]
             \cup [kind: {"dict"}, version: BOOLEAN, maker: BOOLEAN]

SysTypeOK ==
    /\ server \in {"legacy", "v26"} /\ hypervisor \in BOOLEAN /\ upgraded \in BOOLEAN
    /\ info \in 0..MaxSysCalls /\ infoLast \in 0..MaxSysCalls /\ statsLast \in 0..MaxSysCalls
    /\ stats \in [StatGraphs -> 0..MaxSysCalls]
    /\ version \in {"none", "legacy", "v26"} /\ isVirtual \in {"none", "yes", "no"}
    /\ {interfaces, infoFailing, versionFailing, virtualFailing} \subseteq BOOLEAN
    /\ statFailing \subseteq StatGraphs
    /\ staleGraphs \subseteq StatGraphs /\ statsStale \subseteq StatGraphs
    /\ sysPc \in {"idle", "info", "detectVirtual", "graphs", "cputempGraphs", "throughput",
                  "detectVersion", "virtInstance", "containerQuery"}
    /\ sysCalls \in 0..MaxSysCalls

SysInit ==
    /\ server \in {"legacy", "v26"} /\ hypervisor \in BOOLEAN /\ upgraded = FALSE
    /\ info = 0 /\ infoLast = 0 /\ statsLast = 0
    /\ stats = [g \in StatGraphs |-> 0]
    /\ interfaces = FALSE
    /\ version = "none" /\ isVirtual = "none"
    /\ infoFailing = FALSE /\ versionFailing = FALSE /\ virtualFailing = FALSE
    /\ statFailing = {} /\ staleGraphs = {} /\ statsStale = {}
    /\ sysPc = "idle" /\ sysCalls = 0

-----------------------------------------------------------------------------
(* Parts of several actions *)

\* Definitions named Fault... are faulty variants of the definition they precede.

\* The version in a reply is cached; one without is a failure while none is cached.
NoteVersion(raw) ==
    \/ /\ raw.version
       /\ version' = server
       /\ upgraded' = FALSE
       /\ versionFailing' = FALSE
    \/ /\ ~raw.version
       /\ versionFailing' = (versionFailing \/ version = "none")
       /\ UNCHANGED <<version, upgraded>>

FaultApplyVirtualDetection(raw) ==
    /\ isVirtual' = IF raw.maker /\ hypervisor THEN "yes" ELSE "no"
    /\ virtualFailing' = ~raw.maker
\* _apply_virtual_detection
ApplyVirtualDetection(raw) ==
    \/ /\ raw.maker
       /\ isVirtual' = IF hypervisor THEN "yes" ELSE "no"
       /\ virtualFailing' = FALSE
    \/ /\ ~raw.maker
       /\ virtualFailing' = (virtualFailing \/ isVirtual = "none")
       /\ UNCHANGED isVirtual

Begin(pc) ==
    /\ sysPc = "idle" /\ sysCalls < MaxSysCalls
    /\ sysCalls' = sysCalls + 1
    /\ sysPc' = pc

-----------------------------------------------------------------------------
(* get_systeminfo() *)

GetSystemInfo ==
    /\ Begin("info")
    /\ UNCHANGED <<appliance, info, infoFailing, infoLast, interfaces, detection, statistics>>

SystemInfo(raw) ==
    /\ sysPc = "info"
    /\ \/ /\ raw.kind # "dict"
          /\ infoFailing' = TRUE
          /\ UNCHANGED <<info, detection, upgraded>>
       \/ /\ raw.kind = "dict"
          /\ infoFailing' = FALSE
          /\ info' = sysCalls
          /\ NoteVersion(raw)
          /\ ApplyVirtualDetection(raw)
    /\ infoLast' = sysCalls
    /\ sysPc' = "idle"
    /\ UNCHANGED <<server, hypervisor, interfaces, statistics, sysCalls>>

-----------------------------------------------------------------------------
(* get_systemstats() *)

\* The graphs are queried, "cputemp" among them unless the system is known to be virtual.
GraphsPc(virtual) == IF virtual = "yes" THEN "graphs" ELSE "cputempGraphs"

GetSystemStats ==
    /\ Begin(IF isVirtual = "none" THEN "detectVirtual" ELSE GraphsPc(isVirtual))
    /\ UNCHANGED <<appliance, info, infoFailing, infoLast, interfaces, detection, statistics>>

FaultDetectFails == UNCHANGED virtualFailing
DetectFails == virtualFailing' = TRUE
\* _detect_virtual: a failure counts as not virtual, for this call only.
DetectVirtual(raw) ==
    /\ sysPc = "detectVirtual"
    /\ \/ raw.kind # "malformed" /\ ApplyVirtualDetection(raw)
       \/ raw.kind = "malformed" /\ DetectFails /\ UNCHANGED isVirtual
    /\ sysPc' = GraphsPc(isVirtual')
    /\ UNCHANGED <<appliance, info, infoFailing, infoLast, interfaces, version, versionFailing,
                   statistics, sysCalls>>

DetectVirtualError ==
    /\ sysPc = "detectVirtual"
    /\ DetectFails
    /\ sysPc' = "cputempGraphs"
    /\ UNCHANGED <<appliance, info, infoFailing, infoLast, interfaces, version, versionFailing,
                   isVirtual, statistics, sysCalls>>

Queried == StatGraphs \ (IF sysPc = "graphs" THEN {"cputemp", "interface"} ELSE {"interface"})

\* The results of the graphs in S are applied, each in place and with its key.
ApplySystemStats(S, results) ==
    /\ stats' = [g \in StatGraphs |->
                    IF g \in S /\ results[g] = "reading" THEN sysCalls ELSE stats[g]]
    /\ statFailing' = (statFailing \ S) \cup {g \in S : results[g] # "reading"}

FaultPublishStats(stale) ==
    /\ staleGraphs' = staleGraphs \cap stale
    /\ statsLast' = sysCalls
    /\ sysPc' = "idle"
PublishStats(stale) ==
    /\ staleGraphs' = stale
    /\ statsLast' = sysCalls
    /\ sysPc' = "idle"

\* All queries ended.  Without interfaces the throughput is not queried, and its
\* key is dropped.
SystemStatGraphs(results) ==
    LET missed == {g \in Queried : results[g] # "reading"} IN
    /\ sysPc \in {"graphs", "cputempGraphs"}
    /\ \A g \in Queried : results[g] # "exception"
    /\ stats' = [g \in StatGraphs |->
                    IF g \in Queried /\ results[g] = "reading" THEN sysCalls ELSE stats[g]]
    /\ \/ /\ interfaces
          /\ sysPc' = "throughput"
          /\ statFailing' = (statFailing \ Queried) \cup missed
          /\ statsStale' = missed
          /\ UNCHANGED <<staleGraphs, statsLast>>
       \/ /\ ~interfaces
          /\ statFailing' = (statFailing \ (Queried \cup {"interface"})) \cup missed
          /\ PublishStats(missed)
          /\ UNCHANGED statsStale
    /\ UNCHANGED <<appliance, info, infoFailing, infoLast, interfaces, detection, sysCalls>>

\* One query ended with another exception, raised when its turn comes: the results
\* before it in the order of _SYSTEMSTATS_GRAPHS are applied, here any of them.
RaiseStat(results) ==
    /\ sysPc \in {"graphs", "cputempGraphs"}
    /\ \E bad \in Queried : results[bad] = "exception"
    /\ \E done \in SUBSET {g \in Queried : results[g] # "exception"} :
           ApplySystemStats(done, results)
    /\ sysPc' = "idle"
    /\ UNCHANGED <<appliance, info, infoFailing, infoLast, interfaces, detection,
                   staleGraphs, statsStale, statsLast, sysCalls>>

\* The throughput graph's answer: a reading for some interface, or not.
InterfaceThroughput(result) ==
    /\ sysPc = "throughput"
    /\ result # "exception"
    /\ ApplySystemStats({"interface"}, [g \in {"interface"} |-> result])
    /\ PublishStats(IF result = "reading" THEN statsStale ELSE statsStale \cup {"interface"})
    /\ statsStale' = {}
    /\ UNCHANGED <<appliance, info, infoFailing, infoLast, interfaces, detection, sysCalls>>

\* get_interface() published interfaces, or none (see QueryState); new records
\* start with rates of 0.
GetInterfaces ==
    /\ sysPc = "idle"
    /\ interfaces' = ~interfaces
    /\ stats' = [stats EXCEPT !["interface"] = 0]
    /\ UNCHANGED <<appliance, info, infoFailing, infoLast, detection, statFailing,
                   staleGraphs, statsStale, statsLast, sysPc, sysCalls>>

-----------------------------------------------------------------------------
(* get_container() *)

\* container.query from 26.0 on, virt.instance.query before and by default.
ContainerPc(v) == IF v = "v26" THEN "containerQuery" ELSE "virtInstance"

GetContainer ==
    /\ Begin(IF version = "none" THEN "detectVersion" ELSE ContainerPc(version))
    /\ UNCHANGED <<appliance, info, infoFailing, infoLast, interfaces, detection, statistics>>

FaultDetectVersionKey(raw) == infoFailing' = (raw.kind = "malformed")
\* _detect_version leaves get_systeminfo()'s key alone.
DetectVersionKey(raw) == UNCHANGED infoFailing
\* _detect_version: no dict and no version are the same to it.
DetectVersion(raw) ==
    /\ sysPc = "detectVersion"
    /\ NoteVersion(raw)
    /\ DetectVersionKey(raw)
    /\ sysPc' = ContainerPc(version')
    /\ UNCHANGED <<server, hypervisor, info, infoLast, interfaces, isVirtual, virtualFailing,
                   statistics, sysCalls>>

\* The query answered; the records are QueryState's subject.
ContainerReply ==
    /\ sysPc \in {"virtInstance", "containerQuery"}
    /\ sysPc' = "idle"
    /\ UNCHANGED <<appliance, info, infoFailing, infoLast, interfaces, detection, statistics,
                   sysCalls>>

-----------------------------------------------------------------------------

\* A call is cancelled, or an RPC whose error it does not catch raised.
SysRaise ==
    /\ sysPc # "idle"
    /\ sysPc' = "idle"
    /\ UNCHANGED <<appliance, info, infoFailing, infoLast, interfaces, detection, statistics,
                   sysCalls>>

\* The appliance is upgraded: it reboots, every call in flight fails, and the
\* program connects again, with the same TrueNASState.
Upgrade ==
    /\ sysPc = "idle" /\ server = "legacy"
    /\ server' = "v26"
    /\ upgraded' = (version # "none")
    /\ UNCHANGED <<hypervisor, info, infoFailing, infoLast, interfaces, detection, statistics,
                   sysPc, sysCalls>>

SysNext ==
    \/ GetSystemInfo \/ GetSystemStats \/ GetContainer \/ GetInterfaces
    \/ \E raw \in Infos : SystemInfo(raw) \/ DetectVirtual(raw) \/ DetectVersion(raw)
    \/ DetectVirtualError \/ ContainerReply \/ SysRaise \/ Upgrade
    \/ \E results \in [StatGraphs -> StatResults] : SystemStatGraphs(results) \/ RaiseStat(results)
    \/ \E result \in StatResults : InterfaceThroughput(result)

SysSpec == SysInit /\ [][SysNext]_sysVars

-----------------------------------------------------------------------------

\* "system_info" is stale exactly when the last get_systeminfo() that returned
\* kept what was there, whatever the detections of other methods got from the
\* same RPC since ("a refresh it never performed").
InfoStaleIffKept == infoFailing <=> info # infoLast

\* A statistic that the last get_systemstats() did not read is listed in
\* systemstats_stale_graphs; two are not read at all: "cputemp" of a virtual
\* system, and the throughput before there are interfaces.
StatsFreshUnlessStale ==
    \A g \in StatGraphs :
        stats[g] < statsLast =>
            \/ g \in staleGraphs
            \/ g = "cputemp" /\ isVirtual = "yes"
            \/ g = "interface" /\ stats[g] = 0

\* A default never passes for what the appliance is.  Where get_container() uses the API
\* of another version, or get_systemstats() asks a virtual system for "cputemp", the key
\* of the failed detection is set; and no default is remembered: what is cached is what
\* the appliance said, and its key is not failing, so that a detection that failed is
\* tried again (the docstring of _detect_virtual: caching the default "would otherwise
\* permanently and silently misremember a virtualized system as physical").
DetectionHonest ==
    /\ sysPc = "virtInstance" /\ server = "v26" /\ ~upgraded => versionFailing
    /\ sysPc = "cputempGraphs" /\ hypervisor => virtualFailing
    /\ version # "none" => ~versionFailing /\ (version = server \/ upgraded)
    /\ isVirtual # "none" => ~virtualFailing /\ (isVirtual = "yes" <=> hypervisor)

\* get_container() queries what "the connected TrueNAS version" has, or has
\* warned that it does not know it.
ConnectedVersionDecides == sysPc = "virtInstance" /\ server = "v26" => versionFailing
=============================================================================
