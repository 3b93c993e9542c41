------------------------------ MODULE QueryState ------------------------------
(***************************************************************************)
(* The endpoints of TrueNASState (domain/state.py) that one ....query call *)
(* refreshes, and parse_api (domain/_normalize.py), which merges the reply *)
(* into the cached map in place.                                           *)
(*                                                                         *)
(* A get_... method touches its own map and its own key of                 *)
(* _fallback_failing only, and runs under the lock from its await to its   *)
(* return, so a behaviour follows one endpoint and a call is one action.   *)
(* Of each record only the fields that a derivation reads are kept.        *)
(***************************************************************************)
EXTENDS Integers, SequencesExt

CONSTANTS
    Endpoints,   \* the endpoints a behaviour may follow
    Uids,        \* the identities the server may report
    MemoryRead,  \* what vm.query may report as memory
    MemoryBytes, \* what virt.instance.query may
    CpuText,     \* the text of a number, 2
    MaxEntries,  \* bound on the entries of a reply
    MaxRate,     \* bound on a throughput reading
    Absent, Null,\* a field that is missing, that is null
    NotList,     \* a reply that is neither a list nor a dict
    NotDict,     \* an entry that is not a dict
    Unhashable,  \* an id that is a list or a dict
    Garbage,     \* a value of an unexpected type
    Foreign      \* an identity the server never reports

ASSUME QueryStateAssumption ==
    /\ MaxEntries \in Nat /\ MaxRate \in Nat
    /\ {Absent, Null, Unhashable, Foreign} \cap Uids = {}
    /\ {Absent, Null, Garbage, CpuText} \cap Int = {}
    /\ MemoryRead \subseteq Nat \cup {Null, Garbage}
    /\ MemoryBytes \subseteq Nat \cup {Absent, Null, Garbage}

VARIABLES
    ep,        \* the endpoint this behaviour follows
    ds,        \* ds[ep]: uid -> record
    failing,   \* the endpoint's key is in _fallback_failing
    expected,  \* what ds[ep] should be, from the last usable reply alone
    fellBack,  \* parse_api took the last reply for a failed query
    raised     \* the last call raised after it had merged the reply

vars == <<ep, ds, failing, expected, fellBack, raised>>

EmptyMap == [u \in {} |-> 0]

\* The fields of f, and those of g that f lacks.
Over(f, g) == [x \in DOMAIN f \cup DOMAIN g |-> IF x \in DOMAIN f THEN f[x] ELSE g[x]]

\* The endpoints that report a fallback: _note_primary_query_outcome.
Noted == {"service", "vm", "interface", "scrub"}

\* The modelled fields of an endpoint's value specs and what a reply may hold.
Raw(e) ==
    CASE e = "service" -> [state : {Absent, "RUNNING"},
                           name : {Absent, "unknown", "given"},
                           service : {Absent, "ssh"}]
      [] e = "vm" -> [memory : MemoryRead \cup {Absent}, status : {Absent, "RUNNING"}]
      [] e = "interface" -> [link_state : {Absent, "LINK_STATE_UP", "LINK_STATE_DOWN"}]
      [] e = "replication" -> [state : {Absent, Null, "unknown", "FINISHED"},
                               job_state : {Absent, Null, "SUCCESS"}]
      [] e = "cronjob" -> [description : {Absent, Garbage, "given"},
                           command : {Absent, Garbage, "run"}]
      [] e = "app" -> [state : {Absent, "RUNNING"}, custom_app : BOOLEAN,
                       update_available : BOOLEAN, image_updates_available : BOOLEAN]
      [] e = "certificate" -> [until : {Absent, Garbage, "date"}]
      [] e = "container" -> [type : {"CONTAINER", "VM"}, cpu : {Absent, Null, CpuText},
                             memory : MemoryBytes]
      [] e = "container26" -> [cpuset : {Absent, Null, "0-1"}, image : {Absent, "", "given"},
                               status : {Absent, "RUNNING"}]
      [] OTHER -> [enabled : {Absent, Garbage, TRUE, FALSE}]

\* _spec_default
Default ==
    [state |-> "unknown", name |-> "", service |-> "unknown", memory |-> 0,
     status |-> "unknown", link_state |-> "unknown", job_state |-> "unknown",
     description |-> "", command |-> "", until |-> Null, enabled |-> FALSE,
     custom_app |-> FALSE, update_available |-> FALSE,
     image_updates_available |-> FALSE, type |-> "unknown", cpu |-> 0,
     cpuset |-> Null, image |-> "unknown"]

\* The fields ensure_vals adds to a record that lacks them; those a derivation
\* overwrites in the same call are left to Derive.
Ensured(e) == IF e = "interface" THEN [rx |-> 0] ELSE EmptyMap

\* _set_val: from_entry, from_entry_bool and human_date_to_utc.
SetVal(f, raw) ==
    IF raw = Absent \/ (f \in {"enabled", "until"} /\ raw = Garbage)
    THEN Default[f] ELSE raw

Entries(e) ==
    [uid : Uids, raw : Raw(e)] \cup {NotDict}
        \cup [uid : {Absent, Null, Unhashable}, raw : {CHOOSE r \in Raw(e) : TRUE}]
\* A dict is handled as a list of one.
Replies(e) == {NotList} \cup SeqOf(Entries(e), MaxEntries)

IsContainer(entry) == entry # NotDict /\ entry.raw.type = "CONTAINER"

\* What parse_api is given: the containers' methods take what is no list for an
\* empty one, and the legacy one picks the entries of its type.
Source(e, reply) ==
    IF e \notin {"container", "container26"} THEN reply
    ELSE IF reply = NotList THEN << >>
    ELSE IF e = "container26" THEN reply
    ELSE LET kept[i \in 0..Len(reply)] ==
                 IF i = 0 THEN << >>
                 ELSE IF IsContainer(reply[i]) THEN Append(kept[i - 1], reply[i])
                 ELSE kept[i - 1]
         IN  kept[Len(reply)]

-----------------------------------------------------------------------------

\* Definitions named Fault... are faulty variants of the definition they precede.

\* get_uid: Null when the entry has no usable id.
GetUid(entry) ==
    IF entry = NotDict \/ entry.uid \notin Uids THEN Null ELSE entry.uid

\* fill_vals on one record.
FillVals(target, raw) == Over([f \in DOMAIN raw |-> SetVal(f, raw[f])], target)

FaultFillEnsureVals(e, target) == Over(Ensured(e), target)
\* fill_ensure_vals on one record.
FillEnsureVals(e, target) == Over(target, Ensured(e))

\* _resolve_entry_uid and _apply_entry.
ApplyEntry(e, data, entry) ==
    LET uid == GetUid(entry)
        target == IF uid \in DOMAIN data THEN data[uid] ELSE EmptyMap
    IN  IF uid = Null THEN data
        ELSE [u \in DOMAIN data \cup {uid} |->
                 IF u = uid THEN FillEnsureVals(e, FillVals(target, entry.raw)) ELSE data[u]]

\* The loop of parse_api over its entries.
Merge(e, data, source) ==
    LET merged[i \in 0..Len(source)] ==
            IF i = 0 THEN data ELSE ApplyEntry(e, merged[i - 1], source[i])
    IN  merged[Len(source)]

SeenUids(source) == {GetUid(source[i]) : i \in DOMAIN source} \ {Null}

\* _prune_stale_uids, behind its guard.
Prune(data, seen) == IF seen = {} THEN data ELSE Restrict(data, seen)

\* parse_api with a key; _empty_source_result is its first two cases.
ParseApi(e, data, source) ==
    IF source = NotList THEN data
    ELSE IF source = << >> THEN EmptyMap
    ELSE Prune(Merge(e, data, source), SeenUids(source))

FaultUsable(raw) == raw # NotList /\ SeenUids(raw) # {}
\* _note_primary_query_outcome
Usable(raw) == raw # NotList /\ (raw = << >> \/ SeenUids(raw) # {})

-----------------------------------------------------------------------------

\* round(memory / unit): to the nearest, a half to the even neighbour.
Rounded(memory, unit) ==
    LET q == memory \div unit
        r == memory % unit
    IN  IF 2 * r > unit \/ (2 * r = unit /\ q % 2 = 1) THEN q + 1 ELSE q
Gib(memory) == IF memory = Null THEN 0 ELSE Rounded(memory, 1024)
Mib(memory) == IF memory \in {Null, Garbage} THEN 0 ELSE Rounded(memory, 1048576)

\* _to_int
ToInt(value) == IF value = CpuText THEN 2 ELSE IF value = Null THEN 0 ELSE value

\* What each method computes from a merged record before it returns.
DeriveService(v) ==
    Over([running |-> v.state = "RUNNING",
          display_name |-> IF v.name \notin {"", "unknown"} THEN v.name
                           ELSE IF v.service = "ssh" THEN "SSH" ELSE v.service], v)
DeriveVm(v) == Over([memory |-> Gib(v.memory), running |-> v.status = "RUNNING"], v)
DeriveInterface(v) == Over([link_up |-> v.link_state = "LINK_STATE_UP"], v)
\* job_state is dropped once it was looked at.
DeriveReplication(v) ==
    [state |-> IF v.state \notin {Null, "unknown"} THEN v.state
               ELSE IF "job_state" \in DOMAIN v THEN v.job_state ELSE "unknown"]
\* Where the display name is taken from.
DeriveCronjob(v) ==
    Over([display_name |-> IF v.description \notin {Garbage, ""} THEN "description"
                           ELSE IF v.command \notin {Garbage, ""} THEN "command"
                           ELSE "id"], v)
DeriveApp(v) ==
    Over([running |-> v.state = "RUNNING",
          update_available |-> v.update_available \/ (v.custom_app /\ v.image_updates_available)], v)
\* The days left are a function of the clock and this.
DeriveCertificate(v) == Over([expiry_known |-> v.until # Null], v)
\* _compute_container_legacy; the address is a function of the entry alone.
DeriveContainerLegacy(v) == Over([cpu |-> ToInt(v.cpu), memory |-> Mib(v.memory)], v)
\* _compute_container_v26: cpuset is dropped once it was counted.
DeriveContainerV26(v) ==
    [type |-> "CONTAINER", memory |-> 0, status |-> v.status,
     cpu |-> IF "cpuset" \in DOMAIN v /\ v.cpuset = "0-1" THEN 2 ELSE 0,
     image |-> IF v.image = "" THEN "unknown" ELSE v.image,
     running |-> v.status = "RUNNING"]

Derive(e, v) ==
    CASE e = "service" -> DeriveService(v)
      [] e = "vm" -> DeriveVm(v)
      [] e = "interface" -> DeriveInterface(v)
      [] e = "replication" -> DeriveReplication(v)
      [] e = "cronjob" -> DeriveCronjob(v)
      [] e = "app" -> DeriveApp(v)
      [] e = "certificate" -> DeriveCertificate(v)
      [] e = "container" -> DeriveContainerLegacy(v)
      [] e = "container26" -> DeriveContainerV26(v)
      [] OTHER -> v

\* The records DeriveVm raises for: a memory that is not a number.
Raising(data) == {u \in DOMAIN data : ep = "vm" /\ data[u].memory = Garbage}

\* The reference: the records a reply names, the last entry of each counting.
LastEntry(reply, u) ==
    reply[CHOOSE i \in DOMAIN reply :
              /\ GetUid(reply[i]) = u
              /\ \A j \in DOMAIN reply : j > i => GetUid(reply[j]) # u]
Wanted(reply) ==
    [u \in SeenUids(reply) |->
        LET raw == LastEntry(reply, u).raw
            read == [f \in DOMAIN raw |-> SetVal(f, raw[f])]
            kept == IF ep # "interface" THEN EmptyMap
                    ELSE [rx |-> IF u \in DOMAIN expected THEN expected[u].rx ELSE 0]
        IN  IF ep = "vm" /\ read.memory = Garbage THEN read
            ELSE Derive(ep, Over(read, kept))]

-----------------------------------------------------------------------------

Init ==
    /\ ep \in Endpoints
    /\ ds = EmptyMap /\ expected = EmptyMap
    /\ failing = FALSE /\ fellBack = FALSE /\ raised = FALSE

NotePrimaryQueryOutcome(e, raw) ==
    failing' = IF e \in Noted THEN ~Usable(raw) ELSE failing

\* Derive for every record of the merged map, or for those before the one it
\* raises for: the map was merged in place and stays.
DeriveAll(data) ==
    /\ raised' = (Raising(data) # {})
    /\ \E done \in IF Raising(data) = {} THEN {DOMAIN data}
                   ELSE SUBSET (DOMAIN data \ Raising(data)) :
           ds' = [u \in DOMAIN data |-> IF u \in done THEN Derive(ep, data[u]) ELSE data[u]]

\* A get_... method of endpoint e, answered with reply.
Get(e, reply) ==
    LET source == Source(e, reply) IN
    /\ ep = e
    /\ NotePrimaryQueryOutcome(e, reply)
    /\ DeriveAll(ParseApi(e, ds, source))
    /\ expected' = IF source = NotList \/ (source # << >> /\ SeenUids(source) = {})
                   THEN expected ELSE Wanted(source)
    /\ fellBack' = (Foreign \in DOMAIN ParseApi(e, [u \in {Foreign} |-> EmptyMap], source))
    /\ UNCHANGED ep

GetService(reply) == Get("service", reply)
GetVm(reply) == Get("vm", reply)
GetInterface(reply) == Get("interface", reply)
GetScrub(reply) == Get("scrub", reply)
GetReplication(reply) == Get("replication", reply)
GetCronjob(reply) == Get("cronjob", reply)
GetApp(reply) == Get("app", reply)
GetCertificates(reply) == Get("certificate", reply)
GetCloudsync(reply) == Get("cloudsync", reply)
GetRsync(reply) == Get("rsynctask", reply)
GetSnapshottask(reply) == Get("snapshottask", reply)
GetContainerLegacy(reply) == Get("container", reply)
GetContainerV26(reply) == Get("container26", reply)

WithRates(data, rates) ==
    [u \in DOMAIN data |-> IF u \in DOMAIN rates THEN [data[u] EXCEPT !.rx = rates[u]]
                           ELSE data[u]]
\* _refresh_interface_throughput: get_systemstats() read the rates of some
\* interfaces (an error, or no rate of a cached interface, leaves them alone; the
\* graph's own failing key is no endpoint's).
RefreshInterfaceThroughput(rates) ==
    /\ ep = "interface" /\ ds # EmptyMap
    /\ ds' = WithRates(ds, rates) /\ expected' = WithRates(expected, rates)
    /\ UNCHANGED <<ep, failing, fellBack, raised>>

Next ==
    \/ \E reply \in Replies(ep) :
           \/ GetService(reply) \/ GetVm(reply) \/ GetInterface(reply)
           \/ GetScrub(reply) \/ GetReplication(reply) \/ GetCronjob(reply)
           \/ GetApp(reply) \/ GetCertificates(reply) \/ GetCloudsync(reply)
           \/ GetRsync(reply) \/ GetSnapshottask(reply)
           \/ GetContainerLegacy(reply) \/ GetContainerV26(reply)
    \/ \E S \in SUBSET Uids : \E rates \in [S -> 1..MaxRate] :
           RefreshInterfaceThroughput(rates)

Spec == Init /\ [][Next]_vars

-----------------------------------------------------------------------------

\* The record a method returns, v, against what the last usable reply says, w.  They
\* are the same unless the endpoint has fallen back; what is derived once more then
\* may only be understated: the memory of a vm, which StaleIsPrevious is about, or of a
\* legacy container, the CPUs of another (to none), and a replication's null state with
\* a null job state (to "unknown").
SameRecord(v, w) ==
    /\ DOMAIN v = DOMAIN w
    /\ \A f \in DOMAIN v :
           \/ v[f] = w[f]
           \/ fellBack /\ ep \in {"vm", "container"} /\ f = "memory" /\ v[f] \in 0..w[f]
           \/ fellBack /\ ep = "container26" /\ f = "cpu" /\ v[f] = 0
           \/ fellBack /\ ep = "replication" /\ f = "state" /\ w[f] = Null /\ v[f] = "unknown"

\* However the replies before it looked, after a call that returned the cached map
\* is what the last usable reply says and nothing else: no record and no field of
\* an older reply survives the merge in place, an interface's throughput excepted.
\* What a fallback does to a kept record stays within what SameRecord grants and is
\* gone with the next usable reply, however many fallbacks came before it.
SnapshotIsLastReply ==
    ~raised => /\ DOMAIN ds = DOMAIN expected
               /\ \A u \in DOMAIN ds : SameRecord(ds[u], expected[u])

\* An endpoint is reported stale exactly when parse_api took the reply for a failed
\* query and kept the cached map (_note_primary_query_outcome has a test of its own).
StaleIffFellBack == ep \in Noted => (failing <=> fellBack)

\* A stale endpoint shows the previous snapshot.
StaleIsPrevious == failing => ds = expected
=============================================================================
