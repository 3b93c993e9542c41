------------------------------ MODULE PoolState ------------------------------
(***************************************************************************)
(* The pools and datasets of TrueNASState (domain/state.py): get_dataset() *)
(* and get_pool() with its boot pool, the cached snapshots they publish in *)
(* ds, and stale_endpoints, which tells a consumer what was carried over.  *)
(*                                                                         *)
(* A value is represented by the number of the get_... call that read it   *)
(* from the server, 0 when it is absent.  The root dataset of pool p, found*)
(* by mountpoint or by name, is also called p; other datasets play no part.*)
(* An action is what a task does between two awaits; a consumer may look   *)
(* at ds and stale_endpoints between any two of them.                      *)
(***************************************************************************)
EXTENDS Naturals

CONSTANTS
    Tasks,     \* the tasks that refresh
    Pools,     \* the guids of the pools pool.query reports
    Boot,      \* the key of the boot pool
    Bad,       \* a reply without a usable entry: None, a string, [None], [{}] ...
    NoTask,    \* the lock is free
    MaxCalls   \* bound on the get_... calls of a behaviour

ASSUME PoolStateAssumption ==
    /\ MaxCalls \in Nat
    /\ Boot \notin Pools /\ NoTask \notin Tasks /\ \A S \in SUBSET Pools : S # Bad

Calls == 0..MaxCalls
Endpoints == {"dataset", "pool"}
\* The keys of _fallback_failing these two methods use, and their endpoints.
FallbackEndpoint ==
    [datasetQuery |-> "dataset", datasetNotPublished |-> "dataset",
     poolQuery |-> "pool", bootPool |-> "pool", poolCapacityDataset |-> "pool"]
Keys == DOMAIN FallbackEndpoint

VARIABLES
    lock,      \* the task that holds self._lock
    dataset,   \* ds["dataset"]: when each root dataset was read
    pool,      \* ds["pool"]: when each entry was read
    capacity,  \* ds["pool"]: when the root dataset behind its capacity was read,
               \* 0 for an entry whose capacity is its own
    bootUid,   \* self._boot_pool_uid is set
    failing,   \* the keys of self._fallback_failing
    calls,     \* how many get_... calls got the lock
    pc, op,    \* where a task is, and which method it called
    datasets, pools,  \* its local snapshots
    last,      \* per endpoint, the latest call that set out to refresh it
    raised,    \* per endpoint, whether that call raised
    unusable   \* per endpoint, the methods that answered that call with Bad

cache == <<dataset, pool, capacity, bootUid>>
history == <<last, raised, unusable>>
vars == <<lock, cache, failing, calls, pc, op, datasets, pools, history>>

TypeOK ==
    /\ lock \in Tasks \cup {NoTask}
    /\ dataset \in [Pools -> Calls] /\ capacity \in [Pools -> Calls]
    /\ pool \in [Pools \cup {Boot} -> Calls]
    /\ bootUid \in BOOLEAN
    /\ failing \subseteq Keys
    /\ calls \in Calls
    /\ pc \in [Tasks -> {"idle", "lock", "dataset", "pool", "boot"}]
    /\ op \in [Tasks -> Endpoints]
    /\ datasets \in [Tasks -> [Pools -> Calls]]
    /\ pools \in [Tasks -> [Pools \cup {Boot} -> Calls]]
    /\ last \in [Endpoints -> Calls]
    /\ raised \in [Endpoints -> BOOLEAN]
    /\ unusable \in [Endpoints -> SUBSET {"dataset", "pool", "boot"}]

NoDatasets == [p \in Pools |-> 0]
NoPools == [p \in Pools \cup {Boot} |-> 0]

Init ==
    /\ lock = NoTask
    /\ dataset = NoDatasets /\ capacity = NoDatasets /\ pool = NoPools
    /\ bootUid = FALSE
    /\ failing = {}
    /\ calls = 0
    /\ pc = [t \in Tasks |-> "idle"]
    /\ op = [t \in Tasks |-> "dataset"]
    /\ datasets = [t \in Tasks |-> NoDatasets]
    /\ pools = [t \in Tasks |-> NoPools]
    /\ last = [e \in Endpoints |-> 0]
    /\ raised = [e \in Endpoints |-> FALSE]
    /\ unusable = [e \in Endpoints |-> {}]

-----------------------------------------------------------------------------

\* Definitions named Fault... are faulty variants of the definition they precede.

\* stale_endpoints
StaleEndpoints == {FallbackEndpoint[k] : k \in failing}

\* _note_fallback_outcome: what it makes of _fallback_failing.
Note(key, failed) == IF failed THEN failing \cup {key} ELSE failing \ {key}

\* parse_api on a copy of a keyed map: a reply without a usable entry keeps it,
\* any other reply replaces it by the entries it names.
ParseApi(data, reply, n) ==
    IF reply = Bad THEN data ELSE [x \in DOMAIN data |-> IF x \in reply THEN n ELSE 0]

\* The endpoints method o sets out to refresh.
Refreshes(o) == IF o = "pool" THEN Endpoints ELSE {"dataset"}

Go(t, p) == pc' = [pc EXCEPT ![t] = p]

\* The method returns, the lock is free again.
Return(t) ==
    /\ Go(t, "idle")
    /\ lock' = NoTask
    /\ datasets' = [datasets EXCEPT ![t] = NoDatasets]
    /\ pools' = [pools EXCEPT ![t] = NoPools]

\* The call of t was answered with reply by method m.
Remember(t, m, reply) ==
    /\ unusable' = [e \in Endpoints |-> IF reply = Bad /\ e \in Refreshes(op[t])
                                        THEN unusable[e] \cup {m} ELSE unusable[e]]
    /\ UNCHANGED <<last, raised>>

-----------------------------------------------------------------------------

Call(t, o) ==
    /\ pc[t] = "idle"
    /\ Go(t, "lock")
    /\ op' = [op EXCEPT ![t] = o]
    /\ UNCHANGED <<lock, cache, failing, calls, datasets, pools, history>>

FaultFree == TRUE
Free == lock = NoTask
Acquire(t) ==
    /\ pc[t] = "lock"
    /\ Free
    /\ calls < MaxCalls
    /\ lock' = t
    /\ calls' = calls + 1
    /\ Go(t, "dataset")
    /\ last' = [e \in Endpoints |-> IF e \in Refreshes(op[t]) THEN calls + 1 ELSE last[e]]
    /\ raised' = [e \in Endpoints |-> raised[e] /\ e \notin Refreshes(op[t])]
    /\ unusable' = [e \in Endpoints |-> IF e \in Refreshes(op[t]) THEN {} ELSE unusable[e]]
    /\ UNCHANGED <<cache, failing, op, datasets, pools>>

\* pool.dataset.query answered get_dataset(), which publishes the result.
GetDataset(t, reply) ==
    /\ pc[t] = "dataset" /\ op[t] = "dataset"
    /\ dataset' = ParseApi(dataset, reply, last["dataset"])
    /\ failing' = Note("datasetQuery", reply = Bad) \ {"datasetNotPublished"}
    /\ Return(t)
    /\ Remember(t, "dataset", reply)
    /\ UNCHANGED <<pool, capacity, bootUid, calls, op>>

\* ... or get_pool(), which goes on to pool.query.
ComputeDataset(t, reply) ==
    /\ pc[t] = "dataset" /\ op[t] = "pool"
    /\ datasets' = [datasets EXCEPT ![t] = ParseApi(dataset, reply, last["pool"])]
    /\ failing' = Note("datasetQuery", reply = Bad)
    /\ Go(t, "pool")
    /\ Remember(t, "dataset", reply)
    /\ UNCHANGED <<lock, cache, calls, op, pools>>

FaultKeepSnapshot(t) == dataset' = datasets[t] /\ UNCHANGED <<pool, capacity>>
\* A pool.query without a usable pool leaves both endpoints as they were.
KeepSnapshot(t) == UNCHANGED <<dataset, pool, capacity>>

FaultNoteKept == failing \cup {"poolQuery"}
NoteKept == Note("poolQuery", TRUE) \cup {"datasetNotPublished"}

PoolQuery(t, reply) ==
    /\ pc[t] = "pool"
    /\ \/ /\ reply = Bad
          /\ KeepSnapshot(t)
          /\ failing' = NoteKept
          /\ Return(t)
       \/ /\ reply # Bad
          /\ failing' = Note("poolQuery", FALSE) \ {"datasetNotPublished"}
          /\ pools' = [pools EXCEPT ![t] = ParseApi(pool, reply, last["pool"])]
          /\ Go(t, "boot")
          /\ UNCHANGED <<lock, dataset, pool, capacity, datasets>>
    /\ Remember(t, "pool", reply)
    /\ UNCHANGED <<bootUid, calls, op>>

\* boot.get_state was unusable, and there is an entry to carry over.
CarriesBoot(ok) == ~ok /\ bootUid /\ pool[Boot] # 0

FaultAddBootPool(t, ok) == IF ok THEN [pools[t] EXCEPT ![Boot] = last["pool"]] ELSE pools[t]
\* _add_boot_pool: the local pools with the boot pool, if there is one.
AddBootPool(t, ok) ==
    IF ok THEN [pools[t] EXCEPT ![Boot] = last["pool"]]
    ELSE IF CarriesBoot(ok) THEN [pools[t] EXCEPT ![Boot] = pool[Boot]]
    ELSE pools[t]

\* The pools whose root dataset is known.
Rooted(t) == {p \in Pools : pools[t][p] # 0 /\ datasets[t][p] # 0}

FaultNoteBoot(ok) == Note("bootPool", ~ok)
NoteBoot(ok) == IF ok \/ CarriesBoot(ok) THEN Note("bootPool", ~ok) ELSE failing

\* get_pool() ends: boot pool, capacities and flags, then both snapshots are
\* published.
GetPool(t, ok) ==
    /\ pc[t] = "boot"
    /\ bootUid' = (bootUid \/ ok)
    /\ pool' = AddBootPool(t, ok)
    /\ capacity' = [p \in Pools |-> IF p \in Rooted(t) THEN datasets[t][p] ELSE 0]
    /\ dataset' = datasets[t]
    /\ failing' = IF "datasetQuery" \in failing /\ Rooted(t) # {}
                  THEN NoteBoot(ok) \cup {"poolCapacityDataset"}
                  ELSE NoteBoot(ok) \ {"poolCapacityDataset"}
    /\ Return(t)
    /\ Remember(t, "boot", IF ok THEN {} ELSE Bad)
    /\ UNCHANGED <<calls, op>>

\* The awaited call raised, or the task was cancelled.
Raise(t) ==
    /\ pc[t] \in {"dataset", "pool", "boot"}
    /\ raised' = [e \in Endpoints |-> raised[e] \/ e \in Refreshes(op[t])]
    /\ Return(t)
    /\ UNCHANGED <<cache, failing, calls, op, last, unusable>>

\* The task was cancelled while it waited for the lock.
CancelWaiting(t) ==
    /\ pc[t] = "lock"
    /\ Go(t, "idle")
    /\ UNCHANGED <<lock, cache, failing, calls, op, datasets, pools, history>>

Next ==
    \E t \in Tasks :
        \/ \E o \in Endpoints : Call(t, o)
        \/ Acquire(t) \/ Raise(t) \/ CancelWaiting(t)
        \/ \E reply \in (SUBSET Pools) \cup {Bad} :
               GetDataset(t, reply) \/ ComputeDataset(t, reply) \/ PoolQuery(t, reply)
        \/ \E ok \in BOOLEAN : GetPool(t, ok)

Spec == Init /\ [][Next]_vars

-----------------------------------------------------------------------------

\* A pool's capacity is that of the dataset snapshot published with it.
Agree ==
    \A p \in Pools : capacity[p] = IF pool[p] # 0 THEN dataset[p] ELSE 0

\* get_pool() publishes a dataset and a pool snapshot that agree, or neither.
PublishedTogether ==
    [][\A t \in Tasks : op[t] = "pool" /\ pc'[t] # pc[t] =>
                            Agree' \/ UNCHANGED <<dataset, pool, capacity>>]_vars

\* Once the boot pool was seen it never leaves ds["pool"], whatever boot.get_state
\* or pool.query answer later.
BootPoolKept == bootUid => pool[Boot] # 0

\* No refresh replaces what a later refresh has read: without the lock a
\* get_pool() would publish the datasets it fetched before a get_dataset() did.
NeverOlder ==
    [][/\ \A p \in Pools : dataset'[p] # 0 => dataset'[p] >= dataset[p]
       /\ \A p \in Pools \cup {Boot} : pool'[p] # 0 => pool'[p] >= pool[p]]_vars

\* What is not reported stale after a refresh that returned was all read by that
\* refresh, the datasets behind the capacities included.
FreshUnlessStale ==
    lock = NoTask =>
        /\ "dataset" \notin StaleEndpoints /\ ~raised["dataset"] =>
               \A p \in Pools : dataset[p] \in {0, last["dataset"]}
        /\ "pool" \notin StaleEndpoints /\ ~raised["pool"] =>
               /\ \A p \in Pools \cup {Boot} : pool[p] \in {0, last["pool"]}
               /\ \A p \in Pools : capacity[p] \in {0, last["pool"]}

\* What is reported stale after a refresh that returned is so because a reply to
\* that refresh was unusable; a boot pool that was never seen is no reason.
StaleHasReason ==
    lock = NoTask =>
        /\ "dataset" \in StaleEndpoints /\ ~raised["dataset"] =>
               unusable["dataset"] \cap {"dataset", "pool"} # {}
        /\ "pool" \in StaleEndpoints /\ ~raised["pool"] =>
               \/ unusable["pool"] \cap {"dataset", "pool"} # {}
               \/ "boot" \in unusable["pool"] /\ pool[Boot] # 0
=============================================================================
