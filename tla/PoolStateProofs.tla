---------------------------- MODULE PoolStateProofs ----------------------------
(***************************************************************************)
(* What get_dataset() and get_pool() promise a consumer of ds and          *)
(* stale_endpoints, for any number of tasks, pools and calls.  The         *)
(* argument is about the task that holds the lock: what it has read so     *)
(* far, and what it has noted of it in _fallback_failing.                  *)
(***************************************************************************)
EXTENDS PoolState, TLAPS

-----------------------------------------------------------------------------
(* stale_endpoints, key by key *)

LEMMA KeysAre ==
    /\ Keys = {"datasetQuery", "datasetNotPublished", "poolQuery", "bootPool", "poolCapacityDataset"}
    /\ FallbackEndpoint["datasetQuery"] = "dataset"
    /\ FallbackEndpoint["datasetNotPublished"] = "dataset"
    /\ FallbackEndpoint["poolQuery"] = "pool"
    /\ FallbackEndpoint["bootPool"] = "pool"
    /\ FallbackEndpoint["poolCapacityDataset"] = "pool"
BY DEF Keys, FallbackEndpoint

DatasetKeys == {"datasetQuery", "datasetNotPublished"}
PoolKeys == {"poolQuery", "bootPool", "poolCapacityDataset"}

LEMMA StaleByKey ==
    ASSUME failing \subseteq Keys
    PROVE  /\ "dataset" \in StaleEndpoints <=> failing \cap DatasetKeys # {}
           /\ "pool" \in StaleEndpoints <=> failing \cap PoolKeys # {}
BY KeysAre DEF StaleEndpoints, DatasetKeys, PoolKeys

-----------------------------------------------------------------------------
(* The inductive invariant *)

Awaiting == {"dataset", "pool", "boot"}

\* The lock is what a task inside a method holds, and no other task.
LockHeld == \A t \in Tasks : pc[t] \in Awaiting <=> lock = t

\* The method of t set out to refresh its endpoints with the call number it was given.
Numbered(t) ==
    pc[t] \in Awaiting =>
        calls > 0 /\ last["dataset"] = calls /\ (op[t] = "pool" => last["pool"] = calls)

\* After pool.dataset.query get_pool() has a fresh local snapshot, or it has noted that
\* it goes on with the previous one.
DatasetsRead(t) ==
    pc[t] \in {"pool", "boot"} =>
        /\ op[t] = "pool"
        /\ \/ "datasetQuery" \notin failing /\ \A p \in Pools : datasets[t][p] \in {0, calls}
           \/ /\ "datasetQuery" \in failing /\ datasets[t] = dataset
              /\ "dataset" \in unusable["dataset"] /\ "dataset" \in unusable["pool"]

\* After a usable pool.query the local pools are fresh, and the keys of a kept snapshot
\* are gone.
PoolsRead(t) ==
    pc[t] = "boot" =>
        /\ \A p \in Pools : pools[t][p] \in {0, calls}
        /\ pools[t][Boot] = 0
        /\ "poolQuery" \notin failing /\ "datasetNotPublished" \notin failing

HolderInv == \A t \in Tasks : Numbered(t) /\ DatasetsRead(t) /\ PoolsRead(t)

\* Nothing is newer than the last call.
Bounded ==
    /\ \A p \in Pools : dataset[p] <= calls
    /\ \A p \in Pools \cup {Boot} : pool[p] <= calls

\* Only a boot pool that was seen can be failing.
BootSeen == BootPoolKept /\ ("bootPool" \in failing => bootUid)

\* Between two methods ds["dataset"] is fresh, or a key says why it is not.
DatasetSettled ==
    lock = NoTask /\ ~raised["dataset"] =>
        /\ failing \cap DatasetKeys = {} => \A p \in Pools : dataset[p] \in {0, last["dataset"]}
        /\ failing \cap DatasetKeys # {} => unusable["dataset"] \cap {"dataset", "pool"} # {}

\* So is ds["pool"], while get_dataset() is under way too.
PoolFresh ==
    /\ \A p \in Pools \cup {Boot} : pool[p] \in {0, last["pool"]}
    /\ \A p \in Pools : capacity[p] \in {0, last["pool"]}
PoolReason ==
    \/ unusable["pool"] \cap {"dataset", "pool"} # {}
    \/ "boot" \in unusable["pool"] /\ pool[Boot] # 0
PoolSettled ==
    (\A t \in Tasks : lock = t => op[t] = "dataset") /\ ~raised["pool"] =>
        /\ failing \cap PoolKeys = {} => PoolFresh
        /\ failing \cap PoolKeys # {} => PoolReason

PoolStateInv ==
    TypeOK /\ LockHeld /\ HolderInv /\ Bounded /\ BootSeen /\ DatasetSettled /\ PoolSettled

LEMMA Initially == Init => PoolStateInv
<1> SUFFICES ASSUME Init PROVE PoolStateInv
  OBVIOUS
<1> USE PoolStateAssumption
<1>1. bootUid \in BOOLEAN /\ raised \in [Endpoints -> BOOLEAN]
  BY Zenon DEF Init
<1>2. 0 \in Calls
  BY DEF Calls
<1>3. TypeOK
  BY <1>1, <1>2 DEF Init, TypeOK, NoDatasets, NoPools, Endpoints
<1>4. LockHeld /\ HolderInv
  BY DEF Init, LockHeld, Awaiting, HolderInv, Numbered, DatasetsRead, PoolsRead
<1>5. Bounded /\ BootSeen
  BY DEF Init, Bounded, BootSeen, BootPoolKept, NoDatasets, NoPools
<1>6. DatasetSettled /\ PoolSettled
  BY DEF Init, DatasetSettled, PoolSettled, PoolFresh, DatasetKeys, PoolKeys, NoDatasets, NoPools,
         Endpoints
<1> QED
  BY <1>3, <1>4, <1>5, <1>6 DEF PoolStateInv

\* Only one task is inside a method.
LEMMA HolderAlone ==
    ASSUME PoolStateInv, NEW t \in Tasks, pc[t] \in Awaiting
    PROVE  lock = t /\ lock # NoTask /\ \A u \in Tasks : u # t => pc[u] \notin Awaiting
BY PoolStateAssumption DEF PoolStateInv, LockHeld

\* When the method of t has returned or raised, no task is inside one.
LEMMA Released ==
    ASSUME PoolStateInv, NEW t \in Tasks, pc[t] \in Awaiting, Return(t), op' = op
    PROVE  /\ lock' = NoTask /\ LockHeld' /\ HolderInv'
           /\ pc' \in [Tasks -> {"idle", "lock", "dataset", "pool", "boot"}]
           /\ datasets' \in [Tasks -> [Pools -> Calls]]
           /\ pools' \in [Tasks -> [Pools \cup {Boot} -> Calls]]
           /\ \A u \in Tasks : lock' # u
<1>t. TypeOK
  BY DEF PoolStateInv
<1>1. lock' = NoTask /\ \A u \in Tasks : lock' # u
  BY PoolStateAssumption DEF Return
<1>2. \A u \in Tasks : pc'[u] \notin Awaiting
  BY <1>t, HolderAlone DEF Return, Go, Awaiting, TypeOK
<1>3. pc' \in [Tasks -> {"idle", "lock", "dataset", "pool", "boot"}]
  BY <1>t DEF Return, Go, TypeOK
<1>4. 0 \in Calls
  BY PoolStateAssumption DEF Calls
<1>5. NoDatasets \in [Pools -> Calls] /\ NoPools \in [Pools \cup {Boot} -> Calls]
  BY <1>4 DEF NoDatasets, NoPools
<1>6. datasets' \in [Tasks -> [Pools -> Calls]] /\ pools' \in [Tasks -> [Pools \cup {Boot} -> Calls]]
  BY <1>t, <1>5 DEF Return, TypeOK
<1>7. LockHeld' /\ HolderInv'
  BY <1>1, <1>2 DEF LockHeld, HolderInv, Numbered, DatasetsRead, PoolsRead, Awaiting
<1> QED
  BY <1>1, <1>3, <1>6, <1>7

\* What parse_api makes of a reply to call n.
LEMMA ParseApiReads ==
    ASSUME NEW D, NEW data \in [D -> Calls], NEW reply, NEW n \in Calls
    PROVE  /\ ParseApi(data, reply, n) \in [D -> Calls]
           /\ reply = Bad => ParseApi(data, reply, n) = data
           /\ reply # Bad => \A x \in D : ParseApi(data, reply, n)[x] = IF x \in reply THEN n ELSE 0
<1>1. 0 \in Calls
  BY PoolStateAssumption DEF Calls
<1> QED
  BY <1>1 DEF ParseApi

\* The methods whose answer was unusable accumulate, for the endpoints of the call.
LEMMA RememberTypes ==
    ASSUME TypeOK, NEW t \in Tasks, NEW m \in {"dataset", "pool", "boot"}, NEW reply,
           Remember(t, m, reply)
    PROVE  /\ unusable' \in [Endpoints -> SUBSET {"dataset", "pool", "boot"}]
           /\ UNCHANGED <<last, raised>>
           /\ \A e \in Endpoints : unusable[e] \subseteq unusable'[e]
           /\ reply = Bad => m \in unusable'["dataset"]
           /\ reply = Bad /\ op[t] = "pool" => m \in unusable'["pool"]
           /\ op[t] = "dataset" => unusable'["pool"] = unusable["pool"]
BY DEF TypeOK, Remember, Refreshes, Endpoints

LEMMA NoteKeys ==
    ASSUME failing \subseteq Keys, NEW k \in Keys, NEW b
    PROVE  Note(k, b) \subseteq Keys
BY DEF Note

-----------------------------------------------------------------------------
(* One lemma per action *)

\* A task outside the methods moves: it calls one, or gives up waiting.
LEMMA OutsideStep ==
    ASSUME PoolStateInv, NEW t \in Tasks, pc[t] \notin Awaiting, NEW p \in {"idle", "lock"},
           Go(t, p), op' \in [Tasks -> Endpoints], \A u \in Tasks : u # t => op'[u] = op[u],
           UNCHANGED <<lock, cache, failing, calls, datasets, pools, history>>
    PROVE  PoolStateInv'
<1>t. TypeOK /\ LockHeld /\ HolderInv /\ Bounded /\ BootSeen /\ DatasetSettled /\ PoolSettled
  BY DEF PoolStateInv
<1>1. UNCHANGED <<lock, dataset, pool, capacity, bootUid, failing, calls, datasets, pools, last,
                  raised, unusable>>
  BY DEF cache, history
<1>2. /\ pc' \in [Tasks -> {"idle", "lock", "dataset", "pool", "boot"}]
      /\ pc'[t] = p /\ p \notin Awaiting /\ \A u \in Tasks : u # t => pc'[u] = pc[u]
  BY <1>t DEF Go, TypeOK, Awaiting
<1>3. TypeOK'
  BY <1>t, <1>1, <1>2 DEF TypeOK
<1>4. LockHeld'
  BY <1>t, <1>1, <1>2 DEF LockHeld
<1>5. HolderInv'
  <2> SUFFICES ASSUME NEW u \in Tasks PROVE Numbered(u)' /\ DatasetsRead(u)' /\ PoolsRead(u)'
    BY DEF HolderInv
  <2>1. CASE u = t
    BY <1>2, <2>1 DEF Numbered, DatasetsRead, PoolsRead, Awaiting
  <2>2. CASE u # t
    <3>1. Numbered(u) /\ DatasetsRead(u) /\ PoolsRead(u) /\ pc'[u] = pc[u] /\ op'[u] = op[u]
      BY <1>t, <1>2, <2>2 DEF HolderInv
    <3> QED
      BY <1>1, <3>1 DEF Numbered, DatasetsRead, PoolsRead
  <2> QED
    BY <2>1, <2>2
<1>6. Bounded' /\ BootSeen' /\ DatasetSettled'
  BY <1>t, <1>1 DEF Bounded, BootSeen, BootPoolKept, DatasetSettled
<1>7. PoolSettled'
  <2>1. \A u \in Tasks : lock = u => u # t
    BY <1>t DEF LockHeld
  <2> QED
    BY <1>t, <1>1, <2>1 DEF PoolSettled, PoolFresh, PoolReason
<1> QED
  BY <1>3, <1>4, <1>5, <1>6, <1>7 DEF PoolStateInv

LEMMA AcquireStep ==
    ASSUME PoolStateInv, NEW t \in Tasks, Acquire(t) PROVE PoolStateInv'
<1> USE PoolStateAssumption
<1>t. TypeOK /\ LockHeld /\ HolderInv /\ Bounded /\ BootSeen /\ PoolSettled
  BY DEF PoolStateInv
<1>1. /\ pc[t] = "lock" /\ lock = NoTask /\ calls < MaxCalls /\ lock' = t /\ calls' = calls + 1
      /\ UNCHANGED <<dataset, pool, capacity, bootUid, failing, op, datasets, pools>>
  BY DEF Acquire, Free, cache
<1>2. /\ pc' \in [Tasks -> {"idle", "lock", "dataset", "pool", "boot"}]
      /\ pc'[t] = "dataset" /\ \A u \in Tasks : u # t => pc'[u] = pc[u] /\ pc[u] \notin Awaiting
  BY <1>t, <1>1 DEF Acquire, Go, TypeOK, LockHeld
<1>3. /\ last' = [e \in Endpoints |-> IF e \in Refreshes(op[t]) THEN calls + 1 ELSE last[e]]
      /\ raised' = [e \in Endpoints |-> raised[e] /\ e \notin Refreshes(op[t])]
      /\ unusable' = [e \in Endpoints |-> IF e \in Refreshes(op[t]) THEN {} ELSE unusable[e]]
  BY DEF Acquire
<1>4. calls \in Calls /\ calls + 1 \in Calls /\ op[t] \in Endpoints
  BY <1>t, <1>1 DEF TypeOK, Calls
<1>5. /\ last' \in [Endpoints -> Calls]
      /\ unusable' \in [Endpoints -> SUBSET {"dataset", "pool", "boot"}]
  BY <1>t, <1>3, <1>4 DEF TypeOK
<1>6. raised' \in [Endpoints -> BOOLEAN]
  BY <1>3, Zenon
<1>7. TypeOK'
  BY <1>t, <1>1, <1>2, <1>4, <1>5, <1>6 DEF TypeOK
<1>8. LockHeld'
  BY <1>1, <1>2 DEF LockHeld, Awaiting
<1>9. HolderInv'
  <2>1. last'["dataset"] = calls + 1 /\ (op[t] = "pool" => last'["pool"] = calls + 1)
    BY <1>3, <1>4 DEF Refreshes, Endpoints
  <2>2. calls + 1 > 0
    BY <1>4 DEF Calls
  <2> QED
    BY <1>1, <1>2, <2>1, <2>2 DEF HolderInv, Numbered, DatasetsRead, PoolsRead, Awaiting
<1>10. Bounded' /\ BootSeen'
  BY <1>t, <1>1, <1>4 DEF Bounded, BootSeen, BootPoolKept, TypeOK, Calls
<1>11. DatasetSettled'
  BY <1>1 DEF DatasetSettled
<1>12. PoolSettled'
  <2>1. CASE op[t] = "pool"
    BY <1>1, <2>1 DEF PoolSettled
  <2>2. CASE op[t] = "dataset"
    <3>1. /\ last'["pool"] = last["pool"] /\ raised'["pool"] = raised["pool"]
          /\ unusable'["pool"] = unusable["pool"]
      BY <1>t, <1>3, <2>2 DEF Refreshes, Endpoints, TypeOK
    <3> QED
      BY <1>t, <1>1, <3>1 DEF PoolSettled, PoolFresh, PoolReason
  <2> QED
    BY <1>4, <2>1, <2>2 DEF Endpoints
<1> QED
  BY <1>7, <1>8, <1>9, <1>10, <1>11, <1>12 DEF PoolStateInv

LEMMA RaiseStep ==
    ASSUME PoolStateInv, NEW t \in Tasks, Raise(t) PROVE PoolStateInv'
<1>t. TypeOK /\ Bounded /\ BootSeen /\ PoolSettled
  BY DEF PoolStateInv
<1>1. /\ pc[t] \in Awaiting /\ Return(t)
      /\ raised' = [e \in Endpoints |-> raised[e] \/ e \in Refreshes(op[t])]
      /\ UNCHANGED <<dataset, pool, capacity, bootUid, failing, calls, op, last, unusable>>
  BY DEF Raise, Awaiting, cache
<1>2. raised' \in [Endpoints -> BOOLEAN]
  BY <1>1, Zenon
<1>3. op[t] \in Endpoints
  BY <1>t DEF TypeOK
<1>4. TypeOK'
  BY <1>t, <1>1, <1>2, Released DEF TypeOK
<1>5. Bounded' /\ BootSeen'
  BY <1>t, <1>1 DEF Bounded, BootSeen, BootPoolKept
<1>6. DatasetSettled'
  BY <1>1, <1>3 DEF DatasetSettled, Refreshes, Endpoints
<1>7. PoolSettled'
  <2>1. CASE op[t] = "pool"
    BY <1>1, <2>1 DEF PoolSettled, Refreshes, Endpoints
  <2>2. CASE op[t] = "dataset"
    <3>1. raised'["pool"] = raised["pool"]
      BY <1>t, <1>1, <2>2, Zenon DEF Refreshes, Endpoints, TypeOK
    <3>2. \A u \in Tasks : lock = u => op[u] = "dataset"
      BY <1>1, <2>2, HolderAlone
    <3> QED
      BY <1>t, <1>1, <3>1, <3>2 DEF PoolSettled, PoolFresh, PoolReason
  <2> QED
    BY <1>3, <2>1, <2>2 DEF Endpoints
<1> QED
  BY <1>1, <1>4, <1>5, <1>6, <1>7, Released DEF PoolStateInv

LEMMA GetDatasetStep ==
    ASSUME PoolStateInv, NEW t \in Tasks, NEW reply \in (SUBSET Pools) \cup {Bad},
           GetDataset(t, reply)
    PROVE  PoolStateInv'
<1>t. TypeOK /\ Bounded /\ BootSeen /\ PoolSettled /\ Numbered(t)
  BY DEF PoolStateInv, HolderInv
<1>1. /\ pc[t] \in Awaiting /\ op[t] = "dataset" /\ Return(t) /\ Remember(t, "dataset", reply)
      /\ dataset' = ParseApi(dataset, reply, last["dataset"])
      /\ failing' = Note("datasetQuery", reply = Bad) \ {"datasetNotPublished"}
      /\ UNCHANGED <<pool, capacity, bootUid, calls, op>>
  BY DEF GetDataset, Awaiting
<1>2. last["dataset"] = calls /\ calls \in Calls /\ dataset \in [Pools -> Calls]
  BY <1>t, <1>1 DEF Numbered, TypeOK
<1>3. /\ dataset' \in [Pools -> Calls]
      /\ reply = Bad => dataset' = dataset
      /\ reply # Bad => \A p \in Pools : dataset'[p] \in {0, calls}
  BY <1>1, <1>2, ParseApiReads
<1>4. /\ reply = Bad => failing' = (failing \cup {"datasetQuery"}) \ {"datasetNotPublished"}
      /\ reply # Bad => failing' = failing \ DatasetKeys
  BY <1>1 DEF Note, DatasetKeys
<1>5. failing' \subseteq Keys
  BY <1>t, <1>4, KeysAre DEF TypeOK
<1>6. /\ unusable' \in [Endpoints -> SUBSET {"dataset", "pool", "boot"}]
      /\ UNCHANGED <<last, raised>>
      /\ reply = Bad => "dataset" \in unusable'["dataset"]
      /\ unusable'["pool"] = unusable["pool"]
  BY <1>t, <1>1, RememberTypes
<1>7. TypeOK'
  BY <1>t, <1>1, <1>3, <1>5, <1>6, Released DEF TypeOK
<1>8. Bounded' /\ BootSeen'
  BY <1>t, <1>1, <1>2, <1>3, <1>4 DEF Bounded, BootSeen, BootPoolKept, Calls
<1>9. DatasetSettled'
  <2>1. CASE reply = Bad
    BY <1>4, <1>6, <2>1 DEF DatasetSettled, DatasetKeys
  <2>2. CASE reply # Bad
    BY <1>2, <1>3, <1>4, <1>6, <2>2 DEF DatasetSettled, DatasetKeys
  <2> QED
    BY <2>1, <2>2
<1>10. PoolSettled'
  <2>1. failing' \cap PoolKeys = failing \cap PoolKeys
    BY <1>4 DEF DatasetKeys, PoolKeys
  <2>2. \A u \in Tasks : lock = u => op[u] = "dataset"
    BY <1>1, HolderAlone
  <2> QED
    BY <1>t, <1>1, <1>6, <2>1, <2>2 DEF PoolSettled, PoolFresh, PoolReason
<1> QED
  BY <1>1, <1>7, <1>8, <1>9, <1>10, Released DEF PoolStateInv

\* get_pool() goes on to its next query: the other tasks are outside, and what it has
\* not published is not what a consumer sees.
LEMMA GoesOn ==
    ASSUME PoolStateInv, NEW t \in Tasks, pc[t] \in Awaiting, op[t] = "pool",
           NEW p \in Awaiting, Go(t, p),
           UNCHANGED <<lock, dataset, pool, bootUid, capacity, calls, op>>,
           Numbered(t)', DatasetsRead(t)', PoolsRead(t)',
           "bootPool" \in failing' => "bootPool" \in failing
    PROVE  LockHeld' /\ HolderInv' /\ Bounded' /\ BootSeen' /\ DatasetSettled' /\ PoolSettled'
<1>t. TypeOK /\ LockHeld /\ Bounded /\ BootSeen
  BY DEF PoolStateInv
<1>1. /\ lock = t /\ lock # NoTask
      /\ \A u \in Tasks : u # t => pc[u] \notin Awaiting
  BY HolderAlone
<1>2. pc'[t] = p /\ \A u \in Tasks : u # t => pc'[u] = pc[u]
  BY <1>t DEF Go, TypeOK
<1>3. LockHeld'
  BY <1>t, <1>1, <1>2 DEF LockHeld
<1>4. HolderInv'
  <2> SUFFICES ASSUME NEW u \in Tasks, u # t
               PROVE  Numbered(u)' /\ DatasetsRead(u)' /\ PoolsRead(u)'
    BY DEF HolderInv
  <2>1. pc'[u] \notin Awaiting
    BY <1>1, <1>2
  <2> QED
    BY <2>1 DEF Numbered, DatasetsRead, PoolsRead, Awaiting
<1>5. Bounded' /\ BootSeen'
  BY <1>t DEF Bounded, BootSeen, BootPoolKept
<1>6. DatasetSettled' /\ PoolSettled'
  BY <1>1 DEF DatasetSettled, PoolSettled
<1> QED
  BY <1>3, <1>4, <1>5, <1>6

LEMMA ComputeDatasetStep ==
    ASSUME PoolStateInv, NEW t \in Tasks, NEW reply \in (SUBSET Pools) \cup {Bad},
           ComputeDataset(t, reply)
    PROVE  PoolStateInv'
<1>t. TypeOK /\ Numbered(t)
  BY DEF PoolStateInv, HolderInv
<1>1. /\ pc[t] = "dataset" /\ op[t] = "pool" /\ Go(t, "pool") /\ Remember(t, "dataset", reply)
      /\ datasets' = [datasets EXCEPT ![t] = ParseApi(dataset, reply, last["pool"])]
      /\ failing' = Note("datasetQuery", reply = Bad)
      /\ UNCHANGED <<lock, dataset, pool, capacity, bootUid, calls, op, pools>>
  BY DEF ComputeDataset, cache
<1>2. /\ calls > 0 /\ last["dataset"] = calls /\ last["pool"] = calls /\ calls \in Calls
      /\ dataset \in [Pools -> Calls]
  BY <1>t, <1>1 DEF Numbered, TypeOK, Awaiting
<1>3. /\ datasets' \in [Tasks -> [Pools -> Calls]]
      /\ reply = Bad => datasets'[t] = dataset
      /\ reply # Bad => \A p \in Pools : datasets'[t][p] \in {0, calls}
  BY <1>t, <1>1, <1>2, ParseApiReads DEF TypeOK
<1>4. /\ reply = Bad => failing' = failing \cup {"datasetQuery"}
      /\ reply # Bad => failing' = failing \ {"datasetQuery"}
  BY <1>1 DEF Note
<1>5. failing' \subseteq Keys
  BY <1>t, <1>4, KeysAre DEF TypeOK
<1>6. /\ unusable' \in [Endpoints -> SUBSET {"dataset", "pool", "boot"}]
      /\ UNCHANGED <<last, raised>>
      /\ reply = Bad => "dataset" \in unusable'["dataset"] /\ "dataset" \in unusable'["pool"]
  BY <1>t, <1>1, RememberTypes
<1>7. pc' \in [Tasks -> {"idle", "lock", "dataset", "pool", "boot"}] /\ pc'[t] = "pool"
  BY <1>t, <1>1 DEF TypeOK, Go
<1>8. TypeOK'
  BY <1>t, <1>1, <1>3, <1>5, <1>6, <1>7 DEF TypeOK
<1>9. Numbered(t)' /\ PoolsRead(t)'
  BY <1>1, <1>2, <1>6, <1>7 DEF Numbered, PoolsRead
<1>10. DatasetsRead(t)'
  BY <1>1, <1>3, <1>4, <1>6 DEF DatasetsRead
<1>11. "bootPool" \in failing' => "bootPool" \in failing
  BY <1>4
<1> QED
  BY <1>1, <1>8, <1>9, <1>10, <1>11, GoesOn DEF PoolStateInv, Awaiting

LEMMA PoolQueryStep ==
    ASSUME PoolStateInv, NEW t \in Tasks, NEW reply \in (SUBSET Pools) \cup {Bad},
           PoolQuery(t, reply)
    PROVE  PoolStateInv'
<1> USE PoolStateAssumption
<1>t. TypeOK /\ Bounded /\ BootSeen /\ Numbered(t) /\ DatasetsRead(t)
  BY DEF PoolStateInv, HolderInv
<1>1. /\ pc[t] = "pool" /\ Remember(t, "pool", reply) /\ UNCHANGED <<bootUid, calls, op>>
  BY DEF PoolQuery
<1>2. op[t] = "pool" /\ calls > 0 /\ last["dataset"] = calls /\ last["pool"] = calls
  BY <1>t, <1>1 DEF Numbered, DatasetsRead, Awaiting
<1>3. /\ unusable' \in [Endpoints -> SUBSET {"dataset", "pool", "boot"}]
      /\ UNCHANGED <<last, raised>>
      /\ \A e \in Endpoints : unusable[e] \subseteq unusable'[e]
      /\ reply = Bad => "pool" \in unusable'["dataset"] /\ "pool" \in unusable'["pool"]
  BY <1>t, <1>1, <1>2, RememberTypes
<1>4. CASE reply = Bad
  <2>1. /\ Return(t) /\ UNCHANGED <<dataset, pool, capacity>>
        /\ failing' = failing \cup {"poolQuery", "datasetNotPublished"}
    BY <1>4 DEF PoolQuery, KeepSnapshot, NoteKept, Note
  <2>2. failing' \subseteq Keys
    BY <1>t, <2>1, KeysAre DEF TypeOK
  <2>3. TypeOK'
    BY <1>t, <1>1, <1>3, <2>1, <2>2, Released DEF TypeOK, Awaiting
  <2>4. Bounded' /\ BootSeen'
    BY <1>t, <1>1, <2>1 DEF Bounded, BootSeen, BootPoolKept
  <2>5. DatasetSettled' /\ PoolSettled'
    BY <1>3, <1>4, <2>1 DEF DatasetSettled, PoolSettled, PoolReason, DatasetKeys, PoolKeys
  <2> QED
    BY <1>1, <2>1, <2>3, <2>4, <2>5, Released DEF PoolStateInv, Awaiting
<1>5. CASE reply # Bad
  <2>1. /\ failing' = failing \ {"poolQuery", "datasetNotPublished"} /\ Go(t, "boot")
        /\ pools' = [pools EXCEPT ![t] = ParseApi(pool, reply, last["pool"])]
        /\ UNCHANGED <<lock, dataset, pool, capacity, datasets>>
    BY <1>5 DEF PoolQuery, Note
  <2>2. calls \in Calls /\ pool \in [Pools \cup {Boot} -> Calls] /\ Boot \notin reply
    BY <1>t, <1>5 DEF TypeOK
  <2> DEFINE read == ParseApi(pool, reply, last["pool"])
  <2>3. /\ read \in [Pools \cup {Boot} -> Calls]
        /\ \A x \in Pools \cup {Boot} : read[x] = IF x \in reply THEN calls ELSE 0
    BY <1>2, <1>5, <2>2, ParseApiReads
  <2> HIDE DEF read
  <2>4. /\ pools' \in [Tasks -> [Pools \cup {Boot} -> Calls]] /\ pools'[t] = read
    BY <1>t, <2>1, <2>3 DEF TypeOK, read
  <2>5. pc' \in [Tasks -> {"idle", "lock", "dataset", "pool", "boot"}] /\ pc'[t] = "boot"
    BY <1>t, <2>1 DEF TypeOK, Go
  <2>6. TypeOK'
    BY <1>t, <1>1, <1>3, <2>1, <2>4, <2>5 DEF TypeOK
  <2>7. Numbered(t)'
    BY <1>1, <1>2, <1>3, <2>5 DEF Numbered
  <2>8. DatasetsRead(t)'
    BY <1>t, <1>1, <1>3, <2>1 DEF DatasetsRead, Endpoints
  <2>9. PoolsRead(t)'
    BY <1>1, <2>1, <2>2, <2>3, <2>4 DEF PoolsRead
  <2> QED
    BY <1>1, <1>2, <2>1, <2>6, <2>7, <2>8, <2>9, GoesOn DEF PoolStateInv, Awaiting
<1> QED
  BY <1>4, <1>5

\* What get_pool() publishes.
LEMMA Published ==
    ASSUME PoolStateInv, NEW t \in Tasks, NEW ok \in BOOLEAN, GetPool(t, ok)
    PROVE  /\ pool' \in [Pools \cup {Boot} -> Calls]
           /\ \A p \in Pools : pool'[p] = pools[t][p]
           /\ pool'[Boot] = IF ok THEN calls ELSE IF CarriesBoot(ok) THEN pool[Boot] ELSE 0
           /\ dataset' = datasets[t] /\ dataset' \in [Pools -> Calls]
           /\ capacity' = [p \in Pools |-> IF p \in Rooted(t) THEN datasets[t][p] ELSE 0]
           /\ capacity' \in [Pools -> Calls]
<1> USE PoolStateAssumption
<1>t. TypeOK /\ Numbered(t) /\ DatasetsRead(t) /\ PoolsRead(t)
  BY DEF PoolStateInv, HolderInv
<1>1. pc[t] = "boot" /\ last["pool"] = calls /\ calls \in Calls /\ pools[t][Boot] = 0
  BY <1>t DEF GetPool, Numbered, DatasetsRead, PoolsRead, Awaiting, TypeOK
<1>2. pools[t] \in [Pools \cup {Boot} -> Calls] /\ datasets[t] \in [Pools -> Calls] /\ 0 \in Calls
  BY <1>t DEF TypeOK, Calls
<1>3. pool[Boot] \in Calls
  BY <1>t DEF TypeOK
<1>4. pool' = AddBootPool(t, ok) /\ dataset' = datasets[t]
      /\ capacity' = [p \in Pools |-> IF p \in Rooted(t) THEN datasets[t][p] ELSE 0]
  BY DEF GetPool
<1>5. /\ pool' \in [Pools \cup {Boot} -> Calls]
      /\ \A p \in Pools : pool'[p] = pools[t][p]
      /\ pool'[Boot] = IF ok THEN calls ELSE IF CarriesBoot(ok) THEN pool[Boot] ELSE 0
  BY <1>1, <1>2, <1>3, <1>4 DEF AddBootPool
<1>6. capacity' \in [Pools -> Calls]
  BY <1>2, <1>4
<1> QED
  BY <1>2, <1>4, <1>5, <1>6

LEMMA GetPoolStep ==
    ASSUME PoolStateInv, NEW t \in Tasks, NEW ok \in BOOLEAN, GetPool(t, ok)
    PROVE  PoolStateInv'
<1> USE PoolStateAssumption
<1>t. /\ TypeOK /\ Bounded /\ BootSeen /\ Numbered(t) /\ DatasetsRead(t) /\ PoolsRead(t)
  BY DEF PoolStateInv, HolderInv
<1>1. /\ pc[t] = "boot" /\ Return(t) /\ Remember(t, "boot", IF ok THEN {} ELSE Bad)
      /\ bootUid' = (bootUid \/ ok)
      /\ failing' = IF "datasetQuery" \in failing /\ Rooted(t) # {}
                    THEN NoteBoot(ok) \cup {"poolCapacityDataset"}
                    ELSE NoteBoot(ok) \ {"poolCapacityDataset"}
      /\ UNCHANGED <<calls, op>>
  BY DEF GetPool
<1>2. /\ op[t] = "pool" /\ calls > 0 /\ last["dataset"] = calls /\ last["pool"] = calls
      /\ calls \in Calls
  BY <1>t, <1>1 DEF Numbered, DatasetsRead, Awaiting, TypeOK
<1>3. /\ unusable' \in [Endpoints -> SUBSET {"dataset", "pool", "boot"}]
      /\ UNCHANGED <<last, raised>>
      /\ \A e \in Endpoints : unusable[e] \subseteq unusable'[e]
      /\ ~ok => "boot" \in unusable'["pool"]
  BY <1>t, <1>1, <1>2, RememberTypes
<1>4. bootUid' \in BOOLEAN
  BY <1>1, Zenon
<1>5. /\ ok => NoteBoot(ok) = failing \ {"bootPool"}
      /\ CarriesBoot(ok) => NoteBoot(ok) = failing \cup {"bootPool"}
      /\ ~ok /\ ~CarriesBoot(ok) => NoteBoot(ok) = failing
  BY DEF NoteBoot, Note, CarriesBoot
<1>6. failing' \subseteq Keys
  BY <1>t, <1>1, <1>5, KeysAre DEF TypeOK
<1>7. TypeOK'
  <2>1. /\ lock' = NoTask /\ pc' \in [Tasks -> {"idle", "lock", "dataset", "pool", "boot"}]
        /\ datasets' \in [Tasks -> [Pools -> Calls]]
        /\ pools' \in [Tasks -> [Pools \cup {Boot} -> Calls]]
    BY <1>1, Released DEF Awaiting
  <2>2. /\ pool' \in [Pools \cup {Boot} -> Calls] /\ dataset' \in [Pools -> Calls]
        /\ capacity' \in [Pools -> Calls]
    BY Published
  <2> QED
    BY <1>t, <1>1, <1>3, <1>4, <1>6, <2>1, <2>2 DEF TypeOK
\* Without an answer a boot pool that was seen is carried over.
<1>8. ~ok /\ bootUid => CarriesBoot(ok)
  BY <1>t DEF BootSeen, BootPoolKept, CarriesBoot
<1>9. Bounded'
  <2>1. \A p \in Pools : dataset'[p] \in {0, calls, dataset[p]}
    BY <1>t, <1>1, Published DEF DatasetsRead
  <2>2. \A p \in Pools \cup {Boot} : pool'[p] \in {0, calls, pool[p]}
    BY <1>t, <1>1, Published DEF PoolsRead
  <2> QED
    BY <1>t, <1>1, <1>2, <2>1, <2>2 DEF Bounded, Calls
<1>10. BootSeen'
  <2>1. bootUid' => pool'[Boot] # 0
    BY <1>1, <1>2, <1>8, Published DEF CarriesBoot, Calls
  <2>2. "bootPool" \in failing' => "bootPool" \in NoteBoot(ok)
    BY <1>1
  <2>3. "bootPool" \in NoteBoot(ok) => bootUid
    BY <1>t, <1>5 DEF BootSeen, CarriesBoot
  <2> QED
    BY <1>1, <2>1, <2>2, <2>3 DEF BootSeen, BootPoolKept
<1>11. "datasetQuery" \in failing' <=> "datasetQuery" \in failing
  BY <1>1, <1>5
<1>12. "datasetNotPublished" \notin failing' /\ "poolQuery" \notin failing'
  BY <1>t, <1>1, <1>5 DEF PoolsRead
<1>13. DatasetSettled'
  <2>1. CASE "datasetQuery" \in failing
    <3>1. "dataset" \in unusable'["dataset"]
      BY <1>t, <1>1, <1>3, <2>1 DEF DatasetsRead, Endpoints
    <3> QED
      BY <1>11, <2>1, <3>1 DEF DatasetSettled, DatasetKeys
  <2>2. CASE "datasetQuery" \notin failing
    <3>1. \A p \in Pools : dataset'[p] \in {0, last'["dataset"]}
      BY <1>t, <1>1, <1>2, <1>3, <2>2, Published DEF DatasetsRead
    <3> QED
      BY <1>11, <1>12, <2>2, <3>1 DEF DatasetSettled, DatasetKeys
  <2> QED
    BY <2>1, <2>2
<1>14. PoolSettled'
  <2>1. "bootPool" \in failing' => PoolReason'
    <3>1. "bootPool" \in failing' => CarriesBoot(ok)
      BY <1>t, <1>1, <1>5, <1>8 DEF BootSeen
    <3> QED
      BY <1>3, <3>1, Published DEF CarriesBoot, PoolReason
  <2>2. "poolCapacityDataset" \in failing' => PoolReason'
    BY <1>t, <1>1, <1>3 DEF DatasetsRead, PoolReason, Endpoints
  <2>3. ASSUME failing' \cap PoolKeys = {} PROVE PoolFresh'
    <3>1. ~CarriesBoot(ok)
      BY <1>1, <1>5, <2>3 DEF PoolKeys
    <3>2. \A p \in Pools \cup {Boot} : pool'[p] \in {0, last'["pool"]}
      BY <1>t, <1>1, <1>2, <1>3, <3>1, Published DEF PoolsRead
    <3>3. "datasetQuery" \in failing => Rooted(t) = {}
      BY <1>1, <2>3 DEF PoolKeys
    <3>4. \A p \in Pools : capacity'[p] \in {0, last'["pool"]}
      BY <1>t, <1>1, <1>2, <1>3, <3>3, Published DEF DatasetsRead
    <3> QED
      BY <3>2, <3>4 DEF PoolFresh
  <2>4. failing' \cap PoolKeys # {} =>
            "bootPool" \in failing' \/ "poolCapacityDataset" \in failing'
    BY <1>12 DEF PoolKeys
  <2> QED
    BY <2>1, <2>2, <2>3, <2>4 DEF PoolSettled
<1> QED
  BY <1>1, <1>7, <1>9, <1>10, <1>13, <1>14, Released DEF PoolStateInv, Awaiting

LEMMA PoolStateStep == PoolStateInv /\ [Next]_vars => PoolStateInv'
<1> SUFFICES ASSUME PoolStateInv, [Next]_vars PROVE PoolStateInv'
  OBVIOUS
<1>t. TypeOK
  BY DEF PoolStateInv
<1>1. ASSUME NEW t \in Tasks, NEW o \in Endpoints, Call(t, o) PROVE PoolStateInv'
  <2>1. /\ op' \in [Tasks -> Endpoints] /\ \A u \in Tasks : u # t => op'[u] = op[u]
        /\ pc[t] \notin Awaiting
    BY <1>t, <1>1 DEF Call, TypeOK, Awaiting
  <2> QED
    BY <1>1, <2>1, OutsideStep DEF Call
<1>2. ASSUME NEW t \in Tasks, CancelWaiting(t) PROVE PoolStateInv'
  BY <1>t, <1>2, OutsideStep DEF CancelWaiting, TypeOK, Awaiting
<1>3. CASE UNCHANGED vars
  <2>1. UNCHANGED <<lock, dataset, pool, capacity, bootUid, failing, calls, pc, op, datasets, pools,
                    last, raised, unusable>>
    BY <1>3 DEF vars, cache, history
  <2>2. TypeOK' /\ LockHeld' /\ Bounded' /\ BootSeen' /\ DatasetSettled'
    BY <2>1 DEF PoolStateInv, TypeOK, LockHeld, Bounded, BootSeen, BootPoolKept, DatasetSettled
  <2>3. HolderInv' /\ PoolSettled'
    BY <2>1 DEF PoolStateInv, HolderInv, Numbered, DatasetsRead, PoolsRead, PoolSettled, PoolFresh,
                PoolReason
  <2> QED
    BY <2>2, <2>3 DEF PoolStateInv
<1> QED
  BY <1>1, <1>2, <1>3, AcquireStep, RaiseStep, GetDatasetStep, ComputeDatasetStep, PoolQueryStep,
     GetPoolStep DEF Next

-----------------------------------------------------------------------------
(* The theorems *)

\* Once the boot pool was seen it never leaves ds["pool"], whatever boot.get_state or
\* pool.query answer later.
THEOREM PoolStateBootPoolKept == Spec => []BootPoolKept
<1>1. PoolStateInv => BootPoolKept
  BY DEF PoolStateInv, BootSeen
<1> QED
  BY Initially, PoolStateStep, <1>1, PTL DEF Spec

\* What is not in stale_endpoints after a refresh that returned was all read by that
\* refresh, the datasets behind the capacities included.
THEOREM PoolStateFreshUnlessStale == Spec => []FreshUnlessStale
<1>1. PoolStateInv => FreshUnlessStale
  <2> SUFFICES ASSUME PoolStateInv, lock = NoTask PROVE FreshUnlessStale
    BY DEF FreshUnlessStale
  <2>1. failing \subseteq Keys /\ DatasetSettled /\ PoolSettled
    BY DEF PoolStateInv, TypeOK
  <2>2. \A t \in Tasks : lock = t => op[t] = "dataset"
    BY PoolStateAssumption
  <2> QED
    BY <2>1, <2>2, StaleByKey DEF DatasetSettled, PoolSettled, PoolFresh, FreshUnlessStale
<1> QED
  BY Initially, PoolStateStep, <1>1, PTL DEF Spec

\* What is in stale_endpoints after a refresh that returned is there because a reply to
\* that refresh was unusable; a boot pool that was never seen is no reason.
THEOREM PoolStateStaleHasReason == Spec => []StaleHasReason
<1>1. PoolStateInv => StaleHasReason
  <2> SUFFICES ASSUME PoolStateInv, lock = NoTask PROVE StaleHasReason
    BY DEF StaleHasReason
  <2>1. failing \subseteq Keys /\ DatasetSettled /\ PoolSettled
    BY DEF PoolStateInv, TypeOK
  <2>2. \A t \in Tasks : lock = t => op[t] = "dataset"
    BY PoolStateAssumption
  <2> QED
    BY <2>1, <2>2, StaleByKey DEF DatasetSettled, PoolSettled, PoolReason, StaleHasReason
<1> QED
  BY Initially, PoolStateStep, <1>1, PTL DEF Spec

\* get_pool() publishes a dataset and a pool snapshot that agree, or neither.
THEOREM PoolStatePublishedTogether == Spec => PublishedTogether
<1> DEFINE Together == \A t \in Tasks : op[t] = "pool" /\ pc'[t] # pc[t] =>
                                            Agree' \/ UNCHANGED <<dataset, pool, capacity>>
<1>1. ASSUME PoolStateInv, [Next]_vars PROVE [Together]_vars
  <2> SUFFICES ASSUME Next PROVE Together
    BY <1>1
  <2>t. TypeOK
    BY <1>1 DEF PoolStateInv
  <2>1. PICK u \in Tasks :
            \/ \E o \in Endpoints : Call(u, o)
            \/ Acquire(u) \/ Raise(u) \/ CancelWaiting(u)
            \/ \E reply \in (SUBSET Pools) \cup {Bad} :
                   GetDataset(u, reply) \/ ComputeDataset(u, reply) \/ PoolQuery(u, reply)
            \/ \E ok \in BOOLEAN : GetPool(u, ok)
    BY DEF Next
  <2>2. CASE \E ok \in BOOLEAN : GetPool(u, ok)
    <3>1. PICK ok \in BOOLEAN : GetPool(u, ok)
      BY <2>2
    <3>2. ASSUME NEW p \in Pools PROVE capacity'[p] = IF pool'[p] # 0 THEN dataset'[p] ELSE 0
      BY <1>1, <3>1, Published DEF Rooted
    <3> QED
      BY <3>2 DEF Agree
  <2>3. CASE \E reply \in (SUBSET Pools) \cup {Bad} : GetDataset(u, reply)
    <3>1. op[u] = "dataset" /\ \A t \in Tasks : t # u => pc'[t] = pc[t]
      BY <2>t, <2>3 DEF GetDataset, Return, Go, TypeOK
    <3> QED
      BY <3>1
  <2>4. CASE \/ \E o \in Endpoints : Call(u, o)
             \/ Acquire(u) \/ Raise(u) \/ CancelWaiting(u)
             \/ \E reply \in (SUBSET Pools) \cup {Bad} :
                    ComputeDataset(u, reply) \/ PoolQuery(u, reply)
    <3>1. UNCHANGED <<dataset, pool, capacity>>
      BY <2>4 DEF Call, Acquire, Raise, CancelWaiting, ComputeDataset, PoolQuery, KeepSnapshot, cache
    <3> QED
      BY <3>1
  <2> QED
    BY <2>1, <2>2, <2>3, <2>4
<1> QED
  BY Initially, PoolStateStep, <1>1, PTL DEF Spec, PublishedTogether

\* No refresh replaces what a later refresh has read: the lock keeps a get_pool() from
\* publishing datasets it fetched before a get_dataset() did.
THEOREM PoolStateNeverOlder == Spec => NeverOlder
<1> DEFINE Newer == /\ \A p \in Pools : dataset'[p] # 0 => dataset'[p] >= dataset[p]
                    /\ \A p \in Pools \cup {Boot} : pool'[p] # 0 => pool'[p] >= pool[p]
<1>1. ASSUME PoolStateInv, [Next]_vars PROVE [Newer]_vars
  <2> SUFFICES ASSUME Next PROVE Newer
    BY <1>1
  <2>t. TypeOK /\ Bounded
    BY <1>1 DEF PoolStateInv
  <2>n. /\ \A p \in Pools : dataset[p] \in Nat /\ dataset[p] <= calls
        /\ \A p \in Pools \cup {Boot} : pool[p] \in Nat /\ pool[p] <= calls
        /\ calls \in Nat
    BY <2>t DEF TypeOK, Bounded, Calls
  <2>1. PICK u \in Tasks :
            \/ \E o \in Endpoints : Call(u, o)
            \/ Acquire(u) \/ Raise(u) \/ CancelWaiting(u)
            \/ \E reply \in (SUBSET Pools) \cup {Bad} :
                   GetDataset(u, reply) \/ ComputeDataset(u, reply) \/ PoolQuery(u, reply)
            \/ \E ok \in BOOLEAN : GetPool(u, ok)
    BY DEF Next
  <2>h. Numbered(u) /\ DatasetsRead(u) /\ PoolsRead(u)
    BY <1>1 DEF PoolStateInv, HolderInv
  <2>2. CASE \E ok \in BOOLEAN : GetPool(u, ok)
    <3>1. PICK ok \in BOOLEAN : GetPool(u, ok)
      BY <2>2
    <3>2. pc[u] = "boot"
      BY <3>1 DEF GetPool
    <3>3. \A p \in Pools : dataset'[p] \in {0, calls, dataset[p]}
      BY <1>1, <2>h, <3>1, <3>2, Published DEF DatasetsRead
    <3>4. \A p \in Pools \cup {Boot} : pool'[p] \in {0, calls, pool[p]}
      BY <1>1, <2>h, <3>1, <3>2, Published DEF PoolsRead
    <3> QED
      BY <2>n, <3>3, <3>4
  <2>3. CASE \E reply \in (SUBSET Pools) \cup {Bad} : GetDataset(u, reply)
    <3>1. PICK reply \in (SUBSET Pools) \cup {Bad} : GetDataset(u, reply)
      BY <2>3
    <3>2. /\ last["dataset"] = calls /\ pool' = pool
          /\ dataset' = ParseApi(dataset, reply, calls)
      BY <2>h, <3>1 DEF GetDataset, Numbered, Awaiting
    <3>3. \A p \in Pools : dataset'[p] \in {0, calls, dataset[p]}
      BY <2>t, <3>2, ParseApiReads DEF TypeOK
    <3> QED
      BY <2>n, <3>2, <3>3
  <2>4. CASE \/ \E o \in Endpoints : Call(u, o)
             \/ Acquire(u) \/ Raise(u) \/ CancelWaiting(u)
             \/ \E reply \in (SUBSET Pools) \cup {Bad} :
                    ComputeDataset(u, reply) \/ PoolQuery(u, reply)
    <3>1. UNCHANGED <<dataset, pool>>
      BY <2>4 DEF Call, Acquire, Raise, CancelWaiting, ComputeDataset, PoolQuery, KeepSnapshot, cache
    <3> QED
      BY <2>n, <3>1
  <2> QED
    BY <2>1, <2>2, <2>3, <2>4
<1> QED
  BY Initially, PoolStateStep, <1>1, PTL DEF Spec, NeverOlder

=============================================================================
