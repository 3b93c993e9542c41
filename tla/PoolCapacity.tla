------------------------------ MODULE PoolCapacity ------------------------------
(***************************************************************************)
(* The capacity figures of one entry of ds["pool"] (domain/state.py):      *)
(* derived in place by _apply_pool_capacity() from the pool's own figures  *)
(* or from its root dataset, at every get_pool(), also of the boot pool's  *)
(* entry that was carried over with figures that were derived before.      *)
(***************************************************************************)
EXTENDS Integers

CONSTANTS
    Figures,    \* the numbers the server may report
    NoFigure,   \* None, or a value int() does not take
    NoRoot      \* there is no root dataset

ASSUME PoolCapacityAssumption == Figures \subseteq Int /\ NoFigure \notin Int

Reported == Figures \cup {NoFigure}
PoolFigures == [free : Reported, size : Reported, allocated : Reported]
RootDatasets == [available : Reported, used : Reported] \cup {NoRoot}

VARIABLES
    capacityOf,  \* "nothing", or whose entry this is: "pool" or "boot"
    entry,       \* the figures in ds["pool"]
    asRead       \* the entry when its figures were last read from the server

capacityVars == <<capacityOf, entry, asRead>>

\* _POOL_CAPACITY_KEYS, all None.
Unknown == [free |-> NoFigure, size |-> NoFigure, allocated |-> NoFigure,
            available |-> NoFigure, total |-> NoFigure, usage |-> NoFigure]

CapacityTypeOK ==
    /\ capacityOf \in {"nothing", "pool", "boot"}
    /\ {entry, asRead} \subseteq
          [{"free", "size", "allocated", "available", "total", "usage"} -> Int \cup {NoFigure}]

CapacityInit == capacityOf = "nothing" /\ entry = Unknown /\ asRead = Unknown

-----------------------------------------------------------------------------

\* Definitions named Fault... are faulty variants of the definition they precede.

SumOrNone(a, b) == IF NoFigure \in {a, b} THEN NoFigure ELSE a + b

IsPlausibleCapacity(available, total, used) ==
    /\ total > 0 /\ 0 <= available /\ available <= total
    /\ used # NoFigure => 0 <= used /\ used <= total

\* _pool_query_capacity
PoolQueryCapacity(vals) ==
    [available |-> vals.free, used |-> vals.allocated,
     total |-> IF vals.size # NoFigure /\ vals.size > 0 THEN vals.size
               ELSE SumOrNone(vals.allocated, vals.free)]
RootCapacity(root) ==
    [available |-> root.available, used |-> root.used,
     total |-> SumOrNone(root.available, root.used)]

\* round(100 * part / whole): to the nearest, a half to the even neighbour.
Percent(part, whole) ==
    LET q == (100 * part) \div whole
        r == (100 * part) % whole
    IN  IF 2 * r > whole \/ (2 * r = whole /\ q % 2 = 1) THEN q + 1 ELSE q

FaultAllocated(c) == IF c.used # NoFigure THEN c.used ELSE c.total - c.available
\* The figure reported as allocated; one that does not add up is replaced.
Allocated(c) ==
    IF c.used # NoFigure /\ c.used + c.available = c.total THEN c.used
    ELSE c.total - c.available

\* _apply_pool_capacity on an entry with the figures vals.
ApplyPoolCapacity(vals, root) ==
    LET c == IF root # NoRoot THEN RootCapacity(root) ELSE PoolQueryCapacity(vals) IN
    IF \/ NoFigure \in {c.available, c.total}
       \/ ~IsPlausibleCapacity(c.available, c.total, c.used)
    THEN Unknown
    ELSE [free |-> vals.free, size |-> c.total, allocated |-> Allocated(c),
          available |-> c.available, total |-> c.total,
          usage |-> Percent(c.total - c.available, c.total)]

\* get_pool() read the pool's entry, and found its root dataset or not.
PoolRead(vals, root) ==
    /\ capacityOf' = "pool"
    /\ entry' = ApplyPoolCapacity(vals, root)
    /\ asRead' = entry'

\* boot.get_state was usable; the boot pool has no root dataset.
BootRead(vals) ==
    /\ capacityOf' = "boot"
    /\ entry' = ApplyPoolCapacity(vals, NoRoot)
    /\ asRead' = entry'

\* boot.get_state was not, and the entry was carried over.
BootCarried ==
    /\ capacityOf = "boot"
    /\ entry' = ApplyPoolCapacity(entry, NoRoot)
    /\ UNCHANGED <<capacityOf, asRead>>

CapacityNext ==
    \/ \E vals \in PoolFigures :
          BootRead(vals) \/ \E root \in RootDatasets : PoolRead(vals, root)
    \/ BootCarried

CapacitySpec == CapacityInit /\ [][CapacityNext]_capacityVars

-----------------------------------------------------------------------------

\* Either no figure is reported, or all fit together: allocated and available add
\* up to the total, which is the size, and the usage is a percentage.
FitTogether(e) ==
    \/ e = Unknown
    \/ /\ e.size = e.total /\ e.total > 0
       /\ e.allocated + e.available = e.total /\ e.allocated >= 0 /\ e.available >= 0
       /\ e.usage \in 0..100

\* Whatever the server reports of a pool (negative, missing and contradicting
\* figures, a size of 0), the figures of its entry fit together, and an entry that
\* is carried over keeps them although they are derived again from themselves.
CapacityAddsUp == FitTogether(entry) /\ entry = asRead
=============================================================================
