-------------------------------- MODULE MCState --------------------------------
(***************************************************************************)
(* Five parts of TrueNASState for TLC.  They share the lock, which a call  *)
(* holds from its first await to its return, and _fallback_failing, in     *)
(* which each has keys of its own: no step of one reads or writes what     *)
(* another uses.  So it is enough to look at the behaviours in which one   *)
(* part is called and the others rest in their initial state.              *)
(***************************************************************************)
EXTENDS Ups, Disk, SystemState, FlatState, PoolCapacity, TLC

VARIABLE part   \* the part that is called

StateVars == <<part, vars, diskVars, sysVars, flatVars, capacityVars>>

StateInit ==
    /\ part \in {"ups", "disk", "system", "flat", "capacity"}
    /\ Init /\ DiskInit /\ SysInit /\ FlatInit /\ CapacityInit
    /\ part # "system" => server = "legacy" /\ ~hypervisor

StateNext ==
    /\ \/ part = "ups" /\ Next /\ UNCHANGED <<diskVars, sysVars, flatVars, capacityVars>>
       \/ part = "disk" /\ DiskNext /\ UNCHANGED <<vars, sysVars, flatVars, capacityVars>>
       \/ part = "system" /\ SysNext /\ UNCHANGED <<vars, diskVars, flatVars, capacityVars>>
       \/ part = "flat" /\ FlatNext /\ UNCHANGED <<vars, diskVars, sysVars, capacityVars>>
       \/ part = "capacity" /\ CapacityNext /\ UNCHANGED <<vars, diskVars, sysVars, flatVars>>
    /\ UNCHANGED part

StateSpec == StateInit /\ [][StateNext]_StateVars

Symmetry == Permutations(Graphs) \cup Permutations(Disks) \cup Permutations(DiskNames)

CapacityFigures == {-1, 0, 1, 3, 4}

OneStat == {"cpu", "cputemp", "interface"}
=============================================================================
