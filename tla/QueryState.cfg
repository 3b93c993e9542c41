SPECIFICATION Spec
CONSTANTS
    Endpoints = {"service", "vm", "interface", "scrub", "replication", "cronjob", "app", "certificate", "cloudsync", "rsynctask", "snapshottask", "container", "container26"}
    Uids = {u1, u2}
    MemoryRead = {1536, 4096, Null, Garbage}
    MemoryBytes = {Absent, Null, Garbage, 3145728}
    CpuText = CpuText
    MaxEntries = 2
    MaxRate = 2
    Absent = Absent
    Null = Null
    NotList = NotList
    NotDict = NotDict
    Unhashable = Unhashable
    Garbage = Garbage
    Foreign = Foreign
SYMMETRY UidSymmetry
INVARIANTS SnapshotIsLastReply StaleIffFellBack
