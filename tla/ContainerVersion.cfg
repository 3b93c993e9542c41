SPECIFICATION SysSpec
CONSTANTS
  StatGraphs = {"cputemp", "interface"}
  MaxSysCalls = 3
INVARIANTS
  ConnectedVersionDecides
CHECK_DEADLOCK FALSE
