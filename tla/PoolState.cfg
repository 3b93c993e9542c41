SPECIFICATION Spec
CONSTANTS
  Tasks = {t1, t2}
  Pools = {p1, p2}
  Boot = Boot
  Bad = Bad
  NoTask = NoTask
  MaxCalls = 4
SYMMETRY Symmetry
INVARIANTS
  BootPoolKept
  FreshUnlessStale
  StaleHasReason
PROPERTIES
  PublishedTogether
  NeverOlder
CHECK_DEADLOCK FALSE
