SPECIFICATION StateSpec
CONSTANTS
  Graphs = {g1, g2, g3}
  MaxCalls = 4
  Disks = {d1, d2}
  DiskNames = {n1, n2}
  Absent = Absent
  MaxDiskCalls = 4
  StatGraphs <- OneStat
  MaxSysCalls = 3
  ArcGraphs = 2
  MaxFlatCalls = 4
  Figures <- CapacityFigures
  NoFigure = NoFigure
  NoRoot = NoRoot
SYMMETRY Symmetry
INVARIANTS
  FreshUnlessStale
  StaleHasValue
  KeyIsLastOutcome
  FailingIffStuck
  InfoStaleIffKept
  StatsFreshUnlessStale
  DetectionHonest
  StaleIffKept
  CapacityAddsUp
PROPERTIES
  DeniedForGood
CHECK_DEADLOCK FALSE
