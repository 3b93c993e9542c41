SPECIFICATION FairSpec
CONSTANTS
  t1 = t1
  t2 = t2
  t3 = t3
  None = None
  Tasks = {t1, t2}
  Conns = {c1}
  SubIds = {s1, s2}
  Collections <- ArgNames
  Events <- ArgNames
  Ops <- LiveOps
  Kinds = {"ok", "nonstr", "error", "malformed"}
  MaxRpc = 2
  MaxQueue = 1
  Cancels = FALSE
  BadFrames = TRUE
PROPERTIES
  EveryCallEnds
  LossIsNoticed
CHECK_DEADLOCK FALSE
