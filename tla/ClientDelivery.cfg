SPECIFICATION DeliverySpec
CONSTANTS
  t1 = t1
  t2 = t2
  t3 = t3
  None = None
  Tasks = {t1, t2}
  Conns = {c1, c2}
  SubIds = {s1, s2}
  Collections <- ArgNames
  Events <- ArgNames
  Ops <- LiveOps
  Kinds = {"ok"}
  MaxRpc = 3
  MaxQueue = 1
  Cancels = FALSE
  BadFrames = FALSE
SYMMETRY ConnSymmetry
PROPERTIES
  DeliveredOnce
CHECK_DEADLOCK FALSE
