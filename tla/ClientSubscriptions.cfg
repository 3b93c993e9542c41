SPECIFICATION Spec
CONSTANTS
  t1 = t1
  t2 = t2
  t3 = t3
  None = None
  Tasks = {t1, t2}
  Conns = {c1, c2}
  SubIds = {s1}
  Collections <- NoNames
  Events <- PlainNames
  Ops <- SubscribeOps
  Kinds = {"ok"}
  MaxRpc = 3
  MaxQueue = 1
  Cancels = TRUE
  BadFrames = FALSE
SYMMETRY ConnSymmetry
INVARIANTS
  SubscriptionsOnCurrent
  TrackedHasReader
PROPERTIES
  ImplementsFeed
CHECK_DEADLOCK FALSE
