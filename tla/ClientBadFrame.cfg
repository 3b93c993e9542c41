SPECIFICATION Spec
CONSTANTS
  t1 = t1
  t2 = t2
  t3 = t3
  None = None
  Tasks = {t1, t2}
  Conns = {c1}
  SubIds = {s1}
  Collections <- PlainNames
  Events <- PlainNames
  Ops <- BusyOps
  Kinds = {"ok", "nonstr", "error", "malformed"}
  MaxRpc = 1
  MaxQueue = 1
  Cancels = TRUE
  BadFrames = TRUE
INVARIANTS
  ReaderKeepsOpenSocket
CHECK_DEADLOCK FALSE
