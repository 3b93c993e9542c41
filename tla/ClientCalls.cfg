SPECIFICATION Spec
CONSTANTS
  t1 = t1
  t2 = t2
  t3 = t3
  None = None
  Tasks = {t1, t2, t3}
  Conns = {c1, c2}
  SubIds = {s1}
  Collections <- NoNames
  Events <- PlainNames
  Ops <- CallOps
  Kinds = {"ok", "nonstr", "error", "malformed"}
  MaxRpc = 2
  MaxQueue = 1
  Cancels = TRUE
  BadFrames = FALSE
SYMMETRY TaskSymmetry
INVARIANTS
  TypeOK
  PendingOnCurrent
  WaitingCallIsPending
  PendingHasOwner
  NoSocketLeak
  CurrentHasReader
  OptionWasSent
PROPERTIES
  OptionNotResent
  EnableTakesEffect
  NewConnectionUntouched
CHECK_DEADLOCK FALSE
