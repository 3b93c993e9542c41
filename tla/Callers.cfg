SPECIFICATION CallerSpec
CONSTANTS
  Jobs = {j1}
  MaxGap = 4
  MandatoryGraphs = 3
  MaxLinks = 2
  None = None
  TERM = TERM
  Reqs = {r1, r2}
  Sources = {c1}
  Readers = {k1, k2}
  MaxFeed = 3
INVARIANTS
  OutcomeIsFinal
  GapsAreBridged
  RootCauseRaised
  NothingLost
PROPERTIES
  WaitEnds
  ReadEnds
  RawReaderEnds
CHECK_DEADLOCK FALSE
