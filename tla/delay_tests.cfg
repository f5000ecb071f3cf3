SPECIFICATION FairSpec
CONSTANTS
  n1 = n1
  n2 = n2
  w1 = w1
  w2 = w2
  p0 = p0
  p1 = p1
  p2 = p2
  Worker = {w1, w2}
  Config = {n1, n2}
  NoConfig = NoConfig
  Port = {p0, p1, p2}
  Targets <- MCTargets
  Slots = 2
  BatchPort <- MCBatchPort
  DefaultPort = p0
  FlushAt = 1
  MaxActs = 2
INVARIANTS TypeOK RowsShowOwnNode RowsStored DelayOfSession
PROPERTIES BatchEnds MeasuringEnds
