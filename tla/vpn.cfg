SPECIFICATION FairExtSpec
CONSTANTS
  v1 = v1
  v2 = v2
  Fd = {v1, v2}
  Config = {c1}
  NoConfig = NoConfig
  NoFd = NoFd
  Net = {home, cafe}
  Trusted = {home}
  NoNet = NoNet
  MaxLog = 2
  ReuseProcess = FALSE
INVARIANTS TypeOK CoreUnderTun EnginesReachable HevJoinNeverBlocks
PROPERTIES StartReported ReportedDownIsDown KeepsPromiseFairly NoDisconnectInPlace
