SPECIFICATION LibrarySpec
CONSTANTS
  w1 = w1
  w2 = w2
  n1 = n1
  n2 = n2
  p1 = p1
  p2 = p2
  Worker = {w1, w2}
  Ui = Ui
  NoThread = NoThread
  Config = {n1, n2}
  NoConfig = NoConfig
  Port = {p1, p2}
  Optional = {"testXrayConfig", "getFreePorts", "queryStats", "convertShareLinksToXrayJson"}
  Exported = {"CGoInvoke", "CGoFree", "testXrayConfig"}
SYMMETRY Same
INVARIANTS NoSetenvAfterLoad
