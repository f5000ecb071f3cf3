SPECIFICATION Spec
CONSTANTS
  c1 = c1
  c2 = c2
  Session = {1, 2}
  Config = {c1, c2}
  NoConfig = NoConfig
  MaxAsks = 2
  Prompts = FALSE
SYMMETRY Configs
INVARIANTS TypeOK Stoppable ShownConfigCarried
PROPERTIES NoStartWhileStopping
CHECK_DEADLOCK FALSE
