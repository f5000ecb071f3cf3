SPECIFICATION FairSpec
CONSTANTS
  c1 = c1
  c2 = c2
  Session = {1}
  Config = {c1}
  NoConfig = NoConfig
  MaxAsks = 2
  Prompts = TRUE
PROPERTIES PageUsable
