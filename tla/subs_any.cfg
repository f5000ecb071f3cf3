SPECIFICATION Spec
CONSTANTS
  u1 = u1
  u2 = u2
  c1 = c1
  c2 = c2
  c3 = c3
  m1 = m1
  g1 = g1
  g2 = g2
  NoUrl = NoUrl
  NoGroup = NoGroup
  Local = Local
  Url = {u1, u2}
  Content = {c1, c2, c3, m1}
  Identity <- MCIdentity
  ManualContent = {m1}
  Fetched <- MCFetched
  FreshGroup = {g1, g2}
  InitialProfiles <- FromTwo
  Backups <- Old
  PageTask = {"p1"}
  WorkTask = {"w1"}
  Overlap = "any"
  Faults = TRUE
  MaxTasks = 2
INVARIANTS TypeOK LoadedConsistent LoadKeepsNodeIds
