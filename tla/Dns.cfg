SPECIFICATION FairSpec
CONSTANTS
  r1 = r1
  r2 = r2
  d1 = d1
  d2 = d2
  Resolvers = {r1, r2}
  Questions = {d1, d2}
  Probe = d1
  MaxIterations = 3
  MaxRetries = 1
  Scenarios <- MCScenarios
INVARIANTS
  CountsAndHits
  NoLateReply
PROPERTY
  AllReturn
CHECK_DEADLOCK FALSE
