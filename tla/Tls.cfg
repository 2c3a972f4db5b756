SPECIFICATION FairSpec
CONSTANTS
  t1 = t1
  t2 = t2
  t3 = t3
  h1 = h1
  h2 = h2
  None = None
  Targets = {t1, t2, t3}
  Hosts = {h1, h2}
  MaxBytes = 2
  Scenarios <- MCScenarios
INVARIANTS
  HostsInTurn
  PhasesInOrder
  SettledOutcome
PROPERTIES
  SharedOnceFetched
  AllSettle
CHECK_DEADLOCK FALSE
