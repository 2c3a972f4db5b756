SPECIFICATION Spec
CONSTANTS
  Hosts = {h1}
  Elsewhere = {e1}
  Targets = {t1, t2}
  Iterations = 1
  MaxRetries = 1
  MaxRedirects = 1
  MaxTime = 2
  Scenarios <- MCScenarios
PROPERTY
  HonoursTTL
CHECK_DEADLOCK FALSE
