SPECIFICATION Spec
CONSTANTS
  Slots = {s1, s2, s3}
  StartConcurrency = 1
  StepCounts = {1, 2, 3}
  MaxRequests = 4
INVARIANT ResultsBalance
INVARIANT OnPlan
PROPERTY ImplementsLoadRun
PROPERTY Terminates
