SPECIFICATION Spec
CONSTANTS
  Workers = {w1, w2, w3}
  Backlogs = {1, 3}
  Slots = 5
INVARIANT CountersBalance
PROPERTY ImplementsLoadRun
PROPERTY ShutsDownUnaided
PROPERTY Terminates
