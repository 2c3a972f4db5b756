SPECIFICATION Spec
CONSTANTS
  Bucket = 2
  Lateness = {0, 3}
  RunTicks = 5
  MaxResults = 3
INVARIANT StreamIsFaithful
PROPERTY StreamIsCurrent
PROPERTY FlushIsComplete
