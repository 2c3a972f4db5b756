SPECIFICATION FairSpec
CONSTANTS
  Rate = 6
  Duration = 1
  Lead = 1
  MaxRequests = 1
  MaxTime = 3
  Scenarios <- MCScenarios
INVARIANTS
  NothingIsLost
  OfferedAsAsked
  TimelineAligned
PROPERTY
  Ends
CHECK_DEADLOCK FALSE
