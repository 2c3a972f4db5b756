SPECIFICATION ReportSpec
CONSTANTS
  n1 = n1
  n2 = n2
  n3 = n3
  Nodes <- MCNodes
  Kinds <- MCKinds
  MaxResults <- MCMaxResults
  Launches <- MCLaunches
  EpochTolerance = 1
  SkewTolerance = 1
  LowestMs = 4
  SubBuckets = 2
  MaxExponent = 3
INVARIANTS
  FilesAreSound
  MergeIsExact
  QuantilesAreClose
  GreenIsEarned
CHECK_DEADLOCK FALSE
