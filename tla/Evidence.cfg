SPECIFICATION FairEvidenceSpec
CONSTANTS
  leaf = leaf
  a = a
  b = b
  x = x
  r1 = r1
  r2 = r2
  u1 = u1
  u2 = u2
  o1 = o1
  o2 = o2
  None = None
  Leaf = leaf
  Certs <- MCCerts
  SubjectOf <- MCSubjectOf
  IssuerOf <- MCIssuerOf
  Vendors <- MCVendors
  MaxDepth = 2
  Responses <- MCResponses
  Worlds <- MCWorlds
  CrlUrls = {u1, u2}
  Responders = {o1, o2}
  CRLs <- MCCRLs
  Replies <- MCReplies
  CacheMaxAge = 1
  CacheMaxBytes = 2
  self = self
  p1 = p1
  Self = self
  Neighbours = {p1}
  MaxClock = 2
INVARIANTS
  WithinBounds
  ChainsAreHonest
  RevocationIsHonest
PROPERTY
  AllChecked
CHECK_DEADLOCK FALSE
