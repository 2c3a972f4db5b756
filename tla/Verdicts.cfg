SPECIFICATION Spec
CONSTANTS
  t1 = t1
  t2 = t2
  Targets <- MCTargets
  HostOf <- MCHostOf
  Presents <- MCPresents
  Instants <- MCInstants
  Options <- MCOptions
  ClientVersions = {"TLS10", "TLS11", "TLS12", "TLS13"}
  PinnableVersions = {"SSL3", "TLS10", "TLS11", "TLS12", "TLS13"}
  LocalSuites <- MCLocalSuites
  CipherA <- MCCipherA
  CipherB <- MCCipherB
  Fetched <- MCFetched
  MinSamples = 2
INVARIANTS
  ExpiryViewsAgree
  JudgementsAgree
  WeakeningNeverHelps
  GateIsEarned
PROPERTIES
  AlarmsInTime
  RenewalIsForetold
