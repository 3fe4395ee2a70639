SPECIFICATION FairSpec
CONSTANTS
  e1 = e1
  e2 = e2
  e3 = e3
  n1 = n1
  n2 = n2
  Host <- MCHost
  Founders <- MCFounders
  FirstFounder = e1
  PartOf = {}
  MemberName <- MCNames
  MayForget = FALSE
  MayStopInRecovery = FALSE
  ManyNewHosts = FALSE
  Mixed = FALSE
  MaxClusters = 3
  MaxWrites = 1
  MaxBroken = 2
  MinHosts = 2
  MaxStops = 1
  MaxAborts = 1
INVARIANTS TypeOK QuorumHasLatest SomeCopyIsLeft CompletedRunRecovers
PROPERTIES ImplementsStore RecoveryCompletes
CHECK_DEADLOCK FALSE
