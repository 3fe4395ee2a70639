SPECIFICATION Spec
CONSTANTS
  e1 = e1
  e2 = e2
  e3 = e3
  n1 = n1
  n2 = n2
  Host <- MCHosts
  Founders <- MCFounders
  FirstFounder = e1
  PartOf = {}
  MemberName <- MCNames
  MayForget = FALSE
  MayStopInRecovery = FALSE
  ManyNewHosts = TRUE
  Mixed = FALSE
  MaxClusters = 3
  MaxWrites = 1
  MaxBroken = 2
  MinHosts = 2
  MaxStops = 1
  MaxAborts = 1
PROPERTY RestoresLostQuorumOnly
CHECK_DEADLOCK FALSE
