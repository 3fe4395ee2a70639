CONSTANTS
  h1 = h1  h2 = h2  h3 = h3  h4 = h4  h5 = h5
  Host <- Five
  InitMembers <- Three
  Inventories <- ThreeThenFive
  TolerateExists = TRUE
  MatchedBy <- OwnAddress
  FlakyChecks = FALSE
  EtcdMayBeDown = FALSE
  MaxInterrupts = 2
  MaxCrashes = 2
SYMMETRY ThreeTwoSymmetry
SPECIFICATION Spec
INVARIANTS TypeOK OneCluster JoinConfigIsMemberList CompletedRunJoinsAll
