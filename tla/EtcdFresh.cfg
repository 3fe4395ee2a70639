CONSTANTS
  h1 = h1  h2 = h2  h3 = h3  h4 = h4  h5 = h5
  Host <- Three
  InitMembers <- NoMember
  Inventories <- JustThree
  TolerateExists = FALSE
  MatchedBy <- OwnAddress
  FlakyChecks = TRUE
  EtcdMayBeDown = TRUE
  MaxInterrupts = 2
  MaxCrashes = 2
SYMMETRY ThreeSymmetry
SPECIFICATION Spec
INVARIANTS OneCluster CompletedRunJoinsAll
