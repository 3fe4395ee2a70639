CONSTANTS
  h1 = h1  h2 = h2  h3 = h3  h4 = h4  h5 = h5
  Host <- Four
  InitMembers <- Three
  Inventories <- ThreeThenFour
  TolerateExists = TRUE
  MatchedBy <- OwnAddress
  FlakyChecks = FALSE
  EtcdMayBeDown = FALSE
  MaxInterrupts = 1
  MaxCrashes = 1
SPECIFICATION FairSpec
PROPERTY EveryHostJoins
