CONSTANTS
  h1 = h1  h2 = h2  h3 = h3  h4 = h4  h5 = h5
  Host <- Five
  InitMembers <- Three
  Inventories <- ThreeThenFive
  TolerateExists = TRUE
  MatchedBy <- OwnAddress
  FlakyChecks = FALSE
  EtcdMayBeDown = TRUE
  MaxInterrupts = 0
  MaxCrashes = 1
SPECIFICATION Spec
PROPERTY NewEtcdFailsToStart
