CONSTANTS
  Host <- Hosts
  First = 1
  Inventories <- Growing
  MaxRuns = 3
SPECIFICATION Spec
CHECK_DEADLOCK FALSE
INVARIANTS TypeOK IssuedByOneCA CompletedRunCerts CompletedRunInSync
