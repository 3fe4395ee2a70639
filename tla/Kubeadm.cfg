SPECIFICATION FairSpec
CONSTANTS
  m1 = m1
  m2 = m2
  m3 = m3
  Master <- MCMaster
  Worker = {w1}
  Deployed <- MCDeployed
  Retries = 1
  MaxFailures = 3
  MaxAborts = 2
INVARIANTS TypeOK OneCA MarkedServes CompletedRunServes CompletedRunMarks SansComplete
PROPERTY EveryHostJoins
