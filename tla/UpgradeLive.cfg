CONSTANTS
  m1 = m1  m2 = m2  w1 = w1  w2 = w2
  Master <- OneMaster
  Worker <- TwoWorkers
  BatchSize = 1
  MaxVersion = 2
  OperatorNodes <- NoNode
  Overridden <- OneWorker
  KubectlMayFail = TRUE
  drain_nodes = TRUE
  upgrade_node_uncordon_after_drain_failure = TRUE
  upgrade_node_fail_if_drain_fails = FALSE
  MaxAborts = 1
  MaxDrainFailures = 1
  MaxStops = 1
SPECIFICATION FairSpec
PROPERTIES EveryNodeUpgrades
