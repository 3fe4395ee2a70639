CONSTANTS
  m1 = m1  m2 = m2  w1 = w1  w2 = w2
  Master <- TwoMasters
  Worker <- TwoWorkers
  BatchSize = 2
  MaxVersion = 1
  OperatorNodes <- OneWorker
  Overridden <- NoNode
  KubectlMayFail = FALSE
  drain_nodes = TRUE
  upgrade_node_uncordon_after_drain_failure = TRUE
  upgrade_node_fail_if_drain_fails = TRUE
  MaxAborts = 1
  MaxDrainFailures = 1
  MaxStops = 0
SYMMETRY Symmetry
SPECIFICATION Spec
INVARIANTS TypeOK WorkersBehindControlPlane UpgradesDrainedNodes OperatorCordonKept CompletedRunUpgrades
