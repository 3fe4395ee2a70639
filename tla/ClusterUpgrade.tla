--------------------------- MODULE ClusterUpgrade ---------------------------
(***************************************************************************)
(* The rolling part of upgrade-cluster.yml: the control plane one node at a *)
(* time, then the workers in batches.  Each batch runs upgrade/pre-upgrade, *)
(* kubernetes/node, on masters kubernetes/control-plane, and                *)
(* upgrade/post-upgrade, task by task over its hosts.                       *)
(*                                                                          *)
(* A node is unschedulable or not, runs pods or not, has a kubelet binary   *)
(* and a kubelet process that need not be of the same version.  Between     *)
(* runs only the nodes keep state: facts, registered results and notified   *)
(* handlers are lost, whether the run ended well or was aborted.            *)
(*                                                                          *)
(* External: kubectl (cordon, drain, uncordon, get node), kubeadm upgrade   *)
(* apply, systemd, the scheduler placing pods on schedulable nodes, and an  *)
(* operator who cordons nodes for reasons of his own.  A batch is any set   *)
(* of the right size: the inventory's order is not modelled.  The kubelet's *)
(* other files do not change with kube_version.                             *)
(***************************************************************************)
EXTENDS Integers, FiniteSets

CONSTANTS
  Master,          \* groups['kube_control_plane']
  Worker,          \* groups['kube_node'] without the control plane
  BatchSize,       \* serial, of the play of the workers
  MaxVersion,      \* kube_version goes from 0 to MaxVersion
  OperatorNodes,   \* nodes the operator may cordon
  Overridden,      \* nodes with a kube_override_hostname
  KubectlMayFail,  \* 'kubectl get node' may fail, which is tolerated
  drain_nodes,
  upgrade_node_uncordon_after_drain_failure,
  upgrade_node_fail_if_drain_fails,
  MaxAborts,       \* bound on runs aborted by a failed task or the operator
  MaxDrainFailures,\* bound on drains that fail
  MaxStops         \* bound on kubelets that stop

VARIABLES
  \* the nodes
  installed,     \* installed[n]: version of the kubelet binary
  kubelet,       \* kubelet[n]: version the kubelet last started as
  running,       \* nodes whose kubelet runs; only these are Ready
  apiserver,     \* apiserver[m]: version of m's control plane
  unschedulable, \* nodes with spec.unschedulable
  pods,          \* nodes with pods a drain evicts
  \* the operator
  operator_cordon, \* nodes the operator has cordoned and wants so
  cordoned_late,   \* those of them cordoned after the run had read their state
  kube_version,    \* the version of the last run
  completed,       \* the last run ended without an error
  \* the run
  pc,              \* the task
  batch,           \* hosts of the batch
  todo,            \* hosts of the batch the task has not been applied to
  left,            \* hosts of the play that are in no batch yet
  needs_cordoning, \* hosts whose fact needs_cordoning is true
  drain_failed,    \* hosts whose drain failed after the last retry
  notified,        \* hosts that notified a handler that restarts kubelet
  \* bounds
  aborts, drainFailures, stops

Node == Master \cup Worker
Version == 0 .. MaxVersion
Tasks == {"idle", "check", "cordon", "drain", "rescue", "drain_fail",
          "install", "flush", "enable", "control_plane", "post", "handlers"}

nodeVars == <<installed, kubelet, running, apiserver>>
podVars  == <<unschedulable, pods>>
cordons  == <<operator_cordon, cordoned_late>>
opVars   == <<cordons, kube_version, completed>>
runVars  == <<pc, batch, todo, left, needs_cordoning, drain_failed, notified>>
bounds   == <<aborts, drainFailures, stops>>
vars     == <<nodeVars, podVars, opVars, runVars, bounds>>

ASSUME UpgradeAssumption ==
  /\ IsFiniteSet(Master) /\ IsFiniteSet(Worker) /\ Master \cap Worker = {}
  /\ Master # {} /\ Worker # {}
  /\ BatchSize \in Nat \ {0} /\ MaxVersion \in Nat
  /\ OperatorNodes \subseteq Node /\ Overridden \subseteq Node
  /\ KubectlMayFail \in BOOLEAN
  /\ drain_nodes \in BOOLEAN
  /\ upgrade_node_uncordon_after_drain_failure \in BOOLEAN
  /\ upgrade_node_fail_if_drain_fails \in BOOLEAN
  /\ MaxAborts \in Nat /\ MaxDrainFailures \in Nat /\ MaxStops \in Nat

-----------------------------------------------------------------------------
(* The cluster around the run *)

PodsScheduled(n) ==
  /\ n \in running \ (unschedulable \cup pods)
  /\ pods' = pods \cup {n}
  /\ UNCHANGED <<nodeVars, unschedulable, opVars, runVars, bounds>>

\* The run has read whether n is schedulable, and has not finished with it.
StateWasRead(n) == n \in batch /\ ~(pc = "check" /\ n \in todo)

\* The operator cordons what he likes, also in the middle of a batch.
OperatorCordons(n) ==
  /\ n \in OperatorNodes
  /\ n \notin operator_cordon \cap unschedulable
  /\ operator_cordon' = operator_cordon \cup {n}
  /\ cordoned_late' = IF StateWasRead(n) THEN cordoned_late \cup {n}
                                         ELSE cordoned_late \ {n}
  /\ unschedulable' = unschedulable \cup {n}
  /\ UNCHANGED <<nodeVars, pods, kube_version, completed, runVars, bounds>>

\* He does not uncordon a node that the run has to drain.
OperatorUncordons(n) ==
  /\ n \in operator_cordon \ needs_cordoning
  /\ operator_cordon' = operator_cordon \ {n}
  /\ cordoned_late' = cordoned_late \ {n}
  /\ unschedulable' = unschedulable \ {n}
  /\ UNCHANGED <<nodeVars, pods, kube_version, completed, runVars, bounds>>

KubeletStops(n) ==
  /\ n \in running
  /\ stops < MaxStops
  /\ running' = running \ {n}
  /\ stops' = stops + 1
  /\ UNCHANGED <<installed, kubelet, apiserver, podVars, opVars, runVars,
                 aborts, drainFailures>>

\* systemd or a reboot starts the binary that is installed by then.
KubeletStarts(n) ==
  /\ n \notin running
  /\ running' = running \cup {n}
  /\ kubelet' = [kubelet EXCEPT ![n] = installed[n]]
  /\ UNCHANGED <<installed, apiserver, podVars, opVars, runVars, bounds>>

-----------------------------------------------------------------------------
(* The play *)

\* The task is applied to h; after the last host of the batch the next begins.
AppliedTo(h, next) ==
  /\ h \in todo
  /\ IF todo = {h} THEN pc' = next /\ todo' = batch
                   ELSE pc' = pc /\ todo' = todo \ {h}
  /\ UNCHANGED <<batch, left>>

\* Facts and notifications outlive the run.
EndRun_KeepsFacts(ok) ==
  /\ pc' = "idle"
  /\ completed' = ok
  /\ batch' = {} /\ todo' = {} /\ left' = {}
  /\ UNCHANGED <<cordons, kube_version, needs_cordoning, notified>>

\* The facts, the registered results and the notified handlers are gone.
EndRun(ok) ==
  /\ pc' = "idle"
  /\ completed' = ok
  /\ batch' = {} /\ todo' = {} /\ left' = {}
  /\ needs_cordoning' = {} /\ notified' = {}
  /\ UNCHANGED <<cordons, kube_version>>

\* serial: the play takes the next k of the hosts it has left.
StartBatch(hosts, k) ==
  /\ \E b \in SUBSET hosts :
       /\ Cardinality(b) = IF k < Cardinality(hosts) THEN k
                                                     ELSE Cardinality(hosts)
       /\ batch' = b /\ todo' = b /\ left' = hosts \ b
  /\ pc' = "check"
  /\ needs_cordoning' = {} /\ drain_failed' = {} /\ notified' = {}

\* The workers' play comes first.
StartRun_WorkersFirst(v) ==
  /\ pc = "idle"
  /\ v \in {kube_version, kube_version + 1} \cap Version
  /\ kube_version' = v
  /\ completed' = FALSE
  /\ StartBatch(Worker, BatchSize)
  /\ UNCHANGED <<nodeVars, podVars, cordons, bounds>>

\* The operator runs upgrade-cluster.yml, for this release or the next.
StartRun(v) ==
  /\ pc = "idle"
  /\ v \in {kube_version, kube_version + 1} \cap Version
  /\ kube_version' = v
  /\ completed' = FALSE
  /\ StartBatch(Master, 1)
  /\ UNCHANGED <<nodeVars, podVars, cordons, bounds>>

\* Both reads are 'failed_when: false': a kubectl that fails prints nothing,
\* which reads as not Ready and as schedulable.
Reads(fact) == {fact} \cup IF KubectlMayFail THEN {FALSE} ELSE {}

CheckNode(h) ==
  /\ pc = "check" /\ AppliedTo(h, "cordon")
  /\ \E ready \in Reads(h \in running), disabled \in Reads(h \in unschedulable) :
       needs_cordoning' = IF ready /\ ~disabled THEN needs_cordoning \cup {h}
                                                ELSE needs_cordoning
  /\ UNCHANGED <<nodeVars, podVars, opVars, drain_failed, notified, bounds>>

CordonNode(h) ==
  /\ pc = "cordon" /\ AppliedTo(h, "drain")
  /\ unschedulable' = unschedulable \cup ({h} \cap needs_cordoning)
  /\ UNCHANGED <<nodeVars, pods, opVars, needs_cordoning, drain_failed,
                 notified, bounds>>

DrainNode(h) ==
  /\ pc = "drain" /\ AppliedTo(h, "rescue")
  /\ \/ /\ pods' = IF drain_nodes THEN pods \ ({h} \cap needs_cordoning) ELSE pods
        /\ UNCHANGED <<drain_failed, drainFailures>>
     \/ /\ drain_nodes /\ h \in needs_cordoning
        /\ drainFailures < MaxDrainFailures
        /\ drain_failed' = drain_failed \cup {h}
        /\ drainFailures' = drainFailures + 1
        /\ UNCHANGED pods
  /\ UNCHANGED <<nodeVars, unschedulable, opVars, needs_cordoning, notified,
                 aborts, stops>>

\* 'Set node back to schedulable' names the node inventory_hostname: where
\* that is overridden kubectl finds no such node.
UncordonFails(h) ==
  upgrade_node_uncordon_after_drain_failure /\ h \in Overridden

SetBackToSchedulable(h) ==
  /\ pc = "rescue" /\ AppliedTo(h, "drain_fail")
  /\ unschedulable' =
       IF /\ h \in drain_failed
          /\ upgrade_node_uncordon_after_drain_failure
          /\ ~UncordonFails(h)
       THEN unschedulable \ {h}
       ELSE unschedulable
  /\ UNCHANGED <<nodeVars, pods, opVars, needs_cordoning, drain_failed,
                 notified, bounds>>

\* The failure of the drain is swallowed by its rescue.
FailAfterRescue_Swallowed ==
  /\ pc = "drain_fail"
  /\ pc' = "install"
  /\ UNCHANGED <<batch, todo, left, needs_cordoning, notified, opVars>>
  /\ UNCHANGED <<nodeVars, podVars, drain_failed, bounds>>

\* any_errors_fatal: a rescue that fails ends the run for the whole batch.
FailAfterRescue ==
  /\ pc = "drain_fail"
  /\ IF \E h \in drain_failed :
          upgrade_node_fail_if_drain_fails \/ UncordonFails(h)
     THEN EndRun(FALSE)
     ELSE /\ pc' = "install"
          /\ UNCHANGED <<batch, todo, left, needs_cordoning, notified, opVars>>
  /\ UNCHANGED <<nodeVars, podVars, drain_failed, bounds>>

CopyKubelet(h) ==
  /\ pc = "install" /\ AppliedTo(h, "flush")
  /\ installed' = [installed EXCEPT ![h] = kube_version]
  /\ notified' = IF installed[h] # kube_version THEN notified \cup {h}
                                                ELSE notified
  /\ UNCHANGED <<kubelet, running, apiserver, podVars, opVars,
                 needs_cordoning, drain_failed, bounds>>

\* The handler restarts kubelet on the hosts that notified it.
RestartKubelet(h) ==
  IF h \in notified
  THEN /\ kubelet' = [kubelet EXCEPT ![h] = installed[h]]
       /\ running' = running \cup {h}
       /\ notified' = notified \ {h}
  ELSE UNCHANGED <<kubelet, running, notified>>

FlushHandlers(h) ==
  /\ pc = "flush" /\ AppliedTo(h, "enable")
  /\ RestartKubelet(h)
  /\ UNCHANGED <<installed, apiserver, podVars, opVars, needs_cordoning,
                 drain_failed, bounds>>

EnableKubelet(h) ==
  /\ pc = "enable"
  /\ AppliedTo(h, IF batch \subseteq Master THEN "control_plane" ELSE "post")
  /\ IF h \in running THEN UNCHANGED <<kubelet, running, notified>>
     ELSE /\ kubelet' = [kubelet EXCEPT ![h] = installed[h]]
          /\ running' = running \cup {h}
          /\ notified' = notified \cup {h}
  /\ UNCHANGED <<installed, apiserver, podVars, opVars, needs_cordoning,
                 drain_failed, bounds>>

\* kubeadm upgrade does not notify "Master | restart kubelet".
UpgradeControlPlane_NoNotify(h) ==
  /\ pc = "control_plane" /\ AppliedTo(h, "post")
  /\ apiserver' = [apiserver EXCEPT ![h] = kube_version]
  /\ UNCHANGED <<installed, kubelet, running, podVars, opVars, notified,
                 needs_cordoning, drain_failed, bounds>>

\* kubeadm upgrade apply --force is never 'ok': it notifies every time. The
\* failure that is tolerated, 'field is immutable', is one of the addons, which
\* come after the control plane.
UpgradeControlPlane(h) ==
  /\ pc = "control_plane" /\ AppliedTo(h, "post")
  /\ apiserver' = [apiserver EXCEPT ![h] = kube_version]
  /\ notified' = notified \cup {h}
  /\ UNCHANGED <<installed, kubelet, running, podVars, opVars,
                 needs_cordoning, drain_failed, bounds>>

\* Post-upgrade does not ask whether pre-upgrade had cordoned the node.
UncordonNode_Always(h) ==
  /\ pc = "post" /\ AppliedTo(h, "handlers")
  /\ unschedulable' = unschedulable \ {h}
  /\ UNCHANGED <<nodeVars, pods, opVars, needs_cordoning, drain_failed,
                 notified, bounds>>

UncordonNode(h) ==
  /\ pc = "post" /\ AppliedTo(h, "handlers")
  /\ unschedulable' = unschedulable \ ({h} \cap needs_cordoning)
  /\ UNCHANGED <<nodeVars, pods, opVars, needs_cordoning, drain_failed,
                 notified, bounds>>

\* Handlers run at the end of the batch, after the node was uncordoned.
RunHandlers(h) ==
  /\ pc = "handlers"
  /\ h \in todo /\ todo # {h}
  /\ todo' = todo \ {h}
  /\ RestartKubelet(h)
  /\ UNCHANGED <<installed, apiserver, podVars, opVars, pc, batch, left,
                 needs_cordoning, drain_failed, bounds>>

\* The playbook has a single batch in its play of the workers.
BatchEnds_FirstBatchOnly(h) ==
  /\ pc = "handlers" /\ todo = {h}
  /\ kubelet' = IF h \in notified THEN [kubelet EXCEPT ![h] = installed[h]]
                                  ELSE kubelet
  /\ running' = IF h \in notified THEN running \cup {h} ELSE running
  /\ CASE batch \subseteq Master /\ left # {} ->
            StartBatch(left, 1) /\ UNCHANGED opVars
       [] batch \subseteq Master /\ left = {} ->
            StartBatch(Worker, BatchSize) /\ UNCHANGED opVars
       [] OTHER -> EndRun(TRUE) /\ UNCHANGED drain_failed
  /\ UNCHANGED <<installed, apiserver, podVars, bounds>>

\* The last handler of a batch: the next batch, the play of the workers, or
\* the end of the run.
BatchEnds(h) ==
  /\ pc = "handlers" /\ todo = {h}
  /\ kubelet' = IF h \in notified THEN [kubelet EXCEPT ![h] = installed[h]]
                                  ELSE kubelet
  /\ running' = IF h \in notified THEN running \cup {h} ELSE running
  /\ CASE left # {} ->
            /\ StartBatch(left, IF left \subseteq Master THEN 1 ELSE BatchSize)
            /\ UNCHANGED opVars
       [] left = {} /\ batch \subseteq Master ->
            StartBatch(Worker, BatchSize) /\ UNCHANGED opVars
       [] OTHER -> EndRun(TRUE) /\ UNCHANGED drain_failed
  /\ UNCHANGED <<installed, apiserver, podVars, bounds>>

\* A task fails on a host, or the operator stops the run.
RunAborts ==
  /\ pc # "idle"
  /\ aborts < MaxAborts
  /\ aborts' = aborts + 1
  /\ EndRun(FALSE)
  /\ UNCHANGED <<nodeVars, podVars, drain_failed, drainFailures, stops>>

-----------------------------------------------------------------------------
Init ==
  /\ installed = [n \in Node |-> 0]
  /\ kubelet = [n \in Node |-> 0]
  /\ running = Node
  /\ apiserver = [m \in Master |-> 0]
  /\ unschedulable = {}
  /\ pods = Node
  /\ operator_cordon = {} /\ cordoned_late = {}
  /\ kube_version = 0
  /\ completed = TRUE
  /\ pc = "idle"
  /\ batch = {} /\ todo = {} /\ left = {}
  /\ needs_cordoning = {} /\ drain_failed = {} /\ notified = {}
  /\ aborts = 0 /\ drainFailures = 0 /\ stops = 0

HostStep(h) ==
  \/ CheckNode(h) \/ CordonNode(h) \/ DrainNode(h) \/ SetBackToSchedulable(h)
  \/ CopyKubelet(h) \/ FlushHandlers(h) \/ EnableKubelet(h)
  \/ UpgradeControlPlane(h) \/ UncordonNode(h) \/ RunHandlers(h) \/ BatchEnds(h)

RunStep == FailAfterRescue \/ \E h \in Node : HostStep(h)

Next ==
  \/ RunStep
  \/ RunAborts
  \/ \E v \in Version : StartRun(v)
  \/ \E n \in Node : \/ PodsScheduled(n)
                     \/ OperatorCordons(n) \/ OperatorUncordons(n)
                     \/ KubeletStops(n) \/ KubeletStarts(n)

Spec == Init /\ [][Next]_vars

\* A run that was started goes on, a run that failed is repeated, and the
\* operator asks for the last version at some time.
Fairness ==
  /\ WF_vars(RunStep)
  /\ WF_vars(StartRun(kube_version) /\ ~completed)
  /\ SF_vars(StartRun(kube_version + 1))

FairSpec == Spec /\ Fairness

-----------------------------------------------------------------------------
(* Properties *)

\* The type invariant of the playbook: in particular a batch is of one play.
TypeOK ==
  /\ installed \in [Node -> Version] /\ kubelet \in [Node -> Version]
  /\ running \subseteq Node
  /\ apiserver \in [Master -> Version]
  /\ unschedulable \subseteq Node /\ pods \subseteq Node
  /\ operator_cordon \subseteq Node /\ cordoned_late \subseteq operator_cordon
  /\ kube_version \in Version /\ completed \in BOOLEAN
  /\ pc \in Tasks
  /\ batch \cup left \in (SUBSET Master) \cup (SUBSET Worker)
  /\ batch \cap left = {}
  /\ todo \subseteq batch
  /\ needs_cordoning \subseteq batch
  /\ drain_failed \subseteq Node
  /\ notified \subseteq batch
  /\ aborts \in Nat /\ drainFailures \in Nat /\ stops \in Nat

\* "Handle upgrades to master components first to maintain backwards compat."
\* (upgrade-cluster.yml, the play of the masters): no worker's kubelet is newer
\* than any API server it may talk to, whichever runs were aborted before.
WorkersBehindControlPlane ==
  \A w \in Worker, m \in Master :
    kubelet[w] <= apiserver[m] /\ installed[w] <= apiserver[m]

\* From the copy of the binary to the uncordon, a node the run chose to cordon
\* is cordoned and drained, although others fail their drain in the same batch
\* (pre-upgrade's block and rescue, upgrade_node_fail_if_drain_fails).
UpgradesDrainedNodes ==
  pc \in {"install", "flush", "enable", "control_plane"} =>
    /\ needs_cordoning \subseteq unschedulable
    /\ drain_nodes => needs_cordoning \cap pods = {}

\* Neither a batch that ends nor a drain that fails makes a node schedulable
\* that the operator has cordoned, but for one that he cordoned after the run had
\* read its state (needs_cordoning in pre-upgrade).
OperatorCordonKept == operator_cordon \ cordoned_late \subseteq unschedulable

\* The same for every node: the decision is stale when the batch ends.
LateCordonKept == operator_cordon \subseteq unschedulable

\* A run that completes has upgraded every binary and the whole control plane,
\* kubelets of the masters included, whatever earlier runs left half done
\* (kubernetes/node, kubeadm-upgrade.yml and their handlers).
CompletedRunUpgrades ==
  pc = "idle" /\ completed =>
    /\ \A n \in Node : installed[n] = kube_version
    /\ \A m \in Master : apiserver[m] = kube_version /\ kubelet[m] = kube_version

\* After upgrade-cluster.yml 'kubectl get node' shows the new version of every
\* node (docs/upgrades.md): the kubelets that run are the ones installed.
CompletedRunRestartsKubelets ==
  pc = "idle" /\ completed => \A n \in Node : kubelet[n] = kube_version

\* "cordon, drain and uncordoning of nodes when performing a cluster upgrade"
\* (docs/upgrades.md): a run that completes leaves only the operator's cordons.
CompletedRunUncordons ==
  pc = "idle" /\ completed => unschedulable \subseteq operator_cordon

\* Runs that are repeated until one succeeds bring every node to the last
\* version for good, drains, runs and kubelets failing on the way.
EveryNodeUpgrades ==
  <>[](/\ \A n \in Node : installed[n] = MaxVersion
       /\ \A m \in Master : apiserver[m] = MaxVersion)
=============================================================================
