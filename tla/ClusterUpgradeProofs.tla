------------------------ MODULE ClusterUpgradeProofs ------------------------
(***************************************************************************)
(* Proofs about ClusterUpgrade, for any number of nodes, versions, batches  *)
(* and aborted runs: the types, the order of the versions over the cluster, *)
(* what a completed run has upgraded, the operator's cordons and the drains. *)
(***************************************************************************)
EXTENDS ClusterUpgrade, FiniteSetTheorems, TLAPS

-----------------------------------------------------------------------------
(* The invariant *)

AfterInstall == {"flush", "enable", "control_plane", "post", "handlers"}
AfterUpgrade == {"post", "handlers"}

\* Hosts whose batch is over: the masters come before the workers.
Done ==
  IF pc = "idle" THEN IF completed THEN Node ELSE {}
  ELSE IF batch \subseteq Master THEN Master \ (batch \cup left)
                                 ELSE Node \ (batch \cup left)

\* Hosts of the batch a task has been applied to.
InstalledIn ==
  {h \in batch : pc \in AfterInstall \/ (pc = "install" /\ h \notin todo)}
UpgradedIn ==
  {h \in batch \cap Master :
     pc \in AfterUpgrade \/ (pc = "control_plane" /\ h \notin todo)}
RestartedIn ==
  {h \in batch \cap Master : pc = "handlers" /\ h \notin todo}

\* A batch is there exactly while a run goes on.
Shape ==
  /\ pc = "idle" => batch = {} /\ left = {} /\ todo = {}
  /\ pc # "idle" => todo # {}
  /\ pc = "control_plane" => batch \subseteq Master
  /\ pc = "drain_fail" => todo = batch

\* Versions only fall behind from the control plane to the kubelets.
Ordered ==
  /\ \A n \in Node : kubelet[n] <= installed[n] /\ installed[n] <= kube_version
  /\ \A m \in Master : apiserver[m] <= kube_version
  /\ \A w \in Worker, m \in Master : installed[w] <= apiserver[m]

\* What the run has done to the hosts it is past.
Progress ==
  /\ \A n \in Done \cup InstalledIn : installed[n] = kube_version
  /\ \A m \in (Master \cap Done) \cup UpgradedIn : apiserver[m] = kube_version
  /\ \A m \in UpgradedIn : m \in notified \/ kubelet[m] = kube_version
  /\ \A m \in (Master \cap Done) \cup RestartedIn : kubelet[m] = kube_version

IInv == TypeOK /\ Shape /\ Ordered /\ Progress

\* With kubectl answering: the run never takes a node for its own that the
\* operator had cordoned before the read.
Cordons ==
  /\ OperatorCordonKept
  /\ needs_cordoning \cap operator_cordon \subseteq cordoned_late
  /\ pc = "check" => needs_cordoning \cap todo = {}
  /\ pc # "idle" => drain_failed \subseteq needs_cordoning

-----------------------------------------------------------------------------
(* Batches *)

\* serial never takes an empty batch, and never a host of the other play.
LEMMA BatchOf ==
  ASSUME NEW hosts \in (SUBSET Master) \cup (SUBSET Worker), hosts # {},
         NEW k \in Nat \ {0}, StartBatch(hosts, k)
  PROVE  /\ batch' \subseteq hosts /\ batch' # {}
         /\ todo' = batch' /\ left' = hosts \ batch' /\ pc' = "check"
         /\ needs_cordoning' = {} /\ drain_failed' = {} /\ notified' = {}
<1>1. PICK b \in SUBSET hosts :
        /\ Cardinality(b) = IF k < Cardinality(hosts) THEN k
                                                      ELSE Cardinality(hosts)
        /\ batch' = b /\ todo' = b /\ left' = hosts \ b
  BY DEF StartBatch
<1>2. IsFiniteSet(hosts)
  <2>1. CASE hosts \subseteq Master
    BY <2>1, UpgradeAssumption, FS_Subset DEF UpgradeAssumption
  <2>2. CASE hosts \subseteq Worker
    BY <2>2, UpgradeAssumption, FS_Subset DEF UpgradeAssumption
  <2>3. QED
    BY <2>1, <2>2
<1>3. Cardinality(hosts) \in Nat /\ Cardinality(hosts) # 0
  BY <1>2, FS_CardinalityType, FS_EmptySet
<1>4. Cardinality(b) # 0
  BY <1>1, <1>3
<1>5. b # {}
  BY <1>4, FS_EmptySet
<1>6. QED
  BY <1>1, <1>5 DEF StartBatch

-----------------------------------------------------------------------------
(* Types *)

\* A batch that starts, and a run that ends, have the run variables typed.
LEMMA BatchType ==
  ASSUME NEW hosts \in (SUBSET Master) \cup (SUBSET Worker), hosts # {},
         NEW k \in Nat \ {0}, StartBatch(hosts, k)
  PROVE  /\ pc' \in Tasks
         /\ (batch \cup left)' \in (SUBSET Master) \cup (SUBSET Worker)
         /\ (batch \cap left)' = {}
         /\ todo' \subseteq batch' /\ needs_cordoning' \subseteq batch'
         /\ drain_failed' \subseteq Node /\ notified' \subseteq batch'
<1>1. batch' \cup left' = hosts
  BY BatchOf
<1>2. QED
  BY <1>1, BatchOf DEF Tasks, Node

\* Init gives every variable a value of its type.
LEMMA InitType == Init => TypeOK
  BY UpgradeAssumption
     DEF Init, TypeOK, UpgradeAssumption, Node, Version, Tasks

\* A task applied to one host of a batch keeps the types.
LEMMA HostStepType ==
  ASSUME TypeOK, NEW h \in Node, HostStep(h)
  PROVE  TypeOK'
<1> USE UpgradeAssumption DEF UpgradeAssumption
<1>1. CASE CheckNode(h)
  BY <1>1 DEF CheckNode, AppliedTo, TypeOK, Tasks, nodeVars, podVars, opVars, cordons, bounds
<1>2. CASE CordonNode(h)
  BY <1>2 DEF CordonNode, AppliedTo, TypeOK, Tasks, nodeVars, opVars, cordons, bounds
<1>3. CASE DrainNode(h)
  BY <1>3 DEF DrainNode, AppliedTo, TypeOK, Tasks, nodeVars, opVars, cordons
<1>4. CASE SetBackToSchedulable(h)
  BY <1>4 DEF SetBackToSchedulable, AppliedTo, TypeOK, Tasks, nodeVars, opVars, cordons,
              bounds
<1>5. CASE CopyKubelet(h)
  BY <1>5 DEF CopyKubelet, AppliedTo, TypeOK, Tasks, podVars, opVars, cordons, bounds
<1>6. CASE FlushHandlers(h)
  BY <1>6 DEF FlushHandlers, RestartKubelet, AppliedTo, TypeOK, Tasks, podVars,
              opVars, cordons, bounds
<1>7. CASE EnableKubelet(h)
  BY <1>7 DEF EnableKubelet, AppliedTo, TypeOK, Tasks, podVars, opVars, cordons, bounds
<1>8. CASE UpgradeControlPlane(h)
  <2>1. h \in batch /\ notified' \subseteq batch'
    BY <1>8 DEF UpgradeControlPlane, AppliedTo, TypeOK
  <2>2. apiserver' \in [Master -> Version]
    BY <1>8 DEF UpgradeControlPlane, TypeOK
  <2>3. pc' \in Tasks /\ todo' \subseteq batch'
    BY <1>8 DEF UpgradeControlPlane, AppliedTo, TypeOK, Tasks
  <2>4. QED
    BY <1>8, <2>1, <2>2, <2>3
       DEF UpgradeControlPlane, AppliedTo, TypeOK, podVars, opVars, cordons, bounds
<1>9. CASE UncordonNode(h)
  BY <1>9 DEF UncordonNode, AppliedTo, TypeOK, Tasks, nodeVars, opVars, cordons, bounds
<1>10. CASE RunHandlers(h)
  BY <1>10 DEF RunHandlers, RestartKubelet, TypeOK, Tasks, podVars, opVars, cordons, bounds
<1>11. CASE BatchEnds(h)
  <2>1. /\ (installed \in [Node -> Version] /\ kubelet \in [Node -> Version])'
        /\ (running \subseteq Node /\ apiserver \in [Master -> Version])'
        /\ (unschedulable \subseteq Node /\ pods \subseteq Node)'
        /\ (aborts \in Nat /\ drainFailures \in Nat /\ stops \in Nat)'
    BY <1>11 DEF BatchEnds, TypeOK, podVars, bounds
  <2>2. CASE left # {}
    <3>1. left \in (SUBSET Master) \cup (SUBSET Worker)
      BY DEF TypeOK
    <3> DEFINE k == IF left \subseteq Master THEN 1 ELSE BatchSize
    <3>2. StartBatch(left, k) /\ UNCHANGED opVars
      BY <1>11, <2>2 DEF BatchEnds
    <3>3. k \in Nat \ {0}
      OBVIOUS
    <3> HIDE DEF k
    <3>4. QED
      BY <2>1, <2>2, <3>1, <3>2, <3>3, BatchType DEF TypeOK, opVars, cordons
  <2>3. CASE left = {} /\ batch \subseteq Master
    <3>1. StartBatch(Worker, BatchSize) /\ UNCHANGED opVars
      BY <1>11, <2>3 DEF BatchEnds
    <3>2. Worker \in (SUBSET Master) \cup (SUBSET Worker)
      OBVIOUS
    <3>3. QED
      BY <2>1, <3>1, <3>2, BatchType DEF TypeOK, opVars, cordons
  <2>4. CASE left = {} /\ ~(batch \subseteq Master)
    <3>1. EndRun(TRUE) /\ UNCHANGED drain_failed
      BY <1>11, <2>4 DEF BatchEnds
    <3>2. QED
      BY <2>1, <3>1 DEF EndRun, TypeOK, Tasks, cordons
  <2>5. QED
    BY <2>2, <2>3, <2>4
<1>12. QED
  BY <1>1, <1>2, <1>3, <1>4, <1>5, <1>6, <1>7, <1>8, <1>9, <1>10, <1>11
     DEF HostStep

\* Every other step keeps the types: a run starts, fails or is aborted, pods
\* are placed, the operator cordons, a kubelet stops or starts.
LEMMA NextType == TypeOK /\ [Next]_vars => TypeOK'
<1> SUFFICES ASSUME TypeOK, [Next]_vars PROVE TypeOK'
  OBVIOUS
<1> USE UpgradeAssumption DEF UpgradeAssumption
<1>1. CASE FailAfterRescue
  BY <1>1 DEF FailAfterRescue, EndRun, TypeOK, Tasks, nodeVars, podVars, opVars, cordons,
              bounds
<1>2. CASE \E h \in Node : HostStep(h)
  BY <1>2, HostStepType
<1>3. CASE RunAborts
  <2>1. /\ batch' = {} /\ left' = {} /\ todo' = {}
        /\ needs_cordoning' = {} /\ notified' = {}
    BY <1>3 DEF RunAborts, EndRun
  <2>2. aborts' \in Nat /\ drainFailures' \in Nat /\ stops' \in Nat
    BY <1>3 DEF RunAborts, TypeOK
  <2>3. QED
    BY <1>3, <2>1, <2>2
       DEF RunAborts, EndRun, TypeOK, Tasks, nodeVars, podVars, cordons
<1>4. ASSUME NEW v \in Version, StartRun(v) PROVE TypeOK'
  <2>1. StartBatch(Master, 1)
    BY <1>4 DEF StartRun
  <2>2. Master \in (SUBSET Master) \cup (SUBSET Worker) /\ 1 \in Nat \ {0}
    OBVIOUS
  <2>3. /\ pc' \in Tasks
        /\ (batch \cup left)' \in (SUBSET Master) \cup (SUBSET Worker)
        /\ (batch \cap left)' = {}
        /\ todo' \subseteq batch' /\ needs_cordoning' \subseteq batch'
        /\ drain_failed' \subseteq Node /\ notified' \subseteq batch'
    BY <2>1, <2>2, BatchType
  <2>4. QED
    BY <1>4, <2>3 DEF StartRun, TypeOK, nodeVars, podVars, cordons, bounds
<1>5. ASSUME NEW n \in Node, PodsScheduled(n) PROVE TypeOK'
  BY <1>5 DEF PodsScheduled, TypeOK, nodeVars, opVars, cordons, runVars, bounds
<1>6. ASSUME NEW n \in Node, OperatorCordons(n) PROVE TypeOK'
  BY <1>6 DEF OperatorCordons, TypeOK, nodeVars, runVars, bounds
<1>7. ASSUME NEW n \in Node, OperatorUncordons(n) PROVE TypeOK'
  BY <1>7 DEF OperatorUncordons, TypeOK, nodeVars, runVars, bounds
<1>8. ASSUME NEW n \in Node, KubeletStops(n) PROVE TypeOK'
  BY <1>8 DEF KubeletStops, TypeOK, podVars, opVars, cordons, runVars
<1>9. ASSUME NEW n \in Node, KubeletStarts(n) PROVE TypeOK'
  BY <1>9 DEF KubeletStarts, TypeOK, podVars, opVars, cordons, runVars, bounds
<1>10. CASE UNCHANGED vars
  BY <1>10 DEF TypeOK, vars, nodeVars, podVars, opVars, cordons, runVars, bounds
<1>11. QED
  BY <1>1, <1>2, <1>3, <1>4, <1>5, <1>6, <1>7, <1>8, <1>9, <1>10
     DEF Next, RunStep

\* The playbook's variables keep their types, and a batch is never of both
\* plays (upgrade-cluster.yml).
THEOREM UpgradeTypeCorrect == Spec => []TypeOK
<1>1. QED
  BY InitType, NextType, PTL DEF Spec

-----------------------------------------------------------------------------
(* What a run is past *)

\* Init satisfies the invariant: every node is at version 0.
LEMMA InitIInv == Init => IInv
<1> SUFFICES ASSUME Init PROVE IInv
  OBVIOUS
<1>1. TypeOK
  BY InitType
<1>2. Shape
  BY DEF Init, Shape
<1>3. Ordered
  BY DEF Init, Ordered, Node
<1>4. Progress
  BY DEF Init, Progress, Done, InstalledIn, UpgradedIn, RestartedIn
<1>5. QED
  BY <1>1, <1>2, <1>3, <1>4 DEF IInv

\* A step that leaves nodes and batch alone before the copy of the binary.
LEMMA QuietStep ==
  ASSUME IInv,
         pc \in {"check", "cordon", "drain", "rescue", "drain_fail"},
         \/ pc' \in {"check", "cordon", "drain", "rescue", "drain_fail"}
         \/ pc' = "install" /\ todo' = batch,
         UNCHANGED <<nodeVars, kube_version, batch, left>>
  PROVE  Ordered' /\ Progress'
<1>1. Ordered'
  BY DEF IInv, Ordered, nodeVars
<1>2. Done' = Done
  BY DEF Done
<1>3. InstalledIn' = {} /\ UpgradedIn' = {} /\ RestartedIn' = {}
  BY DEF InstalledIn, UpgradedIn, RestartedIn, AfterInstall, AfterUpgrade
<1>4. QED
  BY <1>1, <1>2, <1>3 DEF IInv, Progress, nodeVars

\* A run that ends without success promises nothing of its hosts.
LEMMA AbortedRun ==
  ASSUME IInv, EndRun(FALSE), UNCHANGED nodeVars
  PROVE  Shape' /\ Ordered' /\ Progress'
<1>1. Shape'
  BY DEF EndRun, Shape
<1>2. Ordered'
  BY DEF IInv, EndRun, Ordered, nodeVars
<1>3. Done' = {} /\ InstalledIn' = {} /\ UpgradedIn' = {} /\ RestartedIn' = {}
  BY DEF EndRun, Done, InstalledIn, UpgradedIn, RestartedIn
<1>4. QED
  BY <1>1, <1>2, <1>3 DEF Progress

\* A step around the run: what the run did to its hosts stays.
LEMMA StepAround ==
  ASSUME IInv, UNCHANGED <<installed, apiserver, kube_version, completed, runVars>>,
         \/ UNCHANGED kubelet
         \/ \E n \in Node : kubelet' = [kubelet EXCEPT ![n] = installed[n]]
  PROVE  Shape' /\ Ordered' /\ Progress'
<1>1. /\ kubelet' \in [Node -> Version]
      /\ \A n \in Node : kubelet'[n] \in {kubelet[n], installed[n]}
  BY DEF IInv, TypeOK
<1>2. Shape'
  BY DEF IInv, Shape, runVars
<1>3. Ordered'
  BY <1>1 DEF IInv, TypeOK, Ordered, Version
<1>4. /\ Done' = Done /\ InstalledIn' = InstalledIn
      /\ UpgradedIn' = UpgradedIn /\ RestartedIn' = RestartedIn
  BY DEF Done, InstalledIn, UpgradedIn, RestartedIn, runVars
<1>5. \A n \in UpgradedIn \cup RestartedIn : n \in InstalledIn
  BY DEF UpgradedIn, RestartedIn, InstalledIn, AfterUpgrade, AfterInstall
<1>6. Done \subseteq Node /\ InstalledIn \subseteq Node /\ notified' = notified
  BY DEF Done, Node, InstalledIn, IInv, TypeOK, runVars
<1>7. QED
  BY <1>1, <1>2, <1>3, <1>4, <1>5, <1>6 DEF IInv, Progress

\* A play starts, or goes on to its next batch: everything before is done.
LEMMA NewBatch ==
  ASSUME IInv, NEW hosts \in (SUBSET Master) \cup (SUBSET Worker), hosts # {},
         NEW k \in Nat \ {0}, StartBatch(hosts, k),
         \A n \in Node \ hosts :
           /\ hosts \subseteq Worker \/ n \in Master =>
                installed'[n] = kube_version'
           /\ n \in Master => /\ apiserver'[n] = kube_version'
                              /\ kubelet'[n] = kube_version'
  PROVE  Shape' /\ Progress'
<1> USE UpgradeAssumption DEF UpgradeAssumption
<1>1. /\ batch' \subseteq hosts /\ batch' # {} /\ todo' = batch'
      /\ left' = hosts \ batch' /\ pc' = "check"
  BY BatchOf
<1>2. Shape'
  BY <1>1 DEF Shape
<1>3. InstalledIn' = {} /\ UpgradedIn' = {} /\ RestartedIn' = {}
  BY <1>1 DEF InstalledIn, UpgradedIn, RestartedIn, AfterInstall, AfterUpgrade
<1>4. /\ Done' \subseteq Node \ hosts
      /\ hosts \subseteq Worker \/ Done' \subseteq Master
  BY <1>1 DEF Done, Node
<1>5. QED
  BY <1>2, <1>3, <1>4 DEF Progress, Node

\* The last handler of a batch finds every host of the batch upgraded.
LEMMA BatchEndsStep ==
  ASSUME IInv, TypeOK', NEW h \in Node, BatchEnds(h)
  PROVE  Shape' /\ Ordered' /\ Progress'
<1> USE UpgradeAssumption DEF UpgradeAssumption
<1>1. /\ pc = "handlers" /\ todo = {h} /\ h \in batch
      /\ UNCHANGED <<installed, apiserver>>
  BY DEF BatchEnds, IInv, TypeOK
<1>2. \A n \in Node : kubelet'[n] = IF n = h /\ h \in notified THEN installed[h]
                                                               ELSE kubelet[n]
  BY DEF BatchEnds, IInv, TypeOK
<1>3. /\ InstalledIn = batch /\ UpgradedIn = batch \cap Master
      /\ RestartedIn = (batch \cap Master) \ {h}
  BY <1>1 DEF InstalledIn, UpgradedIn, RestartedIn, AfterInstall, AfterUpgrade
<1>4. \A n \in Done \cup batch :
        /\ installed'[n] = kube_version
        /\ n \in Master => apiserver'[n] = kube_version
  BY <1>1, <1>3 DEF IInv, Progress
<1>5. \A m \in Master \cap (Done \cup batch) : kubelet'[m] = kube_version
  <2>1. h \in Master => kubelet'[h] = kube_version
    BY <1>1, <1>2, <1>3 DEF IInv, Progress
  <2>2. \A m \in (Master \cap (Done \cup batch)) \ {h} : kubelet[m] = kube_version
    BY <1>3 DEF IInv, Progress
  <2>3. QED
    BY <1>2, <2>1, <2>2 DEF Node
<1>6. kube_version' = kube_version
  BY DEF BatchEnds, EndRun, opVars, cordons
<1>7. Ordered'
  BY <1>1, <1>2, <1>6 DEF IInv, TypeOK, Ordered, Version
<1>8. CASE left # {}
  <2> DEFINE k == IF left \subseteq Master THEN 1 ELSE BatchSize
  <2>1. StartBatch(left, k)
    BY <1>8 DEF BatchEnds
  <2>2. k \in Nat \ {0}
    OBVIOUS
  <2> HIDE DEF k
  <2>3. left \in (SUBSET Master) \cup (SUBSET Worker)
    BY DEF IInv, TypeOK
  <2>4. \A n \in Node \ left :
          left \subseteq Worker \/ n \in Master => n \in Done \cup batch
    BY <1>1, <1>8 DEF Done, Node, IInv, TypeOK
  <2>5. QED
    BY <1>4, <1>5, <1>6, <1>7, <1>8, <2>1, <2>2, <2>3, <2>4, NewBatch
<1>9. CASE left = {} /\ batch \subseteq Master
  <2>1. StartBatch(Worker, BatchSize)
    BY <1>9 DEF BatchEnds
  <2>2. \A n \in Node \ Worker : n \in Done \cup batch /\ n \in Master
    BY <1>1, <1>9 DEF Done, Node
  <2>3. Worker \in (SUBSET Master) \cup (SUBSET Worker)
    OBVIOUS
  <2>4. QED
    BY <1>4, <1>5, <1>6, <1>7, <2>1, <2>2, <2>3, NewBatch
<1>10. CASE left = {} /\ ~(batch \subseteq Master)
  <2>1. EndRun(TRUE)
    BY <1>10 DEF BatchEnds
  <2>2. Done \cup batch = Node
    BY <1>1, <1>10 DEF Done, Node, IInv, TypeOK
  <2>3. /\ Done' = Node /\ InstalledIn' = {} /\ UpgradedIn' = {}
        /\ RestartedIn' = {}
    BY <2>1 DEF EndRun, Done, InstalledIn, UpgradedIn, RestartedIn
  <2>4. Shape'
    BY <2>1 DEF EndRun, Shape
  <2>5. Progress'
    BY <1>4, <1>5, <1>6, <2>2, <2>3 DEF Progress, Node
  <2>6. QED
    BY <1>7, <2>4, <2>5
<1>11. QED
  BY <1>8, <1>9, <1>10

\* While a binary is copied, every API server a worker talks to is upgraded.
LEMMA CopyStep ==
  ASSUME IInv, NEW h \in Node, CopyKubelet(h)
  PROVE  Shape' /\ Ordered' /\ Progress'
<1> USE UpgradeAssumption DEF UpgradeAssumption
<1>1. /\ pc = "install" /\ h \in batch /\ todo \subseteq batch
      /\ IF todo = {h} THEN pc' = "flush" /\ todo' = batch
                       ELSE pc' = "install" /\ todo' = todo \ {h}
      /\ UNCHANGED <<kubelet, apiserver, kube_version, completed, batch, left>>
      /\ installed' = [installed EXCEPT ![h] = kube_version]
      /\ h \in todo
  BY DEF CopyKubelet, AppliedTo, IInv, TypeOK, opVars, cordons
<1>2. Shape'
  BY <1>1 DEF Shape
<1>3. h \in Worker => \A m \in Master : apiserver[m] = kube_version
  BY <1>1 DEF IInv, TypeOK, Progress, Done, Node
<1>4. Ordered'
  BY <1>1, <1>3 DEF IInv, TypeOK, Ordered, Version, Node
<1>5. Done' = Done /\ h \notin Done
  BY <1>1 DEF Done
<1>6. InstalledIn' \subseteq InstalledIn \cup {h} /\ h \in Node
  BY <1>1 DEF InstalledIn, AfterInstall
<1>7. UpgradedIn' = {} /\ RestartedIn' = {}
  BY <1>1 DEF UpgradedIn, RestartedIn, AfterUpgrade
<1>8. Done \subseteq Node /\ InstalledIn \subseteq Node
  BY DEF Done, InstalledIn, Node, IInv, TypeOK
<1>9. QED
  BY <1>1, <1>2, <1>4, <1>5, <1>6, <1>7, <1>8 DEF IInv, TypeOK, Progress

\* A handler or the start of the service runs the binary that is installed.
LEMMA KubeletStep ==
  ASSUME IInv, NEW h \in Node, FlushHandlers(h) \/ EnableKubelet(h)
  PROVE  Shape' /\ Ordered' /\ Progress'
<1> USE UpgradeAssumption DEF UpgradeAssumption
<1>1. /\ UNCHANGED <<installed, apiserver, kube_version, completed, batch, left>>
      /\ kubelet' \in {kubelet, [kubelet EXCEPT ![h] = installed[h]]}
      /\ h \in batch /\ todo \subseteq batch
  BY DEF FlushHandlers, EnableKubelet, RestartKubelet, AppliedTo, IInv, TypeOK,
         opVars, cordons
<1>2. /\ pc \in {"flush", "enable"}
      /\ \/ pc' = pc /\ todo' = todo \ {h} /\ todo # {h}
         \/ pc' = "enable" /\ todo' = batch
         \/ pc' = "control_plane" /\ todo' = batch /\ batch \subseteq Master
         \/ pc' = "post" /\ todo' = batch /\ ~(batch \subseteq Master)
  BY DEF FlushHandlers, EnableKubelet, AppliedTo
<1>3. \A n \in Node : kubelet'[n] \in {kubelet[n], installed[n]}
  BY <1>1 DEF IInv, TypeOK
<1>4. Shape'
  BY <1>1, <1>2 DEF IInv, Shape, TypeOK
<1>5. Ordered'
  BY <1>1, <1>3 DEF IInv, TypeOK, Ordered, Version
<1>6. Done' = Done /\ Done \subseteq Node
  BY <1>1, <1>2 DEF Done, Node
<1>7. InstalledIn' = InstalledIn /\ RestartedIn' = {}
  BY <1>1, <1>2 DEF InstalledIn, RestartedIn, AfterInstall
<1>8. UpgradedIn' = {}
  BY <1>1, <1>2 DEF UpgradedIn, AfterUpgrade, IInv, TypeOK
<1>9. QED
  BY <1>1, <1>3, <1>4, <1>5, <1>6, <1>7, <1>8 DEF IInv, Progress

\* kubeadm upgrades the control plane and leaves its kubelet to the handler.
LEMMA UpgradeStep ==
  ASSUME IInv, NEW h \in Node, UpgradeControlPlane(h)
  PROVE  Shape' /\ Ordered' /\ Progress'
<1> USE UpgradeAssumption DEF UpgradeAssumption
<1>1. /\ pc = "control_plane" /\ h \in batch /\ h \in todo /\ todo \subseteq batch
      /\ IF todo = {h} THEN pc' = "post" /\ todo' = batch
                       ELSE pc' = "control_plane" /\ todo' = todo \ {h}
      /\ UNCHANGED <<installed, kubelet, kube_version, completed, batch, left>>
      /\ apiserver' = [apiserver EXCEPT ![h] = kube_version]
      /\ notified' = notified \cup {h}
      /\ batch \subseteq Master
  BY DEF UpgradeControlPlane, AppliedTo, IInv, TypeOK, Shape, opVars, cordons
<1>2. Shape'
  BY <1>1 DEF IInv, Shape
<1>3. \A m \in Master : apiserver'[m] = IF m = h THEN kube_version ELSE apiserver[m]
  BY <1>1 DEF IInv, TypeOK
<1>4. Ordered'
  BY <1>1, <1>3 DEF IInv, TypeOK, Ordered, Version, Node
<1>5. Done' = Done
  BY <1>1 DEF Done
<1>6. InstalledIn' = InstalledIn /\ RestartedIn' = {}
  BY <1>1 DEF InstalledIn, RestartedIn, AfterInstall
<1>7. UpgradedIn' \subseteq UpgradedIn \cup {h} /\ UpgradedIn \subseteq Master
  BY <1>1 DEF UpgradedIn, AfterUpgrade
<1>8. QED
  BY <1>1, <1>2, <1>3, <1>4, <1>5, <1>6, <1>7 DEF IInv, Progress

\* Uncordoning a node does not touch what was upgraded on it.
LEMMA UncordonStep ==
  ASSUME IInv, NEW h \in Node, UncordonNode(h)
  PROVE  Shape' /\ Ordered' /\ Progress'
<1>1. /\ pc = "post" /\ h \in todo /\ todo \subseteq batch
      /\ IF todo = {h} THEN pc' = "handlers" /\ todo' = batch
                       ELSE pc' = "post" /\ todo' = todo \ {h}
      /\ UNCHANGED <<nodeVars, kube_version, completed, batch, left, notified>>
  BY DEF UncordonNode, AppliedTo, IInv, TypeOK, opVars, cordons
<1>2. Shape'
  BY <1>1 DEF IInv, Shape
<1>3. Ordered'
  BY <1>1 DEF IInv, Ordered, nodeVars
<1>4. Done' = Done
  BY <1>1 DEF Done
<1>5. /\ InstalledIn' = InstalledIn /\ UpgradedIn' = UpgradedIn
      /\ RestartedIn' = {}
  BY <1>1 DEF InstalledIn, UpgradedIn, RestartedIn, AfterInstall, AfterUpgrade
<1>6. QED
  BY <1>1, <1>2, <1>3, <1>4, <1>5 DEF IInv, Progress, nodeVars

\* The handlers of a host that is not the last of its batch.
LEMMA HandlerStep ==
  ASSUME IInv, NEW h \in Node, RunHandlers(h)
  PROVE  Shape' /\ Ordered' /\ Progress'
<1> USE UpgradeAssumption DEF UpgradeAssumption
<1>1. /\ pc = "handlers" /\ h \in todo /\ todo # {h} /\ todo \subseteq batch
      /\ todo' = todo \ {h}
      /\ UNCHANGED <<installed, apiserver, kube_version, completed, pc, batch, left>>
      /\ \/ /\ h \in notified /\ notified' = notified \ {h}
            /\ kubelet' = [kubelet EXCEPT ![h] = installed[h]]
         \/ h \notin notified /\ UNCHANGED <<kubelet, notified>>
  BY DEF RunHandlers, RestartKubelet, IInv, TypeOK, opVars, cordons
<1>2. \A n \in Node : kubelet'[n] = IF n = h /\ h \in notified THEN installed[h]
                                                               ELSE kubelet[n]
  BY <1>1 DEF IInv, TypeOK
<1>3. Shape'
  BY <1>1 DEF IInv, Shape
<1>4. Ordered'
  BY <1>1, <1>2 DEF IInv, TypeOK, Ordered, Version
<1>5. Done' = Done /\ Done \subseteq Node
  BY <1>1 DEF Done, Node
<1>6. /\ InstalledIn' = InstalledIn /\ InstalledIn = batch
      /\ UpgradedIn' = UpgradedIn /\ UpgradedIn = batch \cap Master
      /\ RestartedIn' = RestartedIn \cup ({h} \cap Master)
      /\ RestartedIn \subseteq Master
  BY <1>1 DEF InstalledIn, UpgradedIn, RestartedIn, AfterInstall, AfterUpgrade
<1>7. installed[h] = kube_version
  BY <1>1, <1>6 DEF IInv, Progress
<1>8. \A m \in UpgradedIn' : m \in notified' \/ kubelet'[m] = kube_version'
  BY <1>1, <1>2, <1>6, <1>7 DEF IInv, Progress, Node
<1>9. \A m \in (Master \cap Done') \cup RestartedIn' : kubelet'[m] = kube_version'
  <2>1. h \in Master => kubelet'[h] = kube_version
    BY <1>1, <1>2, <1>6, <1>7 DEF IInv, Progress
  <2>2. \A m \in (Master \cap Done) \cup RestartedIn : kubelet'[m] = kube_version
    BY <1>2, <1>5, <1>6, <1>7 DEF IInv, Progress, Node
  <2>3. QED
    BY <1>1, <1>5, <1>6, <2>1, <2>2
<1>10. QED
  BY <1>1, <1>3, <1>4, <1>5, <1>6, <1>8, <1>9 DEF IInv, Progress

\* The tasks before the copy of the binary.
LEMMA PrepareStep ==
  ASSUME IInv, NEW h \in Node,
         \/ CheckNode(h) \/ CordonNode(h) \/ DrainNode(h)
         \/ SetBackToSchedulable(h)
  PROVE  Shape' /\ Ordered' /\ Progress'
<1>1. /\ pc \in {"check", "cordon", "drain", "rescue"}
      /\ h \in todo /\ todo \subseteq batch
      /\ \/ pc' = pc /\ todo' = todo \ {h} /\ todo # {h}
         \/ pc' \in {"cordon", "drain", "rescue", "drain_fail"} /\ todo' = batch
      /\ UNCHANGED <<nodeVars, kube_version, batch, left>>
  BY DEF CheckNode, CordonNode, DrainNode, SetBackToSchedulable, AppliedTo,
         IInv, TypeOK, opVars, cordons
<1>2. Shape'
  BY <1>1 DEF Shape
<1>3. QED
  BY <1>1, <1>2, QuietStep

\* Every step of the playbook and of the cluster around it keeps the invariant.
LEMMA NextIInv == IInv /\ [Next]_vars => IInv'
<1> SUFFICES ASSUME IInv, [Next]_vars PROVE IInv'
  OBVIOUS
<1> USE UpgradeAssumption DEF UpgradeAssumption
<1>1. TypeOK'
  BY NextType DEF IInv
<1>2. ASSUME NEW h \in Node, HostStep(h)
      PROVE  Shape' /\ Ordered' /\ Progress'
  BY <1>1, <1>2, PrepareStep, CopyStep, KubeletStep, UpgradeStep, UncordonStep,
     HandlerStep, BatchEndsStep DEF HostStep
<1>3. CASE FailAfterRescue
  <2>1. CASE EndRun(FALSE)
    BY <1>1, <1>3, <2>1, AbortedRun DEF FailAfterRescue, IInv
  <2>2. CASE ~EndRun(FALSE)
    <3>1. /\ pc = "drain_fail" /\ pc' = "install"
          /\ UNCHANGED <<nodeVars, kube_version, batch, left, todo>>
      BY <1>3, <2>2 DEF FailAfterRescue, opVars, cordons
    <3>2. todo' = batch /\ todo # {}
      BY <3>1 DEF IInv, Shape
    <3>3. Shape'
      BY <3>1, <3>2 DEF Shape
    <3>4. QED
      BY <1>1, <3>1, <3>2, <3>3, QuietStep DEF IInv
  <2>3. QED
    BY <2>1, <2>2
<1>4. CASE RunAborts
  BY <1>1, <1>4, AbortedRun DEF RunAborts, IInv
<1>5. ASSUME NEW v \in Version, StartRun(v) PROVE IInv'
  <2>1. /\ StartBatch(Master, 1) /\ UNCHANGED nodeVars
        /\ kube_version' \in {kube_version, kube_version + 1}
    BY <1>5 DEF StartRun
  <2>2. Ordered'
    BY <2>1 DEF IInv, TypeOK, Ordered, Version, nodeVars
  <2>3. Master \in (SUBSET Master) \cup (SUBSET Worker) /\ 1 \in Nat \ {0}
    OBVIOUS
  <2>4. \A n \in Node \ Master : n \notin Master /\ ~(Master \subseteq Worker)
    OBVIOUS
  <2>5. Shape' /\ Progress'
    BY <2>1, <2>3, <2>4, NewBatch
  <2>6. QED
    BY <1>1, <2>2, <2>5 DEF IInv
<1>6. ASSUME NEW n \in Node,
             \/ PodsScheduled(n) \/ OperatorCordons(n) \/ OperatorUncordons(n)
             \/ KubeletStops(n) \/ KubeletStarts(n)
      PROVE  IInv'
  <2>1. UNCHANGED <<installed, apiserver, kube_version, completed, runVars>>
    BY <1>6 DEF PodsScheduled, OperatorCordons, OperatorUncordons, KubeletStops,
                KubeletStarts, nodeVars, opVars, cordons
  <2>2. \/ UNCHANGED kubelet
        \/ \E m \in Node : kubelet' = [kubelet EXCEPT ![m] = installed[m]]
    BY <1>6 DEF PodsScheduled, OperatorCordons, OperatorUncordons, KubeletStops,
                KubeletStarts, nodeVars
  <2>3. QED
    BY <1>1, <2>1, <2>2, StepAround DEF IInv
<1>7. CASE UNCHANGED vars
  <2>1. UNCHANGED <<installed, apiserver, kube_version, completed, runVars>>
    BY <1>7 DEF vars, nodeVars, opVars, cordons
  <2>2. UNCHANGED kubelet
    BY <1>7 DEF vars, nodeVars
  <2>3. QED
    BY <1>1, <2>1, <2>2, StepAround DEF IInv
<1>8. QED
  BY <1>1, <1>2, <1>3, <1>4, <1>5, <1>6, <1>7 DEF Next, RunStep, IInv

\* "Handle upgrades to master components first to maintain backwards compat.":
\* no worker has a kubelet newer than an API server (upgrade-cluster.yml).
THEOREM MastersFirst == Spec => []WorkersBehindControlPlane
<1>1. IInv => WorkersBehindControlPlane
  <2> SUFFICES ASSUME IInv, NEW w \in Worker, NEW m \in Master
               PROVE  kubelet[w] <= apiserver[m] /\ installed[w] <= apiserver[m]
    BY DEF WorkersBehindControlPlane
  <2>1. kubelet[w] <= installed[w] /\ installed[w] <= apiserver[m]
    BY DEF IInv, Ordered, Node
  <2>2. kubelet[w] \in Int /\ installed[w] \in Int /\ apiserver[m] \in Int
    BY DEF IInv, TypeOK, Version, Node
  <2>3. QED
    BY <2>1, <2>2
<1>2. QED
  BY <1>1, InitIInv, NextIInv, PTL DEF Spec

\* A run of upgrade-cluster.yml that completes has brought every binary, and
\* the control plane with its kubelets, to its version, whatever was aborted
\* before it.
THEOREM CompletedMeansUpgraded == Spec => []CompletedRunUpgrades
<1>1. IInv => CompletedRunUpgrades
  BY DEF IInv, Progress, Done, CompletedRunUpgrades, Node
<1>2. QED
  BY <1>1, InitIInv, NextIInv, PTL DEF Spec

-----------------------------------------------------------------------------
(* The operator's cordons *)

\* Where 'kubectl get node' answers, a step keeps the operator's nodes out of
\* needs_cordoning and cordoned.
LEMMA NextCordons ==
  ASSUME ~KubectlMayFail, TypeOK, Cordons, [Next]_vars
  PROVE  Cordons'
<1> USE DEF Cordons, OperatorCordonKept
<1>1. ASSUME NEW h \in Node, HostStep(h) PROVE Cordons'
  <2>1. CASE CheckNode(h)
    <3>1. \/ needs_cordoning' = needs_cordoning
          \/ /\ h \notin unschedulable
             /\ needs_cordoning' = needs_cordoning \cup {h}
      BY <2>1 DEF CheckNode, Reads
    <3>2. \/ pc' = "check" /\ todo' = todo \ {h}
          \/ pc' = "cordon"
      BY <2>1 DEF CheckNode, AppliedTo
    <3>3. pc = "check" /\ UNCHANGED <<podVars, cordons, drain_failed>>
      BY <2>1 DEF CheckNode, opVars
    <3>4. QED
      BY <3>1, <3>2, <3>3 DEF podVars, cordons
  <2>2. CASE CordonNode(h)
    BY <2>2 DEF CordonNode, AppliedTo, opVars, cordons
  <2>3. CASE DrainNode(h)
    BY <2>3 DEF DrainNode, AppliedTo, opVars, cordons
  <2>4. CASE SetBackToSchedulable(h)
    BY <2>4 DEF SetBackToSchedulable, AppliedTo, opVars, cordons
  <2>5. CASE CopyKubelet(h)
    BY <2>5 DEF CopyKubelet, AppliedTo, podVars, opVars, cordons
  <2>6. CASE FlushHandlers(h)
    BY <2>6 DEF FlushHandlers, AppliedTo, podVars, opVars, cordons
  <2>7. CASE EnableKubelet(h)
    BY <2>7 DEF EnableKubelet, AppliedTo, podVars, opVars, cordons
  <2>8. CASE UpgradeControlPlane(h)
    BY <2>8 DEF UpgradeControlPlane, AppliedTo, podVars, opVars, cordons
  <2>9. CASE UncordonNode(h)
    BY <2>9 DEF UncordonNode, AppliedTo, opVars, cordons
  <2>10. CASE RunHandlers(h)
    BY <2>10 DEF RunHandlers, podVars, opVars, cordons
  <2>11. CASE BatchEnds(h)
    BY <2>11 DEF BatchEnds, StartBatch, EndRun, podVars, opVars, cordons
  <2>12. QED
    BY <1>1, <2>1, <2>2, <2>3, <2>4, <2>5, <2>6, <2>7, <2>8, <2>9, <2>10, <2>11
       DEF HostStep
<1>2. CASE FailAfterRescue
  BY <1>2 DEF FailAfterRescue, EndRun, podVars, opVars, cordons
<1>3. CASE RunAborts
  BY <1>3 DEF RunAborts, EndRun, podVars, cordons
<1>4. ASSUME NEW v \in Version, StartRun(v) PROVE Cordons'
  BY <1>4 DEF StartRun, StartBatch, podVars, cordons
<1>5. ASSUME NEW n \in Node, OperatorCordons(n) \/ OperatorUncordons(n)
      PROVE  Cordons'
  BY <1>5 DEF OperatorCordons, OperatorUncordons, StateWasRead, runVars, TypeOK
<1>6. ASSUME NEW n \in Node,
             PodsScheduled(n) \/ KubeletStops(n) \/ KubeletStarts(n)
      PROVE  Cordons'
  BY <1>6 DEF PodsScheduled, KubeletStops, KubeletStarts, podVars, opVars, cordons, runVars
<1>7. CASE UNCHANGED vars
  BY <1>7 DEF vars, podVars, opVars, cordons, runVars
<1>8. QED
  BY <1>1, <1>2, <1>3, <1>4, <1>5, <1>6, <1>7 DEF Next, RunStep

\* Where 'kubectl get node' answers, no run makes a node schedulable that the
\* operator had cordoned when the run read its state, whatever he cordons in the
\* middle of a batch (needs_cordoning, roles/upgrade/pre-upgrade).
THEOREM OperatorCordonSafe ==
  ASSUME ~KubectlMayFail
  PROVE  Spec => []OperatorCordonKept
<1>1. Init => Cordons
  BY DEF Init, Cordons, OperatorCordonKept
<1>2. TypeOK /\ Cordons /\ [Next]_vars => Cordons'
  BY NextCordons
<1>3. Cordons => OperatorCordonKept
  BY DEF Cordons
<1>4. QED
  BY <1>1, <1>2, <1>3, UpgradeTypeCorrect, PTL DEF Spec
-----------------------------------------------------------------------------
(* Drains *)

\* A host the run has chosen to cordon and whose drain has not failed.
Drained(h) == h \in unschedulable /\ (drain_nodes => h \notin pods)

\* What cordon and drain have done to the hosts they were applied to.
Drains ==
  /\ pc = "cordon" => needs_cordoning \ todo \subseteq unschedulable
  /\ pc = "drain" => /\ needs_cordoning \subseteq unschedulable
                     /\ drain_nodes => (needs_cordoning \ (todo \cup drain_failed)) \cap pods = {}
  /\ pc \in {"rescue", "drain_fail"} =>
       \A h \in needs_cordoning \ drain_failed : Drained(h)
  /\ UpgradesDrainedNodes

\* A step that neither places pods on nodes of the batch nor uncordons them.
LEMMA DrainsKept ==
  ASSUME TypeOK, Drains, UNCHANGED runVars,
         unschedulable \cap needs_cordoning \subseteq unschedulable',
         pods' \subseteq pods \cup (Node \ unschedulable)
  PROVE  Drains'
<1>1. UNCHANGED <<pc, todo, needs_cordoning, drain_failed>>
  BY DEF runVars
<1>2. needs_cordoning \subseteq batch
  BY DEF TypeOK
<1>3. \A h \in needs_cordoning : h \in unschedulable => h \in unschedulable' /\ (h \in pods' => h \in pods)
  BY <1>2
<1>4. pc = "cordon" => needs_cordoning \ todo \subseteq unschedulable'
  BY <1>3 DEF Drains
<1>5. pc = "drain" => /\ needs_cordoning \subseteq unschedulable'
                      /\ drain_nodes => (needs_cordoning \ (todo \cup drain_failed)) \cap pods' = {}
  BY <1>3 DEF Drains
<1>6. pc \in {"rescue", "drain_fail"} =>
        \A h \in needs_cordoning \ drain_failed : h \in unschedulable' /\ (drain_nodes => h \notin pods')
  BY <1>3 DEF Drains, Drained
<1>7. UpgradesDrainedNodes'
  BY <1>1, <1>3 DEF Drains, UpgradesDrainedNodes
<1>8. QED
  BY <1>1, <1>4, <1>5, <1>6, <1>7 DEF Drains, Drained

\* A step of the run after the drains: nothing is uncordoned before "post".
LEMMA DrainsUsed ==
  ASSUME Drains, pc \in {"install", "flush", "enable", "control_plane"},
         pc' \in {"install", "flush", "enable", "control_plane", "post"},
         UNCHANGED <<unschedulable, pods, needs_cordoning>>
  PROVE  Drains'
  BY DEF Drains, UpgradesDrainedNodes

\* A task before the copy of the binary, or after the uncordon, promises nothing.
LEMMA NotDraining ==
  ASSUME pc' \in {"idle", "check", "post", "handlers"}
  PROVE  Drains'
  BY DEF Drains, UpgradesDrainedNodes

LEMMA NextDrains ==
  ASSUME upgrade_node_fail_if_drain_fails, TypeOK, Drains, [Next]_vars
  PROVE  Drains'
<1>1. ASSUME NEW h \in Node, HostStep(h) PROVE Drains'
  <2>1. CASE CheckNode(h)
    <3>1. CASE pc' = "check"
      BY <3>1, NotDraining
    <3>2. CASE pc' = "cordon"
      <4>1. todo' = batch /\ needs_cordoning' \subseteq batch
        BY <2>1, <3>2 DEF CheckNode, AppliedTo, TypeOK
      <4>2. needs_cordoning' \ todo' = {}
        BY <4>1
      <4>3. QED
        BY <3>2, <4>2 DEF Drains, UpgradesDrainedNodes
    <3>3. QED
      BY <2>1, <3>1, <3>2 DEF CheckNode, AppliedTo
  <2>2. CASE CordonNode(h)
    <3>1. /\ pc = "cordon" /\ needs_cordoning \subseteq batch
          /\ unschedulable' = unschedulable \cup ({h} \cap needs_cordoning)
          /\ UNCHANGED needs_cordoning
      BY <2>2 DEF CordonNode, TypeOK
    <3>2. needs_cordoning \ (todo \ {h}) \subseteq unschedulable'
      BY <3>1 DEF Drains
    <3>3. CASE pc' = "cordon" /\ todo' = todo \ {h}
      BY <3>1, <3>2, <3>3 DEF Drains, UpgradesDrainedNodes
    <3>4. CASE todo = {h} /\ pc' = "drain" /\ todo' = batch
      <4>1. needs_cordoning' \subseteq unschedulable' /\ needs_cordoning' \ todo' = {}
        BY <3>1, <3>2, <3>4
      <4>2. QED
        BY <3>4, <4>1 DEF Drains, UpgradesDrainedNodes
    <3>5. QED
      BY <2>2, <3>1, <3>3, <3>4 DEF CordonNode, AppliedTo
  <2>3. CASE DrainNode(h)
    <3>1. pc = "drain" /\ UNCHANGED <<needs_cordoning, unschedulable>>
      BY <2>3 DEF DrainNode
    <3>2. /\ pods' \subseteq pods /\ drain_failed \subseteq drain_failed'
          /\ (drain_nodes /\ h \in needs_cordoning) => (h \in drain_failed' \/ h \notin pods')
      BY <2>3 DEF DrainNode
    <3>3. drain_nodes =>
            \A g \in needs_cordoning : g \notin todo \ {h} => g \in drain_failed' \/ g \notin pods'
      BY <3>1, <3>2 DEF Drains
    <3>4. needs_cordoning \subseteq unschedulable'
      BY <3>1 DEF Drains
    <3>5. CASE pc' = "drain" /\ todo' = todo \ {h}
      BY <3>1, <3>3, <3>4, <3>5 DEF Drains, UpgradesDrainedNodes
    <3>6. CASE todo = {h} /\ pc' = "rescue"
      BY <3>1, <3>3, <3>4, <3>6 DEF Drains, UpgradesDrainedNodes, Drained
    <3>7. QED
      BY <2>3, <3>1, <3>5, <3>6 DEF DrainNode, AppliedTo
  <2>4. CASE SetBackToSchedulable(h)
    <3>1. /\ pc = "rescue" /\ pc' \in {"rescue", "drain_fail"}
          /\ UNCHANGED <<needs_cordoning, drain_failed, pods>>
          /\ unschedulable \ drain_failed \subseteq unschedulable'
      BY <2>4 DEF SetBackToSchedulable, AppliedTo
    <3>2. QED
      BY <3>1 DEF Drains, Drained, UpgradesDrainedNodes
  <2>5. CASE CopyKubelet(h) \/ FlushHandlers(h) \/ EnableKubelet(h) \/ UpgradeControlPlane(h)
    <3>1. /\ pc \in {"install", "flush", "enable", "control_plane"}
          /\ pc' \in {"install", "flush", "enable", "control_plane", "post"}
      BY <2>5 DEF CopyKubelet, FlushHandlers, EnableKubelet, UpgradeControlPlane, AppliedTo
    <3>2. UNCHANGED <<unschedulable, pods, needs_cordoning>>
      BY <2>5 DEF CopyKubelet, FlushHandlers, EnableKubelet, UpgradeControlPlane, podVars
    <3>3. QED
      BY <3>1, <3>2, DrainsUsed
  <2>6. CASE UncordonNode(h) \/ RunHandlers(h) \/ BatchEnds(h)
    <3>1. pc' \in {"idle", "check", "post", "handlers"}
      BY <2>6 DEF UncordonNode, AppliedTo, RunHandlers, BatchEnds, StartBatch, EndRun
    <3>2. QED
      BY <3>1, NotDraining
  <2>7. QED
    BY <1>1, <2>1, <2>2, <2>3, <2>4, <2>5, <2>6 DEF HostStep
<1>2. CASE FailAfterRescue
  <2>1. CASE EndRun(FALSE)
    BY <2>1, NotDraining DEF EndRun
  <2>2. CASE ~EndRun(FALSE)
    <3>1. /\ pc = "drain_fail" /\ pc' = "install" /\ drain_failed = {}
          /\ UNCHANGED <<unschedulable, pods, needs_cordoning>>
      BY <1>2, <2>2 DEF FailAfterRescue, podVars
    <3>2. \A h \in needs_cordoning : Drained(h)
      BY <3>1 DEF Drains
    <3>3. QED
      BY <3>1, <3>2 DEF Drains, Drained, UpgradesDrainedNodes
  <2>3. QED
    BY <2>1, <2>2
<1>3. CASE RunAborts
  BY <1>3, NotDraining DEF RunAborts, EndRun
<1>4. ASSUME NEW v \in Version, StartRun(v) PROVE Drains'
  BY <1>4, NotDraining DEF StartRun, StartBatch
<1>5. ASSUME NEW n \in Node, PodsScheduled(n) PROVE Drains'
  <2>1. UNCHANGED runVars /\ UNCHANGED unschedulable /\ pods' \subseteq pods \cup (Node \ unschedulable)
    BY <1>5 DEF PodsScheduled
  <2>2. QED
    BY <2>1, DrainsKept
<1>6. ASSUME NEW n \in Node, OperatorCordons(n) \/ OperatorUncordons(n)
      PROVE  Drains'
  <2>1. UNCHANGED runVars /\ UNCHANGED pods /\ unschedulable \cap needs_cordoning \subseteq unschedulable'
    BY <1>6 DEF OperatorCordons, OperatorUncordons
  <2>2. QED
    BY <2>1, DrainsKept
<1>7. ASSUME NEW n \in Node, KubeletStops(n) \/ KubeletStarts(n) PROVE Drains'
  <2>1. UNCHANGED runVars /\ UNCHANGED <<unschedulable, pods>>
    BY <1>7 DEF KubeletStops, KubeletStarts, podVars
  <2>2. QED
    BY <2>1, DrainsKept
<1>8. CASE UNCHANGED vars
  <2>1. UNCHANGED runVars /\ UNCHANGED <<unschedulable, pods>>
    BY <1>8 DEF vars, podVars
  <2>2. QED
    BY <2>1, DrainsKept
<1>9. QED
  BY <1>1, <1>2, <1>3, <1>4, <1>5, <1>6, <1>7, <1>8 DEF Next, RunStep

\* Where a drain that fails ends the run, as by default, a node that the run has
\* chosen to cordon is cordoned and without pods from the copy of its kubelet to
\* its uncordon, whatever pods are placed and whichever drains fail meanwhile
\* (roles/upgrade/pre-upgrade, upgrade_node_fail_if_drain_fails).
THEOREM DrainedBeforeUpgrade ==
  ASSUME upgrade_node_fail_if_drain_fails
  PROVE  Spec => []UpgradesDrainedNodes
<1>1. Init => Drains
  BY DEF Init, Drains, UpgradesDrainedNodes
<1>2. TypeOK /\ Drains /\ [Next]_vars => Drains'
  BY NextDrains
<1>3. Drains => UpgradesDrainedNodes
  BY DEF Drains
<1>4. QED
  BY <1>1, <1>2, <1>3, UpgradeTypeCorrect, PTL DEF Spec
=============================================================================
