------------------------------ MODULE Kubeadm ------------------------------
(***************************************************************************)
(* How hosts become nodes: roles/kubernetes/control-plane initialises the    *)
(* first master and joins the others, roles/kubernetes/kubeadm joins the     *)
(* workers, under the playbooks cluster.yml and scale.yml.                   *)
(*                                                                           *)
(* kubeadm is external and modelled phase by phase, because the roles decide *)
(* from the files that its phases write whether to run it again: its         *)
(* config.yaml on a master, the kubelet.conf on a worker, and the manifest   *)
(* of the API server before a join.  A command may fail in any phase and a   *)
(* run may stop in the middle of one.                                        *)
(*                                                                           *)
(* Left out: the upgrade (ClusterUpgrade), taints, and the load balancer:    *)
(* the roles reach the API server on the first master, as by default.        *)
(***************************************************************************)
EXTENDS Naturals, Sequences

CONSTANTS
  Master, Worker,
  Deployed,      \* the masters the inventory begins with: a sequence
  Retries,       \* of kubeadm init and of the join of a master: 3
  MaxFailures,   \* bound: commands that fail without a cause of the model
  MaxAborts      \* bound: interrupted runs

Host == Master \cup Worker

ASSUME KubeadmAssumption ==
  /\ Master \cap Worker = {}
  /\ Deployed \in Seq(Master) /\ Deployed # <<>>
  /\ {Retries, MaxFailures, MaxAborts} \subseteq Nat

VARIABLES
  group,         \* groups['kube_control_plane'], in order
  workers,       \* groups['kube_node'] without the masters
  ca,            \* ca[h]: the CA in kube_cert_dir, 0 if there is none
  cert,          \* cert[m]: the names in apiserver.crt, empty if there is none
  configured,    \* hosts with /var/lib/kubelet/config.yaml
  manifest,      \* masters with a manifest of the API server
  kubelet_conf,  \* workers with a kubelet.conf
  authorities,   \* number of CAs that were made
  uploaded,      \* API: the names in the uploaded configuration, empty if there is none
  secret,        \* API: the CA in the uploaded certificates
  info,          \* API: the CA in cluster-info, which also makes tokens work
  marked,        \* API: masters with the role's label and taint
  playbook,      \* the playbook of the run, or of the last one
  pc,            \* the task of the play
  already,       \* registered: kubeadm_already_run
  todo,          \* hosts that have not done the task
  phase,         \* phase[h]: where the kubeadm command of a host is
  retries,       \* how often the command of the task may be repeated
  broken,        \* hosts on which the task failed
  completed,     \* the last run was completed, and the inventory has not changed
  cut,           \* a run has ended with a kubeadm of a master that did not succeed
                 \* but has written config.yaml
  failures, aborts

inventory == <<group, workers>>
disk == <<ca, cert, configured, manifest, kubelet_conf, authorities>>
objects == <<uploaded, secret, info, marked>>
play == <<playbook, pc, already, todo, phase, retries, broken>>
history == <<completed, cut, failures, aborts>>
vars == <<inventory, disk, objects, play, history>>

Group == {group[i] : i \in DOMAIN group}
First == group[1]
ApiAnswers == First \in manifest
Joins(h) == h # First

Init ==
  /\ group = Deployed /\ workers = {}
  /\ ca = [h \in Host |-> 0] /\ cert = [m \in Master |-> {}]
  /\ configured = {} /\ manifest = {} /\ kubelet_conf = {} /\ authorities = 0
  /\ uploaded = {} /\ secret = 0 /\ info = 0 /\ marked = {}
  /\ playbook = "cluster" /\ pc = "idle" /\ already = {} /\ todo = {} /\ phase = [h \in Host |-> "none"]
  /\ retries = 0 /\ broken = {}
  /\ completed = FALSE /\ cut = FALSE /\ failures = 0 /\ aborts = 0
-----------------------------------------------------------------------------
(* The run.                                                                  *)

\* The masters whose kubeadm has not succeeded yet.
Unfinished == IF pc \in {"init", "join"} THEN todo ELSE {}

EndRun(complete) ==
  /\ completed' = complete
  /\ cut' = (cut \/ Master \cap configured \cap (broken \cup Unfinished) # {})
  /\ pc' = "idle" /\ todo' = {} /\ phase' = [h \in Host |-> "none"]
  /\ retries' = 0 /\ broken' = {}
  /\ UNCHANGED <<playbook, already>>

\* The next task and the hosts that do it.
Goto(task, hosts) == pc' = task /\ todo' = hosts

Start(name, task) ==
  /\ pc = "idle"
  /\ Goto(task, {})
  /\ playbook' = name
  /\ completed' = FALSE
  /\ UNCHANGED <<inventory, disk, objects, phase, retries, broken, cut, failures, aborts>>

\* Mutant: the manifest of the API server is looked for, as before a join.
StartCluster_ManifestStat ==
  /\ Start("cluster", "check_sans")
  /\ already' = Group \cap manifest

\* cluster.yml: kubeadm_already_run on every master.
StartCluster ==
  /\ Start("cluster", "check_sans")
  /\ already' = Group \cap configured

\* scale.yml: no tasks of the control plane but the upload of its certificates.
StartScale == Start("scale", "upload_scale") /\ UNCHANGED already

\* any_errors_fatal, after the hosts that could do the task have done it.
PlayFails ==
  /\ pc \in {"init", "join", "join_workers"} /\ todo = {} /\ broken # {}
  /\ EndRun(FALSE)
  /\ UNCHANGED <<inventory, disk, objects, failures, aborts>>

Interrupt ==
  /\ pc # "idle"
  /\ aborts < MaxAborts /\ aborts' = aborts + 1
  /\ EndRun(FALSE)
  /\ UNCHANGED <<inventory, disk, objects, failures>>
-----------------------------------------------------------------------------
(* The certificate of the API server.                                        *)

NeedRenew(m) == ~(Group \subseteq cert[m])

\* Mutant: a certificate that is not there needs no renewal.
CheckSans_IfPresent ==
  /\ pc = "check_sans"
  /\ Goto("remove_certs", {m \in already : cert[m] # {} /\ NeedRenew(m)})
  /\ UNCHANGED <<inventory, disk, objects, playbook, already, phase, retries, broken, history>>

CheckSans ==
  /\ pc = "check_sans"
  /\ Goto("remove_certs", {m \in already : NeedRenew(m)})
  /\ UNCHANGED <<inventory, disk, objects, playbook, already, phase, retries, broken, history>>

\* regenerate apiserver cert 1/2; the masters that remove theirs make a new one.
RemoveCert(m) ==
  /\ pc = "remove_certs" /\ m \in todo /\ cert[m] # {}
  /\ cert' = [cert EXCEPT ![m] = {}]
  /\ UNCHANGED <<inventory, ca, configured, manifest, kubelet_conf, authorities, objects, play, history>>

CertsRemoved ==
  /\ pc = "remove_certs" /\ \A m \in todo : cert[m] = {}
  /\ Goto("regenerate", todo)
  /\ UNCHANGED <<inventory, disk, objects, playbook, already, phase, retries, broken, history>>

\* regenerate apiserver cert 2/2: kubeadm init phase certs apiserver.
Regenerate(m) ==
  /\ pc = "regenerate" /\ m \in todo
  /\ cert' = [cert EXCEPT ![m] = Group]
  /\ todo' = todo \ {m}
  /\ UNCHANGED <<inventory, ca, configured, manifest, kubelet_conf, authorities, objects,
                 pc, playbook, already, phase, retries, broken, history>>

Regenerated ==
  /\ pc = "regenerate" /\ todo = {}
  /\ Goto("init", {First} \ already)
  /\ retries' = Retries
  /\ UNCHANGED <<inventory, disk, objects, playbook, already, phase, broken, history>>
-----------------------------------------------------------------------------
(* kubeadm init and kubeadm join on a master, phase by phase.                *)

NextPhase(h, p) ==
  IF Joins(h)
  THEN CASE p = "reset" -> "certs"
         [] p = "certs" -> "manifests"
         [] p = "manifests" -> "kubelet"
         [] p = "kubelet" -> "mark"
         [] p = "mark" -> "none"
  ELSE CASE p = "certs" -> "kubelet"
         [] p = "kubelet" -> "manifests"
         [] p = "manifests" -> "upload"
         [] p = "upload" -> "mark"
         [] p = "mark" -> "bootstrap"
         [] p = "bootstrap" -> "none"

\* The next master's command: init of the first, and join of one at a time
\* (throttle), after a reset where an earlier attempt has left a manifest.
FirstPhase(h) == IF Joins(h) /\ h \in manifest THEN "reset" ELSE "certs"

\* Mutant: a reset comes before init too, where an earlier attempt has left a manifest.
StartCommand_InitResets(m) ==
  /\ pc \in {"init", "join"} /\ m \in todo
  /\ \A h \in Master : phase[h] = "none"
  /\ phase' = [phase EXCEPT ![m] = FirstPhase(m)]
  /\ IF Joins(m) \/ m \notin manifest THEN UNCHANGED disk
     ELSE /\ ca' = [ca EXCEPT ![m] = 0] /\ cert' = [cert EXCEPT ![m] = {}]
          /\ configured' = configured \ {m} /\ manifest' = manifest \ {m}
          /\ UNCHANGED <<kubelet_conf, authorities>>
  /\ UNCHANGED <<inventory, objects, playbook, pc, already, todo, retries, broken, history>>

StartCommand(m) ==
  /\ pc \in {"init", "join"} /\ m \in todo
  /\ \A h \in Master : phase[h] = "none"
  /\ phase' = [phase EXCEPT ![m] = FirstPhase(m)]
  /\ UNCHANGED <<inventory, disk, objects, playbook, pc, already, todo, retries, broken, history>>

\* A phase of a master's command has been done; after the last one the next
\* host begins with as many retries.
Done(m, p) ==
  /\ phase' = [phase EXCEPT ![m] = NextPhase(m, p)]
  /\ IF NextPhase(m, p) = "none" THEN todo' = todo \ {m} /\ retries' = Retries
     ELSE UNCHANGED <<todo, retries>>
  /\ UNCHANGED <<inventory, playbook, pc, already, broken, history>>

\* kubeadm reset -f --cert-dir
Reset(m) ==
  /\ phase[m] = "reset"
  /\ ca' = [ca EXCEPT ![m] = 0] /\ cert' = [cert EXCEPT ![m] = {}]
  /\ configured' = configured \ {m} /\ manifest' = manifest \ {m}
  /\ Done(m, "reset")
  /\ UNCHANGED <<kubelet_conf, authorities, objects>>

\* init makes what is not there; join asks the cluster for it.
InitCerts(m) ==
  /\ phase[m] = "certs" /\ ~Joins(m)
  /\ IF ca[m] = 0
     THEN authorities' = authorities + 1 /\ ca' = [ca EXCEPT ![m] = authorities + 1]
     ELSE UNCHANGED <<authorities, ca>>
  /\ cert' = [cert EXCEPT ![m] = IF @ = {} THEN Group ELSE @]
  /\ Done(m, "certs")
  /\ UNCHANGED <<configured, manifest, kubelet_conf, objects>>

JoinCerts(m) ==
  /\ phase[m] = "certs" /\ Joins(m)
  /\ ApiAnswers /\ info # 0 /\ uploaded # {} /\ secret # 0
  /\ ca' = [ca EXCEPT ![m] = secret]
  /\ cert' = [cert EXCEPT ![m] = IF @ = {} THEN uploaded \cup {m} ELSE @]
  /\ Done(m, "certs")
  /\ UNCHANGED <<configured, manifest, kubelet_conf, authorities, objects>>

Manifests(m) ==
  /\ phase[m] = "manifests"
  /\ manifest' = manifest \cup {m}
  /\ Done(m, "manifests")
  /\ UNCHANGED <<ca, cert, configured, kubelet_conf, authorities, objects>>

KubeletStart(m) ==
  /\ phase[m] = "kubelet" /\ m \in Master
  /\ configured' = configured \cup {m}
  /\ Done(m, "kubelet")
  /\ UNCHANGED <<ca, cert, manifest, kubelet_conf, authorities, objects>>

Upload(m) ==
  /\ phase[m] = "upload"
  /\ uploaded' = Group /\ secret' = ca[m]
  /\ Done(m, "upload")
  /\ UNCHANGED <<disk, info, marked>>

Mark(m) ==
  /\ phase[m] = "mark"
  /\ marked' = marked \cup {m}
  /\ Done(m, "mark")
  /\ UNCHANGED <<disk, uploaded, secret, info>>

BootstrapToken(m) ==
  /\ phase[m] = "bootstrap"
  /\ info' = ca[m]
  /\ Done(m, "bootstrap")
  /\ UNCHANGED <<disk, uploaded, secret, marked>>

\* Whether the phase has what it asks the cluster for.
Possible(m) ==
  phase[m] = "certs" /\ Joins(m) => ApiAnswers /\ info # 0 /\ uploaded # {} /\ secret # 0

\* The command fails: it is repeated, or the task has failed on this host.
CommandFails(m) ==
  /\ phase[m] # "none"
  /\ IF Possible(m) THEN failures < MaxFailures /\ failures' = failures + 1
     ELSE UNCHANGED failures
  /\ phase' = [phase EXCEPT ![m] = "none"]
  /\ IF retries > 0 THEN retries' = retries - 1 /\ UNCHANGED <<todo, broken>>
     ELSE todo' = todo \ {m} /\ broken' = broken \cup {m} /\ retries' = Retries
  /\ UNCHANGED <<inventory, disk, objects, playbook, pc, already, completed, cut, aborts>>
-----------------------------------------------------------------------------
(* Between init and join.                                                    *)

Initialized ==
  /\ pc = "init" /\ todo = {} /\ broken = {}
  /\ Goto("token", {})
  /\ UNCHANGED <<inventory, disk, objects, playbook, already, phase, retries, broken, history>>

\* The tasks that need the API server, and have no other host to ask.
NeedApi == pc \in {"token", "upload_certs", "upload_scale"}

ApiTaskFails ==
  /\ NeedApi
  /\ \/ ~ApiAnswers /\ UNCHANGED failures
     \/ failures < MaxFailures /\ failures' = failures + 1
  /\ EndRun(FALSE)
  /\ UNCHANGED <<inventory, disk, objects, aborts>>

CreateToken ==
  /\ pc = "token" /\ ApiAnswers
  /\ Goto("upload_certs", {})
  /\ UNCHANGED <<inventory, disk, objects, playbook, already, phase, retries, broken, history>>

\* Mutant: masters are joined as workers too.
JoiningWorkers_MastersToo == {w \in workers \cup Group : w \notin kubelet_conf}

\* Upload certificates so they are fresh, by either playbook, and the hosts
\* that join then.
JoiningWorkers == {w \in workers : w \notin kubelet_conf}

\* Mutant: the join does not ask whether kubeadm has run.
UploadCerts_JoinAgain ==
  /\ pc \in {"upload_certs", "upload_scale"} /\ ApiAnswers
  /\ secret' = ca[First]
  /\ IF pc = "upload_certs" THEN Goto("join", Group \ {First})
     ELSE Goto("join_workers", JoiningWorkers)
  /\ retries' = Retries
  /\ UNCHANGED <<inventory, disk, uploaded, info, marked, playbook, already, phase, broken, history>>

UploadCerts ==
  /\ pc \in {"upload_certs", "upload_scale"} /\ ApiAnswers
  /\ secret' = ca[First]
  /\ IF pc = "upload_certs" THEN Goto("join", Group \ (already \cup {First}))
     ELSE Goto("join_workers", JoiningWorkers)
  /\ retries' = Retries
  /\ UNCHANGED <<inventory, disk, uploaded, info, marked, playbook, already, phase, broken, history>>

Joined ==
  /\ pc = "join" /\ todo = {} /\ broken = {}
  /\ Goto("join_workers", JoiningWorkers)
  /\ UNCHANGED <<inventory, disk, objects, playbook, already, phase, retries, broken, history>>
-----------------------------------------------------------------------------
(* The workers join at the same time: a block and its rescue.                *)

\* The CA of the first master must be the one the cluster shows.
CanDiscover == ApiAnswers /\ info # 0 /\ (ca[First] # 0 => info = ca[First])

\* kubeadm join up to the start of the kubelet, as the first attempt (phase
\* none) or as the rescue.  The first one refuses files of an earlier one.
JoinWorker(w) ==
  /\ pc = "join_workers" /\ w \in todo
  /\ (phase[w] = "none" /\ w \notin configured) \/ phase[w] = "rescue"
  /\ CanDiscover
  /\ configured' = configured \cup {w}
  /\ ca' = [ca EXCEPT ![w] = info]
  /\ phase' = [phase EXCEPT ![w] = IF @ = "none" THEN "first" ELSE "second"]
  /\ UNCHANGED <<inventory, cert, manifest, kubelet_conf, authorities, objects,
                 playbook, pc, already, todo, retries, broken, history>>

\* The kubelet gets its client certificate and writes kubelet.conf, also when
\* nobody waits for it any more.
KubeletBootstraps(w) ==
  /\ w \in configured \cap Worker /\ w \notin kubelet_conf
  /\ ApiAnswers
  /\ kubelet_conf' = kubelet_conf \cup {w}
  /\ UNCHANGED <<inventory, ca, cert, configured, manifest, authorities, objects, play, history>>

WorkerJoined(w) ==
  /\ phase[w] \in {"first", "second"} /\ w \in kubelet_conf
  /\ phase' = [phase EXCEPT ![w] = "none"]
  /\ todo' = todo \ {w}
  /\ UNCHANGED <<inventory, disk, objects, playbook, pc, already, retries, broken, history>>

\* The first attempt fails: refused, or timed out.
FirstJoinFails(w) ==
  /\ pc = "join_workers" /\ w \in todo /\ w \in Worker
  /\ \/ phase[w] = "none" /\ (w \in configured \/ ~CanDiscover) /\ UNCHANGED failures
     \/ phase[w] \in {"none", "first"} /\ failures < MaxFailures /\ failures' = failures + 1
  /\ phase' = [phase EXCEPT ![w] = "rescue"]
  /\ UNCHANGED <<inventory, disk, objects, playbook, pc, already, todo, retries, broken, completed, cut, aborts>>

\* So does the rescue, also because the late answer to the first attempt has
\* made the node Ready.
RescueFails(w) ==
  /\ pc = "join_workers" /\ w \in todo
  /\ \/ phase[w] = "rescue" /\ (w \in kubelet_conf \/ ~CanDiscover) /\ UNCHANGED failures
     \/ phase[w] \in {"rescue", "second"} /\ failures < MaxFailures /\ failures' = failures + 1
  /\ phase' = [phase EXCEPT ![w] = "none"]
  /\ todo' = todo \ {w} /\ broken' = broken \cup {w}
  /\ UNCHANGED <<inventory, disk, objects, playbook, pc, already, retries, completed, cut, aborts>>

\* Mutant: hosts that failed drop out of the play, which goes on.
RunCompletes_WithoutFailed ==
  /\ pc = "join_workers" /\ todo = {}
  /\ EndRun(TRUE)
  /\ UNCHANGED <<inventory, disk, objects, failures, aborts>>

RunCompletes ==
  /\ pc = "join_workers" /\ todo = {} /\ broken = {}
  /\ EndRun(TRUE)
  /\ UNCHANGED <<inventory, disk, objects, failures, aborts>>
-----------------------------------------------------------------------------
(* The inventory changes between runs.                                       *)

Edited == completed' = FALSE /\ UNCHANGED <<disk, objects, play, cut, failures, aborts>>

\* A new master is appended.
AddMaster(m) ==
  /\ pc = "idle" /\ m \in Master \ Group
  /\ group' = Append(group, m)
  /\ UNCHANGED workers
  /\ Edited

AddWorker(w) ==
  /\ pc = "idle" /\ w \in Worker \ workers
  /\ workers' = workers \cup {w}
  /\ UNCHANGED group
  /\ Edited

\* The first master of a deployed cluster is moved to the end.
ChangeOrder ==
  /\ pc = "idle" /\ completed /\ playbook = "cluster" /\ Len(group) > 1
  /\ group' = Append(Tail(group), First)
  /\ UNCHANGED workers
  /\ Edited

Command(m) ==
  \/ StartCommand(m)
  \/ Reset(m) \/ InitCerts(m) \/ JoinCerts(m) \/ Manifests(m) \/ KubeletStart(m)
  \/ Upload(m) \/ Mark(m) \/ BootstrapToken(m)

Tasks ==
  \/ CheckSans \/ CertsRemoved \/ Regenerated \/ Initialized
  \/ CreateToken \/ UploadCerts \/ ApiTaskFails \/ Joined \/ PlayFails \/ RunCompletes
  \/ \E m \in Master : RemoveCert(m) \/ Regenerate(m) \/ Command(m) \/ CommandFails(m)
  \/ \E w \in Worker : JoinWorker(w) \/ WorkerJoined(w) \/ FirstJoinFails(w) \/ RescueFails(w)

Next ==
  \/ StartCluster \/ StartScale
  \/ Tasks
  \/ \E w \in Worker : KubeletBootstraps(w)
  \/ Interrupt
  \/ \E m \in Master : AddMaster(m)
  \/ \E w \in Worker : AddWorker(w)
  \/ ChangeOrder

\* A run goes on, a kubelet that can get its certificate does, and the operator
\* runs cluster.yml again as long as it has not completed.
Fairness ==
  /\ WF_vars(Tasks)
  /\ \A w \in Worker : WF_vars(KubeletBootstraps(w))
  /\ SF_vars(StartCluster /\ ~(completed /\ playbook = "cluster"))

Spec == Init /\ [][Next]_vars
FairSpec == Spec /\ Fairness
-----------------------------------------------------------------------------
(* Correctness.                                                              *)

Phase == {"none", "reset", "certs", "kubelet", "manifests", "upload", "mark", "bootstrap",
          "first", "rescue", "second"}

TypeOK ==
  /\ group \in Seq(Master) /\ group # <<>> /\ workers \subseteq Worker
  /\ ca \in [Host -> Nat] /\ cert \in [Master -> SUBSET Master]
  /\ configured \subseteq Host /\ manifest \subseteq Master /\ kubelet_conf \subseteq Worker
  /\ uploaded \subseteq Master /\ marked \subseteq Master
  /\ {authorities, secret, info, retries, failures, aborts} \subseteq Nat
  /\ playbook \in {"cluster", "scale"}
  /\ pc \in {"idle", "check_sans", "remove_certs", "regenerate", "init", "token",
             "upload_certs", "upload_scale", "join", "join_workers"}
  /\ already \subseteq Master /\ broken \subseteq Host
  /\ todo \subseteq (IF pc = "join_workers" THEN Worker ELSE Master)
  /\ phase \in [Host -> Phase]
  /\ \A h \in Host : phase[h] # "none" => h \in todo /\ (h \in Master => pc \in {"init", "join"})
  /\ completed \in BOOLEAN /\ cut \in BOOLEAN

\* There is one CA: every host that has one has the same, and the cluster shows
\* no other, whatever was interrupted, reset, joined again or moved to the front.
OneCA ==
  /\ \A h, i \in Host : ca[h] # 0 /\ ca[i] # 0 => ca[h] = ca[i]
  /\ \A shown \in {secret, info} \ {0} : \E m \in Master : ca[m] = shown

\* A master that has joined is never reset by a later attempt or a later run.
MarkedServes == marked \subseteq manifest \cap configured

\* A completed run leaves every master with an API server and every worker with
\* a kubelet of the cluster, also where earlier runs stopped within kubeadm.
CompletedRunServes ==
  completed =>
    /\ playbook = "cluster" => /\ Group \subseteq manifest \cap configured
                               /\ \A m \in Group : ca[m] # 0 /\ cert[m] # {}
    /\ workers \subseteq kubelet_conf

\* If no kubeadm of a master was cut off, every master is marked as one.
CompletedRunMarks == completed /\ playbook = "cluster" /\ ~cut => Group \subseteq marked

\* "kubeadm | Check if apiserver.crt contains all needed SANs": after a run
\* of cluster.yml the certificates of the masters it found have every name, also
\* if a run stopped between the removal of one and the making of the next.
SansComplete ==
  pc \in {"init", "token", "upload_certs", "join"} => \A m \in already : Group \subseteq cert[m]

\* Runs that are repeated until one completes make every host of the inventory
\* a node, unless a kubeadm of a master was cut off after its config.yaml.
EveryHostJoins ==
  []<>(cut \/ (Group \subseteq marked /\ workers \subseteq kubelet_conf))
=============================================================================
