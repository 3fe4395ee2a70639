# TLA+ development of Kubespray

Kubespray is a set of Ansible playbooks that deploy, grow, upgrade and repair
Kubernetes clusters. Its program is the order of tasks over hosts: what a task
reads from hosts, what it writes to them, which later task depends on a
registered result, and what a run that stops in the middle leaves to the next
one. That is what is modelled here. Line numbers are those of the files of the
repository.

## How a playbook becomes a specification

* **A run** is one execution of a playbook, a play one `hosts:` section of it.
  With the linear strategy a task is applied to every host of the play before
  the next task begins: `pc` names the task, `todo` the hosts (or files) it has
  not been applied to. One host and one task is one action, so that hosts, etcd,
  systemd and kubelets interleave with it at every point.
* **State of the hosts** (files, data directories, running processes, nodes)
  survives a run. **Facts, registered results and notified handlers do not**: every
  action that ends a run clears them. `ansible.cfg` caches gathered facts only.
* **Failure.** All plays that matter say `any_errors_fatal`: a task that fails on
  one host ends the run for all. A run may also be stopped by hand or by the loss
  of a host, between any two actions. The operator then runs the playbook again.
* **Completion.** `completed` says that the last run ended without an error. Most
  properties are of the form "a run that completes has done X, whatever was
  interrupted before": that is the contract of an idempotent playbook.
* External programs (etcd, etcdctl, systemd, kubectl, kubeadm, openssl, mv) are
  modelled from how the playbooks use them, and marked external in
  `PROJECT.json`.

## Inventory of the system

| Component | State it keeps | Operations | Hard behaviour | What makes it correct | Modelled |
|---|---|---|---|---|---|
| etcd cluster (`roles/etcd`: configure, join, refresh, handlers) | data directories, member lists, `/etc/etcd.env`, units | check health, render the file, start, wait, look up membership, add a member, reload | systemd starts etcds between tasks; a `member add` that is not followed by a start; a health check that is read once and used often | never two clusters; a peer list is the member list; a completed run has joined everyone; every host joins eventually | `EtcdRole` |
| etcd certificates (`check_certs`, `gen_certs_script`, `make-ssl-etcd.sh`, `upd_ca_trust`) | `/etc/ssl/etcd/ssl` on every host, trust stores, what etcd has loaded | compare with the first host, generate, move, copy, trust, restart | the role is run in two plays; a run stops within a move or a copy; inventories grow | one CA for good; keys and certificates that belong together; copies in sync | `EtcdCerts` |
| rolling upgrade (`upgrade-cluster.yml`, `pre-upgrade`, `kubernetes/node`, `control-plane`, `post-upgrade`) | node schedulability, pods, kubelet binary and process, control plane version | cordon, drain, rescue, copy, flush, upgrade, uncordon, handlers | drains that fail, runs aborted at any task, operators who cordon nodes | workers never ahead of API servers; upgraded nodes are drained; the operator's cordons stay; completed means upgraded | `ClusterUpgrade` |
| kubeadm control plane (`kubeadm-setup`, `kubeadm-secondary`) | `/var/lib/kubelet/config.yaml`, manifests, the certificate of the API server, the uploaded configuration | check names, remove and make the certificate, init, upload certificates, join with a reset | an init or a join that stops half way and looks finished (`kubeadm-setup.yml:13`); a certificate that is removed before it is made; masters that change their order | one CA; a master that serves is not reset; every master joins; certificates have every name | `Kubeadm` |
| kubeadm join of workers (`roles/kubernetes/kubeadm`, `scale.yml`) | `kubelet.conf`, `config.yaml`, the CA on the worker | discover, join, rescue | a first attempt that timed out and is answered late; two playbooks | a completed run leaves no host behind; every worker joins | `Kubeadm` |
| node removal (`remove-node.yml`) | members, data directories | look the member up, remove it, reset the host | the member id comes from a substring match (`remove-etcd-node/tasks/main.yml:28`); a failed lookup is ignored | acknowledged writes stay | `EtcdRepair` |
| recovery (`recover-control-plane.yml`) | members, data directories, the snapshot | decide on quorum, save, wipe, restore, remove broken members, join | a health that is read once; new hosts that count as unhealthy; a wipe before the restore | a quorum's writes are kept; a copy is always left; it ends | `EtcdRepair`, `DurableStore` |
| kube module (`library/kube.py`) and the applications that use it (`kubernetes-apps`) | API objects, rendered manifests | look up, apply, delete; render, register, skip | check then act; every failure means "does not exist"; what changed is forgotten when a run stops | what a completed run has applied and removed; repeated runs end with what is asked for | `KubeModule` |
| inventory builder (`contrib/inventory_builder`) | an inventory file | add, range, name, delete, load, set groups, write | local variables that outlive an iteration; names that clash; sizes at thresholds | addresses are unique and as asked; groups are deployable and apart | `InventoryBuilder` |
| tokens (`roles/kubernetes/tokens`) | token files | check, generate, sync | as the certificates | copies in sync | planned |
| downloads (`roles/download`) | caches | download, upload, fetch | one host downloads for all | nobody uses a file that is not complete | planned last |
| reset, preflight checks, host preparation, container engines, network plugins, cloud examples | | | sequences on a single host, templates, input and output of other tools | | no |

**Interactions.** The etcd role is included in two plays of `cluster.yml`: the
certificates of the first are what the etcds of `configure.yml` start with, and
the second gives the hosts of the cluster theirs. `upgrade-cluster.yml` runs the
same two plays before its rolling part. The components share no variable, only
what is on the hosts; `etcd_secret_changed` is the one fact that crosses plays
(`control-plane/tasks/pre-upgrade.yml:9`). `recover-control-plane.yml` ends with
`cluster.yml` (`:27`), of whose etcd role `EtcdRepair` has the wait for a healthy
cluster and the two halves of a join, `member add` and start; `EtcdRole` takes the role
apart. `kubeadm upgrade` deploys its own DNS, which the
applications of `KubeModule` find and replace. `kubeadm_already_run`, the existence
of a file that phases of kubeadm write, is what joins the init, the join and the
certificates of `Kubeadm`.

## Modules

| Module | Models | Proofs |
|---|---|---|
| `EtcdRole`, `MCEtcdRole` | `configure.yml`, both join files, `refresh_config.yml`, `etcd.env.j2`, the end of `main.yml`, the handlers | `EtcdRoleProofs` |
| `EtcdCerts`, `MCEtcdCerts` | `check_certs.yml`, `gen_certs_script.yml`, `make-ssl-etcd.sh.j2`, `upd_ca_trust.yml`, the restart in `main.yml` | `EtcdCertsProofs` |
| `ClusterUpgrade`, `MCClusterUpgrade` | the two rolling plays of `upgrade-cluster.yml` | `ClusterUpgradeProofs` |
| `Kubeadm`, `MCKubeadm` | `kubeadm-setup.yml`, `kubeadm-secondary.yml`, `roles/kubernetes/kubeadm`, under `cluster.yml` and `scale.yml` | `KubeadmProofs` |
| `EtcdRepair`, `MCEtcdRepair` | the etcd part of `recover-control-plane.yml` and of `remove-node.yml` | `EtcdRepairProofs` |
| `DurableStore` | what an etcd cluster promises meanwhile: the abstract specification of `EtcdRepair` | |
| `KubeModule`, `MCKubeModule` | `library/kube.py` under `kubernetes-apps/ansible`, `metallb` and the storage classes | `KubeModuleProofs`, `KubeAppliedProofs` |
| `InventoryBuilder`, `MCInventoryBuilder` | `contrib/inventory_builder/inventory.py` | `InventoryBuilderProofs` |

Operators with a suffix (`WriteConfig_AlwaysNew`, `MovedBefore_CALast`, ...) stand
before the definition they vary. They are plausible bugs in it, one for each
property; none of them is part of a specification.

### EtcdRole

`data[h]` is the cluster that h's data directory belongs to, named by the peer
list it was bootstrapped from; `members[c]` is its member list. An etcd with data
rejoins its cluster. One without bootstraps when its file says `new`, and joins
when the file says `existing` and its list is the member list (`StartsIn`). The
template decides between the two from the health check (`etcd.env.j2:5`), and
`CheckHealth` is true only when every member with data answers. `MemberAdd` needs
all members connected (etcd's strict reconfiguration check), which is what turns
an interrupted join into a problem for the next one. Peer lists come from
`RefreshConfig` (all of the group) and `JoinRefreshConfig` (the hosts that have
joined, and this one), as in `configure.yml:40` and `join_etcd_member.yml:16`.

Properties: `OneCluster`, `JoinConfigIsMemberList`, `CompletedRunJoinsAll`,
`EveryHostJoins`, and `NewEtcdFailsToStart`, which states the comment of
`configure.yml:62`.

### EtcdCerts

The first etcd host is the authority. What is in a file is `<<ca, gen>>`: the CA
that signed it and the execution of the script that made it. Hosts are numbers,
in the order of the inventory and of their names, because two orders matter:
that of `mv *.pem` (`admin-`, `ca-key`, `ca`, `member-`, `node-`), one file per
action, and that of a loop that copies files, one per action and host.
`force_etcd_cert_refresh` has either value, fixed for a behaviour. A run is of
`cluster.yml` or of `scale.yml`, whose second play has only `kube_node`.

Only the script ever notifies the handler: `slurp` never reports a change and the
copy to nodes says `changed_when: false`. A `run_once` task notifies for the first
host of its play.

Properties: `IssuedByOneCA`, `CompletedRunCerts`, `CompletedRunInSync`, and
`EtcdRestartedIfCertsChanged`, which states the task name of `main.yml:48` and is
refuted below.

### ClusterUpgrade

Each batch goes through check, cordon, drain, rescue, install, flush, enable,
control plane (masters), post and handlers. A kubelet's binary (`installed`) and
process (`kubelet`) have versions of their own, since the restart is a handler
that may be lost. `needs_cordoning` is decided from two reads of the node at the
start of a batch. A batch is any set of the right size: the inventory's order is
left out. The environment places pods on schedulable nodes, stops and starts
kubelets, and cordons and uncordons nodes for the operator: at any time, also in the
middle of the batch of the node. What he cordons after the run has read the state of
the node (`pre-upgrade/tasks/main.yml:39`) is in `cordoned_late`: the decision is stale,
the end of the batch uncordons such a node (`post-upgrade/tasks/main.yml:6`), and
`OperatorCordonKept` exempts it. `LateCordonKept` does not, and is refuted below. He
does not uncordon a node that the run has to drain; that alone would break
`UpgradesDrainedNodes`. `drain_nodes` is a constant, and `UpgradesDrainedNodes` asks for
empty nodes only where it is set, as it is in the runs (its default).

Properties: `WorkersBehindControlPlane`, `UpgradesDrainedNodes`,
`OperatorCordonKept`, `CompletedRunUpgrades`, `EveryNodeUpgrades`, and three that
are refuted below: `LateCordonKept`, `CompletedRunUncordons` and
`CompletedRunRestartsKubelets`.

### Kubeadm

kubeadm is external and taken apart into its phases, because the roles read the
files that phases write: `configured` is `/var/lib/kubelet/config.yaml`, `manifest`
the manifest of the API server, `kubelet_conf` that of a worker, `cert[m]` the names
in `apiserver.crt`. On the cluster there are the uploaded configuration, the
uploaded certificates, cluster-info and the marks (labels and taints). `ca[h]` is
the number of the CA a host has, and `authorities` how many were ever made. A
command may fail in any phase (`MaxFailures`, or because what it asks the cluster
for is not there) and is repeated as often as the task says; a run stops in any
phase (`MaxAborts`). A kubelet gets its client certificate whenever the API server
answers, also when nobody waits for it (`KubeletBootstraps`): that is the late
answer the rescue of a join may meet. Between runs masters are appended, workers
added, and the first master is moved to the end, as `docs/nodes.md` says.

`cut` remembers that a kubeadm of a master has written `config.yaml` and did not
succeed. The roles never run kubeadm on such a host again, so that its mark, and
whatever init uploads last, may be missing for good. Two properties are therefore
stated for behaviours without it; the others are not.

Properties: `OneCA`, `MarkedServes`, `CompletedRunServes`, `CompletedRunMarks`,
`SansComplete`, `EveryHostJoins`.

### EtcdRepair and DurableStore

A host has a log (`data[h]`: a cluster, and how many of its writes), a majority of
the members that run acknowledges a write, a minority lags behind until it catches
up. A member that has been added has nothing (`fresh`) until a write or `CatchUp`
reaches it. What breaks a host is either its destruction (`Disaster`, `dead`) or the
operator's decision to give it up while it runs (`moved` of `Replace`: a corrupt
database, a failed upgrade), and `Provision` moves both to `broken_etcd`. Of the order
of `groups['etcd']` only the first host matters to the play, so `group` is a set and
`first` one of it.

Each task of the recovery is an action. The health check and its comparison come first.
Without quorum: save, stop, wipe, restore (a new cluster of one member), remove the
snapshot, start; `TransferSnapshot` is the operator who passes the snapshot an
interrupted run has left. With quorum: the data directories of the broken hosts are
removed, under an etcd that may still run (`wiped`: it has its data until it stops, and
votes); then the members that have the *name* of a broken host are listed
(`main.yml:94`, `MemberName`) and removed one by one, where one refusal does not keep
the loop from the rest (`RemovalRefused`). Then `cluster.yml`: the wait for a healthy
cluster, which needs every member that has started (`StartMembers`), and for each new
host `MemberAdd`, whatever its data directory holds, and `StartMember`, which waits for
no data (`join_etcd_member.yml:44`). The task that fails in between leaves the member
added. An etcd a play has stopped (`stopped`) is not restarted by systemd, only by a play
or by hand (`OperatorStarts`). The removal of a node looks its member up, removes it if
the lookup found one, and resets the host in any case.

`DurableStore` has two variables: the number of acknowledged writes, and whether a
majority was destroyed or given up and not recovered since. Writes may go back only by a
`Recover` after a `Disaster`. `EtcdRepair` implements it with `value <- committed[id]`
(`ImplementsStore`): its other actions stutter, and the restore of a cluster that had
quorum is what would break it.

The run `etcd_repair` excludes what the table of refuted properties shows the code to do.
One constant stands for each, so that it can be put back:

| Constant | In the run | What the other value adds |
|---|---|---|
| `MemberName` | every host has its own (`MCNames`), as the doc asks for (`docs/recover-control-plane.md:22`) | the default, `etcd<place in the group>` (`MCPlaces`): the new host has the name of the one whose place it takes |
| `PartOf` | no address is a part of another | the address of a host is found in the line of another member |
| `MayForget` | `FALSE` | an etcd whose directory was removed stops and starts again, without data, as the member it was; a member that was replaced is provisioned again without having been removed |
| `MayStopInRecovery` | `FALSE` | an etcd of the group is down while its health is read |
| `ManyNewHosts` | `FALSE` | more hosts without an etcd in the group than survivors, which outvote them in the comparison |
| `Mixed` | `FALSE` | a node is removed after a host broke, or a recovery starts while a removal is half done |

Properties: `QuorumHasLatest`, `SomeCopyIsLeft`, `CompletedRunRecovers`,
`ImplementsStore`, `RecoveryCompletes`, and three that are refuted below:
`RestoresLostQuorumOnly`, which states `docs/recover-control-plane.md:31`,
`RemovesTargetOnly`, which holds with the names and addresses of the run and not with the
others, and `RemovedIsNoMember`. What the other values of the constants do to the
properties of the run is in the same table.

`RecoveryCompletes` says that something broken leads to a completed recovery, unless the
state is `Stuck`, that is, one of three that no run of the playbook repairs:

* a removal that stopped half way has left a host in the group that is no member and has
  data (`HalfRemoved`): its etcd does not start, and the task fails;
* a member is neither in the group nor broken: the host was removed although its lookup
  got no answer, and the wait for a healthy cluster never ends;
* a member that was added and never started counts as unconnected, and the cluster
  refuses to remove a broken member that runs as long as too few others are connected.

### KubeModule

A call of the module is `exists`, then kubectl object by object; `present` and
`absent` begin with `exists`, whose every failure reads as "does not exist"
(`kube.py:161`), `latest` does not. The play around it removes kubeadm's DNS, then,
application by application, renders files, registers what changed and loops over
them. The three policies are those of the roles: always `latest`
(`kubernetes-apps/ansible/tasks/main.yml:55`), `latest` or `present` by what changed
(`metallb/tasks/main.yml:52`), and nothing unless something changed
(`cinder-csi/tasks/main.yml:19`). An item that fails lets the loop go on and fails it
at its end. Others reconfigure, deploy kubeadm's DNS again and delete objects; the
API server goes away and returns.

No two manifests describe the same object (part of `KubeAssumption`, as in the
templates of these roles): otherwise two applications could undo each other's work.
`touched` are objects others deleted during the run, `missed` what a failed lookup
made the module pass over: `CompletedRunCleans` says that there is no other way to
leave kubeadm's service behind.

Properties: `CompletedRunUpToDate`, `CompletedRunExists`, `CompletedRunCleans`,
`AppliedEventually`.

### InventoryBuilder

One action per argument, because `hostname` and `ip` of `build_hostnames` keep
their values from one argument to the next: a name without an address is looked up
with an address, and added with a name, of an earlier argument, or ends the program
(`BareUnbound`). The dict of hosts keeps the order of insertion (`at`), which the
slices of the groups depend on. `range2ips` is run by expanding a range in the place
where it stands; an invocation has no other state in between that it could touch.
`load_all` returns an iterator over documents, so `ensure_required_groups` always
starts from an empty configuration: that is why the file is no input of any
property here but `AddKeepsHosts`.

Properties: `UniqueAddresses`, `SeparatedAtScale`, `DeployableGroups` (the odd
number of etcds that `0020-verify-settings.yml` asks for, a control plane, no host
without a group), `AddressesAsAsked` (the reference definition: the addresses whose
last mention is not a deletion, for commands whose names cannot clash).

## Runs

| Run | Checks | Bounds, and why they are enough |
|---|---|---|
| `etcd_scale` | types, one cluster, peer lists, completed runs | three members become five: two joins, which is the least where the second depends on the first; two interrupted runs and two crashes, so that a repair can be interrupted too |
| `etcd_fresh` | one cluster, completed runs | a first deployment of three; checks that fail by accident, etcds that die; `member add` of etcd-events |
| `etcd_join` | every host joins | three become four; an interrupted run and a crash |
| `etcd_scale_down` | refutes `NewEtcdFailsToStart` | one member down |
| `certs_sync` | types, one CA, usable pairs, sync | one etcd host and one node become two etcd hosts, one of them a node, and one node of its own: a host of every kind; three runs of up to two executions of the script: one that is interrupted, one that is interrupted repairing it, one that completes. It may stop for good after its last run, hence no deadlock check |
| `upgrade_rolling` | types, order of versions, drained nodes, the operator's cordons, completed runs | two masters (a serial play of two batches), two workers in one batch (one can fail its drain while the other has not), an operator who cordons one of them at any time, an aborted run |
| `upgrade_live` | every node upgrades | two releases, two batches of workers, an overridden host name, reads that may fail |
| `kubeadm` | types, one CA, what serves, what completed runs have done, names, every host joins | two masters and a third that is added, so that a join follows a join; the first may become the last; one worker; one retry; three failures (two exhaust a command, one more fails its repetition) and two interrupted runs |
| `kube_module` | types, up to date, exists, cleans, applied eventually | one application of each policy, one with a manifest of two objects; an outage, an interrupted run, a change by others, two versions |
| `inventory_build` | types, addresses, groups | every command of up to three of fourteen arguments, chosen so that ranges, names and deletions meet; thresholds at four and five hosts; two files to load. It stops after its invocation, hence no deadlock check |
| `etcd_repair` | types, quorum and copies, completed recoveries, the refinement, that recoveries complete | three etcds, of which two break, destroyed or given up, in any order; a host to replace one (a founder may be provisioned again once it is no member); a write, so that a minority may have missed one; one etcd that stops, one interrupted run, two restored clusters, removals down to two hosts: an interrupted run and its repetition, with something breaking in between, is the least that reaches the hazards listed. With everything used up it may stop, hence no deadlock check |
| `etcd_restore_again` | refutes `RestoresLostQuorumOnly` | the same with two new hosts for one survivor (`ManyNewHosts`) |

In the passing etcd runs that grow a cluster etcds do not die while a host waits to
be joined (`EtcdMayBeDown`) and health checks do not fail by accident
(`FlakyChecks`): without these two assumptions the code does what
`etcd_scale_down` shows. Hosts are symmetric within the first members and within
the new ones; symmetry is used for safety only.

### What the refuted properties show

Two are runs, and findings in `PROJECT.json`:

* `etcd_scale_down`: the health check fails as soon as one member is down. The
  template then writes `new` for hosts that are being added and they bootstrap a
  cluster of their own, where the comment says that new etcds fail to start.
* `etcd_restore_again`: `has_quorum` compares healthy with unhealthy endpoints of the
  group, and new hosts, which have no etcd yet, are unhealthy. Two of three etcds break, two
  hosts replace them, the third is restored, and the run is interrupted before the new
  hosts join: the next run finds one healthy endpoint and two that are not, and restores
  the serving cluster once more from a snapshot. What is acknowledged between the snapshot
  and the stop is gone. The same happens, with `Mixed`, where hosts that a removal has left
  half way count as unhealthy.

The others are stated in the modules and refuted by TLC with the instance given
here; each takes a line in a `.cfg` of the run named:

| Property | Refuted by | Why |
|---|---|---|
| `EtcdRole!CompletedRunJoinsAll` | `etcd_scale`, `MatchedBy <- PartOfAnother` | membership is `grep -q <address>` on the member list: a host at 10.0.0.1 counts as a member when 10.0.0.10 is one |
| `EtcdRole!EveryHostJoins` | `etcd_join` with three hosts that become five | a run that stops right after `member add` leaves a member that is listed and not started; later runs write the whole group's list for it, which etcd refuses while another host is not a member, and that host's `member add` is refused while a member is not connected |
| `EtcdCerts!EtcdRestartedIfCertsChanged` | `certs_sync` | `etcd_secret_changed` is reset when the role begins and set by a handler when the play ends, so the restart never happens. (An etcd that reads its pair at every handshake does without it; the trusted CA is then still the one it started with.) |
| `ClusterUpgrade!CompletedRunUncordons` | `upgrade_rolling` | a drain that fails ends the run for the other hosts of the batch, which stay cordoned; the next run takes them for the operator's |
| `ClusterUpgrade!CompletedRunRestartsKubelets` | `upgrade_rolling` | the restart of a worker's kubelet is a handler; a run aborted before the flush has replaced the binary, and the next run notifies nothing |
| `ClusterUpgrade!LateCordonKept` | `upgrade_rolling` | the operator cordons a node after the run has read that it is schedulable; the end of the batch, or the rescue of its drain, uncordons it |
| `EtcdRepair!RemovesTargetOnly` | `etcd_repair`, `MemberName <- MCPlaces` | a broken member is known by its name (`main.yml:94`), by default `etcd<place in the group>` (`kubespray-defaults/defaults/main.yaml`): where a broken host and a member of the group have the same name, as the host that took its place has after an interrupted join, the run removes a member that serves |
| `EtcdRepair!RemovesTargetOnly` | `etcd_repair`, `PartOf <- MCPart` and `Mixed = TRUE` | the member to remove is found by `grep`: a new host that has not joined is removed again, and its address is a part of that of `e1` |
| `EtcdRepair!RemovedIsNoMember` | `etcd_repair` | an etcd stops before the lookup, which gets no answer and is ignored (`remove-etcd-node/tasks/main.yml:30`): the host is reset and stays a member for good |
| `EtcdRepair!QuorumHasLatest` | `etcd_repair`, `MayForget = TRUE` | the directory of a broken host is removed under its etcd, which restarts without data as the member it was; the run is interrupted before the member is removed, another host is destroyed, and the one that has forgotten makes up the majority |
| `EtcdRepair!RecoveryCompletes` | `etcd_repair`, `MemberName <- MCPlaces` | every run removes the new member again |
| `EtcdRepair!RecoveryCompletes` | `etcd_repair`, without the fairness of `OperatorStarts` | a run that is interrupted between the removal of the snapshot and the start (`recover_lost_quorum.yml:37` to `:58`) leaves the etcd stopped and no snapshot: the next one fails at its first task, until somebody starts the etcd by hand |
| `EtcdRepair!ImplementsStore` | `etcd_repair`, `MayStopInRecovery = TRUE`, or `Mixed = TRUE`, or `ManyNewHosts = TRUE` with `MCHosts` | the comparison of the health check counts an etcd that restarts, a host that is half removed, or new hosts, as etcds that are lost |
| `InventoryBuilder!AddKeepsHosts` | `inventory_build`, `MaxRuns = 2` | the configuration that is there is never read (`inventory.py:88`), so "Add another host after initial creation" (`:399`) leaves that host alone in the file |

Of the same root, and not runs of their own: with `kube_override_hostname` the
rescue uncordons a name kubectl does not know (`pre-upgrade/tasks/main.yml:87`);
a `kubectl get node` that fails reads as "schedulable" (`:36`), so that a node the
operator has cordoned may be uncordoned; a node that was cordoned and not drained
by an aborted run is upgraded under its pods (`:54`); an etcd that grows from one
member has lost its quorum between `member add` and the start of the new member;
a script killed between the moves of `ca-key.pem` and `ca.pem` fails ever
after (`make-ssl-etcd.sh.j2:63`); and a master whose init or join was cut off after
`config.yaml` is never joined again (`kubeadm-setup.yml:13`). The models contain all of
these behaviours.

## Fairness

Safety is checked under `Spec`, without fairness. `FairSpec` of `EtcdRole` assumes
that Ansible goes on with the run it executes (weak fairness of the controller as
a whole: it is one process), that systemd restarts a failed unit
(`Restart=always`, `etcd-host.service.j2:11`), and that a run that failed is
repeated. Runs are interrupted and etcds die finitely often (`MaxInterrupts`,
`MaxCrashes`). `FairSpec` of `ClusterUpgrade` assumes the same of its run and of
failed runs, and that the operator asks for the next version whenever that is
possible again and again (strong fairness: the guard is disabled during a run).
A kubelet that stopped need not start by itself, nor an operator uncordon.
`FairSpec` of `Kubeadm` assumes that a run goes on, that a kubelet which can get its
certificate does (it asks again and again), and that `cluster.yml` is run again as
long as it has not completed; strong fairness, because `scale.yml`, which does not
count, and edits of the inventory may disable it again and again. `KubeModule` assumes
that a run goes on, an outage ends and the operator runs the playbook again;
`EtcdRepair` the same of its two playbooks, that systemd restarts an etcd that no play has
stopped, that the operator replaces what is destroyed, and that he starts by hand, at some
time between runs, an etcd that an interrupted run has left stopped. The last two are strong
fairness where runs disable them again and again, and without the last one
`RecoveryCompletes` is refuted (see above). Nothing is assumed of writes, of members that
lag behind, or of changes by others.

## Proofs

TLAPS proves the following for every value of the constants that satisfies the
modules' assumptions: sets of hosts and nodes of any size, any inventories, any
bounds on failures.

| Theorem | Statement | Assumption | Argument |
|---|---|---|---|
| `TypeCorrect` | `EtcdRole!TypeOK` | | inductive by itself |
| `ClusterStaysOne` | `OneCluster` | at least three members at first, `~EtcdMayBeDown`, `~FlakyChecks` | `StaysOne`: at most one member is not started, so a cluster of three keeps its quorum; a run that has a host to join therefore finds it healthy (`ScalingIsHealthy`); so no host without data has a file that says `new` (`NoBootstrap`) |
| `PeersAreMembers` | `JoinConfigIsMemberList` | those of `ClusterStaysOne`, and no address is a part of another one | `JInv`, see below |
| `CompletedMeansJoined` | `CompletedRunJoinsAll` | the same | `JInv` |
| `CertsTypeCorrect` | `EtcdCerts!TypeOK` | | with `Counted`: the script is executed at most once per play, which bounds its executions |
| `OneCA` (`EtcdCertsProofs`) | `IssuedByOneCA` | | `SignedInv`, see below |
| `CompletedRunsCertify` | `CompletedRunCerts` | | `MadeInv` and `CopyInv`, see below, with `SignedInv` for who signed it |
| `CompletedRunsSync` | `CompletedRunInSync` | none but its own: what is made again is not in sync before the second play | `CopyInv` |
| `UpgradeTypeCorrect` | `ClusterUpgrade!TypeOK` | | with the shape of batches |
| `MastersFirst` | `WorkersBehindControlPlane` | | `Ordered` and `Progress`: a worker is in a batch only after the control plane's plays, and what a run has done is what the version it was asked for says |
| `CompletedMeansUpgraded` | `CompletedRunUpgrades` | | the same: what is in no batch any more has been upgraded |
| `OperatorCordonSafe` | `OperatorCordonKept` | `~KubectlMayFail` | `Cordons`: a node that needs cordoning was schedulable when its state was read, so one that is also the operator's he has cordoned since (`cordoned_late`); the rescue and the end of the batch touch no other |
| `DrainedBeforeUpgrade` | `UpgradesDrainedNodes` | `upgrade_node_fail_if_drain_fails`, the default | `Drains`: what the drain has emptied stays cordoned, so no pod comes back, and a drain that has failed ends the run after the rescue |
| `KubeadmTypeCorrect` | `Kubeadm!TypeOK` | | part of `IInv`, see below |
| `OneAuthority` | `Kubeadm!OneCA` | | `Authority`: the first master has the one CA, every other host has it or none. It stands the change of order only with `Progress`: the order changes after a completed run, when the next first master has the CA too |
| `JoinedMastersServe` | `MarkedServes` | | `Marked`: a join is asked of no master that is marked, for those have `config.yaml` and were found |
| `CompletedRunsServe` | `CompletedRunServes` | | `Files` and `Progress` |
| `CompletedRunsMark` | `CompletedRunMarks` | none but its own: no kubeadm was cut off | `Marked` |
| `SansAreComplete` | `SansComplete` | | `Sans`: what is not among those that renew has every name, and after the removal each of those makes a certificate before the play goes on |
| `ModuleTypeCorrect` | `KubeModule!TypeOK` | | with what a call of an application looks like |
| `CompletedRunsClean` | `CompletedRunCleans` | no manifest makes the service of kubeadm | `Cleaning`: from its deletion on the service is gone or missed, and no call after it touches it |
| `CompletedRunsExist` | `CompletedRunExists` | | `AInv`, see below |
| `CompletedRunsUpToDate` | `CompletedRunUpToDate` | none but its own: what changes are looked at promises nothing after an interrupted run or an outage | `AInv` |
| `BuilderTypeCorrect` | `InventoryBuilder!TypeOK` | | inductive with `Command` |
| `AddressesUnique` | `UniqueAddresses` | | lemma `InsertUnique`: an address that no host has may be given to any name, also to one that is there |
| `ScaleSeparates` | `SeparatedAtScale` | | the groups are empty when a command begins (`Command`), so `SetGroups` alone decides; slices of one order do not overlap |
| `GroupsAreDeployable` | `DeployableGroups` | its own: a threshold of more than three hosts and one master at least, for the control plane | `Stamped`: names are inserted at different times and every part of the dict has a first one, so a slice of one or three has that many (`FirstIsBeginning`) |
| `AskedAddressesOnly` | `AddressesAsAsked` | its own: names that cannot clash | `Asked`, see below |
| `RepairTypeCorrect` | `EtcdRepair!TypeOK` | | `Types`: no broken or destroyed host in the group while a play runs, the first host is not the one that is removed |
| `CopyIsLeft` | `SomeCopyIsLeft` | | `Copies`, task by task: only broken hosts are wiped under a running etcd; from the save to the start either the first host or the snapshot has the data; a destroyed first host only between runs, with a survivor in the group |
| `MajorityHasLatest` | `QuorumHasLatest` | `~MayForget` | `Latest`, see below |
| `RecoveryRecovers` | `CompletedRunRecovers` | none, also with the default names | `Roster`: a broken member has started, so its name is in the list and it is `listed`, maybe with others; what is left after the removals is no broken one, and at most one member was added without having started |
| `OnlyTargetRemoved` | `RemovesTargetOnly` | `PartOf = {}`, and no two hosts have the same `etcd_member_name` | `ListedRemovable` |

The invariant of `Kubeadm` is a chain. Which files a phase can rely on (`LeftBehind`:
a command that is at `mark` has a manifest and a `config.yaml`; a master that joins
and has `config.yaml` has its manifest, since join writes it last, while init writes
it first) is what makes the test of `kubeadm_already_run` mean something. From it
`Progress` follows, what every task of a run has reached; the mutant that looks for
the manifest instead (`StartCluster_ManifestStat`) breaks exactly this link. That the
first master needs a case of its own runs through all of it: init and join have their
phases in different orders.

`OneCA` of the etcd certificates is the one whose invariant is least obvious. "Everything is signed by the
first host's CA" is not inductive, because the script may be killed after it moved
the admins' pairs and before it moved the CA, and the next execution makes another
CA. What saves it is the order of the names: with no CA in place the first host
has nothing but pairs of admins and maybe the CA's key (`FirstSigned`); each such
admin lacks its member pair, so the next execution makes both again (`Decided`);
it moves them before its CA (`Moving`, lemma `MoveOrder`); and no other host gets
anything before the first one has a CA (`OthersSigned`).

What a completed run says of the certificates rests on two more invariants. `MadeInv`
is about the first host: what the script has moved is of one execution (`Moved`), and
where only missing files are made, the certificate of a host that is moved last says
that the other files of that host are there and whole (`Finished`), since the order of
the names puts it last; that is why the test for missing files is enough after the
script was killed. `CopyInv` follows the copies task by task: a host that `sync_certs`
passes over has what the first host has, and the script does not touch it
(`Unsynced`); of the others, what is not left to copy is equal (`Copies`); etcd hosts
that are in no second play keep what the first one brought (`FirstPlay`).

`JInv` is what a scaling run knows. Every etcd that has data is running until the run
itself reloads it (`ScalingIsUp`); so the lookup answers, and `etcd_member_in_cluster`
is the member list, but for the one host that has been added since (`MembersKnown`);
so the peer list rendered for that host is the list etcd has, and the last refresh
writes that of the whole group (`Configured`). All of it needs `StaysOne`, which rules
out a second cluster that would answer instead.

`AInv` of `KubeModule` says of each file what its loop has done: the items before the
one in progress are kept (`Promised`), the objects before the one kubectl is at are in
place (`ItemCall`), and a file that no change is registered for was applied by an earlier
run if none has been interrupted (`Steady`). Deletions by others and the removal of
kubeadm's objects are kept apart (`Made`).

`Asked` avoids an induction over the arguments by saying what those that are left will
do: an address is asked for by the whole command if and only if the rest of it mentions
it (and does not delete it afterwards), or some host has it and the rest does not
delete it (`Amounts`). Each iteration keeps this (`ListFacts`, one argument at a time),
and a range is the same as its first address followed by the rest of the range. The
assumption on names is kept as `NamesLeft`.

`QuorumHasLatest` speaks of the members that run, which is not inductive: who runs
changes with every restart. `Latest` says it of every majority of the hosts that hold
data of the cluster, up or not, together with the member that was added and starts
without data (`Unstarted`): such a majority has, on one that does hold data, the last
write. A write keeps it because two majorities intersect. So do the removal and the
addition of a member, because a majority of the members before and one of those after
have a member in common: the change itself is a log entry, which the quorum that
acknowledges it gets with all that came before (`RemoveMember`, `MemberAdd`). The start
of a member without data keeps it because it was counted from its addition on: nothing
waits for its data, and nothing has to. A wipe only takes holders away, as long as an
etcd that was wiped does not come back as the member it was (`~MayForget`; the mutant
`RemoveBrokenData_Restarted`). That at most one member is unstarted is in `Roster`, and
is why the addition asks for all members to be connected.

`ImplementsStore` is model-checked only. That a restore happens only after a majority is
lost is false for the code (`RestoresLostQuorumOnly`), and what makes it true in the run
(`Mixed`, `ManyNewHosts`, `MayStopInRecovery`) does not make it true for every number of
hosts; a theorem would have to assume what it is to show.

The strengthened invariants were model-checked before they were proved. Every safety
invariant that a passing run checks is stated by a theorem; what the assumptions in
the table exclude is what the refuted properties above show, or is left to TLC.
Liveness (`EveryHostJoins` of two modules, `EveryNodeUpgrades`, `AppliedEventually`,
`RecoveryCompletes`) is model-checked only: fairness and ENABLED are outside what the
provers decide here.

## Not modelled, and why

* Of `roles/etcd`: the installation of binaries, modes and owners of files,
  the docker variant of the unit, backups as data (only whether one can be taken).
* Of the upgrade: the container engine and the network plugin, which the same
  plays run, the preparation plays before them, `--limit`, calico_rr as a play of
  its own (its hosts count as hosts of the cluster for the certificates).
* Groups only grow in `EtcdRole`, `EtcdCerts` and `Kubeadm`; hosts leave in `EtcdRepair`.
* Of kubeadm: hard-coded tokens and their expiry (a run creates the token it uses),
  encryption keys at rest, backups of files, taints, a load balancer in front of the
  API servers, `etcd_kubeadm_enabled`. The play between init and the join of the
  workers does nothing else that they read.
* Of the recovery: the removal of broken masters from the API, the deletion of old
  certificates, `recover_control_plane/post-recover`. Of the removal: the drain before
  it and the deletion of the node object after it, which kubectl does.
* Of `EtcdRepair`: names are fixed for a behaviour, while the default ones change with the
  order of the group; the file that says `new` in a group whose etcds are down, which is
  the subject of `EtcdRole`; a member list that is repaired by hand.
* Of `EtcdRole`: which host is first in the group. The snapshot that the handlers take
  (`backup.yml:56`) is of the first endpoint only: it may succeed as soon as some etcd of
  the group runs, and fail as soon as one does not serve. A notified restart that is lost
  with a run is in the model; what it costs, an etcd whose environment is not that of its
  file, is not, since an etcd with data does not read it.
* Of the upgrade: the failure that `kubeadm-upgrade.yml:27` tolerates, 'field is immutable'.
  It comes from the addons, after the control plane has been upgraded, and is taken as a
  success of the task.
* Of `kube.py`: `stopped`, a command kubectl no longer has and no task uses. `reloaded`
  runs what `latest` runs. Of `inventory.py`: `USE_REAL_HOSTNAME`, which asks hosts for
  their names, `access_ip`, and the print commands, which change nothing.
* Most of the Python of the repository is not its own logic. `get-pip.py` (24312 lines)
  is a vendored archive. `contrib/terraform/terraform.py` and
  `contrib/aws_inventory/kubespray-aws-inventory.py` translate the output of other tools
  into an inventory and keep no state; `scripts/openstack-cleanup/main.py`,
  `scripts/gitlab-branch-cleanup/main.py` and `scripts/download_hash.py` are helpers of
  the project's continuous integration and releases: they list and delete, or print
  checksums, one after the other. The two Python programs that have state and
  decisions, `inventory.py` and `kube.py`, are modelled; the program itself is the
  YAML of the playbooks.
* The components marked planned or "no" in the inventory above.

## Plan

Done: `EtcdRole`, `ClusterUpgrade`, `EtcdCerts`, `Kubeadm`, `EtcdRepair` with
`DurableStore`, `KubeModule`, `InventoryBuilder`, each with its proofs. Next:

1. Proofs: `CompletedMeansJoined` with etcds that die while hosts join, as far as it
   holds (`EtcdMayBeDown`); the theorems on `EtcdRole` for a first deployment of less than
   three hosts.
2. `ClusterUpgrade` with the container engine, whose restart is another handler of the
   same plays.
3. `Tokens`, small, with the gather and sync of the certificates; `Download`, the
   `run_once` cache between hosts.
