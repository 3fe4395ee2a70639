------------------------------ MODULE EtcdRole ------------------------------
(***************************************************************************)
(* The etcd role of the playbooks (roles/etcd) as it forms, grows and       *)
(* reconfigures the etcd cluster of the inventory group "etcd".             *)
(*                                                                          *)
(* One controller runs the play "hosts: etcd" with the linear strategy: a   *)
(* task is applied to every host of the group (todo holds the hosts it has  *)
(* not reached yet) before the next task starts.  pc names the task.  The   *)
(* controller can be interrupted anywhere, a failed task aborts the whole   *)
(* play (any_errors_fatal), and the play can be run again: what survives a  *)
(* run is the state of the hosts, never the registered results.             *)
(*                                                                          *)
(* etcd and systemd are external.  Modelled of them: a member's data        *)
(* directory ties it to the cluster it was bootstrapped with or joined; a   *)
(* cluster is identified by the peer list it was bootstrapped from; adding  *)
(* a member requires every current member to be connected                   *)
(* (strict-reconfig-check); "existing" requires the configured peer list to *)
(* be the member list; "new" bootstraps; systemd restarts a failed etcd     *)
(* with whatever configuration file is there (Restart=always).              *)
(***************************************************************************)
EXTENDS Integers, FiniteSets

CONSTANTS
  Host,              \* hosts that are, or may become, members of group "etcd"
  InitMembers,       \* members of the cluster that exists at first; {}: none
  Inventories,       \* the values the operator may give to groups['etcd']
  TolerateExists,    \* TRUE: etcd, 'Peer URLs already exists' is tolerated
                     \* FALSE: etcd-events, it is not
  MatchedBy,         \* MatchedBy[h]: hosts whose address contains that of h
  FlakyChecks,       \* etcdctl may fail although the cluster serves
  EtcdMayBeDown,     \* an etcd may be down while a new host waits to join
  MaxInterrupts,     \* bound on interrupted runs
  MaxCrashes         \* bound on etcd processes that die

VARIABLES
  \* state of the hosts, which survives a run
  data,       \* data[h]: identity of the cluster of h's data dir; {}: empty
  members,    \* members[c]: member list of the cluster with identity c
  up,         \* hosts whose etcd process runs
  active,     \* hosts whose etcd unit has been started and enabled
  initial_cluster_state, \* ETCD_INITIAL_CLUSTER_STATE in /etc/etcd.env
  initial_cluster,       \* ETCD_INITIAL_CLUSTER in /etc/etcd.env
  \* the operator and the controller
  etcd_group, \* groups['etcd']
  completed,  \* the last run ended without an error
  \* the run
  pc,         \* the task
  todo,       \* hosts the task has not been applied to yet
  joining,    \* the host join_etcd_member.yml is included for: {} or {h}
  etcd_cluster_is_healthy, \* the registered rc is 0
  etcd_member_in_cluster,  \* hosts whose registered rc is 0
  notified,   \* hosts that notified handler "restart etcd"
  \* bounds
  interrupts, crashes

hostVars == <<data, members, up, active>>
fileVars == <<initial_cluster_state, initial_cluster>>
runVars  == <<pc, todo, joining, etcd_cluster_is_healthy,
              etcd_member_in_cluster, notified>>
opVars   == <<etcd_group, completed>>
bounds   == <<interrupts, crashes>>
vars     == <<hostVars, fileVars, runVars, opVars, bounds>>

Cluster == SUBSET Host
Tasks == {"idle", "check", "refresh", "start", "wait", "in_cluster", "join",
          "join_refresh", "join_ensure", "join_start", "main_refresh",
          "handlers", "reload", "wait_up"}

ASSUME RoleAssumption ==
  /\ IsFiniteSet(Host)
  /\ InitMembers \in SUBSET Host
  /\ Inventories \subseteq SUBSET Host
  /\ MatchedBy \in [Host -> SUBSET Host]
  /\ TolerateExists \in BOOLEAN /\ FlakyChecks \in BOOLEAN
  /\ EtcdMayBeDown \in BOOLEAN
  /\ MaxInterrupts \in Nat /\ MaxCrashes \in Nat

-----------------------------------------------------------------------------
(* etcd *)

Connected(c) == {m \in members[c] : m \in up /\ data[m] = c}
Serving(c) == c # {} /\ 2 * Cardinality(Connected(c)) > Cardinality(members[c])

\* etcdctl endpoint --cluster status && ... health: answered by a quorum, and
\* every member that has published its client URLs answers.
Healthy(c) ==
  /\ Serving(c)
  /\ \A h \in Host : data[h] = c => h \in up

\* The clusters an etcd on h that starts now would be a member of.
StartsIn(h) ==
  IF data[h] # {} THEN {data[h]}
  ELSE CASE initial_cluster_state[h] = "new" -> {initial_cluster[h]}
         [] initial_cluster_state[h] = "existing" ->
              {c \in Cluster :
                 /\ members[c] = initial_cluster[h]
                 /\ \E p \in Connected(c) : p # h}
         [] OTHER -> {}

Start(h, c) == /\ c \in StartsIn(h)
               /\ data' = [data EXCEPT ![h] = c]
               /\ up' = up \cup {h}

\* systemd starts the etcd of an enabled unit again.
EtcdRestarts(h) ==
  /\ h \in active \ up
  /\ \E c \in StartsIn(h) : Start(h, c)
  /\ UNCHANGED <<members, active, fileVars, runVars, opVars, bounds>>

\* systemd has started every etcd it can (RestartSec is 10s or 15s).
Settled == \A h \in active \ up : StartsIn(h) = {}

\* Some host of the inventory has not been started as a member yet.
Scaling == \E h \in etcd_group : data[h] = {}

EtcdCrashes(h) ==
  /\ h \in up
  /\ crashes < MaxCrashes
  /\ EtcdMayBeDown \/ ~Scaling
  /\ up' = up \ {h}
  /\ crashes' = crashes + 1
  /\ UNCHANGED <<data, members, active, fileVars, runVars, opVars, interrupts>>

-----------------------------------------------------------------------------
(* The play *)

\* The task is applied to h; after the last host the next task begins.
AppliedTo(h, next, hosts) ==
  /\ h \in todo
  /\ IF todo = {h} THEN pc' = next /\ todo' = hosts
                   ELSE pc' = pc /\ todo' = todo \ {h}

EndRun(ok) ==
  /\ pc' = "idle"
  /\ completed' = ok
  /\ todo' = {} /\ joining' = {} /\ notified' = {}
  /\ etcd_cluster_is_healthy' = FALSE
  /\ etcd_member_in_cluster' = {}

Init ==
  /\ data = [h \in Host |-> IF h \in InitMembers THEN InitMembers ELSE {}]
  /\ members = [c \in Cluster |-> c]
  /\ up = InitMembers
  /\ active = InitMembers
  /\ initial_cluster_state =
       [h \in Host |-> IF h \in InitMembers THEN "existing" ELSE "none"]
  /\ initial_cluster =
       [h \in Host |-> IF h \in InitMembers THEN InitMembers ELSE {}]
  /\ etcd_group = InitMembers
  /\ completed = TRUE
  /\ pc = "idle"
  /\ todo = {} /\ joining = {} /\ notified = {}
  /\ etcd_cluster_is_healthy = FALSE
  /\ etcd_member_in_cluster = {}
  /\ interrupts = 0 /\ crashes = 0

\* The operator runs cluster.yml, with the same inventory or, after a run that
\* completed, with more etcd hosts.  The plays before this one take longer than
\* systemd needs to restart an etcd.
StartRun(group) ==
  /\ pc = "idle"
  /\ etcd_group \subseteq group /\ group # {}
  /\ group # etcd_group => completed
  /\ EtcdMayBeDown \/ Settled
  /\ etcd_group' = group
  /\ completed' = FALSE
  /\ pc' = "check"
  /\ UNCHANGED <<todo, joining, etcd_cluster_is_healthy, etcd_member_in_cluster,
                 notified, hostVars, fileVars, bounds>>

\* The result of the health check on the endpoints of the inventory: an etcd
\* of another cluster behind an endpoint may be the one that answers.
CheckResult(ok) ==
  IF ok THEN \E c \in Cluster : Healthy(c)
  ELSE \/ FlakyChecks
       \/ \A c \in Cluster : ~Healthy(c)
       \/ \E g, h \in up : data[g] # data[h]

\* Configure | Check if etcd cluster is healthy
CheckHealth(ok) ==
  /\ pc = "check"
  /\ CheckResult(ok)
  /\ etcd_cluster_is_healthy' = ok
  /\ pc' = "refresh"
  /\ todo' = etcd_group
  /\ UNCHANGED <<joining, etcd_member_in_cluster, notified, hostVars, fileVars,
                 opVars, bounds>>

\* Always bootstraps.
WriteConfig_AlwaysNew(h, peers) ==
  /\ initial_cluster_state' = [initial_cluster_state EXCEPT ![h] = "new"]
  /\ initial_cluster' = [initial_cluster EXCEPT ![h] = peers]
  /\ notified' =
       IF fileVars' = fileVars THEN notified ELSE notified \cup {h}

\* etcd.env.j2; the template task notifies "restart etcd" if the file changes.
WriteConfig(h, peers) ==
  /\ initial_cluster_state' = [initial_cluster_state EXCEPT ![h] =
       IF etcd_cluster_is_healthy THEN "existing" ELSE "new"]
  /\ initial_cluster' = [initial_cluster EXCEPT ![h] = peers]
  /\ notified' =
       IF fileVars' = fileVars THEN notified ELSE notified \cup {h}

\* Lists the hosts whose etcd runs already.
RefreshConfig_RunningPeers(h) ==
  /\ pc = "refresh"
  /\ WriteConfig(h, {g \in etcd_group : g = h \/ g \in up})
  /\ AppliedTo(h, "start", etcd_group)
  /\ UNCHANGED <<joining, etcd_cluster_is_healthy, etcd_member_in_cluster,
                 hostVars, opVars, bounds>>

\* refresh_config.yml, included by configure.yml
RefreshConfig(h) ==
  /\ pc = "refresh"
  /\ WriteConfig(h, etcd_group)
  /\ AppliedTo(h, "start", etcd_group)
  /\ UNCHANGED <<joining, etcd_cluster_is_healthy, etcd_member_in_cluster,
                 hostVars, opVars, bounds>>

\* Forgets to enable the unit.
StartService_NotEnabled(h) ==
  /\ active' = active
  /\ \/ h \in active /\ UNCHANGED <<data, up>>
     \/ h \notin active /\ StartsIn(h) = {} /\ UNCHANGED <<data, up>>
     \/ h \notin active /\ \E c \in StartsIn(h) : Start(h, c)

\* service: state=started, enabled=yes.  A unit that keeps failing and being
\* restarted is "activating", which counts as started.  A first start fails
\* only with "existing" in the file, which is when the error is ignored.
StartService(h) ==
  /\ active' = active \cup {h}
  /\ \/ h \in active /\ UNCHANGED <<data, up>>
     \/ h \notin active /\ StartsIn(h) = {} /\ etcd_cluster_is_healthy
        /\ UNCHANGED <<data, up>>
     \/ h \notin active /\ \E c \in StartsIn(h) : Start(h, c)

\* Configure | Ensure etcd is running
EnsureEtcdIsRunning(h) ==
  /\ pc = "start"
  /\ StartService(h)
  /\ AppliedTo(h, "wait", {})
  /\ UNCHANGED <<members, joining, etcd_cluster_is_healthy,
                 etcd_member_in_cluster, notified, fileVars, opVars, bounds>>

\* Configure | Wait for etcd cluster to be healthy
WaitForEtcdCluster ==
  /\ pc = "wait"
  /\ CheckResult(TRUE)
  /\ etcd_cluster_is_healthy' = TRUE
  /\ pc' = "in_cluster"
  /\ UNCHANGED <<todo, joining, etcd_member_in_cluster, notified, hostVars,
                 fileVars, opVars, bounds>>

\* etcdctl member list | grep <address of h>, answered by cluster c
Listed(h, c) == Serving(c) /\ MatchedBy[h] \cap members[c] # {}

\* Joins the hosts that are in the cluster.
CheckMember_Inverted ==
  /\ pc = "in_cluster"
  /\ \E c \in Cluster :
       LET found == {h \in etcd_group : Listed(h, c)} IN
         /\ Serving(c)
         /\ etcd_member_in_cluster' = found
         /\ todo' = found
  /\ pc' = "join"
  /\ UNCHANGED <<joining, etcd_cluster_is_healthy, notified, hostVars, fileVars,
                 opVars, bounds>>

\* Configure | Check if member is in etcd cluster; the hosts it says no for
\* are those the next task, "Join member(s) to etcd cluster one at a time",
\* loops over.
CheckMember ==
  /\ pc = "in_cluster"
  /\ \E found \in SUBSET etcd_group :
       /\ \E c \in Cluster :
            LET listed == {h \in etcd_group : Listed(h, c)} IN
              /\ Serving(c) \/ \A d \in Cluster : ~Serving(d)
              /\ found \subseteq listed
              /\ FlakyChecks \/ found = listed
       /\ etcd_member_in_cluster' = found
       /\ todo' = etcd_group \ found
  /\ pc' = "join"
  /\ UNCHANGED <<joining, etcd_cluster_is_healthy, notified, hostVars, fileVars,
                 opVars, bounds>>

\* etcdctl member add on a member fails with 'Peer URLs already exists', which
\* join_etcd-events_member.yml does not tolerate; etcd accepts a new member only
\* when all the members it has are connected.
AddSucceeds(h, c) ==
  /\ Serving(c)
  /\ IF h \in members[c] THEN TolerateExists ELSE Connected(c) = members[c]

\* Join Member | Add member to etcd cluster
MemberAdd(h, c) ==
  /\ pc = "join" /\ joining = {}
  /\ h \in todo
  /\ AddSucceeds(h, c)
  /\ members' = [members EXCEPT ![c] = @ \cup {h}]
  /\ joining' = {h}
  /\ pc' = "join_refresh"
  /\ UNCHANGED <<todo, etcd_cluster_is_healthy, etcd_member_in_cluster,
                 notified, data, up, active, fileVars, opVars, bounds>>

\* Renders the peer list of the group, as the other inclusions do.
JoinRefreshConfig_WholeGroup(h) ==
  /\ pc = "join_refresh" /\ h \in joining
  /\ WriteConfig(h, etcd_group)
  /\ pc' = "join_ensure"
  /\ UNCHANGED <<todo, joining, etcd_cluster_is_healthy, etcd_member_in_cluster,
                 hostVars, opVars, bounds>>

\* refresh_config.yml with the peer list of join_etcd_member.yml
JoinRefreshConfig(h) ==
  /\ pc = "join_refresh" /\ h \in joining
  /\ WriteConfig(h, (etcd_group \cap etcd_member_in_cluster) \cup {h})
  /\ pc' = "join_ensure"
  /\ UNCHANGED <<todo, joining, etcd_cluster_is_healthy, etcd_member_in_cluster,
                 hostVars, opVars, bounds>>

\* Join Member | Ensure member is in etcd cluster
EnsureMember(h) ==
  /\ pc = "join_ensure" /\ h \in joining
  /\ \E c \in Cluster : Listed(h, c)
  /\ etcd_member_in_cluster' = etcd_member_in_cluster \cup {h}
  /\ pc' = "join_start"
  /\ UNCHANGED <<todo, joining, etcd_cluster_is_healthy, notified, hostVars,
                 fileVars, opVars, bounds>>

\* Configure | Ensure etcd is running, in join_etcd_member.yml: the unit of h
\* was enabled by configure.yml, so that systemd is the one that starts it.
JoinStart(h) ==
  /\ pc = "join_start" /\ h \in joining
  /\ StartService(h)
  /\ todo' = todo \ {h}
  /\ joining' = {}
  /\ pc' = "join"
  /\ UNCHANGED <<members, etcd_cluster_is_healthy, etcd_member_in_cluster,
                 notified, fileVars, opVars, bounds>>

JoinedAll ==
  /\ pc = "join" /\ todo = {}
  /\ pc' = "main_refresh"
  /\ todo' = etcd_group
  /\ UNCHANGED <<joining, etcd_cluster_is_healthy, etcd_member_in_cluster,
                 notified, hostVars, fileVars, opVars, bounds>>

\* Leaves out the last inclusions of refresh_config.yml.
FinalRefreshConfig_LeftOut(h) ==
  /\ pc = "main_refresh"
  /\ AppliedTo(h, "handlers", {})
  /\ UNCHANGED <<joining, etcd_cluster_is_healthy, etcd_member_in_cluster,
                 notified, hostVars, fileVars, opVars, bounds>>

\* refresh_config.yml, included twice at the end of main.yml: the second
\* inclusion writes the same file.
FinalRefreshConfig(h) ==
  /\ pc = "main_refresh"
  /\ WriteConfig(h, etcd_group)
  /\ AppliedTo(h, "handlers", {})
  /\ UNCHANGED <<joining, etcd_cluster_is_healthy, etcd_member_in_cluster,
                 hostVars, opVars, bounds>>

\* Handlers "restart etcd" and "Backup etcd data": a snapshot from the first
\* endpoint, any host of the group (etcd-events has no backup).
BackupEtcdData ==
  /\ pc = "handlers" /\ notified # {}
  /\ TolerateExists => etcd_group \cap up # {}
  /\ pc' = "reload"
  /\ todo' = notified
  /\ UNCHANGED <<joining, etcd_cluster_is_healthy, etcd_member_in_cluster,
                 notified, hostVars, fileVars, opVars, bounds>>

\* Handler "reload etcd": service state=restarted on every notified host.  The
\* etcd that systemd starts again is EtcdRestarts.
ReloadEtcd(h) ==
  /\ pc = "reload"
  /\ up' = up \ {h}
  /\ active' = active \cup {h}
  /\ AppliedTo(h, "wait_up", {})
  /\ UNCHANGED <<data, members, joining, etcd_cluster_is_healthy,
                 etcd_member_in_cluster, notified, fileVars, opVars, bounds>>

\* Handler "wait for etcd up": /health of the local etcd answers 200.
WaitForEtcdUp ==
  /\ pc = "wait_up"
  /\ \A h \in notified : h \in up /\ Serving(data[h])
  /\ EndRun(TRUE)
  /\ UNCHANGED <<etcd_group, hostVars, fileVars, bounds>>

\* The play ends with no handler to run.
NothingNotified ==
  /\ pc = "handlers" /\ notified = {}
  /\ EndRun(TRUE)
  /\ UNCHANGED <<etcd_group, hostVars, fileVars, bounds>>

\* A task fails on a host, for good: the play is aborted on all hosts and the
\* handlers that were notified are lost.
TaskFails ==
  /\ \/ pc = "wait" /\ ~CheckResult(TRUE)
     \/ /\ pc = "join" /\ joining = {}
        /\ \E h \in todo : \A c \in Cluster : ~AddSucceeds(h, c)
     \/ pc = "join_ensure" /\ \A h \in joining, c \in Cluster : ~Listed(h, c)
     \/ /\ pc = "handlers" /\ notified # {} /\ TolerateExists
        /\ \E h \in etcd_group : h \notin up \/ ~Serving(data[h])
     \/ pc = "wait_up" /\ \E h \in notified : h \notin up \/ ~Serving(data[h])
  /\ EndRun(FALSE)
  /\ UNCHANGED <<etcd_group, hostVars, fileVars, bounds>>

\* The controller dies or loses a host between two tasks, or between two hosts
\* of one task.
Interrupt ==
  /\ pc # "idle"
  /\ interrupts < MaxInterrupts
  /\ interrupts' = interrupts + 1
  /\ EndRun(FALSE)
  /\ UNCHANGED <<etcd_group, hostVars, fileVars, crashes>>

Controller ==
  \/ \E ok \in BOOLEAN : CheckHealth(ok)
  \/ \E h \in Host : \/ RefreshConfig(h) \/ EnsureEtcdIsRunning(h)
                     \/ JoinRefreshConfig(h) \/ EnsureMember(h) \/ JoinStart(h)
                     \/ FinalRefreshConfig(h) \/ ReloadEtcd(h)
  \/ \E h \in Host, c \in Cluster : MemberAdd(h, c)
  \/ WaitForEtcdCluster \/ CheckMember \/ JoinedAll
  \/ BackupEtcdData \/ WaitForEtcdUp \/ NothingNotified
  \/ TaskFails

Next ==
  \/ \E group \in Inventories : StartRun(group)
  \/ Controller
  \/ Interrupt
  \/ \E h \in Host : EtcdRestarts(h) \/ EtcdCrashes(h)

Spec == Init /\ [][Next]_vars

-----------------------------------------------------------------------------
(* Properties *)

\* Every variable holds a value of its kind: files have the two contents the
\* template renders, and the controller works on hosts of the inventory.
TypeOK ==
  /\ data \in [Host -> Cluster]
  /\ members \in [Cluster -> SUBSET Host]
  /\ up \subseteq active /\ active \subseteq Host
  /\ initial_cluster_state \in [Host -> {"none", "new", "existing"}]
  /\ initial_cluster \in [Host -> SUBSET Host]
  /\ etcd_group \subseteq Host
  /\ completed \in BOOLEAN
  /\ pc \in Tasks
  /\ todo \subseteq etcd_group /\ joining \subseteq etcd_group
  /\ etcd_cluster_is_healthy \in BOOLEAN
  /\ etcd_member_in_cluster \subseteq etcd_group
  /\ notified \subseteq etcd_group
  /\ interrupts \in 0..MaxInterrupts /\ crashes \in 0..MaxCrashes

\* No second cluster: all data directories that are not empty belong to one
\* etcd cluster, whatever is interrupted and run again while the group grows
\* (configure.yml writes "new" or "existing" from a health check).
OneCluster ==
  \A g, h \in Host : data[g] # {} /\ data[h] # {} => data[g] = data[h]

\* The peer list join_etcd_member.yml computes for a host that joins is the
\* member list etcd has, so that the etcd it starts is accepted.
JoinConfigIsMemberList ==
  pc \in {"join_ensure", "join_start"} =>
    \A h \in joining, c \in Cluster : data[h] = {} /\ Serving(c) =>
       initial_cluster_state[h] = "existing" /\ initial_cluster[h] = members[c]

\* A run that ends without an error leaves every host of the group a member,
\* running or about to be restarted by systemd in that cluster, with a
\* configuration that says "existing" and names the whole group.
CompletedRunJoinsAll ==
  completed => \A h \in etcd_group :
    /\ h \in active
    /\ \E c \in Cluster : StartsIn(h) = {c} /\ h \in members[c]
    /\ initial_cluster_state[h] = "existing"
    /\ initial_cluster[h] = etcd_group

\* "when scaling new etcd will fail to start" (configure.yml:62): where a
\* cluster exists, task "Ensure etcd is running" starts no etcd on a host that
\* has not been added to it.
NewEtcdFailsToStart ==
  [][\A h \in Host :
       /\ pc = "start"
       /\ \E g \in Host : data[g] # {}
       /\ \A g \in Host : data[g] # {} => h \notin members[data[g]]
       => data'[h] = data[h]]_vars

\* Ansible goes on with the play it runs, systemd restarts what fails, and the
\* operator runs the playbook again after a run that failed.
Fairness ==
  /\ WF_vars(Controller)
  /\ WF_vars(StartRun(etcd_group) /\ ~completed)
  /\ \A h \in Host : WF_vars(EtcdRestarts(h))

FairSpec == Spec /\ Fairness

\* A host that is put in the group eventually serves as a member of the
\* cluster, and the run that got it there completes, however often runs are
\* interrupted (finitely many times) on the way.
EveryHostJoins ==
  \A h \in Host : h \in etcd_group ~>
    completed /\ data[h] # {} /\ h \in Connected(data[h])
=============================================================================
