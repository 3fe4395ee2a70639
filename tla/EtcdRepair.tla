----------------------------- MODULE EtcdRepair -----------------------------
(***************************************************************************)
(* Hosts of the etcd cluster that break, leave and are replaced:             *)
(* recover-control-plane.yml (the quorum decision, the restore from a        *)
(* snapshot, the removal of broken members, and cluster.yml, which it ends   *)
(* with) and remove-node.yml (the removal of a member and the reset of its   *)
(* host).                                                                    *)
(*                                                                           *)
(* etcd is external: a host has the writes its log holds, a majority of the  *)
(* members acknowledges a write, and a minority may lag behind.  Of the etcd *)
(* role that cluster.yml runs there are the wait for a healthy cluster and   *)
(* the two halves of a join, member add and start; EtcdRole models the rest. *)
(***************************************************************************)
EXTENDS Naturals, FiniteSets

CONSTANTS
  Host,
  Founders,          \* the hosts of the first cluster
  FirstFounder,      \* the first of them in the inventory
  PartOf,            \* <<h, g>>: the address of h is a part of the address of g
  MemberName,        \* etcd_member_name: set for every host, as the user should,
                     \* or by default etcd<place in the group>, so that a new
                     \* host has the name of the one whose place it takes
  MayForget,         \* whether an etcd that has lost its data directory may
                     \* start again as the member it was
  MayStopInRecovery, \* whether an etcd of the group may be down in a recovery
  ManyNewHosts,      \* whether more hosts may be added than have survived
  Mixed,             \* whether a node may be removed after a host broke, and a
                     \* recovery start before a removal is complete
  MaxClusters,       \* bound: restored clusters
  MaxWrites,         \* bound: acknowledged writes
  MaxBroken,         \* bound: hosts that break
  MinHosts,          \* bound: hosts that removals leave in the group at least
  MaxStops,          \* bound: times an etcd stops
  MaxAborts          \* bound: interrupted runs

ASSUME RepairAssumption ==
  /\ IsFiniteSet(Host)
  /\ Founders \subseteq Host /\ FirstFounder \in Founders
  /\ PartOf \subseteq Host \X Host
  /\ Host \subseteq DOMAIN MemberName
  /\ {MayForget, MayStopInRecovery, ManyNewHosts, Mixed} \subseteq BOOLEAN
  /\ {MaxClusters, MaxWrites, MaxBroken, MinHosts, MaxStops, MaxAborts} \subseteq Nat /\ MaxClusters > 0

VARIABLES
  data,          \* data[h]: the cluster and the writes that the etcd of h has
  wiped,         \* hosts whose data directory was removed under a running etcd
  fresh,         \* members that have received nothing of the cluster's data yet
  up,            \* hosts whose etcd runs
  stopped,       \* hosts whose etcd a play has stopped
  dead,          \* hosts that are destroyed
  id,            \* the newest cluster
  members,       \* members[c]: its members
  committed,     \* committed[c]: number of writes it has acknowledged
  lost,          \* a majority was destroyed or given up, and not recovered since
  completed,     \* the last recovery was completed, and no host broke since
  group,         \* groups['etcd']
  first,         \* its first host
  broken,        \* groups['broken_etcd']
  pc,            \* the task of the play
  listed,        \* registered: the members to remove
  target,        \* the node that is removed, or the host that joins, as a set
  snapshot,      \* /tmp/snapshot.db on the first host: a log, or none
  stops, aborts

disks == <<data, wiped, fresh>>
units == <<up, stopped>>
clusters == <<id, members, committed>>
history == <<lost, completed>>
inventory == <<group, first, broken>>
play == <<pc, listed, target>>
counters == <<stops, aborts>>
vars == <<disks, units, dead, clusters, history, inventory, play, snapshot, counters>>

None == [cluster |-> 0, writes |-> 0]
Retired == [cluster |-> 0, writes |-> 1]   \* the data of a member that was removed

Init ==
  /\ data = [h \in Host |-> IF h \in Founders THEN [cluster |-> 1, writes |-> 0] ELSE None]
  /\ wiped = {} /\ fresh = {}
  /\ up = Founders /\ stopped = {} /\ dead = {}
  /\ id = 1
  /\ members = [c \in 1 .. MaxClusters |-> IF c = 1 THEN Founders ELSE {}]
  /\ committed = [c \in 1 .. MaxClusters |-> 0]
  /\ lost = FALSE /\ completed = TRUE
  /\ group = Founders /\ first = FirstFounder /\ broken = {}
  /\ pc = "idle" /\ listed = {} /\ target = {}
  /\ snapshot = None
  /\ stops = 0 /\ aborts = 0
-----------------------------------------------------------------------------
(* etcd.                                                                     *)

IsMajority(part, c) == 2 * Cardinality(part) > Cardinality(members[c])

Holders(c) == {h \in members[c] : data[h].cluster = c}
Serving(c) == IsMajority(Holders(c) \cap up, c)

\* What a log entry needs to be acknowledged: a majority that runs.  It gets
\* what was acknowledged before, as its leader has it.
Quorums(c) == {part \in SUBSET (Holders(c) \cap up) : IsMajority(part, c)}
Logged(c, part, writes) ==
  [h \in Host |-> IF h \in part THEN [cluster |-> c, writes |-> writes] ELSE data[h]]

Write ==
  \E c \in 1 .. id : \E part \in Quorums(c) :
    /\ committed[c] < MaxWrites
    /\ data' = Logged(c, part, committed[c] + 1) /\ fresh' = fresh \ part
    /\ committed' = [committed EXCEPT ![c] = @ + 1]
    /\ UNCHANGED <<wiped, units, dead, id, members, history, inventory, play, snapshot, counters>>

\* A member that lags behind gets what it has missed.
CatchUp(h) ==
  LET c == data[h].cluster
  IN  /\ c # 0 /\ h \in members[c] \cap up /\ Serving(c)
      /\ data[h].writes < committed[c] \/ h \in fresh
      /\ data' = [data EXCEPT ![h].writes = committed[c]] /\ fresh' = fresh \ {h}
      /\ UNCHANGED <<wiped, units, dead, clusters, history, inventory, play, snapshot, counters>>

RemovalTasks == {"lookup", "remove", "reset", "removed"}

\* An etcd dies; if its directory was removed, its data is gone now.
Stop(h) ==
  /\ pc \in {"idle"} \cup RemovalTasks \/ MayStopInRecovery
  /\ h \in up /\ up' = up \ {h}
  /\ data' = IF h \in wiped THEN [data EXCEPT ![h] = None] ELSE data
  /\ wiped' = wiped \ {h} /\ fresh' = fresh \ (wiped \cap {h})
  /\ stops < MaxStops /\ stops' = stops + 1
  /\ UNCHANGED <<stopped, dead, clusters, history, inventory, play, snapshot, aborts>>

HasData(h) == data[h].cluster # 0

\* systemd restarts an etcd, but for one that a play has stopped.
Restart(h) ==
  /\ h \notin up \cup dead \cup stopped
  /\ up' = up \cup {h}
  /\ \/ HasData(h) /\ UNCHANGED disks
     \/ /\ MayForget /\ data[h] = None
        /\ h \in broken \cap members[id] /\ Holders(id) \cap up # {}
        /\ data' = [data EXCEPT ![h] = [cluster |-> id, writes |-> 0]]
        /\ fresh' = fresh \cup {h} /\ UNCHANGED wiped
  /\ UNCHANGED <<stopped, dead, clusters, history, inventory, play, snapshot, counters>>

\* A member whose etcd has joined: its name is in the list, its health asked for.
Started(m) == data[m].cluster = id \/ (data[m] = None /\ m \notin fresh)

\* The cluster accepts a new member when all it has are connected.
MayAdd == Serving(id) /\ members[id] \subseteq Holders(id) \cap up

\* The server refuses the removal of a member that is connected if too few
\* connected ones were left, and needs a majority in any case.
MayRemove(m) ==
  /\ Serving(id)
  /\ m \in up => Cardinality(members[id] \cap up) - 1 >= 1 + (Cardinality(members[id]) - 1) \div 2

\* The etcd of a member that was removed exits, and its data is of no use.
RemoveMember(m) ==
  \E part \in Quorums(id) :
    /\ members' = [members EXCEPT ![id] = @ \ {m}]
    /\ LET leaves == {m} \cap Holders(id)
       IN  /\ data' = [h \in Host |-> IF h \notin leaves THEN Logged(id, part, committed[id])[h]
                                      ELSE IF h \in wiped THEN None ELSE Retired]
           /\ wiped' = wiped \ leaves /\ up' = up \ leaves
    /\ fresh' = fresh \ part
-----------------------------------------------------------------------------
(* What breaks, and what the operator does about it.                         *)

Survives(h) == HasData(h) /\ h \notin wiped \cup fresh \cup dead

\* A host of the group has data and is not what an interrupted run made it.
HalfRemoved == \E h \in group : data[h] # None /\ h \notin Holders(id)

\* A host is destroyed; one functional node is left, as the doc asks for.
Disaster(h) ==
  /\ pc = "idle"
  /\ h \in (group \cup broken) \ (dead \cup fresh) /\ (h \in members[id] => Started(h))
  /\ Cardinality(dead \cup broken \cup {h}) <= MaxBroken
  /\ \E g \in group \ {h} : Survives(g)
  /\ dead' = dead \cup {h} /\ up' = up \ {h} /\ stopped' = stopped \ {h}
  /\ data' = [data EXCEPT ![h] = None] /\ wiped' = wiped \ {h}
  /\ lost' = (lost \/ ~IsMajority(Holders(id) \ (broken \cup {h}), id))
  /\ completed' = FALSE
  /\ snapshot' = IF h = first THEN None ELSE snapshot
  /\ UNCHANGED <<fresh, clusters, inventory, play, counters>>

\* The operator moves what is broken, destroyed or not, to broken_etcd, places
\* the surviving hosts first, in any order, and new ones below them.
Replace(new, moved) ==
  /\ moved \subseteq {h \in group : Survives(h) /\ h \in Holders(id)}
  /\ (group \cap dead) \cup moved # {}
  /\ new \subseteq {h \in Host \ (group \cup broken \cup dead) : data[h] = None /\ (MayForget \/ h \notin members[id])}
  /\ Cardinality(new) <= Cardinality((group \cap dead) \cup moved)
  /\ group' = (group \ (dead \cup moved)) \cup new
  /\ broken' = broken \cup (group \cap dead) \cup moved
  /\ Cardinality(dead \cup broken') <= MaxBroken
  /\ LET surviving == {h \in group \ moved : Survives(h)}
     IN  /\ first' \in surviving
         /\ ManyNewHosts \/ Cardinality(group' \ surviving) <= Cardinality(surviving)
  /\ lost' = (lost \/ ~IsMajority(Holders(id) \ broken', id))
  /\ completed' = FALSE
  /\ snapshot' = IF first' = first THEN snapshot ELSE None
  /\ UNCHANGED <<disks, units, dead, clusters, play, counters>>

Provision == pc = "idle" /\ \E new \in SUBSET (Host \ group), moved \in SUBSET group : Replace(new, moved)

\* systemctl start, for an etcd that an interrupted play has left stopped.
OperatorStarts(h) ==
  /\ pc = "idle" /\ h \in stopped /\ HasData(h)
  /\ up' = up \cup {h} /\ stopped' = stopped \ {h}
  /\ UNCHANGED <<disks, dead, clusters, history, inventory, play, snapshot, counters>>
-----------------------------------------------------------------------------
(* The plays.                                                                *)

Goto(task) == pc' = task /\ UNCHANGED <<listed, target>>

\* Mutant: the node to remove is still set in the next run.
EndRun_TargetKept(recovered) ==
  /\ pc' = "idle" /\ listed' = {} /\ UNCHANGED target
  /\ completed' = recovered

EndRun(recovered) ==
  /\ pc' = "idle" /\ listed' = {} /\ target' = {}
  /\ completed' = recovered

Interrupt ==
  /\ pc # "idle"
  /\ aborts < MaxAborts /\ aborts' = aborts + 1
  /\ EndRun(FALSE)
  /\ UNCHANGED <<disks, units, dead, clusters, lost, inventory, snapshot, stops>>

\* recover-control-plane.yml
StartRecovery ==
  /\ pc = "idle"
  /\ broken # {} /\ group \cap dead = {} /\ (Mixed \/ ~HalfRemoved)
  /\ id < MaxClusters
  /\ MayStopInRecovery \/ {h \in group \ stopped : HasData(h)} \subseteq up
  /\ Goto("health")
  /\ UNCHANGED <<disks, units, dead, clusters, history, inventory, snapshot, counters>>

\* 'etcdctl endpoint health': an endpoint that takes part in no quorum, or that
\* has no etcd, is unhealthy.
HealthyEndpoints ==
  {h \in group \cap up : Serving(data[h].cluster) /\ h \in members[data[h].cluster]}

\* The fact: at least as many endpoints are healthy as are not.
has_quorum == Cardinality(HealthyEndpoints) >= Cardinality(group \ HealthyEndpoints)

\* Mutant: a tie counts as a lost quorum.
CheckHealth_TieIsLost ==
  /\ pc = "health"
  /\ Goto(IF 2 * Cardinality(HealthyEndpoints) > Cardinality(group) THEN "remove_data" ELSE "snapshot")
  /\ UNCHANGED <<disks, units, dead, clusters, history, inventory, snapshot, counters>>

CheckHealth ==
  /\ pc = "health"
  /\ Goto(IF has_quorum THEN "remove_data" ELSE "snapshot")
  /\ UNCHANGED <<disks, units, dead, clusters, history, inventory, snapshot, counters>>

\* Mutant: a snapshot that could not be saved is ignored.
SaveSnapshot_Ignored ==
  /\ pc = "snapshot" /\ first \in up
  /\ snapshot' \in {snapshot, data[first]}
  /\ Goto("stop")
  /\ UNCHANGED <<disks, units, dead, clusters, history, inventory, counters>>

\* Mutant: the snapshot of an interrupted run is of use only to a running etcd.
TransferSnapshot_IfRunning ==
  /\ pc = "snapshot" /\ first \in up /\ snapshot # None
  /\ Goto("stop")
  /\ UNCHANGED <<disks, units, dead, clusters, history, inventory, snapshot, counters>>

\* recover_lost_quorum.yml: the snapshot of the first host, or, if its etcd does
\* not run, the one that an interrupted run has left and that the operator
\* passes as etcd_snapshot.
SaveSnapshot ==
  /\ pc = "snapshot" /\ first \in up
  /\ snapshot' = data[first]
  /\ Goto("stop")
  /\ UNCHANGED <<disks, units, dead, clusters, history, inventory, counters>>

TransferSnapshot ==
  /\ pc = "snapshot" /\ first \notin up /\ snapshot # None
  /\ Goto("stop")
  /\ UNCHANGED <<disks, units, dead, clusters, history, inventory, snapshot, counters>>

StopEtcd ==
  /\ pc = "stop"
  /\ up' = up \ {first} /\ stopped' = stopped \cup {first}
  /\ Goto("remove_first_data")
  /\ UNCHANGED <<disks, dead, clusters, history, inventory, snapshot, counters>>

RemoveFirstData ==
  /\ pc = "remove_first_data"
  /\ data' = [data EXCEPT ![first] = None]
  /\ fresh' = {h \in fresh : h = first => data[h] = None}
  /\ Goto("restore")
  /\ UNCHANGED <<wiped, units, dead, clusters, history, inventory, snapshot, counters>>

\* A cluster with one member and the data of the snapshot.
RestoreSnapshot ==
  /\ pc = "restore"
  /\ id' = id + 1
  /\ members' = [members EXCEPT ![id + 1] = {first}]
  /\ committed' = [committed EXCEPT ![id + 1] = snapshot.writes]
  /\ data' = [data EXCEPT ![first] = [cluster |-> id + 1, writes |-> snapshot.writes]]
  /\ fresh' = fresh \ {first}
  /\ lost' = FALSE
  /\ Goto("remove_snapshot")
  /\ UNCHANGED <<wiped, units, dead, completed, inventory, snapshot, counters>>

RemoveSnapshot ==
  /\ pc = "remove_snapshot"
  /\ snapshot' = None
  /\ Goto("start")
  /\ UNCHANGED <<disks, units, dead, clusters, history, inventory, counters>>

StartEtcd ==
  /\ pc = "start"
  /\ up' = up \cup {first} /\ stopped' = stopped \ {first}
  /\ Goto("cluster")
  /\ UNCHANGED <<disks, dead, clusters, history, inventory, snapshot, counters>>

\* Mutant: the etcds whose directory was removed are restarted.
RemoveBrokenData_Restarted ==
  /\ pc = "remove_data"
  /\ data' = [h \in Host |-> IF h \notin broken \ dead THEN data[h]
                             ELSE IF h \in up THEN [cluster |-> id, writes |-> 0] ELSE None]
  /\ fresh' = fresh \ broken
  /\ Goto("list")
  /\ UNCHANGED <<wiped, units, dead, clusters, history, inventory, snapshot, counters>>

\* With quorum: the data of the broken hosts, as far as they can be reached.
\* An etcd that runs there is not stopped.
RemoveBrokenData ==
  /\ pc = "remove_data"
  /\ data' = [h \in Host |-> IF h \in broken \ (dead \cup up) THEN None ELSE data[h]]
  /\ wiped' = wiped \cup (broken \cap up)
  /\ fresh' = fresh \ broken
  /\ Goto("list")
  /\ UNCHANGED <<units, dead, clusters, history, inventory, snapshot, counters>>

\* The members that have the name of a broken host.  A member that was added
\* and has not started has no name in the list.
ListMembers ==
  /\ pc = "list" /\ Serving(id)
  /\ listed' = {m \in members[id] : Started(m) /\ \E b \in broken : MemberName[b] = MemberName[m]}
  /\ pc' = "remove_members"
  /\ UNCHANGED <<disks, units, dead, clusters, history, inventory, target, snapshot, counters>>

RemoveBrokenMember(m) ==
  /\ pc \in {"remove_members", "remove_others"} /\ m \in listed /\ MayRemove(m)
  /\ RemoveMember(m)
  /\ listed' = listed \ {m}
  /\ UNCHANGED <<stopped, dead, id, committed, history, inventory, pc, target, snapshot, counters>>

\* One that is refused does not keep the task from the others, before it fails.
RemovalRefused(m) ==
  /\ pc \in {"remove_members", "remove_others"} /\ m \in listed /\ ~MayRemove(m)
  /\ listed' = listed \ {m} /\ pc' = "remove_others"
  /\ UNCHANGED <<disks, units, dead, clusters, history, inventory, target, snapshot, counters>>

\* Mutant: the members are left in the cluster.
MembersRemoved_NoneRemoved ==
  /\ pc = "remove_members"
  /\ Goto("cluster")
  /\ UNCHANGED <<disks, units, dead, clusters, history, inventory, snapshot, counters>>

MembersRemoved ==
  /\ pc = "remove_members" /\ listed = {}
  /\ Goto("cluster")
  /\ UNCHANGED <<disks, units, dead, clusters, history, inventory, snapshot, counters>>

Healthy == Serving(id) /\ \A m \in members[id] : Started(m) => m \in Holders(id) \cap up

\* cluster.yml up to the wait for a healthy cluster.  A member without data
\* starts if the group, which its file lists, is the member list.
StartMembers ==
  /\ pc = "cluster" /\ Healthy
  /\ LET joining == {h \in group \cap members[id] : data[h] = None /\ members[id] = group /\ (h \in fresh \/ MayForget)}
     IN  /\ data' = [h \in Host |-> IF h \in joining THEN [cluster |-> id, writes |-> 0] ELSE data[h]]
         /\ fresh' = fresh \cup joining /\ up' = up \cup joining
  /\ stopped' = stopped \ group
  /\ Goto("join")
  /\ UNCHANGED <<wiped, dead, clusters, history, inventory, snapshot, counters>>

\* The hosts that are no members join one at a time.  The member is added
\* whatever its data directory holds.
MemberAdd(h) ==
  /\ pc = "join" /\ h \in group \ members[id] /\ MayAdd
  /\ members' = [members EXCEPT ![id] = @ \cup {h}]
  /\ \E part \in Quorums(id) :
       /\ data' = Logged(id, part, committed[id])
       /\ fresh' = (fresh \ part) \cup {g \in {h} : data[g] = None}
  /\ pc' = "join_start" /\ target' = {h}
  /\ UNCHANGED <<wiped, units, dead, id, committed, history, inventory, listed, snapshot, counters>>

\* Its etcd starts, with the members of the group in its file, and without data:
\* the task waits for none.
MayStart(h) == data[h] = None /\ members[id] \subseteq group /\ Holders(id) \cap up # {}

StartMember(h) ==
  /\ pc = "join_start" /\ h \in target /\ MayStart(h)
  /\ data' = [data EXCEPT ![h] = [cluster |-> id, writes |-> 0]]
  /\ up' = up \cup {h} /\ stopped' = stopped \ {h}
  /\ pc' = "join" /\ target' = {}
  /\ UNCHANGED <<wiped, fresh, dead, clusters, history, inventory, listed, snapshot, counters>>

RunCompletes ==
  /\ pc = "join" /\ group \subseteq members[id] /\ Serving(id)
  /\ EndRun(TRUE) /\ lost' = FALSE
  /\ UNCHANGED <<disks, units, dead, clusters, inventory, snapshot, counters>>

\* A task fails: etcdctl is refused or gets no answer, an etcd does not start.
TaskFails ==
  /\ \/ pc = "snapshot" /\ first \notin up /\ snapshot = None
     \/ pc = "list" /\ ~Serving(id)
     \/ pc = "remove_others" /\ listed = {}
     \/ pc = "cluster" /\ ~Healthy
     \/ pc = "join" /\ (~Serving(id) \/ (~(group \subseteq members[id]) /\ ~MayAdd))
     \/ pc = "join_start" /\ \E h \in target : ~MayStart(h)
     \/ pc = "remove" /\ (Cardinality(listed) > 1 \/ \E m \in listed : ~MayRemove(m))
  /\ EndRun(FALSE)
  /\ UNCHANGED <<disks, units, dead, clusters, lost, inventory, snapshot, counters>>
-----------------------------------------------------------------------------
(* remove-node.yml for a host of the etcd group that is not the first.  The    *)
(* play before it lists the nodes, which takes an API server.                *)

StartRemoval(h) ==
  /\ pc = "idle" /\ group \cap dead = {}
  /\ h \in group \ {first} /\ Serving(id)
  /\ Cardinality(group) > MinHosts /\ (Mixed \/ broken = {})
  /\ pc' = "lookup" /\ target' = {h}
  /\ completed' = FALSE
  /\ UNCHANGED <<disks, units, dead, clusters, lost, inventory, listed, snapshot, counters>>

\* member list | grep <address>: nothing, if etcdctl gets no answer.
LookupMember ==
  /\ pc = "lookup"
  /\ listed' = IF Serving(id) THEN {m \in members[id] : \E h \in target : m = h \/ <<h, m>> \in PartOf} ELSE {}
  /\ pc' = "remove"
  /\ UNCHANGED <<disks, units, dead, clusters, history, inventory, target, snapshot, counters>>

RemoveFromCluster ==
  /\ pc = "remove"
  /\ IF listed = {} THEN UNCHANGED <<members, disks, up>>
     ELSE \E m \in listed : listed = {m} /\ MayRemove(m) /\ RemoveMember(m)
  /\ listed' = {} /\ pc' = "reset"
  /\ UNCHANGED <<stopped, dead, id, committed, history, inventory, target, snapshot, counters>>

\* The reset role: the etcd of the host is stopped, its data removed.  If the
\* lookup found nothing, that destroys a member.
ResetHost ==
  /\ pc = "reset"
  /\ up' = up \ target /\ stopped' = stopped \cup target
  /\ data' = [h \in Host |-> IF h \in target THEN None ELSE data[h]]
  /\ fresh' = {h \in fresh : h \in target => data[h] = None}
  /\ lost' = (lost \/ ~IsMajority(Holders(id) \ (broken \cup target), id))
  /\ Goto("removed")
  /\ UNCHANGED <<wiped, dead, clusters, completed, inventory, snapshot, counters>>

\* The run is over, and the operator removes the node from the inventory.
Removed ==
  /\ pc = "removed"
  /\ group' = group \ target
  /\ EndRun(FALSE)
  /\ UNCHANGED <<disks, units, dead, clusters, lost, first, broken, snapshot, counters>>
-----------------------------------------------------------------------------
Recovery ==
  \/ CheckHealth
  \/ SaveSnapshot \/ TransferSnapshot \/ StopEtcd \/ RemoveFirstData \/ RestoreSnapshot
  \/ RemoveSnapshot \/ StartEtcd
  \/ RemoveBrokenData \/ ListMembers \/ (\E m \in Host : RemoveBrokenMember(m) \/ RemovalRefused(m)) \/ MembersRemoved
  \/ StartMembers \/ (\E h \in Host : MemberAdd(h) \/ StartMember(h)) \/ RunCompletes \/ TaskFails

Removal == LookupMember \/ RemoveFromCluster \/ ResetHost \/ Removed

Next ==
  \/ Write
  \/ \E h \in Host : CatchUp(h) \/ Stop(h) \/ Restart(h) \/ Disaster(h) \/ OperatorStarts(h) \/ StartRemoval(h)
  \/ Provision \/ StartRecovery \/ Recovery \/ Removal \/ Interrupt

\* A run goes on; systemd restarts an etcd; the operator replaces what is
\* destroyed, runs the playbook until it completes, and starts by hand an etcd
\* that an interrupted run has left stopped, sooner or later.
Fairness ==
  /\ WF_vars(Recovery) /\ WF_vars(Removal)
  /\ WF_vars(\E h \in Host : Restart(h)) /\ SF_vars(\E h \in Host : OperatorStarts(h))
  /\ WF_vars(pc = "idle" /\ \E new \in SUBSET (Host \ group) : Replace(new, {}))
  /\ SF_vars(~completed /\ StartRecovery)

Spec == Init /\ [][Next]_vars
FairSpec == Spec /\ Fairness
-----------------------------------------------------------------------------
(* Correctness.                                                              *)

Log == [cluster : 0 .. MaxClusters, writes : Nat]

TypeOK ==
  /\ data \in [Host -> Log] /\ snapshot \in Log
  /\ {wiped, fresh, up, stopped, dead, group, broken, listed} \subseteq SUBSET Host
  /\ up \cap dead = {}
  /\ id \in 1 .. MaxClusters
  /\ members \in [1 .. MaxClusters -> SUBSET Host]
  /\ committed \in [1 .. MaxClusters -> Nat]
  /\ first \in group
  /\ {lost, completed} \subseteq BOOLEAN
  /\ target \subseteq Host /\ (target = {} <=> pc \notin RemovalTasks \cup {"join_start"})

\* A running majority has what was acknowledged, also after members were
\* removed, added without data and restored: only then may it go on from there.
QuorumHasLatest ==
  \A c \in 1 .. id : Serving(c) => \E h \in Holders(c) \cap up : data[h].writes = committed[c]

\* Between the removal of data and the restore or the removal of the member, and
\* wherever a run stops there, some copy of the data is left on a disk.
SomeCopyIsLeft == snapshot # None \/ \E h \in Host \ (wiped \cup fresh) : data[h] # None

\* docs/recover-control-plane.md: "When finished you should have a fully working
\* control plane again".  No broken host is a member, and every host of the
\* group is one that has started, or that kept the data it came with.
CompletedRunRecovers ==
  completed /\ pc = "idle" =>
    /\ members[id] \cap broken = {}
    /\ \A h \in group : h \in members[id] /\ data[h] # None

\* No acknowledged write is lost by a recovery or a removal, unless a majority
\* was destroyed or given up.
Store == INSTANCE DurableStore WITH value <- committed[id]
ImplementsStore == Store!Spec

\* docs/recover-control-plane.md: "If quorum is lost it will attempt to take a
\* snapshot from the first node in the "etcd" group and restore from that".
RestoresLostQuorumOnly == [][pc = "health" /\ pc' = "snapshot" => lost \/ ~Serving(id)]_vars

\* A removal, of a node or of what is broken, takes only that from the cluster.
\* It holds as long as no address is a part of another one, and no two hosts
\* have the same etcd_member_name.
RemovesTargetOnly ==
  [][\A m \in members[id] \ members'[id] : m \in broken \cup target]_vars

\* A node that remove-node.yml has removed is no member any more.
RemovedIsNoMember == [][pc = "removed" /\ pc' = "idle" => target \cap members[id] = {}]_vars

\* What no recovery repairs: a removal has left a host that is no member in the
\* group, a member is neither in the group nor broken, or one that was added and
\* never started keeps the cluster from removing a broken one that runs.
Stuck ==
  \/ HalfRemoved
  \/ ~(members[id] \subseteq group \cup broken)
  \/ \E m \in members[id], b \in broken \cap up : ~Started(m) /\ b \in members[id]

\* docs/recover-control-plane.md: whatever breaks, stops or is interrupted,
\* running the playbook again leads to a completed recovery, or is stuck.
RecoveryCompletes == dead \cup broken # {} ~> completed \/ Stuck \/ id = MaxClusters
=============================================================================
