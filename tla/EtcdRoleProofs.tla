--------------------------- MODULE EtcdRoleProofs ---------------------------
(***************************************************************************)
(* Proofs about EtcdRole.  While the group grows, etcd processes do not die  *)
(* and health checks do not fail by accident, a cluster that had three       *)
(* members or more stays the only one: the argument is that a run that finds *)
(* a host still to be joined also finds the cluster healthy, so that no      *)
(* configuration file of a host with an empty data directory says "new".     *)
(***************************************************************************)
EXTENDS EtcdRole, FiniteSetTheorems, TLAPS

I == InitMembers

\* The cluster of the first members is the only one with data or new members.
OnlyCluster ==
  /\ \A h \in Host : data[h] \in {{}, I}
  /\ \A h \in I : data[h] = I
  /\ \A c \in Cluster : c # I => members[c] = c
  /\ I \subseteq members[I]
  /\ \A h \in Host : data[h] = I => h \in members[I] /\ h \in active
  /\ \A h \in up : data[h] = I

\* At most one member has not been started.
OneUnstarted ==
  \A g, h \in members[I] : data[g] = {} /\ data[h] = {} => g = h

\* An etcd without data does not bootstrap, and is configured as a member.
NoBootstrap ==
  \A h \in Host :
    /\ data[h] = {} => initial_cluster_state[h] # "new"
    /\ initial_cluster_state[h] = "existing" => h \in initial_cluster[h]

\* Every etcd that has data runs.
HoldersUp == \A h \in Host : data[h] = I => h \in up

\* The health check of a run that has a host to join succeeds.
ScalingIsHealthy ==
  /\ pc = "check" /\ Scaling => HoldersUp
  /\ pc \notin {"idle", "check"} /\ Scaling => etcd_cluster_is_healthy

StaysOne == OnlyCluster /\ OneUnstarted /\ NoBootstrap /\ ScalingIsHealthy

IInv == TypeOK /\ StaysOne
-----------------------------------------------------------------------------

\* What a task that goes through the hosts one by one leaves in pc and todo.
LEMMA AppliedToType ==
  ASSUME NEW h, NEW next \in Tasks, NEW hosts \in SUBSET etcd_group, TypeOK,
         AppliedTo(h, next, hosts)
  PROVE  /\ pc' \in Tasks /\ todo' \subseteq etcd_group /\ h \in etcd_group
  BY DEF AppliedTo, TypeOK

\* A cluster an etcd may start in is one of the values of its data directory.
LEMMA StartsInType ==
  ASSUME TypeOK, NEW h \in Host PROVE StartsIn(h) \subseteq Cluster
  BY DEF TypeOK, StartsIn, Cluster

\* The end of a run leaves registered results that are well typed.
LEMMA EndRunType ==
  ASSUME TypeOK, NEW ok \in BOOLEAN, EndRun(ok),
         UNCHANGED <<etcd_group, hostVars, fileVars>>,
         interrupts' \in 0..MaxInterrupts, crashes' \in 0..MaxCrashes
  PROVE  TypeOK'
  BY DEF TypeOK, EndRun, hostVars, fileVars, Tasks

\* The type invariant: what the role writes on the hosts and registers in a run
\* always has the form the tasks expect.
THEOREM TypeCorrect == Spec => []TypeOK
<1>1. Init => TypeOK
  <2> SUFFICES ASSUME Init PROVE TypeOK
    OBVIOUS
  <2>1. members \in [Cluster -> SUBSET Host]
    BY DEF Init, Cluster
  <2>2. data \in [Host -> Cluster]
    BY RoleAssumption DEF Init, Cluster
  <2>3. /\ initial_cluster_state \in [Host -> {"none", "new", "existing"}]
        /\ initial_cluster \in [Host -> SUBSET Host]
    BY RoleAssumption DEF Init
  <2>4. interrupts \in 0..MaxInterrupts /\ crashes \in 0..MaxCrashes
    BY RoleAssumption DEF Init
  <2>. QED BY <2>1, <2>2, <2>3, <2>4, RoleAssumption DEF Init, TypeOK, Tasks
<1>2. TypeOK /\ [Next]_vars => TypeOK'
  <2> SUFFICES ASSUME TypeOK, [Next]_vars PROVE TypeOK'
    OBVIOUS
  <2> USE DEF hostVars, fileVars, opVars, bounds
  <2>1. ASSUME NEW group \in Inventories, StartRun(group) PROVE TypeOK'
    BY <2>1, RoleAssumption DEF StartRun, TypeOK, Tasks
  <2>2. ASSUME NEW ok \in BOOLEAN, CheckHealth(ok) PROVE TypeOK'
    BY <2>2 DEF CheckHealth, TypeOK, Tasks
  <2>3. ASSUME NEW h \in Host, RefreshConfig(h) PROVE TypeOK'
    <3>1. AppliedTo(h, "start", etcd_group) /\ UNCHANGED etcd_group
      BY <2>3 DEF RefreshConfig
    <3>2. pc' \in Tasks /\ todo' \subseteq etcd_group /\ h \in etcd_group
      BY <3>1, AppliedToType DEF Tasks
    <3>. QED BY <2>3, <3>2 DEF RefreshConfig, WriteConfig, TypeOK
  <2>4. ASSUME NEW h \in Host, EnsureEtcdIsRunning(h) PROVE TypeOK'
    <3>1. AppliedTo(h, "wait", {})
      BY <2>4 DEF EnsureEtcdIsRunning
    <3>2. pc' \in Tasks /\ todo' \subseteq etcd_group /\ h \in etcd_group
      BY <3>1, AppliedToType DEF Tasks
    <3>. QED BY <2>4, <3>2, StartsInType
         DEF EnsureEtcdIsRunning, StartService, Start, TypeOK
  <2>5. CASE WaitForEtcdCluster
    BY <2>5 DEF WaitForEtcdCluster, TypeOK, Tasks
  <2>6. CASE CheckMember
    BY <2>6 DEF CheckMember, TypeOK, Tasks
  <2>7. ASSUME NEW h \in Host, NEW c \in Cluster, MemberAdd(h, c) PROVE TypeOK'
    BY <2>7 DEF MemberAdd, TypeOK, Tasks
  <2>8. ASSUME NEW h \in Host, JoinRefreshConfig(h) PROVE TypeOK'
    BY <2>8 DEF JoinRefreshConfig, WriteConfig, TypeOK, Tasks
  <2>9. ASSUME NEW h \in Host, EnsureMember(h) PROVE TypeOK'
    BY <2>9 DEF EnsureMember, TypeOK, Tasks
  <2>10. ASSUME NEW h \in Host, JoinStart(h) PROVE TypeOK'
    BY <2>10, StartsInType DEF JoinStart, StartService, Start, TypeOK, Tasks
  <2>11. CASE JoinedAll
    BY <2>11 DEF JoinedAll, TypeOK, Tasks
  <2>12. ASSUME NEW h \in Host, FinalRefreshConfig(h) PROVE TypeOK'
    <3>1. AppliedTo(h, "handlers", {})
      BY <2>12 DEF FinalRefreshConfig
    <3>2. pc' \in Tasks /\ todo' \subseteq etcd_group /\ h \in etcd_group
      BY <3>1, AppliedToType DEF Tasks
    <3>. QED BY <2>12, <3>2 DEF FinalRefreshConfig, WriteConfig, TypeOK
  <2>13. CASE BackupEtcdData
    BY <2>13 DEF BackupEtcdData, TypeOK, Tasks
  <2>14. ASSUME NEW h \in Host, ReloadEtcd(h) PROVE TypeOK'
    <3>1. AppliedTo(h, "wait_up", {})
      BY <2>14 DEF ReloadEtcd
    <3>2. pc' \in Tasks /\ todo' \subseteq etcd_group /\ h \in etcd_group
      BY <3>1, AppliedToType DEF Tasks
    <3>. QED BY <2>14, <3>2 DEF ReloadEtcd, TypeOK
  <2>15. CASE WaitForEtcdUp
    BY <2>15, EndRunType DEF WaitForEtcdUp, TypeOK
  <2>16. CASE NothingNotified
    BY <2>16, EndRunType DEF NothingNotified, TypeOK
  <2>17. CASE TaskFails
    BY <2>17, EndRunType DEF TaskFails, TypeOK
  <2>18. CASE Interrupt
    <3>1. interrupts' \in 0..MaxInterrupts /\ crashes' \in 0..MaxCrashes
      BY <2>18, RoleAssumption DEF Interrupt, TypeOK
    <3>. QED BY <2>18, <3>1, EndRunType DEF Interrupt
  <2>19. ASSUME NEW h \in Host, EtcdRestarts(h) PROVE TypeOK'
    BY <2>19, StartsInType DEF EtcdRestarts, Start, TypeOK, runVars
  <2>20. ASSUME NEW h \in Host, EtcdCrashes(h) PROVE TypeOK'
    <3>1. crashes' \in 0..MaxCrashes
      BY <2>20, RoleAssumption DEF EtcdCrashes, TypeOK
    <3>. QED BY <2>20, <3>1 DEF EtcdCrashes, TypeOK, runVars
  <2>21. CASE UNCHANGED vars
    BY <2>21 DEF vars, runVars, TypeOK
  <2>. QED
    BY <2>1, <2>2, <2>3, <2>4, <2>5, <2>6, <2>7, <2>8, <2>9, <2>10, <2>11,
       <2>12, <2>13, <2>14, <2>15, <2>16, <2>17, <2>18, <2>19, <2>20, <2>21
    DEF Next, Controller
<1>. QED BY <1>1, <1>2, PTL DEF Spec
-----------------------------------------------------------------------------

\* A cluster of three or more members of which at most one is not connected
\* has a quorum.
LEMMA AllButOneIsQuorum ==
  ASSUME NEW M, IsFiniteSet(M), Cardinality(M) >= 3, NEW C \in SUBSET M,
         \A g, h \in M \ C : g = h
  PROVE  2 * Cardinality(C) > Cardinality(M)
<1>1. CASE M \ C = {}
  <2>1. C = M
    BY <1>1
  <2>2. Cardinality(M) \in Nat
    BY FS_CardinalityType
  <2>. QED BY <2>1, <2>2
<1>2. CASE M \ C # {}
  <2>1. PICK x \in M : C = M \ {x}
    BY <1>2
  <2>2. Cardinality(M \ {x}) = Cardinality(M) - 1
    BY FS_RemoveElement
  <2>3. Cardinality(M) \in Nat
    BY FS_CardinalityType
  <2>. QED BY <2>1, <2>2, <2>3
<1>. QED BY <1>1, <1>2

\* An etcd that answers for a cluster is a connected member of it.
LEMMA ServingIsOnlyCluster ==
  ASSUME TypeOK, OnlyCluster, NEW c \in Cluster, Serving(c) PROVE c = I
<1>1. Connected(c) # {}
  <2> SUFFICES ASSUME Connected(c) = {} PROVE FALSE
    OBVIOUS
  <2>1. members[c] \subseteq Host
    BY DEF TypeOK
  <2>2. IsFiniteSet(members[c])
    BY <2>1, RoleAssumption, FS_Subset
  <2>3. Cardinality(members[c]) \in Nat
    BY <2>2, FS_CardinalityType
  <2>4. Cardinality({}) = 0
    BY FS_EmptySet
  <2>. QED BY <2>3, <2>4 DEF Serving
<1>2. PICK m \in members[c] : data[m] = c
  BY <1>1 DEF Connected
<1>3. m \in Host
  BY <1>2 DEF TypeOK
<1>. QED BY <1>2, <1>3 DEF OnlyCluster, Serving

\* An etcd without data that is not to bootstrap can only join that cluster.
LEMMA StartsInOnlyCluster ==
  ASSUME TypeOK, OnlyCluster, NoBootstrap, NEW h \in Host, NEW c \in StartsIn(h)
  PROVE  c = I /\ h \in members[I]
<1>1. CASE data[h] # {}
  BY <1>1 DEF StartsIn, OnlyCluster
<1>2. CASE data[h] = {}
  <2>1. /\ initial_cluster_state[h] = "existing"
        /\ c \in Cluster
        /\ members[c] = initial_cluster[h]
        /\ \E p \in Connected(c) : p # h
    BY <1>2 DEF StartsIn, NoBootstrap
  <2>2. h \in members[c]
    BY <2>1 DEF NoBootstrap
  <2>3. PICK p \in members[c] : data[p] = c
    BY <2>1 DEF Connected
  <2>4. p \in Host
    BY <2>1, <2>3 DEF TypeOK
  <2>5. c = I
    <3>1. c = {} => members[c] = {} \/ c = I
      BY <2>1 DEF OnlyCluster
    <3>. QED BY <2>2, <2>3, <2>4, <3>1 DEF OnlyCluster
  <2>. QED BY <2>2, <2>5
<1>. QED BY <1>1, <1>2
-----------------------------------------------------------------------------

\* A configuration file is only written with "new" for a host that has data.
LEMMA WriteConfigStep ==
  ASSUME TypeOK, NoBootstrap, NEW h \in Host, NEW peers \in SUBSET Host,
         h \in peers, WriteConfig(h, peers), UNCHANGED hostVars,
         data[h] = {} => etcd_cluster_is_healthy
  PROVE  NoBootstrap'
<1>1. /\ initial_cluster_state' = [initial_cluster_state EXCEPT ![h] =
            IF etcd_cluster_is_healthy THEN "existing" ELSE "new"]
      /\ initial_cluster' = [initial_cluster EXCEPT ![h] = peers]
  BY DEF WriteConfig
<1>2. data' = data
  BY DEF hostVars
<1> SUFFICES ASSUME NEW g \in Host
             PROVE  /\ data[g] = {} => initial_cluster_state'[g] # "new"
                    /\ initial_cluster_state'[g] = "existing" =>
                         g \in initial_cluster'[g]
  BY <1>2 DEF NoBootstrap
<1>3. CASE g = h
  BY <1>1, <1>3 DEF TypeOK
<1>4. CASE g # h
  BY <1>1, <1>4 DEF TypeOK, NoBootstrap
<1>. QED BY <1>3, <1>4

\* An etcd that starts keeps, or joins, the only cluster.
LEMMA StartStep ==
  ASSUME TypeOK, OnlyCluster, OneUnstarted, NoBootstrap, NEW h \in Host,
         NEW c \in StartsIn(h), Start(h, c), UNCHANGED <<members, fileVars>>,
         active \cup {h} = active'
  PROVE  OnlyCluster' /\ OneUnstarted' /\ NoBootstrap'
<1>1. c = I /\ h \in members[I]
  BY StartsInOnlyCluster
<1>2. data' = [data EXCEPT ![h] = I] /\ up' = up \cup {h}
  BY <1>1 DEF Start
<1>3. OnlyCluster'
  BY <1>1, <1>2 DEF TypeOK, OnlyCluster
<1>4. OneUnstarted'
  BY <1>1, <1>2 DEF TypeOK, OnlyCluster, OneUnstarted
<1>5. NoBootstrap'
  BY <1>2 DEF TypeOK, NoBootstrap, OnlyCluster, fileVars
<1>. QED BY <1>3, <1>4, <1>5

\* The inclusions of refresh_config.yml in a run that has a host to join render
\* "existing".
LEMMA ConfigActions ==
  ASSUME TypeOK, StaysOne, NEW h \in Host,
         RefreshConfig(h) \/ JoinRefreshConfig(h) \/ FinalRefreshConfig(h)
  PROVE  StaysOne'
<1> USE DEF StaysOne
<1>1. h \in etcd_group /\ UNCHANGED <<hostVars, etcd_group, etcd_cluster_is_healthy>>
  BY DEF RefreshConfig, JoinRefreshConfig, FinalRefreshConfig, AppliedTo, TypeOK,
         opVars
<1>2. pc \notin {"idle", "check"} /\ pc' \notin {"idle", "check"}
  BY DEF RefreshConfig, JoinRefreshConfig, FinalRefreshConfig, AppliedTo
<1>3. data[h] = {} => etcd_cluster_is_healthy
  BY <1>1, <1>2 DEF ScalingIsHealthy, Scaling
<1>4. NoBootstrap'
  <2>1. PICK peers \in SUBSET Host : h \in peers /\ WriteConfig(h, peers)
    BY <1>1 DEF RefreshConfig, JoinRefreshConfig, FinalRefreshConfig, TypeOK
  <2>. QED BY <1>1, <1>3, <2>1, WriteConfigStep
<1>5. OnlyCluster' /\ OneUnstarted'
  BY <1>1 DEF OnlyCluster, OneUnstarted, hostVars
<1>6. ScalingIsHealthy'
  BY <1>1, <1>2 DEF ScalingIsHealthy, HoldersUp, Scaling, hostVars
<1>. QED BY <1>4, <1>5, <1>6

\* Nothing that starts an etcd makes a second cluster.
LEMMA StartActions ==
  ASSUME TypeOK, StaysOne, NEW h \in Host,
         EnsureEtcdIsRunning(h) \/ JoinStart(h) \/ EtcdRestarts(h)
  PROVE  StaysOne'
<1> USE DEF StaysOne
<1>1. /\ UNCHANGED <<members, fileVars, etcd_group, etcd_cluster_is_healthy>>
      /\ pc' \in {"idle", "check"} => pc' = pc
      /\ pc \in {"idle", "check"} => pc' = pc
  BY DEF EnsureEtcdIsRunning, JoinStart, EtcdRestarts, AppliedTo, opVars, runVars
<1>2. /\ active' = active \cup {h}
      /\ UNCHANGED <<data, up>> \/ \E c \in StartsIn(h) : Start(h, c)
  BY DEF EnsureEtcdIsRunning, JoinStart, EtcdRestarts, StartService
<1>3. CASE UNCHANGED <<data, up>>
  <2>1. OnlyCluster' /\ OneUnstarted' /\ NoBootstrap'
    BY <1>1, <1>2, <1>3 DEF OnlyCluster, OneUnstarted, NoBootstrap, fileVars
  <2>2. ScalingIsHealthy'
    BY <1>1, <1>3 DEF ScalingIsHealthy, HoldersUp, Scaling
  <2>. QED BY <2>1, <2>2
<1>4. ASSUME NEW c \in StartsIn(h), Start(h, c) PROVE StaysOne'
  <2>1. OnlyCluster' /\ OneUnstarted' /\ NoBootstrap'
    BY <1>1, <1>2, <1>4, StartStep
  <2>2. c = I
    BY StartsInOnlyCluster
  <2>3. data' = [data EXCEPT ![h] = I] /\ up' = up \cup {h}
    BY <1>4, <2>2 DEF Start
  <2>4. Scaling' => Scaling
    BY <1>1, <2>3 DEF Scaling, TypeOK, OnlyCluster
  <2>5. ScalingIsHealthy'
    BY <1>1, <2>3, <2>4 DEF ScalingIsHealthy, HoldersUp, TypeOK
  <2>. QED BY <2>1, <2>5
<1>. QED BY <1>2, <1>3, <1>4

\* etcd accepts a new member only when all members are connected.
LEMMA MemberAddAction ==
  ASSUME TypeOK, StaysOne, NEW h \in Host, NEW c \in Cluster, MemberAdd(h, c)
  PROVE  StaysOne'
<1> USE DEF StaysOne
<1>1. c = I /\ I # {} /\ I \in Cluster
  BY ServingIsOnlyCluster DEF MemberAdd, AddSucceeds, Serving
<1>2. /\ UNCHANGED <<data, up, active, fileVars, etcd_group, etcd_cluster_is_healthy>>
      /\ pc = "join" /\ pc' = "join_refresh"
  BY DEF MemberAdd, opVars
<1>3. NoBootstrap' /\ ScalingIsHealthy'
  BY <1>2 DEF NoBootstrap, ScalingIsHealthy, Scaling, fileVars
<1>4. members'[I] = members[I] \cup {h}
      /\ \A d \in Cluster : d # I => members'[d] = members[d]
  BY <1>1 DEF MemberAdd, TypeOK
<1>5. OnlyCluster'
  BY <1>2, <1>4 DEF OnlyCluster
<1>6. CASE h \in members[I]
  BY <1>2, <1>3, <1>4, <1>5, <1>6 DEF OneUnstarted
<1>7. CASE h \notin members[I]
  <2>1. \A g \in members[I] : data[g] = I
    BY <1>1, <1>7 DEF MemberAdd, AddSucceeds, Connected
  <2>2. OneUnstarted'
    BY <1>1, <1>2, <1>4, <2>1 DEF OneUnstarted
  <2>. QED BY <1>3, <1>5, <2>2
<1>. QED BY <1>6, <1>7

\* etcd processes stop in a reload, or where no host waits to join.
LEMMA StopActions ==
  ASSUME TypeOK, StaysOne, ~EtcdMayBeDown, NEW h \in Host,
         ReloadEtcd(h) \/ EtcdCrashes(h)
  PROVE  StaysOne'
<1> USE DEF StaysOne
<1>1. /\ UNCHANGED <<data, members, fileVars, etcd_group, etcd_cluster_is_healthy>>
      /\ up' \subseteq up /\ active \subseteq active'
  BY DEF ReloadEtcd, EtcdCrashes, opVars, runVars
<1>2. OnlyCluster' /\ OneUnstarted' /\ NoBootstrap'
  BY <1>1 DEF OnlyCluster, OneUnstarted, NoBootstrap, fileVars
<1>3. CASE ReloadEtcd(h)
  BY <1>1, <1>2, <1>3 DEF ReloadEtcd, AppliedTo, ScalingIsHealthy, HoldersUp, Scaling
<1>4. CASE EtcdCrashes(h)
  BY <1>1, <1>2, <1>4 DEF EtcdCrashes, ScalingIsHealthy, HoldersUp, Scaling, runVars
<1>. QED BY <1>3, <1>4

\* By the time a run starts systemd has restarted the members it can.
LEMMA StartRunAction ==
  ASSUME TypeOK, StaysOne, ~EtcdMayBeDown, I # {}, NEW group, StartRun(group)
  PROVE  StaysOne' /\ HoldersUp'
<1> USE DEF StaysOne, HoldersUp
<1>1. UNCHANGED <<hostVars, fileVars>> /\ pc' = "check" /\ Settled
  BY DEF StartRun
<1>2. HoldersUp
  <2> SUFFICES ASSUME NEW h \in Host, data[h] = I PROVE h \in up
    OBVIOUS
  <2>1. StartsIn(h) = {I}
    BY DEF StartsIn
  <2>2. h \in active
    BY DEF OnlyCluster
  <2>. QED BY <1>1, <2>1, <2>2 DEF Settled
<1>3. OnlyCluster' /\ OneUnstarted' /\ NoBootstrap'
  BY <1>1 DEF OnlyCluster, OneUnstarted, NoBootstrap, fileVars, hostVars
<1>. QED BY <1>1, <1>2, <1>3 DEF ScalingIsHealthy, hostVars

\* With every started member running the cluster serves and is healthy.
LEMMA HoldersServe ==
  ASSUME TypeOK, OnlyCluster, OneUnstarted, Cardinality(I) >= 3, HoldersUp
  PROVE  I \in Cluster /\ I # {} /\ Serving(I) /\ Healthy(I)
<1>1. I \in Cluster /\ I \subseteq members[I] /\ members[I] \subseteq Host
  BY RoleAssumption DEF Cluster, OnlyCluster, TypeOK, I
<1>2. IsFiniteSet(members[I]) /\ Cardinality(members[I]) >= 3
  <2>1. IsFiniteSet(members[I])
    BY <1>1, RoleAssumption, FS_Subset
  <2>2. /\ Cardinality(I) \in Nat /\ Cardinality(members[I]) \in Nat
        /\ Cardinality(I) <= Cardinality(members[I])
    BY <1>1, <2>1, FS_Subset, FS_CardinalityType
  <2>. QED BY <2>1, <2>2
<1>3. \A g, h \in members[I] \ Connected(I) : g = h
  BY <1>1 DEF Connected, OnlyCluster, OneUnstarted, HoldersUp
<1>4. I # {}
  BY FS_EmptySet
<1>5. Serving(I)
  BY <1>2, <1>3, <1>4, AllButOneIsQuorum DEF Serving, Connected
<1>6. Healthy(I)
  BY <1>5 DEF Healthy, HoldersUp
<1>. QED BY <1>1, <1>4, <1>5, <1>6

\* So the health check cannot fail.
LEMMA CheckHealthAction ==
  ASSUME TypeOK, StaysOne, ~FlakyChecks, Cardinality(I) >= 3,
         NEW ok \in BOOLEAN, CheckHealth(ok)
  PROVE  StaysOne'
<1> USE DEF StaysOne
<1>1. /\ UNCHANGED <<hostVars, fileVars, etcd_group>> /\ pc = "check"
      /\ pc' = "refresh" /\ etcd_cluster_is_healthy' = ok /\ CheckResult(ok)
  BY DEF CheckHealth, opVars
<1>2. ASSUME Scaling PROVE ok
  <2>1. HoldersUp
    BY <1>1, <1>2 DEF ScalingIsHealthy
  <2>2. I \in Cluster /\ Healthy(I)
    BY <2>1, HoldersServe
  <2>3. \A g, h \in up : data[g] = data[h]
    BY DEF OnlyCluster
  <2>. QED BY <1>1, <2>2, <2>3 DEF CheckResult
<1>3. OnlyCluster' /\ OneUnstarted' /\ NoBootstrap'
  BY <1>1 DEF OnlyCluster, OneUnstarted, NoBootstrap, fileVars, hostVars
<1>4. ScalingIsHealthy'
  BY <1>1, <1>2 DEF ScalingIsHealthy, Scaling, hostVars
<1>. QED BY <1>3, <1>4

\* The tasks that register results, and the end of a run, leave the hosts alone.
LEMMA OtherActions ==
  ASSUME TypeOK, StaysOne,
         \/ WaitForEtcdCluster \/ CheckMember \/ JoinedAll \/ BackupEtcdData
         \/ WaitForEtcdUp \/ NothingNotified \/ TaskFails \/ Interrupt
         \/ \E h \in Host : EnsureMember(h)
         \/ UNCHANGED vars
  PROVE  StaysOne'
<1> USE DEF StaysOne
<1>1. UNCHANGED <<hostVars, fileVars, etcd_group>>
  BY DEF WaitForEtcdCluster, CheckMember, JoinedAll, BackupEtcdData, WaitForEtcdUp,
         NothingNotified, TaskFails, Interrupt, EnsureMember, opVars, vars
<1>2. OnlyCluster' /\ OneUnstarted' /\ NoBootstrap'
  BY <1>1 DEF OnlyCluster, OneUnstarted, NoBootstrap, fileVars, hostVars
<1>3. \/ pc' = "idle"
      \/ pc' \notin {"idle", "check"} /\ etcd_cluster_is_healthy' = TRUE
      \/ /\ pc \notin {"idle", "check"} /\ pc' \notin {"idle", "check"}
         /\ UNCHANGED etcd_cluster_is_healthy
      \/ UNCHANGED <<pc, etcd_cluster_is_healthy>>
  BY DEF WaitForEtcdCluster, CheckMember, JoinedAll, BackupEtcdData, WaitForEtcdUp,
         NothingNotified, TaskFails, Interrupt, EnsureMember, EndRun, vars, runVars
<1>4. ScalingIsHealthy'
  BY <1>1, <1>3 DEF ScalingIsHealthy, HoldersUp, Scaling, hostVars
<1>. QED BY <1>2, <1>4

\* The argument holds under these assumptions, in any sequence of runs,
\* interruptions and growing inventories.
LEMMA StaysInit == ASSUME Init, I # {} PROVE StaysOne
<1>1. \A h \in Host : data[h] = IF h \in I THEN I ELSE {}
  BY DEF Init, I
<1>2. \A c \in Cluster : members[c] = c
  BY DEF Init
<1>3. I \in Cluster /\ up = I /\ active = I /\ etcd_group = I /\ pc = "idle"
  BY RoleAssumption DEF Init, I, Cluster
<1>4. OnlyCluster
  BY <1>1, <1>2, <1>3 DEF OnlyCluster, Cluster
<1>5. OneUnstarted
  BY <1>1, <1>2, <1>3 DEF OneUnstarted, Cluster
<1>6. NoBootstrap
  BY RoleAssumption DEF Init, NoBootstrap
<1>7. ScalingIsHealthy
  BY <1>3 DEF ScalingIsHealthy
<1>. QED BY <1>4, <1>5, <1>6, <1>7 DEF StaysOne

LEMMA StaysStep ==
  ASSUME ~EtcdMayBeDown, ~FlakyChecks, Cardinality(I) >= 3,
         TypeOK, StaysOne, [Next]_vars
  PROVE  StaysOne'
<1>1. I # {}
  BY FS_EmptySet
<1>. QED
  BY <1>1, ConfigActions, StartActions, MemberAddAction, StopActions,
     StartRunAction, CheckHealthAction, OtherActions
  DEF Next, Controller

LEMMA StaysAlways ==
  ASSUME ~EtcdMayBeDown, ~FlakyChecks, Cardinality(InitMembers) >= 3
  PROVE  Spec => [](TypeOK /\ StaysOne)
<1>1. I # {} /\ Cardinality(I) >= 3
  BY FS_EmptySet DEF I
<1>2. Init => StaysOne
  BY <1>1, StaysInit
<1>3. TypeOK /\ StaysOne /\ [Next]_vars => StaysOne'
  BY <1>1, StaysStep
<1>. QED BY <1>2, <1>3, TypeCorrect, PTL DEF Spec

\* One cluster: where etcd processes do not die while a host waits to join and
\* the check does not fail by accident, a cluster of three or more members is
\* never joined by a second one, in any sequence of runs, interruptions and
\* growing inventories.
THEOREM ClusterStaysOne ==
  ASSUME ~EtcdMayBeDown, ~FlakyChecks, Cardinality(InitMembers) >= 3
  PROVE  Spec => []OneCluster
<1>1. StaysOne => OneCluster
  BY DEF StaysOne, OnlyCluster, OneCluster
<1>. QED BY <1>1, StaysAlways, PTL
-----------------------------------------------------------------------------
(* Hosts that join.  What follows also needs that the lookup of a member by  *)
(* its address finds no other one.                                           *)

OwnAddresses == \A h \in Host : MatchedBy[h] = {h}

JoinTasks == {"join", "join_refresh", "join_ensure", "join_start"}
LastTasks == {"main_refresh", "handlers", "reload", "wait_up"}

\* A run that has a host to join finds every started etcd running, until it
\* reloads those it has notified, and when it completes.
ScalingIsUp ==
  /\ completed => pc = "idle"
  /\ pc = "reload" => todo \subseteq notified
  /\ Scaling =>
       /\ completed \/ pc \notin {"idle", "reload", "wait_up"} => HoldersUp
       /\ pc \in {"reload", "wait_up"} =>
            \A h \in Host : data[h] = I => h \in up \cup notified

\* What the run has registered of the member list is the member list.
MembersKnown ==
  /\ members[I] \subseteq etcd_group
  /\ \A g, h \in joining : g = h
  /\ pc \notin {"join_refresh", "join_ensure", "join_start"} => joining = {}
  /\ Scaling =>
       /\ pc \in {"join", "join_start"} => etcd_member_in_cluster = members[I]
       /\ pc \in {"join_refresh", "join_ensure"} =>
            etcd_member_in_cluster \cup joining = members[I]
       /\ pc \in JoinTasks =>
            etcd_group \subseteq members[I] \cup todo /\ joining \subseteq members[I]
       /\ pc \in LastTasks \/ completed => etcd_group \subseteq members[I]

\* The configuration files that a run has rendered, and the units it has enabled.
Configured ==
  /\ pc \in {"in_cluster"} \cup JoinTasks \cup LastTasks => etcd_cluster_is_healthy
  /\ pc \in {"join_ensure", "join_start"} =>
       \A h \in joining : /\ initial_cluster_state[h] = "existing"
                          /\ initial_cluster[h] = etcd_member_in_cluster \cup {h}
  /\ \A h \in etcd_group :
       \/ pc = "main_refresh" /\ h \notin todo
       \/ pc \in LastTasks \ {"main_refresh"}
       \/ completed
       => initial_cluster_state[h] = "existing" /\ initial_cluster[h] = etcd_group
  /\ \A h \in etcd_group :
       \/ pc = "start" /\ h \notin todo
       \/ pc \in {"wait", "in_cluster"} \cup JoinTasks \cup LastTasks
       \/ completed
       => h \in active

JInv == ScalingIsUp /\ MembersKnown /\ Configured
-----------------------------------------------------------------------------

\* A step that is not the start of a run.
RunStep ==
  \/ Controller \/ Interrupt \/ UNCHANGED vars
  \/ \E h \in Host : EtcdRestarts(h) \/ EtcdCrashes(h)

\* Hosts only get data, and get it with their etcd running.
LEMMA HostsStep ==
  ASSUME TypeOK, StaysOne, RunStep
  PROVE  /\ UNCHANGED etcd_group /\ active \subseteq active'
         /\ \A h \in Host : \/ data'[h] = data[h]
                            \/ data[h] = {} /\ data'[h] = I /\ h \in up'
         /\ Scaling' => Scaling
<1> USE DEF StaysOne
<1>1. UNCHANGED etcd_group
  BY DEF RunStep, Controller, Interrupt, EtcdRestarts, EtcdCrashes, vars, opVars,
         CheckHealth, RefreshConfig, EnsureEtcdIsRunning, JoinRefreshConfig,
         EnsureMember, JoinStart, FinalRefreshConfig, ReloadEtcd, MemberAdd,
         WaitForEtcdCluster, CheckMember, JoinedAll, BackupEtcdData, WaitForEtcdUp,
         NothingNotified, TaskFails
<1>2. \/ UNCHANGED data /\ active \subseteq active'
      \/ \E h \in Host : /\ active' = active \cup {h}
                         /\ \/ UNCHANGED data
                            \/ \E c \in StartsIn(h) : Start(h, c)
  <2>1. ASSUME NEW h \in Host, EnsureEtcdIsRunning(h) \/ JoinStart(h) \/ EtcdRestarts(h)
        PROVE  /\ active' = active \cup {h}
               /\ UNCHANGED data \/ \E c \in StartsIn(h) : Start(h, c)
    BY <2>1 DEF EnsureEtcdIsRunning, JoinStart, EtcdRestarts, StartService
  <2>2. ASSUME NEW h \in Host,
               \/ RefreshConfig(h) \/ JoinRefreshConfig(h) \/ EnsureMember(h)
               \/ FinalRefreshConfig(h) \/ ReloadEtcd(h) \/ EtcdCrashes(h)
        PROVE  UNCHANGED data /\ active \subseteq active'
    BY <2>2 DEF RefreshConfig, JoinRefreshConfig, EnsureMember, FinalRefreshConfig,
                ReloadEtcd, EtcdCrashes, hostVars
  <2>3. ASSUME \/ \E ok \in BOOLEAN : CheckHealth(ok)
               \/ \E h \in Host, c \in Cluster : MemberAdd(h, c)
               \/ WaitForEtcdCluster \/ CheckMember \/ JoinedAll
               \/ BackupEtcdData \/ WaitForEtcdUp \/ NothingNotified
               \/ TaskFails \/ Interrupt \/ UNCHANGED vars
        PROVE  UNCHANGED data /\ active \subseteq active'
    BY <2>3 DEF CheckHealth, MemberAdd, WaitForEtcdCluster, CheckMember, JoinedAll,
                BackupEtcdData, WaitForEtcdUp, NothingNotified, TaskFails, Interrupt,
                hostVars, vars
  <2>. QED BY <2>1, <2>2, <2>3 DEF RunStep, Controller
<1>3. ASSUME NEW g \in Host, NEW c \in StartsIn(g), Start(g, c)
      PROVE  \A h \in Host : \/ data'[h] = data[h]
                             \/ data[h] = {} /\ data'[h] = I /\ h \in up'
  <2>1. c = I
    BY StartsInOnlyCluster
  <2>2. data' = [data EXCEPT ![g] = I] /\ g \in up'
    BY <1>3, <2>1 DEF Start
  <2>. QED BY <2>2 DEF TypeOK, OnlyCluster
<1>4. /\ active \subseteq active'
      /\ \A h \in Host : \/ data'[h] = data[h]
                         \/ data[h] = {} /\ data'[h] = I /\ h \in up'
  BY <1>2, <1>3
<1>5. Scaling' => Scaling
  BY <1>1, <1>4 DEF Scaling, TypeOK
<1>. QED BY <1>1, <1>4, <1>5

\* While a host waits to join, only the handler stops etcds, those it restarts.
LEMMA UpStep ==
  ASSUME ~EtcdMayBeDown, I # {}, TypeOK, StaysOne, ScalingIsUp, [Next]_vars
  PROVE  ScalingIsUp'
<1>1. ASSUME NEW group \in Inventories, StartRun(group) PROVE ScalingIsUp'
  BY <1>1, StartRunAction DEF ScalingIsUp, StartRun
<1>2. ASSUME NEW h \in Host, EtcdCrashes(h) PROVE ScalingIsUp'
  <2>1. ~Scaling' /\ UNCHANGED <<completed, pc, todo, notified>>
    BY <1>2 DEF EtcdCrashes, Scaling, opVars, runVars
  <2>. QED BY <2>1 DEF ScalingIsUp
<1>3. ASSUME NEW h \in Host, ReloadEtcd(h) PROVE ScalingIsUp'
  <2>1. /\ pc = "reload" /\ pc' \in {"reload", "wait_up"} /\ h \in todo
        /\ todo' \subseteq todo
        /\ UNCHANGED <<data, etcd_group, completed, notified>> /\ up' = up \ {h}
    BY <1>3 DEF ReloadEtcd, AppliedTo, opVars
  <2>2. h \in notified /\ ~completed
    BY <2>1 DEF ScalingIsUp
  <2>3. Scaling' = Scaling
    BY <2>1 DEF Scaling
  <2>. QED BY <2>1, <2>2, <2>3 DEF ScalingIsUp, HoldersUp
<1>4. ASSUME RunStep, up \subseteq up'
      PROVE  /\ HoldersUp => HoldersUp'
             /\ Scaling' => Scaling
             /\ UNCHANGED notified /\ (\A h \in Host : data[h] = I => h \in up \cup notified)
                  => \A h \in Host : data'[h] = I => h \in up' \cup notified'
  BY <1>4, HostsStep DEF HoldersUp
<1>5. ASSUME NEW h \in Host, EnsureEtcdIsRunning(h) \/ JoinStart(h) \/ EtcdRestarts(h)
      PROVE  ScalingIsUp'
  <2>1. RunStep /\ up \subseteq up' /\ UNCHANGED <<completed, notified>>
    BY <1>5 DEF RunStep, Controller, EnsureEtcdIsRunning, JoinStart, EtcdRestarts,
                StartService, Start, opVars, runVars
  <2>2. \/ /\ pc \notin {"idle", "reload", "wait_up"}
           /\ pc' \notin {"idle", "reload", "wait_up"}
        \/ UNCHANGED <<pc, todo>>
    BY <1>5 DEF EnsureEtcdIsRunning, JoinStart, EtcdRestarts, AppliedTo, runVars
  <2>. QED BY <1>4, <2>1, <2>2 DEF ScalingIsUp
<1>6. ASSUME \/ \E ok \in BOOLEAN : CheckHealth(ok)
             \/ \E h \in Host : \/ RefreshConfig(h) \/ JoinRefreshConfig(h)
                                \/ EnsureMember(h) \/ FinalRefreshConfig(h)
             \/ \E h \in Host, c \in Cluster : MemberAdd(h, c)
             \/ WaitForEtcdCluster \/ CheckMember \/ JoinedAll
      PROVE  ScalingIsUp'
  <2>1. RunStep
    BY <1>6 DEF RunStep, Controller
  <2>2. UNCHANGED <<up, completed>>
    BY <1>6 DEF CheckHealth, RefreshConfig, JoinRefreshConfig, EnsureMember,
                FinalRefreshConfig, MemberAdd, WaitForEtcdCluster, CheckMember,
                JoinedAll, hostVars, opVars
  <2>3. /\ pc \notin {"idle", "reload", "wait_up"}
        /\ pc' \notin {"idle", "reload", "wait_up"}
    BY <1>6 DEF CheckHealth, RefreshConfig, JoinRefreshConfig, EnsureMember,
                FinalRefreshConfig, MemberAdd, WaitForEtcdCluster, CheckMember,
                JoinedAll, AppliedTo
  <2>. QED BY <1>4, <2>1, <2>2, <2>3 DEF ScalingIsUp
<1>7. CASE BackupEtcdData
  <2>1. /\ RunStep /\ UNCHANGED <<up, completed, notified>>
        /\ pc = "handlers" /\ pc' = "reload" /\ todo' = notified
    BY <1>7 DEF RunStep, Controller, BackupEtcdData, hostVars, opVars
  <2>. QED BY <1>4, <2>1 DEF ScalingIsUp, HoldersUp
<1>8. ASSUME WaitForEtcdUp \/ NothingNotified PROVE ScalingIsUp'
  <2>1. /\ RunStep /\ UNCHANGED up /\ pc' = "idle"
        /\ \/ pc = "wait_up" /\ notified \subseteq up
           \/ pc = "handlers"
    BY <1>8 DEF RunStep, Controller, WaitForEtcdUp, NothingNotified, EndRun, hostVars, TypeOK
  <2>. QED BY <1>4, <2>1 DEF ScalingIsUp, HoldersUp
<1>9. ASSUME TaskFails \/ Interrupt PROVE ScalingIsUp'
  BY <1>9 DEF TaskFails, Interrupt, EndRun, ScalingIsUp
<1>10. CASE UNCHANGED vars
  <2>1. UNCHANGED <<data, up, etcd_group, completed, pc, todo, notified>>
    BY <1>10 DEF vars, hostVars, opVars, runVars
  <2>. QED BY <2>1 DEF ScalingIsUp, Scaling, HoldersUp
<1>. QED
  BY <1>1, <1>2, <1>3, <1>5, <1>6, <1>7, <1>8, <1>9, <1>10 DEF Next, Controller

\* The lookup is answered by the cluster, and for every host of the group.
LEMMA LookupAnswers ==
  ASSUME ~FlakyChecks, OwnAddresses, Cardinality(I) >= 3,
         TypeOK, StaysOne, HoldersUp, members[I] \subseteq etcd_group, CheckMember
  PROVE  etcd_member_in_cluster' = members[I] /\ todo' = etcd_group \ members[I]
<1> USE DEF StaysOne
<1>1. I \in Cluster /\ Serving(I)
  BY HoldersServe
<1>2. PICK found \in SUBSET etcd_group :
        /\ \E c \in Cluster :
             /\ Serving(c)
             /\ found = {h \in etcd_group : Listed(h, c)}
        /\ etcd_member_in_cluster' = found /\ todo' = etcd_group \ found
  BY <1>1 DEF CheckMember
<1>3. found = {h \in etcd_group : Listed(h, I)}
  BY <1>2, ServingIsOnlyCluster
<1>4. ASSUME NEW h \in etcd_group PROVE Listed(h, I) <=> h \in members[I]
  BY <1>1 DEF Listed, OwnAddresses, TypeOK
<1>. QED BY <1>2, <1>3, <1>4

\* What the run knows of the member list changes with the member list.
LEMMA KnownStep ==
  ASSUME ~EtcdMayBeDown, ~FlakyChecks, OwnAddresses, Cardinality(I) >= 3,
         TypeOK, StaysOne, ScalingIsUp, MembersKnown, [Next]_vars
  PROVE  MembersKnown'
<1>1. ASSUME NEW group \in Inventories, StartRun(group) PROVE MembersKnown'
  BY <1>1 DEF StartRun, MembersKnown, hostVars, JoinTasks, LastTasks
<1>2. ASSUME RunStep PROVE UNCHANGED etcd_group /\ (Scaling' => Scaling)
  BY <1>2, HostsStep
<1>3. ASSUME NEW h \in Host, NEW c \in Cluster, MemberAdd(h, c) PROVE MembersKnown'
  <2>1. RunStep
    BY <1>3 DEF RunStep, Controller
  <2>2. c = I
    BY <1>3, ServingIsOnlyCluster DEF MemberAdd, AddSucceeds, StaysOne
  <2>3. /\ members'[I] = members[I] \cup {h} /\ h \in etcd_group
        /\ joining' = {h} /\ pc = "join" /\ pc' = "join_refresh"
        /\ UNCHANGED <<todo, etcd_member_in_cluster, completed>>
    BY <1>3, <2>2 DEF MemberAdd, TypeOK, opVars
  <2>4. ~completed
    BY <2>3 DEF ScalingIsUp
  <2>. QED BY <1>2, <2>1, <2>3, <2>4 DEF MembersKnown, JoinTasks, LastTasks
<1>4. CASE CheckMember
  <2>1. /\ RunStep /\ pc = "in_cluster" /\ pc' = "join"
        /\ UNCHANGED <<members, joining, completed>>
    BY <1>4 DEF RunStep, Controller, CheckMember, hostVars, opVars
  <2>2. ~completed
    BY <2>1 DEF ScalingIsUp
  <2>3. ASSUME Scaling PROVE etcd_member_in_cluster' = members[I] /\ todo' = etcd_group \ members[I]
    BY <1>4, <2>1, <2>3, LookupAnswers DEF ScalingIsUp, MembersKnown
  <2>4. joining' = {}
    BY <2>1 DEF MembersKnown
  <2>. QED BY <1>2, <2>1, <2>2, <2>3, <2>4 DEF MembersKnown, JoinTasks, LastTasks
<1>5. ASSUME NEW h \in Host, JoinRefreshConfig(h) PROVE MembersKnown'
  <2>1. /\ RunStep /\ pc = "join_refresh" /\ pc' = "join_ensure"
        /\ UNCHANGED <<members, joining, todo, etcd_member_in_cluster, completed>>
    BY <1>5 DEF RunStep, Controller, JoinRefreshConfig, hostVars, opVars
  <2>2. ~completed
    BY <2>1 DEF ScalingIsUp
  <2>. QED BY <1>2, <2>1, <2>2 DEF MembersKnown, JoinTasks, LastTasks
<1>6. ASSUME NEW h \in Host, EnsureMember(h) PROVE MembersKnown'
  <2>1. /\ RunStep /\ pc = "join_ensure" /\ pc' = "join_start" /\ h \in joining
        /\ etcd_member_in_cluster' = etcd_member_in_cluster \cup {h}
        /\ UNCHANGED <<members, joining, todo, completed>>
    BY <1>6 DEF RunStep, Controller, EnsureMember, hostVars, opVars
  <2>2. ~completed
    BY <2>1 DEF ScalingIsUp
  <2>3. joining = {h}
    BY <2>1 DEF MembersKnown
  <2>. QED BY <1>2, <2>1, <2>2, <2>3 DEF MembersKnown, JoinTasks, LastTasks
<1>7. ASSUME NEW h \in Host, JoinStart(h) PROVE MembersKnown'
  <2>1. /\ RunStep /\ pc = "join_start" /\ pc' = "join" /\ h \in joining
        /\ joining' = {} /\ todo' = todo \ {h}
        /\ UNCHANGED <<members, etcd_member_in_cluster, completed>>
    BY <1>7 DEF RunStep, Controller, JoinStart, opVars
  <2>2. ~completed
    BY <2>1 DEF ScalingIsUp
  <2>. QED BY <1>2, <2>1, <2>2 DEF MembersKnown, JoinTasks, LastTasks
<1>8. CASE JoinedAll
  <2>1. /\ RunStep /\ pc = "join" /\ pc' = "main_refresh" /\ todo = {}
        /\ UNCHANGED <<members, joining, completed>>
    BY <1>8 DEF RunStep, Controller, JoinedAll, hostVars, opVars
  <2>. QED BY <1>2, <2>1 DEF MembersKnown, JoinTasks, LastTasks
<1>9. ASSUME \/ \E ok \in BOOLEAN : CheckHealth(ok)
             \/ \E h \in Host : RefreshConfig(h) \/ EnsureEtcdIsRunning(h)
             \/ WaitForEtcdCluster
      PROVE  MembersKnown'
  <2>1. /\ RunStep /\ UNCHANGED <<members, joining, completed>>
        /\ pc \in {"check", "refresh", "start", "wait"}
        /\ pc' \in {"refresh", "start", "wait", "in_cluster"}
    BY <1>9 DEF RunStep, Controller, CheckHealth, RefreshConfig, EnsureEtcdIsRunning,
                WaitForEtcdCluster, AppliedTo, hostVars, opVars
  <2>2. ~completed
    BY <2>1 DEF ScalingIsUp
  <2>. QED BY <1>2, <2>1, <2>2 DEF MembersKnown, JoinTasks, LastTasks
<1>10. ASSUME \/ \E h \in Host : FinalRefreshConfig(h) \/ ReloadEtcd(h)
              \/ BackupEtcdData
       PROVE  MembersKnown'
  <2>1. /\ RunStep /\ UNCHANGED <<members, joining, completed>>
        /\ pc \in LastTasks /\ pc' \in LastTasks
    BY <1>10 DEF RunStep, Controller, FinalRefreshConfig, ReloadEtcd, BackupEtcdData,
                 AppliedTo, hostVars, opVars, LastTasks
  <2>. QED BY <1>2, <2>1 DEF MembersKnown, JoinTasks, LastTasks
<1>11. ASSUME WaitForEtcdUp \/ NothingNotified \/ TaskFails \/ Interrupt
       PROVE  MembersKnown'
  <2>1. /\ RunStep /\ UNCHANGED members /\ pc' = "idle" /\ joining' = {}
        /\ completed' => pc \in LastTasks
    BY <1>11 DEF RunStep, Controller, WaitForEtcdUp, NothingNotified, TaskFails,
                 Interrupt, EndRun, hostVars, LastTasks
  <2>. QED BY <1>2, <2>1 DEF MembersKnown, JoinTasks, LastTasks
<1>12. ASSUME \/ \E h \in Host : EtcdRestarts(h) \/ EtcdCrashes(h)
              \/ UNCHANGED vars
       PROVE  MembersKnown'
  <2>1. /\ RunStep
        /\ UNCHANGED <<members, joining, completed, pc, todo, etcd_member_in_cluster>>
    BY <1>12 DEF RunStep, EtcdRestarts, EtcdCrashes, vars, hostVars, opVars, runVars
  <2>. QED BY <1>2, <2>1 DEF MembersKnown
<1>. QED
  BY <1>1, <1>3, <1>4, <1>5, <1>6, <1>7, <1>8, <1>9, <1>10, <1>11, <1>12
  DEF Next, Controller

\* The inclusions of refresh_config.yml, once the cluster has been waited for.
LEMMA WriteExisting ==
  ASSUME TypeOK, etcd_cluster_is_healthy, NEW h \in Host, NEW peers \in SUBSET Host,
         WriteConfig(h, peers)
  PROVE  /\ initial_cluster_state'[h] = "existing" /\ initial_cluster'[h] = peers
         /\ \A g \in Host \ {h} :
              /\ initial_cluster_state'[g] = initial_cluster_state[g]
              /\ initial_cluster'[g] = initial_cluster[g]
  BY DEF WriteConfig, TypeOK

\* What a run writes and enables on one host after the other is there when the
\* task has been applied to all of them.
LEMMA ConfiguredStep ==
  ASSUME TypeOK, StaysOne, ScalingIsUp, MembersKnown, Configured, [Next]_vars
  PROVE  Configured'
<1> USE DEF JoinTasks, LastTasks
<1>1. ASSUME NEW group \in Inventories, StartRun(group) PROVE Configured'
  BY <1>1 DEF StartRun, Configured
<1>2. ASSUME RunStep PROVE UNCHANGED etcd_group /\ active \subseteq active'
  BY <1>2, HostsStep
<1>3. completed => pc = "idle"
  BY DEF ScalingIsUp
<1>4. ASSUME \/ \E ok \in BOOLEAN : CheckHealth(ok)
             \/ \E h \in Host : RefreshConfig(h)
      PROVE  Configured'
  <2>1. /\ RunStep /\ UNCHANGED completed /\ pc # "idle"
        /\ \/ pc' = "refresh"
           \/ pc' = "start" /\ todo' = etcd_group
    BY <1>4 DEF RunStep, Controller, CheckHealth, RefreshConfig, AppliedTo, opVars
  <2>. QED BY <1>2, <1>3, <2>1 DEF Configured
<1>5. ASSUME NEW h \in Host, EnsureEtcdIsRunning(h) PROVE Configured'
  <2>1. /\ RunStep /\ UNCHANGED completed /\ pc = "start" /\ h \in active'
        /\ \/ pc' = "start" /\ todo' = todo \ {h}
           \/ pc' = "wait" /\ todo = {h}
    BY <1>5 DEF RunStep, Controller, EnsureEtcdIsRunning, StartService, AppliedTo, opVars
  <2>. QED BY <1>2, <1>3, <2>1 DEF Configured
<1>6. ASSUME WaitForEtcdCluster \/ CheckMember PROVE Configured'
  <2>1. /\ RunStep /\ UNCHANGED completed /\ etcd_cluster_is_healthy'
        /\ \/ pc = "wait" /\ pc' = "in_cluster"
           \/ pc = "in_cluster" /\ pc' = "join"
    BY <1>6 DEF RunStep, Controller, WaitForEtcdCluster, CheckMember, opVars, Configured
  <2>. QED BY <1>2, <1>3, <2>1 DEF Configured
<1>7. ASSUME \/ \E h \in Host, c \in Cluster : MemberAdd(h, c)
             \/ \E h \in Host : JoinStart(h)
             \/ JoinedAll
      PROVE  Configured'
  <2>1. /\ RunStep /\ UNCHANGED <<completed, etcd_cluster_is_healthy>> /\ pc \in JoinTasks
        /\ \/ pc' \in {"join", "join_refresh"}
           \/ pc' = "main_refresh" /\ todo' = etcd_group
    BY <1>7 DEF RunStep, Controller, MemberAdd, JoinStart, JoinedAll, opVars
  <2>. QED BY <1>2, <1>3, <2>1 DEF Configured
<1>8. ASSUME NEW h \in Host, JoinRefreshConfig(h) PROVE Configured'
  <2>1. /\ RunStep /\ UNCHANGED <<completed, etcd_cluster_is_healthy, joining>>
        /\ UNCHANGED etcd_member_in_cluster
        /\ pc = "join_refresh" /\ pc' = "join_ensure" /\ h \in joining
        /\ WriteConfig(h, (etcd_group \cap etcd_member_in_cluster) \cup {h})
    BY <1>8 DEF RunStep, Controller, JoinRefreshConfig, opVars
  <2>2. (etcd_group \cap etcd_member_in_cluster) \cup {h} = etcd_member_in_cluster \cup {h}
    BY DEF TypeOK
  <2>3. etcd_member_in_cluster \cup {h} \in SUBSET Host
    BY DEF TypeOK
  <2>4. etcd_cluster_is_healthy
    BY <2>1 DEF Configured
  <2>5. /\ initial_cluster_state'[h] = "existing"
        /\ initial_cluster'[h] = etcd_member_in_cluster \cup {h}
    BY <2>1, <2>2, <2>3, <2>4, WriteExisting
  <2>6. joining = {h}
    BY <2>1 DEF MembersKnown
  <2>. QED BY <1>2, <1>3, <2>1, <2>4, <2>5, <2>6 DEF Configured
<1>9. ASSUME NEW h \in Host, EnsureMember(h) PROVE Configured'
  <2>1. /\ RunStep /\ UNCHANGED <<completed, etcd_cluster_is_healthy, joining, fileVars>>
        /\ etcd_member_in_cluster' = etcd_member_in_cluster \cup {h}
        /\ pc = "join_ensure" /\ pc' = "join_start" /\ h \in joining
    BY <1>9 DEF RunStep, Controller, EnsureMember, opVars
  <2>2. joining = {h}
    BY <2>1 DEF MembersKnown
  <2>3. /\ initial_cluster_state'[h] = "existing"
        /\ initial_cluster'[h] = etcd_member_in_cluster' \cup {h}
    BY <2>1 DEF Configured, fileVars
  <2>. QED BY <1>2, <1>3, <2>1, <2>2, <2>3 DEF Configured
<1>10. ASSUME NEW h \in Host, FinalRefreshConfig(h) PROVE Configured'
  <2>1. /\ RunStep /\ UNCHANGED <<completed, etcd_cluster_is_healthy>>
        /\ pc = "main_refresh" /\ h \in todo
        /\ WriteConfig(h, etcd_group)
        /\ \/ pc' = "main_refresh" /\ todo' = todo \ {h}
           \/ pc' = "handlers" /\ todo = {h}
    BY <1>10 DEF RunStep, Controller, FinalRefreshConfig, AppliedTo, opVars
  <2>2. etcd_cluster_is_healthy /\ etcd_group \in SUBSET Host
    BY <2>1 DEF Configured, TypeOK
  <2>3. /\ initial_cluster_state'[h] = "existing" /\ initial_cluster'[h] = etcd_group
        /\ \A g \in etcd_group \ {h} :
             /\ initial_cluster_state'[g] = initial_cluster_state[g]
             /\ initial_cluster'[g] = initial_cluster[g]
    BY <2>1, <2>2, WriteExisting
  <2>4. \A g \in etcd_group : g \in active
    BY <2>1 DEF Configured
  <2>5. ASSUME NEW g \in etcd_group, pc' = "handlers" \/ g \notin todo'
        PROVE  initial_cluster_state'[g] = "existing" /\ initial_cluster'[g] = etcd_group
    BY <2>1, <2>3, <2>5 DEF Configured
  <2>. QED BY <1>2, <1>3, <2>1, <2>2, <2>4, <2>5 DEF Configured
<1>11. ASSUME BackupEtcdData \/ \E h \in Host : ReloadEtcd(h) PROVE Configured'
  <2>1. /\ RunStep /\ UNCHANGED <<completed, etcd_cluster_is_healthy, fileVars>>
        /\ pc \in {"handlers", "reload"} /\ pc' \in {"reload", "wait_up"}
    BY <1>11 DEF RunStep, Controller, BackupEtcdData, ReloadEtcd, AppliedTo, opVars
  <2>. QED BY <1>2, <1>3, <2>1 DEF Configured, fileVars
<1>12. ASSUME WaitForEtcdUp \/ NothingNotified \/ TaskFails \/ Interrupt
       PROVE  Configured'
  <2>1. /\ RunStep /\ UNCHANGED fileVars /\ pc' = "idle"
        /\ completed' => pc \in {"handlers", "wait_up"}
    BY <1>12 DEF RunStep, Controller, WaitForEtcdUp, NothingNotified, TaskFails,
                 Interrupt, EndRun
  <2>. QED BY <1>2, <1>3, <2>1 DEF Configured, fileVars
<1>13. ASSUME \/ \E h \in Host : EtcdRestarts(h) \/ EtcdCrashes(h)
              \/ UNCHANGED vars
       PROVE  Configured'
  <2>1. /\ RunStep
        /\ UNCHANGED <<fileVars, completed, pc, todo, joining, etcd_cluster_is_healthy,
                       etcd_member_in_cluster>>
    BY <1>13 DEF RunStep, EtcdRestarts, EtcdCrashes, vars, opVars, runVars
  <2>. QED BY <1>2, <2>1 DEF Configured, fileVars
<1>. QED
  BY <1>1, <1>4, <1>5, <1>6, <1>7, <1>8, <1>9, <1>10, <1>11, <1>12, <1>13
  DEF Next, Controller
-----------------------------------------------------------------------------

LEMMA JoinsInit == ASSUME Init, I # {} PROVE JInv
<1>1. /\ data = [h \in Host |-> IF h \in I THEN I ELSE {}]
      /\ I \in Cluster /\ members[I] = I /\ active = I /\ etcd_group = I
      /\ pc = "idle" /\ joining = {} /\ todo = {} /\ completed
  BY RoleAssumption DEF Init, I, Cluster
<1>2. \A h \in I : initial_cluster_state[h] = "existing" /\ initial_cluster[h] = I
  BY RoleAssumption DEF Init, I
<1>3. ~Scaling
  BY <1>1 DEF Scaling, Cluster
<1>4. ScalingIsUp
  BY <1>1, <1>3 DEF ScalingIsUp
<1>5. MembersKnown
  BY <1>1, <1>3 DEF MembersKnown
<1>6. Configured
  BY <1>1, <1>2 DEF Configured, JoinTasks, LastTasks
<1>. QED BY <1>4, <1>5, <1>6 DEF JInv

LEMMA JoinsAlways ==
  ASSUME ~EtcdMayBeDown, ~FlakyChecks, OwnAddresses, Cardinality(InitMembers) >= 3
  PROVE  Spec => [](TypeOK /\ StaysOne /\ JInv)
<1>1. I # {} /\ Cardinality(I) >= 3
  BY FS_EmptySet DEF I
<1>2. Init => JInv
  BY <1>1, JoinsInit
<1>3. TypeOK /\ StaysOne /\ JInv /\ [Next]_vars => JInv'
  BY <1>1, UpStep, KnownStep, ConfiguredStep DEF JInv
<1>. QED BY <1>2, <1>3, StaysAlways, PTL DEF Spec

\* The peer list that join_etcd_member.yml renders for a host that joins is the
\* member list of the cluster, in any sequence of joins, interrupted runs and
\* growing inventories.
THEOREM PeersAreMembers ==
  ASSUME ~EtcdMayBeDown, ~FlakyChecks, \A h \in Host : MatchedBy[h] = {h},
         Cardinality(InitMembers) >= 3
  PROVE  Spec => []JoinConfigIsMemberList
<1>1. TypeOK /\ StaysOne /\ JInv => JoinConfigIsMemberList
  <2> SUFFICES ASSUME TypeOK, StaysOne, JInv, pc \in {"join_ensure", "join_start"},
                      NEW h \in joining, NEW c \in Cluster, data[h] = {}, Serving(c)
               PROVE  initial_cluster_state[h] = "existing" /\ initial_cluster[h] = members[c]
    BY DEF JoinConfigIsMemberList
  <2>1. c = I
    BY ServingIsOnlyCluster DEF StaysOne
  <2>2. Scaling /\ joining = {h}
    BY DEF Scaling, TypeOK, JInv, MembersKnown
  <2>3. etcd_member_in_cluster \cup {h} = members[I]
    BY <2>2 DEF JInv, MembersKnown, JoinTasks
  <2>. QED BY <2>1, <2>3 DEF JInv, Configured
<1>. QED BY <1>1, JoinsAlways, PTL DEF OwnAddresses

\* A run that completes has made every host of the group a member, which runs or
\* which systemd can only start in that cluster, enabled and configured for the
\* whole group, whatever was interrupted before it.
THEOREM CompletedMeansJoined ==
  ASSUME ~EtcdMayBeDown, ~FlakyChecks, \A h \in Host : MatchedBy[h] = {h},
         Cardinality(InitMembers) >= 3
  PROVE  Spec => []CompletedRunJoinsAll
<1>1. I # {}
  BY FS_EmptySet DEF I
<1>2. TypeOK /\ StaysOne /\ JInv => CompletedRunJoinsAll
  <2> SUFFICES ASSUME TypeOK, StaysOne, JInv, completed, NEW h \in etcd_group
               PROVE  /\ h \in active
                      /\ \E c \in Cluster : StartsIn(h) = {c} /\ h \in members[c]
                      /\ initial_cluster_state[h] = "existing"
                      /\ initial_cluster[h] = etcd_group
    BY DEF CompletedRunJoinsAll
  <2> USE DEF StaysOne, JInv
  <2>1. /\ h \in active /\ h \in Host /\ I \in Cluster
        /\ initial_cluster_state[h] = "existing" /\ initial_cluster[h] = etcd_group
    BY RoleAssumption DEF Configured, TypeOK, Cluster, I
  <2>2. CASE data[h] = I
    <3>1. StartsIn(h) = {I} /\ h \in members[I]
      BY <1>1, <2>1, <2>2 DEF StartsIn, OnlyCluster
    <3>. QED BY <2>1, <3>1
  <2>3. CASE data[h] = {}
    <3>1. Scaling /\ HoldersUp /\ members[I] = etcd_group
      BY <2>3 DEF Scaling, ScalingIsUp, MembersKnown
    <3>2. StartsIn(h) = {c \in Cluster : members[c] = etcd_group /\ \E p \in Connected(c) : p # h}
      BY <2>1, <2>3 DEF StartsIn
    <3>3. PICK p \in I : TRUE
      BY <1>1
    <3>4. p \in Connected(I) /\ p # h
      BY <1>1, <2>1, <2>3, <3>1, <3>3 DEF Connected, OnlyCluster, HoldersUp, Cluster
    <3>5. I \in StartsIn(h)
      BY <2>1, <3>1, <3>2, <3>4
    <3>6. StartsIn(h) \subseteq {I}
      BY <2>1, StartsInOnlyCluster
    <3>. QED BY <2>1, <3>1, <3>5, <3>6
  <2>. QED BY <2>1, <2>2, <2>3 DEF OnlyCluster
<1>. QED BY <1>2, JoinsAlways, PTL DEF OwnAddresses
=============================================================================
