-------------------------- MODULE EtcdRepairProofs --------------------------
(***************************************************************************)
(* Proofs about EtcdRepair, for any hosts, names and bounds: any number of   *)
(* hosts that break, destroyed or not, of removals, recoveries and           *)
(* interrupted runs, and of clusters that were restored.                     *)
(*                                                                           *)
(* Types says what the plays know of the inventory at each task.  Three      *)
(* parts carry the rest: what a play has done to the copies of the data when *)
(* it is at a task (Copies), what it has made of the members (Roster), and   *)
(* that every majority of those who hold the data, or are about to start     *)
(* without it, has what was acknowledged last (Latest): majorities           *)
(* intersect, also across the removal and the addition of one member.        *)
(***************************************************************************)
EXTENDS EtcdRepair, FiniteSetTheorems, TLAPS

Types ==
  /\ TypeOK
  /\ stopped \cap dead = {} /\ target \subseteq group /\ group \cap broken = {}
  /\ pc # "idle" => group \cap dead = {}
  /\ pc \in RemovalTasks => first \notin target
  /\ pc \in {"health", "snapshot", "stop", "remove_first_data", "restore"} => id < MaxClusters

\* What is left of the data, at each task.
IsCopy(h) == data[h] # None /\ h \notin wiped \cup fresh

Copies ==
  /\ wiped \subseteq broken \cap up
  /\ \A h \in up : data[h] # None
  /\ pc \in {"remove_first_data", "restore", "remove_snapshot", "start"} => first \in stopped \ up
  /\ pc \in {"stop", "remove_first_data", "restore", "remove_snapshot"} => snapshot # None
  /\ pc \in {"remove_snapshot", "start"} => IsCopy(first)
  /\ \/ snapshot # None \/ IsCopy(first)
     \/ first \in dead /\ \E g \in group : Survives(g)

\* Members that were added and have not started.
Unstarted == {m \in members[id] : data[m] = None /\ m \in fresh}

\* Who the members are, at each task: the broken ones are in the list with their
\* names, those that a removal has lost track of have no data.
Roster ==
  /\ \A m \in members[id] \cap dead : data[m] = None /\ m \notin fresh
  /\ \A m \in members[id] \cap broken : Started(m)
  /\ \A m \in members[id] \ (group \cup broken) : data[m] = None
  /\ \A m, n \in Unstarted : m = n
  /\ \A g, h \in target : g = h
  /\ pc = "removed" => \A h \in target : data[h] = None
  /\ pc = "remove_members" => members[id] \cap broken \subseteq listed
  /\ pc \in {"remove_snapshot", "start"} => members[id] = {first}
  /\ pc \in {"cluster", "join", "join_start"} => members[id] \cap broken = {}
  /\ pc = "join" /\ group \subseteq members[id] => \A h \in group : data[h] # None
  /\ pc = "join_start" => \A h \in (group \cap members[id]) \ target : data[h] # None
  /\ CompletedRunRecovers

\* A host that was added without data is about to start.
Added == pc = "join_start" => \A h \in target : h \in members[id] /\ (data[h] = None => h \in fresh)

\* Every majority of the members that have data of the cluster, or start without
\* it, has what was acknowledged last.
Voters(c) == Holders(c) \cup (IF c = id THEN Unstarted ELSE {})

LatestOf(c) ==
  \A part \in SUBSET Voters(c) :
    IsMajority(part, c) => \E h \in part \cap Holders(c) : data[h].writes = committed[c]

Latest == \A c \in 1 .. id : LatestOf(c)

\* Members that etcdctl was asked about are broken, or the node to remove.
ListedRemovable ==
  /\ pc \in {"remove_members", "remove_others"} => listed \subseteq broken
  /\ pc = "remove" => listed \subseteq target
-----------------------------------------------------------------------------
(* Types.                                                                    *)

\* All founders are in the group, and no play is under way.
LEMMA TypesInit == Init => Types
<1>1. SUFFICES ASSUME Init PROVE Types
  OBVIOUS
<1>2. 1 \in 1 .. MaxClusters /\ {0, 1} \subseteq 0 .. MaxClusters
  BY RepairAssumption
<1>3. data \in [Host -> Log] /\ snapshot \in Log
  BY <1>1, <1>2 DEF Init, Log, None
<1>4. TypeOK
  BY <1>1, <1>2, <1>3, RepairAssumption DEF Init, TypeOK, RemovalTasks
<1>5. QED
  BY <1>1, <1>4 DEF Init, Types, RemovalTasks

\* The clusters that there have been.
LEMMA ClusterType ==
  ASSUME Types, NEW c \in 1 .. id
  PROVE  c \in 1 .. MaxClusters /\ members[c] \in SUBSET Host /\ committed[c] \in Nat
<1>1. MaxClusters \in Nat /\ id \in 1 .. MaxClusters
  BY RepairAssumption DEF Types, TypeOK
<1>2. c \in 1 .. MaxClusters
  BY <1>1
<1>3. QED
  BY <1>2 DEF Types, TypeOK

\* The history is two booleans.
LEMMA BooleanType == Types => {lost, completed} \subseteq BOOLEAN
BY DEF Types, TypeOK

\* What is logged is data of a cluster that there is.
LEMMA LoggedType ==
  ASSUME Types, NEW c \in 1 .. id, NEW part, NEW w \in Nat
  PROVE  Logged(c, part, w) \in [Host -> Log]
<1>1. c \in 0 .. MaxClusters
  BY ClusterType
<1>2. [cluster |-> c, writes |-> w] \in Log
  BY <1>1 DEF Log
<1>3. QED
  BY <1>2 DEF Types, TypeOK, Logged

\* The removal of a member changes its data, and what the others have to log.
LEMMA RemovalType ==
  ASSUME Types, NEW m, RemoveMember(m)
  PROVE  /\ data' \in [Host -> Log] /\ members' \in [1 .. MaxClusters -> SUBSET Host]
         /\ up' \subseteq up /\ wiped' \subseteq wiped /\ fresh' \subseteq fresh
<1>1. PICK part \in Quorums(id) :
        /\ data' = [h \in Host |-> IF h \notin {m} \cap Holders(id) THEN Logged(id, part, committed[id])[h]
                                   ELSE IF h \in wiped THEN None ELSE Retired]
        /\ fresh' = fresh \ part
  BY DEF RemoveMember
<1>2. id \in 1 .. id /\ committed[id] \in Nat /\ 0 \in 0 .. MaxClusters
  BY RepairAssumption DEF Types, TypeOK
<1>3. Logged(id, part, committed[id]) \in [Host -> Log]
  BY <1>2, LoggedType
<1>4. None \in Log /\ Retired \in Log
  BY <1>2 DEF None, Retired, Log
<1>5. data' \in [Host -> Log]
  BY <1>1, <1>3, <1>4
<1>6. QED
  BY <1>1, <1>5 DEF RemoveMember, Types, TypeOK

\* Every step keeps the types.
LEMMA TypesStep ==
  ASSUME Types, [Next]_vars
  PROVE  Types'
<1> USE DEF disks, units, clusters, history, inventory, play, counters, Goto, EndRun, RemovalTasks
<1>a. MaxClusters \in Nat /\ None \in Log
  BY RepairAssumption DEF None, Log
<1>1. CASE UNCHANGED vars
  BY <1>a, <1>1 DEF vars, Types, TypeOK
<1>2. CASE Write
  <2>1. PICK c \in 1 .. id : \E part \in Quorums(c) :
          /\ data' = Logged(c, part, committed[c] + 1)
          /\ committed' = [committed EXCEPT ![c] = committed[c] + 1] /\ fresh' = fresh \ part
    BY <1>2 DEF Write
  <2>2. c \in 1 .. MaxClusters /\ committed[c] + 1 \in Nat
    BY ClusterType
  <2>3. data' \in [Host -> Log]
    BY <2>1, <2>2, LoggedType
  <2>4. committed' \in [1 .. MaxClusters -> Nat] /\ fresh' \subseteq Host
    BY <2>1, <2>2 DEF Types, TypeOK
  <2>5. QED
    BY <2>3, <2>4, <1>2 DEF Write, Types, TypeOK
<1>3. ASSUME NEW h \in Host, CatchUp(h) PROVE Types'
  <2>1. data[h] \in Log /\ data[h].cluster \in 1 .. MaxClusters
    BY <1>3 DEF CatchUp, Types, TypeOK, Log
  <2>2. committed[data[h].cluster] \in Nat
    BY <2>1 DEF Types, TypeOK
  <2>3. [data[h] EXCEPT !.writes = committed[data[h].cluster]] \in Log
    BY <2>1, <2>2 DEF Log
  <2>4. data' \in [Host -> Log]
    BY <2>3, <1>3 DEF CatchUp, Types, TypeOK
  <2>5. QED
    BY <2>4, <1>3 DEF CatchUp, Types, TypeOK
<1>4. ASSUME NEW h \in Host, Stop(h) PROVE Types'
  <2>1. data' \in [Host -> Log]
    BY <1>a, <1>4 DEF Stop, Types, TypeOK
  <2>2. QED
    BY <2>1, <1>4 DEF Stop, Types, TypeOK
<1>5. ASSUME NEW h \in Host, Restart(h) PROVE Types'
  <2>1. data' \in [Host -> Log] /\ fresh' \subseteq Host /\ wiped' = wiped
    <3>1. id \in 0 .. MaxClusters
      BY <1>a DEF Types, TypeOK
    <3>2. [cluster |-> id, writes |-> 0] \in Log
      BY <3>1 DEF Log
    <3>3. QED
      BY <3>2, <1>5 DEF Restart, Types, TypeOK
  <2>2. QED
    BY <2>1, <1>5 DEF Restart, Types, TypeOK
<1>6. ASSUME NEW h \in Host, Disaster(h) PROVE Types'
  <2>1. {lost', completed'} \subseteq BOOLEAN
    BY <1>6, Zenon DEF Disaster
  <2>2. data' \in [Host -> Log] /\ snapshot' \in Log
    BY <1>a, <1>6 DEF Disaster, Types, TypeOK
  <2>3. /\ pc = "idle" /\ dead' = dead \cup {h} /\ up' = up \ {h} /\ stopped' = stopped \ {h} /\ wiped' \subseteq wiped
        /\ UNCHANGED <<fresh, clusters, inventory, play>>
    BY <1>6 DEF Disaster
  <2>4. QED
    BY <2>1, <2>2, <2>3 DEF Types, TypeOK
<1>7. CASE Provision
  <2>1. PICK new \in SUBSET (Host \ group), moved \in SUBSET group : Replace(new, moved)
    BY <1>7 DEF Provision
  <2>2. {lost', completed'} \subseteq BOOLEAN /\ snapshot' \in {snapshot, None}
    BY <2>1, Zenon DEF Replace
  <2>3. first' \in group \ moved /\ first' \notin dead
    BY <2>1 DEF Replace, Survives
  <2>4. /\ group' = (group \ (dead \cup moved)) \cup new /\ broken' = broken \cup (group \cap dead) \cup moved
        /\ new \cap broken = {}
    BY <2>1 DEF Replace
  <2>5. group' \subseteq Host /\ broken' \subseteq Host /\ group' \cap broken' = {} /\ first' \in group' /\ snapshot' \in Log
    BY <1>a, <2>2, <2>3, <2>4 DEF Types, TypeOK
  <2>6. UNCHANGED <<disks, units, dead, clusters, play, listed, target>> /\ pc = "idle"
    BY <2>1, <1>7 DEF Replace, Provision, play
  <2>7. target = {} /\ target' = {}
    BY <2>6 DEF Types, TypeOK
  <2>8. TypeOK'
    BY <2>2, <2>5, <2>6, <2>7 DEF Types, TypeOK
  <2>9. QED
    BY <2>5, <2>6, <2>7, <2>8 DEF Types
<1>8. ASSUME NEW h \in Host, OperatorStarts(h) PROVE Types'
  BY <1>a, <1>8 DEF OperatorStarts, Types, TypeOK
<1>9. ASSUME NEW h \in Host, StartRemoval(h) PROVE Types'
  BY <1>a, <1>9 DEF StartRemoval, Types, TypeOK
<1>10. CASE StartRecovery
  BY <1>a, <1>10 DEF StartRecovery, Types, TypeOK
<1>11. CASE CheckHealth
  BY <1>a, <1>11 DEF CheckHealth, Types, TypeOK
<1>12. CASE SaveSnapshot
  BY <1>a, <1>12 DEF SaveSnapshot, Types, TypeOK
<1>13. CASE TransferSnapshot
  BY <1>a, <1>13 DEF TransferSnapshot, Types, TypeOK
<1>14. CASE StopEtcd
  BY <1>a, <1>14 DEF StopEtcd, Types, TypeOK
<1>15. CASE RemoveFirstData
  BY <1>a, <1>15 DEF RemoveFirstData, Types, TypeOK
<1>16. CASE RestoreSnapshot
  <2>1. id + 1 \in 1 .. MaxClusters /\ id + 1 \in 0 .. MaxClusters
    BY <1>a, <1>16 DEF RestoreSnapshot, Types, TypeOK
  <2>2. snapshot.writes \in Nat /\ first \in Host
    BY DEF Types, TypeOK, Log
  <2>3. data' \in [Host -> Log]
    BY <2>1, <2>2, <1>16 DEF RestoreSnapshot, Types, TypeOK, Log
  <2>4. members' \in [1 .. MaxClusters -> SUBSET Host] /\ committed' \in [1 .. MaxClusters -> Nat]
    BY <2>1, <2>2, <1>16 DEF RestoreSnapshot, Types, TypeOK
  <2>5. /\ id' = id + 1 /\ fresh' \subseteq fresh /\ lost' = FALSE /\ pc' = "remove_snapshot"
        /\ UNCHANGED <<wiped, up, stopped, dead, completed, group, first, broken, listed, target, snapshot>>
        /\ pc = "restore"
    BY <1>16 DEF RestoreSnapshot
  <2>6. {lost', completed'} \subseteq BOOLEAN
    BY <2>5, BooleanType
  <2>7. id' \in 1 .. MaxClusters
    BY <2>1, <2>5
  <2>8. TypeOK'
    BY <2>3, <2>4, <2>5, <2>6, <2>7 DEF Types, TypeOK
  <2>9. QED
    BY <2>5, <2>8 DEF Types
<1>17. CASE RemoveSnapshot
  BY <1>a, <1>17 DEF RemoveSnapshot, Types, TypeOK
<1>18. CASE StartEtcd
  BY <1>a, <1>18 DEF StartEtcd, Types, TypeOK
<1>19. CASE RemoveBrokenData
  BY <1>a, <1>19 DEF RemoveBrokenData, Types, TypeOK
<1>20. CASE ListMembers
  BY <1>a, <1>20 DEF ListMembers, Types, TypeOK
<1>21. ASSUME NEW m \in Host, RemoveBrokenMember(m) PROVE Types'
  <2>1. RemoveMember(m)
    BY <1>21 DEF RemoveBrokenMember
  <2>2. QED
    BY <2>1, <1>21, RemovalType DEF RemoveBrokenMember, Types, TypeOK
<1>22. ASSUME NEW m \in Host, RemovalRefused(m) PROVE Types'
  BY <1>a, <1>22 DEF RemovalRefused, Types, TypeOK
<1>23. CASE MembersRemoved
  BY <1>a, <1>23 DEF MembersRemoved, Types, TypeOK
<1>24. CASE StartMembers
  <2>1. PICK joining \in SUBSET group :
          /\ data' = [h \in Host |-> IF h \in joining THEN [cluster |-> id, writes |-> 0] ELSE data[h]]
          /\ fresh' = fresh \cup joining /\ up' = up \cup joining
    BY <1>24 DEF StartMembers
  <2>2. id \in 0 .. MaxClusters
    BY <1>a DEF Types, TypeOK
  <2>3. [cluster |-> id, writes |-> 0] \in Log
    BY <2>2 DEF Log
  <2>4. data' \in [Host -> Log]
    BY <2>1, <2>3 DEF Types, TypeOK
  <2>5. QED
    BY <2>1, <2>4, <1>24 DEF StartMembers, Types, TypeOK
<1>25. ASSUME NEW h \in Host, MemberAdd(h) PROVE Types'
  <2>1. PICK part \in Quorums(id) :
          data' = Logged(id, part, committed[id]) /\ fresh' = (fresh \ part) \cup {g \in {h} : data[g] = None}
    BY <1>25 DEF MemberAdd
  <2>2. id \in 1 .. id /\ committed[id] \in Nat
    BY <1>a DEF Types, TypeOK
  <2>3. data' \in [Host -> Log]
    BY <2>1, <2>2, LoggedType
  <2>4. fresh' \subseteq Host /\ members' \in [1 .. MaxClusters -> SUBSET Host]
    BY <2>1, <1>25 DEF MemberAdd, Types, TypeOK
  <2>5. QED
    BY <2>3, <2>4, <1>25 DEF MemberAdd, Types, TypeOK
<1>26. ASSUME NEW h \in Host, StartMember(h) PROVE Types'
  <2>1. id \in 0 .. MaxClusters
    BY <1>a DEF Types, TypeOK
  <2>2. [cluster |-> id, writes |-> 0] \in Log
    BY <2>1 DEF Log
  <2>3. data' \in [Host -> Log]
    BY <2>2, <1>26 DEF StartMember, Types, TypeOK
  <2>4. QED
    BY <2>3, <1>26 DEF StartMember, Types, TypeOK
<1>27. CASE RunCompletes
  <2>1. {lost', completed'} \subseteq BOOLEAN
    BY <1>27, BooleanType DEF RunCompletes
  <2>2. /\ pc' = "idle" /\ listed' = {} /\ target' = {}
        /\ UNCHANGED <<disks, units, dead, clusters, inventory, snapshot>>
    BY <1>27 DEF RunCompletes
  <2>3. QED
    BY <2>1, <2>2 DEF Types, TypeOK
<1>28. CASE TaskFails
  <2>1. {lost', completed'} \subseteq BOOLEAN
    BY <1>28, BooleanType DEF TaskFails
  <2>2. /\ pc' = "idle" /\ listed' = {} /\ target' = {}
        /\ UNCHANGED <<disks, units, dead, clusters, inventory, snapshot>>
    BY <1>28 DEF TaskFails
  <2>3. QED
    BY <2>1, <2>2 DEF Types, TypeOK
<1>29. CASE LookupMember
  BY <1>a, <1>29 DEF LookupMember, Types, TypeOK
<1>30. CASE RemoveFromCluster
  <2>1. /\ data' \in [Host -> Log] /\ members' \in [1 .. MaxClusters -> SUBSET Host]
        /\ up' \subseteq up /\ wiped' \subseteq wiped /\ fresh' \subseteq fresh
    <3>1. CASE listed = {}
      BY <3>1, <1>30 DEF RemoveFromCluster, Types, TypeOK
    <3>2. CASE listed # {}
      <4>1. PICK m : RemoveMember(m)
        BY <3>2, <1>30 DEF RemoveFromCluster
      <4>2. QED
        BY <4>1, RemovalType
    <3>3. QED
      BY <3>1, <3>2
  <2>2. QED
    BY <2>1, <1>30 DEF RemoveFromCluster, Types, TypeOK
<1>31. CASE ResetHost
  <2>1. lost' \in BOOLEAN
    BY <1>31, Zenon DEF ResetHost
  <2>2. data' \in [Host -> Log]
    BY <1>a, <1>31 DEF ResetHost, Types, TypeOK
  <2>3. QED
    BY <2>1, <2>2, <1>31 DEF ResetHost, Types, TypeOK
<1>32. CASE Removed
  <2>1. {lost', completed'} \subseteq BOOLEAN
    BY <1>32, BooleanType DEF Removed
  <2>2. /\ pc' = "idle" /\ listed' = {} /\ target' = {}
        /\ UNCHANGED <<disks, units, dead, clusters, first, broken, snapshot>>
    BY <1>32 DEF Removed
  <2>3. group' \subseteq group /\ first' \in group'
    BY <1>32 DEF Removed, Types, TypeOK
  <2>4. QED
    BY <2>1, <2>2, <2>3 DEF Types, TypeOK
<1>33. CASE Interrupt
  <2>1. {lost', completed'} \subseteq BOOLEAN
    BY <1>33, BooleanType DEF Interrupt
  <2>2. /\ pc' = "idle" /\ listed' = {} /\ target' = {}
        /\ UNCHANGED <<disks, units, dead, clusters, inventory, snapshot>>
    BY <1>33 DEF Interrupt
  <2>3. QED
    BY <2>1, <2>2 DEF Types, TypeOK
<1> QED
  BY <1>1, <1>2, <1>3, <1>4, <1>5, <1>6, <1>7, <1>8, <1>9, <1>10, <1>11, <1>12, <1>13, <1>14,
      <1>15, <1>16, <1>17, <1>18, <1>19, <1>20, <1>21, <1>22, <1>23, <1>24, <1>25, <1>26, <1>27,
      <1>28, <1>29, <1>30, <1>31, <1>32, <1>33 DEF Next, Recovery, Removal
-----------------------------------------------------------------------------
(* Copies of the data.                                                       *)

\* All founders have the data.
LEMMA CopiesInit == Init => Copies
BY RepairAssumption DEF Init, Copies, IsCopy, None

\* What is logged is no less a copy, and on hosts that run.
LEMMA LoggedCopies ==
  ASSUME Types, Copies, NEW c \in 1 .. id, NEW part \in Quorums(c), NEW w \in Nat, NEW h \in Host
  PROVE  /\ data[h] # None => Logged(c, part, w)[h] # None
         /\ h \notin part => Logged(c, part, w)[h] = data[h]
<1>1. [cluster |-> c, writes |-> w] # None
  BY DEF None
<1>2. QED
  BY <1>1 DEF Logged

\* The removal of a member leaves its data, unless the directory was removed.
LEMMA RemovalCopies ==
  ASSUME Types, Copies, NEW m, RemoveMember(m), UNCHANGED <<first, group, broken, dead, snapshot>>
  PROVE  /\ wiped' \subseteq broken' \cap up'
         /\ \A h \in up' : data'[h] # None
         /\ IsCopy(first) => IsCopy(first)'
         /\ up' \subseteq up
<1>1. PICK part \in Quorums(id) :
        /\ data' = [h \in Host |-> IF h \notin {m} \cap Holders(id) THEN Logged(id, part, committed[id])[h]
                                   ELSE IF h \in wiped THEN None ELSE Retired]
        /\ fresh' = fresh \ part
  BY DEF RemoveMember
<1>2. wiped' = wiped \ ({m} \cap Holders(id)) /\ up' = up \ ({m} \cap Holders(id))
  BY DEF RemoveMember
<1>3. id \in 1 .. id /\ committed[id] \in Nat
  BY RepairAssumption DEF Types, TypeOK
<1>4. \A h \in Host : data[h] # None /\ (h \in {m} \cap Holders(id) => h \notin wiped) => data'[h] # None
  <2>1. Retired # None
    BY DEF Retired, None
  <2>2. QED
    BY <1>1, <1>3, <2>1, LoggedCopies
<1>5. wiped \cap group = {} /\ first \in group /\ first \in Host
  BY DEF Types, TypeOK, Copies
<1>6. IsCopy(first) => IsCopy(first)'
  BY <1>1, <1>2, <1>4, <1>5 DEF IsCopy
<1>7. \A h \in up' : data'[h] # None
  BY <1>2, <1>4 DEF Copies, Types, TypeOK
<1>8. QED
  BY <1>2, <1>6, <1>7 DEF Copies

\* No task and no failure takes the last copy.
LEMMA CopiesStep ==
  ASSUME Types, Copies, [Next]_vars
  PROVE  Copies'
<1> USE DEF disks, units, clusters, history, inventory, play, counters, Goto, EndRun, RemovalTasks
<1>1. CASE \/ UNCHANGED vars \/ StartRecovery \/ CheckHealth \/ TransferSnapshot \/ ListMembers
           \/ MembersRemoved \/ LookupMember
  BY <1>1 DEF vars, StartRecovery, CheckHealth, TransferSnapshot, ListMembers, MembersRemoved,
      LookupMember, Types, TypeOK, Copies, IsCopy, Survives, HasData, None
<1>2. CASE \/ Interrupt \/ TaskFails \/ RunCompletes \/ Removed
  BY <1>2 DEF Interrupt, TaskFails, RunCompletes, Removed, Types, TypeOK, Copies, IsCopy,
      Survives, HasData, None
<1>3. CASE Write
  <2>1. PICK c \in 1 .. id : \E part \in Quorums(c) :
          data' = Logged(c, part, committed[c] + 1) /\ fresh' = fresh \ part
    BY <1>3 DEF Write
  <2>2. PICK part \in Quorums(c) : data' = Logged(c, part, committed[c] + 1) /\ fresh' = fresh \ part
    BY <2>1
  <2>3. committed[c] + 1 \in Nat
    BY ClusterType
  <2>4. \A h \in Host : (data[h] # None => data'[h] # None) /\ (HasData(h) => HasData(h)')
    BY <2>2, <2>3, LoggedCopies DEF Logged, HasData
  <2>5. QED
    BY <2>2, <2>4, <1>3 DEF Write, Types, TypeOK, Copies, IsCopy, Survives
<1>4. ASSUME NEW h \in Host, CatchUp(h) PROVE Copies'
  <2>1. \A g \in Host : data'[g].cluster = data[g].cluster /\ (data[g] # None => data'[g] # None)
    BY <1>4 DEF CatchUp, Types, TypeOK, Log, None
  <2>2. fresh' \subseteq fresh
    BY <1>4 DEF CatchUp
  <2>3. QED
    BY <2>1, <2>2, <1>4 DEF CatchUp, Types, TypeOK, Copies, IsCopy, Survives, HasData
<1>5. ASSUME NEW h \in Host, Stop(h) PROVE Copies'
  BY <1>5 DEF Stop, Types, TypeOK, Copies, IsCopy, Survives, HasData, None
<1>6. ASSUME NEW h \in Host, Restart(h) PROVE Copies'
  BY <1>6 DEF Restart, Types, TypeOK, Copies, IsCopy, Survives, HasData, None
<1>7. ASSUME NEW h \in Host, Disaster(h) PROVE Copies'
  <2>1. PICK g \in group \ {h} : Survives(g)
    BY <1>7 DEF Disaster
  <2>2. Survives(g)' /\ g \in group'
    BY <2>1, <1>7 DEF Disaster, Types, TypeOK, Survives, HasData
  <2>3. (IsCopy(first) /\ first # h) => IsCopy(first)'
    BY <1>7 DEF Disaster, Types, TypeOK, IsCopy
  <2>4. (snapshot # None /\ first # h) => snapshot' # None
    BY <1>7 DEF Disaster
  <2>5. \/ snapshot' # None \/ IsCopy(first)'
        \/ first' \in dead' /\ \E x \in group' : Survives(x)'
    BY <2>2, <2>3, <2>4, <1>7 DEF Disaster, Copies
  <2>6. QED
    BY <2>5, <1>7 DEF Disaster, Types, TypeOK, Copies, IsCopy
<1>8. CASE Provision
  <2>1. PICK new \in SUBSET (Host \ group), moved \in SUBSET group : Replace(new, moved)
    BY <1>8 DEF Provision
  <2>2. first' \in group \ moved /\ Survives(first')
    BY <2>1 DEF Replace
  <2>3. IsCopy(first)'
    BY <2>1, <2>2 DEF Replace, Survives, HasData, IsCopy, None, Types, TypeOK
  <2>4. broken \subseteq broken'
    BY <2>1 DEF Replace
  <2>5. pc' = "idle" /\ UNCHANGED <<data, wiped, up>>
    BY <2>1, <1>8 DEF Provision, Replace, play
  <2>6. QED
    BY <2>3, <2>4, <2>5 DEF Copies
<1>9. ASSUME NEW h \in Host, OperatorStarts(h) PROVE Copies'
  BY <1>9 DEF OperatorStarts, Types, TypeOK, Copies, IsCopy, Survives, HasData, None
<1>10. ASSUME NEW h \in Host, StartRemoval(h) PROVE Copies'
  BY <1>10 DEF StartRemoval, Types, TypeOK, Copies, IsCopy, Survives, HasData, None
<1>11. CASE SaveSnapshot
  BY <1>11 DEF SaveSnapshot, Types, TypeOK, Copies, IsCopy, Survives, HasData, None
<1>12. CASE StopEtcd
  BY <1>12 DEF StopEtcd, Types, TypeOK, Copies, IsCopy, Survives, HasData, None
<1>13. CASE RemoveFirstData
  BY <1>13 DEF RemoveFirstData, Types, TypeOK, Copies, IsCopy, Survives, HasData, None
<1>14. CASE RestoreSnapshot
  <2>1. /\ wiped \subseteq broken /\ first \notin wiped /\ first \in Host /\ id + 1 # 0
    BY RepairAssumption DEF Types, TypeOK, Copies
  <2>2. IsCopy(first)'
    BY <2>1, <1>14 DEF RestoreSnapshot, Types, TypeOK, IsCopy, None
  <2>3. \A h \in up : data'[h] # None
    BY <1>14 DEF RestoreSnapshot, Types, TypeOK, Copies
  <2>4. QED
    BY <2>2, <2>3, <1>14 DEF RestoreSnapshot, Copies
<1>15. CASE RemoveSnapshot
  BY <1>15 DEF RemoveSnapshot, Types, TypeOK, Copies, IsCopy, Survives, HasData, None
<1>16. CASE StartEtcd
  BY <1>16 DEF StartEtcd, Types, TypeOK, Copies, IsCopy, Survives, HasData, None
<1>17. CASE RemoveBrokenData
  BY <1>17 DEF RemoveBrokenData, Types, TypeOK, Copies, IsCopy, Survives, HasData, None
<1>18. ASSUME NEW m \in Host, RemoveBrokenMember(m) PROVE Copies'
  <2>1. RemoveMember(m)
    BY <1>18 DEF RemoveBrokenMember
  <2>2. first \in group /\ group \cap dead = {}
    BY <1>18 DEF RemoveBrokenMember, Types, TypeOK
  <2>3. QED
    BY <2>1, <2>2, <1>18, RemovalCopies DEF RemoveBrokenMember, Copies
<1>19. ASSUME NEW m \in Host, RemovalRefused(m) PROVE Copies'
  BY <1>19 DEF RemovalRefused, Types, TypeOK, Copies, IsCopy, Survives, HasData, None
<1>20. CASE StartMembers
  BY <1>20 DEF StartMembers, Types, TypeOK, Copies, IsCopy, Survives, HasData, None
<1>21. ASSUME NEW h \in Host, MemberAdd(h) PROVE Copies'
  <2>1. PICK part \in Quorums(id) :
          data' = Logged(id, part, committed[id]) /\ fresh' = (fresh \ part) \cup {g \in {h} : data[g] = None}
    BY <1>21 DEF MemberAdd
  <2>2. id \in 1 .. id /\ committed[id] \in Nat
    BY RepairAssumption DEF Types, TypeOK
  <2>3. \A g \in Host : data[g] # None => data'[g] # None
    BY <2>1, <2>2, LoggedCopies
  <2>4. QED
    BY <2>1, <2>3, <1>21 DEF MemberAdd, Types, TypeOK, Copies, IsCopy
<1>22. ASSUME NEW h \in Host, StartMember(h) PROVE Copies'
  BY <1>22 DEF StartMember, Types, TypeOK, Copies, IsCopy, Survives, HasData, None
<1>23. CASE RemoveFromCluster
  <2>a. first \in group /\ group \cap dead = {}
    BY <1>23 DEF RemoveFromCluster, Types, TypeOK
  <2>1. CASE listed = {}
    BY <2>a, <2>1, <1>23 DEF RemoveFromCluster, Copies, IsCopy
  <2>2. CASE listed # {}
    <3>1. PICK m \in listed : RemoveMember(m)
      BY <2>2, <1>23 DEF RemoveFromCluster
    <3>2. QED
      BY <2>a, <3>1, <1>23, RemovalCopies DEF RemoveFromCluster, Copies
  <2>3. QED
    BY <2>1, <2>2
<1>24. CASE ResetHost
  BY <1>24 DEF ResetHost, Types, TypeOK, Copies, IsCopy, Survives, HasData, None
<1> QED
  BY <1>1, <1>2, <1>3, <1>4, <1>5, <1>6, <1>7, <1>8, <1>9, <1>10, <1>11, <1>12, <1>13, <1>14,
      <1>15, <1>16, <1>17, <1>18, <1>19, <1>20, <1>21, <1>22, <1>23, <1>24 DEF Next, Recovery,
      Removal
-----------------------------------------------------------------------------
(* The members.                                                              *)

\* The founders are the members, and none is broken.
LEMMA RosterInit == Init => Roster
BY RepairAssumption DEF Init, Roster, CompletedRunRecovers, Started, Unstarted, None

\* What is logged goes to hosts that have data of the cluster.
LEMMA LoggedRoster ==
  ASSUME Types, Copies, NEW c \in 1 .. id, NEW part \in Quorums(c), NEW w \in Nat, NEW h \in Host
  PROVE  /\ Logged(c, part, w)[h].cluster = data[h].cluster
         /\ Logged(c, part, w)[h] = None <=> data[h] = None
         /\ h \in part => data[h] # None /\ h \notin dead
<1>1. part \subseteq Holders(c) \cap up
  BY DEF Quorums
<1>2. c # 0
  BY RepairAssumption DEF Types, TypeOK
<1>3. \A g \in part : data[g].cluster = c /\ data[g] # None /\ g \notin dead
  BY <1>1, <1>2 DEF Holders, None, Types, TypeOK, Copies
<1>4. [cluster |-> c, writes |-> w] # None
  BY <1>2 DEF None
<1>5. QED
  BY <1>3, <1>4 DEF Logged

\* The removal of a member takes it from the list, and changes no other one.
LEMMA RemovalRoster ==
  ASSUME Types, Copies, NEW m, RemoveMember(m)
  PROVE  /\ members'[id] = members[id] \ {m}
         /\ \A h \in members'[id] :
              /\ data'[h].cluster = data[h].cluster /\ (data'[h] = None <=> data[h] = None)
              /\ h \in fresh => h \in fresh' \/ data[h] # None
         /\ \A h \in group : data[h] # None => data'[h] # None
         /\ fresh' \subseteq fresh
<1>1. PICK part \in Quorums(id) :
        /\ data' = [h \in Host |-> IF h \notin {m} \cap Holders(id) THEN Logged(id, part, committed[id])[h]
                                   ELSE IF h \in wiped THEN None ELSE Retired]
        /\ fresh' = fresh \ part
  BY DEF RemoveMember
<1>2. id \in 1 .. id /\ committed[id] \in Nat
  BY RepairAssumption DEF Types, TypeOK
<1>3. members'[id] = members[id] \ {m}
  BY DEF RemoveMember, Types, TypeOK
<1>4. \A h \in members'[id] : h \in Host /\ h # m
  BY <1>3 DEF Types, TypeOK
<1>5. \A h \in members'[id] :
        /\ data'[h].cluster = data[h].cluster /\ (data'[h] = None <=> data[h] = None)
        /\ h \in fresh => h \in fresh' \/ data[h] # None
  BY <1>1, <1>2, <1>4, LoggedRoster
<1>6. wiped \cap group = {} /\ group \subseteq Host
  BY DEF Types, TypeOK, Copies
<1>7. Retired # None
  BY DEF Retired, None
<1>8. \A h \in group : data[h] # None => data'[h] # None
  BY <1>1, <1>2, <1>6, <1>7, LoggedRoster
<1>9. QED
  BY <1>1, <1>3, <1>5, <1>8

\* What only adds to the data leaves the members as they are.
LEMMA SameRoster ==
  ASSUME Types, Roster, fresh' \subseteq fresh,
         UNCHANGED <<id, members, dead, group, first, broken, pc, listed, target, completed>>,
         \A h \in Host : data'[h].cluster = data[h].cluster /\ (data'[h] = None <=> data[h] = None)
  PROVE  Roster'
<1>1. members[id] \in SUBSET Host /\ group \in SUBSET Host /\ target \in SUBSET Host
  BY DEF Types, TypeOK
<1>2. \A h \in Host : (Started(h) => Started(h)') /\ (h \in Unstarted' => h \in Unstarted)
  <2>1. SUFFICES ASSUME NEW h \in Host PROVE (Started(h) => Started(h)') /\ (h \in Unstarted' => h \in Unstarted)
    OBVIOUS
  <2>2. data'[h].cluster = data[h].cluster /\ (data'[h] = None <=> data[h] = None)
    OBVIOUS
  <2>3. QED
    BY <2>2 DEF Started, Unstarted
<1>3. \A h \in Host : data[h] = None => data'[h] = None
  OBVIOUS
<1>4. CompletedRunRecovers'
  <2>1. completed' /\ pc' = "idle" => members'[id'] \cap broken' = {} /\ \A h \in group' : h \in members'[id'] /\ data'[h] # None
    BY <1>1 DEF Roster, CompletedRunRecovers
  <2>2. QED
    BY <2>1 DEF CompletedRunRecovers
<1>5. \A m, n \in Unstarted' : m = n
  BY <1>1, <1>2 DEF Roster, Unstarted
<1>6. \A m \in members[id] \cap broken : Started(m)'
  BY <1>1, <1>2 DEF Roster
<1>7. \A m \in members[id] \cap dead : data'[m] = None /\ m \notin fresh'
  BY <1>1, <1>3 DEF Roster
<1>8. QED
  BY <1>1, <1>3, <1>4, <1>5, <1>6, <1>7 DEF Roster

\* Every step keeps what is known of the members.
LEMMA RosterStep ==
  ASSUME Types, Copies, Roster, [Next]_vars
  PROVE  Roster'
<1> USE DEF disks, units, clusters, history, inventory, play, counters, Goto, EndRun, RemovalTasks
<1>1. CASE UNCHANGED vars
  BY <1>1 DEF vars, Types, TypeOK, Copies, Roster, CompletedRunRecovers, Started, Unstarted, Holders
<1>2. CASE \/ StartRecovery \/ CheckHealth
  BY <1>2 DEF StartRecovery, CheckHealth, Types, TypeOK, Copies, Roster, CompletedRunRecovers,
      Started, Unstarted, Holders
<1>3. CASE \/ TransferSnapshot \/ SaveSnapshot \/ StopEtcd \/ RemoveSnapshot
  BY <1>3 DEF TransferSnapshot, SaveSnapshot, StopEtcd, RemoveSnapshot, Types, TypeOK, Copies,
      Roster, CompletedRunRecovers, Started, Unstarted, Holders
<1>4. CASE \/ Interrupt \/ TaskFails
  BY <1>4 DEF Interrupt, TaskFails, Types, TypeOK, Copies, Roster, CompletedRunRecovers, Started,
      Unstarted, Holders
<1>5. CASE Write
  <2>1. PICK c \in 1 .. id : \E part \in Quorums(c) :
          data' = Logged(c, part, committed[c] + 1) /\ fresh' = fresh \ part
    BY <1>5 DEF Write
  <2>2. PICK part \in Quorums(c) : data' = Logged(c, part, committed[c] + 1) /\ fresh' = fresh \ part
    BY <2>1
  <2>3. committed[c] + 1 \in Nat
    BY ClusterType
  <2>4. \A h \in Host : data'[h].cluster = data[h].cluster /\ (data'[h] = None <=> data[h] = None)
    BY <2>2, <2>3, LoggedRoster
  <2>5. fresh' \subseteq fresh
    BY <2>2
  <2>6. UNCHANGED <<id, members, dead, group, first, broken, pc, listed, target, completed>>
    BY <1>5 DEF Write
  <2>7. QED
    BY <2>4, <2>5, <2>6, SameRoster
<1>6. ASSUME NEW h \in Host, CatchUp(h) PROVE Roster'
  <2>1. \A g \in Host : data'[g].cluster = data[g].cluster /\ (data'[g] = None <=> data[g] = None)
    BY <1>6 DEF CatchUp, Types, TypeOK, Log, None
  <2>2. fresh' \subseteq fresh /\ UNCHANGED <<id, members, dead, group, first, broken, pc, listed, target, completed>>
    BY <1>6 DEF CatchUp
  <2>3. QED
    BY <2>1, <2>2, SameRoster
<1>7. ASSUME NEW h \in Host, Stop(h) PROVE Roster'
  BY <1>7 DEF Stop, Types, TypeOK, Copies, Roster, CompletedRunRecovers, Started, Unstarted, Holders
<1>8. ASSUME NEW h \in Host, Restart(h) PROVE Roster'
  <2>1. UNCHANGED <<id, members, dead, group, first, broken, pc, listed, target, completed>>
    BY <1>8 DEF Restart
  <2>2. CASE UNCHANGED disks
    BY <2>1, <2>2 DEF Types, TypeOK, Roster, CompletedRunRecovers, Started, Unstarted
  <2>3. CASE /\ data[h] = None /\ h \in broken \cap members[id] /\ h \notin dead
             /\ data' = [data EXCEPT ![h] = [cluster |-> id, writes |-> 0]] /\ fresh' = fresh \cup {h}
    <3>1. [cluster |-> id, writes |-> 0] # None
      BY RepairAssumption DEF Types, TypeOK, None
    <3>2. \A g \in Host \ {h} : data'[g] = data[g] /\ (g \in fresh' <=> g \in fresh)
      BY <2>3 DEF Types, TypeOK
    <3>3. data'[h] # None /\ data'[h].cluster = id /\ h \notin group
      BY <2>3, <3>1 DEF Types, TypeOK
    <3>4. QED
      BY <2>1, <2>3, <3>2, <3>3 DEF Types, TypeOK, Roster, CompletedRunRecovers, Started, Unstarted
  <2>4. QED
    BY <2>2, <2>3, <1>8 DEF Restart
<1>9. ASSUME NEW h \in Host, Disaster(h) PROVE Roster'
  BY <1>9 DEF Disaster, Types, TypeOK, Copies, Roster, CompletedRunRecovers, Started, Unstarted,
      Holders
<1>10. CASE Provision
  <2>1. PICK new \in SUBSET (Host \ group), moved \in SUBSET group : Replace(new, moved)
    BY <1>10 DEF Provision
  <2>2. /\ group' = (group \ (dead \cup moved)) \cup new /\ broken' = broken \cup (group \cap dead) \cup moved
        /\ \A h \in moved : data[h].cluster = id
    BY <2>1 DEF Replace, Holders
  <2>3. pc = "idle" /\ completed' = FALSE /\ UNCHANGED <<disks, dead, id, members, pc, target>>
    BY <2>1, <1>10 DEF Replace, Provision, play
  <2>4. QED
    BY <2>2, <2>3 DEF Types, TypeOK, Roster, CompletedRunRecovers, Started, Unstarted
<1>11. ASSUME NEW h \in Host, OperatorStarts(h) PROVE Roster'
  BY <1>11 DEF OperatorStarts, Types, TypeOK, Copies, Roster, CompletedRunRecovers, Started,
      Unstarted, Holders
<1>12. ASSUME NEW h \in Host, StartRemoval(h) PROVE Roster'
  BY <1>12 DEF StartRemoval, Types, TypeOK, Copies, Roster, CompletedRunRecovers, Started,
      Unstarted, Holders
<1>13. CASE RemoveFirstData
  BY <1>13 DEF RemoveFirstData, Types, TypeOK, Copies, Roster, CompletedRunRecovers, Started,
      Unstarted, Holders
<1>14. CASE RestoreSnapshot
  <2>1. id + 1 \in 1 .. MaxClusters /\ first \in Host /\ first \in group /\ group \cap dead = {}
    BY RepairAssumption, <1>14 DEF RestoreSnapshot, Types, TypeOK
  <2>2. id' = id + 1 /\ members'[id'] = {first} /\ data'[first] # None /\ first \notin fresh'
    BY <2>1, <1>14 DEF RestoreSnapshot, Types, TypeOK, None
  <2>3. pc' = "remove_snapshot" /\ UNCHANGED <<dead, group, first, broken, target>>
    BY <1>14 DEF RestoreSnapshot
  <2>4. QED
    BY <2>1, <2>2, <2>3 DEF Types, TypeOK, Roster, CompletedRunRecovers, Started, Unstarted
<1>15. CASE StartEtcd
  BY <1>15 DEF StartEtcd, Types, TypeOK, Copies, Roster, CompletedRunRecovers, Started,
      Unstarted, Holders
<1>16. CASE RemoveBrokenData
  BY <1>16 DEF RemoveBrokenData, Types, TypeOK, Copies, Roster, CompletedRunRecovers, Started,
      Unstarted, Holders
<1>17. CASE ListMembers
  BY <1>17 DEF ListMembers, Types, TypeOK, Copies, Roster, CompletedRunRecovers, Started,
      Unstarted, Holders
<1>18. ASSUME NEW m \in Host, RemoveBrokenMember(m) PROVE Roster'
  <2>1. RemoveMember(m)
    BY <1>18 DEF RemoveBrokenMember
  <2>2. /\ pc \in {"remove_members", "remove_others"} /\ listed' = listed \ {m}
        /\ UNCHANGED <<id, dead, group, first, broken, pc, target, completed>>
    BY <1>18 DEF RemoveBrokenMember
  <2>3. QED
    BY <2>1, <2>2, RemovalRoster DEF Types, TypeOK, Roster, CompletedRunRecovers, Started, Unstarted
<1>19. ASSUME NEW m \in Host, RemovalRefused(m) PROVE Roster'
  BY <1>19 DEF RemovalRefused, Types, TypeOK, Copies, Roster, CompletedRunRecovers, Started,
      Unstarted, Holders
<1>20. CASE MembersRemoved
  BY <1>20 DEF MembersRemoved, Types, TypeOK, Copies, Roster, CompletedRunRecovers, Started,
      Unstarted, Holders
<1>21. CASE StartMembers
  <2> DEFINE joining == {h \in group \cap members[id] : data[h] = None /\ members[id] = group /\ (h \in fresh \/ MayForget)}
  <2>1. /\ pc = "cluster" /\ pc' = "join" /\ Healthy
        /\ UNCHANGED <<id, members, dead, group, first, broken, target, completed>> /\ target = {}
    BY <1>21 DEF StartMembers, Types, TypeOK
  <2>2. /\ data' = [h \in Host |-> IF h \in joining THEN [cluster |-> id, writes |-> 0] ELSE data[h]]
        /\ fresh' = fresh \cup joining
    BY <1>21 DEF StartMembers
  <2>3. [cluster |-> id, writes |-> 0] # None /\ id # 0
    BY RepairAssumption DEF Types, TypeOK, None
  <2>4. \A h \in Host : IF h \in joining THEN data'[h] # None /\ data'[h].cluster = id
                        ELSE data'[h] = data[h] /\ (h \in fresh' <=> h \in fresh)
    BY <2>2, <2>3
  <2>5. group \cap dead = {} /\ group \cap broken = {} /\ group \subseteq Host /\ members[id] \in SUBSET Host
    BY <2>1 DEF Types, TypeOK
  <2>6. ASSUME group \subseteq members[id], NEW h \in group PROVE data'[h] # None
    <3>1. h \in Host /\ h \in members[id]
      BY <2>5, <2>6
    <3>2. CASE Started(h)
      <4>1. data[h].cluster = id
        BY <2>1, <3>1, <3>2 DEF Healthy, Holders
      <4>2. data[h] # None
        BY <2>3, <4>1 DEF None
      <4>3. QED
        BY <2>2, <2>3, <2>4, <3>1, <4>2
    <3>3. CASE ~Started(h) /\ data[h] = None
      <4>1. h \in Unstarted
        BY <3>1, <3>3 DEF Started, Unstarted
      <4>2. CASE members[id] = group
        <5>1. h \in joining
          BY <3>1, <4>1, <4>2 DEF Unstarted
        <5>2. QED
          BY <2>4, <3>1, <5>1
      <4>3. CASE members[id] # group
        <5>1. PICK x \in members[id] : x \notin group
          BY <2>6, <4>3
        <5>2. data[x] = None
          BY <2>1, <5>1 DEF Roster
        <5>3. ~Started(x)
          <6>1. data[x].cluster # id
            BY <2>3, <5>2 DEF None
          <6>2. QED
            BY <2>1, <5>1, <6>1 DEF Healthy, Holders
        <5>4. x \in Unstarted
          BY <5>1, <5>2, <5>3 DEF Started, Unstarted
        <5>5. QED
          BY <4>1, <5>1, <5>4 DEF Roster
      <4>4. QED
        BY <4>2, <4>3
    <3>4. QED
      BY <2>4, <3>1, <3>2, <3>3
  <2>7. Unstarted' \subseteq Unstarted
    BY <2>1, <2>4, <2>5 DEF Unstarted
  <2>8. \A m \in members[id] \ group : m \in Host /\ m \notin joining /\ data'[m] = data[m] /\ (m \in fresh' <=> m \in fresh)
    BY <2>4, <2>5
  <2>9. \A m \in members[id] \cap dead : data'[m] = None /\ m \notin fresh'
    BY <2>5, <2>8 DEF Roster
  <2>10. members[id] \cap broken = {} /\ \A m \in members[id] \ (group \cup broken) : data'[m] = None
    BY <2>1, <2>8 DEF Roster
  <2>11. QED
    BY <2>1, <2>6, <2>7, <2>9, <2>10 DEF Roster, CompletedRunRecovers
<1>22. ASSUME NEW h \in Host, MemberAdd(h) PROVE Roster'
  <2>1. PICK part \in Quorums(id) :
          data' = Logged(id, part, committed[id]) /\ fresh' = (fresh \ part) \cup {g \in {h} : data[g] = None}
    BY <1>22 DEF MemberAdd
  <2>2. id \in 1 .. id /\ committed[id] \in Nat /\ id # 0
    BY RepairAssumption DEF Types, TypeOK
  <2>3. \A g \in Host : data'[g].cluster = data[g].cluster /\ (data'[g] = None <=> data[g] = None)
    BY <2>1, <2>2, LoggedRoster
  <2>4. /\ pc = "join" /\ pc' = "join_start" /\ target' = {h} /\ h \in group
        /\ UNCHANGED <<id, dead, group, first, broken, completed>>
    BY <1>22 DEF MemberAdd
  <2>5. members'[id] = members[id] \cup {h} /\ members[id] \subseteq Host
    BY <1>22 DEF MemberAdd, Types, TypeOK
  <2>6. \A m \in members[id] : data[m].cluster = id /\ data[m] # None
    BY <2>2, <1>22 DEF MemberAdd, MayAdd, Holders, None
  <2>7. group \cap dead = {} /\ group \cap broken = {}
    BY <2>4 DEF Types
  <2>8. ASSUME NEW m \in members[id] PROVE data'[m].cluster = id /\ data'[m] # None
    <3>1. m \in Host
      BY <2>5
    <3>2. data'[m].cluster = data[m].cluster /\ (data'[m] = None <=> data[m] = None)
      BY <2>3, <3>1
    <3>3. QED
      BY <2>6, <3>2
  <2>9. Unstarted' \subseteq {h}
    BY <2>4, <2>5, <2>8 DEF Unstarted
  <2>10. \A m \in members'[id] : m \notin dead \cup broken /\ m \in group
    BY <2>4, <2>5, <2>6, <2>7 DEF Roster
  <2>12. QED
    BY <2>4, <2>5, <2>8, <2>9, <2>10 DEF Roster, CompletedRunRecovers
<1>23. ASSUME NEW h \in Host, StartMember(h) PROVE Roster'
  <2>1. /\ pc = "join_start" /\ pc' = "join" /\ h \in target /\ data[h] = None
        /\ data' = [data EXCEPT ![h] = [cluster |-> id, writes |-> 0]]
        /\ UNCHANGED <<fresh, id, members, dead, group, first, broken, completed>>
    BY <1>23 DEF StartMember, MayStart
  <2>2. [cluster |-> id, writes |-> 0] # None
    BY RepairAssumption DEF Types, TypeOK, None
  <2>3. h \in Host /\ h \in group /\ h \notin dead \cup broken /\ target \subseteq {h}
    BY <2>1 DEF Types, TypeOK, Roster
  <2>4. data'[h] # None /\ data'[h].cluster = id /\ \A g \in Host \ {h} : data'[g] = data[g]
    BY <2>1, <2>2, <2>3 DEF Types, TypeOK
  <2>5. Unstarted' \subseteq Unstarted /\ target' = {} /\ members[id] \in SUBSET Host /\ group \in SUBSET Host
    BY <2>1, <2>2, <2>3, <2>4, <1>23 DEF StartMember, Unstarted, Types, TypeOK
  <2>6. \A m \in members[id] \ group : data'[m] = data[m]
    BY <2>3, <2>4, <2>5
  <2>7. \A m \in members[id] \cap dead : data'[m] = data[m]
    BY <2>3, <2>4, <2>5
  <2>8. members[id] \subseteq group /\ members[id] \cap broken = {}
    BY <2>1, <1>23 DEF StartMember, MayStart, Roster
  <2>9. \A g \in group : g \in members[id] => data'[g] # None
    BY <2>1, <2>3, <2>4, <2>5 DEF Roster
  <2>10. QED
    BY <2>1, <2>5, <2>7, <2>8, <2>9 DEF Roster, CompletedRunRecovers
<1>24. CASE RunCompletes
  BY <1>24 DEF RunCompletes, Types, TypeOK, Copies, Roster, CompletedRunRecovers, Started,
      Unstarted, Holders
<1>25. CASE LookupMember
  BY <1>25 DEF LookupMember, Types, TypeOK, Copies, Roster, CompletedRunRecovers, Started,
      Unstarted, Holders
<1>26. CASE RemoveFromCluster
  <2>1. /\ pc' = "reset" /\ UNCHANGED <<id, dead, group, first, broken, target, completed>>
    BY <1>26 DEF RemoveFromCluster
  <2>2. CASE listed = {}
    BY <2>1, <2>2, <1>26 DEF RemoveFromCluster, Types, TypeOK, Roster, CompletedRunRecovers,
        Started, Unstarted
  <2>3. CASE listed # {}
    <3>1. PICK m : RemoveMember(m)
      BY <2>3, <1>26 DEF RemoveFromCluster
    <3>2. QED
      BY <2>1, <3>1, RemovalRoster DEF Types, TypeOK, Roster, CompletedRunRecovers, Started,
          Unstarted
  <2>4. QED
    BY <2>2, <2>3
<1>27. CASE ResetHost
  BY <1>27 DEF ResetHost, Types, TypeOK, Copies, Roster, CompletedRunRecovers, Started,
      Unstarted, Holders
<1>28. CASE Removed
  BY <1>28 DEF Removed, Types, TypeOK, Copies, Roster, CompletedRunRecovers, Started, Unstarted,
      Holders
<1> QED
  BY <1>1, <1>2, <1>3, <1>4, <1>5, <1>6, <1>7, <1>8, <1>9, <1>10, <1>11, <1>12, <1>13, <1>14,
      <1>15, <1>16, <1>17, <1>18, <1>19, <1>20, <1>21, <1>22, <1>23, <1>24, <1>25, <1>26, <1>27,
      <1>28 DEF Next, Recovery, Removal
-----------------------------------------------------------------------------
(* Majorities.                                                               *)

\* Sets of hosts are finite.
LEMMA HostsFinite ==
  ASSUME NEW S \in SUBSET Host
  PROVE  IsFiniteSet(S) /\ Cardinality(S) \in Nat
BY RepairAssumption, FS_Subset, FS_CardinalityType

\* Half of a set and a majority of it have an element in common.
LEMMA MajoritiesOverlap ==
  ASSUME NEW M \in SUBSET Host, NEW S \in SUBSET M, NEW T \in SUBSET M,
         2 * Cardinality(S) >= Cardinality(M), 2 * Cardinality(T) > Cardinality(M)
  PROVE  \E h \in S : h \in T
<1>1. /\ IsFiniteSet(M) /\ Cardinality(M) \in Nat
      /\ Cardinality(S) \in Nat /\ Cardinality(T) \in Nat
  BY HostsFinite
<1>2. Cardinality(S) + Cardinality(T) > Cardinality(M)
  BY <1>1
<1>3. S \cap T # {}
  BY <1>1, <1>2, FS_MajoritiesIntersect
<1>4. QED
  BY <1>3

\* What logs an entry is a majority of the members.
LEMMA QuorumType ==
  ASSUME Types, NEW c \in 1 .. id, NEW part \in Quorums(c)
  PROVE  /\ part \in SUBSET members[c] /\ members[c] \in SUBSET Host
         /\ 2 * Cardinality(part) > Cardinality(members[c])
         /\ Cardinality(part) \in Nat /\ Cardinality(members[c]) \in Nat
<1>1. members[c] \in SUBSET Host
  BY ClusterType
<1>2. part \in SUBSET members[c]
  BY DEF Quorums, Holders
<1>3. QED
  BY <1>1, <1>2, HostsFinite DEF Quorums, IsMajority

\* Once half of the members have what is acknowledged, all majorities have it.
LEMMA HalfHasLatest ==
  ASSUME Types, NEW c, NEW M \in SUBSET Host, members'[c] = M,
         NEW half \in SUBSET M, 2 * Cardinality(half) >= Cardinality(M),
         \A h \in half : data'[h].cluster = c /\ data'[h].writes = committed'[c]
  PROVE  LatestOf(c)'
<1>1. SUFFICES ASSUME NEW part \in SUBSET (Voters(c)'), IsMajority(part, c)'
               PROVE  \E h \in part \cap Holders(c)' : data'[h].writes = committed'[c]
  BY DEF LatestOf
<1>2. part \in SUBSET M
  BY DEF Voters, Holders, Unstarted
<1>3. 2 * Cardinality(part) > Cardinality(M)
  BY <1>1 DEF IsMajority
<1>4. PICK h \in half : h \in part
  BY <1>2, <1>3, MajoritiesOverlap
<1>5. QED
  BY <1>4 DEF Holders

\* A cluster whose members keep what they have: they may get what they lack, lose
\* all they have and not start without it, or start if they were to start.
LEMMA ClusterKeepsLatest ==
  ASSUME Types, NEW c \in 1 .. id, LatestOf(c), id' \in {id, id + 1},
         members'[c] = members[c], committed'[c] = committed[c],
         \A h \in members[c] :
           \/ data'[h] = data[h] /\ (h \in fresh' => h \in fresh)
           \/ data[h].cluster = c /\ data'[h].cluster = c /\ data'[h].writes = committed[c]
           \/ data'[h].cluster # c /\ data'[h] # None
           \/ data'[h].cluster # c /\ (h \notin fresh' \/ c # id')
           \/ c = id /\ h \in Unstarted /\ data'[h].cluster = c
  PROVE  LatestOf(c)'
<1>1. c # 0 /\ (c = id' => c = id)
  BY RepairAssumption DEF Types, TypeOK
<1>2. None.cluster = 0
  BY DEF None
<1>3. ASSUME NEW h \in Voters(c)' PROVE h \in Voters(c)
  BY <1>1, <1>2, <1>3 DEF Voters, Holders, Unstarted
<1>4. ASSUME NEW h \in Voters(c)', h \in Holders(c), data[h].writes = committed[c]
      PROVE  h \in Holders(c)' /\ data'[h].writes = committed[c]
  BY <1>1, <1>2, <1>4 DEF Voters, Holders, Unstarted
<1>5. SUFFICES ASSUME NEW part \in SUBSET (Voters(c)'), IsMajority(part, c)'
               PROVE  \E h \in part \cap Holders(c)' : data'[h].writes = committed'[c]
  BY DEF LatestOf
<1>6. part \in SUBSET Voters(c) /\ IsMajority(part, c)
  BY <1>3, <1>5 DEF IsMajority
<1>7. PICK h \in part \cap Holders(c) : data[h].writes = committed[c]
  BY <1>6 DEF LatestOf
<1>8. QED
  BY <1>4, <1>7

\* The same for all clusters.
LEMMA KeepsLatest ==
  ASSUME Types, Latest, UNCHANGED <<id, members, committed>>,
         \A h \in Host :
           \/ data'[h] = data[h] /\ (h \in fresh' => h \in fresh)
           \/ /\ data'[h].cluster = data[h].cluster /\ data[h].cluster # 0
              /\ data'[h].writes = committed[data[h].cluster]
           \/ data'[h].cluster = 0 /\ h \notin fresh'
           \/ h \in Unstarted /\ data'[h].cluster = id
  PROVE  Latest'
<1>1. SUFFICES ASSUME NEW c \in 1 .. id PROVE LatestOf(c)'
  BY DEF Latest
<1>2. members[c] \in SUBSET Host /\ c # 0 /\ id # 0
  BY ClusterType, RepairAssumption DEF Types, TypeOK
<1>3. None.cluster = 0 /\ LatestOf(c)
  BY DEF None, Latest
<1>4. ASSUME NEW h \in members[c]
      PROVE  \/ data'[h] = data[h] /\ (h \in fresh' => h \in fresh)
             \/ data[h].cluster = c /\ data'[h].cluster = c /\ data'[h].writes = committed[c]
             \/ data'[h].cluster # c /\ data'[h] # None
             \/ data'[h].cluster # c /\ (h \notin fresh' \/ c # id')
             \/ c = id /\ h \in Unstarted /\ data'[h].cluster = c
  BY <1>2, <1>3
<1>5. QED
  BY <1>2, <1>3, <1>4, ClusterKeepsLatest

\* Nothing was acknowledged yet.
LEMMA LatestInit == Init => Latest
<1>a. \A c \in 1 .. 1 : c = 1
  OBVIOUS
<1>1. SUFFICES ASSUME Init PROVE LatestOf(1)
  BY <1>a DEF Init, Latest
<1>2. members[1] = Founders /\ \A h \in Host : data[h].writes = 0
  BY <1>1, RepairAssumption DEF Init, None
<1>3. committed[1] = 0 /\ fresh = {} /\ Founders \subseteq Host
  BY <1>1, RepairAssumption DEF Init
<1>4. SUFFICES ASSUME NEW part \in SUBSET Voters(1), IsMajority(part, 1)
               PROVE  \E h \in part \cap Holders(1) : data[h].writes = 0
  BY <1>3 DEF LatestOf
<1>5. part \subseteq Holders(1)
  BY <1>3 DEF Voters, Unstarted
<1>6. part # {}
  BY <1>2, <1>3, <1>4, HostsFinite, FS_EmptySet DEF IsMajority
<1>7. QED
  BY <1>2, <1>3, <1>5, <1>6 DEF Holders

\* The removal of a member: a majority with it is half of the others.
LEMMA RemovalLatest ==
  ASSUME Types, Copies, Latest, NEW m, RemoveMember(m), UNCHANGED <<id, committed>>
  PROVE  Latest'
<1> DEFINE leaves == {m} \cap Holders(id)
<1>1. PICK part \in Quorums(id) :
        /\ members' = [members EXCEPT ![id] = members[id] \ {m}]
        /\ data' = [h \in Host |-> IF h \notin leaves THEN Logged(id, part, committed[id])[h]
                                   ELSE IF h \in wiped THEN None ELSE Retired]
        /\ fresh' = fresh \ part
  BY DEF RemoveMember
<1>2. id \in 1 .. id /\ id \in 1 .. MaxClusters /\ id # 0
  BY RepairAssumption DEF Types, TypeOK
<1>3. /\ part \in SUBSET members[id] /\ members[id] \in SUBSET Host
      /\ 2 * Cardinality(part) > Cardinality(members[id])
  BY <1>2, QuorumType
<1>4. LatestOf(id)'
  <2>1. members'[id] = members[id] \ {m}
    BY <1>1, <1>2 DEF Types, TypeOK
  <2>2. 2 * Cardinality(part \ {m}) >= Cardinality(members[id] \ {m})
    <3>1. /\ IsFiniteSet(part) /\ Cardinality(part) \in Nat
          /\ IsFiniteSet(members[id]) /\ Cardinality(members[id]) \in Nat
      BY <1>3, HostsFinite
    <3>2. /\ Cardinality(part \ {m}) = IF m \in part THEN Cardinality(part) - 1 ELSE Cardinality(part)
          /\ Cardinality(members[id] \ {m})
               = IF m \in members[id] THEN Cardinality(members[id]) - 1 ELSE Cardinality(members[id])
      BY <3>1, FS_RemoveElement
    <3>3. QED
      BY <1>3, <3>1, <3>2
  <2>3. \A h \in part \ {m} : data'[h].cluster = id /\ data'[h].writes = committed'[id]
    BY <1>1, <1>3 DEF Logged
  <2>4. QED
    BY <1>3, <2>1, <2>2, <2>3, HalfHasLatest
<1>5. ASSUME NEW c \in 1 .. id, c # id PROVE LatestOf(c)'
  <2>1. members'[c] = members[c] /\ members[c] \in SUBSET Host /\ c # 0
    BY <1>1, <1>5, ClusterType, RepairAssumption DEF Types, TypeOK
  <2>2. None.cluster = 0 /\ Retired.cluster = 0 /\ Retired # None
    BY DEF None, Retired
  <2>3. ASSUME NEW h \in members[c]
        PROVE  \/ data'[h] = data[h] /\ (h \in fresh' => h \in fresh)
               \/ data'[h].cluster # c /\ data'[h] # None
               \/ data'[h].cluster # c /\ (h \notin fresh' \/ c # id')
    <3>1. h \in Host
      BY <2>1
    <3>2. CASE h \notin leaves /\ h \notin part
      BY <1>1, <3>1, <3>2 DEF Logged
    <3>3. CASE h \notin leaves /\ h \in part
      BY <1>1, <1>5, <2>2, <3>1, <3>3, <1>2 DEF Logged
    <3>4. CASE h \in leaves
      BY <1>1, <1>5, <2>1, <2>2, <3>1, <3>4
    <3>5. QED
      BY <3>2, <3>3, <3>4
  <2>4. LatestOf(c) /\ id' \in {id, id + 1}
    BY DEF Latest
  <2>5. QED
    BY <2>1, <2>3, <2>4, ClusterKeepsLatest
<1>6. QED
  BY <1>4, <1>5 DEF Latest

-----------------------------------------------------------------------------
(* What was acknowledged last.                                               *)

\* No host joins yet.
LEMMA AddedInit == Init => Added
BY DEF Init, Added

\* Nothing but the start of its etcd gives a host that was added data.
LEMMA AddedStep ==
  ASSUME ~MayForget, Types, Copies, Added, [Next]_vars
  PROVE  Added'
<1> USE DEF disks, units, clusters, history, inventory, play, counters, Goto, EndRun, RemovalTasks
<1>1. CASE UNCHANGED vars
  BY <1>1 DEF vars, Types, TypeOK, Copies, Added
<1>2. CASE \/ StartRecovery \/ CheckHealth \/ SaveSnapshot \/ TransferSnapshot \/ StopEtcd
           \/ RemoveFirstData \/ RestoreSnapshot \/ RemoveSnapshot \/ StartEtcd
  BY <1>2 DEF StartRecovery, CheckHealth, SaveSnapshot, TransferSnapshot, StopEtcd,
      RemoveFirstData, RestoreSnapshot, RemoveSnapshot, StartEtcd, Types, TypeOK, Copies, Added
<1>3. CASE \/ RemoveBrokenData \/ ListMembers \/ MembersRemoved \/ StartMembers
  BY <1>3 DEF RemoveBrokenData, ListMembers, MembersRemoved, StartMembers, Types, TypeOK, Copies,
      Added
<1>4. CASE \/ RunCompletes \/ TaskFails \/ LookupMember \/ ResetHost \/ Removed
           \/ Interrupt
  BY <1>4 DEF RunCompletes, TaskFails, LookupMember, ResetHost, Removed, Interrupt, Types,
      TypeOK, Copies, Added
<1>5. CASE Write
  <2>1. PICK c \in 1 .. id : \E part \in Quorums(c) :
          data' = Logged(c, part, committed[c] + 1) /\ fresh' = fresh \ part
    BY <1>5 DEF Write
  <2>2. PICK part \in Quorums(c) : data' = Logged(c, part, committed[c] + 1) /\ fresh' = fresh \ part
    BY <2>1
  <2>3. committed[c] + 1 \in Nat
    BY ClusterType
  <2>4. \A h \in Host : (data'[h] = None <=> data[h] = None) /\ (h \in part => data[h] # None)
    BY <2>2, <2>3, LoggedRoster
  <2>5. QED
    BY <2>2, <2>4, <1>5 DEF Write, Added, Types, TypeOK
<1>6. ASSUME NEW h \in Host, CatchUp(h) PROVE Added'
  <2>1. \A g \in Host : data'[g] = None <=> data[g] = None
    BY <1>6 DEF CatchUp, Types, TypeOK, Log, None
  <2>2. data[h] # None
    BY <1>6 DEF CatchUp, None
  <2>3. QED
    BY <2>1, <2>2, <1>6 DEF CatchUp, Added, Types, TypeOK
<1>7. ASSUME NEW h \in Host, Stop(h) PROVE Added'
  BY <1>7 DEF Stop, Types, TypeOK, Copies, Added
<1>8. ASSUME NEW h \in Host, Restart(h) PROVE Added'
  BY <1>8 DEF Restart, Types, TypeOK, Copies, Added
<1>9. ASSUME NEW h \in Host, Disaster(h) PROVE Added'
  BY <1>9 DEF Disaster, Types, TypeOK, Copies, Added
<1>10. CASE Provision
  BY <1>10 DEF Provision, Replace, Added
<1>11. ASSUME NEW h \in Host, OperatorStarts(h) PROVE Added'
  BY <1>11 DEF OperatorStarts, Types, TypeOK, Copies, Added
<1>12. ASSUME NEW h \in Host, StartRemoval(h) PROVE Added'
  BY <1>12 DEF StartRemoval, Types, TypeOK, Copies, Added
<1>13. ASSUME NEW m \in Host, RemoveBrokenMember(m) PROVE Added'
  BY <1>13 DEF RemoveBrokenMember, Types, TypeOK, Copies, Added
<1>14. ASSUME NEW m \in Host, RemovalRefused(m) PROVE Added'
  BY <1>14 DEF RemovalRefused, Types, TypeOK, Copies, Added
<1>15. ASSUME NEW h \in Host, MemberAdd(h) PROVE Added'
  <2>1. PICK part \in Quorums(id) :
          data' = Logged(id, part, committed[id]) /\ fresh' = (fresh \ part) \cup {g \in {h} : data[g] = None}
    BY <1>15 DEF MemberAdd
  <2>2. id \in 1 .. id /\ committed[id] \in Nat
    BY RepairAssumption DEF Types, TypeOK
  <2>3. data'[h] = None <=> data[h] = None
    BY <2>1, <2>2, LoggedRoster
  <2>4. h \in members'[id'] /\ target' = {h}
    BY <1>15 DEF MemberAdd, Types, TypeOK
  <2>5. QED
    BY <2>1, <2>3, <2>4 DEF Added
<1>16. ASSUME NEW h \in Host, StartMember(h) PROVE Added'
  BY <1>16 DEF StartMember, Types, TypeOK, Copies, Added
<1>17. CASE RemoveFromCluster
  BY <1>17 DEF RemoveFromCluster, Types, TypeOK, Copies, Added
<1> QED
  BY <1>1, <1>2, <1>3, <1>4, <1>5, <1>6, <1>7, <1>8, <1>9, <1>10, <1>11, <1>12, <1>13, <1>14,
      <1>15, <1>16, <1>17 DEF Next, Recovery, Removal

\* Every step keeps the latest writes in all majorities.
LEMMA LatestStep ==
  ASSUME ~MayForget, Types, Copies, Added, Latest, [Next]_vars
  PROVE  Latest'
<1> USE DEF disks, units, clusters, history, inventory, play, counters, Goto, EndRun, RemovalTasks
<1>1. CASE Write
  <2>1. PICK c \in 1 .. id : \E p \in Quorums(c) :
          /\ data' = Logged(c, p, committed[c] + 1) /\ fresh' = fresh \ p
          /\ committed' = [committed EXCEPT ![c] = committed[c] + 1]
    BY <1>1 DEF Write
  <2>2. PICK part \in Quorums(c) : data' = Logged(c, part, committed[c] + 1) /\ fresh' = fresh \ part
    BY <2>1
  <2>3. /\ part \in SUBSET members[c] /\ members[c] \in SUBSET Host
        /\ 2 * Cardinality(part) >= Cardinality(members[c])
    BY QuorumType
  <2>4. c \in 1 .. MaxClusters /\ id' = id /\ members' = members
    BY ClusterType, <1>1 DEF Write
  <2>5. committed'[c] = committed[c] + 1
    BY <2>1, <2>4 DEF Types, TypeOK
  <2>6. \A h \in part : data'[h].cluster = c /\ data'[h].writes = committed'[c]
    BY <2>2, <2>3, <2>5 DEF Logged
  <2>7. LatestOf(c)'
    BY <2>3, <2>4, <2>6, HalfHasLatest
  <2>8. ASSUME NEW d \in 1 .. id, d # c PROVE LatestOf(d)'
    <3>1. members[d] \in SUBSET Host /\ committed'[d] = committed[d] /\ LatestOf(d)
      BY <2>1, <2>8, ClusterType DEF Types, TypeOK, Latest
    <3>2. [cluster |-> c, writes |-> committed[c] + 1] # None /\ c # 0
      BY RepairAssumption DEF Types, TypeOK, None
    <3>3. ASSUME NEW h \in members[d]
          PROVE  \/ data'[h] = data[h] /\ (h \in fresh' => h \in fresh)
                 \/ data'[h].cluster # d /\ data'[h] # None
      BY <2>2, <2>8, <3>1, <3>2 DEF Logged
    <3>4. QED
      BY <2>4, <3>1, <3>3, ClusterKeepsLatest
  <2>9. QED
    BY <2>4, <2>7, <2>8 DEF Latest
<1>2. ASSUME NEW h \in Host, CatchUp(h) PROVE Latest'
  <2>1. ASSUME NEW g \in Host
        PROVE  \/ data'[g] = data[g] /\ (g \in fresh' => g \in fresh)
               \/ /\ data'[g].cluster = data[g].cluster /\ data[g].cluster # 0
                  /\ data'[g].writes = committed[data[g].cluster]
    BY <1>2 DEF CatchUp, Types, TypeOK, Log
  <2>2. UNCHANGED <<id, members, committed>>
    BY <1>2 DEF CatchUp
  <2>3. QED
    BY <2>1, <2>2, KeepsLatest
<1>3. ASSUME NEW h \in Host, Stop(h) PROVE Latest'
  <2>1. ASSUME NEW g \in Host
        PROVE  \/ data'[g] = data[g] /\ (g \in fresh' => g \in fresh)
               \/ data'[g].cluster = 0 /\ g \notin fresh'
    BY <1>3 DEF Stop, Types, TypeOK, None
  <2>2. UNCHANGED <<id, members, committed>>
    BY <1>3 DEF Stop
  <2>3. QED
    BY <2>1, <2>2, KeepsLatest
<1>4. ASSUME NEW h \in Host, Restart(h) PROVE Latest'
  <2>1. ASSUME NEW g \in Host
        PROVE  data'[g] = data[g] /\ (g \in fresh' => g \in fresh)
    BY <1>4 DEF Restart, Types, TypeOK, None
  <2>2. UNCHANGED <<id, members, committed>>
    BY <1>4 DEF Restart
  <2>3. QED
    BY <2>1, <2>2, KeepsLatest
<1>5. ASSUME NEW h \in Host, Disaster(h) PROVE Latest'
  <2>1. ASSUME NEW g \in Host
        PROVE  \/ data'[g] = data[g] /\ (g \in fresh' => g \in fresh)
               \/ data'[g].cluster = 0 /\ g \notin fresh'
    BY <1>5 DEF Disaster, Types, TypeOK, None
  <2>2. UNCHANGED <<id, members, committed>>
    BY <1>5 DEF Disaster
  <2>3. QED
    BY <2>1, <2>2, KeepsLatest
<1>6. CASE Provision
  <2>1. UNCHANGED <<disks, clusters>>
    BY <1>6 DEF Provision, Replace
  <2>2. QED
    BY <2>1, KeepsLatest
<1>7. ASSUME NEW h \in Host, OperatorStarts(h) PROVE Latest'
  BY <1>7, KeepsLatest DEF OperatorStarts
<1>8. ASSUME NEW h \in Host, StartRemoval(h) PROVE Latest'
  BY <1>8, KeepsLatest DEF StartRemoval
<1>9. CASE StartRecovery
  BY <1>9, KeepsLatest DEF StartRecovery
<1>10. CASE CheckHealth
  BY <1>10, KeepsLatest DEF CheckHealth
<1>11. CASE SaveSnapshot
  BY <1>11, KeepsLatest DEF SaveSnapshot
<1>12. CASE TransferSnapshot
  BY <1>12, KeepsLatest DEF TransferSnapshot
<1>13. CASE StopEtcd
  BY <1>13, KeepsLatest DEF StopEtcd
<1>14. CASE RemoveFirstData
  <2>1. ASSUME NEW g \in Host
        PROVE  \/ data'[g] = data[g] /\ (g \in fresh' => g \in fresh)
               \/ data'[g].cluster = 0 /\ g \notin fresh'
    BY <1>14 DEF RemoveFirstData, Types, TypeOK, None
  <2>2. UNCHANGED <<id, members, committed>>
    BY <1>14 DEF RemoveFirstData
  <2>3. QED
    BY <2>1, <2>2, KeepsLatest
<1>15. CASE RestoreSnapshot
  <2>a. PICK n : n = id + 1
    OBVIOUS
  <2>1. /\ n \in 1 .. MaxClusters /\ n # 0 /\ n \notin 1 .. id /\ first \in Host
        /\ \A c \in 1 .. n : c \in 1 .. id \/ c = n
    BY <2>a, RepairAssumption, <1>15 DEF RestoreSnapshot, Types, TypeOK
  <2>2. id' = n /\ id' \in {id, id + 1} /\ members'[n] = {first} /\ committed'[n] = snapshot.writes
    BY <2>a, <2>1, <1>15 DEF RestoreSnapshot, Types, TypeOK
  <2>3. data'[first] = [cluster |-> n, writes |-> snapshot.writes] /\ fresh' \subseteq fresh
        /\ \A h \in Host \ {first} : data'[h] = data[h]
    BY <2>a, <2>1, <1>15 DEF RestoreSnapshot, Types, TypeOK
  <2>4. LatestOf(n)'
    <3>1. {first} \in SUBSET Host
      BY <2>1
    <3>2. 2 * Cardinality({first}) >= Cardinality({first})
      BY <3>1, HostsFinite
    <3>3. \A h \in {first} : data'[h].cluster = n /\ data'[h].writes = committed'[n]
      BY <2>2, <2>3
    <3>4. QED
      BY <2>2, <3>1, <3>2, <3>3, HalfHasLatest
  <2>5. ASSUME NEW c \in 1 .. id PROVE LatestOf(c)'
    <3>1. /\ members[c] \in SUBSET Host /\ members'[c] = members[c] /\ committed'[c] = committed[c]
          /\ LatestOf(c) /\ n # c
      BY <2>a, <2>1, <1>15, ClusterType DEF RestoreSnapshot, Types, TypeOK, Latest
    <3>2. ASSUME NEW h \in members[c]
          PROVE  \/ data'[h] = data[h] /\ (h \in fresh' => h \in fresh)
                 \/ data'[h].cluster # c /\ data'[h] # None
      BY <2>1, <2>3, <3>1 DEF None
    <3>3. QED
      BY <2>2, <3>1, <3>2, ClusterKeepsLatest
  <2>6. QED
    BY <2>1, <2>2, <2>4, <2>5 DEF Latest
<1>16. CASE RemoveSnapshot
  BY <1>16, KeepsLatest DEF RemoveSnapshot
<1>17. CASE StartEtcd
  BY <1>17, KeepsLatest DEF StartEtcd
<1>18. CASE RemoveBrokenData
  <2>1. ASSUME NEW g \in Host
        PROVE  \/ data'[g] = data[g] /\ (g \in fresh' => g \in fresh)
               \/ data'[g].cluster = 0 /\ g \notin fresh'
    BY <1>18 DEF RemoveBrokenData, Types, TypeOK, None
  <2>2. UNCHANGED <<id, members, committed>>
    BY <1>18 DEF RemoveBrokenData
  <2>3. QED
    BY <2>1, <2>2, KeepsLatest
<1>19. CASE ListMembers
  BY <1>19, KeepsLatest DEF ListMembers
<1>20. ASSUME NEW m \in Host, RemoveBrokenMember(m) PROVE Latest'
  BY <1>20, RemovalLatest DEF RemoveBrokenMember
<1>21. ASSUME NEW m \in Host, RemovalRefused(m) PROVE Latest'
  BY <1>21, KeepsLatest DEF RemovalRefused
<1>22. CASE MembersRemoved
  BY <1>22, KeepsLatest DEF MembersRemoved
<1>23. CASE StartMembers
  <2>1. ASSUME NEW g \in Host
        PROVE  \/ data'[g] = data[g] /\ (g \in fresh' => g \in fresh)
               \/ g \in Unstarted /\ data'[g].cluster = id
    BY <1>23 DEF StartMembers, Types, TypeOK, None, Unstarted
  <2>2. UNCHANGED <<id, members, committed>>
    BY <1>23 DEF StartMembers
  <2>3. QED
    BY <2>1, <2>2, KeepsLatest
<1>24. ASSUME NEW h \in Host, MemberAdd(h) PROVE Latest'
  <2>1. PICK part \in Quorums(id) :
          data' = Logged(id, part, committed[id]) /\ fresh' = (fresh \ part) \cup {g \in {h} : data[g] = None}
    BY <1>24 DEF MemberAdd
  <2>2. id \in 1 .. id /\ id # 0 /\ id' = id /\ committed' = committed
    BY RepairAssumption, <1>24 DEF MemberAdd, Types, TypeOK
  <2>3. /\ part \in SUBSET members[id] /\ members[id] \in SUBSET Host
        /\ 2 * Cardinality(part) > Cardinality(members[id])
        /\ Cardinality(part) \in Nat /\ Cardinality(members[id]) \in Nat
    BY <2>2, QuorumType
  <2>4. members'[id] = members[id] \cup {h} /\ \A c \in 1 .. id : c # id => members'[c] = members[c]
    BY <1>24, ClusterType DEF MemberAdd, Types, TypeOK
  <2>5. 2 * Cardinality(part) >= Cardinality(members[id] \cup {h})
    <3>1. h \notin members[id]
      BY <1>24 DEF MemberAdd
    <3>2. Cardinality(members[id] \cup {h}) = Cardinality(members[id]) + 1
      BY <2>3, <3>1, HostsFinite, FS_AddElement
    <3>3. QED
      BY <2>3, <3>2
  <2>6. \A g \in part : data'[g].cluster = id /\ data'[g].writes = committed'[id]
    BY <2>1, <2>2, <2>3 DEF Logged
  <2>7. LatestOf(id)'
    <3>1. PICK all : all = members[id] \cup {h}
      OBVIOUS
    <3>2. /\ all \in SUBSET Host /\ part \in SUBSET all /\ members'[id] = all
          /\ 2 * Cardinality(part) >= Cardinality(all)
      BY <2>3, <2>4, <2>5, <3>1
    <3>3. QED
      BY <2>2, <2>6, <3>2, HalfHasLatest
  <2>8. ASSUME NEW c \in 1 .. id, c # id PROVE LatestOf(c)'
    <3>1. members[c] \in SUBSET Host /\ members'[c] = members[c] /\ LatestOf(c)
      BY <2>4, <2>8, ClusterType DEF Latest
    <3>2. [cluster |-> id, writes |-> committed[id]] # None
      BY <2>2 DEF None
    <3>3. ASSUME NEW g \in members[c]
          PROVE  \/ data'[g] = data[g] /\ (g \in fresh' => g \in fresh)
                 \/ data'[g].cluster # c /\ data'[g] # None
                 \/ data'[g].cluster # c /\ (g \notin fresh' \/ c # id')
      BY <2>1, <2>2, <2>8, <3>1, <3>2 DEF Logged, None
    <3>4. QED
      BY <2>2, <3>1, <3>3, ClusterKeepsLatest
  <2>9. QED
    BY <2>2, <2>7, <2>8 DEF Latest
<1>25. ASSUME NEW h \in Host, StartMember(h) PROVE Latest'
  <2>1. ASSUME NEW g \in Host
        PROVE  \/ data'[g] = data[g] /\ (g \in fresh' => g \in fresh)
               \/ g \in Unstarted /\ data'[g].cluster = id
    BY <1>25 DEF StartMember, Types, TypeOK, None, Unstarted, Added, MayStart
  <2>2. UNCHANGED <<id, members, committed>>
    BY <1>25 DEF StartMember
  <2>3. QED
    BY <2>1, <2>2, KeepsLatest
<1>26. CASE RunCompletes
  BY <1>26, KeepsLatest DEF RunCompletes
<1>27. CASE TaskFails
  BY <1>27, KeepsLatest DEF TaskFails
<1>28. CASE LookupMember
  BY <1>28, KeepsLatest DEF LookupMember
<1>29. CASE RemoveFromCluster
  <2>1. CASE listed = {}
    BY <2>1, <1>29, KeepsLatest DEF RemoveFromCluster
  <2>2. CASE listed # {}
    <3>1. PICK m : RemoveMember(m)
      BY <2>2, <1>29 DEF RemoveFromCluster
    <3>2. QED
      BY <3>1, <1>29, RemovalLatest DEF RemoveFromCluster
  <2>3. QED
    BY <2>1, <2>2
<1>30. CASE ResetHost
  <2>1. ASSUME NEW g \in Host
        PROVE  \/ data'[g] = data[g] /\ (g \in fresh' => g \in fresh)
               \/ data'[g].cluster = 0 /\ g \notin fresh'
    BY <1>30 DEF ResetHost, Types, TypeOK, None
  <2>2. UNCHANGED <<id, members, committed>>
    BY <1>30 DEF ResetHost
  <2>3. QED
    BY <2>1, <2>2, KeepsLatest
<1>31. CASE Removed
  BY <1>31, KeepsLatest DEF Removed
<1>32. CASE Interrupt
  BY <1>32, KeepsLatest DEF Interrupt
<1>33. CASE UNCHANGED vars
  BY <1>33, KeepsLatest DEF vars
<1> QED
  BY <1>1, <1>2, <1>3, <1>4, <1>5, <1>6, <1>7, <1>8, <1>9, <1>10, <1>11, <1>12, <1>13, <1>14,
      <1>15, <1>16, <1>17, <1>18, <1>19, <1>20, <1>21, <1>22, <1>23, <1>24, <1>25, <1>26, <1>27,
      <1>28, <1>29, <1>30, <1>31, <1>32, <1>33 DEF Next, Recovery, Removal
-----------------------------------------------------------------------------
(* What is removed.                                                          *)

\* The members that are listed have the names of broken hosts, or the target's address.
LEMMA ListedRemovableStep ==
  ASSUME PartOf = {}, \A g, h \in Host : MemberName[g] = MemberName[h] => g = h, Types, ListedRemovable, [Next]_vars
  PROVE  ListedRemovable'
<1> USE DEF disks, units, clusters, history, inventory, play, counters, Goto, EndRun, RemovalTasks
<1>1. CASE \/ UNCHANGED vars \/ Write \/ StartRecovery \/ CheckHealth \/ SaveSnapshot
           \/ TransferSnapshot \/ StopEtcd \/ RemoveFirstData \/ RestoreSnapshot \/ RemoveSnapshot
           \/ StartEtcd
  BY <1>1 DEF vars, Write, StartRecovery, CheckHealth, SaveSnapshot, TransferSnapshot, StopEtcd,
      RemoveFirstData, RestoreSnapshot, RemoveSnapshot, StartEtcd, Types, TypeOK, ListedRemovable
<1>2. CASE \/ MembersRemoved \/ StartMembers \/ RunCompletes \/ TaskFails \/ ResetHost
           \/ Removed \/ Interrupt
  BY <1>2 DEF MembersRemoved, StartMembers, RunCompletes, TaskFails, ResetHost, Removed,
      Interrupt, Types, TypeOK, ListedRemovable
<1>3. ASSUME NEW h \in Host, CatchUp(h) PROVE ListedRemovable'
  BY <1>3 DEF CatchUp, Types, TypeOK, ListedRemovable
<1>4. ASSUME NEW h \in Host, Stop(h) PROVE ListedRemovable'
  BY <1>4 DEF Stop, Types, TypeOK, ListedRemovable
<1>5. ASSUME NEW h \in Host, Restart(h) PROVE ListedRemovable'
  BY <1>5 DEF Restart, Types, TypeOK, ListedRemovable
<1>6. ASSUME NEW h \in Host, Disaster(h) PROVE ListedRemovable'
  BY <1>6 DEF Disaster, Types, TypeOK, ListedRemovable
<1>7. CASE Provision
  BY <1>7 DEF Provision, Replace, ListedRemovable
<1>8. ASSUME NEW h \in Host, OperatorStarts(h) PROVE ListedRemovable'
  BY <1>8 DEF OperatorStarts, Types, TypeOK, ListedRemovable
<1>9. ASSUME NEW h \in Host, StartRemoval(h) PROVE ListedRemovable'
  BY <1>9 DEF StartRemoval, Types, TypeOK, ListedRemovable
<1>10. CASE RemoveBrokenData
  BY <1>10 DEF RemoveBrokenData, Types, TypeOK, ListedRemovable
<1>11. CASE ListMembers
  BY <1>11 DEF ListMembers, Types, TypeOK, ListedRemovable
<1>12. ASSUME NEW m \in Host, RemoveBrokenMember(m) PROVE ListedRemovable'
  BY <1>12 DEF RemoveBrokenMember, Types, TypeOK, ListedRemovable
<1>13. ASSUME NEW m \in Host, RemovalRefused(m) PROVE ListedRemovable'
  BY <1>13 DEF RemovalRefused, Types, TypeOK, ListedRemovable
<1>14. ASSUME NEW h \in Host, MemberAdd(h) PROVE ListedRemovable'
  BY <1>14 DEF MemberAdd, Types, TypeOK, ListedRemovable
<1>15. ASSUME NEW h \in Host, StartMember(h) PROVE ListedRemovable'
  BY <1>15 DEF StartMember, Types, TypeOK, ListedRemovable
<1>16. CASE LookupMember
  BY <1>16 DEF LookupMember, Types, TypeOK, ListedRemovable
<1>17. CASE RemoveFromCluster
  BY <1>17 DEF RemoveFromCluster, Types, TypeOK, ListedRemovable
<1> QED
  BY <1>1, <1>2, <1>3, <1>4, <1>5, <1>6, <1>7, <1>8, <1>9, <1>10, <1>11, <1>12, <1>13, <1>14,
      <1>15, <1>16, <1>17 DEF Next, Recovery, Removal

\* What a step takes from the members was listed.
LEMMA RemovesTargetOnlyStep ==
  ASSUME Types, Copies, ListedRemovable, [Next]_vars
  PROVE  \A m \in members[id] \ members'[id] : m \in broken \cup target
<1> DEFINE TargetOnly == \A m \in members[id] \ members'[id] : m \in broken \cup target
<1> USE DEF disks, units, clusters, history, inventory, play, counters, Goto, EndRun, RemovalTasks
<1>1. CASE \/ UNCHANGED vars \/ Write \/ StartRecovery \/ CheckHealth \/ SaveSnapshot
           \/ TransferSnapshot \/ StopEtcd \/ RemoveFirstData \/ RemoveSnapshot \/ StartEtcd
  BY <1>1 DEF vars, Write, StartRecovery, CheckHealth, SaveSnapshot, TransferSnapshot, StopEtcd,
      RemoveFirstData, RemoveSnapshot, StartEtcd
<1>2. CASE \/ RemoveBrokenData \/ ListMembers \/ MembersRemoved \/ StartMembers \/ RunCompletes
           \/ TaskFails \/ LookupMember \/ ResetHost \/ Removed \/ Interrupt
  BY <1>2 DEF RemoveBrokenData, ListMembers, MembersRemoved, StartMembers, RunCompletes,
      TaskFails, LookupMember, ResetHost, Removed, Interrupt
<1>3. ASSUME NEW h \in Host, CatchUp(h) PROVE TargetOnly
  BY <1>3 DEF CatchUp
<1>4. ASSUME NEW h \in Host, Stop(h) PROVE TargetOnly
  BY <1>4 DEF Stop
<1>5. ASSUME NEW h \in Host, Restart(h) PROVE TargetOnly
  BY <1>5 DEF Restart
<1>6. ASSUME NEW h \in Host, Disaster(h) PROVE TargetOnly
  BY <1>6 DEF Disaster
<1>7. CASE Provision
  BY <1>7 DEF Provision, Replace
<1>8. ASSUME NEW h \in Host, OperatorStarts(h) PROVE TargetOnly
  BY <1>8 DEF OperatorStarts
<1>9. ASSUME NEW h \in Host, StartRemoval(h) PROVE TargetOnly
  BY <1>9 DEF StartRemoval
<1>10. CASE RestoreSnapshot
  <2>1. id + 1 # id /\ id \in 1 .. MaxClusters
    BY RepairAssumption DEF Types, TypeOK
  <2>2. members'[id] = members[id]
    BY <2>1, <1>10 DEF RestoreSnapshot, Types, TypeOK
  <2>3. QED
    BY <2>2
<1>11. ASSUME NEW m \in Host, RemoveBrokenMember(m) PROVE TargetOnly
  <2>1. RemoveMember(m) /\ m \in broken
    BY <1>11 DEF RemoveBrokenMember, ListedRemovable
  <2>2. members'[id] = members[id] \ {m}
    BY <2>1, RemovalRoster
  <2>3. QED
    BY <2>1, <2>2
<1>12. ASSUME NEW m \in Host, RemovalRefused(m) PROVE TargetOnly
  BY <1>12 DEF RemovalRefused
<1>13. ASSUME NEW h \in Host, MemberAdd(h) PROVE TargetOnly
  <2>1. members'[id] = members[id] \cup {h}
    BY <1>13 DEF MemberAdd, Types, TypeOK
  <2>2. QED
    BY <2>1
<1>14. ASSUME NEW h \in Host, StartMember(h) PROVE TargetOnly
  BY <1>14 DEF StartMember
<1>15. CASE RemoveFromCluster
  <2>1. CASE listed = {}
    BY <2>1, <1>15 DEF RemoveFromCluster
  <2>2. CASE listed # {}
    <3>1. PICK m \in target : RemoveMember(m)
      BY <2>2, <1>15 DEF RemoveFromCluster, ListedRemovable
    <3>2. members'[id] = members[id] \ {m}
      BY <3>1, RemovalRoster
    <3>3. QED
      BY <3>1, <3>2
  <2>3. QED
    BY <2>1, <2>2
<1> QED
  BY <1>1, <1>2, <1>3, <1>4, <1>5, <1>6, <1>7, <1>8, <1>9, <1>10, <1>11, <1>12, <1>13, <1>14,
      <1>15 DEF Next, Recovery, Removal
-----------------------------------------------------------------------------
(* Theorems.                                                                 *)

\* The types hold always: what the plays know of the inventory at each task.
THEOREM TypesAlways == Spec => []Types
<1>1. Types /\ [Next]_vars => Types'
  BY TypesStep
<1>2. QED
  BY <1>1, TypesInit, PTL DEF Spec

\* So do the two parts on the copies and on the members.
THEOREM RosterAlways == Spec => [](Copies /\ Roster)
<1>1. Types /\ Copies /\ Roster /\ [Next]_vars => Copies' /\ Roster'
  BY CopiesStep, RosterStep
<1>2. QED
  BY <1>1, CopiesInit, RosterInit, TypesAlways, PTL DEF Spec

\* The type invariant.
THEOREM RepairTypeCorrect == Spec => []TypeOK
<1>1. Types => TypeOK
  BY DEF Types
<1>2. QED
  BY <1>1, TypesAlways, PTL

\* Whatever is destroyed, given up, wiped or interrupted, and however often, a
\* copy of the data is left on some disk (recover_lost_quorum.yml:2-54,
\* recover_control_plane/etcd/tasks/main.yml:35-44, roles/reset).
THEOREM CopyIsLeft == Spec => []SomeCopyIsLeft
<1>1. Types /\ Copies => SomeCopyIsLeft
  BY DEF Types, TypeOK, Copies, IsCopy, Survives, HasData, None, SomeCopyIsLeft
<1>2. QED
  BY <1>1, TypesAlways, RosterAlways, PTL

\* A running majority has what was acknowledged last, through removals, joins
\* without data and restores, as long as no etcd that was wiped starts again as
\* the member it was (main.yml:35-94, join_etcd_member.yml:2-48).
THEOREM MajorityHasLatest ==
  ASSUME ~MayForget
  PROVE  Spec => []QuorumHasLatest
<1>1. Types /\ Copies /\ Added /\ Latest /\ [Next]_vars => Added' /\ Latest'
  BY AddedStep, LatestStep
<1>2. Spec => []Latest
  BY <1>1, AddedInit, LatestInit, TypesAlways, RosterAlways, PTL DEF Spec
<1>3. Latest => QuorumHasLatest
  <2>1. SUFFICES ASSUME Latest, NEW c \in 1 .. id, Serving(c)
                 PROVE  \E h \in Holders(c) \cap up : data[h].writes = committed[c]
    BY DEF QuorumHasLatest
  <2>2. Holders(c) \cap up \in SUBSET Voters(c) /\ IsMajority(Holders(c) \cap up, c)
    BY <2>1 DEF Voters, Serving
  <2>3. QED
    BY <2>1, <2>2 DEF Latest, LatestOf
<1>4. QED
  BY <1>2, <1>3, PTL

\* A completed recovery has no broken member left, and all the group's hosts are
\* members with data, whatever the hosts are called (main.yml:80-94, the recovery
\* ends with cluster.yml).
THEOREM RecoveryRecovers == Spec => []CompletedRunRecovers
<1>1. Roster => CompletedRunRecovers
  BY DEF Roster
<1>2. QED
  BY <1>1, RosterAlways, PTL

\* No play removes another member than the one that it is to remove, if
\* etcd_member_name is set to a name of its own for every host and no address is a
\* part of another one (main.yml:94, remove-etcd-node/tasks/main.yml:28).
THEOREM OnlyTargetRemoved ==
  ASSUME PartOf = {}, \A g, h \in Host : MemberName[g] = MemberName[h] => g = h
  PROVE  Spec => RemovesTargetOnly
<1>1. Init => ListedRemovable
  BY DEF Init, ListedRemovable
<1>2. Types /\ ListedRemovable /\ [Next]_vars => ListedRemovable'
  BY ListedRemovableStep
<1>3. Spec => []ListedRemovable
  BY <1>1, <1>2, TypesAlways, PTL DEF Spec
<1>4. Types /\ Copies /\ ListedRemovable /\ [Next]_vars
        => [\A m \in members[id] \ members'[id] : m \in broken \cup target]_vars
  BY RemovesTargetOnlyStep
<1>5. QED
  BY <1>3, <1>4, TypesAlways, RosterAlways, PTL DEF Spec, RemovesTargetOnly
=============================================================================
