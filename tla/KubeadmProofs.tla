-------------------------- MODULE KubeadmProofs ----------------------------
(***************************************************************************)
(* Proofs about Kubeadm, for any masters, workers and initial order, any     *)
(* number of retries, failures and interrupted runs.                         *)
(*                                                                           *)
(* None of the five invariants is inductive by itself.  What they need is    *)
(* what a phase of kubeadm has left behind on its host (Files), which        *)
(* commands a task can run on which hosts (Commands), and how far a run has  *)
(* come (Progress): a host that is not asked to join serves already.         *)
(***************************************************************************)
EXTENDS Kubeadm, TLAPS

\* The types, in two parts.
DataType ==
  /\ group \in Seq(Master) /\ group # <<>> /\ workers \subseteq Worker
  /\ ca \in [Host -> Nat] /\ cert \in [Master -> SUBSET Master]
  /\ configured \subseteq Host /\ manifest \subseteq Master /\ kubelet_conf \subseteq Worker
  /\ uploaded \subseteq Master /\ marked \subseteq Master
  /\ authorities \in Nat /\ secret \in Nat /\ info \in Nat
  /\ retries \in Nat /\ failures \in Nat /\ aborts \in Nat

PlayType ==
  /\ playbook \in {"cluster", "scale"}
  /\ pc \in {"idle", "check_sans", "remove_certs", "regenerate", "init", "token",
             "upload_certs", "upload_scale", "join", "join_workers"}
  /\ already \subseteq Master /\ broken \subseteq Host
  /\ todo \subseteq (IF pc = "join_workers" THEN Worker ELSE Master)
  /\ phase \in [Host -> Phase]
  /\ \A h \in Host : phase[h] # "none" => h \in todo /\ (h \in Master => pc \in {"init", "join"})
  /\ completed \in BOOLEAN /\ cut \in BOOLEAN

\* Which phases a command can be in, and on which hosts a task of the masters is.
Commands ==
  /\ \A m \in Master : phase[m] \in
       IF Joins(m) THEN {"none", "reset", "certs", "manifests", "kubelet", "mark"}
       ELSE {"none", "certs", "kubelet", "manifests", "upload", "mark", "bootstrap"}
  /\ \A w \in Worker : phase[w] \in {"none", "first", "rescue", "second"}
  /\ pc = "init" => todo \subseteq {First} \ already
  /\ pc = "join" => todo \subseteq Group \ (already \cup {First})
  /\ pc = "upload_scale" => playbook = "scale"
  /\ broken \subseteq (IF pc = "join_workers" THEN Worker ELSE Master)
  /\ pc \notin {"init", "join", "join_workers"} => broken = {}

\* The first master has the one CA that was made.
Authority ==
  /\ authorities \in {0, 1} /\ ca[First] = authorities
  /\ \A h \in Host : ca[h] \in {0, authorities}
  /\ secret \in {0, authorities} /\ info \in {0, authorities}

\* The masters that are not among those that renew have every name.
Sans ==
  /\ SansComplete
  /\ pc \in {"remove_certs", "regenerate"} => \A m \in already \ todo : Group \subseteq cert[m]

\* The files that a master that serves has.
Certified(m) == ca[m] # 0 /\ cert[m] # {}
Serves(m) == m \in manifest \cap configured /\ Certified(m)

\* What the phases of a command have left behind.
LeftBehind(m) ==
  /\ phase[m] \in {"manifests", "kubelet", "upload", "mark", "bootstrap"} => Certified(m)
  /\ phase[m] \in {"kubelet", "mark"} /\ Joins(m) => m \in manifest
  /\ phase[m] \in {"manifests", "upload", "mark", "bootstrap"} /\ ~Joins(m) => m \in configured
  /\ phase[m] \in {"upload", "mark", "bootstrap"} /\ ~Joins(m) => m \in manifest
  /\ phase[m] = "mark" => m \in manifest \cap configured
  /\ phase[m] = "bootstrap" => m \in marked
  /\ m \in configured => ca[m] # 0 /\ (Joins(m) => m \in manifest)
  /\ m \in already => m \in configured

Files == \A m \in Master : LeftBehind(m)

\* How far a run has come.
Progress ==
  /\ pc = "init" => First \in todo \cup broken \/ (First \in configured /\ Certified(First))
  /\ pc \in {"token", "upload_certs"} => First \in configured /\ Certified(First)
  /\ pc = "upload_certs" => First \in manifest
  /\ pc = "join" => \A m \in Group : m \in todo \cup broken \/ Serves(m)
  /\ pc = "join_workers" /\ playbook = "cluster" => \A m \in Group : Serves(m)
  /\ pc = "join_workers" => workers \subseteq kubelet_conf \cup todo \cup broken
  /\ CompletedRunServes
  /\ completed => pc = "idle"

\* Which masters have been marked, and that a join meets none of them.
Marked ==
  /\ MarkedServes
  /\ pc \in {"check_sans", "remove_certs", "regenerate", "init", "token", "upload_certs"} =>
       marked \cap Group \subseteq already \cup {First}
  /\ pc = "join" => todo \cap marked = {}
  /\ ~cut => \A m \in Master \cap configured :
               m \in marked \/ (pc \in {"init", "join"} /\ m \in todo \cup broken)
-----------------------------------------------------------------------------
(* The order of the masters.                                                 *)

\* The two parts make up the type invariant.
LEMMA TypeParts == TypeOK <=> DataType /\ PlayType
  BY DEF TypeOK, DataType, PlayType

\* The first master is one of the group.
LEMMA Firsts ==
  ASSUME DataType
  PROVE  First \in Master /\ Group \subseteq Master /\ First \in Group
  <1>1. Len(group) >= 1 /\ 1 \in DOMAIN group
    BY DEF DataType
  <1>2. QED BY <1>1 DEF DataType, First, Group

\* A master that is appended does not become the first.
LEMMA Appended ==
  ASSUME DataType, NEW m \in Master, group' = Append(group, m)
  PROVE  group' \in Seq(Master) /\ group' # <<>> /\ First' = First /\ Group' = Group \cup {m}
  <1> DEFINE n == Len(group)
  <1>1. group \in Seq(Master) /\ n \in Nat /\ n >= 1 /\ DOMAIN group = 1..n
    BY DEF DataType
  <1>2. group' \in Seq(Master) /\ Len(group') = n + 1 /\ DOMAIN group' = 1..(n + 1)
    BY <1>1
  <1>3. group'[n + 1] = m /\ \A i \in 1..n : group'[i] = group[i]
    BY <1>1
  <1> HIDE DEF n
  <1>4. group' # <<>>
    BY <1>1, <1>2
  <1>5. First' = First
    BY <1>1, <1>3 DEF First
  <1>6. Group' \subseteq Group \cup {m}
    <2> SUFFICES ASSUME NEW i \in 1..(n + 1) PROVE group'[i] \in Group \cup {m}
      BY <1>2 DEF Group
    <2>1. CASE i = n + 1
      BY <2>1, <1>3
    <2>2. CASE i # n + 1
      <3>1. i \in 1..n
        BY <2>2, <1>1
      <3>2. QED BY <3>1, <1>1, <1>3 DEF Group
    <2>3. QED BY <2>1, <2>2
  <1>7. Group \cup {m} \subseteq Group'
    <2>1. m \in Group'
      <3>1. n + 1 \in 1..(n + 1)
        BY <1>1
      <3>2. QED BY <3>1, <1>2, <1>3 DEF Group
    <2>2. ASSUME NEW i \in 1..n PROVE group[i] \in Group'
      <3>1. i \in 1..(n + 1)
        BY <1>1
      <3>2. QED BY <3>1, <1>2, <1>3 DEF Group
    <2>3. QED BY <2>1, <2>2, <1>1 DEF Group
  <1>8. QED BY <1>2, <1>4, <1>5, <1>6, <1>7

\* The new first master after a change of the order was one of the group.
LEMMA Moved ==
  ASSUME DataType, group' = Append(Tail(group), First), Len(group) > 1
  PROVE  group' \in Seq(Master) /\ group' # <<>> /\ First' \in Group /\ Group' = Group
  <1> DEFINE n == Len(group)
  <1>1. First \in Master /\ Tail(group) \in Seq(Master) /\ Len(Tail(group)) = n - 1
    BY Firsts DEF DataType
  <1>2. /\ group' \in Seq(Master) /\ Len(group') = n
        /\ \A i \in 1..(n - 1) : group'[i] = group[i + 1]
        /\ group'[n] = group[1]
    BY <1>1 DEF DataType, First
  <1>3. DOMAIN group = 1..n /\ DOMAIN group' = 1..n /\ n \in Nat /\ n > 1
    BY <1>2 DEF DataType
  <1> HIDE DEF n
  <1>4. Group' \subseteq Group
    <2> SUFFICES ASSUME NEW i \in 1..n PROVE group'[i] \in Group
      BY <1>3 DEF Group
    <2>1. CASE i = n
      BY <2>1, <1>2, <1>3 DEF Group
    <2>2. CASE i \in 1..(n - 1)
      <3>1. i + 1 \in DOMAIN group /\ group'[i] = group[i + 1]
        BY <2>2, <1>2, <1>3
      <3>2. QED BY <3>1 DEF Group
    <2>3. QED BY <2>1, <2>2, <1>3
  <1>5. Group \subseteq Group'
    <2> SUFFICES ASSUME NEW i \in 1..n PROVE group[i] \in Group'
      BY <1>3 DEF Group
    <2>1. CASE i = 1
      BY <2>1, <1>2, <1>3 DEF Group
    <2>2. CASE i \in 2..n
      <3>1. i - 1 \in 1..(n - 1) /\ i - 1 \in 1..n /\ (i - 1) + 1 = i
        BY <2>2, <1>3
      <3>2. group'[i - 1] = group[i]
        BY <3>1, <1>2
      <3>3. QED BY <3>1, <3>2, <1>3 DEF Group
    <2>3. QED BY <2>1, <2>2, <1>3
  <1>6. First' \in Group
    BY <1>2, <1>3 DEF First, Group
  <1>7. QED BY <1>2, <1>3, <1>4, <1>5, <1>6

-----------------------------------------------------------------------------
(* The phases of a command.                                                  *)

CommandPhase == {"reset", "certs", "manifests", "kubelet", "upload", "mark", "bootstrap"}

\* What the end of a phase does to the play.
LEMMA PhaseDone ==
  ASSUME DataType, PlayType, Commands, NEW m \in Master, NEW p \in CommandPhase,
         phase[m] = p, Done(m, p)
  PROVE  /\ m \in todo /\ pc \in {"init", "join"}
         /\ UNCHANGED <<group, workers, playbook, pc, already, broken, completed, cut,
                        failures, aborts, First, Group>>
         /\ \A h \in Host \ {m} : phase'[h] = phase[h]
         /\ phase'[m] = NextPhase(m, p)
         /\ IF phase'[m] = "none" THEN todo' = todo \ {m} ELSE todo' = todo
         /\ PlayType' /\ Commands' /\ retries' \in Nat
  <1>1. m \in Host /\ First \in Master /\ Group \subseteq Master
    BY Firsts DEF Host
  <1>2. m \in todo /\ pc \in {"init", "join"}
    BY <1>1 DEF PlayType, CommandPhase
  <1>3. UNCHANGED <<group, workers, playbook, pc, already, broken, completed, cut,
                    failures, aborts, First, Group>>
    BY DEF Done, inventory, history, First, Group
  <1>4. /\ \A h \in Host \ {m} : phase'[h] = phase[h]
        /\ phase'[m] = NextPhase(m, p)
        /\ phase' = [phase EXCEPT ![m] = NextPhase(m, p)]
    BY <1>1 DEF Done, PlayType
  <1>5. IF phase'[m] = "none" THEN todo' = todo \ {m} ELSE todo' = todo
    BY <1>4 DEF Done
  <1>6. retries' \in Nat
    BY KubeadmAssumption DEF Done, DataType
  <1>7. NextPhase(m, p) \in
          IF Joins(m) THEN {"none", "reset", "certs", "manifests", "kubelet", "mark"}
          ELSE {"none", "certs", "kubelet", "manifests", "upload", "mark", "bootstrap"}
    <2>1. CASE Joins(m)
      <3>1. p \in {"reset", "certs", "manifests", "kubelet", "mark"}
        BY <2>1 DEF Commands, CommandPhase
      <3>2. QED BY <2>1, <3>1 DEF NextPhase
    <2>2. CASE ~Joins(m)
      <3>1. p \in {"certs", "kubelet", "manifests", "upload", "mark", "bootstrap"}
        BY <2>2 DEF Commands, CommandPhase
      <3>2. QED BY <2>2, <3>1 DEF NextPhase
    <2>3. QED BY <2>1, <2>2
  <1>8. phase' \in [Host -> Phase]
    BY <1>1, <1>4, <1>7 DEF PlayType, Phase
  <1>9. PlayType'
    BY <1>1, <1>2, <1>3, <1>4, <1>5, <1>8 DEF PlayType
  <1>10. Commands'
    <2>1. \A h \in Master : Joins(h)' <=> Joins(h)
      BY <1>3 DEF Joins
    <2>2. \A h \in Host \ {m} : phase'[h] = phase[h]
      BY <1>4
    <2>3. \A h \in Master : phase'[h] \in
            IF Joins(h) THEN {"none", "reset", "certs", "manifests", "kubelet", "mark"}
            ELSE {"none", "certs", "kubelet", "manifests", "upload", "mark", "bootstrap"}
      BY <2>2, <1>4, <1>7 DEF Commands, Host
    <2>4. \A w \in Worker : phase'[w] \in {"none", "first", "rescue", "second"}
      BY <2>2, KubeadmAssumption DEF Commands, Host
    <2>5. todo' \subseteq todo
      BY <1>5
    <2>6. QED BY <1>3, <2>1, <2>3, <2>4, <2>5 DEF Commands
  <1>11. QED BY <1>2, <1>3, <1>4, <1>5, <1>6, <1>9, <1>10

\* A phase of the command of a master.
PhaseStep(m) ==
  \/ Reset(m) \/ InitCerts(m) \/ JoinCerts(m) \/ Manifests(m) \/ KubeletStart(m)
  \/ Upload(m) \/ Mark(m) \/ BootstrapToken(m)

\* A phase changes files of its own host only, the last ones of none.
LEMMA PhaseSteps ==
  ASSUME DataType, PlayType, NEW m \in Master, PhaseStep(m)
  PROVE  /\ phase[m] \in CommandPhase /\ Done(m, phase[m])
         /\ kubelet_conf' = kubelet_conf
         /\ \A h \in Master \ {m} :
              /\ ca'[h] = ca[h] /\ cert'[h] = cert[h]
              /\ h \in configured' <=> h \in configured
              /\ h \in manifest' <=> h \in manifest
              /\ h \in marked' <=> h \in marked
         /\ phase[m] \in {"mark", "bootstrap"} => UNCHANGED disk
  <1> USE DEF CommandPhase, DataType, Host, disk, objects
  <1>1. CASE Reset(m)
    BY <1>1 DEF Reset
  <1>2. CASE InitCerts(m)
    BY <1>2 DEF InitCerts
  <1>3. CASE JoinCerts(m)
    BY <1>3 DEF JoinCerts
  <1>4. CASE Manifests(m) \/ KubeletStart(m)
    BY <1>4 DEF Manifests, KubeletStart
  <1>5. CASE Upload(m) \/ Mark(m) \/ BootstrapToken(m)
    BY <1>5 DEF Upload, Mark, BootstrapToken
  <1>6. QED BY <1>1, <1>2, <1>3, <1>4, <1>5 DEF PhaseStep
-----------------------------------------------------------------------------
(* Every step keeps every part of the invariant.                             *)


\* The types, if a step leaves all but the counters alone.
LEMMA DataFrame ==
  ASSUME DataType, UNCHANGED <<inventory, disk, objects>>,
         retries' \in Nat, failures' \in Nat, aborts' \in Nat
  PROVE  DataType'
  BY DEF DataType, inventory, disk, objects

\* The types of the files and of the objects in the API.
LEMMA DataTypeStep ==
  ASSUME DataType, PlayType, Next
  PROVE  DataType'
  <1>1. ASSUME NEW m \in Master, InitCerts(m)
        PROVE  DataType'
    <2>1. ca' \in [Host -> Nat] /\ authorities' \in Nat
      BY <1>1 DEF InitCerts, DataType
    <2>2. cert' \in [Master -> SUBSET Master]
      BY <1>1, Firsts DEF InitCerts, DataType
    <2>3. retries' \in Nat
      BY <1>1, KubeadmAssumption DEF InitCerts, Done, DataType
    <2>4. QED BY <1>1, <2>1, <2>2, <2>3 DEF InitCerts, Done, DataType, inventory,
                 objects, history
  <1>2. CASE ApiTaskFails
    <2>1. retries' = 0 /\ aborts' = aborts /\ UNCHANGED <<inventory, disk, objects>>
      BY <1>2 DEF ApiTaskFails, EndRun
    <2>2. failures' \in {failures, failures + 1}
      BY <1>2 DEF ApiTaskFails
    <2>3. failures' \in Nat /\ aborts' \in Nat
      BY <2>1, <2>2 DEF DataType
    <2>4. QED BY <2>1, <2>3, DataFrame
  <1>3. ASSUME NEW m \in Master, Manifests(m) \/ KubeletStart(m)
        PROVE  DataType'
    <2>1. retries' \in Nat
      BY <1>3, KubeadmAssumption DEF Manifests, KubeletStart, Done, DataType
    <2>2. manifest' \subseteq Master /\ configured' \subseteq Host
      BY <1>3 DEF Manifests, KubeletStart, DataType, Host
    <2>3. UNCHANGED <<group, workers, ca, cert, kubelet_conf, authorities, uploaded, secret,
                      info, marked, failures, aborts>>
      BY <1>3 DEF Manifests, KubeletStart, Done, inventory, objects, history
    <2>4. QED BY <2>1, <2>2, <2>3 DEF DataType
  <1>4. ASSUME NEW w \in Worker, FirstJoinFails(w)
        PROVE  DataType'
    <2>1. retries' = retries /\ aborts' = aborts /\ UNCHANGED <<inventory, disk, objects>>
      BY <1>4 DEF FirstJoinFails
    <2>2. failures' \in {failures, failures + 1}
      BY <1>4 DEF FirstJoinFails
    <2>3. retries' \in Nat /\ failures' \in Nat /\ aborts' \in Nat
      BY <2>1, <2>2 DEF DataType
    <2>4. QED BY <2>1, <2>3, DataFrame
  <1>5. ASSUME NEW w \in Worker, RescueFails(w)
        PROVE  DataType'
    <2>1. retries' = retries /\ aborts' = aborts /\ UNCHANGED <<inventory, disk, objects>>
      BY <1>5 DEF RescueFails
    <2>2. failures' \in {failures, failures + 1}
      BY <1>5 DEF RescueFails
    <2>3. retries' \in Nat /\ failures' \in Nat /\ aborts' \in Nat
      BY <2>1, <2>2 DEF DataType
    <2>4. QED BY <2>1, <2>3, DataFrame
  <1>6. ASSUME NEW m \in Master, CommandFails(m)
        PROVE  DataType'
    <2>1. retries' \in Nat
      BY <1>6, KubeadmAssumption DEF CommandFails, DataType
    <2>2. aborts' = aborts /\ UNCHANGED <<inventory, disk, objects>>
      BY <1>6 DEF CommandFails
    <2>3. failures' \in {failures, failures + 1}
      BY <1>6 DEF CommandFails
    <2>4. failures' \in Nat /\ aborts' \in Nat
      BY <2>2, <2>3 DEF DataType
    <2>5. QED BY <2>1, <2>2, <2>4, DataFrame
  <1> USE Firsts, KubeadmAssumption DEF DataType, PlayType, Group, First, Host,
         inventory, disk, objects, play, history
  <1>7. CASE StartCluster \/ StartScale
    BY <1>7 DEF StartCluster, Start, Goto, StartScale
  <1>8. CASE CheckSans \/ CertsRemoved \/ Regenerated \/ Initialized \/ CreateToken \/ Joined
    BY <1>8 DEF CheckSans, Goto, CertsRemoved, Regenerated, Initialized, CreateToken,
       Joined
  <1>9. CASE UploadCerts
    BY <1>9 DEF UploadCerts, Goto
  <1>10. CASE PlayFails
    BY <1>10 DEF PlayFails, EndRun
  <1>11. CASE RunCompletes
    BY <1>11 DEF RunCompletes, EndRun
  <1>12. CASE Interrupt
    BY <1>12 DEF Interrupt, EndRun
  <1>13. ASSUME NEW m \in Master, RemoveCert(m)
        PROVE  DataType'
    BY <1>13 DEF RemoveCert
  <1>14. ASSUME NEW m \in Master, Regenerate(m)
        PROVE  DataType'
    BY <1>14 DEF Regenerate
  <1>15. ASSUME NEW m \in Master, StartCommand(m)
        PROVE  DataType'
    BY <1>15 DEF StartCommand
  <1>16. ASSUME NEW m \in Master, Reset(m)
        PROVE  DataType'
    BY <1>16 DEF Reset, Done
  <1>17. ASSUME NEW m \in Master, JoinCerts(m)
        PROVE  DataType'
    BY <1>17 DEF JoinCerts, Done
  <1>18. ASSUME NEW m \in Master, Upload(m)
        PROVE  DataType'
    BY <1>18 DEF Upload, Done
  <1>19. ASSUME NEW m \in Master, Mark(m)
        PROVE  DataType'
    BY <1>19 DEF Mark, Done
  <1>20. ASSUME NEW m \in Master, BootstrapToken(m)
        PROVE  DataType'
    BY <1>20 DEF BootstrapToken, Done
  <1>21. ASSUME NEW w \in Worker, JoinWorker(w)
        PROVE  DataType'
    BY <1>21 DEF JoinWorker
  <1>22. ASSUME NEW w \in Worker, KubeletBootstraps(w)
        PROVE  DataType'
    BY <1>22 DEF KubeletBootstraps
  <1>23. ASSUME NEW w \in Worker, WorkerJoined(w)
        PROVE  DataType'
    BY <1>23 DEF WorkerJoined
  <1>24. ASSUME NEW m \in Master, AddMaster(m)
        PROVE  DataType'
    BY <1>24, Appended DEF AddMaster, Edited
  <1>25. ASSUME NEW w \in Worker, AddWorker(w)
        PROVE  DataType'
    BY <1>25 DEF AddWorker, Edited
  <1>26. CASE ChangeOrder
    BY <1>26, Moved DEF ChangeOrder, Edited
  <1>27. QED BY <1>1, <1>6, <1>7, <1>8, <1>9, <1>2, <1>10, <1>11, <1>12, <1>13, <1>14,
             <1>15, <1>16, <1>17, <1>3, <1>18, <1>19, <1>20, <1>21, <1>22, <1>23,
             <1>4, <1>5, <1>24, <1>25, <1>26 DEF Next, Tasks, Command, PhaseStep

\* The types of the play, and the commands it runs.
LEMMA PlayStep ==
  ASSUME DataType, PlayType, Commands, Next
  PROVE  PlayType' /\ Commands'
  <1>1. ASSUME NEW m \in Master, PhaseStep(m)
        PROVE  PlayType' /\ Commands'
    BY <1>1, PhaseDone, PhaseSteps
  <1>2. CASE UploadCerts
    <2>1. JoiningWorkers \subseteq Worker
      BY DEF JoiningWorkers, DataType
    <2>2. \A m \in Master : phase[m] = "none"
      BY <1>2 DEF UploadCerts, PlayType, Host
    <2>3. \A w \in Worker : phase[w] = "none"
      BY <1>2, KubeadmAssumption DEF UploadCerts, PlayType, Host
    <2>4. CASE pc = "upload_certs"
      BY <1>2, <2>2, <2>3, <2>4, Firsts
      DEF UploadCerts, Goto, PlayType, Commands, Host, history, inventory, First, Group
    <2>5. CASE pc = "upload_scale"
      <3>1. pc' = "join_workers" /\ todo' = JoiningWorkers /\ broken = {}
        BY <1>2, <2>5 DEF UploadCerts, Goto, PlayType, Commands
      <3>2. UNCHANGED <<phase, broken, already, completed, cut, playbook, group>>
        BY <1>2 DEF UploadCerts, history, inventory
      <3>3. PlayType'
        BY <3>1, <3>2, <2>1, <2>2, <2>3 DEF PlayType, Host
      <3>4. Commands'
        BY <3>1, <3>2, <2>1, <2>2, <2>3 DEF Commands
      <3>5. QED BY <3>3, <3>4
    <2>6. QED BY <1>2, <2>4, <2>5 DEF UploadCerts
  <1>3. ASSUME NEW m \in Master, CommandFails(m)
        PROVE  PlayType' /\ Commands'
    <2>1. m \in Host /\ phase[m] # "none" /\ pc \in {"init", "join"} /\ m \in todo
      BY <1>3 DEF CommandFails, PlayType, Host
    <2>2. \A h \in Host : phase'[h] = IF h = m THEN "none" ELSE phase[h]
      BY <1>3, <2>1 DEF CommandFails, PlayType
    <2>3. /\ todo' = IF retries > 0 THEN todo ELSE todo \ {m}
          /\ broken' = IF retries > 0 THEN broken ELSE broken \cup {m}
      BY <1>3 DEF CommandFails
    <2>4. phase' \in [Host -> Phase]
      BY <1>3 DEF CommandFails, PlayType, Phase
    <2>5. PlayType'
      BY <1>3, <2>1, <2>2, <2>3, <2>4 DEF CommandFails, PlayType, Host
    <2>6. UNCHANGED <<First, Group, already, pc, playbook>>
      BY <1>3 DEF CommandFails, inventory, First, Group
    <2>7. Commands'
      BY <2>1, <2>2, <2>3, <2>6, KubeadmAssumption DEF Commands, Joins, Host
    <2>8. QED BY <2>5, <2>7
  <1>4. ASSUME NEW m \in Master, StartCommand(m)
        PROVE  PlayType' /\ Commands'
    <2>1. m \in Host /\ m \in todo /\ pc \in {"init", "join"}
      BY <1>4 DEF StartCommand, Host
    <2>2. FirstPhase(m) \in {"reset", "certs"} /\ (FirstPhase(m) = "reset" => Joins(m))
      BY DEF FirstPhase
    <2>3. \A h \in Host : phase'[h] = IF h = m THEN FirstPhase(m) ELSE phase[h]
      BY <1>4, <2>1 DEF StartCommand, PlayType
    <2>4. phase' \in [Host -> Phase]
      BY <1>4, <2>1, <2>2 DEF StartCommand, PlayType, Phase
    <2>5. UNCHANGED <<First, Group, already, pc, playbook, todo, broken, completed, cut>>
      BY <1>4 DEF StartCommand, inventory, history, First, Group
    <2>6. PlayType'
      BY <2>1, <2>3, <2>4, <2>5 DEF PlayType
    <2>7. Commands'
      <3>1. \A h \in Master : Joins(h)' <=> Joins(h)
        BY <2>5 DEF Joins
      <3>2. \A h \in Master : phase'[h] \in
              IF Joins(h) THEN {"none", "reset", "certs", "manifests", "kubelet", "mark"}
              ELSE {"none", "certs", "kubelet", "manifests", "upload", "mark", "bootstrap"}
        BY <2>2, <2>3 DEF Commands, Host
      <3>3. \A w \in Worker : phase'[w] \in {"none", "first", "rescue", "second"}
        BY <2>3, KubeadmAssumption DEF Commands, Host
      <3>4. QED BY <2>5, <3>1, <3>2, <3>3 DEF Commands
    <2>8. QED BY <2>6, <2>7
  <1>5. ASSUME NEW w \in Worker, FirstJoinFails(w)
        PROVE  PlayType' /\ Commands'
    <2>1. w \in Host /\ w \in todo /\ pc = "join_workers"
      BY <1>5 DEF FirstJoinFails, Host
    <2>2. \A h \in Host : phase'[h] = IF h = w THEN "rescue" ELSE phase[h]
      BY <1>5, <2>1 DEF FirstJoinFails, PlayType
    <2>3. phase' \in [Host -> Phase]
      BY <1>5, <2>1 DEF FirstJoinFails, PlayType, Phase
    <2>4. UNCHANGED <<First, Group, already, pc, playbook, todo, broken, completed, cut>>
      BY <1>5 DEF FirstJoinFails, inventory, First, Group
    <2>5. w \notin Master
      BY KubeadmAssumption
    <2>6. PlayType'
      BY <2>1, <2>2, <2>3, <2>4, <2>5 DEF PlayType
    <2>7. Commands'
      BY <2>2, <2>4, <2>5 DEF Commands, Joins, Host
    <2>8. QED BY <2>6, <2>7
  <1> USE Firsts, KubeadmAssumption DEF DataType, PlayType, Commands, Phase, NextPhase,
         FirstPhase, JoiningWorkers, Joins, Group, First, Host, inventory, disk,
         objects, play, history
  <1>6. CASE StartCluster \/ StartScale
    BY <1>6 DEF StartCluster, Start, Goto, StartScale
  <1>7. CASE CheckSans
    BY <1>7 DEF CheckSans, Goto
  <1>8. CASE CertsRemoved
    BY <1>8 DEF CertsRemoved, Goto
  <1>9. CASE Regenerated
    BY <1>9 DEF Regenerated, Goto
  <1>10. CASE Initialized
    BY <1>10 DEF Initialized, Goto
  <1>11. CASE CreateToken
    BY <1>11 DEF CreateToken, Goto
  <1>12. CASE Joined
    BY <1>12 DEF Joined, Goto
  <1>13. CASE ApiTaskFails
    BY <1>13 DEF ApiTaskFails, EndRun
  <1>14. CASE PlayFails
    BY <1>14 DEF PlayFails, EndRun
  <1>15. CASE RunCompletes
    BY <1>15 DEF RunCompletes, EndRun
  <1>16. CASE Interrupt
    BY <1>16 DEF Interrupt, EndRun
  <1>17. ASSUME NEW m \in Master, RemoveCert(m)
        PROVE  PlayType' /\ Commands'
    BY <1>17 DEF RemoveCert
  <1>18. ASSUME NEW m \in Master, Regenerate(m)
        PROVE  PlayType' /\ Commands'
    BY <1>18 DEF Regenerate
  <1>19. ASSUME NEW w \in Worker, JoinWorker(w)
        PROVE  PlayType' /\ Commands'
    BY <1>19 DEF JoinWorker
  <1>20. ASSUME NEW w \in Worker, KubeletBootstraps(w)
        PROVE  PlayType' /\ Commands'
    BY <1>20 DEF KubeletBootstraps
  <1>21. ASSUME NEW w \in Worker, WorkerJoined(w)
        PROVE  PlayType' /\ Commands'
    BY <1>21 DEF WorkerJoined
  <1>22. ASSUME NEW w \in Worker, RescueFails(w)
        PROVE  PlayType' /\ Commands'
    BY <1>22 DEF RescueFails
  <1>23. ASSUME NEW m \in Master, AddMaster(m)
        PROVE  PlayType' /\ Commands'
    BY <1>23, Appended DEF AddMaster, Edited
  <1>24. ASSUME NEW w \in Worker, AddWorker(w)
        PROVE  PlayType' /\ Commands'
    BY <1>24 DEF AddWorker, Edited
  <1>25. CASE ChangeOrder
    BY <1>25, Moved DEF ChangeOrder, Edited
  <1>26. QED BY <1>1, <1>2, <1>3, <1>6, <1>7, <1>8, <1>9, <1>10, <1>11, <1>12, <1>13,
             <1>14, <1>15, <1>16, <1>17, <1>18, <1>4, <1>19, <1>20, <1>21, <1>5,
             <1>22, <1>23, <1>24, <1>25 DEF Next, Tasks, Command, PhaseStep

\* Only the first master makes a CA, and only if it has none; a reset meets others.
LEMMA AuthorityStep ==
  ASSUME DataType, PlayType, Commands, Authority, Files, Progress, Next
  PROVE  Authority'
  <1>1. ASSUME NEW m \in Master, InitCerts(m)
        PROVE  Authority'
    <2>1. m = First /\ m \in Host
      BY <1>1 DEF InitCerts, Joins, Host
    <2>2. UNCHANGED <<group, First, secret, info>>
      BY <1>1 DEF InitCerts, Done, inventory, objects, First
    <2>3. CASE ca[m] = 0
      <3>1. authorities = 0 /\ authorities' = 1 /\ ca' = [ca EXCEPT ![m] = 1]
        BY <1>1, <2>1, <2>3 DEF InitCerts, Authority
      <3>2. QED BY <2>1, <2>2, <3>1 DEF Authority, DataType
    <2>4. CASE ca[m] # 0
      BY <1>1, <2>2, <2>4 DEF InitCerts, Authority
    <2>5. QED BY <2>3, <2>4
  <1>2. CASE ChangeOrder
    <2>1. First' \in Group /\ First' \in Host
      BY <1>2, Moved, Firsts DEF ChangeOrder, Host
    <2>2. ca[First'] # 0
      BY <1>2, <2>1 DEF ChangeOrder, Progress, CompletedRunServes
    <2>3. ca'[First'] = authorities'
      BY <1>2, <2>1, <2>2 DEF ChangeOrder, Edited, Authority, disk
    <2>4. QED BY <1>2, <2>3 DEF ChangeOrder, Edited, Authority, disk, objects
  <1> USE Firsts, KubeadmAssumption DEF DataType, PlayType, Commands, Authority, Files,
         Progress, Joins, LeftBehind, Group, First, Host, inventory, disk, objects,
         play, history
  <1>3. CASE StartCluster \/ StartScale
    BY <1>3 DEF StartCluster, Start, Goto, StartScale
  <1>4. CASE CheckSans \/ CertsRemoved \/ Regenerated \/ Initialized \/ CreateToken \/ Joined
    BY <1>4 DEF CheckSans, Goto, CertsRemoved, Regenerated, Initialized, CreateToken,
       Joined
  <1>5. CASE UploadCerts
    BY <1>5 DEF UploadCerts, Goto
  <1>6. CASE ApiTaskFails \/ PlayFails \/ RunCompletes \/ Interrupt
    BY <1>6 DEF ApiTaskFails, EndRun, PlayFails, RunCompletes, Interrupt
  <1>7. ASSUME NEW m \in Master, RemoveCert(m) \/ Regenerate(m)
        PROVE  Authority'
    BY <1>7 DEF RemoveCert, Regenerate
  <1>8. ASSUME NEW m \in Master, StartCommand(m) \/ CommandFails(m)
        PROVE  Authority'
    BY <1>8 DEF StartCommand, CommandFails
  <1>9. ASSUME NEW m \in Master, Reset(m)
        PROVE  Authority'
    BY <1>9 DEF Reset, Done
  <1>10. ASSUME NEW m \in Master, JoinCerts(m)
        PROVE  Authority'
    BY <1>10 DEF JoinCerts, Done
  <1>11. ASSUME NEW m \in Master, Manifests(m) \/ KubeletStart(m)
        PROVE  Authority'
    BY <1>11 DEF Manifests, Done, KubeletStart
  <1>12. ASSUME NEW m \in Master, Upload(m) \/ Mark(m) \/ BootstrapToken(m)
        PROVE  Authority'
    BY <1>12 DEF Upload, Done, Mark, BootstrapToken
  <1>13. ASSUME NEW w \in Worker, JoinWorker(w)
        PROVE  Authority'
    BY <1>13 DEF JoinWorker
  <1>14. ASSUME NEW w \in Worker, KubeletBootstraps(w)
        PROVE  Authority'
    BY <1>14 DEF KubeletBootstraps
  <1>15. ASSUME NEW w \in Worker, WorkerJoined(w) \/ FirstJoinFails(w) \/ RescueFails(w)
        PROVE  Authority'
    BY <1>15 DEF WorkerJoined, FirstJoinFails, RescueFails
  <1>16. ASSUME NEW m \in Master, AddMaster(m)
        PROVE  Authority'
    BY <1>16, Appended DEF AddMaster, Edited
  <1>17. ASSUME NEW w \in Worker, AddWorker(w)
        PROVE  Authority'
    BY <1>17 DEF AddWorker, Edited
  <1>18. QED BY <1>1, <1>2, <1>3, <1>4, <1>5, <1>6, <1>7, <1>8, <1>9, <1>10, <1>11,
             <1>12, <1>13, <1>14, <1>15, <1>16,
             <1>17 DEF Next, Tasks, Command, PhaseStep

\* Between the check and the joins only masters that renew lose a certificate.
LEMMA SansStep ==
  ASSUME DataType, PlayType, Commands, Sans, Next
  PROVE  Sans'
  <1>1. ASSUME NEW m \in Master, PhaseStep(m)
        PROVE  Sans'
    <2>1. m \in todo /\ m \notin already /\ pc \in {"init", "join"}
      BY <1>1, PhaseSteps, PhaseDone DEF Commands
    <2>2. UNCHANGED <<pc, already, Group>>
      BY <1>1, PhaseSteps, PhaseDone
    <2>3. \A h \in Master \ {m} : cert'[h] = cert[h]
      BY <1>1, PhaseSteps
    <2>4. QED BY <2>1, <2>2, <2>3 DEF Sans, SansComplete, PlayType
  <1>2. ASSUME NEW w \in Worker, KubeletBootstraps(w)
        PROVE  Sans'
    <2>1. UNCHANGED <<cert, group, already, pc, todo>>
      BY <1>2 DEF KubeletBootstraps, inventory, play
    <2>2. QED BY <2>1 DEF Sans, SansComplete, Group
  <1> USE DEF DataType, PlayType, Sans, SansComplete, NeedRenew, Group, inventory, disk,
         objects, play, history
  <1>3. CASE StartCluster \/ StartScale
    BY <1>3 DEF StartCluster, Start, Goto, StartScale
  <1>4. CASE CheckSans
    BY <1>4 DEF CheckSans, Goto
  <1>5. CASE CertsRemoved
    BY <1>5 DEF CertsRemoved, Goto
  <1>6. CASE Regenerated
    BY <1>6 DEF Regenerated, Goto
  <1>7. CASE Initialized
    BY <1>7 DEF Initialized, Goto
  <1>8. CASE CreateToken
    BY <1>8 DEF CreateToken, Goto
  <1>9. CASE Joined
    BY <1>9 DEF Joined, Goto
  <1>10. CASE UploadCerts
    BY <1>10 DEF UploadCerts, Goto
  <1>11. CASE ApiTaskFails \/ PlayFails \/ RunCompletes \/ Interrupt
    BY <1>11 DEF ApiTaskFails, EndRun, PlayFails, RunCompletes, Interrupt
  <1>12. ASSUME NEW m \in Master, RemoveCert(m)
        PROVE  Sans'
    BY <1>12 DEF RemoveCert
  <1>13. ASSUME NEW m \in Master, Regenerate(m)
        PROVE  Sans'
    BY <1>13 DEF Regenerate
  <1>14. ASSUME NEW m \in Master, StartCommand(m)
        PROVE  Sans'
    BY <1>14 DEF StartCommand
  <1>15. ASSUME NEW m \in Master, CommandFails(m)
        PROVE  Sans'
    BY <1>15 DEF CommandFails, Host
  <1>16. ASSUME NEW w \in Worker, JoinWorker(w)
        PROVE  Sans'
    BY <1>16 DEF JoinWorker
  <1>17. ASSUME NEW w \in Worker, WorkerJoined(w) \/ FirstJoinFails(w) \/ RescueFails(w)
        PROVE  Sans'
    BY <1>17, KubeadmAssumption DEF WorkerJoined, FirstJoinFails, RescueFails, Host
  <1>18. ASSUME NEW m \in Master, AddMaster(m)
        PROVE  Sans'
    BY <1>18, Appended DEF AddMaster, Edited
  <1>19. ASSUME NEW w \in Worker, AddWorker(w)
        PROVE  Sans'
    BY <1>19 DEF AddWorker, Edited
  <1>20. CASE ChangeOrder
    BY <1>20, Moved DEF ChangeOrder, Edited
  <1>21. QED BY <1>1, <1>2, <1>3, <1>4, <1>5, <1>6, <1>7, <1>8, <1>9, <1>10, <1>11,
             <1>12, <1>13, <1>14, <1>15, <1>16, <1>17, <1>18, <1>19,
             <1>20 DEF Next, Tasks, Command, PhaseStep

\* A step that leaves the files of the masters alone, and their commands or ends
\* or begins one.
LEMMA FilesFrame ==
  ASSUME Files, First' = First,
         \A m \in Master : /\ ca'[m] = ca[m] /\ cert'[m] = cert[m]
                           /\ m \in configured' <=> m \in configured
                           /\ m \in manifest' <=> m \in manifest
                           /\ m \in marked' <=> m \in marked
                           /\ phase'[m] \in {phase[m], "none", "reset", "certs"}
                           /\ m \in already' => m \in already \/ m \in configured
  PROVE  Files'
  <1> SUFFICES ASSUME NEW m \in Master PROVE LeftBehind(m)'
    BY DEF Files
  <1>1. LeftBehind(m)
    BY DEF Files
  <1>2. (Certified(m)' <=> Certified(m)) /\ (Joins(m)' <=> Joins(m))
    BY DEF Certified, Joins
  <1>3. CASE phase'[m] = phase[m]
    BY <1>1, <1>2, <1>3 DEF LeftBehind
  <1>4. CASE phase'[m] \in {"none", "reset", "certs"}
    BY <1>1, <1>2, <1>4 DEF LeftBehind
  <1>5. QED BY <1>3, <1>4

\* A phase leaves the files of the other masters alone.
LEMMA PhaseFiles ==
  ASSUME DataType, PlayType, Commands, Files, NEW m \in Master, PhaseStep(m), LeftBehind(m)'
  PROVE  Files'
  <1>1. UNCHANGED <<First, already>> /\ \A h \in Host \ {m} : phase'[h] = phase[h]
    BY PhaseSteps, PhaseDone
  <1>2. \A h \in Master \ {m} : LeftBehind(h)'
    BY <1>1, PhaseSteps DEF Files, LeftBehind, Certified, Joins, Host
  <1>3. QED BY <1>2 DEF Files

\* Each phase leaves what the next one counts on.
LEMMA FilesStep ==
  ASSUME DataType, PlayType, Commands, Authority, Progress, Marked, Files, Next
  PROVE  Files'
  <1>1. ASSUME NEW m \in Master, Reset(m)
        PROVE  Files'
    <2>1. phase[m] = "reset" /\ Joins(m) /\ Done(m, "reset")
      BY <1>1 DEF Reset, Commands
    <2>2. phase'[m] = "certs"
      BY <1>1, <2>1, PhaseSteps, PhaseDone DEF NextPhase, PhaseStep
    <2>3. m \notin configured' /\ m \notin already
      BY <1>1, <2>1, PhaseSteps, PhaseDone DEF Reset, Commands, PhaseStep
    <2>4. PhaseStep(m)
      BY <1>1 DEF PhaseStep
    <2>5. LeftBehind(m)'
      BY <1>1, <2>1, <2>2, <2>3, PhaseSteps, PhaseDone
      DEF LeftBehind, Files, Certified, Joins, PhaseStep, PlayType, Reset
    <2>6. QED BY <2>4, <2>5, PhaseFiles
  <1>2. ASSUME NEW m \in Master, InitCerts(m)
        PROVE  Files'
    <2>1. phase[m] = "certs" /\ ~Joins(m)
      BY <1>2 DEF InitCerts
    <2>2. phase'[m] = "kubelet"
      BY <1>2, <2>1, PhaseSteps, PhaseDone DEF NextPhase, PhaseStep
    <2>3. ca'[m] # 0 /\ cert'[m] # {} /\ configured' = configured /\ manifest' = manifest
      BY <1>2, Firsts DEF InitCerts, DataType, Host
    <2>4. PhaseStep(m)
      BY <1>2 DEF PhaseStep
    <2>5. LeftBehind(m)'
      BY <1>2, <2>1, <2>2, <2>3, PhaseSteps, PhaseDone
      DEF LeftBehind, Files, Certified, Joins, PhaseStep, PlayType, InitCerts
    <2>6. QED BY <2>4, <2>5, PhaseFiles
  <1>3. ASSUME NEW m \in Master, JoinCerts(m)
        PROVE  Files'
    <2>1. phase[m] = "certs" /\ Joins(m)
      BY <1>3 DEF JoinCerts
    <2>2. phase'[m] = "manifests"
      BY <1>3, <2>1, PhaseSteps, PhaseDone DEF NextPhase, PhaseStep
    <2>3. ca'[m] # 0 /\ cert'[m] # {} /\ configured' = configured /\ manifest' = manifest
      BY <1>3 DEF JoinCerts, DataType, Host
    <2>4. PhaseStep(m)
      BY <1>3 DEF PhaseStep
    <2>5. LeftBehind(m)'
      BY <1>3, <2>1, <2>2, <2>3, PhaseSteps, PhaseDone
      DEF LeftBehind, Files, Certified, Joins, PhaseStep, PlayType, JoinCerts
    <2>6. QED BY <2>4, <2>5, PhaseFiles
  <1>4. CASE ChangeOrder
    <2>1. (Master \cap configured) \ {First} \subseteq manifest /\ Group \subseteq manifest
      BY <1>4 DEF ChangeOrder, Files, LeftBehind, Joins, Progress, CompletedRunServes
    <2>2. UNCHANGED <<ca, cert, configured, manifest, marked, already, phase>>
      BY <1>4 DEF ChangeOrder, Edited, disk, objects, play
    <2>3. \A m \in Master : phase[m] = "none"
      BY <1>4 DEF ChangeOrder, PlayType, Host
    <2>4. QED BY <2>1, <2>2, <2>3, Firsts DEF Files, LeftBehind, Certified, Joins
  <1>5. CASE StartCluster \/ StartScale
    <2>1. UNCHANGED <<group, ca, cert, configured, manifest, marked, phase>>
      BY <1>5 DEF StartCluster, StartScale, Start, inventory, disk, objects
    <2>2. \A m \in Master : m \in already' => m \in already \/ m \in configured
      BY <1>5 DEF StartCluster, StartScale
    <2>3. QED BY <2>1, <2>2, FilesFrame DEF First
  <1>6. CASE CheckSans \/ CertsRemoved \/ Regenerated \/ Initialized \/ CreateToken \/ Joined
    <2>1. UNCHANGED <<group, ca, cert, configured, manifest, marked, phase, already>>
      BY <1>6 DEF CheckSans, CertsRemoved, Regenerated, Initialized, CreateToken, Joined, inventory, disk, objects
    <2>2. QED BY <2>1, FilesFrame DEF First
  <1>7. CASE UploadCerts
    <2>1. UNCHANGED <<group, ca, cert, configured, manifest, marked, phase, already>>
      BY <1>7 DEF UploadCerts, inventory, disk
    <2>2. QED BY <2>1, FilesFrame DEF First
  <1>8. CASE ApiTaskFails
    <2>1. UNCHANGED <<group, ca, cert, configured, manifest, marked, already>>
      BY <1>8 DEF ApiTaskFails, EndRun, inventory, disk, objects
    <2>2. \A m \in Master : phase'[m] = "none"
      BY <1>8 DEF ApiTaskFails, EndRun, Host
    <2>3. QED BY <2>1, <2>2, FilesFrame DEF First
  <1>9. CASE PlayFails
    <2>1. UNCHANGED <<group, ca, cert, configured, manifest, marked, already>>
      BY <1>9 DEF PlayFails, EndRun, inventory, disk, objects
    <2>2. \A m \in Master : phase'[m] = "none"
      BY <1>9 DEF PlayFails, EndRun, Host
    <2>3. QED BY <2>1, <2>2, FilesFrame DEF First
  <1>10. CASE RunCompletes
    <2>1. UNCHANGED <<group, ca, cert, configured, manifest, marked, already>>
      BY <1>10 DEF RunCompletes, EndRun, inventory, disk, objects
    <2>2. \A m \in Master : phase'[m] = "none"
      BY <1>10 DEF RunCompletes, EndRun, Host
    <2>3. QED BY <2>1, <2>2, FilesFrame DEF First
  <1>11. CASE Interrupt
    <2>1. UNCHANGED <<group, ca, cert, configured, manifest, marked, already>>
      BY <1>11 DEF Interrupt, EndRun, inventory, disk, objects
    <2>2. \A m \in Master : phase'[m] = "none"
      BY <1>11 DEF Interrupt, EndRun, Host
    <2>3. QED BY <2>1, <2>2, FilesFrame DEF First
  <1>12. ASSUME NEW m \in Master, RemoveCert(m) \/ Regenerate(m)
        PROVE  Files'
    <2>1. pc \in {"remove_certs", "regenerate"}
      BY <1>12 DEF RemoveCert, Regenerate
    <2>2. \A h \in Master : phase[h] = "none"
      BY <2>1 DEF PlayType, Host
    <2>3. UNCHANGED <<group, ca, configured, manifest, marked, phase, already>>
      BY <1>12 DEF RemoveCert, Regenerate, inventory, objects, play
    <2>4. QED BY <2>2, <2>3 DEF Files, LeftBehind, Joins, First
  <1>13. ASSUME NEW m \in Master, StartCommand(m)
        PROVE  Files'
    <2>1. UNCHANGED <<group, ca, cert, configured, manifest, marked, already>>
      BY <1>13 DEF StartCommand, inventory, disk, objects
    <2>2. \A h \in Master : phase'[h] \in {phase[h], "reset", "certs"}
      BY <1>13 DEF StartCommand, FirstPhase, PlayType, Host
    <2>3. QED BY <2>1, <2>2, FilesFrame DEF First
  <1>14. ASSUME NEW m \in Master, CommandFails(m)
        PROVE  Files'
    <2>1. UNCHANGED <<group, ca, cert, configured, manifest, marked, already>>
      BY <1>14 DEF CommandFails, inventory, disk, objects
    <2>2. \A h \in Master : phase'[h] \in {phase[h], "none"}
      BY <1>14 DEF CommandFails, PlayType, Host
    <2>3. QED BY <2>1, <2>2, FilesFrame DEF First
  <1>15. ASSUME NEW m \in Master, Manifests(m)
        PROVE  Files'
    <2>1. PhaseStep(m)
      BY <1>15 DEF PhaseStep
    <2>2. /\ phase[m] = "manifests" /\ phase'[m] = IF Joins(m) THEN "kubelet" ELSE "upload"
          /\ UNCHANGED <<First, already>>
      BY <1>15, <2>1, PhaseSteps, PhaseDone DEF Manifests, NextPhase
    <2>3. UNCHANGED <<ca, cert, configured, marked>> /\ m \in manifest'
      BY <1>15 DEF Manifests, objects
    <2>4. LeftBehind(m)
      BY DEF Files
    <2>5. LeftBehind(m)'
      BY <2>2, <2>3, <2>4 DEF LeftBehind, Certified, Joins
    <2>6. QED BY <2>1, <2>5, PhaseFiles
  <1>16. ASSUME NEW m \in Master, KubeletStart(m)
        PROVE  Files'
    <2>1. PhaseStep(m)
      BY <1>16 DEF PhaseStep
    <2>2. /\ phase[m] = "kubelet" /\ phase'[m] = IF Joins(m) THEN "mark" ELSE "manifests"
          /\ UNCHANGED <<First, already>>
      BY <1>16, <2>1, PhaseSteps, PhaseDone DEF KubeletStart, NextPhase
    <2>3. UNCHANGED <<ca, cert, manifest, marked>> /\ m \in configured'
      BY <1>16 DEF KubeletStart, objects
    <2>4. LeftBehind(m)
      BY DEF Files
    <2>5. LeftBehind(m)'
      BY <2>2, <2>3, <2>4 DEF LeftBehind, Certified, Joins
    <2>6. QED BY <2>1, <2>5, PhaseFiles
  <1>17. ASSUME NEW m \in Master, Upload(m)
        PROVE  Files'
    <2>1. PhaseStep(m)
      BY <1>17 DEF PhaseStep
    <2>2. /\ phase[m] = "upload" /\ phase'[m] = "mark" /\ ~Joins(m)
          /\ UNCHANGED <<First, already>>
      BY <1>17, <2>1, PhaseSteps, PhaseDone DEF Upload, NextPhase, Commands
    <2>3. UNCHANGED <<ca, cert, configured, manifest, marked>>
      BY <1>17 DEF Upload, disk
    <2>4. LeftBehind(m)
      BY DEF Files
    <2>5. LeftBehind(m)'
      BY <2>2, <2>3, <2>4 DEF LeftBehind, Certified, Joins
    <2>6. QED BY <2>1, <2>5, PhaseFiles
  <1>18. ASSUME NEW m \in Master, Mark(m)
        PROVE  Files'
    <2>1. PhaseStep(m)
      BY <1>18 DEF PhaseStep
    <2>2. /\ phase[m] = "mark" /\ phase'[m] = IF Joins(m) THEN "none" ELSE "bootstrap"
          /\ UNCHANGED <<First, already>>
      BY <1>18, <2>1, PhaseSteps, PhaseDone DEF Mark, NextPhase
    <2>3. UNCHANGED <<ca, cert, configured, manifest>> /\ m \in marked'
      BY <1>18 DEF Mark, disk
    <2>4. LeftBehind(m)
      BY DEF Files
    <2>5. LeftBehind(m)'
      BY <2>2, <2>3, <2>4 DEF LeftBehind, Certified, Joins
    <2>6. QED BY <2>1, <2>5, PhaseFiles
  <1>19. ASSUME NEW m \in Master, BootstrapToken(m)
        PROVE  Files'
    <2>1. PhaseStep(m)
      BY <1>19 DEF PhaseStep
    <2>2. /\ phase[m] = "bootstrap" /\ phase'[m] = "none" /\ ~Joins(m)
          /\ UNCHANGED <<First, already>>
      BY <1>19, <2>1, PhaseSteps, PhaseDone DEF BootstrapToken, NextPhase, Commands
    <2>3. UNCHANGED <<ca, cert, configured, manifest, marked>>
      BY <1>19 DEF BootstrapToken, disk
    <2>4. LeftBehind(m)
      BY DEF Files
    <2>5. LeftBehind(m)'
      BY <2>2, <2>3, <2>4 DEF LeftBehind, Certified, Joins
    <2>6. QED BY <2>1, <2>5, PhaseFiles
  <1>20. ASSUME NEW w \in Worker, JoinWorker(w)
        PROVE  Files'
    <2>1. UNCHANGED <<group, cert, manifest, marked, already>>
      BY <1>20 DEF JoinWorker, inventory, objects
    <2>2. w \notin Master
      BY KubeadmAssumption
    <2>3. \A m \in Master : /\ ca'[m] = ca[m] /\ phase'[m] = phase[m]
                            /\ m \in configured' <=> m \in configured
      BY <1>20, <2>2 DEF JoinWorker, DataType, PlayType, Host
    <2>4. QED BY <2>1, <2>3, FilesFrame DEF First
  <1>21. ASSUME NEW w \in Worker, KubeletBootstraps(w)
        PROVE  Files'
    <2>1. UNCHANGED <<group, ca, cert, configured, manifest, marked, phase, already>>
      BY <1>21 DEF KubeletBootstraps, inventory, objects, play
    <2>2. QED BY <2>1, FilesFrame DEF First
  <1>22. ASSUME NEW w \in Worker, WorkerJoined(w)
        PROVE  Files'
    <2>1. UNCHANGED <<group, ca, cert, configured, manifest, marked, already>>
      BY <1>22 DEF WorkerJoined, inventory, disk, objects
    <2>2. \A m \in Master : phase'[m] = phase[m]
      BY <1>22, KubeadmAssumption DEF WorkerJoined, PlayType, Host
    <2>3. QED BY <2>1, <2>2, FilesFrame DEF First
  <1>23. ASSUME NEW w \in Worker, FirstJoinFails(w)
        PROVE  Files'
    <2>1. UNCHANGED <<group, ca, cert, configured, manifest, marked, already>>
      BY <1>23 DEF FirstJoinFails, inventory, disk, objects
    <2>2. \A m \in Master : phase'[m] = phase[m]
      BY <1>23, KubeadmAssumption DEF FirstJoinFails, PlayType, Host
    <2>3. QED BY <2>1, <2>2, FilesFrame DEF First
  <1>24. ASSUME NEW w \in Worker, RescueFails(w)
        PROVE  Files'
    <2>1. UNCHANGED <<group, ca, cert, configured, manifest, marked, already>>
      BY <1>24 DEF RescueFails, inventory, disk, objects
    <2>2. \A m \in Master : phase'[m] = phase[m]
      BY <1>24, KubeadmAssumption DEF RescueFails, PlayType, Host
    <2>3. QED BY <2>1, <2>2, FilesFrame DEF First
  <1>25. ASSUME NEW m \in Master, AddMaster(m)
        PROVE  Files'
    <2>1. UNCHANGED <<ca, cert, configured, manifest, marked, phase, already>> /\ First' = First
      BY <1>25, Appended DEF AddMaster, Edited, disk, objects, play
    <2>2. QED BY <2>1, FilesFrame
  <1>26. ASSUME NEW w \in Worker, AddWorker(w)
        PROVE  Files'
    <2>1. UNCHANGED <<group, ca, cert, configured, manifest, marked, phase, already>>
      BY <1>26 DEF AddWorker, Edited, disk, objects, play
    <2>2. QED BY <2>1, FilesFrame DEF First
  <1>27. QED BY <1>1, <1>2, <1>3, <1>4, <1>5, <1>6, <1>7, <1>8, <1>9, <1>10, <1>11,
             <1>12, <1>13, <1>14, <1>15, <1>16, <1>17, <1>18, <1>19, <1>20, <1>21,
             <1>22, <1>23, <1>24, <1>25, <1>26 DEF Next, Tasks, Command, PhaseStep

\* A step that leaves the files of the masters alone, in which no host drops out
\* of a task.
LEMMA ProgressFrame ==
  ASSUME DataType, Progress,
         UNCHANGED <<group, workers, manifest, pc, playbook, completed>>,
         \A m \in Master : /\ ca'[m] = ca[m] /\ cert'[m] = cert[m]
                           /\ m \in configured' <=> m \in configured
                           /\ m \in todo \cup broken => m \in todo' \cup broken',
         kubelet_conf \subseteq kubelet_conf',
         todo \cup broken \subseteq kubelet_conf' \cup todo' \cup broken' \/ pc # "join_workers"
  PROVE  Progress'
  <1>1. UNCHANGED <<First, Group>> /\ First \in Master /\ Group \subseteq Master
    BY Firsts DEF First, Group
  <1>2. \A m \in Master : (Certified(m)' <=> Certified(m)) /\ (Serves(m)' <=> Serves(m))
    BY DEF Certified, Serves
  <1>3. CompletedRunServes'
    <2>1. CompletedRunServes
      BY DEF Progress
    <2>2. QED BY <1>1, <2>1 DEF CompletedRunServes
  <1>4. pc = "init" => First \in todo' \cup broken' \/ (First \in configured' /\ Certified(First)')
    BY <1>1, <1>2 DEF Progress
  <1>5. pc \in {"token", "upload_certs"} => First \in configured' /\ Certified(First)'
    BY <1>1, <1>2 DEF Progress
  <1>6. pc = "join" => \A m \in Group : m \in todo' \cup broken' \/ Serves(m)'
    BY <1>1, <1>2 DEF Progress
  <1>7. pc = "join_workers" /\ playbook = "cluster" => \A m \in Group : Serves(m)'
    BY <1>1, <1>2 DEF Progress
  <1>8. pc = "join_workers" => workers \subseteq kubelet_conf' \cup todo' \cup broken'
    BY DEF Progress
  <1>9. QED BY <1>1, <1>2, <1>3, <1>4, <1>5, <1>6, <1>7, <1>8 DEF Progress, Certified

\* A host leaves a task when it serves, or has failed it.
LEMMA ProgressStep ==
  ASSUME DataType, PlayType, Commands, Files, Sans, Authority, Progress, Next
  PROVE  Progress'
  <1>1. ASSUME NEW w \in Worker, RescueFails(w)
        PROVE  Progress'
    <2>1. UNCHANGED <<group, workers, manifest, kubelet_conf, pc, playbook, completed, ca, cert,
                      configured>>
      BY <1>1 DEF RescueFails, inventory, disk
    <2>2. todo \cup broken \subseteq todo' \cup broken'
      BY <1>1 DEF RescueFails
    <2>3. QED BY <2>1, <2>2, ProgressFrame
  <1>2. ASSUME NEW m \in Master, PhaseStep(m)
        PROVE  Progress'
    <2>1. phase[m] \in CommandPhase /\ Done(m, phase[m])
      BY <1>2, PhaseSteps
    <2>2. /\ m \in todo /\ pc \in {"init", "join"}
          /\ UNCHANGED <<pc, broken, completed, First, Group>>
          /\ phase'[m] = NextPhase(m, phase[m])
          /\ IF phase'[m] = "none" THEN todo' = todo \ {m} ELSE todo' = todo
      BY <2>1, PhaseDone
    <2>3. phase'[m] = "none" => Serves(m)'
      <3> SUFFICES ASSUME phase'[m] = "none" PROVE Serves(m)'
        OBVIOUS
      <3>1. phase[m] \in {"mark", "bootstrap"}
        BY <2>1, <2>2 DEF NextPhase, Commands, CommandPhase
      <3>2. UNCHANGED disk
        BY <1>2, <3>1, PhaseSteps
      <3>3. Serves(m)
        BY <3>1 DEF Files, LeftBehind, Serves, Commands
      <3>4. QED BY <3>2, <3>3 DEF Serves, Certified, disk
    <2>4. \A h \in Master \ {m} : Serves(h) => Serves(h)'
      BY <1>2, PhaseSteps DEF Serves, Certified
    <2>5. ~completed /\ ~completed'
      BY <2>2 DEF Progress, PlayType
    <2>6. pc = "init" => First' \in todo' \cup broken' \/ (First \in configured /\ Certified(First))'
      <3>1. CASE First = m
        BY <3>1, <2>2, <2>3 DEF Serves, Certified
      <3>2. CASE First # m
        BY <1>2, <3>2, <2>2, Firsts, PhaseSteps DEF Progress, Certified
      <3>3. QED BY <3>1, <3>2
    <2>7. pc = "join" => \A h \in Group : h \in todo' \cup broken' \/ Serves(h)'
      BY <2>2, <2>3, <2>4, Firsts DEF Progress
    <2>8. QED BY <2>2, <2>5, <2>6, <2>7 DEF Progress, CompletedRunServes
  <1>3. ASSUME NEW w \in Worker, KubeletBootstraps(w)
        PROVE  Progress'
    <2>1. UNCHANGED <<group, workers, manifest, pc, playbook, completed, ca, cert, configured,
                      todo, broken>>
      BY <1>3 DEF KubeletBootstraps, inventory, play, history
    <2>2. kubelet_conf \subseteq kubelet_conf'
      BY <1>3 DEF KubeletBootstraps
    <2>3. QED BY <2>1, <2>2, ProgressFrame
  <1>4. CASE UploadCerts
    <2>1. ~completed
      BY <1>4 DEF UploadCerts, Progress
    <2>2. CASE pc = "upload_certs"
      <3>1. \A m \in Group : m \in todo' \/ Serves(m)
        <4> SUFFICES ASSUME NEW m \in already \cup {First}, m \in Group PROVE Serves(m)
          BY <1>4, <2>2 DEF UploadCerts, Goto
        <4>1. m \in Master /\ First \in Group
          BY Firsts
        <4>2. CASE m = First
          BY <2>2, <4>2 DEF Progress, Serves
        <4>3. CASE m # First
          <5>1. m \in configured /\ ca[m] # 0 /\ m \in manifest
            BY <4>1, <4>3 DEF Files, LeftBehind, Joins
          <5>2. cert[m] # {}
            BY <2>2, <4>1, <4>3 DEF Sans, SansComplete
          <5>3. QED BY <5>1, <5>2 DEF Serves, Certified
        <4>4. QED BY <4>2, <4>3
      <3>2. pc' = "join" /\ UNCHANGED <<ca, cert, configured, manifest, group, completed>>
        BY <1>4, <2>2 DEF UploadCerts, Goto, disk, inventory, history
      <3>3. \A m \in Group' : m \in todo' \/ Serves(m)'
        BY <3>1, <3>2 DEF Group, Serves, Certified
      <3>4. QED BY <2>1, <3>2, <3>3 DEF Progress, CompletedRunServes
    <2>3. CASE pc = "upload_scale"
      <3>1. pc' = "join_workers" /\ playbook' = "scale" /\ ~completed'
        BY <1>4, <2>1, <2>3 DEF UploadCerts, Goto, Commands, history
      <3>2. workers' \subseteq kubelet_conf' \cup todo'
        BY <1>4, <2>3 DEF UploadCerts, Goto, JoiningWorkers, inventory, disk
      <3>3. QED BY <3>1, <3>2 DEF Progress, CompletedRunServes
    <2>4. QED BY <1>4, <2>2, <2>3 DEF UploadCerts
  <1>5. ASSUME NEW m \in Master, StartCommand(m)
        PROVE  Progress'
    <2>1. UNCHANGED <<group, workers, manifest, kubelet_conf, pc, playbook, completed>>
      BY <1>5 DEF StartCommand, inventory, disk, history
    <2>2. UNCHANGED <<ca, cert, configured, todo, broken>>
      BY <1>5 DEF StartCommand, disk
    <2>3. QED BY <2>1, <2>2, ProgressFrame
  <1>6. ASSUME NEW m \in Master, CommandFails(m)
        PROVE  Progress'
    <2>1. UNCHANGED <<group, workers, manifest, kubelet_conf, pc, playbook, completed>>
      BY <1>6 DEF CommandFails, inventory, disk
    <2>2. UNCHANGED <<ca, cert, configured>> /\ todo \cup broken = todo' \cup broken'
      BY <1>6 DEF CommandFails, disk, PlayType, Host
    <2>3. QED BY <2>1, <2>2, ProgressFrame
  <1>7. ASSUME NEW w \in Worker, FirstJoinFails(w)
        PROVE  Progress'
    <2>1. UNCHANGED <<group, workers, manifest, kubelet_conf, pc, playbook, completed>>
      BY <1>7 DEF FirstJoinFails, inventory, disk
    <2>2. UNCHANGED <<ca, cert, configured, todo, broken>>
      BY <1>7 DEF FirstJoinFails, disk
    <2>3. QED BY <2>1, <2>2, ProgressFrame
  <1>8. ASSUME NEW w \in Worker, JoinWorker(w)
        PROVE  Progress'
    <2>1. UNCHANGED <<group, workers, manifest, kubelet_conf, pc, playbook, completed, cert, todo, broken>>
      BY <1>8 DEF JoinWorker, inventory, history
    <2>2. w \notin Master
      BY KubeadmAssumption
    <2>3. \A m \in Master : ca'[m] = ca[m] /\ (m \in configured' <=> m \in configured)
      BY <1>8, <2>2 DEF JoinWorker, DataType, Host
    <2>4. QED BY <2>1, <2>3, ProgressFrame
  <1>9. ASSUME NEW w \in Worker, WorkerJoined(w)
        PROVE  Progress'
    <2>1. UNCHANGED <<group, workers, manifest, kubelet_conf, pc, playbook, completed, ca, cert,
                      configured, broken>>
      BY <1>9 DEF WorkerJoined, inventory, disk, history
    <2>2. todo' = todo \ {w} /\ w \in kubelet_conf /\ w \notin Master
      BY <1>9, KubeadmAssumption DEF WorkerJoined
    <2>3. QED BY <2>1, <2>2, ProgressFrame
  <1> USE Firsts, KubeadmAssumption DEF DataType, PlayType, Commands, Files, Sans,
         Authority, Progress, NextPhase, FirstPhase, Certified, Serves, Joins,
         CompletedRunServes, SansComplete, JoiningWorkers, ApiAnswers, LeftBehind,
         Group, First, Host, inventory, disk, objects, play, history
  <1>10. CASE StartCluster
    BY <1>10 DEF StartCluster, Start, Goto
  <1>11. CASE StartScale
    BY <1>11 DEF StartScale, Start, Goto
  <1>12. CASE CheckSans
    BY <1>12 DEF CheckSans, Goto
  <1>13. CASE CertsRemoved
    BY <1>13 DEF CertsRemoved, Goto
  <1>14. CASE Regenerated
    BY <1>14 DEF Regenerated, Goto
  <1>15. CASE Initialized
    BY <1>15 DEF Initialized, Goto
  <1>16. CASE CreateToken
    BY <1>16 DEF CreateToken, Goto
  <1>17. CASE Joined
    BY <1>17 DEF Joined, Goto
  <1>18. CASE ApiTaskFails
    BY <1>18 DEF ApiTaskFails, EndRun
  <1>19. CASE PlayFails
    BY <1>19 DEF PlayFails, EndRun
  <1>20. CASE RunCompletes
    BY <1>20 DEF RunCompletes, EndRun
  <1>21. CASE Interrupt
    BY <1>21 DEF Interrupt, EndRun
  <1>22. ASSUME NEW m \in Master, RemoveCert(m)
        PROVE  Progress'
    BY <1>22 DEF RemoveCert
  <1>23. ASSUME NEW m \in Master, Regenerate(m)
        PROVE  Progress'
    BY <1>23 DEF Regenerate
  <1>24. ASSUME NEW m \in Master, AddMaster(m)
        PROVE  Progress'
    BY <1>24, Appended DEF AddMaster, Edited
  <1>25. ASSUME NEW w \in Worker, AddWorker(w)
        PROVE  Progress'
    BY <1>25 DEF AddWorker, Edited
  <1>26. CASE ChangeOrder
    BY <1>26, Moved DEF ChangeOrder, Edited
  <1>27. QED BY <1>1, <1>2, <1>3, <1>4, <1>10, <1>11, <1>12, <1>13, <1>14, <1>15, <1>16,
             <1>17, <1>18, <1>19, <1>20, <1>21, <1>22, <1>23, <1>5, <1>6, <1>8,
             <1>9, <1>7, <1>24, <1>25, <1>26 DEF Next, Tasks, Command, PhaseStep

\* A step that leaves the masters alone, in which none drops out of a task.
LEMMA MarkedFrame ==
  ASSUME DataType, Marked, UNCHANGED <<group, marked, manifest, already, pc, cut>>,
         \A m \in Master : /\ m \in configured' <=> m \in configured
                           /\ m \in todo' => m \in todo
                           /\ m \in todo \cup broken => m \in todo' \cup broken'
  PROVE  Marked'
  <1>1. UNCHANGED <<First, Group>> /\ marked \subseteq Master
    BY DEF First, Group, DataType
  <1>2. MarkedServes'
    BY <1>1 DEF Marked, MarkedServes
  <1>3. pc = "join" => todo' \cap marked = {}
    BY <1>1 DEF Marked
  <1>4. ~cut => \A m \in Master \cap configured' :
                  m \in marked \/ (pc \in {"init", "join"} /\ m \in todo' \cup broken')
    BY DEF Marked
  <1>5. QED BY <1>1, <1>2, <1>3, <1>4 DEF Marked

\* A master is marked by its last phase but one, or its last, and then left alone.
LEMMA MarkedStep ==
  ASSUME DataType, PlayType, Commands, Files, Progress, Marked, Next
  PROVE  Marked'
  <1>1. ASSUME NEW m \in Master, PhaseStep(m)
        PROVE  Marked'
    <2>1. phase[m] \in CommandPhase /\ Done(m, phase[m])
      BY <1>1, PhaseSteps
    <2>2. /\ m \in todo /\ pc \in {"init", "join"}
          /\ UNCHANGED <<pc, broken, already, cut, First, Group>>
          /\ phase'[m] = NextPhase(m, phase[m])
          /\ IF phase'[m] = "none" THEN todo' = todo \ {m} ELSE todo' = todo
      BY <2>1, PhaseDone
    <2>3. /\ \A h \in Master \ {m} : h \in configured' <=> h \in configured
          /\ \A h \in Master \ {m} : h \in manifest' <=> h \in manifest
          /\ \A h \in Master \ {m} : h \in marked' <=> h \in marked
      BY <1>1, PhaseSteps
    <2>4. m \in marked' => m \in manifest' \cap configured'
      <3>1. CASE Reset(m)
        <4>1. Joins(m) /\ marked' = marked
          BY <3>1 DEF Reset, Commands, objects
        <4>2. pc = "join"
          BY <4>1, <2>2 DEF Commands, Joins
        <4>3. QED BY <4>1, <4>2, <2>2 DEF Marked
      <3>2. CASE InitCerts(m) \/ JoinCerts(m) \/ Manifests(m) \/ KubeletStart(m)
        BY <3>2 DEF InitCerts, JoinCerts, Manifests, KubeletStart, Marked,
           MarkedServes, objects
      <3>3. CASE Upload(m) \/ Mark(m) \/ BootstrapToken(m)
        BY <3>3 DEF Upload, Mark, BootstrapToken, Marked, MarkedServes, disk, Files,
           LeftBehind
      <3>4. QED BY <1>1, <3>1, <3>2, <3>3 DEF PhaseStep
    <2>5. phase'[m] = "none" => m \in marked'
      <3>1. CASE Mark(m)
        BY <3>1 DEF Mark
      <3>2. CASE BootstrapToken(m)
        BY <3>2 DEF BootstrapToken, Files, LeftBehind
      <3>3. CASE \/ Reset(m) \/ InitCerts(m) \/ JoinCerts(m) \/ Manifests(m)
                 \/ KubeletStart(m) \/ Upload(m)
        BY <3>3, <2>2 DEF Reset, InitCerts, JoinCerts, Manifests, KubeletStart, Upload,
           NextPhase, Commands
      <3>4. QED BY <1>1, <3>1, <3>2, <3>3 DEF PhaseStep
    <2>6. pc = "join" /\ m \in marked' => phase'[m] = "none"
      <3>1. CASE Mark(m)
        <4>1. phase[m] = "mark"
          BY <3>1 DEF Mark
        <4>2. pc = "join" => Joins(m)
          BY <2>2 DEF Commands, Joins
        <4>3. QED BY <4>1, <4>2, <2>2 DEF NextPhase
      <3>2. CASE ~Mark(m)
        <4>1. marked' = marked
          BY <1>1, <3>2 DEF PhaseStep, Reset, InitCerts, JoinCerts, Manifests,
             KubeletStart, Upload, BootstrapToken, objects
        <4>2. QED BY <4>1, <2>2 DEF Marked
      <3>3. QED BY <3>1, <3>2
    <2>7. pc = "init" => m = First
      BY <2>2 DEF Commands
    <2>8. MarkedServes'
      BY <2>3, <2>4, <1>1 DEF Marked, MarkedServes, DataType, PhaseStep, Reset,
         InitCerts, JoinCerts, Manifests, KubeletStart, Upload, Mark, BootstrapToken, objects
    <2>9. pc = "init" => marked' \cap Group' \subseteq already' \cup {First'}
      BY <2>2, <2>3, <2>7, Firsts DEF Marked
    <2>10. pc = "join" => todo' \cap marked' = {}
      BY <2>2, <2>3, <2>6 DEF Marked, PlayType
    <2>11. ~cut => \A h \in Master \cap configured' : h \in marked' \/ h \in todo' \cup broken'
      BY <2>2, <2>3, <2>5 DEF Marked
    <2>12. QED BY <2>2, <2>8, <2>9, <2>10, <2>11 DEF Marked
  <1>2. ASSUME NEW w \in Worker, KubeletBootstraps(w)
        PROVE  Marked'
    <2>1. UNCHANGED <<group, marked, manifest, already, pc, cut, configured, todo, broken>>
      BY <1>2 DEF KubeletBootstraps, inventory, objects, play, history
    <2>2. QED BY <2>1, MarkedFrame
  <1>3. ASSUME NEW m \in Master, RemoveCert(m)
        PROVE  Marked'
    <2>1. UNCHANGED <<group, marked, manifest, already, pc, cut, configured, todo, broken>>
      BY <1>3 DEF RemoveCert, inventory, objects, play, history
    <2>2. QED BY <2>1, MarkedFrame
  <1>4. ASSUME NEW m \in Master, Regenerate(m)
        PROVE  Marked'
    <2>1. UNCHANGED <<group, marked, manifest, already, pc, cut, configured>>
      BY <1>4 DEF Regenerate, inventory, objects, history
    <2>2. pc = "regenerate" /\ todo' \subseteq todo /\ UNCHANGED broken
      BY <1>4 DEF Regenerate
    <2>3. UNCHANGED <<First, Group>>
      BY <2>1 DEF First, Group
    <2>4. QED BY <2>1, <2>2, <2>3 DEF Marked, MarkedServes
  <1>5. ASSUME NEW m \in Master, StartCommand(m)
        PROVE  Marked'
    <2>1. UNCHANGED <<group, marked, manifest, already, pc, cut, configured, todo, broken>>
      BY <1>5 DEF StartCommand, inventory, disk, objects, history
    <2>2. QED BY <2>1, MarkedFrame
  <1>6. ASSUME NEW m \in Master, CommandFails(m)
        PROVE  Marked'
    <2>1. UNCHANGED <<group, marked, manifest, already, pc, cut, configured>>
      BY <1>6 DEF CommandFails, inventory, disk, objects
    <2>2. todo' \subseteq todo /\ todo \cup broken = todo' \cup broken'
      BY <1>6 DEF CommandFails, PlayType, Host
    <2>3. QED BY <2>1, <2>2, MarkedFrame
  <1>7. ASSUME NEW w \in Worker, JoinWorker(w)
        PROVE  Marked'
    <2>1. UNCHANGED <<group, marked, manifest, already, pc, cut, todo, broken>>
      BY <1>7 DEF JoinWorker, inventory, objects, history
    <2>2. \A m \in Master : m \in configured' <=> m \in configured
      BY <1>7, KubeadmAssumption DEF JoinWorker
    <2>3. QED BY <2>1, <2>2, MarkedFrame
  <1>8. ASSUME NEW w \in Worker, WorkerJoined(w) \/ FirstJoinFails(w) \/ RescueFails(w)
        PROVE  Marked'
    <2>1. UNCHANGED <<group, marked, manifest, already, pc, cut, configured>>
      BY <1>8 DEF WorkerJoined, FirstJoinFails, RescueFails, inventory, disk, objects, history
    <2>2. \A m \in Master : (m \in todo' <=> m \in todo) /\ (m \in broken' <=> m \in broken)
      BY <1>8, KubeadmAssumption DEF WorkerJoined, FirstJoinFails, RescueFails
    <2>3. QED BY <2>1, <2>2, MarkedFrame
  <1> USE Firsts, KubeadmAssumption DEF DataType, PlayType, Commands, Files, Progress,
         Marked, NextPhase, MarkedServes, Joins, Unfinished, LeftBehind, Group, First,
         Host, inventory, disk, objects, play, history
  <1>9. CASE StartCluster
    BY <1>9 DEF StartCluster, Start, Goto
  <1>10. CASE StartScale
    BY <1>10 DEF StartScale, Start, Goto
  <1>11. CASE CheckSans
    BY <1>11 DEF CheckSans, Goto
  <1>12. CASE CertsRemoved
    BY <1>12 DEF CertsRemoved, Goto
  <1>13. CASE Regenerated
    BY <1>13 DEF Regenerated, Goto
  <1>14. CASE Initialized
    BY <1>14 DEF Initialized, Goto
  <1>15. CASE CreateToken
    BY <1>15 DEF CreateToken, Goto
  <1>16. CASE Joined
    BY <1>16 DEF Joined, Goto
  <1>17. CASE UploadCerts
    BY <1>17 DEF UploadCerts, Goto
  <1>18. CASE ApiTaskFails \/ PlayFails \/ RunCompletes \/ Interrupt
    BY <1>18 DEF ApiTaskFails, EndRun, PlayFails, RunCompletes, Interrupt
  <1>19. ASSUME NEW m \in Master, AddMaster(m)
        PROVE  Marked'
    BY <1>19, Appended DEF AddMaster, Edited
  <1>20. ASSUME NEW w \in Worker, AddWorker(w)
        PROVE  Marked'
    BY <1>20 DEF AddWorker, Edited
  <1>21. CASE ChangeOrder
    BY <1>21, Moved DEF ChangeOrder, Edited
  <1>22. QED BY <1>1, <1>2, <1>9, <1>10, <1>11, <1>12, <1>13, <1>14, <1>15, <1>16, <1>17,
             <1>18, <1>3, <1>4, <1>5, <1>6, <1>7, <1>8, <1>19, <1>20,
             <1>21 DEF Next, Tasks, Command, PhaseStep

-----------------------------------------------------------------------------
(* The invariant.                                                            *)

\* The inductive invariant.
IInv ==
  /\ DataType /\ PlayType /\ Commands
  /\ Authority /\ Sans /\ Files /\ Progress /\ Marked

\* The initial states, stuttering, and every step.
LEMMA InitIInv == Init => IInv
  <1> SUFFICES ASSUME Init PROVE IInv
    OBVIOUS
  <1> USE KubeadmAssumption DEF Init
  <1>1. DataType
    BY DEF DataType, Host
  <1>2. First \in Master /\ Group \subseteq Master
    BY <1>1, Firsts
  <1>3. PlayType
    BY DEF PlayType, Host, Phase
  <1>4. Commands
    BY DEF Commands, Host
  <1>5. Authority
    BY <1>2 DEF Authority, Host
  <1>6. Sans
    BY DEF Sans, SansComplete
  <1>7. Files
    BY DEF Files, LeftBehind, Host
  <1>8. Progress
    BY DEF Progress, CompletedRunServes
  <1>9. Marked
    BY DEF Marked, MarkedServes
  <1>10. QED BY <1>1, <1>3, <1>4, <1>5, <1>6, <1>7, <1>8, <1>9 DEF IInv

LEMMA StutterIInv == IInv /\ UNCHANGED vars => IInv'
  <1> SUFFICES ASSUME IInv, UNCHANGED vars PROVE IInv'
    OBVIOUS
  <1> USE DEF vars, inventory, disk, objects, play, history
  <1>1. UNCHANGED <<Group, First>>
    BY DEF Group, First
  <1>2. DataType' /\ PlayType'
    BY DEF IInv, DataType, PlayType
  <1>3. Commands' /\ Authority' /\ Sans'
    BY <1>1 DEF IInv, Commands, Joins, Authority, Sans, SansComplete
  <1>4. Files' /\ Marked'
    BY <1>1 DEF IInv, Files, LeftBehind, Certified, Joins, Marked, MarkedServes
  <1>5. Progress'
    BY <1>1 DEF IInv, Progress, Serves, Certified, CompletedRunServes
  <1>6. QED BY <1>2, <1>3, <1>4, <1>5 DEF IInv

LEMMA NextIInv == IInv /\ [Next]_vars => IInv'
  <1> SUFFICES ASSUME IInv, [Next]_vars PROVE IInv'
    OBVIOUS
  <1>1. CASE Next
    <2>1. DataType'
      BY <1>1, DataTypeStep DEF IInv
    <2>2. PlayType' /\ Commands'
      BY <1>1, PlayStep DEF IInv
    <2>3. Authority'
      BY <1>1, AuthorityStep DEF IInv
    <2>4. Sans'
      BY <1>1, SansStep DEF IInv
    <2>5. Files'
      BY <1>1, FilesStep DEF IInv
    <2>6. Progress'
      BY <1>1, ProgressStep DEF IInv
    <2>7. Marked'
      BY <1>1, MarkedStep DEF IInv
    <2>8. QED BY <2>1, <2>2, <2>3, <2>4, <2>5, <2>6, <2>7 DEF IInv
  <1>2. CASE UNCHANGED vars
    BY <1>2, StutterIInv
  <1>3. QED BY <1>1, <1>2

LEMMA Invariant == Spec => []IInv
  BY InitIInv, NextIInv, PTL DEF Spec

\* Every variable has its type in every reachable state: in particular a task
\* of the masters runs on masters and the join of the workers on workers.
THEOREM KubeadmTypeCorrect == Spec => []TypeOK
  <1>1. IInv => TypeOK
    BY TypeParts DEF IInv
  <1>2. QED BY <1>1, Invariant, PTL

\* The control plane has one CA, whatever was interrupted, reset, joined again
\* or moved to the front of kube_control_plane.
THEOREM OneAuthority == Spec => []OneCA
  <1>1. IInv => OneCA
    <2> SUFFICES ASSUME IInv PROVE OneCA
      OBVIOUS
    <2>1. \A h, i \in Host : ca[h] # 0 /\ ca[i] # 0 => ca[h] = ca[i]
      BY DEF IInv, Authority
    <2>2. \A shown \in {secret, info} \ {0} : ca[First] = shown
      BY DEF IInv, Authority
    <2>3. First \in Master
      BY Firsts DEF IInv
    <2>4. QED BY <2>1, <2>2, <2>3 DEF OneCA
  <1>2. QED BY <1>1, Invariant, PTL

\* kubeadm reset, which kubeadm-secondary.yml runs before it repeats a join,
\* never meets a master that has joined.
THEOREM JoinedMastersServe == Spec => []MarkedServes
  <1>1. IInv => MarkedServes
    BY DEF IInv, Marked
  <1>2. QED BY <1>1, Invariant, PTL

\* A completed run has put an API server on every master and a kubelet of the
\* cluster on every worker.
THEOREM CompletedRunsServe == Spec => []CompletedRunServes
  <1>1. IInv => CompletedRunServes
    BY DEF IInv, Progress
  <1>2. QED BY <1>1, Invariant, PTL

\* Every master is marked by a completed run, if no run has cut off a kubeadm.
THEOREM CompletedRunsMark == Spec => []CompletedRunMarks
  <1>1. IInv => CompletedRunMarks
    <2> SUFFICES ASSUME IInv, completed, playbook = "cluster", ~cut, NEW m \in Group
                 PROVE  m \in marked
      BY DEF CompletedRunMarks
    <2>1. m \in Master /\ m \in configured
      BY Firsts DEF IInv, Progress, CompletedRunServes
    <2>2. pc = "idle"
      BY DEF IInv, Progress
    <2>3. QED BY <2>1, <2>2 DEF IInv, Marked
  <1>2. QED BY <1>1, Invariant, PTL

\* The masters a run of cluster.yml finds have certificates with every name by
\* the time kubeadm runs.
THEOREM SansAreComplete == Spec => []SansComplete
  <1>1. IInv => SansComplete
    BY DEF IInv, Sans
  <1>2. QED BY <1>1, Invariant, PTL
=============================================================================
