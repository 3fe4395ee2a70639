--------------------------- MODULE EtcdCertsProofs ---------------------------
(***************************************************************************)
(* Proofs about EtcdCerts: there is one CA, for good, however often runs are *)
(* interrupted and however the inventory grows.  The argument is the order   *)
(* in which the script moves its files: when it is killed before it moved    *)
(* the CA it can only have moved files whose owner has other files missing,  *)
(* so that the next run, with a CA of its own, makes them again; and the     *)
(* others get nothing before the first host has a CA.                        *)
(*                                                                           *)
(* And what a completed run leaves: MadeInv follows the script on the first  *)
(* host, CopyInv the copies to the others.                                   *)
(***************************************************************************)
EXTENDS EtcdCerts, TLAPS

HasCA == Exists(First, CA)
AdminFiles(h) == Pair("admin", h)

\* The executions of the script so far, by the run, the play and the task.
Counted ==
  /\ pc = "idle" => issued <= 2 * runs
  /\ pc # "idle" => runs >= 1
  /\ pc \in {"check", "script"} => issued <= 2 * (runs - 1) + (play - 1)
  /\ pc \notin {"idle", "check", "script"} => issued <= 2 * (runs - 1) + play

\* What the first host has: with a CA, everything is signed by it; without one,
\* the pairs of admins and maybe the key of the CA.
FirstSigned ==
  /\ HasCA => \A f \in File :
       Exists(First, f) => dir[First][f][1] = dir[First][CA][1]
  /\ HasCA => Exists(First, CAKey)
  /\ ~HasCA => \A f \in File :
       Exists(First, f) => f = CAKey \/ \E h \in Etcd : f \in AdminFiles(h)

\* What the others have, and what etcds run with, is of the first host's CA.
OthersSigned ==
  /\ \A h \in Host, f \in File :
       h # First /\ Exists(h, f) => HasCA /\ dir[h][f][1] = dir[First][CA][1]
  /\ \A h \in Host :
       loaded[h] # NoFile => HasCA /\ loaded[h][1] = dir[First][CA][1]
  /\ \A h \in Host : todo[h] # {} => HasCA

\* The script makes the files that are missing, ...
Decided ==
  pc = "script" => gen_master_certs = {h \in Etcd : NeedsMember(h)}

\* ... and until it has moved a CA it is about to replace whatever is there.
Moving ==
  pc = "move" =>
    /\ made[2] > 0
    /\ HasCA => CA \notin tmp /\ CAKey \notin tmp
                /\ made[1] = dir[First][CA][1]
    /\ ~HasCA =>
         /\ CA \in tmp
         /\ CAKey \in tmp \/ Exists(First, CAKey)
         /\ \A f \in File : f \notin tmp /\ Exists(First, f) =>
              dir[First][f][1] = made[1]
    /\ \A f \in tmp : f[1] = "admin" => \E h \in Etcd : f \in AdminFiles(h)

SignedInv == FirstSigned /\ OthersSigned /\ Decided /\ Moving
-----------------------------------------------------------------------------
(* Files and their order.                                                   *)

\* The files of a pair.
LEMMA PairFiles ==
  ASSUME NEW kind \in {"admin", "member", "node"}, NEW h \in Host
  PROVE  /\ Pair(kind, h) \subseteq File
         /\ CA \notin Pair(kind, h) /\ CAKey \notin Pair(kind, h)
         /\ \A f \in Pair(kind, h) : f[1] = kind
  <1>1. <<kind, h, "crt">> # CA /\ <<kind, h, "key">> # CA
        /\ <<kind, h, "crt">> # CAKey /\ <<kind, h, "key">> # CAKey
    BY DEF CA, CAKey
  <1>2. Pair(kind, h) \subseteq File
    BY DEF File, MemberFiles, NodeFiles, Member
  <1> QED BY <1>1, <1>2 DEF Pair

\* Every file is of the CA or of a pair.
LEMMA FileCases ==
  ASSUME NEW f \in File
  PROVE  \/ f = CA \/ f = CAKey
         \/ \E h \in Host : f \in AdminFiles(h)
         \/ \E h \in Host : f \in Pair("member", h) \cup Pair("node", h)
  BY DEF File, MemberFiles, NodeFiles, Member, AdminFiles

\* The files of the CA are files, and different.
LEMMA CAFiles ==
  CA \in File /\ CAKey \in File /\ CA # CAKey
  /\ CA[1] = "ca" /\ CAKey[1] = "ca"
  BY DEF CA, CAKey, File

\* The ranks of the kinds.
LEMMA Ranks ==
  ASSUME NEW f \in File
  PROVE  /\ f[1] = "admin" => Rank(f) = 1
         /\ f[1] = "ca" => Rank(f) = 2
         /\ f[1] \in {"member", "node"} => Rank(f) \in {3, 4}
         /\ f[1] \in {"admin", "ca", "member", "node"}
         /\ Rank(f) \in {1, 2, 3, 4}
  <1>1. f[1] \in {"admin", "ca", "member", "node"}
    BY FileCases, PairFiles, CAFiles DEF AdminFiles
  <1>2. f[1] = "admin" => Rank(f) = 1 BY DEF Rank
  <1>3. f[1] = "ca" => Rank(f) = 2 BY DEF Rank
  <1>4. f[1] = "member" => Rank(f) = 3 BY DEF Rank
  <1>5. f[1] = "node" => Rank(f) = 4 BY DEF Rank
  <1> QED BY <1>1, <1>2, <1>3, <1>4, <1>5

\* The script moves the pairs of admins before the CA and its key before its
\* certificate, everything else after it.
LEMMA MoveOrder ==
  ASSUME NEW T \in SUBSET File, NEW f \in T, \A g \in T : ~MovedBefore(g, f)
  PROVE  /\ f = CA => CAKey \notin T /\ \A g \in T : g[1] # "admin"
         /\ CA \in T => f = CA \/ f = CAKey \/ f[1] = "admin"
  <1>1. ASSUME f = CA PROVE CAKey \notin T
    <2>1. Rank(CAKey) = Rank(f) BY <1>1, Ranks, CAFiles
    <2>2. CAKey[2] = f[2] /\ CAKey[3] = "key" /\ f[3] = "crt"
      BY <1>1 DEF CA, CAKey
    <2> QED BY <2>1, <2>2 DEF MovedBefore
  <1>2. ASSUME f = CA, NEW g \in T PROVE g[1] # "admin"
    <2>1. Rank(f) = 2 BY <1>2, Ranks, CAFiles
    <2>2. g[1] = "admin" => Rank(g) = 1 BY Ranks
    <2> QED BY <2>1, <2>2 DEF MovedBefore
  <1>3. ASSUME CA \in T, f # CA, f # CAKey, f[1] # "admin" PROVE FALSE
    <2>1. PICK h \in Host : f \in Pair("member", h) \cup Pair("node", h)
      BY <1>3, FileCases, PairFiles DEF AdminFiles
    <2>2. f[1] \in {"member", "node"} BY <2>1, PairFiles
    <2>3. Rank(f) \in {3, 4} BY <2>2, Ranks
    <2>4. Rank(CA) = 2 BY Ranks, CAFiles
    <2> QED BY <1>3, <2>3, <2>4 DEF MovedBefore
  <1> QED BY <1>1, <1>2, <1>3
-----------------------------------------------------------------------------
(* Types.                                                                   *)

TypeInv == TypeOK /\ Counted

\* The groups of an inventory.
LEMMA Groups ==
  ASSUME TypeOK
  PROVE  /\ Etcd \subseteq Host /\ Kube \subseteq Host /\ First \in Etcd
         /\ PlayHosts \subseteq Host /\ FirstOfPlay \subseteq Host
         /\ Kube # {}
  <1>1. inventory \in Inventories BY DEF TypeOK
  <1>2. inventory \in [etcd : SUBSET Host, k8s_cluster : SUBSET Host,
                       kube_node : SUBSET Host]
    BY <1>1, CertsAssumption
  <1>3. inventory.kube_node \subseteq Kube /\ inventory.kube_node # {}
        /\ First \in Etcd
    BY <1>1, CertsAssumption DEF Etcd, Kube
  <1>4. play \in {1, 2} /\ playbook \in {"cluster", "scale"} BY DEF TypeOK
  <1>5. PlayHosts \in {Etcd, Kube, inventory.kube_node}
    <2>1. CASE play = 1 BY <2>1 DEF PlayHosts
    <2>2. CASE play = 2 /\ playbook = "cluster" BY <2>2 DEF PlayHosts
    <2>3. CASE play = 2 /\ playbook = "scale" BY <2>3 DEF PlayHosts
    <2> QED BY <1>4, <2>1, <2>2, <2>3
  <1> QED BY <1>2, <1>3, <1>5 DEF Etcd, Kube, FirstOfPlay

\* The files the tasks go through are files.
LEMMA ItemFiles ==
  ASSUME TypeOK
  PROVE  /\ \A h \in Etcd : Member(h) \subseteq File
         /\ \A h \in Kube : Pair("node", h) \subseteq File
         /\ \A S \in SUBSET Etcd : MemberFiles(S) \subseteq File
         /\ \A S \in SUBSET Kube : NodeFiles(S) \subseteq File
  BY Groups, PairFiles DEF Member, MemberFiles, NodeFiles

\* The contents of a file are those of an execution.
LEMMA Contents ==
  ASSUME TypeOK
  PROVE  /\ NoFile \in Content
         /\ \A h \in Host, f \in File : dir[h][f] \in Content
         /\ \A h \in Host : Loadable(h) \in Content
  <1>1. NoFile \in Content
    BY CertsAssumption DEF NoFile, Content, Execution
  <1>2. \A h \in Host, f \in File : dir[h][f] \in Content BY DEF TypeOK
  <1>3. ASSUME NEW h \in Host PROVE Loadable(h) \in Content
    <2>1. <<"member", h, "crt">> \in File BY PairFiles DEF Pair
    <2> QED BY <1>1, <1>2, <2>1 DEF Loadable
  <1> QED BY <1>1, <1>2, <1>3

\* Facts that are lost are typed.
LEMMA NoFactsType ==
  ASSUME NoFacts
  PROVE  /\ gen_certs' \in BOOLEAN /\ gen_master_certs' \subseteq Host
         /\ gen_node_certs' \subseteq Host /\ sync_certs' \subseteq Host
         /\ requires_sync' \subseteq Host /\ etcd_secret_changed' \subseteq Host
         /\ notified' \subseteq Host /\ tmp' \subseteq File
         /\ made' \in Content /\ todo' \in [Host -> SUBSET File]
  <1>1. NoFile \in Content
    BY CertsAssumption DEF NoFile, Content, Execution
  <1> QED BY <1>1 DEF NoFacts

\* A gather keeps the types when what it gathers are files.
LEMMA GatherType ==
  ASSUME TypeOK, Counted, NEW items \in [Host -> SUBSET File],
         NEW task \in {"gather_members", "gather_nodes", "gather_tar"},
         NEW next \in {"copy_members", "copy_nodes", "copy_tar"},
         Gather(task, next, items)
  PROVE  TypeOK' /\ Counted'
  BY DEF Gather, TypeOK, Counted, hostVars, runVars, facts, handlerVars

LEMMA TypeInductive ==
  TypeInv /\ [Next]_vars => TypeInv'
  <1> SUFFICES ASSUME TypeOK, Counted, [Next]_vars PROVE TypeOK' /\ Counted'
    BY DEF TypeInv
  <1> USE DEF hostVars, runVars, facts, handlerVars, taskVars
  <1>1. CASE StartRun
    <2>1. \A x \in 0 .. MaxRuns : x < MaxRuns => x + 1 \in 0 .. MaxRuns
      BY CertsAssumption
    <2>2. runs' \in 0 .. MaxRuns /\ inventory' \in Inventories
          /\ playbook' \in {"cluster", "scale"} /\ play' = 1 /\ pc' = "check"
          /\ completed' \in BOOLEAN /\ runs' = runs + 1
      BY <1>1, <2>1 DEF StartRun, TypeOK
    <2>3. UNCHANGED <<hostVars, force_etcd_cert_refresh>> /\ NoFacts
      BY <1>1 DEF StartRun
    <2>4. TypeOK' BY <2>2, <2>3, NoFactsType DEF TypeOK
    <2>5. issued \in Nat /\ runs \in Nat /\ issued <= 2 * runs
      BY <1>1, CertsAssumption DEF StartRun, TypeOK, Counted, Execution
    <2>6. Counted' BY <2>2, <2>3, <2>5 DEF Counted
    <2> QED BY <2>4, <2>6
  <1>2. CASE Interrupt
    <2>1. issued' <= 2 * runs'
      BY <1>2, CertsAssumption DEF Interrupt, TypeOK, Counted, Execution
    <2> QED BY <1>2, <2>1, NoFactsType DEF Interrupt, TypeOK, Counted
  <1>3. CASE CheckCerts
    BY <1>3, Groups DEF CheckCerts, TypeOK, Counted
  <1>4. CASE RunScript
    <2>1. issued' \in Execution /\ issued' <= 2 * (runs' - 1) + play'
      BY <1>4, CertsAssumption DEF RunScript, TypeOK, Counted, Execution
    <2>2. NewFiles \subseteq File
      <3>1. gen_master_certs \subseteq Host /\ gen_node_certs \subseteq Host
        BY DEF TypeOK
      <3> QED BY <3>1, PairFiles DEF NewFiles, MemberFiles, NodeFiles, Member
    <2>3. tmp' \subseteq File
      BY <1>4, <2>2, CAFiles DEF RunScript, ReuseCA, CreateCA
    <2>4. made' \in Content
      <3>1. dir[First][CA] \in Content
        BY Contents, CAFiles, CertsAssumption
      <3>2. dir[First][CA][1] \in Execution BY <3>1 DEF Content
      <3> QED BY <1>4, <2>1, <3>2 DEF RunScript, ReuseCA, CreateCA, Content
    <2> QED BY <1>4, <2>1, <2>3, <2>4 DEF RunScript, TypeOK, Counted
  <1>5. CASE SkipScript
    BY <1>5, CertsAssumption DEF SkipScript, TypeOK, Counted, Execution
  <1>6. CASE MoveFile
    <2>1. notified' \subseteq Host /\ pc' \in {"move", "gather_members"}
      BY <1>6, Groups DEF MoveFile, TypeOK
    <2>2. PICK f \in tmp : /\ dir' = [dir EXCEPT ![First][f] = made]
                          /\ tmp' = tmp \ {f}
      BY <1>6 DEF MoveFile
    <2>3. f \in File /\ tmp' \subseteq File /\ made \in Content
      BY <2>2 DEF TypeOK
    <2>4. dir' \in [Host -> [File -> Content]]
      BY <2>2, <2>3, CertsAssumption DEF TypeOK
    <2> QED BY <1>6, <2>1, <2>3, <2>4 DEF MoveFile, TypeOK, Counted
  <1>7. CASE GatherMembers
    <2>1. MemberItems \in [Host -> SUBSET File]
      BY ItemFiles, CAFiles DEF MemberItems
    <2> QED BY <1>7, <2>1, GatherType DEF GatherMembers
  <1>8. CASE GatherNodes
    <2>1. NodeItems \in [Host -> SUBSET File] BY ItemFiles DEF NodeItems
    <2> QED BY <1>8, <2>1, GatherType DEF GatherNodes
  <1>9. CASE GatherTar
    <2>1. NodeTar \in [Host -> SUBSET File]
      BY PairFiles, CAFiles DEF NodeTar
    <2> QED BY <1>9, <2>1, GatherType DEF GatherTar
  <1>10. CASE CopyFile
    <2>1. PICK h \in Host, f \in File :
            /\ dir' = [dir EXCEPT ![h][f] = dir[First][f]]
            /\ todo' = [todo EXCEPT ![h] = @ \ {f}]
      BY <1>10 DEF CopyFile
    <2>2. dir[First][f] \in Content BY Contents, CertsAssumption
    <2>3. dir' \in [Host -> [File -> Content]] BY <2>1, <2>2 DEF TypeOK
    <2>4. todo' \in [Host -> SUBSET File] BY <2>1 DEF TypeOK
    <2> QED BY <1>10, <2>3, <2>4 DEF CopyFile, TypeOK, Counted
  <1>11. CASE CopyTar
    <2>1. PICK h \in Host :
            /\ dir' = [dir EXCEPT ![h] = [f \in File |->
                         IF f \in todo[h] THEN dir[First][f] ELSE @[f]]]
            /\ todo' = [todo EXCEPT ![h] = {}]
      BY <1>11 DEF CopyTar
    <2>2. [f \in File |-> IF f \in todo[h] THEN dir[First][f] ELSE dir[h][f]]
            \in [File -> Content]
      BY Contents, CertsAssumption
    <2>3. dir' \in [Host -> [File -> Content]] BY <2>1, <2>2 DEF TypeOK
    <2>4. todo' \in [Host -> SUBSET File] BY <2>1 DEF TypeOK
    <2> QED BY <1>11, <2>3, <2>4 DEF CopyTar, TypeOK, Counted
  <1>12. CASE Copied
    BY <1>12 DEF Copied, TypeOK, Counted
  <1>13. CASE UpdateTrust
    <2>1. trust' \in [Host -> Content]
      BY <1>13, Contents, CAFiles DEF UpdateTrust, TypeOK
    <2> QED BY <1>13, <2>1 DEF UpdateTrust, TypeOK, Counted
  <1>14. CASE Configure
    <2>1. loaded' \in [Host -> Content]
      BY <1>14, Contents DEF Configure, TypeOK
    <2> QED BY <1>14, <2>1 DEF Configure, TypeOK, Counted
  <1>15. CASE RunHandlers
    <2>1. CASE play = 1
      BY <1>15, <2>1 DEF RunHandlers, TypeOK, Counted
    <2>2. CASE play # 1
      BY <1>15, <2>2, NoFactsType DEF RunHandlers, TypeOK, Counted
    <2> QED BY <2>1, <2>2
  <1>16. CASE EtcdRestarts
    <2>1. loaded' \in [Host -> Content]
      BY <1>16, Contents DEF EtcdRestarts, TypeOK
    <2> QED BY <1>16, <2>1 DEF EtcdRestarts, TypeOK, Counted
  <1>17. CASE UNCHANGED vars
    BY <1>17 DEF vars, TypeOK, Counted
  <1> QED
    BY <1>1, <1>2, <1>3, <1>4, <1>5, <1>6, <1>7, <1>8, <1>9, <1>10, <1>11,
       <1>12, <1>13, <1>14, <1>15, <1>16, <1>17 DEF Next

LEMMA TypeInit == Init => TypeInv
  <1> SUFFICES ASSUME Init PROVE TypeInv OBVIOUS
  <1>1. NoFile \in Content /\ 0 \in Execution
    BY CertsAssumption DEF NoFile, Content, Execution
  <1>2. TypeOK
    <2>1. dir \in [Host -> [File -> Content]] BY <1>1 DEF Init
    <2>2. trust \in [Host -> Content] /\ loaded \in [Host -> Content]
      BY <1>1 DEF Init
    <2>3. made \in Content /\ todo \in [Host -> SUBSET File] /\ tmp \subseteq File
      BY <1>1 DEF Init
    <2>4. issued \in Execution /\ runs \in 0 .. MaxRuns
      BY <1>1, CertsAssumption DEF Init
    <2> QED BY <2>1, <2>2, <2>3, <2>4 DEF Init, TypeOK
  <1>3. Counted BY DEF Init, Counted
  <1> QED BY <1>2, <1>3 DEF TypeInv

\* Every variable keeps its type; the script runs once per play at most.
THEOREM CertsTypeCorrect == Spec => []TypeOK
  <1>1. TypeInv => TypeOK BY DEF TypeInv
  <1> QED BY TypeInit, TypeInductive, <1>1, PTL DEF Spec
-----------------------------------------------------------------------------
(* One CA.                                                                  *)

\* Steps that touch neither files nor etcds, nor enter the script.
LEMMA SignedFrame ==
  ASSUME TypeOK, SignedInv, UNCHANGED <<dir, loaded>>, Etcd \subseteq Etcd',
         pc' \notin {"script", "move"},
         todo' = todo \/ todo' = [h \in Host |-> {}]
  PROVE  SignedInv'
  <1>1. FirstSigned'
    BY DEF SignedInv, FirstSigned, HasCA, Exists
  <1>2. OthersSigned'
    BY DEF SignedInv, OthersSigned, HasCA, Exists
  <1>3. Decided' /\ Moving' BY DEF Decided, Moving
  <1> QED BY <1>1, <1>2, <1>3 DEF SignedInv

\* A gather by hosts that need something finds it, and with it the CA.
LEMMA GatherSigned ==
  ASSUME TypeOK, SignedInv, UNCHANGED <<hostVars, inventory>>,
         NEW next \in {"copy_members", "copy_nodes", "copy_tar"}, pc' = next,
         \A h \in Host : todo'[h] # {} => HasCA
  PROVE  SignedInv'
  <1>1. FirstSigned'
    BY DEF SignedInv, FirstSigned, HasCA, Exists, hostVars, Etcd
  <1>2. OthersSigned'
    BY DEF SignedInv, OthersSigned, HasCA, Exists, hostVars
  <1>3. Decided' /\ Moving' BY DEF Decided, Moving
  <1> QED BY <1>1, <1>2, <1>3 DEF SignedInv

\* Copies of what the first host has are signed by its CA.
LEMMA CopySigned ==
  ASSUME TypeOK, SignedInv, NEW h \in Host, todo[h] # {},
         dir' \in [Host -> [File -> Content]],
         \A g \in Host, f \in File :
           \/ dir'[g][f] = dir[g][f]
           \/ g = h /\ dir'[g][f] = dir[First][f],
         \A g \in Host : todo'[g] \subseteq todo[g],
         pc' = pc, pc \notin {"script", "move"},
         UNCHANGED <<loaded, inventory>>
  PROVE  SignedInv'
  <1>1. HasCA BY DEF SignedInv, OthersSigned
  <1>2. \A f \in File : dir'[First][f] = dir[First][f] BY CertsAssumption
  <1>3. HasCA' /\ dir'[First][CA] = dir[First][CA]
    BY <1>1, <1>2, CAFiles DEF HasCA, Exists
  <1>4. FirstSigned'
    BY <1>1, <1>2, <1>3, CAFiles DEF SignedInv, FirstSigned, Exists
  <1>5. OthersSigned'
    BY <1>1, <1>3 DEF SignedInv, OthersSigned, FirstSigned, Exists
  <1>6. Decided' /\ Moving' BY DEF Decided, Moving
  <1> QED BY <1>4, <1>5, <1>6 DEF SignedInv

\* An etcd starts with a certificate of the CA of the first host.
LEMMA LoadSigned ==
  ASSUME TypeOK, SignedInv, NEW h \in Host, Loadable(h) # NoFile
  PROVE  HasCA /\ Loadable(h)[1] = dir[First][CA][1]
  <1>1. Loadable(h)[1] = dir[h][CA][1] /\ Exists(h, CA)
    BY DEF Loadable, Usable
  <1> QED BY <1>1, CAFiles DEF SignedInv, OthersSigned, HasCA

\* The script generates what is missing, under the one CA or a first one.
LEMMA ScriptSigned ==
  ASSUME TypeOK, SignedInv, RunScript PROVE Moving'
  <1> USE DEF SignedInv
  <1>1. dir' = dir /\ inventory' = inventory /\ gen_master_certs \subseteq Etcd
        /\ gen_node_certs \subseteq Host /\ issued' \in Nat /\ issued' > 0
    BY CertsAssumption
       DEF RunScript, Decided, TypeOK, runVars, Execution
  <1>2. CA \notin NewFiles /\ CAKey \notin NewFiles
    BY <1>1, Groups, PairFiles DEF NewFiles, MemberFiles, NodeFiles, Member
  <1>3. ASSUME NEW f \in NewFiles, f[1] = "admin"
        PROVE  \E h \in Etcd : f \in AdminFiles(h)
    BY <1>1, <1>3, Groups, PairFiles
       DEF NewFiles, MemberFiles, NodeFiles, Member, AdminFiles
  <1>4. CASE ReuseCA
    <2>1. HasCA' BY <1>1, <1>4 DEF ReuseCA, HasCA, Exists
    <2>2. made'[1] = dir'[First][CA][1] /\ made'[2] = issued' /\ tmp' = NewFiles
      BY <1>1, <1>4 DEF ReuseCA
    <2> QED BY <1>1, <1>2, <1>3, <2>1, <2>2 DEF Moving, Etcd
  <1>5. CASE CreateCA
    <2>1. ~HasCA /\ ~HasCA'
      BY <1>1, <1>5 DEF CreateCA, FirstSigned, HasCA, Exists
    <2>2. made'[2] = issued' /\ tmp' = NewFiles \cup {CA, CAKey}
      BY <1>5 DEF CreateCA
    <2>3. ASSUME NEW f \in File, Exists(First, f) PROVE f \in tmp'
      <3>1. CASE f = CAKey BY <2>2, <3>1
      <3>2. CASE f # CAKey
        <4>1. PICK h \in Etcd : f \in AdminFiles(h)
          BY <2>1, <2>3, <3>2 DEF FirstSigned
        <4> DEFINE m == <<"member", h, "crt">>
        <4>2. m \in Member(h) /\ m \in Pair("member", h) BY DEF Member, Pair
        <4>3. m \in File /\ m[1] = "member" /\ m # CAKey
          BY <4>2, Groups, PairFiles
        <4>4. \A g \in Etcd : m \notin AdminFiles(g)
          BY <4>3, Groups, PairFiles DEF AdminFiles
        <4>5. ~Exists(First, m) BY <2>1, <4>3, <4>4 DEF FirstSigned
        <4>6. NeedsMember(h) BY <4>2, <4>5 DEF NeedsMember, Has
        <4>7. h \in gen_master_certs BY <4>6 DEF RunScript, Decided
        <4> QED BY <2>2, <4>1, <4>7
              DEF NewFiles, MemberFiles, Member, AdminFiles
      <3> QED BY <3>1, <3>2
    <2>4. \A f \in File : f \notin tmp' /\ Exists(First, f)' => FALSE
      BY <1>1, <2>3 DEF Exists
    <2>5. \A f \in tmp' : f[1] = "admin" => \E h \in Etcd' : f \in AdminFiles(h)
      BY <1>1, <1>3, <2>2, CAFiles DEF Etcd
    <2> QED BY <1>1, <2>1, <2>2, <2>4, <2>5 DEF Moving
  <1> QED BY <1>4, <1>5 DEF RunScript

\* The move of one file, before, at and after the CA.
LEMMA MoveSigned ==
  ASSUME TypeOK, SignedInv, MoveFile PROVE SignedInv'
  <1> USE DEF SignedInv
  <1>1. PICK f \in tmp : /\ \A g \in tmp : ~MovedBefore(g, f)
                         /\ dir' = [dir EXCEPT ![First][f] = made]
                         /\ tmp' = tmp \ {f}
    BY DEF MoveFile
  <1>2. f \in File /\ tmp \in SUBSET File BY DEF TypeOK
  <1>3. pc = "move" /\ pc' # "script" /\ made' = made /\ inventory' = inventory
        /\ loaded' = loaded /\ todo' = todo
    BY DEF MoveFile, runVars
  <1>4. made # NoFile BY <1>3 DEF Moving, NoFile
  <1>5. /\ dir'[First][f] = made
        /\ \A g \in File : g # f => dir'[First][g] = dir[First][g]
        /\ \A h \in Host : h # First => dir'[h] = dir[h]
    BY <1>1, <1>2, CertsAssumption DEF TypeOK
  <1>6. Decided' BY <1>3 DEF Decided
  <1>7. \A g \in tmp' : g[1] = "admin" => \E h \in Etcd' : g \in AdminFiles(h)
    BY <1>1, <1>3 DEF Moving, Etcd
  <1>8. CASE HasCA
    <2>1. f # CA /\ f # CAKey /\ made[1] = dir[First][CA][1]
      BY <1>3, <1>8 DEF Moving
    <2>2. HasCA' /\ dir'[First][CA] = dir[First][CA]
      BY <1>5, <1>8, <2>1, CAFiles DEF HasCA, Exists
    <2>3. FirstSigned'
      BY <1>5, <1>8, <2>1, <2>2, CAFiles DEF FirstSigned, Exists
    <2>4. OthersSigned'
      BY <1>3, <1>5, <1>8, <2>2 DEF OthersSigned, Exists
    <2>5. Moving'
      BY <1>1, <1>3, <1>7, <1>8, <2>1, <2>2 DEF Moving
    <2> QED BY <1>6, <2>3, <2>4, <2>5
  <1>9. CASE ~HasCA
    <2>1. CA \in tmp BY <1>3, <1>9 DEF Moving
    <2>2. /\ f = CA => CAKey \notin tmp /\ \A g \in tmp : g[1] # "admin"
          /\ f = CA \/ f = CAKey \/ f[1] = "admin"
      BY <1>1, <1>2, <2>1, MoveOrder
    <2>3. /\ \A h \in Host, g \in File : h # First => ~Exists(h, g)
          /\ \A h \in Host : loaded[h] = NoFile /\ todo[h] = {}
      BY <1>9 DEF OthersSigned
    <2>4. OthersSigned' BY <1>3, <1>5, <2>3 DEF OthersSigned, Exists
    <2>5. \A g \in File : g \notin tmp /\ Exists(First, g) =>
            dir[First][g][1] = made[1]
      BY <1>3, <1>9 DEF Moving
    <2>6. CASE f = CA
      <3>1. HasCA' /\ dir'[First][CA] = made
        BY <1>4, <1>5, <2>6 DEF HasCA, Exists
      <3>2. ASSUME NEW g \in File, g # CA, Exists(First, g)
            PROVE  g \notin tmp
        <4>1. g = CAKey \/ \E h \in Etcd : g \in AdminFiles(h)
          BY <1>9, <3>2 DEF FirstSigned
        <4>2. g = CAKey \/ g[1] = "admin"
          BY <4>1, Groups, PairFiles DEF AdminFiles
        <4> QED BY <2>2, <2>6, <4>2
      <3>3. Exists(First, CAKey)' BY <1>3, <1>5, <1>9, <2>2, <2>6, CAFiles
        DEF Moving, Exists
      <3>4. \A g \in File : g # CA /\ Exists(First, g) =>
              dir[First][g][1] = made[1]
        BY <2>5, <3>2
      <3>5. FirstSigned'
        BY <1>5, <2>6, <3>1, <3>3, <3>4 DEF FirstSigned, Exists
      <3>6. Moving'
        BY <1>1, <1>3, <1>7, <2>2, <2>6, <3>1 DEF Moving
      <3> QED BY <1>6, <2>4, <3>5, <3>6
    <2>7. CASE f # CA
      <3>1. ~HasCA' BY <1>5, <1>9, <2>7, CAFiles DEF HasCA, Exists
      <3>2. f = CAKey \/ \E h \in Etcd : f \in AdminFiles(h)
        BY <1>3, <2>2, <2>7 DEF Moving
      <3>3. FirstSigned'
        BY <1>3, <1>5, <1>9, <3>1, <3>2 DEF FirstSigned, Exists, Etcd
      <3>4. CAKey \in tmp' \/ Exists(First, CAKey)'
        BY <1>1, <1>3, <1>4, <1>5, <1>9, CAFiles DEF Moving, Exists
      <3>5. \A g \in File : g \notin tmp' /\ Exists(First, g)' =>
              dir'[First][g][1] = made[1]
        BY <1>1, <1>5, <2>5 DEF Exists
      <3>6. Moving'
        BY <1>1, <1>3, <1>7, <2>1, <2>7, <3>1, <3>4, <3>5 DEF Moving
      <3> QED BY <1>6, <2>4, <3>3, <3>6
    <2> QED BY <2>6, <2>7
  <1> QED BY <1>8, <1>9

LEMMA SignedInductive ==
  TypeOK /\ TypeOK' /\ SignedInv /\ [Next]_vars => SignedInv'
  <1> SUFFICES ASSUME TypeOK, TypeOK', SignedInv, [Next]_vars PROVE SignedInv'
    OBVIOUS
  <1>1. CASE StartRun
    BY <1>1, SignedFrame DEF StartRun, NoFacts, hostVars, Etcd
  <1>2. CASE Interrupt
    BY <1>2, SignedFrame DEF Interrupt, NoFacts, hostVars, runVars, Etcd
  <1>3. CASE CheckCerts
    <2>1. UNCHANGED <<dir, loaded, inventory, todo, force_etcd_cert_refresh>>
          /\ pc' = "script" /\ gen_master_certs' = {h \in Etcd : NeedsMember(h)}
      BY <1>3 DEF CheckCerts, hostVars, runVars, taskVars
    <2>2. FirstSigned' /\ OthersSigned'
      BY <2>1 DEF SignedInv, FirstSigned, OthersSigned, HasCA, Exists, Etcd
    <2>3. Decided' BY <2>1 DEF Decided, NeedsMember, Has, Exists, Etcd
    <2>4. Moving' BY <2>1 DEF Moving
    <2> QED BY <2>2, <2>3, <2>4 DEF SignedInv
  <1>4. CASE RunScript
    <2>1. UNCHANGED <<dir, loaded, inventory, todo>> /\ pc' = "move"
      BY <1>4 DEF RunScript, runVars
    <2>2. FirstSigned' /\ OthersSigned'
      BY <2>1 DEF SignedInv, FirstSigned, OthersSigned, HasCA, Exists, Etcd
    <2>3. Decided' BY <2>1 DEF Decided
    <2> QED BY <1>4, <2>2, <2>3, ScriptSigned DEF SignedInv
  <1>5. CASE SkipScript
    BY <1>5, SignedFrame DEF SkipScript, hostVars, runVars, taskVars, Etcd
  <1>6. CASE MoveFile BY <1>6, MoveSigned
  <1>7. CASE GatherMembers
    <2>1. \A h \in Host : todo'[h] # {} => CA \in todo'[h]
      BY <1>7 DEF GatherMembers, Gather, MemberItems
    <2>2. \A h \in Host : todo'[h] # {} => HasCA
      BY <1>7, <2>1 DEF GatherMembers, Gather, Has, HasCA
    <2> QED BY <1>7, <2>2, GatherSigned DEF GatherMembers, Gather, runVars
  <1>8. CASE GatherNodes
    <2>1. ASSUME NEW h \in Host, todo'[h] # {} PROVE HasCA
      <3>1. Has(First, todo'[h]) /\ todo'[h] = NodeFiles(Kube)
        BY <1>8, <2>1 DEF GatherNodes, Gather, NodeItems
      <3>2. PICK k \in Kube : TRUE BY Groups
      <3> DEFINE n == <<"node", k, "crt">>
      <3>3. n \in Pair("node", k) /\ n \in todo'[h]
        BY <3>1, <3>2 DEF NodeFiles, Pair
      <3>4. n \in File /\ n[1] = "node" /\ n # CAKey
        BY <3>2, <3>3, Groups, PairFiles
      <3>5. \A g \in Etcd : n \notin AdminFiles(g)
        BY <3>4, Groups, PairFiles DEF AdminFiles
      <3> QED BY <3>1, <3>3, <3>4, <3>5 DEF SignedInv, FirstSigned, Has
    <2> QED BY <1>8, <2>1, GatherSigned DEF GatherNodes, Gather, runVars
  <1>9. CASE GatherTar
    <2>1. \A h \in Host : todo'[h] # {} => CA \in todo'[h]
      BY <1>9 DEF GatherTar, Gather, NodeTar
    <2>2. \A h \in Host : todo'[h] # {} => HasCA
      BY <1>9, <2>1 DEF GatherTar, Gather, Has, HasCA
    <2> QED BY <1>9, <2>2, GatherSigned DEF GatherTar, Gather, runVars
  <1>10. CASE CopyFile
    <2>1. PICK h \in Host, f \in File :
            /\ f \in todo[h]
            /\ dir' = [dir EXCEPT ![h][f] = dir[First][f]]
            /\ todo' = [todo EXCEPT ![h] = @ \ {f}]
      BY <1>10 DEF CopyFile
    <2>2. \A g \in Host, e \in File :
            dir'[g][e] = dir[g][e] \/ (g = h /\ dir'[g][e] = dir[First][e])
      BY <2>1 DEF TypeOK
    <2>3. \A g \in Host : todo'[g] \subseteq todo[g] BY <2>1 DEF TypeOK
    <2>4. dir' \in [Host -> [File -> Content]] BY DEF TypeOK
    <2>5. pc' = pc /\ pc \notin {"script", "move"}
          /\ UNCHANGED <<loaded, inventory>>
      BY <1>10 DEF CopyFile, runVars
    <2> QED BY <2>1, <2>2, <2>3, <2>4, <2>5, CopySigned
  <1>11. CASE CopyTar
    <2>1. PICK h \in Host :
            /\ todo[h] # {}
            /\ dir' = [dir EXCEPT ![h] = [f \in File |->
                         IF f \in todo[h] THEN dir[First][f] ELSE @[f]]]
            /\ todo' = [todo EXCEPT ![h] = {}]
      BY <1>11 DEF CopyTar
    <2>2. \A g \in Host, e \in File :
            dir'[g][e] = dir[g][e] \/ (g = h /\ dir'[g][e] = dir[First][e])
      BY <2>1 DEF TypeOK
    <2>3. \A g \in Host : todo'[g] \subseteq todo[g] BY <2>1 DEF TypeOK
    <2>4. dir' \in [Host -> [File -> Content]] BY DEF TypeOK
    <2>5. pc' = pc /\ pc \notin {"script", "move"}
          /\ UNCHANGED <<loaded, inventory>>
      BY <1>11 DEF CopyTar, runVars
    <2> QED BY <2>1, <2>2, <2>3, <2>4, <2>5, CopySigned
  <1>12. CASE Copied
    BY <1>12, SignedFrame DEF Copied, hostVars, runVars, taskVars, Etcd
  <1>13. CASE UpdateTrust
    BY <1>13, SignedFrame DEF UpdateTrust, runVars, taskVars, Etcd
  <1>14. CASE Configure
    <2>1. UNCHANGED <<dir, inventory, todo>> /\ pc' = "handlers"
      BY <1>14 DEF Configure, runVars, taskVars
    <2>2. \A h \in Host : loaded'[h] \in {loaded[h], Loadable(h)}
      BY <1>14 DEF Configure
    <2>3. FirstSigned'
      BY <2>1 DEF SignedInv, FirstSigned, HasCA, Exists, Etcd
    <2>4. OthersSigned'
      BY <2>1, <2>2, LoadSigned DEF SignedInv, OthersSigned, HasCA, Exists
    <2>5. Decided' /\ Moving' BY <2>1 DEF Decided, Moving
    <2> QED BY <2>3, <2>4, <2>5 DEF SignedInv
  <1>15. CASE RunHandlers
    BY <1>15, SignedFrame
       DEF RunHandlers, NoFacts, hostVars, taskVars, Etcd
  <1>16. CASE EtcdRestarts
    <2>1. UNCHANGED <<dir, inventory, todo, pc, gen_master_certs, made, tmp,
                      force_etcd_cert_refresh>>
      BY <1>16 DEF EtcdRestarts, runVars, taskVars, facts
    <2>2. \A h \in Host : loaded'[h] \in {loaded[h], Loadable(h)}
      BY <1>16 DEF EtcdRestarts, TypeOK
    <2>3. FirstSigned'
      BY <2>1 DEF SignedInv, FirstSigned, HasCA, Exists, Etcd
    <2>4. OthersSigned'
      BY <2>1, <2>2, LoadSigned DEF SignedInv, OthersSigned, HasCA, Exists
    <2>5. Decided'
      BY <2>1 DEF SignedInv, Decided, NeedsMember, Has, Exists, Etcd
    <2>6. Moving' BY <2>1 DEF SignedInv, Moving, HasCA, Exists, Etcd
    <2> QED BY <2>3, <2>4, <2>5, <2>6 DEF SignedInv
  <1>17. CASE UNCHANGED vars
    <2>1. UNCHANGED <<dir, loaded, inventory, todo, pc, gen_master_certs, made,
                      tmp, force_etcd_cert_refresh>>
      BY <1>17 DEF vars, hostVars, runVars, taskVars, facts
    <2> QED BY <2>1 DEF SignedInv, FirstSigned, OthersSigned, Decided, Moving,
                        NeedsMember, Has, HasCA, Exists, Etcd
  <1> QED
    BY <1>1, <1>2, <1>3, <1>4, <1>5, <1>6, <1>7, <1>8, <1>9, <1>10, <1>11,
       <1>12, <1>13, <1>14, <1>15, <1>16, <1>17 DEF Next

LEMMA SignedInit == Init => SignedInv
  BY CAFiles, CertsAssumption
     DEF Init, SignedInv, FirstSigned, OthersSigned, Decided, Moving, HasCA,
         Exists

\* There is one CA, for good (make-ssl-etcd.sh, the reuse of the CA and the
\* order of the move), for any hosts, inventories and number of runs.
THEOREM OneCA == Spec => []IssuedByOneCA
  <1>1. SignedInv => IssuedByOneCA
    BY DEF SignedInv, OthersSigned, IssuedByOneCA, HasCA
  <1> QED BY CertsTypeCorrect, SignedInit, SignedInductive, <1>1, PTL DEF Spec
-----------------------------------------------------------------------------
(* What a completed run has brought to the hosts: first what the script has  *)
(* made on the first host, then the copies of it.                            *)

AfterScript == {"gather_members", "copy_members", "gather_nodes", "copy_nodes",
                "gather_tar", "copy_tar", "trust", "configure", "handlers"}
AfterMembers == AfterScript \ {"gather_members", "copy_members"}
AfterNodes == AfterMembers \ {"gather_nodes", "copy_nodes"}
AfterTar == AfterNodes \ {"gather_tar", "copy_tar"}
Reached(tasks) == pc \in tasks \/ completed

Crt(kind, h) == <<kind, h, "crt">>
Key(kind, h) == <<kind, h, "key">>
MemberOwn(h) == {CA} \cup Member(h)
NodeOwn(h) == {CA} \cup Pair("node", h)

\* Key and certificate on the first host belong together.
Whole(kind, h) ==
  Exists(First, Crt(kind, h)) /\ dir[First][Key(kind, h)] = dir[First][Crt(kind, h)]

\* Files of h are those of the first host.
Equal(h, files) == \A f \in files : dir[h][f] = dir[First][f]

\* What the script is to make, and what need not be made is there.
Decisions ==
  /\ completed => pc = "idle" /\ play = 2
  /\ pc = "script" =>
       /\ gen_certs = (force_etcd_cert_refresh \/ ~Has(First, Expected))
       /\ \A h \in gen_node_certs : NeedsNode(h)
  /\ pc \in {"script", "move"} =>
       /\ gen_master_certs \subseteq Etcd /\ gen_node_certs \subseteq Kube
       /\ \A h \in Etcd \ gen_master_certs :
            ~force_etcd_cert_refresh /\ Has(First, Member(h))
       /\ \A h \in Kube \ gen_node_certs :
            ~force_etcd_cert_refresh /\ Has(First, Pair("node", h))

\* What has been moved is of this execution of the script.
Moved ==
  pc = "move" =>
    /\ tmp \subseteq NewFiles \cup {CA, CAKey}
    /\ \A f \in NewFiles \ tmp : dir[First][f] = made

\* Where only missing files are made, the certificate that is moved last says
\* that the others of the host are there, and stay.
Finished ==
  ~force_etcd_cert_refresh =>
    \A h \in Host :
      /\ Exists(First, Crt("member", h)) =>
           /\ Whole("admin", h) /\ Whole("member", h)
           /\ pc = "move" => tmp \cap Member(h) = {}
      /\ Exists(First, Crt("node", h)) =>
           /\ Whole("node", h)
           /\ pc = "move" => tmp \cap Pair("node", h) = {}

\* After the script the first host has every pair, and keeps them if they are
\* not refreshed.
Ready ==
  /\ Reached(AfterScript) \/ (play = 2 /\ ~force_etcd_cert_refresh) =>
       /\ Has(First, Expected)
       /\ \A h \in Etcd : Whole("admin", h) /\ Whole("member", h)
       /\ \A h \in Kube : Whole("node", h)
  /\ play = 2 /\ ~force_etcd_cert_refresh => pc # "move"

\* An etcd host that is not to copy has what the first host has.
Unsynced ==
  pc \in {"script", "move", "gather_members"} =>
    \A h \in (PlayHosts \cap Etcd) \ sync_certs :
      /\ Exists(h, CA) /\ Equal(h, MemberOwn(h))
      /\ pc \in {"script", "move"} => h \notin gen_master_certs

\* What is left of a copy, and what it has brought.
Copies ==
  /\ \A h \in Host : todo[h] # {} =>
       h \in PlayHosts \ {First} /\ pc \in {"copy_members", "copy_nodes", "copy_tar"}
  /\ pc = "copy_members" =>
       \A h \in OtherEtcd : Equal(h, MemberOwn(h) \ todo[h])
  /\ Reached(AfterMembers) => \A h \in OtherEtcd : Equal(h, MemberOwn(h))
  /\ pc = "copy_nodes" =>
       \A h \in OtherEtcd \cap Kube : Equal(h, Pair("node", h) \ todo[h])
  /\ Reached(AfterNodes) => \A h \in OtherEtcd \cap Kube : Equal(h, Pair("node", h))
  /\ pc = "copy_tar" => \A h \in NodeHosts : Equal(h, NodeOwn(h) \ todo[h])
  /\ Reached(AfterTar) => \A h \in NodeHosts : Equal(h, NodeOwn(h))

\* What the first play has done for etcd hosts that are not in the second.
FirstPlay ==
  play = 2 =>
    /\ HasCA
    /\ \A h \in Etcd \ (PlayHosts \cup {First}) : Usable(h, "admin") /\ Usable(h, "member")
    /\ ~force_etcd_cert_refresh => \A h \in Etcd : Equal(h, Used(h))
    /\ \A h \in Etcd : trust[h] = dir[First][CA]

\* The trust stores of the play.
Trusted ==
  Reached({"configure", "handlers"}) =>
    HasCA /\ \A h \in PlayHosts : trust[h] = dir[First][CA]

MadeInv == Decisions /\ Moved /\ Finished /\ Ready
CopyInv == Unsynced /\ Copies /\ FirstPlay /\ Trusted
-----------------------------------------------------------------------------

\* A file of a pair says whose it is.
LEMMA PairOwner ==
  ASSUME NEW kind, NEW h, NEW f \in Pair(kind, h)
  PROVE  f[1] = kind /\ f[2] = h
  BY DEF Pair

LEMMA PairParts ==
  ASSUME NEW kind, NEW h
  PROVE  Pair(kind, h) = {Crt(kind, h), Key(kind, h)}
  BY DEF Pair, Crt, Key

\* The script makes the files of a host all or none.
LEMMA NewOwner ==
  ASSUME TypeOK, NEW h \in Host
  PROVE  /\ h \in gen_master_certs => Member(h) \subseteq NewFiles
         /\ h \notin gen_master_certs => Member(h) \cap NewFiles = {}
         /\ h \in gen_node_certs => Pair("node", h) \subseteq NewFiles
         /\ h \notin gen_node_certs => Pair("node", h) \cap NewFiles = {}
         /\ Member(h) \cap {CA, CAKey} = {} /\ Pair("node", h) \cap {CA, CAKey} = {}
         /\ Member(h) \subseteq File /\ Pair("node", h) \subseteq File
         /\ Member(h) \cap Pair("node", h) = {}
  <1>1. /\ h \in gen_master_certs => Member(h) \subseteq NewFiles
        /\ h \in gen_node_certs => Pair("node", h) \subseteq NewFiles
    BY DEF NewFiles, MemberFiles, NodeFiles
  <1>2. \A f \in Member(h) : f[1] \in {"admin", "member"} /\ f[2] = h
    BY PairOwner DEF Member
  <1>3. \A f \in Pair("node", h) : f[1] = "node" /\ f[2] = h
    BY PairOwner
  <1>4. ASSUME NEW f \in NewFiles
        PROVE  \/ f[1] \in {"admin", "member"} /\ f[2] \in gen_master_certs
               \/ f[1] = "node" /\ f[2] \in gen_node_certs
    <2>1. CASE f \in MemberFiles(gen_master_certs)
      <3>1. PICK g \in gen_master_certs : f \in Member(g)
        BY <2>1 DEF MemberFiles
      <3>. QED BY <3>1, PairOwner DEF Member
    <2>2. CASE f \in NodeFiles(gen_node_certs)
      <3>1. PICK g \in gen_node_certs : f \in Pair("node", g)
        BY <2>2 DEF NodeFiles
      <3>. QED BY <3>1, PairOwner
    <2>. QED BY <1>4, <2>1, <2>2 DEF NewFiles
  <1>5. Member(h) \subseteq File /\ Pair("node", h) \subseteq File
    BY PairFiles DEF Member
  <1>6. CA[1] = "ca" /\ CAKey[1] = "ca"
    BY CAFiles
  <1>7. h \notin gen_master_certs => Member(h) \cap NewFiles = {}
    BY <1>2, <1>4
  <1>8. h \notin gen_node_certs => Pair("node", h) \cap NewFiles = {}
    BY <1>3, <1>4
  <1>9. Member(h) \cap {CA, CAKey} = {} /\ Pair("node", h) \cap {CA, CAKey} = {}
    BY <1>2, <1>3, <1>6
  <1>10. Member(h) \cap Pair("node", h) = {}
    BY <1>2, <1>3
  <1>. QED BY <1>1, <1>5, <1>7, <1>8, <1>9, <1>10

\* The certificates are the last files of their hosts that are moved.
LEMMA MovedLast ==
  ASSUME NEW T \in SUBSET File, NEW f \in T, \A g \in T : ~MovedBefore(g, f),
         NEW h \in Host
  PROVE  /\ f = Crt("member", h) => Member(h) \cap T = {f}
         /\ f = Crt("node", h) => Pair("node", h) \cap T = {f}
  <1>1. ASSUME NEW kind \in {"member", "node"}, f = Crt(kind, h)
        PROVE  Key(kind, h) \notin T
    <2>1. Key(kind, h) \in File /\ f \in Pair(kind, h) /\ Key(kind, h) \in Pair(kind, h)
      BY <1>1, PairFiles, PairParts
    <2>2. Rank(Key(kind, h)) = Rank(f)
      BY <1>1 DEF Rank, Key, Crt
    <2>3. /\ Key(kind, h)[2] = f[2]
          /\ Key(kind, h)[3] = "key" /\ f[3] = "crt"
      BY <1>1 DEF Key, Crt
    <2>. QED BY <2>2, <2>3 DEF MovedBefore
  <1>2. ASSUME f = Crt("member", h), NEW g \in Pair("admin", h) PROVE g \notin T
    <2>1. g \in File /\ f \in File /\ g[1] = "admin" /\ f[1] = "member"
      BY <1>2, PairFiles, PairOwner DEF Crt
    <2>2. Rank(g) = 1 /\ Rank(f) \in {3, 4}
      BY <2>1, Ranks
    <2>. QED BY <2>2 DEF MovedBefore
  <1>3. Pair("member", h) = {Crt("member", h), Key("member", h)}
        /\ Pair("node", h) = {Crt("node", h), Key("node", h)}
    BY PairParts
  <1>. QED BY <1>1, <1>2, <1>3 DEF Member
-----------------------------------------------------------------------------
(* The first host.                                                          *)

\* What is said of the first host's files stays when they stay.
LEMMA SameFirst ==
  ASSUME dir'[First] = dir[First]
  PROVE  /\ \A S : Has(First, S)' <=> Has(First, S)
         /\ \A f : Exists(First, f)' <=> Exists(First, f)
         /\ \A kind, h : Whole(kind, h)' <=> Whole(kind, h)
         /\ HasCA' <=> HasCA
  BY DEF Has, Exists, Whole, HasCA

\* Steps that leave the first host alone, before and after the script.
LEMMA MadeFrame ==
  ASSUME MadeInv, dir'[First] = dir[First],
         UNCHANGED <<inventory, force_etcd_cert_refresh, completed, play>>,
         pc' \notin {"script", "move"}, pc' \in AfterScript => pc \in AfterScript,
         completed => pc' = "idle"
  PROVE  MadeInv'
  <1> USE DEF MadeInv
  <1>1. /\ Has(First, Expected)' <=> Has(First, Expected)
        /\ \A f : Exists(First, f)' <=> Exists(First, f)
        /\ \A kind, h : Whole(kind, h)' <=> Whole(kind, h)
    BY DEF Has, Exists, Whole, Expected, Etcd, Kube
  <1>2. Decisions' BY DEF Decisions
  <1>3. Moved' BY DEF Moved
  <1>4. Finished' BY <1>1 DEF Finished
  <1>5. Ready' BY <1>1 DEF Ready, Reached, Etcd, Kube
  <1>. QED BY <1>2, <1>3, <1>4, <1>5

LEMMA MadeCheck ==
  ASSUME TypeOK, MadeInv, CheckCerts PROVE MadeInv'
  <1> USE DEF MadeInv
  <1>1. /\ dir' = dir /\ pc = "check" /\ pc' = "script"
        /\ UNCHANGED <<inventory, force_etcd_cert_refresh, completed, play>>
        /\ gen_certs' = (force_etcd_cert_refresh \/ ~Has(First, Expected))
        /\ gen_master_certs' = {h \in Etcd : NeedsMember(h)}
        /\ gen_node_certs' = {h \in Kube : NeedsNode(h)}
    BY DEF CheckCerts, hostVars, runVars
  <1>2. /\ Has(First, Expected)' <=> Has(First, Expected)
        /\ \A S : Has(First, S)' <=> Has(First, S)
        /\ \A f : Exists(First, f)' <=> Exists(First, f)
        /\ \A kind, h : Whole(kind, h)' <=> Whole(kind, h)
        /\ Etcd' = Etcd /\ Kube' = Kube
    BY <1>1 DEF Has, Exists, Whole, Expected, Etcd, Kube
  <1>3. ~completed BY <1>1 DEF Decisions
  <1>4. Decisions'
    <2>1. \A h \in gen_node_certs' : NeedsNode(h)'
      BY <1>1, <1>2 DEF NeedsNode
    <2>2. \A h \in Etcd \ gen_master_certs' :
            ~force_etcd_cert_refresh /\ Has(First, Member(h))
      BY <1>1 DEF NeedsMember
    <2>3. \A h \in Kube \ gen_node_certs' :
            ~force_etcd_cert_refresh /\ Has(First, Pair("node", h))
      BY <1>1 DEF NeedsNode
    <2>4. gen_certs' = (force_etcd_cert_refresh' \/ ~Has(First, Expected)')
      BY <1>1, <1>2
    <2>. QED BY <1>1, <1>2, <1>3, <2>1, <2>2, <2>3, <2>4 DEF Decisions
  <1>5. Moved' BY <1>1 DEF Moved
  <1>6. Finished' BY <1>1, <1>2 DEF Finished
  <1>7. Ready' BY <1>1, <1>2, <1>3 DEF Ready, Reached, AfterScript
  <1>. QED BY <1>4, <1>5, <1>6, <1>7

\* A host with its last certificate misses nothing: the script makes none for it.
LEMMA NotRemade ==
  ASSUME TypeOK, Finished, ~force_etcd_cert_refresh, NEW h \in Host
  PROVE  /\ Exists(First, Crt("member", h)) => ~NeedsMember(h)
         /\ Exists(First, Crt("node", h)) => ~NeedsNode(h)
  <1>1. ASSUME NEW kind, Whole(kind, h) PROVE Has(First, Pair(kind, h))
    BY <1>1, PairParts DEF Whole, Has, Exists
  <1>2. Exists(First, Crt("member", h)) => Has(First, Member(h))
    BY <1>1 DEF Finished, Has, Member
  <1>3. Exists(First, Crt("node", h)) => Has(First, Pair("node", h))
    BY <1>1 DEF Finished
  <1>. QED BY <1>2, <1>3 DEF NeedsMember, NeedsNode

LEMMA MadeScript ==
  ASSUME TypeOK, MadeInv, Decided, RunScript PROVE MadeInv'
  <1> USE DEF MadeInv
  <1>1. /\ dir' = dir /\ pc = "script" /\ pc' = "move" /\ gen_certs
        /\ UNCHANGED <<inventory, force_etcd_cert_refresh, completed, play>>
        /\ UNCHANGED <<gen_certs, gen_master_certs, gen_node_certs>>
        /\ tmp' \in {NewFiles, NewFiles \cup {CA, CAKey}}
    BY DEF RunScript, ReuseCA, CreateCA, runVars, facts
  <1>2. /\ \A S : Has(First, S)' <=> Has(First, S)
        /\ \A f : Exists(First, f)' <=> Exists(First, f)
        /\ \A kind, h : Whole(kind, h)' <=> Whole(kind, h)
        /\ Etcd' = Etcd /\ Kube' = Kube /\ NewFiles' = NewFiles
    BY <1>1 DEF Has, Exists, Whole, Etcd, Kube, NewFiles
  <1>3. Decisions' BY <1>1, <1>2 DEF Decisions
  <1>4. Moved' BY <1>1, <1>2 DEF Moved
  <1>5. Finished'
    <2>1. ASSUME ~force_etcd_cert_refresh, NEW h \in Host, Exists(First, Crt("member", h))
          PROVE  tmp' \cap Member(h) = {}
      <3>1. h \notin gen_master_certs
        BY <1>1, <2>1, NotRemade DEF Decided
      <3>. QED BY <1>1, <3>1, NewOwner
    <2>2. ASSUME ~force_etcd_cert_refresh, NEW h \in Host, Exists(First, Crt("node", h))
          PROVE  tmp' \cap Pair("node", h) = {}
      <3>1. h \notin gen_node_certs
        BY <1>1, <2>2, NotRemade DEF Decisions
      <3>. QED BY <1>1, <3>1, NewOwner
    <2>. QED BY <1>1, <1>2, <2>1, <2>2 DEF Finished
  <1>6. Ready'
    <2>1. force_etcd_cert_refresh \/ ~Has(First, Expected)
      BY <1>1 DEF Decisions
    <2>2. ~completed BY <1>1 DEF Decisions
    <2>3. play = 2 => force_etcd_cert_refresh
      BY <2>1 DEF Ready
    <2>. QED BY <1>1, <2>2, <2>3 DEF Ready, Reached, AfterScript
  <1>. QED BY <1>3, <1>4, <1>5, <1>6

\* Where nothing is missing every pair is whole.
LEMMA WholeIfExpected ==
  ASSUME TypeOK, Finished, ~force_etcd_cert_refresh
  PROVE  /\ \A h \in Etcd : Has(First, Member(h)) => Whole("admin", h) /\ Whole("member", h)
         /\ \A h \in Kube : Has(First, Pair("node", h)) => Whole("node", h)
  <1>1. \A h \in Host : Crt("member", h) \in Member(h) /\ Crt("node", h) \in Pair("node", h)
    BY PairParts DEF Member
  <1>. QED BY <1>1, Groups DEF Finished, Has

LEMMA MadeSkip ==
  ASSUME TypeOK, MadeInv, SkipScript PROVE MadeInv'
  <1> USE DEF MadeInv
  <1>1. /\ dir' = dir /\ pc = "script" /\ pc' = "gather_members" /\ ~gen_certs
        /\ UNCHANGED <<inventory, force_etcd_cert_refresh, completed, play>>
    BY DEF SkipScript, hostVars, runVars
  <1>2. /\ Has(First, Expected)' <=> Has(First, Expected)
        /\ \A f : Exists(First, f)' <=> Exists(First, f)
        /\ \A kind, h : Whole(kind, h)' <=> Whole(kind, h)
        /\ Etcd' = Etcd /\ Kube' = Kube
    BY <1>1 DEF Has, Exists, Whole, Expected, Etcd, Kube
  <1>3. ~completed /\ ~force_etcd_cert_refresh /\ Has(First, Expected)
    BY <1>1 DEF Decisions, TypeOK
  <1>4. /\ \A h \in Etcd : Has(First, Member(h))
        /\ \A h \in Kube : Has(First, Pair("node", h))
    BY <1>3 DEF Has, Expected, MemberFiles, NodeFiles
  <1>5. /\ \A h \in Etcd : Whole("admin", h) /\ Whole("member", h)
        /\ \A h \in Kube : Whole("node", h)
    BY <1>3, <1>4, WholeIfExpected
  <1>6. Decisions' /\ Moved' BY <1>1, <1>3 DEF Decisions, Moved
  <1>7. Finished' BY <1>1, <1>2 DEF Finished
  <1>8. Ready' BY <1>1, <1>2, <1>3, <1>5 DEF Ready
  <1>. QED BY <1>6, <1>7, <1>8

\* The move of one file: what it means for the pairs, ...
LEMMA MoveFacts ==
  ASSUME TypeOK, MadeInv, Moving, MoveFile
  PROVE  /\ \A g \in NewFiles \ tmp' : dir'[First][g] = made
         /\ ~force_etcd_cert_refresh =>
              \A h \in Host :
                /\ Exists(First, Crt("member", h))' =>
                     Whole("admin", h)' /\ Whole("member", h)' /\ tmp' \cap Member(h) = {}
                /\ Exists(First, Crt("node", h))' =>
                     Whole("node", h)' /\ tmp' \cap Pair("node", h) = {}
         /\ \A g \in File : Exists(First, g) => Exists(First, g)'
         /\ tmp' \subseteq tmp /\ tmp' \subseteq NewFiles \cup {CA, CAKey}
         /\ tmp' = {} => HasCA'
         /\ made # NoFile
  <1> USE DEF MadeInv
  <1>1. PICK f \in tmp : /\ \A g \in tmp : ~MovedBefore(g, f)
                         /\ dir' = [dir EXCEPT ![First][f] = made]
                         /\ tmp' = tmp \ {f}
    BY DEF MoveFile
  <1>2. f \in File /\ tmp \in SUBSET File BY DEF TypeOK
  <1>3. pc = "move" BY DEF MoveFile
  <1>4. made # NoFile BY <1>3 DEF Moving, NoFile
  <1>5. /\ dir'[First][f] = made
        /\ \A g \in File : g # f => dir'[First][g] = dir[First][g]
    BY <1>1, <1>2, CertsAssumption DEF TypeOK
  <1>6. tmp \subseteq NewFiles \cup {CA, CAKey} /\ \A g \in NewFiles \ tmp : dir[First][g] = made
    BY <1>3 DEF Moved
  <1>7. NewFiles \subseteq File
    <2>1. gen_master_certs \subseteq Host /\ gen_node_certs \subseteq Host
      BY DEF TypeOK
    <2>. QED BY <2>1, PairFiles DEF NewFiles, MemberFiles, NodeFiles, Member
  <1>8. \A g \in NewFiles \ tmp' : dir'[First][g] = made
    BY <1>1, <1>5, <1>6, <1>7
  <1>9. \A g \in File : Exists(First, g) => Exists(First, g)'
    BY <1>4, <1>5 DEF Exists
  <1>10. ASSUME ~force_etcd_cert_refresh, NEW h \in Host, Exists(First, Crt("member", h))'
         PROVE  Whole("admin", h)' /\ Whole("member", h)' /\ tmp' \cap Member(h) = {}
    <2>1. /\ Member(h) \subseteq File /\ Crt("member", h) \in Member(h)
          /\ Crt("admin", h) \in Member(h) /\ Key("admin", h) \in Member(h)
          /\ Key("member", h) \in Member(h)
      BY NewOwner, PairParts DEF Member
    <2>2. CASE f = Crt("member", h)
      <3>1. Member(h) \cap tmp = {f} BY <1>1, <1>2, <2>2, MovedLast
      <3>2. tmp' \cap Member(h) = {} BY <1>1, <3>1
      <3>3. f \in NewFiles BY <1>1, <1>6, <2>1, <2>2, NewOwner
      <3>4. h \in gen_master_certs BY <2>1, <2>2, <3>3, NewOwner
      <3>5. \A g \in Member(h) : dir'[First][g] = made
        BY <1>8, <3>2, <3>4, NewOwner
      <3>. QED BY <1>4, <2>1, <3>2, <3>5 DEF Whole, Exists
    <2>3. CASE f # Crt("member", h)
      <3>1. Exists(First, Crt("member", h)) BY <1>5, <1>10, <2>1, <2>3 DEF Exists
      <3>2. Whole("admin", h) /\ Whole("member", h) /\ tmp \cap Member(h) = {}
        BY <1>3, <1>10, <3>1 DEF Finished
      <3>3. \A g \in Member(h) : dir'[First][g] = dir[First][g]
        BY <1>5, <2>1, <3>2
      <3>. QED BY <1>1, <2>1, <3>2, <3>3 DEF Whole, Exists
    <2>. QED BY <2>2, <2>3
  <1>11. ASSUME ~force_etcd_cert_refresh, NEW h \in Host, Exists(First, Crt("node", h))'
         PROVE  Whole("node", h)' /\ tmp' \cap Pair("node", h) = {}
    <2>1. /\ Pair("node", h) \subseteq File /\ Crt("node", h) \in Pair("node", h)
          /\ Key("node", h) \in Pair("node", h)
      BY NewOwner, PairParts
    <2>2. CASE f = Crt("node", h)
      <3>1. Pair("node", h) \cap tmp = {f} BY <1>1, <1>2, <2>2, MovedLast
      <3>2. tmp' \cap Pair("node", h) = {} BY <1>1, <3>1
      <3>3. f \in NewFiles BY <1>1, <1>6, <2>1, <2>2, NewOwner
      <3>4. h \in gen_node_certs BY <2>1, <2>2, <3>3, NewOwner
      <3>5. \A g \in Pair("node", h) : dir'[First][g] = made
        BY <1>8, <3>2, <3>4, NewOwner
      <3>. QED BY <1>4, <2>1, <3>2, <3>5 DEF Whole, Exists
    <2>3. CASE f # Crt("node", h)
      <3>1. Exists(First, Crt("node", h)) BY <1>5, <1>11, <2>1, <2>3 DEF Exists
      <3>2. Whole("node", h) /\ tmp \cap Pair("node", h) = {}
        BY <1>3, <1>11, <3>1 DEF Finished
      <3>3. \A g \in Pair("node", h) : dir'[First][g] = dir[First][g]
        BY <1>5, <2>1, <3>2
      <3>. QED BY <1>1, <2>1, <3>2, <3>3 DEF Whole, Exists
    <2>. QED BY <2>2, <2>3
  <1>12. ASSUME tmp' = {} PROVE HasCA'
    <2>1. CASE HasCA BY <1>9, <2>1, CAFiles DEF HasCA
    <2>2. CASE ~HasCA
      <3>1. CA \in tmp BY <1>3, <2>2 DEF Moving
      <3>2. f = CA BY <1>1, <1>12, <3>1
      <3>. QED BY <1>4, <1>5, <3>2 DEF HasCA, Exists
    <2>. QED BY <2>1, <2>2
  <1>13. tmp' \subseteq tmp /\ tmp' \subseteq NewFiles \cup {CA, CAKey}
    BY <1>1, <1>6
  <1>. QED BY <1>4, <1>8, <1>9, <1>10, <1>11, <1>12, <1>13

\* ... and, after the last one, for what the run expects.
LEMMA MadeMove ==
  ASSUME TypeOK, MadeInv, Moving, MoveFile PROVE MadeInv'
  <1> USE DEF MadeInv
  <1>1. /\ pc = "move"
        /\ \/ pc' = "move"
           \/ pc' = "gather_members" /\ tmp' = {}
        /\ UNCHANGED <<inventory, force_etcd_cert_refresh, completed, play, made>>
        /\ UNCHANGED <<gen_certs, gen_master_certs, gen_node_certs>>
    BY DEF MoveFile, runVars, facts
  <1>2. Etcd' = Etcd /\ Kube' = Kube /\ NewFiles' = NewFiles /\ ~completed
    BY <1>1 DEF Etcd, Kube, NewFiles, Decisions
  <1>3. /\ \A h \in Etcd \ gen_master_certs : ~force_etcd_cert_refresh /\ Has(First, Member(h))
        /\ \A h \in Kube \ gen_node_certs : ~force_etcd_cert_refresh /\ Has(First, Pair("node", h))
    BY <1>1 DEF Decisions
  <1>4. ASSUME NEW S \in SUBSET File, Has(First, S) PROVE Has(First, S)'
    BY <1>4, MoveFacts DEF Has
  <1>5. /\ \A h \in Etcd \ gen_master_certs : Has(First, Member(h))'
        /\ \A h \in Kube \ gen_node_certs : Has(First, Pair("node", h))'
    BY <1>3, <1>4, Groups, NewOwner
  <1>6. Decisions' BY <1>1, <1>2, <1>3, <1>5 DEF Decisions
  <1>7. Moved' BY <1>1, <1>2, MoveFacts DEF Moved
  <1>8. Finished' BY <1>1, MoveFacts DEF Finished
  <1>9. ASSUME tmp' = {}
        PROVE  /\ \A h \in Etcd : /\ Has(First, Member(h))'
                                  /\ Whole("admin", h)' /\ Whole("member", h)'
               /\ \A h \in Kube : Has(First, Pair("node", h))' /\ Whole("node", h)'
    <2>1. ASSUME NEW h \in Etcd
          PROVE  Has(First, Member(h))' /\ Whole("admin", h)' /\ Whole("member", h)'
      <3>0. h \in Host /\ Crt("member", h) \in Member(h)
            /\ Crt("admin", h) \in Member(h) /\ Key("admin", h) \in Member(h)
            /\ Key("member", h) \in Member(h)
        BY Groups, PairParts DEF Member
      <3>1. CASE h \in gen_master_certs
        <4>1. \A g \in Member(h) : dir'[First][g] = made
          BY <1>9, <3>0, <3>1, NewOwner, MoveFacts
        <4>2. made # NoFile BY MoveFacts
        <4>. QED BY <3>0, <4>1, <4>2 DEF Has, Whole, Exists
      <3>2. CASE h \notin gen_master_certs
        <4>1. Has(First, Member(h))' /\ ~force_etcd_cert_refresh
          BY <1>3, <1>5, <3>2
        <4>2. Exists(First, Crt("member", h))'
          BY <3>0, <4>1 DEF Has
        <4>. QED BY <3>0, <4>1, <4>2, MoveFacts
      <3>. QED BY <3>1, <3>2
    <2>2. ASSUME NEW h \in Kube PROVE Has(First, Pair("node", h))' /\ Whole("node", h)'
      <3>0. h \in Host /\ Crt("node", h) \in Pair("node", h)
            /\ Key("node", h) \in Pair("node", h)
        BY Groups, PairParts
      <3>1. CASE h \in gen_node_certs
        <4>1. \A g \in Pair("node", h) : dir'[First][g] = made
          BY <1>9, <3>0, <3>1, NewOwner, MoveFacts
        <4>2. made # NoFile BY MoveFacts
        <4>. QED BY <3>0, <4>1, <4>2 DEF Has, Whole, Exists
      <3>2. CASE h \notin gen_node_certs
        <4>1. Has(First, Pair("node", h))' /\ ~force_etcd_cert_refresh
          BY <1>3, <1>5, <3>2
        <4>2. Exists(First, Crt("node", h))'
          BY <3>0, <4>1 DEF Has
        <4>. QED BY <3>0, <4>1, <4>2, MoveFacts
      <3>. QED BY <3>1, <3>2
    <2>. QED BY <2>1, <2>2
  <1>10. ASSUME tmp' = {} PROVE Has(First, Expected)'
    <2>1. \A f \in MemberFiles(Etcd) : Exists(First, f)'
      BY <1>9, <1>10 DEF MemberFiles, Has
    <2>2. \A f \in NodeFiles(Kube) : Exists(First, f)'
      BY <1>9, <1>10 DEF NodeFiles, Has
    <2>3. Exists(First, CA)' BY <1>10, MoveFacts DEF HasCA
    <2>4. Expected' = {CA} \cup MemberFiles(Etcd) \cup NodeFiles(Kube)
      BY <1>2 DEF Expected, MemberFiles, NodeFiles
    <2>. QED BY <2>1, <2>2, <2>3, <2>4 DEF Has
  <1>11. Ready'
    <2>1. play = 2 => force_etcd_cert_refresh BY <1>1 DEF Ready
    <2>. QED BY <1>1, <1>2, <1>9, <1>10, <2>1 DEF Ready, Reached, AfterScript
  <1>. QED BY <1>6, <1>7, <1>8, <1>11

LEMMA MadeInductive ==
  TypeOK /\ SignedInv /\ MadeInv /\ todo[First] = {} /\ [Next]_vars => MadeInv'
  <1> SUFFICES ASSUME TypeOK, SignedInv, MadeInv, todo[First] = {}, [Next]_vars
               PROVE  MadeInv'
    OBVIOUS
  <1> USE DEF MadeInv
  <1>1. CASE StartRun
    <2>1. /\ dir' = dir /\ pc' = "check" /\ play' = 1 /\ ~completed'
          /\ UNCHANGED force_etcd_cert_refresh
      BY <1>1 DEF StartRun, hostVars
    <2>2. /\ \A f : Exists(First, f)' <=> Exists(First, f)
          /\ \A kind, h : Whole(kind, h)' <=> Whole(kind, h)
      BY <2>1, SameFirst
    <2>3. Decisions' /\ Moved' BY <2>1 DEF Decisions, Moved
    <2>4. Finished' BY <2>1, <2>2 DEF Finished
    <2>5. Ready' BY <2>1 DEF Ready, Reached, AfterScript
    <2>. QED BY <2>3, <2>4, <2>5
  <1>2. CASE Interrupt
    <2>1. /\ dir' = dir /\ pc # "idle" /\ pc' = "idle"
          /\ UNCHANGED <<inventory, force_etcd_cert_refresh, completed, play>>
      BY <1>2 DEF Interrupt, hostVars, runVars
    <2>. QED BY <2>1, MadeFrame DEF AfterScript
  <1>3. CASE CheckCerts BY <1>3, MadeCheck
  <1>4. CASE RunScript BY <1>4, MadeScript DEF SignedInv
  <1>5. CASE SkipScript BY <1>5, MadeSkip
  <1>6. CASE MoveFile BY <1>6, MadeMove DEF SignedInv
  <1>7. ASSUME GatherMembers \/ GatherNodes \/ GatherTar \/ Copied \/ UpdateTrust \/ Configure
        PROVE  MadeInv'
    <2>1. /\ dir' = dir /\ pc \in AfterScript /\ pc' \in AfterScript
          /\ UNCHANGED <<inventory, force_etcd_cert_refresh, completed, play>>
      BY <1>7 DEF GatherMembers, GatherNodes, GatherTar, Gather, Copied, UpdateTrust,
                  Configure, hostVars, runVars, AfterScript
    <2>2. ~completed BY <2>1 DEF Decisions, AfterScript
    <2>. QED BY <2>1, <2>2, MadeFrame DEF AfterScript
  <1>8. ASSUME CopyFile \/ CopyTar PROVE MadeInv'
    <2>1. /\ dir'[First] = dir[First] /\ pc \in AfterScript /\ pc' = pc
          /\ UNCHANGED <<inventory, force_etcd_cert_refresh, completed, play>>
      BY <1>8, CertsAssumption DEF CopyFile, CopyTar, runVars, AfterScript, TypeOK
    <2>2. ~completed BY <2>1 DEF Decisions, AfterScript
    <2>. QED BY <2>1, <2>2, MadeFrame DEF AfterScript
  <1>9. CASE RunHandlers
    <2>1. /\ dir' = dir /\ pc = "handlers"
          /\ UNCHANGED <<inventory, force_etcd_cert_refresh>>
          /\ \/ pc' = "check" /\ UNCHANGED completed
             \/ pc' = "idle" /\ play = 2 /\ play' = 2
      BY <1>9 DEF RunHandlers, hostVars, TypeOK
    <2>2. ~completed BY <2>1 DEF Decisions
    <2>3. /\ Has(First, Expected)' <=> Has(First, Expected)
          /\ \A f : Exists(First, f)' <=> Exists(First, f)
          /\ \A kind, h : Whole(kind, h)' <=> Whole(kind, h)
          /\ Etcd' = Etcd /\ Kube' = Kube
      BY <2>1 DEF Has, Exists, Whole, Expected, Etcd, Kube
    <2>4. Decisions' /\ Moved' BY <2>1, <2>2 DEF Decisions, Moved
    <2>5. Finished' BY <2>1, <2>3 DEF Finished
    <2>6. Ready' BY <2>1, <2>3 DEF Ready, Reached, AfterScript
    <2>. QED BY <2>4, <2>5, <2>6
  <1>10. ASSUME EtcdRestarts \/ UNCHANGED vars PROVE MadeInv'
    <2>1. UNCHANGED <<dir, pc, inventory, force_etcd_cert_refresh, completed, play, tmp,
                      made, gen_certs, gen_master_certs, gen_node_certs>>
      BY <1>10 DEF EtcdRestarts, vars, hostVars, runVars, facts, taskVars
    <2>2. /\ \A S : Has(First, S)' <=> Has(First, S)
          /\ \A f : Exists(First, f)' <=> Exists(First, f)
          /\ \A kind, h : Whole(kind, h)' <=> Whole(kind, h)
      BY <2>1, SameFirst
    <2>3. /\ Expected' = Expected /\ Etcd' = Etcd /\ Kube' = Kube /\ NewFiles' = NewFiles
          /\ \A h : NeedsNode(h)' <=> NeedsNode(h)
      BY <2>1, <2>2 DEF Expected, Etcd, Kube, NewFiles, NeedsNode
    <2>4. Has(First, Expected)' <=> Has(First, Expected)
      BY <2>1, <2>3 DEF Has, Exists
    <2>5. Decisions' BY <2>1, <2>2, <2>3, <2>4 DEF Decisions
    <2>6. Moved' BY <2>1, <2>3 DEF Moved
    <2>7. Finished' BY <2>1, <2>2 DEF Finished
    <2>8. Ready' BY <2>1, <2>2, <2>3, <2>4 DEF Ready, Reached
    <2>. QED BY <2>5, <2>6, <2>7, <2>8
  <1>. QED
    BY <1>1, <1>2, <1>3, <1>4, <1>5, <1>6, <1>7, <1>8, <1>9, <1>10 DEF Next
-----------------------------------------------------------------------------
(* The other hosts.                                                         *)

\* The hosts of a play: the first one, other etcd hosts, and nodes.
LEMMA PlayGroups ==
  ASSUME TypeOK
  PROVE  /\ PlayHosts \subseteq Host /\ First \in Host /\ First \in Etcd
         /\ PlayHosts \subseteq {First} \cup OtherEtcd \cup NodeHosts
         /\ OtherEtcd \subseteq PlayHosts \ {First} /\ OtherEtcd \subseteq Etcd
         /\ NodeHosts \subseteq PlayHosts \ {First} /\ NodeHosts \subseteq Kube
         /\ NodeHosts \cap Etcd = {}
         /\ play = 1 => PlayHosts = Etcd
         /\ play = 2 => PlayHosts \subseteq Kube
  <1>1. inventory \in Inventories /\ play \in {1, 2} /\ playbook \in {"cluster", "scale"}
    BY DEF TypeOK
  <1>2. inventory.kube_node \subseteq Kube
    BY <1>1, CertsAssumption DEF Kube
  <1>3. play = 1 => PlayHosts = Etcd BY DEF PlayHosts
  <1>4. play = 2 => PlayHosts \subseteq Kube
    <2>1. CASE play = 2 /\ playbook = "cluster" BY <2>1 DEF PlayHosts
    <2>2. CASE play = 2 /\ playbook = "scale" BY <1>2, <2>2 DEF PlayHosts
    <2>. QED BY <1>1, <2>1, <2>2
  <1>5. PlayHosts \subseteq Etcd \cup Kube BY <1>1, <1>3, <1>4
  <1>. QED BY <1>3, <1>4, <1>5, Groups, CertsAssumption DEF OtherEtcd, NodeHosts

\* The same groups, while the run is in the same play.
LEMMA SamePlay ==
  ASSUME UNCHANGED <<inventory, playbook, play>>
  PROVE  /\ Etcd' = Etcd /\ Kube' = Kube /\ PlayHosts' = PlayHosts
         /\ OtherEtcd' = OtherEtcd /\ NodeHosts' = NodeHosts
         /\ \A h : Used(h)' = Used(h)
  BY DEF Etcd, Kube, PlayHosts, OtherEtcd, NodeHosts, Used

\* What is said of copies stays when the files stay.
LEMMA SameFiles ==
  ASSUME dir' = dir
  PROVE  /\ \A h, S : Equal(h, S)' <=> Equal(h, S)
         /\ \A h, f : Exists(h, f)' <=> Exists(h, f)
         /\ \A h, kind : Usable(h, kind)' <=> Usable(h, kind)
         /\ HasCA' <=> HasCA
  BY DEF Equal, Exists, Usable, HasCA

\* Steps between tasks that leave files and trust stores alone.
LEMMA CopyFrame ==
  ASSUME CopyInv, UNCHANGED <<dir, trust, inventory, force_etcd_cert_refresh, playbook, play>>,
         ~completed', pc' \notin {"copy_members", "copy_nodes", "copy_tar"},
         todo' = [h \in Host |-> {}] \/ (todo' = todo /\ pc \notin {"copy_members", "copy_nodes", "copy_tar"}),
         pc' \in {"script", "move", "gather_members"} =>
           /\ pc \in {"script", "move", "gather_members"}
           /\ UNCHANGED <<sync_certs, gen_master_certs>>
           /\ pc' # "gather_members" => pc # "gather_members",
         pc' \in AfterMembers => pc \in AfterMembers,
         pc' \in AfterNodes => pc \in AfterNodes,
         pc' \in AfterTar => pc \in AfterTar,
         pc' \in {"configure", "handlers"} => pc \in {"configure", "handlers"}
  PROVE  CopyInv'
  <1> USE DEF CopyInv
  <1>1. /\ \A h, S : Equal(h, S)' <=> Equal(h, S)
        /\ \A h, f : Exists(h, f)' <=> Exists(h, f)
        /\ \A h, kind : Usable(h, kind)' <=> Usable(h, kind)
        /\ HasCA' <=> HasCA
    BY SameFiles
  <1>2. /\ Etcd' = Etcd /\ Kube' = Kube /\ PlayHosts' = PlayHosts
        /\ OtherEtcd' = OtherEtcd /\ NodeHosts' = NodeHosts
        /\ \A h : Used(h)' = Used(h)
    BY SamePlay
  <1>3. \A h : Equal(h, Used(h))' <=> Equal(h, Used(h))
    BY <1>2 DEF Equal
  <1>4. Unsynced' BY <1>1, <1>2 DEF Unsynced
  <1>5. Copies'
    <2>1. \A h \in Host : todo'[h] = {}
      BY DEF Copies
    <2>. QED BY <1>1, <1>2, <2>1 DEF Copies, Reached
  <1>6. FirstPlay' BY <1>1, <1>2, <1>3 DEF FirstPlay
  <1>7. Trusted' BY <1>1, <1>2 DEF Trusted, Reached
  <1>. QED BY <1>4, <1>5, <1>6, <1>7

LEMMA CopyCheck ==
  ASSUME TypeOK, MadeInv, CopyInv, CheckCerts PROVE CopyInv'
  <1> USE DEF CopyInv
  <1>1. /\ pc = "check" /\ pc' = "script"
        /\ UNCHANGED <<dir, trust, inventory, force_etcd_cert_refresh, playbook, play, completed, todo>>
        /\ gen_master_certs' = {h \in Etcd : NeedsMember(h)}
        /\ sync_certs' = {h \in PlayHosts : h \in requires_sync' \/ Regenerated(h)}
        /\ requires_sync' = requires_sync \cup {h \in PlayHosts : Differs(h)}
    BY DEF CheckCerts, hostVars, runVars, taskVars
  <1>2. /\ \A h, S : Equal(h, S)' <=> Equal(h, S)
        /\ \A h, f : Exists(h, f)' <=> Exists(h, f)
        /\ \A h, kind : Usable(h, kind)' <=> Usable(h, kind)
        /\ HasCA' <=> HasCA
    BY <1>1, SameFiles
  <1>3. /\ Etcd' = Etcd /\ Kube' = Kube /\ PlayHosts' = PlayHosts
        /\ OtherEtcd' = OtherEtcd /\ NodeHosts' = NodeHosts
        /\ \A h : Used(h)' = Used(h)
    BY <1>1, SamePlay
  <1>4. \A h : Equal(h, Used(h))' <=> Equal(h, Used(h))
    BY <1>1, <1>3 DEF Equal
  <1>5. ~completed BY <1>1 DEF MadeInv, Decisions
  <1>6. Unsynced'
    <2>1. ASSUME NEW h \in (PlayHosts \cap Etcd) \ sync_certs'
          PROVE  Exists(h, CA) /\ Equal(h, MemberOwn(h)) /\ h \notin gen_master_certs'
      <3>1. ~Differs(h) /\ ~Regenerated(h) BY <1>1, <2>1
      <3>2. Own(h) = MemberOwn(h) BY <2>1 DEF Own, MemberOwn
      <3>3. \A f \in MemberOwn(h) : Exists(h, f) /\ dir[h][f] = dir[First][f]
        BY <3>1, <3>2 DEF Differs
      <3>4. CA \in MemberOwn(h) BY DEF MemberOwn
      <3>5. ~NeedsMember(h) BY <2>1, <3>1 DEF Regenerated
      <3>. QED BY <1>1, <3>3, <3>4, <3>5 DEF Equal
    <2>. QED BY <1>1, <1>2, <1>3, <2>1 DEF Unsynced
  <1>7. Copies' BY <1>1, <1>3, <1>5 DEF Copies, Reached, AfterMembers, AfterNodes, AfterTar, AfterScript
  <1>8. FirstPlay' BY <1>1, <1>2, <1>3, <1>4 DEF FirstPlay
  <1>9. Trusted' BY <1>1, <1>5 DEF Trusted, Reached
  <1>. QED BY <1>6, <1>7, <1>8, <1>9

\* The script leaves alone what is not to be copied, and the CA there is.
LEMMA CopyMove ==
  ASSUME TypeOK, SignedInv, MadeInv, CopyInv, MoveFile PROVE CopyInv'
  <1> USE DEF CopyInv
  <1>1. /\ pc = "move" /\ pc' \in {"move", "gather_members"}
        /\ UNCHANGED <<trust, inventory, force_etcd_cert_refresh, playbook, play, completed, todo>>
        /\ UNCHANGED <<sync_certs, gen_master_certs>>
    BY DEF MoveFile, runVars, facts
  <1>2. PICK f \in tmp : dir' = [dir EXCEPT ![First][f] = made]
    BY DEF MoveFile
  <1>3. f \in File /\ f \in NewFiles \cup {CA, CAKey} /\ First \in Host
    BY <1>1, <1>2, CertsAssumption DEF TypeOK, MadeInv, Moved
  <1>4. /\ \A g \in File : g # f => dir'[First][g] = dir[First][g]
        /\ \A h \in Host : h # First => dir'[h] = dir[h]
    BY <1>2, <1>3 DEF TypeOK
  <1>5. HasCA => f \notin {CA, CAKey} /\ dir'[First][CA] = dir[First][CA]
    BY <1>1, <1>2, <1>4, CAFiles DEF SignedInv, Moving
  <1>6. /\ Etcd' = Etcd /\ Kube' = Kube /\ PlayHosts' = PlayHosts
        /\ OtherEtcd' = OtherEtcd /\ NodeHosts' = NodeHosts
    BY <1>1, SamePlay
  <1>7. ~completed BY <1>1 DEF MadeInv, Decisions
  <1>8. HasCA => HasCA' BY <1>5 DEF HasCA, Exists
  <1>9. Unsynced'
    <2>1. ASSUME NEW h \in (PlayHosts \cap Etcd) \ sync_certs
          PROVE  Exists(h, CA)' /\ Equal(h, MemberOwn(h))' /\ h \notin gen_master_certs
      <3>1. Exists(h, CA) /\ Equal(h, MemberOwn(h)) /\ h \notin gen_master_certs /\ h \in Host
        BY <1>1, <2>1, PlayGroups DEF Unsynced
      <3>2. HasCA
        BY <3>1, CAFiles DEF SignedInv, OthersSigned, HasCA
      <3>3. f \notin MemberOwn(h) /\ MemberOwn(h) \subseteq File
        BY <1>3, <1>5, <3>1, <3>2, NewOwner, CAFiles DEF MemberOwn
      <3>4. \A g \in MemberOwn(h) : dir'[First][g] = dir[First][g] /\ dir'[h][g] = dir[h][g]
        BY <1>4, <3>1, <3>3
      <3>5. CA \in MemberOwn(h) BY DEF MemberOwn
      <3>. QED BY <3>1, <3>4, <3>5 DEF Equal, Exists
    <2>. QED BY <1>1, <1>6, <2>1 DEF Unsynced
  <1>10. Copies'
    BY <1>1, <1>6, <1>7 DEF Copies, Reached, AfterMembers, AfterNodes, AfterTar, AfterScript
  <1>11. FirstPlay'
    <2>1. play = 2 => force_etcd_cert_refresh
      BY <1>1 DEF MadeInv, Ready
    <2>2. ASSUME NEW h \in Etcd \ (PlayHosts \cup {First}), NEW kind, Usable(h, kind)
          PROVE  Usable(h, kind)'
      <3>1. h \in Host BY Groups
      <3>. QED BY <1>4, <2>2, <3>1 DEF Usable, Exists
    <2>3. play = 2 => \A h \in Etcd : trust'[h] = dir'[First][CA]
      BY <1>1, <1>5 DEF FirstPlay
    <2>. QED BY <1>1, <1>6, <1>8, <2>1, <2>2, <2>3 DEF FirstPlay
  <1>12. Trusted' BY <1>1, <1>7 DEF Trusted, Reached
  <1>. QED BY <1>9, <1>10, <1>11, <1>12

\* The tasks of copies: what is unchanged by all of them.
CopyTasks == {"copy_members", "copy_nodes", "copy_tar"}
LEMMA CopyParts ==
  ASSUME TypeOK, CopyInv, pc \in AfterScript, ~completed', pc' \in AfterScript \ {"gather_members"},
         UNCHANGED <<dir, trust, inventory, force_etcd_cert_refresh, playbook, play>>,
         Copies', Trusted'
  PROVE  CopyInv'
  <1>1. /\ \A h, S : Equal(h, S)' <=> Equal(h, S)
        /\ \A h, kind : Usable(h, kind)' <=> Usable(h, kind)
        /\ HasCA' <=> HasCA
    BY SameFiles
  <1>2. Etcd' = Etcd /\ PlayHosts' = PlayHosts /\ \A h : Used(h)' = Used(h)
    BY SamePlay
  <1>3. \A h : Equal(h, Used(h))' <=> Equal(h, Used(h))
    BY <1>2 DEF Equal
  <1>4. FirstPlay' BY <1>1, <1>2, <1>3 DEF CopyInv, FirstPlay
  <1>5. Unsynced' BY DEF Unsynced, AfterScript
  <1>. QED BY <1>4, <1>5 DEF CopyInv

LEMMA CopyGather ==
  ASSUME TypeOK, MadeInv, CopyInv, GatherMembers \/ GatherNodes \/ GatherTar
  PROVE  CopyInv'
  <1> USE DEF CopyInv
  <1>1. /\ UNCHANGED <<dir, trust, inventory, force_etcd_cert_refresh, playbook, play, completed>>
        /\ pc \in {"gather_members", "gather_nodes", "gather_tar"} /\ pc' \in CopyTasks
        /\ \/ pc = "gather_members" /\ pc' = "copy_members" /\ todo' = MemberItems
           \/ pc = "gather_nodes" /\ pc' = "copy_nodes" /\ todo' = NodeItems
           \/ pc = "gather_tar" /\ pc' = "copy_tar" /\ todo' = NodeTar
    BY DEF GatherMembers, GatherNodes, GatherTar, Gather, hostVars, runVars, CopyTasks
  <1>2. /\ \A h, S : Equal(h, S)' <=> Equal(h, S)
    BY <1>1, SameFiles
  <1>3. /\ Etcd' = Etcd /\ Kube' = Kube /\ PlayHosts' = PlayHosts
        /\ OtherEtcd' = OtherEtcd /\ NodeHosts' = NodeHosts
    BY <1>1, SamePlay
  <1>4. ~completed BY <1>1 DEF MadeInv, Decisions
  <1>5. ASSUME NEW h \in Host, todo'[h] # {} PROVE h \in PlayHosts \ {First}
    BY <1>1, <1>5, PlayGroups DEF MemberItems, NodeItems, NodeTar
  <1>6. ASSUME NEW h \in OtherEtcd, pc' = "copy_members"
        PROVE  \A f \in MemberOwn(h) \ todo'[h] : dir[h][f] = dir[First][f]
    <2>1. h \in Host /\ h \in Etcd /\ h \in PlayHosts BY PlayGroups
    <2>2. CASE h \in sync_certs
      <3>1. todo'[h] = {CA, CAKey} \cup MemberFiles(Etcd)
        BY <1>1, <1>6, <2>1, <2>2 DEF MemberItems
      <3>2. MemberOwn(h) \subseteq todo'[h]
        BY <2>1, <3>1 DEF MemberOwn, MemberFiles
      <3>. QED BY <3>2 DEF Equal
    <2>3. CASE h \notin sync_certs
      <3>1. Equal(h, MemberOwn(h)) BY <1>1, <1>6, <2>1, <2>3 DEF Unsynced
      <3>. QED BY <3>1 DEF Equal
    <2>. QED BY <2>2, <2>3
  <1>7. ASSUME NEW h \in OtherEtcd \cap Kube, pc' = "copy_nodes"
        PROVE  \A f \in Pair("node", h) \ todo'[h] : dir[h][f] = dir[First][f]
    <2>1. todo'[h] = NodeFiles(Kube) /\ h \in Kube
      BY <1>1, <1>7, PlayGroups DEF NodeItems
    <2>2. Pair("node", h) \subseteq todo'[h] BY <2>1 DEF NodeFiles
    <2>. QED BY <2>2 DEF Equal
  <1>8. ASSUME NEW h \in NodeHosts, pc' = "copy_tar"
        PROVE  \A f \in NodeOwn(h) \ todo'[h] : dir[h][f] = dir[First][f]
    <2>1. NodeOwn(h) = todo'[h]
      BY <1>1, <1>8, PlayGroups DEF NodeTar, NodeOwn
    <2>. QED BY <2>1 DEF Equal
  <1>9. Copies'
    <2>1. /\ \A h \in OtherEtcd : pc' = "copy_members" => Equal(h, MemberOwn(h) \ todo[h])'
          /\ \A h \in OtherEtcd \cap Kube : pc' = "copy_nodes" => Equal(h, Pair("node", h) \ todo[h])'
          /\ \A h \in NodeHosts : pc' = "copy_tar" => Equal(h, NodeOwn(h) \ todo[h])'
      BY <1>1, <1>6, <1>7, <1>8 DEF Equal
    <2>2. /\ pc' \in AfterMembers => pc \in AfterMembers
          /\ pc' \in AfterNodes => pc \in AfterNodes
          /\ pc' \notin AfterTar
      BY <1>1 DEF AfterMembers, AfterNodes, AfterTar, AfterScript
    <2>. QED BY <1>1, <1>2, <1>3, <1>4, <1>5, <2>1, <2>2 DEF Copies, Reached, CopyTasks
  <1>10. Trusted' BY <1>1, <1>4 DEF Trusted, Reached
  <1>11. pc \in AfterScript /\ pc' \in AfterScript \ {"gather_members"}
    BY <1>1 DEF AfterScript
  <1>. QED BY <1>1, <1>4, <1>9, <1>10, <1>11, CopyParts

LEMMA CopyCopied ==
  ASSUME TypeOK, MadeInv, CopyInv, Copied PROVE CopyInv'
  <1> USE DEF CopyInv
  <1>1. /\ UNCHANGED <<dir, trust, inventory, force_etcd_cert_refresh, playbook, play, completed, todo>>
        /\ \A h \in Host : todo[h] = {}
        /\ \/ pc = "copy_members" /\ pc' = "gather_nodes"
           \/ pc = "copy_nodes" /\ pc' = "gather_tar"
           \/ pc = "copy_tar" /\ pc' = "trust"
    BY DEF Copied, hostVars, runVars, taskVars
  <1>2. /\ \A h, S : Equal(h, S)' <=> Equal(h, S)
    BY <1>1, SameFiles
  <1>3. /\ Etcd' = Etcd /\ Kube' = Kube /\ PlayHosts' = PlayHosts
        /\ OtherEtcd' = OtherEtcd /\ NodeHosts' = NodeHosts
    BY <1>1, SamePlay
  <1>4. ~completed BY <1>1 DEF MadeInv, Decisions
  <1>5. /\ \A h \in OtherEtcd : MemberOwn(h) \ todo[h] = MemberOwn(h)
        /\ \A h \in OtherEtcd : Pair("node", h) \ todo[h] = Pair("node", h)
        /\ \A h \in NodeHosts : NodeOwn(h) \ todo[h] = NodeOwn(h)
    BY <1>1, PlayGroups
  <1>6. /\ pc = "copy_members" => \A h \in OtherEtcd : Equal(h, MemberOwn(h))
        /\ pc = "copy_nodes" => \A h \in OtherEtcd \cap Kube : Equal(h, Pair("node", h))
        /\ pc = "copy_tar" => \A h \in NodeHosts : Equal(h, NodeOwn(h))
    BY <1>5 DEF Copies
  <1>7. /\ pc' \in AfterMembers => pc = "copy_members" \/ pc \in AfterMembers
        /\ pc' \in AfterNodes => pc = "copy_nodes" \/ pc \in AfterNodes
        /\ pc' \in AfterTar => pc = "copy_tar"
        /\ pc' \notin CopyTasks
    BY <1>1 DEF AfterMembers, AfterNodes, AfterTar, AfterScript, CopyTasks
  <1>8. Copies'
    BY <1>1, <1>2, <1>3, <1>4, <1>6, <1>7 DEF Copies, Reached, CopyTasks
  <1>9. Trusted' BY <1>1, <1>4 DEF Trusted, Reached
  <1>10. pc \in AfterScript /\ pc' \in AfterScript \ {"gather_members"}
    BY <1>1 DEF AfterScript
  <1>. QED BY <1>1, <1>4, <1>8, <1>9, <1>10, CopyParts

\* A copy only brings what the first host has.
LEMMA CopyStep ==
  ASSUME TypeOK, SignedInv, MadeInv, CopyInv, CopyFile \/ CopyTar
  PROVE  CopyInv'
  <1> USE DEF CopyInv
  <1>1. /\ UNCHANGED <<trust, inventory, force_etcd_cert_refresh, playbook, play, completed, pc>>
        /\ pc \in CopyTasks
    BY DEF CopyFile, CopyTar, runVars, CopyTasks
  <1>2. PICK g \in Host, S \in SUBSET File :
          /\ S \subseteq todo[g] /\ todo[g] # {}
          /\ dir' = [dir EXCEPT ![g] = [f \in File |-> IF f \in S THEN dir[First][f] ELSE dir[g][f]]]
          /\ todo' = [todo EXCEPT ![g] = @ \ S]
    <2>1. CASE CopyFile
      <3>1. PICK h \in Host, f \in File :
              /\ f \in todo[h]
              /\ dir' = [dir EXCEPT ![h][f] = dir[First][f]]
              /\ todo' = [todo EXCEPT ![h] = @ \ {f}]
        BY <2>1 DEF CopyFile
      <3>2. [dir[h] EXCEPT ![f] = dir[First][f]]
              = [e \in File |-> IF e \in {f} THEN dir[First][e] ELSE dir[h][e]]
        BY <3>1 DEF TypeOK
      <3>3. dir' = [dir EXCEPT ![h] = [e \in File |-> IF e \in {f} THEN dir[First][e] ELSE dir[h][e]]]
        BY <3>1, <3>2
      <3>. QED BY <3>1, <3>3
    <2>2. CASE CopyTar
      <3>1. PICK h \in Host :
              /\ todo[h] # {}
              /\ dir' = [dir EXCEPT ![h] = [f \in File |->
                           IF f \in todo[h] THEN dir[First][f] ELSE @[f]]]
              /\ todo' = [todo EXCEPT ![h] = {}]
        BY <2>2 DEF CopyTar
      <3>2. todo[h] \in SUBSET File /\ todo[h] \ todo[h] = {}
        BY DEF TypeOK
      <3>3. dir' = [dir EXCEPT ![h] = [f \in File |-> IF f \in todo[h] THEN dir[First][f] ELSE dir[h][f]]]
        BY <3>1
      <3>4. todo' = [todo EXCEPT ![h] = @ \ todo[h]]
        BY <3>1, <3>2
      <3>. QED BY <3>1, <3>2, <3>3, <3>4
    <2>. QED BY <2>1, <2>2
  <1>3. g \in PlayHosts \ {First} /\ First \in Host
    BY <1>2, CertsAssumption DEF Copies
  <1>4. /\ dir'[First] = dir[First]
        /\ \A h \in Host \ PlayHosts : dir'[h] = dir[h]
        /\ \A h \in Host, f \in File :
             /\ dir'[h][f] = dir[h][f] \/ dir'[h][f] = dir[First][f]
             /\ f \in todo[h] => f \in todo'[h] \/ dir'[h][f] = dir[First][f]
        /\ \A h \in Host : todo'[h] \subseteq todo[h]
    BY <1>2, <1>3 DEF TypeOK
  <1>5. HasCA' <=> HasCA BY <1>4 DEF HasCA, Exists
  <1>6. /\ Etcd' = Etcd /\ Kube' = Kube /\ PlayHosts' = PlayHosts
        /\ OtherEtcd' = OtherEtcd /\ NodeHosts' = NodeHosts
        /\ \A h : Used(h)' = Used(h)
    BY <1>1, SamePlay
  <1>7. ASSUME NEW h \in Host, NEW T \in SUBSET File
        PROVE  /\ Equal(h, T) => Equal(h, T)'
               /\ Equal(h, T \ todo[h]) => Equal(h, T \ todo[h])'
    BY <1>4 DEF Equal
  <1>8. ~completed BY <1>1 DEF MadeInv, Decisions, CopyTasks
  <1>9. /\ \A h \in Host : MemberOwn(h) \subseteq File /\ NodeOwn(h) \subseteq File
        /\ \A h \in Host : Pair("node", h) \subseteq File
        /\ \A h \in Host : Used(h) \subseteq File
    BY NewOwner, CAFiles DEF MemberOwn, NodeOwn, Used
  <1>10. OtherEtcd \subseteq Host /\ NodeHosts \subseteq Host /\ Etcd \subseteq Host
    BY PlayGroups, Groups
  <1>11. Copies'
    <2>1. pc = "copy_members" => \A h \in OtherEtcd : Equal(h, MemberOwn(h) \ todo[h])'
      BY <1>7, <1>9, <1>10 DEF Copies
    <2>2. pc \in AfterMembers => \A h \in OtherEtcd : Equal(h, MemberOwn(h))'
      BY <1>7, <1>9, <1>10 DEF Copies, Reached
    <2>3. pc = "copy_nodes" => \A h \in OtherEtcd \cap Kube : Equal(h, Pair("node", h) \ todo[h])'
      BY <1>7, <1>9, <1>10 DEF Copies
    <2>4. pc \in AfterNodes => \A h \in OtherEtcd \cap Kube : Equal(h, Pair("node", h))'
      BY <1>7, <1>9, <1>10 DEF Copies, Reached
    <2>5. pc = "copy_tar" => \A h \in NodeHosts : Equal(h, NodeOwn(h) \ todo[h])'
      BY <1>7, <1>9, <1>10 DEF Copies
    <2>6. pc \notin AfterTar
      BY <1>1 DEF AfterTar, AfterNodes, AfterMembers, AfterScript, CopyTasks
    <2>7. \A h \in Host : todo'[h] # {} => h \in PlayHosts \ {First}
      BY <1>4 DEF Copies
    <2>. QED BY <1>1, <1>6, <1>8, <2>1, <2>2, <2>3, <2>4, <2>5, <2>6, <2>7
         DEF Copies, Reached, CopyTasks
  <1>12. FirstPlay'
    <2>1. ASSUME NEW h \in Etcd \ (PlayHosts \cup {First}), NEW kind, Usable(h, kind)
          PROVE  Usable(h, kind)'
      BY <1>4, <1>10, <2>1 DEF Usable, Exists
    <2>2. ASSUME NEW h \in Etcd, Equal(h, Used(h)) PROVE Equal(h, Used(h))'
      <3>1. Equal(h, Used(h)) => (\A f \in Used(h) : dir'[h][f] = dir'[First][f])
        BY <1>4, <1>9, <1>10 DEF Equal
      <3>. QED BY <1>6, <2>2, <3>1 DEF Equal
    <2>. QED BY <1>1, <1>4, <1>5, <1>6, <2>1, <2>2 DEF FirstPlay
  <1>13. Unsynced' /\ Trusted'
    BY <1>1, <1>8 DEF Unsynced, Trusted, Reached, CopyTasks
  <1>. QED BY <1>11, <1>12, <1>13

\* After the copies each host of the play has the files it owns.
LEMMA CopiedAll ==
  ASSUME TypeOK, MadeInv, CopyInv, Reached(AfterTar)
  PROVE  /\ HasCA /\ \A h \in PlayHosts : dir[h][CA] = dir[First][CA]
         /\ \A h \in PlayHosts \cap Etcd : Equal(h, MemberOwn(h))
         /\ \A h \in PlayHosts \cap Kube : Equal(h, NodeOwn(h))
         /\ \A h \in PlayHosts : Equal(h, Used(h))
  <1>1. Reached(AfterScript) /\ Reached(AfterMembers) /\ Reached(AfterNodes)
    BY DEF Reached, AfterTar, AfterNodes, AfterMembers, AfterScript
  <1>2. HasCA
    BY <1>1 DEF MadeInv, Ready, HasCA, Has, Expected
  <1>3. /\ \A h \in OtherEtcd : Equal(h, MemberOwn(h))
        /\ \A h \in OtherEtcd \cap Kube : Equal(h, Pair("node", h))
        /\ \A h \in NodeHosts : Equal(h, NodeOwn(h))
    BY <1>1 DEF CopyInv, Copies
  <1>4. ASSUME NEW h \in PlayHosts
        PROVE  /\ dir[h][CA] = dir[First][CA]
               /\ h \in Etcd => Equal(h, MemberOwn(h))
               /\ h \in Kube => Equal(h, NodeOwn(h))
    <2>1. CASE h = First BY <2>1 DEF Equal
    <2>2. CASE h \in OtherEtcd
      <3>1. CA \in MemberOwn(h) BY DEF MemberOwn
      <3>2. dir[h][CA] = dir[First][CA] BY <1>3, <2>2, <3>1 DEF Equal
      <3>3. h \in Kube => Equal(h, NodeOwn(h))
        BY <1>3, <2>2, <3>2 DEF NodeOwn, Equal
      <3>. QED BY <1>3, <2>2, <3>2, <3>3
    <2>3. CASE h \in NodeHosts
      <3>1. CA \in NodeOwn(h) BY DEF NodeOwn
      <3>2. dir[h][CA] = dir[First][CA] BY <1>3, <2>3, <3>1 DEF Equal
      <3>. QED BY <1>3, <2>3, <3>2, PlayGroups
    <2>. QED BY <2>1, <2>2, <2>3, PlayGroups
  <1>5. ASSUME NEW h \in PlayHosts PROVE Equal(h, Used(h))
    BY <1>4 DEF Equal, Used, MemberOwn, NodeOwn
  <1>. QED BY <1>2, <1>4, <1>5

\* A copy of a pair that belongs together is of use.
LEMMA EqualUsable ==
  ASSUME SignedInv, NEW kind, NEW h \in Host, Pair(kind, h) \subseteq File, HasCA,
         dir[h][CA] = dir[First][CA], Equal(h, Pair(kind, h)), Whole(kind, h)
  PROVE  Usable(h, kind)
  <1>1. /\ Crt(kind, h) \in Pair(kind, h) /\ Key(kind, h) \in Pair(kind, h)
        /\ Crt(kind, h) \in File
    BY PairParts
  <1>2. /\ dir[h][Crt(kind, h)] = dir[First][Crt(kind, h)]
        /\ dir[h][Key(kind, h)] = dir[First][Key(kind, h)]
    BY <1>1 DEF Equal
  <1>3. dir[First][Crt(kind, h)][1] = dir[First][CA][1]
    BY <1>1 DEF SignedInv, FirstSigned, Whole
  <1>. QED BY <1>2, <1>3 DEF Usable, Exists, HasCA, Whole, Crt, Key

\* So every host of the play can use the pairs that are for it.
LEMMA CopiedUsable ==
  ASSUME TypeOK, SignedInv, MadeInv, CopyInv, Reached(AfterTar)
  PROVE  /\ \A h \in (PlayHosts \cup {First}) \cap Etcd :
               Usable(h, "admin") /\ Usable(h, "member")
         /\ \A h \in PlayHosts \cap Kube : Usable(h, "node")
  <1>1. /\ \A h \in Etcd : Whole("admin", h) /\ Whole("member", h)
        /\ \A h \in Kube : Whole("node", h)
    BY DEF MadeInv, Ready, Reached, AfterTar, AfterNodes, AfterMembers, AfterScript
  <1>2. Etcd \subseteq Host /\ Kube \subseteq Host /\ First \in Etcd BY Groups
  <1>3. \A h \in Host : /\ Pair("admin", h) \subseteq File
                        /\ Pair("member", h) \subseteq File
                        /\ Pair("node", h) \subseteq File
    BY NewOwner DEF Member
  <1>4. ASSUME NEW h \in (PlayHosts \cup {First}) \cap Etcd
        PROVE  Usable(h, "admin") /\ Usable(h, "member")
    <2>1. dir[h][CA] = dir[First][CA] /\ Equal(h, MemberOwn(h)) /\ HasCA
      BY CopiedAll DEF Equal
    <2>2. Equal(h, Pair("admin", h)) /\ Equal(h, Pair("member", h))
      BY <2>1 DEF Equal, MemberOwn, Member
    <2>. QED BY <1>1, <1>2, <1>3, <2>1, <2>2, EqualUsable
  <1>5. ASSUME NEW h \in PlayHosts \cap Kube PROVE Usable(h, "node")
    <2>1. dir[h][CA] = dir[First][CA] /\ Equal(h, NodeOwn(h)) /\ HasCA
      BY CopiedAll
    <2>2. Equal(h, Pair("node", h)) BY <2>1 DEF Equal, NodeOwn
    <2>. QED BY <1>1, <1>2, <1>3, <2>1, <2>2, EqualUsable
  <1>. QED BY <1>4, <1>5

LEMMA CopyTrust ==
  ASSUME TypeOK, MadeInv, CopyInv, UpdateTrust PROVE CopyInv'
  <1> USE DEF CopyInv
  <1>1. /\ UNCHANGED <<dir, inventory, force_etcd_cert_refresh, playbook, play, completed, todo>>
        /\ pc = "trust" /\ pc' = "configure"
        /\ trust' = [h \in Host |-> IF h \in PlayHosts THEN dir[h][CA] ELSE trust[h]]
    BY DEF UpdateTrust, runVars, taskVars
  <1>2. /\ \A h, S : Equal(h, S)' <=> Equal(h, S)
        /\ \A h, kind : Usable(h, kind)' <=> Usable(h, kind)
        /\ HasCA' <=> HasCA
    BY <1>1, SameFiles
  <1>3. /\ Etcd' = Etcd /\ Kube' = Kube /\ PlayHosts' = PlayHosts
        /\ OtherEtcd' = OtherEtcd /\ NodeHosts' = NodeHosts
        /\ \A h : Used(h)' = Used(h)
    BY <1>1, SamePlay
  <1>4. \A h : Equal(h, Used(h))' <=> Equal(h, Used(h))
    BY <1>1, <1>3 DEF Equal
  <1>5. ~completed BY <1>1 DEF MadeInv, Decisions
  <1>6. HasCA /\ \A h \in PlayHosts : dir[h][CA] = dir[First][CA]
    BY <1>1, CopiedAll DEF Reached, AfterTar, AfterNodes, AfterMembers, AfterScript
  <1>7. \A h \in Host : trust'[h] = IF h \in PlayHosts THEN dir[First][CA] ELSE trust[h]
    BY <1>1, <1>6
  <1>8. /\ pc \in AfterMembers /\ pc \in AfterNodes /\ pc \in AfterTar
        /\ pc' \notin {"script", "move", "gather_members"} /\ pc' \notin CopyTasks
    BY <1>1 DEF AfterTar, AfterNodes, AfterMembers, AfterScript, CopyTasks
  <1>9. Unsynced' BY <1>8 DEF Unsynced
  <1>10. Copies'
    <2>1. \A h \in Host : todo[h] = {} BY <1>1 DEF Copies
    <2>. QED BY <1>1, <1>2, <1>3, <1>8, <2>1 DEF Copies, Reached, CopyTasks
  <1>11. FirstPlay'
    <2>1. Etcd \subseteq Host BY Groups
    <2>. QED BY <1>1, <1>2, <1>3, <1>4, <1>7, <2>1 DEF FirstPlay
  <1>12. Trusted'
    <2>1. PlayHosts \subseteq Host BY Groups
    <2>. QED BY <1>1, <1>2, <1>3, <1>6, <1>7, <2>1 DEF Trusted
  <1>. QED BY <1>9, <1>10, <1>11, <1>12

\* The first play leaves its hosts to the second, ...
LEMMA CopyFirstPlay ==
  ASSUME TypeOK, SignedInv, MadeInv, CopyInv, RunHandlers, play = 1
  PROVE  CopyInv'
  <1> USE DEF CopyInv
  <1>1. /\ UNCHANGED <<dir, trust, inventory, force_etcd_cert_refresh, playbook, completed, todo>>
        /\ pc = "handlers" /\ pc' = "check" /\ play' = 2
    BY DEF RunHandlers, hostVars, taskVars
  <1>2. /\ \A h, S : Equal(h, S)' <=> Equal(h, S)
        /\ \A h, kind : Usable(h, kind)' <=> Usable(h, kind)
        /\ HasCA' <=> HasCA
    BY <1>1, SameFiles
  <1>3. Etcd' = Etcd /\ \A h : Used(h)' = Used(h)
    BY <1>1 DEF Etcd, Kube, Used
  <1>4. \A h : Equal(h, Used(h))' <=> Equal(h, Used(h))
    BY <1>1, <1>3 DEF Equal
  <1>5. ~completed BY <1>1 DEF MadeInv, Decisions
  <1>6. Reached(AfterTar) /\ PlayHosts = Etcd
    BY <1>1, PlayGroups DEF Reached, AfterTar, AfterNodes, AfterMembers, AfterScript
  <1>7. /\ HasCA /\ \A h \in Etcd : Equal(h, Used(h))
        /\ \A h \in Etcd : Usable(h, "admin") /\ Usable(h, "member")
    BY <1>6, CopiedAll, CopiedUsable
  <1>8. \A h \in Etcd : trust[h] = dir[First][CA]
    BY <1>1, <1>6 DEF Trusted, Reached
  <1>9. FirstPlay' BY <1>1, <1>2, <1>3, <1>4, <1>7, <1>8 DEF FirstPlay
  <1>10. Unsynced' /\ Trusted' BY <1>1, <1>5 DEF Unsynced, Trusted, Reached
  <1>11. Copies'
    <2>1. \A h \in Host : todo'[h] = {} BY <1>1 DEF Copies
    <2>. QED BY <1>1, <1>5, <2>1
         DEF Copies, Reached, AfterTar, AfterNodes, AfterMembers, AfterScript
  <1>. QED BY <1>9, <1>10, <1>11

\* ... and the second the run.
LEMMA CopySecondPlay ==
  ASSUME TypeOK, MadeInv, CopyInv, RunHandlers, play = 2
  PROVE  CopyInv'
  <1> USE DEF CopyInv
  <1>1. /\ UNCHANGED <<dir, trust, inventory, force_etcd_cert_refresh, playbook, play>>
        /\ pc = "handlers" /\ pc' = "idle" /\ todo' = [h \in Host |-> {}]
    BY DEF RunHandlers, hostVars, NoFacts
  <1>2. /\ \A h, S : Equal(h, S)' <=> Equal(h, S)
        /\ \A h, kind : Usable(h, kind)' <=> Usable(h, kind)
        /\ HasCA' <=> HasCA
    BY <1>1, SameFiles
  <1>3. /\ Etcd' = Etcd /\ Kube' = Kube /\ PlayHosts' = PlayHosts
        /\ OtherEtcd' = OtherEtcd /\ NodeHosts' = NodeHosts
        /\ \A h : Used(h)' = Used(h)
    BY <1>1, SamePlay
  <1>4. \A h : Equal(h, Used(h))' <=> Equal(h, Used(h))
    BY <1>1, <1>3 DEF Equal
  <1>5. pc \in AfterMembers /\ pc \in AfterNodes /\ pc \in AfterTar
    BY <1>1 DEF AfterTar, AfterNodes, AfterMembers, AfterScript
  <1>6. FirstPlay' BY <1>1, <1>2, <1>3, <1>4 DEF FirstPlay
  <1>7. Unsynced' BY <1>1 DEF Unsynced
  <1>8. Trusted' BY <1>1, <1>2, <1>3 DEF Trusted, Reached
  <1>9. Copies' BY <1>1, <1>2, <1>3, <1>5 DEF Copies, Reached
  <1>. QED BY <1>6, <1>7, <1>8, <1>9

LEMMA CopyInductive ==
  TypeOK /\ SignedInv /\ MadeInv /\ CopyInv /\ [Next]_vars => CopyInv'
  <1> SUFFICES ASSUME TypeOK, SignedInv, MadeInv, CopyInv, [Next]_vars
               PROVE  CopyInv'
    OBVIOUS
  <1> USE DEF AfterScript, AfterMembers, AfterNodes, AfterTar
  <1>1. CASE StartRun
    <2>1. /\ pc' = "check" /\ play' = 1 /\ ~completed' /\ todo' = [h \in Host |-> {}]
      BY <1>1 DEF StartRun, NoFacts
    <2>2. Unsynced' /\ Copies' /\ FirstPlay' /\ Trusted'
      BY <2>1 DEF Unsynced, Copies, FirstPlay, Trusted, Reached
    <2>. QED BY <2>2 DEF CopyInv
  <1>2. CASE Interrupt
    <2>1. /\ UNCHANGED <<dir, trust, inventory, force_etcd_cert_refresh, playbook, play>>
          /\ UNCHANGED completed /\ pc # "idle" /\ pc' = "idle" /\ todo' = [h \in Host |-> {}]
      BY <1>2 DEF Interrupt, hostVars, runVars, NoFacts
    <2>2. ~completed' BY <2>1 DEF MadeInv, Decisions
    <2>. QED BY <2>1, <2>2, CopyFrame
  <1>3. CASE CheckCerts BY <1>3, CopyCheck
  <1>4. ASSUME RunScript \/ SkipScript \/ Configure PROVE CopyInv'
    <2>1. /\ UNCHANGED <<dir, trust, inventory, force_etcd_cert_refresh, playbook, play>>
          /\ UNCHANGED <<completed, todo, sync_certs, gen_master_certs>>
          /\ \/ pc = "script" /\ pc' \in {"move", "gather_members"}
             \/ pc = "configure" /\ pc' = "handlers"
      BY <1>4 DEF RunScript, SkipScript, Configure, hostVars, runVars, facts, taskVars
    <2>2. ~completed' BY <2>1 DEF MadeInv, Decisions
    <2>3. CASE pc = "script" BY <2>1, <2>2, <2>3, CopyFrame
    <2>4. CASE pc = "configure" BY <2>1, <2>2, <2>4, CopyFrame
    <2>. QED BY <2>1, <2>3, <2>4
  <1>5. CASE MoveFile BY <1>5, CopyMove
  <1>6. CASE GatherMembers \/ GatherNodes \/ GatherTar BY <1>6, CopyGather
  <1>7. CASE CopyFile \/ CopyTar BY <1>7, CopyStep
  <1>8. CASE Copied BY <1>8, CopyCopied
  <1>9. CASE UpdateTrust BY <1>9, CopyTrust
  <1>10. CASE RunHandlers
    BY <1>10, CopyFirstPlay, CopySecondPlay DEF TypeOK
  <1>11. ASSUME EtcdRestarts \/ UNCHANGED vars PROVE CopyInv'
    <2>1. /\ UNCHANGED <<dir, trust, inventory, force_etcd_cert_refresh, playbook, play>>
          /\ UNCHANGED <<completed, todo, pc, sync_certs, gen_master_certs>>
      BY <1>11 DEF EtcdRestarts, vars, hostVars, runVars, facts, taskVars
    <2>2. /\ \A h, S : Equal(h, S)' <=> Equal(h, S)
          /\ \A h, f : Exists(h, f)' <=> Exists(h, f)
          /\ \A h, kind : Usable(h, kind)' <=> Usable(h, kind)
          /\ HasCA' <=> HasCA
      BY <2>1, SameFiles
    <2>3. /\ Etcd' = Etcd /\ Kube' = Kube /\ PlayHosts' = PlayHosts
          /\ OtherEtcd' = OtherEtcd /\ NodeHosts' = NodeHosts
          /\ \A h : Used(h)' = Used(h)
      BY <2>1, SamePlay
    <2>4. /\ \A h : Equal(h, Used(h))' <=> Equal(h, Used(h))
          /\ \A h, S : Equal(h, S \ todo[h])' <=> Equal(h, S \ todo[h])
      BY <2>1, <2>3 DEF Equal
    <2>5. Unsynced' BY <2>1, <2>2, <2>3 DEF CopyInv, Unsynced
    <2>6. Copies' BY <2>1, <2>2, <2>3, <2>4 DEF CopyInv, Copies, Reached
    <2>7. FirstPlay' BY <2>1, <2>2, <2>3, <2>4 DEF CopyInv, FirstPlay
    <2>8. Trusted' BY <2>1, <2>2, <2>3 DEF CopyInv, Trusted, Reached
    <2>. QED BY <2>5, <2>6, <2>7, <2>8 DEF CopyInv
  <1>. QED
    BY <1>1, <1>2, <1>3, <1>4, <1>5, <1>6, <1>7, <1>8, <1>9, <1>10, <1>11 DEF Next

LEMMA CopiesInit == Init => MadeInv /\ CopyInv
  <1> SUFFICES ASSUME Init PROVE MadeInv /\ CopyInv
    OBVIOUS
  <1>1. /\ pc = "idle" /\ play = 1 /\ ~completed /\ todo = [h \in Host |-> {}]
        /\ \A h \in Host, f \in File : ~Exists(h, f)
    BY DEF Init, Exists
  <1>2. \A h \in Host : ~Exists(First, Crt("member", h)) /\ ~Exists(First, Crt("node", h))
    <2>1. \A h \in Host : Crt("member", h) \in File /\ Crt("node", h) \in File
      BY PairParts, NewOwner, TypeInit DEF Member, TypeInv
    <2>. QED BY <1>1, <2>1, CertsAssumption
  <1>3. Decisions /\ Moved /\ Ready
    BY <1>1 DEF Decisions, Moved, Ready, Reached, AfterScript
  <1>4. Finished BY <1>2 DEF Finished
  <1>5. Unsynced /\ Copies /\ FirstPlay /\ Trusted
    BY <1>1 DEF Unsynced, Copies, FirstPlay, Trusted, Reached, AfterTar, AfterNodes,
                AfterMembers, AfterScript
  <1>. QED BY <1>3, <1>4, <1>5 DEF MadeInv, CopyInv

LEMMA CopiesAlways == Spec => [](TypeOK /\ SignedInv /\ MadeInv /\ CopyInv)
  <1> DEFINE I == SignedInv /\ MadeInv /\ CopyInv
  <1>1. Init => I BY SignedInit, CopiesInit
  <1>2. CopyInv => todo[First] = {}
    BY CertsAssumption DEF CopyInv, Copies
  <1>3. TypeInv /\ TypeInv' /\ I /\ [Next]_vars => I'
    BY <1>2, SignedInductive, MadeInductive, CopyInductive DEF TypeInv
  <1>4. Spec => []TypeInv
    BY TypeInit, TypeInductive, PTL DEF Spec
  <1>5. TypeInv => TypeOK BY DEF TypeInv
  <1> HIDE DEF I
  <1>6. Spec => []I BY <1>1, <1>3, <1>4, PTL DEF Spec
  <1>7. I => SignedInv /\ MadeInv /\ CopyInv BY DEF I
  <1>. QED BY <1>4, <1>5, <1>6, <1>7, PTL

\* A run that completes leaves its hosts with pairs that belong together and a
\* CA that signed them, whatever an earlier run left half made or half copied
\* (gen_certs_script.yml, the gathers and the copies), for any hosts,
\* inventories and number of runs.
THEOREM CompletedRunsCertify == Spec => []CompletedRunCerts
  <1>1. ASSUME TypeOK, SignedInv, MadeInv, CopyInv PROVE CompletedRunCerts
    <2> SUFFICES ASSUME completed PROVE CompletedRunCerts
      BY DEF CompletedRunCerts
    <2>1. Reached(AfterTar) /\ Reached({"configure", "handlers"}) /\ play = 2
      BY <1>1 DEF Reached, MadeInv, Decisions
    <2>2. \A h \in Etcd : Usable(h, "admin") /\ Usable(h, "member")
      BY <1>1, <2>1, CopiedUsable DEF CopyInv, FirstPlay
    <2>3. \A h \in PlayHosts \cap Kube : Usable(h, "node")
      BY <1>1, <2>1, CopiedUsable
    <2>4. \A h \in PlayHosts \cup Etcd : trust[h] = dir[First][CA]
      BY <1>1, <2>1 DEF CopyInv, FirstPlay, Trusted
    <2>. QED BY <2>2, <2>3, <2>4 DEF CompletedRunCerts
  <1>. QED BY CopiesAlways, <1>1, PTL

\* It leaves them with the files the first etcd host has for them, and the etcd
\* hosts that are not in its second play too where nothing is made again
\* (check_certs.yml, what the checksums of the two plays notice).
THEOREM CompletedRunsSync == Spec => []CompletedRunInSync
  <1>1. ASSUME TypeOK, SignedInv, MadeInv, CopyInv PROVE CompletedRunInSync
    <2> SUFFICES ASSUME completed PROVE CompletedRunInSync
      BY DEF CompletedRunInSync
    <2>1. Reached(AfterTar) /\ play = 2
      BY <1>1 DEF Reached, MadeInv, Decisions
    <2>2. \A h \in PlayHosts : Equal(h, Used(h))
      BY <1>1, <2>1, CopiedAll
    <2>3. ~force_etcd_cert_refresh => \A h \in Etcd : Equal(h, Used(h))
      BY <1>1, <2>1 DEF CopyInv, FirstPlay
    <2>. QED BY <2>2, <2>3 DEF CompletedRunInSync, Equal
  <1>. QED BY CopiesAlways, <1>1, PTL
=============================================================================
