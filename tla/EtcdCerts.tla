------------------------------ MODULE EtcdCerts ------------------------------
(***************************************************************************)
(* The certificates of etcd: check_certs.yml, gen_certs_script.yml,         *)
(* make-ssl-etcd.sh and the tasks of main.yml that use their results, in    *)
(* the two plays of cluster.yml and of scale.yml that include the role.     *)
(*                                                                          *)
(* The first host of the etcd group is the authority: it generates every    *)
(* file, the others copy theirs from it.  Hosts are numbered in the order   *)
(* of the inventory, which is also that of their names, so that the order   *)
(* in which the script moves its files (a glob) and a loop copies them is   *)
(* determined.                                                              *)
(*                                                                          *)
(* A file is <<kind, host, part>>.  What is in it is <<ca, gen>>: which CA   *)
(* signed it and which execution of the script made it; a key and a         *)
(* certificate belong together when they are of one execution.              *)
(*                                                                          *)
(* External: openssl, mv, and the etcd process, which loads its member pair *)
(* when it starts.  What else configure.yml does is in EtcdRole.            *)
(***************************************************************************)
EXTENDS Integers, FiniteSets

CONSTANTS
  Host,        \* hosts of any inventory, numbered from 1
  First,       \* groups['etcd'][0]
  Inventories, \* the group_vars and groups a run may be given
  MaxRuns      \* bound on runs of a playbook

VARIABLES
  \* the hosts
  dir,       \* dir[h][f]: what etcd_cert_dir of h has as file f
  trust,     \* trust[h]: the CA in the trust store of h
  loaded,    \* loaded[h]: the member certificate the etcd of h runs with
  issued,    \* executions of the script so far
  \* the run
  inventory, \* its groups: etcd, k8s_cluster, kube_node
  force_etcd_cert_refresh,
  playbook,  \* "cluster" or "scale"
  play,      \* 1, the play of the etcd hosts, or 2, that of k8s_cluster
  pc,        \* the task
  completed, \* the last run ended without an error
  \* facts and registered results
  gen_certs, gen_master_certs, gen_node_certs, sync_certs,
  requires_sync, \* etcd_member_requires_sync or kubernetes_host_requires_sync
  etcd_secret_changed,
  notified,  \* hosts with the handler 'set etcd_secret_changed' notified
  tmp,       \* files in the script's tmpdir
  made,      \* what is in them
  todo,      \* todo[h]: files the loop of the task has yet to copy to h
  \* bound
  runs

hostVars == <<dir, trust, loaded, issued>>
facts    == <<gen_certs, gen_master_certs, gen_node_certs, sync_certs,
              requires_sync>>
runVars  == <<inventory, force_etcd_cert_refresh, playbook, play, completed,
              runs>>
handlerVars == <<etcd_secret_changed, notified>>
taskVars == <<tmp, made, todo>>
vars == <<hostVars, runVars, pc, facts, handlerVars, taskVars>>

ASSUME CertsAssumption ==
  /\ Host \subseteq Nat \ {0} /\ IsFiniteSet(Host) /\ First \in Host
  /\ MaxRuns \in Nat
  /\ Inventories \subseteq [etcd : SUBSET Host, k8s_cluster : SUBSET Host,
                            kube_node : SUBSET Host]
  /\ Inventories # {}
  /\ \A i \in Inventories :
       /\ First \in i.etcd /\ \A h \in i.etcd : First <= h
       /\ i.kube_node \subseteq i.k8s_cluster /\ i.kube_node # {}

-----------------------------------------------------------------------------
(* Files.                                                                   *)

CA     == <<"ca", 0, "crt">>
CAKey  == <<"ca", 0, "key">>
Pair(kind, h)  == {<<kind, h, "crt">>, <<kind, h, "key">>}
Member(h) == Pair("admin", h) \cup Pair("member", h)
MemberFiles(hosts) == UNION {Member(h) : h \in hosts}
NodeFiles(hosts) == UNION {Pair("node", h) : h \in hosts}
File == {CA, CAKey} \cup MemberFiles(Host) \cup NodeFiles(Host)

Execution == 0 .. 2 * MaxRuns
Content == Execution \X Execution
NoFile  == <<0, 0>>
Exists(h, f) == dir[h][f] # NoFile
Has(h, files) == \A f \in files : Exists(h, f)

Rank(f) == CASE f[1] = "admin" -> 1 [] f[1] = "ca" -> 2
             [] f[1] = "member" -> 3 [] f[1] = "node" -> 4
MovedBefore_CALast(f, g) ==
  \/ f[2] > 0 /\ g[2] = 0
  \/ f[2] * g[2] > 0 /\ Rank(f) < Rank(g)
  \/ Rank(f) = Rank(g) /\ f[2] < g[2]
  \/ Rank(f) = Rank(g) /\ f[2] = g[2] /\ f[3] = "key" /\ g[3] = "crt"
\* The order of *.pem: admin-, ca-key, ca, member-, node-, keys first.
MovedBefore(f, g) ==
  \/ Rank(f) < Rank(g)
  \/ Rank(f) = Rank(g) /\ f[2] < g[2]
  \/ Rank(f) = Rank(g) /\ f[2] = g[2] /\ f[3] = "key" /\ g[3] = "crt"
\* The order of the items of a loop: the CA, then host by host.
CopiedBefore(f, g) ==
  \/ f[2] < g[2]
  \/ f[2] = g[2] /\ Rank(f) < Rank(g)
  \/ f[2] = g[2] /\ Rank(f) = Rank(g) /\ f[3] = "crt" /\ g[3] = "key"

\* A key and a certificate that belong together, under the CA of that host.
Usable(h, kind) ==
  LET crt == dir[h][<<kind, h, "crt">>] IN
  /\ crt # NoFile /\ dir[h][<<kind, h, "key">>] = crt
  /\ Exists(h, CA) /\ crt[1] = dir[h][CA][1]

-----------------------------------------------------------------------------
(* The plays.                                                               *)

Etcd == inventory.etcd
Kube == inventory.k8s_cluster
PlayHosts ==
  CASE play = 1 -> Etcd
    [] play = 2 /\ playbook = "cluster" -> Kube
    [] play = 2 /\ playbook = "scale" -> inventory.kube_node
FirstOfPlay == {h \in PlayHosts : \A g \in PlayHosts : h <= g}
OtherEtcd == (PlayHosts \cap Etcd) \ {First}   \* etcd hosts of the play
NodeHosts == (PlayHosts \cap Kube) \ Etcd      \* its k8s hosts without etcd
NoFacts ==
  /\ gen_certs' = FALSE /\ gen_master_certs' = {} /\ gen_node_certs' = {}
  /\ sync_certs' = {} /\ requires_sync' = {}
  /\ etcd_secret_changed' = {} /\ notified' = {}
  /\ tmp' = {} /\ made' = NoFile /\ todo' = [h \in Host |-> {}]

Init ==
  /\ dir = [h \in Host |-> [f \in File |-> NoFile]]
  /\ trust = [h \in Host |-> NoFile] /\ loaded = [h \in Host |-> NoFile]
  /\ issued = 0 /\ runs = 0
  /\ inventory \in Inventories /\ force_etcd_cert_refresh \in BOOLEAN
  /\ playbook = "cluster" /\ play = 1 /\ pc = "idle" /\ completed = FALSE
  /\ gen_certs = FALSE /\ gen_master_certs = {} /\ gen_node_certs = {}
  /\ sync_certs = {} /\ requires_sync = {}
  /\ etcd_secret_changed = {} /\ notified = {}
  /\ tmp = {} /\ made = NoFile /\ todo = [h \in Host |-> {}]

\* A run of cluster.yml or scale.yml, whose inventory may have grown.
StartRun ==
  /\ pc = "idle" /\ runs < MaxRuns
  /\ runs' = runs + 1 /\ completed' = FALSE /\ pc' = "check" /\ play' = 1
  /\ playbook' \in {"cluster", "scale"}
  /\ inventory' \in {i \in Inventories :
                       /\ Etcd \subseteq i.etcd /\ Kube \subseteq i.k8s_cluster
                       /\ inventory.kube_node \subseteq i.kube_node}
  /\ NoFacts
  /\ UNCHANGED <<hostVars, force_etcd_cert_refresh>>

\* The run stops: a task failed (a gather does not find its file, the script no
\* CA beside its key), a host was lost or the operator stopped it.  The tmpdir
\* of the script is lost with it, and so are facts and notified handlers.
Interrupt ==
  /\ pc # "idle" /\ pc' = "idle"
  /\ NoFacts /\ UNCHANGED <<hostVars, runVars>>

-----------------------------------------------------------------------------
(* check_certs.yml                                                          *)

\* What h must hold as the first etcd host holds it.
Own(h) == {CA} \cup (IF h \in Etcd THEN Member(h) ELSE Pair("node", h))
Differs_CAOnly(h) == dir[h][CA] # dir[First][CA] \/ ~Exists(h, CA)
Differs(h) == \E f \in Own(h) : ~Exists(h, f) \/ dir[h][f] # dir[First][f]
NeedsMember(h) == force_etcd_cert_refresh \/ ~Has(First, Member(h))
NeedsNode(h) == force_etcd_cert_refresh \/ ~Has(First, Pair("node", h))
Regenerated(h) ==
  (h \in Etcd /\ NeedsMember(h)) \/ (h \in Kube /\ NeedsNode(h))
Expected == {CA} \cup MemberFiles(Etcd) \cup NodeFiles(Kube)

CheckCerts ==
  /\ pc = "check" /\ pc' = "script"
  /\ gen_certs' = (force_etcd_cert_refresh \/ ~Has(First, Expected))
  /\ gen_master_certs' = {h \in Etcd : NeedsMember(h)}
  /\ gen_node_certs' = {h \in Kube : NeedsNode(h)}
  /\ requires_sync' = requires_sync \cup {h \in PlayHosts : Differs(h)}
  /\ sync_certs' = {h \in PlayHosts : h \in requires_sync' \/ Regenerated(h)}
  /\ etcd_secret_changed' = etcd_secret_changed \ PlayHosts
  /\ UNCHANGED <<hostVars, runVars, notified, taskVars>>

-----------------------------------------------------------------------------
(* make-ssl-etcd.sh, on the first etcd host                                 *)

NewFiles == MemberFiles(gen_master_certs) \cup NodeFiles(gen_node_certs)

ReuseCA ==   \* Reuse existing CA
  /\ Exists(First, CAKey) /\ Exists(First, CA)
  /\ made' = <<dir[First][CA][1], issued'>> /\ tmp' = NewFiles

CreateCA ==
  /\ ~Exists(First, CAKey)
  /\ made' = <<issued', issued'>> /\ tmp' = NewFiles \cup {CA, CAKey}

\* Mutant: no run_once, the script is executed for every etcd host.
RunScript_EveryHost ==
  /\ pc = "script" /\ gen_certs
  /\ issued' = issued + Cardinality(Etcd) /\ (ReuseCA \/ CreateCA)
  /\ pc' = "move"
  /\ UNCHANGED <<dir, trust, loaded, runVars, facts, handlerVars, todo>>

RunScript ==
  /\ pc = "script" /\ gen_certs
  /\ issued' = issued + 1 /\ (ReuseCA \/ CreateCA)
  /\ pc' = "move"
  /\ UNCHANGED <<dir, trust, loaded, runVars, facts, handlerVars, todo>>

SkipScript ==
  /\ pc = "script" /\ ~gen_certs /\ pc' = "gather_members"
  /\ UNCHANGED <<hostVars, runVars, facts, handlerVars, taskVars>>

\* mv *.pem: the next file.  The task is done, and notifies, after the last.
MoveFile ==
  /\ pc = "move"
  /\ \E f \in tmp :
       /\ \A g \in tmp : ~MovedBefore(g, f)
       /\ dir' = [dir EXCEPT ![First][f] = made]
       /\ tmp' = tmp \ {f}
  /\ IF tmp' = {}
       THEN pc' = "gather_members" /\ notified' = notified \cup FirstOfPlay
       ELSE UNCHANGED <<pc, notified>>
  /\ UNCHANGED <<trust, loaded, issued, runVars, facts, etcd_secret_changed,
                 made, todo>>

-----------------------------------------------------------------------------
(* gen_certs_script.yml: the copies                                         *)

\* A gather reads files of the first host, items[h] of them for host h; the
\* task after it copies them.
Gather(task, next, items) ==
  /\ pc = task /\ pc' = next
  /\ \A h \in Host : Has(First, items[h])
  /\ todo' = items
  /\ UNCHANGED <<hostVars, runVars, facts, handlerVars, tmp, made>>

MemberItems == [h \in Host |->
  IF h \in OtherEtcd \cap sync_certs
    THEN {CA, CAKey} \cup MemberFiles(Etcd) ELSE {}]
NodeItems_IfSync == [h \in Host |->
  IF h \in OtherEtcd \cap sync_certs THEN NodeFiles(Kube) ELSE {}]
NodeItems == [h \in Host |-> IF h \in OtherEtcd THEN NodeFiles(Kube) ELSE {}]
\* Set 'sync_certs' to true on nodes: they always copy.
NodeTar == [h \in Host |->
  IF h \in NodeHosts THEN {CA} \cup Pair("node", h) ELSE {}]

GatherMembers == Gather("gather_members", "copy_members", MemberItems)
GatherNodes == Gather("gather_nodes", "copy_nodes", NodeItems)
GatherTar == Gather("gather_tar", "copy_tar", NodeTar)

\* The next item of the loop on one of the hosts.
CopyFile ==
  /\ pc \in {"copy_members", "copy_nodes"}
  /\ \E h \in Host, f \in File :
       /\ f \in todo[h] /\ \A g \in todo[h] : ~CopiedBefore(g, f)
       /\ dir' = [dir EXCEPT ![h][f] = dir[First][f]]
       /\ todo' = [todo EXCEPT ![h] = @ \ {f}]
  /\ UNCHANGED <<trust, loaded, issued, runVars, pc, facts, handlerVars, tmp,
                 made>>

\* tar on one of the hosts.
CopyTar ==
  /\ pc = "copy_tar"
  /\ \E h \in Host :
       /\ todo[h] # {}
       /\ dir' = [dir EXCEPT ![h] =
            [f \in File |-> IF f \in todo[h] THEN dir[First][f] ELSE @[f]]]
       /\ todo' = [todo EXCEPT ![h] = {}]
  /\ UNCHANGED <<trust, loaded, issued, runVars, pc, facts, handlerVars, tmp,
                 made>>

Copied ==
  /\ pc \in {"copy_members", "copy_nodes", "copy_tar"}
  /\ \A h \in Host : todo[h] = {}
  /\ pc' = CASE pc = "copy_members" -> "gather_nodes"
             [] pc = "copy_nodes" -> "gather_tar"
             [] pc = "copy_tar" -> "trust"
  /\ UNCHANGED <<hostVars, runVars, facts, handlerVars, taskVars>>

-----------------------------------------------------------------------------
(* main.yml                                                                 *)

\* upd_ca_trust.yml, and the serial of the node's certificate.
UpdateTrust ==
  /\ pc = "trust" /\ pc' = "configure"
  /\ \A h \in PlayHosts : Exists(h, CA)
  /\ \A h \in PlayHosts \cap Kube : Exists(h, <<"node", h, "crt">>)
  /\ trust' = [h \in Host |-> IF h \in PlayHosts THEN dir[h][CA] ELSE trust[h]]
  /\ UNCHANGED <<dir, loaded, issued, runVars, facts, handlerVars, taskVars>>

Loadable(h) ==
  IF Usable(h, "member") THEN dir[h][<<"member", h, "crt">>] ELSE NoFile

\* configure.yml starts etcd where it does not run, main.yml restarts it where
\* its secrets have changed: both only in the play that sets up the cluster.
Configure ==
  /\ pc = "configure" /\ pc' = "handlers"
  /\ loaded' = [h \in Host |->
       IF /\ play = 1 /\ playbook = "cluster" /\ h \in Etcd
          /\ loaded[h] = NoFile \/ h \in etcd_secret_changed
       THEN Loadable(h) ELSE loaded[h]]
  /\ UNCHANGED <<dir, trust, issued, runVars, facts, handlerVars, taskVars>>

\* The play ends with its handlers; the next one starts, or the run is done.
RunHandlers ==
  /\ pc = "handlers"
  /\ IF play = 1
       THEN /\ pc' = "check" /\ play' = 2 /\ UNCHANGED completed
            /\ etcd_secret_changed' = etcd_secret_changed \cup notified
            /\ notified' = {} /\ UNCHANGED <<facts, taskVars>>
       ELSE /\ pc' = "idle" /\ completed' = TRUE /\ UNCHANGED play
            /\ NoFacts
  /\ UNCHANGED <<hostVars, inventory, force_etcd_cert_refresh, playbook, runs>>

\* systemd starts etcd again, at any time.
EtcdRestarts ==
  /\ \E h \in Host :
       /\ loaded[h] # NoFile /\ loaded[h] # Loadable(h)
       /\ loaded' = [loaded EXCEPT ![h] = Loadable(h)]
  /\ UNCHANGED <<dir, trust, issued, runVars, pc, facts, handlerVars, taskVars>>

Next ==
  \/ StartRun \/ Interrupt \/ CheckCerts \/ RunScript \/ SkipScript \/ MoveFile
  \/ GatherMembers \/ GatherNodes \/ GatherTar \/ CopyFile \/ CopyTar \/ Copied
  \/ UpdateTrust \/ Configure \/ RunHandlers \/ EtcdRestarts

Spec == Init /\ [][Next]_vars

-----------------------------------------------------------------------------
(* Properties                                                               *)

\* The types.
TypeOK ==
  /\ dir \in [Host -> [File -> Content]]
  /\ trust \in [Host -> Content] /\ loaded \in [Host -> Content]
  /\ issued \in Execution /\ runs \in 0 .. MaxRuns
  /\ inventory \in Inventories /\ force_etcd_cert_refresh \in BOOLEAN
  /\ playbook \in {"cluster", "scale"} /\ play \in {1, 2}
  /\ pc \in {"idle", "check", "script", "move", "gather_members",
             "copy_members", "gather_nodes", "copy_nodes", "gather_tar",
             "copy_tar", "trust", "configure", "handlers"}
  /\ completed \in BOOLEAN /\ gen_certs \in BOOLEAN
  /\ gen_master_certs \subseteq Host /\ gen_node_certs \subseteq Host
  /\ sync_certs \subseteq Host /\ requires_sync \subseteq Host
  /\ etcd_secret_changed \subseteq Host /\ notified \subseteq Host
  /\ tmp \subseteq File /\ made \in Content
  /\ todo \in [Host -> SUBSET File]

\* There is one CA, for good: whatever a host other than the first holds, and
\* whatever an etcd runs with, is signed by the CA of the first host, also
\* where the script was killed while it moved its files.  (make-ssl-etcd.sh:62
\* to 69 and 98 to 103: reuse of the CA and the order of the move.)
IssuedByOneCA ==
  \A h \in Host :
    /\ loaded[h] # NoFile => loaded[h][1] = dir[First][CA][1]
    /\ \A f \in File :
         h # First /\ Exists(h, f) =>
           Exists(First, CA) /\ dir[h][f][1] = dir[First][CA][1]

\* A completed run leaves each etcd host of its inventory with a member and an
\* admin pair, and each host of its second play with a node pair, whose key and
\* certificate belong together and which the CA of that host has signed.
\* (gen_certs_script.yml:58 to 162: whatever an earlier run left half copied.)
CompletedRunCerts ==
  completed =>
    /\ \A h \in Etcd : Usable(h, "admin") /\ Usable(h, "member")
    /\ \A h \in PlayHosts \cap Kube : Usable(h, "node")
    /\ \A h \in PlayHosts \cup Etcd : trust[h] = dir[First][CA]

\* The files of its own that a host uses.
Used(h) == {CA} \cup (IF h \in Etcd THEN Member(h) ELSE {})
                \cup (IF h \in Kube THEN Pair("node", h) ELSE {})

\* A completed run leaves each host of its second play with the files the first
\* etcd host has for it, and, where certificates are only made if they are
\* missing, each etcd host too.  (check_certs.yml:108 to 145: what an interrupted
\* copy has left is noticed, in the play that comes first or in the second.)
CompletedRunInSync ==
  completed => \A h \in PlayHosts \cup Etcd :
    h \in PlayHosts \/ ~force_etcd_cert_refresh =>
      \A f \in Used(h) : dir[h][f] = dir[First][f]

\* After the tasks of the play that sets up the cluster every etcd runs with
\* the member certificate that is on its host.  (main.yml:48, "Restart etcd if
\* certs changed".)
EtcdRestartedIfCertsChanged ==
  pc = "handlers" /\ play = 1 /\ playbook = "cluster" =>
    \A h \in Etcd : loaded[h] = dir[h][<<"member", h, "crt">>]
=============================================================================
