-------------------------- MODULE InventoryBuilder --------------------------
(***************************************************************************)
(* contrib/inventory_builder/inventory.py: a program that an operator runs   *)
(* again and again on one inventory file, with addresses, named hosts,       *)
(* ranges and deletions as arguments, or with a file to load.                *)
(*                                                                           *)
(* What the program keeps between two invocations is the file alone.  The    *)
(* loops over arguments and over loaded entries are one action per element,  *)
(* because the local variables of build_hostnames outlive an iteration.      *)
(*                                                                           *)
(* A host name is <<"node", k>> (HOST_PREFIX and a number) or one of         *)
(* OtherName.  An address is a number, as ip_address makes it one.  The      *)
(* access address follows the address and is left out, as are debug output,  *)
(* USE_REAL_HOSTNAME and the print commands.                                 *)
(***************************************************************************)
EXTENDS Naturals, Sequences, FiniteSets

CONSTANTS
  OtherName,               \* host names that do not end in an integer
  Arguments,               \* the argument lists the operator may pass
  Loadable,                \* contents of a file to load: sequences of entries
  KUBE_CONTROL_HOSTS,      \* environment variables of the program
  SCALE_THRESHOLD,
  MASSIVE_SCALE_THRESHOLD,
  MaxRuns                  \* bound: invocations in a behaviour

Address == Nat
NodeName(id) == <<"node", id>>
Name == OtherName \cup ({"node"} \X Nat)

\* The groups of ROLES that have hosts of their own.
Role == {"kube_control_plane", "kube_node", "etcd", "calico_rr"}

Argument ==
  [op : {"address", "delete_ip"}, ip : Address]
    \cup [op : {"range"}, first : Address, last : Address]
    \cup [op : {"named"}, name : Name, ip : Address]
    \cup [op : {"bare", "delete_name"}, name : Name]

Entry == [group : Role, name : Name, ip : Address]

ASSUME BuilderAssumption ==
  /\ Arguments \subseteq Seq(Argument)
  /\ Loadable \subseteq Seq(Entry)
  /\ OtherName \cap ({"node"} \X Nat) = {}
  /\ {KUBE_CONTROL_HOSTS, SCALE_THRESHOLD, MASSIVE_SCALE_THRESHOLD, MaxRuns} \subseteq Nat

VARIABLES
  file,          \* CONFIG_FILE: whether it is there, and the inventory in it
  pc,            \* where the invocation is
  argv,          \* its arguments
  todo,          \* the arguments or entries the current loop has not done
  hosts_file,    \* the file as it was when the constructor opened it
  hosts,         \* yaml_config['all']['hosts']: a dict that keeps its order
  groups,        \* yaml_config['all']['children']
  inserted,      \* number of names inserted into hosts so far
  next_host_id,
  local,         \* the variables hostname and ip of build_hostnames, once assigned
  runs           \* number of invocations so far

memory == <<argv, todo, hosts_file, hosts, groups, inserted, next_host_id, local>>
vars == <<file, pc, memory, runs>>

NoHosts == [n \in {} |-> [ip |-> 0, at |-> 0]]
NoGroups == [r \in Role |-> {}]
Unassigned == [v \in {} |-> 0]

Missing == [is |-> "missing", hosts |-> NoHosts, groups |-> NoGroups]
Truncated == [Missing EXCEPT !.is = "truncated"]
-----------------------------------------------------------------------------
(* The dict of hosts.  "at" is when a name was inserted: a dict is read in   *)
(* that order, and assigning to a name that is there does not move it.       *)

Insert(dict, name, ip, time) ==
  [n \in DOMAIN dict \cup {name} |->
     IF n # name THEN dict[n]
     ELSE [ip |-> ip, at |-> IF name \in DOMAIN dict THEN dict[name].at ELSE time]]

Pop(dict, names) == [n \in DOMAIN dict \ names |-> dict[n]]

\* list(self.hosts.keys())[:k]
First(dict, k) ==
  {n \in DOMAIN dict : Cardinality({m \in DOMAIN dict : dict[m].at < dict[n].at}) < k}

exists_ip(dict, ip) == \E n \in DOMAIN dict : dict[n].ip = ip

\* The names delete_host_by_ip deletes: the first one with that address.
HasAddressFirst(dict, ip) ==
  {n \in DOMAIN dict : /\ dict[n].ip = ip
                       /\ \A m \in DOMAIN dict : dict[m].ip = ip => dict[n].at <= dict[m].at}
-----------------------------------------------------------------------------
(* Opening the file.  yaml.load_all returns an iterator over the documents   *)
(* of the file, which is not a dict with the key 'all' as a document would   *)
(* be: ensure_required_groups compares the key with the documents, finds     *)
(* none that is equal to it, and starts from an empty configuration.         *)

load_all(f) == [documents |-> f]

ensure_required_groups(config) ==
  IF "hosts" \in DOMAIN config THEN config ELSE [hosts |-> NoHosts, groups |-> NoGroups]

Init ==
  /\ file = Missing
  /\ pc = "idle" /\ argv = <<>> /\ todo = <<>>
  /\ hosts_file = Missing /\ hosts = NoHosts /\ groups = NoGroups
  /\ inserted = 0 /\ next_host_id = 1
  /\ local = Unassigned
  /\ runs = 0

\* The constructor, up to the loop over the arguments or the loaded entries.
Begin(args, command) ==
  /\ pc = "idle"
  /\ runs < MaxRuns
  /\ runs' = runs + 1
  /\ pc' = command
  /\ argv' = args /\ todo' = args
  /\ hosts_file' = file
  /\ LET config == ensure_required_groups(load_all(file))
     IN  hosts' = config.hosts /\ groups' = config.groups
  /\ inserted' = 0 /\ next_host_id' = 1
  /\ local' = Unassigned
  /\ UNCHANGED file

ChangeHosts == \E args \in Arguments : args # <<>> /\ Begin(args, "build_hostnames")
LoadFile == \E entries \in Loadable : Begin(entries, "load_file")
-----------------------------------------------------------------------------
(* build_hostnames, one argument at a time.                                  *)

\* The next argument, which is one of the operations given.
NextArgument(operations) ==
  pc = "build_hostnames" /\ todo # <<>> /\ Head(todo).op \in operations

\* The iteration is over; the configuration is not touched before the last one.
Iterated == todo' = Tail(todo) /\ UNCHANGED <<file, pc, argv, hosts_file, groups, runs>>

\* The dict is left as it is.
Skip == UNCHANGED <<hosts, inserted, next_host_id>>

Assign(name, ip) ==
  /\ hosts' = Insert(hosts, name, ip, inserted)
  /\ inserted' = inserted + 1

\* An address gets the next generated name, unless some host has it.
AddAddress ==
  /\ NextArgument({"address"})
  /\ LET ip == Head(todo).ip
     IN  /\ local' = [v \in DOMAIN local \cup {"ip"} |-> IF v = "ip" THEN ip ELSE local[v]]
         /\ IF exists_ip(hosts, ip) THEN Skip
            ELSE /\ Assign(NodeName(next_host_id), ip)
                 /\ next_host_id' = next_host_id + 1
  /\ Iterated

\* Mutant: the last address of a range is left out.
ExpandRange_EndLeftOut ==
  /\ NextArgument({"range"})
  /\ LET range == Head(todo)
     IN  todo' = IF range.first >= range.last THEN Tail(todo)
                 ELSE <<[op |-> "address", ip |-> range.first],
                        [range EXCEPT !.first = @ + 1]>> \o Tail(todo)
  /\ Skip
  /\ UNCHANGED <<file, pc, argv, hosts_file, groups, local, runs>>

\* range2ips puts the addresses of a range in the place of the range.
ExpandRange ==
  /\ NextArgument({"range"})
  /\ LET range == Head(todo)
     IN  todo' = IF range.first > range.last THEN Tail(todo)
                 ELSE <<[op |-> "address", ip |-> range.first],
                        [range EXCEPT !.first = @ + 1]>> \o Tail(todo)
  /\ Skip
  /\ UNCHANGED <<file, pc, argv, hosts_file, groups, local, runs>>

\* Mutants: only the name is looked up; ip is not assigned.
AddNamed_AddressNotChecked ==
  /\ NextArgument({"named"})
  /\ LET name == Head(todo).name
         ip == Head(todo).ip
     IN  /\ local' = [hostname |-> name, ip |-> ip]
         /\ IF name \in DOMAIN hosts THEN Skip
            ELSE Assign(name, ip) /\ UNCHANGED next_host_id
  /\ Iterated

AddNamed_IpUnassigned ==
  /\ NextArgument({"named"})
  /\ LET name == Head(todo).name
         ip == Head(todo).ip
     IN  /\ local' = [hostname |-> name]
         /\ IF exists_ip(hosts, ip) THEN Skip
            ELSE Assign(name, ip) /\ UNCHANGED next_host_id
  /\ Iterated

\* "name,ip": exists_hostname is asked about the whole string and finds nothing,
\* so only the address can make the program skip the host.
AddNamed ==
  /\ NextArgument({"named"})
  /\ LET name == Head(todo).name
         ip == Head(todo).ip
     IN  /\ local' = [hostname |-> name, ip |-> ip]
         /\ IF exists_ip(hosts, ip) THEN Skip
            ELSE Assign(name, ip) /\ UNCHANGED next_host_id
  /\ Iterated

\* A name without an address is looked up with the ip, and added with the
\* hostname, that earlier iterations have left.
AddBare ==
  /\ NextArgument({"bare"})
  /\ Head(todo).name \in DOMAIN hosts \/ "ip" \in DOMAIN local
  /\ IF Head(todo).name \in DOMAIN hosts \/ exists_ip(hosts, local.ip) THEN Skip
     ELSE /\ "hostname" \in DOMAIN local
          /\ Assign(local.hostname, local.ip)
          /\ UNCHANGED next_host_id
  /\ UNCHANGED local
  /\ Iterated

\* The end of an invocation: its memory is gone.
Exit ==
  /\ pc' = "idle"
  /\ argv' = <<>> /\ todo' = <<>>
  /\ hosts_file' = Missing /\ hosts' = NoHosts /\ groups' = NoGroups
  /\ inserted' = 0 /\ next_host_id' = 1
  /\ local' = Unassigned
  /\ UNCHANGED runs

\* The same, where a variable is read before it has a value: UnboundLocalError.
BareUnbound ==
  /\ NextArgument({"bare"})
  /\ Head(todo).name \notin DOMAIN hosts
  /\ \/ "ip" \notin DOMAIN local
     \/ "hostname" \notin DOMAIN local /\ ~exists_ip(hosts, local.ip)
  /\ Exit
  /\ UNCHANGED file

Delete ==
  /\ NextArgument({"delete_name", "delete_ip"})
  /\ LET found == IF Head(todo).op = "delete_name" THEN {Head(todo).name}
                  ELSE HasAddressFirst(hosts, Head(todo).ip)
     IN  hosts' = Pop(hosts, found)
  /\ UNCHANGED <<inserted, next_host_id, local>>
  /\ Iterated
-----------------------------------------------------------------------------
(* The groups, from the hosts.                                               *)

\* Mutant: a small cluster has as many etcd hosts as it has hosts.
etcd_hosts_count_AllHosts == IF Cardinality(DOMAIN hosts) >= 3 THEN 3 ELSE Cardinality(DOMAIN hosts)

etcd_hosts_count == IF Cardinality(DOMAIN hosts) >= 3 THEN 3 ELSE 1
AtScale == Cardinality(DOMAIN hosts) >= SCALE_THRESHOLD
AtMassiveScale == Cardinality(DOMAIN hosts) >= MASSIVE_SCALE_THRESHOLD

set_etcd == First(hosts, etcd_hosts_count)

\* Mutant: the masters are always the first hosts.
set_kube_control_plane_FirstHosts == First(hosts, KUBE_CONTROL_HOSTS)

set_kube_control_plane ==
  IF AtScale
  THEN First(hosts, etcd_hosts_count + KUBE_CONTROL_HOSTS) \ First(hosts, etcd_hosts_count)
  ELSE First(hosts, KUBE_CONTROL_HOSTS)

\* The hosts of the group, given those of the groups that are set before it.
set_kube_node(etcd, control_plane) ==
  {n \in DOMAIN hosts : /\ ~(AtScale /\ n \in etcd)
                        /\ ~(AtMassiveScale /\ n \in control_plane)}

\* The tests for conflicts look for a host among the keys of a group, which
\* are 'hosts' and nothing else: they never find one.
set_calico_rr == IF AtScale THEN First(hosts, etcd_hosts_count) ELSE {}

\* What is left of a group.
purge_invalid_hosts(role) == groups[role] \cap DOMAIN hosts

\* The set_ methods only add to what is left.
SetGroups ==
  /\ pc = "build_hostnames" /\ todo = <<>>
  /\ pc' = "write_config"
  /\ LET etcd == purge_invalid_hosts("etcd") \cup set_etcd
         control_plane == purge_invalid_hosts("kube_control_plane") \cup set_kube_control_plane
     IN  groups' = [r \in Role |->
           CASE r = "etcd" -> etcd
             [] r = "kube_control_plane" -> control_plane
             [] r = "kube_node" -> purge_invalid_hosts(r) \cup set_kube_node(etcd, control_plane)
             [] r = "calico_rr" -> purge_invalid_hosts(r) \cup set_calico_rr]
  /\ UNCHANGED <<file, argv, todo, hosts_file, hosts, inserted, next_host_id, local, runs>>

add_host_to_group(group, name) == groups' = [groups EXCEPT ![group] = @ \cup {name}]

\* load_file, one entry at a time: the host goes to 'all' and to its group.
LoadEntry ==
  /\ pc = "load_file" /\ todo # <<>>
  /\ LET entry == Head(todo)
     IN  /\ Assign(entry.name, entry.ip)
         /\ add_host_to_group(entry.group, entry.name)
  /\ todo' = Tail(todo)
  /\ UNCHANGED <<file, pc, argv, hosts_file, next_host_id, local, runs>>

Loaded ==
  /\ pc = "load_file" /\ todo = <<>>
  /\ pc' = "write_config"
  /\ UNCHANGED <<file, memory, runs>>

\* open(config_file, 'w')
OpenForWriting ==
  /\ pc = "write_config"
  /\ pc' = "dump"
  /\ file' = Truncated
  /\ UNCHANGED <<memory, runs>>

\* yaml.dump, and the end of the program.
Dump ==
  /\ pc = "dump"
  /\ file' = [is |-> "complete", hosts |-> hosts, groups |-> groups]
  /\ Exit

\* The program is killed: what it had in memory is lost.
Kill ==
  /\ pc # "idle"
  /\ Exit
  /\ UNCHANGED file

Next ==
  \/ ChangeHosts \/ LoadFile
  \/ ExpandRange \/ AddAddress \/ AddNamed \/ AddBare \/ BareUnbound \/ Delete
  \/ SetGroups \/ LoadEntry \/ Loaded
  \/ OpenForWriting \/ Dump \/ Kill

Spec == Init /\ [][Next]_vars
-----------------------------------------------------------------------------
(* Correctness.                                                              *)

TypeOK ==
  /\ file.is \in {"missing", "truncated", "complete"}
  /\ pc \in {"idle", "build_hostnames", "load_file", "write_config", "dump"}
  /\ pc \in {"idle", "build_hostnames"} => todo \in Seq(Argument)
  /\ pc = "load_file" => todo \in Seq(Entry)
  /\ DOMAIN hosts \subseteq Name
  /\ \A n \in DOMAIN hosts : hosts[n] \in [ip : Address, at : Nat]
  /\ groups \in [Role -> SUBSET Name]
  /\ {inserted, next_host_id, runs} \subseteq Nat
  /\ DOMAIN local \subseteq {"hostname", "ip"}
  /\ "hostname" \in DOMAIN local => "ip" \in DOMAIN local /\ local.hostname \in Name
  /\ "ip" \in DOMAIN local => local.ip \in Address

FromArguments == argv # <<>> /\ "op" \in DOMAIN argv[1]
Writing == pc \in {"write_config", "dump"} /\ FromArguments

\* No two hosts of an inventory built from arguments have the same address,
\* whatever is added, overwritten, deleted and added again: exists_ip is asked
\* before each of the three assignments of build_hostnames.
UniqueAddresses ==
  FromArguments => \A m, n \in DOMAIN hosts : hosts[m].ip = hosts[n].ip => m = n

\* The help text: from SCALE_THRESHOLD hosts on, etcd has hosts of its own, and
\* from MASSIVE_SCALE_THRESHOLD on so has the control plane.  A route reflector
\* is never a node or a master, although the tests for that in set_calico_rr
\* find nothing.
SeparatedAtScale ==
  Writing =>
    /\ AtScale => /\ groups["etcd"] \cap (groups["kube_node"] \cup groups["kube_control_plane"]) = {}
                  /\ groups["calico_rr"] \cap (groups["kube_node"] \cup groups["kube_control_plane"]) = {}
    /\ AtMassiveScale => groups["kube_control_plane"] \cap groups["kube_node"] = {}

\* What the preflight checks of cluster.yml ask of an inventory: an odd number
\* of etcd hosts and a control plane; and every host has something to do.
DeployableGroups ==
  Writing /\ DOMAIN hosts # {} =>
    /\ Cardinality(groups["etcd"]) \in {1, 3}
    /\ SCALE_THRESHOLD > 3 /\ KUBE_CONTROL_HOSTS > 0 => groups["kube_control_plane"] # {}
    /\ DOMAIN hosts = UNION {groups[r] : r \in Role}

\* The addresses an argument adds or deletes.
Adds(argument) ==
  CASE argument.op \in {"address", "named"} -> {argument.ip}
    [] argument.op = "range" -> argument.first .. argument.last
    [] OTHER -> {}
Deletes(argument) == IF argument.op = "delete_ip" THEN {argument.ip} ELSE {}

\* The names of a command cannot clash: they are given once, not generated, and
\* come with an address.
NamesDoNotClash ==
  /\ \A i \in DOMAIN argv : argv[i].op = "named" => argv[i].name \in OtherName
  /\ \A i, j \in DOMAIN argv :
       argv[i].op = "named" /\ argv[j].op = "named" /\ argv[i].name = argv[j].name => i = j
  /\ \A i \in DOMAIN argv : argv[i].op \notin {"bare", "delete_name"}

\* Then the inventory has the addresses whose last mention is not a deletion.
AddressesAsAsked ==
  Writing /\ NamesDoNotClash =>
    {hosts[n].ip : n \in DOMAIN hosts} =
      {a \in UNION {Adds(argv[i]) : i \in DOMAIN argv} :
         \E i \in DOMAIN argv : /\ a \in Adds(argv[i])
                                /\ \A j \in i + 1 .. Len(argv) : a \notin Deletes(argv[j])}

\* The usage text: "Add another host after initial creation: inventory.py
\* 10.10.1.5".  An invocation that deletes nothing keeps the hosts of the file.
AddKeepsHosts ==
  [][pc = "dump" /\ file'.is = "complete" /\ FromArguments
       /\ (\A i \in DOMAIN argv : argv[i].op \notin {"delete_name", "delete_ip"})
     => {hosts_file.hosts[n].ip : n \in DOMAIN hosts_file.hosts}
          \subseteq {file'.hosts[n].ip : n \in DOMAIN file'.hosts}]_vars
=============================================================================
