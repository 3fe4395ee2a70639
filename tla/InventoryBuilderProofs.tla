----------------------- MODULE InventoryBuilderProofs -----------------------
(***************************************************************************)
(* Proofs about InventoryBuilder, for argument lists of any length, any file *)
(* to load and any thresholds: no address twice, groups that can be deployed, *)
(* and exactly the addresses that were asked for.                            *)
(***************************************************************************)
EXTENDS InventoryBuilder, FiniteSetTheorems, TLAPS

\* Entries are not arguments, and the groups of a command are set at its end.
Command ==
  /\ pc = "load_file" => ~FromArguments
  /\ pc = "build_hostnames" => groups = NoGroups

IInv == TypeOK /\ Command /\ UniqueAddresses
-----------------------------------------------------------------------------

\* A dict of hosts.
Dict(d) == DOMAIN d \subseteq Name /\ \A n \in DOMAIN d : d[n] \in [ip : Address, at : Nat]

\* Insert keeps a dict well typed, gives the name its address, and leaves the rest.
LEMMA InsertFacts ==
  ASSUME NEW d, Dict(d), NEW name \in Name, NEW ip \in Address, NEW time \in Nat
  PROVE  /\ Dict(Insert(d, name, ip, time))
         /\ DOMAIN Insert(d, name, ip, time) = DOMAIN d \cup {name}
         /\ Insert(d, name, ip, time)[name].ip = ip
         /\ \A n \in DOMAIN d \ {name} : Insert(d, name, ip, time)[n] = d[n]
  BY DEF Insert, Dict

\* Inserting an address that no host has keeps the addresses unique.
LEMMA InsertUnique ==
  ASSUME NEW d, Dict(d), NEW name \in Name, NEW ip \in Address, NEW time \in Nat,
         ~exists_ip(d, ip),
         \A m, n \in DOMAIN d : d[m].ip = d[n].ip => m = n
  PROVE  \A m, n \in DOMAIN Insert(d, name, ip, time) :
           Insert(d, name, ip, time)[m].ip = Insert(d, name, ip, time)[n].ip => m = n
  <1>1. PICK e : e = Insert(d, name, ip, time)
    OBVIOUS
  <1>2. DOMAIN e = DOMAIN d \cup {name} /\ e[name].ip = ip
    BY <1>1 DEF Insert
  <1>3. \A k \in DOMAIN d \ {name} : e[k] = d[k]
    BY <1>1 DEF Insert
  <1>4. \A k \in DOMAIN d : d[k].ip # ip
    BY DEF exists_ip
  <1>5. ASSUME NEW m \in DOMAIN e, NEW n \in DOMAIN e, e[m].ip = e[n].ip PROVE m = n
    <2>1. CASE m = name \/ n = name
      BY <1>2, <1>3, <1>4, <1>5, <2>1
    <2>2. CASE m # name /\ n # name
      BY <1>2, <1>3, <1>5, <2>2
    <2>3. QED BY <2>1, <2>2
  <1>6. QED BY <1>1, <1>5

\* What Pop leaves is as it was.
LEMMA PopFacts ==
  ASSUME NEW d, Dict(d), NEW names
  PROVE  /\ Dict(Pop(d, names))
         /\ DOMAIN Pop(d, names) \subseteq DOMAIN d
         /\ \A n \in DOMAIN Pop(d, names) : Pop(d, names)[n] = d[n]
  BY DEF Pop, Dict

\* The empty configuration is what every invocation starts from.
LEMMA EmptyFacts ==
  /\ Dict(NoHosts) /\ DOMAIN NoHosts = {}
  /\ NoGroups \in [Role -> SUBSET Name]
  /\ \A f : ensure_required_groups(load_all(f)) = [hosts |-> NoHosts, groups |-> NoGroups]
  /\ DOMAIN Unassigned = {}
  BY DEF Dict, NoHosts, NoGroups, ensure_required_groups, load_all, Unassigned

\* A generated name is a name.
LEMMA NodeNameType == ASSUME NEW k \in Nat PROVE NodeName(k) \in Name
  BY DEF NodeName, Name

\* The end of an invocation keeps the invariant.
LEMMA ExitStep ==
  ASSUME IInv, Exit, file'.is \in {"missing", "truncated", "complete"}
  PROVE  IInv'
  <1> USE EmptyFacts DEF Exit
  <1>1. TypeOK'
    BY DEF IInv, TypeOK, Dict
  <1>2. Command'
    BY DEF Command
  <1>3. UniqueAddresses'
    BY DEF UniqueAddresses, FromArguments
  <1>4. QED BY <1>1, <1>2, <1>3 DEF IInv

\* An argument is done: the rest of the arguments is well typed.
LEMMA NextTyped ==
  ASSUME TypeOK, NEW ops, NextArgument(ops)
  PROVE  /\ todo \in Seq(Argument) /\ Head(todo) \in Argument /\ Tail(todo) \in Seq(Argument)
         /\ Head(todo).op \in ops
  BY DEF TypeOK, NextArgument

\* A step of the loop over arguments that inserts a free address, or nothing.
LEMMA LoopStep ==
  ASSUME IInv, pc = "build_hostnames", Iterated, Tail(todo) \in Seq(Argument),
         \/ Skip
         \/ /\ next_host_id' \in Nat
            /\ \E name \in Name, ip \in Address : ~exists_ip(hosts, ip) /\ Assign(name, ip),
         DOMAIN local' \subseteq {"hostname", "ip"},
         "hostname" \in DOMAIN local' => "ip" \in DOMAIN local' /\ local'.hostname \in Name,
         "ip" \in DOMAIN local' => local'.ip \in Address
  PROVE  IInv'
  <1> USE DEF Iterated
  <1>1. Dict(hosts) /\ {inserted, next_host_id, runs} \subseteq Nat
    BY DEF IInv, TypeOK, Dict
  <1>2. /\ Dict(hosts') /\ {inserted', next_host_id', runs'} \subseteq Nat
        /\ UniqueAddresses'
    <2>1. CASE Skip
      BY <2>1, <1>1 DEF Skip, IInv, UniqueAddresses, FromArguments
    <2>2. CASE ~Skip
      <3>1. PICK name \in Name, ip \in Address : ~exists_ip(hosts, ip) /\ Assign(name, ip)
        BY <2>2
      <3>2. hosts' = Insert(hosts, name, ip, inserted) /\ inserted' = inserted + 1
        BY <3>1 DEF Assign
      <3>3. Dict(hosts')
        BY <1>1, <3>2, InsertFacts
      <3>4. UniqueAddresses'
        BY <1>1, <3>1, <3>2, InsertUnique DEF IInv, UniqueAddresses, FromArguments
      <3>5. QED BY <1>1, <2>2, <3>2, <3>3, <3>4
    <2>3. QED BY <2>1, <2>2
  <1>3. TypeOK'
    BY <1>2 DEF IInv, TypeOK, Dict
  <1>4. Command'
    BY DEF IInv, Command, FromArguments
  <1>5. QED BY <1>2, <1>3, <1>4 DEF IInv
-----------------------------------------------------------------------------

LEMMA InitInv == Init => IInv
  <1> SUFFICES ASSUME Init PROVE IInv
    OBVIOUS
  <1> USE EmptyFacts, BuilderAssumption DEF Init
  <1>1. TypeOK
    BY DEF TypeOK, Dict, Missing
  <1>2. Command /\ UniqueAddresses
    BY DEF Command, UniqueAddresses, FromArguments
  <1>3. QED BY <1>1, <1>2 DEF IInv

\* The beginning of an invocation, with arguments or with entries to load.
LEMMA BeginInv ==
  ASSUME IInv,
         \/ ChangeHosts
         \/ LoadFile
  PROVE  IInv'
  <1>1. ASSUME NEW args \in Arguments, Begin(args, "build_hostnames") PROVE IInv'
    <2> USE EmptyFacts, BuilderAssumption, <1>1 DEF Begin
    <2>1. TypeOK'
      BY DEF IInv, TypeOK, Dict
    <2>2. Command' /\ UniqueAddresses'
      BY DEF Command, UniqueAddresses
    <2>3. QED BY <2>1, <2>2 DEF IInv
  <1>2. ASSUME NEW entries \in Loadable, Begin(entries, "load_file") PROVE IInv'
    <2> USE EmptyFacts, BuilderAssumption, <1>2 DEF Begin
    <2>1. TypeOK'
      BY DEF IInv, TypeOK, Dict
    <2>2. ~FromArguments'
      <3>1. entries # <<>> => entries[1] \in Entry
        OBVIOUS
      <3>2. \A e \in Entry : DOMAIN e = {"group", "name", "ip"}
        BY DEF Entry
      <3>3. QED BY <3>1, <3>2 DEF FromArguments
    <2>3. Command' /\ UniqueAddresses'
      BY <2>2 DEF Command, UniqueAddresses
    <2>4. QED BY <2>1, <2>3 DEF IInv
  <1>3. QED BY <1>1, <1>2 DEF ChangeHosts, LoadFile

\* The arguments: what the four kinds of additions and the deletions do.
LEMMA AddAddressInv == ASSUME IInv, AddAddress PROVE IInv'
  <1>1. /\ Head(todo) \in Argument /\ Head(todo).op = "address" /\ Tail(todo) \in Seq(Argument)
        /\ pc = "build_hostnames"
    BY NextTyped DEF IInv, AddAddress, NextArgument
  <1>2. Head(todo).ip \in Address
    BY <1>1 DEF Argument
  <1>3. NodeName(next_host_id) \in Name /\ next_host_id \in Nat
    BY NodeNameType DEF IInv, TypeOK
  <1>4. \/ Skip
        \/ /\ next_host_id' \in Nat
           /\ \E name \in Name, ip \in Address : ~exists_ip(hosts, ip) /\ Assign(name, ip)
    BY <1>2, <1>3 DEF AddAddress
  <1>5. /\ DOMAIN local' = DOMAIN local \cup {"ip"}
        /\ local'.ip = Head(todo).ip
        /\ "hostname" \in DOMAIN local => local'.hostname = local.hostname
    BY DEF AddAddress
  <1>6. QED
    BY <1>1, <1>2, <1>4, <1>5, LoopStep DEF AddAddress, IInv, TypeOK

LEMMA AddNamedInv == ASSUME IInv, AddNamed PROVE IInv'
  <1>1. /\ Head(todo) \in Argument /\ Head(todo).op = "named" /\ Tail(todo) \in Seq(Argument)
        /\ pc = "build_hostnames"
    BY NextTyped DEF IInv, AddNamed, NextArgument
  <1>2. Head(todo).ip \in Address /\ Head(todo).name \in Name
    BY <1>1 DEF Argument
  <1>3. \/ Skip
        \/ /\ next_host_id' \in Nat
           /\ \E name \in Name, ip \in Address : ~exists_ip(hosts, ip) /\ Assign(name, ip)
    BY <1>2 DEF AddNamed, IInv, TypeOK
  <1>4. QED
    BY <1>1, <1>2, <1>3, LoopStep DEF AddNamed

LEMMA AddBareInv == ASSUME IInv, AddBare PROVE IInv'
  <1>1. Tail(todo) \in Seq(Argument) /\ pc = "build_hostnames"
    BY NextTyped DEF IInv, AddBare, NextArgument
  <1>2. \/ Skip
        \/ /\ next_host_id' \in Nat
           /\ \E name \in Name, ip \in Address : ~exists_ip(hosts, ip) /\ Assign(name, ip)
    BY DEF AddBare, IInv, TypeOK
  <1>3. QED
    BY <1>1, <1>2, LoopStep DEF AddBare, IInv, TypeOK

LEMMA ExpandRangeInv == ASSUME IInv, ExpandRange PROVE IInv'
  <1>1. /\ Head(todo) \in Argument /\ Head(todo).op = "range" /\ Tail(todo) \in Seq(Argument)
        /\ pc = "build_hostnames"
    BY NextTyped DEF IInv, ExpandRange, NextArgument
  <1>2. Head(todo) \in [op : {"range"}, first : Address, last : Address]
    BY <1>1 DEF Argument
  <1>3. /\ [op |-> "address", ip |-> Head(todo).first] \in Argument
        /\ [Head(todo) EXCEPT !.first = @ + 1] \in Argument
    BY <1>2 DEF Argument, Address
  <1>4. todo' \in Seq(Argument)
    BY <1>1, <1>3 DEF ExpandRange
  <1>5. TypeOK'
    BY <1>1, <1>4 DEF ExpandRange, Skip, IInv, TypeOK
  <1>6. Command' /\ UniqueAddresses'
    BY <1>1 DEF ExpandRange, Skip, IInv, Command, UniqueAddresses, FromArguments
  <1>7. QED BY <1>5, <1>6 DEF IInv

LEMMA DeleteInv == ASSUME IInv, Delete PROVE IInv'
  <1>1. Tail(todo) \in Seq(Argument) /\ pc = "build_hostnames"
    BY NextTyped DEF IInv, Delete, NextArgument
  <1>2. PICK found : hosts' = Pop(hosts, found)
    BY DEF Delete
  <1>3. Dict(hosts)
    BY DEF IInv, TypeOK, Dict
  <1>4. Dict(hosts') /\ DOMAIN hosts' \subseteq DOMAIN hosts
        /\ \A n \in DOMAIN hosts' : hosts'[n] = hosts[n]
    BY <1>2, <1>3, PopFacts
  <1>5. TypeOK'
    BY <1>1, <1>4 DEF Delete, Iterated, IInv, TypeOK, Dict
  <1>6. Command'
    BY <1>1 DEF Delete, Iterated, IInv, Command, FromArguments
  <1>7. UniqueAddresses'
    <2>1. argv' = argv
      BY DEF Delete, Iterated
    <2>2. FromArguments' => FromArguments
      BY <2>1 DEF FromArguments
    <2>3. UniqueAddresses
      BY DEF IInv
    <2>4. QED BY <1>4, <2>2, <2>3 DEF UniqueAddresses
  <1>8. QED BY <1>5, <1>6, <1>7 DEF IInv

\* The end of a command: groups, loaded entries, the file.
LEMMA SetGroupsInv == ASSUME IInv, SetGroups PROVE IInv'
  <1>1. groups' \in [Role -> SUBSET Name]
    BY DEF SetGroups, purge_invalid_hosts, IInv, TypeOK, Role, set_etcd, set_kube_control_plane, set_kube_node,
           set_calico_rr, First
  <1>2. TypeOK'
    BY <1>1 DEF SetGroups, purge_invalid_hosts, IInv, TypeOK
  <1>3. Command' /\ UniqueAddresses'
    BY DEF SetGroups, purge_invalid_hosts, IInv, Command, UniqueAddresses, FromArguments
  <1>4. QED BY <1>2, <1>3 DEF IInv

LEMMA LoadEntryInv == ASSUME IInv, LoadEntry PROVE IInv'
  <1>1. /\ Head(todo) \in Entry /\ Tail(todo) \in Seq(Entry) /\ pc = "load_file"
    BY DEF LoadEntry, add_host_to_group, IInv, TypeOK
  <1>2. Head(todo).name \in Name /\ Head(todo).ip \in Address /\ Head(todo).group \in Role
    BY <1>1 DEF Entry
  <1>3. Dict(hosts')
    BY <1>2, InsertFacts DEF LoadEntry, add_host_to_group, Assign, IInv, TypeOK, Dict
  <1>4. groups' \in [Role -> SUBSET Name]
    BY <1>2 DEF LoadEntry, add_host_to_group, IInv, TypeOK
  <1>5. TypeOK'
    BY <1>1, <1>3, <1>4 DEF LoadEntry, add_host_to_group, Assign, IInv, TypeOK, Dict
  <1>6. ~FromArguments'
    BY <1>1 DEF LoadEntry, add_host_to_group, IInv, Command, FromArguments
  <1>7. QED BY <1>1, <1>5, <1>6 DEF LoadEntry, add_host_to_group, IInv, Command, UniqueAddresses

LEMMA WriteInv == ASSUME IInv, Loaded \/ OpenForWriting PROVE IInv'
  <1> USE DEF Loaded, OpenForWriting, memory, IInv
  <1>1. TypeOK'
    BY DEF TypeOK, Truncated, Missing
  <1>2. Command' /\ UniqueAddresses'
    BY DEF Command, UniqueAddresses, FromArguments
  <1>3. QED BY <1>1, <1>2

LEMMA EndInv == ASSUME IInv, Dump \/ Kill \/ BareUnbound PROVE IInv'
  <1>1. Exit
    BY DEF Dump, Kill, BareUnbound
  <1>2. file'.is \in {"missing", "truncated", "complete"}
    BY DEF Dump, Kill, BareUnbound, IInv, TypeOK
  <1>3. QED BY <1>1, <1>2, ExitStep

LEMMA NextInv == ASSUME IInv, [Next]_vars PROVE IInv'
  <1>1. CASE UNCHANGED vars
    BY <1>1 DEF vars, memory, IInv, TypeOK, Command, UniqueAddresses, FromArguments
  <1>2. CASE Next
    BY <1>2, BeginInv, AddAddressInv, AddNamedInv, AddBareInv, ExpandRangeInv, DeleteInv,
       SetGroupsInv, LoadEntryInv, WriteInv, EndInv DEF Next
  <1>3. QED BY <1>1, <1>2

\* Every reachable state is well typed, in particular the variables that an
\* iteration of build_hostnames leaves to the next.
THEOREM BuilderTypeCorrect == Spec => []TypeOK
  <1>1. IInv => TypeOK
    BY DEF IInv
  <1>2. QED BY <1>1, InitInv, NextInv, PTL DEF Spec

\* No sequence of arguments, however long, makes two hosts share an address.
THEOREM AddressesUnique == Spec => []UniqueAddresses
  <1>1. IInv => UniqueAddresses
    BY DEF IInv
  <1>2. QED BY <1>1, InitInv, NextInv, PTL DEF Spec
-----------------------------------------------------------------------------

\* SetGroups starts from empty groups.
LEMMA GroupsSet ==
  ASSUME IInv, SetGroups
  PROVE  /\ groups'["etcd"] = set_etcd
         /\ groups'["kube_control_plane"] = set_kube_control_plane
         /\ groups'["kube_node"] = set_kube_node(set_etcd, set_kube_control_plane)
         /\ groups'["calico_rr"] = set_calico_rr
         /\ UNCHANGED <<argv, hosts, todo>>
  <1>1. \A r \in Role : groups[r] \cap DOMAIN hosts = {}
    BY DEF SetGroups, purge_invalid_hosts, IInv, Command, NoGroups
  <1>2. groups["etcd"] \cap DOMAIN hosts = {} /\ groups["kube_control_plane"] \cap DOMAIN hosts = {}
        /\ groups["kube_node"] \cap DOMAIN hosts = {} /\ groups["calico_rr"] \cap DOMAIN hosts = {}
    BY <1>1 DEF Role
  <1>3. (groups["etcd"] \cap DOMAIN hosts) \cup set_etcd = set_etcd
        /\ (groups["kube_control_plane"] \cap DOMAIN hosts) \cup set_kube_control_plane
             = set_kube_control_plane
    BY <1>2
  <1>. QED BY <1>2, <1>3 DEF SetGroups, purge_invalid_hosts, Role

\* Between that and the end of the command nothing of it changes.
LEMMA WritingStays ==
  ASSUME IInv, [Next]_vars, ~SetGroups, Writing'
  PROVE  Writing /\ UNCHANGED <<argv, hosts, groups, todo>>
  <1>1. Loaded \/ OpenForWriting \/ UNCHANGED vars
    BY DEF Next, Writing, ChangeHosts, LoadFile, Begin, ExpandRange, AddAddress, AddNamed, AddBare,
           BareUnbound, Delete, LoadEntry, add_host_to_group, Dump, Kill, Exit, Iterated, NextArgument
  <1>2. UNCHANGED <<argv, hosts, groups, todo>> /\ FromArguments
    BY <1>1 DEF Loaded, OpenForWriting, vars, memory, Writing, FromArguments
  <1>. QED BY <1>1, <1>2 DEF Loaded, OpenForWriting, vars, Writing, IInv, Command

LEMMA GroupsSeparated == ASSUME IInv, SetGroups PROVE SeparatedAtScale'
  <1> DEFINE etcd == set_etcd
             control_plane == set_kube_control_plane
  <1>1. /\ groups'["etcd"] = etcd
        /\ groups'["kube_control_plane"] = control_plane
        /\ groups'["kube_node"] = set_kube_node(etcd, control_plane)
        /\ groups'["calico_rr"] = set_calico_rr
    BY GroupsSet
  <1>2. AtScale' = AtScale /\ AtMassiveScale' = AtMassiveScale
    BY DEF SetGroups, purge_invalid_hosts, AtScale, AtMassiveScale
  <1>3. ASSUME AtScale
        PROVE  /\ etcd \cap (groups'["kube_node"] \cup control_plane) = {}
               /\ set_calico_rr = etcd
    BY <1>1, <1>3 DEF set_etcd, set_kube_control_plane, set_kube_node, set_calico_rr
  <1>4. ASSUME AtMassiveScale
        PROVE  control_plane \cap groups'["kube_node"] = {}
    BY <1>1, <1>4 DEF set_kube_node
  <1>5. QED
    BY <1>1, <1>2, <1>3, <1>4 DEF SeparatedAtScale

\* From the thresholds of the help text on, the groups are separate.
THEOREM ScaleSeparates == Spec => []SeparatedAtScale
  <1>1. Init => SeparatedAtScale
    BY DEF Init, SeparatedAtScale, Writing
  <1>2. ASSUME IInv, SeparatedAtScale, [Next]_vars PROVE SeparatedAtScale'
    <2>1. CASE SetGroups
      BY <1>2, <2>1, GroupsSeparated
    <2>2. CASE ~SetGroups /\ Writing'
      BY <1>2, <2>2, WritingStays DEF SeparatedAtScale, AtScale, AtMassiveScale
    <2>3. CASE ~Writing'
      BY <2>3 DEF SeparatedAtScale
    <2>4. QED BY <2>1, <2>2, <2>3
  <1>3. QED BY <1>1, <1>2, InitInv, NextInv, PTL DEF Spec
-----------------------------------------------------------------------------
(* The order of the hosts.                                                   *)

\* The order a dict is read in: no two names were inserted at the same time, and
\* any of them have a first one.
Ordered(d) ==
  /\ IsFiniteSet(DOMAIN d)
  /\ \A m, n \in DOMAIN d : d[m].at = d[n].at => m = n
  /\ \A T \in SUBSET DOMAIN d : T # {} => \E n \in T : \A m \in T : d[n].at <= d[m].at

\* What will be inserted comes after what is there.
Stamped == Ordered(hosts) /\ \A n \in DOMAIN hosts : hosts[n].at < inserted

\* A beginning of the dict.
Below(d, n) == {m \in DOMAIN d : d[m].at < d[n].at}
Beginning(d, S) == S \subseteq DOMAIN d /\ \A n \in S : Below(d, n) \subseteq S

\* A beginning with k names is what First returns.
LEMMA FirstIsBeginning ==
  ASSUME NEW d, Dict(d), Ordered(d), NEW S, Beginning(d, S), NEW k \in Nat, Cardinality(S) = k
  PROVE  First(d, k) = S
  <1>1. IsFiniteSet(S) /\ \A n \in DOMAIN d : IsFiniteSet(Below(d, n))
    BY FS_Subset DEF Ordered, Beginning, Below
  <1>2. ASSUME NEW n \in S PROVE n \in First(d, k)
    <2>1. n \in DOMAIN d /\ Below(d, n) \subseteq S \ {n}
      BY DEF Beginning, Below, Dict, Address
    <2>2. IsFiniteSet(S \ {n}) /\ Cardinality(S \ {n}) = k - 1
      BY <1>1, FS_RemoveElement
    <2>3. Cardinality(Below(d, n)) <= k - 1
      BY <2>1, <2>2, FS_Subset
    <2>4. Cardinality(Below(d, n)) \in Nat
      BY <1>1, <2>1, FS_CardinalityType
    <2>5. Cardinality(Below(d, n)) < k
      BY <2>3, <2>4
    <2>. QED BY <2>1, <2>5 DEF First, Below
  <1>3. ASSUME NEW n \in DOMAIN d \ S PROVE n \notin First(d, k)
    <2>1. S \subseteq Below(d, n)
      <3>1. ASSUME NEW m \in S PROVE m \in Below(d, n)
        <4>1. m \in DOMAIN d /\ m # n /\ n \notin Below(d, m) BY DEF Beginning
        <4>2. d[m].at \in Nat /\ d[n].at \in Nat BY <4>1 DEF Dict
        <4>. QED BY <4>1, <4>2 DEF Below, Ordered
      <3>. QED BY <3>1
    <2>2. k <= Cardinality(Below(d, n)) BY <1>1, <2>1, FS_Subset
    <2>3. Cardinality(Below(d, n)) \in Nat BY <1>1, FS_CardinalityType
    <2>. QED BY <2>2, <2>3 DEF First, Below
  <1>4. First(d, k) \subseteq DOMAIN d /\ S \subseteq DOMAIN d
    BY DEF First, Beginning
  <1>. QED BY <1>2, <1>3, <1>4

\* A beginning that is not all of the dict goes on with one name.
LEMMA NextBeginning ==
  ASSUME NEW d, Dict(d), Ordered(d), NEW S, Beginning(d, S), S # DOMAIN d
  PROVE  \E n \in DOMAIN d \ S :
           /\ Below(d, n) = S /\ Beginning(d, S \cup {n})
           /\ Cardinality(S \cup {n}) = Cardinality(S) + 1
  <1>1. S \subseteq DOMAIN d /\ DOMAIN d \ S # {} /\ DOMAIN d \ S \in SUBSET DOMAIN d
    BY DEF Beginning
  <1>2. PICK n \in DOMAIN d \ S : \A m \in DOMAIN d \ S : d[n].at <= d[m].at
    BY <1>1 DEF Ordered
  <1>3. Below(d, n) = S
    <2>1. ASSUME NEW m \in Below(d, n) PROVE m \in S
      <3>1. m \in DOMAIN d /\ d[m].at < d[n].at BY DEF Below
      <3>2. d[m].at \in Nat /\ d[n].at \in Nat BY <3>1 DEF Dict
      <3>. QED BY <1>2, <3>1, <3>2
    <2>2. ASSUME NEW m \in S PROVE m \in Below(d, n)
      <3>1. m \in DOMAIN d /\ m # n /\ n \notin Below(d, m) BY <1>1 DEF Beginning
      <3>2. d[m].at \in Nat /\ d[n].at \in Nat BY <3>1 DEF Dict
      <3>. QED BY <3>1, <3>2 DEF Below, Ordered
    <2>. QED BY <2>1, <2>2
  <1>4. Beginning(d, S \cup {n}) BY <1>1, <1>3 DEF Beginning
  <1>5. IsFiniteSet(S) BY <1>1, FS_Subset DEF Ordered
  <1>. QED BY <1>2, <1>3, <1>4, <1>5, FS_AddElement

\* Reading the dict from its start: a first name, and three where there are three.
LEMMA FirstNames ==
  ASSUME NEW d, Dict(d), Ordered(d), DOMAIN d # {}
  PROVE  /\ Cardinality(First(d, 1)) = 1
         /\ \E a \in DOMAIN d : Below(d, a) = {}
         /\ Cardinality(DOMAIN d) >= 3 =>
              /\ Cardinality(First(d, 3)) = 3
              /\ Cardinality(DOMAIN d) > 3 =>
                   \E n \in DOMAIN d \ First(d, 3) : Below(d, n) = First(d, 3)
  <1>1. Beginning(d, {}) /\ Cardinality({}) = 0
    BY FS_EmptySet DEF Beginning
  <1>2. PICK a \in DOMAIN d :
          Below(d, a) = {} /\ Beginning(d, {} \cup {a}) /\ Cardinality({} \cup {a}) = 1
    <2>1. PICK a \in DOMAIN d \ {} :
            /\ Below(d, a) = {} /\ Beginning(d, {} \cup {a})
            /\ Cardinality({} \cup {a}) = Cardinality({}) + 1
      BY <1>1, NextBeginning, Zenon
    <2>2. Cardinality({} \cup {a}) = 1 BY <1>1, <2>1
    <2>. QED BY <2>1, <2>2, Zenon
  <1>3. First(d, 1) = {} \cup {a} /\ Cardinality({} \cup {a}) = 1
    BY <1>2, FirstIsBeginning
  <1>4. ASSUME Cardinality(DOMAIN d) >= 3
        PROVE  /\ Cardinality(First(d, 3)) = 3
               /\ Cardinality(DOMAIN d) > 3 =>
                    \E n \in DOMAIN d \ First(d, 3) : Below(d, n) = First(d, 3)
    <2>1. PICK S : Beginning(d, S) /\ Cardinality(S) = 2
      <3>1. {} \cup {a} # DOMAIN d BY <1>2, <1>4
      <3>2. PICK b \in DOMAIN d \ ({} \cup {a}) :
              /\ Beginning(d, {} \cup {a} \cup {b})
              /\ Cardinality({} \cup {a} \cup {b}) = Cardinality({} \cup {a}) + 1
        BY <1>2, <3>1, NextBeginning, Zenon
      <3>3. Cardinality({} \cup {a} \cup {b}) = 2 BY <1>2, <3>2
      <3>. QED BY <3>2, <3>3, Zenon
    <2>2. S # DOMAIN d BY <1>4, <2>1
    <2>3. PICK T : Beginning(d, T) /\ Cardinality(T) = 3
      <3>1. PICK c \in DOMAIN d \ S :
              /\ Beginning(d, S \cup {c})
              /\ Cardinality(S \cup {c}) = Cardinality(S) + 1
        BY <2>1, <2>2, NextBeginning, Zenon
      <3>2. Cardinality(S \cup {c}) = 3 BY <2>1, <3>1
      <3>. QED BY <3>1, <3>2, Zenon
    <2>4. First(d, 3) = T BY <2>3, FirstIsBeginning
    <2>5. ASSUME Cardinality(DOMAIN d) > 3
          PROVE  \E n \in DOMAIN d \ T : Below(d, n) = T
      <3>1. T # DOMAIN d BY <2>3, <2>5
      <3>. QED BY <2>3, <3>1, NextBeginning
    <2>. QED BY <2>3, <2>4, <2>5
  <1>. QED BY <1>2, <1>3, <1>4

\* A name that is inserted comes last, or stays where it is.
LEMMA InsertOrdered ==
  ASSUME NEW d, Dict(d), Ordered(d), NEW name, NEW ip, NEW time \in Nat,
         \A n \in DOMAIN d : d[n].at < time
  PROVE  /\ Ordered(Insert(d, name, ip, time))
         /\ \A n \in DOMAIN Insert(d, name, ip, time) :
              Insert(d, name, ip, time)[n].at < time + 1
  <1> DEFINE e == Insert(d, name, ip, time)
  <1>1. DOMAIN e = DOMAIN d \cup {name}
    BY DEF Insert
  <1>2. /\ \A n \in DOMAIN d : e[n].at = d[n].at
        /\ name \notin DOMAIN d => e[name].at = time
    BY <1>1 DEF Insert
  <1> HIDE DEF e
  <1>3. \A n \in DOMAIN d : d[n].at \in Nat /\ d[n].at < time BY DEF Dict
  <1>4. IsFiniteSet(DOMAIN e) BY <1>1, FS_AddElement DEF Ordered
  <1>5. \A m, n \in DOMAIN e : e[m].at = e[n].at => m = n
    BY <1>1, <1>2, <1>3 DEF Ordered
  <1>6. ASSUME NEW T \in SUBSET DOMAIN e, T # {}
        PROVE  \E n \in T : \A m \in T : e[n].at <= e[m].at
    <2>1. CASE T \subseteq DOMAIN d
      <3>1. PICK n \in T : \A m \in T : d[n].at <= d[m].at BY <1>6, <2>1 DEF Ordered
      <3>. QED BY <1>2, <2>1, <3>1
    <2>2. CASE T \cap DOMAIN d = {}
      <3>1. T = {name} /\ e[name].at = time BY <1>1, <1>2, <1>6, <2>2
      <3>. QED BY <3>1
    <2>3. CASE T \cap DOMAIN d # {} /\ ~(T \subseteq DOMAIN d)
      <3>1. T \cap DOMAIN d \in SUBSET DOMAIN d OBVIOUS
      <3>2. PICK n \in T \cap DOMAIN d : \A m \in T \cap DOMAIN d : d[n].at <= d[m].at
        BY <2>3, <3>1 DEF Ordered
      <3>3. \A m \in T \ DOMAIN d : e[m].at = time BY <1>1, <1>2
      <3>4. \A m \in T : e[n].at <= e[m].at BY <1>2, <1>3, <3>2, <3>3
      <3>. QED BY <3>4
    <2>. QED BY <2>1, <2>2, <2>3
  <1>7. \A n \in DOMAIN e : e[n].at < time + 1
    BY <1>1, <1>2, <1>3
  <1>. QED BY <1>4, <1>5, <1>6, <1>7 DEF Ordered, e

\* A smaller dict has the order of the larger one.
LEMMA PopOrdered ==
  ASSUME NEW d, Ordered(d), NEW names
  PROVE  Ordered(Pop(d, names))
  <1>1. /\ DOMAIN Pop(d, names) \subseteq DOMAIN d
        /\ \A n \in DOMAIN Pop(d, names) : Pop(d, names)[n] = d[n]
    BY DEF Pop
  <1>2. IsFiniteSet(DOMAIN Pop(d, names)) BY <1>1, FS_Subset DEF Ordered
  <1>3. ASSUME NEW T \in SUBSET DOMAIN Pop(d, names), T # {}
        PROVE  \E n \in T : \A m \in T : Pop(d, names)[n].at <= Pop(d, names)[m].at
    <2>1. PICK n \in T : \A m \in T : d[n].at <= d[m].at BY <1>1, <1>3 DEF Ordered
    <2>. QED BY <1>1, <2>1
  <1>. QED BY <1>1, <1>2, <1>3 DEF Ordered

\* What an action does to the dict.
HostsStart == hosts' = NoHosts /\ inserted' = 0
HostsSame == UNCHANGED <<hosts, inserted>>
HostsInsert == \E name \in Name, ip \in Address : Assign(name, ip)
HostsPop == inserted' = inserted /\ \E names : hosts' = Pop(hosts, names)

LEMMA HostsSteps ==
  ASSUME IInv, [Next]_vars
  PROVE  HostsStart \/ HostsSame \/ HostsInsert \/ HostsPop
  <1>1. ASSUME NEW args, NEW command, Begin(args, command) PROVE HostsStart
    BY <1>1, EmptyFacts DEF Begin, HostsStart
  <1>2. ASSUME Exit PROVE HostsStart BY <1>2 DEF Exit, HostsStart
  <1>3. CASE AddAddress
    <2>1. Head(todo) \in Argument /\ Head(todo).op = "address"
      BY <1>3, NextTyped DEF IInv, AddAddress, NextArgument
    <2>2. Head(todo).ip \in Address BY <2>1 DEF Argument
    <2>3. NodeName(next_host_id) \in Name BY NodeNameType DEF IInv, TypeOK
    <2>. QED BY <1>3, <2>2, <2>3 DEF AddAddress, Skip, HostsSame, HostsInsert
  <1>4. CASE AddNamed
    <2>1. Head(todo) \in Argument /\ Head(todo).op = "named"
      BY <1>4, NextTyped DEF IInv, AddNamed, NextArgument
    <2>2. Head(todo).ip \in Address /\ Head(todo).name \in Name BY <2>1 DEF Argument
    <2>. QED BY <1>4, <2>2 DEF AddNamed, Skip, HostsSame, HostsInsert
  <1>5. CASE AddBare
    BY <1>5 DEF AddBare, Skip, HostsSame, HostsInsert, IInv, TypeOK
  <1>6. CASE LoadEntry
    <2>1. Head(todo) \in Entry BY <1>6 DEF LoadEntry, IInv, TypeOK
    <2>2. Head(todo).name \in Name /\ Head(todo).ip \in Address BY <2>1 DEF Entry
    <2>. QED BY <1>6, <2>2 DEF LoadEntry, HostsInsert
  <1>7. CASE Delete BY <1>7 DEF Delete, HostsPop
  <1>8. CASE ExpandRange \/ SetGroups \/ Loaded \/ OpenForWriting \/ UNCHANGED vars
    BY <1>8 DEF ExpandRange, Skip, SetGroups, Loaded, OpenForWriting, memory, vars, HostsSame
  <1>9. CASE ChangeHosts \/ LoadFile BY <1>1, <1>9 DEF ChangeHosts, LoadFile
  <1>10. CASE BareUnbound \/ Dump \/ Kill BY <1>2, <1>10 DEF BareUnbound, Dump, Kill
  <1>. QED BY <1>3, <1>4, <1>5, <1>6, <1>7, <1>8, <1>9, <1>10 DEF Next

LEMMA StampedInductive ==
  ASSUME IInv, Stamped, [Next]_vars PROVE Stamped'
  <1>1. Dict(hosts) /\ inserted \in Nat BY DEF IInv, TypeOK, Dict
  <1>2. CASE HostsStart
    BY <1>2, FS_EmptySet, EmptyFacts DEF HostsStart, Stamped, Ordered
  <1>3. CASE HostsSame BY <1>3 DEF HostsSame, Stamped
  <1>4. CASE HostsInsert
    <2>1. PICK name \in Name, ip \in Address :
            hosts' = Insert(hosts, name, ip, inserted) /\ inserted' = inserted + 1
      BY <1>4 DEF HostsInsert, Assign
    <2>2. /\ Ordered(Insert(hosts, name, ip, inserted))
          /\ \A n \in DOMAIN Insert(hosts, name, ip, inserted) :
               Insert(hosts, name, ip, inserted)[n].at < inserted + 1
      BY <1>1, InsertOrdered DEF Stamped
    <2>. QED BY <2>1, <2>2 DEF Stamped
  <1>5. CASE HostsPop
    <2>1. PICK names : hosts' = Pop(hosts, names) BY <1>5 DEF HostsPop
    <2>2. Ordered(Pop(hosts, names)) BY PopOrdered DEF Stamped
    <2>3. /\ DOMAIN Pop(hosts, names) \subseteq DOMAIN hosts
          /\ \A n \in DOMAIN Pop(hosts, names) : Pop(hosts, names)[n] = hosts[n]
      BY <1>1, PopFacts
    <2>. QED BY <1>5, <2>1, <2>2, <2>3 DEF HostsPop, Stamped
  <1>. QED BY <1>2, <1>3, <1>4, <1>5, HostsSteps

LEMMA StampedInit == Init => Stamped
  BY FS_EmptySet, EmptyFacts DEF Init, Stamped, Ordered

-----------------------------------------------------------------------------
(* What the groups are.                                                      *)

LEMMA GroupsDeployable == ASSUME IInv, Stamped, SetGroups PROVE DeployableGroups'
  <1> SUFFICES ASSUME DOMAIN hosts # {}
               PROVE  /\ Cardinality(groups'["etcd"]) \in {1, 3}
                      /\ SCALE_THRESHOLD > 3 /\ KUBE_CONTROL_HOSTS > 0 =>
                           groups'["kube_control_plane"] # {}
                      /\ DOMAIN hosts = UNION {groups'[r] : r \in Role}
    BY GroupsSet DEF DeployableGroups
  <1>1. Dict(hosts) /\ Ordered(hosts) /\ IsFiniteSet(DOMAIN hosts)
    BY DEF IInv, TypeOK, Dict, Stamped, Ordered
  <1>2. Cardinality(DOMAIN hosts) \in Nat BY <1>1, FS_CardinalityType
  <1>3. SCALE_THRESHOLD \in Nat /\ KUBE_CONTROL_HOSTS \in Nat BY BuilderAssumption
  <1>4. etcd_hosts_count = (IF Cardinality(DOMAIN hosts) >= 3 THEN 3 ELSE 1)
    BY DEF etcd_hosts_count
  <1>5. Cardinality(set_etcd) \in {1, 3}
    BY <1>1, <1>2, <1>4, FirstNames DEF set_etcd
  <1>6. ASSUME SCALE_THRESHOLD > 3, KUBE_CONTROL_HOSTS > 0 PROVE set_kube_control_plane # {}
    <2>1. CASE AtScale
      <3>1. Cardinality(DOMAIN hosts) > 3 /\ Cardinality(DOMAIN hosts) >= 3
        BY <1>2, <1>3, <1>6, <2>1 DEF AtScale
      <3>2. PICK n \in DOMAIN hosts \ First(hosts, 3) : Below(hosts, n) = First(hosts, 3)
        BY <1>1, <3>1, FirstNames
      <3>3. Cardinality(Below(hosts, n)) = 3 BY <1>1, <3>1, <3>2, FirstNames
      <3>4. n \in First(hosts, 3 + KUBE_CONTROL_HOSTS)
        BY <1>3, <1>6, <3>3 DEF First, Below
      <3>. QED BY <1>4, <2>1, <3>1, <3>2, <3>4 DEF set_kube_control_plane
    <2>2. CASE ~AtScale
      <3>1. PICK a \in DOMAIN hosts : Below(hosts, a) = {} BY <1>1, FirstNames
      <3>2. a \in First(hosts, KUBE_CONTROL_HOSTS)
        BY <1>3, <1>6, <3>1, FS_EmptySet DEF First, Below
      <3>. QED BY <2>2, <3>2 DEF set_kube_control_plane
    <2>. QED BY <2>1, <2>2
  <1>7. DOMAIN hosts = UNION {groups'[r] : r \in Role}
    <2>1. UNION {groups'[r] : r \in Role}
            = groups'["etcd"] \cup groups'["kube_control_plane"] \cup groups'["kube_node"]
                \cup groups'["calico_rr"]
      BY DEF Role
    <2>2. /\ set_etcd \subseteq DOMAIN hosts /\ set_kube_control_plane \subseteq DOMAIN hosts
          /\ set_calico_rr \subseteq DOMAIN hosts
          /\ \A e, c : set_kube_node(e, c) \subseteq DOMAIN hosts
                       /\ DOMAIN hosts \subseteq e \cup c \cup set_kube_node(e, c)
      BY DEF set_etcd, set_kube_control_plane, set_calico_rr, set_kube_node, First
    <2>. QED BY <2>1, <2>2, GroupsSet
  <1>. QED BY <1>5, <1>6, <1>7, GroupsSet

\* Every inventory that is written for arguments has one or three etcd hosts, a
\* control plane and something to do for each host (build_hostnames and the set_
\* methods), for any arguments and thresholds.
THEOREM GroupsAreDeployable == Spec => []DeployableGroups
  <1>1. Init => DeployableGroups
    BY DEF Init, DeployableGroups, Writing
  <1>2. ASSUME IInv, Stamped, DeployableGroups, [Next]_vars PROVE DeployableGroups'
    <2>1. CASE SetGroups BY <1>2, <2>1, GroupsDeployable
    <2>2. CASE ~SetGroups /\ Writing'
      BY <1>2, <2>2, WritingStays DEF DeployableGroups
    <2>3. CASE ~Writing' BY <2>3 DEF DeployableGroups
    <2>. QED BY <2>1, <2>2, <2>3
  <1>. QED BY <1>1, <1>2, InitInv, NextInv, StampedInit, StampedInductive, PTL DEF Spec

-----------------------------------------------------------------------------
(* The addresses a command asks for.                                         *)

\* No argument of the list deletes the address; one mentions it, and none
\* after that deletes it.
Kept(a, list) == \A i \in DOMAIN list : a \notin Deletes(list[i])
Mentioned(a, list) ==
  \E i \in DOMAIN list :
    a \in Adds(list[i]) /\ \A j \in i + 1 .. Len(list) : a \notin Deletes(list[j])

\* The arguments that are left name no host that is there, nor one twice, and
\* the next generated name is new.
NamesLeft ==
  /\ \A i \in DOMAIN todo : todo[i].op \notin {"bare", "delete_name"}
  /\ \A i \in DOMAIN todo :
       todo[i].op = "named" => todo[i].name \in OtherName /\ todo[i].name \notin DOMAIN hosts
  /\ \A i, j \in DOMAIN todo :
       todo[i].op = "named" /\ todo[j].op = "named" /\ todo[i].name = todo[j].name => i = j
  /\ \A k \in Nat : NodeName(k) \in DOMAIN hosts => k < next_host_id

\* What the command asks for is what its hosts and the rest of it amount to.
Amounts ==
  \A a \in Address :
    Mentioned(a, argv) <=> Mentioned(a, todo) \/ (exists_ip(hosts, a) /\ Kept(a, todo))

Asked ==
  FromArguments /\ pc # "idle" =>
    /\ argv \in Seq(Argument)
    /\ pc # "build_hostnames" => todo = <<>>
    /\ NamesDoNotClash => NamesLeft /\ Amounts

\* The first argument of a list and the others.
LEMMA ListFacts ==
  ASSUME NEW s \in Seq(Argument), s # <<>>, NEW a
  PROVE  /\ Kept(a, s) <=> a \notin Deletes(Head(s)) /\ Kept(a, Tail(s))
         /\ Mentioned(a, s) <=> \/ Mentioned(a, Tail(s))
                                \/ a \in Adds(Head(s)) /\ Kept(a, Tail(s))
  <1> DEFINE t == Tail(s)
             n == Len(s)
  <1>1. /\ n \in Nat \ {0} /\ DOMAIN s = 1 .. n /\ Head(s) = s[1]
        /\ Len(t) = n - 1 /\ DOMAIN t = 1 .. n - 1
        /\ \A i \in 1 .. n - 1 : t[i] = s[i + 1]
    OBVIOUS
  <1> HIDE DEF t, n
  <1>2. \A i \in 2 .. n : i - 1 \in 1 .. n - 1 /\ t[i - 1] = s[i]
    <2>1. ASSUME NEW i \in 2 .. n PROVE i - 1 \in 1 .. n - 1 /\ t[i - 1] = s[i]
      <3>1. i - 1 \in 1 .. n - 1 /\ (i - 1) + 1 = i BY <1>1, <2>1
      <3>. QED BY <1>1, <3>1
    <2>. QED BY <2>1
  <1>3. Kept(a, t) <=> \A j \in 2 .. n : a \notin Deletes(s[j])
    <2>1. ASSUME Kept(a, t), NEW j \in 2 .. n PROVE a \notin Deletes(s[j])
      BY <1>1, <1>2, <2>1 DEF Kept
    <2>2. ASSUME \A j \in 2 .. n : a \notin Deletes(s[j]), NEW i \in 1 .. n - 1
          PROVE  a \notin Deletes(t[i])
      <3>1. i + 1 \in 2 .. n /\ t[i] = s[i + 1] BY <1>1, <2>2
      <3>. QED BY <2>2, <3>1
    <2>. QED BY <1>1, <2>1, <2>2 DEF Kept
  <1>4. Kept(a, s) <=> a \notin Deletes(Head(s)) /\ Kept(a, t)
    <2>1. \A j \in 1 .. n : j = 1 \/ j \in 2 .. n BY <1>1
    <2>2. 1 \in 1 .. n /\ \A j \in 2 .. n : j \in 1 .. n BY <1>1
    <2>. QED BY <1>1, <1>3, <2>1, <2>2 DEF Kept
  <1>5. ASSUME Mentioned(a, s)
        PROVE  Mentioned(a, t) \/ (a \in Adds(Head(s)) /\ Kept(a, t))
    <2>1. PICK i \in 1 .. n :
            a \in Adds(s[i]) /\ \A j \in i + 1 .. n : a \notin Deletes(s[j])
      BY <1>1, <1>5 DEF Mentioned, n
    <2>2. CASE i = 1 BY <1>1, <1>3, <2>1, <2>2
    <2>3. CASE i # 1
      <3>1. i \in 2 .. n BY <1>1, <2>1, <2>3
      <3>2. i - 1 \in 1 .. n - 1 /\ a \in Adds(t[i - 1]) BY <1>2, <2>1, <3>1
      <3>3. ASSUME NEW j \in (i - 1) + 1 .. n - 1 PROVE a \notin Deletes(t[j])
        <4>1. j \in 1 .. n - 1 /\ j + 1 \in i + 1 .. n BY <1>1, <3>1, <3>3
        <4>. QED BY <1>1, <2>1, <4>1
      <3>. QED BY <1>1, <3>2, <3>3 DEF Mentioned
    <2>. QED BY <2>2, <2>3
  <1>6. ASSUME Mentioned(a, t) PROVE Mentioned(a, s)
    <2>1. PICK i \in 1 .. n - 1 :
            a \in Adds(t[i]) /\ \A j \in i + 1 .. n - 1 : a \notin Deletes(t[j])
      BY <1>1, <1>6 DEF Mentioned
    <2>2. i + 1 \in 1 .. n /\ a \in Adds(s[i + 1]) BY <1>1, <2>1
    <2>3. ASSUME NEW j \in (i + 1) + 1 .. n PROVE a \notin Deletes(s[j])
      <3>1. j \in 2 .. n /\ j - 1 \in i + 1 .. n - 1 BY <1>1, <2>1, <2>3
      <3>. QED BY <1>2, <2>1, <3>1
    <2>. QED BY <1>1, <2>2, <2>3 DEF Mentioned, n
  <1>7. ASSUME a \in Adds(Head(s)), Kept(a, t) PROVE Mentioned(a, s)
    <2>1. 1 \in 1 .. n /\ a \in Adds(s[1]) /\ \A j \in 1 + 1 .. n : a \notin Deletes(s[j])
      BY <1>1, <1>3, <1>7
    <2>. QED BY <1>1, <2>1 DEF Mentioned, n
  <1>. QED BY <1>4, <1>5, <1>6, <1>7 DEF t

\* An argument that is done has added its addresses and deleted those it deletes.
LEMMA AmountsStep ==
  ASSUME todo \in Seq(Argument), todo # <<>>, Amounts, UNCHANGED argv, todo' = Tail(todo),
         Adds(Head(todo)) = {} \/ Deletes(Head(todo)) = {},
         \A a \in Address :
           exists_ip(hosts', a) <=> \/ exists_ip(hosts, a) /\ a \notin Deletes(Head(todo))
                                    \/ a \in Adds(Head(todo))
  PROVE  Amounts'
  <1> SUFFICES ASSUME NEW a \in Address
               PROVE  Mentioned(a, argv) <=>
                        Mentioned(a, todo') \/ (exists_ip(hosts', a) /\ Kept(a, todo'))
    BY DEF Amounts
  <1>1. Mentioned(a, argv) <=> Mentioned(a, todo) \/ (exists_ip(hosts, a) /\ Kept(a, todo))
    BY DEF Amounts
  <1>2. /\ Kept(a, todo) <=> a \notin Deletes(Head(todo)) /\ Kept(a, Tail(todo))
        /\ Mentioned(a, todo) <=> \/ Mentioned(a, Tail(todo))
                                  \/ a \in Adds(Head(todo)) /\ Kept(a, Tail(todo))
    BY ListFacts
  <1>. QED BY <1>1, <1>2

\* The names of the arguments that are left once the first is done.
LEMMA NamesStep ==
  ASSUME todo \in Seq(Argument), todo # <<>>, NamesLeft, todo' = Tail(todo),
         next_host_id \in Nat, next_host_id' \in Nat, next_host_id <= next_host_id',
         \A n \in DOMAIN hosts' :
           \/ n \in DOMAIN hosts
           \/ n = NodeName(next_host_id) /\ next_host_id' = next_host_id + 1
           \/ Head(todo).op = "named" /\ n = Head(todo).name
  PROVE  NamesLeft'
  <1> DEFINE n == Len(todo)
  <1>1. /\ n \in Nat \ {0} /\ DOMAIN todo = 1 .. n /\ Head(todo) = todo[1]
        /\ DOMAIN todo' = 1 .. n - 1
        /\ \A i \in 1 .. n - 1 : todo'[i] = todo[i + 1]
    OBVIOUS
  <1> HIDE DEF n
  <1>2. \A i \in 1 .. n - 1 : i + 1 \in 1 .. n /\ i + 1 # 1
    BY <1>1
  <1>3. \A o \in OtherName, k \in Nat : o # NodeName(k)
    BY BuilderAssumption DEF NodeName
  <1>4. \A i \in DOMAIN todo' : todo'[i].op \notin {"bare", "delete_name"}
    BY <1>1, <1>2 DEF NamesLeft
  <1>5. ASSUME NEW i \in DOMAIN todo', todo'[i].op = "named"
        PROVE  todo'[i].name \in OtherName /\ todo'[i].name \notin DOMAIN hosts'
    <2>1. /\ i + 1 \in DOMAIN todo /\ todo'[i] = todo[i + 1]
          /\ 1 \in DOMAIN todo /\ i + 1 # 1
      BY <1>1, <1>2
    <2>2. todo'[i].name \in OtherName /\ todo'[i].name \notin DOMAIN hosts
      BY <1>5, <2>1 DEF NamesLeft
    <2>3. Head(todo).op = "named" => todo'[i].name # Head(todo).name
      BY <1>1, <1>5, <2>1 DEF NamesLeft
    <2>. QED BY <1>3, <2>2, <2>3
  <1>6. ASSUME NEW i \in DOMAIN todo', NEW j \in DOMAIN todo',
               todo'[i].op = "named", todo'[j].op = "named", todo'[i].name = todo'[j].name
        PROVE  i = j
    <2>1. i + 1 \in DOMAIN todo /\ j + 1 \in DOMAIN todo BY <1>1, <1>2
    <2>2. i + 1 = j + 1 BY <1>1, <1>6, <2>1 DEF NamesLeft
    <2>. QED BY <1>1, <2>2
  <1>7. ASSUME NEW k \in Nat, NodeName(k) \in DOMAIN hosts' PROVE k < next_host_id'
    <2>1. CASE NodeName(k) \in DOMAIN hosts BY <2>1 DEF NamesLeft
    <2>2. CASE NodeName(k) = NodeName(next_host_id) /\ next_host_id' = next_host_id + 1
      BY <2>2 DEF NodeName
    <2>3. CASE Head(todo).op = "named" /\ NodeName(k) = Head(todo).name
      BY <1>1, <1>3, <2>3 DEF NamesLeft
    <2>. QED BY <1>7, <2>1, <2>2, <2>3
  <1>. QED BY <1>4, <1>5, <1>6, <1>7 DEF NamesLeft

\* A command begins with no hosts and all of its arguments.
LEMMA AskedBegin == ASSUME IInv, ChangeHosts PROVE Asked'
  <1>1. PICK args \in Arguments : args # <<>> /\ Begin(args, "build_hostnames")
    BY DEF ChangeHosts
  <1>2. /\ argv' = args /\ todo' = args /\ hosts' = NoHosts /\ pc' = "build_hostnames"
        /\ args \in Seq(Argument)
    BY <1>1, EmptyFacts, BuilderAssumption DEF Begin
  <1>3. DOMAIN hosts' = {} BY <1>2, EmptyFacts
  <1>4. ASSUME NamesDoNotClash' PROVE NamesLeft'
    BY <1>2, <1>3, <1>4 DEF NamesLeft, NamesDoNotClash
  <1>5. Amounts'
    BY <1>2, <1>3 DEF Amounts, exists_ip
  <1>. QED BY <1>2, <1>4, <1>5 DEF Asked

\* What an iteration leaves to the next one.
LEMMA AskedFrame ==
  ASSUME Asked, UNCHANGED <<pc, argv>>, pc = "build_hostnames",
         FromArguments /\ NamesDoNotClash /\ NamesLeft /\ Amounts => NamesLeft' /\ Amounts'
  PROVE  Asked'
  BY DEF Asked, FromArguments, NamesDoNotClash

LEMMA AskedAddress == ASSUME IInv, Asked, AddAddress PROVE Asked'
  <1>1. /\ Head(todo) \in Argument /\ Head(todo).op = "address" /\ todo \in Seq(Argument)
        /\ todo # <<>> /\ pc = "build_hostnames" /\ UNCHANGED <<pc, argv>> /\ todo' = Tail(todo)
    BY NextTyped DEF IInv, AddAddress, NextArgument, Iterated
  <1>2. Adds(Head(todo)) = {Head(todo).ip} /\ Deletes(Head(todo)) = {}
    BY <1>1 DEF Adds, Deletes
  <1>3. next_host_id \in Nat BY DEF IInv, TypeOK
  <1>4. CASE exists_ip(hosts, Head(todo).ip)
    <2>1. UNCHANGED <<hosts, next_host_id>> BY <1>4 DEF AddAddress, Skip
    <2>2. ASSUME NamesLeft PROVE NamesLeft' BY <1>1, <1>3, <2>1, <2>2, NamesStep
    <2>3. ASSUME Amounts PROVE Amounts'
      BY <1>1, <1>2, <1>4, <2>1, <2>3, AmountsStep
    <2>. QED BY <1>1, <2>2, <2>3, AskedFrame
  <1>5. CASE ~exists_ip(hosts, Head(todo).ip)
    <2> DEFINE name == NodeName(next_host_id)
               ip == Head(todo).ip
    <2>1. hosts' = Insert(hosts, name, ip, inserted) /\ next_host_id' = next_host_id + 1
      BY <1>5 DEF AddAddress, Assign
    <2>2. /\ DOMAIN hosts' = DOMAIN hosts \cup {name} /\ hosts'[name].ip = ip
          /\ \A n \in DOMAIN hosts \ {name} : hosts'[n] = hosts[n]
      BY <2>1 DEF Insert
    <2>3. ASSUME NamesLeft PROVE NamesLeft'
      BY <1>1, <1>3, <2>1, <2>2, <2>3, NamesStep
    <2>4. ASSUME NamesLeft, Amounts PROVE Amounts'
      <3>1. name \notin DOMAIN hosts BY <1>3, <2>4 DEF NamesLeft
      <3>2. \A a : exists_ip(hosts', a) <=> exists_ip(hosts, a) \/ a = ip
        BY <2>2, <3>1 DEF exists_ip
      <3>. QED BY <1>1, <1>2, <2>4, <3>2, AmountsStep
    <2>. QED BY <1>1, <2>3, <2>4, AskedFrame
  <1>. QED BY <1>4, <1>5

LEMMA AskedNamed == ASSUME IInv, Asked, AddNamed PROVE Asked'
  <1>1. /\ Head(todo) \in Argument /\ Head(todo).op = "named" /\ todo \in Seq(Argument)
        /\ todo # <<>> /\ pc = "build_hostnames" /\ UNCHANGED <<pc, argv>> /\ todo' = Tail(todo)
    BY NextTyped DEF IInv, AddNamed, NextArgument, Iterated
  <1>2. Adds(Head(todo)) = {Head(todo).ip} /\ Deletes(Head(todo)) = {}
    BY <1>1 DEF Adds, Deletes
  <1>3. next_host_id \in Nat /\ next_host_id' = next_host_id
    BY DEF IInv, TypeOK, AddNamed, Skip
  <1>4. CASE exists_ip(hosts, Head(todo).ip)
    <2>1. UNCHANGED hosts BY <1>4 DEF AddNamed, Skip
    <2>2. ASSUME NamesLeft PROVE NamesLeft' BY <1>1, <1>3, <2>1, <2>2, NamesStep
    <2>3. ASSUME Amounts PROVE Amounts'
      BY <1>1, <1>2, <1>4, <2>1, <2>3, AmountsStep
    <2>. QED BY <1>1, <2>2, <2>3, AskedFrame
  <1>5. CASE ~exists_ip(hosts, Head(todo).ip)
    <2> DEFINE name == Head(todo).name
               ip == Head(todo).ip
    <2>1. hosts' = Insert(hosts, name, ip, inserted)
      BY <1>5 DEF AddNamed, Assign
    <2>2. /\ DOMAIN hosts' = DOMAIN hosts \cup {name} /\ hosts'[name].ip = ip
          /\ \A n \in DOMAIN hosts \ {name} : hosts'[n] = hosts[n]
      BY <2>1 DEF Insert
    <2>3. ASSUME NamesLeft PROVE NamesLeft'
      BY <1>1, <1>3, <2>2, <2>3, NamesStep
    <2>4. ASSUME NamesLeft, Amounts PROVE Amounts'
      <3>1. Head(todo) = todo[1] /\ 1 \in DOMAIN todo BY <1>1
      <3>2. name \notin DOMAIN hosts BY <1>1, <2>4, <3>1 DEF NamesLeft
      <3>3. \A a : exists_ip(hosts', a) <=> exists_ip(hosts, a) \/ a = ip
        BY <2>2, <3>2 DEF exists_ip
      <3>. QED BY <1>1, <1>2, <2>4, <3>3, AmountsStep
    <2>. QED BY <1>1, <2>3, <2>4, AskedFrame
  <1>. QED BY <1>4, <1>5

\* The hosts have addresses of their own: the first one with an address is the
\* only one.
LEMMA AskedDelete == ASSUME IInv, Asked, Delete PROVE Asked'
  <1>1. /\ Head(todo) \in Argument /\ Head(todo).op \in {"delete_name", "delete_ip"}
        /\ todo \in Seq(Argument) /\ todo # <<>> /\ pc = "build_hostnames"
        /\ UNCHANGED <<pc, argv, next_host_id>> /\ todo' = Tail(todo)
    BY NextTyped DEF IInv, Delete, NextArgument, Iterated
  <1>2. ASSUME NamesLeft PROVE Head(todo).op = "delete_ip"
    <2>1. Head(todo) = todo[1] /\ 1 \in DOMAIN todo BY <1>1
    <2>. QED BY <1>1, <1>2, <2>1 DEF NamesLeft
  <1>3. next_host_id \in Nat BY DEF IInv, TypeOK
  <1>4. DOMAIN hosts' \subseteq DOMAIN hosts BY DEF Delete, Pop
  <1>5. ASSUME NamesLeft PROVE NamesLeft'
    BY <1>1, <1>3, <1>4, <1>5, NamesStep
  <1>6. ASSUME FromArguments, NamesLeft, Amounts PROVE Amounts'
    <2> DEFINE ip == Head(todo).ip
               found == HasAddressFirst(hosts, ip)
    <2>1. Adds(Head(todo)) = {} /\ Deletes(Head(todo)) = {ip}
      BY <1>2, <1>6 DEF Adds, Deletes
    <2>2. hosts' = Pop(hosts, found) BY <1>2, <1>6 DEF Delete
    <2>3. DOMAIN hosts' = DOMAIN hosts \ found /\ \A n \in DOMAIN hosts' : hosts'[n] = hosts[n]
      BY <2>2 DEF Pop
    <2>4. \A m, n \in DOMAIN hosts : hosts[m].ip = hosts[n].ip => m = n
      BY <1>6 DEF IInv, UniqueAddresses
    <2>5. \A n \in DOMAIN hosts : hosts[n].at \in Nat BY DEF IInv, TypeOK
    <2>6. \A n \in DOMAIN hosts : n \in found <=> hosts[n].ip = ip
      BY <2>4, <2>5 DEF HasAddressFirst
    <2>7. \A a : exists_ip(hosts', a) <=> exists_ip(hosts, a) /\ a # ip
      BY <2>3, <2>6 DEF exists_ip
    <2>. QED BY <1>1, <1>6, <2>1, <2>7, AmountsStep
  <1>. QED BY <1>1, <1>5, <1>6, AskedFrame

\* A range is its first address and the rest of it.
LEMMA AskedRange == ASSUME IInv, Asked, ExpandRange PROVE Asked'
  <1> DEFINE range == Head(todo)
             x == [op |-> "address", ip |-> range.first]
             y == [range EXCEPT !.first = @ + 1]
             t == Tail(todo)
  <1>1. /\ range \in Argument /\ range.op = "range" /\ todo \in Seq(Argument)
        /\ todo # <<>> /\ pc = "build_hostnames" /\ t \in Seq(Argument)
        /\ UNCHANGED <<pc, argv, hosts, next_host_id>>
        /\ todo' = IF range.first > range.last THEN t ELSE <<x, y>> \o t
    BY NextTyped DEF IInv, ExpandRange, NextArgument, Skip
  <1>2. range \in [op : {"range"}, first : Nat, last : Nat]
    BY <1>1 DEF Argument, Address
  <1>3. Adds(range) = range.first .. range.last /\ Deletes(range) = {}
    BY <1>1 DEF Adds, Deletes
  <1>4. CASE range.first > range.last
    <2>1. Adds(range) = {} BY <1>2, <1>3, <1>4
    <2>2. ASSUME NamesLeft PROVE NamesLeft'
      <3>1. next_host_id \in Nat BY DEF IInv, TypeOK
      <3>. QED BY <1>1, <1>4, <2>2, <3>1, NamesStep
    <2>3. ASSUME Amounts PROVE Amounts'
      BY <1>1, <1>3, <1>4, <2>1, <2>3, AmountsStep
    <2>. QED BY <1>1, <2>2, <2>3, AskedFrame
  <1>5. CASE ~(range.first > range.last)
    <2>1. x.op = "address" /\ x.ip = range.first
      OBVIOUS
    <2>2. y.op = "range" /\ y.first = range.first + 1 /\ y.last = range.last
      BY <1>2
    <2>3. x \in Argument /\ y \in Argument
      BY <1>2, <2>1, <2>2 DEF Argument, Address
    <2>4. Adds(x) = {range.first} /\ Deletes(x) = {} BY <2>1 DEF Adds, Deletes
    <2>5. Adds(y) = range.first + 1 .. range.last /\ Deletes(y) = {}
      BY <2>2 DEF Adds, Deletes
    <2>6. \A a : a \in Adds(range) <=> a \in Adds(x) \/ a \in Adds(y)
      BY <1>2, <1>3, <1>5, <2>4, <2>5
    <2> HIDE DEF x, y
    <2> DEFINE s == <<y>> \o t
    <2>7. /\ s \in Seq(Argument) /\ s # <<>> /\ Head(s) = y /\ Tail(s) = t
      BY <1>1, <2>3
    <2>8. /\ todo' \in Seq(Argument) /\ todo' # <<>> /\ Head(todo') = x /\ Tail(todo') = s
      BY <1>1, <1>5, <2>3
    <2>9. ASSUME Amounts PROVE Amounts'
      <3> HIDE DEF s
      <3>1. ASSUME NEW a
            PROVE  /\ Kept(a, todo') <=> Kept(a, todo)
                   /\ Mentioned(a, todo') <=> Mentioned(a, todo)
        <4>1. /\ Kept(a, todo) <=> Kept(a, t)
              /\ Mentioned(a, todo) <=> Mentioned(a, t) \/ (a \in Adds(range) /\ Kept(a, t))
          BY <1>1, <1>3, ListFacts
        <4>2. /\ Kept(a, s) <=> Kept(a, t)
              /\ Mentioned(a, s) <=> Mentioned(a, t) \/ (a \in Adds(y) /\ Kept(a, t))
          BY <2>5, <2>7, ListFacts
        <4>3. /\ Kept(a, todo') <=> Kept(a, s)
              /\ Mentioned(a, todo') <=> Mentioned(a, s) \/ (a \in Adds(x) /\ Kept(a, s))
          BY <2>4, <2>8, ListFacts
        <4>. QED BY <2>6, <4>1, <4>2, <4>3
      <3>. QED BY <1>1, <2>9, <3>1 DEF Amounts
    <2>10. ASSUME NamesLeft PROVE NamesLeft'
      <3>1. /\ DOMAIN todo = 1 .. Len(todo) /\ Len(todo) \in Nat \ {0}
            /\ DOMAIN todo' = 1 .. Len(todo) + 1
            /\ todo'[1] = x /\ todo'[2] = y
            /\ \A i \in 3 .. Len(todo) + 1 : todo'[i] = todo[i - 1]
        BY <1>1, <1>5, <2>3
      <3>2. ASSUME NEW i \in DOMAIN todo'
            PROVE  \/ todo'[i].op \in {"address", "range"}
                   \/ i - 1 \in DOMAIN todo /\ todo'[i] = todo[i - 1]
        <4>1. i = 1 \/ i = 2 \/ i \in 3 .. Len(todo) + 1 BY <3>1
        <4>2. i \in 3 .. Len(todo) + 1 => i - 1 \in DOMAIN todo BY <3>1
        <4>. QED BY <2>1, <2>2, <3>1, <4>1, <4>2 DEF x, y
      <3>3. \A i \in DOMAIN todo' : todo'[i].op \notin {"bare", "delete_name"}
        BY <2>10, <3>2 DEF NamesLeft
      <3>4. \A i \in DOMAIN todo' : todo'[i].op = "named" =>
              todo'[i].name \in OtherName /\ todo'[i].name \notin DOMAIN hosts
        BY <2>10, <3>2 DEF NamesLeft
      <3>5. ASSUME NEW i \in DOMAIN todo', NEW j \in DOMAIN todo', todo'[i].op = "named",
                   todo'[j].op = "named", todo'[i].name = todo'[j].name
            PROVE  i = j
        <4>1. i - 1 = j - 1 BY <2>10, <3>2, <3>5 DEF NamesLeft
        <4>. QED BY <3>1, <4>1
      <3>. QED BY <1>1, <2>10, <3>3, <3>4, <3>5 DEF NamesLeft
    <2>. QED BY <1>1, <2>9, <2>10, AskedFrame
  <1>. QED BY <1>4, <1>5

LEMMA AskedInductive == ASSUME IInv, Asked, [Next]_vars PROVE Asked'
  <1>1. CASE ChangeHosts BY <1>1, AskedBegin
  <1>2. CASE LoadFile
    <2>1. PICK entries \in Loadable : argv' = entries BY <1>2 DEF LoadFile, Begin
    <2>2. entries # <<>> => entries[1] \in Entry BY BuilderAssumption
    <2>3. \A e \in Entry : DOMAIN e = {"group", "name", "ip"} BY DEF Entry
    <2>. QED BY <2>1, <2>2, <2>3 DEF Asked, FromArguments
  <1>3. CASE AddAddress BY <1>3, AskedAddress
  <1>4. CASE AddNamed BY <1>4, AskedNamed
  <1>5. CASE Delete BY <1>5, AskedDelete
  <1>6. CASE ExpandRange BY <1>6, AskedRange
  <1>7. CASE AddBare
    <2>1. /\ Head(todo).op = "bare" /\ todo \in Seq(Argument) /\ todo # <<>>
          /\ pc = "build_hostnames" /\ UNCHANGED <<pc, argv>>
      BY <1>7, NextTyped DEF IInv, AddBare, NextArgument, Iterated
    <2>2. Head(todo) = todo[1] /\ 1 \in DOMAIN todo BY <2>1
    <2>3. ~NamesLeft BY <2>1, <2>2 DEF NamesLeft
    <2>. QED BY <2>1, <2>3, AskedFrame
  <1>8. ASSUME SetGroups \/ Loaded \/ OpenForWriting \/ UNCHANGED vars PROVE Asked'
    <2>1. UNCHANGED <<argv, hosts, todo, next_host_id>>
      BY <1>8 DEF SetGroups, Loaded, OpenForWriting, memory, vars
    <2>2. /\ pc' # "idle" => pc # "idle"
          /\ pc' # "build_hostnames" /\ FromArguments /\ pc' # "idle" => todo = <<>>
      BY <1>8 DEF SetGroups, Loaded, OpenForWriting, vars, Asked
    <2>. QED BY <2>1, <2>2 DEF Asked, FromArguments, NamesDoNotClash, NamesLeft, Amounts
  <1>9. CASE LoadEntry
    <2>1. UNCHANGED argv /\ ~FromArguments BY <1>9 DEF LoadEntry, IInv, Command
    <2>. QED BY <2>1 DEF Asked, FromArguments
  <1>10. CASE BareUnbound \/ Dump \/ Kill
    <2>1. pc' = "idle" BY <1>10 DEF BareUnbound, Dump, Kill, Exit
    <2>. QED BY <2>1 DEF Asked
  <1>. QED BY <1>1, <1>2, <1>3, <1>4, <1>5, <1>6, <1>7, <1>8, <1>9, <1>10 DEF Next

\* An inventory whose command cannot mix up names has the addresses whose last
\* mention in the command is not a deletion (build_hostnames, its skipping of
\* addresses that are there and its deletions), for commands of any length.
THEOREM AskedAddressesOnly == Spec => []AddressesAsAsked
  <1>1. Init => Asked
    BY DEF Init, Asked
  <1>2. ASSUME IInv, Asked PROVE AddressesAsAsked
    <2> SUFFICES ASSUME Writing, NamesDoNotClash PROVE AddressesAsAsked
      BY DEF AddressesAsAsked
    <2>1. /\ argv \in Seq(Argument) /\ todo = <<>> /\ Amounts
      BY <1>2 DEF Writing, Asked
    <2>2. \A i \in DOMAIN argv : argv[i] \in Argument BY <2>1
    <2>3. \A r \in Argument : Adds(r) \subseteq Address
      BY DEF Adds, Argument, Address
    <2>4. ASSUME NEW a \in Address PROVE Mentioned(a, argv) <=> exists_ip(hosts, a)
      <3>1. Mentioned(a, argv) <=> Mentioned(a, <<>>) \/ (exists_ip(hosts, a) /\ Kept(a, <<>>))
        BY <2>1 DEF Amounts
      <3>. QED BY <3>1 DEF Mentioned, Kept
    <2>5. \A n \in DOMAIN hosts : hosts[n].ip \in Address BY <1>2 DEF IInv, TypeOK
    <2> DEFINE asked == {a \in UNION {Adds(argv[i]) : i \in DOMAIN argv} :
                           \E i \in DOMAIN argv : a \in Adds(argv[i]) /\
                                \A j \in i + 1 .. Len(argv) : a \notin Deletes(argv[j])}
    <2>6. ASSUME NEW a PROVE a \in asked <=> a \in Address /\ Mentioned(a, argv)
      BY <2>2, <2>3 DEF Mentioned
    <2>7. ASSUME NEW a
          PROVE  a \in {hosts[n].ip : n \in DOMAIN hosts} <=> a \in Address /\ exists_ip(hosts, a)
      BY <2>5 DEF exists_ip
    <2>8. {hosts[n].ip : n \in DOMAIN hosts} = asked
      BY <2>4, <2>6, <2>7
    <2>. QED BY <2>8 DEF AddressesAsAsked
  <1>. QED BY <1>1, <1>2, InitInv, NextInv, AskedInductive, PTL DEF Spec

=============================================================================
