------------------------- MODULE MCInventoryBuilder -------------------------
(***************************************************************************)
(* Instances of InventoryBuilder: every argument list of a few lengths over  *)
(* arguments chosen so that names, addresses and ranges meet each other.     *)
(***************************************************************************)
EXTENDS InventoryBuilder

CONSTANTS first, MaxLength

A(i) == [op |-> "address", ip |-> i]
R(i, j) == [op |-> "range", first |-> i, last |-> j]
N(n, i) == [op |-> "named", name |-> n, ip |-> i]
B(n) == [op |-> "bare", name |-> n]
DI(i) == [op |-> "delete_ip", ip |-> i]
DN(n) == [op |-> "delete_name", name |-> n]

MCOtherName == {first}

\* Ranges that reach the thresholds and one that is empty; a named host that
\* clashes with a generated name; an address with two names.
MCArgument ==
  {A(1), A(2), R(1, 3), R(2, 6), R(4, 3),
   N(NodeName(2), 3), N(first, 1), N(first, 4),
   B(first), B(NodeName(9)), DI(1), DI(4), DN(NodeName(1)), DN(first)}

MCArguments == UNION {[1..n -> MCArgument] : n \in 1..MaxLength}

\* A file whose second host has the address of the first.
MCLoadable == {<<>>, <<[group |-> "etcd", name |-> NodeName(1), ip |-> 1],
                       [group |-> "kube_node", name |-> first, ip |-> 1]>>}
=============================================================================
