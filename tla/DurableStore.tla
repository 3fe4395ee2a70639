---------------------------- MODULE DurableStore ----------------------------
(***************************************************************************)
(* What an etcd cluster promises to the API servers while kubespray removes  *)
(* and replaces its hosts: a write that was acknowledged stays, unless a     *)
(* majority of the members was destroyed or given up as broken.              *)
(* docs/recover-control-plane.md: "If quorum is lost it will attempt to take *)
(* a snapshot [...] and restore from that".                                  *)
(***************************************************************************)
EXTENDS Naturals

VARIABLES
  value,   \* number of writes that were acknowledged and are there
  lost     \* a majority was destroyed or given up, and not recovered since

Init == value = 0 /\ lost = FALSE

\* Members that were given up may still run.
Write == value' = value + 1 /\ UNCHANGED lost

Disaster == lost' = TRUE /\ UNCHANGED value

Recover == lost /\ value' \in 0 .. value /\ lost' = FALSE

Next == Write \/ Disaster \/ Recover

Spec == Init /\ [][Next]_<<value, lost>>
=============================================================================
