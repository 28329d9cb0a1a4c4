------------------------------ MODULE PortOwner ------------------------------
(***************************************************************************)
(* What the instances of a data source promise about the port of the       *)
(* Kubernetes server (pkg/plugin/datasource.go, pkg/kubernetes/server.go): *)
(* at any time at most one instance accepts connections on it, and an      *)
(* instance that is being disposed never takes it again.                   *)
(***************************************************************************)
CONSTANTS Instances, None

VARIABLES
  owner,      \* the instance that accepts connections on the port, or None
  retired     \* the instances that are disposed, or being disposed

vars == <<owner, retired>>

Init == owner = None /\ retired = {}

Acquire(i) ==
  /\ owner = None
  /\ i \notin retired
  /\ owner' = i
  /\ UNCHANGED retired

Release ==
  /\ owner # None
  /\ owner' = None
  /\ UNCHANGED retired

Retire(i) ==
  /\ i \notin retired
  /\ retired' = retired \cup {i}
  /\ UNCHANGED owner

Next == Release \/ \E i \in Instances : Acquire(i) \/ Retire(i)

Spec == Init /\ [][Next]_vars
=============================================================================
