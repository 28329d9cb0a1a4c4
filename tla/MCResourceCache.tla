-------------------------- MODULE MCResourceCache --------------------------
(* Instances of ResourceCache for TLC. *)
EXTENDS ResourceCache, TLC

(* Queries are interchangeable. *)
Symmetry == Permutations(Requests)
=============================================================================
