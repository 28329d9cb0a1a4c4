-------------------------- MODULE MCResourceQuery --------------------------
(* Instances of ResourceQuery for TLC: two namespaces, two names, and the  *)
(* queries that make requests overlap.                                     *)
EXTENDS ResourceQuery, TLC
CONSTANTS n1, n2, x, y, a, b

Query(namespaces, filter, values, valid, wide) ==
  [namespaces |-> namespaces, filter |-> filter, values |-> values,
   valid |-> valid, wide |-> wide]

(* Two requests each: namespaces that overlap ("n1," asks for n1 and for   *)
(* all), a namespace asked for twice, alternatives that overlap, and the   *)
(* two other filters, also when they do not parse.                         *)
MCQueries ==
  {Query(s, "labelSelector", <<{a}>>, TRUE, w) :
     s \in {<<n1, n2>>, <<n1, All>>, <<n1, n1>>}, w \in BOOLEAN}
  \cup {Query(<<All>>, "labelSelector", <<{a}, {a, b}>>, TRUE, w) : w \in BOOLEAN}
  \cup {Query(s, "jsonPath", <<{a}>>, v, FALSE) : s \in {<<n1, n2>>, <<n1, All>>}, v \in BOOLEAN}
  \cup {Query(<<n1, n2>>, "regex", <<{x}>>, v, FALSE) : v \in BOOLEAN}

(* By namespace and by name. *)
MCOrder == (<<n1, x>> :> 1) @@ (<<n1, y>> :> 2) @@ (<<n2, x>> :> 3) @@ (<<n2, y>> :> 4)

MCKinds == {[namespaced |-> s, late |-> l] : s \in BOOLEAN, l \in BOOLEAN}
=============================================================================
