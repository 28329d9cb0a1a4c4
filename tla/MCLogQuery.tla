---------------------------- MODULE MCLogQuery ----------------------------
(* Instances of LogQuery for TLC: two pods, and queries whose range, tail  *)
(* and filter each leave out a part of their logs.                         *)
EXTENDS LogQuery, TLC
CONSTANTS pod1, pod2

(* Lines of every sort, inside, at the ends and outside of the ranges. *)
Line(n, t) == [at |-> n, text |-> t]
MCLogs ==
  {<<Line(1, "hit"), Line(2, "miss"), Line(3, "hit")>>,
   <<Line(1, "hit"), Line(2, "odd"), Line(3, "long")>>,
   <<Line(1, "long"), Line(3, "hit")>>}

MCQueries ==
  {[pod |-> a, from |-> r[1], to |-> r[2], tail |-> n, filter |-> f] :
     a \in {Application, pod1}, r \in {<<0, 3>>, <<1, 9>>}, n \in {0, 2},
     f \in {"none", "regex", "broken"}}
=============================================================================
