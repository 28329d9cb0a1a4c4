------------------------------- MODULE PromQL -------------------------------
(***************************************************************************)
(* The part of PromQL that the queries of the application are written in. *)
(* A query is a record of its operator and its operands, as Prometheus    *)
(* parses it; module Prometheus evaluates it.  Prometheus is no code of   *)
(* this repository: the operators are modelled from what the queries in   *)
(* src/utils/utils.queries.ts need of them.                               *)
(*                                                                         *)
(* rate() and irate() of a counter are left out: a counter stands for its *)
(* increase per interval.                                                  *)
(***************************************************************************)
EXTENDS Integers

(* What stands for 1: shares, ratios and floor() are counted in parts of it. *)
One == 60

(* The first instant is a month old, the others are in the range of the page. *)
Prior == {1}
Instants == {2, 3}

(* name{sel}: the samples whose labels sel allows. *)
Metric(name, sel) == [op |-> "metric", name |-> name, sel |-> sel]
Zero == [op |-> "zero"]                                \* vector(0)

-----------------------------------------------------------------------------
(* Aggregations: one sample for every combination of the labels ks, or of all *)
(* but those; topk by (ks) (1, q) keeps one of the largest of each.           *)
By(fn, ks, q) == [op |-> "by", fn |-> fn, labels |-> ks, of |-> q]
SumBy(ks, q) == By("sum", ks, q)
MaxBy(ks, q) == By("max", ks, q)
AvgBy(ks, q) == By("avg", ks, q)
CountBy(ks, q) == By("count", ks, q)
GroupBy(ks, q) == By("group", ks, q)
Sum(q) == SumBy({}, q)
Count(q) == CountBy({}, q)
MaxWithout(ks, q) == [op |-> "without", fn |-> "max", labels |-> ks, of |-> q]
TopOneBy(ks, q) == [op |-> "topk", labels |-> ks, of |-> q]

-----------------------------------------------------------------------------
(* Every sample on its own: a number applied to its value, or compared with   *)
(* it, and its labels changed.                                                *)
Scalar(fn, n, q) == [op |-> "scalar", fn |-> fn, number |-> n, of |-> q]
Minus(q) == Scalar("*", -1, q)
Less(n, q) == Scalar("-", n, q)
Where(comparison, n, q) == [op |-> "where", fn |-> comparison, number |-> n, of |-> q]
Positive(q) == Where(">", 0, q)
NotNegative(q) == Where(">=", 0, q)
Timestamp(q) == [op |-> "timestamp", of |-> q]

(* label_replace sets a label, copies another one, or takes the parts of the    *)
(* values of another one that a regular expression captures; label_join puts    *)
(* several together.                                                             *)
LabelSet(k, value, q) == [op |-> "set", label |-> k, value |-> value, of |-> q]
LabelCopy(k, from, q) == [op |-> "copy", label |-> k, from |-> from, of |-> q]
LabelPart(k, parts, from, q) == [op |-> "part", label |-> k, parts |-> parts, from |-> from, of |-> q]
LabelJoin(k, from, q) == [op |-> "label_join", label |-> k, from |-> from, of |-> q]

-----------------------------------------------------------------------------
(* Operators between two vectors.  l fn on(on) group_left(extra) r: many      *)
(* samples of l match one of r; without on those with the same labels match.  *)
Join(fn, on, extra, l, r) == [op |-> "join", fn |-> fn, on |-> on, extra |-> extra, left |-> l, right |-> r]
Arith(fn, l, r) == [op |-> "arith", fn |-> fn, left |-> l, right |-> r]
Or(l, r) == [op |-> "or", left |-> l, right |-> r]
OrOn(on, l, r) == [op |-> "or on", on |-> on, left |-> l, right |-> r]
And(l, r) == [op |-> "and", left |-> l, right |-> r]
Unless(l, r) == [op |-> "unless", left |-> l, right |-> r]

-----------------------------------------------------------------------------
(* Functions of a subquery, which is evaluated at every instant of the range. *)
Over(fn, q, range) == [op |-> "over", fn |-> fn, of |-> q, range |-> range]
AvgOver(q) == Over("avg", q, Instants)
MaxOver(q) == Over("max", q, Instants)
SumOver(range, q) == Over("sum", q, range)
LastOver(q) == Over("last", q, Instants)
Changes(q) == Over("changes", q, Instants)
Increase(q) == Over("rate", q, Instants)               \* rate() of a gauge
Predict(steps, q) == [op |-> "predict_linear", steps |-> steps, of |-> q, range |-> Instants]
=============================================================================
