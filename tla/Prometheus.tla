----------------------------- MODULE Prometheus -----------------------------
(***************************************************************************)
(* How Prometheus evaluates the queries of module PromQL.  A sample is a  *)
(* record of its labels, a function from the names of the labels it has   *)
(* to their values, and of its value.  A query answers with a vector:     *)
(* whether it could be evaluated, and a set of samples of which no two    *)
(* have the same labels.  Metric names are left out, no query of the      *)
(* application keeps one.  Values are integers.                            *)
(*                                                                         *)
(* A database has, for every instant and every metric, the samples that   *)
(* were recorded.                                                          *)
(***************************************************************************)
EXTENDS Integers, Sequences, FiniteSets, FiniteSetsExt, Functions, TLC

LOCAL INSTANCE PromQL

(* The result of a division by zero. *)
Infinite == 9999

Sample(l, v) == [l |-> l, v |-> v]
Vector(S) == [ok |-> TRUE, s |-> S]
Failed == [ok |-> FALSE, s |-> {}]

(* A label that is missing is an empty one, and the other way round. *)
Label(x, k) == IF k \in DOMAIN x.l THEN x.l[k] ELSE ""
Present(l) == Restrict(l, {k \in DOMAIN l : l[k] # ""})
Pick(l, ks) == Restrict(l, DOMAIN l \cap ks)
Without(l, ks) == Restrict(l, DOMAIN l \ ks)
Set(l, k, value) == IF value = "" THEN Without(l, {k}) ELSE (k :> value) @@ l

Applied(fn, a, b) ==
  CASE fn = "+" -> a + b
    [] fn = "-" -> a - b
    [] fn = "*" -> a * b
    [] fn = "/" -> IF b = 0 THEN Infinite ELSE (a * One) \div b
    [] fn = "floor" -> b * (a \div b)
    [] fn = "of" -> b - a
    [] fn = "div" -> a \div b
Holds(comparison, a, b) ==
  CASE comparison = "==" -> a = b
    [] comparison = ">" -> a > b
    [] comparison = ">=" -> a >= b
    [] comparison = "<" -> a < b

-----------------------------------------------------------------------------
SumOf(X) == MapThenSumSet(LAMBDA x : x.v, X)
MaxOf(X) == Max({x.v : x \in X})
Combined(fn, X) ==
  CASE fn = "sum" -> SumOf(X)
    [] fn = "max" -> MaxOf(X)
    [] fn = "avg" -> SumOf(X) \div Cardinality(X)
    [] fn = "count" -> Cardinality(X)
    [] fn = "group" -> 1

(* One sample for every group of samples. *)
Aggregated(fn, group(_), V) ==
  [V EXCEPT !.s = {Sample(g, Combined(fn, {x \in V.s : group(x.l) = g})) : g \in {group(x.l) : x \in V.s}}]

(* Which one it is when several have the largest value is not determined. *)
Topmost(ks, V) ==
  LET group(x) == {y \in V.s : Pick(y.l, ks) = Pick(x.l, ks)}
  IN [V EXCEPT !.s = {CHOOSE y \in group(x) : y.v = MaxOf(group(x)) : x \in V.s}]

(* No two samples may have the same labels afterwards. *)
Relabelled(F(_), V) ==
  LET relabelled == {Sample(F(x), x.v) : x \in V.s}
      unique == Cardinality({x.l : x \in relabelled}) = Cardinality(V.s)
  IN IF V.ok /\ unique THEN Vector(relabelled) ELSE Failed

(* A regular expression for a part matches no empty value. *)
PartSet(q, x) ==
  LET value == Label(x, q.from)
  IN IF value = "" THEN x.l ELSE Set(x.l, q.label, IF value \in DOMAIN q.parts THEN q.parts[value] ELSE value)

-----------------------------------------------------------------------------
(* Not both sides of a match may have several samples for the same labels: the *)
(* query fails then, unless a side is empty.                                    *)
Joined(q, L, R) ==
  LET key(x) == Pick(x.l, q.on)
      result(x, y) == Sample(Present([k \in q.extra |-> Label(y, k)]) @@ Without(x.l, q.extra),
                             Applied(q.fn, x.v, y.v))
      pairs == {p \in L.s \X R.s : key(p[1]) = key(p[2])}
      oneRight == Cardinality({key(y) : y \in R.s}) = Cardinality(R.s)
      unique == Cardinality({result(p[1], p[2]).l : p \in pairs}) = Cardinality(pairs)
  IN IF L.s = {} \/ R.s = {} THEN Vector({})
     ELSE IF oneRight /\ unique THEN Vector({result(p[1], p[2]) : p \in pairs}) ELSE Failed

Matched(fn, L, R) ==
  Vector({Sample(p[1].l, Applied(fn, p[1].v, p[2].v)) : p \in {q \in L.s \X R.s : q[1].l = q[2].l}})

Both(q, L, R) ==
  CASE ~(L.ok /\ R.ok) -> Failed
    [] q.op = "join" -> Joined(q, L, R)
    [] q.op = "arith" -> Matched(q.fn, L, R)
    [] q.op = "or" -> Vector(L.s \cup {y \in R.s : \A x \in L.s : x.l # y.l})
    [] q.op = "or on" -> Vector(L.s \cup {y \in R.s : \A x \in L.s : Pick(x.l, q.on) # Pick(y.l, q.on)})
    [] q.op = "and" -> Vector({x \in L.s : \E y \in R.s : x.l = y.l})
    [] q.op = "unless" -> Vector({x \in L.s : \A y \in R.s : x.l # y.l})

-----------------------------------------------------------------------------
(* Functions of the values X that a series has at the instants of a range. *)
LastOf(X) == (CHOOSE x \in X : \A y \in X : y.t <= x.t).v
FirstOf(X) == (CHOOSE x \in X : \A y \in X : x.t <= y.t).v
Growth(X) == LastOf(X) - FirstOf(X)
Ranged(q, X) ==
  CASE q.op = "predict_linear" -> LastOf(X) + q.steps * Growth(X)
    [] q.fn = "last" -> LastOf(X)
    [] q.fn = "rate" -> Growth(X)
    [] q.fn = "changes" -> Cardinality({x \in X : \E y \in X : y.t = x.t + 1 /\ y.v # x.v})
    [] OTHER -> Combined(q.fn, X)

Along(q, V) ==
  LET values(l) == UNION {{[t |-> t, v |-> x.v] : x \in {y \in V[t].s : y.l = l}} : t \in DOMAIN V}
      labels == UNION {{x.l : x \in V[t].s} : t \in DOMAIN V}
  IN IF \A t \in DOMAIN V : V[t].ok
     THEN Vector({Sample(l, Ranged(q, values(l))) : l \in labels})
     ELSE Failed

-----------------------------------------------------------------------------
Selected(recorded, q) ==
  Vector({x \in (IF q.name \in DOMAIN recorded THEN recorded[q.name] ELSE {}) :
            \A k \in DOMAIN q.sel : Label(x, k) \in q.sel[k]})

(* The operators with one operand, applied to its value V at instant t. *)
Unary(q, V, t) ==
  CASE q.op = "by" -> Aggregated(q.fn, LAMBDA l : Pick(l, q.labels), V)
    [] q.op = "without" -> Aggregated(q.fn, LAMBDA l : Without(l, q.labels), V)
    [] q.op = "topk" -> Topmost(q.labels, V)
    [] q.op = "scalar" -> [V EXCEPT !.s = {Sample(x.l, Applied(q.fn, x.v, q.number)) : x \in @}]
    [] q.op = "where" -> [V EXCEPT !.s = {x \in @ : Holds(q.fn, x.v, q.number)}]
    [] q.op = "timestamp" -> [V EXCEPT !.s = {Sample(x.l, t) : x \in @}]
    [] q.op = "set" -> Relabelled(LAMBDA x : Set(x.l, q.label, q.value), V)
    [] q.op = "label_join" -> Relabelled(LAMBDA x : (q.label :> [i \in DOMAIN q.from |-> Label(x, q.from[i])]) @@ x.l, V)
    [] q.op = "copy" -> Relabelled(LAMBDA x : Set(x.l, q.label, Label(x, q.from)), V)
    [] q.op = "part" -> Relabelled(LAMBDA x : PartSet(q, x), V)

(* The value of a query at an instant. *)
RECURSIVE ValueAt(_, _, _)
ValueAt(db, q, t) ==
  CASE q.op = "metric" -> Selected(db[t], q)
    [] q.op = "zero" -> Vector({Sample(<<>>, 0)})
    [] "left" \in DOMAIN q -> Both(q, ValueAt(db, q.left, t), ValueAt(db, q.right, t))
    [] "range" \in DOMAIN q -> Along(q, [u \in q.range |-> ValueAt(db, q.of, u)])
    [] OTHER -> Unary(q, ValueAt(db, q.of, t), t)

Value(db, q) == ValueAt(db, q, Len(db))
=============================================================================
