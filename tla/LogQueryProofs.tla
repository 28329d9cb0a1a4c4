---------------------------- MODULE LogQueryProofs ----------------------------
(***************************************************************************)
(* Proofs about LogQuery, for any pods, logs, queries and failures: every  *)
(* stream that a goroutine has opened is in the list that is read, or its  *)
(* goroutine has still to put it there, and none stays open at the end;    *)
(* the rows of the answer are wanted lines, and no wanted line that was    *)
(* there when its stream was opened is missing.                            *)
(***************************************************************************)
EXTENDS LogQuery, TLAPS

Rows == [pod : Pods, line : Lines]

(* The sets of the variables. *)
Types ==
  /\ pods \subseteq Pods /\ DOMAIN place \subseteq Pods
  /\ place \in [DOMAIN place -> {"open", "append", "done"}]
  /\ log \in [Pods -> Seq(Lines)]
  /\ query \in Queries
  /\ phase \in {"idle", "opening", "reading", "failed", "answered"}
  /\ streams \in Seq(Pods) /\ open \subseteq Pods
  /\ next \in Nat \ {0} /\ pos \in Nat
  /\ opened \in [Pods -> Nat]
  /\ \A p \in Pods : InOrder(log[p]) /\ opened[p] <= Len(log[p])

(* Whose turn it is with each stream that was opened: its goroutine has still *)
(* to add it to the list, or it is there, once.                               *)
StreamInv ==
  /\ \A p \in DOMAIN place : place[p] # "done" => p \notin Range(streams)
  /\ \A i, j \in DOMAIN streams : streams[i] = streams[j] => i = j
  /\ \A p \in Pods : opened[p] > 0 \/ p \in open =>
       p \in Range(streams) \/ (p \in DOMAIN place /\ place[p] = "append")
  /\ phase = "idle" => streams = <<>> /\ open = {} /\ \A p \in Pods : opened[p] = 0
  /\ phase \in {"reading", "answered"} => \A p \in DOMAIN place : place[p] = "done"
  /\ phase \in {"failed", "answered"} => open = {}

(* Line i of p has been gone through. *)
WasRead(p, i) == \E n \in DOMAIN streams : streams[n] = p /\ (n < next \/ (n = next /\ i <= pos))

(* The rows are the wanted ones of the lines that were gone through, and all  *)
(* of those that were there when the stream of their pod was opened.          *)
RowsSound ==
  \A k \in DOMAIN rows :
    \E p \in Pods : \E i \in DOMAIN log[p] :
      rows[k] = Row(p, log[p][i]) /\ WasRead(p, i) /\ Wanted(log[p][i])

RowsOrdered ==
  \A j, k \in DOMAIN rows :
    j < k /\ rows[j].pod = rows[k].pod => rows[j].line.at < rows[k].line.at

RowsComplete ==
  \A p \in Pods : \A i \in 1..opened[p] :
    WasRead(p, i) /\ Delivered(p, i) /\ Wanted(log[p][i]) =>
      Row(p, log[p][i]) \in Range(rows)

RowsInv ==
  /\ rows \in Seq(Rows)
  /\ phase \in {"idle", "opening", "failed"} => rows = <<>>
  /\ phase \in {"idle", "opening"} => next = 1 /\ pos = 0
  /\ phase \in {"reading", "answered"} =>
       query.filter # "broken" /\ RowsSound /\ RowsOrdered /\ RowsComplete
  /\ phase = "answered" => next > Len(streams)

IInv == Types /\ StreamInv /\ RowsInv

USE LogsAssumption, TextsAssumption, QueriesAssumption

LEMMA RangeAppend ==
  ASSUME NEW S, NEW s \in Seq(S), NEW e \in S
  PROVE  /\ Range(Append(s, e)) = Range(s) \cup {e}
         /\ Append(s, e) \in Seq(S)
         /\ DOMAIN Append(s, e) = DOMAIN s \cup {Len(s) + 1} /\ DOMAIN s = 1..Len(s) /\ Len(s) \in Nat
         /\ \A i \in DOMAIN s : Append(s, e)[i] = s[i]
         /\ Append(s, e)[Len(s) + 1] = e
<1> DEFINE t == Append(s, e)
<1>1. /\ t \in Seq(S) /\ Len(t) = Len(s) + 1 /\ Len(s) \in Nat
      /\ \A i \in 1..Len(s) : t[i] = s[i]
      /\ t[Len(s) + 1] = e
  OBVIOUS
<1>2. DOMAIN s = 1..Len(s) /\ DOMAIN t = 1..(Len(s) + 1)
  BY <1>1
<1> HIDE DEF t
<1>3. Range(t) = Range(s) \cup {e}
  BY <1>1, <1>2 DEF Range
<1> QED
  BY <1>1, <1>2, <1>3 DEF t

LEMMA RowFields ==
  ASSUME NEW p \in Pods, NEW l \in Lines
  PROVE  Row(p, l) \in Rows /\ Row(p, l).pod = p /\ Row(p, l).line = l
  BY DEF Row, Rows

(* What the loop keeps of the lines that the scanner can hold is what was     *)
(* asked for.                                                                 *)
LEMMA KeptIsWanted ==
  ASSUME query \in Queries, query.filter # "broken", NEW l \in Lines, l.text # "long"
  PROVE  Kept(l) <=> Wanted(l)
<1>1. l.text \in {"hit", "miss", "odd"} /\ query.filter \in {"none", "regex"}
  BY QueriesAssumption DEF Lines, Filters
<1> QED
  BY <1>1 DEF Kept, Wanted, InRange

(* The wanted lines of a log are those the API server delivers and, of the    *)
(* first ones, the tail.                                                      *)
LEMMA TailIsDelivered ==
  ASSUME Types, NEW p \in Pods, NEW i \in 1..opened[p], Wanted(log[p][i]),
         query.tail > 0 => i > opened[p] - query.tail
  PROVE  Delivered(p, i)
<1>1. opened[p] \in Nat /\ query.tail \in Nat /\ query.from \in Nat
  BY QueriesAssumption DEF Types
<1>2. i >= FirstLine(p)
  BY <1>1 DEF FirstLine
<1>3. i \in DOMAIN log[p] /\ log[p][i] \in Lines
  BY <1>1 DEF Types
<1>4. log[p][i].at \in Nat
  BY <1>3 DEF Lines
<1> QED
  BY <1>1, <1>2, <1>4 DEF Delivered, Wanted

LEMMA InitIInv == Init => IInv
<1> SUFFICES ASSUME Init PROVE IInv
  OBVIOUS
<1>1. DOMAIN place = {} /\ place \in [{} -> {"open", "append", "done"}]
  BY DEF Init
<1>2. log \in [Pods -> Seq(Lines)] /\ \A p \in Pods : InOrder(log[p])
  BY LogsAssumption DEF Init
<1>3. \A p \in Pods : Len(log[p]) \in Nat
  BY <1>2
<1>4. streams = <<>> /\ streams \in Seq(Pods) /\ rows = <<>> /\ rows \in Seq(Rows) /\ DOMAIN streams = {}
  BY DEF Init
<1>5. opened \in [Pods -> Nat] /\ \A p \in Pods : opened[p] = 0 /\ opened[p] <= Len(log[p])
  BY <1>3 DEF Init
<1>6. Types
  BY <1>1, <1>2, <1>4, <1>5 DEF Init, Types
<1>7. StreamInv
  BY <1>1, <1>4, <1>5 DEF Init, StreamInv
<1>8. RowsInv
  BY <1>4 DEF Init, RowsInv
<1> QED
  BY <1>6, <1>7, <1>8 DEF IInv

LEMMA GetPodsStep == IInv /\ (GetPods \/ GetPodsFails) => IInv'
<1> SUFFICES ASSUME IInv, GetPods \/ GetPodsFails PROVE IInv'
  OBVIOUS
<1>1. /\ phase = "idle" /\ open = {} /\ streams = <<>> /\ next = 1 /\ pos = 0 /\ rows = <<>>
      /\ UNCHANGED <<pods, log, query, streams, open, next, pos, rows, opened>>
  BY DEF GetPods, GetPodsFails, IInv, StreamInv, RowsInv, cluster
<1>2. phase' \in {"failed", "opening"}
  BY DEF GetPods, GetPodsFails
<1>3. \/ place' = place
      \/ \E P \in SUBSET Pods : place' = [p \in P |-> "open"]
  <2>1. (IF query.pod \in Pods THEN {query.pod} ELSE pods) \in SUBSET Pods
    BY DEF IInv, Types
  <2> QED
    BY <2>1 DEF GetPods, GetPodsFails
<1>4. DOMAIN place' \subseteq Pods /\ place' \in [DOMAIN place' -> {"open", "append", "done"}]
  <2>1. CASE place' = place
    BY <2>1 DEF IInv, Types
  <2>2. CASE \E P \in SUBSET Pods : place' = [p \in P |-> "open"]
    <3>1. PICK P \in SUBSET Pods : place' = [p \in P |-> "open"]
      BY <2>2
    <3>2. DOMAIN place' = P /\ \A p \in P : place'[p] = "open"
      BY <3>1
    <3> QED
      BY <3>1, <3>2
  <2> QED
    BY <1>3, <2>1, <2>2
<1>5. Types'
  BY <1>1, <1>2, <1>4 DEF IInv, Types
<1>6. Range(streams') = {} /\ \A p \in Pods : opened'[p] = 0
  BY <1>1 DEF IInv, StreamInv, Range
<1>7. StreamInv'
  BY <1>1, <1>2, <1>6 DEF StreamInv, IInv
<1>8. RowsInv'
  BY <1>1, <1>2 DEF RowsInv, IInv
<1> QED
  BY <1>5, <1>7, <1>8 DEF IInv

LEMMA GoroutineStep ==
  ASSUME IInv, NEW p \in Listed, Goroutine(p)
  PROVE  IInv'
<1>1. /\ p \in DOMAIN place /\ p \in Pods /\ phase = "opening" /\ place[p] # "done"
      /\ UNCHANGED <<pods, log, query, phase, next, pos, rows>>
  BY DEF Goroutine, Open, OpenFails, AppendStream, Listed, IInv, Types, cluster
<1>2. /\ place \in [DOMAIN place -> {"open", "append", "done"}] /\ opened \in [Pods -> Nat]
      /\ streams \in Seq(Pods) /\ log[p] \in Seq(Lines) /\ Len(log[p]) \in Nat
      /\ \A q \in Pods : opened[q] <= Len(log[q])
      /\ p \notin Range(streams)
  BY <1>1 DEF IInv, Types, StreamInv
<1>3. RowsInv'
  BY <1>1 DEF IInv, RowsInv
<1>4. CASE Open(p)
  <2>1. /\ place' = [place EXCEPT ![p] = "append"] /\ open' = open \cup {p} /\ streams' = streams
        /\ opened' = [opened EXCEPT ![p] = Len(log[p])]
    BY <1>4 DEF Open
  <2>2. /\ opened' \in [Pods -> Nat] /\ \A q \in Pods : opened'[q] <= Len(log[q])
        /\ \A q \in Pods \ {p} : opened'[q] = opened[q]
    BY <1>1, <1>2, <2>1
  <2>3. /\ DOMAIN place' = DOMAIN place /\ place' \in [DOMAIN place -> {"open", "append", "done"}]
        /\ place'[p] = "append" /\ \A q \in DOMAIN place \ {p} : place'[q] = place[q]
    BY <1>1, <1>2, <2>1
  <2>4. Types'
    BY <1>1, <2>1, <2>2, <2>3 DEF IInv, Types
  <2>5. StreamInv'
    BY <1>1, <1>2, <2>1, <2>2, <2>3 DEF IInv, StreamInv
  <2> QED
    BY <1>3, <2>4, <2>5 DEF IInv
<1>5. CASE OpenFails(p)
  <2>1. /\ place' = [place EXCEPT ![p] = "done"] /\ place[p] = "open"
        /\ open' = open /\ streams' = streams /\ opened' = opened
    BY <1>5 DEF OpenFails
  <2>2. /\ DOMAIN place' = DOMAIN place /\ place' \in [DOMAIN place -> {"open", "append", "done"}]
        /\ place'[p] = "done" /\ \A q \in DOMAIN place \ {p} : place'[q] = place[q]
    BY <1>1, <1>2, <2>1
  <2>3. Types'
    BY <1>1, <2>1, <2>2 DEF IInv, Types
  <2>4. StreamInv'
    BY <1>1, <1>2, <2>1, <2>2 DEF IInv, StreamInv
  <2> QED
    BY <1>3, <2>3, <2>4 DEF IInv
<1>6. CASE AppendStream(p)
  <2>1. /\ place' = [place EXCEPT ![p] = "done"] /\ open' = open /\ streams' = Append(streams, p)
        /\ opened' = opened
    BY <1>6 DEF AppendStream, Added
  <2>2. /\ DOMAIN place' = DOMAIN place /\ place' \in [DOMAIN place -> {"open", "append", "done"}]
        /\ place'[p] = "done" /\ \A q \in DOMAIN place \ {p} : place'[q] = place[q]
    BY <1>1, <1>2, <2>1
  <2>3. /\ streams' \in Seq(Pods) /\ Range(streams') = Range(streams) \cup {p}
        /\ DOMAIN streams' = DOMAIN streams \cup {Len(streams) + 1}
        /\ \A i \in DOMAIN streams : streams'[i] = streams[i]
        /\ streams'[Len(streams) + 1] = p
    BY <1>1, <1>2, <2>1, RangeAppend
  <2>4. Types'
    BY <1>1, <2>1, <2>2, <2>3 DEF IInv, Types
  <2>5. \A i, j \in DOMAIN streams' : streams'[i] = streams'[j] => i = j
    <3>1. \A i \in DOMAIN streams : streams[i] # p
      BY <1>2 DEF Range
    <3> QED
      BY <2>3, <3>1 DEF IInv, StreamInv
  <2>6. StreamInv'
    BY <1>1, <1>2, <2>1, <2>2, <2>3, <2>5 DEF IInv, StreamInv
  <2> QED
    BY <1>3, <2>4, <2>6 DEF IInv
<1> QED
  BY <1>4, <1>5, <1>6 DEF Goroutine

(* Reading begins, with no line gone through, or the query fails.             *)
LEMMA CompileStep == IInv /\ Compile => IInv'
<1> SUFFICES ASSUME IInv, Compile PROVE IInv'
  OBVIOUS
<1>1. /\ phase = "opening" /\ rows = <<>> /\ next = 1 /\ pos = 0
      /\ UNCHANGED <<pods, log, query, place, streams, next, pos, opened>>
      /\ \A p \in DOMAIN place : place[p] = "done"
  BY DEF Compile, IInv, RowsInv, Listed, cluster
<1>2. open \subseteq Range(streams)
  BY <1>1 DEF IInv, Types, StreamInv
<1>3. \/ phase' = "failed" /\ open' = {} /\ rows' = <<>>
      \/ phase' = "reading" /\ query.filter # "broken" /\ UNCHANGED <<open, rows>>
  BY <1>2 DEF Compile, Fail, StillOpen
<1>4. Types' /\ StreamInv'
  BY <1>1, <1>3 DEF IInv, Types, StreamInv
<1>5. rows' = <<>> /\ DOMAIN rows' = {} /\ rows' \in Seq(Rows)
  <2>1. rows' = <<>>
    BY <1>1, <1>3
  <2> QED
    BY <2>1
<1>6. \A p \in Pods : \A i \in 1..opened'[p] : ~WasRead(p, i)'
  <2>1. streams' \in Seq(Pods) /\ next' = 1 /\ pos' = 0
    BY <1>1 DEF IInv, Types
  <2> QED
    BY <2>1 DEF WasRead
<1>7. RowsSound' /\ RowsOrdered' /\ RowsComplete'
  BY <1>5, <1>6 DEF RowsSound, RowsOrdered, RowsComplete
<1>8. RowsInv'
  BY <1>1, <1>3, <1>5, <1>7 DEF RowsInv
<1> QED
  BY <1>4, <1>8 DEF IInv

(* The query ends in a failure, while the streams are read.                   *)
LEMMA FailStep ==
  ASSUME IInv, phase = "reading", Fail, next' \in Nat \ {0}, pos' \in Nat,
         UNCHANGED <<pods, log, query, place, streams, opened>>
  PROVE  IInv'
<1>1. open \subseteq Range(streams)
  BY DEF IInv, Types, StreamInv
<1>2. phase' = "failed" /\ open' = {} /\ rows' = <<>>
  BY <1>1 DEF Fail, StillOpen
<1>3. Types' /\ StreamInv'
  BY <1>2 DEF IInv, Types, StreamInv
<1>4. RowsInv'
  BY <1>2 DEF RowsInv
<1> QED
  BY <1>3, <1>4 DEF IInv

(* The next line of a stream is gone through: it becomes a row if it is       *)
(* wanted, and the scanner can hold it.                                       *)
LEMMA LineStep ==
  ASSUME IInv, ReadLine
  PROVE  IInv'
<1> DEFINE p == streams[next]
           l == log[p][pos + 1]
<1>1. /\ phase = "reading" /\ next \in DOMAIN streams /\ p \in Pods /\ pos < Len(log[p])
      /\ pos' = pos + 1 /\ pos' \in Nat /\ next \in Nat \ {0} /\ pos \in Nat
      /\ UNCHANGED <<pods, log, query, place, streams, next, opened>>
  BY DEF ReadLine, IInv, Types, cluster
<1>2. /\ log[p] \in Seq(Lines) /\ InOrder(log[p]) /\ l \in Lines /\ pos + 1 \in DOMAIN log[p]
      /\ streams \in Seq(Pods) /\ opened \in [Pods -> Nat] /\ \A q \in Pods : opened[q] <= Len(log[q])
  BY <1>1 DEF IInv, Types
<1>3. CASE Delivered(p, pos + 1) /\ l.text = "long"
  BY <1>1, <1>3, FailStep DEF ReadLine
<1>4. CASE ~(Delivered(p, pos + 1) /\ l.text = "long")
  <2>1. /\ rows' = IF Delivered(p, pos + 1) /\ Kept(l) THEN Append(rows, Row(p, l)) ELSE rows
        /\ UNCHANGED <<phase, open>>
    BY <1>1, <1>4 DEF ReadLine
  <2>2. /\ rows \in Seq(Rows) /\ query.filter # "broken"
        /\ RowsSound /\ RowsOrdered /\ RowsComplete /\ query \in Queries
    BY <1>1 DEF IInv, RowsInv, Types
  <2>3. Row(p, l) \in Rows /\ Row(p, l).pod = p /\ Row(p, l).line = l
    BY <1>1, <1>2, RowFields
  <2>4. Types' /\ StreamInv'
    BY <1>1, <2>1 DEF IInv, Types, StreamInv
  <2>5. \A q \in Pods, i \in Nat : WasRead(q, i)' <=> WasRead(q, i) \/ (q = p /\ i = pos + 1)
    BY <1>1, <1>2 DEF WasRead
  <2>6. \A i \in Nat : WasRead(p, i) => i <= pos
    BY <1>1, <1>2 DEF WasRead, IInv, StreamInv
  <2>7. \A q \in Pods : DOMAIN log[q] \subseteq Nat
    BY DEF IInv, Types
  <2>8. rows' \in Seq(Rows) /\ RowsSound' /\ RowsOrdered' /\ RowsComplete'
    <3>1. CASE Delivered(p, pos + 1) /\ Kept(l)
      <4>1. /\ rows' \in Seq(Rows) /\ Range(rows') = Range(rows) \cup {Row(p, l)}
            /\ DOMAIN rows' = DOMAIN rows \cup {Len(rows) + 1} /\ DOMAIN rows = 1..Len(rows) /\ Len(rows) \in Nat
            /\ \A k \in DOMAIN rows : rows'[k] = rows[k]
            /\ rows'[Len(rows) + 1] = Row(p, l)
        BY <2>1, <2>2, <2>3, <3>1, RangeAppend
      <4>2. Wanted(l)
        BY <1>2, <1>4, <2>2, <3>1, KeptIsWanted
      <4>3. RowsSound'
        <5> SUFFICES ASSUME NEW k \in DOMAIN rows'
                     PROVE  \E q \in Pods : \E i \in DOMAIN log[q] :
                              rows'[k] = Row(q, log[q][i]) /\ WasRead(q, i)' /\ Wanted(log[q][i])
          BY <1>1 DEF RowsSound, Wanted
        <5>1. CASE k \in DOMAIN rows
          <6>1. PICK q \in Pods : \E i \in DOMAIN log[q] :
                  rows[k] = Row(q, log[q][i]) /\ WasRead(q, i) /\ Wanted(log[q][i])
            BY <2>2, <5>1 DEF RowsSound
          <6>2. PICK i \in DOMAIN log[q] :
                  rows[k] = Row(q, log[q][i]) /\ WasRead(q, i) /\ Wanted(log[q][i])
            BY <6>1
          <6>3. WasRead(q, i)'
            BY <2>5, <2>7, <6>2
          <6> QED
            BY <4>1, <5>1, <6>2, <6>3
        <5>2. CASE k = Len(rows) + 1
          <6>1. PICK q \in Pods, i \in DOMAIN log[p] : q = p /\ i = pos + 1
            BY <1>1, <1>2
          <6>2. WasRead(q, i)'
            BY <1>1, <2>5, <6>1
          <6> QED
            BY <4>1, <4>2, <5>2, <6>1, <6>2
        <5> QED
          BY <4>1, <5>1, <5>2
      <4>4. RowsOrdered'
        <5> SUFFICES ASSUME NEW j \in DOMAIN rows', NEW k \in DOMAIN rows', j < k, rows'[j].pod = rows'[k].pod
                     PROVE  rows'[j].line.at < rows'[k].line.at
          BY DEF RowsOrdered
        <5>1. j \in DOMAIN rows /\ rows'[j] = rows[j]
          BY <4>1
        <5>2. CASE k \in DOMAIN rows
          BY <2>2, <4>1, <5>1, <5>2 DEF RowsOrdered
        <5>3. CASE k = Len(rows) + 1
          <6>1. PICK q \in Pods : \E i \in DOMAIN log[q] : rows[j] = Row(q, log[q][i]) /\ WasRead(q, i)
            BY <2>2, <5>1 DEF RowsSound
          <6>2. PICK i \in DOMAIN log[q] : rows[j] = Row(q, log[q][i]) /\ WasRead(q, i)
            BY <6>1
          <6>3. log[q][i] \in Lines
            BY DEF IInv, Types
          <6>4. rows[j].pod = q /\ rows[j].line = log[q][i]
            BY <6>2, <6>3, RowFields
          <6>5. q = p
            BY <2>3, <4>1, <5>1, <5>3, <6>4
          <6>6. i < pos + 1
            BY <1>1, <2>6, <2>7, <6>2, <6>5
          <6>7. log[p][i].at < l.at
            BY <1>2, <6>5, <6>6 DEF InOrder
          <6> QED
            BY <2>3, <4>1, <5>1, <5>3, <6>4, <6>5, <6>7
        <5> QED
          BY <4>1, <5>2, <5>3
      <4>5. RowsComplete'
        <5> SUFFICES ASSUME NEW q \in Pods, NEW i \in 1..opened[q], WasRead(q, i)',
                            Delivered(q, i), Wanted(log[q][i])
                     PROVE  Row(q, log[q][i]) \in Range(rows')
          BY <1>1 DEF RowsComplete, Delivered, FirstLine, Wanted
        <5>1. CASE WasRead(q, i)
          BY <2>2, <4>1, <5>1 DEF RowsComplete
        <5>2. CASE q = p /\ i = pos + 1
          BY <4>1, <5>2
        <5> QED
          BY <2>5, <5>1, <5>2
      <4> QED
        BY <4>1, <4>3, <4>4, <4>5
    <3>2. CASE ~(Delivered(p, pos + 1) /\ Kept(l))
      <4>1. rows' = rows
        BY <2>1, <3>2
      <4>2. ~(Delivered(p, pos + 1) /\ Wanted(l))
        BY <1>2, <1>4, <2>2, <3>2, KeptIsWanted
      <4>3. RowsSound'
        <5> SUFFICES ASSUME NEW k \in DOMAIN rows
                     PROVE  \E q \in Pods : \E i \in DOMAIN log[q] :
                              rows[k] = Row(q, log[q][i]) /\ WasRead(q, i)' /\ Wanted(log[q][i])
          BY <1>1, <4>1 DEF RowsSound, Wanted
        <5>1. PICK q \in Pods : \E i \in DOMAIN log[q] :
                rows[k] = Row(q, log[q][i]) /\ WasRead(q, i) /\ Wanted(log[q][i])
          BY <2>2 DEF RowsSound
        <5>2. PICK i \in DOMAIN log[q] :
                rows[k] = Row(q, log[q][i]) /\ WasRead(q, i) /\ Wanted(log[q][i])
          BY <5>1
        <5>3. WasRead(q, i)'
          BY <2>5, <2>7, <5>2
        <5> QED
          BY <5>2, <5>3
      <4>4. RowsOrdered'
        BY <2>2, <4>1 DEF RowsOrdered
      <4>5. RowsComplete'
        <5> SUFFICES ASSUME NEW q \in Pods, NEW i \in 1..opened[q], WasRead(q, i)',
                            Delivered(q, i), Wanted(log[q][i])
                     PROVE  Row(q, log[q][i]) \in Range(rows)
          BY <1>1, <4>1 DEF RowsComplete, Delivered, FirstLine, Wanted
        <5>1. WasRead(q, i)
          BY <2>5, <4>2
        <5> QED
          BY <2>2, <5>1 DEF RowsComplete
      <4> QED
        BY <2>2, <4>1, <4>3, <4>4, <4>5
    <3> QED
      BY <3>1, <3>2
  <2>9. RowsInv'
    BY <1>1, <2>1, <2>2, <2>8 DEF RowsInv
  <2> QED
    BY <2>4, <2>9 DEF IInv
<1> QED
  BY <1>3, <1>4

(* A stream ends after the lines that were there when it was opened: the      *)
(* lines of the streams up to it have been gone through.                      *)
LEMMA EndStep ==
  ASSUME IInv, EndOfStream
  PROVE  IInv'
<1>1. /\ phase = "reading" /\ next \in DOMAIN streams /\ next \in Nat \ {0} /\ pos \in Nat
      /\ pos >= opened[streams[next]] /\ next' = next + 1 /\ pos' = 0
      /\ UNCHANGED <<pods, log, query, phase, place, streams, open, rows, opened>>
  BY DEF EndOfStream, IInv, Types, cluster
<1>2. /\ streams \in Seq(Pods) /\ DOMAIN streams \subseteq Nat /\ opened \in [Pods -> Nat]
      /\ \A q \in Pods : DOMAIN log[q] \subseteq Nat \ {0}
      /\ query.filter # "broken" /\ RowsSound /\ RowsOrdered /\ RowsComplete /\ rows \in Seq(Rows)
  BY <1>1 DEF IInv, Types, RowsInv
<1>3. Types' /\ StreamInv'
  BY <1>1 DEF IInv, Types, StreamInv
<1>4. \A q \in Pods, i \in Nat \ {0} : WasRead(q, i) => WasRead(q, i)'
  BY <1>1, <1>2 DEF WasRead
<1>5. \A q \in Pods : \A i \in 1..opened[q] : WasRead(q, i)' => WasRead(q, i)
  <2> SUFFICES ASSUME NEW q \in Pods, NEW i \in 1..opened[q], WasRead(q, i)'
               PROVE  WasRead(q, i)
    OBVIOUS
  <2>1. opened[q] \in Nat /\ i \in Nat \ {0}
    BY <1>2
  <2>2. PICK n \in DOMAIN streams : streams[n] = q /\ (n < next + 1 \/ (n = next + 1 /\ i <= 0))
    BY <1>1 DEF WasRead
  <2>3. n < next \/ n = next
    BY <1>1, <1>2, <2>1, <2>2
  <2>4. n = next => i <= pos
    BY <1>1, <2>1, <2>2
  <2> QED
    BY <2>2, <2>3, <2>4 DEF WasRead
<1>6. RowsSound'
  <2> SUFFICES ASSUME NEW k \in DOMAIN rows
               PROVE  \E q \in Pods : \E i \in DOMAIN log[q] :
                        rows[k] = Row(q, log[q][i]) /\ WasRead(q, i)' /\ Wanted(log[q][i])
    BY <1>1 DEF RowsSound, Wanted
  <2>1. PICK q \in Pods : \E i \in DOMAIN log[q] :
          rows[k] = Row(q, log[q][i]) /\ WasRead(q, i) /\ Wanted(log[q][i])
    BY <1>2 DEF RowsSound
  <2>2. PICK i \in DOMAIN log[q] :
          rows[k] = Row(q, log[q][i]) /\ WasRead(q, i) /\ Wanted(log[q][i])
    BY <2>1
  <2>3. WasRead(q, i)'
    BY <1>2, <1>4, <2>2
  <2> QED
    BY <2>2, <2>3
<1>7. RowsOrdered'
  BY <1>1, <1>2 DEF RowsOrdered
<1>8. RowsComplete'
  <2> SUFFICES ASSUME NEW q \in Pods, NEW i \in 1..opened[q], WasRead(q, i)',
                      Delivered(q, i), Wanted(log[q][i])
               PROVE  Row(q, log[q][i]) \in Range(rows)
    BY <1>1 DEF RowsComplete, Delivered, FirstLine, Wanted
  <2>1. WasRead(q, i)
    BY <1>5
  <2> QED
    BY <1>2, <2>1 DEF RowsComplete
<1>9. RowsInv'
  BY <1>1, <1>2, <1>6, <1>7, <1>8 DEF RowsInv
<1> QED
  BY <1>3, <1>9 DEF IInv

LEMMA ReturnStep ==
  ASSUME IInv, Return
  PROVE  IInv'
<1>1. /\ phase = "reading" /\ phase' = "answered" /\ next > Len(streams) /\ open' = open \ Range(streams)
      /\ UNCHANGED <<pods, log, query, place, streams, next, pos, rows, opened>>
  BY DEF Return, StillOpen, cluster
<1>2. open' = {}
  BY <1>1 DEF IInv, Types, StreamInv
<1>3. Types' /\ StreamInv'
  BY <1>1, <1>2 DEF IInv, Types, StreamInv
<1>4. RowsInv'
  BY <1>1 DEF IInv, RowsInv, RowsSound, RowsOrdered, RowsComplete, WasRead, Delivered, FirstLine, Wanted
<1> QED
  BY <1>3, <1>4 DEF IInv

(* The logs only grow, and the times of the lines with them.                  *)
LEMMA WriteStep ==
  ASSUME IInv, NEW p \in Pods, Write(p)
  PROVE  IInv'
<1>1. PICK n \in 1..MaxClock, t \in Texts :
        /\ \A x \in Pods : \A i \in DOMAIN log[x] : log[x][i].at < n
        /\ log' = [log EXCEPT ![p] = Append(@, [at |-> n, text |-> t])]
  BY DEF Write
<1> DEFINE l == [at |-> n, text |-> t]
<1>2. l \in Lines /\ l.at = n
  BY <1>1, TextsAssumption DEF Lines
<1> HIDE DEF l
<1>3. /\ log \in [Pods -> Seq(Lines)] /\ \A q \in Pods : InOrder(log[q])
      /\ opened \in [Pods -> Nat] /\ \A q \in Pods : opened[q] <= Len(log[q])
  BY DEF IInv, Types
<1>rest. UNCHANGED <<pods, query, phase, place, streams, open, next, pos, rows, opened>>
  BY DEF Write
<1>4. log' = [log EXCEPT ![p] = Append(@, l)]
  BY <1>1 DEF l
<1>5. /\ log' \in [Pods -> Seq(Lines)] /\ log'[p] = Append(log[p], l)
      /\ \A q \in Pods \ {p} : log'[q] = log[q]
  BY <1>2, <1>3, <1>4
<1>6. /\ DOMAIN log'[p] = DOMAIN log[p] \cup {Len(log[p]) + 1} /\ DOMAIN log[p] = 1..Len(log[p])
      /\ Len(log[p]) \in Nat /\ \A i \in DOMAIN log[p] : log'[p][i] = log[p][i]
      /\ log'[p][Len(log[p]) + 1] = l
  BY <1>2, <1>3, <1>5, RangeAppend
<1>7. \A q \in Pods : InOrder(log'[q])
  <2>1. InOrder(log'[p])
    <3> SUFFICES ASSUME NEW i \in DOMAIN log'[p], NEW j \in DOMAIN log'[p], i < j
                 PROVE  log'[p][i].at < log'[p][j].at
      BY DEF InOrder
    <3>1. i \in DOMAIN log[p]
      BY <1>6
    <3>2. CASE j \in DOMAIN log[p]
      BY <1>3, <1>6, <3>1, <3>2 DEF InOrder
    <3>3. CASE j = Len(log[p]) + 1
      BY <1>1, <1>2, <1>6, <3>1, <3>3
    <3> QED
      BY <1>6, <3>2, <3>3
  <2> QED
    BY <1>3, <1>5, <2>1
<1>8. \A q \in Pods : opened[q] <= Len(log'[q])
  <2>1. Len(log'[p]) = Len(log[p]) + 1
    BY <1>2, <1>3, <1>5
  <2>2. opened[p] \in Nat /\ opened[p] <= Len(log[p]) /\ Len(log[p]) \in Nat
    BY <1>3, <1>6
  <2>3. opened[p] <= Len(log'[p])
    BY <2>1, <2>2
  <2> QED
    BY <1>3, <1>5, <2>3
<1>9. Types'
  BY <1>rest, <1>5, <1>7, <1>8 DEF IInv, Types
<1>10. StreamInv'
  BY <1>rest DEF IInv, StreamInv
<1>11. \A q \in Pods : \A i \in DOMAIN log[q] : i \in DOMAIN log'[q] /\ log'[q][i] = log[q][i]
  BY <1>5, <1>6
<1>12. RowsSound => RowsSound'
  <2> SUFFICES ASSUME RowsSound, NEW k \in DOMAIN rows
               PROVE  \E q \in Pods : \E i \in DOMAIN log'[q] :
                        rows[k] = Row(q, log'[q][i]) /\ WasRead(q, i) /\ Wanted(log'[q][i])
    BY <1>rest DEF RowsSound, WasRead, Wanted
  <2>1. PICK q \in Pods : \E i \in DOMAIN log[q] :
          rows[k] = Row(q, log[q][i]) /\ WasRead(q, i) /\ Wanted(log[q][i])
    BY DEF RowsSound
  <2> QED
    BY <1>11, <2>1
<1>13. RowsOrdered => RowsOrdered'
  BY <1>rest DEF RowsOrdered
<1>14. RowsComplete => RowsComplete'
  <2> SUFFICES ASSUME RowsComplete, NEW q \in Pods, NEW i \in 1..opened[q], WasRead(q, i),
                      i >= FirstLine(q), log'[q][i].at >= query.from, Wanted(log'[q][i])
               PROVE  Row(q, log'[q][i]) \in Range(rows)
    BY <1>rest DEF RowsComplete, Delivered, FirstLine, Wanted, WasRead
  <2>1. i \in DOMAIN log[q]
    BY <1>3
  <2>2. log'[q][i] = log[q][i]
    BY <1>11, <2>1
  <2> QED
    BY <2>2 DEF RowsComplete, Delivered
<1>15. RowsInv'
  BY <1>rest, <1>12, <1>13, <1>14 DEF IInv, RowsInv
<1> QED
  BY <1>9, <1>10, <1>15 DEF IInv

LEMMA StutterStep ==
  ASSUME IInv, (\E p \in Pods : Delete(p)) \/ UNCHANGED vars
  PROVE  IInv'
<1>1. pods' \subseteq Pods /\ UNCHANGED <<log, query, phase, place, streams, open, next, pos, rows, opened>>
  BY DEF Delete, vars, IInv, Types
<1> QED
  BY <1>1 DEF IInv, Types, StreamInv, RowsInv, RowsSound, RowsOrdered, RowsComplete, WasRead, Delivered,
              FirstLine, Wanted

(* The invariant holds in every state a query can reach. *)
THEOREM Invariance == Spec => []IInv
<1>1. IInv /\ ReadFails => IInv'
  BY FailStep DEF ReadFails, IInv, Types, cluster
<1>2. IInv /\ [Next]_vars => IInv'
  BY <1>1, GetPodsStep, GoroutineStep, CompileStep, LineStep, EndStep, ReturnStep, WriteStep, StutterStep
     DEF Next, Running
<1> QED
  BY InitIInv, <1>2, PTL DEF Spec

(* However the query ends, no stream stays open: every one that was opened is *)
(* in the list that the deferred function closes (client.go:563-568).         *)
THEOREM NoneLeftOpen == Spec => []StreamsClosed
<1>1. IInv => StreamsClosed
  BY DEF IInv, StreamInv, StreamsClosed
<1> QED
  BY <1>1, Invariance, PTL

(* Every row is a wanted line of the pod it is attributed to, and the rows of *)
(* a pod are in the order of its log (client.go:586-616).                     *)
THEOREM RowsAreTheLines == Spec => []RowsAreLines
<1>1. IInv => RowsAreLines
  <2> SUFFICES ASSUME IInv PROVE RowsAreLines
    OBVIOUS
  <2>1. CASE phase \in {"reading", "answered"}
    <3>1. RowsSound /\ RowsOrdered
      BY <2>1 DEF IInv, RowsInv
    <3>2. ASSUME NEW k \in DOMAIN rows
          PROVE  rows[k].line \in Range(log[rows[k].pod]) /\ Wanted(rows[k].line)
      <4>1. PICK p \in Pods : \E i \in DOMAIN log[p] : rows[k] = Row(p, log[p][i]) /\ Wanted(log[p][i])
        BY <3>1 DEF RowsSound
      <4>2. PICK i \in DOMAIN log[p] : rows[k] = Row(p, log[p][i]) /\ Wanted(log[p][i])
        BY <4>1
      <4>3. log[p][i] \in Lines
        BY DEF IInv, Types
      <4>4. rows[k].pod = p /\ rows[k].line = log[p][i]
        BY <4>2, <4>3, RowFields
      <4> QED
        BY <4>2, <4>4 DEF Range
    <3> QED
      BY <3>1, <3>2 DEF RowsAreLines, RowsOrdered
  <2>2. CASE phase \notin {"reading", "answered"}
    <3>1. rows = <<>>
      BY <2>2 DEF IInv, Types, RowsInv
    <3> QED
      BY <3>1 DEF RowsAreLines
  <2> QED
    BY <2>1, <2>2
<1> QED
  BY <1>1, Invariance, PTL

(* However the goroutines interleave, no stream that was opened is lost: the  *)
(* answer has every wanted line its log had then, or, with a tail, every one  *)
(* of the last lines (client.go:555-557).                                     *)
THEOREM NothingIsMissed == Spec => []NothingMissed
<1>1. IInv => NothingMissed
  <2> SUFFICES ASSUME IInv, phase = "answered", NEW p \in Pods, NEW i \in 1..opened[p],
                      Wanted(log[p][i]), query.tail > 0 => i > opened[p] - query.tail
               PROVE  Row(p, log[p][i]) \in Range(rows)
    BY DEF NothingMissed
  <2>1. opened[p] > 0 /\ opened[p] \in Nat
    BY DEF IInv, Types
  <2>2. p \in Range(streams)
    BY <2>1 DEF IInv, StreamInv
  <2>3. PICK n \in DOMAIN streams : streams[n] = p
    BY <2>2 DEF Range
  <2>4. n < next
    BY DEF IInv, Types, RowsInv
  <2>5. WasRead(p, i)
    BY <2>3, <2>4 DEF WasRead
  <2>6. Delivered(p, i)
    BY TailIsDelivered DEF IInv
  <2> QED
    BY <2>5, <2>6 DEF IInv, RowsInv, RowsComplete
<1> QED
  BY <1>1, Invariance, PTL
=============================================================================
