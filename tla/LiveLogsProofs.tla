--------------------------- MODULE LiveLogsProofs ---------------------------
(***************************************************************************)
(* Proofs about LiveLogs, for any number of viewers, pods, lines and       *)
(* faults: the types of its variables, that a run that was cancelled sends *)
(* at most one more line of each pod, that what a run has sent of a pod is *)
(* the beginning of its log, that the goroutines of a cancelled run end    *)
(* and that the next line is scanned.                                      *)
(***************************************************************************)
EXTENDS LiveLogs, TLAPS

Places == {"open", "scan", "check", "send", "done"}

(* Stated with a set for every function, so that a step can be followed. *)
Types ==
  /\ pods \subseteq Pods /\ former \subseteq Pods \ pods
  /\ log \in [Pods -> Seq(Texts)]
  /\ viewers \subseteq Viewers
  /\ run \in {"off", "starting", "streaming"}
  /\ pattern \in Range(Filter) \cup {{}}
  /\ cancelled \in BOOLEAN
  /\ Streamed \subseteq Pods /\ place \in [Streamed -> Places]
  /\ pos \in [Pods -> Nat]
  /\ \A p \in Pods : pos[p] \in 0..Len(log[p])
  /\ faults \in 0..MaxFaults
  /\ subscriptions \in 0..MaxSubscriptions
  /\ sent \in [Pods -> Seq(Frames)]
  /\ late \in [Pods -> Nat]
  /\ broken \subseteq Pods

(* A goroutine that has a line in its hands has scanned one. *)
LineInv == \A p \in Streamed : place[p] \in {"check", "send"} => pos[p] > 0

(* What a goroutine of a cancelled run sends it had passed the check with: it *)
(* comes to the check again before it sends anything else.                     *)
LateInv ==
  \A p \in Pods :
    /\ late[p] <= 1
    /\ run = "streaming" /\ p \in Streamed /\ late[p] > 0 =>
         cancelled /\ place[p] \in {"scan", "check", "done"}

(* What a run has sent of a pod is what it should have sent of the lines that *)
(* its goroutine is done with: all it has scanned, or all but the one that it *)
(* has in its hands.                                                          *)
SentInv ==
  run = "streaming" =>
    \A p \in Streamed :
      /\ \/ place[p] \in {"open", "scan", "done"} /\ IsBeginning(sent[p], log[p], pattern, pos[p])
         \/ /\ place[p] \in {"check", "send", "done"} /\ pos[p] > 0
            /\ IsBeginning(sent[p], log[p], pattern, pos[p] - 1)
      /\ place[p] = "send" => Matches(log[p], pattern, pos[p])

Base == Types /\ LineInv /\ LateInv
IInv == Base /\ SentInv

USE FilterAssumption, BoundsAssumption

(* Nothing is what should be sent of no lines. *)
LEMMA BeginningEmpty == \A l, f : IsBeginning(<<>>, l, f, 0)
  BY DEF IsBeginning

(* A line that is written leaves the lines before it alone. *)
LEMMA BeginningGrows ==
  ASSUME NEW s, NEW l \in Seq(Texts), NEW f, NEW n \in 0..Len(l), NEW t \in Texts,
         IsBeginning(s, l, f, n)
  PROVE  IsBeginning(s, Append(l, t), f, n)
<1>1. \A i \in 1..n : Append(l, t)[i] = l[i]
  OBVIOUS
<1> QED
  BY <1>1 DEF IsBeginning, Matches

(* A line that does not match is skipped. *)
LEMMA BeginningSkips ==
  ASSUME NEW s, NEW l, NEW f, NEW n \in Nat, n > 0,
         IsBeginning(s, l, f, n - 1), ~Matches(l, f, n)
  PROVE  IsBeginning(s, l, f, n)
<1>1. \A i \in 1..n : i = n \/ i \in 1..(n - 1)
  OBVIOUS
<1>2. \A i \in 1..(n - 1) : i \in 1..n
  OBVIOUS
<1> QED
  BY <1>1, <1>2 DEF IsBeginning

(* A line that matches is added, with its number and its text. *)
LEMMA BeginningSends ==
  ASSUME NEW s \in Seq(Frames), NEW l \in Seq(Texts), NEW f,
         NEW n \in 1..Len(l), IsBeginning(s, l, f, n - 1), Matches(l, f, n)
  PROVE  IsBeginning(Append(s, [at |-> n, text |-> l[n]]), l, f, n)
<1> DEFINE r == [at |-> n, text |-> l[n]]
           a == Append(s, r)
<1>1. r \in Frames /\ r.at = n /\ r.text = l[n]
  BY DEF Frames
<1> HIDE DEF r
<1>2. /\ DOMAIN s = 1..Len(s) /\ DOMAIN a = 1..(Len(s) + 1) /\ Len(s) \in Nat
      /\ \A k \in 1..Len(s) : a[k] = s[k]
      /\ a[Len(s) + 1] = r
  BY <1>1
<1> HIDE DEF a
<1>3. \A k \in DOMAIN s : s[k].at \in 1..(n - 1)
  BY DEF IsBeginning
<1>4. ASSUME NEW k \in DOMAIN a
      PROVE  a[k].at \in 1..n /\ Matches(l, f, a[k].at) /\ a[k].text = l[a[k].at]
  <2>1. CASE k = Len(s) + 1
    BY <1>1, <1>2, <2>1
  <2>2. CASE k \in DOMAIN s
    <3>1. s[k].at \in 1..n
      BY <1>3, <2>2
    <3> QED
      BY <1>2, <2>2, <3>1 DEF IsBeginning
  <2> QED
    BY <1>2, <2>1, <2>2
<1>5. ASSUME NEW j \in DOMAIN a, NEW k \in DOMAIN a, j < k
      PROVE  a[j].at < a[k].at
  <2>1. j \in DOMAIN s /\ a[j] = s[j] /\ s[j].at < n
    BY <1>2, <1>3, <1>5
  <2>2. CASE k = Len(s) + 1
    BY <1>1, <1>2, <2>1, <2>2
  <2>3. CASE k \in DOMAIN s
    BY <1>2, <1>5, <2>1, <2>3 DEF IsBeginning
  <2> QED
    BY <1>2, <2>2, <2>3
<1>6. ASSUME NEW i \in 1..n, Matches(l, f, i)
      PROVE  \E k \in DOMAIN a : a[k].at = i
  <2>1. CASE i = n
    BY <1>1, <1>2, <2>1
  <2>2. CASE i \in 1..(n - 1)
    <3>1. PICK k \in DOMAIN s : s[k].at = i
      BY <1>6, <2>2 DEF IsBeginning
    <3> QED
      BY <1>2, <3>1
  <2> QED
    BY <2>1, <2>2
<1> QED
  BY <1>4, <1>5, <1>6 DEF IsBeginning, a, r

LEMMA InitBase == Init => Base
<1> SUFFICES ASSUME Init PROVE Base
  OBVIOUS
<1>1. place \in [{} -> Places] /\ Streamed = {}
  BY DEF Init, Streamed
<1>2. <<>> \in Seq(Texts) /\ <<>> \in Seq(Frames) /\ Len(<<>>) = 0
  OBVIOUS
<1>3. log \in [Pods -> Seq(Texts)] /\ sent \in [Pods -> Seq(Frames)] /\ \A p \in Pods : Len(log[p]) = 0
  BY <1>2 DEF Init
<1>4. pos \in [Pods -> Nat] /\ late \in [Pods -> Nat] /\ \A p \in Pods : pos[p] = 0 /\ late[p] = 0
  BY DEF Init
<1>5. faults \in 0..MaxFaults /\ subscriptions \in 0..MaxSubscriptions
  BY BoundsAssumption DEF Init
<1>6. \A p \in Pods : pos[p] \in 0..Len(log[p])
  BY <1>3, <1>4
<1>7. place \in [Streamed -> Places]
  BY <1>1
<1>8. Types
  BY <1>1, <1>3, <1>4, <1>5, <1>6, <1>7 DEF Init, Types
<1> QED
  BY <1>1, <1>4, <1>8 DEF Base, LineInv, LateInv

(* The viewers and the cluster leave the goroutines alone. *)
LEMMA ViewerStep ==
  ASSUME Base, NEW v \in Viewers, Subscribe(v) \/ Denied(v) \/ Unsubscribe(v)
  PROVE  Base'
<1>1. CASE Subscribe(v)
  <2>1. Filter[v] \in Range(Filter)
    BY DEF Range
  <2> QED
    BY <1>1, <2>1 DEF Subscribe, NextPattern, Base, Types, LineInv, LateInv, Streamed, cluster
<1>2. CASE Denied(v)
  BY <1>2 DEF Denied, Base, Types, LineInv, LateInv, Streamed, cluster, stream
<1>3. CASE Unsubscribe(v)
  BY <1>3 DEF Unsubscribe, Base, Types, LineInv, LateInv, Streamed, cluster, stream
<1> QED
  BY <1>1, <1>2, <1>3

LEMMA ClusterStep ==
  ASSUME Base, NEW p \in Pods, Write(p) \/ Delete(p) \/ Create(p)
  PROVE  Base'
<1>1. CASE Write(p)
  <2>1. PICK t \in Texts : log' = [log EXCEPT ![p] = Append(@, t)]
    BY <1>1 DEF Write
  <2>2. \A q \in Pods : log'[q] \in Seq(Texts) /\ Len(log[q]) <= Len(log'[q])
    BY <2>1 DEF Base, Types
  <2>3. UNCHANGED <<pods, former, viewers, subscriptions, run, pattern, cancelled, place, pos, sent, late, broken, faults>>
    BY <1>1 DEF Write, grafana, stream
  <2>4. log' \in [Pods -> Seq(Texts)]
    BY <2>1 DEF Base, Types
  <2>5. \A q \in Pods : pos[q] \in 0..Len(log'[q])
    BY <2>2 DEF Base, Types
  <2>6. Types'
    BY <2>3, <2>4, <2>5 DEF Base, Types, Streamed
  <2> QED
    BY <2>3, <2>6 DEF Base, LineInv, LateInv, Streamed
<1>2. CASE Delete(p)
  BY <1>2 DEF Delete, Base, Types, LineInv, LateInv, Streamed, grafana, stream
<1>3. CASE Create(p)
  BY <1>3 DEF Create, Base, Types, LineInv, LateInv, Streamed, grafana, stream
<1> QED
  BY <1>1, <1>2, <1>3

(* The begin and the end of a run. *)
LEMMA RunStep ==
  ASSUME Base, ListPods \/ ListPodsFails \/ Return \/ Cancel
  PROVE  Base'
<1>1. CASE ListPods
  BY <1>1 DEF ListPods, Base, Types, LineInv, LateInv, Streamed, Places, cluster, grafana
<1>2. CASE ListPodsFails
  <2>1. faults' \in 0..MaxFaults
    BY <1>2 DEF ListPodsFails, Base, Types
  <2>2. /\ (run' = "off" /\ cancelled' = FALSE) \/ UNCHANGED <<run, cancelled>>
        /\ run = "starting"
        /\ UNCHANGED <<pods, former, log, viewers, subscriptions, pattern, place, pos, sent, late, broken>>
    BY <1>2 DEF ListPodsFails, cluster, grafana
  <2>3. run' \in {"starting", "off"} /\ cancelled' \in BOOLEAN
    BY <2>2 DEF Base, Types
  <2> QED
    BY <2>1, <2>2, <2>3 DEF Base, Types, LineInv, LateInv, Streamed
<1>3. CASE Return
  BY <1>3 DEF Return, Base, Types, LineInv, LateInv, Streamed, cluster, grafana
<1>4. CASE Cancel
  BY <1>4 DEF Cancel, Base, Types, LineInv, LateInv, Streamed, cluster, grafana
<1> QED
  BY <1>1, <1>2, <1>3, <1>4

LEMMA GoroutineStep ==
  ASSUME Base, NEW p \in Streamed, Goroutine(p)
  PROVE  Base'
<1> p \in Pods
  BY DEF Base, Types
<1>1. CASE Open(p)
  BY <1>1 DEF Open, Base, Types, LineInv, LateInv, Streamed, Places, cluster, grafana
<1>2. CASE OpenFails(p)
  <2>1. faults' \in 0..MaxFaults
    BY <1>2 DEF OpenFails, Base, Types
  <2>2. /\ place' = [place EXCEPT ![p] = "done"] /\ broken' = broken \cup {p}
        /\ UNCHANGED <<cluster, grafana, run, pattern, cancelled, pos, sent, late>>
    BY <1>2 DEF OpenFails, AfterOpenFault
  <2> QED
    BY <2>1, <2>2 DEF Base, Types, LineInv, LateInv, Streamed, Places, cluster, grafana
<1>3. CASE Scan(p)
  <2>1. /\ pos' = [pos EXCEPT ![p] = @ + 1] /\ place' = [place EXCEPT ![p] = "check"]
        /\ UNCHANGED <<cluster, grafana, run, pattern, cancelled, sent, late, broken, faults>>
        /\ pos[p] < Len(log[p]) /\ run = "streaming" /\ place[p] = "scan"
    BY <1>3 DEF Scan
  <2>2. pos' \in [Pods -> Nat] /\ \A q \in Pods : pos'[q] \in 0..Len(log[q])
    BY <2>1 DEF Base, Types
  <2>3. Types'
    BY <2>1, <2>2 DEF Base, Types, Streamed, Places, cluster, grafana
  <2>4. LineInv'
    BY <2>1, <2>2 DEF Base, Types, LineInv, Streamed
  <2>5. LateInv'
    BY <2>1 DEF Base, Types, LateInv, Streamed
  <2> QED
    BY <2>3, <2>4, <2>5 DEF Base
<1>4. CASE EndOfStream(p)
  BY <1>4 DEF EndOfStream, Base, Types, LineInv, LateInv, Streamed, Places, cluster, grafana
<1>5. CASE Check(p)
  BY <1>5 DEF Check, SeesDone, AfterOdd, Base, Types, LineInv, LateInv, Streamed, Places, cluster, grafana
<1>6. CASE Send(p)
  <2>1. Line(p) \in Texts
    BY <1>6 DEF Send, Line, Base, Types, LineInv
  <2>2. sent' \in [Pods -> Seq(Frames)]
    <3>1. [at |-> pos[p], text |-> Line(p)] \in Frames
      BY <2>1 DEF Frames, Base, Types
    <3>2. sent' = [sent EXCEPT ![p] = Append(@, [at |-> pos[p], text |-> Line(p)])]
      BY <1>6 DEF Send
    <3> QED
      BY <3>1, <3>2 DEF Base, Types
  <2>3. late[p] = 0
    <3>1. run = "streaming" /\ place[p] = "send"
      BY <1>6 DEF Send
    <3>2. late[p] \in Nat /\ ~(late[p] > 0)
      BY <3>1 DEF Base, Types, LateInv
    <3> QED
      BY <3>2
  <2> QED
    BY <1>6, <2>2, <2>3 DEF Send, Base, Types, LineInv, LateInv, Streamed, Places, cluster, grafana
<1>7. CASE SendFails(p)
  BY <1>7 DEF SendFails, Base, Types, LineInv, LateInv, Streamed, Places, cluster, grafana
<1> QED
  BY <1>1, <1>2, <1>3, <1>4, <1>5, <1>6, <1>7 DEF Goroutine

(* The lines of a pod that a run has sent, and the ones it has looked at, are  *)
(* what they were: all that happens to its log is that it grows.               *)
LEMMA SentStays ==
  ASSUME Base, SentInv, UNCHANGED <<run, pattern, place, pos, sent>>,
         \/ UNCHANGED log
         \/ \E p \in Pods, t \in Texts : log' = [log EXCEPT ![p] = Append(@, t)]
  PROVE  SentInv'
<1> SUFFICES ASSUME run = "streaming", NEW p \in Streamed
             PROVE  /\ \/ place[p] \in {"open", "scan", "done"} /\ IsBeginning(sent[p], log'[p], pattern, pos[p])
                       \/ /\ place[p] \in {"check", "send", "done"} /\ pos[p] > 0
                          /\ IsBeginning(sent[p], log'[p], pattern, pos[p] - 1)
                    /\ place[p] = "send" => Matches(log'[p], pattern, pos[p])
  BY DEF SentInv, Streamed
<1>1. p \in Pods /\ pos[p] \in 0..Len(log[p]) /\ log[p] \in Seq(Texts) /\ Len(log[p]) \in Nat
  BY DEF Base, Types
<1>2. place[p] \in {"check", "send"} => pos[p] > 0
  BY DEF Base, LineInv
<1>3. log'[p] = log[p] \/ \E t \in Texts : log'[p] = Append(log[p], t)
  BY <1>1 DEF Base, Types
<1>4. CASE log'[p] = log[p]
  BY <1>4 DEF SentInv
<1>5. ASSUME NEW t \in Texts, log'[p] = Append(log[p], t)
      PROVE  /\ \/ place[p] \in {"open", "scan", "done"} /\ IsBeginning(sent[p], log'[p], pattern, pos[p])
                \/ /\ place[p] \in {"check", "send", "done"} /\ pos[p] > 0
                   /\ IsBeginning(sent[p], log'[p], pattern, pos[p] - 1)
             /\ place[p] = "send" => Matches(log'[p], pattern, pos[p])
  <2>1. IsBeginning(sent[p], log[p], pattern, pos[p]) => IsBeginning(sent[p], log'[p], pattern, pos[p])
    BY <1>1, <1>5, BeginningGrows
  <2>2. pos[p] > 0 /\ IsBeginning(sent[p], log[p], pattern, pos[p] - 1)
          => IsBeginning(sent[p], log'[p], pattern, pos[p] - 1)
    <3>1. pos[p] > 0 => pos[p] - 1 \in 0..Len(log[p])
      BY <1>1
    <3> QED
      BY <1>1, <1>5, <3>1, BeginningGrows
  <2>3. pos[p] > 0 => log'[p][pos[p]] = log[p][pos[p]]
    BY <1>1, <1>5
  <2>4. place[p] = "send" => Matches(log'[p], pattern, pos[p])
    BY <1>2, <2>3 DEF SentInv, Matches
  <2> QED
    BY <2>1, <2>2, <2>4 DEF SentInv
<1> QED
  BY <1>3, <1>4, <1>5

(* One goroutine takes a step, and the others do not. *)
LEMMA SentGoroutine ==
  ASSUME Base, SentInv, NEW p \in Streamed, Goroutine(p)
  PROVE  SentInv'
<1> DEFINE Of(q) ==
      /\ \/ place[q] \in {"open", "scan", "done"} /\ IsBeginning(sent[q], log[q], pattern, pos[q])
         \/ /\ place[q] \in {"check", "send", "done"} /\ pos[q] > 0
            /\ IsBeginning(sent[q], log[q], pattern, pos[q] - 1)
      /\ place[q] = "send" => Matches(log[q], pattern, pos[q])
<1>1. /\ run = "streaming" /\ UNCHANGED <<log, run, pattern>> /\ p \in Pods /\ Streamed' = Streamed
      /\ \A q \in Streamed \ {p} : place'[q] = place[q] /\ pos'[q] = pos[q] /\ sent'[q] = sent[q]
  <2>1. place \in [Streamed -> Places] /\ pos \in [Pods -> Nat] /\ Streamed \subseteq Pods
        /\ sent \in [Pods -> Seq(Frames)]
    BY DEF Base, Types
  <2>2. run = "streaming" /\ UNCHANGED <<log, run, pattern>>
    BY DEF Goroutine, Open, OpenFails, Scan, EndOfStream, Check, Send, SendFails, cluster
  <2>3. /\ \E d \in Places : place' = [place EXCEPT ![p] = d]
        /\ pos' = pos \/ pos' = [pos EXCEPT ![p] = @ + 1]
        /\ sent' = sent \/ sent' = [sent EXCEPT ![p] = Append(@, [at |-> pos[p], text |-> Line(p)])]
    BY DEF Goroutine, Open, OpenFails, Scan, EndOfStream, Check, Send, SendFails, Places,
           AfterOpenFault, AfterOdd, SeesDone
  <2> QED
    BY <2>1, <2>2, <2>3 DEF Streamed
<1>2. \A q \in Streamed : Of(q)
  BY <1>1 DEF SentInv
<1>3. /\ place \in [Streamed -> Places] /\ pos \in [Pods -> Nat] /\ pos[p] \in 0..Len(log[p])
      /\ sent \in [Pods -> Seq(Frames)] /\ sent[p] \in Seq(Frames)
      /\ log[p] \in Seq(Texts) /\ Len(log[p]) \in Nat
  BY <1>1 DEF Base, Types
<1>4. place[p] \in {"check", "send"} => pos[p] > 0
  BY DEF Base, LineInv
<1>5. Of(p)'
  <2>1. CASE Open(p)
    <3>1. place[p] = "open" /\ place'[p] = "scan" /\ UNCHANGED <<pos, sent>>
      BY <1>3, <2>1 DEF Open
    <3> QED
      BY <1>1, <1>2, <3>1
  <2>2. CASE OpenFails(p)
    <3>1. place[p] = "open" /\ place'[p] = "done" /\ UNCHANGED <<pos, sent>>
      BY <1>3, <2>2 DEF OpenFails, AfterOpenFault
    <3> QED
      BY <1>1, <1>2, <3>1
  <2>3. CASE Scan(p)
    <3>1. place[p] = "scan" /\ place'[p] = "check" /\ pos'[p] = pos[p] + 1 /\ UNCHANGED sent
      BY <1>1, <1>3, <2>3 DEF Scan
    <3>2. IsBeginning(sent[p], log[p], pattern, pos[p])
      BY <1>2, <3>1
    <3>3. pos[p] \in Nat /\ pos'[p] > 0 /\ pos'[p] - 1 = pos[p]
      <4>1. pos[p] \in Nat
        BY <1>1, <1>3
      <4> QED
        BY <3>1, <4>1
    <3>4. IsBeginning(sent'[p], log'[p], pattern', pos'[p] - 1)
      <4>1. sent'[p] = sent[p] /\ log'[p] = log[p] /\ pattern' = pattern
        BY <1>1, <3>1
      <4> QED
        BY <3>2, <3>3, <4>1, Zenon
    <3> QED
      BY <3>1, <3>3, <3>4
  <2>4. CASE EndOfStream(p)
    <3>1. place[p] = "scan" /\ place'[p] = "done" /\ UNCHANGED <<pos, sent>>
      BY <1>3, <2>4 DEF EndOfStream
    <3> QED
      BY <1>1, <1>2, <3>1
  <2>5. CASE Check(p)
    <3>1. /\ place[p] = "check" /\ UNCHANGED <<pos, sent>>
          /\ place'[p] = IF cancelled THEN "done" ELSE IF Line(p) = Odd THEN "scan"
                         ELSE IF Line(p) \in pattern THEN "send" ELSE "scan"
      BY <1>3, <2>5 DEF Check, SeesDone, AfterOdd
    <3>2. IsBeginning(sent[p], log[p], pattern, pos[p] - 1) /\ pos[p] > 0
      BY <1>2, <3>1
    <3>3. CASE place'[p] \in {"done", "send"}
      <4>1. place'[p] = "send" => Matches(log[p], pattern, pos[p])
        BY <3>1 DEF Matches, Line
      <4> QED
        BY <1>1, <3>1, <3>2, <3>3, <4>1
    <3>4. CASE place'[p] = "scan"
      <4>1. ~Matches(log[p], pattern, pos[p])
        BY <3>1, <3>4 DEF Matches, Line
      <4>2. IsBeginning(sent[p], log[p], pattern, pos[p])
        BY <1>3, <3>2, <4>1, BeginningSkips
      <4> QED
        BY <1>1, <3>1, <3>4, <4>2
    <3> QED
      BY <3>1, <3>3, <3>4
  <2>6. CASE Send(p)
    <3>1. /\ place[p] = "send" /\ place'[p] = "scan" /\ UNCHANGED pos
          /\ sent'[p] = Append(sent[p], [at |-> pos[p], text |-> log[p][pos[p]]])
      BY <1>1, <1>3, <2>6 DEF Send, Line
    <3>2. IsBeginning(sent[p], log[p], pattern, pos[p] - 1) /\ Matches(log[p], pattern, pos[p])
      BY <1>2, <3>1
    <3>3. pos[p] \in 1..Len(log[p])
      BY <1>3, <1>4, <3>1
    <3>4. IsBeginning(sent'[p], log[p], pattern, pos[p])
      BY <1>3, <3>1, <3>2, <3>3, BeginningSends
    <3> QED
      BY <1>1, <3>1, <3>4
  <2>7. CASE SendFails(p)
    <3>1. place[p] = "send" /\ place'[p] = "done" /\ UNCHANGED <<pos, sent>>
      BY <1>3, <2>7 DEF SendFails
    <3> QED
      BY <1>1, <1>2, <1>4, <3>1
  <2> QED
    BY <2>1, <2>2, <2>3, <2>4, <2>5, <2>6, <2>7 DEF Goroutine
<1>6. ASSUME NEW q \in Streamed, q # p PROVE Of(q)'
  BY <1>1, <1>2, <1>6
<1> HIDE DEF Of
<1>7. \A q \in Streamed' : Of(q)'
  BY <1>1, <1>5, <1>6
<1> QED
  BY <1>7 DEF Of, SentInv

LEMMA SentStep ==
  ASSUME Base, SentInv, [Next]_vars
  PROVE  SentInv'
<1>1. CASE \E v \in Viewers : Subscribe(v) \/ Denied(v) \/ Unsubscribe(v)
  <2>1. CASE run = "streaming"
    <3>1. UNCHANGED <<run, pattern, place, pos, sent, log>>
      BY <1>1, <2>1 DEF Subscribe, Denied, Unsubscribe, NextPattern, cluster, stream
    <3> QED
      BY <3>1, SentStays
  <2>2. CASE run # "streaming"
    <3>1. run' # "streaming"
      BY <1>1, <2>2 DEF Subscribe, Denied, Unsubscribe, stream
    <3> QED
      BY <3>1 DEF SentInv
  <2> QED
    BY <2>1, <2>2
<1>2. CASE \E p \in Pods : Write(p) \/ Delete(p) \/ Create(p)
  BY <1>2, SentStays DEF Write, Delete, Create, stream
<1>3. CASE ListPods
  <2>1. /\ run' = "streaming" /\ Streamed' = pods /\ pods \subseteq Pods
        /\ \A p \in Pods : pos'[p] = 0 /\ sent'[p] = <<>>
        /\ \A p \in pods : place'[p] = "open"
    BY <1>3 DEF ListPods, Base, Types, Streamed
  <2>2. \A p \in pods : IsBeginning(sent'[p], log'[p], pattern', pos'[p])
    BY <2>1, BeginningEmpty
  <2> QED
    BY <2>1, <2>2 DEF SentInv
<1>4. CASE ListPodsFails \/ Return
  BY <1>4 DEF ListPodsFails, Return, SentInv
<1>5. CASE Cancel
  BY <1>5, SentStays DEF Cancel, cluster
<1>6. CASE \E p \in Streamed : Goroutine(p)
  BY <1>6, SentGoroutine
<1>7. CASE UNCHANGED vars
  BY <1>7, SentStays DEF vars, cluster, stream
<1> QED
  BY <1>1, <1>2, <1>3, <1>4, <1>5, <1>6, <1>7 DEF Next

THEOREM Invariance == Spec => []IInv
<1>1. Init => IInv
  BY InitBase DEF IInv, Init, SentInv
<1>2. IInv /\ [Next]_vars => IInv'
  <2> SUFFICES ASSUME IInv, [Next]_vars PROVE IInv'
    OBVIOUS
  <2>1. CASE UNCHANGED vars
    <3>1. Base'
      BY <2>1 DEF IInv, Base, Types, LineInv, LateInv, Streamed, vars, cluster, grafana, stream
    <3> QED
      BY <3>1, SentStep DEF IInv
  <2>2. CASE Next
    <3>1. Base'
      BY <2>2, ViewerStep, ClusterStep, RunStep, GoroutineStep DEF IInv, Next
    <3> QED
      BY <3>1, SentStep DEF IInv
  <2> QED
    BY <2>1, <2>2
<1> QED
  BY <1>1, <1>2, PTL DEF Spec

(* Every variable keeps to its set. *)
THEOREM TypeCorrect == Spec => []TypeOK
<1>1. IInv => TypeOK
  BY DEF IInv, Base, Types, TypeOK, Places
<1> QED
  BY <1>1, Invariance, PTL

(* However the cancellation of a run races with the scanners, the checks and  *)
(* the frames of its goroutines, each of them sends at most one more line.     *)
THEOREM StopIsSoon == Spec => []StopsSoon
<1>1. IInv => StopsSoon
  BY DEF IInv, Base, LateInv, StopsSoon
<1> QED
  BY <1>1, Invariance, PTL

(* Whatever the goroutines, the viewers and the pods do, what a run has sent   *)
(* of a pod is the beginning of its log under one filter: no line is left out  *)
(* in the middle, repeated or out of order.                                    *)
THEOREM SentIsTheLog == Spec => []SentIsLog
<1>1. IInv => SentIsLog
  <2> SUFFICES ASSUME IInv, run = "streaming", NEW p \in Streamed
               PROVE  \E n \in {pos[p], pos[p] - 1} \cap Nat : IsBeginning(sent[p], log[p], pattern, n)
    BY DEF SentIsLog
  <2>1. pos[p] \in Nat
    BY DEF IInv, Base, Types
  <2>2. CASE IsBeginning(sent[p], log[p], pattern, pos[p])
    BY <2>1, <2>2
  <2>3. CASE pos[p] > 0 /\ IsBeginning(sent[p], log[p], pattern, pos[p] - 1)
    <3>1. pos[p] - 1 \in {pos[p], pos[p] - 1} \cap Nat
      BY <2>1, <2>3
    <3> QED
      BY <2>3, <3>1
  <2> QED
    BY <2>2, <2>3 DEF IInv, SentInv
<1> QED
  BY <1>1, Invariance, PTL

-----------------------------------------------------------------------------
(* Liveness of one goroutine.  Its steps are counted down; that they are      *)
(* enabled where it can go on is NobodyIsStuck, which the run checks, as      *)
(* nothing is known of ENABLED here.                                          *)

(* What everybody else leaves of a goroutine. *)
LEMMA OthersLeave ==
  ASSUME IInv, [Next]_vars, NEW p \in Streamed, run = "streaming", ~Streams(p)
  PROVE  /\ run' = "streaming" \/ (run' = "off" /\ place[p] = "done")
         /\ Streamed' = Streamed /\ place'[p] = place[p] /\ pos'[p] = pos[p]
         /\ p \in broken' <=> p \in broken
         /\ cancelled /\ run' = "streaming" => cancelled'
         /\ \A n \in Nat : Len(log[p]) > n => Len(log'[p]) > n
         /\ p \in former => p \in former' /\ log'[p] = log[p]
         /\ p \in pods => p \in pods' \cup former'
<1>0. /\ p \in Pods /\ place \in [Streamed -> Places] /\ pos \in [Pods -> Nat]
      /\ log \in [Pods -> Seq(Texts)] /\ former \subseteq Pods \ pods
  BY DEF IInv, Base, Types
<1>1. ASSUME NEW q \in Streamed, Goroutine(q) PROVE q # p
  BY <1>1 DEF Streams
<1>2. ASSUME NEW q \in Streamed, q # p, Goroutine(q)
      PROVE  /\ UNCHANGED <<run, cancelled, log, pods, former>> /\ Streamed' = Streamed
             /\ place'[p] = place[p] /\ pos'[p] = pos[p] /\ (p \in broken' <=> p \in broken)
  BY <1>0, <1>2 DEF Goroutine, Open, OpenFails, Scan, EndOfStream, Check, Send, SendFails, cluster, Streamed
<1>3. ASSUME NEW v \in Viewers, Subscribe(v) \/ Denied(v) \/ Unsubscribe(v)
      PROVE  UNCHANGED <<run, cancelled, log, pods, former, place, pos, broken>>
  BY <1>3 DEF Subscribe, Denied, Unsubscribe, cluster, stream
<1>4. ASSUME NEW q \in Pods, Write(q) \/ Delete(q) \/ Create(q)
      PROVE  /\ UNCHANGED <<run, cancelled, place, pos, broken>>
             /\ \A n \in Nat : Len(log[p]) > n => Len(log'[p]) > n
             /\ p \in former => p \in former' /\ log'[p] = log[p]
             /\ p \in pods => p \in pods' \cup former'
  <2>1. CASE Write(q)
    <3>1. PICK t \in Texts : log' = [log EXCEPT ![q] = Append(@, t)]
      BY <2>1 DEF Write
    <3>2. log[p] \in Seq(Texts) /\ Len(log[p]) \in Nat
      BY <1>0
    <3>3. log'[p] = log[p] \/ log'[p] = Append(log[p], t)
      BY <1>0, <3>1
    <3>4. \A n \in Nat : Len(log[p]) > n => Len(log'[p]) > n
      BY <3>2, <3>3
    <3>5. q \in pods /\ UNCHANGED <<pods, former, stream>>
      BY <2>1 DEF Write
    <3> QED
      BY <1>0, <3>1, <3>4, <3>5 DEF stream
  <2>2. CASE Delete(q) \/ Create(q)
    BY <1>0, <2>2 DEF Delete, Create, stream
  <2> QED
    BY <1>4, <2>1, <2>2
<1>5. CASE Cancel
  BY <1>5 DEF Cancel, cluster, Streamed
<1>6. CASE Return
  BY <1>6 DEF Return, cluster, Streamed
<1>7. CASE UNCHANGED vars
  BY <1>7 DEF vars, cluster, stream, Streamed
<1>8. ~ListPods /\ ~ListPodsFails
  BY DEF ListPods, ListPodsFails
<1> QED
  BY <1>0, <1>1, <1>2, <1>3, <1>4, <1>5, <1>6, <1>7, <1>8 DEF Next, Streamed, cluster

(* What a goroutine does itself. *)
LEMMA OwnStep ==
  ASSUME IInv, NEW p \in Streamed, Streams(p)
  PROVE  /\ run = "streaming" /\ Streamed' = Streamed
         /\ UNCHANGED <<run, cancelled, log, pods, former>>
         /\ \/ place[p] = "open" /\ place'[p] = "scan" /\ ~cancelled /\ pos'[p] = pos[p]
            \/ place[p] \in {"open", "send"} /\ place'[p] = "done" /\ p \in broken'
            \/ place[p] = "scan" /\ place'[p] = "check" /\ pos'[p] = pos[p] + 1
            \/ /\ place[p] = "scan" /\ place'[p] = "done" /\ pos'[p] = pos[p]
               /\ cancelled \/ p \in broken' \/ (p \notin pods /\ pos[p] = Len(log[p]))
            \/ place[p] = "check" /\ place'[p] = "done" /\ cancelled
            \/ place[p] = "check" /\ place'[p] \in {"scan", "send"} /\ ~cancelled /\ pos'[p] = pos[p]
            \/ place[p] = "send" /\ place'[p] = "scan" /\ pos'[p] = pos[p]
<1>0. p \in Pods /\ place \in [Streamed -> Places] /\ pos \in [Pods -> Nat]
  BY DEF IInv, Base, Types
<1>1. run = "streaming" /\ UNCHANGED <<run, cancelled, log, pods, former>>
  BY DEF Streams, Goroutine, Open, OpenFails, Scan, EndOfStream, Check, Send, SendFails, cluster
<1>2. \E d : place' = [place EXCEPT ![p] = d]
  BY DEF Streams, Goroutine, Open, OpenFails, Scan, EndOfStream, Check, Send, SendFails
<1>3. Streamed' = Streamed
  BY <1>0, <1>2 DEF Streamed
<1>4. CASE Open(p)
  BY <1>0, <1>1, <1>3, <1>4 DEF Open
<1>5. CASE OpenFails(p)
  BY <1>0, <1>1, <1>3, <1>5 DEF OpenFails, AfterOpenFault
<1>6. CASE Scan(p)
  BY <1>0, <1>1, <1>3, <1>6 DEF Scan
<1>7. CASE EndOfStream(p)
  BY <1>0, <1>1, <1>3, <1>7 DEF EndOfStream
<1>8. CASE Check(p)
  BY <1>0, <1>1, <1>3, <1>8 DEF Check, SeesDone, AfterOdd
<1>9. CASE Send(p)
  BY <1>0, <1>1, <1>3, <1>9 DEF Send
<1>10. CASE SendFails(p)
  BY <1>0, <1>1, <1>3, <1>10 DEF SendFails
<1> QED
  BY <1>4, <1>5, <1>6, <1>7, <1>8, <1>9, <1>10 DEF Streams, Goroutine

(* A goroutine that is over, in a run that is not cancelled, has lost its     *)
(* stream or has scanned all that its pod wrote before it was deleted.        *)
OverInv ==
  run = "streaming" =>
    \A p \in Streamed :
      /\ p \in pods \cup former
      /\ place[p] = "done" => p \in broken \/ cancelled \/ (p \in former /\ pos[p] = Len(log[p]))

LEMMA OverInductive == IInv /\ OverInv /\ [Next]_vars => OverInv'
<1> SUFFICES ASSUME IInv, OverInv, [Next]_vars PROVE OverInv'
  OBVIOUS
<1>1. CASE ListPods
  <2>1. place' = [p \in pods |-> "open"] /\ UNCHANGED <<pods, former>>
    BY <1>1 DEF ListPods, cluster
  <2> QED
    BY <2>1 DEF OverInv, Streamed
<1>2. CASE run # "streaming" /\ ~ListPods
  <2>1. run' # "streaming"
    BY <1>2 DEF Next, vars, stream, ListPodsFails, Return, Cancel, Subscribe, Denied, Unsubscribe, Write, Delete, Create,
              Goroutine, Open, OpenFails, Scan, EndOfStream, Check, Send, SendFails
  <2> QED
    BY <2>1 DEF OverInv
<1>3. CASE run = "streaming"
  <2>1. ASSUME NEW p \in Streamed, run' = "streaming"
        PROVE  /\ Streamed' = Streamed /\ p \in pods' \cup former'
               /\ place'[p] = "done" =>
                    p \in broken' \/ cancelled' \/ (p \in former' /\ pos'[p] = Len(log'[p]))
    <3>1. CASE Streams(p)
      BY <1>3, <2>1, <3>1, OwnStep DEF OverInv
    <3>2. CASE ~Streams(p)
      BY <1>3, <2>1, <3>2, OthersLeave DEF OverInv
    <3> QED
      BY <3>1, <3>2
  <2>2. Streamed = {} /\ run' = "streaming" => Streamed' = {}
    <3> SUFFICES ASSUME Streamed = {}, run' = "streaming" PROVE Streamed' = {}
      OBVIOUS
    <3>1. place' = place
      BY <1>3 DEF Next, vars, stream, ListPods, ListPodsFails, Return, Cancel, Subscribe, Denied, Unsubscribe,
                  Write, Delete, Create
    <3> QED
      BY <3>1 DEF Streamed
  <2> QED
    BY <2>1, <2>2 DEF OverInv
<1> QED
  BY <1>1, <1>2, <1>3

LEMMA Over == Spec => [](IInv /\ OverInv)
<1>1. Init => OverInv
  BY DEF Init, OverInv
<1> QED
  BY <1>1, OverInductive, Invariance, PTL DEF Spec

(* What is assumed of one goroutine.                                          *)
Scheduled(p) == [](IInv /\ OverInv) /\ [][Next]_vars /\ FairTo(p) /\ []GoesOn(p)

LEMMA IsScheduled ==
  ASSUME NEW p \in Pods
  PROVE  FairSpec /\ []NobodyIsStuck => Scheduled(p)
<1>1. FairToAll => FairTo(p)
  BY DEF FairToAll
<1>2. NobodyIsStuck => GoesOn(p)
  BY DEF NobodyIsStuck
<1> QED
  BY <1>1, <1>2, Over, PTL DEF FairSpec, Fairness, Spec, Scheduled

(* After a cancellation: how many steps a goroutine still takes, at most.     *)
StepsOf(p) ==
  CASE place[p] = "done" -> 0 [] place[p] \in {"open", "check"} -> 1
    [] place[p] = "scan" -> 2 [] OTHER -> 3

IsOver(p) == p \in Streamed /\ place[p] = "done"

Ends(p, k) ==
  run = "streaming" /\ cancelled /\ p \in Streamed /\ place[p] # "done" /\ StepsOf(p) = k

LEMMA EndsCountsDown ==
  ASSUME NEW p \in Pods, NEW k \in 1..3, IInv, [Next]_vars, Ends(p, k)
  PROVE  /\ Streams(p) => IsOver(p)' \/ \E j \in 1..3 : j < k /\ Ends(p, j)'
         /\ ~Streams(p) => Ends(p, k)'
<1>1. place \in [Streamed -> Places] /\ p \in Streamed
  BY DEF Ends, IInv, Base, Types
<1>2. CASE Streams(p)
  <2>1. /\ run' = "streaming" /\ cancelled' /\ p \in Streamed'
        /\ \/ place'[p] = "done"
           \/ place[p] = "scan" /\ place'[p] = "check"
           \/ place[p] = "send" /\ place'[p] = "scan"
    BY <1>1, <1>2, OwnStep DEF Ends
  <2>2. CASE place'[p] = "done"
    BY <1>2, <2>1, <2>2 DEF IsOver
  <2>3. CASE place[p] = "scan" /\ place'[p] = "check"
    <3>1. k = 2 /\ Ends(p, 1)'
      BY <2>1, <2>3 DEF Ends, StepsOf
    <3> QED
      BY <1>2, <3>1
  <2>4. CASE place[p] = "send" /\ place'[p] = "scan"
    <3>1. k = 3 /\ Ends(p, 2)'
      BY <2>1, <2>4 DEF Ends, StepsOf
    <3> QED
      BY <1>2, <3>1
  <2> QED
    BY <2>1, <2>2, <2>3, <2>4
<1>3. CASE ~Streams(p)
  BY <1>1, <1>3, OthersLeave DEF Ends, StepsOf
<1> QED
  BY <1>2, <1>3

(* Whatever the goroutine of a pod is doing when its run is cancelled, it     *)
(* ends (client.go:690-758), for any number of pods and lines.                *)
THEOREM GoroutinesEnd ==
  ASSUME NEW p \in Pods
  PROVE  FairSpec /\ []NobodyIsStuck =>
           ((run = "streaming" /\ cancelled /\ p \in Streamed) ~> IsOver(p))
<1>1. IInv /\ Ends(p, 1) /\ [Next]_vars => Ends(p, 1)' \/ IsOver(p)'
  BY EndsCountsDown
<1>2. IInv /\ Ends(p, 1) /\ [Next]_vars /\ <<Streams(p)>>_vars => IsOver(p)'
  BY EndsCountsDown
<1>3. IInv /\ Ends(p, 2) /\ [Next]_vars => Ends(p, 2)' \/ Ends(p, 1)' \/ IsOver(p)'
  BY EndsCountsDown
<1>4. IInv /\ Ends(p, 2) /\ [Next]_vars /\ <<Streams(p)>>_vars => Ends(p, 1)' \/ IsOver(p)'
  BY EndsCountsDown
<1>5. IInv /\ Ends(p, 3) /\ [Next]_vars => Ends(p, 3)' \/ Ends(p, 2)' \/ Ends(p, 1)' \/ IsOver(p)'
  BY EndsCountsDown
<1>6. IInv /\ Ends(p, 3) /\ [Next]_vars /\ <<Streams(p)>>_vars => Ends(p, 2)' \/ Ends(p, 1)' \/ IsOver(p)'
  BY EndsCountsDown
<1>7. /\ Ends(p, 1) => CanStream(p)
      /\ Ends(p, 2) => CanStream(p)
      /\ Ends(p, 3) => CanStream(p)
  BY DEF Ends, CanStream
<1>8. IInv /\ run = "streaming" /\ cancelled /\ p \in Streamed
        => Ends(p, 1) \/ Ends(p, 2) \/ Ends(p, 3) \/ IsOver(p)
  BY DEF Ends, IsOver, StepsOf
<1> QED
  BY <1>1, <1>2, <1>3, <1>4, <1>5, <1>6, <1>7, <1>8, IsScheduled, PTL DEF Scheduled, FairTo, GoesOn

(* In a run that goes on: how many steps a goroutine takes until it has the   *)
(* next line, which is there.                                                 *)
StepsToLine(p) ==
  CASE place[p] = "scan" -> 1 [] place[p] \in {"open", "send"} -> 2 [] OTHER -> 3

LineIsThere(p, n) == run = "streaming" /\ p \in Streamed /\ pos[p] = n /\ Len(log[p]) > n
IsScanned(p, n) == pos[p] > n \/ p \in broken \/ cancelled

Comes(p, n, k) ==
  LineIsThere(p, n) /\ ~cancelled /\ p \notin broken /\ place[p] # "done" /\ StepsToLine(p) = k

LEMMA LineComes ==
  ASSUME NEW p \in Pods, NEW n \in Nat, NEW k \in 1..3, IInv, [Next]_vars, Comes(p, n, k)
  PROVE  /\ Streams(p) => IsScanned(p, n)' \/ \E j \in 1..3 : j < k /\ Comes(p, n, j)'
         /\ ~Streams(p) => IsScanned(p, n)' \/ Comes(p, n, k)'
<1>1. /\ place \in [Streamed -> Places] /\ p \in Streamed /\ pos[p] = n
      /\ Len(log[p]) > n /\ Len(log[p]) \in Nat
  BY DEF Comes, LineIsThere, IInv, Base, Types
<1>2. CASE Streams(p)
  BY <1>1, <1>2, OwnStep DEF Comes, LineIsThere, IsScanned, StepsToLine, Places
<1>3. CASE ~Streams(p)
  <2>1. /\ run' = "streaming" /\ Streamed' = Streamed /\ place'[p] = place[p] /\ pos'[p] = pos[p]
        /\ p \notin broken' /\ Len(log'[p]) > n
    BY <1>1, <1>3, OthersLeave DEF Comes, LineIsThere
  <2>2. StepsToLine(p)' = StepsToLine(p)
    BY <2>1 DEF StepsToLine
  <2>3. CASE cancelled'
    BY <1>3, <2>3 DEF IsScanned
  <2>4. CASE ~cancelled'
    BY <1>1, <1>3, <2>1, <2>2, <2>4 DEF Comes, LineIsThere
  <2> QED
    BY <2>3, <2>4
<1> QED
  BY <1>2, <1>3

(* Whatever line a pod has written, a goroutine that has scanned those before *)
(* it scans it (client.go:707-752), unless its stream breaks or the run is    *)
(* cancelled: no line, odd ones included, holds up the lines after it.        *)
THEOREM NextLineIsScanned ==
  ASSUME NEW p \in Pods, NEW n \in Nat
  PROVE  FairSpec /\ []NobodyIsStuck => (LineIsThere(p, n) ~> IsScanned(p, n))
<1>1. IInv /\ Comes(p, n, 1) /\ [Next]_vars => Comes(p, n, 1)' \/ IsScanned(p, n)'
  BY LineComes
<1>2. IInv /\ Comes(p, n, 1) /\ [Next]_vars /\ <<Streams(p)>>_vars => IsScanned(p, n)'
  BY LineComes
<1>3. IInv /\ Comes(p, n, 2) /\ [Next]_vars
        => Comes(p, n, 2)' \/ Comes(p, n, 1)' \/ IsScanned(p, n)'
  BY LineComes
<1>4. IInv /\ Comes(p, n, 2) /\ [Next]_vars /\ <<Streams(p)>>_vars
        => Comes(p, n, 1)' \/ IsScanned(p, n)'
  BY LineComes
<1>5. IInv /\ Comes(p, n, 3) /\ [Next]_vars
        => Comes(p, n, 3)' \/ Comes(p, n, 2)' \/ Comes(p, n, 1)' \/ IsScanned(p, n)'
  BY LineComes
<1>6. IInv /\ Comes(p, n, 3) /\ [Next]_vars /\ <<Streams(p)>>_vars
        => Comes(p, n, 2)' \/ Comes(p, n, 1)' \/ IsScanned(p, n)'
  BY LineComes
<1>7. /\ Comes(p, n, 1) => CanStream(p)
      /\ Comes(p, n, 2) => CanStream(p)
      /\ Comes(p, n, 3) => CanStream(p)
  BY DEF Comes, LineIsThere, CanStream
<1>8. IInv /\ OverInv /\ LineIsThere(p, n)
        => Comes(p, n, 1) \/ Comes(p, n, 2) \/ Comes(p, n, 3) \/ IsScanned(p, n)
  BY DEF Comes, LineIsThere, IsScanned, StepsToLine, OverInv, IInv, Base, Types
<1> QED
  BY <1>1, <1>2, <1>3, <1>4, <1>5, <1>6, <1>7, <1>8, IsScheduled, PTL DEF Scheduled, FairTo, GoesOn
=============================================================================
