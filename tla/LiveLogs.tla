------------------------------ MODULE LiveLogs ------------------------------
(***************************************************************************)
(* Live logs: SubscribeStream and RunStream (pkg/plugin/datasource.go),    *)
(* StreamLogs (pkg/kubernetes/client.go) and the channel the frontend      *)
(* subscribes to (src/datasource/datasource.ts).                           *)
(*                                                                         *)
(* A channel stands for one container of one resource.  Grafana Live asks  *)
(* the plugin for permission when a viewer subscribes, calls RunStream for *)
(* the first of them, passes what it sends to every viewer that is there,  *)
(* cancels it some time after the last one has left, and forgets it when   *)
(* it returns.  After a cancellation a run reaches no viewer any more, so  *)
(* the next run is modelled as if it waited for the goroutines of the last.*)
(***************************************************************************)
EXTENDS Integers, Sequences, SequencesExt, FiniteSets

CONSTANTS
  Viewers,      \* the panels that subscribe to the channel
  Pods,         \* the pods of the resource
  Texts,        \* the texts of lines
  Filter,       \* of the query of each viewer: the texts its regular expression matches
  MaxLines,     \* bound on the lines that are written
  MaxFaults,    \* bound on the requests and streams that fail
  MaxSubscriptions  \* bound on the subscriptions

ASSUME FilterAssumption == Filter \in [Viewers -> SUBSET Texts]
ASSUME BoundsAssumption == MaxLines \in Nat /\ MaxFaults \in Nat /\ MaxSubscriptions \in Nat

VARIABLES
  pods,         \* the pods in the cluster
  former,       \* the pods that were deleted
  log,          \* the log of each pod
  viewers,      \* the viewers that are subscribed
  run,          \* the run of the channel: "off", "starting", "streaming"
  pattern,      \* the filter of the run
  cancelled,    \* is its context done
  place,        \* where the goroutine of each pod of the run is
  pos,          \* how many lines of its stream it has scanned
  faults,       \* the number of failures
  subscriptions,  \* the number of subscriptions
  sent,         \* history: the lines the run has sent of each pod, with their numbers
  late,         \* history: how many frames of each pod it sent after its cancellation
  broken        \* history: the pods whose stream could not be opened or broke

cluster == <<pods, former, log>>
grafana == <<viewers, subscriptions>>
stream == <<run, pattern, cancelled, place, pos, sent, late, broken>>
vars == <<cluster, grafana, stream, faults>>

Odd == "odd"    \* the text of a line without a time or without a text
Streamed == DOMAIN place
Line(p) == log[p][pos[p]]
Frames == [at : Nat, text : Texts]

-----------------------------------------------------------------------------
(* A definition after the word "Faulty" is a variant of the next one that  *)
(* the specification does not use: it is there to see a property fail.     *)

(* The context is looked at for every line.                                *)
\* Faulty: it is looked at by the HTTP client only.
SeesDoneNever == FALSE
SeesDone == cancelled

\* Faulty: a line that cannot be parsed ends the goroutine.
AfterOddReturn == "done"
AfterOdd == "scan"

(* resourcesWG.Done on the way out. *)
\* Faulty: a goroutine that has no stream does not call it.
AfterOpenFaultHang == "hang"
AfterOpenFault == "done"

-----------------------------------------------------------------------------
Init ==
  /\ pods \in (SUBSET Pods) \ {{}}
  /\ former = {}
  /\ log = [p \in Pods |-> <<>>]
  /\ viewers = {}
  /\ run = "off"
  /\ pattern = {}
  /\ cancelled = FALSE
  /\ place = [p \in {} |-> "done"]
  /\ pos = [p \in Pods |-> 0]
  /\ faults = 0
  /\ subscriptions = 0
  /\ sent = [p \in Pods |-> <<>>]
  /\ late = [p \in Pods |-> 0]
  /\ broken = {}

(* SubscribeStream has found the containers of the resource.  The path of  *)
(* the channel does not name the filter: a viewer joins the run of another.*)
\* Faulty: the run takes over the filter of a new subscriber.
NextPatternLast(v) == Filter[v]
NextPattern(v) == IF run = "off" THEN Filter[v] ELSE pattern

Subscribe(v) ==
  /\ v \notin viewers
  /\ ~cancelled
  /\ subscriptions < MaxSubscriptions
  /\ subscriptions' = subscriptions + 1
  /\ viewers' = viewers \cup {v}
  /\ pattern' = NextPattern(v)
  /\ run' = IF run = "off" THEN "starting" ELSE run
  /\ UNCHANGED <<cluster, cancelled, place, pos, sent, late, broken, faults>>

(* GetContainers fails: permission denied. *)
Denied(v) ==
  /\ v \notin viewers
  /\ ~cancelled
  /\ faults < MaxFaults
  /\ subscriptions < MaxSubscriptions
  /\ subscriptions' = subscriptions + 1
  /\ faults' = faults + 1
  /\ UNCHANGED <<cluster, viewers, stream>>

Unsubscribe(v) ==
  /\ v \in viewers
  /\ viewers' = viewers \ {v}
  /\ UNCHANGED <<cluster, subscriptions, stream, faults>>

(* Grafana has seen that nobody is there. *)
Cancel ==
  /\ run # "off"
  /\ viewers = {}
  /\ ~cancelled
  /\ cancelled' = TRUE
  /\ UNCHANGED <<cluster, grafana, run, pattern, place, pos, sent, late, broken, faults>>

(* RunStream and the beginning of StreamLogs.  An error is returned, and   *)
(* Grafana calls RunStream again, unless it was cancelled.                 *)
ListPods ==
  /\ run = "starting"
  /\ ~cancelled
  /\ run' = "streaming"
  /\ place' = [p \in pods |-> "open"]
  /\ pos' = [p \in Pods |-> 0]
  /\ sent' = [p \in Pods |-> <<>>]
  /\ late' = [p \in Pods |-> 0]
  /\ broken' = {}
  /\ UNCHANGED <<cluster, grafana, pattern, cancelled, faults>>

ListPodsFails ==
  /\ run = "starting"
  /\ IF cancelled
     THEN run' = "off" /\ cancelled' = FALSE /\ faults' = faults
     ELSE faults < MaxFaults /\ faults' = faults + 1 /\ UNCHANGED <<run, cancelled>>
  /\ UNCHANGED <<cluster, grafana, pattern, place, pos, sent, late, broken>>

Open(p) ==
  /\ run = "streaming"
  /\ place[p] = "open"
  /\ p \in pods
  /\ ~cancelled
  /\ place' = [place EXCEPT ![p] = "scan"]
  /\ UNCHANGED <<cluster, grafana, run, pattern, cancelled, pos, sent, late, broken, faults>>

OpenFails(p) ==
  /\ run = "streaming"
  /\ place[p] = "open"
  /\ p \notin pods \/ cancelled \/ faults < MaxFaults
  /\ faults' = IF p \in pods /\ ~cancelled THEN faults + 1 ELSE faults
  /\ place' = [place EXCEPT ![p] = AfterOpenFault]
  /\ broken' = broken \cup {p}
  /\ UNCHANGED <<cluster, grafana, run, pattern, cancelled, pos, sent, late>>

(* The scanner has the next line; it may have been read before a           *)
(* cancellation.                                                           *)
Scan(p) ==
  /\ run = "streaming"
  /\ place[p] = "scan"
  /\ pos[p] < Len(log[p])
  /\ pos' = [pos EXCEPT ![p] = @ + 1]
  /\ place' = [place EXCEPT ![p] = "check"]
  /\ UNCHANGED <<cluster, grafana, run, pattern, cancelled, sent, late, broken, faults>>

(* The stream ends with the pod, with the context, or because it breaks or *)
(* has a line that is too long.                                            *)
EndOfStream(p) ==
  /\ run = "streaming"
  /\ place[p] = "scan"
  /\ (p \notin pods /\ pos[p] = Len(log[p])) \/ cancelled \/ faults < MaxFaults
  /\ IF (p \notin pods /\ pos[p] = Len(log[p])) \/ cancelled
     THEN UNCHANGED <<faults, broken>>
     ELSE faults' = faults + 1 /\ broken' = broken \cup {p}
  /\ place' = [place EXCEPT ![p] = "done"]
  /\ UNCHANGED <<cluster, grafana, run, pattern, cancelled, pos, sent, late>>

Check(p) ==
  /\ run = "streaming"
  /\ place[p] = "check"
  /\ place' = [place EXCEPT ![p] = IF SeesDone THEN "done"
                                   ELSE IF Line(p) = Odd THEN AfterOdd
                                   ELSE IF Line(p) \in pattern THEN "send" ELSE "scan"]
  /\ UNCHANGED <<cluster, grafana, run, pattern, cancelled, pos, sent, late, broken, faults>>

(* SendFrame; Grafana passes the frame to every viewer that is there.      *)
Send(p) ==
  /\ run = "streaming"
  /\ place[p] = "send"
  /\ place' = [place EXCEPT ![p] = "scan"]
  /\ sent' = [sent EXCEPT ![p] = Append(@, [at |-> pos[p], text |-> Line(p)])]
  /\ late' = [late EXCEPT ![p] = IF cancelled THEN @ + 1 ELSE @]
  /\ UNCHANGED <<cluster, grafana, run, pattern, cancelled, pos, broken, faults>>

SendFails(p) ==
  /\ run = "streaming"
  /\ place[p] = "send"
  /\ cancelled \/ faults < MaxFaults
  /\ faults' = IF cancelled THEN faults ELSE faults + 1
  /\ broken' = broken \cup {p}
  /\ place' = [place EXCEPT ![p] = "done"]
  /\ UNCHANGED <<cluster, grafana, run, pattern, cancelled, pos, sent, late>>

(* streamsWG.Wait; Grafana forgets a run that has returned without error,  *)
(* whoever is subscribed.                                                  *)
Return ==
  /\ run = "streaming"
  /\ \A p \in Streamed : place[p] = "done"
  /\ run' = "off"
  /\ cancelled' = FALSE
  /\ UNCHANGED <<cluster, grafana, pattern, place, pos, sent, late, broken, faults>>

(* The cluster. *)
Written == FoldFunction(LAMBDA l, n : n + Len(l), 0, log)

Write(p) ==
  /\ p \in pods
  /\ Written < MaxLines
  /\ \E t \in Texts : log' = [log EXCEPT ![p] = Append(@, t)]
  /\ UNCHANGED <<pods, former, grafana, stream, faults>>

Delete(p) ==
  /\ p \in pods
  /\ pods' = pods \ {p}
  /\ former' = former \cup {p}
  /\ UNCHANGED <<log, grafana, stream, faults>>

(* A pod of the resource is created, with a new name. *)
Create(p) ==
  /\ p \notin pods \cup former
  /\ pods' = pods \cup {p}
  /\ UNCHANGED <<log, former, grafana, stream, faults>>

Goroutine(p) ==
  \/ Open(p) \/ OpenFails(p) \/ Scan(p) \/ EndOfStream(p)
  \/ Check(p) \/ Send(p) \/ SendFails(p)

Next ==
  \/ ListPods \/ ListPodsFails \/ Return \/ Cancel
  \/ \E p \in Streamed : Goroutine(p)
  \/ \E v \in Viewers : Subscribe(v) \/ Denied(v) \/ Unsubscribe(v)
  \/ \E p \in Pods : Write(p) \/ Delete(p) \/ Create(p)

Spec == Init /\ [][Next]_vars

(* Goroutines keep running, a request ends, and Grafana notices that a     *)
(* channel has no viewers.                                                 *)
Streams(p) == p \in Streamed /\ Goroutine(p)
FairTo(p) == WF_vars(Streams(p))
FairToAll == \A p \in Pods : FairTo(p)

Fairness ==
  /\ WF_vars(ListPods \/ ListPodsFails) /\ WF_vars(Return) /\ WF_vars(Cancel)
  /\ FairToAll
FairSpec == Spec /\ Fairness

(* Where a goroutine can go on: everywhere but at the end of what a pod    *)
(* has written so far, in a run that was not cancelled.                    *)
CanStream(p) ==
  /\ run = "streaming" /\ p \in Streamed /\ place[p] # "done"
  /\ place[p] = "scan" => pos[p] < Len(log[p]) \/ p \notin pods \/ cancelled

GoesOn(p) == CanStream(p) => ENABLED <<Streams(p)>>_vars

-----------------------------------------------------------------------------
(* Properties. *)

(* Every variable keeps to its set. *)
TypeOK ==
  /\ pods \subseteq Pods /\ former \subseteq Pods \ pods
  /\ log \in [Pods -> Seq(Texts)]
  /\ viewers \subseteq Viewers
  /\ run \in {"off", "starting", "streaming"}
  /\ pattern \in Range(Filter) \cup {{}}
  /\ cancelled \in BOOLEAN
  /\ Streamed \subseteq Pods
  /\ \A p \in Streamed : place[p] \in {"open", "scan", "check", "send", "done"}
  /\ \A p \in Pods : pos[p] \in 0..Len(log[p])
  /\ faults \in 0..MaxFaults
  /\ subscriptions \in 0..MaxSubscriptions
  /\ sent \in [Pods -> Seq(Frames)]
  /\ late \in [Pods -> Nat]
  /\ broken \subseteq Pods

(* s holds those of the first n lines of the log l that have a time, a text *)
(* and match the filter f, each once and in their order.                    *)
Matches(l, f, i) == l[i] # Odd /\ l[i] \in f

IsBeginning(s, l, f, n) ==
  /\ \A k \in DOMAIN s : s[k].at \in 1..n /\ Matches(l, f, s[k].at) /\ s[k].text = l[s[k].at]
  /\ \A j, k \in DOMAIN s : j < k => s[j].at < s[k].at
  /\ \A i \in 1..n : Matches(l, f, i) => \E k \in DOMAIN s : s[k].at = i

(* Whatever the goroutines, the viewers and the pods do, what a run has    *)
(* sent of a pod is the beginning of its log, with one filter: nothing is  *)
(* left out in the middle, repeated or out of order (client.go:707-752).   *)
SentIsLog ==
  run = "streaming" =>
    \A p \in Streamed :
      \E n \in {pos[p], pos[p] - 1} \cap Nat : IsBeginning(sent[p], log[p], pattern, n)

(* A run that has been cancelled sends at most the one line each goroutine *)
(* already has, even if the scanner holds more (client.go:709-711).        *)
StopsSoon == \A p \in Pods : late[p] <= 1

(* A goroutine waits for nothing but a line (client.go:698-752): nothing   *)
(* else keeps it from its call of Done.                                    *)
NobodyIsStuck == \A p \in Pods : GoesOn(p)

(* The goroutines of a run that is cancelled end.                          *)
RunEnds == cancelled ~> run = "off"

(* Every line of a pod that the run streams is looked at in the end, as    *)
(* long as the stream holds and somebody is there.                         *)
LinesAreScanned ==
  \A p \in Pods, n \in 1..MaxLines :
    (run = "streaming" /\ p \in Streamed /\ Len(log[p]) >= n)
      ~> (pos[p] >= n \/ p \in broken \/ cancelled)
=============================================================================
