------------------------------ MODULE LogQuery ------------------------------
(***************************************************************************)
(* GetLogs and getPodsAndContainers of the Kubernetes client               *)
(* (pkg/kubernetes/client.go): the logs of all pods of a resource as one   *)
(* table.                                                                  *)
(*                                                                         *)
(* The streams of the pods are opened in goroutines and are then read one  *)
(* after the other, in the order in which they were opened.  Meanwhile the *)
(* pods write lines and are deleted, and a request or a stream may fail.   *)
(***************************************************************************)
EXTENDS Integers, Sequences, SequencesExt, FiniteSets

CONSTANTS
  Pods,         \* the pods of the resource
  Logs,         \* the logs they may have when the query starts
  Texts,        \* the lines they may write during the query
  Queries,      \* the queries that are asked
  Application,  \* not a pod: the query is for an application
  MaxClock,     \* bound on the lines that are written: each has a time of its own
  MaxFaults     \* bound on the streams that fail

(* A line is what the API server puts in front of it, the time, and its    *)
(* text: it matches the regular expression or not, has no time that can be *)
(* parsed ("odd"), or is longer than the buffer of the scanner ("long").   *)
Lines == [at : Nat, text : {"hit", "miss", "odd", "long"}]
Filters == {"none", "regex", "broken"}

(* The lines of a container are written one after the other. *)
InOrder(l) == \A i, j \in DOMAIN l : i < j => l[i].at < l[j].at

ASSUME LogsAssumption == \A l \in Logs : l \in Seq(Lines) /\ InOrder(l)
ASSUME TextsAssumption == Texts \subseteq {"hit", "miss", "odd", "long"}
ASSUME QueriesAssumption ==
  \A q \in Queries : q.from \in Nat /\ q.to \in Nat /\ q.tail \in Nat /\ q.filter \in Filters

VARIABLES
  pods,         \* the pods in the cluster
  log,          \* the log of each pod
  query,        \* the query
  phase,        \* "idle", "opening", "reading", "failed", "answered"
  place,        \* where the goroutine of each listed pod is
  streams,      \* the pods whose streams are open, in the order they opened
  open,         \* the streams that are not closed
  next,         \* the stream that is read
  pos,          \* how many lines of its log have been gone through
  rows,         \* the rows of the data frame
  faults,       \* the number of failures
  opened,       \* history: the lines a log had when its stream was opened
  gone          \* history: the pods deleted since the query began

vars == <<pods, log, query, phase, place, streams, open, next, pos, rows, faults, opened, gone>>
cluster == <<pods, log, gone>>

Listed == DOMAIN place
Row(p, l) == [pod |-> p, line |-> l]
-----------------------------------------------------------------------------
(* A definition after the word "Faulty" is a variant of the next one that  *)
(* the specification does not use: it is there to see a property fail.     *)

(* The range is open at both ends. *)
InRange(line) == query.from < line.at /\ line.at < query.to

\* Faulty: the filter is not applied.
KeptAll(line) == line.text # "odd" /\ InRange(line)
Kept(line) ==
  /\ line.text # "odd"
  /\ query.filter = "regex" => line.text = "hit"
  /\ InRange(line)

(* TailLines and SinceTime are applied by the API server, before the rest  *)
(* of the range and the filter are.                                        *)
FirstLine(p) == IF query.tail > 0 /\ opened[p] > query.tail THEN opened[p] - query.tail + 1 ELSE 1
Delivered(p, i) == i >= FirstLine(p) /\ log[p][i].at >= query.from

-----------------------------------------------------------------------------
Init ==
  /\ pods = Pods
  /\ log \in [Pods -> Logs]
  /\ query \in Queries
  /\ phase = "idle"
  /\ place = [p \in {} |-> "done"]
  /\ streams = <<>>
  /\ open = {}
  /\ next = 1
  /\ pos = 0
  /\ rows = <<>>
  /\ faults = 0
  /\ opened = [p \in Pods |-> 0]
  /\ gone = {}

(* getPodsAndContainers: a query for a pod fails if there is no such pod,  *)
(* one for an application lists the pods there are.                        *)
GetPods ==
  /\ phase = "idle"
  /\ IF query.pod \in Pods \ pods
     THEN /\ phase' = "failed"
          /\ place' = place
     ELSE /\ phase' = "opening"
          /\ place' = [p \in (IF query.pod \in Pods THEN {query.pod} ELSE pods) |-> "open"]
  /\ UNCHANGED <<cluster, query, streams, open, next, pos, rows, faults, opened>>

(* The resource is unknown, or a request fails. *)
GetPodsFails ==
  /\ phase = "idle"
  /\ faults < MaxFaults
  /\ faults' = faults + 1
  /\ phase' = "failed"
  /\ UNCHANGED <<cluster, query, place, streams, open, next, pos, rows, opened>>

Open(p) ==
  /\ phase = "opening"
  /\ place[p] = "open"
  /\ p \in pods
  /\ place' = [place EXCEPT ![p] = "append"]
  /\ open' = open \cup {p}
  /\ opened' = [opened EXCEPT ![p] = Len(log[p])]
  /\ UNCHANGED <<cluster, query, phase, streams, next, pos, rows, faults>>

(* A stream that cannot be opened is logged and the pod is left out.       *)
OpenFails(p) ==
  /\ phase = "opening"
  /\ place[p] = "open"
  /\ p \notin pods \/ faults < MaxFaults
  /\ place' = [place EXCEPT ![p] = "done"]
  /\ faults' = IF p \in pods THEN faults + 1 ELSE faults
  /\ UNCHANGED <<cluster, query, phase, streams, open, next, pos, rows, opened>>

(* Under streamsMutex.                                                     *)
\* Faulty: without it; two goroutines write the same element.
AddedOver(p) == IF \E x \in Listed \ {p} : place[x] = "append" THEN streams ELSE Append(streams, p)
Added(p) == Append(streams, p)

AppendStream(p) ==
  /\ phase = "opening"
  /\ place[p] = "append"
  /\ place' = [place EXCEPT ![p] = "done"]
  /\ streams' = Added(p)
  /\ UNCHANGED <<cluster, query, phase, open, next, pos, rows, faults, opened>>

(* Return, and the deferred function that closes the streams.              *)
\* Faulty: it is deferred only after the filter has been compiled.
ClosedLate == IF phase = "opening" THEN open ELSE open \ Range(streams)
StillOpen == open \ Range(streams)

Fail ==
  /\ phase' = "failed"
  /\ open' = StillOpen
  /\ rows' = <<>>

(* After streamsWG.Wait. *)
Compile ==
  /\ phase = "opening"
  /\ \A p \in Listed : place[p] = "done"
  /\ IF query.filter = "broken"
     THEN Fail
     ELSE /\ phase' = "reading"
          /\ UNCHANGED <<open, rows>>
  /\ UNCHANGED <<cluster, query, place, streams, next, pos, faults, opened>>

(* The next line of the log.  The scanner stops with an error at one that  *)
(* it cannot hold.                                                         *)
ReadLine ==
  /\ phase = "reading"
  /\ next <= Len(streams)
  /\ LET p == streams[next] IN
     /\ pos < Len(log[p])
     /\ pos' = pos + 1
     /\ IF Delivered(p, pos + 1) /\ log[p][pos + 1].text = "long"
        THEN Fail
        ELSE /\ rows' = IF Delivered(p, pos + 1) /\ Kept(log[p][pos + 1])
                        THEN Append(rows, Row(p, log[p][pos + 1]))
                        ELSE rows
             /\ UNCHANGED <<phase, open>>
  /\ UNCHANGED <<cluster, query, place, streams, next, faults, opened>>

(* A stream that is not followed ends at a line that had been written when *)
(* it was opened or since then.                                            *)
EndOfStream ==
  /\ phase = "reading"
  /\ next <= Len(streams)
  /\ pos >= opened[streams[next]]
  /\ next' = next + 1
  /\ pos' = 0
  /\ UNCHANGED <<cluster, query, phase, place, streams, open, rows, faults, opened>>

(* The connection breaks: scanner.Err. *)
ReadFails ==
  /\ phase = "reading"
  /\ next <= Len(streams)
  /\ faults < MaxFaults
  /\ faults' = faults + 1
  /\ Fail
  /\ UNCHANGED <<cluster, query, place, streams, next, pos, opened>>

Return ==
  /\ phase = "reading"
  /\ next > Len(streams)
  /\ phase' = "answered"
  /\ open' = StillOpen
  /\ UNCHANGED <<cluster, query, place, streams, next, pos, rows, faults, opened>>

(* The cluster. *)
Write(p) ==
  /\ phase \in {"opening", "reading"}
  /\ p \in pods
  /\ \E n \in 1..MaxClock, t \in Texts :
       /\ \A x \in Pods : \A i \in DOMAIN log[x] : log[x][i].at < n
       /\ log' = [log EXCEPT ![p] = Append(@, [at |-> n, text |-> t])]
  /\ UNCHANGED <<pods, gone, query, phase, place, streams, open, next, pos, rows, faults, opened>>

Delete(p) ==
  /\ phase \in {"idle", "opening", "reading"}
  /\ p \in pods
  /\ pods' = pods \ {p}
  /\ gone' = gone \cup {p}
  /\ UNCHANGED <<log, query, phase, place, streams, open, next, pos, rows, faults, opened>>

Goroutine(p) == Open(p) \/ OpenFails(p) \/ AppendStream(p)
Running == \/ GetPods \/ GetPodsFails \/ Compile \/ ReadLine \/ EndOfStream \/ ReadFails \/ Return
           \/ \E p \in Listed : Goroutine(p)
Next == Running \/ \E p \in Pods : Write(p) \/ Delete(p)

Spec == Init /\ [][Next]_vars

-----------------------------------------------------------------------------
(* Properties. *)

(* What the user asked for, said of one line (client.go:490-504). *)
Wanted(line) ==
  /\ query.from < line.at /\ line.at < query.to
  /\ line.text \in {"hit", "miss"}
  /\ query.filter = "none" \/ line.text = "hit"

(* Every row is a wanted line of the pod it is attributed to, whatever was *)
(* written meanwhile, and the rows of a pod are in the order of its log    *)
(* (client.go:586-616).                                                    *)
RowsAreLines ==
  /\ \A i \in DOMAIN rows : rows[i].line \in Range(log[rows[i].pod]) /\ Wanted(rows[i].line)
  /\ \A i, j \in DOMAIN rows :
       i < j /\ rows[i].pod = rows[j].pod => rows[i].line.at < rows[j].line.at

(* However the goroutines interleave, no stream that was opened is lost:   *)
(* the answer has every wanted line its log had then, or, with a tail,     *)
(* every one of the last lines (client.go:555-557).                        *)
NothingMissed ==
  phase = "answered" =>
    \A p \in Pods : \A i \in 1..opened[p] :
      Wanted(log[p][i]) /\ (query.tail > 0 => i > opened[p] - query.tail) =>
        Row(p, log[p][i]) \in Range(rows)

(* However the query ends, no stream stays open (client.go:563-568).       *)
StreamsClosed == phase \in {"failed", "answered"} => open = {}
=============================================================================
