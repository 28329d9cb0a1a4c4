---------------------------- MODULE ResourceQuery ----------------------------
(***************************************************************************)
(* GetResources of the Kubernetes client (pkg/kubernetes/client.go) and    *)
(* createResourcesDataFrame (pkg/kubernetes/resources.go).                 *)
(*                                                                         *)
(* A query lists the objects of one resource.  It is split into one        *)
(* request per namespace and per alternative of its label selector; the    *)
(* requests run in goroutines, a JSONPath filter needs a second request    *)
(* each, every request may fail, and an answer may be no table.  The       *)
(* answers are appended in the order in which they arrive and are merged   *)
(* into one table.  Meanwhile objects are created, changed and deleted.    *)
(***************************************************************************)
EXTENDS Integers, Sequences, SequencesExt, FiniteSets

CONSTANTS
  Namespaces,   \* the namespaces of the cluster
  Names,        \* the names of objects
  Labels,       \* what label selectors and JSONPath filters look at
  Cells,        \* the values of a first column that is not the name
  All,          \* the empty namespace: a request for all of them
  Queries,      \* the queries that are asked
  Kinds,        \* the resources: are they namespaced, is the name column late
  Order,        \* the order in which the API server lists objects
  MaxObjects,   \* bound on the objects in the cluster
  MaxChanges,   \* bound on the changes during a query
  MaxFaults     \* bound on the requests that fail or get no table

VARIABLES
  kind,         \* the resource that is queried
  cluster,      \* its objects in the cluster
  changes,      \* how often the cluster has changed since the query
  query,        \* the query
  place,        \* where each of its requests is
  listed,       \* the table a request has got
  garbled,      \* the requests whose answer cannot be decoded as a table
  matched,      \* the names the JSONPath filter of a request has found
  resources,    \* the tables, in the order in which they were appended
  jsonNames,    \* resourcesJSONPath
  errors,       \* the number of errors
  phase,        \* "idle", "running", "failed", "answered"
  frame,        \* the rows of the data frame: from which table, which object
  stable,       \* history: the objects that have not changed since the query
  ever          \* history: the objects that existed at some time since then

requestVars == <<place, listed, garbled, matched, resources, jsonNames, errors>>
vars == <<kind, cluster, changes, query, phase, frame, stable, ever, requestVars>>

Filters == {"labelSelector", "jsonPath", "regex"}

ASSUME QueriesAssumption ==
  \A q \in Queries : /\ q.namespaces \in Seq(Namespaces \cup {All})
                      /\ q.values \in Seq(SUBSET (Labels \cup Names))
                      /\ q.filter \in Filters /\ q.valid \in BOOLEAN /\ q.wide \in BOOLEAN
ASSUME KindsAssumption ==
  \A k \in Kinds : k.namespaced \in BOOLEAN /\ k.late \in BOOLEAN
ASSUME OrderAssumption ==
  /\ Order \in [Namespaces \X Names -> Nat]
  /\ \A a, b \in Namespaces \X Names : Order[a] = Order[b] => a = b
ASSUME BoundsAssumption == MaxObjects \in Nat /\ MaxChanges \in Nat /\ MaxFaults \in Nat

Objects == [ns : Namespaces, name : Names, label : Labels, cell : Cells]
Id(o) == <<o.ns, o.name>>

(* The API server has one object of a name.  The objects of a resource     *)
(* that is not namespaced are all in one namespace, the empty one.         *)
Home == CHOOSE n \in Namespaces : TRUE
OnePerId(c) == \A o, p \in c : Id(o) = Id(p) => o = p
InHome(c) == ~kind.namespaced => \A o \in c : o.ns = Home

-----------------------------------------------------------------------------
(* The requests of a query.  A definition after the word "Faulty" is a     *)
(* variant of the next one that the specification does not use: it is      *)
(* there to see a property fail.                                           *)

(* The namespaces are ignored for a resource that has none. *)
QueryNamespaces == IF kind.namespaced THEN query.namespaces ELSE <<All>>

(* Only a label selector has alternatives; the other filters are applied   *)
(* later, to everything.                                                   *)
Alternatives == IF query.filter = "labelSelector" THEN query.values ELSE <<Labels>>

Requests == (1..Len(QueryNamespaces)) \X (1..Len(Alternatives))

InNamespace(t, o) == QueryNamespaces[t[1]] \in {All, o.ns}

(* What the API server returns for a request. *)
Asked(t, o) == InNamespace(t, o) /\ o.label \in Alternatives[t[2]]
Selected(t) == {o \in cluster : Asked(t, o)}

(* getResourcesByJSONPath: the names of the objects in the namespaces of   *)
(* the request that the JSONPath finds, whatever the label selector.       *)
Found(t, o) == InNamespace(t, o) /\ o.label \in query.values[1]
FoundByJSONPath(t) == {Id(o) : o \in {p \in cluster : Found(t, p)}}

-----------------------------------------------------------------------------
(* createResourcesDataFrame. *)

(* The name is added as the first cell if the table does not show it.  The *)
(* tables of most resources begin with the name; that of events ends with  *)
(* it, in a column for wide tables only (priority 1), which then counts as *)
(* shown.                                                                  *)
HasNameColumn == kind.late => query.wide
NameCell(o) == IF kind.late /\ HasNameColumn THEN o.cell ELSE o.name

(* unique compares the first two cells of a row, or the first one. *)
Key(o) == IF kind.namespaced THEN <<o.ns, NameCell(o)>> ELSE <<NameCell(o)>>

(* A row is the number of its table and its object.                        *)
Before(r, s) ==
  \/ r[1] < s[1]
  \/ r[1] = s[1] /\ Order[Id(r[2])] < Order[Id(s[2])]

(* The first row of a key stays.                                           *)
\* Faulty: rows are not made unique.
UniqueNot(rows) == rows
Unique(rows) == {r \in rows : \A s \in rows : Key(s[2]) = Key(r[2]) => ~Before(s, r)}

(* The JSONPath and the regular expression are applied to the rows. *)

\* Faulty: neither is applied.
KeptAll(o) == TRUE
Kept(o) ==
  /\ query.filter = "jsonPath" => Id(o) \in jsonNames
  /\ query.filter = "regex" => o.name \in query.values[1]

KeptRows ==
  UNION {{<<i, o>> : o \in {p \in resources[i] : Kept(p)}} : i \in DOMAIN resources}

DataFrame == Unique(KeptRows)

(* An answer that was appended and cannot be decoded fails the whole merge.*)
Undecodable == \E t \in garbled : place[t] = "done"

-----------------------------------------------------------------------------
Init ==
  /\ kind \in Kinds
  /\ cluster \in {c \in SUBSET Objects : Cardinality(c) <= MaxObjects /\ OnePerId(c) /\ InHome(c)}
  /\ query \in Queries
  /\ changes = 0
  /\ phase = "idle"
  /\ place = [t \in {} |-> "done"]
  /\ listed = [t \in {} |-> {}]
  /\ garbled = {}
  /\ matched = [t \in {} |-> {}]
  /\ resources = <<>>
  /\ jsonNames = {}
  /\ errors = 0
  /\ frame = {}
  /\ stable = {}
  /\ ever = {}

(* A regular expression that does not compile ends the query. *)
GetResources ==
  /\ phase = "idle"
  /\ phase' = IF query.filter = "regex" /\ ~query.valid THEN "failed" ELSE "running"
  /\ place' = [t \in Requests |-> "list"]
  /\ listed' = [t \in Requests |-> {}]
  /\ garbled' = {}
  /\ matched' = [t \in Requests |-> {}]
  /\ stable' = cluster
  /\ ever' = cluster
  /\ UNCHANGED <<kind, cluster, changes, query, resources, jsonNames, errors, frame>>

(* The first request: its answer is not decoded before all have ended.     *)
Answered(t) ==
  /\ phase = "running"
  /\ place[t] = "list"
  /\ place' = [place EXCEPT ![t] = IF query.filter = "jsonPath" THEN "jsonPath" ELSE "append"]
  /\ UNCHANGED <<kind, cluster, changes, query, phase, frame, stable, ever,
                 matched, resources, jsonNames, errors>>

List(t) ==
  /\ Answered(t)
  /\ listed' = [listed EXCEPT ![t] = Selected(t)]
  /\ UNCHANGED garbled

MayFault == errors + Cardinality(garbled) < MaxFaults

ListGarbled(t) ==
  /\ Answered(t)
  /\ MayFault
  /\ garbled' = garbled \cup {t}
  /\ UNCHANGED listed

(* The second request; a JSONPath that does not parse is found out here.   *)
ListJSONPath(t) ==
  /\ phase = "running"
  /\ place[t] = "jsonPath"
  /\ query.valid
  /\ place' = [place EXCEPT ![t] = "append"]
  /\ matched' = [matched EXCEPT ![t] = FoundByJSONPath(t)]
  /\ UNCHANGED <<kind, cluster, changes, query, phase, frame, stable, ever,
                 listed, garbled, resources, jsonNames, errors>>

(* A request fails, and its goroutine appends the error and returns.       *)
\* Faulty: it returns without resourcesWG.Done.
AfterFaultHang == "append error"
AfterFault == "failed"

Fail(t) ==
  /\ phase = "running"
  /\ place[t] \in {"list", "jsonPath"}
  /\ (place[t] = "jsonPath" /\ ~query.valid) \/ MayFault
  /\ place' = [place EXCEPT ![t] = AfterFault]
  /\ errors' = errors + 1
  /\ UNCHANGED <<kind, cluster, changes, query, phase, frame, stable, ever,
                 listed, garbled, matched, resources, jsonNames>>

(* Under resourcesMutex.                                                   *)
\* Faulty: the names of the last answer replace those of the others.
NewNamesLast(t) == matched[t]
NewNames(t) == jsonNames \cup matched[t]

Collect(t) ==
  /\ phase = "running"
  /\ place[t] = "append"
  /\ place' = [place EXCEPT ![t] = "done"]
  /\ resources' = Append(resources, listed[t])
  /\ jsonNames' = NewNames(t)
  /\ UNCHANGED <<kind, cluster, changes, query, phase, frame, stable, ever,
                 listed, garbled, matched, errors>>

(* After resourcesWG.Wait: the errors of requests count only if there is   *)
(* nothing else.                                                           *)
\* Faulty: any error fails the query.
NothingButNone == errors > 0
NothingBut == resources = <<>> /\ errors > 0

Return ==
  /\ phase = "running"
  /\ \A t \in Requests : place[t] \in {"done", "failed"}
  /\ phase' = IF NothingBut \/ Undecodable THEN "failed" ELSE "answered"
  /\ frame' = IF NothingBut \/ Undecodable THEN {} ELSE DataFrame
  /\ UNCHANGED <<kind, cluster, changes, query, stable, ever, requestVars>>

(* An object is created, changed or deleted. *)
Change ==
  /\ phase = "running"
  /\ changes < MaxChanges
  /\ \E o \in Objects :
       /\ cluster' \in {{x \in cluster : Id(x) # Id(o)},
                        {x \in cluster : Id(x) # Id(o)} \cup {o}}
       /\ cluster' # cluster
       /\ Cardinality(cluster') <= MaxObjects
       /\ InHome({o})
  /\ changes' = changes + 1
  /\ stable' = stable \cap cluster'
  /\ ever' = ever \cup cluster'
  /\ UNCHANGED <<kind, query, phase, frame, requestVars>>

Request(t) == List(t) \/ ListGarbled(t) \/ ListJSONPath(t) \/ Fail(t) \/ Collect(t)

Running == (\E t \in Requests : Request(t)) \/ Return

Next == GetResources \/ Running \/ Change

Spec == Init /\ [][Next]_vars

(* Goroutines keep running and every request ends.                         *)
FairSpec == Spec /\ WF_vars(Running)

-----------------------------------------------------------------------------
(* Properties. *)

(* What the user asked for, said of one object: the reference for the      *)
(* requests, the filters and the merge together.                           *)
Wanted(o) ==
  /\ kind.namespaced => Range(query.namespaces) \cap {All, o.ns} # {}
  /\ CASE query.filter = "labelSelector" -> \E v \in Range(query.values) : o.label \in v
       [] query.filter = "jsonPath" -> o.label \in query.values[1]
       [] query.filter = "regex" -> o.name \in query.values[1]

(* The table shows nothing that was not there: every row is an object that *)
(* existed and was wanted at some time during the query (client.go:225-282,*)
(* resources.go:137-174), even if the two requests of a JSONPath filter    *)
(* see different clusters.                                                 *)
FrameIsSound ==
  phase = "answered" =>
    \A r \in frame : r[2] \in ever /\ \E x \in ever : Id(x) = Id(r[2]) /\ Wanted(x)

(* The table misses nothing, whatever fails (client.go:237-289): an object *)
(* that was wanted and did not change during the query has a row, unless   *)
(* each request that asked for it failed, or the merge cannot know its     *)
(* name: a late name column in a wide table.                               *)
FrameIsComplete ==
  (phase = "answered" /\ ~(kind.late /\ query.wide)) =>
    \A o \in stable : Wanted(o) =>
      LET asking == {t \in Requests : Asked(t, o)}
      IN  \/ \E r \in frame : r[2] = o
          \/ asking # {} /\ \A t \in asking : place[t] = "failed"

(* However the requests overlap, an object has one row (resources.go:177). *)
NoDuplicateRows ==
  (phase = "answered" /\ (kind.late /\ query.wide => changes = 0)) =>
    \A r, s \in frame : Id(r[2]) = Id(s[2]) => r = s

(* A request that fails does not hide the others, and a query of which     *)
(* nothing came does not look like an empty table (client.go:284-286): a   *)
(* query fails, unless it is invalid, just if all its requests have failed,*)
(* or an answer that came is no table (resources.go:86-88, 139-141), which *)
(* does hide the others.                                                   *)
NothingCame == Requests # {} /\ \A t \in Requests : place[t] = "failed"
SomeGarbled == \E t \in Requests : place[t] # "failed" /\ t \in garbled

FailsWithReason ==
  /\ phase = "failed" => ~query.valid \/ NothingCame \/ SomeGarbled
  /\ phase = "answered" => ~NothingCame /\ ~SomeGarbled

(* WaitGroup: every query ends, whatever fails.                            *)
QueryEnds == phase = "running" ~> phase \in {"failed", "answered"}
=============================================================================
