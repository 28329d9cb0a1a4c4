------------------------- MODULE ResourceQueryProofs -------------------------
(***************************************************************************)
(* Proofs about ResourceQuery, for any queries, resources, changes and     *)
(* failures.                                                               *)
(*                                                                         *)
(* Answers have been appended just if a request is done, and errors just if*)
(* one has failed: so a query that has nothing but errors, after all of its*)
(* requests have ended, has seen all of them fail, and one that has an     *)
(* answer has not.                                                         *)
(*                                                                         *)
(* The tables that are appended hold what their requests asked for and     *)
(* what was there at some time; those of a request that has not failed, and*)
(* whose answer is a table, all it asked for that was there all the time.  *)
(* With that, the rows that the merge leaves are sound and complete, and an*)
(* object has one of them.                                                 *)
(***************************************************************************)
EXTENDS ResourceQuery, WellFoundedInduction, TLAPS

Tables == SUBSET Objects
Ids == Namespaces \X Names

Types ==
  /\ kind \in Kinds /\ query \in Queries
  /\ cluster \subseteq Objects /\ ever \subseteq Objects /\ changes \in Nat
  /\ phase \in {"idle", "running", "failed", "answered"}
  /\ place \in [DOMAIN place -> {"list", "jsonPath", "append", "done", "failed"}]
  /\ listed \in [DOMAIN place -> Tables] /\ matched \in [DOMAIN place -> SUBSET Ids]
  /\ garbled \subseteq DOMAIN place
  /\ resources \in Seq(Tables)
  /\ errors \in Nat

(* The requests are made when the query begins; one that is done has       *)
(* appended its table, one that has failed its error, and nobody else has. *)
RequestsInv ==
  /\ phase = "idle" => DOMAIN place = {}
  /\ phase # "idle" => DOMAIN place = Requests
  /\ resources = <<>> <=> \A t \in DOMAIN place : place[t] # "done"
  /\ errors = 0 <=> \A t \in DOMAIN place : place[t] # "failed"

(* The objects in the cluster now, during the whole query and at some time.   *)
ClusterInv ==
  /\ OnePerId(cluster) /\ InHome(cluster) /\ InHome(ever)
  /\ phase = "idle" => stable = {} /\ ever = {} /\ resources = <<>> /\ jsonNames = {}
  /\ phase # "idle" => stable \subseteq cluster /\ cluster \subseteq ever
  /\ \A o \in stable, p \in ever : Id(o) = Id(p) => o = p
  /\ changes = 0 => ever \subseteq cluster

(* What the requests have got is what they asked for, at some time.           *)
TableInv ==
  /\ \A t \in DOMAIN place :
       /\ OnePerId(listed[t]) /\ \A o \in listed[t] : o \in ever /\ Asked(t, o)
       /\ \A n \in matched[t] : \E p \in ever : Id(p) = n /\ Found(t, p)
  /\ \A i \in DOMAIN resources :
       OnePerId(resources[i]) /\ \A o \in resources[i] : o \in ever /\ \E t \in DOMAIN place : Asked(t, o)
  /\ \A n \in jsonNames : \E p \in ever : Id(p) = n /\ \E t \in DOMAIN place : Found(t, p)

(* Unless a request fails, it has got, and then handed over, every object     *)
(* that it asked for and that was there all the time.                         *)
GotInv ==
  \A t \in DOMAIN place :
    /\ place[t] \notin {"list", "failed"} /\ t \notin garbled =>
         \A o \in stable : Asked(t, o) => o \in listed[t]
    /\ place[t] \in {"append", "done"} /\ query.filter = "jsonPath" =>
         \A o \in stable : Found(t, o) => Id(o) \in matched[t]
    /\ place[t] = "done" =>
         matched[t] \subseteq jsonNames /\ \E i \in DOMAIN resources : resources[i] = listed[t]

(* The data frame is made when all requests are done, and stays.              *)
FrameInv ==
  phase = "answered" => frame = DataFrame /\ \A t \in DOMAIN place : place[t] \in {"done", "failed"}

DataInv == ClusterInv /\ TableInv /\ GotInv /\ FrameInv

Base == Types /\ RequestsInv /\ FailsWithReason
IInv == Base /\ DataInv

USE DEF Tables

-----------------------------------------------------------------------------
LEMMA IdOfObject == \A o \in Objects : Id(o) \in Ids
  BY DEF Objects, Id, Ids

LEMMA InitBase == Init => Base
<1> SUFFICES ASSUME Init PROVE Base
  OBVIOUS
<1>1. DOMAIN place = {} /\ place \in [{} -> {"list", "jsonPath", "append", "done", "failed"}]
  BY DEF Init
<1>3. /\ listed \in [{} -> Tables] /\ matched \in [{} -> SUBSET Ids] /\ resources \in Seq(Tables)
      /\ cluster \subseteq Objects /\ garbled = {}
  BY DEF Init
<1> QED
  BY <1>1, <1>3 DEF Init, Base, Types, RequestsInv, FailsWithReason

LEMMA BeginStep == Base /\ GetResources => Base'
<1> SUFFICES ASSUME Base, GetResources PROVE Base'
  OBVIOUS
<1>1. /\ phase = "idle" /\ phase' \in {"failed", "running"} /\ (phase' = "failed" => ~query.valid)
      /\ place' = [t \in Requests |-> "list"] /\ listed' = [t \in Requests |-> {}]
      /\ matched' = [t \in Requests |-> {}] /\ ever' = cluster /\ garbled' = {}
      /\ UNCHANGED <<kind, cluster, changes, query, resources, errors>>
  BY DEF GetResources
<1>2. Requests' = Requests
  BY <1>1 DEF Requests, QueryNamespaces, Alternatives
<1>3. DOMAIN place' = Requests
  BY <1>1
<1>4. Types'
  <2>1. place' \in [DOMAIN place' -> {"list", "jsonPath", "append", "done", "failed"}]
    BY <1>1
  <2>2. listed' \in [DOMAIN place' -> Tables] /\ matched' \in [DOMAIN place' -> SUBSET Ids]
    BY <1>1, <1>3
  <2> QED
    BY <1>1, <1>2, <1>3, <2>1, <2>2 DEF Base, Types
<1>6. RequestsInv'
  BY <1>1, <1>2, <1>3 DEF Base, RequestsInv
<1>7. FailsWithReason'
  BY <1>1 DEF FailsWithReason
<1> QED
  BY <1>4, <1>6, <1>7 DEF Base

(* The requests up to their end. *)
LEMMA AnswerStep ==
  ASSUME Base, phase = "running", NEW t \in Requests, List(t) \/ ListGarbled(t) \/ ListJSONPath(t)
  PROVE  Base'
<1>1. /\ \E s \in {"jsonPath", "append"} : place' = [place EXCEPT ![t] = s]
      /\ place[t] \notin {"done", "failed"} /\ t \in DOMAIN place
      /\ garbled' \in {garbled, garbled \cup {t}}
      /\ UNCHANGED <<kind, cluster, ever, changes, query, phase, resources, errors>>
  BY DEF List, ListGarbled, Answered, ListJSONPath, Base, RequestsInv
<1>2. DOMAIN place' = DOMAIN place /\ Requests' = Requests
  BY <1>1 DEF Base, Types, Requests, QueryNamespaces, Alternatives
<1>3. listed' \in [DOMAIN place -> Tables] /\ matched' \in [DOMAIN place -> SUBSET Ids]
  <2>1. Selected(t) \in Tables
    BY DEF Selected, Base, Types
  <2>2. FoundByJSONPath(t) \in SUBSET Ids
    BY IdOfObject DEF FoundByJSONPath, Base, Types
  <2> QED
    BY <2>1, <2>2 DEF List, ListGarbled, Answered, ListJSONPath, Base, Types
<1>4. Types'
  BY <1>1, <1>2, <1>3 DEF Base, Types
<1>6. RequestsInv' /\ FailsWithReason'
  BY <1>1, <1>2 DEF Base, Types, RequestsInv, FailsWithReason
<1> QED
  BY <1>4, <1>6 DEF Base

(* A request ends, with an error or with a table. *)
LEMMA EndStep ==
  ASSUME Base, phase = "running", NEW t \in Requests, Fail(t) \/ Collect(t)
  PROVE  Base'
<1>1. /\ \E s \in {"done", "failed"} : place' = [place EXCEPT ![t] = s]
      /\ t \in DOMAIN place /\ place[t] \notin {"done", "failed"}
      /\ UNCHANGED <<kind, cluster, ever, changes, query, phase, listed, garbled, matched>>
  BY DEF Fail, Collect, AfterFault, Base, RequestsInv
<1>2. DOMAIN place' = DOMAIN place /\ Requests' = Requests
  BY <1>1 DEF Base, Types, Requests, QueryNamespaces, Alternatives
<1>4. CASE Fail(t)
  <2>1. errors' = errors + 1 /\ resources' = resources /\ place' = [place EXCEPT ![t] = "failed"]
    BY <1>4 DEF Fail, AfterFault
  <2>2. Types'
    BY <1>1, <1>2, <2>1 DEF Base, Types
  <2>3. RequestsInv' /\ FailsWithReason'
    BY <1>1, <1>2, <2>1 DEF Base, Types, RequestsInv, FailsWithReason
  <2> QED
    BY <2>2, <2>3 DEF Base
<1>5. CASE Collect(t)
  <2>1. errors' = errors /\ resources' = Append(resources, listed[t])
    BY <1>5 DEF Collect
  <2>2. listed[t] \in Tables /\ resources \in Seq(Tables)
    BY <1>1 DEF Base, Types
  <2>3. resources' \in Seq(Tables) /\ Len(resources') = Len(resources) + 1 /\ Len(resources) \in Nat
    BY <2>1, <2>2
  <2>4. resources' # <<>>
    <3>1. Len(<<>>) = 0
      OBVIOUS
    <3> QED
      BY <2>3, <3>1
  <2>5. Types'
    BY <1>1, <1>2, <2>1, <2>3 DEF Base, Types
  <2>6. RequestsInv' /\ FailsWithReason'
    <3>1. place' = [place EXCEPT ![t] = "done"]
      BY <1>5 DEF Collect
    <3> QED
      BY <1>1, <1>2, <2>1, <2>4, <3>1 DEF Base, Types, RequestsInv, FailsWithReason
  <2> QED
    BY <2>5, <2>6 DEF Base
<1> QED
  BY <1>4, <1>5

LEMMA ReturnStep == Base /\ Return => Base'
<1> SUFFICES ASSUME Base, Return PROVE Base'
  OBVIOUS
<1>1. /\ phase = "running" /\ \A t \in Requests : place[t] \in {"done", "failed"}
      /\ phase' = IF NothingBut \/ Undecodable THEN "failed" ELSE "answered"
      /\ UNCHANGED <<kind, cluster, ever, changes, query, place, listed, garbled, matched, resources, errors>>
  BY DEF Return, requestVars
<1>2. Requests' = Requests
  BY <1>1 DEF Requests, QueryNamespaces, Alternatives
<1>3. Types'
  BY <1>1 DEF Base, Types
<1>5. NothingBut <=> NothingCame
  BY <1>1 DEF NothingBut, NothingCame, Base, Types, RequestsInv
<1>6. Undecodable <=> SomeGarbled
  BY <1>1 DEF Undecodable, SomeGarbled, Base, Types, RequestsInv
<1>7. NothingCame' = NothingCame /\ SomeGarbled' = SomeGarbled
  BY <1>1, <1>2 DEF NothingCame, SomeGarbled
<1>8. RequestsInv' /\ FailsWithReason'
  BY <1>1, <1>2, <1>5, <1>6, <1>7 DEF Base, RequestsInv, FailsWithReason
<1> QED
  BY <1>3, <1>8 DEF Base

LEMMA OtherStep ==
  ASSUME Base, Change \/ UNCHANGED vars
  PROVE  Base'
<1>1. /\ cluster' \subseteq Objects /\ ever' \subseteq Objects /\ changes' \in Nat
      /\ UNCHANGED <<kind, query, phase, place, listed, garbled, matched, resources, errors>>
  <2>1. CASE Change
    <3>1. PICK o \in Objects : cluster' \in {{p \in cluster : Id(p) # Id(o)}, {p \in cluster : Id(p) # Id(o)} \cup {o}}
      BY <2>1 DEF Change
    <3>2. cluster \subseteq Objects /\ ever \subseteq Objects /\ changes \in Nat
      BY DEF Base, Types
    <3>3. cluster' \subseteq Objects
      BY <3>1, <3>2
    <3>4. ever' = ever \cup cluster' /\ changes' = changes + 1
          /\ UNCHANGED <<kind, query, phase, place, listed, garbled, matched, resources, errors>>
      BY <2>1 DEF Change, requestVars
    <3> QED
      BY <3>2, <3>3, <3>4
  <2>2. CASE UNCHANGED vars
    BY <2>2 DEF vars, requestVars, Base, Types
  <2> QED
    BY <2>1, <2>2
<1>2. Requests' = Requests
  BY <1>1 DEF Requests, QueryNamespaces, Alternatives
<1> QED
  BY <1>1, <1>2 DEF Base, Types, RequestsInv, FailsWithReason, NothingCame, SomeGarbled

(* What the requests ask for does not change while they run. *)
LEMMA SameRequests ==
  ASSUME kind' = kind, query' = query
  PROVE  /\ \A t, o : (Asked(t, o)' <=> Asked(t, o)) /\ (Found(t, o)' <=> Found(t, o))
         /\ \A c : InHome(c)' <=> InHome(c)
  BY DEF Asked, Found, InNamespace, QueryNamespaces, Alternatives, InHome

(* Nothing has been got when the requests begin. *)
LEMMA BeginData == Base /\ DataInv /\ GetResources => DataInv'
<1> SUFFICES ASSUME Base, DataInv, GetResources PROVE DataInv'
  OBVIOUS
<1>1. /\ phase = "idle" /\ phase' \in {"failed", "running"}
      /\ place' = [t \in Requests |-> "list"] /\ listed' = [t \in Requests |-> {}]
      /\ matched' = [t \in Requests |-> {}] /\ stable' = cluster /\ ever' = cluster /\ garbled' = {}
      /\ UNCHANGED <<kind, cluster, changes, query, resources, jsonNames, errors, frame>>
  BY DEF GetResources
<1>2. OnePerId(cluster) /\ InHome(cluster) /\ resources = <<>> /\ jsonNames = {}
  BY <1>1 DEF DataInv, ClusterInv
<1>3. ClusterInv'
  BY <1>1, <1>2, SameRequests DEF ClusterInv, OnePerId
<1>4. TableInv'
  <2>1. DOMAIN resources = {}
    BY <1>2
  <2>2. OnePerId({})
    BY DEF OnePerId
  <2> QED
    BY <1>1, <1>2, <2>1, <2>2 DEF TableInv
<1>5. GotInv' /\ FrameInv'
  BY <1>1 DEF GotInv, FrameInv
<1> QED
  BY <1>3, <1>4, <1>5 DEF DataInv

(* A request gets the objects it asked for, of the cluster as it is.          *)
LEMMA ListData ==
  ASSUME Base, DataInv, NEW t \in Requests, List(t)
  PROVE  DataInv'
<1>1. /\ phase = "running" /\ place[t] = "list"
      /\ place' = [place EXCEPT ![t] = IF query.filter = "jsonPath" THEN "jsonPath" ELSE "append"]
      /\ listed' = [listed EXCEPT ![t] = Selected(t)]
      /\ UNCHANGED <<kind, cluster, changes, query, phase, frame, stable, ever, garbled, matched, resources, jsonNames, errors>>
  BY DEF List, Answered
<1>2. /\ t \in DOMAIN place /\ place \in [DOMAIN place -> {"list", "jsonPath", "append", "done", "failed"}]
      /\ listed \in [DOMAIN place -> Tables]
  BY <1>1 DEF Base, RequestsInv, Types
<1>3. /\ DOMAIN place' = DOMAIN place /\ place'[t] \in {"jsonPath", "append"} /\ listed'[t] = Selected(t)
      /\ query.filter = "jsonPath" => place'[t] = "jsonPath"
      /\ \A u \in DOMAIN place \ {t} : place'[u] = place[u] /\ listed'[u] = listed[u]
  BY <1>1, <1>2
<1>4. ClusterInv'
  BY <1>1, SameRequests DEF DataInv, ClusterInv
<1>5. OnePerId(Selected(t)) /\ \A o \in Selected(t) : o \in ever /\ Asked(t, o)
  BY <1>1 DEF Selected, DataInv, ClusterInv, OnePerId
<1>6. TableInv'
  BY <1>1, <1>3, <1>5, SameRequests DEF DataInv, TableInv
<1>7. \A o \in stable : Asked(t, o) => o \in Selected(t)
  BY <1>1 DEF Selected, DataInv, ClusterInv
<1>8. GotInv'
  BY <1>1, <1>3, <1>7, SameRequests DEF DataInv, GotInv
<1>9. FrameInv'
  BY <1>1 DEF FrameInv
<1> QED
  BY <1>4, <1>6, <1>8, <1>9 DEF DataInv

(* An answer that is no table.                                                *)
LEMMA GarbledData ==
  ASSUME Base, DataInv, NEW t \in Requests, ListGarbled(t)
  PROVE  DataInv'
<1>1. /\ phase = "running" /\ garbled' = garbled \cup {t}
      /\ place' = [place EXCEPT ![t] = IF query.filter = "jsonPath" THEN "jsonPath" ELSE "append"]
      /\ UNCHANGED <<kind, cluster, changes, query, phase, frame, stable, ever, listed, matched, resources, jsonNames, errors>>
  BY DEF ListGarbled, Answered
<1>2. /\ DOMAIN place' = DOMAIN place /\ place'[t] \in {"jsonPath", "append"}
      /\ query.filter = "jsonPath" => place'[t] = "jsonPath"
      /\ \A u \in DOMAIN place \ {t} : place'[u] = place[u]
  BY <1>1 DEF Base, RequestsInv, Types
<1>3. ClusterInv'
  BY <1>1, SameRequests DEF DataInv, ClusterInv
<1>4. TableInv'
  BY <1>1, <1>2, SameRequests DEF DataInv, TableInv
<1>5. GotInv' /\ FrameInv'
  BY <1>1, <1>2, SameRequests DEF DataInv, GotInv, FrameInv
<1> QED
  BY <1>3, <1>4, <1>5 DEF DataInv

(* The second request of a JSONPath filter, of the cluster as it is then.     *)
LEMMA JSONPathData ==
  ASSUME Base, DataInv, NEW t \in Requests, ListJSONPath(t)
  PROVE  DataInv'
<1>1. /\ phase = "running" /\ place[t] = "jsonPath"
      /\ place' = [place EXCEPT ![t] = "append"]
      /\ matched' = [matched EXCEPT ![t] = FoundByJSONPath(t)]
      /\ UNCHANGED <<kind, cluster, changes, query, phase, frame, stable, ever, listed, garbled, resources, jsonNames, errors>>
  BY DEF ListJSONPath
<1>2. /\ t \in DOMAIN place /\ place \in [DOMAIN place -> {"list", "jsonPath", "append", "done", "failed"}]
      /\ matched \in [DOMAIN place -> SUBSET Ids]
  BY <1>1 DEF Base, RequestsInv, Types
<1>3. /\ DOMAIN place' = DOMAIN place /\ place'[t] = "append" /\ matched'[t] = FoundByJSONPath(t)
      /\ \A u \in DOMAIN place \ {t} : place'[u] = place[u] /\ matched'[u] = matched[u]
  BY <1>1, <1>2
<1>4. ClusterInv'
  BY <1>1, SameRequests DEF DataInv, ClusterInv
<1>5. \A n \in FoundByJSONPath(t) : \E p \in ever : Id(p) = n /\ Found(t, p)
  BY <1>1 DEF FoundByJSONPath, DataInv, ClusterInv
<1>6. TableInv'
  BY <1>1, <1>3, <1>5, SameRequests DEF DataInv, TableInv
<1>7. \A o \in stable : Found(t, o) => Id(o) \in FoundByJSONPath(t)
  BY <1>1 DEF FoundByJSONPath, DataInv, ClusterInv
<1>8. GotInv'
  BY <1>1, <1>3, <1>7, SameRequests DEF DataInv, GotInv
<1>9. FrameInv'
  BY <1>1 DEF FrameInv
<1> QED
  BY <1>4, <1>6, <1>8, <1>9 DEF DataInv

LEMMA FailData ==
  ASSUME Base, DataInv, NEW t \in Requests, Fail(t)
  PROVE  DataInv'
<1>1. /\ phase = "running" /\ place' = [place EXCEPT ![t] = "failed"]
      /\ UNCHANGED <<kind, cluster, changes, query, phase, frame, stable, ever, listed, garbled, matched, resources, jsonNames>>
  BY DEF Fail, AfterFault
<1>2. /\ DOMAIN place' = DOMAIN place
      /\ \A u \in DOMAIN place : place'[u] = IF u = t THEN "failed" ELSE place[u]
  BY <1>1 DEF Base, Types
<1>3. ClusterInv'
  BY <1>1, SameRequests DEF DataInv, ClusterInv
<1>4. TableInv'
  BY <1>1, <1>2, SameRequests DEF DataInv, TableInv
<1>5. GotInv' /\ FrameInv'
  BY <1>1, <1>2, SameRequests DEF DataInv, GotInv, FrameInv
<1> QED
  BY <1>3, <1>4, <1>5 DEF DataInv

(* A request hands over what it has got, with what the others have.           *)
LEMMA CollectData ==
  ASSUME Base, DataInv, NEW t \in Requests, Collect(t)
  PROVE  DataInv'
<1>1. /\ phase = "running" /\ place[t] = "append" /\ place' = [place EXCEPT ![t] = "done"]
      /\ resources' = Append(resources, listed[t]) /\ jsonNames' = jsonNames \cup matched[t]
      /\ UNCHANGED <<kind, cluster, changes, query, phase, frame, stable, ever, listed, garbled, matched, errors>>
  BY DEF Collect, NewNames
<1>2. /\ t \in DOMAIN place /\ place \in [DOMAIN place -> {"list", "jsonPath", "append", "done", "failed"}]
      /\ resources \in Seq(Tables) /\ listed[t] \in Tables
  BY <1>1 DEF Base, RequestsInv, Types
<1>3. /\ DOMAIN place' = DOMAIN place /\ place'[t] = "done"
      /\ \A u \in DOMAIN place \ {t} : place'[u] = place[u]
  BY <1>1, <1>2
<1>4. /\ DOMAIN resources' = DOMAIN resources \cup {Len(resources) + 1}
      /\ \A i \in DOMAIN resources : resources'[i] = resources[i]
      /\ resources'[Len(resources) + 1] = listed[t]
  BY <1>1, <1>2
<1>5. ClusterInv'
  BY <1>1, SameRequests DEF DataInv, ClusterInv
<1>6. TableInv'
  <2>1. \A i \in DOMAIN resources' :
          OnePerId(resources'[i]) /\ \A o \in resources'[i] : o \in ever /\ \E u \in DOMAIN place : Asked(u, o)
    BY <1>2, <1>4 DEF DataInv, TableInv
  <2>2. \A n \in jsonNames' : \E p \in ever : Id(p) = n /\ \E u \in DOMAIN place : Found(u, p)
    BY <1>1, <1>2 DEF DataInv, TableInv
  <2> QED
    BY <1>1, <1>3, <2>1, <2>2, SameRequests DEF DataInv, TableInv
<1>7. GotInv'
  <2> SUFFICES ASSUME NEW u \in DOMAIN place
      PROVE  /\ place'[u] \notin {"list", "failed"} /\ u \notin garbled =>
                  \A o \in stable : Asked(u, o) => o \in listed[u]
             /\ place'[u] \in {"append", "done"} /\ query.filter = "jsonPath" =>
                  \A o \in stable : Found(u, o) => Id(o) \in matched[u]
             /\ place'[u] = "done" =>
                  matched[u] \subseteq jsonNames' /\ \E i \in DOMAIN resources' : resources'[i] = listed[u]
    BY <1>1, <1>3, SameRequests DEF GotInv
  <2>1. CASE u = t
    BY <1>1, <1>3, <1>4, <2>1 DEF DataInv, GotInv
  <2>2. CASE u # t
    <3>1. place[u] = "done" => \E i \in DOMAIN resources' : resources'[i] = listed[u]
      BY <1>4 DEF DataInv, GotInv
    <3> QED
      BY <1>1, <1>3, <2>2, <3>1 DEF DataInv, GotInv
  <2> QED
    BY <2>1, <2>2
<1>8. FrameInv'
  BY <1>1 DEF FrameInv
<1> QED
  BY <1>5, <1>6, <1>7, <1>8 DEF DataInv

LEMMA ReturnData == Base /\ DataInv /\ Return => DataInv'
<1> SUFFICES ASSUME Base, DataInv, Return PROVE DataInv'
  OBVIOUS
<1>1. /\ phase = "running" /\ phase' \in {"failed", "answered"} /\ \A t \in Requests : place[t] \in {"done", "failed"}
      /\ phase' = "answered" => frame' = DataFrame
      /\ UNCHANGED <<kind, cluster, changes, query, stable, ever, place, listed, garbled, matched, resources, jsonNames, errors>>
  BY DEF Return, requestVars
<1>2. ClusterInv'
  BY <1>1, SameRequests DEF DataInv, ClusterInv
<1>3. TableInv' /\ GotInv'
  BY <1>1, SameRequests DEF DataInv, TableInv, GotInv
<1>4. FrameInv'
  <2>1. DataFrame' = DataFrame
    BY <1>1 DEF DataFrame, KeptRows, Kept, Unique, Key, NameCell, HasNameColumn
  <2>2. DOMAIN place = Requests
    BY <1>1 DEF Base, RequestsInv
  <2> QED
    BY <1>1, <2>1, <2>2 DEF FrameInv
<1> QED
  BY <1>2, <1>3, <1>4 DEF DataInv

(* The cluster keeps one object of a name; an object that changes is not      *)
(* stable any more.                                                           *)
LEMMA ChangeData == Base /\ DataInv /\ Change => DataInv'
<1> SUFFICES ASSUME Base, DataInv, Change PROVE DataInv'
  OBVIOUS
<1>1. PICK o \in Objects :
        /\ cluster' \in {{p \in cluster : Id(p) # Id(o)}, {p \in cluster : Id(p) # Id(o)} \cup {o}}
        /\ InHome({o})
  BY DEF Change
<1>2. /\ phase = "running" /\ changes' = changes + 1 /\ stable' = stable \cap cluster' /\ ever' = ever \cup cluster'
      /\ UNCHANGED <<kind, query, phase, frame, place, listed, garbled, matched, resources, jsonNames, errors>>
  BY DEF Change, requestVars
<1>3. changes' # 0
  BY <1>2 DEF Base, Types
<1>4. OnePerId(cluster') /\ InHome(cluster') /\ InHome(ever')
  BY <1>1, <1>2 DEF OnePerId, InHome, DataInv, ClusterInv
<1>5. \A s \in stable', p \in ever' : Id(s) = Id(p) => s = p
  BY <1>2, <1>4 DEF OnePerId, DataInv, ClusterInv
<1>6. ClusterInv'
  BY <1>2, <1>3, <1>4, <1>5, SameRequests DEF ClusterInv, InHome
<1>7. TableInv'
  BY <1>2, SameRequests DEF DataInv, TableInv
<1>8. GotInv'
  BY <1>2, SameRequests DEF DataInv, GotInv
<1>9. FrameInv'
  BY <1>2 DEF FrameInv
<1> QED
  BY <1>6, <1>7, <1>8, <1>9 DEF DataInv

LEMMA StutterData ==
  ASSUME DataInv, UNCHANGED vars
  PROVE  DataInv'
<1>1. UNCHANGED <<kind, cluster, changes, query, phase, frame, stable, ever, place, listed, garbled,
                  matched, resources, jsonNames, errors>>
  BY DEF vars, requestVars
<1>2. DataFrame' = DataFrame
  BY <1>1 DEF DataFrame, KeptRows, Kept, Unique, Key, NameCell, HasNameColumn
<1>3. ClusterInv'
  BY <1>1, SameRequests DEF DataInv, ClusterInv
<1>4. TableInv' /\ GotInv' /\ FrameInv'
  BY <1>1, <1>2, SameRequests DEF DataInv, TableInv, GotInv, FrameInv
<1> QED
  BY <1>3, <1>4 DEF DataInv

THEOREM Invariance == Spec => []IInv
<1>1. Init => IInv
  <2> SUFFICES ASSUME Init PROVE DataInv
    BY InitBase DEF IInv
  <2>1. DOMAIN place = {} /\ DOMAIN resources = {} /\ ever = {} /\ stable = {} /\ jsonNames = {}
    BY DEF Init
  <2>2. ClusterInv
    BY <2>1 DEF Init, ClusterInv, InHome
  <2> QED
    BY <2>1, <2>2 DEF Init, DataInv, TableInv, GotInv, FrameInv
<1>2. IInv /\ [Next]_vars => IInv'
  <2> SUFFICES ASSUME IInv, [Next]_vars PROVE IInv'
    OBVIOUS
  <2>1. ASSUME NEW t \in Requests, Request(t)
        PROVE  IInv'
    <3>1. phase = "running"
      BY <2>1 DEF Request, List, ListGarbled, Answered, ListJSONPath, Fail, Collect
    <3>2. Base'
      BY <2>1, <3>1, AnswerStep, EndStep DEF Request, IInv
    <3> QED
      BY <2>1, <3>2, ListData, GarbledData, JSONPathData, FailData, CollectData DEF Request, IInv
  <2>2. CASE GetResources
    BY <2>2, BeginStep, BeginData DEF IInv
  <2>3. CASE Return
    BY <2>3, ReturnStep, ReturnData DEF IInv
  <2>4. CASE Change \/ UNCHANGED vars
    BY <2>4, OtherStep, ChangeData, StutterData DEF IInv
  <2> QED
    BY <2>1, <2>2, <2>3, <2>4 DEF Next, Running
<1> QED
  BY <1>1, <1>2, PTL DEF Spec

(* A request that fails does not hide the others, and a query of which     *)
(* nothing came does not look like an empty table (client.go:284-286): it  *)
(* fails, unless it is invalid, just if all its requests have failed or an *)
(* answer that came is no table (resources.go:86-88, 139-141).             *)
THEOREM FailsForReason == Spec => []FailsWithReason
<1>1. IInv => FailsWithReason
  BY DEF IInv, Base
<1> QED
  BY <1>1, Invariance, PTL

-----------------------------------------------------------------------------
(* The merge. *)

LEMMA KeptRow ==
  \A i, o : <<i, o>> \in KeptRows <=> i \in DOMAIN resources /\ o \in resources[i] /\ Kept(o)
<1> SUFFICES ASSUME NEW i, NEW o
             PROVE  <<i, o>> \in KeptRows <=> i \in DOMAIN resources /\ o \in resources[i] /\ Kept(o)
  OBVIOUS
<1>1. ASSUME <<i, o>> \in KeptRows
      PROVE  i \in DOMAIN resources /\ o \in resources[i] /\ Kept(o)
  <2>1. PICK j \in DOMAIN resources : <<i, o>> \in {<<j, p>> : p \in {p \in resources[j] : Kept(p)}}
    BY <1>1 DEF KeptRows
  <2>2. PICK p \in resources[j] : Kept(p) /\ <<i, o>> = <<j, p>>
    BY <2>1
  <2> QED
    BY <2>2
<1>2. ASSUME i \in DOMAIN resources, o \in resources[i], Kept(o)
      PROVE  <<i, o>> \in KeptRows
  <2>1. <<i, o>> \in {<<i, p>> : p \in {p \in resources[i] : Kept(p)}}
    BY <1>2
  <2> QED
    BY <1>2, <2>1 DEF KeptRows
<1> QED
  BY <1>1, <1>2

(* Every row has a table, an object in it and passes the filters. *)
LEMMA RowIsKept ==
  ASSUME NEW r \in KeptRows
  PROVE  /\ r = <<r[1], r[2]>> /\ r[1] \in DOMAIN resources
         /\ r[2] \in resources[r[1]] /\ Kept(r[2])
<1>1. PICK i \in DOMAIN resources : r \in {<<i, o>> : o \in {p \in resources[i] : Kept(p)}}
  BY DEF KeptRows
<1>2. PICK o \in resources[i] : Kept(o) /\ r = <<i, o>>
  BY <1>1
<1> QED
  BY <1>2

LEMMA LeastNatural ==
  ASSUME NEW T \in SUBSET Nat, T # {}
  PROVE  \E n \in T : \A m \in T : n <= m
<1> DEFINE Less == OpToRel(<, Nat)
<1>1. \A m, n \in Nat : <<m, n>> \in Less <=> m < n
  BY DEF OpToRel
<1>2. IsWellFoundedOn(Less, Nat)
  BY NatLessThanWellFounded
<1> HIDE DEF Less
<1>3. PICK n \in T : \A m \in T : ~(<<m, n>> \in Less)
  BY <1>2, WFMin
<1>4. \A m \in T : n <= m
  <2> SUFFICES ASSUME NEW m \in T PROVE n <= m
    OBVIOUS
  <2>1. m \in Nat /\ n \in Nat
    OBVIOUS
  <2>2. ~(m < n)
    BY <1>1, <1>3, <2>1
  <2> QED
    BY <2>1, <2>2
<1> QED
  BY <1>4

(* Of the rows with the key of a row one is the first. *)
LEMMA FirstRow ==
  ASSUME Base, NEW r \in KeptRows
  PROVE  \E s \in DataFrame : Key(s[2]) = Key(r[2])
<1> DEFINE Same == {s \in KeptRows : Key(s[2]) = Key(r[2])}
           I == {s[1] : s \in Same}
<1>1. \A s \in KeptRows : s[1] \in Nat /\ Order[Id(s[2])] \in Nat
  <2> SUFFICES ASSUME NEW s \in KeptRows PROVE s[1] \in Nat /\ Order[Id(s[2])] \in Nat
    OBVIOUS
  <2>1. s[1] \in DOMAIN resources /\ s[2] \in resources[s[1]]
    BY RowIsKept
  <2>2. resources \in Seq(Tables)
    BY DEF Base, Types
  <2>3. s[1] \in Nat /\ s[2] \in Objects
    BY <2>1, <2>2
  <2> QED
    BY <2>3, IdOfObject, OrderAssumption DEF Ids
<1>2. I \in SUBSET Nat /\ I # {}
  BY <1>1
<1>3. PICK i \in I : \A j \in I : i <= j
  BY <1>2, LeastNatural
<1> DEFINE J == {Order[Id(s[2])] : s \in {x \in Same : x[1] = i}}
<1>4. J \in SUBSET Nat /\ J # {}
  BY <1>1, <1>3
<1>5. PICK j \in J : \A k \in J : j <= k
  BY <1>4, LeastNatural
<1>6. PICK s \in Same : s[1] = i /\ Order[Id(s[2])] = j
  BY <1>5
<1>7. ASSUME NEW x \in Same PROVE ~Before(x, s)
  <2>1. x[1] \in Nat /\ i \in Nat /\ i <= x[1]
    BY <1>1, <1>2, <1>3
  <2>2. x[1] = i => Order[Id(x[2])] \in Nat /\ j \in Nat /\ j <= Order[Id(x[2])]
    BY <1>1, <1>4, <1>5
  <2> QED
    BY <1>6, <2>1, <2>2 DEF Before
<1>8. s \in DataFrame
  BY <1>6, <1>7 DEF DataFrame, Unique
<1> QED
  BY <1>6, <1>8

(* The table shows nothing that was not there: every row is an object that    *)
(* existed and was wanted at some time during the query, even if the two      *)
(* requests of a JSONPath filter see different clusters.                      *)
THEOREM FrameSound == Spec => []FrameIsSound
<1>1. IInv => FrameIsSound
  <2> SUFFICES ASSUME IInv, phase = "answered", NEW r \in frame
               PROVE  r[2] \in ever /\ \E x \in ever : Id(x) = Id(r[2]) /\ Wanted(x)
    BY DEF FrameIsSound
  <2> DEFINE o == r[2]
  <2>1. r \in KeptRows
    BY DEF IInv, DataInv, FrameInv, DataFrame, Unique
  <2>2. r[1] \in DOMAIN resources /\ o \in resources[r[1]] /\ Kept(o)
    BY <2>1, RowIsKept
  <2>3. o \in ever /\ \E t \in DOMAIN place : Asked(t, o)
    BY <2>2 DEF IInv, DataInv, TableInv
  <2>4. DOMAIN place = Requests
    BY DEF IInv, Base, RequestsInv
  <2>5. PICK t \in Requests : Asked(t, o)
    BY <2>3, <2>4
  <2>6. query \in Queries
    BY DEF IInv, Base, Types
  <2>7. query.filter \in Filters
    BY <2>6, QueriesAssumption
  <2>8. \A u \in Requests : \A x : InNamespace(u, x) =>
          (kind.namespaced => Range(query.namespaces) \cap {All, x.ns} # {})
    <3> SUFFICES ASSUME NEW u \in Requests, NEW x, InNamespace(u, x), kind.namespaced
                 PROVE  Range(query.namespaces) \cap {All, x.ns} # {}
      OBVIOUS
    <3>1. QueryNamespaces = query.namespaces
      BY DEF QueryNamespaces
    <3>2. DOMAIN query.namespaces = 1..Len(query.namespaces)
      BY <2>6, QueriesAssumption
    <3>3. u[1] \in DOMAIN query.namespaces /\ query.namespaces[u[1]] \in {All, x.ns}
      BY <3>1, <3>2 DEF Requests, InNamespace
    <3> QED
      BY <3>3 DEF Range
  <2>9. CASE query.filter = "labelSelector"
    <3>1. t[2] \in DOMAIN query.values /\ o.label \in query.values[t[2]]
      BY <2>5, <2>6, <2>9, QueriesAssumption DEF Requests, Asked, Alternatives
    <3>2. \E v \in Range(query.values) : o.label \in v
      BY <3>1 DEF Range
    <3> QED
      BY <2>3, <2>5, <2>8, <2>9, <3>2 DEF Wanted, Asked
  <2>10. CASE query.filter = "jsonPath"
    <3>1. Id(o) \in jsonNames
      BY <2>2, <2>10 DEF Kept
    <3>2. PICK x \in ever : Id(x) = Id(o) /\ \E u \in DOMAIN place : Found(u, x)
      BY <3>1 DEF IInv, DataInv, TableInv
    <3>3. PICK u \in Requests : Found(u, x)
      BY <2>4, <3>2
    <3>4. Wanted(x)
      BY <2>8, <2>10, <3>3 DEF Wanted, Found
    <3> QED
      BY <2>3, <3>2, <3>4
  <2>11. CASE query.filter = "regex"
    <3>1. o.name \in query.values[1]
      BY <2>2, <2>11 DEF Kept
    <3> QED
      BY <2>3, <2>5, <2>8, <2>11, <3>1 DEF Wanted, Asked
  <2> QED
    BY <2>7, <2>9, <2>10, <2>11 DEF Filters
<1> QED
  BY <1>1, Invariance, PTL

(* However the requests overlap, an object has one row, unless the key does   *)
(* not name it and it changes while it is listed (resources.go:177).          *)
THEOREM RowsAreUnique == Spec => []NoDuplicateRows
<1>1. IInv => NoDuplicateRows
  <2> SUFFICES ASSUME IInv, phase = "answered", kind.late /\ query.wide => changes = 0,
                      NEW r \in frame, NEW s \in frame, Id(r[2]) = Id(s[2])
               PROVE  r = s
    BY DEF NoDuplicateRows
  <2>1. frame = Unique(KeptRows)
    BY DEF IInv, DataInv, FrameInv, DataFrame
  <2>2. r \in KeptRows /\ s \in KeptRows
    BY <2>1 DEF Unique
  <2>3. /\ r = <<r[1], r[2]>> /\ r[1] \in DOMAIN resources /\ r[2] \in resources[r[1]]
        /\ s = <<s[1], s[2]>> /\ s[1] \in DOMAIN resources /\ s[2] \in resources[s[1]]
    BY <2>2, RowIsKept
  <2>4. r[2] \in ever /\ s[2] \in ever
    BY <2>3 DEF IInv, DataInv, TableInv
  <2>5. Key(r[2]) = Key(s[2])
    <3>1. CASE changes = 0
      <4>1. r[2] = s[2]
        BY <2>4, <3>1 DEF IInv, DataInv, ClusterInv, OnePerId
      <4> QED
        BY <4>1
    <3>2. CASE ~(kind.late /\ query.wide)
      <4>1. kind.late \in BOOLEAN /\ query.wide \in BOOLEAN
        BY KindsAssumption, QueriesAssumption DEF IInv, Base, Types
      <4>2. NameCell(r[2]) = r[2].name /\ NameCell(s[2]) = s[2].name
        BY <3>2, <4>1 DEF NameCell, HasNameColumn
      <4>3. r[2].ns = s[2].ns /\ r[2].name = s[2].name
        BY DEF Id
      <4> QED
        BY <4>2, <4>3 DEF Key
    <3> QED
      BY <3>1, <3>2
  <2>6. ~Before(r, s) /\ ~Before(s, r)
    BY <2>1, <2>2, <2>5 DEF Unique
  <2>7. r[1] \in Nat /\ s[1] \in Nat
    BY <2>3 DEF IInv, Base, Types
  <2>8. r[1] = s[1]
    BY <2>6, <2>7 DEF Before
  <2>9. r[2] = s[2]
    BY <2>3, <2>8 DEF IInv, DataInv, TableInv, OnePerId
  <2> QED
    BY <2>3, <2>8, <2>9
<1> QED
  BY <1>1, Invariance, PTL

(* An object that is wanted is asked for by one of the requests. *)
LEMMA WantedIsAsked ==
  ASSUME Base, NEW o \in Objects, Wanted(o)
  PROVE  \E t \in Requests : Asked(t, o)
<1>1. /\ query \in Queries /\ query.filter \in Filters
      /\ query.namespaces \in Seq(Namespaces \cup {All})
      /\ query.values \in Seq(SUBSET (Labels \cup Names))
  BY QueriesAssumption DEF Base, Types
<1>2. \E i \in 1..Len(QueryNamespaces) : QueryNamespaces[i] \in {All, o.ns}
  <2>1. CASE kind.namespaced
    <3>1. \E i \in DOMAIN query.namespaces : query.namespaces[i] \in {All, o.ns}
      BY <2>1 DEF Wanted, Range
    <3>2. DOMAIN query.namespaces = 1..Len(query.namespaces)
      BY <1>1
    <3> QED
      BY <2>1, <3>1, <3>2 DEF QueryNamespaces
  <2>2. CASE ~kind.namespaced
    BY <2>2 DEF QueryNamespaces
  <2> QED
    BY <2>1, <2>2
<1>3. \E j \in 1..Len(Alternatives) : o.label \in Alternatives[j]
  <2>1. CASE query.filter = "labelSelector"
    <3>1. \E j \in DOMAIN query.values : o.label \in query.values[j]
      BY <2>1 DEF Wanted, Range
    <3>2. DOMAIN query.values = 1..Len(query.values)
      BY <1>1
    <3> QED
      BY <2>1, <3>1, <3>2 DEF Alternatives
  <2>2. CASE query.filter # "labelSelector"
    <3>1. o.label \in Labels
      BY DEF Objects
    <3> QED
      BY <2>2, <3>1 DEF Alternatives
  <2> QED
    BY <2>1, <2>2
<1>4. PICK i \in 1..Len(QueryNamespaces) : QueryNamespaces[i] \in {All, o.ns}
  BY <1>2
<1>5. PICK j \in 1..Len(Alternatives) : o.label \in Alternatives[j]
  BY <1>3
<1>6. <<i, j>> \in Requests /\ Asked(<<i, j>>, o)
  BY <1>4, <1>5 DEF Requests, Asked, InNamespace
<1> QED
  BY <1>6

(* A request that has not failed brings a row of every object that it asked   *)
(* for, that was wanted and did not change.                                   *)
LEMMA RequestBringsRow ==
  ASSUME IInv, phase = "answered", ~(kind.late /\ query.wide),
         NEW o \in stable, Wanted(o),
         NEW t \in Requests, Asked(t, o), place[t] # "failed"
  PROVE  \E r \in frame : r[2] = o
<1>1. /\ frame = DataFrame /\ DOMAIN place = Requests /\ place[t] = "done" /\ t \notin garbled
      /\ o \in cluster /\ o \in ever /\ ever \subseteq Objects /\ Base
  BY DEF IInv, Base, Types, RequestsInv, DataInv, FrameInv, ClusterInv, FailsWithReason, SomeGarbled
<1>2. /\ o \in listed[t] /\ matched[t] \subseteq jsonNames
      /\ query.filter = "jsonPath" => (Found(t, o) => Id(o) \in matched[t])
      /\ \E i \in DOMAIN resources : resources[i] = listed[t]
  BY <1>1 DEF IInv, DataInv, GotInv
<1>3. PICK i \in DOMAIN resources : resources[i] = listed[t]
  BY <1>2
<1>4. Kept(o)
  <2>1. query.filter = "jsonPath" => Id(o) \in jsonNames
    <3>1. query.filter = "jsonPath" => Found(t, o)
      BY DEF Wanted, Asked, Found
    <3> QED
      BY <1>2, <3>1
  <2>2. query.filter = "regex" => o.name \in query.values[1]
    BY DEF Wanted
  <2> QED
    BY <2>1, <2>2 DEF Kept
<1>5. <<i, o>> \in KeptRows
  BY <1>2, <1>3, <1>4, KeptRow
<1>6. PICK r \in DataFrame : Key(r[2]) = Key(o)
  BY <1>1, <1>5, FirstRow
<1>7. r[2] \in ever
  <2>1. r \in KeptRows
    BY <1>6 DEF DataFrame, Unique
  <2> QED
    BY <2>1, RowIsKept DEF IInv, DataInv, TableInv
<1>8. Id(r[2]) = Id(o)
  <2>1. kind.late \in BOOLEAN /\ query.wide \in BOOLEAN /\ kind.namespaced \in BOOLEAN
    BY <1>1, KindsAssumption, QueriesAssumption DEF Base, Types
  <2>2. NameCell(r[2]) = r[2].name /\ NameCell(o) = o.name
    BY <2>1 DEF NameCell, HasNameColumn
  <2>3. CASE kind.namespaced
    <3>1. <<r[2].ns, r[2].name>> = <<o.ns, o.name>>
      BY <1>6, <2>2, <2>3 DEF Key
    <3> QED
      BY <3>1 DEF Id
  <2>4. CASE ~kind.namespaced
    <3>1. <<r[2].name>> = <<o.name>>
      BY <1>6, <2>2, <2>4 DEF Key
    <3>2. r[2].name = o.name
      BY <3>1
    <3>3. r[2].ns = Home /\ o.ns = Home
      BY <1>1, <1>7, <2>4 DEF IInv, DataInv, ClusterInv, InHome
    <3> QED
      BY <3>2, <3>3 DEF Id
  <2> QED
    BY <2>1, <2>3, <2>4
<1>9. r[2] = o
  BY <1>7, <1>8 DEF IInv, DataInv, ClusterInv
<1> QED
  BY <1>1, <1>6, <1>9

(* The table misses nothing, whatever fails: an object that was wanted and    *)
(* did not change during the query has a row, unless each request that asked  *)
(* for it failed, or the merge cannot know its name: a late name column in a  *)
(* wide table.                                                                *)
THEOREM FrameComplete == Spec => []FrameIsComplete
<1>1. IInv => FrameIsComplete
  <2> SUFFICES ASSUME IInv, phase = "answered", ~(kind.late /\ query.wide),
                      NEW o \in stable, Wanted(o), ~\E r \in frame : r[2] = o
               PROVE  /\ {t \in Requests : Asked(t, o)} # {}
                      /\ \A t \in Requests : Asked(t, o) => place[t] = "failed"
    BY DEF FrameIsComplete
  <2>1. o \in Objects /\ Base
    BY DEF IInv, Base, Types, DataInv, ClusterInv
  <2>2. \E t \in Requests : Asked(t, o)
    BY <2>1, WantedIsAsked
  <2> QED
    BY <2>2, RequestBringsRow
<1> QED
  BY <1>1, Invariance, PTL
=============================================================================
