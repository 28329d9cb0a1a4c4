---------------------------- MODULE ResourceCache ----------------------------
(***************************************************************************)
(* The cache of the resources a cluster serves (pkg/kubernetes/cache.go)   *)
(* and the queries that refresh and read it (refreshCache, getResources    *)
(* and their callers in pkg/kubernetes/client.go).                         *)
(*                                                                         *)
(* A query first asks IsValid, which reads the two fields of the cache     *)
(* without the lock.  If the cache is too old or empty the query discovers *)
(* the resources of the cluster and stores them with SetAll; nothing stops *)
(* other queries from doing the same meanwhile.  It then reads the cache   *)
(* under the read lock.                                                    *)
(*                                                                         *)
(* Memory.  The reads of IsValid race with the writes of SetAll.  On the   *)
(* 64-bit builds the plugin ships, a racing read returns the old or the    *)
(* new value of a field: the map is one pointer, and the comparison of     *)
(* times only looks at the monotonic word.  The two writes may become      *)
(* visible, and the two reads may be performed, in either order (arm64).   *)
(***************************************************************************)
EXTENDS Integers, FiniteSets

CONSTANTS
  Requests,     \* concurrent queries on one data source instance
  Ids,          \* resource ids ("pod", "certificate.cert-manager.io", ...)
  Core,         \* the ids every cluster serves, whatever is installed in it
  None,         \* nobody holds the lock
  TTL,          \* validity of the cache: one hour
  Discovery,    \* longest time from what a discovery saw to its SetAll
  MaxTime,      \* bound on the clock
  MaxChanges,   \* bound on the changes of the cluster
  MaxFaults     \* bound on the discoveries that fail, wholly or in part

ASSUME CacheAssumption ==
  /\ Core \subseteq Ids
  /\ None \notin Requests
  /\ TTL \in Nat
  /\ Discovery \in Nat
  /\ MaxTime \in Nat
  /\ MaxChanges \in Nat
  /\ MaxFaults \in Nat

VARIABLES
  now,          \* time.Now()
  cluster,      \* the ids the API server serves
  changed,      \* history: when each id last appeared or disappeared
  changes,      \* how often the cluster has changed
  faults,       \* how many discoveries have failed
  resources,    \* cache.resources: its ids, and whether (history) they are
                \* all the discovery should have returned, and when it saw them
  time,         \* cache.time
  lock,         \* the writer that holds cache.lock
  pc,           \* where each query is
  todo,         \* fields a query has still to read (IsValid) or write (SetAll)
  found,        \* the resources the query has discovered
  asked,        \* history: when the query came in
  answer,       \* the resources the query was answered from
  catalog       \* history: the content and the stamp of the last SetAll

clusterVars == <<cluster, changed, changes>>
cacheVars == <<resources, time, lock, catalog>>
queryVars == <<pc, todo, found, asked, answer>>
vars == <<now, faults, clusterVars, cacheVars, queryVars>>

Fields == {"resources", "time"}
Places == {"idle", "isValid", "discover", "lock", "setAll", "get"}
Contents == [ids : SUBSET Ids, whole : BOOLEAN, seen : Nat]

Goto(r, place) == pc' = [pc EXCEPT ![r] = place]

-----------------------------------------------------------------------------
(* The two conditions of IsValid.  A definition whose comment begins with  *)
(* "Faulty" is a variant of the one after it that the specification does   *)
(* not use: it is there to see a property fail.                            *)

\* Faulty: off by one.
ExpiredLate == time < now - TTL - 1
Expired == time < now - TTL

\* Faulty: IsValid without the length check.
NeverEmpty == FALSE
Empty == resources.ids = {}

(* getResources: what the discovery client returned, whatever its error.  *)
(* A discovery that fails for some groups returns the others and an error,*)
(* one that fails altogether returns nothing and an error; the error is   *)
(* logged and dropped, so that the caller always takes the result.        *)
Discovered ==
  [ids : SUBSET cluster, whole : {FALSE}, seen : {now}]
    \cup {[ids |-> cluster, whole |-> TRUE, seen |-> now]}

Init ==
  /\ now = 0
  /\ cluster \in {c \in SUBSET Ids : Core \subseteq c}
  /\ changed = [i \in Ids |-> 0]
  /\ changes = 0
  /\ \E content \in Discovered :       \* NewClient fills the cache
       /\ faults = IF content.whole THEN 0 ELSE 1
       /\ faults <= MaxFaults
       /\ resources = content
       /\ catalog = [content |-> content, stamp |-> 0]
       /\ answer = [r \in Requests |-> [content |-> content, stamp |-> 0]]
       /\ found = [r \in Requests |-> content]
  /\ time = 0
  /\ lock = None
  /\ pc = [r \in Requests |-> "idle"]
  /\ todo = [r \in Requests |-> {}]
  /\ asked = [r \in Requests |-> 0]

-----------------------------------------------------------------------------
(* The environment. *)

(* Time passes, but no discovery takes longer than Discovery: the client   *)
(* gives up after its timeout.                                             *)
Tick ==
  /\ now < MaxTime
  /\ \A r \in Requests : pc[r] \in {"lock", "setAll"} => now < found[r].seen + Discovery
  /\ now' = now + 1
  /\ UNCHANGED <<faults, clusterVars, cacheVars, queryVars>>

(* A custom resource definition is installed or deleted. *)
Change(i) ==
  /\ changes < MaxChanges
  /\ i \notin Core
  /\ cluster' = IF i \in cluster THEN cluster \ {i} ELSE cluster \cup {i}
  /\ changed' = [changed EXCEPT ![i] = now]
  /\ changes' = changes + 1
  /\ UNCHANGED <<now, faults, cacheVars, queryVars>>

-----------------------------------------------------------------------------
(* The steps of a query. *)

Ask(r) ==
  /\ pc[r] = "idle"
  /\ Goto(r, "isValid")
  /\ todo' = [todo EXCEPT ![r] = Fields]
  /\ asked' = [asked EXCEPT ![r] = now]
  /\ UNCHANGED <<now, faults, clusterVars, cacheVars, found, answer>>

(* IsValid reads one of the fields, without the lock. *)
Invalid(f) == IF f = "time" THEN Expired ELSE Empty

ReadField(r, f) ==
  /\ pc[r] = "isValid"
  /\ f \in todo[r]
  /\ todo' = [todo EXCEPT ![r] = IF Invalid(f) THEN {} ELSE @ \ {f}]
  /\ Goto(r, IF Invalid(f) THEN "discover"
             ELSE IF todo[r] = {f} THEN "get" ELSE "isValid")
  /\ UNCHANGED <<now, faults, clusterVars, cacheVars, found, asked, answer>>

Discover(r) ==
  /\ pc[r] = "discover"
  /\ \E content \in Discovered :
       /\ faults' = IF content.whole THEN faults ELSE faults + 1
       /\ faults' <= MaxFaults
       /\ found' = [found EXCEPT ![r] = content]
  /\ Goto(r, "lock")
  /\ UNCHANGED <<now, clusterVars, cacheVars, todo, asked, answer>>

(* SetAll: Lock, the two assignments, and Unlock. *)
Lock(r) ==
  /\ pc[r] = "lock"
  /\ lock = None
  /\ lock' = r
  /\ todo' = [todo EXCEPT ![r] = Fields]
  /\ Goto(r, "setAll")
  /\ UNCHANGED <<now, faults, clusterVars, resources, time, catalog, found, asked, answer>>

Stamp == now

\* Faulty: only an empty map is replaced, but the stamp always is.
StoredIfEmpty(r) == IF Empty THEN found[r] ELSE resources
Stored(r) == found[r]

WriteField(r, f) ==
  /\ pc[r] = "setAll"
  /\ f \in todo[r]
  /\ todo' = [todo EXCEPT ![r] = @ \ {f}]
  /\ resources' = IF f = "resources" THEN Stored(r) ELSE resources
  /\ time' = IF f = "time" THEN Stamp ELSE time
  /\ UNCHANGED <<now, faults, clusterVars, lock, catalog, pc, found, asked, answer>>

\* Faulty: the lock is kept when the discovery was not complete.
ReleasedIfWhole(r) == IF found[r].whole THEN None ELSE r
Released(r) == None

Unlock(r) ==
  /\ pc[r] = "setAll"
  /\ todo[r] = {}
  /\ lock' = Released(r)
  /\ catalog' = [content |-> resources, stamp |-> time]
  /\ Goto(r, "get")
  /\ UNCHANGED <<now, faults, clusterVars, resources, time, todo, found, asked, answer>>

(* Get and GetDataFrameValues read the map under the read lock. *)

\* Faulty: no read lock.
CanReadAlways == TRUE
CanRead == lock = None

Get(r) ==
  /\ pc[r] = "get"
  /\ CanRead
  /\ answer' = [answer EXCEPT ![r] = [content |-> resources, stamp |-> time]]
  /\ Goto(r, "idle")
  /\ UNCHANGED <<now, faults, clusterVars, cacheVars, todo, found, asked>>

Step(r) ==
  \/ \E f \in Fields : ReadField(r, f) \/ WriteField(r, f)
  \/ Discover(r)
  \/ Lock(r)
  \/ Unlock(r)
  \/ Get(r)

Next ==
  \/ Tick
  \/ \E i \in Ids : Change(i)
  \/ \E r \in Requests : Ask(r) \/ Step(r)

Spec == Init /\ [][Next]_vars

(* The steps of SetAll, whichever query holds the lock. *)
SetAllStep == \E r \in Requests : Unlock(r) \/ \E f \in Fields : WriteField(r, f)

(* Every goroutine keeps running, the one that holds the lock (which its   *)
(* Step says already, as there is only one) like the others; a writer is   *)
(* not starved of the lock by sync.RWMutex; dashboards keep asking.        *)
FairTo(r) ==
  /\ WF_vars(Ask(r))
  /\ WF_vars(Step(r))
  /\ SF_vars(Lock(r))
  /\ SF_vars(Get(r))

FairToAll == \A r \in Requests : FairTo(r)

Fairness == WF_vars(SetAllStep) /\ FairToAll

FairSpec == Spec /\ Fairness

(* Where SetAll, and a query outside of it, can go on. *)
SetAllGoesOn == lock # None => ENABLED <<SetAllStep>>_vars

GoesOn(r) ==
  /\ pc[r] = "idle" => ENABLED <<Ask(r)>>_vars
  /\ pc[r] \in {"isValid", "discover"} => ENABLED <<Step(r)>>_vars
  /\ (pc[r] = "lock" /\ lock = None) => ENABLED <<Lock(r)>>_vars
  /\ (pc[r] = "get" /\ lock = None) => ENABLED <<Get(r)>>_vars

-----------------------------------------------------------------------------
(* Properties. *)

(* Every variable keeps to its set. *)
TypeOK ==
  /\ now \in 0..MaxTime
  /\ cluster \subseteq Ids
  /\ changed \in [Ids -> Nat]
  /\ changes \in 0..MaxChanges
  /\ faults \in 0..MaxFaults
  /\ resources \in Contents
  /\ time \in Nat
  /\ lock \in Requests \cup {None}
  /\ pc \in [Requests -> Places]
  /\ todo \in [Requests -> SUBSET Fields]
  /\ found \in [Requests -> Contents]
  /\ asked \in [Requests -> Nat]
  /\ answer \in [Requests -> [content : Contents, stamp : Nat]]
  /\ catalog \in [content : Contents, stamp : Nat]

(* However the unlocked reads of IsValid fall between the writes of SetAll *)
(* (cache.go:27-37, 71-77), and however many queries refresh at once, a    *)
(* query is answered from a catalog stored at most TTL before it came in,  *)
(* and from one discovered at most Discovery before that.                  *)
AnswersAreFresh ==
  \A r \in Requests : pc[r] = "idle" =>
    /\ asked[r] <= answer[r].stamp + TTL
    /\ answer[r].stamp <= answer[r].content.seen + Discovery

(* What a stale cache can hide: an id that appeared or disappeared more    *)
(* than TTL + Discovery before a query came in is found, respectively not  *)
(* found, by it.  A catalog of a discovery that failed in part may lack    *)
(* ids, but never has ids that are gone.                                   *)
AnswersReflectCluster ==
  \A r \in Requests, i \in Ids :
    (pc[r] = "idle" /\ changed[i] + TTL + Discovery < asked[r]) =>
      /\ i \in answer[r].content.ids => i \in cluster
      /\ (answer[r].content.whole /\ i \in cluster) => i \in answer[r].content.ids

(* The client implements the abstract lookup service. *)
Lookup == INSTANCE ResourceLookup WITH
  catalog <- [ids |-> catalog.content.ids, stamp |-> catalog.stamp],
  waiting <- {r \in Requests : pc[r] # "idle"},
  answer <- [r \in Requests |->
               [ids |-> answer[r].content.ids, stamp |-> answer[r].stamp]]

LookupSpec == Lookup!Spec

(* A query waits for nothing but the lock of the cache, and whoever holds  *)
(* that can go on and release it (cache.go:63-76).                         *)
NobodyIsStuck == SetAllGoesOn /\ \A r \in Requests : GoesOn(r)

(* Every query is answered: refreshing never blocks the queries for good.  *)
EveryQueryAnswered ==
  \A r \in Requests : pc[r] # "idle" ~> pc[r] = "idle"

(* The empty map a failed discovery leaves in the cache (resources.go:24-29*)
(* drops the error) does not stay: an empty cache is invalid, so the next  *)
(* query discovers again (cache.go:32-34).                                 *)
EmptyCacheHeals == <>[](resources.ids # {})
=============================================================================
