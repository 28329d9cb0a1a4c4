------------------------ MODULE ResourceCacheProofs ------------------------
(***************************************************************************)
(* Proofs about ResourceCache, for every number of queries and ids and for *)
(* every value of the times: its types, that answers are fresh and true of *)
(* the cluster, and that it implements ResourceLookup.                     *)
(*                                                                         *)
(* The inductive invariant says what the lock protects: who holds it is at *)
(* "setAll", and while nobody does the fields are the last catalog.  The   *)
(* unlocked verdict of IsValid is sound all the same, because cache.time   *)
(* only grows: a query that has read a time within TTL finds at least that *)
(* time when it gets the lock.                                             *)
(***************************************************************************)
EXTENDS ResourceCache, TLAPS

(* What a discovery has returned is true of the cluster, but for the ids   *)
(* that have changed since.                                                *)
Faithful(content) ==
  \A i \in Ids : changed[i] < content.seen =>
    /\ i \in content.ids => i \in cluster
    /\ (content.whole /\ i \in cluster) => i \in content.ids

LockInv ==
  /\ \A r \in Requests : pc[r] = "setAll" <=> lock = r
  /\ lock = None => catalog = [content |-> resources, stamp |-> time]
  /\ catalog.stamp <= time
  /\ time <= now

(* What SetAll has written so far. *)
WriteInv ==
  \A r \in Requests : pc[r] = "setAll" =>
    /\ "resources" \notin todo[r] => resources = found[r]
    /\ "time" \notin todo[r] =>
         asked[r] <= time /\ time <= found[r].seen + Discovery

(* What the verdict of IsValid has promised so far. *)
VerdictInv ==
  \A r \in Requests :
    (pc[r] = "get" \/ (pc[r] = "isValid" /\ "time" \notin todo[r])) =>
      asked[r] <= time + TTL

SeenInv ==
  /\ \A r \in Requests : pc[r] \in {"lock", "setAll"} => now <= found[r].seen + Discovery
  /\ catalog.stamp <= catalog.content.seen + Discovery
  /\ \A r \in Requests : asked[r] <= now

FaithInv ==
  /\ \A r \in Requests : found[r].seen <= now /\ Faithful(found[r])
  /\ resources.seen <= now /\ Faithful(resources)
  /\ \A r \in Requests : answer[r].content.seen <= now /\ Faithful(answer[r].content)

IInv == LockInv /\ WriteInv /\ VerdictInv /\ SeenInv /\ FaithInv /\ AnswersAreFresh

-----------------------------------------------------------------------------
(* Types. *)

LEMMA DiscoveredType ==
  ASSUME now \in Nat, cluster \subseteq Ids, NEW content \in Discovered
  PROVE  /\ content \in Contents
         /\ content.seen = now
         /\ content.ids \subseteq cluster
         /\ content.whole => content.ids = cluster
<1>1. CASE content \in [ids : SUBSET cluster, whole : {FALSE}, seen : {now}]
  BY <1>1 DEF Contents
<1>2. CASE content = [ids |-> cluster, whole |-> TRUE, seen |-> now]
  BY <1>2 DEF Contents
<1> QED
  BY <1>1, <1>2 DEF Discovered

LEMMA StepTypes ==
  ASSUME TypeOK, [Next]_vars
  PROVE  TypeOK'
<1> USE CacheAssumption DEF TypeOK, Contents, Fields, Places, Goto, clusterVars, cacheVars, queryVars
<1>1. CASE Tick
  BY <1>1 DEF Tick
<1>2. ASSUME NEW i \in Ids, Change(i) PROVE TypeOK'
  BY <1>2 DEF Change
<1>3. ASSUME NEW r \in Requests, Ask(r) PROVE TypeOK'
  BY <1>3 DEF Ask
<1>4. ASSUME NEW r \in Requests, NEW f \in Fields, ReadField(r, f) PROVE TypeOK'
  BY <1>4 DEF ReadField
<1>5. ASSUME NEW r \in Requests, NEW f \in Fields, WriteField(r, f) PROVE TypeOK'
  BY <1>5 DEF WriteField, Stored, Stamp
<1>6. ASSUME NEW r \in Requests, Discover(r) PROVE TypeOK'
  <2>1. PICK content \in Discovered :
          /\ faults' = IF content.whole THEN faults ELSE faults + 1
          /\ faults' <= MaxFaults
          /\ found' = [found EXCEPT ![r] = content]
    BY <1>6 DEF Discover
  <2>2. content \in Contents
    BY DiscoveredType, now \in Nat
  <2> QED
    BY <1>6, <2>1, <2>2 DEF Discover
<1>7. ASSUME NEW r \in Requests, Lock(r) PROVE TypeOK'
  BY <1>7 DEF Lock
<1>8. ASSUME NEW r \in Requests, Unlock(r) PROVE TypeOK'
  BY <1>8 DEF Unlock, Released
<1>9. ASSUME NEW r \in Requests, Get(r) PROVE TypeOK'
  BY <1>9 DEF Get
<1>10. CASE UNCHANGED vars
  BY <1>10 DEF vars
<1> QED
  BY <1>1, <1>2, <1>3, <1>4, <1>5, <1>6, <1>7, <1>8, <1>9, <1>10 DEF Next, Step

(* The variables keep to their sets (cache.go, client.go). *)
THEOREM TypeCorrect == Spec => []TypeOK
<1>1. ASSUME Init PROVE TypeOK
  <2>1. PICK content \in Discovered :
          /\ faults = IF content.whole THEN 0 ELSE 1
          /\ faults <= MaxFaults
          /\ resources = content
          /\ catalog = [content |-> content, stamp |-> 0]
          /\ answer = [r \in Requests |-> [content |-> content, stamp |-> 0]]
          /\ found = [r \in Requests |-> content]
    BY <1>1 DEF Init
  <2>2. now \in Nat /\ cluster \subseteq Ids
    BY <1>1 DEF Init
  <2>3. content \in Contents
    BY <2>2, DiscoveredType
  <2>4. faults \in 0..MaxFaults
    BY <2>1, CacheAssumption
  <2> QED
    BY <1>1, <2>1, <2>3, <2>4, CacheAssumption DEF Init, TypeOK, Places, Fields
<1>2. TypeOK /\ [Next]_vars => TypeOK'
  BY StepTypes
<1> QED
  BY <1>1, <1>2, PTL DEF Spec

-----------------------------------------------------------------------------
(* The inductive invariant. *)

LEMMA InitIInv ==
  ASSUME Init
  PROVE  IInv
<1> USE CacheAssumption
<1>1. PICK content \in Discovered :
        /\ resources = content
        /\ catalog = [content |-> content, stamp |-> 0]
        /\ answer = [r \in Requests |-> [content |-> content, stamp |-> 0]]
        /\ found = [r \in Requests |-> content]
  BY DEF Init
<1>2. now = 0 /\ time = 0 /\ cluster \subseteq Ids
  BY DEF Init
<1>3. content.seen = 0 /\ Faithful(content)
  BY <1>2, DiscoveredType DEF Faithful, Init
<1>4. LockInv /\ WriteInv /\ VerdictInv
  BY <1>1, <1>2 DEF Init, LockInv, WriteInv, VerdictInv
<1>5. SeenInv /\ FaithInv /\ AnswersAreFresh
  BY <1>1, <1>2, <1>3 DEF Init, SeenInv, FaithInv, AnswersAreFresh
<1> QED
  BY <1>4, <1>5 DEF IInv

LEMMA StepIInv ==
  ASSUME TypeOK, TypeOK', IInv, [Next]_vars
  PROVE  IInv'
<1> USE CacheAssumption DEF IInv
<1>1. CASE Tick
  <2> USE <1>1 DEF Tick, clusterVars, cacheVars, queryVars, TypeOK, Contents
  <2>1. LockInv' /\ WriteInv' /\ VerdictInv' /\ AnswersAreFresh'
    BY DEF LockInv, WriteInv, VerdictInv, AnswersAreFresh
  <2>2. SeenInv'
    BY DEF SeenInv
  <2>3. FaithInv'
    BY DEF FaithInv, Faithful
  <2> QED
    BY <2>1, <2>2, <2>3
<1>2. ASSUME NEW i \in Ids, Change(i) PROVE IInv'
  <2> USE <1>2 DEF Change, cacheVars, queryVars, TypeOK, Contents
  <2>1. LockInv' /\ WriteInv' /\ VerdictInv' /\ SeenInv' /\ AnswersAreFresh'
    BY DEF LockInv, WriteInv, VerdictInv, SeenInv, AnswersAreFresh
  <2>2. FaithInv'
    BY DEF FaithInv, Faithful
  <2> QED
    BY <2>1, <2>2
<1>3. ASSUME NEW r \in Requests, Ask(r) PROVE IInv'
  <2> USE <1>3 DEF Ask, Goto, Fields, clusterVars, cacheVars, TypeOK, Places, Contents
  <2>1. LockInv'
    BY DEF LockInv
  <2>2. WriteInv' /\ VerdictInv'
    BY DEF WriteInv, VerdictInv
  <2>3. SeenInv' /\ AnswersAreFresh'
    BY DEF SeenInv, AnswersAreFresh
  <2>4. FaithInv'
    BY DEF FaithInv, Faithful
  <2> QED
    BY <2>1, <2>2, <2>3, <2>4
<1>4. ASSUME NEW r \in Requests, NEW f \in Fields, ReadField(r, f) PROVE IInv'
  <2> USE <1>4 DEF ReadField, Goto, Fields, clusterVars, cacheVars, TypeOK, Places, Contents
  <2>1. LockInv' /\ WriteInv'
    BY DEF LockInv, WriteInv
  <2>2. VerdictInv'
    BY DEF VerdictInv, SeenInv, Invalid, Expired
  <2>3. SeenInv' /\ AnswersAreFresh'
    BY DEF SeenInv, AnswersAreFresh
  <2>4. FaithInv'
    BY DEF FaithInv, Faithful
  <2> QED
    BY <2>1, <2>2, <2>3, <2>4
<1>5. ASSUME NEW r \in Requests, NEW f \in Fields, WriteField(r, f) PROVE IInv'
  <2> USE <1>5 DEF WriteField, Stored, Stamp, Fields, clusterVars, TypeOK, Places, Contents
  <2>1. lock = r /\ lock # None
    BY DEF LockInv
  <2>2. LockInv'
    BY <2>1 DEF LockInv
  <2>3. WriteInv'
    BY <2>1 DEF LockInv, WriteInv, SeenInv
  <2>4. VerdictInv'
    BY DEF VerdictInv, LockInv
  <2>5. SeenInv' /\ AnswersAreFresh'
    BY DEF SeenInv, AnswersAreFresh
  <2>6. FaithInv'
    BY DEF FaithInv, Faithful
  <2> QED
    BY <2>2, <2>3, <2>4, <2>5, <2>6
<1>6. ASSUME NEW r \in Requests, Discover(r) PROVE IInv'
  <2> USE <1>6 DEF Discover, Goto, clusterVars, cacheVars, TypeOK, Places, Contents
  <2>1. PICK content \in Discovered : found' = [found EXCEPT ![r] = content]
    OBVIOUS
  <2>2. content.seen = now /\ content.ids \subseteq cluster /\ (content.whole => content.ids = cluster)
    BY DiscoveredType, now \in Nat
  <2>3. LockInv' /\ WriteInv' /\ VerdictInv'
    BY <2>1 DEF LockInv, WriteInv, VerdictInv
  <2>4. SeenInv' /\ AnswersAreFresh'
    BY <2>1, <2>2 DEF SeenInv, AnswersAreFresh
  <2>5. FaithInv'
    BY <2>1, <2>2 DEF FaithInv, Faithful
  <2> QED
    BY <2>3, <2>4, <2>5
<1>7. ASSUME NEW r \in Requests, Lock(r) PROVE IInv'
  <2> USE <1>7 DEF Lock, Goto, Fields, clusterVars, TypeOK, Places, Contents
  <2>1. LockInv' /\ WriteInv' /\ VerdictInv'
    BY DEF LockInv, WriteInv, VerdictInv
  <2>2. SeenInv' /\ AnswersAreFresh'
    BY DEF SeenInv, AnswersAreFresh
  <2>3. FaithInv'
    BY DEF FaithInv, Faithful
  <2> QED
    BY <2>1, <2>2, <2>3
<1>8. ASSUME NEW r \in Requests, Unlock(r) PROVE IInv'
  <2> USE <1>8 DEF Unlock, Released, Goto, clusterVars, TypeOK, Places, Contents
  <2>1. resources = found[r] /\ asked[r] <= time /\ time <= found[r].seen + Discovery
    BY DEF WriteInv
  <2>2. LockInv' /\ WriteInv'
    BY DEF LockInv, WriteInv
  <2>3. VerdictInv'
    BY <2>1 DEF VerdictInv
  <2>4. SeenInv' /\ AnswersAreFresh'
    BY <2>1 DEF SeenInv, AnswersAreFresh
  <2>5. FaithInv'
    BY DEF FaithInv, Faithful
  <2> QED
    BY <2>2, <2>3, <2>4, <2>5
<1>9. ASSUME NEW r \in Requests, Get(r) PROVE IInv'
  <2> USE <1>9 DEF Get, CanRead, Goto, clusterVars, cacheVars, TypeOK, Places, Contents
  <2>1. LockInv' /\ WriteInv' /\ VerdictInv' /\ SeenInv'
    BY DEF LockInv, WriteInv, VerdictInv, SeenInv
  <2>2. AnswersAreFresh'
    BY DEF AnswersAreFresh, LockInv, VerdictInv, SeenInv
  <2>3. FaithInv'
    BY DEF FaithInv, Faithful
  <2> QED
    BY <2>1, <2>2, <2>3
<1>10. CASE UNCHANGED vars
  BY <1>10 DEF vars, clusterVars, cacheVars, queryVars, LockInv, WriteInv, VerdictInv, SeenInv, FaithInv, Faithful, AnswersAreFresh
<1> QED
  BY <1>1, <1>2, <1>3, <1>4, <1>5, <1>6, <1>7, <1>8, <1>9, <1>10 DEF Next, Step

LEMMA Invariance == Spec => [](TypeOK /\ IInv)
<1>1. Init => IInv
  BY InitIInv
<1>2. TypeOK /\ TypeOK' /\ IInv /\ [Next]_vars => IInv'
  BY StepIInv
<1> QED
  BY <1>1, <1>2, TypeCorrect, PTL DEF Spec

-----------------------------------------------------------------------------
(* Every answer was stored at most TTL before its query came in, and       *)
(* discovered at most Discovery before that, although IsValid reads the    *)
(* cache without the lock (cache.go:24-34).                                *)
THEOREM Fresh == Spec => []AnswersAreFresh
<1>1. IInv => AnswersAreFresh
  BY DEF IInv
<1> QED
  BY <1>1, Invariance, PTL

(* What a query is told of an id is true of the cluster, unless the id     *)
(* changed within TTL + Discovery before the query came in (client.go:63). *)
THEOREM Reflects == Spec => []AnswersReflectCluster
<1>1. TypeOK /\ IInv => AnswersReflectCluster
  BY CacheAssumption DEF IInv, FaithInv, Faithful, AnswersAreFresh, AnswersReflectCluster, TypeOK, Contents
<1> QED
  BY <1>1, Invariance, PTL

-----------------------------------------------------------------------------
(* The client implements ResourceLookup: Unlock publishes the catalog, Get *)
(* answers from it, and the other steps of a query change nothing that the *)
(* lookup service shows.                                                   *)

LEMMA LookupInit == Init => Lookup!Init
<1> SUFFICES ASSUME Init PROVE Lookup!Init
  OBVIOUS
<1>1. PICK content \in Discovered :
        /\ catalog = [content |-> content, stamp |-> 0]
        /\ answer = [r \in Requests |-> [content |-> content, stamp |-> 0]]
  BY DEF Init
<1>2. content.ids \in SUBSET Ids
  BY DiscoveredType DEF Init, Contents
<1> QED
  BY <1>1, <1>2 DEF Init, Lookup!Init

LEMMA LookupStep ==
  ASSUME TypeOK, TypeOK', IInv, [Next]_vars
  PROVE  [Lookup!Next]_(Lookup!vars)
<1> USE CacheAssumption DEF Lookup!vars, TypeOK, Places, Goto
<1>1. CASE Tick
  BY <1>1 DEF Tick, clusterVars, cacheVars, queryVars, Lookup!Next, Lookup!Tick
<1>2. ASSUME NEW i \in Ids, Change(i) PROVE UNCHANGED Lookup!vars
  BY <1>2 DEF Change, cacheVars, queryVars
<1>3. ASSUME NEW r \in Requests, Ask(r) PROVE Lookup!Ask(r)
  BY <1>3 DEF Ask, clusterVars, cacheVars, Lookup!Ask
<1>4. ASSUME NEW r \in Requests, NEW f \in Fields, ReadField(r, f) PROVE UNCHANGED Lookup!vars
  BY <1>4 DEF ReadField, clusterVars, cacheVars
<1>5. ASSUME NEW r \in Requests, NEW f \in Fields, WriteField(r, f) PROVE UNCHANGED Lookup!vars
  BY <1>5 DEF WriteField
<1>6. ASSUME NEW r \in Requests, Discover(r) PROVE UNCHANGED Lookup!vars
  BY <1>6 DEF Discover, clusterVars, cacheVars
<1>7. ASSUME NEW r \in Requests, Lock(r) PROVE UNCHANGED Lookup!vars
  BY <1>7 DEF Lock
<1>8. ASSUME NEW r \in Requests, Unlock(r) PROVE Lookup!Publish
  <2>1. catalog.stamp <= time /\ time <= now
    BY DEF IInv, LockInv
  <2> QED
    BY <1>8, <2>1 DEF Unlock, Lookup!Publish, Lookup!Catalogs, Contents
<1>9. ASSUME NEW r \in Requests, Get(r) PROVE Lookup!Answer(r)
  <2>1. catalog = [content |-> resources, stamp |-> time] /\ asked[r] <= time + TTL
    BY <1>9 DEF Get, CanRead, IInv, LockInv, VerdictInv
  <2> QED
    BY <1>9, <2>1 DEF Get, cacheVars, Lookup!Answer, Contents
<1>10. CASE UNCHANGED vars
  BY <1>10 DEF vars, cacheVars, queryVars
<1> QED
  BY <1>1, <1>2, <1>3, <1>4, <1>5, <1>6, <1>7, <1>8, <1>9, <1>10
     DEF Next, Step, Lookup!Next

THEOREM Implements == Spec => LookupSpec
<1>1. TypeOK /\ TypeOK' /\ IInv /\ [Next]_vars => [Lookup!Next]_(Lookup!vars)
  BY LookupStep
<1> QED
  BY <1>1, LookupInit, Invariance, PTL DEF Spec, LookupSpec, Lookup!Spec

-----------------------------------------------------------------------------
(* Liveness.  The steps of SetAll, and those of a query, are counted down. *)
(* PTL expands the fairness of the steps, but nothing is known of ENABLED: *)
(* that they are enabled where they can go on is NobodyIsStuck, which the  *)
(* run checks.                                                             *)
Inv == TypeOK /\ IInv

StepsOfSetAll ==
  CASE lock = None -> 0
    [] lock # None /\ todo[lock] = {} -> 1
    [] lock # None /\ todo[lock] = Fields -> 3
    [] OTHER -> 2

StepsOf(r) ==
  CASE pc[r] = "idle" -> 0 [] pc[r] = "get" -> 1 [] pc[r] = "setAll" -> 2 [] pc[r] = "lock" -> 3
    [] pc[r] = "discover" -> 4 [] pc[r] = "isValid" /\ todo[r] # Fields -> 5 [] OTHER -> 6

SetAllAt(k) == StepsOfSetAll = k
SetAllBelow(k) == StepsOfSetAll < k
At(r, k) == StepsOf(r) = k
Below(r, k) == StepsOf(r) < k

(* While a query holds the lock, nobody sends it back, and each step of    *)
(* SetAll is one of its own.                                               *)
LEMMA SetAllCountsDown ==
  ASSUME Inv, [Next]_vars, lock # None
  PROVE  /\ StepsOfSetAll' <= StepsOfSetAll
         /\ SetAllStep => StepsOfSetAll' < StepsOfSetAll
<1> USE CacheAssumption DEF Inv, IInv, LockInv, TypeOK, StepsOfSetAll, Fields, Places
<1>1. ASSUME NEW r \in Requests, Unlock(r) PROVE StepsOfSetAll' < StepsOfSetAll
  BY <1>1 DEF Unlock, Released
<1>2. ASSUME NEW r \in Requests, NEW f \in Fields, WriteField(r, f)
      PROVE  StepsOfSetAll' < StepsOfSetAll
  <2>1. r = lock
    BY <1>2 DEF WriteField
  <2> QED
    BY <1>2, <2>1 DEF WriteField
<1>3. ASSUME NEW r \in Requests, Lock(r) PROVE FALSE
  BY <1>3 DEF Lock
<1>4. ASSUME NEW r \in Requests, Ask(r) PROVE UNCHANGED lock /\ todo'[lock] = todo[lock]
  BY <1>4 DEF Ask, cacheVars
<1>5. ASSUME NEW r \in Requests, NEW f \in Fields, ReadField(r, f)
      PROVE  UNCHANGED lock /\ todo'[lock] = todo[lock]
  BY <1>5 DEF ReadField, cacheVars
<1>6. ASSUME NEW r \in Requests, Discover(r) \/ Get(r) PROVE UNCHANGED <<lock, todo>>
  BY <1>6 DEF Discover, Get, cacheVars
<1>7. ASSUME Tick \/ (\E i \in Ids : Change(i)) \/ UNCHANGED vars PROVE UNCHANGED <<lock, todo>>
  BY <1>7 DEF Tick, Change, vars, cacheVars, queryVars
<1> QED
  BY <1>1, <1>2, <1>3, <1>4, <1>5, <1>6, <1>7 DEF Next, Step, SetAllStep

(* Nobody sends back a query that is under way, and each of its own steps  *)
(* brings it nearer to its answer.                                         *)
LEMMA QueryCountsDown ==
  ASSUME Inv, [Next]_vars, NEW r \in Requests, pc[r] # "idle"
  PROVE  /\ StepsOf(r)' <= StepsOf(r)
         /\ (pc[r] # "setAll" /\ Step(r)) => StepsOf(r)' < StepsOf(r)
<1> USE CacheAssumption DEF Inv, TypeOK, StepsOf, Fields, Places, Goto
<1>1. ASSUME NEW q \in Requests, q # r, Ask(q) \/ Step(q)
      PROVE  pc'[r] = pc[r] /\ todo'[r] = todo[r]
  BY <1>1 DEF Ask, Step, ReadField, WriteField, Discover, Lock, Unlock, Get
<1>2. ASSUME Ask(r) PROVE FALSE
  BY <1>2 DEF Ask
<1>3. ASSUME NEW f \in Fields, ReadField(r, f) PROVE StepsOf(r)' < StepsOf(r)
  BY <1>3 DEF ReadField
<1>4. ASSUME NEW f \in Fields, WriteField(r, f) PROVE pc[r] = "setAll" /\ StepsOf(r)' = StepsOf(r)
  BY <1>4 DEF WriteField
<1>5. ASSUME Discover(r) \/ Lock(r) \/ Unlock(r) \/ Get(r) PROVE StepsOf(r)' < StepsOf(r)
  BY <1>5 DEF Discover, Lock, Unlock, Get
<1>6. ASSUME Tick \/ (\E i \in Ids : Change(i)) \/ UNCHANGED vars PROVE UNCHANGED <<pc, todo>>
  BY <1>6 DEF Tick, Change, vars, queryVars
<1> QED
  BY <1>1, <1>2, <1>3, <1>4, <1>5, <1>6 DEF Next, Step

(* What is assumed of SetAll, and of one query. *)
LockScheduled == []Inv /\ [][Next]_vars /\ WF_vars(SetAllStep) /\ []SetAllGoesOn
Scheduled(r) == LockScheduled /\ FairTo(r) /\ []GoesOn(r)

SetAllMoves(k) == SetAllAt(k) ~> SetAllBelow(k)
Moves(r, k) == At(r, k) ~> Below(r, k)

(* The lock is free again and again: SetAll waits for nobody. *)
LEMMA LockIsReleased == LockScheduled => []<>(lock = None)
<1>1. ASSUME NEW k \in 1..3
      PROVE  LockScheduled => SetAllMoves(k)
  <2>1. Inv /\ SetAllAt(k) /\ [Next]_vars => SetAllAt(k)' \/ SetAllBelow(k)'
    BY SetAllCountsDown DEF SetAllAt, SetAllBelow, StepsOfSetAll
  <2>2. Inv /\ SetAllAt(k) /\ [Next]_vars /\ <<SetAllStep>>_vars => SetAllBelow(k)'
    BY SetAllCountsDown DEF SetAllAt, SetAllBelow, StepsOfSetAll
  <2>3. SetAllAt(k) => lock # None
    BY DEF SetAllAt, StepsOfSetAll
  <2> QED
    BY <2>1, <2>2, <2>3, PTL DEF LockScheduled, SetAllGoesOn, SetAllMoves
<1>2. /\ LockScheduled => SetAllMoves(1)
      /\ LockScheduled => SetAllMoves(2)
      /\ LockScheduled => SetAllMoves(3)
  BY <1>1
<1>3. /\ SetAllBelow(1) => lock = None
      /\ SetAllBelow(2) => SetAllAt(1) \/ SetAllBelow(1)
      /\ SetAllBelow(3) => SetAllAt(2) \/ SetAllBelow(2)
      /\ SetAllAt(3) \/ SetAllBelow(3)
  BY DEF SetAllAt, SetAllBelow, StepsOfSetAll
<1> QED
  BY <1>2, <1>3, PTL DEF SetAllMoves

(* A query that has to go on by itself does. *)
LEMMA QueryMoves ==
  ASSUME NEW r \in Requests, NEW k \in 4..6
  PROVE  Scheduled(r) => Moves(r, k)
<1>1. Inv /\ At(r, k) /\ [Next]_vars => At(r, k)' \/ Below(r, k)'
  BY QueryCountsDown DEF At, Below, StepsOf
<1>2. Inv /\ At(r, k) /\ [Next]_vars /\ <<Step(r)>>_vars => Below(r, k)'
  BY QueryCountsDown DEF At, Below, StepsOf
<1>3. Inv /\ At(r, k) => pc[r] \in {"isValid", "discover"}
  BY DEF At, StepsOf, Inv, TypeOK, Places
<1> QED
  BY <1>1, <1>2, <1>3, PTL DEF Scheduled, LockScheduled, FairTo, GoesOn, Moves

(* One that waits for the lock gets it: strong fairness, as others may     *)
(* hold the lock in between.                                               *)
LEMMA QueryLocks ==
  ASSUME NEW r \in Requests
  PROVE  Scheduled(r) => Moves(r, 3)
<1>1. Inv /\ At(r, 3) /\ [Next]_vars => At(r, 3)' \/ Below(r, 3)'
  BY QueryCountsDown DEF At, Below, StepsOf
<1>2. Inv /\ At(r, 3) /\ [Next]_vars /\ <<Lock(r)>>_vars => Below(r, 3)'
  BY QueryCountsDown DEF At, Below, StepsOf, Step
<1>3. Inv /\ At(r, 3) => pc[r] = "lock"
  BY DEF At, StepsOf, Inv, TypeOK, Places
<1> QED
  BY <1>1, <1>2, <1>3, LockIsReleased, PTL DEF Scheduled, LockScheduled, FairTo, GoesOn, Moves

LEMMA QueryReads ==
  ASSUME NEW r \in Requests
  PROVE  Scheduled(r) => Moves(r, 1)
<1>1. Inv /\ At(r, 1) /\ [Next]_vars => At(r, 1)' \/ Below(r, 1)'
  BY QueryCountsDown DEF At, Below, StepsOf
<1>2. Inv /\ At(r, 1) /\ [Next]_vars /\ <<Get(r)>>_vars => Below(r, 1)'
  BY QueryCountsDown DEF At, Below, StepsOf, Step
<1>3. Inv /\ At(r, 1) => pc[r] = "get"
  BY DEF At, StepsOf, Inv, TypeOK, Places
<1> QED
  BY <1>1, <1>2, <1>3, LockIsReleased, PTL DEF Scheduled, LockScheduled, FairTo, GoesOn, Moves

(* One that is in SetAll holds the lock, which it releases. *)
LEMMA QueryStores ==
  ASSUME NEW r \in Requests
  PROVE  Scheduled(r) => Moves(r, 2)
<1>1. Inv /\ At(r, 2) /\ [Next]_vars => At(r, 2)' \/ Below(r, 2)'
  BY QueryCountsDown DEF At, Below, StepsOf
<1>2. Inv /\ At(r, 2) => ~(lock = None)
  BY CacheAssumption DEF At, StepsOf, Inv, IInv, LockInv, TypeOK, Places
<1> QED
  BY <1>1, <1>2, LockIsReleased, PTL DEF Scheduled, LockScheduled, Moves

(* What FairSpec says of one query. *)
LEMMA IsScheduled ==
  ASSUME NEW r \in Requests
  PROVE  FairSpec /\ []NobodyIsStuck => Scheduled(r)
<1>1. FairToAll => FairTo(r)
  BY DEF FairToAll
<1>2. NobodyIsStuck => SetAllGoesOn /\ GoesOn(r)
  BY DEF NobodyIsStuck
<1> QED
  BY <1>1, <1>2, Invariance, PTL DEF FairSpec, Fairness, Spec, Inv, Scheduled, LockScheduled

IsAnswered(r) == pc[r] # "idle" ~> pc[r] = "idle"

LEMMA QueryIsAnswered ==
  ASSUME NEW r \in Requests
  PROVE  Scheduled(r) => IsAnswered(r)
<1>1. /\ Scheduled(r) => Moves(r, 4)
      /\ Scheduled(r) => Moves(r, 5)
      /\ Scheduled(r) => Moves(r, 6)
  BY QueryMoves
<1>2. Inv /\ Below(r, 1) => pc[r] = "idle"
  BY DEF Below, StepsOf, Inv, TypeOK, Places
<1>3. StepsOf(r) \in 0..6
  BY DEF StepsOf
<1>4. /\ Below(r, 2) => At(r, 1) \/ Below(r, 1)
      /\ Below(r, 3) => At(r, 2) \/ Below(r, 2)
      /\ Below(r, 4) => At(r, 3) \/ Below(r, 3)
      /\ Below(r, 5) => At(r, 4) \/ Below(r, 4)
      /\ Below(r, 6) => At(r, 5) \/ Below(r, 5)
      /\ At(r, 6) \/ Below(r, 6)
  BY <1>3 DEF At, Below
<1> QED
  BY <1>1, <1>2, <1>4, QueryLocks, QueryReads, QueryStores, PTL
     DEF Scheduled, LockScheduled, Moves, IsAnswered

(* Every query is answered, however many there are and however often they  *)
(* refresh the cache (cache.go:24-76, client.go:63-79).                    *)
THEOREM QueriesAreAnswered == FairSpec /\ []NobodyIsStuck => EveryQueryAnswered
<1>1. ASSUME NEW r \in Requests
      PROVE  FairSpec /\ []NobodyIsStuck => (pc[r] # "idle" ~> pc[r] = "idle")
  BY IsScheduled, QueryIsAnswered, PTL DEF IsAnswered
<1> QED
  BY <1>1 DEF EveryQueryAnswered

-----------------------------------------------------------------------------
(* The empty cache.  A query that comes in while it is empty, and before   *)
(* it is filled, discovers again and will store what it finds.             *)
IsEmpty == resources.ids = {}

WillFill(r) ==
  \/ pc[r] = "isValid" /\ "resources" \in todo[r]
  \/ pc[r] = "discover"
  \/ pc[r] = "lock" /\ found[r].ids # {}
  \/ pc[r] = "setAll" /\ "resources" \in todo[r] /\ found[r].ids # {}

NoFault == faults' = faults

LEMMA CoreIsServed == Spec => [](Core \subseteq cluster)
<1>1. Init => Core \subseteq cluster
  BY DEF Init
<1>2. Core \subseteq cluster /\ [Next]_vars => (Core \subseteq cluster)'
  BY DEF Next, Tick, Change, Ask, Step, ReadField, WriteField, Discover, Lock, Unlock, Get, vars, clusterVars
<1> QED
  BY <1>1, <1>2, PTL DEF Spec

LEMMA FillingGoesOn ==
  ASSUME Inv, Core \subseteq cluster, Core # {}, [Next]_vars, NoFault,
         NEW r \in Requests, IsEmpty
  PROVE  /\ WillFill(r) => (WillFill(r)' \/ ~IsEmpty')
         /\ Ask(r) => WillFill(r)'
         /\ pc[r] = "idle" => (pc'[r] = "idle" \/ WillFill(r)')
<1> USE CacheAssumption DEF Inv, TypeOK, Contents, Fields, Places, Goto, WillFill, IsEmpty
<1>1. ASSUME NEW q \in Requests, q # r, Ask(q) \/ Step(q)
      PROVE  pc'[r] = pc[r] /\ todo'[r] = todo[r] /\ found'[r] = found[r]
  BY <1>1 DEF Ask, Step, ReadField, WriteField, Discover, Lock, Unlock, Get
<1>2. Ask(r) => WillFill(r)'
  BY DEF Ask
<1>3. ASSUME NEW f \in Fields, ReadField(r, f), WillFill(r) PROVE WillFill(r)'
  BY <1>3 DEF ReadField, Invalid, Empty
<1>4. ASSUME NEW f \in Fields, WriteField(r, f), WillFill(r) PROVE WillFill(r)' \/ ~IsEmpty'
  BY <1>4 DEF WriteField, Stored
<1>5. ASSUME Discover(r) PROVE WillFill(r)'
  <2>1. PICK content \in Discovered :
          /\ faults' = IF content.whole THEN faults ELSE faults + 1
          /\ found' = [found EXCEPT ![r] = content]
    BY <1>5 DEF Discover
  <2>2. content.whole => content.ids = cluster
    BY DiscoveredType, now \in Nat
  <2>3. content.whole
    BY <2>1 DEF NoFault
  <2> QED
    BY <1>5, <2>1, <2>2, <2>3 DEF Discover
<1>6. ASSUME Lock(r), WillFill(r) PROVE WillFill(r)'
  BY <1>6 DEF Lock
<1>7. ASSUME Unlock(r) \/ Get(r), WillFill(r) PROVE FALSE
  BY <1>7 DEF Unlock, Get
<1>8. ASSUME Tick \/ (\E i \in Ids : Change(i)) \/ UNCHANGED vars PROVE UNCHANGED <<pc, todo, found>>
  BY <1>8 DEF Tick, Change, vars, queryVars
<1>9. Step(r) => pc[r] # "idle"
  BY DEF Step, ReadField, WriteField, Discover, Lock, Unlock, Get
<1>10. ASSUME Step(r), WillFill(r) PROVE WillFill(r)' \/ ~IsEmpty'
  BY <1>10, <1>3, <1>4, <1>5, <1>6, <1>7 DEF Step
<1>11. ASSUME NEW q \in Requests, Ask(q) \/ Step(q)
       PROVE  /\ WillFill(r) => WillFill(r)' \/ ~IsEmpty'
              /\ pc[r] = "idle" => pc'[r] = "idle" \/ WillFill(r)'
  <2>1. CASE q = r
    BY <1>11, <1>2, <1>9, <1>10, <2>1
  <2>2. CASE q # r
    BY <1>11, <1>1, <2>2
  <2> QED
    BY <2>1, <2>2
<1> QED
  BY <1>2, <1>8, <1>11 DEF Next

(* Once the discoveries no longer fail, the empty map of one that did      *)
(* (resources.go:24-29 drops the error) is replaced, for an empty cache is *)
(* invalid, however fresh its stamp is (cache.go:32-34).                   *)
THEOREM EmptyIsRefilled ==
  ASSUME Core # {}, NEW r \in Requests
  PROVE  FairSpec /\ []NobodyIsStuck /\ <>[][NoFault]_faults => []<>(~IsEmpty)
<1>1. Inv /\ Core \subseteq cluster /\ [Next]_vars /\ [NoFault]_faults /\ IsEmpty /\ WillFill(r)
        => WillFill(r)' \/ ~IsEmpty'
  BY FillingGoesOn DEF NoFault
<1>2. Inv /\ Core \subseteq cluster /\ [Next]_vars /\ [NoFault]_faults /\ IsEmpty /\ <<Ask(r)>>_vars
        => WillFill(r)'
  BY FillingGoesOn DEF NoFault
<1>3. Inv /\ Core \subseteq cluster /\ [Next]_vars /\ [NoFault]_faults /\ IsEmpty /\ pc[r] = "idle"
        => (pc[r] = "idle")' \/ WillFill(r)' \/ ~IsEmpty'
  BY FillingGoesOn DEF NoFault
<1>4. WillFill(r) => pc[r] # "idle" /\ ~(pc[r] = "idle")
  BY DEF WillFill
<1>5. ~(pc[r] = "idle") => pc[r] # "idle"
  OBVIOUS
<1> QED
  BY <1>1, <1>2, <1>3, <1>4, <1>5, IsScheduled, QueryIsAnswered, CoreIsServed, PTL
     DEF IsAnswered, Scheduled, LockScheduled, FairTo, GoesOn, FairSpec
=============================================================================
