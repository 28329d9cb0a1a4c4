--------------------------- MODULE ResourceLookup ---------------------------
(***************************************************************************)
(* What the Kubernetes client promises to the queries that resolve a       *)
(* resource id (pkg/kubernetes/client.go, the callers of refreshCache): a  *)
(* query is answered from one whole catalog of resources, and from one     *)
(* that was published at most TTL before the query was asked.  How the     *)
(* catalog is discovered, locked and stamped is left to ResourceCache.     *)
(***************************************************************************)
EXTENDS Integers

CONSTANTS
  Requests,   \* the concurrent queries
  Ids,        \* the ids of the resources
  TTL         \* how long a catalog is valid: one hour in the code

VARIABLES
  now,        \* the clock
  catalog,    \* the published catalog: its ids and its time stamp
  waiting,    \* the queries that are asked and not answered
  asked,      \* when each query was asked
  answer      \* the catalog each query was last answered from

vars == <<now, catalog, waiting, asked, answer>>

Catalogs == [ids : SUBSET Ids, stamp : Int]

Init ==
  /\ now = 0
  /\ catalog \in [ids : SUBSET Ids, stamp : {0}]
  /\ waiting = {}
  /\ asked = [r \in Requests |-> 0]
  /\ answer = [r \in Requests |-> catalog]

Tick ==
  /\ now' = now + 1
  /\ UNCHANGED <<catalog, waiting, asked, answer>>

Ask(r) ==
  /\ r \notin waiting
  /\ waiting' = waiting \cup {r}
  /\ asked' = [asked EXCEPT ![r] = now]
  /\ UNCHANGED <<now, catalog, answer>>

(* A new catalog never carries an older stamp than the one it replaces. *)
Publish ==
  /\ catalog' \in Catalogs
  /\ catalog.stamp <= catalog'.stamp
  /\ catalog'.stamp <= now
  /\ UNCHANGED <<now, waiting, asked, answer>>

Answer(r) ==
  /\ r \in waiting
  /\ asked[r] <= catalog.stamp + TTL
  /\ answer' = [answer EXCEPT ![r] = catalog]
  /\ waiting' = waiting \ {r}
  /\ UNCHANGED <<now, catalog, asked>>

Next ==
  \/ Tick
  \/ Publish
  \/ \E r \in Requests : Ask(r) \/ Answer(r)

Spec == Init /\ [][Next]_vars
=============================================================================
