----------------------------- MODULE Telemetry ------------------------------
(***************************************************************************)
(* Pods that start, stop and move while the replicas of Prometheus scrape *)
(* them, each on its own and each of its jobs at a time of its own, and a *)
(* page of the application that is open meanwhile.  The page has loaded   *)
(* the values of its variables at some time and shows the results of its  *)
(* queries with them; whatever happens between the two has happened when  *)
(* the queries run.                                                        *)
(***************************************************************************)
EXTENDS Rendering

CONSTANTS
  Replicas,      \* of Prometheus, which scrape the same targets
  Beginning,     \* the pods there are at first
  Events,       \* what may happen to them: sets of pods [stop, start]
  MaxEvents,    \* how often something happens to pods or replicas
  Routes,        \* the pages that are opened
  Objects, Figures, Some, Dashed      \* as in Metrics

VARIABLES
  pods,      \* the pods that are there
  seen,      \* what every replica that is up has scraped last, for each job
  at,        \* the route of the page that is open
  loaded,    \* the values of its variables
  events    \* how often something has happened

vars == <<pods, seen, at, loaded, events>>

Jobs == {"kubelet", "state"}
Closed == [page |-> "closed"]

(* The range of the page: an instant before anything happened, and now.  The *)
(* month before it looked like that, too.                                     *)
Scraped(ps) == [j \in Jobs |-> ps]
Before == [r \in Replicas |-> Scraped(Beginning)]
Exporters(objects) == INSTANCE Exposition WITH figures <- Figures
Past == [t \in 1..2 |-> Exporters(Objects)!Recorded(t, Before)]
Database(now) == Append(Past, Exporters(Objects)!Recorded(3, now))

Application == INSTANCE Pages WITH objects <- Objects

-----------------------------------------------------------------------------
Init ==
  /\ pods = Beginning
  /\ seen = Before
  /\ at = Closed
  /\ loaded = <<>>
  /\ events = 0

Happens == events < MaxEvents /\ events' = events + 1

(* A pod starts, stops, or is replaced by one of the same name. *)
Change(c) ==
  /\ Happens
  /\ c.stop \subseteq pods
  /\ pods' = (pods \ c.stop) \cup c.start
  /\ UNCHANGED <<seen, at, loaded>>

Scrape(r, j) ==
  /\ seen[r][j] # pods
  /\ seen' = [seen EXCEPT ![r][j] = pods]
  /\ UNCHANGED <<pods, at, loaded, events>>

(* The series of a replica that is down end. *)
Crash(r) ==
  /\ Happens
  /\ DOMAIN seen # {r}
  /\ seen' = Restrict(seen, DOMAIN seen \ {r})
  /\ UNCHANGED <<pods, at, loaded>>

Restart(r) ==
  /\ r \notin DOMAIN seen
  /\ seen' = (r :> Scraped(pods)) @@ seen
  /\ UNCHANGED <<pods, at, loaded, events>>

(* A page is opened, refreshed or left. *)
Load(route) ==
  /\ at' = route
  /\ \E db \in {Database(seen)} : loaded' = Application!Variables(db, route)
Open(route) ==
  /\ at = Closed
  /\ Load(route)
  /\ UNCHANGED <<pods, seen, events>>
Refresh ==
  /\ at # Closed
  /\ Load(at)
  /\ UNCHANGED <<pods, seen, events>>
Leave ==
  /\ at # Closed
  /\ at' = Closed
  /\ loaded' = <<>>
  /\ UNCHANGED <<pods, seen, events>>

Next ==
  \/ \E c \in Events : Change(c)
  \/ \E r \in Replicas : Crash(r) \/ Restart(r)
  \/ \E r \in DOMAIN seen, j \in Jobs : Scrape(r, j)
  \/ \E route \in Routes : Open(route)
  \/ Refresh
  \/ Leave

Spec == Init /\ [][Next]_vars

-----------------------------------------------------------------------------
(* What the page asks for and shows, and the lines of its panels.  The only *)
(* element of a set is a value that TLC has computed once.                   *)
The(S) == CHOOSE x \in S : TRUE
Asked == IF at = Closed THEN <<>> ELSE Application!Asked(at, loaded)
Shown(panels) == The({Displayed(db, ps) : db \in {Database(seen)}, ps \in {panels}})
Lines(shown) == UNION {{p} \X DOMAIN shown[p] : p \in DOMAIN shown}
Line(shown, q) == shown[q[1]][q[2]]

Settled == \A r \in DOMAIN seen : seen[r] = Scraped(pods)
Agreed == \A r, s \in DOMAIN seen : seen[r] = seen[s]
Fresh == loaded = Application!Variables(Database(seen), at)

(* No panel shows an error, whatever the replicas have scraped and whichever of *)
(* them are up.  With two replicas two queries fail: the images of a namespace   *)
(* and the traffic of the pods of a node on Windows are joined with series that  *)
(* are there once for each replica (many-to-many matching).                      *)
OnWindows ==
  at.page = "NodePage" /\ \E n \in Objects.nodes : n.cluster = at.cluster /\ n.node = at.node /\ n.exporter = "windows"
FailsWithReplicas ==
  {<<"images", "distribution">>} \cup (IF OnWindows THEN {"bandwidthBy"} \X {"in", "out"} ELSE {})
Answered ==
  \A shown \in {Shown(Asked)} : \A q \in Lines(shown) :
    \/ Line(shown, q).ok
    \/ q \in FailsWithReplicas /\ Cardinality(DOMAIN seen) > 1

(* The page of an object shows the same when nothing else is there: no pod of    *)
(* another node, namespace, workload or cluster, no claim or alert of another     *)
(* one is counted, even if it has the same name.  The traffic of the pods of a    *)
(* node and the CPU and the memory of the pods of a workload are looked up by the *)
(* names of the pods alone and do show those of other namespaces.                 *)
Has(k) == k \in DOMAIN at
IsOwn(p) ==
  /\ p.cluster = at.cluster
  /\ Has("namespace") => p.namespace = at.namespace
  /\ Has("node") => p.node = at.node
  /\ Has("workload") => p.workload = at.workload /\ p.type = at.type
  /\ Has("pod") => p.pod = at.pod
  /\ Has("pvc") => p.claim = at.pvc
Name(p) == <<p.cluster, p.namespace, p.pod>>
Known == Beginning \cup UNION {seen[r][j] : <<r, j>> \in (DOMAIN seen) \X Jobs}
Own == {p \in Known : \E q \in Known : IsOwn(q) /\ Name(q) = Name(p)}      \* also while it moves
OwnPods(now) == [r \in DOMAIN now |-> [j \in Jobs |-> now[r][j] \cap Own]]
IsNear(n) == Has("node") => n.node = at.node \/ \E p \in Own : p.node = n.node
InReach(o) == o.cluster = at.cluster /\ (Has("namespace") => o.namespace = at.namespace)
OwnObjects ==
  [nodes |-> {n \in Objects.nodes : n.cluster = at.cluster /\ IsNear(n)},
   namespaces |-> {n \in Objects.namespaces : InReach(n)},
   workloads |-> {o \in Objects.workloads : InReach(o)},
   claims |-> {o \in Objects.claims : InReach(o)},
   alerts |-> {o \in Objects.alerts : o.l.cluster = at.cluster}]
LookedUpByName ==
  CASE at.page = "NodePage" -> {"bandwidthBy", "saturationBy"}
    [] at.page = "WorkloadPage" -> {"efficiency"} \cup (IF at.tab = "overview" THEN {} ELSE {"pods"})
    [] OTHER -> {}
OnlyItsOwn ==
  at # Closed =>
    LET own == [t \in 1..3 |-> Exporters(OwnObjects)!Recorded(t, OwnPods(IF t = 3 THEN seen ELSE Before))]
    IN \A asked \in {Restrict(Asked, DOMAIN Asked \ LookedUpByName)}, db \in {own} :
         Shown(asked) = Displayed(db, asked)

(* A second replica of Prometheus that has scraped the same changes nothing of   *)
(* the figures for CPU, memory and network: these take the largest of the        *)
(* replicas before they sum up.  Most counts, tables, costs, disks and pressures *)
(* do not, and count everything once for each replica; and so do the memory that  *)
(* is allocated to a workload and the packets lost by a node on Windows.           *)
LargestOfReplicas ==
  {"overview", "distribution", "bandwidth", "bandwidthBy"} \cup (IF OnWindows THEN {} ELSE {"saturation", "saturationBy"})
MemoryAllocated(q) == at.page = "WorkloadPage" /\ at.tab = "memory" /\ q[2] = "allocation"
OfReplica(r) ==
  [t \in 1..3 |-> Exporters(Objects)!Recorded(t, Restrict(IF t = 3 THEN seen ELSE Before, {r}))]
CountedOnce ==
  at # Closed /\ Agreed =>
    LET one == CHOOSE r \in DOMAIN seen : TRUE
    IN \A asked \in {Restrict(Asked, DOMAIN Asked \cap LargestOfReplicas)} :
         \A shown \in {Shown(asked)}, db \in {OfReplica(one)} : \A single \in {Displayed(db, asked)} :
           \A q \in Lines(shown) :
             ~MemoryAllocated(q) /\ Line(shown, q).ok => Line(shown, q) = Line(single, q)

(* A table has one row for each object, with its name, also while the replicas   *)
(* disagree about where it runs.  The tables of the CPU and the memory of the    *)
(* pods of a workload have nameless rows, of pods of other namespaces, and a      *)
(* container has two rows after its image has changed.                            *)
Identity ==
  [nodes |-> {"node"}, nodeCosts |-> {"node"}, namespaces |-> {"namespace"}, namespaceCosts |-> {"namespace"},
   workloads |-> {"namespace", "workload", "workload_type"}, workloadCosts |-> {"namespace", "workload", "workload_type"},
   pods |-> {"namespace", "pod"}, podCosts |-> {"namespace", "pod"}, claims |-> {"namespace", "persistentvolumeclaim"}]
OneRowEach ==
  \A shown \in {Shown(Restrict(Asked, (DOMAIN Asked \cap DOMAIN Identity) \ LookedUpByName))} :
    \A p \in DOMAIN shown :
      LET rows == shown[p].rows.s
      IN /\ \A r \in rows : Identity[p] \subseteq DOMAIN r.l
         /\ Cardinality({Pick(r.l, Identity[p]) : r \in rows}) = Cardinality(rows)

(* The parts of a tab add up to its whole: the usage of the workloads of a       *)
(* namespace to that of the namespace, also for the network and the disks, and   *)
(* the cores and the traffic of the pods of a workload to those of the workload; *)
(* although the one is read from the recording rules and the other from the       *)
(* kubelets.  The memory of a workload leaves the sandboxes out that its pods     *)
(* have, and the disks of a pod need the label node that those of it do not.      *)
WholeAndParts ==
  {<<"overview", "usage", "distribution", "distribution">>,
   <<"bandwidth", "in", "bandwidthBy", "in">>, <<"bandwidth", "out", "bandwidthBy", "out">>,
   <<"saturation", "in", "saturationBy", "in">>, <<"saturation", "out", "saturationBy", "out">>,
   <<"throughput", "in", "throughputBy", "in">>, <<"throughput", "out", "throughputBy", "out">>,
   <<"iops", "in", "iopsBy", "in">>, <<"iops", "out", "iopsBy", "out">>}
Total(V) == Aggregated("sum", LAMBDA l : <<>>, V)
AddsUp ==
  /\ at.page = "NamespacePage" \/ (at.page = "WorkloadPage" /\ at.tab \in {"cpu", "network"})
  /\ Settled
  => \A shown \in {Shown(Asked)} : \A c \in WholeAndParts :
       {c[1], c[3]} \subseteq DOMAIN shown => Total(shown[c[1]][c[2]]) = Total(shown[c[3]][c[4]])

(* Once everything is scraped and the page has been refreshed, its table of pods *)
(* lists every pod of its object that is there, and no pod that was never one.   *)
Named(S) == {[namespace |-> p.namespace, pod |-> p.pod] : p \in {q \in S : IsOwn(q)}}
PodsListed ==
  at # Closed /\ Settled /\ Fresh =>
    \A shown \in {Shown(Restrict(Asked, (DOMAIN Asked \cap {"pods"}) \ LookedUpByName))} :
      "pods" \in DOMAIN shown =>
        LET listed == {Pick(r.l, Identity.pods) : r \in shown.pods.rows.s}
        IN Named(pods) \subseteq listed /\ listed \subseteq Named(pods \cup Beginning)

(* "Allocation is the greater amount of either the actual usage or the requested *)
(* amount" (src/components/shared/RowCosts.tsx:26, :32): what is allocated to a   *)
(* workload costs no less than what its pods requested.                           *)
Costs == INSTANCE QueryParts WITH objects <- Objects, var <- loaded
CostOfRequests(res) ==
  Costs!Sum(Costs!SumOver(Costs!Instants, Costs!Priced(res,
    Costs!MaxBy({"cluster", "namespace", "node", "pod"},
      Costs!SumBy({"cluster", "namespace", "node", "pod", "replica"},
        Costs!RawRequests(res, [pod |-> loaded.pod]))))))
AllocationCoversRequests ==
  at.page = "WorkloadPage" /\ at.tab = "overview" /\ Settled /\ Fresh =>
    \A shown \in {Shown(Restrict(Asked, {"costs"}))} :
      \A res \in {"cpu", "memory"} :
        \A x \in Total(shown.costs[res]).s, y \in The({Value(db, CostOfRequests(res)) : db \in {Database(seen)}}).s : x.v >= y.v
=============================================================================
