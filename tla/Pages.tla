------------------------------- MODULE Pages --------------------------------
(***************************************************************************)
(* The pages of the application: the variables each of them has, which    *)
(* the queries of its panels take, and the panels of its tabs.  A route   *)
(* is a record of the page, its tab, the cluster of the data source that  *)
(* is selected, and the parameters of the path.                           *)
(*                                                                         *)
(* The options of a variable with a query come from Prometheus, as of     *)
(* when they were loaded; its value is all of them, its default.          *)
(***************************************************************************)
EXTENDS Rendering

CONSTANTS objects, Some, Dashed      \* as in Metrics

PodOptions(var) == INSTANCE PodQueries
ClaimOptions(var) == INSTANCE VolumeQueries
Panel(var) == INSTANCE Panels

-----------------------------------------------------------------------------
(* "All" of the options that there are: when there are none it is the empty *)
(* string.  Where the value is .+ it is Some.                                  *)
AllOf(options) == IF options = {} THEN {""} ELSE options
Options(db, label, query) == {Label(x, label) : x \in Value(db, query).s}

(* What a page does not define matches nothing. *)
Defined(at) ==
  [cluster |-> {at.cluster}, prometheus |-> {"prometheus"}, namespace |-> {}, node |-> {}, workload |-> {},
   workloadtype |-> {}, pod |-> {}, pvc |-> {}, searchterm |-> {}]
WithClaims(db, v) ==
  [v EXCEPT !.pvc = AllOf(Options(db, "persistentvolumeclaim", ClaimOptions(v)!labelsByClusterNamespacePod))]

HomePage(at) ==
  [Defined(at) EXCEPT !.node = Some, !.namespace = Some, !.workloadtype = Some, !.workload = Some]
SearchPage(at) == [Defined(at) EXCEPT !.searchterm = at.searchterm]
NodesPage(at) == Defined(at)
NodePage(db, at) ==
  LET v == [Defined(at) EXCEPT !.node = {at.node}, !.namespace = Some]
  IN [v EXCEPT !.pod = AllOf(Options(db, "pod", PodOptions(v)!labelsByClusterNode))]
NamespacesPage(at) == [Defined(at) EXCEPT !.namespace = Some]
NamespacePage(db, at) ==
  WithClaims(db, [Defined(at) EXCEPT !.namespace = {at.namespace}, !.workloadtype = Some, !.workload = Some, !.pod = Some])
WorkloadsPage(at) == [Defined(at) EXCEPT !.namespace = Some, !.workload = Some]
WorkloadPage(db, at) ==
  LET v == [Defined(at) EXCEPT !.node = Some, !.namespace = {at.namespace},
                               !.workloadtype = {at.type}, !.workload = {at.workload}]
  IN WithClaims(db, [v EXCEPT !.pod = AllOf(Options(db, "pod", PodOptions(v)!labelsByClusterNamespaceWorkload))])
PodsPage(at) == [Defined(at) EXCEPT !.node = Some, !.namespace = Some, !.pod = Some]
PodPage(db, at) ==
  WithClaims(db, [Defined(at) EXCEPT !.node = Some, !.namespace = {at.namespace}, !.pod = {at.pod}])
PersistentVolumeClaimsPage(at) == [Defined(at) EXCEPT !.namespace = Some, !.pvc = Some]
PersistentVolumeClaimPage(db, at) ==
  LET v == [Defined(at) EXCEPT !.node = Some, !.namespace = {at.namespace}, !.pvc = {at.pvc}]
  IN [v EXCEPT !.pod = AllOf(Options(db, "pod", ClaimOptions(v)!labelsPodsByClusterNamespacePersistentVolumeClaim))]

(* The variables of the page of a route, as db has their options. *)
Variables(db, at) ==
  CASE at.page = "HomePage" -> HomePage(at)
    [] at.page = "SearchPage" -> SearchPage(at)
    [] at.page = "NodesPage" -> NodesPage(at)
    [] at.page = "NodePage" -> NodePage(db, at)
    [] at.page = "NamespacesPage" -> NamespacesPage(at)
    [] at.page = "NamespacePage" -> NamespacePage(db, at)
    [] at.page = "WorkloadsPage" -> WorkloadsPage(at)
    [] at.page = "WorkloadPage" -> WorkloadPage(db, at)
    [] at.page = "PodsPage" -> PodsPage(at)
    [] at.page = "PodPage" -> PodPage(db, at)
    [] at.page = "PersistentVolumeClaimsPage" -> PersistentVolumeClaimsPage(at)
    [] at.page = "PersistentVolumeClaimPage" -> PersistentVolumeClaimPage(db, at)

-----------------------------------------------------------------------------
(* The panels of the tab of a route, with the values v of the variables. *)
Restarts(v) == [restarts |-> Panel(v)!Lines([annotations |-> PodOptions(v)!restarts])]
WorkloadTab(at, v) ==
  CASE at.tab = "overview" -> Panel(v)!WorkloadPageOverview(at.type)
    [] at.tab = "cpu" -> Panel(v)!WorkloadPageCPU
    [] at.tab = "memory" -> Panel(v)!WorkloadPageMemory
    [] at.tab = "network" -> Panel(v)!WorkloadPageNetwork
    [] at.tab = "storage" -> Panel(v)!WorkloadPageStorage
PodTab(at, v) ==
  CASE at.tab = "overview" -> Panel(v)!PodPageOverview
    [] at.tab = "cpu" -> Panel(v)!PodPageCPU
    [] at.tab = "memory" -> Panel(v)!PodPageMemory
    [] at.tab = "network" -> Panel(v)!PodPageNetwork
    [] at.tab = "storage" -> Panel(v)!PodPageStorage
NodeTab(at, v) ==
  CASE at.tab = "overview" -> Panel(v)!NodePageOverview
    [] at.tab = "cpu" -> Panel(v)!NodePageCPU
    [] at.tab = "memory" -> Panel(v)!NodePageMemory
    [] at.tab = "network" -> Panel(v)!NodePageNetwork
    [] at.tab = "storage" -> Panel(v)!NodePageStorage
NamespaceTab(at, v) ==
  CASE at.tab = "overview" -> Panel(v)!NamespacePageOverview
    [] at.tab = "cpu" -> Panel(v)!NamespacePageCPU
    [] at.tab = "memory" -> Panel(v)!NamespacePageMemory
    [] at.tab = "network" -> Panel(v)!NamespacePageNetwork
    [] at.tab = "storage" -> Panel(v)!NamespacePageStorage
HomeTab(at, v) ==
  CASE at.tab = "overview" -> Panel(v)!HomePageOverview
    [] at.tab = "alerts" -> Panel(v)!HomePageAlerts
    [] at.tab = "cost" -> Panel(v)!HomePageCost

Asked(at, v) ==
  CASE at.page = "HomePage" -> HomeTab(at, v)
    [] at.page = "SearchPage" -> Panel(v)!SearchPage
    [] at.page = "NodesPage" -> Panel(v)!NodesPage
    [] at.page = "NodePage" -> NodeTab(at, v)
    [] at.page = "NamespacesPage" -> Panel(v)!NamespacesPage
    [] at.page = "NamespacePage" -> NamespaceTab(at, v)
    [] at.page = "WorkloadsPage" -> Panel(v)!WorkloadsPage
    [] at.page = "WorkloadPage" -> WorkloadTab(at, v) @@ Restarts(v)
    [] at.page = "PodsPage" -> Panel(v)!PodsPage
    [] at.page = "PodPage" -> PodTab(at, v) @@ Restarts(v)
    [] at.page = "PersistentVolumeClaimsPage" -> Panel(v)!PersistentVolumeClaimsPage
    [] at.page = "PersistentVolumeClaimPage" -> Panel(v)!PersistentVolumeClaimPage
=============================================================================
