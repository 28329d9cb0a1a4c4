------------------------------- MODULE Panels -------------------------------
(***************************************************************************)
(* What the pages of the application ask of Prometheus.  A tab is a       *)
(* record of its panels, by name; a panel has the component that shows it *)
(* and its queries, by their refIds.  Titles, units, colours and links    *)
(* are left out.                                                           *)
(***************************************************************************)
EXTENDS PromQL, TLC

CONSTANTS objects, var, Some, Dashed      \* as in Metrics

Cluster == INSTANCE ClusterQueries
Nodes == INSTANCE NodeQueries
Namespaces == INSTANCE NamespaceQueries
Workloads == INSTANCE WorkloadQueries
Pods == INSTANCE PodQueries
Containers == INSTANCE ContainerQueries
Claims == INSTANCE VolumeQueries

-----------------------------------------------------------------------------
(* The components.  The charts show the queries over time; here every line is *)
(* the last of it.                                                             *)
Shows(component, queries) == [component |-> component, queries |-> queries]
Lines(queries) == Shows("lines", queries)
Stat(query) == Lines([value |-> query])
TimeSeries(query) == Lines([distribution |-> query])
TimeSeriesIO(inQuery, outQuery) == Lines([in |-> inQuery, out |-> outQuery])
Table(query) == Shows("Table", [value |-> query])
TableResourceUsage(queries) == Shows("TableResourceUsage", queries)
TableMemoryOrCPUUsage(queries) == Shows("TableMemoryOrCPUUsage", queries)
TableCosts(queries) == Shows("TableCosts", queries)
TableCostsTop(queries) == Shows("TableCostsTop", queries)

TablePersistentVolumeClaimsUsage ==
  Shows("TablePersistentVolumeClaimsUsage",
    [info |-> Claims!info, capacity |-> Claims!capacity, used |-> Claims!used,
     available |-> Claims!available, phase |-> Claims!phase, used_percent |-> Claims!usedPercent])

RowCosts(costsCPUAllocation, costsMemoryAllocation, costsCPUIdle, costsMemoryIdle) ==
  Lines([cpu |-> costsCPUAllocation, memory |-> costsMemoryAllocation,
         total |-> Arith("+", costsCPUAllocation, costsMemoryAllocation),
         cpuIdle |-> costsCPUIdle, memoryIdle |-> costsMemoryIdle,
         totalIdle |-> Arith("+", costsCPUIdle, costsMemoryIdle)])

-----------------------------------------------------------------------------
(* The home page. *)

ClusterCPU == Lines([capacity |-> Cluster!cpuCapacity, limits |-> Cluster!cpuLimits,
                     requests |-> Cluster!cpuRequests, usage |-> Cluster!cpuUsage])
ClusterMemory == Lines([capacity |-> Cluster!memoryCapacity, limits |-> Cluster!memoryLimits,
                        requests |-> Cluster!memoryRequests, usage |-> Cluster!memoryUsage])
NodesPage ==
  [nodes |-> TableResourceUsage(
     [info_node |-> Nodes!info,
      cpu_usage_avg |-> Nodes!cpuUsageAvgOverTime, cpu_usage_avg_percent |-> Nodes!cpuUsageAvgPercentOverTime,
      cpu_usage_max |-> Nodes!cpuUsageMaxOverTime, cpu_usage_max_percent |-> Nodes!cpuUsageMaxPercentOverTime,
      memory_usage_avg |-> Nodes!memoryUsageAvgOverTime,
      memory_usage_avg_percent |-> Nodes!memoryUsageAvgPercentOverTime,
      memory_usage_max |-> Nodes!memoryUsageMaxOverTime,
      memory_usage_max_percent |-> Nodes!memoryUsageMaxPercentOverTime])]
NodesTable == NodesPage.nodes
NodeCosts == TableCosts([cpu_allocation |-> Nodes!costsCPUAllocation, memory_allocation |-> Nodes!costsMemoryAllocation,
                         cpu_idle |-> Nodes!costsCPUIdle, memory_idle |-> Nodes!costsMemoryIdle])
HomePageOverview ==
  [nodeCount |-> Stat(Nodes!count), namespaceCount |-> Stat(Namespaces!count), workloadCount |-> Stat(Workloads!count),
   podCount |-> Stat(Pods!count), claimCount |-> Stat(Claims!count),
   cpu |-> ClusterCPU, memory |-> ClusterMemory,
   costs |-> RowCosts(Cluster!costsCPUAllocation, Cluster!costsMemoryAllocation,
                      Cluster!costsCPUIdle, Cluster!costsMemoryIdle),
   nodes |-> NodesTable, nodeCosts |-> NodeCosts]
HomePageCost ==
  [prior |-> Stat(Cluster!costsTotalPrior30d), current |-> Stat(Cluster!costsTotalCurrent30d),
   perPod |-> Stat(Cluster!costsPerPodCurrent30d), savings |-> Stat(Cluster!costsPotentialSavings),
   namespaceCosts |-> TableCostsTop([cpu_allocation |-> Namespaces!costsCPUAllocation,
                                     memory_allocation |-> Namespaces!costsMemoryAllocation]),
   workloadCosts |-> TableCostsTop([cpu_allocation |-> Workloads!costsCPUAllocation,
                                    memory_allocation |-> Workloads!costsMemoryAllocation])]
HomePageAlerts ==
  [bySeverity |-> TimeSeries(Cluster!alertsBySeverity), byNamespace |-> TimeSeries(Cluster!alertsByNamespace),
   alerts |-> Table(Cluster!alerts)]

SearchPage == [podsFound |-> Table(Pods!search), workloadsFound |-> Table(Workloads!search)]

-----------------------------------------------------------------------------
(* Pods, as several pages show them. *)

PodsPage ==
  [pods |-> TableResourceUsage(
     [info_pod |-> Pods!info,
      cpu_usage_avg |-> Pods!cpuUsageAvgOverTime, cpu_usage_avg_percent |-> Pods!cpuUsageAvgPercentOverTime,
      cpu_usage_max |-> Pods!cpuUsageMaxOverTime, cpu_usage_max_percent |-> Pods!cpuUsageMaxPercentOverTime,
      memory_usage_avg |-> Pods!memoryUsageAvgOverTime,
      memory_usage_avg_percent |-> Pods!memoryUsageAvgPercentOverTime,
      memory_usage_max |-> Pods!memoryUsageMaxOverTime,
      memory_usage_max_percent |-> Pods!memoryUsageMaxPercentOverTime])]
PodsTable == PodsPage.pods
PodCosts == TableCosts([cpu_allocation |-> Pods!costsCPUAllocation, memory_allocation |-> Pods!costsMemoryAllocation,
                        cpu_idle |-> Pods!costsCPUIdle, memory_idle |-> Pods!costsMemoryIdle])
PodsByCPU == TableMemoryOrCPUUsage(
  [info |-> Pods!infoJoinKey, usage |-> Pods!cpuUsageJoinKey,
   requests |-> Pods!cpuRequestsJoinKey, requests_percent |-> Pods!cpuRequestsPercentJoinKey,
   limits |-> Pods!cpuLimitsJoinKey, limits_percent |-> Pods!cpuLimitsPercentJoinKey])
PodsByMemory == TableMemoryOrCPUUsage(
  [info |-> Pods!infoJoinKey, usage |-> Pods!memoryUsageJoinKey,
   requests |-> Pods!memoryRequestsJoinKey, requests_percent |-> Pods!memoryRequestsPercentJoinKey,
   limits |-> Pods!memoryLimitsJoinKey, limits_percent |-> Pods!memoryLimitsPercentJoinKey])
PodThroughput == TimeSeriesIO(Pods!throughputRead, Pods!throughputWrite)
PodIOPS == TimeSeriesIO(Pods!iopsRead, Pods!iopsWrite)

(* The claims of the pods, where the variable $pvc has an option. *)
SectionPersistentVolumeClaimsForPods ==
  IF var.pvc \subseteq {""} THEN <<>> ELSE [claims |-> TablePersistentVolumeClaimsUsage]

-----------------------------------------------------------------------------
(* A node. *)

NodeCPU == Lines([capacity |-> Nodes!cpuCapacity, limits |-> Nodes!cpuLimits,
                  requests |-> Nodes!cpuRequests, usage |-> Nodes!cpuUsage])
NodeMemory == Lines([capacity |-> Nodes!memoryCapacity, limits |-> Nodes!memoryLimits,
                     requests |-> Nodes!memoryRequests, usage |-> Nodes!memoryUsage])
NodePageOverview ==
  [cpu |-> NodeCPU, memory |-> NodeMemory,
   costs |-> RowCosts(Nodes!costsCPUAllocation, Nodes!costsMemoryAllocation, Nodes!costsCPUIdle, Nodes!costsMemoryIdle),
   pods |-> PodsTable, podCosts |-> PodCosts]
NodePageCPU ==
  [overview |-> NodeCPU, distribution |-> TimeSeries(Nodes!cpuDistribution),
   efficiency |-> TimeSeries(Nodes!cpuEfficiency),
   waiting |-> TimeSeries(Pods!cpuPressureWaiting), stalled |-> TimeSeries(Pods!cpuPressureStalled),
   pods |-> PodsByCPU]
NodePageMemory ==
  [overview |-> NodeMemory, distribution |-> TimeSeries(Nodes!memoryDistribution),
   efficiency |-> TimeSeries(Nodes!memoryEfficiency),
   waiting |-> TimeSeries(Pods!memoryPressureWaiting), stalled |-> TimeSeries(Pods!memoryPressureStalled),
   pods |-> PodsByMemory]
NodePageNetwork ==
  [bandwidth |-> TimeSeriesIO(Nodes!networkBandwidthRx, Nodes!networkBandwidthTx),
   saturation |-> TimeSeriesIO(Nodes!networkSaturationRx, Nodes!networkSaturationTx),
   bandwidthBy |-> TimeSeriesIO(Nodes!networkBandwidthByPodRx, Nodes!networkBandwidthByPodTx),
   saturationBy |-> TimeSeriesIO(Nodes!networkSaturationByPodRx, Nodes!networkSaturationByPodTx)]
NodePageStorage ==
  [throughput |-> TimeSeriesIO(Nodes!throughputRead, Nodes!throughputWrite),
   iops |-> TimeSeriesIO(Nodes!iopsRead, Nodes!iopsWrite),
   throughputBy |-> PodThroughput, iopsBy |-> PodIOPS,
   waiting |-> TimeSeries(Pods!ioPressureWaiting), stalled |-> TimeSeries(Pods!ioPressureStalled)]

-----------------------------------------------------------------------------
(* Namespaces. *)

NamespacesPage ==
  [namespaces |-> TableResourceUsage(
     [info_namespace |-> Namespaces!info,
      cpu_usage_avg |-> Namespaces!cpuUsageAvgOverTime,
      cpu_usage_avg_percent |-> Namespaces!cpuUsageAvgPercentOverTime,
      cpu_usage_max |-> Namespaces!cpuUsageMaxOverTime,
      cpu_usage_max_percent |-> Namespaces!cpuUsageMaxPercentOverTime,
      memory_usage_avg |-> Namespaces!memoryUsageAvgOverTime,
      memory_usage_avg_percent |-> Namespaces!memoryUsageAvgPercentOverTime,
      memory_usage_max |-> Namespaces!memoryUsageMaxOverTime,
      memory_usage_max_percent |-> Namespaces!memoryUsageMaxPercentOverTime])]
NamespaceCPU == Lines([allocation |-> Namespaces!cpuAllocation, limits |-> Namespaces!cpuLimits,
                       requests |-> Namespaces!cpuRequests, usage |-> Namespaces!cpuUsage])
NamespaceMemory == Lines([allocation |-> Namespaces!memoryAllocation, limits |-> Namespaces!memoryLimits,
                          requests |-> Namespaces!memoryRequests, usage |-> Namespaces!memoryUsage])
WorkloadsPage ==
  [workloads |-> TableResourceUsage(
     [cpu_usage_avg |-> Workloads!cpuUsageAvgOverTime,
      cpu_usage_avg_percent |-> Workloads!cpuUsageAvgPercentOverTime,
      cpu_usage_max |-> Workloads!cpuUsageMaxOverTime,
      cpu_usage_max_percent |-> Workloads!cpuUsageMaxPercentOverTime,
      memory_usage_avg |-> Workloads!memoryUsageAvgOverTime,
      memory_usage_avg_percent |-> Workloads!memoryUsageAvgPercentOverTime,
      memory_usage_max |-> Workloads!memoryUsageMaxOverTime,
      memory_usage_max_percent |-> Workloads!memoryUsageMaxPercentOverTime,
      desired_pods |-> Workloads!desiredPods, ready_pods |-> Workloads!readyPods])]
WorkloadsTable == WorkloadsPage.workloads
WorkloadCosts == TableCosts(
  [cpu_allocation |-> Workloads!costsCPUAllocation, memory_allocation |-> Workloads!costsMemoryAllocation,
   cpu_idle |-> Workloads!costsCPUIdle, memory_idle |-> Workloads!costsMemoryIdle])

NamespacePageOverview ==
  [cpu |-> NamespaceCPU, memory |-> NamespaceMemory,
   podsPerWorkload |-> TimeSeries(Namespaces!podsCount), images |-> TimeSeries(Namespaces!images),
   costs |-> RowCosts(Namespaces!costsCPUAllocation, Namespaces!costsMemoryAllocation,
                      Namespaces!costsCPUIdle, Namespaces!costsMemoryIdle),
   workloads |-> WorkloadsTable, workloadCosts |-> WorkloadCosts]
NamespacePageCPU ==
  [overview |-> NamespaceCPU, distribution |-> TimeSeries(Workloads!cpuDistribution),
   efficiency |-> TimeSeries(Workloads!cpuEfficiency),
   waiting |-> TimeSeries(Workloads!cpuPressureWaiting), stalled |-> TimeSeries(Workloads!cpuPressureStalled),
   workloads |-> TableMemoryOrCPUUsage(
     [info |-> Workloads!infoJoinKey, usage |-> Workloads!cpuUsageJoinKey,
      requests |-> Workloads!cpuRequestsJoinKey, requests_percent |-> Workloads!cpuRequestsPercentJoinKey,
      limits |-> Workloads!cpuLimitsJoinKey, limits_percent |-> Workloads!cpuLimitsPercentJoinKey])]
NamespacePageMemory ==
  [overview |-> NamespaceMemory, distribution |-> TimeSeries(Workloads!memoryDistribution),
   efficiency |-> TimeSeries(Workloads!memoryEfficiency),
   waiting |-> TimeSeries(Workloads!memoryPressureWaiting), stalled |-> TimeSeries(Workloads!memoryPressureStalled),
   workloads |-> TableMemoryOrCPUUsage(
     [info |-> Workloads!infoJoinKey, usage |-> Workloads!memoryUsageJoinKey,
      requests |-> Workloads!memoryRequestsJoinKey, requests_percent |-> Workloads!memoryRequestsPercentJoinKey,
      limits |-> Workloads!memoryLimitsJoinKey, limits_percent |-> Workloads!memoryLimitsPercentJoinKey])]
NamespacePageNetwork ==
  [bandwidth |-> TimeSeriesIO(Namespaces!networkBandwidthRx, Namespaces!networkBandwidthTx),
   saturation |-> TimeSeriesIO(Namespaces!networkSaturationRx, Namespaces!networkSaturationTx),
   bandwidthBy |-> TimeSeriesIO(Namespaces!networkBandwidthByWorkloadRx, Namespaces!networkBandwidthByWorkloadTx),
   saturationBy |-> TimeSeriesIO(Namespaces!networkSaturationByWorkloadRx, Namespaces!networkSaturationByWorkloadTx)]
WorkloadThroughput == TimeSeriesIO(Workloads!throughputRead, Workloads!throughputWrite)
WorkloadIOPS == TimeSeriesIO(Workloads!iopsRead, Workloads!iopsWrite)
NamespacePageStorage ==
  [throughput |-> TimeSeriesIO(Namespaces!throughputRead, Namespaces!throughputWrite),
   iops |-> TimeSeriesIO(Namespaces!iopsRead, Namespaces!iopsWrite),
   throughputBy |-> WorkloadThroughput, iopsBy |-> WorkloadIOPS,
   waiting |-> TimeSeries(Workloads!ioPressureWaiting), stalled |-> TimeSeries(Workloads!ioPressureStalled)]
  @@ SectionPersistentVolumeClaimsForPods

-----------------------------------------------------------------------------
(* A workload. *)

WorkloadCPU == Lines([allocation |-> Workloads!cpuAllocation, limits |-> Workloads!cpuLimits,
                      requests |-> Workloads!cpuRequests, usage |-> Workloads!cpuUsage])
WorkloadMemory == Lines([allocation |-> Workloads!memoryAllocation, limits |-> Workloads!memoryLimits,
                         requests |-> Workloads!memoryRequests, usage |-> Workloads!memoryUsage])
StatusQueries(workloadType) ==
  CASE workloadType = "deployment" ->
         [replicas |-> Workloads!deploymentReplicas, available |-> Workloads!deploymentAvailable,
          ready |-> Workloads!deploymentReady, updated |-> Workloads!deploymentUpdated,
          unavailable |-> Workloads!deploymentUnavailable]
    [] workloadType = "statefulset" ->
         [replicas |-> Workloads!statefulsetReplicas, available |-> Workloads!statefulsetAvailable,
          ready |-> Workloads!statefulsetReady, updated |-> Workloads!statefulsetUpdated]
    [] workloadType = "daemonset" ->
         [desired |-> Workloads!daemonsetDesired, scheduled |-> Workloads!daemonsetScheduled,
          available |-> Workloads!daemonsetAvailable, ready |-> Workloads!daemonsetReady,
          updated |-> Workloads!daemonsetUpdated, unavailable |-> Workloads!daemonsetUnavailable,
          misscheduled |-> Workloads!daemonsetMisscheduled]
    [] workloadType = "cronjob" -> [active |-> Workloads!cronjobActive]
    [] workloadType = "job" ->
         [active |-> Workloads!jobActive, succeeded |-> Workloads!jobSucceeded, failed |-> Workloads!jobFailed]
    [] OTHER -> <<>>
WorkloadPageOverview(workloadType) ==
  [cpu |-> WorkloadCPU, memory |-> WorkloadMemory,
   podsCount |-> Lines([pods |-> Workloads!podsCount]), images |-> TimeSeries(Workloads!images),
   status |-> Lines(StatusQueries(workloadType)),
   costs |-> RowCosts(Workloads!costsCPUAllocation, Workloads!costsMemoryAllocation,
                      Workloads!costsCPUIdle, Workloads!costsMemoryIdle),
   pods |-> PodsTable, podCosts |-> PodCosts]
WorkloadPageCPU ==
  [overview |-> WorkloadCPU, distribution |-> TimeSeries(Pods!cpuUsage),
   efficiency |-> TimeSeries(Nodes!cpuEfficiency),
   waiting |-> TimeSeries(Pods!cpuPressureWaiting), stalled |-> TimeSeries(Pods!cpuPressureStalled),
   pods |-> PodsByCPU]
WorkloadPageMemory ==
  [overview |-> WorkloadMemory, distribution |-> TimeSeries(Pods!memoryUsage),
   efficiency |-> TimeSeries(Nodes!memoryEfficiency),
   waiting |-> TimeSeries(Pods!memoryPressureWaiting), stalled |-> TimeSeries(Pods!memoryPressureStalled),
   pods |-> PodsByMemory]
WorkloadPageNetwork ==
  [bandwidth |-> TimeSeriesIO(Workloads!networkBandwidthRx, Workloads!networkBandwidthTx),
   saturation |-> TimeSeriesIO(Workloads!networkSaturationRx, Workloads!networkSaturationTx),
   bandwidthBy |-> TimeSeriesIO(Workloads!networkBandwidthByPodRx, Workloads!networkBandwidthByPodTx),
   saturationBy |-> TimeSeriesIO(Workloads!networkSaturationByPodRx, Workloads!networkSaturationByPodTx)]
WorkloadPageStorage ==
  [throughput |-> WorkloadThroughput, iops |-> WorkloadIOPS, throughputBy |-> PodThroughput, iopsBy |-> PodIOPS,
   waiting |-> TimeSeries(Pods!ioPressureWaiting), stalled |-> TimeSeries(Pods!ioPressureStalled)]
  @@ SectionPersistentVolumeClaimsForPods

-----------------------------------------------------------------------------
(* A pod. *)

PodCPU == Lines([allocation |-> Pods!cpuAllocation, limits |-> Pods!cpuLimits,
                 requests |-> Pods!cpuRequests, usage |-> Pods!cpuUsage])
PodMemory == Lines([allocation |-> Pods!memoryAllocation, limits |-> Pods!memoryLimits,
                    requests |-> Pods!memoryRequests, usage |-> Pods!memoryUsage])
PodPageOverview ==
  [cpu |-> PodCPU, memory |-> PodMemory,
   costs |-> RowCosts(Pods!costsCPUAllocation, Pods!costsMemoryAllocation, Pods!costsCPUIdle, Pods!costsMemoryIdle),
   containers |-> TableResourceUsage(
     [info_container |-> Containers!info,
      cpu_usage_avg |-> Containers!cpuUsageAvgOverTime,
      cpu_usage_avg_percent |-> Containers!cpuUsageAvgPercentOverTime,
      cpu_usage_max |-> Containers!cpuUsageMaxOverTime,
      cpu_usage_max_percent |-> Containers!cpuUsageMaxPercentOverTime,
      memory_usage_avg |-> Containers!memoryUsageAvgOverTime,
      memory_usage_avg_percent |-> Containers!memoryUsageAvgPercentOverTime,
      memory_usage_max |-> Containers!memoryUsageMaxOverTime,
      memory_usage_max_percent |-> Containers!memoryUsageMaxPercentOverTime])]
PodPageCPU ==
  [overview |-> PodCPU, distribution |-> TimeSeries(Containers!cpuDistribution),
   efficiency |-> TimeSeries(Containers!cpuEfficiency),
   waiting |-> TimeSeries(Containers!cpuPressureWaiting), stalled |-> TimeSeries(Containers!cpuPressureStalled),
   containers |-> TableMemoryOrCPUUsage(
     [info_container |-> Containers!infoJoinKey, usage |-> Containers!cpuUsageJoinKey,
      requests |-> Containers!cpuRequestsJoinKey, requests_percent |-> Containers!cpuRequestsPercentJoinKey,
      limits |-> Containers!cpuLimitsJoinKey, limits_percent |-> Containers!cpuLimitsPercentJoinKey])]
PodPageMemory ==
  [overview |-> PodMemory, distribution |-> TimeSeries(Containers!memoryDistribution),
   efficiency |-> TimeSeries(Containers!memoryEfficiency),
   waiting |-> TimeSeries(Containers!memoryPressureWaiting), stalled |-> TimeSeries(Containers!memoryPressureStalled),
   containers |-> TableMemoryOrCPUUsage(
     [info_container |-> Containers!infoJoinKey, usage |-> Containers!memoryUsageJoinKey,
      requests |-> Containers!memoryRequestsJoinKey, requests_percent |-> Containers!memoryRequestsPercentJoinKey,
      limits |-> Containers!memoryLimitsJoinKey, limits_percent |-> Containers!memoryLimitsPercentJoinKey])]
PodPageNetwork ==
  [bandwidth |-> TimeSeriesIO(Pods!networkBandwidthRx, Pods!networkBandwidthTx),
   saturation |-> TimeSeriesIO(Pods!networkSaturationRx, Pods!networkSaturationTx),
   bandwidthBy |-> TimeSeriesIO(Pods!networkBandwidthByInterfaceRx, Pods!networkBandwidthByInterfaceTx),
   saturationBy |-> TimeSeriesIO(Pods!networkSaturationByInterfaceRx, Pods!networkSaturationByInterfaceTx)]
PodPageStorage ==
  [throughput |-> PodThroughput, iops |-> PodIOPS,
   throughputBy |-> TimeSeriesIO(Containers!throughputRead, Containers!throughputWrite),
   iopsBy |-> TimeSeriesIO(Containers!iopsRead, Containers!iopsWrite),
   waiting |-> TimeSeries(Containers!ioPressureWaiting), stalled |-> TimeSeries(Containers!ioPressureStalled)]
  @@ SectionPersistentVolumeClaimsForPods

-----------------------------------------------------------------------------
(* Claims. *)

PersistentVolumeClaimsPage ==
  [aboveWarningThreshold |-> Stat(Claims!aboveWarningThreshold), fullIn5Days |-> Stat(Claims!fullIn5Days),
   fullIn2Days |-> Stat(Claims!fullIn2Days), unused |-> Stat(Claims!unused), lostState |-> Stat(Claims!lostState),
   pendingState |-> Stat(Claims!pendingState), claims |-> TablePersistentVolumeClaimsUsage]
PersistentVolumeClaimPage ==
  [bytes |-> Lines([capacity |-> Claims!capacity, requests |-> Claims!requested, usage |-> Claims!used]),
   inodes |-> Lines([capacity |-> Claims!inodesCapacity, usage |-> Claims!inodesUsed]),
   hourly |-> TimeSeries(Claims!hourlyUsageRage), daily |-> TimeSeries(Claims!dailyUsageRage),
   weekly |-> TimeSeries(Claims!weeklyUsageRage), pods |-> PodsTable]

=============================================================================
