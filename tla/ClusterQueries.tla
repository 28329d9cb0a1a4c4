--------------------------- MODULE ClusterQueries ---------------------------
(***************************************************************************)
(* The queries of the home page: all of the cluster (queries.cluster of    *)
(* src/utils/utils.queries.ts), each under the name it has there.          *)
(***************************************************************************)
EXTENDS QueryParts

AllNamespaces(name) == Sum(MaxBy(ByNamespace, Metric(name, InCluster)))

cpuCapacity == Sum(CapacityOf("cpu", <<>>))
cpuLimits == AllNamespaces(NamespaceLimits.cpu)
cpuRequests == AllNamespaces(NamespaceRequests.cpu)
(* The branch for OpenTelemetry compares the cluster with $prometheus. *)
cpuUsage == Sum(NodeCPU(<<>>, Metric("k8s_node_cpu_usage", [k8s_cluster_name |-> var.prometheus])))

memoryCapacity == Sum(CapacityOf("memory", <<>>))
memoryLimits == AllNamespaces(NamespaceLimits.memory)
memoryRequests == AllNamespaces(NamespaceRequests.memory)
memoryUsage == Sum(NodeMemory(<<>>))

-----------------------------------------------------------------------------
Allocated(res) == Sum(Join("*", ByNode, {}, InUnits(res, CapacityOf(res, <<>>)), PriceOf(res, <<>>)))
costsCPUAllocation == SumOver(Instants, Allocated("cpu"))
costsMemoryAllocation == SumOver(Instants, Allocated("memory"))

costsCPUIdle ==
  SumOver(Instants,
    LET used == NodeCPU(<<>>, Metric("k8s_node_cpu_time_seconds_total", [k8s_cluster_name |-> var.cluster]))
    IN Sum(Priced("cpu", HostAsNode(SumBy(ByInstance, used)))))
costsMemoryIdle == SumOver(Instants, Sum(Priced("memory", AvailableMemory(<<>>))))

TotalCost == Sum(MaxBy(ByNode, Metric("node_total_hourly_cost", InCluster)))
costsTotalPrior30d == Or(SumOver(Prior, TotalCost), Zero)
costsTotalCurrent30d == Or(SumOver(Instants, TotalCost), Zero)
costsPerPodCurrent30d ==
  LET pods == Sum(MaxBy(ByInstance, Metric("kubelet_running_pods", InCluster)))
  IN Arith("/", costsTotalCurrent30d, Or(AvgOver(pods), Zero))

(* What the cores, the memory, the GPUs and the volumes nobody uses cost in a *)
(* month: the first of the four that there is.                                *)
Unused(res) ==
  Join("-", ByNode, {}, MaxBy(ByNode, CapacityOf(res, <<>>)),
       SumBy(ByNode, MaxBy(ByContainer \cup {"node", "resource"}, Metric(Usage[res], Containers @@ InCluster))))
UnusedGPUs ==
  LET perNode(name) == MaxBy(ByNode, Metric(name, InCluster))
  IN Join("-", ByNode, {}, perNode("node_gpu_count"),
       Join("*", ByNode, {},
            SumBy(ByNode, MaxBy(ByContainer \cup {"node"}, Metric("container_gpu_allocation", InCluster))),
            perNode("node_gpu_hourly_cost")))
UnusedStorage ==
  LET byClaim == {"cluster", "namespace", "persistentvolumeclaim"}
      free == Join("-", byClaim, {}, Metric("pod_pvc_allocation", InCluster),
                MaxBy(byClaim, MaxWithout({"node", "instance"},
                                          Metric("kubelet_volume_stats_used_bytes", InCluster))))
      byVolume == {"cluster", "persistentvolume"}
  IN Join("*", byVolume, {}, InGiB(SumBy(byVolume \cup {"namespace"}, free)),
          MaxBy(byVolume, Metric("pv_hourly_cost", InCluster)))
costsPotentialSavings ==
  LET counted(V) == Arith("+", Zero, Sum(V))
      cores == Sum(Join("*", ByNode, {}, Scalar("floor", One, Unused("cpu")), PriceOf("cpu", <<>>)))
      first == Or(Or(Or(Or(cores, counted(Priced("memory", Unused("memory")))), counted(UnusedGPUs)),
                     counted(UnusedStorage)), Zero)
  IN Scalar("*", 24 * 30, first)

-----------------------------------------------------------------------------
(* Alerts of Prometheus and of Grafana; the matchers of their names are left out. *)
Firing(sel) ==
  LET firing(name) == Metric(name, sel @@ [alertname |-> Some, alertstate |-> {"firing"}] @@ InCluster)
  IN Or(firing("ALERTS"), firing("GRAFANA_ALERTS"))
alertsBySeverity == CountBy({"severity"}, Firing([severity |-> Some]))
alertsByNamespace == CountBy({"namespace"}, Firing([namespace |-> Some]))

(* The workload of an alert: label_replace is given the type as the pattern for *)
(* a label that is not empty, so that it never replaces anything.               *)
alerts ==
  LET of(label) == LabelCopy("workload", label, Firing(label :> Some))
      ofNone == [daemonset |-> {""}, deployment |-> {""}, statefulset |-> {""}, job_name |-> {""}]
  IN Or(Or(Or(Or(of("daemonset"), of("deployment")), of("statefulset")), of("job_name")), Firing(ofNone))
=============================================================================
