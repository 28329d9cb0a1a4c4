----------------------------- MODULE PodQueries -----------------------------
(***************************************************************************)
(* The queries of the pages of pods (queries.pods of                       *)
(* src/utils/utils.queries.ts), each under the name it has there.          *)
(***************************************************************************)
EXTENDS QueryParts

count == Count(Metric("kube_pod_info", [pod |-> Some] @@ InNamespace))
labelsByClusterNamespace == Metric(Owner, InNamespace)
labelsByClusterNode == Metric("kube_pod_info", [node |-> var.node] @@ InCluster)
\* Faulty: the pods of all workloads.
labelsOfAllWorkloads == Metric(Owner, InNamespace)
(* The type of the workload is not compared. *)
labelsByClusterNamespaceWorkload == Metric(Owner, [workload |-> var.workload] @@ InNamespace)

(* The last node, phase and address that every pod of the range had. *)
SeenAt(q) == LastOver(Timestamp(q))
\* Faulty: a row for every place the pod was at.
InfoOfPlaces ==
  LET phases == SeenAt(Where("==", 1, Metric("kube_pod_status_phase", OfPods)))
      places == SeenAt(Metric("kube_pod_info", [node |-> var.node] @@ OfPods))
  IN Join("*", ByPod, {"phase"}, MaxBy(ByPod \cup {"node", "pod_ip", "uid"}, places),
          GroupBy(ByPod \cup {"phase"}, TopOneBy(ByPod, phases)))
info ==
  LET places == SeenAt(Metric("kube_pod_info", [node |-> var.node] @@ OfPods))
      phases == SeenAt(Where("==", 1, Metric("kube_pod_status_phase", OfPods)))
  IN TopOneBy(ByPod, Join("*", ByPod, {"phase"},
       MaxBy(ByPod \cup {"node", "pod_ip", "uid"}, places),
       GroupBy(ByPod \cup {"phase"}, TopOneBy(ByPod, phases))))

-----------------------------------------------------------------------------
(* The table of all pods. *)
\* Faulty: the namespace is forgotten.
NamedOnNode == [node |-> var.node, pod |-> var.pod] @@ InCluster
OfPodsOnNode == [node |-> var.node] @@ OfPods
OnNode(name) == Metric(name, Containers @@ OfPodsOnNode)
Used(res) == SumBy(ByPod, OnNode(Usage[res]))
UsedOnce(res) == SumBy(ByPod, MaxBy(ByContainer, OnNode(Usage[res])))
Share(res, V) == Arith("/", V, SumBy(ByPod, RawRequests(res, OfPodsOnNode)))

cpuUsageAvgOverTime == AvgOver(Used("cpu"))
cpuUsageAvgPercentOverTime == Share("cpu", cpuUsageAvgOverTime)
cpuUsageMaxOverTime == MaxOver(Used("cpu"))
cpuUsageMaxPercentOverTime == Share("cpu", cpuUsageMaxOverTime)
memoryUsageAvgOverTime == AvgOver(Used("memory"))
memoryUsageAvgPercentOverTime == Share("memory", memoryUsageAvgOverTime)
memoryUsageMaxOverTime == MaxOver(UsedOnce("memory"))
memoryUsageMaxPercentOverTime == Share("memory", memoryUsageMaxOverTime)

-----------------------------------------------------------------------------
(* One pod. *)
PerContainer(ks, name) == MaxBy(ks, Metric(name, [container |-> Some] @@ OfPods))
OnNodes == ByContainer \cup {"node"}
OnInstances == ByContainer \cup {"instance"}
Allocation(requests, used) ==
  MaxBy({"namespace"}, Or(SumBy({"namespace", "resource"}, PerContainer(OnNodes \cup {"resource"}, requests)),
                          SumBy({"namespace"}, used)))

cpuAllocation == Allocation(Requests.cpu, PerContainer(OnInstances, RawUsage.cpu))
cpuLimits == SumBy({"pod"}, PerContainer(OnNodes, Limits.cpu))
cpuRequests == SumBy({"pod"}, PerContainer(OnNodes \cup {"resource"}, Requests.cpu))
cpuUsage == SumBy({"pod"}, PerContainer(OnInstances, RawUsage.cpu))
memoryAllocation == Allocation(Requests.memory, PerContainer(OnNodes \cup {"image"}, Usage.memory))
memoryLimits == SumBy({"pod"}, PerContainer(OnNodes, Limits.memory))
memoryRequests == SumBy({"pod"}, PerContainer(OnNodes \cup {"resource"}, Requests.memory))
memoryUsage == SumBy({"pod"}, PerContainer(OnNodes \cup {"image"}, Usage.memory))

Pressure(name) == Positive(SumBy({"pod", "namespace", "node"}, OnNode(name)))
cpuPressureWaiting == Pressure("container_pressure_cpu_waiting_seconds_total")
cpuPressureStalled == Pressure("container_pressure_cpu_stalled_seconds_total")
memoryPressureWaiting == Pressure("container_pressure_memory_waiting_seconds_total")
memoryPressureStalled == Pressure("container_pressure_memory_stalled_seconds_total")
ioPressureWaiting == Pressure("container_pressure_io_waiting_seconds_total")
ioPressureStalled == Pressure("container_pressure_io_stalled_seconds_total")

-----------------------------------------------------------------------------
(* The rows of a table, which are put together by their key: all but the first *)
(* take the pods of that name of every namespace.                               *)
Keyed(V) == LabelJoin("join_key", <<"cluster", "namespace", "pod", "node">>, V)
NamedHere(name) == SumBy(ByPod \cup {"node"}, Metric(name, [node |-> var.node, pod |-> var.pod] @@ InCluster))
infoJoinKey ==
  Keyed(Join("*", ByPod, Workload, MaxBy(ByPod \cup {"node"}, Metric("kube_pod_info", OfPodsOnNode)),
             OwnersOf(OfPods)))
cpuUsageJoinKey == Keyed(NamedHere(UsageOf5m.cpu))
cpuRequestsJoinKey == Keyed(NamedHere(Requests.cpu))
cpuRequestsPercentJoinKey == Keyed(Arith("/", NamedHere(UsageOf5m.cpu), NamedHere(Requests.cpu)))
cpuLimitsJoinKey == Keyed(NamedHere(Limits.cpu))
cpuLimitsPercentJoinKey == Keyed(Arith("/", NamedHere(UsageOf5m.cpu), NamedHere(Limits.cpu)))
memoryUsageJoinKey == Keyed(NamedHere(UsageOf5m.memory))
memoryRequestsJoinKey == Keyed(NamedHere(Requests.memory))
memoryRequestsPercentJoinKey == Keyed(Arith("/", NamedHere(UsageOf5m.memory), NamedHere(Requests.memory)))
memoryLimitsJoinKey == Keyed(NamedHere(Limits.memory))
memoryLimitsPercentJoinKey == Keyed(Arith("/", NamedHere(UsageOf5m.memory), NamedHere(Limits.memory)))

-----------------------------------------------------------------------------
OfThisPod == [pod |-> var.pod]
networkBandwidthRx == Sum(Traffic(Received, OfThisPod))
networkBandwidthTx == Minus(Sum(Traffic(Sent, OfThisPod)))
networkSaturationRx == Sum(Traffic(ReceivedDropped, OfThisPod))
networkSaturationTx == Minus(Sum(Traffic(SentDropped, OfThisPod)))
networkBandwidthByInterfaceRx == SumBy({"interface"}, Traffic(Received, OfThisPod))
networkBandwidthByInterfaceTx == Minus(SumBy({"interface"}, Traffic(Sent, OfThisPod)))
networkSaturationByInterfaceRx == SumBy({"interface"}, Traffic(ReceivedDropped, OfThisPod))
networkSaturationByInterfaceTx == Minus(SumBy({"interface"}, Traffic(SentDropped, OfThisPod)))

DiskOf(name) == Disk({"namespace", "pod"}, name, OfPodsOnNode)
throughputRead == DiskOf("container_fs_reads_bytes_total")
throughputWrite == Minus(DiskOf("container_fs_writes_bytes_total"))
iopsRead == DiskOf("container_fs_reads_total")
iopsWrite == Minus(DiskOf("container_fs_writes_total"))

restarts ==
  SumBy({"pod"}, Changes(
    Metric("kube_pod_container_status_restarts_total", [pod |-> var.pod] @@ InThisNamespace)))

-----------------------------------------------------------------------------
(* Costs.  Both branches of the usage have the same filter, and the unused *)
(* memory is the requested one in both of the queries for idle costs.       *)
ByPodNode == ByPod \cup {"node"}
OnItsNode == [container |-> Some] @@ OfPodsOnNode
RequestedOnNode(res) == Metric("kube_pod_container_resource_requests", [resource |-> {res}] @@ OnItsNode)
UsedOnItsNode(res) ==
  LET raw == Metric(RawUsage[res], OnItsNode)
  IN SumBy(ByPodNode, MaxBy(ByContainer \cup {"node"}, Or(raw, HostAsNode(raw))))
CostOf(res) ==
  SumOver(Instants,
    LET held == MaxBy(ByPodNode, Or(SumBy(ByPodNode \cup {"resource"}, RequestedOnNode(res)), UsedOnItsNode(res)))
    IN SumBy(ByPod, Priced(res, held)))
IdleCost(used) ==
  SumOver(Instants,
    LET unused == Join("-", ByPod, {"node"}, SumBy(ByPod, RequestedOnNode("memory")), UsedOnItsNode(used))
    IN SumBy(ByPod, Priced("memory", unused)))

costsCPUAllocation == CostOf("cpu")
costsMemoryAllocation == CostOf("memory")
costsCPUIdle == IdleCost("cpu")
costsMemoryIdle == IdleCost("memory")

search == SumBy({"namespace", "pod"}, Metric(Owner, [namespace |-> Some, pod |-> var.searchterm] @@ InCluster))
=============================================================================
