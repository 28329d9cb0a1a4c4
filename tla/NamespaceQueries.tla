-------------------------- MODULE NamespaceQueries --------------------------
(***************************************************************************)
(* The queries of the pages of namespaces (queries.namespaces of           *)
(* src/utils/utils.queries.ts), each under the name it has there.          *)
(***************************************************************************)
EXTENDS QueryParts

Existing(sel) == Metric("kube_namespace_status_phase", sel @@ InCluster)
labelsByCluster == Existing(<<>>)
count == Count(GroupBy({"namespace"}, Existing([namespace |-> var.namespace])))

(* The number of workloads of every namespace, 0 for the active ones without any. *)
info ==
  LET active == GroupBy(ByNamespace, Where("==", 1,
                  Metric("kube_namespace_status_phase", [phase |-> {"Active"}] @@ InNamespace)))
  IN OrOn(ByNamespace,
       SumBy(ByNamespace, TopOneBy(ByPod \cup Workload,
               GroupBy(ByNamespace \cup {"workload"}, Metric(Owner, InNamespace)))),
       Less(1, LastOver(active)))

-----------------------------------------------------------------------------
(* The table of all namespaces: their usage, and its share of what they requested. *)
Used(res) == SumBy(ByNamespace, MaxBy(ByContainer, Metric(Usage[res], Containers @@ InNamespace)))
OfRequests(res, V) ==
  Join("/", ByNamespace, {}, V, SumBy(ByNamespace, Metric(NamespaceRequests[res], InNamespace)))

cpuUsageAvgOverTime == AvgOver(Used("cpu"))
cpuUsageAvgPercentOverTime == OfRequests("cpu", cpuUsageAvgOverTime)
cpuUsageMaxOverTime == MaxOver(Used("cpu"))
cpuUsageMaxPercentOverTime == OfRequests("cpu", cpuUsageMaxOverTime)
memoryUsageAvgOverTime == AvgOver(Used("memory"))
memoryUsageAvgPercentOverTime == OfRequests("memory", memoryUsageAvgOverTime)
memoryUsageMaxOverTime == MaxOver(Used("memory"))
memoryUsageMaxPercentOverTime == OfRequests("memory", memoryUsageMaxOverTime)

-----------------------------------------------------------------------------
(* One namespace. *)
InUse(res, ks) == MaxBy(ks, Metric(RawUsage[res], Containers @@ InThisNamespace))
Allocation(res) ==
  MaxBy({"namespace"}, Or(Metric(NamespaceRequests[res], InThisNamespace),
                          SumBy({"namespace"}, InUse(res, {"namespace", "pod", "container"}))))
Largest(name) == MaxBy(ByNamespace, Metric(name, InNamespace))

cpuAllocation == Allocation("cpu")
cpuLimits ==
  LET otel == Metric("k8s_container_cpu_limit",
                     [k8s_cluster_name |-> var.cluster, k8s_namespace_name |-> var.namespace])
  IN Or(Largest(NamespaceLimits.cpu),
        Sum(LabelCopy("namespace", "k8s_namespace_name", LabelCopy("cluster", "k8s_cluster_name", otel))))
cpuRequests == Largest(NamespaceRequests.cpu)
cpuUsage == Sum(InUse("cpu", ByContainer))
memoryAllocation == Allocation("memory")
memoryLimits == Largest(NamespaceLimits.memory)
memoryRequests == Largest(NamespaceRequests.memory)
memoryUsage == Sum(InUse("memory", ByContainer))

podsCount ==
  CountBy(ByWorkload, Metric(Owner, [workload |-> var.workload, workload_type |-> var.workloadtype] @@ InNamespace))

(* The images are those of all the pods that have the name of one of the namespace. *)
images ==
  LET owners == Metric(Owner, [pod |-> var.pod, workload |-> var.workload] @@ InThisNamespace)
      ofPods == CountBy({"pod", "image_spec"}, Metric("kube_pod_container_info", <<>>))
  IN CountBy({"image_spec"}, Join("*", {"pod"}, {"namespace"}, ofPods, owners))

-----------------------------------------------------------------------------
DroppedBy(name) == Sum(MaxBy({"namespace", "pod", "interface"}, Metric(name, [pod |-> Some] @@ InThisNamespace)))
networkBandwidthRx == Sum(Traffic(Received, <<>>))
networkBandwidthTx == Minus(Sum(Traffic(Sent, <<>>)))
networkSaturationRx == DroppedBy(ReceivedDropped)
networkSaturationTx == Minus(DroppedBy(SentDropped))

TrafficByWorkload(name) ==
  SumBy(ByWorkload, Join("*", ByPod, Workload, Traffic(name, <<>>), OwnerOf(InNamespace)))
networkBandwidthByWorkloadRx == TrafficByWorkload(Received)
networkBandwidthByWorkloadTx == Minus(TrafficByWorkload(Sent))
networkSaturationByWorkloadRx == TrafficByWorkload(ReceivedDropped)
networkSaturationByWorkloadTx == Minus(TrafficByWorkload(SentDropped))

throughputRead == Disk({"namespace"}, "container_fs_reads_bytes_total", InNamespace)
throughputWrite == Minus(Disk({"namespace"}, "container_fs_writes_bytes_total", InNamespace))
iopsRead == Disk({"namespace"}, "container_fs_reads_total", InNamespace)
iopsWrite == Minus(Disk({"namespace"}, "container_fs_writes_total", InNamespace))

-----------------------------------------------------------------------------
(* What a namespace has of the nodes: what it requests, or else what it uses. *)
UsedOnNodes(res) == MaxBy(ByContainer \cup {"node"}, UsageOnNode(res, <<>>))
CostOf(res) ==
  SumOver(Instants,
    LET here == ByNode \cup {"namespace"}
        requested == SumBy(here \cup {"resource"}, RawRequests(res, <<>>))
        held == MaxBy(here, Or(requested, SumBy(here, UsedOnNodes(res))))
    IN SumBy({"namespace"}, Priced(res, held)))
IdleCost(res, ks) ==
  SumOver(Instants,
    LET unused == Join("-", ByNode, {}, SumBy(ks, RawRequests(res, <<>>)), SumBy(ByNode, UsedOnNodes(res)))
    IN Sum(Priced(res, unused)))

costsCPUAllocation == CostOf("cpu")
costsMemoryAllocation == CostOf("memory")
costsCPUIdle == IdleCost("cpu", ByNode \cup {"resource"})
costsMemoryIdle == IdleCost("memory", ByNode)
=============================================================================
