----------------------------- MODULE NodeQueries ----------------------------
(***************************************************************************)
(* The queries of the pages of nodes (queries.nodes of                     *)
(* src/utils/utils.queries.ts), each under the name it has there.          *)
(***************************************************************************)
EXTENDS QueryParts

info == AvgOver(MaxBy(ByNode, Metric("kube_node_info", [node |-> Some] @@ InCluster)))
count == Count(Metric("kube_node_info", [node |-> Some] @@ InCluster))

(* The table of all nodes, whatever $node is. *)
AnyInstance == [instance |-> Some]
CPUOfNodes ==
  SumBy(ByNode, NodeCPU(AnyInstance, Metric("k8s_node_cpu_usage", [k8s_cluster_name |-> var.cluster])))
MemoryOfNodes == SumBy(ByNode, NodeMemory(AnyInstance))
OfCapacity(res, V) == Join("/", ByNode, {}, V, CapacityOf(res, [node |-> Some]))

cpuUsageAvgOverTime == AvgOver(CPUOfNodes)
cpuUsageAvgPercentOverTime == OfCapacity("cpu", cpuUsageAvgOverTime)
cpuUsageMaxOverTime == MaxOver(CPUOfNodes)
cpuUsageMaxPercentOverTime == OfCapacity("cpu", cpuUsageMaxOverTime)
memoryUsageAvgOverTime == AvgOver(MemoryOfNodes)
memoryUsageAvgPercentOverTime == OfCapacity("memory", memoryUsageAvgOverTime)
memoryUsageMaxOverTime == MaxOver(MemoryOfNodes)
memoryUsageMaxPercentOverTime == OfCapacity("memory", memoryUsageMaxOverTime)

-----------------------------------------------------------------------------
(* One node, $node, with or without a port. *)
ThisNode == [node |-> WithPort(var.node)]
ThisInstance == [instance |-> WithPort(var.node)]
ByNodeContainer == ByContainer \cup {"node"}
OnNode(ks, name) == Sum(MaxBy(ks, Metric(name, [container |-> Some] @@ ThisNode @@ InCluster)))

cpuCapacity == CapacityOf("cpu", ThisNode)
cpuLimits ==
  LET otel == Metric("k8s_container_cpu_limit", [k8s_cluster_name |-> var.cluster, k8s_node_name |-> var.node])
  IN Or(OnNode(ByNodeContainer, Limits.cpu),
        Sum(LabelCopy("node", "k8s_node_name", LabelCopy("cluster", "k8s_cluster_name", otel))))
cpuRequests == OnNode(ByNodeContainer \cup {"resource"}, Requests.cpu)

(* The series of the node by their instance, or else by their label node; the *)
(* first branch for OpenTelemetry has the nodes of the whole cluster.          *)
CPUOfNode(otel) ==
  LET inCluster == [k8s_cluster_name |-> var.cluster]
  IN Or(NodeCPU(ThisInstance, Metric(otel, inCluster)),
        NodeCPU(ThisNode, Metric(otel, [k8s_node_name |-> WithPort(var.node)] @@ inCluster)))
cpuUsage == Sum(CPUOfNode("k8s_node_cpu_usage"))

memoryCapacity == CapacityOf("memory", ThisNode)
memoryLimits == OnNode(ByNodeContainer, Limits.memory)
memoryRequests == OnNode(ByNodeContainer \cup {"resource"}, Requests.memory)
memoryUsage == NodeMemory([instance |-> var.node])

(* The pods of the node: their share of it, and of what they requested. *)
\* Faulty: the replicas are summed up.
OfPodsOfReplicas(name) ==
  SumBy(ByPod \cup {"node"}, Metric(name, [node |-> var.node, pod |-> var.pod] @@ InCluster))
OfPodsOnNode(name) ==
  SumBy(ByPod \cup {"node"}, MaxBy(ByNodeContainer,
        Metric(name, [node |-> var.node, pod |-> var.pod] @@ InCluster)))
Distribution(res) ==
  Join("/", ByNode, {},
       Join("*", ByPod, Workload, OfPodsOnNode(Usage[res]), OwnersOf([pod |-> var.pod])),
       SumBy(ByNode, MaxBy(ByNode, CapacityOf(res, [node |-> var.node]))))
Efficiency(res) == Arith("/", OfPodsOnNode(Usage[res]), OfPodsOnNode(Requests[res]))
cpuDistribution == Distribution("cpu")
cpuEfficiency == Efficiency("cpu")
memoryDistribution == Distribution("memory")
memoryEfficiency == Efficiency("memory")

-----------------------------------------------------------------------------
(* The traffic of the node, and of its pods; that of pods on Windows is found *)
(* through the ids of the containers.                                         *)
OfDevices(windows, linux) ==
  Sum(MaxBy(ByInstance \cup {"device"},
      Or(Metric(windows, ThisInstance @@ InCluster), Metric(linux, ThisInstance @@ InCluster))))
DroppedOnDevices(linux, windows) ==
  Sum(MaxBy(ByInstance \cup {"device", "interface"},
      Or(Metric(linux, ThisInstance @@ InCluster),
         SumBy(ByInstance \cup {"interface"}, Metric(windows, [instance |-> var.node] @@ InCluster)))))
networkBandwidthRx == OfDevices("windows_net_bytes_received_total", "node_network_receive_bytes_total")
networkBandwidthTx == Minus(OfDevices("windows_net_bytes_sent_total", "node_network_transmit_bytes_total"))
networkSaturationRx ==
  DroppedOnDevices("node_network_receive_drop_total", "windows_container_network_receive_packets_dropped_total")
networkSaturationTx ==
  Minus(DroppedOnDevices("node_network_transmit_drop_total", "windows_container_network_transmit_packets_dropped_total"))

OfPodInterfaces(linux, windows, infoOf) ==
  SumBy(ByPod, MaxBy(ByPod \cup {"interface"},
    Or(Metric(linux, [pod |-> var.pod] @@ InCluster),
       Join("*", {"container_id"}, {"pod", "namespace"},
            Metric(windows, [instance |-> var.node] @@ InCluster),
            Metric("kube_pod_container_info", infoOf @@ [pod |-> var.pod] @@ InCluster)))))
OnThisNode == [node |-> var.node]
ScrapedFromNode == [instance |-> var.node]
networkBandwidthByPodRx == OfPodInterfaces(Received, "windows_container_network_receive_bytes_total", OnThisNode)
networkBandwidthByPodTx == Minus(OfPodInterfaces(Sent, "windows_container_network_transmit_bytes_total", OnThisNode))
networkSaturationByPodRx ==
  OfPodInterfaces(ReceivedDropped, "windows_container_network_receive_packets_dropped_total", ScrapedFromNode)
networkSaturationByPodTx ==
  Minus(OfPodInterfaces(SentDropped, "windows_container_network_transmit_packets_dropped_total", ScrapedFromNode))

throughputRead == Disk({"node"}, "container_fs_reads_bytes_total", OnThisNode)
throughputWrite == Minus(Disk({"node"}, "container_fs_writes_bytes_total", OnThisNode))
iopsRead == Disk({"node"}, "container_fs_reads_total", OnThisNode)
iopsWrite == Minus(Disk({"node"}, "container_fs_writes_total", OnThisNode))

-----------------------------------------------------------------------------
CapacityOfNode(res) == InUnits(res, MaxBy(ByNode, CapacityOf(res, ThisNode)))
costsCPUAllocation ==
  SumOver(Instants, Arith("*", CapacityOfNode("cpu"), SumBy(ByNode, PriceOf("cpu", ThisNode))))
(* The price of the memory is summed over the replicas. *)
costsMemoryAllocation ==
  SumOver(Instants, Arith("*", CapacityOfNode("memory"),
                           SumBy(ByNode, Metric(HourlyPrice.memory, ThisNode @@ InCluster))))
costsCPUIdle ==
  SumOver(Instants,
    LET used == SumBy(ByNode \cup {"instance"}, CPUOfNode("k8s_node_cpu_time_seconds_total"))
    IN SumBy(ByNode, Join("*", ByNode, {}, HostAsNode(used), PriceOf("cpu", ThisNode))))
costsMemoryIdle ==
  SumOver(Instants, SumBy(ByNode, Join("*", ByNode, {}, InGiB(AvailableMemory(ThisInstance)),
                                        PriceOf("memory", ThisNode))))
=============================================================================
