-------------------------- MODULE ContainerQueries --------------------------
(***************************************************************************)
(* The queries of the page of a pod about its containers                   *)
(* (queries.containers of src/utils/utils.queries.ts), each under the name *)
(* it has there.                                                           *)
(***************************************************************************)
EXTENDS QueryParts

labelsByClusterNamespacePod == Metric("kube_pod_container_info", OfPods)

ThisPod == [pod |-> Exactly(var.pod)] @@ InThisNamespace
info ==
  LastOver(MaxBy(ByContainer \cup {"image_spec"}, Metric("kube_pod_container_info", ThisPod)))

-----------------------------------------------------------------------------
(* The table of the containers of the pod. *)
Used(res) == Metric(Usage[res], Containers @@ ThisPod)
Largest(res) == MaxBy({"container"}, Used(res))
Share(res, V) ==
  Arith("/", V, SumBy({"container"},
    Metric("kube_pod_container_resource_requests", [resource |-> {res}] @@ Containers @@ ThisPod)))

cpuUsageAvgOverTime == AvgOver(Largest("cpu"))
cpuUsageAvgPercentOverTime == Share("cpu", cpuUsageAvgOverTime)
cpuUsageMaxOverTime == MaxOver(Largest("cpu"))
cpuUsageMaxPercentOverTime == Share("cpu", cpuUsageMaxOverTime)
memoryUsageAvgOverTime == AvgOver(AvgBy({"container"}, Used("memory")))
memoryUsageAvgPercentOverTime == Share("memory", memoryUsageAvgOverTime)
memoryUsageMaxOverTime == MaxOver(Largest("memory"))
memoryUsageMaxPercentOverTime == Share("memory", memoryUsageMaxOverTime)

-----------------------------------------------------------------------------
PerContainer(name, sel) == SumBy(ByContainer, MaxBy(ByContainer, Metric(name, sel @@ OfPods)))
cpuDistribution == PerContainer(UsageOf5m.cpu, Containers)
cpuEfficiency == Arith("/", PerContainer(UsageOf5m.cpu, <<>>), PerContainer(Requests.cpu, Containers))
memoryDistribution == PerContainer(UsageOf5m.memory, Containers)
memoryEfficiency == Arith("/", PerContainer(UsageOf5m.memory, <<>>), PerContainer(Requests.memory, Containers))

Pressure(name) == Positive(SumBy(ByContainer, Metric(name, Containers @@ OfPods)))
cpuPressureWaiting == Pressure("container_pressure_cpu_waiting_seconds_total")
cpuPressureStalled == Pressure("container_pressure_cpu_stalled_seconds_total")
memoryPressureWaiting == Pressure("container_pressure_memory_waiting_seconds_total")
memoryPressureStalled == Pressure("container_pressure_memory_stalled_seconds_total")
ioPressureWaiting == Pressure("container_pressure_io_waiting_seconds_total")
ioPressureStalled == Pressure("container_pressure_io_stalled_seconds_total")

(* The rows of a table, which are put together by their key. *)
Keyed(V) == LabelJoin("join_key", <<"cluster", "namespace", "pod", "container">>, V)
Summed(name) == SumBy(ByContainer, Metric(name, Containers @@ OfPods))
infoJoinKey == Keyed(MaxBy(ByContainer, Metric("kube_pod_container_info", OfPods)))
cpuUsageJoinKey == Keyed(Summed(UsageOf5m.cpu))
cpuRequestsJoinKey == Keyed(Summed(Requests.cpu))
cpuRequestsPercentJoinKey == Keyed(Arith("/", Summed(UsageOf5m.cpu), Summed(Requests.cpu)))
cpuLimitsJoinKey == Keyed(Summed(Limits.cpu))
cpuLimitsPercentJoinKey == Keyed(Arith("/", Summed(UsageOf5m.cpu), Summed(Limits.cpu)))
memoryUsageJoinKey == Keyed(Summed(UsageOf5m.memory))
memoryRequestsJoinKey == Keyed(Summed(Requests.memory))
memoryRequestsPercentJoinKey == Keyed(Arith("/", Summed(UsageOf5m.memory), Summed(Requests.memory)))
memoryLimitsJoinKey == Keyed(Summed(Limits.memory))
memoryLimitsPercentJoinKey == Keyed(Arith("/", Summed(UsageOf5m.memory), Summed(Limits.memory)))

DiskOf(name) == Disk({"namespace", "pod", "container"}, name, [node |-> var.node] @@ OfPods)
throughputRead == DiskOf("container_fs_reads_bytes_total")
throughputWrite == Minus(DiskOf("container_fs_writes_bytes_total"))
iopsRead == DiskOf("container_fs_reads_total")
iopsWrite == Minus(DiskOf("container_fs_writes_total"))
=============================================================================
