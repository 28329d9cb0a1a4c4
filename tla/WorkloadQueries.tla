-------------------------- MODULE WorkloadQueries ---------------------------
(***************************************************************************)
(* The queries of the pages of workloads (queries.workloads of             *)
(* src/utils/utils.queries.ts), each under the name it has there.          *)
(***************************************************************************)
EXTENDS QueryParts

(* The figures of every workload: of the ReplicaSets that nobody owns, of those *)
(* of a Deployment, of Deployments, DaemonSets and StatefulSets, and the pods   *)
(* of any other type: the last value in the range, or that of now.              *)
Read(last, name, sel) == IF last THEN LastOver(Metric(name, sel)) ELSE Metric(name, sel)
Declared(last, figure, names) ==
  LET of(type, name) ==
        LabelSet("workload_type", type, LabelCopy("workload", type,
          MaxBy(ByNamespace \cup {type}, Read(last, name, (type :> names) @@ InNamespace))))
      byReplicaSet == ByNamespace \cup {"replicaset"}
      sets == [replicaset |-> names] @@ InNamespace
      ofReplicaSet(owners) == Join("*", byReplicaSet, Workload, MaxBy(byReplicaSet, Read(last, figure.replicaset, sets)), owners)
      ownedByNobody == LabelSet("workload_type", "replicaset", LabelCopy("workload", "replicaset",
        MaxBy(byReplicaSet, Read(last, "kube_replicaset_owner", [owner_kind |-> {""}] @@ sets))))
      ownedByDeployment == LabelSet("workload_type", "deployment", LabelCopy("workload", "owner_name",
        MaxBy(byReplicaSet \cup {"owner_name"},
          Read(last, "kube_replicaset_owner",
            [owner_is_controller |-> {"true"}, owner_kind |-> {"Deployment"}, owner_name |-> Some] @@ sets))))
      other == Read(last, Owner, [workload |-> names,
                         workload_type |-> Some \ {"replicaset", "deployment", "daemonset", "statefulset"}] @@ InNamespace)
  IN MaxBy(ByWorkload,
       Or(Or(Or(Or(Or(ofReplicaSet(ownedByNobody), ofReplicaSet(ownedByDeployment)),
                   of("deployment", figure.deployment)),
                of("daemonset", figure.daemonset)),
             of("statefulset", figure.statefulset)), other))

DesiredFigure == [replicaset |-> "kube_replicaset_spec_replicas", deployment |-> "kube_deployment_spec_replicas",
                  daemonset |-> "kube_daemonset_status_desired_number_scheduled",
                  statefulset |-> "kube_statefulset_replicas"]
ReadyFigure == [replicaset |-> "kube_replicaset_status_ready_replicas",
                deployment |-> "kube_deployment_status_replicas_available",
                daemonset |-> "kube_daemonset_status_number_ready",
                statefulset |-> "kube_statefulset_status_replicas_ready"]

labelsByClusterNamespace == Declared(TRUE, DesiredFigure, Some)
count == Count(Declared(TRUE, DesiredFigure, Some))
desiredPods == Declared(TRUE, DesiredFigure, var.workload)
readyPods == Declared(FALSE, ReadyFigure, var.workload)

-----------------------------------------------------------------------------
(* The table of all workloads: the usage of the pods each of them owns, and its *)
(* share of what they requested.  Pods without a dash in their names are left   *)
(* out.                                                                          *)
OfThisName == [workload |-> var.workload] @@ InNamespace
OfOwners(V) == SumBy(ByWorkload, Join("*", ByPod, {}, OwnerOf(OfThisName), V))
OfPod(res) ==
  SumBy(ByPod, MaxBy(ByContainer, Metric(Usage[res], [pod |-> Dashed] @@ Containers @@ InNamespace)))
Share(res, V) == Arith("/", V, OfOwners(SumBy(ByPod, RawRequests(res, [pod |-> Dashed]))))

cpuUsageAvgOverTime == OfOwners(AvgOver(OfPod("cpu")))
cpuUsageAvgPercentOverTime == Share("cpu", cpuUsageAvgOverTime)
cpuUsageMaxOverTime == OfOwners(MaxOver(OfPod("cpu")))
cpuUsageMaxPercentOverTime == Share("cpu", cpuUsageMaxOverTime)
memoryUsageAvgOverTime == OfOwners(AvgOver(OfPod("memory")))
memoryUsageAvgPercentOverTime == Share("memory", memoryUsageAvgOverTime)
memoryUsageMaxOverTime == OfOwners(MaxOver(OfPod("memory")))
memoryUsageMaxPercentOverTime == Share("memory", memoryUsageMaxOverTime)

-----------------------------------------------------------------------------
(* One workload: its pods are the values of $pod. *)
OnNodes == ByContainer \cup {"node"}
PerContainer(ks, name) == MaxBy(ks, Metric(name, [container |-> Some] @@ OfPods))
Here == [pod |-> var.pod] @@ InThisNamespace
MemoryOf(ks) == MaxBy(ks, Metric(RawUsage.memory, Containers @@ Here))

cpuLimits == Sum(PerContainer(OnNodes, Limits.cpu))
cpuRequests == SumBy({"resource"}, PerContainer(OnNodes \cup {"resource"}, Requests.cpu))
cpuUsage == Sum(PerContainer(OnNodes, Usage.cpu))
cpuAllocation == MaxBy({}, Or(cpuRequests, cpuUsage))
memoryLimits == Sum(PerContainer(OnNodes, Limits.memory))
memoryRequests == Sum(PerContainer(OnNodes \cup {"resource"}, Requests.memory))
memoryUsage == Sum(MemoryOf(ByContainer))
memoryAllocation ==
  MaxBy({"namespace"},
    Or(SumBy({"namespace", "resource"},
             Metric("kube_pod_container_resource_requests", [resource |-> {"memory"}] @@ Containers @@ Here)),
       SumBy({"namespace"}, MemoryOf({"namespace", "pod", "container"}))))

podsCount == Count(Metric(Owner, [workload_type |-> var.workloadtype] @@ OfThisName))
images == CountBy({"image_spec"}, Metric("kube_pod_container_info", Here))

(* The figures of its status, summed over whoever tells them. *)
Status(type, name) == Sum(Metric(name, (type :> var.workload) @@ InNamespace))
statefulsetReplicas == Status("statefulset", "kube_statefulset_status_replicas")
statefulsetAvailable == Status("statefulset", "kube_statefulset_status_replicas_available")
statefulsetReady == Status("statefulset", "kube_statefulset_status_replicas_ready")
statefulsetUpdated == Status("statefulset", "kube_statefulset_status_replicas_updated")
deploymentReplicas == Status("deployment", "kube_deployment_status_replicas")
deploymentAvailable == Status("deployment", "kube_deployment_status_replicas_available")
deploymentReady == Status("deployment", "kube_deployment_status_replicas_ready")
deploymentUpdated == Status("deployment", "kube_deployment_status_replicas_updated")
deploymentUnavailable == Status("deployment", "kube_deployment_status_replicas_unavailable")
daemonsetDesired == Status("daemonset", "kube_daemonset_status_desired_number_scheduled")
daemonsetScheduled == Status("daemonset", "kube_daemonset_status_current_number_scheduled")
daemonsetAvailable == Status("daemonset", "kube_daemonset_status_number_available")
daemonsetReady == Status("daemonset", "kube_daemonset_status_number_ready")
daemonsetUpdated == Status("daemonset", "kube_daemonset_status_updated_number_scheduled")
daemonsetUnavailable == Status("daemonset", "kube_daemonset_status_number_unavailable")
daemonsetMisscheduled == Status("daemonset", "kube_daemonset_status_number_misscheduled")
cronjobActive == Status("cronjob", "kube_cronjob_status_active")
jobActive == Status("job_name", "kube_job_status_active")
jobSucceeded == Status("job_name", "kube_job_status_succeeded")
jobFailed == Status("job_name", "kube_job_status_failed")

-----------------------------------------------------------------------------
(* The workloads of a namespace, by all the owners of their pods. *)
ByOwners(V) == SumBy(ByWorkload, Join("*", ByPod, Workload, V, OwnersOf(OfThisName)))
ContainersOf(name) == MaxBy(ByContainer, Metric(name, Containers @@ InNamespace))
\* Faulty: the largest container of a pod stands for the pod.
LargestOf(name) == MaxBy(ByPod, ContainersOf(name))
PodsOf(name) == SumBy(ByPod, ContainersOf(name))
Efficiency(res) ==
  LET all == SumBy(ByPod, MaxBy(ByContainer, Metric(UsageOf5m[res], InNamespace)))
  IN Join("/", ByWorkload, {}, ByOwners(all), ByOwners(ContainersOf(Requests[res])))
Pressure(name) == ByOwners(SumBy(ByPod, Positive(SumBy(ByPod, Metric(name, Containers @@ InNamespace)))))

cpuDistribution == ByOwners(PodsOf(UsageOf5m.cpu))
cpuEfficiency == Efficiency("cpu")
memoryDistribution == ByOwners(PodsOf(UsageOf5m.memory))
memoryEfficiency == Efficiency("memory")
cpuPressureWaiting == Pressure("container_pressure_cpu_waiting_seconds_total")
cpuPressureStalled == Pressure("container_pressure_cpu_stalled_seconds_total")
memoryPressureWaiting == Pressure("container_pressure_memory_waiting_seconds_total")
memoryPressureStalled == Pressure("container_pressure_memory_stalled_seconds_total")
ioPressureWaiting == Pressure("container_pressure_io_waiting_seconds_total")
ioPressureStalled == Pressure("container_pressure_io_stalled_seconds_total")

(* The rows of a table, which are put together by their key. *)
Keyed(V) == LabelJoin("join_key", <<"cluster", "namespace", "workload", "workload_type">>, V)
KeyedBy(name) == Keyed(ByOwners(ContainersOf(name)))
infoJoinKey == Keyed(GroupBy(ByWorkload, Metric(Owner, OfThisName)))
cpuUsageJoinKey == KeyedBy(UsageOf5m.cpu)
cpuRequestsJoinKey == KeyedBy(Requests.cpu)
cpuRequestsPercentJoinKey == Arith("/", cpuUsageJoinKey, cpuRequestsJoinKey)
cpuLimitsJoinKey == KeyedBy(Limits.cpu)
cpuLimitsPercentJoinKey == Arith("/", cpuUsageJoinKey, cpuLimitsJoinKey)
memoryUsageJoinKey == KeyedBy(UsageOf5m.memory)
memoryRequestsJoinKey == KeyedBy(Requests.memory)
memoryRequestsPercentJoinKey == Arith("/", memoryUsageJoinKey, memoryRequestsJoinKey)
memoryLimitsJoinKey == KeyedBy(Limits.memory)
memoryLimitsPercentJoinKey == Arith("/", memoryUsageJoinKey, memoryLimitsJoinKey)

-----------------------------------------------------------------------------
TrafficByPod(name) == SumBy(ByPod, Traffic(name, [pod |-> var.pod]))
networkBandwidthRx == Sum(Traffic(Received, [pod |-> var.pod]))
networkBandwidthTx == Minus(Sum(Traffic(Sent, [pod |-> var.pod])))
networkSaturationRx == Sum(Traffic(ReceivedDropped, [pod |-> var.pod]))
networkSaturationTx == Minus(Sum(Traffic(SentDropped, [pod |-> var.pod])))
networkBandwidthByPodRx == TrafficByPod(Received)
networkBandwidthByPodTx == Minus(TrafficByPod(Sent))
networkSaturationByPodRx == TrafficByPod(ReceivedDropped)
networkSaturationByPodTx == Minus(TrafficByPod(SentDropped))

DiskByWorkload(name) ==
  SumBy(Workload, Join("*", ByPod, Workload, Disk(ByPod, name, InNamespace), OwnerOf(OfThisName)))
throughputRead == DiskByWorkload("container_fs_reads_bytes_total")
throughputWrite == Minus(DiskByWorkload("container_fs_writes_bytes_total"))
iopsRead == DiskByWorkload("container_fs_reads_total")
iopsWrite == Minus(DiskByWorkload("container_fs_writes_total"))

-----------------------------------------------------------------------------
(* The costs of the pods of a workload.  The requests of the memory are summed *)
(* without the namespaces, so that their samples lose them.                     *)
OfOwnersOfType(V) ==
  SumBy(ByWorkload, Join("*", ByPod, {},
                         OwnerOf([workload_type |-> var.workloadtype] @@ OfThisName), SumBy(ByPod, V)))
ByPodNode == ByPod \cup {"node"}
AnyPod == [pod |-> Some]
CostOf(res, requested) ==
  OfOwnersOfType(SumOver(Instants,
    LET held == MaxBy(ByPodNode, Or(SumBy(requested, RawRequests(res, AnyPod)),
                                    SumBy(ByPodNode, UsageOnNode(res, AnyPod))))
    IN SumBy(ByPod, Priced(res, held))))
IdleCost(res) ==
  OfOwnersOfType(SumOver(Instants,
    LET unused == Join("-", ByPodNode, {}, SumBy(ByPodNode, RawRequests(res, AnyPod)),
                                                SumBy(ByPodNode, UsageOnNode(res, AnyPod)))
    IN SumBy(ByPod, Priced(res, unused))))

costsCPUAllocation == CostOf("cpu", ByPodNode \cup {"resource"})
costsMemoryAllocation == CostOf("memory", ByNode \cup {"pod", "resource"})
costsCPUIdle == IdleCost("cpu")
costsMemoryIdle == IdleCost("memory")

search == SumBy({"namespace"} \cup Workload, Metric(Owner, [namespace |-> Some, workload |-> var.searchterm] @@ InCluster))
=============================================================================
