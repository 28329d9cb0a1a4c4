----------------------------- MODULE QueryParts -----------------------------
(***************************************************************************)
(* What the queries of src/utils/utils.queries.ts have in common: the      *)
(* labels they group by, the families of metrics they read by resource,    *)
(* and the expressions that several of them are built from.  The file      *)
(* writes each of them out wherever it is used.                            *)
(*                                                                         *)
(* Here and in the modules of the queries a definition after the word     *)
(* "Faulty" is a variant of the next one that no page uses: it is there   *)
(* to see a property fail.                                                 *)
(***************************************************************************)
EXTENDS Metrics

ByNode == {"cluster", "node"}
ByInstance == {"cluster", "instance"}
ByNamespace == {"cluster", "namespace"}
ByPod == {"cluster", "namespace", "pod"}
ByContainer == ByPod \cup {"container"}
ByWorkload == {"cluster", "namespace", "workload", "workload_type"}
Workload == {"workload", "workload_type"}

InCluster == [cluster |-> var.cluster]
InNamespace == [namespace |-> var.namespace] @@ InCluster
InThisNamespace == [namespace |-> Exactly(var.namespace)] @@ InCluster
OfPods == [pod |-> var.pod] @@ InNamespace

(* The metrics of a resource. *)
Usage == [cpu |-> "node_namespace_pod_container:container_cpu_usage_seconds_total:sum_irate",
          memory |-> "node_namespace_pod_container:container_memory_working_set_bytes"]
UsageOf5m == [Usage EXCEPT !.cpu = "node_namespace_pod_container:container_cpu_usage_seconds_total:sum_rate5m"]
RawUsage == [cpu |-> "container_cpu_usage_seconds_total", memory |-> "container_memory_working_set_bytes"]
Requests == [cpu |-> "cluster:namespace:pod_cpu:active:kube_pod_container_resource_requests",
             memory |-> "cluster:namespace:pod_memory:active:kube_pod_container_resource_requests"]
Limits == [cpu |-> "cluster:namespace:pod_cpu:active:kube_pod_container_resource_limits",
           memory |-> "cluster:namespace:pod_memory:active:kube_pod_container_resource_limits"]
NamespaceRequests == [cpu |-> "namespace_cpu:kube_pod_container_resource_requests:sum",
                      memory |-> "namespace_memory:kube_pod_container_resource_requests:sum"]
NamespaceLimits == [cpu |-> "namespace_cpu:kube_pod_container_resource_limits:sum",
                    memory |-> "namespace_memory:kube_pod_container_resource_limits:sum"]
HourlyPrice == [cpu |-> "node_cpu_hourly_cost", memory |-> "node_ram_hourly_cost"]

Owner == "namespace_workload_pod:kube_pod_owner:relabel"
Received == "container_network_receive_bytes_total"
Sent == "container_network_transmit_bytes_total"
ReceivedDropped == "container_network_receive_packets_dropped_total"
SentDropped == "container_network_transmit_packets_dropped_total"

-----------------------------------------------------------------------------
(* Nodes. *)

CapacityOf(res, sel) ==
  MaxBy(ByNode \cup {"resource"}, Metric("kube_node_status_capacity", [resource |-> {res}] @@ sel @@ InCluster))

(* The usage of the nodes by the exporter they have: the cores of the node    *)
(* exporter that are not idle, the kubelet, or else OpenTelemetry.            *)
OfOpenTelemetry(V) == LabelCopy("instance", "k8s_node_name", LabelCopy("cluster", "k8s_cluster_name", V))
NodeCPU(sel, otel) ==
  LabelCopy("node", "instance",
    Or(Or(SumBy(ByInstance, MaxBy(ByInstance \cup {"cpu", "core"},
            NotNegative(Scalar("of", One,
                            Metric("node_cpu_seconds_total", [mode |-> {"idle"}] @@ sel @@ InCluster))))),
          SumBy(ByInstance, NotNegative(Metric("node_cpu_usage_seconds_total", sel @@ InCluster)))),
       SumBy(ByInstance, OfOpenTelemetry(otel))))

NodeMemory(sel) ==
  LET by(name) == MaxBy(ByInstance, Metric(name, sel @@ InCluster))
  IN LabelCopy("node", "instance",
       Or(Join("+", ByInstance, {}, by("node_memory_Active_file_bytes"), by("node_memory_AnonPages_bytes")),
          by("node_memory_working_set_bytes")))

AvailableMemory(sel) ==
  MaxBy(ByNode, HostAsNode(Or(Metric("windows_memory_available_bytes", sel @@ InCluster),
                              Metric("node_memory_MemAvailable_bytes", sel @@ InCluster))))

-----------------------------------------------------------------------------
(* Costs: the memory in GiB, by the hourly price of the node. *)

InUnits(res, V) == IF res = "memory" THEN InGiB(V) ELSE V
PriceOf(res, sel) == MaxBy(ByNode, Metric(HourlyPrice[res], sel @@ InCluster))
Priced(res, V) == Join("*", ByNode, {}, InUnits(res, V), PriceOf(res, <<>>))

(* The usage as cAdvisor tells it, with the node taken from the instance where *)
(* the series have none.                                                        *)
UsageOnNode(res, sel) ==
  LET raw(nodes) == Metric(RawUsage[res], [node |-> nodes] @@ sel @@ Containers @@ InNamespace)
  IN Or(raw(Some), HostAsNode(raw({""})))
RawRequests(res, sel) ==
  Metric("kube_pod_container_resource_requests", [resource |-> {res}] @@ sel @@ Containers @@ InNamespace)

-----------------------------------------------------------------------------
(* The workload of every pod: all that own it, or one of them. *)

\* Faulty: the owners are not put together before they are joined.
OwnersAsTheyAre(sel) == Metric(Owner, sel @@ InCluster)
OwnersOf(sel) == GroupBy(ByPod \cup Workload, Metric(Owner, sel @@ InCluster))
OwnerOf(sel) == TopOneBy(ByPod, OwnersOf(sel))

(* Traffic and disks. *)
Traffic(name, sel) == MaxBy(ByPod \cup {"interface"}, Metric(name, sel @@ InThisNamespace))
Disk(ks, name, sel) == SumBy(ks, Metric(name, sel @@ Containers @@ Disks @@ InCluster))

=============================================================================
