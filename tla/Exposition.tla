----------------------------- MODULE Exposition -----------------------------
(***************************************************************************)
(* What a Prometheus data source knows of some Kubernetes clusters: the   *)
(* metrics that the queries of the application read, with the labels they *)
(* use.  No code of this repository exposes them, they are modelled from  *)
(* the selectors in src/utils/utils.queries.ts: those of the kubelet and  *)
(* of its cAdvisor, of kube-state-metrics, of the node exporters, of      *)
(* OpenCost, and the recording rules of the kubernetes-mixin.             *)
(*                                                                         *)
(* Every replica of Prometheus scrapes on its own and adds its label, so  *)
(* the same series is there once for each of them.                        *)
(***************************************************************************)
EXTENDS Prometheus

LOCAL INSTANCE PromQL

CONSTANTS
  objects,  \* the nodes, the workloads, the claims and the alerts of the clusters
  figures   \* what one unit of load amounts to: [cpu, memory, io]

-----------------------------------------------------------------------------
(* Pods, as the kubelet and as kube-state-metrics see them. *)

PodLabels(p) == [cluster |-> p.cluster, namespace |-> p.namespace, pod |-> p.pod]
ContainersOf(pods) == UNION {{p} \X p.containers : p \in pods}
NodeOf(p) == CHOOSE n \in objects.nodes : n.cluster = p.cluster /\ n.node = p.node

(* The series of a container that the kubelet exports have the label node or *)
(* only the instance they were scraped from; next to the containers of a pod *)
(* there are its sandbox and the control group of the pod as a whole.        *)
CAdvisor(w, of, extra) ==
  {Sample(extra @@ [container |-> c, instance |-> NodeOf(p).instance]
            @@ (IF NodeOf(p).labelled THEN [node |-> p.node] ELSE <<>>) @@ PodLabels(p), p.load * of)
     : <<p, c>> \in ContainersOf(w.kubelet) \cup (w.kubelet \X {"POD"})}
  \cup {Sample(extra @@ [instance |-> NodeOf(p).instance, node |-> p.node] @@ PodLabels(p),
               Cardinality(p.containers) * p.load * of) : p \in w.kubelet}

(* The recording rules take the node of a pod from kube_pod_info. *)
UsageRule(w, of) ==
  {Sample([container |-> c, node |-> p.node] @@ PodLabels(p), p.load * of)
     : <<p, c>> \in {q \in ContainersOf(w.state) \cup (w.state \X {"POD"}) :
          \E k \in w.kubelet : PodLabels(k) = PodLabels(q[1])}}

(* A container requests more than it uses and is limited to more than that. *)
Resources(pods, res, share) ==
  {Sample([container |-> c, node |-> p.node, resource |-> res] @@ PodLabels(p), share * p.load * figures[res])
     : <<p, c>> \in ContainersOf(pods)}
Requested == 2
Limited == 3

Active(w) == {p \in w.state : p.phase = "Running"}

(* namespace_cpu:kube_pod_container_resource_requests:sum and the like *)
NamespaceRule(w, res, share) ==
  Aggregated("sum", LAMBDA l : Pick(l, {"cluster", "namespace"}), Vector(Resources(Active(w), res, share))).s

Interfaces(w, of) ==
  {Sample([interface |-> "eth0", node |-> p.node, instance |-> NodeOf(p).instance] @@ PodLabels(p), p.load * of)
     : p \in {q \in w.kubelet : NodeOf(q).exporter # "windows"}}

(* On Windows the traffic is told by the container and has no name of a pod. *)
WindowsInterfaces(w, of) ==
  {Sample([container_id |-> <<p.cluster, p.namespace, p.pod, c>>, interface |-> "eth0",
           cluster |-> p.cluster, instance |-> NodeOf(p).instance], p.load * of)
     : <<p, c>> \in {q \in ContainersOf(w.kubelet) : NodeOf(q[1]).exporter = "windows"}}

ContainerInfo(w) ==
  {Sample([container |-> c, image_spec |-> p.image, node |-> p.node, instance |-> "kube-state-metrics",
           container_id |-> <<p.cluster, p.namespace, p.pod, c>>] @@ PodLabels(p), 1)
     : <<p, c>> \in ContainersOf(w.state)}

PodInfo(w) ==
  {Sample([node |-> p.node, pod_ip |-> p.pod, uid |-> p.uid] @@ PodLabels(p), 1) : p \in w.state}
Owners(w) ==
  {Sample([workload |-> p.workload, workload_type |-> p.type] @@ PodLabels(p), 1) : p \in w.state}
Phases(w) ==
  {Sample([phase |-> f] @@ PodLabels(p), IF p.phase = f THEN 1 ELSE 0)
     : <<p, f>> \in w.state \X {"Running", "Succeeded"}}
Restarts(w) ==
  {Sample([container |-> c] @@ PodLabels(p), p.restarts)
     : <<p, c>> \in ContainersOf(w.state)}
Namespaces ==
  {Sample([cluster |-> n.cluster, namespace |-> n.namespace, phase |-> "Active"], 1) : n \in objects.namespaces}

-----------------------------------------------------------------------------
(* Workloads, as kube-state-metrics sees them: a Deployment owns its ReplicaSet, *)
(* a ReplicaSet of its own is owned by nobody.                                    *)

NamedBy == [deployment |-> "deployment", statefulset |-> "statefulset", daemonset |-> "daemonset",
            replicaset |-> "replicaset", job |-> "job_name", cronjob |-> "cronjob"]
Named(o, k, name) == (k :> name) @@ [cluster |-> o.cluster, namespace |-> o.namespace]
Ready(w, o) ==
  Cardinality({p \in Active(w) : /\ p.cluster = o.cluster /\ p.namespace = o.namespace
                                 /\ p.workload = o.workload /\ p.type = o.type})

OfType(type) == {o \in objects.workloads : o.type = type}
Desired(type) == {Sample(Named(o, NamedBy[type], o.workload), o.desired) : o \in OfType(type)}
Running(w, type) == {Sample(Named(o, NamedBy[type], o.workload), Ready(w, o)) : o \in OfType(type)}
ReplicaSets(v(_)) ==
  {Sample(Named(o, "replicaset", o.replicaset), v(o)) : o \in OfType("deployment") \cup OfType("replicaset")}
ReplicaSetOwners ==
  {Sample(Named(o, "replicaset", o.replicaset)
            @@ (IF o.type = "deployment"
                THEN [owner_is_controller |-> "true", owner_kind |-> "Deployment", owner_name |-> o.workload]
                ELSE <<>>), 1) : o \in OfType("deployment") \cup OfType("replicaset")}

-----------------------------------------------------------------------------
(* Nodes.  Each runs one kind of exporter; its instance is its host with or    *)
(* without a port, and the host is the name of the node or an address.         *)

NodeLabels(n) == [cluster |-> n.cluster, node |-> n.node]
Capacity ==
  {Sample([resource |-> res] @@ NodeLabels(n), n.size * figures[res])
     : <<n, res>> \in objects.nodes \X {"cpu", "memory"}}
PerNode(v) == {Sample([instance |-> "opencost"] @@ NodeLabels(n), v) : n \in objects.nodes}
Exporter(kinds, extra, v(_)) ==
  {Sample(extra @@ [cluster |-> n.cluster, instance |-> n.instance, node |-> n.node], v(n))
     : n \in {m \in objects.nodes : m.exporter \in kinds}}
OpenTelemetry(pods, extra(_), v(_)) ==
  {Sample(extra(p), v(p)) : p \in {q \in pods : NodeOf(q).exporter = "otel"}}
OtelNode(v(_)) ==
  {Sample([k8s_cluster_name |-> n.cluster, k8s_node_name |-> n.node], v(n))
     : n \in {m \in objects.nodes : m.exporter = "otel"}}

-----------------------------------------------------------------------------
(* Claims.  Only those that a pod has mounted are told of by the kubelet. *)

ClaimLabels(c) == [cluster |-> c.cluster, namespace |-> c.namespace, persistentvolumeclaim |-> c.claim]
Mounts(pods, c) == {p \in pods : p.cluster = c.cluster /\ p.namespace = c.namespace /\ p.claim = c.claim}
VolumeStats(w, v(_)) ==
  {Sample([node |-> p.node, instance |-> NodeOf(p).instance] @@ ClaimLabels(c), v(c))
     : <<c, p>> \in {q \in objects.claims \X w.kubelet : q[2] \in Mounts(w.kubelet, q[1])}}
Claims(extra(_), v(_)) == {Sample(extra(c) @@ ClaimLabels(c), v(c)) : c \in objects.claims}
ClaimsOfPods(w) ==
  {Sample([volume |-> "data", persistentvolumeclaim |-> p.claim] @@ PodLabels(p), 1)
     : p \in {q \in w.state : q.claim # ""}}

-----------------------------------------------------------------------------
(* Every metric by its name, of the data w of a replica at instant t.         *)

Metrics(names, S) == [name \in names |-> S]

UsedBytes(c, t) == c.used + t * c.growth
ClaimMetrics(t, w) ==
     Metrics({"kube_persistentvolumeclaim_info"},
       Claims(LAMBDA c : [storageclass |-> c.class, volumename |-> c.volume], LAMBDA c : 1))
  @@ Metrics({"kube_persistentvolumeclaim_status_phase"},
       UNION {Claims(LAMBDA c : [phase |-> f], LAMBDA c : IF c.phase = f THEN 1 ELSE 0)
                : f \in {"Bound", "Pending", "Lost"}})
  @@ Metrics({"kube_persistentvolumeclaim_resource_requests_storage_bytes"},
       Claims(LAMBDA c : <<>>, LAMBDA c : c.size))
  @@ Metrics({"kube_pod_spec_volumes_persistentvolumeclaims_info"}, ClaimsOfPods(w))
  @@ Metrics({"kubelet_volume_stats_capacity_bytes", "kubelet_volume_stats_inodes"},
       VolumeStats(w, LAMBDA c : c.size))
  @@ Metrics({"kubelet_volume_stats_used_bytes", "kubelet_volume_stats_inodes_used"},
       VolumeStats(w, LAMBDA c : UsedBytes(c, t)))
  @@ Metrics({"kubelet_volume_stats_available_bytes"}, VolumeStats(w, LAMBDA c : c.size - UsedBytes(c, t)))
  @@ Metrics({"pv_hourly_cost"},
       {Sample([cluster |-> c.cluster, persistentvolume |-> c.volume], 2) : c \in objects.claims})
  @@ Metrics({"pod_pvc_allocation"},
       {Sample([pod |-> p.pod, persistentvolume |-> c.volume] @@ ClaimLabels(c), c.size)
          : <<c, p>> \in {q \in objects.claims \X w.state : q[2] \in Mounts(w.state, q[1])}})

NodeMetrics(w) ==
     Metrics({"kube_node_info"}, {Sample(NodeLabels(n), 1) : n \in objects.nodes})
  @@ Metrics({"kube_node_status_capacity"}, Capacity)
  @@ Metrics({"kubelet_running_pods"},
       Exporter({"node_exporter", "kubelet", "otel", "windows"}, <<>>,
         LAMBDA n : Cardinality({p \in w.kubelet : NodeOf(p) = n})))
  @@ Metrics({"node_cpu_hourly_cost", "node_ram_hourly_cost", "node_gpu_hourly_cost", "node_gpu_count"},
       PerNode(2))
  @@ Metrics({"node_total_hourly_cost"}, PerNode(3))
  @@ Metrics({"node_cpu_seconds_total"},
       UNION {Exporter({"node_exporter"}, [cpu |-> c, mode |-> "idle"],
         LAMBDA n : One - n.used * figures.cpu) : c \in {"0", "1"}})
  @@ Metrics({"node_cpu_usage_seconds_total"}, Exporter({"kubelet"}, <<>>, LAMBDA n : n.used * figures.cpu))
  @@ Metrics({"k8s_node_cpu_usage", "k8s_node_cpu_time_seconds_total"},
       OtelNode(LAMBDA n : n.used * figures.cpu))
  @@ Metrics({"node_memory_Active_file_bytes", "node_memory_AnonPages_bytes",
               "node_memory_MemAvailable_bytes"},
       Exporter({"node_exporter"}, <<>>, LAMBDA n : n.used * figures.memory))
  @@ Metrics({"node_memory_working_set_bytes"},
       Exporter({"kubelet"}, <<>>, LAMBDA n : n.used * figures.memory))
  @@ Metrics({"windows_memory_available_bytes"},
       Exporter({"windows"}, <<>>, LAMBDA n : n.used * figures.memory))
  @@ Metrics({"node_network_receive_bytes_total", "node_network_transmit_bytes_total",
               "node_network_receive_drop_total", "node_network_transmit_drop_total"},
       Exporter({"node_exporter"}, [device |-> "eth0"], LAMBDA n : n.used * figures.io))
  @@ Metrics({"windows_net_bytes_received_total", "windows_net_bytes_sent_total"},
       Exporter({"windows"}, [device |-> "eth0"], LAMBDA n : n.used * figures.io))

WorkloadMetrics(w) ==
     Metrics({"kube_namespace_status_phase"}, Namespaces)
  @@ Metrics({"kube_replicaset_spec_replicas"}, ReplicaSets(LAMBDA o : o.desired))
  @@ Metrics({"kube_replicaset_status_ready_replicas"}, ReplicaSets(LAMBDA o : Ready(w, o)))
  @@ Metrics({"kube_replicaset_owner"}, ReplicaSetOwners)
  @@ Metrics({"kube_deployment_spec_replicas", "kube_deployment_status_replicas"}, Desired("deployment"))
  @@ Metrics({"kube_deployment_status_replicas_available", "kube_deployment_status_replicas_ready",
               "kube_deployment_status_replicas_updated", "kube_deployment_status_replicas_unavailable"},
       Running(w, "deployment"))
  @@ Metrics({"kube_statefulset_replicas", "kube_statefulset_status_replicas"}, Desired("statefulset"))
  @@ Metrics({"kube_statefulset_status_replicas_available", "kube_statefulset_status_replicas_ready",
               "kube_statefulset_status_replicas_updated"},
       Running(w, "statefulset"))
  @@ Metrics({"kube_daemonset_status_desired_number_scheduled",
               "kube_daemonset_status_current_number_scheduled"},
       Desired("daemonset"))
  @@ Metrics({"kube_daemonset_status_number_available", "kube_daemonset_status_number_ready",
               "kube_daemonset_status_updated_number_scheduled",
               "kube_daemonset_status_number_unavailable", "kube_daemonset_status_number_misscheduled"},
       Running(w, "daemonset"))
  @@ Metrics({"kube_cronjob_status_active"}, Running(w, "cronjob"))
  @@ Metrics({"kube_job_status_active", "kube_job_status_succeeded", "kube_job_status_failed"},
       Running(w, "job"))
  @@ Metrics({"ALERTS"}, {Sample(a.l, 1) : a \in {b \in objects.alerts : ~b.grafana}})
  @@ Metrics({"GRAFANA_ALERTS"}, {Sample(a.l, 1) : a \in {b \in objects.alerts : b.grafana}})

PodMetrics(w) ==
     Metrics({"container_cpu_usage_seconds_total"}, CAdvisor(w, figures.cpu, <<>>))
  @@ Metrics({"container_memory_working_set_bytes"}, CAdvisor(w, figures.memory, <<>>))
  @@ Metrics({"container_fs_reads_bytes_total", "container_fs_writes_bytes_total",
               "container_fs_reads_total", "container_fs_writes_total"},
       CAdvisor(w, figures.io, [device |-> "sda"]))
  @@ Metrics({"container_pressure_cpu_waiting_seconds_total",
               "container_pressure_cpu_stalled_seconds_total"},
       CAdvisor(w, figures.cpu, <<>>))
  @@ Metrics({"container_pressure_memory_waiting_seconds_total",
               "container_pressure_memory_stalled_seconds_total"},
       CAdvisor(w, figures.memory, <<>>))
  @@ Metrics({"container_pressure_io_waiting_seconds_total",
               "container_pressure_io_stalled_seconds_total"},
       CAdvisor(w, figures.io, <<>>))
  @@ Metrics({"node_namespace_pod_container:container_cpu_usage_seconds_total:sum_irate",
               "node_namespace_pod_container:container_cpu_usage_seconds_total:sum_rate5m"},
       UsageRule(w, figures.cpu))
  @@ Metrics({"node_namespace_pod_container:container_memory_working_set_bytes"},
       UsageRule(w, figures.memory))
  @@ Metrics({"kube_pod_container_resource_requests"},
       Resources(w.state, "cpu", Requested) \cup Resources(w.state, "memory", Requested))
  @@ Metrics({"cluster:namespace:pod_cpu:active:kube_pod_container_resource_requests"},
       Resources(Active(w), "cpu", Requested))
  @@ Metrics({"cluster:namespace:pod_cpu:active:kube_pod_container_resource_limits"},
       Resources(Active(w), "cpu", Limited))
  @@ Metrics({"cluster:namespace:pod_memory:active:kube_pod_container_resource_requests"},
       Resources(Active(w), "memory", Requested))
  @@ Metrics({"cluster:namespace:pod_memory:active:kube_pod_container_resource_limits"},
       Resources(Active(w), "memory", Limited))
  @@ Metrics({"namespace_cpu:kube_pod_container_resource_requests:sum"}, NamespaceRule(w, "cpu", Requested))
  @@ Metrics({"namespace_cpu:kube_pod_container_resource_limits:sum"}, NamespaceRule(w, "cpu", Limited))
  @@ Metrics({"namespace_memory:kube_pod_container_resource_requests:sum"},
       NamespaceRule(w, "memory", Requested))
  @@ Metrics({"namespace_memory:kube_pod_container_resource_limits:sum"},
       NamespaceRule(w, "memory", Limited))
  @@ Metrics({"container_network_receive_bytes_total", "container_network_transmit_bytes_total",
               "container_network_receive_packets_dropped_total",
               "container_network_transmit_packets_dropped_total"},
       Interfaces(w, figures.io))
  @@ Metrics({"windows_container_network_receive_bytes_total",
               "windows_container_network_transmit_bytes_total",
               "windows_container_network_receive_packets_dropped_total",
               "windows_container_network_transmit_packets_dropped_total"},
       WindowsInterfaces(w, figures.io))
  @@ Metrics({"k8s_container_cpu_limit"},
       OpenTelemetry(w.state,
         LAMBDA p : [k8s_cluster_name |-> p.cluster, k8s_namespace_name |-> p.namespace,
       k8s_node_name |-> p.node, k8s_pod_name |-> p.pod],
         LAMBDA p : Limited * p.load * figures.cpu))
  @@ Metrics({"kube_pod_info"}, PodInfo(w))
  @@ Metrics({"kube_pod_status_phase"}, Phases(w))
  @@ Metrics({"kube_pod_container_info"}, ContainerInfo(w))
  @@ Metrics({"kube_pod_container_status_restarts_total"}, Restarts(w))
  @@ Metrics({"namespace_workload_pod:kube_pod_owner:relabel"}, Owners(w))

(* What every replica r has recorded at instant t, of what it scraped last:  *)
(* the pods the kubelets told it of, and those kube-state-metrics did.        *)
MetricsOf(t, w) == PodMetrics(w) @@ WorkloadMetrics(w) @@ NodeMetrics(w) @@ ClaimMetrics(t, w)
Recorded(t, scraped) ==
  LET of == [r \in DOMAIN scraped |-> MetricsOf(t, scraped[r])]
  IN [name \in UNION {DOMAIN of[r] : r \in DOMAIN of} |->
        UNION {{Sample(("replica" :> r) @@ x.l, x.v) : x \in of[r][name]} : r \in DOMAIN of}]
=============================================================================
