---------------------------- MODULE MCTelemetry -----------------------------
(* Two clusters with nodes of every kind, and pods that have names in common  *)
(* across namespaces and clusters.  The second cluster is never selected.      *)
EXTENDS Telemetry

CONSTANTS r1, r2
Symmetry == Permutations({r1, r2})

Node(c, n, e, i, h, lab) ==
  [cluster |-> c, node |-> n, exporter |-> e, instance |-> i, host |-> h, labelled |-> lab, size |-> 24, used |-> 2]
Pod(c, ns, p, n, w, ty, cs, load) ==
  [cluster |-> c, namespace |-> ns, pod |-> p, node |-> n, workload |-> w, type |-> ty, containers |-> cs,
   claim |-> IF ty = "statefulset" THEN "data" ELSE "", phase |-> "Running", load |-> load, image |-> w,
   uid |-> n, restarts |-> load]
Workload(c, ns, w, ty, d, rs) ==
  [cluster |-> c, namespace |-> ns, workload |-> w, type |-> ty, desired |-> d, replicaset |-> rs]
Claim(c, ns, cl, v, phase) ==
  [cluster |-> c, namespace |-> ns, claim |-> cl, volume |-> v, class |-> "ssd", size |-> 20, used |-> 8, growth |-> 4,
   phase |-> phase]
Alert(g, labels) == [grafana |-> g, l |-> labels @@ [alertname |-> "A", alertstate |-> "firing", severity |-> "s"]]

DB0 == Pod("c1", "a", "db-0", "n2", "db", "statefulset", {"app"}, 4)
MCBeginning ==
  {Pod("c1", "a", "web-1", "n1", "web", "deployment", {"app", "side"}, 1),
   Pod("c1", "a", "web-2", "n3", "web", "deployment", {"app"}, 2), DB0,
   Pod("c1", "b", "web-1", "n2", "web", "deployment", {"app"}, 8),
   Pod("c2", "a", "web-1", "n1", "web", "deployment", {"app"}, 16)}
(* db-0 moves to another node, and a pod of web starts. *)
MCEvents ==
  {[stop |-> {DB0}, start |-> {[DB0 EXCEPT !.node = "n1", !.uid = "n1"]}],
   [stop |-> {}, start |-> {Pod("c1", "a", "web-3", "n1", "web", "deployment", {"app"}, 2)}]}
MCObjects ==
  [nodes |-> {Node("c1", "n1", "node_exporter", "n1:9100", "n1", TRUE), Node("c1", "n2", "kubelet", "n2", "n2", FALSE),
              Node("c1", "n3", "windows", "n3", "n3", TRUE), Node("c2", "n1", "otel", "ip4:1", "ip4", TRUE)},
   namespaces |-> {[cluster |-> q[1], namespace |-> q[2]] : q \in {<<"c1", "a">>, <<"c1", "b">>, <<"c2", "a">>}},
   workloads |-> {Workload("c1", "a", "web", "deployment", 2, "web-rs"), Workload("c1", "a", "db", "statefulset", 1, ""),
                  Workload("c1", "b", "web", "deployment", 1, "web-rs"), Workload("c2", "a", "web", "deployment", 1, "web-rs")},
   claims |-> {Claim("c1", "a", "data", "v1", "Bound"), Claim("c1", "b", "logs", "v2", "Pending"),
               Claim("c2", "a", "data", "v1", "Lost")},
   alerts |-> {Alert(FALSE, [cluster |-> "c1", namespace |-> "a", deployment |-> "web"]),
               Alert(TRUE, [cluster |-> "c1", namespace |-> "a", job_name |-> "mail"]), Alert(FALSE, [cluster |-> "c2"])}]
MCFigures == [cpu |-> 10, memory |-> 6, io |-> 1]
MCDashed == {"web-1", "web-2", "web-3", "db-0"}
MCSome ==
  MCDashed \cup {"c1", "c2", "n1", "n2", "n3", "n1:9100", "ip4:1", "ip4", "a", "b", "web", "db", "web-rs", "app", "side",
    "POD", "data", "logs", "v1", "v2", "ssd", "Running", "Active", "Bound", "Lost", "Pending", "A", "s", "firing",
    "cpu", "memory", "eth0", "sda", "true", "Deployment", "deployment", "statefulset", "mail", "0", "1", "idle",
    "opencost", "kube-state-metrics"}

Route(page, tabs, parameters) ==
  {[page |-> page, tab |-> t] @@ parameters @@ [cluster |-> "c1"] : t \in tabs}
Tabs == {"overview", "cpu", "memory", "network", "storage"}
Lists == UNION {Route(p, {""}, <<>>) : p \in {"NodesPage", "NamespacesPage", "WorkloadsPage", "PodsPage",
                                              "PersistentVolumeClaimsPage"}}
MCRoutes ==
  Lists
  \cup Route("HomePage", {"overview", "alerts", "cost"}, <<>>)
  \cup Route("SearchPage", {""}, [searchterm |-> {"web", "web-1"}])
  \cup Route("NodePage", Tabs, [node |-> "n1"])
  \cup Route("NodePage", {"network"}, [node |-> "n3"])
  \cup Route("NamespacePage", Tabs, [namespace |-> "a"])
  \cup Route("WorkloadPage", Tabs, [namespace |-> "a", type |-> "deployment", workload |-> "web"])
  \cup Route("PodPage", Tabs, [namespace |-> "a", pod |-> "db-0"])
  \cup Route("PersistentVolumeClaimPage", {""}, [namespace |-> "a", pvc |-> "data"])
=============================================================================
