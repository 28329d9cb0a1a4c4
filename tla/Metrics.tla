------------------------------ MODULE Metrics -------------------------------
(***************************************************************************)
(* How the queries of src/utils/utils.queries.ts read their metrics, and  *)
(* the expressions for values of labels that they have in common.          *)
(***************************************************************************)
EXTENDS PromQL, FiniteSets, TLC

CONSTANTS
  objects,  \* the nodes of the clusters, and whatever else is in them
  var,      \* the allowed values of every variable of the page: $cluster, $node, ...
  Some,     \* every value of a label: what =~".+" and !="" match
  Dashed    \* those that =~".+-.+" matches

(* ="$x": a variable with several values matches nothing. *)
Exactly(S) == IF Cardinality(S) = 1 THEN S ELSE {}

(* =~"$node(:[0-9]{2,5})?": the hosts of a set, with or without a port. *)
WithPort(S) == S \cup {n.instance : n \in {m \in objects.nodes : m.host \in S}}

(* 1024 * 1024 * 1024 bytes, as one step of the units of this model. *)
InGiB(q) == Scalar("div", 2, q)

(* Containers other than the sandbox and the control group of the pod, and the *)
(* devices that the expressions for disks match.                                *)
Containers == [container |-> Some \ {"POD"}]
Disks == [device |-> {"sda"}]

(* label_replace(q, "node", "$1", "instance", "([^:]+).*"): the host of the instance. *)
Hosts == [i \in {n.instance : n \in objects.nodes} |-> (CHOOSE n \in objects.nodes : n.instance = i).host]
HostAsNode(q) == LabelPart("node", Hosts, "instance", q)
=============================================================================
