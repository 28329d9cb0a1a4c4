------------------------------ MODULE Rendering ------------------------------
(***************************************************************************)
(* What the components of src/components/shared make of the answers to    *)
(* the queries of a panel: the lines of a chart, or the rows of a table   *)
(* as its only line.                                                       *)
(***************************************************************************)
EXTENDS Prometheus

(* Tables.  A row has the labels of the samples that were put together, and *)
(* the value of each query that had one.  Grafana puts the samples of all    *)
(* queries together that have the same values for the labels all of them     *)
(* have; when a query has several samples for these, there are several rows. *)

Row(l, v) == [l |-> l, v |-> v]
Rows(frames, rows) == [ok |-> \A f \in DOMAIN frames : frames[f].ok, s |-> rows]
Merge(frames) ==
  LET fields(f) == UNION {DOMAIN x.l : x \in frames[f].s}
      full == {f \in DOMAIN frames : frames[f].s # {}}
      common == {k \in UNION {fields(f) : f \in full} : \A f \in full : k \in fields(f)}
      key(x) == [k \in common |-> Label(x, k)]
      keys == {key(x) : x \in UNION {frames[f].s : f \in full}}
      add(f, rows, g) ==
        LET here == {x \in frames[f].s : key(x) = g}
        IN IF here = {} THEN rows ELSE {Row(r.l @@ x.l, (f :> x.v) @@ r.v) : r \in rows, x \in here}
  IN UNION {FoldSet(LAMBDA f, rows : add(f, rows, g), {Row(<<>>, <<>>)}, full) : g \in keys}

(* The columns of a table, and one that is computed from two others. *)
Columns(labels, values, rows) == {Row(Pick(r.l, labels), Pick(r.v, values)) : r \in rows}
Computed(name, fn, a, b, rows) ==
  {IF {a, b} \subseteq DOMAIN r.v THEN [r EXCEPT !.v = (name :> Applied(fn, r.v[a], r.v[b])) @@ @] ELSE r : r \in rows}

UsageColumns == {"info_namespace", "cpu_usage_avg", "cpu_usage_avg_percent", "cpu_usage_max", "cpu_usage_max_percent",
                 "memory_usage_avg", "memory_usage_avg_percent", "memory_usage_max", "memory_usage_max_percent", "ready"}
ObjectColumns == {"node", "namespace", "workload", "workload_type", "pod"}
TableResourceUsage(frames) ==
  LET named == IF "info_container" \in DOMAIN frames THEN {"container"} ELSE ObjectColumns
      rows == Computed("ready", "/", "ready_pods", "desired_pods", Merge(frames))
  IN [rows |-> Rows(frames, Columns(named \cup {"phase", "image_spec"}, UsageColumns, rows))]

(* The rows are put together by their join_key, and named by the first query; *)
(* of several samples with the same key the last is taken.                     *)
TableMemoryOrCPUUsage(frames) ==
  LET named == IF "info_container" \in DOMAIN frames THEN {"container"} ELSE ObjectColumns
      first == IF "info_container" \in DOMAIN frames THEN "info_container" ELSE "info"
      having(f, g) == {x \in frames[f].s : x.l.join_key = g}
      keys == {x.l.join_key : x \in UNION {frames[f].s : f \in DOMAIN frames}}
      row(g) == Row(IF having(first, g) = {} THEN <<>> ELSE Pick((CHOOSE x \in having(first, g) : TRUE).l, named),
                    [f \in {h \in DOMAIN frames \ {first} : having(h, g) # {}} |->
                       (CHOOSE x \in having(f, g) : TRUE).v])
  IN [rows |-> Rows(frames, {row(g) : g \in keys})]

TableCosts(frames) ==
  LET allocation == Computed("allocation", "+", "cpu_allocation", "memory_allocation", Merge(frames))
      rows == Computed("idle", "+", "cpu_idle", "memory_idle", allocation)
  IN [rows |-> Rows(frames, Columns(ObjectColumns \cup {"container"}, DOMAIN frames \cup {"allocation", "idle"}, rows))]
TableCostsTop(frames) ==
  LET rows == Computed("allocation", "+", "cpu_allocation", "memory_allocation", Merge(frames))
  IN [rows |-> Rows(frames, Columns({"namespace", "workload", "workload_type"}, {"allocation"}, rows))]

TablePersistentVolumeClaimsUsage(frames) ==
  [rows |-> Rows(frames, Columns({"namespace", "persistentvolumeclaim", "storageclass", "volumename"},
                                 DOMAIN frames \ {"info"}, Merge(frames)))]

(* The rows of an instant query on its own. *)
Table(frames) == [rows |-> [frames.value EXCEPT !.s = {Row(x.l, [value |-> x.v]) : x \in @}]]

-----------------------------------------------------------------------------
(* A panel, as its component shows it when the queries are answered from db. *)
Answers(db, queries) == [q \in DOMAIN queries |-> Value(db, queries[q])]
Rendered(component, frames) ==
  CASE component = "lines" -> frames
    [] component = "Table" -> Table(frames)
    [] component = "TableResourceUsage" -> TableResourceUsage(frames)
    [] component = "TableMemoryOrCPUUsage" -> TableMemoryOrCPUUsage(frames)
    [] component = "TableCosts" -> TableCosts(frames)
    [] component = "TableCostsTop" -> TableCostsTop(frames)
    [] component = "TablePersistentVolumeClaimsUsage" -> TablePersistentVolumeClaimsUsage(frames)
Displayed(db, panels) ==
  [p \in DOMAIN panels |->
     CHOOSE shown \in {Rendered(panels[p].component, frames) : frames \in {Answers(db, panels[p].queries)}} : TRUE]
=============================================================================
