# Verification of the Grafana Kubernetes plugin

TLA+ models of the Grafana Kubernetes plugin: its concurrent and stateful parts,
and what the pages of its application ask of Prometheus; the TLC runs that check
them on small instances, and theorems about eight of the models that the TLAPS
proof system checks for every value of the constants. `PROJECT.json` lists
components, runs, hazards, findings and theorems, and maps every definition to
the lines of `src/` it models.

Paths below are relative to `src/`.

1. [The system](#1-the-system) 2. [The modules](#2-the-modules) 3. [Runs, bounds and
fairness](#3-runs-bounds-and-fairness) 4. [What is proved](#4-what-is-proved) 5.
[Disagreements between code and
documentation](#5-disagreements-between-code-and-documentation) 6. [What is not
modelled](#6-what-is-not-modelled) 7. [Plan](#7-plan) 8. [Running it](#8-running-it)

## 1. The system

The plugin has a Go back end (`pkg/`), one process that holds an *instance* for
every configured data source; a TypeScript front end (`src/`); and a plugin for
kubectl (`cmd/kubectl-grafana`) that runs on the machine of a user.

```
 browser                             Grafana              plugin process              cluster
 panels, menus, dialogs ──queries──▶ HTTP   ──QueryData─▶ Datasource ─┬─ client ─────▶ API server
   │        live channels ─────────▶ Live   ──RunStream─▶             │   └ cache
   │        row actions ───────────▶ proxy  ──resource──▶             ├─ server (port, kubectl traffic)
   │                                                                  ├─ helm client ─▶
   └─ tab of /kubectl ──redirect──▶ localhost:11716                   └─ grafana client ──▶ Grafana API
                                     kubectl grafana credentials / kubeconfig (cache files, kubeconfig)
```

| Component | State it keeps | Operations | What is hard | When it is correct |
|---|---|---|---|---|
| **Resource cache and discovery** (`pkg/kubernetes/cache.go`, `resources.go`, `refreshCache`) | the map of resource ids, its time stamp, a read-write lock | `IsValid`, `SetAll`, `Get`, `GetDataFrameValues`, `getResources` | `IsValid` reads without the lock; several queries refresh at once; a discovery may fail in part and its error is dropped | a query is answered from one whole catalog, no older than the TTL; refreshing never blocks; a failed discovery does not stay |
| **Kubernetes server and instances** (`pkg/kubernetes/server.go`, `NewDatasource`, `Dispose` in `pkg/plugin/datasource.go`) | the goroutine that calls `Start`, the listener, open connections | create, start, retry, stop, dispose | the old instance has the port while the new one starts; `Shutdown` may fall between any two steps of `ListenAndServe`; connections that never end, or are upgraded and leave the server | one instance serves the port; none takes a connection after it was stopped; the newest gets it; no goroutine leaks |
| **Resource queries** (`GetResources`, `getResourcesByJSONPath`, `createResourcesDataFrame`) | per query: tables, JSONPath names, errors under one mutex | one goroutine per namespace and label selector | answers in any order; requests that overlap; two requests for one filter see different clusters; some requests fail, an answer cannot be decoded | the table shows only what was there, misses nothing that was, no object twice; a request that fails does not hide the others |
| **Log queries** (`GetLogs`) | per query: the open streams under a mutex | one goroutine per pod, then all streams are read | streams that cannot be opened, break, or have a line that is too long; range, tail and filter are applied in different places | rows are wanted lines of the right pod in order, nothing is missing, all streams are closed |
| **Live logs** (`SubscribeStream`, `RunStream`, `StreamLogs`, the channel of `src/datasource/datasource.ts`) | one run per channel with a goroutine per pod | subscribe, unsubscribe, cancel, stream | viewers share a run; cancellation races with scanned lines; some streams fail | what is sent is the beginning of each log; it stops soon after a cancellation and ends |
| **Row actions** (`src/datasource/transformations/kubernetes.tsx`, `src/datasource/components/**/Actions.tsx` and their dialogs) | per row: the open dialog; per dialog: input, loading, the loaded manifest | 18 dialogs of up to four requests each | several calls at once; the table is refreshed under a dialog; others change the object, and the lists in it; a request fails or its answer is lost | a success means that the named object was changed; no dialog is confirmed twice while it runs; Edit keeps the fields that others changed |
| **kubectl plugin** (`cmd/kubectl-grafana`, `src/components/kubectl/KubectlPage.tsx`, kubeconfig handlers of `pkg/plugin/kubernetes.go`) | per process: a server on a fixed port, a variable; on disk: cache files, the kubeconfig | `credentials`, `kubeconfig`, redirect, handler, timeout | several processes, one port; a second redirect; a crash while a file is written; errors that are dropped | a command prints credentials for what it was asked; a broken file is not taken for credentials; a kubeconfig stays whole and keeps its names, unless something comes between reading and writing it |
| Single resources, containers, namespaces (`GetResource`, `GetContainers`, `GetNamespaces`) | none | single requests | containers are taken from the first pod for all pods | the lookup of an id is part of `ResourceCache` |
| Proxy (`client.Proxy`, `handleKubernetesProxy`) | none | copies a request and its answer | – | – |
| Query and resource handlers (`pkg/plugin`, `pkg/models`) | none | decode, check, call, encode | which error gets which status | – |
| **Grafana identity and user tokens** (`pkg/grafana/client.go`) | expiring caches of users, service accounts and groups; in Grafana: service accounts and tokens | `GetImpersonateUser`, `GetImpersonateGroups`, `CreateUserToken` | a slow fetch overtaken by a later one; groups looked up by a login that may be stale or somebody else's by now; find-or-create of an account; only the first page of a search is read | a request runs under a name that its user had not long ago, with groups of that name; a token acts under a name of the user that asked for it; what Grafana refuses has a reason |
| **Application pages** (`src/utils/utils.queries.ts`, `src/components/**`) | the values of the variables of a page | 287 queries, panels and tables, tabs, variables with options from Prometheus | joins that fail or multiply samples; several replicas of Prometheus; jobs scraped at different times; the same name in two namespaces or clusters | a panel shows no error, only its own object, everything once; its parts add up; a table has one row per object |
| Helm client (`pkg/helm`) | none of its own; releases in the cluster | list, get, history, rollback, uninstall | a timeout of its own, not tied to the request | a reported failure means that nothing is still going on |
| Data source in the browser (`src/datasource/datasource.ts`, `variablesupport.ts`) | none | translate a query, name a channel | the channel does not name the filter | – |
| Editors, details of a resource | fields of forms | write a field; show a manifest | – | – |
| Tests, provisioning, build | – | – | – | – |

**Interactions.** Dashboards and dialogs ask the data source through Grafana's
proxy. Every operation that resolves a resource id goes through the cache
(`ResourceCache`), so `ResourceQuery`, `LogQuery` and `RowActions` start where
it ends: with a resource that was found. Dialogs look the resource up first
(step *lookup* of `RowActions`), then go through the proxy. The two commands of
the kubectl plugin reach the handlers by way of a browser tab; what they write
into a kubeconfig makes kubectl talk to the server of `KubeServer`. A change of
the settings replaces the instance, with its cache, server and clients. A
handler that impersonates, and the one that creates a token for a kubeconfig,
ask `GrafanaIdentity` first; a refusal there is a failed request in the models
of the callers. The pages of the application do not use the back end for their
panels: their queries go to the Prometheus data source of the cluster that is
selected.

The hard behaviours are listed line by line under `hazards` in `PROJECT.json`.

## 2. The modules

| Module | Kind | What it models |
|---|---|---|
| `ResourceLookup` | abstract specification | what the client promises to a query that resolves an id |
| `ResourceCache` | component | cache and refresh, step by step |
| `ResourceCacheProofs` | proofs | theorems about `ResourceCache` |
| `PortOwner` | abstract specification | who may accept connections on the port |
| `KubeServer` | component | instances, `Start` / `Stop`, net/http |
| `KubeServerProofs` | proofs | theorems about `KubeServer` |
| `ResourceQuery` | component | `GetResources` and the table it makes |
| `LogQuery` | component | `GetLogs` |
| `LiveLogs` | component | a channel, its viewers and its run |
| `ResourceActions` | operators | menus, paths and effects of the dialogs |
| `RowActions` | component, composes `ResourceActions` | the menu of a row and its calls |
| `KubectlPlugin` | component | commands, tabs, handlers, files |
| `GrafanaIdentity` | component | caches of users, accounts and groups; tokens |
| `ResourceQueryProofs`, `LogQueryProofs`, `LiveLogsProofs`, `RowActionsProofs`, `KubectlPluginProofs`, `GrafanaIdentityProofs` | proofs | theorems about each |
| `PromQL`, `Prometheus` | operators, external | the expressions that the queries use; how Prometheus evaluates them |
| `Exposition` | operators, external | which samples clusters, nodes and pods expose |
| `Metrics`, `QueryParts` | operators | how the queries read metrics; what several queries have in common |
| `ClusterQueries`, `NodeQueries`, `NamespaceQueries`, `WorkloadQueries`, `PodQueries`, `ContainerQueries`, `VolumeQueries` | operators | every query of `utils.queries.ts`, one definition each |
| `Panels` | operators | the panels of every page and tab, with their queries |
| `Rendering` | operators | how a table or a chart merges the answers to its queries |
| `Pages` | operators | the variables of every page, and its tabs |
| `Telemetry` | component, composes the ten before | replicas of Prometheus that scrape pods which change, and an open page |
| `MC…` | instances | sets and functions that a `.cfg` cannot spell |

Conventions. A variable marked *history* is read by properties only. A
definition after the comment `\* Faulty` is a variant of the next one that no
specification uses: it is the plausible bug (a dropped guard, a missing reset)
that the property named in `PROJECT.json` catches. `Max…` constants bound
counters that the program does not bound; they are in the guards of the actions
of the environment, never in a guard of the code's own steps.

### ResourceCache

A query is `Ask`, then `ReadField` twice in either order (the two unlocked reads
of `IsValid`), and, if one of them says invalid, `Discover`, `Lock`,
`WriteField` twice, `Unlock` (`SetAll`), then `Get` under the read lock. The two
writes are separate actions, so that `IsValid` of another query falls between
them. A read that races with a write returns the old or the new value: on the
64-bit targets the plugin is built for, the map is one word, and a comparison of
two times with monotonic readings looks at one word. `Discovered` is what
`getResources` may hand over: everything, or, with an error that is dropped, any
part of it. `NewClient` starts from such a result as well. `GoesOn` and
`SetAllGoesOn` say where a query can go on: everywhere but at the lock.

### KubeServer

Each instance has a goroutine (`loop`) and a call of `Stop` (`stop`). Start is
divided where net/http releases its mutex: the check of `inShutdown`, binding
the port, registering the listener (`Track`, which looks at `inShutdown` again),
`Serve`, and its deferred calls. `Shutdown` is: set the flag, close the
registered listeners, wait for `Serve`, wait for the connections at most a
second. A listener that is bound but not registered is not closed by `Shutdown`;
that is why `Track` looks again. A connection that is accepted becomes known to the
server in a step of its own (`Register`); the proxy hijacks it for `kubectl exec` and
port-forward (`Upgrade`), and from then on `Shutdown` neither waits for it nor closes
it: `sessions` are open connections that `Drained` does not count. `CanServe` and
`CanStop` say where the goroutine and `Stop` wait for nothing; only `NobodyIsStuck`
uses them, a hypothesis of section 4.

### ResourceQuery

`Requests` are the pairs of a namespace and a label selector. `List`, `ListGarbled`
(the request succeeds, its answer is no table), `ListJSONPath`, `Fail` and `Collect`
are the steps of a goroutine, which ends at the place `done` or, after an error,
`failed`; `Return` is the end of `GetResources` with `DataFrame`, which is
`createResourcesDataFrame`: filter the rows, make them unique by the first cells. A
table is a set of objects, which the API server lists in the order `Order`; a row is
an object and the number of its table, so that `Before` says which of two rows comes
first in the concatenation, and `Unique` keeps the rows that none with the same key
precedes. An answer that cannot be decoded makes `createResourcesDataFrame` return
an error, and fails the query whatever else has come (`Undecodable`). `Wanted` is
the reference for what a user asked for, said of one object. `stable` and `ever`
relate the answer to a cluster that changes during the query.

### LogQuery

`GetPods` lists the pods, `Open` and `AppendStream` are the goroutine of one,
`Compile`, `ReadLine`, `EndOfStream` and `Return` what follows `Wait`. Lines have
a time, and a text that matches, does not match, cannot be parsed or is too long
for the scanner. The API server applies `sinceTime` and `tailLines`: `Delivered`
says which lines of a log come through the stream, counted from what the log had
when it was opened; the code applies the end of the range and the filter to each
line that it reads (`Kept`). `pos` goes through the log a line at a time, so pods
write while their logs are read, and a stream ends at any line written since it
was opened. The deferred function closes the streams of the list (`StillOpen`),
not all that are open: that those are the same is a property, not a definition.

### LiveLogs

Grafana Live is external: it asks `Subscribe` per viewer, has one run per
channel, cancels it when nobody is left, and calls `RunStream` again after an
error. The run lists the pods once and has a goroutine per pod that scans,
checks and sends. The channel is named after the resource and the container and
not after the filter, so a run has the filter of the viewer that started it.
`sent` (history) has the number and the text of each line that was sent.
`CanStream` says where a goroutine can go on: everywhere but at the end of what
its pod has written.

### RowActions

`calls` are the confirmed dialogs; a call goes lookup, (read,) send, answered or
failed, done, and may fail at any of these with or without its effect. `Confirm`
fixes what the closure of the handler holds: the name of the row, the input, the
manifest. `held` says what of the caller is still mounted: `Refresh` (new cells,
so a new menu) and closing Edit unmount parts of it. `ResourceActions` has the
menus, the paths and the effect of each dialog on an object, and what the API
server checks. Objects are reduced to replicas, flags, conditions, jobs and the list
of their containers. What is typed into the dialog Scale is any integer, or nothing
that is a number; the API server refuses a negative one (`Admits`). Edit sends a JSON
patch, which names a field by its path and an element of a list by its index in the
manifest that was loaded: `Patched` applies it to the list as it is by then, when
`Others` may have put an element before it or taken one away.

### KubectlPlugin

A process runs one command: cache lookup, `Listen` in a goroutine that drops its
error, `OpenUrl`, wait for a handler or the timeout, sleep, save, print. A tab
asks the plugin (`Create`) and is redirected to the port, to the handler of
whichever process has it (`Redirect`). The handler stores the credentials in the
variable of that process, in two steps since Run may read it meanwhile, or loads
the kubeconfig and writes the merged one. `os.WriteFile` truncates, then writes:
between the two the cache file is `Cut`, and the kubeconfig `Emptied` (`Truncate`,
`Save`). Two writings at once leave the later text with the end of the earlier one
behind it, one that fails leaves a part of it, an exit of the process nothing more
than was written. An entry of a kubeconfig stands for a data source and has the
name that is configured for it; a merge replaces the entry of the same name
(`Merged`). `known` (history) has the names that were in the file, `intact` (history)
says that nobody changed it between a handler's reading and its writing and that no
writing was cut short. The cache file is named by the host and the data source;
the code joins the two with a `_`, which neither is taken to contain.

### GrafanaIdentity

A request carries a token: of a user, or of the service account that was made
for one. `GetImpersonateUser` looks into the cache of users or of accounts;
`GetUser` / `TellUser` / `KeepUser` are the request to Grafana, its answer and
`Add`, in three steps so that a later fetch overtakes an earlier one.
`GetGroups`, `TellId`, `TellTeams` and `KeepGroups` are the two requests of
`GetImpersonateGroups`. `Search`, `CreateServiceAccount` and `CreateToken` are
`CreateUserToken` with nothing between the search and the creation. `Change` renames a
user or changes its teams; a login that is free again may be given to another user,
and what is kept under it stays. `age` counts
from the start of a request, an entry counts from when it was added; `ended`
(history) remembers what a user was and how long ago that ended. A cache holds
at most `Size` entries; which one is evicted is not followed, any other may have
to go for a new one, so that what holds does not rest on the order of use.

### Prometheus and the pages

A query is data: a record of operators as Prometheus parses it. The definitions
in the seven modules of queries are translations of the functions with the same
names in `utils.queries.ts`, with the selector of every metric, the labels of
every `by`, `on` and `ignoring`, `group_left`, and the order of aggregations. The
parts that the file writes out again in every query are operators of
`QueryParts`. `Prometheus!Value` evaluates a query: matching that is many-to-many
fails, an aggregation merges what has the same labels, a comparison drops
samples, `or` and `unless` look at the labels. What follows from the choice of
labels is therefore computed and not assumed.

Values are integers in parts of 60; a counter stands for its increase per
interval; there are three instants, one of them a month old. `Exposition` gives
each replica its own copy of each series, as of its last scrape, with the label
`replica`; kubelet and kube-state-metrics are scraped separately.

`Pages` says which variables a page has: those of its route, and those whose
options Prometheus gives (the pods of a workload, the claims of a namespace).
`Panels` says what each tab shows, `Rendering` what becomes of several answers in
one table. In `Telemetry` pods start, stop and move (`Change`), replicas scrape,
crash and restart, and a page is opened with the variables of that time, stays
open and is refreshed.

## 3. Runs, bounds and fairness

No run takes longer than about three minutes on two cores. `NobodyIsStuck` says that
whoever waits for nothing has an enabled step; besides being the absence of a
deadlock, it is the hypothesis of the liveness theorems of section 4. Type
invariants are proved (`TypeCorrect`, or the conjunct `Types` of `IInv`) for every
value of the constants.

| Run | Instance | Question | Properties |
|---|---|---|---|
| `resource_cache` | 2 queries, 2 ids, TTL 0, 1 tick, 1 change, 1 failed discovery | Do unlocked reads, concurrent refreshes and failed discoveries ever give an answer that is too old, torn or false, or block a query? | `NobodyIsStuck`, `AnswersAreFresh`, `AnswersReflectCluster`, `LookupSpec` (refinement), `EveryQueryAnswered`, `EmptyCacheHeals` |
| `kube_server` | 3 instances, 1 connection each, 1 error of Accept | However settings change, who has the port, and does everything that was started end? | `PortOwnerSpec` (refinement), `StopIsFinal`, `InstanceEnds`, `NewestServes` |
| `resource_query` | 2 namespaces, 2 names, 2 labels, at most 2 objects, 1 change, 2 requests that fail or get no table, 14 queries, 4 sorts of resource | Is the table right, whatever the order and the failures of its requests and the changes between them? | `FrameIsSound`, `FrameIsComplete`, `NoDuplicateRows`, `FailsWithReason`, `QueryEnds` |
| `log_query` | 2 pods, 3 initial logs, 4 times, 2 faults, 24 queries | Are the rows the wanted lines, none missing, all streams closed? | `RowsAreLines`, `NothingMissed`, `StreamsClosed` |
| `live_logs` | 2 viewers with different filters, 2 pods, 2 lines, 2 faults, 2 subscriptions | Does a run send each log from its beginning, with one filter, and stop when it should? | `SentIsLog`, `StopsSoon`, `NobodyIsStuck`, `RunEnds`, `LinesAreScanned` |
| `row_actions` | 8 resources (one per sort of menu), 2 names, 2 calls, 1 disturbance | With two calls under way and a fault, a refresh or a change by others: is what the dialogs report true? | `SuccessIsApplied`, `OneCallPerDialog`, `EditKeepsOthers` |
| `kubectl_plugin` | 3 setups of 2 or 3 processes, 1 fault, 1 tick | With commands that share the port, the browser and the files: what is printed, cached and merged? | `AloneGetsOwn`, `KubeconfigKept` |
| `identity` | 2 requests, 2 users, 2 changes (a rename, and the old name for the other user), 1 token, first page and caches of 1 entry, 3 settings | Whom does a request run as, when caches expire, fetches overtake each other and users are renamed, change teams or get a name that was another's? | `RecentIdentity`, `TokensActAsTheirUsers`, `RefusedForAReason` |
| `telemetry` | 2 clusters, 2 replicas of Prometheus, 2 jobs, 5 pods, 1 event, 31 routes | Does a page show its object, all of it, once, whatever has been scraped? | `Answered`, `OnlyItsOwn`, `CountedOnce`, `OneRowEach`, `AddsUp`, `PodsListed` |
| `row_actions_path`, `kubectl_plugin_saved`, `telemetry_costs` | as above, or smaller | Does the code do what its documentation says? It does not; see section 5. | `ActionReachesObject`, `SuccessIsSaved`, `AllocationCoversRequests` |

### Why the bounds are enough

* **resource_cache.** A race needs two queries and one `SetAll`; a stale answer
  needs a change before and after a discovery; the hour is an opaque number, and
  with TTL 0 one tick expires the cache: 103,884 states. Safety does not rest on
  these bounds: it is proved for all of them (section 4), and so is that every
  query is answered. Only `EmptyCacheHeals` and `NobodyIsStuck` are checked on
  this instance alone.
* **kube_server.** An old instance that has the port, one that retries and is
  replaced before it gets it, and a newest one. One connection is enough to make
  `Shutdown` time out, or to be upgraded and outlive it. 200,557 states. All but
  `NewestServes` is proved for all bounds. `NobodyIsStuck` is no property of this
  run: `CanServe` and `CanStop` repeat the guards of the steps, so it holds by the
  shape of the definitions, and what it is for, `InstanceEnds` and `NewestServes`,
  the run checks without it.
* **resource_query.** Any two of the requests of a query are independent but for
  the mutex and the rows they share, so two requests (`<<n1, n2>>`,
  `<<n1, all>>`, the same one twice, overlapping selectors) show what a pair can
  do; two objects are needed for a duplicate and for a row that hides another.
  The two faults are requests that fail, answers that are no table, or one of each.
  469,504 states.
* **log_query.** Two goroutines; the initial logs have lines inside, at the ends
  of and outside of the range, one that cannot be parsed and one that is too
  long, before and after matching ones; `tail` 2 is less than a log has.
* **live_logs.** The second viewer joins the run of the first or follows it; a
  goroutine has one line in its hands while another is waiting in the scanner;
  one stream breaks while the other goes on.
* **row_actions.** Two calls of one or of two dialogs; one disturbance hits any
  step of either. The name of the row is one of two, so a refresh can put
  another object under a menu; the two names are symmetric (no liveness is
  checked, so the symmetry is sound). What is typed is a number, a negative one or
  none. The list of containers has two elements; the user appends one, replaces one
  or removes one, and others put one before them or take the first away, so that
  every index of a patch can come to mean another element. About 3.8 million states.
* **kubectl_plugin.** Two commands with one cache file, for Grafanas under two paths
  of a host, and a third with another; two that merge; one of each, where the
  kubeconfig has an entry of that name already. One fault is an interrupt or an error
  at any step, or an edit of the kubeconfig by another program. One tick makes a
  token expire. About 1.29 million states.
* **identity.** Two requests are enough for a fetch that overtakes another and
  for two that create one account; a rename or a change of teams falls into each
  step of both. `TTL` and `Slow` are one tick, opaque to the code. Caches of one
  entry evict all the time, a first page of one match is overfull. The settings
  are none with kubeconfig, groups without kubeconfig, and users with kubeconfig.
  The first change may free a login and the second give it to the other user, at
  any step of both requests. About 5.5 million states.
* **telemetry.** A state is a set of pods, what the replicas have scraped and an
  open page, so 841 states are few, but each evaluates every query of a page. The
  clusters share the names of nodes, namespaces and pods; nodes have the node
  exporter, its labels or none, Windows or OpenTelemetry; one event (a pod moves,
  a pod starts, a replica crashes) is enough for replicas and jobs to disagree
  and for the variables of the page to be out of date. The replicas are
  symmetric (no liveness is checked).

### Fairness

Each run with a liveness property is checked against the weakest fairness it
needs, and safety never depends on it.

* Goroutines keep running (Go's scheduler): weak fairness on the steps of the
  code, one condition per goroutine where one could starve another (`FairTo` of
  `ResourceCache`, `KubeServer` and `LiveLogs`). `SetAllStep`, the steps of
  whichever query holds the lock, has a condition of its own, which those of the
  queries imply, as only the holder has such a step; it is named because the
  proofs cite it.
* `sync.RWMutex` blocks new readers while a writer waits: strong fairness on
  `Lock` and `Get` of the cache.
* A request ends, with an answer or an error (client-go and HTTP time out): weak
  fairness on the steps that stand for one.
* Dashboards keep asking (`Ask`): needed for `EmptyCacheHeals` (and its theorem
  `EmptyIsRefilled`) only, which says that the *next* query repairs the cache.
* The plugin SDK disposes an instance that was replaced; Grafana cancels the run
  of a channel without viewers.
* Nothing is assumed of the user, the clock, other programs, connections and
  faults: a connection may stay open for good, a change of the settings may
  never come.
* `CHECK_DEADLOCK FALSE` stands where the system may stop: a query is answered,
  a user has done what there was to do, every process has ended.
* `RowActions`, `KubectlPlugin`, `LogQuery`, `GrafanaIdentity` and `Telemetry`
  have no liveness property. A dialog waits for a request without a timeout, and
  a command has one; the steps of the others follow each other without a wait
  that could be in vain, so fairness would be all there is to the property.

## 4. What is proved

TLAPS checks the following for every value of the constants, from `Spec` (for
liveness, from `FairSpec` and `[]NobodyIsStuck`) and the named assumptions of each
module alone: bounds are natural numbers, null
values are none of the others, tables of constants have the shape they are used
with (`ResourceQuery!QueriesAssumption`, `LogQuery!TextsAssumption`, ...). Four say
more, of what is external: `GrafanaIdentity!UsersAssumption` that no two users have
the same login at first, `ContainingAssumption` that a search finds what has exactly
its name, `LogQuery!LogsAssumption` that the lines of a log have increasing times,
`ResourceQuery!OrderAssumption` that the API server lists objects in some order,
whichever it is. TLC
evaluates all of them in the runs.

| Theorem | Statement |
|---|---|
| `ResourceCacheProofs!TypeCorrect` | `Spec => []TypeOK` |
| `ResourceCacheProofs!Fresh` | `Spec => []AnswersAreFresh` |
| `ResourceCacheProofs!Reflects` | `Spec => []AnswersReflectCluster` |
| `ResourceCacheProofs!Implements` | `Spec => LookupSpec` |
| `ResourceCacheProofs!QueriesAreAnswered` | `FairSpec /\ []NobodyIsStuck => EveryQueryAnswered` |
| `ResourceCacheProofs!EmptyIsRefilled` | `FairSpec /\ []NobodyIsStuck /\ <>[][NoFault]_faults => []<>(~IsEmpty)`, with a resource that is always there and a query |
| `KubeServerProofs!TypeCorrect` | `Spec => []TypeOK` |
| `KubeServerProofs!StopFinal` | `Spec => StopIsFinal` |
| `KubeServerProofs!ImplementsPort` | `Spec => PortOwnerSpec` |
| `KubeServerProofs!DisposedEnds` | `FairSpec /\ []NobodyIsStuck => InstanceEnds` |
| `GrafanaIdentityProofs!IdentityIsRecent` | `Spec => []RecentIdentity` |
| `GrafanaIdentityProofs!TokensAreOfTheirUsers` | `Spec => []TokensActAsTheirUsers` |
| `GrafanaIdentityProofs!RefusalsHaveReasons` | `Spec => []RefusedForAReason` |
| `LiveLogsProofs!TypeCorrect` | `Spec => []TypeOK` |
| `LiveLogsProofs!StopIsSoon` | `Spec => []StopsSoon` |
| `LiveLogsProofs!SentIsTheLog` | `Spec => []SentIsLog` |
| `LiveLogsProofs!GoroutinesEnd` | `FairSpec /\ []NobodyIsStuck => ((run = "streaming" /\ cancelled /\ p \in Streamed) ~> IsOver(p))`, for each pod |
| `LiveLogsProofs!NextLineIsScanned` | `FairSpec /\ []NobodyIsStuck => (LineIsThere(p, n) ~> IsScanned(p, n))`, for each pod and number of a line |
| `RowActionsProofs!TypeCorrect` | `Spec => []TypeOK` |
| `RowActionsProofs!SuccessIsReal` | `Spec => []SuccessIsApplied` |
| `RowActionsProofs!ButtonsAreSafe` | `Spec => []OneCallPerDialog` |
| `RowActionsProofs!EditsMerge` | `Spec => EditKeepsOthers` |
| `RowActionsProofs!OnlyDecisionsMiss` | in every state, a call whose path is not served is a decision about a certificate request, and none of these takes effect |
| `KubectlPluginProofs!TypeCorrect` | `Spec => []TypeOK` |
| `KubectlPluginProofs!AloneIsSafe` | `Spec => []AloneGetsOwn` |
| `KubectlPluginProofs!KubeconfigIsKept` | `Spec => []KubeconfigKept` |
| `ResourceQueryProofs!FailsForReason` | `Spec => []FailsWithReason` |
| `ResourceQueryProofs!FrameSound` | `Spec => []FrameIsSound` |
| `ResourceQueryProofs!FrameComplete` | `Spec => []FrameIsComplete` |
| `ResourceQueryProofs!RowsAreUnique` | `Spec => []NoDuplicateRows` |
| `LogQueryProofs!NoneLeftOpen` | `Spec => []StreamsClosed` |
| `LogQueryProofs!RowsAreTheLines` | `Spec => []RowsAreLines` |
| `LogQueryProofs!NothingIsMissed` | `Spec => []NothingMissed` |

**The cache.** The properties are not inductive: they speak of idle queries,
and the danger is in the middle of one. `IInv` adds

* `LockInv`: the holder of the lock, and only it, is in `SetAll`; while nobody
  holds it, the two fields are the last catalog; `time` never exceeds the clock;
* `WriteInv`: what the two writes have done so far, in either order;
* `VerdictInv`: a query that has read `time` without the lock and found it valid
  still finds it within TTL when it gets to `Get`. This is the heart of the
  argument: the verdict may be about a map that was replaced since, but `time`
  only grows, so the map it gets instead is newer;
* `SeenInv`: what is about to be stored was seen at most `Discovery` ago, so a
  slow refresh that overwrites a later one still keeps the bound;
* `FaithInv`: a discovery is right about every id that has not changed since.

`StepIInv` has one step per action. `Fresh` and `Reflects` follow; for
`Implements`, `Unlock` is *Publish*, `Get` is *Answer*, and every other step of a
query leaves what `ResourceLookup` shows unchanged.

**The server.** `IInv` ties the three places that know of a listener: the
goroutine that serves it, the socket that has the port, and the call of `Stop`
(`CreatedInv`, `ListenerInv`, `StopInv`). The decisive conjunct is that a
goroutine that serves without the port belongs to an instance that is closing,
and that behind `CloseListener` no goroutine serves with it. So behind
`WaitListener` nothing accepts any more, which is `StopIsFinal`: what is open then
can only end or be upgraded, and after a graceful `Stop` only sessions are left. `Track` is
*Acquire*, `Unbind` and `CloseListener` are *Release*, `Dispose` is *Retire*.

**Liveness, under a hypothesis.** tlapm has no ENABLED, so five theorems assume
`[]NobodyIsStuck`, which says where ENABLED holds. TLC checks it in the runs
`resource_cache` and `live_logs`; in `KubeServer` it says that a step whose guard
holds is enabled, and the run checks the conclusion `InstanceEnds` itself. What it
leaves to prove is the whole argument of progress. The scheme is the same for all. A function of the place of a goroutine
(`LoopSteps`, `StopSteps`, and the like for a query and for `SetAll`) bounds the
steps it still takes; `LoopCountsDown`, `StopCountsDown`, `SetAllCountsDown`,
`QueryCountsDown`, `EndsCountsDown` and `LineComes` show that no step of anybody
raises it and that its own steps lower it. PTL then expands the fairness condition, one value of the bound at a
time: as long as the bound stays and the goroutine can go on, it takes a step.
What is special about each:

* `DisposedEnds`: a goroutine that serves cannot go on by itself until the
  listener is closed. `ListenerIsClosed`, from fairness of `Stop`, says that it
  will be; then the goroutine ends (`LoopEnds`). `Stop` waits for it to give back
  the listener, so `StopEnds` comes last; connections play no part, because of
  the timeout. `NoWayBack` says that what was reached stays.
* `QueriesAreAnswered`: the lock is free again and again (`LockIsReleased`, from
  fairness of the holder), but need not be free for long, so a waiting query
  needs strong fairness (`QueryLocks`, `QueryReads`).
* `EmptyIsRefilled`: while the cache is empty, every query that begins finds it
  invalid and discovers, without a fault the catalog of what is always there;
  when it stores that, the map is not empty (`FillingGoesOn`).
* `GoroutinesEnd`: after the cancellation no check is passed, so a goroutine that
  has scanned a line comes to its end instead of the next line.
* `NextLineIsScanned`: a goroutine that is over would scan nothing any more.
  `OverInv` says that it has then lost its stream, was cancelled, or has scanned
  all that a deleted pod had written, so the line would not be there.

**The identity.** `RecentIdentity` bounds the age of an answer by the age of the
request that uses it, plus an entry, plus the request that put it there. The
invariant therefore says of every entry (`CacheInv`) that it is true of a time
not longer ago than its own age and `Slow` (`EntryAge`), and of every request
(`RequestInv`), place by place, how old what it holds may be; a fetch that is
overtaken keeps its bound, since it is counted from its own start. Groups are kept
under a login, so what is true of them is said of the login: they are the teams of
somebody who had it within the bound (`WereTeamsOf`). A request asks for the id of
a login and then for the teams of the id; in between, the invariant says that the
id had the login not before the request began. `TokenInv` relates the accounts to the users they
were made for; `NamesStay` says that a name that a user had remains one of its
names. The proof is by the places of a request, a step of one leaves the others
undisturbed (`Undisturbed`).

**Live logs.** `StopsSoon` says that a goroutine sends at most one line after
the cancellation. `LateInv` adds the reason: once it has, it is back at the scan
or the check, which it does not pass again. `SentIsLog` speaks of the lines that
were scanned, and is false of the one that a goroutine has in its hands.
`SentInv` says, place by place, of which lines a goroutine is done: of all it has
scanned, or of all but the last, which then has passed the check if it is at the
send. `BeginningSends` and `BeginningSkips` extend the beginning of a log by that
line, `BeginningGrows` says that what a pod writes later does not disturb it.

**The dialogs.** `Waiting` says that a dialog is loading exactly while one call
that can still reach it is pending, and that there is one; it is `OneCallPerDialog`
made inductive, with what a refresh or the end of another call unmounts. For
`SuccessIsApplied` each call remembers what it was confirmed with, whatever the
row shows by then. `EditsMerge` follows from what a JSON patch touches: a field that
the user left alone has no operation, and of a list the elements at and behind the
end of what was loaded keep their order (`Patched`).
`MenuReaches` goes through the menus and the paths: every dialog but the two of
the run `row_actions_path` asks for one that is served. `PathInv` carries that to
the calls (`OnlyDecisionsMiss`): the disagreement that the run shows is the only
one of its kind.

**The kubectl plugin.** `AloneInv` holds as long as no command has run beside
another: at most one process is not over, the handler of its tab is in that
process, and what it was told, printed or stored is of its own target. `FileInv`
says of the cache files that they are whole or cut, and of whom. `Shape` ties
servers and handlers to processes that run. `KubeconfigKept` is false while a handler
writes, and of what a handler is about to write it says nothing: `KeptInv` adds, as
long as nobody came between, that at most one handler is writing, on the file that it
emptied, and that each one that has read knows all names, or read while another
wrote, and then that one's end comes between.

**Resource queries.** `RequestsInv`: a request that is done has appended its
table, so if there is none at the end, every one failed, and an answer that is no
table is among those that were appended if its request has not failed. For the
table itself, the invariant follows an object on its way:

* `ClusterInv`: an object that did not change during the query is the only one of
  its name that ever was there (`stable` against `ever`);
* `TableInv`: what a request has got, what was appended and the names in
  `jsonNames` were asked for by some request and there at some time. The two
  requests of a JSONPath filter may have seen different objects of one name,
  which is why `FrameIsSound` speaks of the name;
* `GotInv`: each request that has not failed has, past a place, all stable
  objects that it asked for, and what is done is in the tables;
* `FrameInv`: the frame is `DataFrame` of the tables, once all requests are done.

`WantedIsAsked` is the lemma between user and requests: an object is wanted
exactly if some request selects it. `FirstRow` is the one about the merge: of the
rows with one key there is a first one (by `LeastNatural`, twice: the number of
the table, then the place in the order of the server), and only it is kept.
`RowsAreUnique` follows since two different rows are in an order (here
`OrderAssumption` is used), `FrameComplete` since a row that hides another one of
a stable object has the same name, and is therefore the same object
(`RequestBringsRow`): one request that did not fail is enough.

**Log queries.** `StreamInv`: every stream that was opened is in the list, once,
or its goroutine is about to put it there; when streams are read, no goroutine
is left. So closing the list closes everything (`NoneLeftOpen`), and no log is
skipped. `RowsInv` says of the rows in the middle of reading what the properties
say at the end, with `WasRead` (the streams before `next`, and of that one the
lines up to `pos`) in the place of "all": each row is a wanted line that was
read (`RowsSound`), rows of a pod are in order (`RowsOrdered`), and every wanted
line that was read and was there at the opening has a row (`RowsComplete`).
`LineStep` is the heart: the next line is later than all the rows of its pod,
since these were read before, logs are in order, and a pod is in the list once.
`KeptIsWanted` and `TailIsDelivered` relate what the API server and the loop do
to what was asked for.

**Only model-checked.**

* `NobodyIsStuck` of `resource_cache` and `live_logs`: it is about ENABLED.
* `EmptyCacheHeals`: that faults end is the bound `MaxFaults`, and that the cache
  is not emptied again by one of the queries that are under way needs an
  induction over them. `EmptyIsRefilled` proves the rest.
* `NewestServes`: the instances before the newest end one after the other, which
  is an induction over their number.
* `QueryEnds`, `RunEnds`, `LinesAreScanned`: a query or a run ends when the last of
  any number of goroutines has ended, and a log has any number of lines. For live
  logs, `GoroutinesEnd` and `NextLineIsScanned` prove one goroutine and one line;
  from "each ends" to "all have ended", and from a line to the next, is an
  induction, and the temporal prover is propositional and has none.
* All of `Telemetry` (`Answered`, `OnlyItsOwn`, `CountedOnce`, `OneRowEach`,
  `AddsUp`, `PodsListed`): its queries are trees that are evaluated by recursion,
  with `RECURSIVE` operators, and the properties are about what 287 particular
  trees evaluate to.

Every other property of a passing run is a theorem.

## 5. Disagreements between code and documentation

Three have a run whose counterexample shows them (`findings` in `PROJECT.json`):

| Run | What the code does |
|---|---|
| `row_actions_path` | The dialogs that approve or deny a CertificateRequest use a path without its namespace (`CRApprove.tsx:46`, `CRDeny.tsx:46`). |
| `kubectl_plugin_saved` | A kubeconfig that could not be written is reported as a success (`kubeconfig.go:80, 105`: shadowed `err`). |
| `telemetry_costs` | The memory that the pods of a workload request is summed without their namespace and lost in the join that follows (`src/utils/utils.queries.ts:4242`), so only the usage is priced, while the panel says that allocation is the greater of the two (`RowCosts.tsx:32`). |

Others were met and have no run of their own.

In the back end:

* The error of a discovery is logged and dropped (`pkg/kubernetes/resources.go:24-29`),
  so a partial map is cached for an hour, although the cache is said to contain
  all resources (`client.go:950-952`). `AnswersReflectCluster` speaks of the ids
  that are found, `EmptyCacheHeals` of an empty map.
* Rows are made unique by their first two cells (`resources.go:257`), which are
  not namespace and name for a wide table with a late name column, like that of
  events (`:177-181`). The properties of `resource_query` say for which tables
  they hold.
* `pkg/kubernetes/cache.go:8` calls the cache thread-safe, but `IsValid`
  (`:24-34`) reads both fields without the lock: a data race. The model has it,
  and the theorems show that, on a 64-bit platform, its answers stay right.
* An answer that cannot be decoded fails a query of several namespaces although the
  others were answered (`resources.go:86-88, 139-141`), while a request that fails
  does not (`client.go:284-286`). `FailsWithReason` says both.
* `Stop` is called a graceful shutdown (`server.go:50-52`), but sessions of
  `kubectl exec` and port-forward, which the proxy upgrades (`server.go:75-79`), are
  neither waited for nor closed: they outlive the instance. `StopIsFinal` says that
  no other connection does.
* Groups are cached and looked up by login (`pkg/grafana/client.go:282-289, 325`): a
  user whose old login was given to another one gets the groups of that one, for as
  long as its own entry with the old login is valid. `RecentIdentity` says how long.
* A pod whose log stream cannot be opened is missing from an answer that is no
  error (`client.go:548`), while `client.go:486-488` says that the logs of all
  pods are returned.
* `client.go:653-655` says that only matching lines are sent; viewers with
  different filters share one run, because the path of the channel lacks the
  filter (`src/datasource/datasource.ts:102`).
* The comments on the caches of `pkg/grafana/client.go` (`:66-75`) speak of 1000
  entries and 24 hours for users and service accounts; the code has 100 entries
  and 60 minutes, as for groups. `GrafanaIdentity` has them as `Size` and `TTL`.

In the kubectl plugin and the dialogs:

* Two commands at once: one prints and caches the credentials that were made for
  the other, whose tab came to its server (`credentials.go:87`, `:54-56`).
* The cache file is named after the host and the data source
  (`cmd/kubectl-grafana/utils/cache.go:45`): two Grafanas under different paths
  of a host share it if their data sources have the same uid. The run
  `kubectl_plugin` has two such Grafanas, and its property `AloneGetsOwn` speaks
  of the host and the data source only.
* `src/datasource/transformations/kubernetes.tsx:28` lacks Flux alerts and
  providers, for which `flux/Actions.tsx` offers Suspend and Resume.
* Renewing a certificate replaces its list of conditions, and removes Ready
  (`Renew.tsx:66`).
* Confirming the dialog Scale with an empty field scales to zero
  (`Scale.tsx:103`): the number is NaN, which is sent as null. A negative number is
  sent as it is; the API server refuses it.
* Edit sends a JSON patch without a test (`Edit.tsx:77`). Its paths name the elements
  of a list by their index: if somebody else has put one before them meanwhile, the
  patch changes another element than the user did.
* The kubeconfig is truncated before it is written (`kubeconfig.go:105`): an interrupt,
  the timeout of the command, or an error of the disk leaves a part of it or nothing,
  where `README.md:176-177` says that it is merged. What others wrote into it since
  the handler read it is lost too. An entry of the same name is replaced, as that
  line says. `KubeconfigKept` names the first two in its precondition.

In the pages. The lines are those of `src/utils/utils.queries.ts`; the
properties of `telemetry` name what they leave out for one of these.

* `cluster.cpuUsage` compares the name of the cluster with `$prometheus` (`:51`);
  every other query has `$cluster` there.
* `cluster.costsPotentialSavings` (`:263-383`) joins its four parts with `or`, and
  all of them have the same labels: only the first counts, against
  `HomePageCost.tsx:41`.
* The idle costs of clusters and nodes (`:137-202`, `:1400-1526`) price what is
  used, and `pods.costsCPUIdle` (`:5281-5340`) prices requests of memory less the
  usage of CPU, against `RowCosts.tsx:44-60`.
* Allocations are requests `or` usage, which is the requests where there are any,
  not the greater of the two.
* Most counts, tables, costs, pressures and disks are not made unique over the
  replicas of Prometheus. A claim that is pending then shows as lost. Two queries
  fail altogether with two replicas: `namespaces.images` and the network of the
  pods of a node on Windows.
* The network of the pods of a node (`:1230-1301`) is looked up by the names of
  pods alone, as are the CPU and the memory of the pods of a workload: pods of
  other namespaces with these names are shown too.
* The saturation of a node compares `instance` of `kube_pod_container_info`, the
  instance of kube-state-metrics, with the node; the first branch of
  `nodes.cpuUsage` for OpenTelemetry has no filter for the node.
* Pods without a dash in their name are excluded by `pod=~".+-.+"`; disks of pods
  need the label `node`; the CPU of a pod counts the sandbox, its distribution
  does not; `containers.info` has two rows after an image has changed; the
  allocation of memory on a node sums its price over the replicas.
* `WorkloadPageCPU.tsx:33-35` calls a panel *Pod Usage / Node Capacity*, which is
  not divided; `HomePageOverview.tsx:152` and `WorkloadPageOverview.tsx:265` have the
  content or the control of another panel.
* Links between pages carry the data source, but some leave out
  `var-datasource` (for example `NamespacePage.tsx:164`, `NodePage.tsx:132`,
  `SearchPage.tsx:77`), so the next page opens with the default one.

## 6. What is not modelled

* *Proxy*, *handlers*, *data source in the browser*: they translate one request
  into another and keep nothing. What their callers see of them, an answer, a
  refusal or a failure, is in `RowActions` and the queries.
* *Single resources, containers and namespaces*: one request each, nothing kept.
  The lookup of an id is in `ResourceCache`, the permission of a viewer in
  `LiveLogs`.
* *Helm*: the client hands its arguments to the Helm library, which is not in the
  repository and in which releases, their revisions and the refusal of a pending
  one are. It keeps nothing between two calls; a model would be one of the
  library.
* *Editors, details of a resource*: forms and views.
* Of the *pages*: links from one to another, titles, units and colours; the
  Kubernetes, Helm and kubectl pages, which embed tables of the data source.
  `rate` over a counter that is reset, and samples between two scrapes.
* *Third-party code*: net/http (`KubeServer`, `KubectlPlugin`), client-go and
  the API server, Grafana, Grafana Live, the browser, Prometheus and the exporters
  are modelled from how the code uses them and marked external.
* *Wording, formatting, logging, tracing* are left out everywhere.
* Memory effects beyond those said in `ResourceCache` (32-bit platforms).

## 7. Plan

Done, in the order of importance: the cache every lookup goes through, the
server, the queries, the live logs, the dialogs that change the cluster, the
kubectl plugin, the identity of requests, the pages of the application; proofs
about all of them but the pages, with liveness of the cache, the server and the
live logs.

Left:

1. The links between pages, by the parameters they carry: whatever way a user
   takes, the next page has the cluster and the data source of the one before.
2. `metricFindQuery` and `query` of the data source in the browser, with the
   parameters each editor leaves set.
3. Four hazards have no property; their notes in `PROJECT.json` say why: three
   are what the code does and nothing documents otherwise, and one is in Helm.

## 8. Running it

    tlc -workers 2 -config ResourceCache.cfg MCResourceCache
    tlc -workers 2 -config KubeServer.cfg KubeServer
    tlc -workers 2 -config Telemetry.cfg MCTelemetry
    tlapm ResourceCacheProofs.tla

The module and the configuration of each run are in `PROJECT.json`. The runs
with `"expect": "violation"` end with a counterexample.
