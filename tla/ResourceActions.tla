-------------------------- MODULE ResourceActions --------------------------
(***************************************************************************)
(* What the actions menu of a row offers for a resource, and what each of  *)
(* its dialogs asks the API server to do to the object of the row          *)
(* (src/datasource/transformations/kubernetes.tsx and the components under *)
(* src/datasource/components).                                             *)
(*                                                                         *)
(* An object is reduced to what the dialogs touch: its replicas, the       *)
(* things that are set on it, the list of its containers, its conditions   *)
(* and the jobs made from it.                                              *)
(***************************************************************************)
EXTENDS Integers, Sequences, FiniteSets

Flags == {"restarted", "suspended", "unschedulable", "reconciled"}
Conditions == {"Ready", "Approved", "Denied", "Issuing"}
Containers == {"app", "proxy", "debug"}

Objects == [alive : BOOLEAN, replicas : Nat, flags : SUBSET Flags,
            containers : Seq(Containers), conditions : SUBSET Conditions, jobs : Nat]

-----------------------------------------------------------------------------
(* Which component a row gets, by its resource.                            *)

FluxTable ==
  {"bucket.source.toolkit.fluxcd.io", "gitrepository.source.toolkit.fluxcd.io",
   "helmchart.source.toolkit.fluxcd.io", "helmrepository.source.toolkit.fluxcd.io",
   "ocirepository.source.toolkit.fluxcd.io", "kustomization.kustomize.toolkit.fluxcd.io",
   "helmrelease.helm.toolkit.fluxcd.io", "imagerepository.image.toolkit.fluxcd.io",
   "imageupdateautomation.image.toolkit.fluxcd.io", "receiver.notification.toolkit.fluxcd.io"}

CertManagerTable ==
  {"issuer.cert-manager.io", "order.acme.cert-manager.io", "challenge.acme.cert-manager.io",
   "clusterissuer.cert-manager.io", "certificaterequest.cert-manager.io",
   "certificate.cert-manager.io"}

(* What the component offers. *)
Always == {"details", "edit", "delete"}

KubernetesMenu(r) ==
  Always
  \cup (IF r \in {"deployment.apps", "statefulset.apps", "replicaset.apps"}
        THEN {"scale"} ELSE {})
  \cup (IF r \in {"daemonset.apps", "deployment.apps", "statefulset.apps"}
        THEN {"restart"} ELSE {})
  \cup (IF r = "cronjob.batch" THEN {"createjob", "cronjobsuspend", "cronjobresume"} ELSE {})
  \cup (IF r = "certificatesigningrequest.certificates.k8s.io"
        THEN {"csrapprove", "csrdeny"} ELSE {})
  \cup (IF r = "pod" THEN {"evict"} ELSE {})
  \cup (IF r = "node" THEN {"cordon", "uncordon"} ELSE {})

FluxSuspendable ==
  FluxTable \cup {"alert.notification.toolkit.fluxcd.io", "provider.notification.toolkit.fluxcd.io"}

FluxMenu(r) ==
  Always \cup (IF r \in FluxTable THEN {"reconcile"} ELSE {})
         \cup (IF r \in FluxSuspendable THEN {"suspend", "resume"} ELSE {})

CertManagerMenu(r) ==
  Always \cup (IF r = "certificate.cert-manager.io" THEN {"renew"} ELSE {})
         \cup (IF r = "certificaterequest.cert-manager.io" THEN {"crapprove", "crdeny"} ELSE {})

Menu(r) == IF r \in FluxTable THEN FluxMenu(r)
           ELSE IF r \in CertManagerTable THEN CertManagerMenu(r)
           ELSE KubernetesMenu(r)

-----------------------------------------------------------------------------
(* The path of the request.  Edit and delete ask the resource whether it   *)
(* has namespaces; every other dialog has its answer written into it.      *)

ClusterPaths == {"cordon", "uncordon", "csrapprove", "csrdeny", "crapprove", "crdeny"}

HasNamespaces(r) ==
  r \notin {"node", "certificatesigningrequest.certificates.k8s.io", "clusterissuer.cert-manager.io"}

NamesNamespace(d, r) ==
  IF d \in {"edit", "delete"} THEN HasNamespaces(r) ELSE d \notin ClusterPaths

(* The API server serves the path of an object with its namespace, if its  *)
(* resource has namespaces, and without one otherwise.                     *)
Reaches(d, r) == NamesNamespace(d, r) = HasNamespaces(r)

-----------------------------------------------------------------------------
(* What each dialog does to the object.  A merge patch replaces a list.    *)

Scaled(o, n) == [o EXCEPT !.replicas = n]
Restarted(o) == [o EXCEPT !.flags = @ \cup {"restarted"}]
JobCreated(o) == [o EXCEPT !.jobs = @ + 1]
CronJobSuspended(o) == [o EXCEPT !.flags = @ \cup {"suspended"}]
CronJobResumed(o) == [o EXCEPT !.flags = @ \ {"suspended"}]
CSRApproved(o) == [o EXCEPT !.conditions = {"Approved"}]
CSRDenied(o) == [o EXCEPT !.conditions = {"Denied"}]
Evicted(o) == [o EXCEPT !.alive = FALSE]
Cordoned(o) == [o EXCEPT !.flags = @ \cup {"unschedulable"}]
Uncordoned(o) == [o EXCEPT !.flags = @ \ {"unschedulable"}]
Deleted(o) == [o EXCEPT !.alive = FALSE]
Reconciled(o) == [o EXCEPT !.flags = @ \cup {"reconciled"}]
Suspended(o) == [o EXCEPT !.flags = @ \cup {"suspended"}]
Resumed(o) == [o EXCEPT !.flags = @ \ {"suspended"}]
Renewed(o) == [o EXCEPT !.conditions = {"Issuing"}]
CRApproved(o) == [o EXCEPT !.conditions = {"Approved"}]
CRDenied(o) == [o EXCEPT !.conditions = {"Denied"}]

(* Edit sends what the user has changed in the manifest that was loaded,   *)
(* as a JSON patch.  A field is named by its path; an element of a list is *)
(* named by its index in the manifest that was loaded, whatever stands     *)
(* there by now: elements that differ are replaced, and what the list has  *)
(* more or less at its end is added or removed where that end was.         *)
Replaced(base, wish) == {i \in DOMAIN base \cap DOMAIN wish : base[i] # wish[i]}
Longer(base, wish) == Len(wish) - Len(base)

Patched(list, base, wish) ==
  [i \in 1..(Len(list) + Longer(base, wish)) |->
     IF i \in Replaced(base, wish) \cup (DOMAIN wish \ DOMAIN base) THEN wish[i]
     ELSE IF i \in DOMAIN wish THEN list[i]
     ELSE list[i - Longer(base, wish)]]

\* Faulty: the whole manifest is sent.
EditedWhole(o, base, wish) ==
  [o EXCEPT !.replicas = wish.replicas, !.flags = wish.flags, !.containers = wish.containers]
Edited(o, base, wish) ==
  [o EXCEPT !.replicas = IF wish.replicas = base.replicas THEN @ ELSE wish.replicas,
            !.flags = (@ \ (base.flags \ wish.flags)) \cup (wish.flags \ base.flags),
            !.containers = Patched(@, base.containers, wish.containers)]

(* A patch must find what it removes, replaces or adds to.                 *)
Finds(o, base, wish) ==
  /\ base.flags \ wish.flags \subseteq o.flags
  /\ Replaced(base.containers, wish.containers) \subseteq DOMAIN o.containers
  /\ Longer(base.containers, wish.containers) # 0 => Len(o.containers) >= Len(base.containers)

Effect(d, o, arg) ==
  CASE d = "scale" -> Scaled(o, arg)
    [] d = "restart" -> Restarted(o)
    [] d = "createjob" -> JobCreated(o)
    [] d = "cronjobsuspend" -> CronJobSuspended(o)
    [] d = "cronjobresume" -> CronJobResumed(o)
    [] d = "csrapprove" -> CSRApproved(o)
    [] d = "csrdeny" -> CSRDenied(o)
    [] d = "evict" -> Evicted(o)
    [] d = "cordon" -> Cordoned(o)
    [] d = "uncordon" -> Uncordoned(o)
    [] d = "delete" -> Deleted(o)
    [] d = "reconcile" -> Reconciled(o)
    [] d = "suspend" -> Suspended(o)
    [] d = "resume" -> Resumed(o)
    [] d = "renew" -> Renewed(o)
    [] d = "crapprove" -> CRApproved(o)
    [] d = "crdeny" -> CRDenied(o)
    [] d = "edit" -> Edited(o, arg.base, arg.wish)

(* What the API server checks besides: a number of replicas is not         *)
(* negative, a JSON patch finds its paths, and a decision that was made is *)
(* neither changed nor removed.                                            *)
KeepsDecision(o, n) == o.conditions \cap {"Approved", "Denied"} \subseteq n.conditions
Admits(d, o, arg) ==
  /\ d = "scale" => arg >= 0
  /\ d = "edit" => Finds(o, arg.base, arg.wish)
  /\ KeepsDecision(o, Effect(d, o, arg))
=============================================================================
