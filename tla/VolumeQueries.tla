---------------------------- MODULE VolumeQueries ---------------------------
(***************************************************************************)
(* The queries of the pages of persistent volume claims                    *)
(* (queries.persistentVolumeClaims of src/utils/utils.queries.ts), each    *)
(* under the name it has there.                                            *)
(***************************************************************************)
EXTENDS QueryParts

Info == "kube_persistentvolumeclaim_info"
CapacityBytes == "kubelet_volume_stats_capacity_bytes"
BytesUsed == "kubelet_volume_stats_used_bytes"
Available == "kubelet_volume_stats_available_bytes"
Phase == "kube_persistentvolumeclaim_status_phase"

Mounted(sel) ==
  Metric("kube_pod_spec_volumes_persistentvolumeclaims_info", [volume |-> Some] @@ sel @@ InNamespace)
labelsByClusterNamespace == Metric(Info, InNamespace)
labelsByClusterNamespacePod == Mounted([pod |-> var.pod])
labelsPodsByClusterNamespacePersistentVolumeClaim == Mounted([persistentvolumeclaim |-> var.pvc])

count == Count(Metric(Info, [persistentvolumeclaim |-> Some] @@ InNamespace))

-----------------------------------------------------------------------------
(* The claims $pvc: how many of them are in trouble. *)
OfClaims == [persistentvolumeclaim |-> var.pvc] @@ InNamespace
ByClaim == {"namespace", "persistentvolumeclaim"}
Largest(name) == MaxBy(ByClaim, Metric(name, OfClaims))
NumberOf(V) == Or(Count(V), Zero)

aboveWarningThreshold ==
  NumberOf(And(Largest(BytesUsed),
               Where(">=", (One * 80) \div 100, Arith("/", Largest(BytesUsed), Largest(CapacityBytes)))))
(* The instants are a day apart. *)
FullIn(days) ==
  LET free == Metric(Available, OfClaims)
  IN NumberOf(And(free, Where("<", 0, Predict(days, free))))
fullIn5Days == FullIn(5)
fullIn2Days == FullIn(2)
unused ==
  LET told(name) == CountBy(ByClaim, Metric(name, OfClaims))
  IN Or(Sum(Unless(told(Info), told(Available))), Zero)
InPhase(f) == NumberOf(Where("==", 1, Metric(Phase, [phase |-> {f}] @@ OfClaims)))
lostState == InPhase("Lost")
pendingState == InPhase("Pending")

-----------------------------------------------------------------------------
(* The table of the claims. *)
Summed(name, sel) == SumBy(ByClaim, Metric(name, sel @@ OfClaims))
info == SumBy(ByClaim \cup {"storageclass", "volumename"}, Metric(Info, OfClaims))
capacity == Summed(CapacityBytes, <<>>)
requested == Summed("kube_persistentvolumeclaim_resource_requests_storage_bytes", <<>>)
used == Summed(BytesUsed, <<>>)
available == Summed(Available, <<>>)
phase == Arith("+", Summed(Phase, [phase |-> {"Pending", "Lost"}]), Summed(Phase, [phase |-> {"Lost"}]))
usedPercent == SumBy(ByClaim, Arith("/", Metric(BytesUsed, OfClaims), Metric(CapacityBytes, OfClaims)))
inodesCapacity == Summed("kubelet_volume_stats_inodes", <<>>)
inodesUsed == Summed("kubelet_volume_stats_inodes_used", <<>>)

(* rate() over an hour, a day and a week: the instants that there are. *)
UsageRate == SumBy(ByClaim, Increase(Metric(BytesUsed, OfClaims)))
hourlyUsageRage == UsageRate
dailyUsageRage == UsageRate
weeklyUsageRage == UsageRate
=============================================================================
