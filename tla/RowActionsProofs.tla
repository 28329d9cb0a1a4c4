-------------------------- MODULE RowActionsProofs --------------------------
(***************************************************************************)
(* Proofs about RowActions, for any resources, any number of objects, of   *)
(* calls and of disturbances.                                              *)
(*                                                                         *)
(* The invariant ties the calls to the dialogs: a dialog is disabled       *)
(* exactly while one call that it can still hear of is pending, and a call *)
(* that was answered has changed the object it was confirmed for.          *)
(***************************************************************************)
EXTENDS RowActions, FiniteSetTheorems, SequenceTheorems, TLAPS

Confirmed == Dialogs \ {"details"}
CallRecord == [dialog : Confirmed, name : Names, arg : Int \cup Manifests \cup {None},
         held : {"dialog", "menu", "none"},
         step : {"lookup", "read", "send", "answered", "failed", "done"},
         notice : {None, "success", "error"}, applied : Names \cup {None},
         why : {None, "path", "gone", "refused", "fault"}]
Drafts == {Unloaded, LoadFailed} \cup [state : {"loaded"}, base : Objects, wish : Objects]

(* What a dialog sends with its request. *)
ArgOf(d, arg) ==
  /\ d = "scale" => arg \in Int
  /\ d = "edit" => arg \in Manifests
  /\ d \notin {"scale", "edit"} => arg = None

(* A call that was answered has been applied to what it named. *)
AppliedInv(c) == c.step = "answered" \/ c.notice = "success" => c.applied = c.name

CallInv(c) == c \in CallRecord /\ ArgOf(c.dialog, c.arg) /\ AppliedInv(c)

Types ==
  /\ resource \in Resources /\ object \in [Names -> Objects] /\ row \in Names
  /\ open \in {""} \cup Menu(resource)
  /\ loading \subseteq Menu(resource) \ {"details"}
  /\ input \in Typed \cup {0}
  /\ draft \in Drafts

CallsOf(cs) == cs \in Seq(CallRecord) /\ \A i \in DOMAIN cs : CallInv(cs[i])

(* The dialog of a pending call waits for it: there is one for every dialog *)
(* that is loading, and none for any other.                                  *)
IsPending(c) == c.held = "dialog" /\ c.step # "done"
Waiting(cs, busy) ==
  /\ \A i, j \in DOMAIN cs :
       IsPending(cs[i]) /\ IsPending(cs[j]) /\ cs[i].dialog = cs[j].dialog => i = j
  /\ \A i \in DOMAIN cs : IsPending(cs[i]) => cs[i].dialog \in busy
  /\ \A d \in busy : \E i \in DOMAIN cs : IsPending(cs[i]) /\ cs[i].dialog = d

IInv == Types /\ CallsOf(calls) /\ Waiting(calls, loading)

-----------------------------------------------------------------------------
(* What the dialogs do to an object.                                         *)

LEMMA MenuLemma == \A r : Menu(r) \subseteq Dialogs
<1> SUFFICES ASSUME NEW r, NEW d \in Menu(r) PROVE d \in Dialogs
  OBVIOUS
<1>1. CASE d \in FluxMenu(r)
  BY <1>1 DEF FluxMenu, Always, Dialogs
<1>2. CASE d \in CertManagerMenu(r)
  BY <1>2 DEF CertManagerMenu, Always, Dialogs
<1>3. CASE d \in KubernetesMenu(r)
  BY <1>3 DEF KubernetesMenu, Always, Dialogs
<1> QED
  BY <1>1, <1>2, <1>3 DEF Menu

(* Where the patch comes from when a list changes its length. *)
LEMMA ShiftLemma ==
  ASSUME NEW a \in Nat, NEW b \in Nat, NEW c \in Nat, NEW s, s = c - b, s # 0 => a >= b
  PROVE  /\ a + s \in Nat /\ a + s = a + c - b
         /\ \A i \in 1..(a + s) : /\ i <= b => i \in 1..a
                                  /\ i - s = i + b - c
                                  /\ i > c => i - s \in 1..a
<1>1. CASE s = 0
  BY <1>1
<1>2. CASE s # 0
  BY <1>2
<1> QED
  BY <1>1, <1>2

(* A list that is patched.  What the patch is made from is a list of the    *)
(* manifest that was loaded and of the one the user wants.                  *)
LEMMA PatchedLemma ==
  ASSUME NEW list \in Seq(Containers), NEW base \in Seq(Containers), NEW wish \in Seq(Containers),
         Longer(base, wish) # 0 => Len(list) >= Len(base)
  PROVE  /\ Patched(list, base, wish) \in Seq(Containers)
         /\ Len(Patched(list, base, wish)) = Len(list) + Len(wish) - Len(base)
         /\ \A i \in 1..Len(wish) : i <= Len(Patched(list, base, wish)) =>
              Patched(list, base, wish)[i] =
                IF i > Len(base) \/ base[i] # wish[i] THEN wish[i] ELSE list[i]
         /\ \A i \in Len(wish) + 1 .. Len(Patched(list, base, wish)) :
              Patched(list, base, wish)[i] = list[i + Len(base) - Len(wish)]
<1> DEFINE n == Len(list) + Longer(base, wish)
           at(i) == IF i \in Replaced(base, wish) \cup (DOMAIN wish \ DOMAIN base) THEN wish[i]
                    ELSE IF i \in DOMAIN wish THEN list[i]
                    ELSE list[i - Longer(base, wish)]
<1>1. /\ Len(list) \in Nat /\ Len(base) \in Nat /\ Len(wish) \in Nat
      /\ DOMAIN list = 1..Len(list) /\ DOMAIN base = 1..Len(base) /\ DOMAIN wish = 1..Len(wish)
      /\ \A i \in 1..Len(list) : list[i] \in Containers
      /\ \A i \in 1..Len(wish) : wish[i] \in Containers
  OBVIOUS
<1>2. Longer(base, wish) = Len(wish) - Len(base)
  BY DEF Longer
<1>3. /\ n \in Nat /\ n = Len(list) + Len(wish) - Len(base)
      /\ \A i \in 1..n : /\ i <= Len(base) => i \in 1..Len(list)
                         /\ i - Longer(base, wish) = i + Len(base) - Len(wish)
                         /\ i > Len(wish) => i - Longer(base, wish) \in 1..Len(list)
  BY <1>1, <1>2, ShiftLemma
<1>4. ASSUME NEW i \in 1..n
      PROVE  /\ i <= Len(wish) => at(i) = IF i > Len(base) \/ base[i] # wish[i] THEN wish[i] ELSE list[i]
             /\ i > Len(wish) => at(i) = list[i + Len(base) - Len(wish)]
             /\ at(i) \in Containers
  <2>1. CASE i \in Replaced(base, wish) \cup (DOMAIN wish \ DOMAIN base)
    <3>1. i \in 1..Len(wish) /\ (i > Len(base) \/ base[i] # wish[i])
      BY <1>1, <2>1 DEF Replaced
    <3>2. at(i) = wish[i]
      BY <2>1
    <3> QED
      BY <1>1, <3>1, <3>2
  <2>2. CASE i \notin Replaced(base, wish) \cup (DOMAIN wish \ DOMAIN base) /\ i \in DOMAIN wish
    <3>1. i \in 1..Len(wish) /\ i \in 1..Len(base) /\ base[i] = wish[i]
      BY <1>1, <2>2 DEF Replaced
    <3>2. at(i) = list[i]
      BY <2>2
    <3>3. i \in 1..Len(list)
      BY <1>3, <3>1
    <3> QED
      BY <1>1, <3>1, <3>2, <3>3
  <2>3. CASE i \notin DOMAIN wish
    <3>1. i > Len(wish) /\ i \notin Replaced(base, wish)
      BY <1>1, <2>3 DEF Replaced
    <3>2. at(i) = list[i - Longer(base, wish)]
      BY <2>3, <3>1
    <3>3. /\ i - Longer(base, wish) = i + Len(base) - Len(wish)
          /\ i - Longer(base, wish) \in 1..Len(list)
      BY <1>3, <3>1
    <3> QED
      BY <1>1, <3>1, <3>2, <3>3
  <2> QED
    BY <2>1, <2>2, <2>3
<1>5. Patched(list, base, wish) = [i \in 1..n |-> at(i)]
  BY DEF Patched
<1> HIDE DEF at, n
<1>6. Patched(list, base, wish) \in Seq(Containers) /\ Len(Patched(list, base, wish)) = n
  BY <1>3, <1>4, <1>5
<1> QED
  BY <1>1, <1>3, <1>4, <1>5, <1>6

(* A list without its first element. *)
LEMMA SubSeqLemma ==
  ASSUME NEW l \in Seq(Containers)
  PROVE  SubSeq(l, 2, Len(l)) \in Seq(Containers)
  BY SubSeqProperties

(* Whatever the API server admits leaves an object behind.                  *)
LEMMA EffectLemma ==
  ASSUME NEW o \in Objects, NEW d \in Confirmed, NEW arg, ArgOf(d, arg), Admits(d, o, arg)
  PROVE  Effect(d, o, arg) \in Objects
<1>1. CASE d \in {"scale", "restart", "createjob", "cronjobsuspend", "cronjobresume", "evict", "delete"}
  <2>1. CASE d = "scale"
    <3>1. arg \in Nat
      BY <2>1 DEF ArgOf, Admits
    <3> QED
      BY <2>1, <3>1 DEF Effect, Scaled, Objects
  <2>2. CASE d = "createjob"
    BY <2>2 DEF Effect, JobCreated, Objects
  <2>3. CASE d \in {"evict", "delete"}
    BY <2>3 DEF Effect, Evicted, Deleted, Objects
  <2>4. CASE d \in {"restart", "cronjobsuspend", "cronjobresume"}
    BY <2>4 DEF Effect, Restarted, CronJobSuspended, CronJobResumed, Objects, Flags
  <2> QED
    BY <1>1, <2>1, <2>2, <2>3, <2>4
<1>2. CASE d \in {"csrapprove", "csrdeny", "renew", "crapprove", "crdeny"}
  BY <1>2 DEF Effect, CSRApproved, CSRDenied, Renewed, CRApproved, CRDenied, Objects, Conditions
<1>3. CASE d \in {"cordon", "uncordon", "reconcile", "suspend", "resume"}
  BY <1>3 DEF Effect, Cordoned, Uncordoned, Reconciled, Suspended, Resumed, Objects, Flags
<1>4. CASE d = "edit"
  <2>1. arg.base \in Objects /\ arg.wish \in Objects
    BY <1>4 DEF ArgOf, Manifests
  <2>2. Longer(arg.base.containers, arg.wish.containers) # 0
          => Len(o.containers) >= Len(arg.base.containers)
    BY <1>4 DEF Admits, Finds
  <2>3. /\ o.containers \in Seq(Containers) /\ arg.base.containers \in Seq(Containers)
        /\ arg.wish.containers \in Seq(Containers)
    BY <2>1 DEF Objects
  <2>4. Patched(o.containers, arg.base.containers, arg.wish.containers) \in Seq(Containers)
    BY <2>2, <2>3, PatchedLemma
  <2>5. Edited(o, arg.base, arg.wish) \in Objects
    BY <2>1, <2>4 DEF Edited, Objects
  <2> QED
    BY <1>4, <2>5 DEF Effect
<1> QED
  BY <1>1, <1>2, <1>3, <1>4 DEF Confirmed, Dialogs

(* What the user typed is sent as an integer. *)
LEMMA BodyLemma ==
  ASSUME NEW n \in Typed \cup {0}
  PROVE  Body(n) \in Int
<1>1. CASE n = NaN
  BY <1>1 DEF Body
<1>2. CASE n # NaN
  <2>1. n \in Int
    BY <1>2, TypedAssumption
  <2> QED
    BY <1>2, <2>1 DEF Body
<1> QED
  BY <1>1, <1>2

(* A list that is patched keeps what KeepsList says. *)
LEMMA ListLemma ==
  ASSUME NEW list \in Seq(Containers), NEW base \in Seq(Containers), NEW wish \in Seq(Containers),
         Longer(base, wish) # 0 => Len(list) >= Len(base)
  PROVE  KeepsList(list, base, wish, Patched(list, base, wish))
<1> DEFINE new == Patched(list, base, wish)
<1>1. /\ new \in Seq(Containers)
      /\ Len(new) = Len(list) + Len(wish) - Len(base)
      /\ \A i \in 1..Len(wish) : i <= Len(new) =>
           new[i] = IF i > Len(base) \/ base[i] # wish[i] THEN wish[i] ELSE list[i]
      /\ \A i \in Len(wish) + 1 .. Len(new) : new[i] = list[i + Len(base) - Len(wish)]
  BY PatchedLemma
<1> HIDE DEF new
<1>2. Len(list) \in Nat /\ Len(base) \in Nat /\ Len(wish) \in Nat /\ Len(new) \in Nat
  BY <1>1
<1>3. ASSUME base = wish PROVE new = list
  <2>1. Len(new) = Len(list)
    BY <1>1, <1>2, <1>3
  <2>2. ASSUME NEW i \in 1..Len(list) PROVE new[i] = list[i]
    <3>1. CASE i <= Len(wish)
      BY <1>1, <1>2, <1>3, <2>1, <3>1
    <3>2. CASE i > Len(wish)
      <4>1. i \in Len(wish) + 1 .. Len(new) /\ i + Len(base) - Len(wish) = i
        BY <1>2, <1>3, <2>1, <3>2
      <4> QED
        BY <1>1, <4>1
    <3> QED
      BY <1>2, <3>1, <3>2
  <2> QED
    BY <1>1, <2>1, <2>2, SeqEqual
<1>4. ASSUME list = base PROVE new = wish
  <2>1. Len(new) = Len(wish)
    BY <1>1, <1>2, <1>4
  <2>2. ASSUME NEW i \in 1..Len(wish) PROVE new[i] = wish[i]
    BY <1>1, <1>2, <1>4, <2>1
  <2> QED
    BY <1>1, <2>1, <2>2, SeqEqual
<1>5. ASSUME Len(list) >= Len(base)
      PROVE  SubSeq(new, Len(wish) + 1, Len(new)) = SubSeq(list, Len(base) + 1, Len(list))
  <2> DEFINE s == SubSeq(new, Len(wish) + 1, Len(new))
             t == SubSeq(list, Len(base) + 1, Len(list))
             n == Len(list) - Len(base)
  <2>1. n \in Nat /\ Len(new) = Len(wish) + n /\ Len(list) = Len(base) + n
    BY <1>1, <1>2, <1>5
  <2>2. s = [k \in 1..n |-> new[Len(wish) + k]]
    <3>1. s = [k \in 1..(Len(new) - (Len(wish) + 1) + 1) |-> new[Len(wish) + 1 + k - 1]]
      OBVIOUS
    <3>2. Len(new) - (Len(wish) + 1) + 1 = n /\ \A k \in 1..n : Len(wish) + 1 + k - 1 = Len(wish) + k
      BY <1>2, <2>1
    <3> QED
      BY <3>1, <3>2
  <2>3. t = [k \in 1..n |-> list[Len(base) + k]]
    <3>1. t = [k \in 1..(Len(list) - (Len(base) + 1) + 1) |-> list[Len(base) + 1 + k - 1]]
      OBVIOUS
    <3>2. Len(list) - (Len(base) + 1) + 1 = n /\ \A k \in 1..n : Len(base) + 1 + k - 1 = Len(base) + k
      BY <1>2, <2>1
    <3> QED
      BY <3>1, <3>2
  <2>4. ASSUME NEW k \in 1..n PROVE new[Len(wish) + k] = list[Len(base) + k]
    <3>1. /\ Len(wish) + k \in Len(wish) + 1 .. Len(new)
          /\ (Len(wish) + k) + Len(base) - Len(wish) = Len(base) + k
      BY <1>2, <2>1
    <3> QED
      BY <1>1, <3>1
  <2> HIDE DEF s, t, n
  <2> QED
    BY <2>2, <2>3, <2>4 DEF s, t
<1> QED
  BY <1>3, <1>4, <1>5 DEF KeepsList, KeepsField, new

(* An edit keeps what the user left as it was. *)
LEMMA EditLemma ==
  ASSUME NEW o \in Objects, NEW arg \in Manifests, Admits("edit", o, arg)
  PROVE  KeepsEdits(o, arg.base, arg.wish, Effect("edit", o, arg))
<1> DEFINE new == Effect("edit", o, arg)
<1>1. new = Edited(o, arg.base, arg.wish)
  BY DEF Effect
<1>2. /\ arg.base \in Objects /\ arg.wish \in Objects
      /\ new.replicas = IF arg.wish.replicas = arg.base.replicas THEN o.replicas ELSE arg.wish.replicas
      /\ new.flags = (o.flags \ (arg.base.flags \ arg.wish.flags)) \cup (arg.wish.flags \ arg.base.flags)
      /\ new.containers = Patched(o.containers, arg.base.containers, arg.wish.containers)
  BY <1>1 DEF Edited, Manifests, Objects
<1> HIDE DEF new
<1>3. KeepsField(o.replicas, arg.base.replicas, arg.wish.replicas, new.replicas)
  BY <1>2 DEF KeepsField
<1>4. ASSUME NEW f \in Flags
      PROVE  KeepsField(f \in o.flags, f \in arg.base.flags, f \in arg.wish.flags, f \in new.flags)
  <2>1. ASSUME f \in arg.base.flags <=> f \in arg.wish.flags PROVE f \in new.flags <=> f \in o.flags
    BY <1>2, <2>1
  <2> QED
    BY <2>1 DEF KeepsField
<1>5. KeepsList(o.containers, arg.base.containers, arg.wish.containers, new.containers)
  <2>1. Longer(arg.base.containers, arg.wish.containers) # 0
          => Len(o.containers) >= Len(arg.base.containers)
    BY DEF Admits, Finds
  <2>2. /\ o.containers \in Seq(Containers) /\ arg.base.containers \in Seq(Containers)
        /\ arg.wish.containers \in Seq(Containers)
    BY <1>2 DEF Objects
  <2> QED
    BY <1>2, <2>1, <2>2, ListLemma
<1> QED
  BY <1>3, <1>4, <1>5 DEF KeepsEdits, new

-----------------------------------------------------------------------------
(* What a step may do to the calls.                                          *)

LEMMA SeqLemma ==
  ASSUME NEW S, NEW s \in Seq(S)
  PROVE  /\ Len(s) \in Nat /\ DOMAIN s = 1..Len(s)
         /\ \A i \in DOMAIN s : s[i] \in S
         /\ \A t : t \in [DOMAIN s -> S] => t \in Seq(S)
  OBVIOUS

(* A call is put in the place of another: the rest stays as it is.           *)
LEMMA PutLemma ==
  ASSUME NEW cs, CallsOf(cs), NEW i \in DOMAIN cs, NEW c, CallInv(c)
  PROVE  /\ CallsOf([cs EXCEPT ![i] = c])
         /\ DOMAIN [cs EXCEPT ![i] = c] = DOMAIN cs
         /\ \A j \in DOMAIN cs : [cs EXCEPT ![i] = c][j] = IF j = i THEN c ELSE cs[j]
<1> DEFINE t == [cs EXCEPT ![i] = c]
<1>1. /\ DOMAIN t = DOMAIN cs
      /\ \A j \in DOMAIN cs : t[j] = IF j = i THEN c ELSE cs[j]
  BY SeqLemma DEF CallsOf
<1> HIDE DEF t
<1>2. t \in [DOMAIN cs -> CallRecord]
  <2>1. \A j \in DOMAIN cs : t[j] \in CallRecord
    BY <1>1 DEF CallsOf, CallInv
  <2>2. t = [j \in DOMAIN cs |-> t[j]]
    BY <1>1 DEF t, CallsOf
  <2> QED
    BY <2>1, <2>2
<1>3. t \in Seq(CallRecord)
  BY <1>2, SeqLemma DEF CallsOf
<1>4. CallsOf(t)
  BY <1>1, <1>3 DEF CallsOf
<1> QED
  BY <1>1, <1>4 DEF t

(* One call goes on: it keeps its dialog, its name, its argument, and what   *)
(* waits for it.                                                              *)
LEMMA OneGoesOn ==
  ASSUME IInv, NEW i \in DOMAIN calls, NEW c, CallInv(c),
         calls' = [calls EXCEPT ![i] = c],
         c.dialog = calls[i].dialog, c.held = calls[i].held,
         c.step # "done", calls[i].step # "done", UNCHANGED loading
  PROVE  CallsOf(calls)' /\ Waiting(calls, loading)'
<1>1. /\ CallsOf(calls') /\ DOMAIN calls' = DOMAIN calls
      /\ \A j \in DOMAIN calls : calls'[j] = IF j = i THEN c ELSE calls[j]
  BY PutLemma DEF IInv
<1>2. /\ \A j \in DOMAIN calls : IsPending(calls'[j]) <=> IsPending(calls[j])
      /\ \A j \in DOMAIN calls : calls'[j].dialog = calls[j].dialog
  BY <1>1 DEF IsPending
<1>3. Waiting(calls', loading')
  BY <1>1, <1>2 DEF IInv, Waiting
<1> QED
  BY <1>1, <1>3

LEMMA Rest ==
  ASSUME IInv, Types', UNCHANGED <<calls, loading>>
  PROVE  IInv'
  BY DEF IInv, CallsOf, Waiting

(* Closing the open dialog.                                                   *)
LEMMA CloseLemma ==
  ASSUME NEW cs, NEW busy, CallsOf(cs), Waiting(cs, busy), Close(cs, busy)
  PROVE  /\ CallsOf(calls') /\ Waiting(calls', loading') /\ loading' \subseteq busy
         /\ open' = "" /\ draft' = Unloaded
         /\ DOMAIN calls' = DOMAIN cs
         /\ \A j \in DOMAIN cs : /\ calls'[j].applied = cs[j].applied
                                 /\ calls'[j].dialog = cs[j].dialog
<1> DEFINE out(c) == open = "edit" /\ c.dialog = "edit" /\ c.held = "dialog"
<1>1. /\ DOMAIN calls' = DOMAIN cs
      /\ \A j \in DOMAIN cs : calls'[j] = IF out(cs[j]) THEN [cs[j] EXCEPT !.held = "menu"] ELSE cs[j]
  BY DEF Close
<1>2. ASSUME NEW j \in DOMAIN cs
      PROVE  /\ CallInv(calls'[j])
             /\ calls'[j].dialog = cs[j].dialog /\ calls'[j].applied = cs[j].applied
             /\ IsPending(calls'[j]) <=> IsPending(cs[j]) /\ ~(open = "edit" /\ cs[j].dialog = "edit")
  <2>1. CallInv(cs[j])
    BY DEF CallsOf
  <2>2. CASE out(cs[j])
    <3>1. calls'[j] = [cs[j] EXCEPT !.held = "menu"]
      BY <1>1, <2>2
    <3>2. /\ calls'[j] \in CallRecord /\ calls'[j].held = "menu"
          /\ calls'[j].dialog = cs[j].dialog /\ calls'[j].applied = cs[j].applied
          /\ calls'[j].arg = cs[j].arg /\ calls'[j].step = cs[j].step
          /\ calls'[j].notice = cs[j].notice /\ calls'[j].name = cs[j].name
      BY <3>1, <2>1 DEF CallInv, CallRecord
    <3> QED
      BY <2>1, <2>2, <3>2 DEF CallInv, AppliedInv, ArgOf, IsPending
  <2>3. CASE ~out(cs[j])
    BY <2>1, <2>3, <1>1 DEF IsPending
  <2> QED
    BY <2>2, <2>3
<1> HIDE DEF out
<1>3. CallsOf(calls')
  <2>1. calls' = [j \in DOMAIN cs |-> calls'[j]]
    BY <1>1 DEF Close
  <2>2. calls' \in [DOMAIN cs -> CallRecord]
    BY <2>1, <1>2 DEF CallInv
  <2>3. calls' \in Seq(CallRecord)
    BY <2>2, SeqLemma DEF CallsOf
  <2> QED
    BY <2>3, <1>1, <1>2 DEF CallsOf
<1>4. loading' = IF open = "edit" THEN busy \ {"edit"} ELSE busy
  BY DEF Close
<1>5. Waiting(calls', loading')
  BY <1>1, <1>2, <1>4 DEF Waiting
<1> QED
  BY <1>1, <1>2, <1>3, <1>4, <1>5 DEF Close

-----------------------------------------------------------------------------
LEMMA InitIInv == Init => IInv
<1> SUFFICES ASSUME Init PROVE IInv
  OBVIOUS
<1>1. Fresh \in Objects
  BY DEF Fresh, Objects, Flags, Conditions, Containers
<1>2. Types
  BY <1>1 DEF Init, Types, Drafts, Unloaded
<1>3. CallsOf(calls) /\ Waiting(calls, loading)
  <2>1. calls = <<>> /\ loading = {}
    BY DEF Init
  <2>2. calls \in Seq(CallRecord) /\ Len(calls) = 0
    BY <2>1
  <2>3. DOMAIN calls = {}
    BY <2>2, SeqLemma
  <2> QED
    BY <2>1, <2>2, <2>3 DEF CallsOf, Waiting
<1> QED
  BY <1>2, <1>3 DEF IInv

LEMMA UserStep ==
  ASSUME IInv,
         \/ \E d \in Menu(resource) : Choose(d)
         \/ \E n \in Typed : Type(n)
         \/ draft.state = "loaded" /\ \E w \in Wishes(draft.base) : EditManifest(w)
         \/ LoadManifest \/ LoadManifestFails
         \/ \E n \in Names : Others(n)
  PROVE  IInv'
<1>1. CASE \E d \in Menu(resource) : Choose(d)
  BY <1>1, Rest DEF IInv, Types, Choose
<1>2. CASE \E n \in Typed : Type(n)
  BY <1>2, Rest DEF IInv, Types, Type
<1>3. CASE draft.state = "loaded" /\ \E w \in Wishes(draft.base) : EditManifest(w)
  <2>1. PICK w \in Wishes(draft.base) : EditManifest(w)
    BY <1>3
  <2>2. draft \in [state : {"loaded"}, base : Objects, wish : Objects]
    <3>1. Unloaded.state # "loaded" /\ LoadFailed.state # "loaded"
      BY DEF Unloaded, LoadFailed
    <3> QED
      BY <1>3, <3>1 DEF IInv, Types, Drafts
  <2>3. w \in Objects
    <3> DEFINE l == draft.base.containers
    <3>1. draft.base \in Objects /\ l \in Seq(Containers) /\ "debug" \in Containers
      BY <2>2 DEF Objects, Containers
    <3>2. SubSeq(l, 2, Len(l)) \in Seq(Containers) /\ <<"debug">> \in Seq(Containers)
      BY <3>1, SubSeqLemma
    <3>3. \A m \in {Append(l, "debug"), SubSeq(l, 2, Len(l)), <<"debug">> \o SubSeq(l, 2, Len(l))} :
            m \in Seq(Containers)
      <4>1. Append(l, "debug") \in Seq(Containers)
        BY <3>1, AppendProperties
      <4>2. <<"debug">> \o SubSeq(l, 2, Len(l)) \in Seq(Containers)
        BY <3>2, ConcatProperties
      <4> QED
        BY <3>2, <4>1, <4>2
    <3>4. \A m \in Seq(Containers) : [draft.base EXCEPT !.containers = m] \in Objects
      BY <3>1 DEF Objects
    <3>5. [draft.base EXCEPT !.replicas = 2, !.flags = {"restarted"}] \in Objects
      BY <3>1 DEF Objects, Flags
    <3> QED
      BY <3>3, <3>4, <3>5 DEF Wishes
  <2>4. draft' \in [state : {"loaded"}, base : Objects, wish : Objects]
    BY <2>1, <2>2, <2>3 DEF EditManifest
  <2> QED
    BY <2>1, <2>4, Rest DEF IInv, Types, EditManifest, Drafts
<1>4. CASE LoadManifest
  <2>1. object[row] \in Objects
    BY DEF IInv, Types
  <2>2. draft' \in Drafts
    BY <1>4, <2>1 DEF LoadManifest, Drafts, Loaded, LoadFailed
  <2> QED
    BY <1>4, <2>2, Rest DEF IInv, Types, LoadManifest
<1>5. CASE LoadManifestFails
  BY <1>5, Rest DEF IInv, Types, LoadManifestFails, Drafts
<1>6. CASE \E n \in Names : Others(n)
  <2>1. PICK n \in Names : Others(n)
    BY <1>6
  <2>2. object[n] \in Objects /\ object \in [Names -> Objects]
    BY DEF IInv, Types
  <2>3. \A o \in Changes(object[n]) : o \in Objects
    <3> DEFINE o == object[n]
    <3>1. o.containers \in Seq(Containers) /\ <<"debug">> \in Seq(Containers)
      BY <2>2 DEF Objects, Containers
    <3>2. /\ <<"debug">> \o o.containers \in Seq(Containers)
          /\ SubSeq(o.containers, 2, Len(o.containers)) \in Seq(Containers)
      BY <3>1, SubSeqLemma, ConcatProperties
    <3>3. [o EXCEPT !.alive = FALSE] \in Objects
      BY <2>2 DEF Objects
    <3>4. [o EXCEPT !.replicas = 3, !.flags = @ \cup {"reconciled"}, !.containers = <<"debug">> \o @]
            \in Objects
      BY <2>2, <3>2 DEF Objects, Flags
    <3>5. [o EXCEPT !.flags = {}, !.containers = SubSeq(@, 2, Len(@))] \in Objects
      BY <2>2, <3>2 DEF Objects, Flags
    <3> QED
      BY <3>3, <3>4, <3>5 DEF Changes
  <2>4. \E o \in Objects : object' = [object EXCEPT ![n] = o]
    BY <2>1, <2>3 DEF Others
  <2>5. object' \in [Names -> Objects]
    BY <2>2, <2>4
  <2> QED
    BY <2>1, <2>5, Rest DEF IInv, Types, Others
<1> QED
  BY <1>1, <1>2, <1>3, <1>4, <1>5, <1>6

LEMMA DismissStep == IInv /\ Dismiss => IInv'
<1> SUFFICES ASSUME IInv, Dismiss PROVE IInv'
  OBVIOUS
<1>1. /\ CallsOf(calls') /\ Waiting(calls', loading') /\ loading' \subseteq loading
      /\ open' = "" /\ draft' = Unloaded
  BY CloseLemma DEF Dismiss, IInv
<1>2. Types'
  BY <1>1 DEF Dismiss, IInv, Types, Drafts
<1> QED
  BY <1>1, <1>2 DEF IInv

(* The new call is the only one its dialog waits for: none was pending,      *)
(* because the dialog was not loading.                                        *)
LEMMA ConfirmStep ==
  ASSUME IInv, NEW d \in Menu(resource), Confirm(d)
  PROVE  IInv'
<1> DEFINE c == NewCall(d)
<1>1. d \in Confirmed /\ open = d /\ d \notin loading
  BY MenuLemma DEF Confirm, Confirmed
<1>2. Arg(d) \in Int \cup Manifests \cup {None} /\ ArgOf(d, Arg(d))
  <2>1. CASE d = "scale"
    <3>1. input \in Typed \cup {0}
      BY DEF IInv, Types
    <3>2. Body(input) \in Int
      BY <3>1, BodyLemma
    <3> QED
      BY <2>1, <3>2 DEF Arg, ArgOf
  <2>2. CASE d = "edit"
    <3>1. draft.base \in Objects /\ draft.wish \in Objects
      <4>1. Unloaded.state # "loaded" /\ LoadFailed.state # "loaded"
        BY DEF Unloaded, LoadFailed
      <4>2. draft.state = "loaded"
        BY <2>2 DEF Confirm
      <4> QED
        BY <4>1, <4>2 DEF IInv, Types, Drafts
    <3>2. Arg(d) = [base |-> draft.base, wish |-> draft.wish]
      BY <2>2 DEF Arg
    <3> QED
      BY <2>2, <3>1, <3>2 DEF ArgOf, Manifests
  <2>3. CASE d \notin {"scale", "edit"}
    BY <2>3 DEF Arg, ArgOf
  <2> QED
    BY <2>1, <2>2, <2>3
<1>3. /\ c.dialog = d /\ c.arg = Arg(d) /\ c.name = row /\ c.held = "dialog" /\ c.step = "lookup"
      /\ c.notice = None /\ c \in CallRecord
  BY <1>1, <1>2 DEF NewCall, CallRecord, IInv, Types
<1>4. CallInv(c)
  BY <1>2, <1>3, NoneAssumption DEF CallInv, AppliedInv
<1>5. /\ calls' = Append(calls, c) /\ loading' = loading \cup {d}
      /\ UNCHANGED <<resource, object, row, open, input, draft>>
  BY DEF Confirm, LoadingSet
<1> HIDE DEF c
<1>6. /\ calls' \in Seq(CallRecord) /\ Len(calls') = Len(calls) + 1
      /\ DOMAIN calls' = DOMAIN calls \cup {Len(calls) + 1}
      /\ \A i \in DOMAIN calls : calls'[i] = calls[i]
      /\ calls'[Len(calls) + 1] = c /\ Len(calls) + 1 \notin DOMAIN calls
  <2>1. calls \in Seq(CallRecord) /\ c \in CallRecord
    BY <1>3 DEF IInv, CallsOf
  <2>2. /\ calls' \in Seq(CallRecord) /\ Len(calls') = Len(calls) + 1
        /\ \A i \in 1..Len(calls) : calls'[i] = calls[i]
        /\ calls'[Len(calls) + 1] = c
    BY <2>1, <1>5
  <2>3. /\ Len(calls) \in Nat /\ DOMAIN calls = 1..Len(calls)
        /\ DOMAIN calls' = 1..Len(calls')
    BY <2>1, <2>2, SeqLemma
  <2> QED
    BY <2>2, <2>3
<1>7. CallsOf(calls')
  BY <1>4, <1>6 DEF IInv, CallsOf
<1>8. \A i \in DOMAIN calls : IsPending(calls[i]) => calls[i].dialog # d
  BY <1>1 DEF IInv, Waiting
<1>9. IsPending(c)
  BY <1>3 DEF IsPending
<1>10. Waiting(calls', loading')
  BY <1>3, <1>5, <1>6, <1>8, <1>9 DEF IInv, Waiting
<1>11. Types'
  BY <1>1, <1>5 DEF IInv, Types, Confirmed
<1> QED
  BY <1>7, <1>10, <1>11 DEF IInv

(* The steps of a call up to its answer. *)
LEMMA GoesOnStep ==
  ASSUME IInv, NEW i \in DOMAIN calls, Lookup(i) \/ Read(i) \/ CallFails(i)
  PROVE  /\ IInv' /\ DOMAIN calls' = DOMAIN calls
         /\ \A j \in DOMAIN calls : calls'[j].applied = calls[j].applied
<1> DEFINE step(s) == [calls[i] EXCEPT !.step = s]
           fails(w) == [calls[i] EXCEPT !.step = "failed", !.why = w]
<1>1. CallInv(calls[i]) /\ calls[i] \in CallRecord
  BY DEF IInv, CallsOf, CallInv
<1>2. calls[i].step # "done"
  BY DEF Lookup, Read, CallFails
<1>3. PICK c \in {step("read"), step("send"), fails("gone"), fails("fault")} : calls' = [calls EXCEPT ![i] = c]
  <2>1. CASE Lookup(i)
    BY <2>1 DEF Lookup, Goto
  <2>2. CASE Read(i)
    BY <2>2 DEF Read, Goto, Fails
  <2>3. CASE CallFails(i)
    BY <2>3 DEF CallFails, Fails
  <2> QED
    BY <2>1, <2>2, <2>3
<1>4. /\ c \in CallRecord /\ c.dialog = calls[i].dialog /\ c.held = calls[i].held
      /\ c.name = calls[i].name /\ c.arg = calls[i].arg /\ c.applied = calls[i].applied
      /\ c.notice = calls[i].notice /\ c.step \in {"read", "send", "failed"}
  BY <1>1, <1>3 DEF CallRecord
<1>5. CallInv(c)
  BY <1>1, <1>4 DEF CallInv, AppliedInv
<1>6. UNCHANGED <<resource, object, row, open, loading, input, draft>>
  BY DEF Lookup, Read, CallFails
<1>7. CallsOf(calls)' /\ Waiting(calls, loading)'
  BY <1>2, <1>3, <1>4, <1>5, <1>6, OneGoesOn
<1>8. Types'
  BY <1>6 DEF IInv, Types
<1>9. DOMAIN calls' = DOMAIN calls /\ \A j \in DOMAIN calls : calls'[j].applied = calls[j].applied
  BY <1>3, <1>4, <1>5, PutLemma DEF IInv
<1> QED
  BY <1>7, <1>8, <1>9 DEF IInv

(* The API server answers: it refuses, or the object the call names changes. *)
LEMMA ServeStep ==
  ASSUME IInv, NEW i \in DOMAIN calls, Serve(i)
  PROVE  /\ IInv' /\ DOMAIN calls' = DOMAIN calls
         /\ \A j \in DOMAIN calls : j # i => calls'[j].applied = calls[j].applied
<1> DEFINE n == calls[i].name
           d == calls[i].dialog
           refused(w) == [calls[i] EXCEPT !.step = "failed", !.why = w]
           done == [calls[i] EXCEPT !.step = "answered", !.applied = n]
<1>1. CallInv(calls[i]) /\ calls[i] \in CallRecord
  BY DEF IInv, CallsOf, CallInv
<1>2. calls[i].step = "send" /\ UNCHANGED <<resource, row, open, loading, input, draft>>
  BY DEF Serve
<1>3. \/ /\ UNCHANGED object
         /\ \E w \in {"path", "gone", "refused"} : calls' = [calls EXCEPT ![i] = refused(w)]
      \/ /\ Admits(d, object[n], calls[i].arg)
         /\ object' = [object EXCEPT ![n] = Effect(d, object[n], calls[i].arg)]
         /\ calls' = [calls EXCEPT ![i] = done]
  BY DEF Serve, Target, OnRefusal, Fails
<1>4. PICK c \in {refused("path"), refused("gone"), refused("refused"), done} :
        calls' = [calls EXCEPT ![i] = c]
  BY <1>3
<1>5. /\ c \in CallRecord /\ c.dialog = calls[i].dialog /\ c.held = calls[i].held
      /\ c.name = calls[i].name /\ c.arg = calls[i].arg /\ c.notice = calls[i].notice
      /\ \/ c.step = "failed" /\ c.applied = calls[i].applied
         \/ c.step = "answered" /\ c.applied = c.name
  BY <1>1, <1>4 DEF CallRecord
<1>6. CallInv(c)
  BY <1>1, <1>5 DEF CallInv, AppliedInv
<1>7. CallsOf(calls)' /\ Waiting(calls, loading)'
  BY <1>2, <1>4, <1>5, <1>6, OneGoesOn
<1>8. object' \in [Names -> Objects]
  <2>1. object \in [Names -> Objects] /\ n \in Names /\ d \in Confirmed /\ ArgOf(d, calls[i].arg)
    BY <1>1 DEF IInv, Types, CallInv, CallRecord
  <2>2. Admits(d, object[n], calls[i].arg) => Effect(d, object[n], calls[i].arg) \in Objects
    BY <2>1, EffectLemma
  <2> QED
    BY <1>3, <2>1, <2>2
<1>9. Types'
  BY <1>2, <1>8 DEF IInv, Types
<1>10. DOMAIN calls' = DOMAIN calls /\ \A j \in DOMAIN calls : j # i => calls'[j].applied = calls[j].applied
  BY <1>4, <1>6, PutLemma DEF IInv
<1> QED
  BY <1>7, <1>9, <1>10 DEF IInv

(* The result is reported, and the dialog that waited for it is free again.  *)
LEMMA FinishStep ==
  ASSUME IInv, NEW i \in DOMAIN calls, Finish(i)
  PROVE  /\ IInv' /\ DOMAIN calls' = DOMAIN calls
         /\ \A j \in DOMAIN calls : calls'[j].applied = calls[j].applied
<1> DEFINE c == [calls[i] EXCEPT !.step = "done",
                   !.notice = IF calls[i].step = "answered" THEN "success" ELSE "error"]
           ended == [calls EXCEPT ![i] = c]
           busy == IF calls[i].held = "dialog" THEN loading \ {calls[i].dialog} ELSE loading
<1>1. CallInv(calls[i]) /\ calls[i] \in CallRecord /\ calls[i].step \in {"answered", "failed"}
  BY DEF IInv, CallsOf, CallInv, Finish
<1>2. /\ c \in CallRecord /\ c.dialog = calls[i].dialog /\ c.name = calls[i].name
      /\ c.arg = calls[i].arg /\ c.applied = calls[i].applied /\ c.step = "done"
      /\ c.notice = "success" => calls[i].step = "answered"
  BY <1>1 DEF CallRecord
<1>3. CallInv(c)
  BY <1>1, <1>2 DEF CallInv, AppliedInv
<1>4. /\ IF calls[i].held # "none" THEN Close(ended, busy)
         ELSE calls' = ended /\ UNCHANGED <<open, loading, draft>>
      /\ UNCHANGED <<resource, object, row, input>>
  BY DEF Finish, EndsDialog
<1> HIDE DEF c
<1>5. /\ CallsOf(ended) /\ DOMAIN ended = DOMAIN calls
      /\ \A j \in DOMAIN calls : ended[j] = IF j = i THEN c ELSE calls[j]
  BY <1>3, PutLemma DEF IInv
<1> HIDE DEF ended
<1>6. Waiting(ended, busy)
  <2>1. \A j \in DOMAIN calls : IsPending(ended[j]) <=> j # i /\ IsPending(calls[j])
    BY <1>2, <1>5 DEF IsPending
  <2>2. \A j \in DOMAIN calls : ended[j].dialog = calls[j].dialog
    BY <1>2, <1>5
  <2>3. calls[i].held = "dialog" => IsPending(calls[i])
    BY <1>1 DEF IsPending
  <2>4. Waiting(calls, loading)
    BY DEF IInv
  <2>5. ASSUME NEW j \in DOMAIN calls, IsPending(ended[j])
        PROVE  ended[j].dialog \in busy
    BY <2>1, <2>2, <2>3, <2>4, <2>5 DEF Waiting
  <2>6. ASSUME NEW d \in busy
        PROVE  \E j \in DOMAIN calls : IsPending(ended[j]) /\ ended[j].dialog = d
    <3>1. d \in loading
      OBVIOUS
    <3>2. PICK j \in DOMAIN calls : IsPending(calls[j]) /\ calls[j].dialog = d
      BY <3>1, <2>4 DEF Waiting
    <3>3. j # i
      <4>1. SUFFICES ASSUME j = i PROVE FALSE
        OBVIOUS
      <4>2. calls[i].held = "dialog" /\ calls[i].dialog = d
        BY <3>2, <4>1 DEF IsPending
      <4> QED
        BY <4>2
    <3> QED
      BY <2>1, <2>2, <3>2, <3>3
  <2>7. \A j, k \in DOMAIN calls : IsPending(ended[j]) /\ IsPending(ended[k])
          /\ ended[j].dialog = ended[k].dialog => j = k
    BY <2>1, <2>2, <2>4 DEF Waiting
  <2> HIDE DEF busy
  <2> QED
    BY <1>5, <2>5, <2>6, <2>7 DEF Waiting
<1>7. \A j \in DOMAIN calls : ended[j].applied = calls[j].applied
  BY <1>2, <1>5
<1>8. busy \subseteq loading
  OBVIOUS
<1> HIDE DEF busy
<1>9. CASE calls[i].held # "none"
  <2>1. /\ CallsOf(calls') /\ Waiting(calls', loading') /\ loading' \subseteq busy
        /\ open' = "" /\ draft' = Unloaded /\ DOMAIN calls' = DOMAIN ended
        /\ \A j \in DOMAIN ended : calls'[j].applied = ended[j].applied
    BY <1>4, <1>5, <1>6, <1>9, CloseLemma
  <2>2. Types'
    BY <1>4, <1>8, <2>1 DEF IInv, Types, Drafts
  <2> QED
    BY <1>5, <1>7, <2>1, <2>2 DEF IInv
<1>10. CASE calls[i].held = "none"
  <2>1. calls' = ended /\ loading' = loading /\ Types'
    BY <1>4, <1>10 DEF IInv, Types
  <2>2. busy = loading
    BY <1>10 DEF busy
  <2> QED
    BY <1>5, <1>6, <1>7, <2>1, <2>2 DEF IInv
<1> QED
  BY <1>9, <1>10

(* After a refresh nothing waits for the calls of the old menu.               *)
LEMMA RefreshStep ==
  ASSUME IInv, Refresh
  PROVE  /\ IInv' /\ DOMAIN calls' = DOMAIN calls
         /\ \A j \in DOMAIN calls : calls'[j].applied = calls[j].applied
<1>1. /\ DOMAIN calls' = DOMAIN calls /\ loading' = {}
      /\ \A j \in DOMAIN calls : calls'[j] = [calls[j] EXCEPT !.held = "none"]
  BY DEF Refresh
<1>2. ASSUME NEW j \in DOMAIN calls
      PROVE  CallInv(calls'[j]) /\ ~IsPending(calls'[j]) /\ calls'[j].applied = calls[j].applied
  <2>1. CallInv(calls[j])
    BY DEF IInv, CallsOf
  <2>2. /\ calls'[j] \in CallRecord /\ calls'[j].held = "none"
        /\ calls'[j].dialog = calls[j].dialog /\ calls'[j].applied = calls[j].applied
        /\ calls'[j].arg = calls[j].arg /\ calls'[j].step = calls[j].step
        /\ calls'[j].notice = calls[j].notice /\ calls'[j].name = calls[j].name
    BY <1>1, <2>1 DEF CallInv, CallRecord
  <2> QED
    BY <2>1, <2>2 DEF CallInv, AppliedInv, ArgOf, IsPending
<1>3. CallsOf(calls')
  <2>1. calls' = [j \in DOMAIN calls |-> calls'[j]]
    BY <1>1 DEF Refresh
  <2>2. calls' \in [DOMAIN calls -> CallRecord]
    BY <2>1, <1>2 DEF CallInv
  <2>3. calls' \in Seq(CallRecord)
    BY <2>2, SeqLemma DEF IInv, CallsOf
  <2> QED
    BY <2>3, <1>1, <1>2 DEF CallsOf
<1>4. Waiting(calls', loading')
  BY <1>1, <1>2 DEF Waiting
<1>5. Types'
  BY DEF Refresh, IInv, Types, Drafts
<1> QED
  BY <1>1, <1>2, <1>3, <1>4, <1>5 DEF IInv

-----------------------------------------------------------------------------
LEMMA Inductive == IInv /\ [Next]_vars => IInv'
<1> SUFFICES ASSUME IInv, [Next]_vars PROVE IInv'
  OBVIOUS
<1>1. CASE \/ \E d \in Menu(resource) : Choose(d)
           \/ \E n \in Typed : Type(n)
           \/ draft.state = "loaded" /\ \E w \in Wishes(draft.base) : EditManifest(w)
           \/ LoadManifest \/ LoadManifestFails
           \/ \E n \in Names : Others(n)
  BY <1>1, UserStep
<1>2. CASE Dismiss
  BY <1>2, DismissStep
<1>3. CASE \E d \in Menu(resource) : Confirm(d)
  BY <1>3, ConfirmStep
<1>4. CASE \E i \in DOMAIN calls : Call(i) \/ CallFails(i)
  BY <1>4, GoesOnStep, ServeStep, FinishStep DEF Call
<1>5. CASE Refresh
  BY <1>5, RefreshStep
<1>6. CASE UNCHANGED vars
  <2>1. Types'
    BY <1>6 DEF vars, IInv, Types
  <2> QED
    BY <1>6, <2>1, Rest DEF vars
<1> QED
  BY <1>1, <1>2, <1>3, <1>4, <1>5, <1>6 DEF Next

(* The invariant holds in every state the menu can reach.                     *)
THEOREM Invariance == Spec => []IInv
<1> QED
  BY InitIInv, Inductive, PTL DEF Spec

(* Every variable holds what its part of the menu may hold.  A request may    *)
(* ask for a negative number of replicas (Scale.tsx:103); no object ever has  *)
(* one, because the request is refused.                                       *)
THEOREM TypeCorrect == Spec => []TypeOK
<1>1. IInv => TypeOK
  <2> SUFFICES ASSUME IInv PROVE TypeOK
    OBVIOUS
  <2>1. \A i \in DOMAIN calls : TypeOKCall(calls[i])
    BY DEF IInv, CallsOf, CallInv, ArgOf, CallRecord, TypeOKCall, Confirmed
  <2>2. draft.state = "loaded" => [base |-> draft.base, wish |-> draft.wish] \in Manifests
    <3>1. Unloaded.state # "loaded" /\ LoadFailed.state # "loaded"
      BY DEF Unloaded, LoadFailed
    <3> QED
      BY <3>1 DEF IInv, Types, Drafts, Manifests
  <2> QED
    BY <2>1, <2>2 DEF IInv, Types, TypeOK
<1> QED
  BY <1>1, Invariance, PTL

(* A success is reported only when the API server did to the object what the  *)
(* dialog named when it was confirmed.                                        *)
THEOREM SuccessIsReal == Spec => []SuccessIsApplied
<1>1. IInv => SuccessIsApplied
  BY DEF IInv, CallsOf, CallInv, AppliedInv, SuccessIsApplied
<1> QED
  BY <1>1, Invariance, PTL

(* A dialog's button is disabled exactly while one call it hears of is        *)
(* under way.                                                                 *)
THEOREM ButtonsAreSafe == Spec => []OneCallPerDialog
<1>1. IInv => OneCallPerDialog
  <2> SUFFICES ASSUME IInv, NEW d \in Menu(resource)
               PROVE  Cardinality({i \in DOMAIN calls :
                        calls[i].dialog = d /\ calls[i].held = "dialog" /\ calls[i].step # "done"})
                        = (IF d \in loading THEN 1 ELSE 0)
    BY DEF OneCallPerDialog
  <2> DEFINE pending == {i \in DOMAIN calls :
               calls[i].dialog = d /\ calls[i].held = "dialog" /\ calls[i].step # "done"}
  <2>1. CASE d \in loading
    <3>1. PICK i \in DOMAIN calls : IsPending(calls[i]) /\ calls[i].dialog = d
      BY <2>1 DEF IInv, Waiting
    <3>2. pending = {i}
      BY <3>1 DEF IInv, Waiting, IsPending
    <3> QED
      BY <2>1, <3>2, FS_Singleton
  <2>2. CASE d \notin loading
    <3>1. pending = {}
      BY <2>2 DEF IInv, Waiting, IsPending
    <3> QED
      BY <2>2, <3>1, FS_EmptySet
  <2> QED
    BY <2>1, <2>2
<1> QED
  BY <1>1, Invariance, PTL

(* Saving an edited manifest keeps the fields and the lists the user left as  *)
(* they were, whoever changed them; a list nobody else changed becomes what   *)
(* the user wanted, and of a list that both changed, what stands behind the   *)
(* elements the user has seen is kept (Edit.tsx:72-85).                       *)
THEOREM EditsMerge == Spec => EditKeepsOthers
<1> DEFINE Keeps ==
      \A i \in 1..MaxCalls : Saves(i) =>
        KeepsEdits(object[calls[i].name], calls[i].arg.base, calls[i].arg.wish,
                   object'[calls[i].name])
<1>1. IInv /\ [Next]_vars => [Keeps]_vars
  <2> SUFFICES ASSUME IInv, Next, NEW i \in DOMAIN calls, Saves(i)
               PROVE  KeepsEdits(object[calls[i].name], calls[i].arg.base, calls[i].arg.wish,
                                 object'[calls[i].name])
    BY DEF Saves
  <2>1. calls'[i].applied # calls[i].applied /\ calls[i].dialog = "edit" /\ calls[i].applied = None
    BY DEF Saves
  <2>2. calls' # calls
    BY <2>1
  <2>3. Serve(i)
    <3>1. CASE Dismiss
      BY <3>1, <2>1, CloseLemma DEF Dismiss, IInv
    <3>2. CASE \E d \in Menu(resource) : Confirm(d)
      <4>1. calls'[i] = calls[i]
        <5>1. PICK c : calls' = Append(calls, c)
          BY <3>2 DEF Confirm
        <5>2. calls \in Seq(CallRecord) /\ i \in 1..Len(calls)
          BY DEF IInv, CallsOf
        <5> QED
          BY <5>1, <5>2
      <4> QED
        BY <4>1, <2>1
    <3>3. CASE \E j \in DOMAIN calls : Call(j) \/ CallFails(j)
      <4>1. PICK j \in DOMAIN calls : Call(j) \/ CallFails(j)
        BY <3>3
      <4>2. Serve(j) /\ j = i
        BY <4>1, <2>1, GoesOnStep, ServeStep, FinishStep DEF Call
      <4> QED
        BY <4>2
    <3>4. CASE Refresh
      BY <3>4, <2>1, RefreshStep
    <3>5. CASE \/ \E d \in Menu(resource) : Choose(d)
               \/ \E n \in Typed : Type(n)
               \/ draft.state = "loaded" /\ \E w \in Wishes(draft.base) : EditManifest(w)
               \/ LoadManifest \/ LoadManifestFails
               \/ \E n \in Names : Others(n)
      BY <3>5, <2>2 DEF Choose, Type, EditManifest, LoadManifest, LoadManifestFails, Others
    <3> QED
      BY <3>1, <3>2, <3>3, <3>4, <3>5 DEF Next
  <2> DEFINE n == calls[i].name
             arg == calls[i].arg
  <2>4. n \in Names /\ arg \in Manifests /\ object \in [Names -> Objects]
    BY <2>1 DEF IInv, Types, CallsOf, CallInv, CallRecord, ArgOf
  <2>5. \/ calls'[i].applied = None
        \/ /\ Admits("edit", object[n], arg)
           /\ object' = [object EXCEPT ![n] = Effect("edit", object[n], arg)]
    <3>1. CASE OnRefusal(i, "path") \/ OnRefusal(i, "gone") \/ OnRefusal(i, "refused")
      <4>1. PICK why : calls' = [calls EXCEPT ![i] = [calls[i] EXCEPT !.step = "failed", !.why = why]]
        BY <3>1 DEF OnRefusal, Fails
      <4>2. calls[i] \in CallRecord /\ calls \in Seq(CallRecord)
        BY DEF IInv, CallsOf
      <4>3. calls'[i] = [calls[i] EXCEPT !.step = "failed", !.why = why]
        BY <4>1, <4>2
      <4>4. calls'[i].applied = calls[i].applied
        BY <4>2, <4>3 DEF CallRecord
      <4> QED
        BY <2>1, <4>4
    <3> QED
      BY <2>1, <2>3, <3>1 DEF Serve, Target
  <2>6. calls'[i].applied # None
    BY DEF Saves
  <2>7. Admits("edit", object[n], arg) /\ object'[n] = Effect("edit", object[n], arg)
    BY <2>4, <2>5, <2>6
  <2> QED
    BY <2>4, <2>7, EditLemma
<1> QED
  BY <1>1, Invariance, PTL DEF Spec, EditKeepsOthers

-----------------------------------------------------------------------------
(* The paths of the requests.                                                *)

Decisions == {"crapprove", "crdeny"}

(* Of all dialogs of all menus, those of a certificate request are the only  *)
(* ones whose path the API server does not serve.                            *)
LEMMA MenuReaches ==
  ASSUME NEW r, NEW d \in Menu(r), d # "details"
  PROVE  Reaches(d, r) <=> d \notin Decisions
<1> USE DEF Reaches, NamesNamespace, HasNamespaces, ClusterPaths, Decisions
<1>1. CASE d \in {"edit", "delete"}
  BY <1>1
<1>2. CASE d \in FluxMenu(r) \ Always /\ r \in FluxSuspendable
  BY <1>2 DEF FluxMenu, FluxSuspendable, FluxTable, Always
<1>3. CASE d \in CertManagerMenu(r) \ Always
  BY <1>3 DEF CertManagerMenu, Always
<1>4. CASE d \in KubernetesMenu(r) \ Always
  BY <1>4 DEF KubernetesMenu, Always
<1>5. d \in FluxMenu(r) \ Always => r \in FluxSuspendable
  BY DEF FluxMenu, FluxSuspendable
<1> QED
  BY <1>1, <1>2, <1>3, <1>4, <1>5 DEF Menu, Always

(* What a call that misses its path, or that took effect, says of its dialog. *)
PathOf(c) ==
  /\ c.dialog \in Menu(resource)
  /\ c.why = "path" => ~Reaches(c.dialog, resource)
  /\ c.applied # None => Reaches(c.dialog, resource)

PathInv == \A i \in DOMAIN calls : PathOf(calls[i])

(* Closing a dialog tells nothing of the calls. *)
LEMMA CloseKeeps ==
  ASSUME NEW cs, NEW busy, \A j \in DOMAIN cs : cs[j] \in CallRecord, Close(cs, busy)
  PROVE  /\ DOMAIN calls' = DOMAIN cs
         /\ \A j \in DOMAIN cs : /\ calls'[j].dialog = cs[j].dialog
                                 /\ calls'[j].why = cs[j].why
                                 /\ calls'[j].applied = cs[j].applied
<1>1. /\ DOMAIN calls' = DOMAIN cs
      /\ \A j \in DOMAIN cs : calls'[j] = [cs[j] EXCEPT !.held = "menu"] \/ calls'[j] = cs[j]
  BY DEF Close
<1> QED
  BY <1>1 DEF CallRecord

(* What one call learns about its path. *)
LEMMA CallPath ==
  ASSUME IInv, PathInv, NEW i \in DOMAIN calls, Call(i) \/ CallFails(i)
  PROVE  PathInv'
<1> USE NoneAssumption
<1>0. resource' = resource
  BY DEF Call, CallFails, Lookup, Read, Serve, Finish
<1>1. /\ calls \in Seq(CallRecord) /\ calls[i] \in CallRecord
      /\ \A j \in DOMAIN calls : PathOf(calls[j])
  BY DEF IInv, CallsOf, CallInv, PathInv
<1>2. ASSUME NEW c, PathOf(c), calls' = [calls EXCEPT ![i] = c]
      PROVE  PathInv'
  <2>1. /\ DOMAIN calls' = DOMAIN calls
        /\ \A j \in DOMAIN calls : calls'[j] = IF j = i THEN c ELSE calls[j]
    BY <1>1, <1>2
  <2>2. \A d : PathOf(d)' <=> PathOf(d)
    BY <1>0 DEF PathOf
  <2> QED
    BY <1>1, <1>2, <2>1, <2>2 DEF PathInv, PathOf
<1>3. CASE \E step : Goto(i, step)
  <2>1. PICK step : calls' = [calls EXCEPT ![i] = [calls[i] EXCEPT !.step = step]]
    BY <1>3 DEF Goto
  <2>2. PathOf([calls[i] EXCEPT !.step = step])
    BY <1>1 DEF PathOf, CallRecord
  <2> QED
    BY <1>2, <1>0, <2>1, <2>2
<1>4. CASE \E why \in {"gone", "refused", "fault"} : Fails(i, why)
  <2>1. PICK why \in {"gone", "refused", "fault"} :
          calls' = [calls EXCEPT ![i] = [calls[i] EXCEPT !.step = "failed", !.why = why]]
    BY <1>4 DEF Fails
  <2>2. PathOf([calls[i] EXCEPT !.step = "failed", !.why = why])
    BY <1>1, <2>1 DEF PathOf, CallRecord
  <2> QED
    BY <1>2, <1>0, <2>1, <2>2
<1>5. CASE Serve(i) /\ Fails(i, "path") /\ ~Reaches(calls[i].dialog, resource)
  <2>1. calls' = [calls EXCEPT ![i] = [calls[i] EXCEPT !.step = "failed", !.why = "path"]]
    BY <1>5 DEF Fails
  <2>2. PathOf([calls[i] EXCEPT !.step = "failed", !.why = "path"])
    BY <1>1, <1>5 DEF PathOf, CallRecord
  <2> QED
    BY <1>2, <1>0, <2>1, <2>2
<1>6. CASE Serve(i) /\ Reaches(calls[i].dialog, resource)
           /\ \E n : calls' = [calls EXCEPT ![i].step = "answered", ![i].applied = n]
  <2>1. PICK n : calls' = [calls EXCEPT ![i] = [calls[i] EXCEPT !.step = "answered", !.applied = n]]
    BY <1>6
  <2>2. PathOf([calls[i] EXCEPT !.step = "answered", !.applied = n])
    BY <1>1, <1>6 DEF PathOf, CallRecord
  <2> QED
    BY <1>2, <1>0, <2>1, <2>2
<1>7. CASE Finish(i)
  <2> DEFINE c == [calls[i] EXCEPT !.step = "done",
                     !.notice = IF calls[i].step = "answered" THEN "success" ELSE "error"]
             ended == [calls EXCEPT ![i] = c]
             busy == IF calls[i].held = "dialog" THEN loading \ {calls[i].dialog} ELSE loading
  <2>1. /\ c \in CallRecord /\ c.dialog = calls[i].dialog /\ c.why = calls[i].why
        /\ c.applied = calls[i].applied
    BY <1>1 DEF CallRecord
  <2>2. Close(ended, busy) \/ calls' = ended
    BY <1>7 DEF Finish
  <2> HIDE DEF c
  <2>3. /\ DOMAIN ended = DOMAIN calls
        /\ \A j \in DOMAIN calls : ended[j] = IF j = i THEN c ELSE calls[j]
    BY <1>1
  <2> HIDE DEF ended, busy
  <2>4. \A j \in DOMAIN ended : ended[j] \in CallRecord /\ PathOf(ended[j])
    BY <1>1, <2>1, <2>3 DEF PathOf, IInv, CallsOf, CallInv
  <2>5. /\ DOMAIN calls' = DOMAIN ended
        /\ \A j \in DOMAIN ended : /\ calls'[j].dialog = ended[j].dialog
                                   /\ calls'[j].why = ended[j].why
                                   /\ calls'[j].applied = ended[j].applied
    BY <2>2, <2>4, CloseKeeps
  <2> QED
    BY <1>0, <2>4, <2>5 DEF PathInv, PathOf
<1>8. \/ \E step : Goto(i, step)
      \/ \E why \in {"gone", "refused", "fault"} : Fails(i, why)
      \/ Serve(i) /\ Fails(i, "path") /\ ~Reaches(calls[i].dialog, resource)
      \/ Serve(i) /\ Reaches(calls[i].dialog, resource)
           /\ \E n : calls' = [calls EXCEPT ![i].step = "answered", ![i].applied = n]
      \/ Finish(i)
  BY DEF Call, CallFails, Lookup, Read, Serve, OnRefusal
<1> QED
  BY <1>3, <1>4, <1>5, <1>6, <1>7, <1>8, <1>0

LEMMA PathInductive == IInv /\ PathInv /\ [Next]_vars => PathInv'
<1> SUFFICES ASSUME IInv, PathInv, [Next]_vars PROVE PathInv'
  OBVIOUS
<1>1. ASSUME resource' = resource, DOMAIN calls' = DOMAIN calls,
             \A j \in DOMAIN calls : /\ calls'[j].dialog = calls[j].dialog
                                     /\ calls'[j].why = calls[j].why
                                     /\ calls'[j].applied = calls[j].applied
      PROVE  PathInv'
  BY <1>1 DEF PathInv, PathOf
<1>2. CASE Dismiss
  <2>1. \A j \in DOMAIN calls : calls[j] \in CallRecord
    BY DEF IInv, CallsOf, CallInv
  <2> QED
    BY <1>1, <1>2, <2>1, CloseKeeps DEF Dismiss
<1>3. ASSUME NEW d \in Menu(resource), Confirm(d) PROVE PathInv'
  <2>1. calls \in Seq(CallRecord) /\ calls' = Append(calls, NewCall(d)) /\ resource' = resource
    BY <1>3 DEF Confirm, IInv, CallsOf
  <2>2. PathOf(NewCall(d))
    BY NoneAssumption DEF NewCall, PathOf
  <2> HIDE DEF NewCall
  <2>3. \A j \in DOMAIN calls' : \/ calls'[j] = NewCall(d)
                                 \/ j \in DOMAIN calls /\ calls'[j] = calls[j]
    BY <2>1
  <2> QED
    BY <2>1, <2>2, <2>3 DEF PathInv, PathOf
<1>4. CASE \E i \in DOMAIN calls : Call(i) \/ CallFails(i)
  BY <1>4, CallPath
<1>5. CASE Refresh
  <2>1. \A j \in DOMAIN calls : calls[j] \in CallRecord /\ calls'[j] = [calls[j] EXCEPT !.held = "none"]
    BY <1>5 DEF Refresh, IInv, CallsOf, CallInv
  <2>2. \A j \in DOMAIN calls : /\ calls'[j].dialog = calls[j].dialog
                                /\ calls'[j].why = calls[j].why
                                /\ calls'[j].applied = calls[j].applied
    BY <2>1 DEF CallRecord
  <2> QED
    BY <1>1, <1>5, <2>2 DEF Refresh
<1>6. CASE \/ \E d \in Menu(resource) : Choose(d)
           \/ \E n \in Typed : Type(n)
           \/ draft.state = "loaded" /\ \E w \in Wishes(draft.base) : EditManifest(w)
           \/ LoadManifest \/ LoadManifestFails
           \/ \E n \in Names : Others(n)
           \/ UNCHANGED vars
  <2>1. UNCHANGED <<resource, calls>>
    BY <1>6 DEF Choose, Type, EditManifest, LoadManifest, LoadManifestFails, Others, vars
  <2> QED
    BY <1>1, <2>1
<1> QED
  BY <1>2, <1>3, <1>4, <1>5, <1>6 DEF Next

(* An approval or a denial of a certificate request never takes effect       *)
(* (certmanager: its path lacks the namespace), and it is the only action    *)
(* that a request cannot take: every other dialog of every menu asks for a   *)
(* path that the API server serves.                                          *)
THEOREM OnlyDecisionsMiss ==
  Spec => [](\A i \in DOMAIN calls : /\ calls[i].why = "path" => calls[i].dialog \in Decisions
                                     /\ calls[i].dialog \in Decisions => calls[i].applied = None)
<1>1. Init => PathInv
  <2> SUFFICES ASSUME Init PROVE PathInv
    OBVIOUS
  <2>1. calls = <<>>
    BY DEF Init
  <2>2. calls \in Seq(CallRecord) /\ Len(calls) = 0
    BY <2>1
  <2>3. DOMAIN calls = {}
    BY <2>2, SeqLemma
  <2> QED
    BY <2>3 DEF PathInv
<1>2. IInv /\ PathInv =>
        \A i \in DOMAIN calls : /\ calls[i].why = "path" => calls[i].dialog \in Decisions
                                /\ calls[i].dialog \in Decisions => calls[i].applied = None
  <2> SUFFICES ASSUME IInv, PathInv, NEW i \in DOMAIN calls
               PROVE  /\ calls[i].why = "path" => calls[i].dialog \in Decisions
                      /\ calls[i].dialog \in Decisions => calls[i].applied = None
    OBVIOUS
  <2>1. PathOf(calls[i])
    BY DEF PathInv
  <2>2. calls[i].dialog # "details"
    BY DEF IInv, CallsOf, CallInv, CallRecord, Confirmed
  <2> QED
    BY <2>1, <2>2, MenuReaches DEF PathOf
<1> QED
  BY <1>1, <1>2, PathInductive, Invariance, PTL DEF Spec
=============================================================================
