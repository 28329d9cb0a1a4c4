----------------------------- MODULE RowActions -----------------------------
(***************************************************************************)
(* The actions of one row of a table of resources: the menu, its dialogs   *)
(* and the calls they make (src/datasource/components/*/Actions.tsx).      *)
(*                                                                         *)
(* The menu keeps which dialog is open.  A dialog that only asks for       *)
(* confirmation stays mounted when it is closed, so its state survives;    *)
(* Edit is mounted when it is opened.  A confirmed dialog looks the        *)
(* resource up, some read the object, and then it sends one request; it    *)
(* reports the result and closes whatever dialog the menu has open.        *)
(* Meanwhile the user goes on, others change the object, and a refresh of  *)
(* the table replaces the menu while its calls are still under way.        *)
(***************************************************************************)
EXTENDS ResourceActions

CONSTANTS Resources, Names, Typed, NaN, None,
          MaxCalls, MaxDisturbances

VARIABLES
  resource,  \* the resource of the table (query.resourceId)
  object,    \* the objects of this resource, as the API server has them
  row,       \* the name in the row of the menu
  open,      \* the dialog that is open, or ""
  loading,   \* the dialogs of this menu whose isLoading is set
  input,     \* the replicas in the dialog Scale
  draft,     \* Edit: the manifest as loaded, and as the user has it now
  calls,     \* the calls of confirmed dialogs, in their order
  disturbances  \* faults of the network, changes of others, refreshes

vars == <<resource, object, row, open, loading, input, draft, calls, disturbances>>

(* What parseInt gives: any number, also a negative one, or NaN.           *)
ASSUME TypedAssumption == NaN \notin Int /\ Typed \subseteq Int \cup {NaN}
ASSUME NoneAssumption == None \notin {"success", "error", "path"}
ASSUME BoundsAssumption == MaxCalls \in Nat /\ MaxDisturbances \in Nat

(* JSON has no NaN: it is sent as null, which the API server takes for 0.  *)
Body(n) == IF n = NaN THEN 0 ELSE n

Unloaded == [state |-> "loading"]
LoadFailed == [state |-> "failed"]
Loaded(o) == [state |-> "loaded", base |-> o, wish |-> o]

Arg(d) == CASE d = "scale" -> Body(input)
            [] d = "edit" -> [base |-> draft.base, wish |-> draft.wish]
            [] OTHER -> None

(* A call.  "held" is what is still mounted of what made it: the dialog,   *)
(* only the menu, or nothing.  history: applied, why.                      *)
NewCall(d) ==
  [dialog |-> d, name |-> row, arg |-> Arg(d), held |-> "dialog", step |-> "lookup",
   notice |-> None, applied |-> None, why |-> None]

-----------------------------------------------------------------------------
Fresh == [alive |-> TRUE, replicas |-> 1, flags |-> {}, containers |-> <<"app", "proxy">>,
          conditions |-> {"Ready"}, jobs |-> 0]

Init ==
  /\ resource \in Resources
  /\ object = [n \in Names |-> Fresh]
  /\ row \in Names
  /\ open = "" /\ loading = {} /\ input = 0 /\ draft = Unloaded
  /\ calls = <<>>
  /\ disturbances = 0

(* The user. *)

Choose(d) ==
  /\ open = ""
  /\ d \in Menu(resource)
  /\ open' = d
  /\ UNCHANGED <<resource, object, row, loading, input, draft, calls, disturbances>>

(* Edit is unmounted when it is closed: what it holds is lost, and its     *)
(* calls can only close a dialog of the menu.                              *)
Close(cs, busy) ==
  /\ open' = ""
  /\ draft' = Unloaded
  /\ loading' = IF open = "edit" THEN busy \ {"edit"} ELSE busy
  /\ calls' = [i \in DOMAIN cs |->
       IF open = "edit" /\ cs[i].dialog = "edit" /\ cs[i].held = "dialog"
       THEN [cs[i] EXCEPT !.held = "menu"] ELSE cs[i]]

Dismiss ==
  /\ open # ""
  /\ Close(calls, loading)
  /\ UNCHANGED <<resource, object, row, input, disturbances>>

Type(n) ==
  /\ open = "scale"
  /\ input' = n
  /\ UNCHANGED <<resource, object, row, open, loading, draft, calls, disturbances>>

EditManifest(w) ==
  /\ open = "edit" /\ draft.state = "loaded" /\ "edit" \notin loading
  /\ draft' = [draft EXCEPT !.wish = w]
  /\ UNCHANGED <<resource, object, row, open, loading, input, calls, disturbances>>

\* Faulty: setIsLoading(true) is missing.
LoadingUnset(d) == loading
LoadingSet(d) == loading \cup {d}

Confirm(d) ==
  /\ open = d /\ d # "details" /\ d \notin loading
  /\ d = "edit" => draft.state = "loaded"
  /\ Len(calls) < MaxCalls
  /\ calls' = Append(calls, NewCall(d))
  /\ loading' = LoadingSet(d)
  /\ UNCHANGED <<resource, object, row, open, input, draft, disturbances>>

-----------------------------------------------------------------------------
(* The calls. *)

Goto(i, step) == calls' = [calls EXCEPT ![i].step = step]
Fails(i, why) == calls' = [calls EXCEPT ![i].step = "failed", ![i].why = why]

Disturb == disturbances < MaxDisturbances /\ disturbances' = disturbances + 1
Reads(d) == d \in {"createjob", "renew"}

LoadManifest ==
  /\ open = "edit" /\ draft.state = "loading"
  /\ draft' = IF object[row].alive THEN Loaded(object[row]) ELSE LoadFailed
  /\ UNCHANGED <<resource, object, row, open, loading, input, calls, disturbances>>

LoadManifestFails ==
  /\ open = "edit" /\ draft.state = "loading"
  /\ Disturb
  /\ draft' = LoadFailed
  /\ UNCHANGED <<resource, object, row, open, loading, input, calls>>

Lookup(i) ==
  /\ calls[i].step = "lookup"
  /\ Goto(i, IF Reads(calls[i].dialog) THEN "read" ELSE "send")
  /\ UNCHANGED <<resource, object, row, open, loading, input, draft, disturbances>>

Read(i) ==
  /\ calls[i].step = "read"
  /\ IF object[calls[i].name].alive THEN Goto(i, "send") ELSE Fails(i, "gone")
  /\ UNCHANGED <<resource, object, row, open, loading, input, draft, disturbances>>

(* Any of its requests fails, or the answer is lost before it arrives.     *)
CallFails(i) ==
  /\ calls[i].step \in {"lookup", "read", "send", "answered"}
  /\ Disturb
  /\ Fails(i, "fault")
  /\ UNCHANGED <<resource, object, row, open, loading, input, draft>>

\* Faulty: the name of the row as it is now.
TargetNow(i) == row
Target(i) == calls[i].name

\* Faulty: response.ok is not looked at.
OnRefusalOk(i, why) == Goto(i, "answered")
OnRefusal(i, why) == Fails(i, why)

Serve(i) ==
  LET d == calls[i].dialog
      n == Target(i)
      o == object[n]
      arg == calls[i].arg
  IN /\ calls[i].step = "send"
     /\ \/ /\ ~Reaches(d, resource)
           /\ OnRefusal(i, "path")
           /\ UNCHANGED object
        \/ /\ Reaches(d, resource) /\ ~o.alive /\ d # "createjob"
           /\ OnRefusal(i, "gone")
           /\ UNCHANGED object
        \/ /\ Reaches(d, resource) /\ o.alive /\ ~Admits(d, o, arg)
           /\ OnRefusal(i, "refused")
           /\ UNCHANGED object
        \/ /\ Reaches(d, resource) /\ (o.alive \/ d = "createjob") /\ Admits(d, o, arg)
           /\ object' = [object EXCEPT ![n] = Effect(d, o, arg)]
           /\ calls' = [calls EXCEPT ![i].step = "answered", ![i].applied = n]
     /\ UNCHANGED <<resource, row, open, loading, input, draft, disturbances>>

\* Faulty: only a success resets isLoading and closes the dialog.
EndsDialogOnSuccess(i) == calls[i].step = "answered"
EndsDialog(i) == TRUE

Finish(i) ==
  /\ calls[i].step \in {"answered", "failed"}
  /\ LET c == calls[i]
         ended == [calls EXCEPT ![i].step = "done",
                     ![i].notice = IF c.step = "answered" THEN "success" ELSE "error"]
         busy == IF c.held = "dialog" THEN loading \ {c.dialog} ELSE loading
     IN IF c.held # "none" /\ EndsDialog(i)
        THEN Close(ended, busy)
        ELSE calls' = ended /\ UNCHANGED <<open, loading, draft>>
  /\ UNCHANGED <<resource, object, row, input, disturbances>>

-----------------------------------------------------------------------------
(* Others delete the object or change it, and the table is refreshed: its  *)
(* cells get a new component, so the menu starts afresh.                   *)
Changes(o) ==
  {[o EXCEPT !.alive = FALSE],
   [o EXCEPT !.replicas = 3, !.flags = @ \cup {"reconciled"}, !.containers = <<"debug">> \o @],
   [o EXCEPT !.flags = {}, !.containers = SubSeq(@, 2, Len(@))]}

Others(n) ==
  /\ Disturb /\ object[n].alive
  /\ \E o \in Changes(object[n]) : object' = [object EXCEPT ![n] = o]
  /\ UNCHANGED <<resource, row, open, loading, input, draft, calls>>

Refresh ==
  /\ Disturb
  /\ row' \in Names
  /\ open' = "" /\ loading' = {} /\ input' = 0 /\ draft' = Unloaded
  /\ calls' = [i \in DOMAIN calls |-> [calls[i] EXCEPT !.held = "none"]]
  /\ UNCHANGED <<resource, object>>

(* The manifests the user may want: other fields, or a list with an        *)
(* element more, with another one in the first place, or without it.       *)
Wishes(o) ==
  {[o EXCEPT !.replicas = 2, !.flags = {"restarted"}]}
  \cup {[o EXCEPT !.containers = l] :
          l \in {Append(o.containers, "debug"), SubSeq(o.containers, 2, Len(o.containers)),
                 <<"debug">> \o SubSeq(o.containers, 2, Len(o.containers))}}

Call(i) == Lookup(i) \/ Read(i) \/ Serve(i) \/ Finish(i)

Next ==
  \/ \E d \in Menu(resource) : Choose(d)
  \/ Dismiss
  \/ \E n \in Typed : Type(n)
  \/ draft.state = "loaded" /\ \E w \in Wishes(draft.base) : EditManifest(w)
  \/ \E d \in Menu(resource) : Confirm(d)
  \/ LoadManifest \/ LoadManifestFails
  \/ \E i \in DOMAIN calls : Call(i) \/ CallFails(i)
  \/ \E n \in Names : Others(n)
  \/ Refresh

Spec == Init /\ [][Next]_vars

-----------------------------------------------------------------------------
Dialogs == {"details", "edit", "delete", "scale", "restart", "createjob", "cronjobsuspend",
            "cronjobresume", "csrapprove", "csrdeny", "evict", "cordon", "uncordon",
            "reconcile", "suspend", "resume", "renew", "crapprove", "crdeny"}

Manifests == [base : Objects, wish : Objects]

TypeOKCall(c) ==
  /\ c.dialog \in Dialogs \ {"details"} /\ c.name \in Names
  /\ \/ c.dialog = "scale" /\ c.arg \in Int
     \/ c.dialog = "edit" /\ c.arg \in Manifests
     \/ c.dialog \notin {"scale", "edit"} /\ c.arg = None
  /\ c.held \in {"dialog", "menu", "none"}
  /\ c.step \in {"lookup", "read", "send", "answered", "failed", "done"}
  /\ c.notice \in {None, "success", "error"}
  /\ c.applied \in Names \cup {None}

(* Every variable holds what its part of the menu may hold.  A request may *)
(* ask for a negative number of replicas (Scale.tsx:103); no object ever   *)
(* has one.                                                                *)
TypeOK ==
  /\ resource \in Resources /\ object \in [Names -> Objects] /\ row \in Names
  /\ open \in {""} \cup Menu(resource)
  /\ loading \subseteq Menu(resource) \ {"details"}
  /\ input \in Typed \cup {0}
  /\ draft.state = "loaded" => [base |-> draft.base, wish |-> draft.wish] \in Manifests
  /\ \A i \in DOMAIN calls : TypeOKCall(calls[i])

(* A success is reported only when the API server did what the dialog      *)
(* named, and did it to the object the dialog named when it was confirmed, *)
(* whatever the row shows by then.                                         *)
SuccessIsApplied ==
  \A i \in DOMAIN calls : calls[i].notice = "success" => calls[i].applied = calls[i].name

(* A dialog that is mounted has at most one call under way: its button is  *)
(* disabled from the confirmation until the result, however often it is    *)
(* closed and opened in between, and disabled for no other reason.         *)
OneCallPerDialog ==
  \A d \in Menu(resource) :
    Cardinality({i \in DOMAIN calls :
                   calls[i].dialog = d /\ calls[i].held = "dialog" /\ calls[i].step # "done"})
      = (IF d \in loading THEN 1 ELSE 0)

(* Saving an edited manifest does not undo what others did to the object   *)
(* since it was loaded (Edit.tsx:72-85).  A field with a path of its own   *)
(* stays as it is if the user left it as it was.  So does a list; a list   *)
(* that nobody else changed becomes what the user wanted; and of a list    *)
(* that both changed, what stands behind the elements the user has seen is *)
(* kept.  No more can be said of such a list: the patch goes by the index, *)
(* and may hit an element the user left alone.                             *)
KeepsField(old, base, wish, new) == base = wish => new = old
KeepsList(old, base, wish, new) ==
  /\ KeepsField(old, base, wish, new)
  /\ old = base => new = wish
  /\ Len(old) >= Len(base) =>
       SubSeq(new, Len(wish) + 1, Len(new)) = SubSeq(old, Len(base) + 1, Len(old))
KeepsEdits(old, base, wish, new) ==
  /\ KeepsField(old.replicas, base.replicas, wish.replicas, new.replicas)
  /\ \A f \in Flags :
       KeepsField(f \in old.flags, f \in base.flags, f \in wish.flags, f \in new.flags)
  /\ KeepsList(old.containers, base.containers, wish.containers, new.containers)

Saves(i) == /\ i \in DOMAIN calls /\ calls[i].dialog = "edit"
            /\ calls[i].applied = None /\ calls'[i].applied # None
EditKeepsOthers ==
  [][\A i \in 1..MaxCalls : Saves(i) =>
       KeepsEdits(object[calls[i].name], calls[i].arg.base, calls[i].arg.wish,
                  object'[calls[i].name])]_vars

(* The README, "View cert-manager resources, renew certificates and        *)
(* approve or deny certificate requests": a request goes to a path the API *)
(* server serves for the object.                                           *)
ActionReachesObject == \A i \in DOMAIN calls : calls[i].why # "path"
=============================================================================
