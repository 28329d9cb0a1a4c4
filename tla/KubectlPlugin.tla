---------------------------- MODULE KubectlPlugin ----------------------------
(***************************************************************************)
(* The commands credentials and kubeconfig of the kubectl plugin           *)
(* (cmd/kubectl-grafana), the browser tabs they open and the page and the  *)
(* handlers of the plugin that answer them.                                *)
(*                                                                         *)
(* A command opens a tab of the browser and serves one fixed port, which   *)
(* the tab is redirected to with what was created.  Every process of the   *)
(* machine uses that port, and the handler of the process that has it      *)
(* cannot tell whose tab it answers.  The first result ends the command;   *)
(* credentials are kept in a file, a kubeconfig is merged into the one     *)
(* that is there.                                                          *)
(***************************************************************************)
EXTENDS Integers, FiniteSets

CONSTANTS
  Procs,        \* runs of the commands
  Jobs,         \* what some of them may be: the command, "credentials" or "kubeconfig",
                \* and its target [host, path, uid, name], the url of Grafana, the data
                \* source and the name that is configured for its kubeconfig
  None, Cut,    \* nothing; a text of which only a part is there
  TTL,          \* the life of a token
  MaxTime,      \* bound on the clock
  MaxFaults     \* bound on failures, interrupts and changes of others

VARIABLES
  job,          \* the command and the target of each process
  now,
  pc,           \* where Run is in each process
  tried,        \* the processes whose goroutine has called ListenAndServe
  port,         \* the process that serves the port
  value,        \* the variable "credentials" of Run
  saving,       \* the argument of cache.Set
  printed,      \* what a process has printed
  result,       \* how it ended: "ok", "error", "interrupted"
  tab,          \* the tab that a process opened: None, "open", "redirect", "closed"
  created,      \* what the plugin created for the tab
  handler,      \* the handler of the process that had the port, for the redirect of the tab
  file,         \* the cache files
  kubeconfig,   \* the file: whether it is whole, and the targets that have an entry in it
  faults,
  alone,        \* history: no two commands have been under way together
  known,        \* history: the names of the entries that the kubeconfig has had
  intact        \* history: no change of the kubeconfig came between a handler's reading
                \* and its writing it, and no writing was cut short

process == <<pc, tried, port, value, saving, printed, result>>
browser == <<tab, created>>
config == <<kubeconfig, known, intact>>
vars == <<job, now, process, browser, handler, file, config, faults, alone>>

Targets == UNION {{j[p].target : p \in DOMAIN j} : j \in Jobs}
Elsewhere(n) == [host |-> "elsewhere", path |-> "/", uid |-> n, name |-> n]
Entries == Targets \cup {Elsewhere("old"), Elsewhere("new")}

(* A handler: its process, where it is, whether it has an error to send,   *)
(* and the entries that it has read.                                       *)
Handlers == [at : Procs, step : {"assign", "assigned", "load", "save", "write", "send"},
             error : BOOLEAN, base : SUBSET Entries]

(* The name of the cache file: the host of the url, with its port, and the *)
(* data source, joined by "_".  Both are taken to be free of that sign,    *)
(* with it two pairs may have one name.                                    *)
\* Faulty: one file for every data source of a Grafana.
FileNameOfHost(t) == <<t.host>>
FileName(t) == <<t.host, t.uid>>
Files == {FileName(t) : t \in Targets}

(* What a tab brings: the token of a target.  The credentials say that it  *)
(* expires a minute, here a tick, before it does.                          *)
Margin == 1
Tokens == [for : Targets, expires : Int]
Credentials(t) == [for |-> t, expires |-> now + TTL - Margin]

ASSUME JobsAssumption ==
  \A j \in Jobs : /\ DOMAIN j \subseteq Procs
                   /\ \A p \in DOMAIN j : j[p].command \in {"credentials", "kubeconfig"}
ASSUME NoneAssumption ==
  /\ None \notin Procs \cup {"ok", "error", "interrupted"} \cup {"open", "redirect", "closed"}
  /\ None \notin Handlers
ASSUME CutAssumption == Cut # None /\ {None, Cut} \cap Tokens = {}
ASSUME BoundsAssumption == TTL \in Nat /\ MaxTime \in Nat /\ MaxFaults \in Nat

Running(p) == pc[p] \notin {"idle", "done"}

Init ==
  /\ job \in Jobs
  /\ now = 0
  /\ pc = [p \in Procs |-> "idle"]
  /\ tried = {} /\ port = None
  /\ value = [p \in Procs |-> None] /\ saving = [p \in Procs |-> None]
  /\ printed = [p \in Procs |-> None] /\ result = [p \in Procs |-> None]
  /\ tab = [p \in Procs |-> None] /\ created = [p \in Procs |-> None]
  /\ handler = [p \in Procs |-> None]
  /\ file = [f \in Files |-> None]
  /\ kubeconfig = [whole |-> TRUE, entries |-> {Elsewhere("old")}]
  /\ known = {"old"} /\ intact = TRUE
  /\ faults = 0 /\ alone = TRUE

Fault == faults < MaxFaults /\ faults' = faults + 1

-----------------------------------------------------------------------------
(* Run. *)

Start(p) ==
  /\ p \in DOMAIN job /\ pc[p] = "idle"
  /\ pc' = [pc EXCEPT ![p] = IF job[p].command = "credentials" THEN "get" ELSE "open"]
  /\ alone' = (alone /\ \A q \in Procs \ {p} : ~Running(q) /\ tab[q] \in {None, "closed"})
  /\ UNCHANGED <<job, now, tried, port, value, saving, printed, result, browser, handler,
                 file, config, faults>>

(* The end of a process takes its memory, its server and the handlers of   *)
(* it along, also the one that is writing the kubeconfig.                  *)
At(t, step) == handler[t] # None /\ handler[t].step = step
Exit(p, how, out) ==
  /\ pc' = [pc EXCEPT ![p] = "done"]
  /\ result' = [result EXCEPT ![p] = how]
  /\ printed' = [printed EXCEPT ![p] = out]
  /\ port' = IF port = p THEN None ELSE port
  /\ handler' = [t \in Procs |-> IF handler[t] # None /\ handler[t].at = p THEN None ELSE handler[t]]
  /\ tried' = tried \ {p}
  /\ value' = [value EXCEPT ![p] = None]
  /\ intact' = (intact /\ ~\E t \in Procs : At(t, "write") /\ handler[t].at = p)
  /\ UNCHANGED <<kubeconfig, known, browser>>

(* Cache.Get. *)
\* Faulty: what cannot be parsed is printed as it is.
UsableUnparsed(c) == c # None /\ (c # Cut => now <= c.expires)
Usable(c) == c # None /\ c # Cut /\ now <= c.expires
Broken(c) == c = Cut

Get(p) ==
  /\ pc[p] = "get"
  /\ LET c == file[FileName(job[p].target)]
     IN \/ /\ Usable(c)
           /\ Exit(p, "ok", c)
        \/ /\ Broken(c) /\ ~Usable(c)
           /\ Exit(p, "error", None)
        \/ /\ ~Usable(c) /\ ~Broken(c)
           /\ pc' = [pc EXCEPT ![p] = "open"]
           /\ UNCHANGED <<tried, port, value, printed, result, browser, handler, config>>
  /\ UNCHANGED <<job, now, saving, file, faults, alone>>

(* The goroutine drops the error that the port is taken.                   *)
Listen(p) ==
  /\ pc[p] \in {"open", "wait"} /\ p \notin tried
  /\ tried' = tried \cup {p}
  /\ port' = IF port = None THEN p ELSE port
  /\ UNCHANGED <<job, now, pc, value, saving, printed, result, browser, handler, file,
                 config, faults, alone>>

(* Nor does anybody look at the error of OpenUrl. *)
OpenUrl(p) ==
  /\ pc[p] = "open"
  /\ pc' = [pc EXCEPT ![p] = "wait"]
  /\ \/ tab' = [tab EXCEPT ![p] = "open"] /\ faults' = faults
     \/ Fault /\ tab' = [tab EXCEPT ![p] = "closed"]
  /\ UNCHANGED <<job, now, tried, port, value, saving, printed, result, created, handler, file,
                 config, alone>>

(* A handler waits in its deferred send until Run receives.                *)
Receive(p, t) ==
  /\ pc[p] = "wait"
  /\ handler[t] # None /\ handler[t].at = p /\ handler[t].step = "send"
  /\ IF handler[t].error
       THEN Exit(p, "error", None)
       ELSE /\ pc' = [pc EXCEPT ![p] = "sleep"]
            /\ handler' = [handler EXCEPT ![t] = None]
            /\ UNCHANGED <<tried, port, value, printed, result, browser, config>>
  /\ UNCHANGED <<job, now, saving, file, faults, alone>>

Timeout(p) ==
  /\ pc[p] = "wait"
  /\ Exit(p, "error", None)
  /\ UNCHANGED <<job, now, saving, file, faults, alone>>

(* After the sleep of a second: the file is cut off, then written.         *)
Set(p) ==
  /\ pc[p] = "sleep" /\ job[p].command = "credentials"
  /\ pc' = [pc EXCEPT ![p] = "write"]
  /\ saving' = [saving EXCEPT ![p] = value[p]]
  /\ file' = [file EXCEPT ![FileName(job[p].target)] = Cut]
  /\ UNCHANGED <<job, now, tried, port, value, printed, result, browser, handler, config,
                 faults, alone>>

Write(p) ==
  /\ pc[p] = "write"
  /\ file' = [file EXCEPT ![FileName(job[p].target)] = saving[p]]
  /\ saving' = [saving EXCEPT ![p] = None]
  /\ pc' = [pc EXCEPT ![p] = "print"]
  /\ UNCHANGED <<job, now, tried, port, value, printed, result, browser, handler,
                 config, faults, alone>>

WriteFails(p) ==
  /\ pc[p] = "write"
  /\ Fault
  /\ Exit(p, "error", None)
  /\ UNCHANGED <<job, now, saving, file, alone>>

PrintValue(p) ==
  /\ pc[p] = "print"
  /\ Exit(p, "ok", value[p])
  /\ UNCHANGED <<job, now, saving, file, faults, alone>>

EndKubeconfig(p) ==
  /\ pc[p] = "sleep" /\ job[p].command = "kubeconfig"
  /\ Exit(p, "ok", None)
  /\ UNCHANGED <<job, now, saving, file, faults, alone>>

Interrupt(p) ==
  /\ Running(p)
  /\ Fault
  /\ Exit(p, "interrupted", None)
  /\ UNCHANGED <<job, now, saving, file, alone>>

-----------------------------------------------------------------------------
(* A tab: the page asks the plugin and is redirected.                      *)

Create(t) ==
  /\ tab[t] = "open"
  /\ \/ /\ tab' = [tab EXCEPT ![t] = "redirect"]
        /\ created' = [created EXCEPT ![t] = Credentials(job[t].target)]
        /\ faults' = faults
     \/ /\ Fault
        /\ tab' = [tab EXCEPT ![t] = "closed"]
        /\ created' = created
  /\ UNCHANGED <<job, now, process, handler, file, config, alone>>

NewHandler(p, step) == [at |-> p, step |-> step, error |-> FALSE, base |-> {}]
Missing(p) == [at |-> p, step |-> "send", error |-> TRUE, base |-> {}]

(* The redirect comes to whoever has the port.  The name of its parameter  *)
(* is the command of the tab.                                              *)
Redirect(t) ==
  /\ tab[t] = "redirect"
  /\ tab' = [tab EXCEPT ![t] = "closed"]
  /\ handler' = [handler EXCEPT ![t] =
       IF port = None THEN None
       ELSE IF job[t].command # job[port].command THEN Missing(port)
       ELSE NewHandler(port, IF job[t].command = "credentials" THEN "assign" ELSE "load")]
  /\ UNCHANGED <<job, now, process, created, file, config, faults, alone>>

(* The handlers.  Run may read "credentials" while another handler writes  *)
(* it: the halves of two strings.                                          *)
Goto(t, step) == handler' = [handler EXCEPT ![t].step = step]

Assign(t) ==
  /\ At(t, "assign")
  /\ Goto(t, "assigned")
  /\ value' = [value EXCEPT ![handler[t].at] = Cut]
  /\ UNCHANGED <<job, now, pc, tried, port, saving, printed, result, browser, file, config,
                 faults, alone>>

Assigned(t) ==
  /\ At(t, "assigned")
  /\ Goto(t, "send")
  /\ value' = [value EXCEPT ![handler[t].at] = created[t]]
  /\ UNCHANGED <<job, now, pc, tried, port, saving, printed, result, browser, file, config,
                 faults, alone>>

(* A kubeconfig of which only a part is there is refused, or taken for what *)
(* it has; an empty one is a kubeconfig without entries.                    *)
Load(t) ==
  /\ At(t, "load")
  /\ handler' = [handler EXCEPT ![t].step = "save", ![t].base = kubeconfig.entries]
  /\ UNCHANGED <<job, now, process, browser, file, config, faults, alone>>

(* Creating the temporary file, loading and encoding report their errors.   *)
LoadFails(t) ==
  /\ At(t, "load")
  /\ \/ Fault
     \/ ~kubeconfig.whole /\ faults' = faults
  /\ handler' = [handler EXCEPT ![t].step = "send", ![t].error = TRUE]
  /\ UNCHANGED <<job, now, process, browser, file, config, alone>>

(* Loading two files keeps the entries of both; of two entries with one     *)
(* name the one that was created stays.                                     *)
\* Faulty: only the kubeconfig that was created is written.
MergedOnlyNew(base, t) == {t}
Merged(base, t) == {e \in base : e.name # t.name} \cup {t}

(* The kubeconfig is cut off, then written.                                 *)
Emptied == [whole |-> FALSE, entries |-> {}]
Names(c) == {e.name : e \in c.entries}
HasRead(t) == At(t, "save") \/ At(t, "write")
Changed(t) == intact' = (intact /\ \A u \in Procs \ {t} : ~HasRead(u))

Truncate(t) ==
  /\ At(t, "save")
  /\ Goto(t, "write")
  /\ kubeconfig' = Emptied /\ known' = known
  /\ Changed(t)
  /\ UNCHANGED <<job, now, process, browser, file, faults, alone>>

(* If another has written meanwhile, its last lines may stay behind.        *)
Save(t) ==
  LET merged == Merged(handler[t].base, job[t].target)
  IN /\ At(t, "write")
     /\ Goto(t, "send")
     /\ \/ kubeconfig' = [whole |-> TRUE, entries |-> merged]
        \/ kubeconfig # Emptied /\ kubeconfig' = [whole |-> FALSE, entries |-> merged]
     /\ known' = known \cup {job[t].target.name}
     /\ Changed(t)
     /\ UNCHANGED <<job, now, process, browser, file, faults, alone>>

(* The errors of writing the temporary file, opening the kubeconfig and     *)
(* writing it are in variables of their own: none is sent.  What was        *)
(* written of the kubeconfig until then is in the file.                     *)
SaveFails(t) ==
  /\ At(t, "load") \/ HasRead(t)
  /\ Fault
  /\ Goto(t, "send")
  /\ \/ ~At(t, "write") /\ UNCHANGED config
     \/ /\ At(t, "write")
        /\ \E part \in SUBSET Merged(handler[t].base, job[t].target) :
             kubeconfig' = [whole |-> FALSE, entries |-> part]
        /\ known' = known /\ intact' = FALSE
  /\ UNCHANGED <<job, now, process, browser, file, alone>>

-----------------------------------------------------------------------------
(* Other programs edit the kubeconfig; time passes.                        *)
Others ==
  /\ Fault
  /\ kubeconfig' = [kubeconfig EXCEPT !.entries = @ \cup {Elsewhere("new")}]
  /\ known' = known \cup {"new"}
  /\ intact' = (intact /\ \A t \in Procs : ~HasRead(t))
  /\ UNCHANGED <<job, now, process, browser, handler, file, alone>>

Tick ==
  /\ now < MaxTime
  /\ now' = now + 1
  /\ UNCHANGED <<job, process, browser, handler, file, config, faults, alone>>

Run(p) ==
  \/ Get(p) \/ OpenUrl(p) \/ (\E t \in Procs : Receive(p, t)) \/ Timeout(p)
  \/ Set(p) \/ Write(p) \/ PrintValue(p) \/ EndKubeconfig(p)
Handle(t) == Assign(t) \/ Assigned(t) \/ Load(t) \/ Truncate(t) \/ Save(t)

Next ==
  \/ \E p \in Procs : Start(p) \/ Run(p) \/ Listen(p) \/ WriteFails(p) \/ Interrupt(p)
  \/ \E t \in Procs : Create(t) \/ Redirect(t) \/ Handle(t) \/ LoadFails(t) \/ SaveFails(t)
  \/ Others \/ Tick

Spec == Init /\ [][Next]_vars

-----------------------------------------------------------------------------
(* Every variable holds what its part may hold. *)
TypeOK ==
  /\ pc \in [Procs -> {"idle", "get", "open", "wait", "sleep", "write", "print", "done"}]
  /\ tried \subseteq Procs /\ port \in tried \cup {None}
  /\ port # None => Running(port)
  /\ \A p \in Procs :
       /\ {value[p], saving[p], printed[p]} \subseteq Tokens \cup {None, Cut}
       /\ result[p] # None <=> pc[p] = "done"
       /\ handler[p] # None => Running(handler[p].at)
  /\ file \in [Files -> Tokens \cup {None, Cut}]
  /\ kubeconfig \in [whole : BOOLEAN, entries : SUBSET Entries]

(* As long as commands follow one another, each one that prints prints     *)
(* credentials for the host and the data source it was asked for,          *)
(* whichever earlier command left them in a cache file, and all of them,   *)
(* also if that command was interrupted while it wrote the file            *)
(* (utils/cache.go:48-77).  It says nothing of the path: Grafanas under    *)
(* two paths of a host share the file (utils/cache.go:45).                 *)
AloneGetsOwn ==
  alone => \A p \in Procs : printed[p] # None =>
    /\ printed[p] # Cut
    /\ printed[p].for.host = job[p].target.host
    /\ printed[p].for.uid = job[p].target.uid

(* A kubeconfig that was in order stays so, whoever writes it: it is whole, *)
(* and every entry it has had is there, or one that took its name, as soon  *)
(* as no handler is writing it (kubeconfig.go:83-107).  What spoils it is   *)
(* named by "intact": a change that comes between a handler's reading and   *)
(* writing the file, and a writing that is cut short by an error, by an     *)
(* interrupt, or by the timeout of the command it serves.                   *)
KubeconfigKept ==
  intact /\ (\A t \in Procs : ~At(t, "write")) => kubeconfig.whole /\ known \subseteq Names(kubeconfig)

(* The comment of the handler (kubeconfig.go:51-52), "When the function is *)
(* done, send the error (if any)": a kubeconfig command that ends without  *)
(* an error has saved its entry.                                           *)
SuccessIsSaved ==
  \A p \in DOMAIN job : job[p].command = "kubeconfig" /\ result[p] = "ok"
                           => job[p].target \in kubeconfig.entries
=============================================================================
