------------------------- MODULE KubectlPluginProofs -------------------------
(***************************************************************************)
(* Proofs about KubectlPlugin, for any number of commands, of any targets. *)
(*                                                                         *)
(* The invariant follows the credentials of a command that runs alone: the *)
(* tab brings what was created for its own target, its handler is in its   *)
(* own process, and once the process has been told of it no other handler  *)
(* can change the variable before it is saved and printed.                 *)
(***************************************************************************)
EXTENDS KubectlPlugin, TLAPS

Places == {"idle", "get", "open", "wait", "sleep", "write", "print", "done"}
Results == {"ok", "error", "interrupted"}
Things == Tokens \cup {None, Cut}
Configs == [whole : BOOLEAN, entries : SUBSET Entries]

Types ==
  /\ job \in Jobs /\ now \in Nat
  /\ pc \in [Procs -> Places] /\ tried \subseteq Procs /\ port \in tried \cup {None}
  /\ value \in [Procs -> Things] /\ saving \in [Procs -> Things]
  /\ printed \in [Procs -> Things] /\ result \in [Procs -> Results \cup {None}]
  /\ tab \in [Procs -> {None, "open", "redirect", "closed"}]
  /\ created \in [Procs -> Tokens \cup {None}]
  /\ handler \in [Procs -> Handlers \cup {None}]
  /\ file \in [Files -> Things]
  /\ kubeconfig \in Configs /\ intact \in BOOLEAN

(* How far a process, its tab and the handler of its redirect are. *)
ProcessInv(p) ==
  /\ pc[p] # "idle" => p \in DOMAIN job
  /\ result[p] # None <=> pc[p] = "done"
  /\ pc[p] \in {"get", "write", "print"} => job[p].command = "credentials"
  /\ pc[p] \in {"idle", "get", "open"} => tab[p] = None

TabInv(t) ==
  /\ tab[t] # None => t \in DOMAIN job
  /\ tab[t] = "redirect" => created[t] # None
  /\ created[t] # None => t \in DOMAIN job /\ created[t].for = job[t].target

HandlerInv(t) ==
  handler[t] # None =>
    /\ Running(handler[t].at)
    /\ created[t] # None
    /\ handler[t].step \in {"load", "save", "write"} => job[t].command # "credentials"

Shape ==
  /\ port # None => Running(port)
  /\ \A p \in Procs : ProcessInv(p) /\ TabInv(p) /\ HandlerInv(p)

(* Credentials for the host and the data source of a command. *)
Own(p, c) ==
  /\ c \in Tokens
  /\ c.for.host = job[p].target.host
  /\ c.for.uid = job[p].target.uid

Over(p) == ~Running(p) /\ tab[p] \in {None, "closed"}

AloneHandler(t) ==
  handler[t] # None =>
    /\ handler[t].at = t /\ tab[t] = "closed"
    /\ handler[t].step = "send" /\ ~handler[t].error /\ job[t].command = "credentials"
         => Own(t, value[t])

AloneProcess(p) ==
  /\ pc[p] \in {"sleep", "write", "print"} =>
       /\ handler[p] = None /\ tab[p] = "closed"
       /\ job[p].command = "credentials" => Own(p, value[p])
  /\ pc[p] = "write" => Own(p, saving[p])
  /\ printed[p] = None \/ Own(p, printed[p])

FileInv(t) ==
  file[FileName(t)] \notin {None, Cut} =>
    /\ file[FileName(t)] \in Tokens
    /\ file[FileName(t)].for.host = t.host /\ file[FileName(t)].for.uid = t.uid

AloneInv ==
  alone =>
    /\ \A p, q \in Procs : ~Over(p) /\ ~Over(q) => p = q
    /\ \A p \in Procs : AloneHandler(p) /\ AloneProcess(p)
    /\ \A t \in Targets : FileInv(t)

IInv == Types /\ Shape /\ AloneInv

-----------------------------------------------------------------------------
LEMMA JobLemma ==
  ASSUME Types, NEW p \in DOMAIN job
  PROVE  /\ p \in Procs /\ job[p].command \in {"credentials", "kubeconfig"}
         /\ job[p].target \in Targets /\ FileName(job[p].target) \in Files
<1>1. p \in Procs /\ job[p].command \in {"credentials", "kubeconfig"}
  BY JobsAssumption DEF Types, config
<1>2. job[p].target \in Targets
  BY DEF Types, config, Targets
<1> QED
  BY <1>1, <1>2 DEF Files

LEMMA FileLemma ==
  ASSUME NEW t, NEW u, FileName(t) = FileName(u)
  PROVE  t.host = u.host /\ t.uid = u.uid
BY DEF FileName

(* What the plugin created is not nothing. *)
LEMMA TokenLemma == None \notin Tokens
BY CutAssumption

LEMMA InitIInv == Init => IInv
<1> SUFFICES ASSUME Init PROVE IInv
  OBVIOUS
<1>1. Types
  <2>1. /\ pc \in [Procs -> Places] /\ result \in [Procs -> Results \cup {None}]
        /\ tab \in [Procs -> {None, "open", "redirect", "closed"}]
    BY DEF Init, Places
  <2>2. /\ value \in [Procs -> Things] /\ saving \in [Procs -> Things]
        /\ printed \in [Procs -> Things] /\ file \in [Files -> Things]
    BY DEF Init, Things
  <2>3. created \in [Procs -> Tokens \cup {None}] /\ handler \in [Procs -> Handlers \cup {None}]
    BY DEF Init
  <2>4. kubeconfig \in Configs /\ intact \in BOOLEAN
    BY DEF Init, Entries, Configs
  <2> QED
    BY <2>1, <2>2, <2>3, <2>4 DEF Init, Types, config
<1>2. Shape
  <2>1. \A p \in Procs : ProcessInv(p)
    BY DEF Init, ProcessInv
  <2>2. \A t \in Procs : TabInv(t)
    BY NoneAssumption DEF Init, TabInv
  <2>3. \A t \in Procs : HandlerInv(t)
    BY DEF Init, HandlerInv
  <2> QED
    BY <2>1, <2>2, <2>3 DEF Init, Shape
<1>3. AloneInv
  <2>1. \A p \in Procs : Over(p)
    BY DEF Init, Over, Running
  <2>2. \A p \in Procs : AloneHandler(p) /\ AloneProcess(p)
    BY DEF Init, AloneHandler, AloneProcess
  <2>3. \A t \in Targets : file[FileName(t)] = None
    BY DEF Init, Files
  <2> QED
    BY <2>1, <2>2, <2>3 DEF AloneInv, FileInv
<1> QED
  BY <1>1, <1>2, <1>3 DEF IInv

(* A process ends, with or without something printed. *)
LEMMA ExitStep ==
  ASSUME IInv, NEW p \in Procs, Running(p), NEW how \in Results, NEW out \in Things,
         Exit(p, how, out), UNCHANGED <<job, now, saving, file, alone>>,
         alone => out = None \/ Own(p, out)
  PROVE  IInv'
<1>1. Types'
  <2>1. port' \in tried' \cup {None}
    BY DEF Exit, IInv, Types, config
  <2>2. handler' \in [Procs -> Handlers \cup {None}]
    BY DEF Exit, IInv, Types, config
  <2>3. pc' \in [Procs -> Places] /\ result' \in [Procs -> Results \cup {None}]
    BY DEF Exit, IInv, Types, config, Places
  <2>4. value' \in [Procs -> Things] /\ printed' \in [Procs -> Things] /\ tried' \subseteq Procs
    BY DEF Exit, IInv, Types, config, Things
  <2> QED
    BY <2>1, <2>2, <2>3, <2>4 DEF Exit, IInv, Types, config, browser
<1>2. /\ \A q \in Procs : pc'[q] = IF q = p THEN "done" ELSE pc[q]
      /\ \A q \in Procs : result'[q] = IF q = p THEN how ELSE result[q]
      /\ \A q \in Procs : printed'[q] = IF q = p THEN out ELSE printed[q]
      /\ \A q \in Procs : value'[q] = IF q = p THEN None ELSE value[q]
      /\ \A t \in Procs : handler'[t] # None => handler'[t] = handler[t] /\ handler[t].at # p
      /\ port' # None => port' = port /\ port # p
      /\ UNCHANGED <<tab, created>>
  BY DEF Exit, IInv, Types, config, browser
<1>3. p \in DOMAIN job
  BY DEF IInv, Shape, ProcessInv, Running
<1>4. \A q \in Procs : Running(q)' <=> Running(q) /\ q # p
  BY <1>2 DEF Running
<1>5. Shape'
  <2>1. \A q \in Procs : ProcessInv(q)'
    <3> SUFFICES ASSUME NEW q \in Procs PROVE ProcessInv(q)'
      OBVIOUS
    <3>1. ProcessInv(q)
      BY DEF IInv, Shape
    <3>2. CASE q = p
      BY <1>2, <1>3, <3>2, NoneAssumption DEF ProcessInv, Results
    <3>3. CASE q # p
      BY <1>2, <3>1, <3>3 DEF ProcessInv
    <3> QED
      BY <3>2, <3>3
  <2>2. \A t \in Procs : TabInv(t)'
    BY <1>2 DEF IInv, Shape, TabInv
  <2>3. \A t \in Procs : HandlerInv(t)'
    BY <1>2, <1>4 DEF IInv, Shape, HandlerInv, Types, config, Handlers
  <2>4. port' # None => Running(port)'
    BY <1>2, <1>4 DEF IInv, Shape, Types, config
  <2> QED
    BY <2>1, <2>2, <2>3, <2>4 DEF Shape
<1>6. AloneInv'
  <2> SUFFICES ASSUME alone PROVE AloneInv'
    BY DEF AloneInv
  <2>1. \A q \in Procs : ~Over(q)' => ~Over(q)
    BY <1>2, <1>4 DEF Over
  <2>2. \A c, q : Own(q, c)' <=> Own(q, c)
    BY DEF Own
  <2>3. \A t \in Procs : AloneHandler(t)'
    <3> SUFFICES ASSUME NEW t \in Procs, handler'[t] # None PROVE AloneHandler(t)'
      BY DEF AloneHandler
    <3>1. handler'[t] = handler[t] /\ handler[t].at # p /\ AloneHandler(t)
      BY <1>2 DEF IInv, AloneInv
    <3>2. t # p
      BY <3>1 DEF AloneHandler
    <3> QED
      BY <1>2, <2>2, <3>1, <3>2 DEF AloneHandler
  <2>4. \A q \in Procs : AloneProcess(q)'
    <3> SUFFICES ASSUME NEW q \in Procs PROVE AloneProcess(q)'
      OBVIOUS
    <3>1. AloneProcess(q)
      BY DEF IInv, AloneInv
    <3>2. CASE q = p
      BY <1>2, <2>2, <3>2 DEF AloneProcess
    <3>3. CASE q # p
      BY <1>2, <2>2, <3>1, <3>3 DEF AloneProcess
    <3> QED
      BY <3>2, <3>3
  <2>5. \A t \in Targets : FileInv(t)' <=> FileInv(t)
    BY DEF FileInv
  <2> QED
    BY <2>1, <2>3, <2>4, <2>5 DEF IInv, AloneInv
<1> QED
  BY <1>1, <1>5, <1>6 DEF IInv

(* The process goes on without the browser, the handlers and the files. *)
LEMMA KeptAlone ==
  ASSUME IInv, alone,
         UNCHANGED <<job, tab, handler, file>>,
         \A p \in Procs : /\ Running(p)' => Running(p)
                          /\ AloneProcess(p)'
                          /\ handler[p] # None => value'[p] = value[p]
  PROVE  AloneInv'
<1>1. \A p \in Procs : ~Over(p)' => ~Over(p)
  BY DEF Over
<1>2. \A p \in Procs : AloneHandler(p)'
  BY DEF IInv, AloneInv, AloneHandler, Own
<1>3. \A t \in Targets : FileInv(t)' <=> FileInv(t)
  BY DEF FileInv
<1> QED
  BY <1>1, <1>2, <1>3 DEF IInv, AloneInv

LEMMA StartStep ==
  ASSUME IInv, NEW p \in Procs, Start(p)
  PROVE  IInv'
<1>1. /\ p \in DOMAIN job /\ pc[p] = "idle"
      /\ \A q \in Procs : pc'[q] = IF q = p THEN pc'[p] ELSE pc[q]
      /\ pc'[p] \in {"get", "open"} /\ (pc'[p] = "get" => job[p].command = "credentials")
      /\ UNCHANGED <<job, now, tried, port, value, saving, printed, result, tab, created,
                     handler, file, config>>
  BY DEF Start, IInv, Types, config, browser
<1>2. Types'
  <2>1. pc' \in [Procs -> Places]
    BY DEF Start, IInv, Types, config, Places
  <2> QED
    BY <1>1, <2>1 DEF IInv, Types, config
<1>3. \A q \in Procs : Running(q)' <=> Running(q) \/ q = p
  BY <1>1 DEF Running
<1>4. Shape'
  <2>1. \A q \in Procs : ProcessInv(q)'
    BY <1>1 DEF IInv, Shape, ProcessInv
  <2>2. \A t \in Procs : TabInv(t)' /\ HandlerInv(t)'
    BY <1>1, <1>3 DEF IInv, Shape, TabInv, HandlerInv, Types, config, Handlers
  <2> QED
    BY <1>1, <1>3, <2>1, <2>2 DEF IInv, Shape, Types, config
<1>5. AloneInv'
  <2> SUFFICES ASSUME alone' PROVE AloneInv'
    BY DEF AloneInv
  <2>1. alone /\ \A q \in Procs \ {p} : Over(q)
    BY DEF Start, Over
  <2>2. \A q \in Procs : ~Over(q)' => q = p
    BY <1>1, <1>3, <2>1 DEF Over
  <2>3. \A q \in Procs : AloneHandler(q)' /\ AloneProcess(q)'
    BY <1>1, <2>1 DEF IInv, AloneInv, AloneHandler, AloneProcess, Own
  <2>4. \A t \in Targets : FileInv(t)'
    BY <1>1, <2>1 DEF IInv, AloneInv, FileInv
  <2> QED
    BY <2>2, <2>3, <2>4 DEF AloneInv
<1> QED
  BY <1>2, <1>4, <1>5 DEF IInv

(* The cache answers with credentials of the command's own file, or the     *)
(* command goes on without it.                                               *)
LEMMA GetStep ==
  ASSUME IInv, NEW p \in Procs, Get(p)
  PROVE  IInv'
<1> DEFINE c == file[FileName(job[p].target)]
<1>1. /\ pc[p] = "get" /\ p \in DOMAIN job /\ Running(p)
      /\ UNCHANGED <<job, now, saving, file, alone>>
  BY DEF Get, IInv, Shape, ProcessInv, Running
<1>2. c \in Things /\ job[p].target \in Targets
  BY <1>1, JobLemma DEF IInv, Types, config
<1>3. CASE Usable(c) /\ Exit(p, "ok", c)
  <2>1. c # Cut /\ c # None
    BY <1>3 DEF Usable
  <2>2. alone => Own(p, c)
    BY <1>2, <2>1 DEF IInv, AloneInv, FileInv, Own
  <2> HIDE DEF c
  <2> QED
    BY <1>1, <1>2, <1>3, <2>1, <2>2, ExitStep DEF Results
<1>4. CASE Exit(p, "error", None)
  BY <1>1, <1>4, ExitStep DEF Results, Things
<1>5. CASE /\ pc' = [pc EXCEPT ![p] = "open"]
           /\ UNCHANGED <<tried, port, value, printed, result, browser, handler, config>>
  <2>1. \A q \in Procs : pc'[q] = IF q = p THEN "open" ELSE pc[q]
    BY <1>5 DEF IInv, Types, config
  <2>2. Types'
    <3>1. pc' \in [Procs -> Places]
      BY <1>5 DEF IInv, Types, config, Places
    <3> QED
      BY <1>1, <1>5, <3>1 DEF IInv, Types, config, browser
  <2>3. \A q \in Procs : Running(q)' <=> Running(q)
    BY <1>1, <2>1 DEF Running
  <2>4. Shape'
    <3>1. \A q \in Procs : ProcessInv(q)'
      BY <1>1, <1>5, <2>1 DEF IInv, Shape, ProcessInv, browser
    <3>2. \A t \in Procs : TabInv(t)' /\ HandlerInv(t)'
      BY <1>1, <1>5, <2>3 DEF IInv, Shape, TabInv, HandlerInv, Types, config, Handlers, browser
    <3> QED
      BY <1>5, <2>3, <3>1, <3>2 DEF IInv, Shape, Types, config
  <2>5. alone => \A q \in Procs : AloneProcess(q)'
    BY <1>1, <1>5, <2>1 DEF IInv, AloneInv, AloneProcess, Own, browser
  <2>6. alone => AloneInv'
    BY <1>1, <1>5, <2>3, <2>5, KeptAlone DEF browser
  <2>7. AloneInv'
    BY <1>1, <2>6 DEF AloneInv
  <2> QED
    BY <2>2, <2>4, <2>7 DEF IInv
<1> QED
  BY <1>3, <1>4, <1>5 DEF Get

LEMMA ListenStep ==
  ASSUME IInv, NEW p \in Procs, Listen(p)
  PROVE  IInv'
<1>1. /\ Running(p) /\ UNCHANGED <<job, now, pc, value, saving, printed, result, tab, created,
                                    handler, file, config, alone>>
  BY DEF Listen, Running, browser
<1>2. Types'
  BY <1>1 DEF Listen, IInv, Types, config
<1>3. Shape'
  <2>1. \A q \in Procs : (Running(q)' <=> Running(q)) /\ ProcessInv(q)'
    BY <1>1 DEF IInv, Shape, ProcessInv, Running
  <2>2. \A t \in Procs : TabInv(t)' /\ HandlerInv(t)'
    BY <1>1, <2>1 DEF IInv, Shape, TabInv, HandlerInv, Types, config, Handlers
  <2>3. port' = port \/ port' = p
    BY DEF Listen
  <2>4. (port # None => Running(port))'
    BY <1>1, <2>3 DEF IInv, Shape, Running
  <2> QED
    BY <2>1, <2>2, <2>4 DEF Shape
<1>4. alone => AloneInv'
  <2>1. alone => \A q \in Procs : AloneProcess(q)'
    BY <1>1 DEF IInv, AloneInv, AloneProcess, Own
  <2> QED
    BY <1>1, <2>1, KeptAlone DEF Running
<1> QED
  BY <1>1, <1>2, <1>3, <1>4 DEF IInv, AloneInv

LEMMA OpenUrlStep ==
  ASSUME IInv, NEW p \in Procs, OpenUrl(p)
  PROVE  IInv'
<1>1. /\ pc[p] = "open" /\ Running(p) /\ p \in DOMAIN job
      /\ \A q \in Procs : pc'[q] = IF q = p THEN "wait" ELSE pc[q]
      /\ \A q \in Procs : tab'[q] = IF q = p THEN tab'[p] ELSE tab[q]
      /\ tab'[p] \in {"open", "closed"}
      /\ UNCHANGED <<job, now, tried, port, value, saving, printed, result, created, handler,
                     file, config, alone>>
  BY DEF OpenUrl, IInv, Types, config, Shape, ProcessInv, Running
<1>2. Types'
  <2>1. pc' \in [Procs -> Places]
    BY DEF OpenUrl, IInv, Types, config, Places
  <2>2. tab' \in [Procs -> {None, "open", "redirect", "closed"}]
    BY DEF OpenUrl, IInv, Types, config
  <2> QED
    BY <1>1, <2>1, <2>2 DEF IInv, Types, config
<1>3. \A q \in Procs : Running(q)' <=> Running(q)
  BY <1>1 DEF Running
<1>4. Shape'
  <2>1. \A q \in Procs : ProcessInv(q)'
    BY <1>1 DEF IInv, Shape, ProcessInv
  <2>2. \A t \in Procs : TabInv(t)'
    BY <1>1 DEF IInv, Shape, TabInv
  <2>3. \A t \in Procs : HandlerInv(t)'
    BY <1>1, <1>3 DEF IInv, Shape, HandlerInv, Types, config, Handlers
  <2> QED
    BY <1>1, <1>3, <2>1, <2>2, <2>3 DEF IInv, Shape, Types, config
<1>5. AloneInv'
  <2> SUFFICES ASSUME alone PROVE AloneInv'
    BY <1>1 DEF AloneInv
  <2>1. \A q \in Procs : ~Over(q)' => ~Over(q)
    BY <1>1, <1>3 DEF Over
  <2>2. handler[p] = None
    BY <1>1, NoneAssumption DEF IInv, AloneInv, AloneHandler, Shape, ProcessInv
  <2>3. \A q \in Procs : AloneHandler(q)' /\ AloneProcess(q)'
    BY <1>1, <2>2 DEF IInv, AloneInv, AloneHandler, AloneProcess, Own
  <2>4. \A t \in Targets : FileInv(t)'
    BY <1>1 DEF IInv, AloneInv, FileInv
  <2> QED
    BY <2>1, <2>3, <2>4 DEF IInv, AloneInv
<1> QED
  BY <1>2, <1>4, <1>5 DEF IInv

(* The steps in which a process ends. *)
LEMMA EndStep ==
  ASSUME IInv, NEW p \in Procs,
         Timeout(p) \/ WriteFails(p) \/ PrintValue(p) \/ EndKubeconfig(p) \/ Interrupt(p)
  PROVE  IInv'
<1>1. /\ Running(p)
      /\ UNCHANGED <<job, now, saving, file, alone>>
  BY DEF Timeout, WriteFails, PrintValue, EndKubeconfig, Interrupt, Running
<1>2. CASE PrintValue(p)
  <2>1. Exit(p, "ok", value[p]) /\ value[p] \in Things
    BY <1>2 DEF PrintValue, IInv, Types, config
  <2>2. alone => Own(p, value[p])
    BY <1>2 DEF PrintValue, IInv, AloneInv, AloneProcess, Shape, ProcessInv
  <2> QED
    BY <1>1, <2>1, <2>2, ExitStep DEF Results
<1>3. CASE Timeout(p) \/ WriteFails(p) \/ EndKubeconfig(p) \/ Interrupt(p)
  <2>1. \E how \in Results : Exit(p, how, None)
    BY <1>3 DEF Timeout, WriteFails, EndKubeconfig, Interrupt, Results
  <2>2. None \in Things
    BY DEF Things
  <2> QED
    BY <1>1, <2>1, <2>2, ExitStep
<1> QED
  BY <1>2, <1>3

(* Run hears of the handler of its own tab, when it is alone. *)
LEMMA ReceiveStep ==
  ASSUME IInv, NEW p \in Procs, NEW t \in Procs, Receive(p, t)
  PROVE  IInv'
<1>1. /\ pc[p] = "wait" /\ Running(p) /\ p \in DOMAIN job
      /\ handler[t] # None /\ handler[t].at = p /\ handler[t].step = "send"
      /\ UNCHANGED <<job, now, saving, file, alone>>
  BY DEF Receive, IInv, Shape, ProcessInv, Running
<1>2. CASE Exit(p, "error", None)
  <2>1. None \in Things
    BY DEF Things
  <2> QED
    BY <1>1, <1>2, <2>1, ExitStep DEF Results
<1>3. CASE ~handler[t].error
  <2>1. /\ \A q \in Procs : pc'[q] = IF q = p THEN "sleep" ELSE pc[q]
        /\ \A q \in Procs : handler'[q] = IF q = t THEN None ELSE handler[q]
        /\ UNCHANGED <<tried, port, value, printed, result, tab, created, config>>
    BY <1>3 DEF Receive, IInv, Types, config, browser
  <2>2. Types'
    <3>1. pc' \in [Procs -> Places] /\ handler' \in [Procs -> Handlers \cup {None}]
      BY <1>3 DEF Receive, IInv, Types, config, Places
    <3> QED
      BY <1>1, <2>1, <3>1 DEF IInv, Types, config
  <2>3. \A q \in Procs : Running(q)' <=> Running(q)
    BY <1>1, <2>1 DEF Running
  <2>4. Shape'
    <3>1. \A q \in Procs : ProcessInv(q)'
      BY <1>1, <2>1 DEF IInv, Shape, ProcessInv
    <3>2. \A q \in Procs : TabInv(q)'
      BY <1>1, <2>1 DEF IInv, Shape, TabInv
    <3>3. \A q \in Procs : HandlerInv(q)'
      BY <1>1, <2>1, <2>3 DEF IInv, Shape, HandlerInv, Types, config, Handlers
    <3> QED
      BY <2>1, <2>3, <3>1, <3>2, <3>3 DEF IInv, Shape, Types, config
  <2>5. AloneInv'
    <3> SUFFICES ASSUME alone PROVE AloneInv'
      BY <1>1 DEF AloneInv
    <3>1. t = p /\ tab[p] = "closed" /\ (job[p].command = "credentials" => Own(p, value[p]))
      BY <1>1, <1>3 DEF IInv, AloneInv, AloneHandler
    <3>2. \A q \in Procs : ~Over(q)' => ~Over(q)
      BY <2>1, <2>3 DEF Over
    <3>3. \A q \in Procs : AloneHandler(q)'
      BY <1>1, <2>1 DEF IInv, AloneInv, AloneHandler, Own
    <3>4. \A q \in Procs : AloneProcess(q)'
      BY <1>1, <2>1, <3>1 DEF IInv, AloneInv, AloneProcess, Own
    <3>5. \A u \in Targets : FileInv(u)'
      BY <1>1 DEF IInv, AloneInv, FileInv
    <3> QED
      BY <3>2, <3>3, <3>4, <3>5 DEF IInv, AloneInv
  <2> QED
    BY <2>2, <2>4, <2>5 DEF IInv
<1> QED
  BY <1>2, <1>3 DEF Receive

(* The file of a command is cut off and written with its credentials. *)
LEMMA SaveStep ==
  ASSUME IInv, NEW p \in Procs, Set(p) \/ Write(p)
  PROVE  IInv'
<1> DEFINE f == FileName(job[p].target)
<1>1. /\ pc[p] \in {"sleep", "write"} /\ Running(p) /\ p \in DOMAIN job
      /\ job[p].command = "credentials" /\ f \in Files
      /\ UNCHANGED <<job, now, tried, port, value, printed, result, tab, created, handler,
                     config, alone>>
  <2>1. /\ pc[p] \in {"sleep", "write"} /\ Running(p) /\ p \in DOMAIN job
        /\ UNCHANGED <<job, now, tried, port, value, printed, result, tab, created, handler,
                       config, alone>>
    BY DEF Set, Write, IInv, Shape, ProcessInv, Running, browser
  <2>2. job[p].command = "credentials"
    BY DEF Set, Write, IInv, Shape, ProcessInv
  <2> QED
    BY <2>1, <2>2, JobLemma DEF IInv
<1>2. \/ /\ pc[p] = "sleep"
         /\ \A q \in Procs : pc'[q] = IF q = p THEN "write" ELSE pc[q]
         /\ \A q \in Procs : saving'[q] = IF q = p THEN value[p] ELSE saving[q]
         /\ \A g \in Files : file'[g] = IF g = f THEN Cut ELSE file[g]
      \/ /\ pc[p] = "write"
         /\ \A q \in Procs : pc'[q] = IF q = p THEN "print" ELSE pc[q]
         /\ \A q \in Procs : saving'[q] = IF q = p THEN None ELSE saving[q]
         /\ \A g \in Files : file'[g] = IF g = f THEN saving[p] ELSE file[g]
  <2>1. CASE Set(p)
    BY <2>1 DEF Set, IInv, Types, config
  <2>2. CASE Write(p)
    BY <2>2 DEF Write, IInv, Types, config
  <2> QED
    BY <2>1, <2>2
<1>3. Types'
  <2>1. pc' \in [Procs -> Places] /\ saving' \in [Procs -> Things]
    BY DEF Set, Write, IInv, Types, config, Places, Things
  <2>2. value[p] \in Things /\ saving[p] \in Things /\ Cut \in Things
    BY DEF IInv, Types, config, Things
  <2>3. file' \in [Files -> Things]
    BY <2>2 DEF Set, Write, IInv, Types, config
  <2> QED
    BY <1>1, <2>1, <2>3 DEF IInv, Types, config
<1>4. \A q \in Procs : Running(q)' <=> Running(q)
  BY <1>1, <1>2 DEF Running
<1>5. Shape'
  <2>1. \A q \in Procs : ProcessInv(q)'
    BY <1>1, <1>2 DEF IInv, Shape, ProcessInv
  <2>2. \A q \in Procs : TabInv(q)'
    BY <1>1 DEF IInv, Shape, TabInv
  <2>3. \A q \in Procs : HandlerInv(q)'
    BY <1>1, <1>4 DEF IInv, Shape, HandlerInv, Types, config, Handlers
  <2> QED
    BY <1>1, <1>4, <2>1, <2>2, <2>3 DEF IInv, Shape, Types, config
<1>6. AloneInv'
  <2> SUFFICES ASSUME alone PROVE AloneInv'
    BY <1>1 DEF AloneInv
  <2>1. \A q \in Procs : ~Over(q)' => ~Over(q)
    BY <1>1, <1>4 DEF Over
  <2>2. \A q \in Procs : AloneHandler(q)'
    BY <1>1 DEF IInv, AloneInv, AloneHandler, Own
  <2>3. \A q \in Procs : AloneProcess(q)'
    BY <1>1, <1>2 DEF IInv, AloneInv, AloneProcess, Own
  <2>4. \A u \in Targets : FileInv(u)'
    <3> SUFFICES ASSUME NEW u \in Targets PROVE FileInv(u)'
      OBVIOUS
    <3>1. FileName(u) \in Files
      BY DEF Files
    <3>2. CASE FileName(u) # f
      BY <1>2, <3>1, <3>2 DEF IInv, AloneInv, FileInv
    <3>3. CASE FileName(u) = f
      <4>1. u.host = job[p].target.host /\ u.uid = job[p].target.uid
        BY <3>3, FileLemma
      <4>2. pc[p] = "write" => Own(p, saving[p])
        BY DEF IInv, AloneInv, AloneProcess
      <4>3. \/ file'[FileName(u)] = Cut
            \/ pc[p] = "write" /\ file'[FileName(u)] = saving[p]
        BY <1>2, <3>1, <3>3
      <4> QED
        BY <4>1, <4>2, <4>3 DEF FileInv, Own
    <3> QED
      BY <3>2, <3>3
  <2> QED
    BY <2>1, <2>2, <2>3, <2>4 DEF IInv, AloneInv
<1> QED
  BY <1>3, <1>5, <1>6 DEF IInv

-----------------------------------------------------------------------------
(* The tabs and the handlers: the processes stay where they are.             *)

LEMMA CreateStep ==
  ASSUME IInv, NEW t \in Procs, Create(t)
  PROVE  IInv'
<1>1. /\ tab[t] = "open" /\ t \in DOMAIN job
      /\ \A q \in Procs : tab'[q] = IF q = t THEN tab'[t] ELSE tab[q]
      /\ \A q \in Procs : created'[q] = IF q = t THEN created'[t] ELSE created[q]
      /\ \/ tab'[t] = "redirect" /\ created'[t] = Credentials(job[t].target)
         \/ tab'[t] = "closed" /\ created'[t] = created[t]
      /\ UNCHANGED <<job, now, pc, tried, port, value, saving, printed, result, handler,
                     file, config, alone>>
  BY NoneAssumption DEF Create, IInv, Types, config, Shape, TabInv, process
<1>2. Credentials(job[t].target) \in Tokens /\ Credentials(job[t].target).for = job[t].target
  <2>1. now + TTL - Margin \in Int
    BY BoundsAssumption DEF IInv, Types, config, Margin
  <2>2. job[t].target \in Targets
    BY <1>1, JobLemma DEF IInv
  <2> QED
    BY <2>1, <2>2 DEF Credentials, Tokens
<1>3. Types'
  <2>1. tab' \in [Procs -> {None, "open", "redirect", "closed"}]
    BY DEF Create, IInv, Types, config
  <2>2. created' \in [Procs -> Tokens \cup {None}]
    BY <1>2 DEF Create, IInv, Types, config
  <2> QED
    BY <1>1, <2>1, <2>2 DEF IInv, Types, config
<1>4. \A q \in Procs : Running(q)' <=> Running(q)
  BY <1>1 DEF Running
<1>5. created'[t] # None \/ tab'[t] = "closed"
  BY <1>1, <1>2, TokenLemma
<1>6. Shape'
  <2>1. \A q \in Procs : ProcessInv(q)'
    BY <1>1, NoneAssumption DEF IInv, Shape, ProcessInv
  <2>2. \A q \in Procs : TabInv(q)'
    <3>1. TabInv(t)'
      BY <1>1, <1>2, <1>5 DEF IInv, Shape, TabInv
    <3> QED
      BY <1>1, <3>1 DEF IInv, Shape, TabInv
  <2>3. \A q \in Procs : HandlerInv(q)'
    BY <1>1, <1>2, <1>4, TokenLemma DEF IInv, Shape, HandlerInv, Types, config, Handlers
  <2> QED
    BY <1>1, <1>4, <2>1, <2>2, <2>3 DEF IInv, Shape, Types, config
<1>7. AloneInv'
  <2> SUFFICES ASSUME alone PROVE AloneInv'
    BY <1>1 DEF AloneInv
  <2>1. \A q \in Procs : ~Over(q)' => ~Over(q)
    BY <1>1, <1>4, NoneAssumption DEF Over
  <2>2. \A q \in Procs : AloneHandler(q)'
    BY <1>1 DEF IInv, AloneInv, AloneHandler, Own
  <2>3. \A q \in Procs : AloneProcess(q)'
    BY <1>1 DEF IInv, AloneInv, AloneProcess, Own
  <2>4. \A u \in Targets : FileInv(u)'
    BY <1>1 DEF IInv, AloneInv, FileInv
  <2> QED
    BY <2>1, <2>2, <2>3, <2>4 DEF IInv, AloneInv
<1> QED
  BY <1>3, <1>6, <1>7 DEF IInv

(* The redirect: alone, a tab finds nobody or its own process. *)
LEMMA RedirectStep ==
  ASSUME IInv, NEW t \in Procs, Redirect(t)
  PROVE  IInv'
<1> DEFINE step == IF job[t].command = "credentials" THEN "assign" ELSE "load"
<1>1. /\ tab[t] = "redirect" /\ t \in DOMAIN job /\ created[t] # None
      /\ \A q \in Procs : tab'[q] = IF q = t THEN "closed" ELSE tab[q]
      /\ \A q \in Procs : handler'[q] = IF q = t THEN handler'[t] ELSE handler[q]
      /\ \/ handler'[t] = None
         \/ port # None /\ handler'[t] \in {Missing(port), NewHandler(port, step)}
      /\ UNCHANGED <<job, now, pc, tried, port, value, saving, printed, result, created,
                     file, config, alone>>
  BY NoneAssumption DEF Redirect, IInv, Types, config, Shape, TabInv, process
<1>2. ASSUME handler'[t] # None
      PROVE  /\ handler'[t] \in Handlers /\ handler'[t].at = port /\ Running(port) /\ port \in Procs
             /\ handler'[t].step = "send" => handler'[t].error
             /\ handler'[t].step \in {"load", "save", "write"} => job[t].command # "credentials"
  <2>1. port \in Procs /\ Running(port)
    BY <1>1, <1>2 DEF IInv, Shape, Types, config
  <2>2. CASE handler'[t] = Missing(port)
    BY <2>1, <2>2 DEF Missing, Handlers
  <2>3. CASE handler'[t] = NewHandler(port, step)
    <3>1. /\ step \in {"assign", "load"}
          /\ step = "load" => job[t].command # "credentials"
      OBVIOUS
    <3> HIDE DEF step
    <3> QED
      BY <2>1, <2>3, <3>1 DEF NewHandler, Handlers
  <2> QED
    BY <1>1, <1>2, <2>2, <2>3
<1>3. Types'
  <2>1. tab' \in [Procs -> {None, "open", "redirect", "closed"}]
    BY DEF Redirect, IInv, Types, config
  <2>2. \A q \in Procs : handler'[q] \in Handlers \cup {None}
    BY <1>1, <1>2 DEF IInv, Types, config
  <2>3. handler' \in [Procs -> Handlers \cup {None}]
    <3>1. handler' = [q \in Procs |-> handler'[q]]
      BY DEF Redirect, IInv, Types, config
    <3> QED
      BY <2>2, <3>1
  <2> QED
    BY <1>1, <2>1, <2>3 DEF IInv, Types, config
<1>4. \A q \in Procs : Running(q)' <=> Running(q)
  BY <1>1 DEF Running
<1>5. Shape'
  <2>1. \A q \in Procs : ProcessInv(q)'
    BY <1>1, NoneAssumption DEF IInv, Shape, ProcessInv
  <2>2. \A q \in Procs : TabInv(q)'
    BY <1>1 DEF IInv, Shape, TabInv
  <2>3. \A q \in Procs : HandlerInv(q)'
    BY <1>1, <1>2, <1>4 DEF IInv, Shape, HandlerInv, Types, config, Handlers
  <2> QED
    BY <1>1, <1>4, <2>1, <2>2, <2>3 DEF IInv, Shape, Types, config
<1>6. AloneInv'
  <2> SUFFICES ASSUME alone PROVE AloneInv'
    BY <1>1 DEF AloneInv
  <2>1. \A q \in Procs : ~Over(q)' => ~Over(q)
    BY <1>1, <1>4, NoneAssumption DEF Over
  <2>2. handler'[t] # None => port = t
    <3>1. ~Over(t)
      BY <1>1, NoneAssumption DEF Over
    <3> QED
      BY <1>2, <3>1 DEF IInv, AloneInv, Over
  <2>3. \A q \in Procs : AloneHandler(q)'
    BY <1>1, <1>2, <2>2 DEF IInv, AloneInv, AloneHandler, Own
  <2>4. \A q \in Procs : AloneProcess(q)'
    BY <1>1 DEF IInv, AloneInv, AloneProcess, Own
  <2>5. \A u \in Targets : FileInv(u)'
    BY <1>1 DEF IInv, AloneInv, FileInv
  <2> QED
    BY <2>1, <2>3, <2>4, <2>5 DEF IInv, AloneInv
<1> QED
  BY <1>3, <1>5, <1>6 DEF IInv

(* A handler goes on, and may assign the variable of its process.            *)
LEMMA HandlerGoesOn ==
  ASSUME IInv, NEW t \in Procs, handler[t] # None,
         NEW h \in Handlers, h.at = handler[t].at,
         handler' = [handler EXCEPT ![t] = h],
         h.step \in {"load", "save", "write"} => job[t].command # "credentials",
         NEW v \in Things, value' = value \/ value' = [value EXCEPT ![h.at] = v],
         alone /\ h.step = "send" /\ ~h.error /\ job[t].command = "credentials"
           => Own(t, value'[t]),
         kubeconfig' \in Configs, intact' \in BOOLEAN,
         UNCHANGED <<job, now, pc, tried, port, saving, printed, result, browser, file, alone>>
  PROVE  IInv'
<1>1. /\ \A q \in Procs : handler'[q] = IF q = t THEN h ELSE handler[q]
      /\ \A q \in Procs : q # h.at => value'[q] = value[q]
      /\ h.at \in Procs /\ UNCHANGED <<tab, created>>
  BY DEF IInv, Types, config, Handlers, browser
<1>2. Types'
  <2>1. handler' \in [Procs -> Handlers \cup {None}]
    BY DEF IInv, Types, config
  <2>2. value' \in [Procs -> Things]
    BY DEF IInv, Types, config
  <2> QED
    BY <1>1, <2>1, <2>2 DEF IInv, Types, config
<1>3. \A q \in Procs : Running(q)' <=> Running(q)
  BY DEF Running
<1>4. Shape'
  <2>1. \A q \in Procs : ProcessInv(q)'
    BY <1>1 DEF IInv, Shape, ProcessInv
  <2>2. \A q \in Procs : TabInv(q)'
    BY <1>1 DEF IInv, Shape, TabInv
  <2>3. \A q \in Procs : HandlerInv(q)'
    BY <1>1, <1>3 DEF IInv, Shape, HandlerInv, Types, config, Handlers
  <2> QED
    BY <1>3, <2>1, <2>2, <2>3 DEF IInv, Shape, Types, config
<1>5. AloneInv'
  <2> SUFFICES ASSUME alone PROVE AloneInv'
    BY DEF AloneInv
  <2>1. \A q \in Procs : ~Over(q)' => ~Over(q)
    BY <1>1, <1>3 DEF Over
  <2>2. h.at = t /\ tab[t] = "closed"
    BY DEF IInv, AloneInv, AloneHandler
  <2>3. \A q \in Procs : AloneHandler(q)'
    BY <1>1, <2>2 DEF IInv, AloneInv, AloneHandler, Own
  <2>4. \A q \in Procs : AloneProcess(q)'
    BY <1>1, <2>2 DEF IInv, AloneInv, AloneProcess, Own
  <2>5. \A u \in Targets : FileInv(u)'
    BY DEF IInv, AloneInv, FileInv
  <2> QED
    BY <2>1, <2>3, <2>4, <2>5 DEF IInv, AloneInv
<1> QED
  BY <1>2, <1>4, <1>5 DEF IInv

LEMMA HandlerStep ==
  ASSUME IInv, NEW t \in Procs, Handle(t) \/ LoadFails(t) \/ SaveFails(t)
  PROVE  IInv'
<1>1. handler[t] # None /\ handler[t] \in Handlers /\ HandlerInv(t) /\ created[t] \in Tokens
  BY DEF Handle, Assign, Assigned, Load, Truncate, Save, LoadFails, SaveFails, HasRead, At, IInv, Types, config, Shape, HandlerInv
<1>2. t \in DOMAIN job => job[t].target \in Targets
  BY JobLemma DEF IInv
<1>3. CASE Assign(t)
  <2> DEFINE h == [handler[t] EXCEPT !.step = "assigned"]
  <2>1. h \in Handlers /\ h.at = handler[t].at /\ h.step = "assigned"
    BY <1>1 DEF Handlers
  <2>2. handler' = [handler EXCEPT ![t] = h] /\ value' = [value EXCEPT ![h.at] = Cut]
    BY <1>3, <2>1 DEF Assign, Goto
  <2>3. UNCHANGED <<job, now, pc, tried, port, saving, printed, result, browser, file, alone,
                    config>>
    BY <1>3 DEF Assign
  <2>4. Cut \in Things /\ kubeconfig' \in Configs /\ intact' \in BOOLEAN
    BY <2>3 DEF Things, IInv, Types, config
  <2> HIDE DEF h
  <2> QED
    BY <1>1, <2>1, <2>2, <2>3, <2>4, HandlerGoesOn
<1>4. CASE Assigned(t)
  <2> DEFINE h == [handler[t] EXCEPT !.step = "send"]
  <2>1. h \in Handlers /\ h.at = handler[t].at /\ h.step = "send"
    BY <1>1 DEF Handlers
  <2>2. handler' = [handler EXCEPT ![t] = h] /\ value' = [value EXCEPT ![h.at] = created[t]]
    BY <1>4, <2>1 DEF Assigned, Goto
  <2>3. UNCHANGED <<job, now, pc, tried, port, saving, printed, result, browser, file, alone,
                    config>>
    BY <1>4 DEF Assigned
  <2>4. created[t] \in Things /\ kubeconfig' \in Configs /\ intact' \in BOOLEAN
    BY <1>1, <2>3 DEF Things, IInv, Types, config
  <2>5. alone => Own(t, value'[t])
    <3>1. alone => h.at = t
      BY <1>1, <2>1 DEF IInv, AloneInv, AloneHandler
    <3>2. created[t].for = job[t].target
      BY <1>1, TokenLemma DEF IInv, Shape, TabInv
    <3>3. alone => value'[t] = created[t]
      BY <2>2, <3>1 DEF IInv, Types, config
    <3> QED
      BY <1>1, <3>2, <3>3 DEF Own
  <2> HIDE DEF h
  <2> QED
    BY <1>1, <2>1, <2>2, <2>3, <2>4, <2>5, HandlerGoesOn
<1>5. CASE Load(t)
  <2> DEFINE h == [handler[t] EXCEPT !.step = "save", !.base = kubeconfig.entries]
  <2>1. h \in Handlers /\ h.at = handler[t].at /\ h.step = "save"
    BY <1>1 DEF Handlers, Configs, IInv, Types
  <2>2. handler' = [handler EXCEPT ![t] = h]
    BY <1>5 DEF Load
  <2>3. /\ UNCHANGED <<job, now, pc, tried, port, value, saving, printed, result, browser, file,
                       alone, config>>
        /\ job[t].command # "credentials"
    BY <1>1, <1>5 DEF Load, process, HandlerInv, At
  <2>4. Cut \in Things /\ kubeconfig' \in Configs /\ intact' \in BOOLEAN
    BY <2>3 DEF Things, IInv, Types, config
  <2> HIDE DEF h
  <2> QED
    BY <1>1, <2>1, <2>2, <2>3, <2>4, HandlerGoesOn
<1>6. CASE LoadFails(t)
  <2> DEFINE h == [handler[t] EXCEPT !.step = "send", !.error = TRUE]
  <2>1. h \in Handlers /\ h.at = handler[t].at /\ h.step = "send" /\ h.error
    BY <1>1 DEF Handlers, IInv, Types, config
  <2>2. handler' = [handler EXCEPT ![t] = h]
    BY <1>6 DEF LoadFails
  <2>3. UNCHANGED <<job, now, pc, tried, port, value, saving, printed, result, browser, file,
                    alone, config>>
    BY <1>6 DEF LoadFails, process
  <2>4. Cut \in Things /\ kubeconfig' \in Configs /\ intact' \in BOOLEAN
    BY <2>3 DEF Things, IInv, Types, config
  <2> HIDE DEF h
  <2> QED
    BY <1>1, <2>1, <2>2, <2>3, <2>4, HandlerGoesOn
<1>7. CASE Truncate(t)
  <2> DEFINE h == [handler[t] EXCEPT !.step = "write"]
  <2>1. h \in Handlers /\ h.at = handler[t].at /\ h.step = "write"
    BY <1>1 DEF Handlers
  <2>2. handler' = [handler EXCEPT ![t] = h]
    BY <1>7 DEF Truncate, Goto
  <2>3. /\ UNCHANGED <<job, now, pc, tried, port, value, saving, printed, result, browser, file,
                       alone>>
        /\ job[t].command # "credentials"
    BY <1>1, <1>7 DEF Truncate, process, HandlerInv, At
  <2>4. Cut \in Things /\ kubeconfig' \in Configs /\ intact' \in BOOLEAN
    BY <1>7 DEF Truncate, Changed, Emptied, Configs, Things, IInv, Types
  <2> HIDE DEF h
  <2> QED
    BY <1>1, <2>1, <2>2, <2>3, <2>4, HandlerGoesOn
<1>8. CASE Save(t) \/ SaveFails(t)
  <2> DEFINE h == [handler[t] EXCEPT !.step = "send"]
  <2>1. h \in Handlers /\ h.at = handler[t].at /\ h.step = "send"
    BY <1>1 DEF Handlers
  <2>2. handler' = [handler EXCEPT ![t] = h]
    BY <1>8 DEF Save, SaveFails, Goto
  <2>3. /\ UNCHANGED <<job, now, pc, tried, port, value, saving, printed, result, browser, file,
                       alone>>
        /\ job[t].command # "credentials"
    BY <1>1, <1>8 DEF Save, SaveFails, process, HandlerInv, HasRead, At
  <2>4. t \in DOMAIN job
    BY <1>1, TokenLemma DEF IInv, Shape, TabInv
  <2>5. Merged(handler[t].base, job[t].target) \subseteq Entries
    BY <1>1, <1>2, <2>4 DEF Handlers, Merged, Entries
  <2>6. Cut \in Things /\ kubeconfig' \in Configs /\ intact' \in BOOLEAN
    <3> DEFINE merged == Merged(handler[t].base, job[t].target)
    <3>1. \/ \E w \in BOOLEAN, part \in SUBSET merged : kubeconfig' = [whole |-> w, entries |-> part]
          \/ kubeconfig' = kubeconfig
      BY <1>8 DEF Save, SaveFails, config
    <3>2. intact' \in BOOLEAN
      BY <1>8 DEF Save, SaveFails, Changed, config, IInv, Types
    <3> HIDE DEF merged
    <3>3. merged \subseteq Entries
      BY <2>5 DEF merged
    <3> QED
      BY <3>1, <3>2, <3>3 DEF Configs, Things, IInv, Types
  <2> HIDE DEF h
  <2> QED
    BY <1>1, <2>1, <2>2, <2>3, <2>6, HandlerGoesOn
<1> QED
  BY <1>3, <1>4, <1>5, <1>6, <1>7, <1>8 DEF Handle

(* Nothing that the invariant speaks of depends on the clock or on what     *)
(* others write.                                                             *)
LEMMA WorldStep ==
  ASSUME IInv, now' \in Nat, kubeconfig' \in Configs, intact' \in BOOLEAN,
         UNCHANGED <<job, process, browser, handler, file, alone>>
  PROVE  IInv'
<1>1. UNCHANGED <<pc, tried, port, value, saving, printed, result, tab, created>>
  BY DEF process, browser
<1>2. Types'
  BY <1>1 DEF IInv, Types, config
<1>3. \A p \in Procs : /\ Running(p)' <=> Running(p)
                       /\ ProcessInv(p)' <=> ProcessInv(p)
                       /\ TabInv(p)' <=> TabInv(p)
  BY <1>1 DEF Running, ProcessInv, TabInv
<1>4. Shape'
  <2>1. \A p \in Procs : HandlerInv(p)'
    BY <1>1, <1>3 DEF IInv, Shape, HandlerInv, Types, config, Handlers
  <2> QED
    BY <1>1, <1>3, <2>1 DEF IInv, Shape, Types, config
<1>5. \A p \in Procs : (AloneHandler(p)' <=> AloneHandler(p)) /\ (AloneProcess(p)' <=> AloneProcess(p))
  BY <1>1 DEF AloneHandler, AloneProcess, Own
<1>6. AloneInv'
  <2>1. \A p \in Procs : Over(p)' <=> Over(p)
    BY <1>1, <1>3 DEF Over
  <2>2. \A u \in Targets : FileInv(u)' <=> FileInv(u)
    BY DEF FileInv
  <2> QED
    BY <1>5, <2>1, <2>2 DEF IInv, AloneInv
<1> QED
  BY <1>2, <1>4, <1>6 DEF IInv

LEMMA Inductive == IInv /\ [Next]_vars => IInv'
<1> SUFFICES ASSUME IInv, [Next]_vars PROVE IInv'
  OBVIOUS
<1>1. ASSUME NEW p \in Procs, Start(p) \/ Run(p) \/ Listen(p) \/ WriteFails(p) \/ Interrupt(p)
      PROVE  IInv'
  BY <1>1, StartStep, GetStep, ListenStep, OpenUrlStep, ReceiveStep, SaveStep, EndStep DEF Run
<1>2. ASSUME NEW t \in Procs, Create(t) \/ Redirect(t) \/ Handle(t) \/ LoadFails(t) \/ SaveFails(t)
      PROVE  IInv'
  BY <1>2, CreateStep, RedirectStep, HandlerStep
<1>3. CASE Others
  <2>1. kubeconfig' \in Configs /\ intact' \in BOOLEAN /\ now' \in Nat
    BY <1>3 DEF Others, IInv, Types, Configs, Entries
  <2> QED
    BY <1>3, <2>1, WorldStep DEF Others
<1>4. CASE Tick
  <2>1. kubeconfig' \in Configs /\ intact' \in BOOLEAN /\ now' \in Nat
    BY <1>4 DEF Tick, IInv, Types, config
  <2> QED
    BY <1>4, <2>1, WorldStep DEF Tick
<1>5. CASE UNCHANGED vars
  <2>1. kubeconfig' \in Configs /\ intact' \in BOOLEAN /\ now' \in Nat
    BY <1>5 DEF vars, IInv, Types, config
  <2> QED
    BY <1>5, <2>1, WorldStep DEF vars
<1> QED
  BY <1>1, <1>2, <1>3, <1>4, <1>5 DEF Next

(* The invariant holds in every state the commands can reach.                *)
THEOREM Invariance == Spec => []IInv
<1> QED
  BY InitIInv, Inductive, PTL DEF Spec

(* Every variable holds what its part may hold; the server and the handlers  *)
(* live in processes that run.                                               *)
THEOREM TypeCorrect == Spec => []TypeOK
<1>1. IInv => TypeOK
  <2> SUFFICES ASSUME IInv PROVE TypeOK
    OBVIOUS
  <2>1. \A p \in Procs : {value[p], saving[p], printed[p]} \subseteq Tokens \cup {None, Cut}
    BY DEF IInv, Types, config, Things
  <2>2. \A p \in Procs : /\ result[p] # None <=> pc[p] = "done"
                         /\ handler[p] # None => Running(handler[p].at)
    BY DEF IInv, Shape, ProcessInv, HandlerInv
  <2>3. /\ pc \in [Procs -> {"idle", "get", "open", "wait", "sleep", "write", "print", "done"}]
        /\ file \in [Files -> Tokens \cup {None, Cut}]
        /\ kubeconfig \in [whole : BOOLEAN, entries : SUBSET Entries]
    BY DEF IInv, Types, Configs, Places, Things
  <2>4. tried \subseteq Procs /\ port \in tried \cup {None} /\ (port # None => Running(port))
    BY DEF IInv, Types, config, Shape
  <2> QED
    BY <2>1, <2>2, <2>3, <2>4 DEF TypeOK
<1> QED
  BY <1>1, Invariance, PTL

(* A command that runs alone prints credentials for its own host and data    *)
(* source, whatever was cached before it.                                    *)
THEOREM AloneIsSafe == Spec => []AloneGetsOwn
<1>1. IInv => AloneGetsOwn
  <2> SUFFICES ASSUME IInv, alone, NEW p \in Procs, printed[p] # None
               PROVE  /\ printed[p] # Cut
                      /\ printed[p].for.host = job[p].target.host
                      /\ printed[p].for.uid = job[p].target.uid
    BY DEF AloneGetsOwn
  <2>1. Own(p, printed[p])
    BY DEF IInv, AloneInv, AloneProcess
  <2> QED
    BY <2>1, CutAssumption DEF Own
<1> QED
  BY <1>1, Invariance, PTL

-----------------------------------------------------------------------------
(* The kubeconfig.  As long as nobody came between a handler's reading and   *)
(* its writing, one handler at most is writing, on the file that it emptied, *)
(* and whoever has read it knows every name, or read it while another wrote. *)
OneRedirect == \A t \in Procs : handler[t] # None => tab[t] = "closed"
NoWriter == \A t \in Procs : ~At(t, "write")
Read(t) == {e.name : e \in handler[t].base}

Kept ==
  intact =>
    /\ NoWriter => kubeconfig.whole /\ known \subseteq Names(kubeconfig)
    /\ \A t \in Procs : HasRead(t) => \/ known \subseteq Read(t)
                                      \/ \E u \in Procs \ {t} : At(u, "write")
    /\ \A t, u \in Procs : At(t, "write") /\ At(u, "write") => t = u
    /\ \A t \in Procs : At(t, "write") => kubeconfig = Emptied

KeptInv == OneRedirect /\ Kept

LEMMA InitKeptInv == Init => KeptInv
<1> SUFFICES ASSUME Init PROVE KeptInv
  OBVIOUS
<1>1. \A t \in Procs : handler[t] = None
  BY DEF Init
<1>2. kubeconfig.whole /\ known \subseteq Names(kubeconfig)
  BY DEF Init, Names, Elsewhere
<1> QED
  BY <1>1, <1>2 DEF KeptInv, OneRedirect, Kept, HasRead, At

(* Nobody begins or ends writing, and nobody reads. *)
LEMMA KeptSame ==
  ASSUME Kept, UNCHANGED <<kubeconfig, known>>, intact' => intact,
         \A u \in Procs : intact' => (At(u, "write")' <=> At(u, "write")),
         \A u \in Procs : intact' /\ HasRead(u)' => HasRead(u) /\ handler'[u] = handler[u]
  PROVE  Kept'
<1> SUFFICES ASSUME intact' PROVE Kept'
  BY DEF Kept
<1>1. NoWriter' <=> NoWriter
  BY DEF NoWriter
<1>2. Names(kubeconfig)' = Names(kubeconfig)
  BY DEF Names
<1>3. \A t \in Procs : HasRead(t)' => \/ known \subseteq Read(t)'
                                      \/ \E u \in Procs \ {t} : At(u, "write")'
  BY DEF Kept, Read
<1>4. Emptied' = Emptied
  BY DEF Emptied
<1> QED
  BY <1>1, <1>2, <1>3, <1>4 DEF Kept

(* One handler goes on without having read or written the kubeconfig. *)
LEMMA HandlerKept ==
  ASSUME Kept, NEW t \in Procs, UNCHANGED config,
         \A q \in Procs \ {t} : handler'[q] = handler[q],
         ~At(t, "write"), ~HasRead(t)'
  PROVE  Kept'
<1>1. \A u \in Procs : At(u, "write")' <=> At(u, "write")
  BY DEF At, HasRead
<1>2. \A u \in Procs : HasRead(u)' => HasRead(u) /\ handler'[u] = handler[u]
  BY DEF At, HasRead
<1> QED
  BY <1>1, <1>2, KeptSame DEF config

LEMMA ExitKept ==
  ASSUME IInv, KeptInv, NEW p \in Procs, NEW how, NEW out, Exit(p, how, out)
  PROVE  KeptInv'
<1>1. \A t \in Procs : handler'[t] =
        IF handler[t] # None /\ handler[t].at = p THEN None ELSE handler[t]
  BY DEF Exit
<1>2. OneRedirect'
  BY <1>1 DEF Exit, KeptInv, OneRedirect, browser
<1>3. intact' => \A t \in Procs : ~(At(t, "write") /\ handler[t].at = p)
  BY DEF Exit
<1>4. \A u \in Procs : intact' => (At(u, "write")' <=> At(u, "write"))
  BY <1>1, <1>3 DEF At
<1>5. \A u \in Procs : HasRead(u)' => HasRead(u) /\ handler'[u] = handler[u]
  BY <1>1 DEF HasRead, At
<1>6. (intact' => intact) /\ UNCHANGED <<kubeconfig, known>>
  BY DEF Exit
<1> QED
  BY <1>2, <1>4, <1>5, <1>6, KeptSame DEF KeptInv

(* The steps that leave the handlers and the kubeconfig alone. *)
LEMMA CalmKept ==
  ASSUME KeptInv, UNCHANGED <<handler, config>>,
         \A t \in Procs : handler[t] # None => tab'[t] = tab[t]
  PROVE  KeptInv'
<1>1. OneRedirect'
  BY DEF KeptInv, OneRedirect
<1>2. \A u \in Procs : (At(u, "write")' <=> At(u, "write")) /\ (HasRead(u)' <=> HasRead(u))
  BY DEF At, HasRead
<1> QED
  BY <1>1, <1>2, KeptSame DEF KeptInv, config

LEMMA ProcessKept ==
  ASSUME IInv, KeptInv, NEW p \in Procs,
         Start(p) \/ Run(p) \/ Listen(p) \/ WriteFails(p) \/ Interrupt(p)
  PROVE  KeptInv'
<1>1. CASE Start(p) \/ Listen(p) \/ Set(p) \/ Write(p)
  BY <1>1, CalmKept DEF Start, Listen, Set, Write, browser
<1>2. CASE OpenUrl(p)
  <2>1. tab[p] = None
    BY <1>2 DEF OpenUrl, IInv, Shape, ProcessInv
  <2>2. \A t \in Procs : handler[t] # None => tab'[t] = tab[t]
    BY <1>2, <2>1, NoneAssumption DEF OpenUrl, KeptInv, OneRedirect, IInv, Types
  <2> QED
    BY <1>2, <2>2, CalmKept DEF OpenUrl
<1>3. CASE Get(p)
  <2>1. \/ \E how, out : Exit(p, how, out)
        \/ UNCHANGED <<browser, handler, config>>
    BY <1>3 DEF Get
  <2> QED
    BY <2>1, ExitKept, CalmKept DEF browser
<1>4. ASSUME NEW t \in Procs, Receive(p, t)
      PROVE  KeptInv'
  <2>1. CASE handler[t].error
    BY <1>4, <2>1, ExitKept DEF Receive
  <2>2. CASE ~handler[t].error
    <3>1. /\ \A q \in Procs : handler'[q] = IF q = t THEN None ELSE handler[q]
          /\ UNCHANGED <<browser, config>>
      BY <1>4, <2>2 DEF Receive, IInv, Types
    <3>2. ~At(t, "write") /\ ~HasRead(t)'
      BY <1>4, <3>1 DEF Receive, At, HasRead
    <3>3. OneRedirect'
      BY <3>1 DEF KeptInv, OneRedirect, browser
    <3> QED
      BY <3>1, <3>2, <3>3, HandlerKept DEF KeptInv
  <2> QED
    BY <2>1, <2>2
<1>5. CASE Timeout(p) \/ WriteFails(p) \/ PrintValue(p) \/ EndKubeconfig(p) \/ Interrupt(p)
  <2>1. \E how, out : Exit(p, how, out)
    BY <1>5 DEF Timeout, WriteFails, PrintValue, EndKubeconfig, Interrupt
  <2> QED
    BY <2>1, ExitKept
<1> QED
  BY <1>1, <1>2, <1>3, <1>4, <1>5 DEF Run

LEMMA TabKept ==
  ASSUME IInv, KeptInv, NEW t \in Procs, Create(t) \/ Redirect(t)
  PROVE  KeptInv'
<1>1. CASE Create(t)
  <2>1. \A q \in Procs : handler[q] # None => tab'[q] = tab[q]
    BY <1>1 DEF Create, KeptInv, OneRedirect, IInv, Types
  <2> QED
    BY <1>1, <2>1, CalmKept DEF Create
<1>2. CASE Redirect(t)
  <2>1. handler[t] = None
    BY <1>2 DEF Redirect, KeptInv, OneRedirect
  <2>2. /\ \A q \in Procs \ {t} : handler'[q] = handler[q]
        /\ handler'[t] # None => handler'[t].step \in {"assign", "load", "send"}
        /\ tab' = [tab EXCEPT ![t] = "closed"] /\ UNCHANGED config
    BY <1>2 DEF Redirect, Missing, NewHandler, IInv, Types
  <2>3. ~At(t, "write") /\ ~HasRead(t)'
    BY <2>1, <2>2 DEF At, HasRead
  <2>4. OneRedirect'
    BY <2>2 DEF KeptInv, OneRedirect, IInv, Types
  <2> QED
    BY <2>2, <2>3, <2>4, HandlerKept DEF KeptInv
<1> QED
  BY <1>1, <1>2

(* What a handler does with the kubeconfig. *)
LEMMA LoadKept ==
  ASSUME IInv, Kept, NEW t \in Procs, Load(t)
  PROVE  Kept'
<1> SUFFICES ASSUME intact' PROVE Kept'
  BY DEF Kept
<1>1. /\ intact /\ UNCHANGED <<kubeconfig, known>>
      /\ \A q \in Procs \ {t} : handler'[q] = handler[q]
      /\ handler[t].step = "load"
      /\ handler'[t].step = "save" /\ handler'[t].base = kubeconfig.entries
  BY DEF Load, At, config, IInv, Types, Handlers
<1>2. \A u \in Procs : At(u, "write")' <=> At(u, "write")
  BY <1>1 DEF At
<1>3. \A u \in Procs \ {t} : HasRead(u)' <=> HasRead(u)
  BY <1>1 DEF At, HasRead
<1>4. ~At(t, "write") /\ Read(t)' = Names(kubeconfig)
  BY <1>1 DEF At, Read, Names
<1>5. known \subseteq Read(t)' \/ \E u \in Procs \ {t} : At(u, "write")'
  BY <1>1, <1>2, <1>4 DEF Kept, NoWriter
<1>6. \A u \in Procs \ {t} : Read(u)' = Read(u)
  BY <1>1 DEF Read
<1>7. NoWriter' <=> NoWriter
  BY <1>2 DEF NoWriter
<1>8. Names(kubeconfig)' = Names(kubeconfig) /\ Emptied' = Emptied
  BY <1>1 DEF Names, Emptied
<1> QED
  BY <1>1, <1>2, <1>3, <1>5, <1>6, <1>7, <1>8 DEF Kept

LEMMA TruncateKept ==
  ASSUME IInv, Kept, NEW t \in Procs, Truncate(t)
  PROVE  Kept'
<1> SUFFICES ASSUME intact' PROVE Kept'
  BY DEF Kept
<1>1. /\ intact /\ kubeconfig' = Emptied /\ known' = known
      /\ \A u \in Procs \ {t} : ~HasRead(u) /\ handler'[u] = handler[u]
      /\ handler[t] # None /\ handler[t].step = "save"
      /\ handler'[t] # None /\ handler'[t].step = "write" /\ handler'[t].base = handler[t].base
  BY NoneAssumption DEF Truncate, Changed, Goto, At, IInv, Types, Handlers
<1>2. \A u \in Procs : HasRead(u)' => u = t
  BY <1>1 DEF At, HasRead
<1>3. At(t, "write")' /\ HasRead(t)
  BY <1>1 DEF At, HasRead
<1>4. known \subseteq Read(t)
  BY <1>1, <1>3 DEF Kept, HasRead
<1>5. Read(t)' = Read(t) /\ Emptied' = Emptied
  BY <1>1 DEF Read, Emptied
<1> QED
  BY <1>1, <1>2, <1>3, <1>4, <1>5 DEF Kept, NoWriter, HasRead

(* Merging keeps every name that was read, and has the new one. *)
LEMMA MergedNames ==
  ASSUME NEW base, NEW t
  PROVE  {e.name : e \in base} \cup {t.name} \subseteq {e.name : e \in Merged(base, t)}
BY DEF Merged

LEMMA SaveKept ==
  ASSUME IInv, Kept, NEW t \in Procs, Save(t)
  PROVE  Kept'
<1> SUFFICES ASSUME intact' PROVE Kept'
  BY DEF Kept
<1> DEFINE merged == Merged(handler[t].base, job[t].target)
<1>1. /\ intact /\ At(t, "write")
      /\ known' = known \cup {job[t].target.name}
      /\ kubeconfig' = [whole |-> TRUE, entries |-> merged] \/ kubeconfig # Emptied
      /\ \A u \in Procs \ {t} : ~HasRead(u) /\ handler'[u] = handler[u]
      /\ handler'[t].step = "send"
  BY DEF Save, Changed, Goto, At, IInv, Types, Handlers
<1>2. kubeconfig = Emptied
  BY <1>1 DEF Kept
<1>3. \A u \in Procs : ~HasRead(u)'
  BY <1>1 DEF At, HasRead
<1>4. known \subseteq Read(t)
  BY <1>1 DEF Kept, HasRead
<1>5. known' \subseteq Names(kubeconfig)'
  <2>1. Names(kubeconfig)' = {e.name : e \in merged}
    BY <1>1, <1>2 DEF Names
  <2> QED
    BY <1>1, <1>4, <2>1, MergedNames DEF Read
<1>6. kubeconfig'.whole
  BY <1>1, <1>2
<1> QED
  BY <1>3, <1>5, <1>6 DEF Kept, HasRead

LEMMA HandleKept ==
  ASSUME IInv, KeptInv, NEW t \in Procs, Handle(t) \/ LoadFails(t) \/ SaveFails(t)
  PROVE  KeptInv'
<1>1. /\ \A q \in Procs \ {t} : handler'[q] = handler[q]
      /\ handler[t] # None /\ UNCHANGED tab
  BY DEF Handle, Assign, Assigned, Load, Truncate, Save, LoadFails, SaveFails, HasRead, At, Goto,
         browser, IInv, Types
<1>2. OneRedirect'
  BY <1>1 DEF KeptInv, OneRedirect
<1>3. CASE Load(t) \/ Truncate(t) \/ Save(t)
  BY <1>2, <1>3, LoadKept, TruncateKept, SaveKept DEF KeptInv
<1>4. CASE Assign(t) \/ Assigned(t) \/ LoadFails(t)
  <2>1. /\ ~At(t, "write") /\ UNCHANGED config
        /\ handler'[t] # None => handler'[t].step \in {"assigned", "send"}
    BY <1>4 DEF Assign, Assigned, LoadFails, Goto, At, IInv, Types, Handlers
  <2> QED
    BY <1>1, <1>2, <2>1, HandlerKept DEF KeptInv, HasRead, At
<1>5. CASE SaveFails(t)
  <2>1. CASE intact' = FALSE
    BY <1>2, <2>1 DEF KeptInv, Kept
  <2>2. CASE ~At(t, "write") /\ UNCHANGED config
    <3>1. handler'[t] # None => handler'[t].step = "send"
      BY <1>5 DEF SaveFails, Goto, IInv, Types, Handlers
    <3> QED
      BY <1>1, <1>2, <2>2, <3>1, HandlerKept DEF KeptInv, HasRead, At
  <2> QED
    BY <1>5, <2>1, <2>2 DEF SaveFails
<1> QED
  BY <1>3, <1>4, <1>5 DEF Handle

LEMMA OthersKept ==
  ASSUME IInv, KeptInv, Others
  PROVE  KeptInv'
<1>1. OneRedirect'
  BY DEF Others, KeptInv, OneRedirect, browser
<1>2. Kept'
  <2> SUFFICES ASSUME intact' PROVE Kept'
    BY DEF Kept
  <2>1. intact /\ \A t \in Procs : ~HasRead(t) /\ ~HasRead(t)'
    BY DEF Others, HasRead, At
  <2>2. kubeconfig.whole /\ known \subseteq Names(kubeconfig)
    BY <2>1 DEF KeptInv, Kept, NoWriter, HasRead
  <2>3. /\ kubeconfig'.whole = kubeconfig.whole
        /\ kubeconfig'.entries = kubeconfig.entries \cup {Elsewhere("new")}
        /\ known' = known \cup {"new"}
    BY DEF Others, IInv, Types, Configs
  <2>4. known' \subseteq Names(kubeconfig)'
    BY <2>2, <2>3 DEF Names, Elsewhere
  <2> QED
    BY <2>1, <2>2, <2>3, <2>4 DEF Kept, HasRead
<1> QED
  BY <1>1, <1>2 DEF KeptInv

LEMMA KeptInductive == IInv /\ KeptInv /\ [Next]_vars => KeptInv'
<1> SUFFICES ASSUME IInv, KeptInv, [Next]_vars PROVE KeptInv'
  OBVIOUS
<1>1. CASE Others
  BY <1>1, OthersKept
<1>2. CASE Tick \/ UNCHANGED vars
  BY <1>2, CalmKept DEF Tick, vars, browser
<1> QED
  BY <1>1, <1>2, ProcessKept, TabKept, HandleKept DEF Next

(* The kubeconfig loses no entry to a merge: as long as nothing came between *)
(* a handler's reading and its writing it, and no writing was cut short, it  *)
(* is whole and has every name it has had (kubeconfig.go:83-107), however    *)
(* many commands and other programs write it one after another.              *)
THEOREM KubeconfigIsKept == Spec => []KubeconfigKept
<1>1. KeptInv => KubeconfigKept
  BY DEF KeptInv, Kept, NoWriter, KubeconfigKept
<1> QED
  BY <1>1, InitKeptInv, KeptInductive, Invariance, PTL DEF Spec
=============================================================================
