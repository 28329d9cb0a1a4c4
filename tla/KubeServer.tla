----------------------------- MODULE KubeServer -----------------------------
(***************************************************************************)
(* The Kubernetes server of a data source (pkg/kubernetes/server.go) over  *)
(* the life of the instances of the data source (pkg/plugin/datasource.go).*)
(*                                                                         *)
(* A change of the settings creates a new instance, and only afterwards is *)
(* the old one disposed.  If the settings ask for it, an instance starts a *)
(* server: a goroutine calls Start until it returns without an error.  All *)
(* servers want the same port.  Dispose stops the server of its instance.  *)
(*                                                                         *)
(* ListenAndServe and Shutdown are those of net/http, step by step: the    *)
(* steps that hold Server.mu are one action each.                          *)
(***************************************************************************)
EXTENDS Integers

CONSTANTS
  N,          \* bound on the instances: settings change at most N - 1 times
  MaxConns,   \* bound on the open connections of a server, upgraded ones too
  MaxErrors,  \* bound on the errors of Accept
  None        \* nobody has bound the port

ASSUME ServerAssumption ==
  /\ N \in Nat \ {0}
  /\ MaxConns \in Nat
  /\ MaxErrors \in Nat
  /\ None \notin 1..N

Instances == 1..N     \* in the order of their creation

VARIABLES
  created,    \* the instances created so far are 1..created
  loop,       \* the goroutine of each instance that calls Start
  result,     \* what the call of Start under way is to return
  stop,       \* the call of Stop of each instance
  closing,    \* http.Server.inShutdown of each instance
  port,       \* the instance whose listener has bound the port
  conns,      \* the connections each server keeps track of
  sessions,   \* the upgraded ones it does not: kubectl exec, port-forward
  errors      \* how often Accept has failed

vars == <<created, loop, result, stop, closing, port, conns, sessions, errors>>

LoopPlaces == {"none", "start", "listen", "track", "serve", "register", "untrack", "unbind",
               "sleep", "ended"}
StopPlaces == {"none", "close", "wait", "drain", "stopped", "timedout"}

GotoLoop(i, from, to) == loop[i] = from /\ loop' = [loop EXCEPT ![i] = to]
GotoStop(i, from, to) == stop[i] = from /\ stop' = [stop EXCEPT ![i] = to]

Init ==
  /\ created = 0
  /\ loop = [i \in Instances |-> "none"]
  /\ result = [i \in Instances |-> "nil"]
  /\ stop = [i \in Instances |-> "none"]
  /\ closing = [i \in Instances |-> FALSE]
  /\ port = None
  /\ conns = [i \in Instances |-> 0]
  /\ sessions = [i \in Instances |-> 0]
  /\ errors = 0

-----------------------------------------------------------------------------
(* What the goroutine does when Start has returned.  A definition after the*)
(* word "Faulty" is a variant of the next one, not used by the             *)
(* specification: it is there to see a property fail.                      *)

\* Faulty: Start hands on ErrServerClosed, and the goroutine tries again.
AfterClosedRetry == "sleep"
AfterClosed == "ended"

\* Faulty: the goroutine gives up when the port is taken.
AfterErrorStop == "ended"
AfterError == "sleep"

(* NewDatasource: the settings say whether the instance has a server. *)
NewDatasource(i) ==
  /\ created < N
  /\ i = created + 1
  /\ created' = i
  /\ \E generateKubeconfig \in BOOLEAN :
       loop' = IF generateKubeconfig THEN [loop EXCEPT ![i] = "start"] ELSE loop
  /\ UNCHANGED <<result, stop, closing, port, conns, sessions, errors>>

(* ListenAndServe returns ErrServerClosed when Shutdown has been called    *)
(* before, which is no error for Start; otherwise it binds the port ...    *)
Start(i) ==
  /\ GotoLoop(i, "start", IF closing[i] THEN AfterClosed ELSE "listen")
  /\ UNCHANGED <<created, result, stop, closing, port, conns, sessions, errors>>

Listen(i) ==
  /\ GotoLoop(i, "listen", IF port = None THEN "track" ELSE AfterError)
  /\ port' = IF port = None THEN i ELSE port
  /\ UNCHANGED <<created, result, stop, closing, conns, sessions, errors>>

(* ... and registers the listener, unless Shutdown has begun meanwhile.    *)

\* Faulty: inShutdown is not looked at once more.
MayServeAlways(i) == TRUE
MayServe(i) == ~closing[i]

Track(i) ==
  /\ GotoLoop(i, "track", IF MayServe(i) THEN "serve" ELSE "unbind")
  /\ result' = [result EXCEPT ![i] = "nil"]
  /\ UNCHANGED <<created, stop, closing, port, conns, sessions, errors>>

(* The listener accepts a connection; only then does the server keep track *)
(* of it, so that Shutdown may close the listener in between.              *)
Open(i) == conns[i] + sessions[i]

Accept(i) ==
  /\ port = i
  /\ Open(i) < MaxConns
  /\ GotoLoop(i, "serve", "register")
  /\ UNCHANGED <<created, result, stop, closing, port, conns, sessions, errors>>

Register(i) ==
  /\ GotoLoop(i, "register", "serve")
  /\ conns' = [conns EXCEPT ![i] = @ + 1]
  /\ UNCHANGED <<created, result, stop, closing, port, sessions, errors>>

(* Accept fails: Shutdown has closed the listener ... *)
AcceptClosed(i) ==
  /\ port # i
  /\ GotoLoop(i, "serve", "untrack")
  /\ UNCHANGED <<created, result, stop, closing, port, conns, sessions, errors>>

(* ... or for another reason, which counts as a shutdown once that has     *)
(* begun.                                                                  *)
AcceptError(i) ==
  /\ port = i
  /\ errors < MaxErrors
  /\ errors' = errors + 1
  /\ GotoLoop(i, "serve", "untrack")
  /\ result' = [result EXCEPT ![i] = IF closing[i] THEN "nil" ELSE "error"]
  /\ UNCHANGED <<created, stop, closing, port, conns, sessions>>

(* The deferred calls of Serve forget the listener and close it, if it is  *)
(* still open.  After an error the goroutine sleeps and calls Start again. *)
Untrack(i) ==
  /\ GotoLoop(i, "untrack", "unbind")
  /\ UNCHANGED <<created, result, stop, closing, port, conns, sessions, errors>>

Unbind(i) ==
  /\ GotoLoop(i, "unbind", IF result[i] = "nil" THEN AfterClosed ELSE AfterError)
  /\ port' = IF port = i THEN None ELSE port
  /\ UNCHANGED <<created, result, stop, closing, conns, sessions, errors>>

Retry(i) ==
  /\ GotoLoop(i, "sleep", "start")
  /\ UNCHANGED <<created, result, stop, closing, port, conns, sessions, errors>>

(* The proxy upgrades the connection of a request, for kubectl exec or     *)
(* port-forward: it is hijacked from the server, which forgets it and      *)
(* leaves it open.                                                         *)
Upgrade(i) ==
  /\ conns[i] > 0
  /\ conns' = [conns EXCEPT ![i] = @ - 1]
  /\ sessions' = [sessions EXCEPT ![i] = @ + 1]
  /\ UNCHANGED <<created, loop, result, stop, closing, port, errors>>

(* A connection ends: one side closes it, or Shutdown finds it idle.       *)
Hangup(i) ==
  /\ conns[i] > 0
  /\ conns' = [conns EXCEPT ![i] = @ - 1]
  /\ UNCHANGED <<created, loop, result, stop, closing, port, sessions, errors>>

SessionEnds(i) ==
  /\ sessions[i] > 0
  /\ sessions' = [sessions EXCEPT ![i] = @ - 1]
  /\ UNCHANGED <<created, loop, result, stop, closing, port, conns, errors>>

-----------------------------------------------------------------------------
(* Dispose, called for an instance that has been replaced, stops its server*)
(* if there is one: Shutdown sets inShutdown, closes the listener, waits   *)
(* for Serve to return and for the connections it keeps track of, these    *)
(* for a second.                                                           *)

\* Faulty: the listener is closed without the server being marked closed.
MarkNothing(i) == closing
MarkClosing(i) == [closing EXCEPT ![i] = TRUE]

Dispose(i) ==
  /\ i < created
  /\ loop[i] # "none"
  /\ GotoStop(i, "none", "close")
  /\ closing' = MarkClosing(i)
  /\ UNCHANGED <<created, loop, result, port, conns, sessions, errors>>

(* http.Server.listeners holds the listener of the instance. *)
Tracked(i) == loop[i] \in {"serve", "register", "untrack"}

PortClosed(i) == IF Tracked(i) /\ port = i THEN None ELSE port

CloseListener(i) ==
  /\ GotoStop(i, "close", "wait")
  /\ port' = PortClosed(i)
  /\ UNCHANGED <<created, loop, result, closing, conns, sessions, errors>>

(* listenerGroup.Wait: Serve has forgotten the listener. *)
WaitListener(i) ==
  /\ ~Tracked(i)
  /\ GotoStop(i, "wait", "drain")
  /\ UNCHANGED <<created, loop, result, closing, port, conns, sessions, errors>>

(* The connections were all idle, or gone, or upgraded ...                 *)
Drained(i) ==
  /\ conns[i] = 0
  /\ GotoStop(i, "drain", "stopped")
  /\ UNCHANGED <<created, loop, result, closing, port, conns, sessions, errors>>

(* ... or one was busy when Shutdown looked last before the second was over.*)
TimedOut(i) ==
  /\ conns[i] > 0
  /\ GotoStop(i, "drain", "timedout")
  /\ UNCHANGED <<created, loop, result, closing, port, conns, sessions, errors>>

-----------------------------------------------------------------------------
Serving(i) ==
  \/ Start(i) \/ Listen(i) \/ Track(i) \/ Register(i) \/ AcceptClosed(i)
  \/ Untrack(i) \/ Unbind(i) \/ Retry(i)

Stopping(i) ==
  CloseListener(i) \/ WaitListener(i) \/ Drained(i) \/ TimedOut(i)

Next == \E i \in Instances :
  \/ NewDatasource(i) \/ Dispose(i)
  \/ Serving(i) \/ Stopping(i)
  \/ Accept(i) \/ AcceptError(i)
  \/ Upgrade(i) \/ Hangup(i) \/ SessionEnds(i)

Spec == Init /\ [][Next]_vars

(* The goroutines keep running, and the plugin SDK disposes an instance    *)
(* that has been replaced.  No connection has to end, no change of the     *)
(* settings has to come.                                                   *)
FairTo(i) == WF_vars(Serving(i)) /\ WF_vars(Stopping(i)) /\ WF_vars(Dispose(i))
Fairness == \A i \in Instances : FairTo(i)

FairSpec == Spec /\ Fairness

(* Where the goroutine of an instance, and a call of Stop, can go on: what *)
(* the prover has to be told of ENABLED.                                   *)
CanServe(i) ==
  \/ loop[i] \in {"start", "listen", "track", "register", "untrack", "unbind", "sleep"}
  \/ loop[i] = "serve" /\ port # i

CanStop(i) == stop[i] \in {"close", "drain"} \/ (stop[i] = "wait" /\ ~Tracked(i))

GoesOn(i) ==
  /\ CanServe(i) => ENABLED <<Serving(i)>>_vars
  /\ CanStop(i) => ENABLED <<Stopping(i)>>_vars

NobodyIsStuck == \A i \in Instances : GoesOn(i)

-----------------------------------------------------------------------------
(* Properties. *)

(* Every variable keeps to its set. *)
TypeOK ==
  /\ created \in 0..N
  /\ loop \in [Instances -> LoopPlaces]
  /\ result \in [Instances -> {"nil", "error"}]
  /\ stop \in [Instances -> StopPlaces]
  /\ closing \in [Instances -> BOOLEAN]
  /\ port \in Instances \cup {None}
  /\ conns \in [Instances -> Nat]
  /\ sessions \in [Instances -> Nat]
  /\ \A i \in Instances : Open(i) + (IF loop[i] = "register" THEN 1 ELSE 0) <= MaxConns
  /\ errors \in 0..MaxErrors

(* However Stop falls between the steps of Start (server.go:34-66), one    *)
(* instance at a time accepts connections, and none that is disposed       *)
(* begins to.                                                              *)
Port == INSTANCE PortOwner WITH
  owner <- IF port \in Instances /\ loop[port] \in {"serve", "register"} THEN port ELSE None,
  retired <- {i \in Instances : closing[i]}

PortOwnerSpec == Port!Spec

(* Once Stop has waited for Serve, no connection is added to those that are*)
(* open, not even by a Start of the goroutine that was asleep              *)
(* (datasource.go:88-98).  What a graceful Stop leaves open (server.go:    *)
(* 50-66) are the sessions that were upgraded before (server.go:75-79), and*)
(* none is opened any more.                                                *)
StopIsFinal ==
  [][\A i \in Instances :
       /\ stop[i] \in {"drain", "stopped", "timedout"} => Open(i)' <= Open(i)
       /\ stop[i] = "stopped" => conns[i] = 0 /\ sessions'[i] <= sessions[i]]_vars

(* A disposed instance comes to its end: its goroutine ends, whatever it   *)
(* was doing when Dispose was called (datasource.go:88-98, 315-319), so    *)
(* that it does not leak, and Dispose returns, although a connection may   *)
(* stay open (server.go:53-66).                                            *)
InstanceEnds ==
  \A i \in Instances :
    stop[i] # "none" ~> (loop[i] = "ended" /\ stop[i] \in {"stopped", "timedout"})

(* The comment of NewDatasource (datasource.go:74-78): the server of a new *)
(* instance starts in the end, though the old one still has the port.      *)
NewestServes ==
  \A i \in Instances :
    (created = i /\ loop[i] # "none") ~> (created > i \/ (loop[i] = "serve" /\ port = i))
=============================================================================
