-------------------------- MODULE KubeServerProofs --------------------------
(***************************************************************************)
(* Proofs about KubeServer, for every number of instances and connections: *)
(* its types, that it implements PortOwner, and that Stop is final.        *)
(*                                                                         *)
(* The inductive invariant ties the three places that know of a listener:  *)
(* the goroutine that serves it, the socket that has bound the port, and   *)
(* the call of Stop that closes it.                                        *)
(***************************************************************************)
EXTENDS KubeServer, TLAPS

(* Only instances that have been created run a goroutine. *)
CreatedInv == \A i \in Instances : created < i => loop[i] = "none"

(* A goroutine between Listen and the end of Serve owns a listener, which  *)
(* only Stop takes from it; the port belongs to such a goroutine.          *)
ListenerInv ==
  \A i \in Instances :
    /\ port = i => loop[i] \in {"track", "serve", "register", "untrack", "unbind"}
    /\ loop[i] = "track" => port = i
    /\ loop[i] \in {"serve", "register"} /\ port # i => closing[i]

(* How far Stop has come. *)
StopInv ==
  \A i \in Instances :
    /\ closing[i] <=> stop[i] # "none"
    /\ closing[i] => loop[i] # "none"
    /\ stop[i] \in {"wait", "drain", "stopped", "timedout"} =>
         ~(loop[i] \in {"serve", "register"} /\ port = i)
    /\ stop[i] \in {"drain", "stopped", "timedout"} => ~Tracked(i)
    /\ stop[i] = "stopped" => conns[i] = 0

IInv == CreatedInv /\ ListenerInv /\ StopInv

-----------------------------------------------------------------------------
(* What happens to a connection once it is open adds none.                 *)
LEMMA StepOfConnection ==
  ASSUME TypeOK, NEW i \in Instances, Upgrade(i) \/ Hangup(i) \/ SessionEnds(i)
  PROVE  /\ TypeOK'
         /\ \A j \in Instances : Open(j)' <= Open(j)
<1>1. conns' \in [Instances -> Nat] /\ sessions' \in [Instances -> Nat]
  BY DEF TypeOK, Upgrade, Hangup, SessionEnds
<1>2. ASSUME NEW j \in Instances PROVE conns'[j] + sessions'[j] <= conns[j] + sessions[j]
  <2>1. CASE Upgrade(i)
    BY <2>1 DEF TypeOK, Upgrade
  <2>2. CASE Hangup(i)
    BY <2>2 DEF TypeOK, Hangup
  <2>3. CASE SessionEnds(i)
    BY <2>3 DEF TypeOK, SessionEnds
  <2> QED
    BY <2>1, <2>2, <2>3
<1>3. UNCHANGED <<created, loop, result, stop, closing, port, errors>>
  BY DEF Upgrade, Hangup, SessionEnds
<1>4. ASSUME NEW j \in Instances
      PROVE  Open(j)' + (IF loop'[j] = "register" THEN 1 ELSE 0) <= MaxConns
  <2>1. Open(j) + (IF loop[j] = "register" THEN 1 ELSE 0) <= MaxConns
    BY DEF TypeOK
  <2> QED
    BY <1>1, <1>2, <1>3, <2>1, ServerAssumption DEF Open, TypeOK
<1> QED
  BY <1>1, <1>2, <1>3, <1>4 DEF TypeOK, Open

LEMMA StepTypes ==
  ASSUME TypeOK, [Next]_vars
  PROVE  TypeOK'
<1> USE ServerAssumption DEF TypeOK, LoopPlaces, StopPlaces, Instances, GotoLoop, GotoStop, Open
<1>1. ASSUME NEW i \in Instances, NewDatasource(i) PROVE TypeOK'
  <2>1. /\ loop' \in [Instances -> LoopPlaces]
        /\ \A j \in Instances : loop'[j] = "register" => loop[j] = "register"
    BY <1>1 DEF NewDatasource
  <2>2. created' \in 0..N /\ UNCHANGED <<result, stop, closing, port, conns, sessions, errors>>
    BY <1>1 DEF NewDatasource
  <2> QED
    BY <2>1, <2>2
<1>2. ASSUME NEW i \in Instances, Dispose(i) PROVE TypeOK'
  BY <1>2 DEF Dispose, MarkClosing
<1>3. ASSUME NEW i \in Instances, Serving(i) PROVE TypeOK'
  <2>1. CASE Register(i)
    BY <2>1 DEF Register
  <2>2. CASE Start(i) \/ Listen(i) \/ Track(i) \/ AcceptClosed(i) \/ Untrack(i) \/ Unbind(i) \/ Retry(i)
    BY <2>2 DEF Start, Listen, Track, MayServe, AcceptClosed, Untrack, Unbind, Retry, AfterClosed, AfterError
  <2> QED
    BY <1>3, <2>1, <2>2 DEF Serving
<1>4. ASSUME NEW i \in Instances, Stopping(i) PROVE TypeOK'
  BY <1>4 DEF Stopping, CloseListener, PortClosed, WaitListener, Drained, TimedOut
<1>5. ASSUME NEW i \in Instances, Accept(i) PROVE TypeOK'
  BY <1>5 DEF Accept
<1>6. ASSUME NEW i \in Instances, AcceptError(i) PROVE TypeOK'
  BY <1>6 DEF AcceptError
<1>7. ASSUME NEW i \in Instances, Upgrade(i) \/ Hangup(i) \/ SessionEnds(i) PROVE TypeOK'
  BY <1>7, StepOfConnection
<1>8. CASE UNCHANGED vars
  BY <1>8 DEF vars
<1> QED
  BY <1>1, <1>2, <1>3, <1>4, <1>5, <1>6, <1>7, <1>8 DEF Next

(* The variables keep to their sets (server.go, datasource.go). *)
THEOREM TypeCorrect == Spec => []TypeOK
<1>1. Init => TypeOK
  BY ServerAssumption DEF Init, TypeOK, LoopPlaces, StopPlaces, Instances, Open
<1>2. TypeOK /\ [Next]_vars => TypeOK'
  BY StepTypes
<1> QED
  BY <1>1, <1>2, PTL DEF Spec

-----------------------------------------------------------------------------
LEMMA StepIInv ==
  ASSUME TypeOK, IInv, [Next]_vars
  PROVE  IInv'
<1> USE ServerAssumption DEF IInv, TypeOK, LoopPlaces, StopPlaces, GotoLoop, GotoStop, CreatedInv, ListenerInv, StopInv, Tracked
<1> Instances \subseteq Nat /\ None \notin Instances
  BY DEF Instances
<1>1. ASSUME NEW i \in Instances, NewDatasource(i) PROVE IInv'
  BY <1>1 DEF NewDatasource
<1>2. ASSUME NEW i \in Instances, Dispose(i) PROVE IInv'
  BY <1>2 DEF Dispose, MarkClosing
<1>3. ASSUME NEW i \in Instances, Serving(i) PROVE IInv'
  <2>1. CASE Start(i)
    BY <2>1 DEF Start, AfterClosed
  <2>2. CASE Listen(i)
    BY <2>2 DEF Listen, AfterError
  <2>3. CASE Track(i)
    BY <2>3 DEF Track, MayServe
  <2>4. CASE AcceptClosed(i)
    BY <2>4 DEF AcceptClosed
  <2>5. CASE Untrack(i)
    BY <2>5 DEF Untrack
  <2>6. CASE Unbind(i)
    BY <2>6 DEF Unbind, AfterError, AfterClosed
  <2>7. CASE Retry(i)
    BY <2>7 DEF Retry
  <2>8. CASE Register(i)
    BY <2>8 DEF Register
  <2> QED
    BY <1>3, <2>1, <2>2, <2>3, <2>4, <2>5, <2>6, <2>7, <2>8 DEF Serving
<1>4. ASSUME NEW i \in Instances, Stopping(i) PROVE IInv'
  <2>1. CASE CloseListener(i)
    BY <2>1 DEF CloseListener, PortClosed
  <2>2. CASE WaitListener(i)
    BY <2>2 DEF WaitListener
  <2>3. CASE Drained(i) \/ TimedOut(i)
    BY <2>3 DEF Drained, TimedOut
  <2> QED
    BY <1>4, <2>1, <2>2, <2>3 DEF Stopping
<1>5. ASSUME NEW i \in Instances, Accept(i) PROVE IInv'
  BY <1>5 DEF Accept
<1>6. ASSUME NEW i \in Instances, AcceptError(i) PROVE IInv'
  BY <1>6 DEF AcceptError
<1>7. ASSUME NEW i \in Instances, Upgrade(i) \/ Hangup(i) \/ SessionEnds(i) PROVE IInv'
  BY <1>7 DEF Upgrade, Hangup, SessionEnds
<1>8. CASE UNCHANGED vars
  BY <1>8 DEF vars
<1> QED
  BY <1>1, <1>2, <1>3, <1>4, <1>5, <1>6, <1>7, <1>8 DEF Next

LEMMA Invariance == Spec => [](TypeOK /\ IInv)
<1>1. Init => IInv
  BY ServerAssumption DEF Init, IInv, CreatedInv, ListenerInv, StopInv, Tracked, Instances
<1>2. TypeOK /\ IInv /\ [Next]_vars => IInv'
  BY StepIInv
<1> QED
  BY <1>1, <1>2, TypeCorrect, PTL DEF Spec

-----------------------------------------------------------------------------
(* After Stop has waited for Serve no connection is added to the open ones,*)
(* and what a graceful Stop leaves open are sessions that were upgraded    *)
(* before (server.go:50-66, 75-79).                                        *)
THEOREM StopFinal == Spec => StopIsFinal
<1> DEFINE Final(i) == /\ stop[i] \in {"drain", "stopped", "timedout"} => Open(i)' <= Open(i)
                       /\ stop[i] = "stopped" => conns[i] = 0 /\ sessions'[i] <= sessions[i]
<1>1. ASSUME TypeOK, IInv, [Next]_vars, NEW i \in Instances
      PROVE  Final(i)
  <2> USE <1>1 DEF TypeOK, IInv, StopInv, Open
  <2>1. ASSUME NEW j \in Instances, Register(j) PROVE Final(i)
    BY <2>1 DEF Register, GotoLoop, Tracked
  <2>2. ASSUME NEW j \in Instances, Upgrade(j) \/ Hangup(j) \/ SessionEnds(j) PROVE Final(i)
    BY <2>2 DEF Upgrade, Hangup, SessionEnds
  <2>3. ASSUME UNCHANGED <<conns, sessions>> PROVE Final(i)
    BY <2>3
  <2>4. ASSUME NEW j \in Instances,
               \/ NewDatasource(j) \/ Dispose(j) \/ Stopping(j) \/ Accept(j) \/ AcceptError(j)
               \/ Serving(j) /\ ~Register(j)
        PROVE  UNCHANGED <<conns, sessions>>
    BY <2>4 DEF NewDatasource, Dispose, Serving, Start, Listen, Track, AcceptClosed, Untrack,
                Unbind, Retry, Stopping, CloseListener, WaitListener, Drained, TimedOut,
                Accept, AcceptError
  <2> QED
    BY <2>1, <2>2, <2>3, <2>4 DEF Next, vars
<1>2. TypeOK /\ IInv /\ [Next]_vars => [\A i \in Instances : Final(i)]_vars
  BY <1>1
<1> QED
  BY <1>2, Invariance, PTL DEF Spec, StopIsFinal

-----------------------------------------------------------------------------
(* The instances implement PortOwner: Track acquires the port, an error of *)
(* Accept or Shutdown releases it, Dispose retires the instance.           *)

LEMMA PortStep ==
  ASSUME TypeOK, IInv, [Next]_vars
  PROVE  [Port!Next]_(Port!vars)
<1> USE ServerAssumption
    DEF IInv, TypeOK, LoopPlaces, StopPlaces, GotoLoop, GotoStop, CreatedInv, ListenerInv, StopInv, Port!vars
<1> Instances \subseteq Nat /\ None \notin Instances
  BY DEF Instances
<1>1. ASSUME NEW i \in Instances, NewDatasource(i) PROVE UNCHANGED Port!vars
  BY <1>1 DEF NewDatasource
<1>2. ASSUME NEW i \in Instances, Dispose(i) PROVE Port!Retire(i)
  BY <1>2 DEF Dispose, MarkClosing, Port!Retire
<1>3. ASSUME NEW i \in Instances, Serving(i) PROVE Port!Acquire(i) \/ UNCHANGED Port!vars
  <2>1. CASE Start(i) \/ AcceptClosed(i) \/ Untrack(i) \/ Retry(i)
    BY <2>1 DEF Start, AfterClosed, AcceptClosed, Untrack, Retry
  <2>2. CASE Listen(i)
    BY <2>2 DEF Listen, AfterError
  <2>3. CASE Track(i)
    BY <2>3 DEF Track, MayServe, Port!Acquire
  <2>4. CASE Unbind(i)
    BY <2>4 DEF Unbind, AfterError, AfterClosed
  <2>5. CASE Register(i)
    BY <2>5 DEF Register
  <2> QED
    BY <1>3, <2>1, <2>2, <2>3, <2>4, <2>5 DEF Serving
<1>4. ASSUME NEW i \in Instances, Stopping(i) PROVE Port!Release \/ UNCHANGED Port!vars
  <2>1. CASE CloseListener(i)
    BY <2>1 DEF CloseListener, PortClosed, Tracked, Port!Release
  <2>2. CASE WaitListener(i) \/ Drained(i) \/ TimedOut(i)
    BY <2>2 DEF WaitListener, Drained, TimedOut
  <2> QED
    BY <1>4, <2>1, <2>2 DEF Stopping
<1>5. ASSUME NEW i \in Instances, Accept(i) \/ Upgrade(i) \/ Hangup(i) \/ SessionEnds(i)
      PROVE  UNCHANGED Port!vars
  BY <1>5 DEF Accept, Upgrade, Hangup, SessionEnds
<1>6. ASSUME NEW i \in Instances, AcceptError(i) PROVE Port!Release
  BY <1>6 DEF AcceptError, Port!Release
<1>7. CASE UNCHANGED vars
  BY <1>7 DEF vars
<1> QED
  BY <1>1, <1>2, <1>3, <1>4, <1>5, <1>6, <1>7 DEF Next, Port!Next

THEOREM ImplementsPort == Spec => PortOwnerSpec
<1>1. Init => Port!Init
  BY ServerAssumption DEF Init, Port!Init, Instances
<1>2. TypeOK /\ IInv /\ [Next]_vars => [Port!Next]_(Port!vars)
  BY PortStep
<1> QED
  BY <1>1, <1>2, Invariance, PTL DEF Spec, PortOwnerSpec, Port!Spec

-----------------------------------------------------------------------------
(* Liveness.  The steps of the goroutine and of Stop are counted down: how *)
(* many each still takes, at most, once the instance is disposed and, for  *)
(* the goroutine, the listener is closed: till then it may accept.  PTL    *)
(* expands the fairness of the steps, but nothing is known of ENABLED: that*)
(* they are enabled where they can go on is the hypothesis NobodyIsStuck.  *)
LoopSteps(l) ==
  CASE l = "ended" -> 0 [] l = "start" -> 1 [] l = "sleep" -> 2 [] l = "unbind" -> 3
    [] l \in {"track", "untrack"} -> 4 [] l \in {"listen", "serve"} -> 5
    [] l = "register" -> 6 [] OTHER -> 7

StopSteps(s) ==
  CASE s \in {"stopped", "timedout"} -> 0 [] s = "drain" -> 1 [] s = "wait" -> 2
    [] s = "close" -> 3 [] OTHER -> 4

StopWithin(i, k) == closing[i] /\ StopSteps(stop[i]) <= k

LoopWithin(i, k) == StopWithin(i, 2) /\ LoopSteps(loop[i]) <= k

Inv == TypeOK /\ IInv

(* No step sends a call of Stop back. *)
LEMMA StopCountsDown ==
  ASSUME Inv, [Next]_vars, NEW i \in Instances, closing[i]
  PROVE  /\ closing[i]'
         /\ StopSteps(stop[i])' <= StopSteps(stop[i])
         /\ <<Stopping(i)>>_vars => StopSteps(stop[i])' < StopSteps(stop[i])
<1> USE ServerAssumption DEF Inv, IInv, TypeOK, LoopPlaces, StopPlaces, GotoLoop, GotoStop, StopInv, StopSteps
<1>1. ASSUME NEW j \in Instances,
             \/ NewDatasource(j) \/ Serving(j) \/ Accept(j) \/ AcceptError(j)
             \/ Upgrade(j) \/ Hangup(j) \/ SessionEnds(j)
      PROVE  stop' = stop /\ closing' = closing
  BY <1>1 DEF NewDatasource, Serving, Start, Listen, Track, Register, AcceptClosed, Untrack, Unbind,
              Retry, Accept, AcceptError, Upgrade, Hangup, SessionEnds
<1>2. ASSUME NEW j \in Instances, Dispose(j) PROVE closing'[i] /\ stop'[i] = stop[i]
  BY <1>2 DEF Dispose, MarkClosing
<1>3. ASSUME NEW j \in Instances, Stopping(j), j # i PROVE stop'[i] = stop[i] /\ closing' = closing
  BY <1>3 DEF Stopping, CloseListener, WaitListener, Drained, TimedOut
<1>4. ASSUME Stopping(i) PROVE StopSteps(stop'[i]) < StopSteps(stop[i]) /\ closing' = closing
  BY <1>4 DEF Stopping, CloseListener, WaitListener, Drained, TimedOut
<1>5. CASE UNCHANGED vars
  BY <1>5 DEF vars
<1> QED
  BY <1>1, <1>2, <1>3, <1>4, <1>5 DEF Next, vars

(* Once the listener is closed, no step of anybody sends the goroutine     *)
(* back, and each of its own brings it nearer to its end.                  *)
LEMMA LoopCountsDown ==
  ASSUME Inv, [Next]_vars, NEW i \in Instances, StopWithin(i, 2)
  PROVE  /\ StopWithin(i, 2)'
         /\ LoopSteps(loop[i])' <= LoopSteps(loop[i])
         /\ <<Serving(i)>>_vars => LoopSteps(loop[i])' < LoopSteps(loop[i])
<1> USE ServerAssumption DEF Inv, IInv, TypeOK, LoopPlaces, StopPlaces, GotoLoop, GotoStop, ListenerInv, StopInv
<1>0. StopWithin(i, 2)' /\ closing[i] /\ ~(loop[i] = "serve" /\ port = i)
  BY StopCountsDown DEF StopWithin, StopSteps
<1> USE DEF LoopSteps
<1>1. ASSUME NEW j \in Instances, NewDatasource(j) PROVE loop'[i] = loop[i]
  BY <1>0, <1>1 DEF NewDatasource, CreatedInv, Instances
<1>2. ASSUME NEW j \in Instances, Serving(j), j # i PROVE loop'[i] = loop[i]
  BY <1>2 DEF Serving, Start, Listen, Track, Register, AcceptClosed, Untrack, Unbind, Retry
<1>3. ASSUME Serving(i) PROVE LoopSteps(loop'[i]) < LoopSteps(loop[i])
  BY <1>0, <1>3 DEF Serving, Start, Listen, Track, Register, AcceptClosed, Untrack, Unbind, Retry,
                    AfterClosed, AfterError, MayServe
<1>4. ASSUME NEW j \in Instances, Accept(j) PROVE loop'[i] = loop[i]
  BY <1>0, <1>4 DEF Accept
<1>5. ASSUME NEW j \in Instances, Dispose(j) \/ Stopping(j) \/ Upgrade(j) \/ Hangup(j) \/ SessionEnds(j)
      PROVE  loop' = loop
  BY <1>5 DEF Dispose, Stopping, CloseListener, WaitListener, Drained, TimedOut, Upgrade, Hangup, SessionEnds
<1>6. ASSUME NEW j \in Instances, AcceptError(j) PROVE LoopSteps(loop'[i]) <= LoopSteps(loop[i])
  BY <1>6 DEF AcceptError
<1>7. CASE UNCHANGED vars
  <2>1. loop' = loop /\ ~<<Serving(i)>>_vars
    BY <1>7 DEF vars
  <2> QED
    BY <1>0, <2>1
<1> QED
  BY <1>0, <1>1, <1>2, <1>3, <1>4, <1>5, <1>6, <1>7 DEF Next, vars

(* What is assumed of the steps of one instance, and what follows: as long *)
(* as its goroutine, or Stop, can go on, it does.                          *)
Scheduled(i) == []Inv /\ [][Next]_vars /\ FairTo(i) /\ []GoesOn(i)

LoopMoves(i, k, m) ==
  LoopWithin(i, k) /\ [](CanServe(i) \/ LoopWithin(i, m)) ~> LoopWithin(i, m)
StopMoves(i, k, m) ==
  StopWithin(i, k) /\ [](CanStop(i) \/ StopWithin(i, m)) ~> StopWithin(i, m)

LEMMA LoopGoesOn ==
  ASSUME NEW i \in Instances, NEW k \in 0..6, NEW m \in 0..6, k = m + 1
  PROVE  Scheduled(i) => LoopMoves(i, k, m)
<1>1. Inv /\ LoopWithin(i, k) /\ [Next]_vars => LoopWithin(i, k)'
  BY LoopCountsDown DEF LoopWithin, LoopSteps
<1>2. Inv /\ LoopWithin(i, k) /\ [Next]_vars /\ <<Serving(i)>>_vars => LoopWithin(i, m)'
  BY LoopCountsDown DEF LoopWithin, LoopSteps
<1> QED
  BY <1>1, <1>2, PTL DEF Scheduled, LoopMoves, FairTo, GoesOn

LEMMA StopGoesOn ==
  ASSUME NEW i \in Instances, NEW k \in 0..3, NEW m \in 0..3, k = m + 1
  PROVE  Scheduled(i) => StopMoves(i, k, m)
<1>1. Inv /\ StopWithin(i, k) /\ [Next]_vars => StopWithin(i, k)'
  BY StopCountsDown DEF StopWithin, StopSteps
<1>2. Inv /\ StopWithin(i, k) /\ [Next]_vars /\ <<Stopping(i)>>_vars => StopWithin(i, m)'
  BY StopCountsDown DEF StopWithin, StopSteps
<1> QED
  BY <1>1, <1>2, PTL DEF Scheduled, StopMoves, FairTo, GoesOn

(* What was reached stays.                                                 *)
LEMMA NoWayBack ==
  ASSUME NEW i \in Instances, NEW k \in Nat
  PROVE  /\ Inv /\ LoopWithin(i, k) /\ [Next]_vars => LoopWithin(i, k)'
         /\ Inv /\ StopWithin(i, k) /\ [Next]_vars => StopWithin(i, k)'
  BY LoopCountsDown, StopCountsDown DEF LoopWithin, StopWithin, LoopSteps, StopSteps

(* Stop closes the listener: that needs nobody else.                       *)
LEMMA ListenerIsClosed ==
  ASSUME NEW i \in Instances
  PROVE  Scheduled(i) => (closing[i] ~> StopWithin(i, 2))
<1>1. Scheduled(i) => StopMoves(i, 3, 2)
  BY StopGoesOn
<1>2. Inv /\ StopWithin(i, 3) => CanStop(i) \/ StopWithin(i, 2)
  BY DEF Inv, TypeOK, StopPlaces, StopWithin, StopSteps, CanStop
<1>3. Inv /\ closing[i] => StopWithin(i, 3)
  BY DEF Inv, IInv, StopInv, TypeOK, StopPlaces, StopWithin, StopSteps
<1>4. Inv /\ StopWithin(i, 3) /\ [Next]_vars => StopWithin(i, 3)'
  BY NoWayBack
<1> QED
  BY <1>1, <1>2, <1>3, <1>4, PTL DEF Scheduled, StopMoves

(* From then on the goroutine can always go on: it does not serve, or its  *)
(* Accept fails.                                                           *)
LEMMA LoopEnds ==
  ASSUME NEW i \in Instances
  PROVE  Scheduled(i) => (closing[i] ~> LoopWithin(i, 0))
<1>1. Scheduled(i) => (closing[i] ~> StopWithin(i, 2))
  BY ListenerIsClosed
<1>2. /\ Scheduled(i) => LoopMoves(i, 6, 5)
      /\ Scheduled(i) => LoopMoves(i, 5, 4)
      /\ Scheduled(i) => LoopMoves(i, 4, 3)
      /\ Scheduled(i) => LoopMoves(i, 3, 2)
      /\ Scheduled(i) => LoopMoves(i, 2, 1)
      /\ Scheduled(i) => LoopMoves(i, 1, 0)
  BY LoopGoesOn
<1>3. Inv /\ StopWithin(i, 2) => CanServe(i) \/ LoopWithin(i, 0)
  BY DEF Inv, IInv, StopInv, TypeOK, LoopPlaces, StopPlaces, StopWithin, StopSteps,
         LoopWithin, LoopSteps, CanServe
<1>4. /\ LoopWithin(i, 0) => LoopWithin(i, 1)
      /\ LoopWithin(i, 1) => LoopWithin(i, 2)
      /\ LoopWithin(i, 2) => LoopWithin(i, 3)
      /\ LoopWithin(i, 3) => LoopWithin(i, 4)
      /\ LoopWithin(i, 4) => LoopWithin(i, 5)
  BY DEF LoopWithin, LoopSteps
<1>5. Inv /\ StopWithin(i, 2) => LoopWithin(i, 6)
  BY DEF Inv, IInv, StopInv, TypeOK, LoopPlaces, StopWithin, LoopWithin, LoopSteps
<1>6. Inv /\ StopWithin(i, 2) /\ [Next]_vars => StopWithin(i, 2)'
  BY NoWayBack
<1>7. Scheduled(i) => (StopWithin(i, 2) ~> LoopWithin(i, 0))
  BY <1>2, <1>3, <1>4, <1>5, <1>6, PTL DEF Scheduled, LoopMoves
<1> QED
  BY <1>1, <1>7, PTL

LEMMA StopEnds ==
  ASSUME NEW i \in Instances
  PROVE  Scheduled(i) => (closing[i] ~> StopWithin(i, 0))
<1>1. Scheduled(i) => (closing[i] ~> StopWithin(i, 2)) /\ (closing[i] ~> LoopWithin(i, 0))
  BY ListenerIsClosed, LoopEnds
<1>2. Scheduled(i) => StopMoves(i, 2, 1) /\ StopMoves(i, 1, 0)
  BY StopGoesOn
<1>3. Inv /\ StopWithin(i, 2) /\ LoopWithin(i, 0) => CanStop(i) \/ StopWithin(i, 1)
  BY DEF Inv, TypeOK, LoopPlaces, StopPlaces, StopWithin, StopSteps, LoopWithin, LoopSteps,
         CanStop, Tracked
<1>4. Inv /\ StopWithin(i, 1) => CanStop(i) \/ StopWithin(i, 0)
  BY DEF Inv, TypeOK, StopPlaces, StopWithin, StopSteps, CanStop
<1>5. /\ Inv /\ StopWithin(i, 2) /\ [Next]_vars => StopWithin(i, 2)'
      /\ Inv /\ StopWithin(i, 1) /\ [Next]_vars => StopWithin(i, 1)'
      /\ Inv /\ LoopWithin(i, 0) /\ [Next]_vars => LoopWithin(i, 0)'
  BY NoWayBack
<1>6. LoopWithin(i, 0) => closing[i]
  BY DEF LoopWithin, StopWithin
<1> QED
  BY <1>1, <1>2, <1>3, <1>4, <1>5, <1>6, PTL DEF Scheduled, StopMoves

LEMMA AllScheduled ==
  ASSUME NEW i \in Instances
  PROVE  FairSpec /\ []NobodyIsStuck => Scheduled(i)
<1>1. Fairness => FairTo(i)
  BY DEF Fairness
<1>2. NobodyIsStuck => GoesOn(i)
  BY DEF NobodyIsStuck
<1> QED
  BY <1>1, <1>2, Invariance, PTL DEF FairSpec, Spec, Scheduled, Inv

(* A disposed instance comes to its end, however many there are: its       *)
(* goroutine ends, whatever it was doing when Dispose was called           *)
(* (datasource.go:88-98, 315-319), and Dispose returns, although a         *)
(* connection may stay open (server.go:50-66).                             *)
THEOREM DisposedEnds == FairSpec /\ []NobodyIsStuck => InstanceEnds
<1>1. ASSUME NEW i \in Instances
      PROVE  FairSpec /\ []NobodyIsStuck =>
               (stop[i] # "none" ~> (loop[i] = "ended" /\ stop[i] \in {"stopped", "timedout"}))
  <2>1. Inv /\ stop[i] # "none" => closing[i]
    BY DEF Inv, IInv, StopInv
  <2>2. Inv /\ LoopWithin(i, 0) /\ StopWithin(i, 0)
          => loop[i] = "ended" /\ stop[i] \in {"stopped", "timedout"}
    BY DEF Inv, TypeOK, LoopPlaces, StopPlaces, LoopWithin, LoopSteps, StopWithin, StopSteps
  <2>3. /\ Inv /\ LoopWithin(i, 0) /\ [Next]_vars => LoopWithin(i, 0)'
        /\ Inv /\ StopWithin(i, 0) /\ [Next]_vars => StopWithin(i, 0)'
    BY NoWayBack
  <2> QED
    BY <2>1, <2>2, <2>3, AllScheduled, LoopEnds, StopEnds, PTL DEF Scheduled
<1> QED
  BY <1>1 DEF InstanceEnds
=============================================================================
