--------------------------- MODULE ShutdownProofs ---------------------------
(***************************************************************************)
(* Proofs of the properties of Shutdown for any number of signals and of   *)
(* requests in progress.                                                   *)
(***************************************************************************)
EXTENDS Shutdown, TLAPS

-----------------------------------------------------------------------------
(* Types *)

(* One step of the process keeps the types. *)
LEMMA TypeStep == TypeOK /\ [Next]_vars => TypeOK'
<1> SUFFICES ASSUME TypeOK, [Next]_vars
             PROVE  TypeOK'
    OBVIOUS
<1> USE ShutdownAssumption DEF TypeOK
<1>1. ASSUME NEW sig \in Signals, Signal(sig)
      PROVE  TypeOK'
    BY <1>1 DEF Signal, srvVars, endVars
<1>2. CASE ReceiveSignal
    BY <1>2 DEF ReceiveSignal, srvVars, endVars
<1>3. CASE StopNotify
    <2>1. notify' \in BOOLEAN
        BY <1>3 DEF StopNotify
    <2> QED
        BY <1>3, <2>1 DEF StopNotify, srvVars, endVars
<1>4. CASE Publish
    BY <1>4 DEF Publish, srvVars, endVars
<1>5. ASSUME NEW i \in Servers, Request(i)
      PROVE  TypeOK'
    BY <1>5 DEF Request, sigVars, endVars
<1>6. ASSUME NEW i \in Servers, Answer(i)
      PROVE  TypeOK'
    BY <1>6 DEF Answer, sigVars, endVars
<1>7. ASSUME NEW i \in Servers, ServerFails(i)
      PROVE  TypeOK'
    BY <1>7 DEF ServerFails, sigVars, endVars
<1>8. CASE LoopWorks
    BY <1>8 DEF LoopWorks, sigVars, srvVars, endVars
<1>9. CASE LoopRests
    BY <1>9 DEF LoopRests, sigVars, srvVars, endVars
<1>10. CASE LoopStops
    BY <1>10 DEF LoopStops, sigVars, srvVars, endVars
<1>11. CASE ParentDone
    BY <1>11 DEF ParentDone, BeginShutdown, sigVars, srvVars
<1>12. CASE ServeError
    BY <1>12 DEF ServeError, BeginShutdown, sigVars, srvVars
<1>13. CASE StopListening
    BY <1>13 DEF StopListening, sigVars, endVars
<1>14. CASE ShutdownExpires
    BY <1>14 DEF ShutdownExpires, sigVars, srvVars
<1>15. CASE Drained
    BY <1>15 DEF Drained, NextServer, Servers, sigVars, srvVars
<1>16. CASE DrainExpires
    BY <1>16 DEF DrainExpires, NextServer, shutdownErr, Servers, sigVars, srvVars
<1>17. CASE Joined
    BY <1>17 DEF Joined, Return, sigVars, srvVars
<1>18. CASE JoinExpires
    BY <1>18 DEF JoinExpires, Return, sigVars, srvVars
<1>19. CASE CloseBegins
    BY <1>19 DEF CloseBegins, sigVars, srvVars
<1>20. CASE Exit
    BY <1>20 DEF Exit, exitCode, sigVars, srvVars
<1>21. CASE UNCHANGED vars
    BY <1>21 DEF vars, sigVars, srvVars, endVars
<1> QED
    BY <1>1, <1>2, <1>3, <1>4, <1>5, <1>6, <1>7, <1>8, <1>9, <1>10, <1>11, <1>12, <1>13, <1>14,
       <1>15, <1>16, <1>17, <1>18, <1>19, <1>20, <1>21 DEF Next, ServiceStep

(* Every variable has its type in every behaviour. *)
THEOREM ShutdownTypeCorrect == Spec => []TypeOK
<1>1. Init => TypeOK
    <2> SUFFICES ASSUME Init
                 PROVE  TypeOK
        OBVIOUS
    <2>1. /\ up \in [Servers -> BOOLEAN] /\ failed \in [Servers -> BOOLEAN]
          /\ busy \in [Servers -> 0..MaxRequests]
        BY ShutdownAssumption DEF Init
    <2>2. notify \in BOOLEAN /\ ctx \in BOOLEAN /\ expired \in BOOLEAN /\ pool \in BOOLEAN
        BY DEF Init
    <2>3. runErr \subseteq {"serve", "webhook", "metrics", "join"} /\ code \in {0, 1, 130, 143}
        BY DEF Init
    <2>4. at \in Servers /\ sent \in 0..MaxSignals
        BY ShutdownAssumption DEF Init, Servers
    <2> QED
        BY <2>1, <2>2, <2>3, <2>4 DEF Init, TypeOK
<1> QED
    BY <1>1, TypeStep, PTL DEF Spec

-----------------------------------------------------------------------------
(* Signals *)

(* The cancellation becomes visible when the OS action is back in place. *)
RestoredFirst == cause # None => ~notify

(* Nothing turns the notification on again. *)
LEMMA RestoredStep == RestoredFirst /\ [Next]_vars => RestoredFirst'
<1> SUFFICES ASSUME RestoredFirst, [Next]_vars
             PROVE  RestoredFirst'
    OBVIOUS
<1>1. CASE StopNotify \/ Publish
    BY <1>1 DEF RestoredFirst, StopNotify, Publish
<1>2. CASE UNCHANGED <<notify, cause>>
    BY <1>2 DEF RestoredFirst
<1>3. StopNotify \/ Publish \/ UNCHANGED <<notify, cause>>
    BY DEF Next, ServiceStep, vars, sigVars, Signal, ReceiveSignal, Request, Answer, ServerFails,
       LoopWorks, LoopRests, LoopStops, ParentDone, ServeError, BeginShutdown, StopListening,
       Drained, DrainExpires, NextServer, Joined, JoinExpires, Return, CloseBegins, Exit,
       ShutdownExpires
<1> QED
    BY <1>1, <1>2, <1>3

(* Once a signal has begun the shutdown, the next one ends the process,    *)
(* however far the shutdown is and whatever it waits for.                  *)
THEOREM SecondSignalEndsTheProcess == Spec => SecondSignalKills
<1>1. Init => RestoredFirst
    BY DEF Init, RestoredFirst
<1>2. RestoredFirst /\ [Next]_vars => [cause # None /\ sent' # sent => main' = "killed"]_vars
    <2> SUFFICES ASSUME RestoredFirst, [Next]_vars, cause # None, sent' # sent
                 PROVE  main' = "killed"
        OBVIOUS
    <2>1. \E sig \in Signals : Signal(sig)
        BY DEF Next, ServiceStep, vars, sigVars, ReceiveSignal, StopNotify, Publish, Request,
           Answer, ServerFails, LoopWorks, LoopRests, LoopStops, ParentDone, ServeError,
           BeginShutdown, StopListening, Drained, DrainExpires, NextServer, Joined, JoinExpires,
           Return, CloseBegins, Exit, ShutdownExpires
    <2> QED
        BY <2>1 DEF RestoredFirst, Signal
<1> QED
    BY <1>1, <1>2, RestoredStep, PTL DEF Spec, SecondSignalKills

-----------------------------------------------------------------------------
(* The end of runService *)

(* A server that accepts no connection and has answered every request. *)
Quiet(i) == ~up[i] /\ busy[i] = 0

(* A server that the shutdown is past: quiet, or closed and reported. *)
Past(i) == ~up[i] /\ (busy[i] = 0 \/ shutdownErr(i) \in runErr)

(* How far the shutdown has come, whatever has failed meanwhile: the       *)
(* context is done, the listener at hand is closed before its requests are *)
(* waited for, the servers before it are past, and at last the loop has    *)
(* stopped or is reported.  The last conjunct keeps it after the pool is   *)
(* closed, when a signal may end the process and `main' forget the place.  *)
ShutSoFar ==
    /\ main = "serving" => at = 1
    /\ main = "draining" => ~up[at]
    /\ main \in {"shutdown", "draining", "joining", "closing"} => ctx
    /\ main \in {"shutdown", "draining"} /\ at = 2 => Past(1)
    /\ main \in {"joining", "closing"} => Past(1) /\ Past(2)
    /\ main = "closing" => loop = "stopped" \/ "join" \in runErr
    /\ FailuresSkipNothing

(* A quiet server stays quiet, and a stopped loop stopped. *)
LEMMA QuietStays ==
    ASSUME TypeOK, [Next]_vars
    PROVE  /\ \A i \in Servers : Quiet(i) => Quiet(i)'
           /\ \A i \in Servers : ~up[i] => ~up'[i]
           /\ loop = "stopped" => loop' = "stopped"
<1> USE DEF TypeOK, Servers, Quiet
<1>1. ASSUME NEW i \in Servers, Request(i) \/ Answer(i) \/ ServerFails(i)
      PROVE  /\ \A j \in Servers : Quiet(j) => Quiet(j)'
             /\ \A j \in Servers : ~up[j] => ~up'[j]
             /\ UNCHANGED loop
    <2>1. CASE Request(i)
        BY <2>1 DEF Request
    <2>2. CASE Answer(i)
        BY <2>2 DEF Answer
    <2>3. CASE ServerFails(i)
        BY <2>3 DEF ServerFails
    <2> QED
        BY <1>1, <2>1, <2>2, <2>3
<1>2. CASE StopListening
    BY <1>2 DEF StopListening
<1>3. CASE LoopWorks \/ LoopRests \/ LoopStops
    BY <1>3 DEF LoopWorks, LoopRests, LoopStops, srvVars
<1>4. CASE UNCHANGED <<srvVars, loop>>
    BY <1>4 DEF srvVars
<1>5. \/ \E i \in Servers : Request(i) \/ Answer(i) \/ ServerFails(i)
      \/ StopListening \/ LoopWorks \/ LoopRests \/ LoopStops \/ UNCHANGED <<srvVars, loop>>
    BY DEF Next, ServiceStep, vars, Signal, ReceiveSignal, StopNotify, Publish, ParentDone,
       ServeError, BeginShutdown, Drained, DrainExpires, NextServer, Joined, JoinExpires, Return,
       CloseBegins, Exit, ShutdownExpires
<1> QED
    BY <1>1, <1>2, <1>3, <1>4, <1>5

(* What the shutdown has done stays done: no error is dropped, no server   *)
(* accepts again, and no request arrives where none is accepted.           *)
LEMMA ShutStays ==
    ASSUME TypeOK, [Next]_vars
    PROVE  /\ \A i \in Servers : ~up[i] => ~up'[i]
           /\ \A i \in Servers : Past(i) => Past(i)'
           /\ loop = "stopped" => loop' = "stopped"
           /\ runErr \subseteq runErr'
           /\ ctx => ctx'
<1>1. runErr \subseteq runErr'
    BY DEF Next, ServiceStep, vars, endVars, Signal, ReceiveSignal, StopNotify, Publish, Request,
       Answer, ServerFails, LoopWorks, LoopRests, LoopStops, ParentDone, ServeError,
       BeginShutdown, StopListening, Drained, DrainExpires, NextServer, Joined, JoinExpires,
       Return, CloseBegins, Exit, ShutdownExpires
<1>2. ctx => ctx'
    BY DEF Next, ServiceStep, vars, Signal, ReceiveSignal, StopNotify, Publish, Request, Answer,
       ServerFails, LoopWorks, LoopRests, LoopStops, ParentDone, ServeError, BeginShutdown,
       StopListening, Drained, DrainExpires, NextServer, Joined, JoinExpires, Return,
       CloseBegins, Exit, ShutdownExpires
<1>3. ASSUME NEW i \in Servers, Past(i)
      PROVE  Past(i)'
    BY <1>1, <1>3, QuietStays DEF Past, Quiet, shutdownErr
<1> QED
    BY <1>1, <1>2, <1>3, QuietStays

(* One step of the process keeps the record of how far the shutdown is. *)
LEMMA ShutStep == TypeOK /\ ShutSoFar /\ [Next]_vars => ShutSoFar'
<1> SUFFICES ASSUME TypeOK, ShutSoFar, [Next]_vars
             PROVE  ShutSoFar'
    OBVIOUS
<1> USE DEF ShutSoFar, Servers
<1>0. /\ Past(1) => Past(1)'
      /\ Past(2) => Past(2)'
      /\ \A i \in Servers : ~up[i] => ~up'[i]
      /\ loop = "stopped" => loop' = "stopped"
      /\ runErr \subseteq runErr'
      /\ ctx => ctx'
    BY ShutStays
<1>1. at \in {1, 2}
    BY DEF TypeOK
<1>2. pool => FailuresSkipNothing'
    BY <1>0 DEF FailuresSkipNothing, Past
<1>3. UNCHANGED pool => FailuresSkipNothing'
    BY <1>2 DEF FailuresSkipNothing
<1>4. CASE UNCHANGED <<main, at, pool>>
    BY <1>0, <1>1, <1>3, <1>4
<1>5. ASSUME NEW sig \in Signals, Signal(sig)
      PROVE  ShutSoFar'
    <2>1. UNCHANGED <<at, pool>> /\ (main' = main \/ main' = "killed")
        BY <1>5 DEF Signal, endVars
    <2>2. main' = "killed" => ShutSoFar'
        BY <1>3, <2>1
    <2> QED
        BY <1>4, <2>1, <2>2
<1>6. CASE ParentDone \/ ServeError
    <2>1. main' = "shutdown" /\ at' = 1 /\ ctx' /\ UNCHANGED pool
        BY <1>6 DEF ParentDone, ServeError, BeginShutdown
    <2> QED
        BY <1>3, <2>1
<1>7. CASE StopListening
    <2>1. main = "shutdown" /\ main' = "draining" /\ UNCHANGED <<at, pool>> /\ ~up'[at]
        BY <1>1, <1>7 DEF StopListening, TypeOK, endVars
    <2> QED
        BY <1>0, <1>3, <2>1
<1>8. CASE Drained \/ DrainExpires
    <2>1. main = "draining" /\ UNCHANGED <<up, busy, pool>>
        BY <1>8 DEF Drained, DrainExpires, NextServer, srvVars
    <2>2. \/ at = 1 /\ at' = 2 /\ main' = "shutdown"
          \/ at = 2 /\ at' = 2 /\ main' = "joining"
        BY <1>8 DEF Drained, DrainExpires, NextServer
    <2>3. busy[at] = 0 \/ shutdownErr(at) \in runErr'
        BY <1>8 DEF Drained, DrainExpires, NextServer
    <2>4. at = 1 => Past(1)'
        BY <2>1, <2>3 DEF Past, shutdownErr
    <2>5. at = 2 => Past(2)'
        BY <2>1, <2>3 DEF Past, shutdownErr
    <2> QED
        BY <1>0, <1>3, <2>1, <2>2, <2>4, <2>5
<1>9. CASE Joined \/ JoinExpires
    <2>1. main = "joining" /\ main' = "closing" /\ UNCHANGED pool
        BY <1>9 DEF Joined, JoinExpires, Return
    <2>2. loop' = "stopped" \/ "join" \in runErr'
        BY <1>0, <1>9 DEF Joined, JoinExpires, Return
    <2> QED
        BY <1>0, <1>3, <2>1, <2>2
<1>10. CASE CloseBegins
    <2>1. main = "closing" /\ main' = "closing"
        BY <1>10 DEF CloseBegins
    <2>2. Past(1)' /\ Past(2)' /\ ctx' /\ (loop' = "stopped" \/ "join" \in runErr')
        BY <1>0, <2>1
    <2>3. FailuresSkipNothing'
        BY <2>2 DEF FailuresSkipNothing, Past
    <2> QED
        BY <2>1, <2>2, <2>3
<1>11. CASE Exit
    <2>1. main' = "exited" /\ UNCHANGED pool
        BY <1>11 DEF Exit
    <2> QED
        BY <1>3, <2>1
<1>12. \/ \E sig \in Signals : Signal(sig)
       \/ ParentDone \/ ServeError \/ StopListening \/ Drained \/ DrainExpires
       \/ Joined \/ JoinExpires \/ CloseBegins \/ Exit \/ UNCHANGED <<main, at, pool>>
    BY DEF Next, ServiceStep, vars, endVars, ReceiveSignal, StopNotify, Publish, Request, Answer,
       ServerFails, LoopWorks, LoopRests, LoopStops, ShutdownExpires
<1> QED
    BY <1>4, <1>5, <1>6, <1>7, <1>8, <1>9, <1>10, <1>11, <1>12

(* The record of how far the shutdown is holds in every behaviour. *)
LEMMA ShutdownIsOrderly == Spec => []ShutSoFar
<1>1. Init => ShutSoFar
    BY DEF Init, ShutSoFar, FailuresSkipNothing
<1> QED
    BY <1>1, ShutdownTypeCorrect, ShutStep, PTL DEF Spec

(* runService returns without an error only when every request it accepted *)
(* has been answered and the loop has stopped, whatever arrives meanwhile. *)
THEOREM QuietReturnsAreComplete == Spec => []QuietReturnIsComplete
<1>1. ShutSoFar => QuietReturnIsComplete
    BY DEF ShutSoFar, QuietReturnIsComplete, Past, Servers
<1> QED
    BY <1>1, ShutdownIsOrderly, PTL

(* Whatever fails on the way, the pool is closed after both listeners and  *)
(* the loop's context, and what is still at work then has been reported.   *)
THEOREM FailuresAreTakenInStride == Spec => []FailuresSkipNothing
<1>1. ShutSoFar => FailuresSkipNothing
    BY DEF ShutSoFar
<1> QED
    BY <1>1, ShutdownIsOrderly, PTL
=============================================================================
