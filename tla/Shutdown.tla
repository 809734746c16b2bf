------------------------------ MODULE Shutdown ------------------------------
(***************************************************************************)
(* The end of `metabasis run': signalContext and run of                    *)
(* cmd/metabasis/main.go, runService of cmd/metabasis/command.go, and the  *)
(* closing of the connection pool.  Two HTTP servers, the reconciliation   *)
(* loop, the goroutine that waits for a signal and the one that shuts      *)
(* everything down run side by side.                                       *)
(*                                                                         *)
(* A request holds a pool connection while it is in progress, the loop     *)
(* while it is working.  The loop itself is the subject of module          *)
(* Scheduler; requests are not cancelled when the service is.              *)
(***************************************************************************)
EXTENDS Integers

CONSTANTS
    MaxSignals,   \* bound: signals sent to the process
    MaxRequests   \* bound: requests in progress on one server

ASSUME ShutdownAssumption == MaxSignals \in Nat /\ MaxRequests \in Nat

Servers == 1..2  \* the webhook server and the metrics server, in this order
Signals == {"interrupt", "terminate"}
None == "none"

VARIABLES
    sent,      \* signals sent so far
    notify,    \* signals go to the channel, not to the OS action
    signals,   \* the one-place channel
    watcher,   \* the signal the watching goroutine has received
    cause,     \* why the command's context is done
    up,        \* servers -> accepting connections
    failed,    \* servers -> ListenAndServe has returned an error
    busy,      \* servers -> requests in progress
    loop,      \* the reconciliation loop
    ctx,       \* the service's context is done
    expired,   \* the shutdown context has timed out
    pool,      \* the connection pool is closed to new users
    main,      \* where runService and run are
    at,        \* the server being shut down
    runErr,    \* the errors runService has joined
    code       \* the exit code

sigVars == <<sent, notify, signals, watcher, cause>>
srvVars == <<up, failed, busy>>
endVars == <<expired, pool, at, runErr, code>>
vars == <<sigVars, srvVars, loop, ctx, main, endVars>>

Init ==
    /\ sent = 0 /\ notify = TRUE /\ signals = None /\ watcher = None /\ cause = None
    /\ up = [i \in Servers |-> TRUE] /\ failed = [i \in Servers |-> FALSE]
    /\ busy = [i \in Servers |-> 0]
    /\ loop = "idle" /\ ctx = FALSE
    /\ main = "serving" /\ at = 1
    /\ expired = FALSE /\ pool = FALSE /\ runErr = {} /\ code = 0

Alive == main \notin {"exited", "killed"}

-----------------------------------------------------------------------------
(* signalContext *)

(* A full channel drops the signal; without Notify it ends the process. *)
Signal(sig) ==
    /\ Alive /\ sent < MaxSignals
    /\ sent' = sent + 1
    /\ IF notify
       THEN signals' = (IF signals = None THEN sig ELSE signals) /\ UNCHANGED main
       ELSE main' = "killed" /\ UNCHANGED signals
    /\ UNCHANGED <<notify, watcher, cause, srvVars, loop, ctx, endVars>>

ReceiveSignal ==
    /\ Alive /\ watcher = None /\ signals # None
    /\ watcher' = signals /\ signals' = None
    /\ UNCHANGED <<sent, notify, cause, srvVars, loop, ctx, main, endVars>>

StopNotify ==
    /\ Alive /\ watcher # None /\ notify
    /\ notify' = FALSE
    /\ UNCHANGED <<sent, signals, watcher, cause, srvVars, loop, ctx, main, endVars>>

Publish_First ==
    /\ Alive /\ watcher # None /\ cause = None
    /\ cause' = watcher
    /\ UNCHANGED <<sent, notify, signals, watcher, srvVars, loop, ctx, main, endVars>>

(* The cancellation is published when the OS action is back in place. *)
Publish ==
    /\ Alive /\ watcher # None /\ ~notify /\ cause = None
    /\ cause' = watcher
    /\ UNCHANGED <<sent, notify, signals, watcher, srvVars, loop, ctx, main, endVars>>

-----------------------------------------------------------------------------
(* The servers and the loop *)

Request(i) ==
    /\ Alive /\ up[i] /\ busy[i] < MaxRequests
    /\ busy' = [busy EXCEPT ![i] = @ + 1]
    /\ UNCHANGED <<sigVars, up, failed, loop, ctx, main, endVars>>

Answer(i) ==
    /\ Alive /\ busy[i] > 0
    /\ busy' = [busy EXCEPT ![i] = @ - 1]
    /\ UNCHANGED <<sigVars, up, failed, loop, ctx, main, endVars>>

(* The address is in use, or the listener breaks. *)
ServerFails(i) ==
    /\ Alive /\ up[i]
    /\ up' = [up EXCEPT ![i] = FALSE] /\ failed' = [failed EXCEPT ![i] = TRUE]
    /\ UNCHANGED <<sigVars, busy, loop, ctx, main, endVars>>

LoopWorks ==
    /\ Alive /\ loop = "idle" /\ ~ctx
    /\ loop' = "working"
    /\ UNCHANGED <<sigVars, srvVars, ctx, main, endVars>>

LoopRests ==
    /\ Alive /\ loop = "working" /\ ~ctx
    /\ loop' = "idle"
    /\ UNCHANGED <<sigVars, srvVars, ctx, main, endVars>>

LoopStops ==
    /\ Alive /\ loop # "stopped" /\ ctx
    /\ loop' = "stopped"
    /\ UNCHANGED <<sigVars, srvVars, ctx, main, endVars>>

-----------------------------------------------------------------------------
(* runService *)

(* cancel() ends the loop; the ten seconds begin. *)
BeginShutdown(errs) ==
    /\ main = "serving"
    /\ runErr' = runErr \cup errs
    /\ ctx' = TRUE /\ main' = "shutdown"
    /\ UNCHANGED <<sigVars, srvVars, loop, expired, pool, at, code>>

ParentDone == cause # None /\ BeginShutdown({})

ServeError_WhenAllFailed == (\A i \in Servers : failed[i]) /\ BeginShutdown({"serve"})

(* One server that fails takes the service down with it. *)
ServeError == (\E i \in Servers : failed[i]) /\ BeginShutdown({"serve"})

ShutdownExpires ==
    /\ main \in {"shutdown", "draining", "joining"} /\ ~expired
    /\ expired' = TRUE
    /\ UNCHANGED <<sigVars, srvVars, loop, ctx, main, pool, at, runErr, code>>

(* Server.Shutdown closes the listener and waits for its requests. *)
StopListening ==
    /\ main = "shutdown"
    /\ up' = [up EXCEPT ![at] = FALSE]
    /\ main' = "draining"
    /\ UNCHANGED <<sigVars, failed, busy, loop, ctx, endVars>>

(* The error of a shutdown that fails names the server's address. *)
shutdownErr(i) == IF i = 1 THEN "webhook" ELSE "metrics"

NextServer(errs) ==
    /\ main = "draining"
    /\ runErr' = runErr \cup errs
    /\ \/ at = 1 /\ at' = 2 /\ main' = "shutdown"
       \/ at = 2 /\ at' = at /\ main' = "joining"
    /\ UNCHANGED <<sigVars, srvVars, loop, ctx, expired, pool, code>>

Drained == busy[at] = 0 /\ NextServer({})

DrainExpires_Silent == busy[at] # 0 /\ expired /\ NextServer({})

DrainExpires_GivesUp ==
    /\ main = "draining" /\ busy[at] # 0 /\ expired
    /\ runErr' = runErr \cup {shutdownErr(at)}
    /\ main' = "joining"
    /\ UNCHANGED <<sigVars, srvVars, loop, ctx, expired, pool, at, code>>

(* An error is joined to the others; the next server has its turn as well. *)
DrainExpires == busy[at] # 0 /\ expired /\ NextServer({shutdownErr(at)})

Return(errs) ==
    /\ main = "joining"
    /\ runErr' = runErr \cup errs
    /\ main' = "closing"
    /\ UNCHANGED <<sigVars, srvVars, loop, ctx, expired, pool, at, code>>

Joined == loop = "stopped" /\ Return({})

JoinExpires == expired /\ Return({"join"})

(* application.Close: the pool takes no new user and waits for the last. *)
CloseBegins ==
    /\ main = "closing" /\ ~pool
    /\ pool' = TRUE
    /\ UNCHANGED <<sigVars, srvVars, loop, ctx, main, expired, at, runErr, code>>

(* run: the signal decides before the error does. *)
exitCode ==
    CASE cause = "interrupt" -> 130 [] cause = "terminate" -> 143
      [] OTHER -> IF runErr # {} THEN 1 ELSE 0

Exit ==
    /\ main = "closing" /\ pool
    /\ \A i \in Servers : busy[i] = 0
    /\ loop # "working"
    /\ main' = "exited" /\ code' = exitCode
    /\ UNCHANGED <<sigVars, srvVars, loop, ctx, expired, pool, at, runErr>>

ServiceStep ==
    \/ ParentDone \/ ServeError \/ StopListening \/ Drained \/ DrainExpires
    \/ Joined \/ JoinExpires \/ CloseBegins \/ Exit

Next ==
    \/ \E sig \in Signals : Signal(sig)
    \/ ReceiveSignal \/ StopNotify \/ Publish
    \/ \E i \in Servers : Request(i)
    \/ \E i \in Servers : Answer(i)
    \/ \E i \in Servers : ServerFails(i)
    \/ LoopWorks \/ LoopRests \/ LoopStops
    \/ ServiceStep \/ ShutdownExpires

(* Goroutines go on, every request is answered at last, and a cancelled    *)
(* loop comes to its end.                                                  *)
Fairness ==
    /\ WF_vars(ReceiveSignal) /\ WF_vars(StopNotify) /\ WF_vars(Publish)
    /\ WF_vars(ServiceStep) /\ WF_vars(ShutdownExpires) /\ WF_vars(LoopStops)
    /\ \A i \in Servers : WF_vars(Answer(i))

Spec == Init /\ [][Next]_vars /\ Fairness

-----------------------------------------------------------------------------
(* Properties *)

(* Every variable has its type. *)
TypeOK ==
    /\ sent \in 0..MaxSignals /\ notify \in BOOLEAN
    /\ signals \in Signals \cup {None} /\ watcher \in Signals \cup {None}
    /\ cause \in Signals \cup {None}
    /\ up \in [Servers -> BOOLEAN] /\ failed \in [Servers -> BOOLEAN]
    /\ busy \in [Servers -> 0..MaxRequests]
    /\ loop \in {"idle", "working", "stopped"} /\ ctx \in BOOLEAN
    /\ expired \in BOOLEAN /\ pool \in BOOLEAN /\ at \in Servers
    /\ main \in {"serving", "shutdown", "draining", "joining", "closing", "exited", "killed"}
    /\ runErr \subseteq {"serve", "webhook", "metrics", "join"} /\ code \in {0, 1, 130, 143}

(* Once a signal has begun the shutdown, the next one ends the process,    *)
(* however long a request, the loop or the pool keeps it waiting.          *)
SecondSignalKills ==
    [][cause # None /\ sent' # sent => main' = "killed"]_vars

(* runService returns without an error only when every request it accepted *)
(* has been answered and the loop has stopped.                             *)
QuietReturnIsComplete ==
    main = "closing" /\ runErr = {} =>
        loop = "stopped" /\ \A i \in Servers : ~up[i] /\ busy[i] = 0

(* No failure on the way, of a server or of a request or loop that         *)
(* outlasts the ten seconds, cuts runService short: when the pool is       *)
(* closed, the loop's context is done and neither server accepts, and for  *)
(* each server with requests still in progress, and for the loop if it has *)
(* not stopped, runService has returned an error of its own.               *)
FailuresSkipNothing ==
    pool =>
        /\ ctx
        /\ loop = "stopped" \/ "join" \in runErr
        /\ \A i \in Servers : ~up[i] /\ (busy[i] = 0 \/ shutdownErr(i) \in runErr)

(* A signal or the failure of either server ends the process. *)
Terminates == (cause # None \/ \E i \in Servers : failed[i]) ~> ~Alive
=============================================================================
