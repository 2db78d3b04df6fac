---------------------------- MODULE ProcessLifecycle ----------------------------
(***************************************************************************)
(* The life of the process: main.run builds and starts the resource cache, *)
(* the access cache, the metrics server and the API server in that order;  *)
(* a signal, the end of the metrics server or the return of run cancels    *)
(* the context; the API server's shutdown goroutine and main then race to  *)
(* the end.                                                                *)
(***************************************************************************)
EXTENDS Integers

CONSTANT MaxInFlight  \* bound: requests being served at once

ASSUME MaxInFlightAssumption == MaxInFlight \in Nat

VARIABLES
    enableMetrics,  \* the flag
    main,           \* where run is, see MainStates
    err,            \* what run returns, see Errors
    ctxDone,        \* the context of signal.NotifyContext is cancelled
    notify,         \* signals are relayed to the context
    metrics,        \* the goroutine of the metrics server
    shutdown,       \* the shutdown goroutine of APIServer.Start
    listened,       \* the API server has opened its listener
    inFlight,       \* requests inside a handler
    told,           \* history: a signal came, or the metrics server failed
    exit            \* history: what ended the process

contextVars == <<ctxDone, notify>>
serverVars == <<shutdown, listened, inFlight>>
vars == <<enableMetrics, main, err, contextVars, metrics, serverVars, told, exit>>

Startup == {"configuring", "cacheBuild", "cacheSync", "accessCache",
            "metricsServer", "apiServer"}
MainStates == Startup \cup {"starting", "serving", "returned", "done", "exited"}
Errors == {"nil", "startup", "listen", "closed"}
MetricsStates == {"off", "running", "returned", "cancelled"}
ShutdownStates == {"off", "waiting", "draining", "drained"}
Exits == {"none", "main", "shutdown", "panic", "signal"}

Alive == main # "exited"

Init ==
    /\ enableMetrics \in BOOLEAN
    /\ main = "configuring"
    /\ err = "nil"
    /\ ctxDone = FALSE
    /\ notify = FALSE
    /\ metrics = "off"
    /\ shutdown = "off"
    /\ listened = FALSE
    /\ inFlight = 0
    /\ told = FALSE
    /\ exit = "none"

(* os.Exit, a panic or a signal: every goroutine ends with the process.    *)
Exit(how) ==
    /\ main' = "exited"
    /\ exit' = how
    /\ inFlight' = 0
    /\ UNCHANGED <<enableMetrics, err, contextVars, metrics, shutdown, listened>>

(* The function that NotifyContext returns: the context is done, and       *)
(* signals have their default action again.                                *)
Cancel == ctxDone' = TRUE /\ notify' = FALSE

--------------------------------------------------------------------------------
(* run, step by step.                                                      *)

RunGoes(from, to) ==
    /\ main = from
    /\ main' = to
    /\ UNCHANGED <<enableMetrics, err, inFlight, told, exit>>

RunReturns(e) ==
    /\ main' = "returned"
    /\ err' = e
    /\ UNCHANGED <<enableMetrics, contextVars, metrics, serverVars, told, exit>>

(* Flags, authenticator and configuration; then the context is set up. An  *)
(* error ends the process with nothing to cancel.                          *)
Configured ==
    /\ RunGoes("configuring", "cacheBuild")
    /\ notify' = TRUE
    /\ UNCHANGED <<ctxDone, metrics, shutdown, listened>>

ConfigFails ==
    /\ main = "configuring"
    /\ Exit("main")
    /\ UNCHANGED told

(* The cache is built, its informers are registered, its goroutine runs.   *)
CacheStarted ==
    /\ RunGoes("cacheBuild", "cacheSync")
    /\ UNCHANGED <<contextVars, metrics, shutdown, listened>>

(* An error of a step before the API server makes run return it. Only the  *)
(* building of the metrics server is skipped when it is disabled.          *)
StartupFails ==
    /\ \/ main \in {"cacheBuild", "accessCache"}
       \/ main = "metricsServer" /\ enableMetrics
    /\ RunReturns("startup")

(* WaitForCacheSync: all informers have synched, or the context is done.   *)
CacheSynced ==
    /\ RunGoes("cacheSync", "accessCache")
    /\ UNCHANGED <<contextVars, metrics, shutdown, listened>>

CacheSyncCancelled ==
    /\ main = "cacheSync"
    /\ ctxDone
    /\ RunReturns("startup")

(* The goroutine that runs the resource cache panics on its error, as long *)
(* as the process lives. (After an error of startup, which may have come   *)
(* before that goroutine, the panic is left out: the process ends anyway.) *)
CacheStartFails ==
    /\ main \notin {"configuring", "cacheBuild", "exited"}
    /\ err # "startup"
    /\ Exit("panic")
    /\ UNCHANGED told

(* buildAndStartSynchronizedAccessCache succeeded, its Synch included.     *)
AccessCacheReady ==
    /\ RunGoes("accessCache", "metricsServer")
    /\ UNCHANGED <<contextVars, metrics, shutdown, listened>>

(* Mutant: the flag is not looked at.                                      *)
StartMetricsServerAlways ==
    /\ RunGoes("metricsServer", "apiServer")
    /\ metrics' = "running"
    /\ UNCHANGED <<contextVars, shutdown, listened>>

StartMetricsServer ==
    /\ RunGoes("metricsServer", "apiServer")
    /\ metrics' = IF enableMetrics THEN "running" ELSE metrics
    /\ UNCHANGED <<contextVars, shutdown, listened>>

(* APIServer.Start begins with its shutdown goroutine.                     *)
Start ==
    /\ RunGoes("apiServer", "starting")
    /\ shutdown' = "waiting"
    /\ UNCHANGED <<contextVars, metrics, listened>>

(* ListenAndServe opens the listener, unless Shutdown came first. It       *)
(* returns when it cannot listen or the listener fails, and with           *)
(* ErrServerClosed as soon as Shutdown has been called.                    *)
Listen ==
    /\ RunGoes("starting", "serving")
    /\ shutdown = "waiting"
    /\ listened' = TRUE
    /\ UNCHANGED <<contextVars, metrics, shutdown>>

ListenFails ==
    /\ \/ main = "starting"
       \/ main = "serving" /\ shutdown = "waiting"
    /\ RunReturns("listen")

ServerClosed ==
    /\ main \in {"starting", "serving"}
    /\ shutdown \in {"draining", "drained"}
    /\ RunReturns("closed")

(* The deferred cancel of run.                                             *)
RunCancels ==
    /\ RunGoes("returned", "done")
    /\ Cancel
    /\ UNCHANGED <<metrics, shutdown, listened>>

(* main logs the error and exits with status 1.                            *)
MainExits ==
    /\ main = "done"
    /\ Exit("main")
    /\ UNCHANGED told

--------------------------------------------------------------------------------
(* The other goroutines.                                                   *)

(* Relayed, a signal cancels the context. Before NotifyContext and after   *)
(* the first call of cancel it kills the process.                          *)
Signal ==
    /\ Alive
    /\ told' = TRUE
    /\ \/ /\ notify
          /\ ctxDone' = TRUE
          /\ UNCHANGED <<enableMetrics, main, err, notify, metrics, serverVars, exit>>
       \/ /\ ~notify
          /\ Exit("signal")

(* ms.Start fails, or returns since the context is done.                   *)
MetricsServerReturns(fails) ==
    /\ Alive
    /\ metrics = "running"
    /\ fails \/ ctxDone
    /\ metrics' = "returned"
    /\ told' = (told \/ fails)
    /\ UNCHANGED <<enableMetrics, main, err, contextVars, serverVars, exit>>

(* Mutant: the goroutine of the metrics server does not cancel.            *)
MetricsServerEndsQuietly ==
    /\ Alive
    /\ metrics = "returned"
    /\ metrics' = "cancelled"
    /\ UNCHANGED <<enableMetrics, main, err, contextVars, serverVars, told, exit>>

(* The deferred cancel of its goroutine.                                   *)
MetricsServerCancels ==
    /\ Alive
    /\ metrics = "returned"
    /\ metrics' = "cancelled"
    /\ Cancel
    /\ UNCHANGED <<enableMetrics, main, err, serverVars, told, exit>>

ShutdownGoes(from, to) ==
    /\ Alive
    /\ shutdown = from
    /\ shutdown' = to
    /\ UNCHANGED <<enableMetrics, main, err, contextVars, metrics, listened,
                   inFlight, told, exit>>

(* Mutant: the listener is closed only when no request is left.            *)
ShutdownWhenIdle ==
    /\ ctxDone
    /\ inFlight = 0
    /\ ShutdownGoes("waiting", "draining")

(* Mutant: the goroutine does not wait for the context.                    *)
ShutdownAtOnce == ShutdownGoes("waiting", "draining")

(* Shutdown closes the listener and starts waiting for the handlers.       *)
ShutdownBegins ==
    /\ ctxDone
    /\ ShutdownGoes("waiting", "draining")

ShutdownCompletes ==
    /\ inFlight = 0
    /\ ShutdownGoes("draining", "drained")

(* Shutdown gives up after two minutes, or reports that closing the        *)
(* listener failed: the goroutine calls os.Exit.                           *)
ShutdownFails ==
    /\ Alive
    /\ shutdown = "draining"
    /\ listened
    /\ Exit("shutdown")
    /\ UNCHANGED told

(* Connections that are open take requests until Shutdown has found them   *)
(* idle, whatever became of the listener.                                  *)
AcceptRequest ==
    /\ Alive
    /\ listened
    /\ shutdown # "drained"
    /\ inFlight < MaxInFlight
    /\ inFlight' = inFlight + 1
    /\ UNCHANGED <<enableMetrics, main, err, contextVars, metrics, shutdown,
                   listened, told, exit>>

FinishRequest ==
    /\ Alive
    /\ inFlight > 0
    /\ inFlight' = inFlight - 1
    /\ UNCHANGED <<enableMetrics, main, err, contextVars, metrics, shutdown,
                   listened, told, exit>>

Terminated == ~Alive /\ UNCHANGED vars

Next ==
    \/ AcceptRequest
    \/ FinishRequest
    \/ Configured
    \/ ConfigFails
    \/ CacheStarted
    \/ StartupFails
    \/ CacheSynced
    \/ CacheSyncCancelled
    \/ CacheStartFails
    \/ AccessCacheReady
    \/ StartMetricsServer
    \/ Start
    \/ Listen
    \/ ListenFails
    \/ ServerClosed
    \/ RunCancels
    \/ MainExits
    \/ Signal
    \/ \E fails \in BOOLEAN : MetricsServerReturns(fails)
    \/ MetricsServerCancels
    \/ ShutdownBegins
    \/ ShutdownCompletes
    \/ ShutdownFails
    \/ Terminated

Spec == Init /\ [][Next]_vars

(* run never stops between two of its own steps, and the other goroutines  *)
(* run once they can. WaitForCacheSync returns for certain only when the   *)
(* context is done; Synch has a timeout; no fairness is asked of requests, *)
(* of failures or of the cluster.                                          *)
Fairness ==
    /\ WF_vars(CacheStarted \/ StartupFails)
    /\ WF_vars(CacheSyncCancelled)
    /\ WF_vars(AccessCacheReady \/ StartupFails)
    /\ WF_vars(StartMetricsServer \/ StartupFails)
    /\ WF_vars(Start)
    /\ WF_vars(Listen)
    /\ WF_vars(ServerClosed)
    /\ WF_vars(RunCancels)
    /\ WF_vars(MainExits)
    /\ WF_vars(MetricsServerCancels)
    /\ WF_vars(ShutdownBegins)

FairSpec == Spec /\ Fairness

--------------------------------------------------------------------------------
(* Properties.                                                             *)

(* Every variable keeps its type, the count of requests its bounds, and    *)
(* there is a metrics server only if the flag asks for it.                 *)
TypeOK ==
    /\ enableMetrics \in BOOLEAN
    /\ main \in MainStates
    /\ err \in Errors
    /\ ctxDone \in BOOLEAN
    /\ notify \in BOOLEAN
    /\ metrics \in IF enableMetrics THEN MetricsStates ELSE {"off"}
    /\ shutdown \in ShutdownStates
    /\ listened \in BOOLEAN
    /\ inFlight \in 0..MaxInFlight
    /\ told \in BOOLEAN
    /\ exit \in Exits

(* run, its metrics goroutine and APIServer.Start: the API server is       *)
(* closed only after a signal or a failure of the metrics server, and the  *)
(* shutdown goroutine ends the process only then or once the listener has  *)
(* failed; until then a signal finds the context and does not kill the     *)
(* process. No cancel of one goroutine comes early for another.            *)
StopsOnlyWhenTold ==
    /\ err = "closed" => told
    /\ exit = "shutdown" => told \/ err = "listen"
    /\ main \in {"starting", "serving"} /\ ~told => notify

(* run and APIServer.Start: a cancelled context ends the process, from     *)
(* whichever step of startup or service it is in, before or after the      *)
(* server listens, even if some handler never returns.                     *)
TerminatesOnceDone == ctxDone ~> ~Alive

(* main.go: "error running metrics server: invalidating context,           *)
(* application will be terminated".                                        *)
MetricsServerTakesProcessDown == (metrics = "returned") ~> ~Alive

(* APIServer.Start: "HTTP Server graceful shutdown". When ListenAndServe   *)
(* returns because Shutdown was called, main does not exit while requests  *)
(* are in flight: they end, or Shutdown gives up on them first.            *)
GracefulShutdown ==
    [][Alive /\ exit' = "main" /\ err = "closed" => inFlight = 0]_vars

================================================================================
