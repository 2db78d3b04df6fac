------------------------- MODULE ProcessLifecycleProofs -------------------------
(***************************************************************************)
(* Proofs about ProcessLifecycle for any number of requests in flight.     *)
(***************************************************************************)
EXTENDS ProcessLifecycle, TLAPS

(* The first cause of every cancellation: the context is done only once    *)
(* someone told the process to stop or run has returned, the metrics       *)
(* server ends only so, and until then signals are relayed.                *)
CauseInv ==
    /\ ctxDone => told \/ err # "nil"
    /\ metrics \in {"returned", "cancelled"} => told \/ ctxDone
    /\ notify \/ ctxDone \/ main \in {"configuring", "exited"}

(* The API server stops for a done context only; run has an error once it  *)
(* returns and not before, and one that failed at startup has no server.   *)
ServerInv ==
    /\ shutdown \in {"draining", "drained"} => ctxDone
    /\ main \in Startup \cup {"starting", "serving"} => err = "nil"
    /\ main \in {"returned", "done"} => err # "nil"
    /\ main \in Startup \/ err = "startup" => shutdown = "off"

IInv == TypeOK /\ CauseInv /\ ServerInv /\ StopsOnlyWhenTold

(* The process starts with nothing running.                                *)
LEMMA InitIInv == Init => IInv
<1> SUFFICES ASSUME Init PROVE IInv
    OBVIOUS
<1>1. /\ enableMetrics \in BOOLEAN /\ ctxDone \in BOOLEAN /\ notify \in BOOLEAN
      /\ listened \in BOOLEAN /\ told \in BOOLEAN
    BY Zenon DEF Init
<1>2. /\ main = "configuring" /\ err = "nil" /\ metrics = "off"
      /\ shutdown = "off" /\ inFlight = 0 /\ exit = "none" /\ ~ctxDone
    BY DEF Init
<1>3. TypeOK
    BY <1>1, <1>2, MaxInFlightAssumption
    DEF TypeOK, MainStates, Startup, Errors, MetricsStates, ShutdownStates, Exits
<1> QED
    BY <1>2, <1>3 DEF IInv, CauseInv, ServerInv, StopsOnlyWhenTold

(* What an exit leaves alone.                                              *)
LEMMA ExitEffect ==
    ASSUME NEW how, Exit(how)
    PROVE  /\ main' = "exited" /\ exit' = how /\ inFlight' = 0
           /\ err' = err /\ metrics' = metrics /\ shutdown' = shutdown
           /\ ctxDone' = ctxDone /\ notify' = notify
           /\ enableMetrics' = enableMetrics /\ listened' = listened
BY DEF Exit, contextVars

(* What a return of run leaves alone.                                      *)
LEMMA ReturnEffect ==
    ASSUME NEW e, RunReturns(e)
    PROVE  /\ main' = "returned" /\ err' = e
           /\ metrics' = metrics /\ shutdown' = shutdown /\ inFlight' = inFlight
           /\ ctxDone' = ctxDone /\ notify' = notify /\ told' = told /\ exit' = exit
           /\ enableMetrics' = enableMetrics /\ listened' = listened
BY DEF RunReturns, contextVars, serverVars

(* The steps that end the process.                                         *)
Ends ==
    \/ ConfigFails \/ CacheStartFails \/ MainExits \/ ShutdownFails
    \/ Signal /\ ~notify

(* The steps that make run return.                                         *)
Returning == StartupFails \/ CacheSyncCancelled \/ ListenFails \/ ServerClosed

(* The other steps of run.                                                 *)
Running ==
    \/ Configured \/ CacheStarted \/ CacheSynced \/ AccessCacheReady
    \/ StartMetricsServer \/ Start \/ Listen \/ RunCancels

(* The other steps of the other goroutines.                                *)
Others ==
    \/ Signal /\ notify
    \/ \E fails \in BOOLEAN : MetricsServerReturns(fails)
    \/ MetricsServerCancels \/ ShutdownBegins \/ ShutdownCompletes
    \/ AcceptRequest \/ FinishRequest

(* A step ends the process, makes run return, or is one of the others.     *)
LEMMA NextCases ==
    [Next]_vars => Ends \/ Returning \/ Running \/ Others \/ UNCHANGED vars
BY Zenon DEF Next, Ends, Returning, Running, Others, Terminated

(* Every step of run and of the other goroutines keeps the types.          *)
LEMMA TypeStep == TypeOK /\ [Next]_vars => TypeOK'
<1> SUFFICES ASSUME TypeOK, [Next]_vars PROVE TypeOK'
    OBVIOUS
<1>1. CASE Ends
    <2>1. PICK how \in Exits \ {"none"} : Exit(how)
        BY <1>1 DEF Ends, ConfigFails, CacheStartFails, MainExits, ShutdownFails,
                    Signal, Exits
    <2>2. told' \in BOOLEAN
        BY <1>1, Zenon DEF Ends, ConfigFails, CacheStartFails, MainExits,
                           ShutdownFails, Signal, TypeOK
    <2> QED
        BY <2>1, <2>2, ExitEffect, MaxInFlightAssumption DEF TypeOK, MainStates
<1>2. CASE Returning
    <2>1. PICK e \in Errors : RunReturns(e)
        BY <1>2 DEF Returning, StartupFails, CacheSyncCancelled, ListenFails,
                    ServerClosed, Errors
    <2> QED
        BY <2>1, ReturnEffect DEF TypeOK, MainStates
<1>3. CASE Running
    <2>1. /\ main' \in MainStates /\ err' = err /\ inFlight' = inFlight
          /\ enableMetrics' = enableMetrics /\ told' = told /\ exit' = exit
        BY <1>3 DEF Running, RunGoes, Configured, CacheStarted, CacheSynced,
                    AccessCacheReady, StartMetricsServer, Start, Listen,
                    RunCancels, MainStates, Startup
    <2>2. ctxDone' \in BOOLEAN /\ notify' \in BOOLEAN /\ listened' \in BOOLEAN
        BY <1>3, Zenon
        DEF Running, Configured, CacheStarted, CacheSynced, AccessCacheReady,
            StartMetricsServer, Start, Listen, RunCancels, Cancel, contextVars, TypeOK
    <2>3. /\ metrics' \in {metrics, IF enableMetrics THEN "running" ELSE metrics}
          /\ shutdown' \in {shutdown, "waiting"}
        BY <1>3 DEF Running, Configured, CacheStarted, CacheSynced,
                    AccessCacheReady, StartMetricsServer, Start, Listen, RunCancels
    <2> QED
        BY <2>1, <2>2, <2>3 DEF TypeOK, MetricsStates, ShutdownStates
<1>4. CASE Others
    <2> USE DEF Others, Signal, MetricsServerReturns, MetricsServerCancels,
                ShutdownBegins, ShutdownCompletes, ShutdownGoes, AcceptRequest,
                FinishRequest, contextVars, serverVars
    <2>1. /\ main' = main /\ err' = err /\ exit' = exit
          /\ enableMetrics' = enableMetrics /\ listened' = listened
        BY <1>4
    <2>2. ctxDone' \in BOOLEAN /\ notify' \in BOOLEAN /\ told' \in BOOLEAN
        BY <1>4, Zenon DEF TypeOK, Cancel
    <2>3. /\ metrics' = metrics \/ (metrics # "off" /\ metrics' \in MetricsStates)
          /\ shutdown' \in ShutdownStates
        BY <1>4 DEF TypeOK, MetricsStates, ShutdownStates
    <2>4. inFlight' \in 0..MaxInFlight
        BY <1>4, MaxInFlightAssumption DEF TypeOK
    <2> QED
        BY <2>1, <2>2, <2>3, <2>4 DEF TypeOK
<1>5. CASE UNCHANGED vars
    BY <1>5 DEF vars, contextVars, serverVars, TypeOK
<1> QED
    BY <1>1, <1>2, <1>3, <1>4, <1>5, NextCases

(* Every step keeps the causes and the order of the end.                   *)
LEMMA IInvStep == IInv /\ [Next]_vars => IInv'
<1> SUFFICES ASSUME IInv, [Next]_vars
             PROVE  (CauseInv /\ ServerInv /\ StopsOnlyWhenTold)'
    BY TypeStep DEF IInv
<1> USE DEF IInv, CauseInv, ServerInv, StopsOnlyWhenTold
<1>1. CASE Ends
    <2>1. CASE ShutdownFails
        <3>1. told \/ err = "listen"
            BY <2>1 DEF ShutdownFails, TypeOK, Errors
        <3>2. told' = told /\ Exit("shutdown")
            BY <2>1 DEF ShutdownFails
        <3> QED
            BY <3>1, <3>2, ExitEffect DEF Startup
    <2>2. CASE Ends /\ ~ShutdownFails
        <3>1. PICK how \in {"main", "panic", "signal"} : Exit(how)
            BY <2>2 DEF Ends, ConfigFails, CacheStartFails, MainExits, Signal
        <3>2. told => told'
            BY <2>2 DEF Ends, ConfigFails, CacheStartFails, MainExits, Signal
        <3> QED
            BY <3>1, <3>2, ExitEffect DEF Startup
    <2> QED
        BY <1>1, <2>1, <2>2
<1>2. CASE Returning
    <2>1. CASE StartupFails \/ CacheSyncCancelled
        <3>1. main \in Startup /\ main # "configuring" /\ RunReturns("startup")
            BY <2>1 DEF StartupFails, CacheSyncCancelled, Startup
        <3> QED
            BY <3>1, ReturnEffect DEF Startup
    <2>2. CASE ListenFails
        <3>1. main \in {"starting", "serving"} /\ RunReturns("listen")
            BY <2>2 DEF ListenFails
        <3> QED
            BY <3>1, ReturnEffect DEF Startup
    <2>3. CASE ServerClosed
        <3>1. main \in {"starting", "serving"} /\ RunReturns("closed")
            BY <2>3 DEF ServerClosed
        <3>2. told /\ told'
            BY <2>3, <3>1, ReturnEffect, Zenon DEF ServerClosed
        <3> QED
            BY <3>1, <3>2, ReturnEffect DEF Startup
    <2> QED
        BY <1>2, <2>1, <2>2, <2>3 DEF Returning
<1>3. CASE Running
    <2>1. CASE Configured \/ CacheStarted \/ CacheSynced \/ AccessCacheReady
        BY <2>1 DEF Configured, CacheStarted, CacheSynced, AccessCacheReady,
                    RunGoes, contextVars, Startup
    <2>2. CASE StartMetricsServer \/ Start \/ Listen
        BY <2>2 DEF StartMetricsServer, Start, Listen, RunGoes, contextVars, Startup
    <2>3. CASE RunCancels
        BY <2>3 DEF RunCancels, RunGoes, Cancel, Startup
    <2> QED
        BY <1>3, <2>1, <2>2, <2>3 DEF Running
<1>4. CASE Others
    <2>1. CASE Signal /\ notify
        BY <2>1 DEF Signal, serverVars, Exit
    <2>2. CASE \E fails \in BOOLEAN : MetricsServerReturns(fails)
        <3>1. (told => told') /\ (told' \/ ctxDone)
            BY <2>2, Zenon DEF MetricsServerReturns
        <3>2. /\ main' = main /\ err' = err /\ exit' = exit /\ ctxDone' = ctxDone
              /\ notify' = notify /\ shutdown' = shutdown
            BY <2>2 DEF MetricsServerReturns, contextVars, serverVars
        <3> QED
            BY <3>1, <3>2
    <2>3. CASE MetricsServerCancels
        BY <2>3 DEF MetricsServerCancels, Cancel, serverVars
    <2>4. CASE ShutdownBegins \/ ShutdownCompletes
        BY <2>4 DEF ShutdownBegins, ShutdownCompletes, ShutdownGoes, contextVars
    <2>5. CASE AcceptRequest \/ FinishRequest
        BY <2>5 DEF AcceptRequest, FinishRequest, contextVars
    <2> QED
        BY <1>4, <2>1, <2>2, <2>3, <2>4, <2>5 DEF Others
<1>5. CASE UNCHANGED vars
    BY <1>5 DEF vars, contextVars, serverVars
<1> QED
    BY <1>1, <1>2, <1>3, <1>4, <1>5, NextCases

--------------------------------------------------------------------------------
(* The theorems.                                                           *)

(* run and its goroutines keep their states, a request is counted in once  *)
(* and out once, and the metrics server follows its flag.                  *)
THEOREM TypeCorrect == Spec => []TypeOK
<1>1. Init => TypeOK
    BY InitIInv DEF IInv
<1> QED
    BY <1>1, TypeStep, PTL DEF Spec

(* Each cancellation has its cause, and the server stops for no other.     *)
THEOREM Invariance == Spec => []IInv
BY InitIInv, IInvStep, PTL DEF Spec

(* The three callers of cancel and the goroutine of APIServer.Start: the   *)
(* server is closed only after a signal or a failure of the metrics        *)
(* server, and a signal kills it outright only after one of these.         *)
THEOREM StopsWhenTold == Spec => []StopsOnlyWhenTold
<1>1. IInv => StopsOnlyWhenTold
    BY DEF IInv
<1> QED
    BY <1>1, Invariance, PTL

================================================================================
