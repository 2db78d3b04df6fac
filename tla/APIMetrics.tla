------------------------------- MODULE APIMetrics -------------------------------
(***************************************************************************)
(* RequestPipeline inside its outermost layer, the metrics middleware. Its *)
(* four instruments nest: the gauge of requests in flight is the innermost *)
(* and goes down before the counter around it goes up. The gauge's         *)
(* decrement is deferred and so survives a panic of the handler; the       *)
(* counter's increment is not. The histograms of size and latency observe  *)
(* when the counter counts, and are left out.                              *)
(***************************************************************************)
EXTENDS RequestPipeline, FiniteSets

VARIABLES
    inFlightGauge,   \* requests_in_flight
    requestCounter,  \* counter, by code: "Number of requests completed"
    layer            \* layer[r]: where r is among the instruments

metricsVars == <<inFlightGauge, requestCounter, layer>>
avars == <<vars, metricsVars>>

Codes == {200, 401}

MetricsInit ==
    /\ Init
    /\ inFlightGauge = 0
    /\ requestCounter = [c \in Codes |-> 0]
    /\ layer = [r \in Requests |-> "outside"]

(* The request goes inwards through all four to the next handler.          *)
Enter(r, name, groups) ==
    /\ Arrive(r, name, groups)
    /\ inFlightGauge' = inFlightGauge + 1
    /\ layer' = [layer EXCEPT ![r] = "inFlight"]
    /\ UNCHANGED requestCounter

(* Mutant: the decrement is not deferred.                                  *)
InFlightEndsUnlessPanic(r) ==
    /\ layer[r] = "inFlight"
    /\ pc[r] \in {"done", "aborted"}
    /\ inFlightGauge' = IF pc[r] = "done" THEN inFlightGauge - 1 ELSE inFlightGauge
    /\ layer' = [layer EXCEPT ![r] = IF pc[r] = "done" THEN "counter" ELSE "outside"]
    /\ UNCHANGED <<vars, requestCounter>>

(* The inner handler returned or panics, and a panic leaves all layers.    *)
InFlightEnds(r) ==
    /\ layer[r] = "inFlight"
    /\ pc[r] \in {"done", "aborted"}
    /\ inFlightGauge' = inFlightGauge - 1
    /\ layer' = [layer EXCEPT ![r] = IF pc[r] = "done" THEN "counter" ELSE "outside"]
    /\ UNCHANGED <<vars, requestCounter>>

Counted(r) ==
    /\ layer[r] = "counter"
    /\ requestCounter' = [requestCounter EXCEPT ![code[r]] = @ + 1]
    /\ layer' = [layer EXCEPT ![r] = "outside"]
    /\ UNCHANGED <<vars, inFlightGauge>>

MetricsNext ==
    \/ \E r \in Requests, name \in Usernames \cup {NoUser}, groups \in GroupLists :
           Enter(r, name, groups)
    \/ \E r \in Requests : InFlightEnds(r) \/ Counted(r)
    \/ /\ \/ \E r \in Requests : RequestStep(r)
          \/ \E version \in Versions : Restock(version)
       /\ UNCHANGED metricsVars

MetricsSpec == MetricsInit /\ [][MetricsNext]_avars

(* AddMetricsMiddleware around AddAuthnMiddleware and the handler: the     *)
(* gauge is the number of requests inside, however they leave; and once    *)
(* all have left, every request that got a response, a refusal included,   *)
(* was counted once and under the code that its client saw, while one      *)
(* whose handler panicked was not.                                         *)
MetricsAccountForRequests ==
    /\ inFlightGauge = Cardinality({r \in Requests : layer[r] = "inFlight"})
    /\ \A c \in Codes :
           requestCounter[c] = Cardinality({r \in Requests :
                                   layer[r] = "outside" /\ code[r] = c})

================================================================================
