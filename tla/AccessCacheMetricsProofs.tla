----------------------- MODULE AccessCacheMetricsProofs ------------------------
(***************************************************************************)
(* Proofs about AccessCacheMetrics: the counters balance and the gauges    *)
(* describe the cache, for any cluster, any event kinds and any number of  *)
(* requests, synchs and failures.                                          *)
(***************************************************************************)
EXTENDS AccessCacheMetrics, SynchronizedAccessCacheProofs, FiniteSetTheorems

(* The requests that are sent as queued and not yet counted.               *)
InHand == {r \in Requesters : sent[r] = "queued"}

MetricsTypeOK ==
    /\ synchCounter \in [completed : Nat, failed : Nat]
    /\ requestCounter \in [Statuses -> Nat]
    /\ sent \in [Requesters -> Statuses \cup {"none"}]
    /\ refusals \in Nat
    /\ IsFiniteSet(InHand)

(* Metrics observe the protocol: they add no step to it.                   *)
LEMMA MetricsStep == [MetricsNext]_mvars => [Next]_vars
<1> SUFFICES ASSUME MetricsNext PROVE [Next]_vars
    BY DEF mvars
<1>1. ASSUME NEW r \in Requesters, Sends(r) PROVE Next
    <2>1. RequestBy(r)
        BY <1>1 DEF Sends
    <2> QED
        BY <2>1 DEF RequestBy, Requesters, Next
<1>2. ASSUME NEW r \in Requesters, CollectRequestMetrics(r) PROVE UNCHANGED vars
    BY <1>2 DEF CollectRequestMetrics
<1>3. ASSUME NEW c \in Callers, Returns(c) \/ Refused(c) PROVE Next
    <2>1. SynchStep(c)
        BY <1>3 DEF Returns, Refused, SynchStep
    <2> QED
        BY <2>1 DEF Next
<1> QED
    BY <1>1, <1>2, <1>3 DEF MetricsNext

(* The protocol's inductive invariant holds with the metrics as well.      *)
LEMMA MetricsIInv == MetricsSpec => []IInv
<1>1. MetricsSpec => Spec
    BY MetricsStep, PTL DEF MetricsSpec, Spec
<1> QED
    BY <1>1, Invariance, PTL

(* Adding the request of r to those in hand, or removing it, moves their   *)
(* number by one.                                                          *)
LEMMA InHandSteps ==
    ASSUME MetricsTypeOK, NEW r \in Requesters, NEW status \in Statuses \cup {"none"},
           sent' = [sent EXCEPT ![r] = status]
    PROVE  /\ IsFiniteSet(InHand')
           /\ Cardinality(InHand) \in Nat
           /\ status # "queued" /\ sent[r] # "queued" =>
                  Cardinality(InHand') = Cardinality(InHand)
           /\ status = "queued" /\ sent[r] # "queued" =>
                  Cardinality(InHand') = Cardinality(InHand) + 1
           /\ status # "queued" /\ sent[r] = "queued" =>
                  Cardinality(InHand') = Cardinality(InHand) - 1
<1>1. IsFiniteSet(InHand) /\ Cardinality(InHand) \in Nat
    BY FS_CardinalityType DEF MetricsTypeOK
<1>2. CASE status # "queued" /\ sent[r] # "queued"
    <2>1. InHand' = InHand
        BY <1>2 DEF InHand, MetricsTypeOK
    <2> QED
        BY <1>1, <1>2, <2>1
<1>3. CASE status = "queued" /\ sent[r] # "queued"
    <2>1. InHand' = InHand \cup {r} /\ r \notin InHand
        BY <1>3 DEF InHand, MetricsTypeOK
    <2>2. IsFiniteSet(InHand \cup {r})
          /\ Cardinality(InHand \cup {r}) = Cardinality(InHand) + 1
        BY <1>1, <2>1, FS_AddElement
    <2> QED
        BY <1>1, <1>3, <2>1, <2>2
<1>4. CASE status # "queued" /\ sent[r] = "queued"
    <2>1. InHand' = InHand \ {r} /\ r \in InHand
        BY <1>4 DEF InHand, MetricsTypeOK
    <2>2. IsFiniteSet(InHand \ {r})
          /\ Cardinality(InHand \ {r}) = Cardinality(InHand) - 1
        BY <1>1, <2>1, FS_RemoveElement
    <2> QED
        BY <1>1, <1>4, <2>1, <2>2
<1>5. CASE status = "queued" /\ sent[r] = "queued"
    <2>1. InHand' = InHand
        BY <1>5 DEF InHand, MetricsTypeOK
    <2> QED
        BY <1>1, <1>5, <2>1
<1> QED
    BY <1>2, <1>3, <1>4, <1>5

--------------------------------------------------------------------------------
(* The counters.                                                           *)

(* The counters start at zero, with no request in hand.                    *)
LEMMA InitMetricsTypeOK == MetricsInit => MetricsTypeOK /\ Cardinality(InHand) = 0
<1> SUFFICES ASSUME MetricsInit PROVE MetricsTypeOK /\ Cardinality(InHand) = 0
    OBVIOUS
<1>1. InHand = {}
    BY DEF MetricsInit, InHand
<1>2. IsFiniteSet(InHand) /\ Cardinality(InHand) = 0
    BY <1>1, FS_EmptySet
<1> QED
    BY <1>2 DEF MetricsInit, MetricsTypeOK, Statuses

(* Counters only count, and each request is counted under a known status.  *)
LEMMA NextMetricsTypeOK ==
    MetricsTypeOK /\ [MetricsNext]_mvars => MetricsTypeOK'
<1> SUFFICES ASSUME MetricsTypeOK, [MetricsNext]_mvars PROVE MetricsTypeOK'
    OBVIOUS
<1>1. ASSUME NEW r \in Requesters, Sends(r) PROVE MetricsTypeOK'
    <2>1. getStatusLabel \in Statuses
        BY DEF getStatusLabel, Statuses
    <2>2. IsFiniteSet(InHand')
        BY <1>1, <2>1, InHandSteps, Zenon DEF Sends
    <2> QED
        BY <1>1, <2>1, <2>2 DEF Sends, MetricsTypeOK, synchMetrics
<1>2. ASSUME NEW r \in Requesters, CollectRequestMetrics(r) PROVE MetricsTypeOK'
    <2>1. IsFiniteSet(InHand')
        BY <1>2, InHandSteps, Zenon DEF CollectRequestMetrics
    <2>2. sent[r] \in Statuses
        BY <1>2 DEF CollectRequestMetrics, MetricsTypeOK
    <2> QED
        BY <1>2, <2>1, <2>2 DEF CollectRequestMetrics, MetricsTypeOK, synchMetrics
<1>3. ASSUME NEW c \in Callers, Returns(c) PROVE MetricsTypeOK'
    <2>1. synchCounter' \in [completed : Nat, failed : Nat]
        BY <1>3 DEF Returns, CollectSynchMetrics, MetricsTypeOK
    <2>2. InHand' = InHand
        BY <1>3 DEF Returns, InHand
    <2> QED
        BY <1>3, <2>1, <2>2 DEF Returns, MetricsTypeOK
<1>4. ASSUME NEW c \in Callers, Refused(c) PROVE MetricsTypeOK'
    <2>1. InHand' = InHand
        BY <1>4 DEF Refused, InHand
    <2> QED
        BY <1>4, <2>1 DEF Refused, MetricsTypeOK
<1>5. CASE UNCHANGED <<synchMetrics, requestCounter, sent>>
    <2>1. InHand' = InHand
        BY <1>5 DEF InHand
    <2> QED
        BY <1>5, <2>1 DEF MetricsTypeOK, synchMetrics
<1> QED
    BY <1>1, <1>2, <1>3, <1>4, <1>5 DEF MetricsNext, mvars

(* The steps of the protocol that the metrics do not see. Of those only    *)
(* WorkerReceive empties the channel, and only Start and WorkerReceive     *)
(* begin a call of Synch.                                                  *)
LEMMA UncountedSteps ==
    ASSUME IInv, [Next]_vars, Alive',
           ~\E r \in Requesters : RequestBy(r),
           ~\E c \in Callers : SynchReturns(c) \/ Refuse(c)
    PROVE  /\ Alive
           /\ \/ /\ requested' = requested
                 /\ pc["main"] = "register" <=> pc'["main"] = "register"
                 /\ \A c \in Callers : Called(c)' <=> Called(c)
              \/ Start
              \/ WorkerReceive
<1> USE DEF Alive, Callers, Called, InSynch
<1>t. TypeOK
    BY DEF IInv
<1>1. CASE StoreStep
    BY <1>1 DEF StoreStep, NamespaceAdded, NamespaceDeleted, RBACChanged,
                StoreChanges
<1>2. ASSUME NEW k \in Kinds, NEW replay \in 0..MaxReplay,
             RegisterHandler(k, replay)
      PROVE  Alive /\ UNCHANGED <<pc, requested>>
    BY <1>2 DEF RegisterHandler
<1>3. CASE Start
    BY <1>3 DEF Start
<1>4. CASE MainReturns \/ RegisterFails
    BY <1>4, <1>t DEF MainReturns, RegisterFails, TypeOK
<1>5. CASE TimerStop \/ Cancel \/ Terminated \/ UNCHANGED vars
    BY <1>5 DEF TimerStop, Cancel, Terminated, vars, queueVars
<1>6. CASE WorkerReceive
    BY <1>6, Zenon DEF WorkerReceive
<1>7. CASE WorkerStop
    BY <1>7, <1>t DEF WorkerStop, TypeOK, queueVars
<1>8. ASSUME NEW c \in Callers, SynchTimeout(c)
      PROVE  Alive /\ UNCHANGED <<pc, requested>>
    BY <1>8 DEF SynchTimeout, queueVars
<1>9. ASSUME NEW c \in Callers, NEW n \in Namespaces, CalculateNamespace(c, n)
      PROVE  Alive /\ UNCHANGED <<pc, requested>>
    BY <1>9 DEF CalculateNamespace, queueVars
<1>10. ASSUME NEW c \in Callers,
              \/ Acquire(c) \/ ListNamespaces(c) \/ Restock(c)
              \/ ListFails(c) \/ Interrupted(c)
       PROVE  /\ Alive /\ requested' = requested
              /\ pc["main"] = "register" <=> pc'["main"] = "register"
              /\ \A d \in Callers : Called(d)' <=> Called(d)
    BY <1>10, <1>t DEF Acquire, ListNamespaces, Restock, ListFails, Interrupted,
                       Abandon, TypeOK, queueVars
<1>11. ~TimerTick /\ ~\E k \in Kinds : EventHandlerFuncs(k)
    <2>1. ASSUME TimerTick PROVE FALSE
        BY <2>1 DEF RequestBy, Requesters
    <2>2. ASSUME NEW k \in Kinds, EventHandlerFuncs(k) PROVE FALSE
        <3>1. RequestBy(k)
            BY <2>2, MetricsAssumption DEF RequestBy
        <3> QED
            BY <3>1 DEF Requesters
    <2> QED
        BY <2>1, <2>2
<1> QED
    BY <1>1, <1>2, <1>3, <1>4, <1>5, <1>6, <1>7, <1>8, <1>9, <1>10, <1>11
    DEF Next, MainStep, SynchStep

(* Init: nothing is asked for and nothing counted.                         *)
LEMMA InitCountersBalance == Init /\ MetricsInit => CountersBalance
<1> SUFFICES ASSUME Init, MetricsInit PROVE CountersBalance
    OBVIOUS
<1>1. Cardinality(InHand) = 0
    BY InitMetricsTypeOK
<1>2. pc["main"] = "register" /\ pc["worker"] = "off" /\ ~requested
    BY DEF Init, Callers
<1>3. requestCounter.queued = 0 /\ synchCounter.completed = 0
      /\ synchCounter.failed = 0 /\ refusals = 0
    BY ZenonT(30) DEF MetricsInit, Statuses
<1> QED
    BY <1>1, <1>2, <1>3 DEF CountersBalance, InHand, Count, Called, InSynch

(* Every step moves both sides of the balance by the same amount.          *)
LEMMA NextCountersBalance ==
    IInv /\ MetricsTypeOK /\ CountersBalance /\ [MetricsNext]_mvars
        => CountersBalance'
<1> SUFFICES ASSUME IInv, MetricsTypeOK, CountersBalance, [MetricsNext]_mvars,
                    Alive'
             PROVE  CountersBalance'
    BY DEF CountersBalance
<1> DEFINE hand == Cardinality(InHand)
           asked == requestCounter.queued + hand + Count(pc["main"] # "register")
           served == Count(requested) + Count(Called("main"))
                         + Count(Called("worker")) + synchCounter.completed
                         + synchCounter.failed + refusals
<1>t. TypeOK
    BY DEF IInv
<1>n. /\ hand \in Nat /\ requestCounter.queued \in Nat
      /\ requestCounter.skipped \in Nat /\ refusals \in Nat
      /\ synchCounter.completed \in Nat /\ synchCounter.failed \in Nat
    BY FS_CardinalityType DEF MetricsTypeOK, Statuses
<1>g. SUFFICES /\ Alive
               /\ \/ asked' = asked /\ served' = served
                  \/ asked' = asked + 1 /\ served' = served + 1
    <2>1. asked = served => asked' = served'
        BY <1>g
    <2> QED
        BY <1>g, <2>1 DEF CountersBalance, InHand
<1>c. Called("main") \in BOOLEAN /\ Called("worker") \in BOOLEAN
      /\ requested \in BOOLEAN
    BY <1>t DEF Called, InSynch, TypeOK
<1>1. ASSUME NEW r \in Requesters, Sends(r)
      PROVE  /\ Alive
             /\ \/ asked' = asked /\ served' = served
                \/ asked' = asked + 1 /\ served' = served + 1
    <2>1. /\ Alive /\ requested' = TRUE /\ pc' = pc
          /\ requestCounter' = requestCounter /\ synchCounter' = synchCounter
          /\ refusals' = refusals
        BY <1>1 DEF Sends, RequestBy, TimerTick, EventHandlerFuncs, Request,
                    synchMetrics
    <2>2. sent[r] = "none" /\ sent' = [sent EXCEPT ![r] = getStatusLabel]
        BY <1>1 DEF Sends
    <2>3. CASE requested
        <3>1. hand' = hand
            <4>1. sent' = [sent EXCEPT ![r] = "skipped"]
                BY <2>2, <2>3 DEF getStatusLabel
            <4>2. "skipped" \in Statuses \cup {"none"}
                BY DEF Statuses
            <4> QED
                BY <2>2, <4>1, <4>2, InHandSteps, Zenon
        <3> QED
            BY <2>1, <2>3, <3>1 DEF Count, Called, InSynch
    <2>4. CASE ~requested
        <3>1. hand' = hand + 1
            <4>1. sent' = [sent EXCEPT ![r] = "queued"]
                BY <2>2, <2>4 DEF getStatusLabel
            <4>2. "queued" \in Statuses \cup {"none"}
                BY DEF Statuses
            <4> QED
                BY <2>2, <4>1, <4>2, InHandSteps, Zenon
        <3> QED
            BY <2>1, <2>4, <3>1, <1>n DEF Count, Called, InSynch
    <2> QED
        BY <2>3, <2>4
<1>2. ASSUME NEW r \in Requesters, CollectRequestMetrics(r)
      PROVE  Alive /\ asked' = asked /\ served' = served
    <2>1. /\ Alive /\ requested' = requested /\ pc' = pc
          /\ synchCounter' = synchCounter /\ refusals' = refusals
        BY <1>2 DEF CollectRequestMetrics, vars, queueVars, synchMetrics
    <2>2. /\ sent[r] \in Statuses
          /\ sent' = [sent EXCEPT ![r] = "none"]
          /\ requestCounter' = [requestCounter EXCEPT ![sent[r]] = @ + 1]
        BY <1>2 DEF CollectRequestMetrics, MetricsTypeOK
    <2>3. CASE sent[r] = "queued"
        <3>1. hand' = hand - 1
            <4>1. "none" \in Statuses \cup {"none"} /\ "none" # "queued"
                OBVIOUS
            <4> QED
                BY <2>2, <2>3, <4>1, InHandSteps, Zenon
        <3>2. requestCounter'.queued = requestCounter.queued + 1
            BY <2>2, <2>3 DEF MetricsTypeOK, Statuses
        <3> QED
            BY <2>1, <3>1, <3>2, <1>n DEF Called, InSynch
    <2>4. CASE sent[r] = "skipped"
        <3>1. hand' = hand
            <4>1. "none" \in Statuses \cup {"none"} /\ "none" # "queued"
                OBVIOUS
            <4> QED
                BY <2>2, <2>4, <4>1, InHandSteps, Zenon
        <3>2. requestCounter'.queued = requestCounter.queued
            BY <2>2, <2>4 DEF MetricsTypeOK, Statuses
        <3> QED
            BY <2>1, <3>1, <3>2 DEF Called, InSynch
    <2> QED
        BY <2>2, <2>3, <2>4 DEF Statuses
<1>3. ASSUME NEW c \in Callers, Returns(c) \/ Refused(c)
      PROVE  Alive /\ asked' = asked /\ served' = served
    <2>1. /\ Alive /\ requested' = requested /\ pc[c] # "register"
          /\ Called(c) /\ ~Called(c)'
          /\ \A d \in Callers \ {c} : pc'[d] = pc[d]
          /\ pc'["main"] = "register" <=> pc["main"] = "register"
        BY <1>3, <1>t DEF Returns, Refused, SynchReturns, Refuse, Returned,
                          Called, InSynch, TypeOK, Callers, queueVars
    <2>2. hand' = hand /\ requestCounter' = requestCounter
        BY <1>3 DEF Returns, Refused, InHand
    <2>3. synchCounter'.completed + synchCounter'.failed + refusals'
          = synchCounter.completed + synchCounter.failed + refusals + 1
        BY <1>3, <1>n DEF Returns, Refused, CollectSynchMetrics, MetricsTypeOK
    <2>4. /\ synchCounter'.completed \in Nat /\ synchCounter'.failed \in Nat
          /\ refusals' \in Nat
        BY NextMetricsTypeOK DEF MetricsTypeOK
    <2>5. Count(Called("main"))' + Count(Called("worker"))' + 1
          = Count(Called("main")) + Count(Called("worker"))
        BY <2>1 DEF Count, Callers, Called, InSynch
    <2>6. asked' = asked
        BY <2>1, <2>2, ZenonT(30) DEF Count
    <2>7. served' = served
        BY <2>1, <2>3, <2>4, <2>5, <1>n, SMTT(30) DEF Count
    <2> QED
        BY <2>1, <2>6, <2>7
<1>4. ASSUME ~\E r \in Requesters : RequestBy(r),
             ~\E c \in Callers : SynchReturns(c) \/ Refuse(c),
             UNCHANGED <<synchMetrics, requestCounter, sent>>
      PROVE  /\ Alive
             /\ \/ asked' = asked /\ served' = served
                \/ asked' = asked + 1 /\ served' = served + 1
    <2>1. /\ hand' = hand /\ requestCounter' = requestCounter
          /\ synchCounter' = synchCounter /\ refusals' = refusals
        BY <1>4 DEF synchMetrics, InHand
    <2>2. [Next]_vars
        BY MetricsStep
    <2>3. ASSUME requested' = requested,
                 pc["main"] = "register" <=> pc'["main"] = "register",
                 \A c \in Callers : Called(c)' <=> Called(c)
          PROVE  asked' = asked /\ served' = served
        BY <2>1, <2>3, ZenonT(30) DEF Count, Callers
    <2>4. ASSUME Start PROVE asked' = asked + 1 /\ served' = served + 1
        BY <2>1, <2>4, <1>n, <1>t, SMTT(30)
        DEF Start, TypeOK, Callers, Count, Called, InSynch, IInv, RegisterInv
    <2>5. ASSUME WorkerReceive PROVE asked' = asked /\ served' = served
        BY <2>1, <2>5, <1>n, <1>t, SMTT(30)
        DEF WorkerReceive, TypeOK, Callers, Count, Called, InSynch
    <2> QED
        BY <1>4, <2>2, <2>3, <2>4, <2>5, UncountedSteps
<1>5. CASE UNCHANGED mvars
    BY <1>5 DEF mvars, vars, queueVars, synchMetrics, Alive, InHand, Called,
                InSynch
<1> QED
    BY <1>1, <1>2, <1>3, <1>4, <1>5 DEF MetricsNext

(* Whatever the interleaving of senders, worker and main: what             *)
(* CollectRequestMetrics counts as queued is accounted for, one by one, by *)
(* the channel, the synch under way and the operations that                *)
(* CollectSynchMetrics counted.                                            *)
THEOREM CountersBalanced == MetricsSpec => []CountersBalance
<1>1. MetricsSpec => [](MetricsTypeOK /\ CountersBalance)
    <2>1. Init /\ MetricsInit => MetricsTypeOK /\ CountersBalance
        BY InitMetricsTypeOK, InitCountersBalance
    <2>2. IInv /\ MetricsTypeOK /\ CountersBalance /\ [MetricsNext]_mvars
              => (MetricsTypeOK /\ CountersBalance)'
        BY NextMetricsTypeOK, NextCountersBalance, ZenonT(30)
    <2> QED
        BY <2>1, <2>2, MetricsIInv, PTL DEF MetricsSpec
<1> QED
    BY <1>1, PTL

--------------------------------------------------------------------------------
(* The gauges.                                                             *)

(* The gauges describe d, a version of the cache.                          *)
Describe(d) ==
    /\ subjectCounter = Cardinality(Keys(d))
    /\ \A gk \in GroupKinds : KeysOf(d, gk) # {} =>
           subjectNamespacePairsCounter[gk] = Pairs(d, gk)

Restocked(c) == pc[c] = "restocked"

(* Between Restock and the metrics the caller still has in its hands what  *)
(* it published; at any other time the gauges describe what List reads.    *)
GaugeInv ==
    Alive =>
        /\ \A c \in Callers : Restocked(c) => data = tmp[c]
        /\ data # NoData /\ (\A c \in Callers : ~Restocked(c)) => Describe(data)

(* The steps that change what List reads, what a caller that published     *)
(* holds, or who such a caller is.                                         *)
LEMMA PublishingSteps ==
    ASSUME IInv, [Next]_vars, Alive'
    PROVE  /\ Alive
           /\ \/ /\ data' = data
                 /\ \A c \in Callers : Restocked(c)' <=> Restocked(c)
                 /\ \A c \in Callers : Restocked(c) => tmp'[c] = tmp[c]
              \/ \E c \in Callers : Restock(c) \/ SynchReturns(c)
<1> USE DEF Alive, Callers, Restocked
<1>t. TypeOK
    BY DEF IInv
<1>1. CASE StoreStep
    BY <1>1 DEF StoreStep, NamespaceAdded, NamespaceDeleted, RBACChanged,
                StoreChanges, localVars
<1>2. ASSUME NEW k \in Kinds, EventHandlerFuncs(k)
      PROVE  Alive /\ UNCHANGED <<pc, data, tmp>>
    BY <1>2 DEF EventHandlerFuncs, localVars
<1>3. ASSUME NEW k \in Kinds, NEW replay \in 0..MaxReplay,
             RegisterHandler(k, replay)
      PROVE  Alive /\ UNCHANGED <<pc, data, tmp>>
    BY <1>3 DEF RegisterHandler, localVars
<1>4. ASSUME Start \/ WorkerReceive \/ WorkerStop
      PROVE  Alive /\ UNCHANGED <<data, tmp>>
             /\ \A c \in Callers : Restocked(c)' <=> Restocked(c)
    <2>1. CASE Start
        BY <2>1, <1>t, ZenonT(30) DEF Start, localVars, TypeOK, IInv, RegisterInv
    <2>2. CASE WorkerReceive
        BY <2>2, <1>t DEF WorkerReceive, localVars, TypeOK
    <2>3. CASE WorkerStop
        BY <2>3, <1>t DEF WorkerStop, localVars, TypeOK
    <2> QED
        BY <1>4, <2>1, <2>2, <2>3, ZenonT(30)
<1>5. CASE MainReturns \/ RegisterFails
    BY <1>5, <1>t, ZenonT(30) DEF MainReturns, RegisterFails, TypeOK
<1>6. CASE TimerTick \/ TimerStop \/ Cancel \/ Terminated \/ UNCHANGED vars
    BY <1>6 DEF TimerTick, TimerStop, Cancel, Terminated, vars, localVars
<1>7. ASSUME NEW c \in Callers, SynchTimeout(c)
      PROVE  Alive /\ UNCHANGED <<pc, data, tmp>>
    BY <1>7 DEF SynchTimeout
<1>8. ASSUME NEW c \in Callers, NEW n \in Namespaces, CalculateNamespace(c, n)
      PROVE  /\ Alive /\ UNCHANGED <<pc, data>> /\ ~Restocked(c)
             /\ \A d \in Callers \ {c} : tmp'[d] = tmp[d]
    BY <1>8, <1>t, ZenonT(30) DEF CalculateNamespace, TypeOK
<1>9. ASSUME NEW c \in Callers,
             \/ Acquire(c) \/ Refuse(c) \/ ListNamespaces(c)
             \/ ListFails(c) \/ Interrupted(c)
      PROVE  /\ Alive /\ data' = data /\ ~Restocked(c) /\ ~Restocked(c)'
             /\ \A d \in Callers \ {c} : tmp'[d] = tmp[d] /\ pc'[d] = pc[d]
    BY <1>9, <1>t DEF Acquire, Refuse, Returned, ListNamespaces, ListFails,
                      Interrupted, Abandon, TypeOK, localVars
<1>10. ASSUME NEW c \in Callers, Restock(c) \/ SynchReturns(c) PROVE Alive
    BY <1>10, ZenonT(30) DEF Restock, SynchReturns
<1> QED
    BY <1>1, <1>2, <1>3, <1>4, <1>5, <1>6, <1>7, <1>8, <1>9, <1>10, ZenonT(30)
    DEF Next, MainStep, SynchStep

(* A caller that restocked sets the gauges before it leaves; one that      *)
(* failed or was refused changed neither the cache nor the gauges.         *)
LEMMA NextGaugeInv == IInv /\ GaugeInv /\ [MetricsNext]_mvars => GaugeInv'
<1> SUFFICES ASSUME IInv, GaugeInv, [MetricsNext]_mvars, Alive'
             PROVE  GaugeInv'
    BY DEF GaugeInv
<1>t. TypeOK /\ SynchMutualExclusion
    BY DEF IInv
<1>n. [Next]_vars
    BY MetricsStep, ZenonT(30)
<1>a. /\ Alive
      /\ \A c \in Callers : Restocked(c) => data = tmp[c]
      /\ data # NoData /\ (\A c \in Callers : ~Restocked(c)) => Describe(data)
    BY <1>n, PublishingSteps DEF GaugeInv
<1>1. ASSUME NEW c \in Callers, SynchReturns(c) PROVE GaugeInv'
    <2>1. /\ data' = data /\ ~Restocked(c)'
          /\ \A d \in Callers \ {c} : pc'[d] = pc[d] /\ tmp'[d] = tmp[d]
        BY <1>1, <1>t DEF SynchReturns, Returned, Restocked, TypeOK
    <2>2. \A d \in Callers : ~Restocked(d)'
        <3>1. InSynch(c)
            BY <1>1 DEF SynchReturns, InSynch
        <3>2. \A d \in Callers \ {c} : ~Restocked(d)
            BY <1>t, <3>1 DEF SynchMutualExclusion, InSynch, Restocked
        <3> QED
            BY <2>1, <3>2 DEF Restocked
    <2>3. PICK d \in Callers : Returns(d)
        <3>1. ~UNCHANGED pc
            BY <1>1, <1>t DEF SynchReturns, Returned, TypeOK
        <3>2. \A r \in Requesters : ~RequestBy(r) /\ ~CollectRequestMetrics(r)
            BY <3>1 DEF RequestBy, TimerTick, EventHandlerFuncs,
                        CollectRequestMetrics, vars
        <3>3. \A d \in Callers : ~Refused(d)
            BY <1>1, <1>t DEF SynchReturns, Refused, Refuse, Returned, TypeOK,
                              SynchMutualExclusion, InSynch, Callers
        <3> QED
            BY <1>1, <3>1, <3>2, <3>3, Zenon DEF MetricsNext, Sends, mvars, vars
    <2>4. d = c
        BY <1>1, <1>t, <2>3 DEF Returns, SynchReturns, SynchMutualExclusion,
                                InSynch
    <2>5. CASE Restocked(c)
        <3>1. SetGauges(tmp[c]) /\ data' = tmp[c]
            BY <1>a, <2>1, <2>3, <2>4, <2>5
            DEF Returns, CollectSynchMetrics, Restocked
        <3>2. subjectCounter' = Cardinality(Keys(data'))
            BY <3>1 DEF SetGauges
        <3>3. \A gk \in GroupKinds : KeysOf(data', gk) # {} =>
                  subjectNamespacePairsCounter'[gk] = Pairs(data', gk)
            BY <3>1 DEF SetGauges
        <3>4. Describe(data)'
            BY <3>2, <3>3 DEF Describe
        <3> QED
            BY <2>2, <3>4 DEF GaugeInv
    <2>6. CASE ~Restocked(c)
        <3>1. pc[c] = "failed" /\ UNCHANGED gaugeVars
            BY <1>1, <2>3, <2>4, <2>6
            DEF Returns, SynchReturns, CollectSynchMetrics, Restocked
        <3>2. \A e \in Callers : ~Restocked(e)
            BY <2>1, <2>2, <2>6, ZenonT(30) DEF Restocked
        <3>3. data' # NoData => Describe(data)'
            BY <1>a, <2>1, <3>1, <3>2 DEF Describe, gaugeVars
        <3> QED
            BY <2>2, <3>3 DEF GaugeInv
    <2> QED
        BY <2>5, <2>6
<1>2. ASSUME NEW c \in Callers, Restock(c) PROVE GaugeInv'
    <2>1. data' = tmp[c] /\ tmp' = tmp /\ Restocked(c)' /\ InSynch(c)
        BY <1>2, <1>t DEF Restock, localVars, Restocked, InSynch, TypeOK
    <2>2. \A d \in Callers \ {c} : ~Restocked(d) /\ pc'[d] = pc[d]
        BY <1>2, <1>t, <2>1
        DEF Restock, SynchMutualExclusion, InSynch, Restocked, TypeOK
    <2>3. \A d \in Callers : Restocked(d)' => d = c
        BY <2>2, ZenonT(30) DEF Restocked
    <2> QED
        BY <2>1, <2>3 DEF GaugeInv
<1>3. ASSUME data' = data,
             \A c \in Callers : Restocked(c)' <=> Restocked(c),
             \A c \in Callers : Restocked(c) => tmp'[c] = tmp[c],
             ~\E c \in Callers : SynchReturns(c)
      PROVE  GaugeInv'
    <2>1. UNCHANGED gaugeVars
        BY <1>3, Zenon DEF MetricsNext, mvars, Sends, CollectRequestMetrics, Returns,
                    Refused, synchMetrics
    <2>2. data' # NoData /\ (\A c \in Callers : ~Restocked(c)') => Describe(data)'
        BY <1>a, <1>3, <2>1 DEF Describe, gaugeVars
    <2>3. \A c \in Callers : Restocked(c)' => data' = tmp'[c]
        BY <1>a, <1>3
    <2> QED
        BY <2>2, <2>3, ZenonT(30) DEF GaugeInv
<1> QED
    BY <1>1, <1>2, <1>3, <1>n, PublishingSteps, Zenon

(* CollectSynchMetrics: the gauges describe what List reads whenever no    *)
(* synch is under way, for any sets of subjects, kinds and namespaces.     *)
THEOREM GaugesFollow == MetricsSpec => []GaugesFollowCache
<1>1. Init => GaugeInv
    BY DEF Init, GaugeInv, Restocked, Callers
<1>2. MetricsSpec => [](IInv /\ GaugeInv)
    BY <1>1, NextGaugeInv, MetricsIInv, PTL DEF MetricsSpec
<1>3. IInv /\ GaugeInv => GaugesFollowCache
    BY DEF IInv, SynchMutualExclusion, InSynch, GaugeInv, Restocked, Describe,
           GaugesFollowCache, Settled
<1> QED
    BY <1>2, <1>3, PTL
================================================================================
