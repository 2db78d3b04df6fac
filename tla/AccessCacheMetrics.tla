--------------------------- MODULE AccessCacheMetrics ---------------------------
(***************************************************************************)
(* SynchronizedAccessCache with its metrics. The gauges that describe its  *)
(* content and the counter of synchs are set at the end of Synch, after    *)
(* Restock and before the deferred release of synchronizing; Request       *)
(* counts a request after its send, when the worker may already have taken *)
(* it. Durations are left out.                                             *)
(***************************************************************************)
EXTENDS SynchronizedAccessCache, FiniteSets, FiniteSetsExt

CONSTANTS GroupKinds,  \* values of the label subject_gk
          GroupKind,   \* GroupKind[s]: APIGroup and Kind of subject s, joined
          MaxRequests  \* bound: calls of Request

ASSUME MetricsAssumption ==
    /\ GroupKind \in [Subjects -> GroupKinds]
    /\ "timer" \notin Kinds
    /\ MaxRequests \in Nat

VARIABLES subjectCounter,                \* gauge
          subjectNamespacePairsCounter,  \* gauge vector; 0 is also "never set"
          synchCounter,                  \* synchGauge: a counter, by status
          requestCounter,                \* time and resource requests, by status
          sent,                          \* sent[r]: r's request, not yet counted
          refusals                       \* history: calls of Synch refused

gaugeVars == <<subjectCounter, subjectNamespacePairsCounter>>
synchMetrics == <<gaugeVars, synchCounter, refusals>>
mvars == <<vars, synchMetrics, requestCounter, sent>>

(* The goroutines that call Request.                                       *)
Requesters == Kinds \cup {"timer"}

Statuses == {"queued", "skipped"}

(* The keys of the map: a subject enters it with its first namespace.      *)
Keys(d) == {s \in Subjects : d[s] # {}}

KeysOf(d, gk) == {s \in Keys(d) : GroupKind[s] = gk}

Pairs(d, gk) == MapThenSumSet(LAMBDA s : Cardinality(d[s]), KeysOf(d, gk))

MetricsInit ==
    /\ subjectCounter = 0
    /\ subjectNamespacePairsCounter = [gk \in GroupKinds |-> 0]
    /\ synchCounter = [completed |-> 0, failed |-> 0]
    /\ requestCounter = [status \in Statuses |-> 0]
    /\ sent = [r \in Requesters |-> "none"]
    /\ refusals = 0

(* Only the group-kinds that occur in the data are set.                    *)
SetGauges(d) ==
    /\ subjectCounter' = Cardinality(Keys(d))
    /\ subjectNamespacePairsCounter' =
           [gk \in GroupKinds |->
               IF KeysOf(d, gk) # {} THEN Pairs(d, gk)
                                     ELSE subjectNamespacePairsCounter[gk]]

(* Mutant: the error branch does not return; a failed synch has no data.   *)
CollectSynchMetricsOnError(c) ==
    IF pc[c] = "failed"
    THEN SetGauges(NoAccess) /\ synchCounter' = [synchCounter EXCEPT !.failed = @ + 1]
    ELSE SetGauges(tmp[c]) /\ synchCounter' = [synchCounter EXCEPT !.completed = @ + 1]

CollectSynchMetrics(c) ==
    IF pc[c] = "failed"
    THEN /\ synchCounter' = [synchCounter EXCEPT !.failed = @ + 1]
         /\ UNCHANGED gaugeVars
    ELSE /\ synchCounter' = [synchCounter EXCEPT !.completed = @ + 1]
         /\ SetGauges(tmp[c])

(* Mutant: what is counted as queued is what was asked for.                *)
getStatusLabelAlways == "queued"

(* The send succeeded if the channel was empty.                            *)
getStatusLabel == IF requested THEN "skipped" ELSE "queued"

(* Request, called by r, up to its metrics.                                *)
RequestBy(r) == IF r = "timer" THEN TimerTick ELSE EventHandlerFuncs(r)

Sends(r) ==
    /\ RequestBy(r)
    /\ sent[r] = "none"
    /\ sent' = [sent EXCEPT ![r] = getStatusLabel]
    /\ requestCounter.queued + requestCounter.skipped
           + Cardinality({q \in Requesters : sent[q] # "none"}) < MaxRequests
    /\ UNCHANGED <<synchMetrics, requestCounter>>

CollectRequestMetrics(r) ==
    /\ Alive
    /\ sent[r] # "none"
    /\ requestCounter' = [requestCounter EXCEPT ![sent[r]] = @ + 1]
    /\ sent' = [sent EXCEPT ![r] = "none"]
    /\ UNCHANGED <<vars, synchMetrics>>

Returns(c) ==
    /\ SynchReturns(c)
    /\ CollectSynchMetrics(c)
    /\ UNCHANGED <<refusals, requestCounter, sent>>

Refused(c) ==
    /\ Refuse(c)
    /\ refusals' = refusals + 1
    /\ UNCHANGED <<gaugeVars, synchCounter, requestCounter, sent>>

MetricsNext ==
    \/ \E r \in Requesters : Sends(r) \/ CollectRequestMetrics(r)
    \/ \E c \in Callers : Returns(c) \/ Refused(c)
    \/ /\ Next
       /\ ~\E r \in Requesters : RequestBy(r)
       /\ ~\E c \in Callers : SynchReturns(c) \/ Refuse(c)
       /\ UNCHANGED <<synchMetrics, requestCounter, sent>>

MetricsSpec == Init /\ MetricsInit /\ [][MetricsNext]_mvars

--------------------------------------------------------------------------------
(* Properties.                                                             *)

Settled == Alive /\ ~synchronizing /\ data # NoData

(* CollectSynchMetrics inside Synch: whenever no synch is under way, the   *)
(* gauges describe the data that List reads, after successful, failed and  *)
(* refused synchs of either caller alike: the number of subjects, and the  *)
(* number of pairs of every group-kind that has any.                       *)
GaugesFollowCache ==
    Settled =>
        /\ subjectCounter = Cardinality(Keys(data))
        /\ \A gk \in GroupKinds : KeysOf(data, gk) # {} =>
               subjectNamespacePairsCounter[gk] = Pairs(data, gk)

Count(P) == IF P THEN 1 ELSE 0

Called(c) == pc[c] = "synch" \/ InSynch(c)

(* CollectRequestMetrics and CollectSynchMetrics: the counters balance.    *)
(* Each request that is or will be counted as queued, and main's own call, *)
(* is either still in the channel, or in a synch that has not ended, or    *)
(* one operation counted as completed or failed, unless Synch refused it;  *)
(* what is counted as skipped never becomes an operation.                  *)
CountersBalance ==
    Alive =>
        requestCounter.queued + Cardinality({r \in Requesters : sent[r] = "queued"})
            + Count(pc["main"] # "register")
        = Count(requested) + Count(Called("main")) + Count(Called("worker"))
              + synchCounter.completed + synchCounter.failed + refusals

(* metrics_accesscache.go: "subjectNamespacePairsCounter counts the        *)
(* (subject, namespace) pairs in the cache", for every group-kind.         *)
PairsGaugeCountsCache ==
    Settled => \A gk \in GroupKinds :
                   subjectNamespacePairsCounter[gk] = Pairs(data, gk)

================================================================================
