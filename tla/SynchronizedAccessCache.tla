------------------------ MODULE SynchronizedAccessCache ------------------------
(***************************************************************************)
(* The synchronization protocol of SynchronizedAccessCache: who asks for a *)
(* synch, who runs it, what it reads while the informers move on, and what *)
(* it publishes.                                                           *)
(*                                                                         *)
(* Four kinds of goroutine share the cache: the informer listeners that    *)
(* call the event handlers, the resync timer, the worker that Start spawns *)
(* to serve requests, and main, which registers the handlers, calls Start  *)
(* and then calls Synch itself before it serves HTTP requests.             *)
(*                                                                         *)
(* The informer stores are abstracted to what a synch reads of them: the   *)
(* set of namespaces, and for each namespace the subjects that             *)
(* AllowedSubjects would compute from the RBAC stores at that instant; the *)
(* reads AllowedSubjects really makes, one store after another, are in     *)
(* AccessCalculation.                                                      *)
(***************************************************************************)
EXTENDS Naturals

CONSTANTS Namespaces,   \* names a namespace may have
          Subjects,     \* rbacv1.Subject values
          Kinds,        \* the watched resource kinds, one informer each
          NoData,       \* the nil atomic.Pointer before the first Restock
          MaxChanges,   \* bound: store changes in a behaviour
          MaxReplay,    \* bound: objects AddEventHandler replays, per kind
          MaxFailures   \* bound: synchs that outlive synchTimeout

NamespaceKind == "Namespace"

AccessData == [Subjects -> SUBSET Namespaces]

ASSUME ConstantsAssumption ==
    /\ NamespaceKind \in Kinds
    /\ NoData \notin AccessData
    /\ MaxChanges \in Nat
    /\ MaxReplay \in Nat
    /\ MaxFailures \in Nat

VARIABLES
    nsStore,        \* namespaces in the Namespace informer's store
    allowed,        \* allowed[n]: the subjects AllowedSubjects(n) yields now
    registered,     \* kinds whose informer has our event handler
    pending,        \* pending[k]: notifications queued in k's listener
    requested,      \* s.requested, a channel of capacity one, is full
    timer,          \* the resync goroutine: "off", "running", "stopped"
    synchronizing,  \* s.synchronizing
    pc,             \* control state of the two goroutines that call Synch
    listed,         \* listed[c]: nn.Items in c's synch
    todo,           \* todo[c]: the items c's range loop has not visited
    tmp,            \* tmp[c]: the AccessData c's synch is filling
    expired,        \* expired[c]: the deadline of c's sctx has passed
    data,           \* AtomicListRestockCache.data, what List reads
    ctxDone,        \* the process context is cancelled
    swallowed,      \* history: errors of Synch that Start told nobody about
    dropped,        \* history: a request was consumed, no synch served it
    changes,        \* bound counter
    failures        \* bound counter

storeVars == <<nsStore, allowed, changes>>
queueVars == <<registered, pending, requested, timer>>
localVars == <<listed, todo, tmp, expired>>
ghostVars == <<swallowed, dropped>>
vars == <<storeVars, queueVars, synchronizing, pc, localVars, data, ctxDone,
          ghostVars, failures>>

Callers == {"main", "worker"}

MainStates == {"register", "synch", "list", "range", "restocked", "failed",
               "serving", "exited"}
WorkerStates == {"off", "idle", "synch", "list", "range", "restocked",
                 "failed", "stopped"}

(* os.Exit takes every goroutine with it.                                  *)
Alive == pc["main"] # "exited"

NoAccess == [s \in Subjects |-> {}]

(* The AccessData that a synch reading everything now would compute for    *)
(* the namespaces in S.                                                    *)
Calculated(S) == [s \in Subjects |-> {n \in S : s \in allowed[n]}]

--------------------------------------------------------------------------------

Init ==
    /\ nsStore \in SUBSET Namespaces
    /\ allowed \in [Namespaces -> SUBSET Subjects]
    /\ registered = {}
    /\ pending = [k \in Kinds |-> 0]
    /\ requested = FALSE
    /\ timer = "off"
    /\ synchronizing = FALSE
    /\ pc = [c \in Callers |-> IF c = "main" THEN "register" ELSE "off"]
    /\ listed = [c \in Callers |-> {}]
    /\ todo = [c \in Callers |-> {}]
    /\ tmp = [c \in Callers |-> NoAccess]
    /\ expired = [c \in Callers |-> FALSE]
    /\ data = NoData
    /\ ctxDone = FALSE
    /\ swallowed = {}
    /\ dropped = FALSE
    /\ changes = 0
    /\ failures = 0

--------------------------------------------------------------------------------
(* The informers. A store changes first, its listeners are notified later, *)
(* each informer on a goroutine of its own.                                *)

Notify(k) ==
    pending' = IF k \in registered THEN [pending EXCEPT ![k] = @ + 1]
                                   ELSE pending

StoreChanges(k) ==
    /\ Alive
    /\ changes < MaxChanges
    /\ changes' = changes + 1
    /\ Notify(k)
    /\ UNCHANGED <<registered, requested, timer, synchronizing, pc, localVars,
                   data, ctxDone, ghostVars, failures>>

NamespaceAdded(n) ==
    /\ n \notin nsStore
    /\ nsStore' = nsStore \cup {n}
    /\ UNCHANGED allowed
    /\ StoreChanges(NamespaceKind)

NamespaceDeleted(n) ==
    /\ n \in nsStore
    /\ nsStore' = nsStore \ {n}
    /\ UNCHANGED allowed
    /\ StoreChanges(NamespaceKind)

(* A (Cluster)Role or (Cluster)RoleBinding event may change the subjects   *)
(* of any number of namespaces at once.                                    *)
RBACChanged(k, access) ==
    /\ k # NamespaceKind
    /\ access # allowed
    /\ allowed' = access
    /\ UNCHANGED nsStore
    /\ StoreChanges(k)

(* Mutant: events are ignored while a synch runs, as if it covered them.   *)
RequestUnlessSynchronizing ==
    requested' = (requested \/ ~synchronizing)

(* Request: a non-blocking send; a full channel discards the request.      *)
Request == requested' = TRUE

EventHandlerFuncs(k) ==
    /\ Alive
    /\ pending[k] > 0
    /\ pending' = [pending EXCEPT ![k] = @ - 1]
    /\ Request
    /\ UNCHANGED <<storeVars, registered, timer, synchronizing, pc, localVars,
                   data, ctxDone, ghostVars, failures>>

--------------------------------------------------------------------------------
(* buildAndStartSynchronizedAccessCache, on the main goroutine.            *)

(* AddEventHandler on a running informer replays the objects in its store. *)
RegisterHandler(k, replay) ==
    /\ pc["main"] = "register"
    /\ k \notin registered
    /\ k = NamespaceKind /\ nsStore # {} => replay > 0
    /\ registered' = registered \cup {k}
    /\ pending' = [pending EXCEPT ![k] = replay]
    /\ UNCHANGED <<storeVars, requested, timer, synchronizing, pc, localVars,
                   data, ctxDone, ghostVars, failures>>

RegisterFails ==
    /\ pc["main"] = "register"
    /\ registered # Kinds
    /\ pc' = [pc EXCEPT !["main"] = "exited"]
    /\ UNCHANGED <<storeVars, queueVars, synchronizing, localVars, data,
                   ctxDone, ghostVars, failures>>

Start ==
    /\ pc["main"] = "register"
    /\ registered = Kinds
    /\ timer' = "running"
    /\ pc' = [pc EXCEPT !["main"] = "synch", !["worker"] = "idle"]
    /\ UNCHANGED <<storeVars, registered, pending, requested, synchronizing,
                   localVars, data, ctxDone, ghostVars, failures>>

--------------------------------------------------------------------------------
(* The two goroutines of Start.                                            *)

(* Mutant: the timer loop waits but requests nothing.                      *)
TimerWaits ==
    /\ Alive
    /\ timer = "running"
    /\ UNCHANGED vars

TimerTick ==
    /\ Alive
    /\ timer = "running"
    /\ Request
    /\ UNCHANGED <<storeVars, registered, pending, timer, synchronizing, pc,
                   localVars, data, ctxDone, ghostVars, failures>>

TimerStop ==
    /\ Alive
    /\ timer = "running"
    /\ ctxDone
    /\ timer' = "stopped"
    /\ UNCHANGED <<storeVars, registered, pending, requested, synchronizing,
                   pc, localVars, data, ctxDone, ghostVars, failures>>

WorkerReceive ==
    /\ Alive
    /\ pc["worker"] = "idle"
    /\ requested
    /\ requested' = FALSE
    /\ pc' = [pc EXCEPT !["worker"] = "synch"]
    /\ UNCHANGED <<storeVars, registered, pending, timer, synchronizing,
                   localVars, data, ctxDone, ghostVars, failures>>

WorkerStop ==
    /\ Alive
    /\ pc["worker"] = "idle"
    /\ ctxDone
    /\ pc' = [pc EXCEPT !["worker"] = "stopped"]
    /\ UNCHANGED <<storeVars, queueVars, synchronizing, localVars, data,
                   ctxDone, ghostVars, failures>>

--------------------------------------------------------------------------------
(* Synch, run by either caller c.                                          *)

(* Mutant: the worker leaves its loop the way main leaves startup.         *)
ReturnedForBoth(c, ok) == IF ok THEN "serving" ELSE "exited"

(* Mutant: main ignores the error of its Synch and serves anyway.          *)
ReturnedIgnoringError(c, ok) == IF c = "worker" THEN "idle" ELSE "serving"

(* Where a caller goes when its Synch returns: the worker back to its      *)
(* select; main on to serving, or out of the process when Synch failed.    *)
Returned(c, ok) ==
    IF c = "worker" THEN "idle" ELSE IF ok THEN "serving" ELSE "exited"

(* The worker passes only ErrSynchAlreadyRunning on to syncErrorHandler.   *)
HandleError(c, err) ==
    swallowed' = IF c = "worker" /\ err # "refused"
                 THEN swallowed \cup {err} ELSE swallowed

CtxErr(c) == ctxDone \/ expired[c]

(* The CompareAndSwap wins; sctx starts with a new deadline.               *)
Acquire(c) ==
    /\ Alive
    /\ pc[c] = "synch"
    /\ ~synchronizing
    /\ synchronizing' = TRUE
    /\ pc' = [pc EXCEPT ![c] = "list"]
    /\ dropped' = FALSE
    /\ UNCHANGED <<storeVars, queueVars, localVars, data, ctxDone, swallowed,
                   failures>>

(* Mutant: the deferred Store(false) is installed before the               *)
(* CompareAndSwap, so that a refused caller opens the door as it leaves.   *)
RefuseAndRelease(c) ==
    /\ Alive
    /\ pc[c] = "synch"
    /\ synchronizing
    /\ synchronizing' = FALSE
    /\ pc' = [pc EXCEPT ![c] = Returned(c, FALSE)]
    /\ HandleError(c, "refused")
    /\ dropped' = TRUE
    /\ UNCHANGED <<storeVars, queueVars, localVars, data, ctxDone, failures>>

(* The CompareAndSwap loses: Synch returns ErrSynchAlreadyRunning.         *)
Refuse(c) ==
    /\ Alive
    /\ pc[c] = "synch"
    /\ synchronizing
    /\ pc' = [pc EXCEPT ![c] = Returned(c, FALSE)]
    /\ HandleError(c, "refused")
    /\ dropped' = TRUE
    /\ UNCHANGED <<storeVars, queueVars, synchronizing, localVars, data,
                   ctxDone, failures>>

SynchTimeout(c) ==
    /\ Alive
    /\ pc[c] \in {"list", "range"}
    /\ ~expired[c]
    /\ failures < MaxFailures
    /\ failures' = failures + 1
    /\ expired' = [expired EXCEPT ![c] = TRUE]
    /\ UNCHANGED <<storeVars, queueVars, synchronizing, pc, listed, todo, tmp,
                   data, ctxDone, ghostVars>>

ListNamespaces(c) ==
    /\ Alive
    /\ pc[c] = "list"
    /\ listed' = [listed EXCEPT ![c] = nsStore]
    /\ todo' = [todo EXCEPT ![c] = nsStore]
    /\ tmp' = [tmp EXCEPT ![c] = NoAccess]
    /\ pc' = [pc EXCEPT ![c] = "range"]
    /\ UNCHANGED <<storeVars, queueVars, synchronizing, expired, data, ctxDone,
                   ghostVars, failures>>

(* A synch that gives up leaves the published data alone.                  *)
Abandon(c) ==
    /\ Alive
    /\ pc' = [pc EXCEPT ![c] = "failed"]
    /\ dropped' = TRUE
    /\ UNCHANGED <<storeVars, queueVars, synchronizing, localVars, data,
                   ctxDone, swallowed, failures>>

ListFails(c) ==
    /\ pc[c] = "list"
    /\ CtxErr(c)
    /\ Abandon(c)

(* One iteration of the range loop: AllowedSubjects reads the RBAC stores  *)
(* as they are now, not as they were when the namespaces were listed.      *)
CalculateNamespace(c, n) ==
    /\ Alive
    /\ pc[c] = "range"
    /\ n \in todo[c]
    /\ ~CtxErr(c)
    /\ tmp' = [tmp EXCEPT ![c] =
                  [s \in Subjects |-> IF s \in allowed[n] THEN @[s] \cup {n}
                                                          ELSE @[s]]]
    /\ todo' = [todo EXCEPT ![c] = @ \ {n}]
    /\ UNCHANGED <<storeVars, queueVars, synchronizing, pc, listed, expired,
                   data, ctxDone, ghostVars, failures>>

Interrupted(c) ==
    /\ pc[c] = "range"
    /\ todo[c] # {}
    /\ CtxErr(c)
    /\ Abandon(c)

(* The context is not consulted once the loop is over.                     *)
Restock(c) ==
    /\ Alive
    /\ pc[c] = "range"
    /\ todo[c] = {}
    /\ data' = tmp[c]
    /\ pc' = [pc EXCEPT ![c] = "restocked"]
    /\ UNCHANGED <<storeVars, queueVars, synchronizing, localVars, ctxDone,
                   ghostVars, failures>>

(* Mutant: the flag is cleared on the success path only.                   *)
SynchReturnsHolding(c) ==
    /\ Alive
    /\ pc[c] \in {"restocked", "failed"}
    /\ synchronizing' = (pc[c] = "failed")
    /\ pc' = [pc EXCEPT ![c] = Returned(c, pc[c] = "restocked")]
    /\ listed' = [listed EXCEPT ![c] = {}]
    /\ todo' = [todo EXCEPT ![c] = {}]
    /\ tmp' = [tmp EXCEPT ![c] = NoAccess]
    /\ expired' = [expired EXCEPT ![c] = FALSE]
    /\ UNCHANGED <<storeVars, queueVars, data, ctxDone, ghostVars, failures>>

(* Mutant: requests that arrived during the synch count as served by it.   *)
SynchReturnsDraining(c) ==
    /\ Alive
    /\ pc[c] \in {"restocked", "failed"}
    /\ synchronizing' = FALSE
    /\ requested' = FALSE
    /\ pc' = [pc EXCEPT ![c] = Returned(c, pc[c] = "restocked")]
    /\ listed' = [listed EXCEPT ![c] = {}]
    /\ todo' = [todo EXCEPT ![c] = {}]
    /\ tmp' = [tmp EXCEPT ![c] = NoAccess]
    /\ expired' = [expired EXCEPT ![c] = FALSE]
    /\ UNCHANGED <<storeVars, registered, pending, timer, data, ctxDone,
                   ghostVars, failures>>

(* The deferred cancel and Store(false); the locals die with the call.     *)
SynchReturns(c) ==
    /\ Alive
    /\ pc[c] \in {"restocked", "failed"}
    /\ synchronizing' = FALSE
    /\ pc' = [pc EXCEPT ![c] = Returned(c, pc[c] = "restocked")]
    /\ IF pc[c] = "failed" THEN HandleError(c, "failed")
                           ELSE UNCHANGED swallowed
    /\ listed' = [listed EXCEPT ![c] = {}]
    /\ todo' = [todo EXCEPT ![c] = {}]
    /\ tmp' = [tmp EXCEPT ![c] = NoAccess]
    /\ expired' = [expired EXCEPT ![c] = FALSE]
    /\ UNCHANGED <<storeVars, queueVars, data, ctxDone, dropped, failures>>

--------------------------------------------------------------------------------
(* The life of the process around the cache.                               *)

(* SIGTERM, SIGINT, or the metrics server ending.                          *)
Cancel ==
    /\ Alive
    /\ ~ctxDone
    /\ ctxDone' = TRUE
    /\ UNCHANGED <<storeVars, queueVars, synchronizing, pc, localVars, data,
                   ghostVars, failures>>

(* The API server returns once the context is cancelled, and main exits.   *)
MainReturns ==
    /\ pc["main"] = "serving"
    /\ ctxDone
    /\ pc' = [pc EXCEPT !["main"] = "exited"]
    /\ UNCHANGED <<storeVars, queueVars, synchronizing, localVars, data,
                   ctxDone, ghostVars, failures>>

Terminated == ~Alive /\ UNCHANGED vars

SynchStep(c) ==
    \/ Acquire(c)
    \/ Refuse(c)
    \/ ListNamespaces(c)
    \/ ListFails(c)
    \/ \E n \in Namespaces : CalculateNamespace(c, n)
    \/ Interrupted(c)
    \/ Restock(c)
    \/ SynchReturns(c)

MainStep ==
    \/ \E k \in Kinds, replay \in 0..MaxReplay : RegisterHandler(k, replay)
    \/ Start
    \/ MainReturns

StoreStep ==
    \/ \E n \in Namespaces : NamespaceAdded(n)
    \/ \E n \in Namespaces : NamespaceDeleted(n)
    \/ \E k \in Kinds, access \in [Namespaces -> SUBSET Subjects] :
           RBACChanged(k, access)

Next ==
    \/ StoreStep
    \/ \E k \in Kinds : EventHandlerFuncs(k)
    \/ MainStep
    \/ RegisterFails
    \/ TimerTick
    \/ TimerStop
    \/ WorkerReceive
    \/ WorkerStop
    \/ \E c \in Callers : SynchStep(c)
    \/ \E c \in Callers : SynchTimeout(c)
    \/ Cancel
    \/ Terminated

Spec == Init /\ [][Next]_vars

(* Every goroutine that can run eventually runs, and time.After always     *)
(* fires. Nothing obliges the cluster to change, a synch to time out, a    *)
(* registration to fail or anyone to cancel the context; and whether the   *)
(* goroutines of a cancelled context stop matters to no property.          *)
Fairness ==
    /\ \A k \in Kinds : WF_vars(EventHandlerFuncs(k))
    /\ WF_vars(MainStep)
    /\ WF_vars(TimerTick)
    /\ WF_vars(WorkerReceive)
    /\ \A c \in Callers : WF_vars(SynchStep(c))

FairSpec == Spec /\ Fairness

--------------------------------------------------------------------------------
(* Properties.                                                             *)

(* Every variable keeps the shape the Go types give it, and each goroutine *)
(* stays within its own control states.                                    *)
TypeOK ==
    /\ nsStore \in SUBSET Namespaces
    /\ allowed \in [Namespaces -> SUBSET Subjects]
    /\ registered \in SUBSET Kinds
    /\ pending \in [Kinds -> Nat]
    /\ requested \in BOOLEAN
    /\ timer \in {"off", "running", "stopped"}
    /\ synchronizing \in BOOLEAN
    /\ pc \in [Callers -> MainStates \cup WorkerStates]
    /\ pc["main"] \in MainStates
    /\ pc["worker"] \in WorkerStates
    /\ listed \in [Callers -> SUBSET Namespaces]
    /\ todo \in [Callers -> SUBSET Namespaces]
    /\ tmp \in [Callers -> AccessData]
    /\ expired \in [Callers -> BOOLEAN]
    /\ data \in AccessData \cup {NoData}
    /\ ctxDone \in BOOLEAN
    /\ swallowed \in SUBSET {"refused", "failed"}
    /\ dropped \in BOOLEAN
    /\ changes \in Nat
    /\ failures \in Nat

InSynch(c) == pc[c] \in {"list", "range", "restocked", "failed"}
Calculating(c) == pc[c] \in {"list", "range"}
Serving == pc["main"] = "serving"

(* Synch: the CompareAndSwap on synchronizing admits one caller at a time, *)
(* and the flag is up exactly while a caller is between its swap and the   *)
(* deferred Store(false), whichever way that caller leaves.                *)
SynchMutualExclusion ==
    /\ synchronizing <=> \E c \in Callers : InSynch(c)
    /\ \A c, d \in Callers : InSynch(c) /\ InSynch(d) => c = d

(* List and listAll: by the time main serves requests the data pointer is  *)
(* not nil, which listAll dereferences without a test.                     *)
ServedCacheIsStocked == Serving => data # NoData

(* Start: once main serves, the worker is the only caller of Synch left,   *)
(* so a request it takes from the channel is never refused.                *)
NoRefusalWhileServing ==
    Serving => ~(pc["worker"] = "synch" /\ synchronizing)

Fresh == data = Calculated(nsStore)

(* Something is still on its way to start a synch from the beginning.      *)
WakeUp ==
    \/ requested
    \/ \E k \in Kinds : pending[k] > 0
    \/ \E c \in Callers : pc[c] = "synch"

Quiescent == ~WakeUp /\ \A c \in Callers : ~Calculating(c)

(* Request, Start and Synch together: events that arrive before, during or *)
(* after a synch, however they coalesce in the channel of capacity one,    *)
(* leave the cache stale only if a synch was refused or gave up since.     *)
FreshUnlessDropped == Serving /\ Quiescent /\ ~dropped => Fresh

(* c's synch, if it ended with the stores as they are, would publish what  *)
(* they grant.                                                             *)
InFlightFresh(c) ==
    \/ pc[c] = "list"
    \/ /\ pc[c] = "range"
       /\ listed[c] = nsStore
       /\ todo[c] \subseteq listed[c]
       /\ tmp[c] = Calculated(listed[c] \ todo[c])

(* The same promise at every instant from Start on: whatever changed in    *)
(* the stores is still on its way to a synch, or is in the synch that      *)
(* runs, or is published, unless a synch was refused or gave up since.     *)
NoLostEvent ==
    pc["main"] \notin {"register", "exited"} =>
        \/ dropped
        \/ WakeUp
        \/ \E c \in Callers : InFlightFresh(c)
        \/ Fresh /\ \A c \in Callers : ~Calculating(c)

(* Start's resync timer: when the cluster and the failures stop, the       *)
(* published data ends up equal to what the stores grant, whatever was     *)
(* refused or interrupted before, unless the process is going away.        *)
Converges == <>[](ctxDone \/ ~Alive \/ Fresh)

(* README.md: "The cache is invalidated and updated for each event on the  *)
(* cached resources". When all events have been handled and no synch is    *)
(* running, the cache reflects the stores.                                 *)
UpdatedForEachEvent == Serving /\ ~ctxDone /\ Quiescent => Fresh

(* The default SyncErrorHandler logs every error other than                *)
(* ErrSynchAlreadyRunning at level Error: the worker hands it every error  *)
(* of Synch.                                                               *)
ErrorsReachHandler == swallowed = {}

================================================================================
