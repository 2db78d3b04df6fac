--------------------- MODULE SynchronizedAccessCacheProofs ---------------------
(***************************************************************************)
(* Proofs about SynchronizedAccessCache, for any namespaces, subjects,     *)
(* watched kinds and bounds.                                               *)
(***************************************************************************)
EXTENDS SynchronizedAccessCache, TLAPS

USE DEF storeVars, queueVars, localVars, ghostVars, vars

(* The empty map a synch starts from is AccessData.                        *)
LEMMA NoAccessType == NoAccess \in AccessData
BY DEF NoAccess, AccessData

(* Init gives every variable a value of its type.                          *)
LEMMA InitTypeOK == Init => TypeOK
<1> SUFFICES ASSUME Init PROVE TypeOK
    OBVIOUS
<1>1. pc \in [Callers -> MainStates \cup WorkerStates]
      /\ pc["main"] \in MainStates /\ pc["worker"] \in WorkerStates
    BY DEF Init, Callers, MainStates, WorkerStates
<1> QED
    BY <1>1, NoAccessType, Zenon DEF Init, TypeOK

(* Where Synch sends its caller back to is a control state of that caller. *)
LEMMA ReturnedType ==
    ASSUME NEW c \in Callers, NEW ok \in BOOLEAN
    PROVE  /\ Returned(c, ok) \in MainStates \cup WorkerStates
           /\ c = "main" => Returned(c, ok) \in MainStates
           /\ c = "worker" => Returned(c, ok) \in WorkerStates
BY DEF Returned, Callers, MainStates, WorkerStates

(* Every step keeps every variable in its type.                            *)
LEMMA NextTypeOK == TypeOK /\ [Next]_vars => TypeOK'
<1> SUFFICES ASSUME TypeOK, [Next]_vars PROVE TypeOK'
    OBVIOUS
<1> USE ConstantsAssumption DEF TypeOK
<1>1. ASSUME NEW n \in Namespaces, NamespaceAdded(n) PROVE TypeOK'
    BY <1>1 DEF NamespaceAdded, StoreChanges, Notify
<1>2. ASSUME NEW n \in Namespaces, NamespaceDeleted(n) PROVE TypeOK'
    BY <1>2 DEF NamespaceDeleted, StoreChanges, Notify
<1>3. ASSUME NEW k \in Kinds, NEW access \in [Namespaces -> SUBSET Subjects],
             RBACChanged(k, access)
      PROVE  TypeOK'
    BY <1>3 DEF RBACChanged, StoreChanges, Notify
<1>4. ASSUME NEW k \in Kinds, EventHandlerFuncs(k) PROVE TypeOK'
    BY <1>4 DEF EventHandlerFuncs, Request
<1>5. ASSUME NEW k \in Kinds, NEW replay \in 0..MaxReplay,
             RegisterHandler(k, replay)
      PROVE  TypeOK'
    BY <1>5 DEF RegisterHandler
<1>6. CASE RegisterFails
    BY <1>6 DEF RegisterFails, Callers, MainStates
<1>7. CASE Start
    BY <1>7 DEF Start, Callers, MainStates, WorkerStates
<1>8. CASE TimerTick
    BY <1>8 DEF TimerTick, Request
<1>9. CASE TimerStop
    BY <1>9 DEF TimerStop
<1>10. CASE WorkerReceive
    BY <1>10, Zenon DEF WorkerReceive, Callers, WorkerStates
<1>11. CASE WorkerStop
    BY <1>11 DEF WorkerStop, Callers, WorkerStates
<1>12. ASSUME NEW c \in Callers, SynchStep(c) PROVE TypeOK'
  <2>1. CASE Acquire(c)
      BY <2>1, <1>12, Zenon DEF Acquire, Callers, MainStates, WorkerStates
  <2>2. CASE Refuse(c)
      BY <2>2, <1>12, ReturnedType, Zenon DEF Refuse, HandleError, Callers
  <2>3. CASE ListNamespaces(c)
      BY <2>3, <1>12, NoAccessType
      DEF ListNamespaces, Callers, MainStates, WorkerStates
  <2>4. CASE ListFails(c)
      BY <2>4, <1>12 DEF ListFails, Abandon, Callers, MainStates, WorkerStates
  <2>5. ASSUME NEW n \in Namespaces, CalculateNamespace(c, n) PROVE TypeOK'
    <3>1. [s \in Subjects |-> IF s \in allowed[n] THEN tmp[c][s] \cup {n}
                                                  ELSE tmp[c][s]] \in AccessData
        BY <1>12 DEF AccessData
    <3> QED
        BY <2>5, <3>1, <1>12 DEF CalculateNamespace
  <2>6. CASE Interrupted(c)
      BY <2>6, <1>12 DEF Interrupted, Abandon, Callers, MainStates, WorkerStates
  <2>7. CASE Restock(c)
      BY <2>7, <1>12 DEF Restock, Callers, MainStates, WorkerStates
  <2>8. CASE SynchReturns(c)
      BY <2>8, <1>12, NoAccessType, ReturnedType, Zenon
      DEF SynchReturns, HandleError, Callers
  <2> QED
      BY <1>12, <2>1, <2>2, <2>3, <2>4, <2>5, <2>6, <2>7, <2>8 DEF SynchStep
<1>13. ASSUME NEW c \in Callers, SynchTimeout(c) PROVE TypeOK'
    BY <1>13 DEF SynchTimeout
<1>14. CASE Cancel
    BY <1>14 DEF Cancel
<1>15. CASE MainReturns
    BY <1>15 DEF MainReturns, Callers, MainStates
<1>16. CASE Terminated
    BY <1>16 DEF Terminated
<1>17. CASE UNCHANGED vars
    BY <1>17
<1> QED
    BY <1>1, <1>2, <1>3, <1>4, <1>5, <1>6, <1>7, <1>8, <1>9, <1>10, <1>11,
       <1>12, <1>13, <1>14, <1>15, <1>16, <1>17, Zenon
    DEF Next, StoreStep, MainStep

(* No interleaving of the informers, the timer, the worker and main takes  *)
(* a variable of the cache out of its type.                                *)
THEOREM TypeCorrect == Spec => []TypeOK
BY InitTypeOK, NextTypeOK, PTL DEF Spec

--------------------------------------------------------------------------------
(* The inductive invariant. Mutual exclusion and NoLostEvent are preserved *)
(* only because main registers every handler before it starts the worker,  *)
(* and main serves only what its own Synch restocked.                      *)

RegisterInv ==
    /\ pc["main"] = "register" => pc["worker"] = "off"
    /\ pc["main"] \notin {"register", "exited"} => registered = Kinds

StockedInv == pc["main"] \in {"restocked", "serving"} => data # NoData

IInv ==
    /\ TypeOK
    /\ RegisterInv
    /\ StockedInv
    /\ SynchMutualExclusion
    /\ NoLostEvent

(* The process starts in the inductive invariant: nothing is registered,   *)
(* nobody is in Synch.                                                     *)
LEMMA InitIInv == Init => IInv
<1> SUFFICES ASSUME Init PROVE IInv
    OBVIOUS
<1>1. TypeOK
    BY InitTypeOK
<1>2. RegisterInv /\ StockedInv /\ NoLostEvent
    BY DEF Init, Callers, RegisterInv, StockedInv, NoLostEvent
<1>3. SynchMutualExclusion
    BY DEF Init, Callers, SynchMutualExclusion, InSynch
<1> QED
    BY <1>1, <1>2, <1>3 DEF IInv

(* The steps that move a goroutine, all others leaving pc, the flag, the   *)
(* handlers and the published data alone.                                  *)
LEMMA ControlSteps ==
    ASSUME [Next]_vars
    PROVE  \/ UNCHANGED <<pc, synchronizing, registered, data>>
           \/ \E k \in Kinds, replay \in 0..MaxReplay : RegisterHandler(k, replay)
           \/ RegisterFails
           \/ Start
           \/ WorkerReceive
           \/ WorkerStop
           \/ MainReturns
           \/ \E c \in Callers :
                 \/ Acquire(c)
                 \/ Refuse(c)
                 \/ ListNamespaces(c)
                 \/ Abandon(c) /\ Calculating(c)
                 \/ Restock(c)
                 \/ SynchReturns(c)
<1>1. ASSUME StoreStep PROVE UNCHANGED <<pc, synchronizing, registered, data>>
    BY <1>1 DEF StoreStep, NamespaceAdded, NamespaceDeleted, RBACChanged,
                StoreChanges
<1>2. ASSUME NEW k \in Kinds, EventHandlerFuncs(k)
      PROVE  UNCHANGED <<pc, synchronizing, registered, data>>
    BY <1>2 DEF EventHandlerFuncs
<1>3. ASSUME TimerTick \/ TimerStop \/ Cancel \/ Terminated \/ UNCHANGED vars
      PROVE  UNCHANGED <<pc, synchronizing, registered, data>>
    BY <1>3 DEF TimerTick, TimerStop, Cancel, Terminated
<1>4. ASSUME NEW c \in Callers, SynchTimeout(c)
      PROVE  UNCHANGED <<pc, synchronizing, registered, data>>
    BY <1>4 DEF SynchTimeout
<1>5. ASSUME NEW c \in Callers, NEW n \in Namespaces, CalculateNamespace(c, n)
      PROVE  UNCHANGED <<pc, synchronizing, registered, data>>
    BY <1>5 DEF CalculateNamespace
<1>6. ASSUME NEW c \in Callers, ListFails(c) \/ Interrupted(c)
      PROVE  Abandon(c) /\ Calculating(c)
    BY <1>6 DEF ListFails, Interrupted, Calculating
<1> QED
    BY <1>1, <1>2, <1>3, <1>4, <1>5, <1>6 DEF Next, MainStep, SynchStep

(* Every handler is registered before the worker exists.                   *)
LEMMA NextRegisterInv == TypeOK /\ RegisterInv /\ [Next]_vars => RegisterInv'
<1> SUFFICES ASSUME TypeOK, RegisterInv, [Next]_vars PROVE RegisterInv'
    OBVIOUS
<1> USE DEF TypeOK, RegisterInv, Callers
<1>1. CASE UNCHANGED <<pc, synchronizing, registered, data>>
    BY <1>1
<1>2. ASSUME NEW k \in Kinds, NEW replay \in 0..MaxReplay,
             RegisterHandler(k, replay)
      PROVE  RegisterInv'
    BY <1>2 DEF RegisterHandler
<1>3. CASE RegisterFails
    BY <1>3 DEF RegisterFails
<1>4. CASE Start
    BY <1>4 DEF Start
<1>5. CASE WorkerReceive \/ WorkerStop
    BY <1>5 DEF WorkerReceive, WorkerStop
<1>6. CASE MainReturns
    BY <1>6 DEF MainReturns
<1>7. ASSUME NEW c \in Callers, Acquire(c) \/ ListNamespaces(c) \/ Restock(c)
      PROVE  RegisterInv'
    BY <1>7 DEF Acquire, ListNamespaces, Restock
<1>8. ASSUME NEW c \in Callers, Abandon(c), Calculating(c) PROVE RegisterInv'
    BY <1>8 DEF Abandon, Calculating
<1>9. ASSUME NEW c \in Callers, Refuse(c) \/ SynchReturns(c) PROVE RegisterInv'
    BY <1>9 DEF Refuse, SynchReturns, Returned
<1> QED
    BY <1>1, <1>2, <1>3, <1>4, <1>5, <1>6, <1>7, <1>8, <1>9, ControlSteps

(* main reaches serving only through its own Restock, and no step clears   *)
(* the data pointer again.                                                 *)
LEMMA NextStockedInv == TypeOK /\ StockedInv /\ [Next]_vars => StockedInv'
<1> SUFFICES ASSUME TypeOK, StockedInv, [Next]_vars PROVE StockedInv'
    OBVIOUS
<1> USE DEF TypeOK, StockedInv, Callers
<1>1. CASE UNCHANGED <<pc, synchronizing, registered, data>>
    BY <1>1
<1>2. ASSUME NEW k \in Kinds, NEW replay \in 0..MaxReplay,
             RegisterHandler(k, replay)
      PROVE  StockedInv'
    BY <1>2 DEF RegisterHandler
<1>3. CASE RegisterFails \/ Start \/ MainReturns
    BY <1>3 DEF RegisterFails, Start, MainReturns
<1>4. CASE WorkerReceive \/ WorkerStop
    BY <1>4 DEF WorkerReceive, WorkerStop
<1>5. ASSUME NEW c \in Callers,
             Acquire(c) \/ ListNamespaces(c) \/ Abandon(c)
      PROVE  StockedInv'
    BY <1>5 DEF Acquire, ListNamespaces, Abandon
<1>6. ASSUME NEW c \in Callers, Refuse(c) \/ SynchReturns(c) PROVE StockedInv'
    BY <1>6 DEF Refuse, SynchReturns, Returned
<1>7. ASSUME NEW c \in Callers, Restock(c) PROVE StockedInv'
    BY <1>7, ConstantsAssumption DEF Restock
<1> QED
    BY <1>1, <1>2, <1>3, <1>4, <1>5, <1>6, <1>7, ControlSteps

(* The flag and the callers inside Synch move together.                    *)
LEMMA NextMutualExclusion ==
    TypeOK /\ RegisterInv /\ SynchMutualExclusion /\ [Next]_vars
        => SynchMutualExclusion'
<1> SUFFICES ASSUME TypeOK, RegisterInv, SynchMutualExclusion, [Next]_vars
             PROVE  SynchMutualExclusion'
    OBVIOUS
<1> USE DEF TypeOK, SynchMutualExclusion, InSynch, Callers
<1>1. CASE UNCHANGED <<pc, synchronizing, registered, data>>
    BY <1>1
<1>2. ASSUME NEW k \in Kinds, NEW replay \in 0..MaxReplay,
             RegisterHandler(k, replay)
      PROVE  SynchMutualExclusion'
    BY <1>2 DEF RegisterHandler
<1>3. CASE RegisterFails \/ MainReturns
    BY <1>3 DEF RegisterFails, MainReturns
<1>4. CASE Start
    BY <1>4 DEF Start, RegisterInv
<1>5. CASE WorkerReceive \/ WorkerStop
    BY <1>5 DEF WorkerReceive, WorkerStop
<1>6. ASSUME NEW c \in Callers, Acquire(c) PROVE SynchMutualExclusion'
    BY <1>6 DEF Acquire
<1>7. ASSUME NEW c \in Callers, Refuse(c) PROVE SynchMutualExclusion'
    BY <1>7 DEF Refuse, Returned
<1>8. ASSUME NEW c \in Callers, ListNamespaces(c) \/ Restock(c)
      PROVE  SynchMutualExclusion'
    BY <1>8 DEF ListNamespaces, Restock
<1>9. ASSUME NEW c \in Callers, Abandon(c), Calculating(c)
      PROVE  SynchMutualExclusion'
    BY <1>9 DEF Abandon, Calculating
<1>10. ASSUME NEW c \in Callers, SynchReturns(c) PROVE SynchMutualExclusion'
    BY <1>10 DEF SynchReturns, Returned
<1> QED
    BY <1>1, <1>2, <1>3, <1>4, <1>5, <1>6, <1>7, <1>8, <1>9, <1>10,
       ControlSteps

(* A change of the stores queues a notification with a registered handler. *)
LEMMA StoreStepWakesUp ==
    ASSUME TypeOK, RegisterInv, StoreStep,
           pc["main"] \notin {"register", "exited"}
    PROVE  WakeUp'
<1>1. registered = Kinds
    BY DEF RegisterInv
<1>2. PICK k \in Kinds : Notify(k)
    BY ConstantsAssumption
    DEF StoreStep, NamespaceAdded, NamespaceDeleted, RBACChanged, StoreChanges
<1>3. pending'[k] = pending[k] + 1 /\ pending[k] \in Nat
    BY <1>1, <1>2 DEF Notify, TypeOK
<1>4. pending'[k] > 0
    BY <1>3
<1> QED
    BY <1>4 DEF WakeUp

(* One iteration of the range loop adds n's column to what tmp holds.      *)
LEMMA CalculateKeepsFresh ==
    ASSUME TypeOK, NEW c \in Callers, NEW n \in Namespaces,
           CalculateNamespace(c, n), InFlightFresh(c)
    PROVE  InFlightFresh(c)'
<1> DEFINE new == [s \in Subjects |-> IF s \in allowed[n] THEN tmp[c][s] \cup {n}
                                                          ELSE tmp[c][s]]
<1>1. /\ pc[c] = "range" /\ listed[c] = nsStore /\ todo[c] \subseteq listed[c]
      /\ tmp[c] = Calculated(listed[c] \ todo[c])
      /\ n \in todo[c]
    BY DEF CalculateNamespace, InFlightFresh
<1>2. /\ pc'[c] = "range" /\ listed'[c] = listed[c] /\ nsStore' = nsStore
      /\ allowed' = allowed /\ todo'[c] = todo[c] \ {n} /\ tmp'[c] = new
    BY <1>1 DEF CalculateNamespace, TypeOK
<1>3. new = Calculated(listed[c] \ (todo[c] \ {n}))
    BY <1>1 DEF Calculated
<1>4. Calculated(listed[c] \ todo[c])' = Calculated(listed[c] \ (todo[c] \ {n}))
    BY <1>2 DEF Calculated
<1> QED
    BY <1>1, <1>2, <1>3, <1>4 DEF InFlightFresh

(* No event is lost: the whole state of a change, from notification to     *)
(* publication, is covered by NoLostEvent.                                 *)
LEMMA NextNoLostEvent ==
    IInv /\ [Next]_vars => NoLostEvent'
<1> SUFFICES ASSUME IInv, [Next]_vars, pc'["main"] \notin {"register", "exited"}
             PROVE  \/ dropped' \/ WakeUp'
                    \/ \E c \in Callers : InFlightFresh(c)'
                    \/ Fresh' /\ \A c \in Callers : ~Calculating(c)'
    BY DEF NoLostEvent
<1> DEFINE Goal == \/ dropped' \/ WakeUp'
                   \/ \E c \in Callers : InFlightFresh(c)'
                   \/ Fresh' /\ \A c \in Callers : ~Calculating(c)'
<1>t. TypeOK /\ RegisterInv /\ SynchMutualExclusion /\ NoLostEvent
    BY DEF IInv
<1>a. CASE StoreStep
  <2>1. pc["main"] \notin {"register", "exited"}
      BY <1>a DEF StoreStep, NamespaceAdded, NamespaceDeleted, RBACChanged,
                  StoreChanges
  <2> QED
      BY <1>a, <1>t, <2>1, StoreStepWakesUp
<1>b. CASE Start
  <2>1. pc'["main"] = "synch"
      BY <1>b, <1>t DEF Start, TypeOK, Callers
  <2> QED
      BY <2>1 DEF WakeUp, Callers
<1>c. CASE TimerTick \/ \E k \in Kinds : EventHandlerFuncs(k)
  <2>1. requested'
      BY <1>c DEF TimerTick, EventHandlerFuncs, Request
  <2> QED
      BY <2>1 DEF WakeUp
<1>d. CASE WorkerReceive
  <2>1. pc'["worker"] = "synch"
      BY <1>d, <1>t DEF WorkerReceive, TypeOK, Callers
  <2> QED
      BY <2>1 DEF WakeUp, Callers
<1>e. CASE WorkerStop
  <2>1. /\ pc["worker"] = "idle" /\ pc'["worker"] = "stopped"
        /\ pc'["main"] = pc["main"]
      BY <1>e, <1>t DEF WorkerStop, TypeOK, Callers
  <2>2. /\ (dropped => dropped') /\ (WakeUp => WakeUp') /\ (Fresh => Fresh')
        /\ \A c \in Callers : (InFlightFresh(c) => InFlightFresh(c)')
        /\ \A c \in Callers : (Calculating(c)' => Calculating(c))
      BY <1>e, <2>1, ZenonT(30)
      DEF WorkerStop, WakeUp, Fresh, Calculated, InFlightFresh, Calculating, Callers
  <2> QED
      BY <2>1, <2>2, <1>t DEF NoLostEvent
<1>f. ASSUME NEW c \in Callers, Acquire(c) PROVE Goal
  <2>1. pc'[c] = "list"
      BY <1>f, <1>t DEF Acquire, TypeOK
  <2> QED
      BY <2>1 DEF InFlightFresh
<1>g. ASSUME NEW c \in Callers, Refuse(c) \/ Abandon(c) PROVE Goal
    BY <1>g, Zenon DEF Refuse, Abandon
<1>h. ASSUME NEW c \in Callers, ListNamespaces(c) PROVE Goal
  <2>1. /\ pc'[c] = "range" /\ listed'[c] = nsStore' /\ todo'[c] = listed'[c]
        /\ tmp'[c] = NoAccess
      BY <1>h, <1>t, ZenonT(30) DEF ListNamespaces, TypeOK
  <2>2. Calculated(listed[c] \ todo[c])' = NoAccess
      BY <2>1 DEF Calculated, NoAccess
  <2> QED
      BY <2>1, <2>2, Zenon DEF InFlightFresh
<1>i. ASSUME NEW c \in Callers, NEW n \in Namespaces, CalculateNamespace(c, n)
      PROVE  Goal
  <2>1. /\ pc' = pc /\ Calculating(c) /\ (dropped => dropped')
        /\ (WakeUp => WakeUp')
      BY <1>i, ZenonT(30) DEF CalculateNamespace, WakeUp, Calculating
  <2>2. \A d \in Callers : InFlightFresh(d) => d = c
      BY <2>1, <1>t
      DEF InFlightFresh, SynchMutualExclusion, InSynch, Calculating
  <2>3. InFlightFresh(c) => InFlightFresh(c)'
      BY <1>i, <1>t, CalculateKeepsFresh, ZenonT(30)
  <2> QED
      BY <2>1, <2>2, <2>3, <1>t DEF NoLostEvent
<1>j. ASSUME NEW c \in Callers, Restock(c) PROVE Goal
  <2>1. /\ pc[c] = "range" /\ todo[c] = {} /\ data' = tmp[c]
        /\ pc'[c] = "restocked" /\ \A d \in Callers \ {c} : pc'[d] = pc[d]
        /\ (dropped => dropped')
      BY <1>j, <1>t DEF Restock, TypeOK
  <2>2. WakeUp => WakeUp'
      BY <1>j, <2>1 DEF Restock, WakeUp
  <2>3. \A d \in Callers : InFlightFresh(d) \/ Calculating(d) => d = c
      BY <2>1, <1>t
      DEF InFlightFresh, SynchMutualExclusion, InSynch, Calculating
  <2>4. \A d \in Callers : ~Calculating(d)'
      BY <2>1, <2>3 DEF Calculating
  <2>5. InFlightFresh(c) => Fresh'
    <3> SUFFICES ASSUME InFlightFresh(c) PROVE Fresh'
        OBVIOUS
    <3>1. listed[c] = nsStore /\ tmp[c] = Calculated(listed[c] \ todo[c])
        BY <2>1, ZenonT(30) DEF InFlightFresh
    <3>2. tmp[c] = Calculated(nsStore)
      <4>1. listed[c] \ todo[c] = nsStore
          BY <2>1, <3>1
      <4> QED
          BY <3>1, <4>1
    <3>3. Calculated(nsStore)' = Calculated(nsStore)
        BY <1>j DEF Restock, Calculated
    <3> QED
        BY <2>1, <3>2, <3>3 DEF Fresh
  <2>6. pc["main"] \notin {"register", "exited"}
      BY <1>j, <1>t, <2>1 DEF Restock, TypeOK, Callers, RegisterInv, Alive
  <2>7. ~(\A d \in Callers : ~Calculating(d))
      BY <2>1 DEF Calculating
  <2> QED
      BY <2>1, <2>2, <2>3, <2>4, <2>5, <2>6, <2>7, <1>t, Zenon DEF NoLostEvent
<1>k. ASSUME NEW c \in Callers, SynchReturns(c) PROVE Goal
  <2>1. /\ pc[c] \in {"restocked", "failed"} /\ pc'[c] \in {"idle", "serving", "exited"}
        /\ \A d \in Callers \ {c} : /\ pc'[d] = pc[d] /\ listed'[d] = listed[d]
                                    /\ todo'[d] = todo[d] /\ tmp'[d] = tmp[d]
        /\ (dropped => dropped')
      BY <1>k, <1>t DEF SynchReturns, TypeOK, Returned
  <2>2. WakeUp => WakeUp'
      BY <1>k, <2>1, ZenonT(30) DEF SynchReturns, WakeUp
  <2>3. \A d \in Callers : ~InFlightFresh(d) /\ ~Calculating(d)
      BY <2>1, <1>t, Zenon
      DEF InFlightFresh, SynchMutualExclusion, InSynch, Calculating
  <2>4. \A d \in Callers : ~Calculating(d)'
      BY <2>1, <2>3, ZenonT(30) DEF Calculating
  <2>5. Fresh => Fresh'
      BY <1>k, ZenonT(30) DEF SynchReturns, Fresh, Calculated
  <2>6. pc["main"] \notin {"register", "exited"}
      BY <1>k, <1>t, <2>1 DEF SynchReturns, TypeOK, Callers, RegisterInv, Alive
  <2> QED
      BY <2>2, <2>1, <2>3, <2>4, <2>5, <2>6, <1>t DEF NoLostEvent
<1>l. ASSUME UNCHANGED <<nsStore, allowed, pending, requested, pc, listed, todo,
                         tmp, data, dropped>>
      PROVE  Goal
  <2>1. /\ (WakeUp => WakeUp') /\ (Fresh => Fresh')
        /\ \A c \in Callers : (InFlightFresh(c) => InFlightFresh(c)')
        /\ \A c \in Callers : (Calculating(c)' => Calculating(c))
      BY <1>l DEF WakeUp, Fresh, Calculated, InFlightFresh, Calculating
  <2> QED
      BY <1>l, <2>1, <1>t, ZenonT(30) DEF NoLostEvent
<1>m. ASSUME TimerStop \/ Cancel \/ Terminated \/ UNCHANGED vars
             \/ \E c \in Callers : SynchTimeout(c)
      PROVE  Goal
    BY <1>l, <1>m DEF TimerStop, Cancel, Terminated, SynchTimeout
<1>n. ASSUME NEW k \in Kinds, NEW replay \in 0..MaxReplay,
             RegisterHandler(k, replay)
      PROVE  FALSE
    BY <1>n DEF RegisterHandler
<1>o. ASSUME RegisterFails \/ MainReturns PROVE FALSE
    BY <1>o, <1>t, ZenonT(30) DEF RegisterFails, MainReturns, TypeOK, Callers
<1> HIDE DEF Goal
<1>p. ASSUME NEW c \in Callers, SynchStep(c) PROVE Goal
    BY <1>p, <1>f, <1>g, <1>h, <1>i, <1>j, <1>k, Zenon
    DEF SynchStep, ListFails, Interrupted
<1>q. ASSUME MainStep PROVE Goal
    BY <1>b, <1>n, <1>o, <1>q DEF MainStep, Goal
<1>r. Goal
    BY <1>a, <1>c, <1>d, <1>e, <1>m, <1>o, <1>p, <1>q DEF Next, Goal
<1> QED
    BY <1>r DEF Goal

(* The conjuncts together are inductive.                                   *)
THEOREM Invariance == Spec => []IInv
<1>1. Init => IInv
    BY InitIInv, ZenonT(30)
<1>2. IInv /\ [Next]_vars => IInv'
    BY NextTypeOK, NextRegisterInv, NextStockedInv, NextMutualExclusion,
       NextNoLostEvent
    DEF IInv
<1> QED
    BY <1>1, <1>2, PTL DEF Spec

--------------------------------------------------------------------------------
(* What the runs check on small instances, for all values of the constants.*)

(* Synch's CompareAndSwap and deferred Store(false) admit one caller at a  *)
(* time, and the flag is up exactly while a caller is inside.              *)
THEOREM MutualExclusion == Spec => []SynchMutualExclusion
BY Invariance, PTL DEF IInv

(* A process that serves has stocked its cache: listAll never meets nil.   *)
THEOREM Stocked == Spec => []ServedCacheIsStocked
<1>1. IInv => ServedCacheIsStocked
    BY DEF IInv, StockedInv, ServedCacheIsStocked, Serving
<1> QED
    BY <1>1, Invariance, PTL

(* A process that serves refuses no request the worker takes.              *)
THEOREM NoRefusal == Spec => []NoRefusalWhileServing
<1>1. IInv => NoRefusalWhileServing
    BY DEF IInv, SynchMutualExclusion, InSynch, Callers, NoRefusalWhileServing,
           Serving
<1> QED
    BY <1>1, Invariance, PTL

(* From Start on every change is notified, requested, being calculated or  *)
(* published, unless a synch was refused or gave up.                       *)
THEOREM NothingLost == Spec => []NoLostEvent
BY Invariance, PTL DEF IInv

(* An idle process whose last synch succeeded serves what the stores grant,*)
(* however the events coalesced on the way.                                *)
THEOREM FreshWhenIdle == Spec => []FreshUnlessDropped
<1>1. IInv => FreshUnlessDropped
    BY Zenon DEF IInv, NoLostEvent, FreshUnlessDropped, Serving, Quiescent,
           InFlightFresh, Calculating
<1> QED
    BY <1>1, Invariance, PTL

================================================================================
