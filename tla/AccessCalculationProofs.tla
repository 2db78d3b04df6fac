------------------------ MODULE AccessCalculationProofs ------------------------
(***************************************************************************)
(* Proofs about AccessCalculation for any cluster: any namespaces, roles   *)
(* and bindings, any rules, any number of changes; and about what a synch  *)
(* publishes in every interleaving of the informers with its reads.        *)
(***************************************************************************)
EXTENDS CalculationWindow, TLAPS

--------------------------------------------------------------------------------
(* Selectors and transforms.                                               *)

(* The objects of each kind, one by one.                                   *)
LEMMA ObjectKinds ==
    /\ Objects("Namespace") = [labelled : BOOLEAN]
    /\ \A kind \in RoleKinds : Objects(kind) = [rules : SUBSET PolicyRules]
    /\ \A kind \in BindingKinds :
           Objects(kind) = [roleKind : RoleKinds, roleName : STRING,
                            subjects : SUBSET Subjects, labelled : BOOLEAN]
BY Zenon DEF Objects, RoleKinds, BindingKinds

LEMMA BindingFields ==
    ASSUME NEW kind \in BindingKinds, NEW obj \in Objects(kind)
    PROVE  /\ obj.roleKind \in RoleKinds
           /\ obj.subjects \subseteq Subjects
           /\ obj.labelled \in BOOLEAN
<1>1. obj \in [roleKind : RoleKinds, roleName : STRING,
               subjects : SUBSET Subjects, labelled : BOOLEAN]
  BY ObjectKinds, Zenon
<1>. QED
  BY <1>1

(* filterNamespacesRelatedPolicyRules yields policy rules.                 *)
LEMMA FilterType ==
    ASSUME NEW pp \in SUBSET PolicyRules
    PROVE  filterNamespacesRelatedPolicyRules(pp) \in SUBSET PolicyRules
<1>1. \A r \in PolicyRules : Narrowed(r) \in PolicyRules
  BY Zenon DEF Narrowed, PolicyRules
<1>. QED
  BY <1>1, Zenon DEF filterNamespacesRelatedPolicyRules

(* Every rule that is kept is narrow.                                      *)
LEMMA FilterNarrows ==
    ASSUME NEW pp, NEW r \in filterNamespacesRelatedPolicyRules(pp)
    PROVE  r = Narrowed(r)
<1>1. PICK q : r = Narrowed(q)
  BY Zenon DEF filterNamespacesRelatedPolicyRules
<1>. QED
  BY <1>1 DEF Narrowed

(* A transform yields a trimmed object of the kind it was given, or nil.   *)
LEMMA TransformType ==
    ASSUME NEW k \in Keys, NEW obj \in Objects(k.kind)
    PROVE  /\ Transform(k, obj) \in Objects(k.kind) \cup {Nil}
           /\ Transform(k, obj) # Nil => Trimmed(k, Transform(k, obj))
<1>1. CASE k.kind \in RoleKinds
  <2>1. obj \in [rules : SUBSET PolicyRules]
    BY <1>1, ObjectKinds, Zenon
  <2>2. filterNamespacesRelatedPolicyRules(obj.rules) \in SUBSET PolicyRules
    BY <2>1, FilterType
  <2>3. [obj EXCEPT !.rules = filterNamespacesRelatedPolicyRules(obj.rules)]
            \in [rules : SUBSET PolicyRules]
    BY <2>1, <2>2
  <2>4. Transform(k, obj) \in Objects(k.kind) \cup {Nil}
    BY <1>1, <2>3, ObjectKinds, Zenon DEF Transform, TrimRole
  <2>5. ASSUME Transform(k, obj) # Nil PROVE Trimmed(k, Transform(k, obj))
    <3>. DEFINE rules == filterNamespacesRelatedPolicyRules(obj.rules)
    <3>1. rules # {} /\ Transform(k, obj) = [obj EXCEPT !.rules = rules]
      BY <1>1, <2>5 DEF Transform, TrimRole
    <3>2. Transform(k, obj).rules = rules
      BY <2>1, <3>1
    <3>3. \A r \in rules : r = Narrowed(r)
      BY FilterNarrows
    <3>. QED
      BY <3>1, <3>2, <3>3, Zenon DEF Trimmed
  <2>. QED
    BY <2>4, <2>5
<1>2. CASE k.kind \notin RoleKinds
  BY <1>2 DEF Transform, Trimmed
<1>. QED
  BY <1>1, <1>2

(* What a watch shows of an object, and what the store should hold of it.  *)
LEMMA CachedType ==
    ASSUME NEW k \in Keys, NEW obj \in Objects(k.kind) \cup {Absent}
    PROVE  /\ Watched(k, obj) \in Objects(k.kind) \cup {Absent}
           /\ Cached(k, obj) \in Objects(k.kind) \cup {Absent}
           /\ Cached(k, obj) # Absent => Trimmed(k, Cached(k, obj))
BY TransformType DEF Watched, Cached

--------------------------------------------------------------------------------
(* Type correctness.                                                       *)

LEMMA TypeInit == Init => TypeOK
<1>. SUFFICES ASSUME Init PROVE TypeOK
  OBVIOUS
<1>1. DOMAIN cluster = Keys /\ \A k \in Keys : cluster[k] \in Objects(k.kind) \cup {Absent}
  BY ResourceAssumption DEF Init, ResourceInit
<1>2. /\ \A k \in Keys : store[k] \in Objects(k.kind) \cup {Absent}
      /\ \A k \in Keys : store[k] # Absent => Trimmed(k, store[k])
  BY <1>1, CachedType DEF Init, ResourceInit
<1>3. queue = [kind \in Kinds |-> <<>>] /\ store = [k \in Keys |-> Cached(k, cluster[k])]
  BY DEF Init, ResourceInit
<1>4. /\ DOMAIN queue = Kinds
      /\ \A kind \in Kinds : queue[kind] \in Seq(Events(kind))
      /\ DOMAIN store = Keys
  BY <1>3
<1>. QED
  BY <1>1, <1>2, <1>4, Zenon DEF Init, ResourceInit, TypeOK


(* ClusterChanges: a watch event tells of an object.                       *)
LEMMA ClusterType ==
    ASSUME TypeOK, NEW k \in Keys, NEW obj \in Contents[k] \cup {Absent},
           ClusterChanges(k, obj), UNCHANGED synchVars
    PROVE  TypeOK'
<1>1. obj \in Objects(k.kind) \cup {Absent} /\ k.kind \in Kinds
  BY ResourceAssumption
<1>2. /\ DOMAIN cluster' = Keys
      /\ \A j \in Keys : cluster'[j] \in Objects(j.kind) \cup {Absent}
  BY <1>1 DEF ClusterChanges, TypeOK
<1>3. /\ DOMAIN queue' = Kinds
      /\ \A kind \in Kinds : queue'[kind] \in Seq(Events(kind))
  <2>1. CASE queue' = queue
    BY <2>1 DEF TypeOK
  <2>2. CASE queue' # queue
    <3>. DEFINE e == [key |-> k, last |-> Watched(k, cluster[k]),
                      obj |-> Watched(k, obj)]
    <3>1. e \in Events(k.kind)
      <4>1. cluster[k] \in Objects(k.kind) \cup {Absent}
        BY DEF TypeOK
      <4>2. ~(Watched(k, cluster[k]) = Absent /\ Watched(k, obj) = Absent)
        BY <2>2 DEF ClusterChanges
      <4>. QED
        BY <1>1, <4>1, <4>2, CachedType DEF Events
    <3>2. queue' = [queue EXCEPT ![k.kind] = Append(@, e)]
      BY <2>2 DEF ClusterChanges
    <3>3. queue[k.kind] \in Seq(Events(k.kind))
      BY <1>1 DEF TypeOK
    <3>4. Append(queue[k.kind], e) \in Seq(Events(k.kind))
      BY <3>1, <3>3
    <3>. QED
      BY <1>1, <3>2, <3>4 DEF TypeOK
  <2>. QED
    BY <2>1, <2>2
<1>. QED
  BY <1>2, <1>3 DEF ClusterChanges, TypeOK, synchVars, callVars

(* An event in a queue, and what the transform makes of it.                *)
LEMMA EventType ==
    ASSUME TypeOK, NEW kind \in Kinds, queue[kind] # <<>>
    PROVE  LET e == Head(queue[kind])
           IN  /\ e.key \in Keys
               /\ e.key.kind = kind
               /\ e.obj \in Objects(kind) \cup {Absent}
               /\ Transformed(e) \in Objects(kind) \cup {Nil}
               /\ Transformed(e) # Nil => Trimmed(e.key, Transformed(e))
               /\ Tail(queue[kind]) \in Seq(Events(kind))
<1>1. queue[kind] \in Seq(Events(kind))
  BY DEF TypeOK
<1>2. Head(queue[kind]) \in Events(kind) /\ Tail(queue[kind]) \in Seq(Events(kind))
  BY <1>1
<1>. QED
  BY <1>2, TransformType DEF Events, Transformed

(* Deliver and DeliverNil: the stores hold objects of their kind.          *)
LEMMA InformerType ==
    ASSUME TypeOK, NEW kind \in Kinds, InformerStep(kind)
    PROVE  TypeOK'
<1>. DEFINE e == Head(queue[kind])
<1>1. queue[kind] # <<>> /\ queue' = [queue EXCEPT ![kind] = Tail(@)]
  BY DEF InformerStep, Deliver, DeliverNil
<1>2. /\ e.key \in Keys /\ e.key.kind = kind
      /\ Transformed(e) \in Objects(kind) \cup {Nil}
      /\ Transformed(e) # Nil => Trimmed(e.key, Transformed(e))
      /\ Tail(queue[kind]) \in Seq(Events(kind))
  BY <1>1, EventType
<1>3. DOMAIN queue' = Kinds /\ \A j \in Kinds : queue'[j] \in Seq(Events(j))
  BY <1>1, <1>2 DEF TypeOK
<1>4. /\ DOMAIN store' = Keys
      /\ \A k \in Keys : store'[k] \in Objects(k.kind) \cup {Absent}
      /\ \A k \in Keys : store'[k] # Absent => Trimmed(k, store'[k])
      /\ kept' \subseteq Keys
      /\ pending' \in Nat
  <2>1. CASE Deliver(kind)
    BY <1>2, <2>1 DEF Deliver, TypeOK
  <2>2. ASSUME NEW evicted \in BOOLEAN, DeliverNil(kind, evicted)
        PROVE  /\ \/ UNCHANGED <<store, pending>>
                  \/ /\ store' = [store EXCEPT ![e.key] = Absent]
                     /\ pending' = pending + 1
               /\ kept' \subseteq kept \cup {e.key}
    BY <2>2 DEF DeliverNil
  <2>. QED
    BY <1>2, <2>1, <2>2 DEF InformerStep, TypeOK
<1>5. UNCHANGED <<selecting, cluster, changes, synchVars>>
  BY DEF InformerStep, Deliver, DeliverNil
<1>. QED
  BY <1>3, <1>4, <1>5 DEF TypeOK, synchVars, callVars

(* The bindings that CRAuthRetriever lists.                                *)
LEMMA BindingsType ==
    ASSUME TypeOK, NEW keys \in SUBSET {k \in Keys : k.kind \in BindingKinds},
           NEW b \in Bindings(keys)
    PROVE  /\ b.key \in keys
           /\ b = [key |-> b.key, obj |-> store[b.key]]
           /\ store[b.key] # Absent
           /\ store[b.key] \in Objects(b.key.kind)
BY DEF TypeOK, Bindings, InStore

(* Every stored binding of the asked kind and namespace is listed.         *)
LEMMA BindingsListed ==
    ASSUME NEW keys, NEW k \in keys, k \in Keys, store[k] # Absent
    PROVE  \E b \in Bindings(keys) : b.key = k
<1>. DEFINE b == [key |-> k, obj |-> store[k]]
<1>1. b \in Bindings(keys)
  BY DEF Bindings, InStore
<1>2. b.key = k
  OBVIOUS
<1>. QED
  BY <1>1, <1>2

(* The worker's steps.                                                     *)
LEMMA WorkerType ==
    ASSUME TypeOK, WorkerStep
    PROVE  TypeOK'
<1>1. CASE WorkerReceive \/ ListNamespaces \/ Restock
  BY <1>1, Zenon DEF WorkerReceive, ListNamespaces, Restock, TypeOK, resourceVars, callVars
<1>2. ASSUME NEW n \in Namespaces, AllowedSubjects(n) PROVE TypeOK'
  <2>1. \A b \in visiting' : /\ b.key \in Keys
                             /\ b.key.kind \in BindingKinds
                             /\ b.obj \in Objects(b.key.kind)
    BY <1>2, BindingsType DEF AllowedSubjects, ListClusterRoleBindings, BindingKinds
  <2>. QED
    BY <1>2, <2>1, SynchAssumption DEF AllowedSubjects, TypeOK, resourceVars
<1>3. ASSUME NEW b \in visiting, VisitBinding(b) PROVE TypeOK'
  <2>1. b.obj \in Objects(b.key.kind) /\ b.key.kind \in BindingKinds
    BY DEF TypeOK
  <2>2. b.obj.subjects \subseteq Subjects
    BY <2>1, BindingFields
  <2>. QED
    BY <1>3, <2>2 DEF VisitBinding, TypeOK, resourceVars
<1>4. CASE VisitNamespace
  <2>1. \A b \in visiting' : /\ b.key \in Keys
                             /\ b.key.kind \in BindingKinds
                             /\ b.obj \in Objects(b.key.kind)
    BY <1>4, BindingsType DEF VisitNamespace, ListRoleBindings, BindingKinds
  <2>. QED
    BY <1>4, <2>1 DEF VisitNamespace, TypeOK, resourceVars
<1>5. CASE Calculated
  <2>1. tmp' \subseteq Subjects \X Namespaces
    BY <1>5 DEF Calculated, TypeOK
  <2>. QED
    BY <1>5, <2>1 DEF Calculated, TypeOK, resourceVars, callVars
<1>. QED
  BY <1>1, <1>2, <1>3, <1>4, <1>5 DEF WorkerStep

LEMMA TypeNext == TypeOK /\ [Next]_vars => TypeOK'
<1>. SUFFICES ASSUME TypeOK, [Next]_vars PROVE TypeOK'
  OBVIOUS
<1>1. CASE ClusterStep
  BY <1>1, ClusterType DEF ClusterStep
<1>2. CASE EventHandlerFuncs
  BY <1>2 DEF EventHandlerFuncs, TypeOK, callVars
<1>3. CASE TimerTick
  BY <1>3 DEF TimerTick, TypeOK, resourceVars, callVars
<1>4. CASE SynchFails
  <2>1. todo' \subseteq Namespaces /\ tmp' \subseteq Subjects \X Namespaces
    BY <1>4 DEF SynchFails
  <2>. QED
    BY <1>4, <2>1 DEF SynchFails, TypeOK, resourceVars, callVars
<1>5. CASE UNCHANGED vars
  BY <1>5 DEF TypeOK, vars, resourceVars, synchVars, callVars
<1>. QED
  BY <1>1, <1>2, <1>3, <1>4, <1>5, InformerType, WorkerType DEF Next

(* TypeOK holds for any cluster: what the transforms store is of the kind  *)
(* of its key, a stored role has rules and only narrow ones, whatever the  *)
(* order of the events.                                                    *)
THEOREM TypeCorrect == Spec => []TypeOK
BY TypeInit, TypeNext, PTL DEF Spec

--------------------------------------------------------------------------------
(* The invariant. First half: the informers. Either the last event in k's  *)
(* queue that tells of k shows k as it is in the cluster, or no event      *)
(* tells of k and the store holds what it should, or has kept a role that  *)
(* it should not hold.                                                     *)

Tracks(k) ==
    \/ store[k] = Cached(k, cluster[k])
    \/ /\ k \in kept
       /\ k.kind \in RoleKinds
       /\ Cached(k, cluster[k]) = Absent

OnItsWay(k) ==
    \E i \in 1..Len(queue[k.kind]) :
        /\ queue[k.kind][i].key = k
        /\ queue[k.kind][i].obj = Watched(k, cluster[k])
        /\ \A j \in 1..Len(queue[k.kind]) : j > i => queue[k.kind][j].key # k

Arrived(k) ==
    /\ \A i \in 1..Len(queue[k.kind]) : queue[k.kind][i].key # k
    /\ Tracks(k)

Tracking == \A k \in Keys : OnItsWay(k) \/ Arrived(k)

(* Second half: the worker. Unless something is still on its way to start  *)
(* a synch, what has been calculated so far is what the stores give.       *)

Wake == pending > 0 \/ requested \/ pc = "list" \/ dropped

Listed(n) == InStore(NamespaceKey(n))

Covering(k, n) ==
    \/ k.kind = "ClusterRoleBinding"
    \/ k.kind = "RoleBinding" /\ k.namespace = n

Gives(k, s, n) ==
    /\ k.kind \in BindingKinds
    /\ store[k] # Absent
    /\ Covering(k, n)
    /\ s \in store[k].subjects
    /\ RulesAllow(GetRules(RoleKey(k, store[k])), n)

Given(s, n) == s = SystemMasters \/ \E k \in Keys : Gives(k, s, n)

(* Bindings that AllowedSubjects has still to list or to visit.            *)
Unvisited(k) ==
    \/ pc = "clusterBindings" /\ k.kind = "RoleBinding"
    \/ \E b \in visiting : b.key = k

DataInv ==
    pc = "idle" =>
        \A s \in Subjects, n \in Namespaces :
            <<s, n>> \in data <=> Listed(n) /\ Given(s, n)

TmpInv ==
    pc = "range" =>
        /\ \A n \in todo : Listed(n)
        /\ \A s \in Subjects, n \in Namespaces :
               <<s, n>> \in tmp <=> Listed(n) /\ n \notin todo /\ Given(s, n)

CallInv ==
    pc \in {"clusterBindings", "bindings"} =>
        /\ \A n \in todo : Listed(n)
        /\ Listed(ns) /\ ns \notin todo
        /\ \A s \in Subjects, n \in Namespaces :
               <<s, n>> \in tmp <=>
                   Listed(n) /\ n \notin todo /\ n # ns /\ Given(s, n)
        /\ \A b \in visiting : /\ b = [key |-> b.key, obj |-> store[b.key]]
                               /\ store[b.key] # Absent
                               /\ Covering(b.key, ns)
                               /\ pc = "clusterBindings" =>
                                      b.key.kind = "ClusterRoleBinding"
        /\ \A s \in Subjects :
               s \in answer <=>
                   \/ s = SystemMasters
                   \/ \E k \in Keys : Gives(k, s, ns) /\ ~Unvisited(k)

CalculationInv == ~Wake => DataInv /\ TmpInv /\ CallInv

--------------------------------------------------------------------------------
(* The informers.                                                          *)

LEMMA TrackingInit == Init => Tracking
<1>. SUFFICES ASSUME Init, NEW k \in Keys PROVE Arrived(k)
  BY DEF Tracking
<1>1. queue[k.kind] = <<>>
  BY ResourceAssumption DEF Init, ResourceInit
<1>2. store[k] = Cached(k, cluster[k])
  BY DEF Init, ResourceInit
<1>. QED
  BY <1>1, <1>2 DEF Arrived, Tracks

(* A change that no watch shows leaves the store as it should be.          *)
LEMMA ClusterTracking ==
    ASSUME TypeOK, Tracking, NEW k \in Keys,
           NEW obj \in Contents[k] \cup {Absent}, ClusterChanges(k, obj)
    PROVE  Tracking'
<1>. DEFINE e == [key |-> k, last |-> Watched(k, cluster[k]),
                  obj |-> Watched(k, obj)]
<1>1. /\ DOMAIN queue = Kinds
      /\ \A kind \in Kinds : queue[kind] \in Seq(Events(kind))
      /\ \A j \in Keys : j.kind \in Kinds
  BY ResourceAssumption DEF TypeOK
<1>2. cluster' = [cluster EXCEPT ![k] = obj] /\ UNCHANGED <<selecting, store, kept>>
  BY DEF ClusterChanges
<1>3. /\ cluster'[k] = obj
      /\ \A j \in Keys : j # k => cluster'[j] = cluster[j]
  BY <1>2 DEF TypeOK
<1>4. /\ \A j \in Keys : j # k => /\ Watched(j, cluster[j])' = Watched(j, cluster[j])
                                  /\ Tracks(j) => Tracks(j)'
      /\ Watched(k, cluster[k])' = Watched(k, obj)
  BY <1>2, <1>3 DEF Watched, Selected, Tracks, Cached
<1>5. CASE Watched(k, cluster[k]) = Absent /\ Watched(k, obj) = Absent
  <2>1. queue' = queue
    BY <1>5 DEF ClusterChanges
  <2>2. Tracks(k) => Tracks(k)'
    BY <1>2, <1>3, <1>4, <1>5 DEF Tracks, Cached
  <2>3. \A j \in Keys : Watched(j, cluster[j])' = Watched(j, cluster[j])
    BY <1>4, <1>5
  <2>. QED
    BY <1>4, <2>1, <2>2, <2>3 DEF Tracking, OnItsWay, Arrived
<1>6. CASE ~(Watched(k, cluster[k]) = Absent /\ Watched(k, obj) = Absent)
  <2>1. /\ queue'[k.kind] = Append(queue[k.kind], e)
        /\ \A kind \in Kinds : kind # k.kind => queue'[kind] = queue[kind]
    BY <1>1, <1>6 DEF ClusterChanges
  <2>2. /\ Len(queue'[k.kind]) = Len(queue[k.kind]) + 1
        /\ queue'[k.kind][Len(queue[k.kind]) + 1] = e
        /\ \A i \in 1..Len(queue[k.kind]) : queue'[k.kind][i] = queue[k.kind][i]
        /\ Len(queue[k.kind]) \in Nat
    BY <1>1, <2>1
  <2>3. OnItsWay(k)'
    BY <1>4, <2>2 DEF OnItsWay
  <2>4. ASSUME NEW j \in Keys, j # k PROVE (OnItsWay(j) \/ Arrived(j))'
    <3>1. CASE j.kind # k.kind
      <4>1. queue'[j.kind] = queue[j.kind]
        BY <1>1, <2>1, <3>1
      <4>. QED
        BY <1>4, <2>4, <4>1 DEF Tracking, OnItsWay, Arrived
    <3>2. CASE j.kind = k.kind /\ OnItsWay(j)
      <4>1. PICK i \in 1..Len(queue[j.kind]) :
                /\ queue[j.kind][i].key = j
                /\ queue[j.kind][i].obj = Watched(j, cluster[j])
                /\ \A l \in 1..Len(queue[j.kind]) : l > i => queue[j.kind][l].key # j
        BY <3>2 DEF OnItsWay
      <4>2. i \in 1..Len(queue'[j.kind]) /\ queue'[j.kind][i] = queue[j.kind][i]
        BY <2>2, <3>2, <4>1
      <4>3. ASSUME NEW l \in 1..Len(queue'[j.kind]), l > i
            PROVE  queue'[j.kind][l].key # j
        <5>1. CASE l = Len(queue[k.kind]) + 1
          BY <2>2, <2>4, <3>2, <5>1
        <5>2. CASE l # Len(queue[k.kind]) + 1
          <6>1. l \in 1..Len(queue[j.kind])
            BY <2>2, <3>2, <5>2
          <6>2. queue[j.kind][l].key # j
            BY <4>1, <4>3, <6>1
          <6>. QED
            BY <2>2, <3>2, <6>1, <6>2, ZenonT(30)
        <5>. QED
          BY <5>1, <5>2
      <4>. QED
        BY <1>4, <2>4, <4>1, <4>2, <4>3, Zenon DEF OnItsWay
    <3>3. CASE j.kind = k.kind /\ Arrived(j)
      <4>1. ASSUME NEW l \in 1..Len(queue'[j.kind]) PROVE queue'[j.kind][l].key # j
        BY <2>2, <2>4, <3>3, <4>1, SMTT(30) DEF Arrived
      <4>. QED
        BY <1>4, <2>4, <3>3, <4>1 DEF Arrived
    <3>. QED
      BY <3>1, <3>2, <3>3 DEF Tracking
  <2>. QED
    BY <2>3, <2>4 DEF Tracking
<1>. QED
  BY <1>5, <1>6

(* The last event that tells of k leaves k's store as it should be, or as  *)
(* it was if the transform yields nil.                                     *)
LEMMA LastEventTracks ==
    ASSUME TypeOK, NEW k \in Keys, queue[k.kind] # <<>>, InformerStep(k.kind),
           Head(queue[k.kind]).key = k,
           Head(queue[k.kind]).obj = Watched(k, cluster[k])
    PROVE  Tracks(k)'
<1>. DEFINE e == Head(queue[k.kind])
<1>1. k.kind \in Kinds
  BY ResourceAssumption
<1>2. /\ e.obj \in Objects(k.kind) \cup {Absent}
      /\ Transformed(e) \in Objects(k.kind) \cup {Nil}
      /\ Nil \notin Objects(k.kind) /\ Absent \notin Objects(k.kind)
  BY <1>1, EventType, ResourceAssumption
<1>3. UNCHANGED <<selecting, cluster>>
  BY Zenon DEF InformerStep, Deliver, DeliverNil
<1>4. Cached(k, cluster[k])' = Cached(k, cluster[k])
  BY <1>3 DEF Cached, Watched, Selected
<1>5. e.obj # Absent => e.obj = cluster[k] /\ Transformed(e) = Transform(k, cluster[k])
  BY DEF Watched, Transformed
<1>6. CASE Deliver(k.kind)
  <2>1. store'[k] = IF e.obj = Absent THEN Absent ELSE Transformed(e)
    BY <1>6 DEF Deliver, TypeOK
  <2>2. Transformed(e) # Nil
    BY <1>6 DEF Deliver
  <2>3. store'[k] = Cached(k, cluster[k])
    BY <1>5, <2>1, <2>2 DEF Cached
  <2>. QED
    BY <1>4, <2>3 DEF Tracks
<1>7. ASSUME NEW evicted \in BOOLEAN, DeliverNil(k.kind, evicted)
      PROVE  Tracks(k)'
  <2>1. Transformed(e) = Nil
    BY <1>7 DEF DeliverNil
  <2>2. Cached(k, cluster[k]) = Absent
    BY <1>5, <2>1 DEF Cached
  <2>3. k.kind \in RoleKinds
    <3>1. e \in Events(k.kind)
      BY <1>1, SMTT(30) DEF TypeOK
    <3>2. CASE k.kind \notin RoleKinds
      BY <1>2, <2>1, <3>1, <3>2, ZenonT(30) DEF Transformed, Transform, Events
    <3>. QED
      BY <3>2
  <2>4. store'[k] = Absent \/ k \in kept'
    BY <1>7 DEF DeliverNil, TypeOK
  <2>. QED
    BY <1>4, <2>2, <2>3, <2>4 DEF Tracks
<1>. QED
  BY <1>6, <1>7 DEF InformerStep

(* An event is taken from the head of its queue.                           *)
LEMMA InformerTracking ==
    ASSUME TypeOK, Tracking, NEW kind \in Kinds, InformerStep(kind)
    PROVE  Tracking'
<1>. DEFINE e == Head(queue[kind])
            q == queue[kind]
<1>1. /\ q # <<>> /\ queue' = [queue EXCEPT ![kind] = Tail(@)]
      /\ UNCHANGED <<selecting, cluster>>
  BY DEF InformerStep, Deliver, DeliverNil
<1>2. e.key \in Keys /\ e.key.kind = kind /\ q \in Seq(Events(kind))
  BY <1>1, EventType DEF TypeOK
<1>3. /\ queue'[kind] = Tail(q)
      /\ \A j \in Kinds : j # kind => queue'[j] = queue[j]
  BY <1>1 DEF TypeOK
<1>4. /\ Len(q) \in Nat /\ Len(q) > 0
      /\ e = q[1]
      /\ Len(Tail(q)) = Len(q) - 1
      /\ \A i \in 1..(Len(q) - 1) : Tail(q)[i] = q[i + 1]
  BY <1>1, <1>2
<1>5. \A k \in Keys : Watched(k, cluster[k])' = Watched(k, cluster[k])
  BY <1>1 DEF Watched, Selected
<1>6. ASSUME NEW k \in Keys, k # e.key, Tracks(k) PROVE Tracks(k)'
  <2>1. store'[k] = store[k] /\ (k \in kept => k \in kept')
    BY <1>2, <1>6 DEF InformerStep, Deliver, DeliverNil, TypeOK
  <2>2. Cached(k, cluster[k])' = Cached(k, cluster[k])
    BY <1>1, <1>5 DEF Cached
  <2>. QED
    BY <1>6, <2>1, <2>2 DEF Tracks
<1>7. ASSUME NEW k \in Keys PROVE (OnItsWay(k) \/ Arrived(k))'
  <2>1. CASE k.kind # kind
    <3>1. queue'[k.kind] = queue[k.kind] /\ k # e.key
      BY <1>2, <1>3, <2>1, ResourceAssumption
    <3>. QED
      BY <1>5, <1>6, <3>1 DEF Tracking, OnItsWay, Arrived
  <2>2. CASE k.kind = kind /\ Arrived(k)
    <3>1. \A i \in 1..Len(q) : q[i].key # k
      BY <2>2 DEF Arrived
    <3>2. k # e.key
      BY <1>4, <3>1
    <3>3. \A i \in 1..Len(Tail(q)) : Tail(q)[i].key # k
      BY <1>4, <3>1
    <3>. QED
      BY <1>3, <1>6, <2>2, <3>2, <3>3, Zenon DEF Arrived
  <2>3. CASE k.kind = kind /\ OnItsWay(k)
    <3>1. PICK i \in 1..Len(q) :
              /\ q[i].key = k
              /\ q[i].obj = Watched(k, cluster[k])
              /\ \A l \in 1..Len(q) : l > i => q[l].key # k
      BY <2>3 DEF OnItsWay
    <3>2. CASE i = 1
      <4>1. e.key = k /\ e.obj = Watched(k, cluster[k])
        BY <1>4, <3>1, <3>2
      <4>2. Tracks(k)'
        BY <1>1, <2>3, <4>1, LastEventTracks
      <4>3. \A l \in 1..Len(Tail(q)) : Tail(q)[l].key # k
        BY <1>4, <3>1, <3>2
      <4>. QED
        BY <1>3, <2>3, <4>2, <4>3, Zenon DEF Arrived
    <3>3. CASE i # 1
      <4>1. PICK m \in 1..Len(Tail(q)) : m = i - 1 /\ Tail(q)[m] = q[i]
        BY <1>4, <3>1, <3>3
      <4>2. \A l \in 1..Len(Tail(q)) : l > m => Tail(q)[l].key # k
        BY <1>4, <3>1, <3>3, <4>1
      <4>3. queue'[k.kind] = Tail(q)
        BY <1>3, <2>3
      <4>4. Tail(q)[m].key = k /\ Tail(q)[m].obj = Watched(k, cluster[k])'
        BY <1>5, <3>1, <4>1
      <4>5. /\ m \in 1..Len(queue'[k.kind])
            /\ queue'[k.kind][m].key = k
            /\ queue'[k.kind][m].obj = Watched(k, cluster[k])'
            /\ \A l \in 1..Len(queue'[k.kind]) : l > m => queue'[k.kind][l].key # k
        BY <4>2, <4>3, <4>4, ZenonT(30)
      <4>6. OnItsWay(k)'
        BY <4>5 DEF OnItsWay
      <4>. QED
        BY <4>6
    <3>. QED
      BY <3>2, <3>3
  <2>. QED
    BY <2>1, <2>2, <2>3 DEF Tracking
<1>. QED
  BY <1>7, ZenonT(30) DEF Tracking

(* Handlers and worker touch neither the cluster nor the informers.        *)
LEMMA TrackingNext == TypeOK /\ Tracking /\ [Next]_vars => Tracking'
<1>. SUFFICES ASSUME TypeOK, Tracking, [Next]_vars PROVE Tracking'
  OBVIOUS
<1>1. CASE ClusterStep
  BY <1>1, ClusterTracking DEF ClusterStep
<1>2. CASE \E kind \in Kinds : InformerStep(kind)
  BY <1>2, InformerTracking
<1>3. CASE \/ EventHandlerFuncs \/ TimerTick \/ WorkerStep \/ SynchFails
           \/ UNCHANGED vars
  <2>1. UNCHANGED <<selecting, cluster, queue, store, kept>>
    BY <1>3, ZenonT(30)
    DEF EventHandlerFuncs, TimerTick, SynchFails, WorkerStep, WorkerReceive,
        ListNamespaces, AllowedSubjects, VisitBinding, VisitNamespace,
        Calculated, Restock, vars, resourceVars
  <2>. QED
    BY <2>1 DEF Tracking, OnItsWay, Arrived, Tracks, Cached, Watched, Selected
<1>. QED
  BY <1>1, <1>2, <1>3 DEF Next

--------------------------------------------------------------------------------
(* The worker.                                                             *)

(* While the stores stay as they are, so does what they give.              *)
LEMMA StoresAlone ==
    ASSUME UNCHANGED store
    PROVE  /\ \A n : Listed(n)' = Listed(n)
           /\ \A k, s, n : Gives(k, s, n)' = Gives(k, s, n)
           /\ \A s, n : Given(s, n)' = Given(s, n)
BY ZenonT(30) DEF Listed, InStore, Gives, Given, GetRules

(* Other steps start a synch, change no store, or end a synch for nothing. *)
LEMMA OthersCalculation ==
    ASSUME TypeOK, CalculationInv,
           \/ ClusterStep \/ EventHandlerFuncs \/ TimerTick \/ SynchFails
           \/ UNCHANGED vars
           \/ \E kind \in Kinds : InformerStep(kind)
    PROVE  CalculationInv'
<1>1. CASE EventHandlerFuncs \/ TimerTick \/ SynchFails
  BY <1>1 DEF EventHandlerFuncs, TimerTick, SynchFails, CalculationInv, Wake
<1>2. CASE UNCHANGED <<store, pending, synchVars>>
  BY <1>2, StoresAlone DEF CalculationInv, Wake, DataInv, TmpInv, CallInv,
       Unvisited, synchVars, callVars
<1>3. CASE pending' > 0
  BY <1>3 DEF CalculationInv, Wake
<1>4. ASSUME NEW kind \in Kinds, InformerStep(kind)
      PROVE  pending' > 0 \/ UNCHANGED <<store, pending, synchVars>>
  <2>1. pending \in Nat /\ UNCHANGED synchVars
    BY <1>4 DEF InformerStep, TypeOK
  <2>2. CASE Deliver(kind)
    <3>1. pending' = pending + 1
      BY <2>2 DEF Deliver
    <3>. QED
      BY <2>1, <3>1
  <2>3. ASSUME NEW evicted \in BOOLEAN, DeliverNil(kind, evicted)
        PROVE  pending' > 0 \/ UNCHANGED <<store, pending, synchVars>>
    <3>1. pending' = pending + 1 \/ UNCHANGED <<store, pending>>
      BY <2>3, ZenonT(30) DEF DeliverNil
    <3>. QED
      BY <2>1, <3>1
  <2>. QED
    BY <1>4, <2>2, <2>3 DEF InformerStep
<1>5. ClusterStep \/ UNCHANGED vars => UNCHANGED <<store, pending, synchVars>>
  BY Zenon DEF ClusterStep, ClusterChanges, vars, resourceVars
<1>. QED
  BY <1>1, <1>2, <1>3, <1>4, <1>5

(* AllowedSubjects begins: no role binding and no listed binding has been  *)
(* visited, so that the answer has the superusers alone.                   *)
LEMMA CallBegins ==
    ASSUME TypeOK, CalculationInv, NEW n \in Namespaces, AllowedSubjects(n)
    PROVE  CalculationInv'
<1>. SUFFICES ASSUME ~Wake' PROVE CallInv'
  BY DEF AllowedSubjects, CalculationInv, DataInv, TmpInv
<1>1. UNCHANGED store /\ pc = "range" /\ pc' = "clusterBindings"
  BY DEF AllowedSubjects, resourceVars
<1>2. TmpInv /\ ~Wake
  BY DEF AllowedSubjects, CalculationInv, Wake, resourceVars
<1>3. \A b \in visiting' : /\ b = [key |-> b.key, obj |-> store[b.key]]
                           /\ store[b.key] # Absent
                           /\ b.key.kind = "ClusterRoleBinding"
  BY BindingsType DEF AllowedSubjects, ListClusterRoleBindings, BindingKinds
<1>4. \A k \in Keys : k.kind = "ClusterRoleBinding" /\ store[k] # Absent
                          => \E b \in visiting' : b.key = k
  BY BindingsListed, Zenon DEF AllowedSubjects, ListClusterRoleBindings
<1>5. \A s, k : k \in Keys /\ Gives(k, s, n) => Unvisited(k)'
  BY <1>1, <1>4 DEF Gives, Unvisited, BindingKinds
<1>6. answer' = {SystemMasters} /\ ns' = n /\ todo' = todo \ {n} /\ tmp' = tmp
      /\ n \in todo
  BY DEF AllowedSubjects
<1>7. /\ \A m \in todo : Listed(m)
      /\ \A s \in Subjects, m \in Namespaces :
             <<s, m>> \in tmp <=> Listed(m) /\ m \notin todo /\ Given(s, m)
  BY <1>1, <1>2 DEF TmpInv
<1>8. \A s \in Subjects, m \in Namespaces :
          <<s, m>> \in tmp' <=> Listed(m) /\ m \notin todo' /\ m # n /\ Given(s, m)
  BY <1>6, <1>7, Zenon
<1>9. \A b \in visiting' : Covering(b.key, n)
  BY <1>3 DEF Covering
<1>10. \A s \in Subjects :
          s \in answer' <=> \/ s = SystemMasters
                            \/ \E k \in Keys : Gives(k, s, n) /\ ~Unvisited(k)'
  BY <1>5, <1>6
<1>. QED
  BY <1>1, <1>3, <1>6, <1>7, <1>8, <1>9, <1>10, StoresAlone DEF CallInv

(* A binding is visited: its subjects are added if its role allows it.     *)
LEMMA CallVisits ==
    ASSUME TypeOK, CalculationInv, NEW b \in visiting, VisitBinding(b)
    PROVE  CalculationInv'
<1>. SUFFICES ASSUME ~Wake' PROVE CallInv'
  BY ZenonT(30) DEF VisitBinding, CalculationInv, DataInv, TmpInv
<1>1. /\ UNCHANGED <<store, pc, todo, ns, tmp>>
      /\ pc \in {"clusterBindings", "bindings"}
      /\ visiting' = visiting \ {b}
  BY ZenonT(30) DEF VisitBinding, resourceVars
<1>2. CallInv
  BY DEF VisitBinding, CalculationInv, Wake, resourceVars
<1>3. /\ \A c \in visiting : /\ c = [key |-> c.key, obj |-> store[c.key]]
                             /\ store[c.key] # Absent
                             /\ Covering(c.key, ns)
                             /\ pc = "clusterBindings" =>
                                    c.key.kind = "ClusterRoleBinding"
      /\ b.key \in Keys /\ b.key.kind \in BindingKinds
  BY <1>1, <1>2 DEF CallInv, TypeOK
<1>4. \A c \in visiting : c.key = b.key => c = b
  BY <1>3
<1>5. \A k \in Keys : Unvisited(k)' <=> Unvisited(k) /\ k # b.key
  BY <1>1, <1>3, <1>4 DEF Unvisited
<1>6. Unvisited(b.key)
  BY DEF Unvisited
<1>7. \A s \in Subjects :
          Gives(b.key, s, ns) <=> /\ s \in b.obj.subjects
                                  /\ RulesAllow(GetRules(RoleKey(b.key, b.obj)), ns)
  BY <1>3 DEF Gives
<1>8. \A s \in Subjects :
          s \in answer' <=> s \in answer \/ Gives(b.key, s, ns)
  BY <1>7 DEF VisitBinding
<1>9. \A s \in Subjects :
          s \in answer <=> \/ s = SystemMasters
                           \/ \E k \in Keys : Gives(k, s, ns) /\ ~Unvisited(k)
  BY <1>1, <1>2 DEF CallInv
<1>10. \A s \in Subjects :
          s \in answer' <=> \/ s = SystemMasters
                            \/ \E k \in Keys : Gives(k, s, ns) /\ ~Unvisited(k)'
  BY <1>3, <1>5, <1>6, <1>8, <1>9
<1>11. \A c \in visiting' : c \in visiting
  BY <1>1
<1>. QED
  BY <1>1, <1>2, <1>3, <1>10, <1>11, StoresAlone DEF CallInv

(* AllowedSubjects turns to the role bindings of the namespace.            *)
LEMMA CallTurns ==
    ASSUME TypeOK, CalculationInv, VisitNamespace
    PROVE  CalculationInv'
<1>. SUFFICES ASSUME ~Wake' PROVE CallInv'
  BY DEF VisitNamespace, CalculationInv, DataInv, TmpInv
<1>1. /\ UNCHANGED <<store, todo, ns, tmp, answer>>
      /\ pc = "clusterBindings" /\ pc' = "bindings"
      /\ visiting = {}
      /\ ns \in Namespaces
  BY DEF VisitNamespace, resourceVars, TypeOK
<1>2. CallInv
  BY DEF VisitNamespace, CalculationInv, Wake, resourceVars
<1>3. \A b \in visiting' : /\ b = [key |-> b.key, obj |-> store[b.key]]
                           /\ store[b.key] # Absent
                           /\ b.key.kind = "RoleBinding"
                           /\ b.key.namespace = ns
  BY BindingsType DEF VisitNamespace, ListRoleBindings, BindingKinds
<1>4. \A k \in Keys : k.kind = "RoleBinding" /\ k.namespace = ns /\ store[k] # Absent
                          => \E b \in visiting' : b.key = k
  BY BindingsListed, Zenon DEF VisitNamespace, ListRoleBindings
<1>5. \A s \in Subjects, k \in Keys :
          Gives(k, s, ns) => (Unvisited(k)' <=> Unvisited(k))
  BY <1>1, <1>3, <1>4 DEF Gives, Unvisited, Covering
<1>6. \A s \in Subjects :
          s \in answer' <=> \/ s = SystemMasters
                            \/ \E k \in Keys : Gives(k, s, ns) /\ ~Unvisited(k)'
  BY <1>1, <1>2, <1>5 DEF CallInv
<1>7. \A b \in visiting' : Covering(b.key, ns)
  BY <1>3 DEF Covering
<1>. QED
  BY <1>1, <1>2, <1>3, <1>6, <1>7, StoresAlone DEF CallInv

(* AllowedSubjects returns: every binding has been visited.                *)
LEMMA CallReturns ==
    ASSUME TypeOK, CalculationInv, Calculated
    PROVE  CalculationInv'
<1>. SUFFICES ASSUME ~Wake' PROVE TmpInv'
  BY ZenonT(30) DEF Calculated, CalculationInv, DataInv, CallInv
<1>1. /\ UNCHANGED <<store, todo>>
      /\ pc = "bindings" /\ pc' = "range"
      /\ visiting = {}
      /\ tmp' = tmp \cup (answer \X {ns})
      /\ ns \in Namespaces
  BY DEF Calculated, resourceVars, callVars, TypeOK
<1>2. CallInv
  BY DEF Calculated, CalculationInv, Wake, resourceVars
<1>3. \A k \in Keys : ~Unvisited(k)
  BY <1>1 DEF Unvisited
<1>4. \A s \in Subjects : s \in answer <=> Given(s, ns)
  BY <1>1, <1>2, <1>3 DEF CallInv, Given
<1>5. \A s \in Subjects, n \in Namespaces :
          <<s, n>> \in tmp' <=> <<s, n>> \in tmp \/ (n = ns /\ s \in answer)
  <2>. SUFFICES ASSUME NEW s \in Subjects, NEW n \in Namespaces
                PROVE  <<s, n>> \in tmp' <=>
                           <<s, n>> \in tmp \/ (n = ns /\ s \in answer)
    BY Zenon
  <2>1. <<s, n>> \in tmp' <=> <<s, n>> \in tmp \/ <<s, n>> \in answer \X {ns}
    BY <1>1, Zenon
  <2>2. <<s, n>> \in answer \X {ns} <=> s \in answer /\ n = ns
    OBVIOUS
  <2>. QED
    BY <2>1, <2>2
<1>6. \A s \in Subjects, n \in Namespaces :
          <<s, n>> \in tmp' <=> Listed(n) /\ n \notin todo /\ Given(s, n)
  BY <1>1, <1>2, <1>4, <1>5, ZenonT(30) DEF CallInv
<1>7. \A n \in todo : Listed(n)
  BY <1>1, <1>2 DEF CallInv
<1>. QED
  BY <1>1, <1>6, <1>7, StoresAlone DEF TmpInv

(* The remaining steps of a synch: the list, the publication, the receive. *)
LEMMA WorkerCalculation ==
    ASSUME TypeOK, CalculationInv, WorkerStep
    PROVE  CalculationInv'
<1>1. CASE WorkerReceive
  BY <1>1 DEF WorkerReceive, CalculationInv, Wake
<1>2. CASE ListNamespaces
  <2>1. UNCHANGED store /\ pc' = "range" /\ tmp' = {}
        /\ todo' = {n \in Namespaces : Listed(n)}
    BY <1>2 DEF ListNamespaces, resourceVars, Listed
  <2>. QED
    BY <2>1, StoresAlone DEF CalculationInv, DataInv, TmpInv, CallInv
<1>3. CASE Restock
  <2>. SUFFICES ASSUME ~Wake' PROVE DataInv'
    BY <1>3 DEF Restock, CalculationInv, TmpInv, CallInv
  <2>1. UNCHANGED store /\ pc = "range" /\ todo = {} /\ data' = tmp
    BY <1>3 DEF Restock, resourceVars
  <2>2. TmpInv
    BY <1>3 DEF Restock, CalculationInv, Wake, resourceVars
  <2>. QED
    BY <2>1, <2>2, StoresAlone, Zenon DEF DataInv, TmpInv
<1>. QED
  BY <1>1, <1>2, <1>3, CallBegins, CallVisits, CallTurns, CallReturns DEF WorkerStep

IInv == TypeOK /\ Tracking /\ CalculationInv

LEMMA IInvInvariant == Spec => []IInv
<1>1. Init => IInv
  BY TypeInit, TrackingInit DEF Init, IInv, CalculationInv, Wake
<1>2. IInv /\ [Next]_vars => IInv'
  <2>. SUFFICES ASSUME IInv, [Next]_vars PROVE IInv'
    OBVIOUS
  <2>1. CalculationInv'
    BY OthersCalculation, WorkerCalculation, ZenonT(30) DEF IInv, Next
  <2>. QED
    BY <2>1, TypeNext, TrackingNext DEF IInv
<1>. QED
  BY <1>1, <1>2, PTL DEF Spec

--------------------------------------------------------------------------------
(* The trimmed stores against the cluster.                                 *)

(* filterNamespacesRelatedPolicyRules loses no grant that is written out,  *)
(* and keeps none that is not: the rules TrimRole and TrimClusterRole      *)
(* leave allow the get of a namespace if and only if a rule of the role    *)
(* does so without a wildcard.                                             *)
THEOREM TrimKeepsLiteralGrants ==
    ASSUME NEW rules \in SUBSET PolicyRules, NEW n
    PROVE  RulesAllow(filterNamespacesRelatedPolicyRules(rules), n)
               <=> Literal([rules |-> rules], n)
<1>. DEFINE matches(r) == "" \in r.apiGroups /\ "namespaces" \in r.resources /\ "get" \in r.verbs
            allowed(r) == r.resourceNames = {} \/ n \in r.resourceNames
<1>1. Literal([rules |-> rules], n) <=> \E r \in rules : matches(r) /\ allowed(r)
  BY DEF Literal
<1>2. \A r \in rules :
          /\ Narrowed(r).apiGroups = {""}
          /\ Narrowed(r).resources = {"namespaces"}
          /\ Narrowed(r).verbs = {"get"}
          /\ Narrowed(r).resourceNames = r.resourceNames
  BY DEF Narrowed
<1>3. filterNamespacesRelatedPolicyRules(rules) = {Narrowed(r) : r \in {q \in rules : matches(q)}}
  BY DEF filterNamespacesRelatedPolicyRules
<1>4. RulesAllow(filterNamespacesRelatedPolicyRules(rules), n)
          <=> \E r \in rules : /\ matches(r)
                               /\ Narrowed(r).apiGroups \cap {"", "*"} # {}
                               /\ Narrowed(r).resources \cap {"namespaces", "*"} # {}
                               /\ Narrowed(r).verbs \cap {"get", "*"} # {}
                               /\ allowed(Narrowed(r))
  <2>. HIDE DEF matches
  <2>. QED
    BY <1>3, Zenon DEF RulesAllow
<1>. QED
  BY <1>1, <1>2, <1>4, ZenonT(30)

(* A role as the store should hold it allows what the role of the cluster  *)
(* says.                                                                   *)
HeldRules(k) ==
    IF Cached(k, cluster[k]) = Absent THEN {} ELSE Cached(k, cluster[k]).rules

LEMMA RoleHeld ==
    ASSUME TypeOK, NEW k \in Keys, k.kind \in RoleKinds, NEW n
    PROVE  RulesAllow(HeldRules(k), n) <=> cluster[k] # Absent /\ Literal(cluster[k], n)
<1>. DEFINE rules == filterNamespacesRelatedPolicyRules(cluster[k].rules)
<1>1. CASE cluster[k] = Absent
  BY <1>1 DEF Cached, Watched, HeldRules, RulesAllow
<1>2. CASE cluster[k] # Absent
  <2>1. cluster[k] \in [rules : SUBSET PolicyRules]
    BY <1>2, ObjectKinds, Zenon DEF TypeOK
  <2>2. /\ cluster[k].rules \in SUBSET PolicyRules
        /\ cluster[k] = [rules |-> cluster[k].rules]
    BY <2>1
  <2>7. RulesAllow(rules, n) <=> Literal(cluster[k], n)
    BY <2>2, TrimKeepsLiteralGrants
  <2>3. Watched(k, cluster[k]) = cluster[k]
    BY <1>2 DEF Watched, Selected, RoleKinds
  <2>4. Transform(k, cluster[k]) =
            IF rules = {} THEN Nil ELSE [rules |-> rules]
    BY <2>1 DEF Transform, TrimRole
  <2>5. CASE rules = {}
    <3>1. HeldRules(k) = {}
      BY <1>2, <2>3, <2>4, <2>5 DEF Cached, HeldRules
    <3>. QED
      BY <1>2, <2>5, <2>7, <3>1
  <2>6. CASE rules # {}
    <3>1. [rules |-> rules] \in Objects(k.kind)
      <4>1. rules \in SUBSET PolicyRules
        BY <2>2, FilterType
      <4>. QED
        BY <4>1, ObjectKinds, Zenon
    <3>2. [rules |-> rules] # Nil /\ [rules |-> rules] # Absent
      BY <3>1, ResourceAssumption
    <3>3. HeldRules(k) = rules
      BY <1>2, <2>3, <2>4, <2>6, <3>2 DEF Cached, HeldRules
    <3>. QED
      BY <1>2, <2>7, <3>3
  <2>. QED
    BY <2>5, <2>6
<1>. QED
  BY <1>1, <1>2

(* No transform ends an object of another kind.                            *)
LEMMA OtherHeld ==
    ASSUME TypeOK, NEW k \in Keys, k.kind \notin RoleKinds,
           store[k] = Cached(k, cluster[k])
    PROVE  store[k] = Watched(k, cluster[k])
BY ResourceAssumption DEF Cached, Watched, Transform, TypeOK

--------------------------------------------------------------------------------
(* When all is quiet the stores and the cluster give the same.             *)

LEMMA QuietTracks ==
    ASSUME IInv, Quiet
    PROVE  \A k \in Keys : Tracks(k)
<1>1. \A k \in Keys : queue[k.kind] = <<>>
  BY ResourceAssumption DEF Quiet
<1>2. \A k \in Keys : ~OnItsWay(k)
  BY <1>1 DEF OnItsWay
<1>. QED
  BY <1>2 DEF IInv, Tracking, Arrived

LEMMA QuietNamespaces ==
    ASSUME IInv, Quiet, NEW n \in Namespaces
    PROVE  Listed(n) <=> n \in ClusterNamespaces
<1>. DEFINE k == NamespaceKey(n)
<1>1. k.kind = "Namespace"
  BY DEF NamespaceKey
<1>2. k \in Keys => store[k] = Watched(k, cluster[k])
  BY <1>1, QuietTracks, OtherHeld DEF Tracks, RoleKinds, IInv
<1>3. k \in Keys => (Selected(k, cluster[k]) <=> (selecting => cluster[k].labelled))
  BY <1>1 DEF Selected
<1>. HIDE DEF k
<1>. QED
  BY <1>2, <1>3 DEF Listed, InStore, ClusterNamespaces, Watched, k

LEMMA QuietBindings ==
    ASSUME IInv, Quiet, NEW k \in Keys, k.kind \in BindingKinds, NEW n
    PROVE  /\ store[k] # Absent /\ Covering(k, n) <=> cluster[k] # Absent /\ Applies(k, n)
           /\ store[k] # Absent => store[k] = cluster[k]
<1>1. store[k] = Watched(k, cluster[k])
  BY QuietTracks, OtherHeld DEF Tracks, RoleKinds, BindingKinds, IInv
<1>2. CASE k.kind = "RoleBinding"
  BY <1>1, <1>2 DEF Watched, Selected, Covering, Applies
<1>3. CASE k.kind = "ClusterRoleBinding"
  BY <1>1, <1>3, ZenonT(30) DEF Watched, Selected, Covering, Applies
<1>. QED
  BY <1>2, <1>3 DEF BindingKinds

LEMMA QuietRoles ==
    ASSUME IInv, Quiet, NEW k, k.kind \in RoleKinds, NEW n \in Namespaces
    PROVE  /\ <<k, n>> \in ClusterGrants => RulesAllow(GetRules(k), n)
           /\ RulesAllow(GetRules(k), n) => <<k, n>> \in ClusterGrants \cup KeptGrants
<1>1. CASE k \notin Keys
  BY <1>1 DEF ClusterGrants, GetRules, InStore, RulesAllow
<1>2. CASE k \in Keys /\ store[k] = Cached(k, cluster[k])
  <2>1. GetRules(k) = HeldRules(k)
    BY <1>2 DEF GetRules, InStore, HeldRules
  <2>. QED
    BY <1>2, <2>1, RoleHeld DEF ClusterGrants, IInv
<1>3. CASE k \in Keys /\ k \in kept /\ store[k] # Cached(k, cluster[k])
  <2>1. HeldRules(k) = {}
    BY <1>3, QuietTracks DEF Tracks, HeldRules
  <2>2. <<k, n>> \notin ClusterGrants
    BY <1>3, <2>1, RoleHeld, Zenon DEF ClusterGrants, IInv, RulesAllow
  <2>3. RulesAllow(GetRules(k), n) => GetRules(k) = store[k].rules
    BY Zenon DEF GetRules, RulesAllow
  <2>. QED
    BY <1>3, <2>2, <2>3 DEF KeptGrants
<1>. QED
  BY <1>1, <1>2, <1>3, QuietTracks DEF Tracks

(* PublishedIsGranted: for every cluster and every number of changes, once *)
(* informers, handlers and worker have nothing left to do, SubjectAccess   *)
(* holds what the cluster grants, but for roles that a store kept, unless  *)
(* the last synch gave up. IInv says that each store tracks its watch and  *)
(* that what the worker holds is what the stores give unless a synch is    *)
(* still to come.                                                          *)
THEOREM AccessFollowsCluster == Spec => []PublishedIsGranted
<1>1. ASSUME IInv, Quiet, ~dropped PROVE Granted
  <2>1. ASSUME NEW s \in Subjects, NEW n \in Namespaces
        PROVE  <<s, n>> \in data <=> n \in ClusterNamespaces /\ Given(s, n)
    <3>1. DataInv /\ pc = "idle"
      BY <1>1 DEF Quiet, IInv, CalculationInv, Wake, TypeOK
    <3>. QED
      BY <1>1, <3>1, QuietNamespaces DEF DataInv
  <2>2. \A a \in data : \E s \in Subjects, n \in Namespaces : a = <<s, n>>
    <3>1. \A a \in Subjects \X Namespaces :
              \E s \in Subjects, n \in Namespaces : a = <<s, n>>
      OBVIOUS
    <3>2. data \subseteq Subjects \X Namespaces
      BY <1>1, ZenonT(30) DEF IInv, TypeOK
    <3>. QED
      BY <3>1, <3>2
  <2>3. ASSUME NEW s \in Subjects, NEW n \in Namespaces, NEW k \in Keys
        PROVE  Gives(k, s, n) <=>
                   /\ k.kind \in BindingKinds
                   /\ cluster[k] # Absent
                   /\ Applies(k, n)
                   /\ s \in cluster[k].subjects
                   /\ RulesAllow(GetRules(RoleKey(k, cluster[k])), n)
    BY <1>1, QuietBindings, ZenonT(30) DEF Gives
  <2>4. ASSUME NEW n \in Namespaces, NEW k \in Keys, cluster[k] # Absent, Applies(k, n)
        PROVE  /\ k.kind \in BindingKinds
               /\ RoleKey(k, cluster[k]).kind \in RoleKinds
    <3>1. k.kind \in BindingKinds
      BY <2>4 DEF Applies, BindingKinds
    <3>. QED
      BY <1>1, <2>4, <3>1, BindingFields DEF IInv, TypeOK, RoleKey
  <2>5. AccessBy(ClusterGrants) \subseteq data
    <3>. SUFFICES ASSUME NEW s \in Subjects, NEW n \in Namespaces,
                         <<s, n>> \in AccessBy(ClusterGrants)
                  PROVE  <<s, n>> \in data
      BY DEF AccessBy
    <3>1. n \in ClusterNamespaces
      BY DEF AccessBy
    <3>2. CASE s = SystemMasters
      BY <2>1, <3>1, <3>2 DEF Given
    <3>3. CASE s # SystemMasters
      <4>1. PICK k \in Keys : /\ cluster[k] # Absent
                              /\ Applies(k, n)
                              /\ s \in cluster[k].subjects
                              /\ <<RoleKey(k, cluster[k]), n>> \in ClusterGrants
        BY <3>3, ZenonT(30) DEF AccessBy
      <4>2. RulesAllow(GetRules(RoleKey(k, cluster[k])), n)
        BY <1>1, <2>4, <4>1, QuietRoles, ZenonT(30)
      <4>3. Gives(k, s, n)
        BY <2>3, <2>4, <4>1, <4>2
      <4>. QED
        BY <2>1, <3>1, <4>3 DEF Given
    <3>. QED
      BY <3>2, <3>3
  <2>6. data \subseteq AccessBy(ClusterGrants \cup KeptGrants)
    <3>. SUFFICES ASSUME NEW s \in Subjects, NEW n \in Namespaces, <<s, n>> \in data
                  PROVE  <<s, n>> \in AccessBy(ClusterGrants \cup KeptGrants)
      BY <2>2
    <3>1. n \in ClusterNamespaces /\ Given(s, n)
      BY <2>1
    <3>2. CASE s = SystemMasters
      BY <3>1, <3>2, ZenonT(30) DEF AccessBy
    <3>3. CASE s # SystemMasters
      <4>1. PICK k \in Keys : Gives(k, s, n)
        BY <3>1, <3>3, ZenonT(30) DEF Given
      <4>2. /\ cluster[k] # Absent
            /\ Applies(k, n)
            /\ s \in cluster[k].subjects
            /\ RulesAllow(GetRules(RoleKey(k, cluster[k])), n)
        BY <2>3, <4>1, ZenonT(30)
      <4>3. <<RoleKey(k, cluster[k]), n>> \in ClusterGrants \cup KeptGrants
        BY <1>1, <2>4, <4>2, QuietRoles
      <4>. QED
        BY <3>1, <4>2, <4>3 DEF AccessBy
    <3>. QED
      BY <3>2, <3>3
  <2>. QED
    BY <2>5, <2>6 DEF Granted
<1>2. IInv => PublishedIsGranted
  BY <1>1 DEF PublishedIsGranted
<1>. QED
  BY <1>2, IInvInvariant, PTL

--------------------------------------------------------------------------------
(* The window of a synch.                                                  *)

Calling == pc \in {"clusterBindings", "bindings"}

(* The window brackets what the stores hold now.                           *)
Brackets ==
    /\ StoredNamespaces \subseteq window.everNs
    /\ window.alwaysNs \subseteq StoredNamespaces
    /\ Links \subseteq window.everLinks
    /\ window.alwaysLinks \subseteq Links
    /\ Grants \subseteq window.everGrants
    /\ window.alwaysGrants \subseteq Grants

Found(s, n) ==
    s = SystemMasters \/ Path(window.everLinks, window.everGrants, s, n)

(* A subject of a binding that was read was a subject of it in the store.  *)
Bound(b) ==
    \A s \in b.obj.subjects, r \in Keys :
        r = RoleKey(b.key, b.obj) =>
            [binding |-> b.key, role |-> r, subject |-> s] \in window.everLinks

(* Nothing the worker holds is without a cause in the window.              *)
NothingMore ==
    /\ pc = "range" \/ Calling => todo \subseteq window.everNs
    /\ Calling => /\ ns \in window.everNs
                  /\ \A b \in visiting : Covers(b.key, ns) /\ Bound(b)
                  /\ \A s \in answer : Found(s, ns)
    /\ pc = "range" \/ Calling =>
           \A s \in Subjects, n \in Namespaces :
               <<s, n>> \in tmp => n \in window.everNs /\ Found(s, n)

(* What the stores hold all along reaches the temporary data: it is still  *)
(* to be read, or has been read, or has been added.                        *)
InCall(l) ==
    \/ l.subject \in answer
    \/ pc = "clusterBindings" /\ l.binding.kind = "RoleBinding"
    \/ \E b \in visiting : /\ b.key = l.binding
                           /\ RoleKey(b.key, b.obj) = l.role
                           /\ l.subject \in b.obj.subjects

NothingLess ==
    pc = "range" \/ Calling =>
        \A n \in window.alwaysNs, l \in window.alwaysLinks :
            Covers(l.binding, n) /\ [role |-> l.role, name |-> n] \in window.alwaysGrants
                => \/ n \in todo
                   \/ <<l.subject, n>> \in tmp
                   \/ Calling /\ ns = n /\ InCall(l)

WindowInv == Brackets /\ NothingMore /\ NothingLess

--------------------------------------------------------------------------------

(* The window only widens until the next synch begins.                     *)
Widens ==
    /\ window.everNs \subseteq window'.everNs
    /\ window'.alwaysNs \subseteq window.alwaysNs
    /\ window.everLinks \subseteq window'.everLinks
    /\ window'.alwaysLinks \subseteq window.alwaysLinks
    /\ window.everGrants \subseteq window'.everGrants
    /\ window'.alwaysGrants \subseteq window.alwaysGrants
    /\ \A s, n : Found(s, n) => Found(s, n)'
    /\ \A b : Bound(b) => Bound(b)'

LEMMA WindowWidens ==
    ASSUME WindowNext, pc' # "idle"
    PROVE  Brackets' /\ Widens
<1>1. /\ window'.everNs = window.everNs \cup StoredNamespaces'
      /\ window'.alwaysNs = window.alwaysNs \cap StoredNamespaces'
      /\ window'.everLinks = window.everLinks \cup Links'
      /\ window'.alwaysLinks = window.alwaysLinks \cap Links'
      /\ window'.everGrants = window.everGrants \cup Grants'
      /\ window'.alwaysGrants = window.alwaysGrants \cap Grants'
  BY DEF WindowNext, Now
<1>2. Brackets'
  BY <1>1 DEF Brackets
<1>3. \A s, n : Found(s, n) => Found(s, n)'
  BY <1>1 DEF Found, Path
<1>4. \A b : Bound(b) => Bound(b)'
  BY <1>1 DEF Bound
<1>. QED
  BY <1>1, <1>2, <1>3, <1>4 DEF Widens

LEMMA UnchangedWidens ==
    ASSUME Brackets, UNCHANGED <<store, window>>
    PROVE  Brackets' /\ Widens
<1>1. UNCHANGED <<StoredNamespaces, Links, Grants>>
  BY DEF StoredNamespaces, Links, Grants, InStore, GetRules
<1>2. \A s, n : Found(s, n)' = Found(s, n)
  BY DEF Found
<1>3. \A b : Bound(b)' = Bound(b)
  BY DEF Bound
<1>. QED
  BY <1>1, <1>2, <1>3, ZenonT(30) DEF Brackets, Widens

(* Between two synchs the window is closed around the present.             *)
LEMMA WindowCloses ==
    ASSUME WindowNext, pc' = "idle"
    PROVE  WindowInv'
<1>1. Brackets'
  BY DEF WindowNext, Now, Brackets
<1>. QED
  BY <1>1, ZenonT(30) DEF WindowInv, NothingMore, NothingLess, Calling

(* Steps that leave the worker's locals alone.                             *)
LEMMA WindowAround ==
    ASSUME WindowInv, Widens, Brackets', UNCHANGED <<pc, todo, callVars, tmp>>
    PROVE  WindowInv'
<1>1. NothingMore'
  BY DEF WindowInv, NothingMore, Widens, Calling, callVars
<1>2. \A l : InCall(l)' = InCall(l)
  BY ZenonT(30) DEF InCall, callVars
<1>3. NothingLess'
  BY <1>2, ZenonT(30) DEF WindowInv, NothingLess, Widens, Calling, callVars
<1>. QED
  BY <1>1, <1>3, ZenonT(30) DEF WindowInv

(* A listed binding is a link, and every link of the asked keys is listed. *)
LEMMA ListedBound ==
    ASSUME TypeOK, Brackets,
           NEW keys \in SUBSET {k \in Keys : k.kind \in BindingKinds},
           NEW b \in Bindings(keys)
    PROVE  Bound(b)
<1>. SUFFICES ASSUME NEW s \in b.obj.subjects, NEW r \in Keys, r = RoleKey(b.key, b.obj)
              PROVE  [binding |-> b.key, role |-> r, subject |-> s] \in window.everLinks
  BY DEF Bound
<1>. DEFINE l == [binding |-> b.key, role |-> r, subject |-> s]
<1>1. /\ b.key \in Keys /\ b.key.kind \in BindingKinds
      /\ b = [key |-> b.key, obj |-> store[b.key]]
      /\ store[b.key] # Absent
      /\ store[b.key] \in Objects(b.key.kind)
  BY BindingsType
<1>2. b.obj = store[b.key]
  BY <1>1
<1>3. s \in Subjects
  BY <1>1, <1>2, BindingFields
<1>4. r.kind \in RoleKinds
  BY <1>1, <1>2, BindingFields, ZenonT(30) DEF RoleKey
<1>5. l \in Links
  BY <1>1, <1>2, <1>3, <1>4 DEF Links, BindingKeys, RoleKeys, InStore
<1>. QED
  BY <1>5 DEF Brackets

LEMMA LinkListed ==
    ASSUME NEW keys, NEW l \in Links, l.binding \in keys
    PROVE  \E b \in Bindings(keys) : /\ b.key = l.binding
                                     /\ RoleKey(b.key, b.obj) = l.role
                                     /\ l.subject \in b.obj.subjects
<1>. DEFINE b == [key |-> l.binding, obj |-> store[l.binding]]
<1>1. b \in Bindings(keys)
  BY DEF Links, Bindings
<1>2. b.key = l.binding /\ b.obj = store[l.binding]
  OBVIOUS
<1>3. l.role = RoleKey(l.binding, store[l.binding])
      /\ l.subject \in store[l.binding].subjects
  BY ZenonT(30) DEF Links
<1>. HIDE DEF b
<1>. QED
  BY <1>1, <1>2, <1>3, ZenonT(30)

(* The namespaces are listed.                                              *)
LEMMA WindowLists ==
    ASSUME WindowInv, Widens, Brackets', ListNamespaces
    PROVE  WindowInv'
<1>1. pc' = "range" /\ todo' = StoredNamespaces /\ tmp' = {}
  BY DEF ListNamespaces, StoredNamespaces
<1>2. StoredNamespaces' = StoredNamespaces
  BY DEF ListNamespaces, resourceVars, StoredNamespaces, InStore
<1>. QED
  BY <1>1, <1>2, Zenon DEF Brackets, WindowInv, NothingMore, NothingLess, Calling

(* AllowedSubjects begins with the cluster role bindings.                  *)
LEMMA WindowCalls ==
    ASSUME TypeOK, WindowInv, Widens, Brackets', NEW m \in Namespaces, AllowedSubjects(m)
    PROVE  WindowInv'
<1>. DEFINE keys == {k \in Keys : k.kind = "ClusterRoleBinding"}
<1>1. /\ pc = "range" /\ pc' = "clusterBindings"
      /\ m \in todo /\ todo' = todo \ {m} /\ ns' = m
      /\ answer' = {SystemMasters} /\ visiting' = Bindings(keys) /\ tmp' = tmp
  BY DEF AllowedSubjects, ListClusterRoleBindings
<1>2. keys \in SUBSET {k \in Keys : k.kind \in BindingKinds}
  BY ZenonT(30) DEF BindingKinds
<1>. HIDE DEF keys
<1>3. \A b \in visiting' : Covers(b.key, m) /\ Bound(b)'
  <2>1. \A b \in Bindings(keys) : b.key \in keys /\ Bound(b)
    BY <1>2, BindingsType, ListedBound, ZenonT(30) DEF WindowInv
  <2>. QED
    BY <1>1, <2>1, Zenon DEF keys, Covers, Widens
<1>4. NothingMore'
  BY <1>1, <1>3, Zenon DEF WindowInv, NothingMore, Widens, Calling, Found
<1>5. ASSUME NEW l \in window'.alwaysLinks, Covers(l.binding, m) PROVE InCall(l)'
  <2>1. l \in Links
    BY <1>5 DEF WindowInv, Brackets, Widens
  <2>2. CASE l.binding.kind = "RoleBinding"
    BY <1>1, <2>2 DEF InCall
  <2>3. CASE l.binding.kind # "RoleBinding"
    <3>1. l.binding \in keys
      BY <1>5, <2>1, <2>3, ZenonT(30) DEF Covers, Links, BindingKeys, keys
    <3>. QED
      BY <1>1, <2>1, <3>1, LinkListed, ZenonT(30) DEF InCall
  <2>. QED
    BY <2>2, <2>3
<1>6. NothingLess'
  BY <1>1, <1>5, Zenon DEF WindowInv, NothingLess, Widens, Calling
<1>. QED
  BY <1>4, <1>6 DEF WindowInv

(* A binding is visited.                                                   *)
LEMMA WindowVisits ==
    ASSUME TypeOK, WindowInv, Widens, Brackets', NEW b \in visiting, VisitBinding(b)
    PROVE  WindowInv'
<1>. DEFINE role == RoleKey(b.key, b.obj)
            allowed == RulesAllow(GetRules(role), ns)
<1>1. /\ Calling /\ visiting' = visiting \ {b}
      /\ answer' = IF allowed THEN answer \cup b.obj.subjects ELSE answer
      /\ UNCHANGED <<pc, todo, ns, tmp>>
      /\ ns \in Namespaces
      /\ b.key \in Keys /\ b.key.kind \in BindingKinds /\ b.obj \in Objects(b.key.kind)
  BY ZenonT(30) DEF VisitBinding, Calling, TypeOK
<1>2. role.kind \in RoleKinds
  BY <1>1, BindingFields, ZenonT(30) DEF RoleKey
<1>. HIDE DEF role
<1>3. role \in Keys => (allowed <=> [role |-> role, name |-> ns] \in Grants)
  BY <1>1, <1>2, Zenon DEF Grants, RoleKeys
<1>4. allowed => role \in Keys
  BY ZenonT(30) DEF RulesAllow, GetRules, InStore
<1>5. ASSUME allowed, NEW s \in b.obj.subjects PROVE Found(s, ns)'
  <2>. DEFINE l == [binding |-> b.key, role |-> role, subject |-> s]
  <2>1. l \in window.everLinks /\ Covers(b.key, ns)
    BY <1>1, <1>4, <1>5, ZenonT(30) DEF WindowInv, NothingMore, Bound, role
  <2>2. [role |-> l.role, name |-> ns] \in window.everGrants
    BY <1>3, <1>4, <1>5 DEF WindowInv, Brackets
  <2>3. l.subject = s /\ l.binding = b.key
    OBVIOUS
  <2>. HIDE DEF l
  <2>4. ASSUME NEW m, m = ns PROVE Found(s, ns)'
    <3>1. Found(s, m)
      BY <2>1, <2>2, <2>3, <2>4, Zenon DEF Found, Path
    <3>2. Found(s, m)'
      BY <3>1, Zenon DEF Widens
    <3>3. ns' = m
      BY <1>1, <2>4
    <3>. QED
      BY <3>2, <3>3, Zenon DEF Found
  <2>. QED
    BY <2>4
<1>6. NothingMore'
  BY <1>1, <1>5, Zenon DEF WindowInv, NothingMore, Widens, Calling
<1>7. ASSUME NEW l \in window'.alwaysLinks, InCall(l),
             [role |-> l.role, name |-> ns] \in window'.alwaysGrants
      PROVE  InCall(l)'
  <2>1. l.role = role => allowed
    BY <1>3, <1>7, Zenon DEF Widens, WindowInv, Brackets, Grants
  <2>2. CASE l.subject \in answer \/ (pc = "clusterBindings" /\ l.binding.kind = "RoleBinding")
    BY <1>1, <2>2, ZenonT(30) DEF InCall
  <2>3. ASSUME NEW c \in visiting, c.key = l.binding, RoleKey(c.key, c.obj) = l.role,
               l.subject \in c.obj.subjects
        PROVE  InCall(l)'
    BY <1>1, <2>1, <2>3, ZenonT(30) DEF InCall, role
  <2>. QED
    BY <1>7, <2>2, <2>3, Zenon DEF InCall
<1>8. NothingLess'
  BY <1>1, <1>7 DEF WindowInv, NothingLess, Widens, Calling
<1>. QED
  BY <1>6, <1>8, ZenonT(30) DEF WindowInv

(* AllowedSubjects turns to the role bindings of the namespace.            *)
LEMMA WindowTurns ==
    ASSUME TypeOK, WindowInv, Widens, Brackets', VisitNamespace
    PROVE  WindowInv'
<1>. DEFINE keys == {k \in Keys : k.kind = "RoleBinding" /\ k.namespace = ns}
<1>1. /\ pc = "clusterBindings" /\ pc' = "bindings"
      /\ visiting = {} /\ visiting' = Bindings(keys)
      /\ UNCHANGED <<todo, ns, answer, tmp>>
  BY DEF VisitNamespace, ListRoleBindings
<1>2. keys \in SUBSET {k \in Keys : k.kind \in BindingKinds}
  BY DEF BindingKinds
<1>. HIDE DEF keys
<1>3. \A b \in visiting' : Covers(b.key, ns) /\ Bound(b)'
  <2>1. \A b \in Bindings(keys) : b.key \in keys /\ Bound(b)
    BY <1>2, BindingsType, ListedBound, ZenonT(30) DEF WindowInv
  <2>. QED
    BY <1>1, <2>1 DEF keys, Covers, Widens
<1>4. NothingMore'
  BY <1>1, <1>3, ZenonT(30) DEF WindowInv, NothingMore, Widens, Calling
<1>5. ASSUME NEW l \in window'.alwaysLinks, Covers(l.binding, ns), InCall(l)
      PROVE  InCall(l)'
  <2>1. l \in Links
    BY <1>5 DEF WindowInv, Brackets, Widens
  <2>2. CASE l.subject \in answer
    BY <1>1, <2>2 DEF InCall
  <2>3. CASE l.binding.kind = "RoleBinding"
    <3>1. l.binding \in keys
      BY <1>5, <2>1, <2>3, ZenonT(30) DEF Covers, Links, BindingKeys, keys
    <3>. QED
      BY <1>1, <2>1, <3>1, LinkListed DEF InCall
  <2>. QED
    BY <1>1, <1>5, <2>2, <2>3, Zenon DEF InCall
<1>6. NothingLess'
  BY <1>1, <1>5 DEF WindowInv, NothingLess, Widens, Calling
<1>. QED
  BY <1>4, <1>6 DEF WindowInv

(* AllowedSubjects returns.                                                *)
LEMMA WindowReturns ==
    ASSUME TypeOK, WindowInv, Widens, Brackets', Calculated
    PROVE  WindowInv'
<1>1. /\ pc = "bindings" /\ pc' = "range" /\ visiting = {}
      /\ tmp' = tmp \cup (answer \X {ns})
      /\ UNCHANGED todo
  BY DEF Calculated
<1>2. \A s, n : <<s, n>> \in tmp' <=> <<s, n>> \in tmp \/ (n = ns /\ s \in answer)
  <2>. SUFFICES ASSUME NEW s, NEW n
                PROVE  <<s, n>> \in tmp' <=>
                           <<s, n>> \in tmp \/ (n = ns /\ s \in answer)
    BY Zenon
  <2>1. <<s, n>> \in answer \X {ns} <=> s \in answer /\ n = ns
    BY ZenonT(30)
  <2>. QED
    BY <1>1, <2>1
<1>3. NothingMore'
  BY <1>1, <1>2 DEF WindowInv, NothingMore, Widens, Calling
<1>4. \A l : InCall(l) => l.subject \in answer
  BY <1>1, ZenonT(30) DEF InCall
<1>5. NothingLess'
  BY <1>1, <1>2, <1>4 DEF WindowInv, NothingLess, Widens, Calling
<1>. QED
  BY <1>3, <1>5 DEF WindowInv

LEMMA WindowNextInv ==
    TypeOK /\ WindowInv /\ [Next /\ WindowNext]_wvars => WindowInv'
<1>. SUFFICES ASSUME TypeOK, WindowInv, [Next /\ WindowNext]_wvars PROVE WindowInv'
  OBVIOUS
<1>1. CASE UNCHANGED wvars
  BY <1>1, UnchangedWidens, WindowAround
     DEF WindowInv, wvars, vars, resourceVars, synchVars, callVars
<1>2. CASE WindowNext /\ pc' = "idle"
  BY <1>2, WindowCloses
<1>3. CASE Next /\ WindowNext /\ pc' # "idle"
  <2>1. Brackets' /\ Widens
    BY <1>3, WindowWidens
  <2>2. CASE \/ ClusterStep \/ EventHandlerFuncs \/ TimerTick
             \/ \E kind \in Kinds : InformerStep(kind)
    <3>1. UNCHANGED <<pc, todo, callVars, tmp>>
      BY <2>2, ZenonT(30) DEF ClusterStep, EventHandlerFuncs, TimerTick, InformerStep, synchVars
    <3>. QED
      BY <2>1, <3>1, WindowAround
  <2>3. CASE WorkerReceive
    BY <2>1, <2>3, Zenon DEF WorkerReceive, WindowInv, NothingMore, NothingLess, Calling
  <2>4. ~Restock /\ ~SynchFails
    BY <1>3 DEF Restock, SynchFails
  <2>. QED
    BY <1>3, <2>1, <2>2, <2>3, <2>4, WindowLists, WindowCalls, WindowVisits,
       WindowTurns, WindowReturns DEF Next, WorkerStep
<1>. QED
  BY <1>1, <1>2, <1>3

(* RestockIsRegular: for every cluster and every interleaving of the       *)
(* informers with a synch, Restock publishes no pair without a listed      *)
(* namespace, a binding and a role that were in the stores during the      *)
(* synch, and every pair whose namespace, binding and role were there all  *)
(* along.                                                                  *)
THEOREM SynchIsRegular == WindowSpec => RestockIsRegular
<1>. DEFINE Regular ==
         Restock =>
           \A s \in Subjects, n \in Namespaces :
             /\ <<s, n>> \in data' =>
                    /\ n \in window.everNs
                    /\ \/ s = SystemMasters
                       \/ Path(window.everLinks, window.everGrants, s, n)
             /\ /\ n \in window.alwaysNs
                /\ Path(window.alwaysLinks, window.alwaysGrants, s, n)
                => <<s, n>> \in data'
<1>1. WindowInit => TypeOK /\ WindowInv
  <2>. SUFFICES ASSUME WindowInit PROVE TypeOK /\ WindowInv
    OBVIOUS
  <2>1. TypeOK /\ pc = "idle" /\ window = Now
    BY TypeInit DEF WindowInit, Init
  <2>2. Brackets
    BY <2>1, Zenon DEF Brackets, Now
  <2>3. pc # "range" /\ ~Calling
    BY <2>1 DEF Calling
  <2>. QED
    BY <2>1, <2>2, <2>3, Zenon DEF WindowInv, NothingMore, NothingLess
<1>2. TypeOK /\ WindowInv /\ [Next /\ WindowNext]_wvars => TypeOK' /\ WindowInv'
  BY WindowNextInv, TypeNext, ZenonT(30) DEF wvars
<1>3. WindowInv => Regular
  <2>. SUFFICES ASSUME WindowInv, Restock, NEW s \in Subjects, NEW n \in Namespaces
                PROVE  /\ <<s, n>> \in tmp => n \in window.everNs /\ Found(s, n)
                       /\ /\ n \in window.alwaysNs
                          /\ Path(window.alwaysLinks, window.alwaysGrants, s, n)
                          => <<s, n>> \in tmp
    BY Zenon DEF Restock, Found
  <2>1. pc = "range" /\ todo = {} /\ ~Calling
    BY ZenonT(30) DEF Restock, Calling
  <2>2. ASSUME n \in window.alwaysNs,
               Path(window.alwaysLinks, window.alwaysGrants, s, n)
        PROVE  <<s, n>> \in tmp
    BY <2>1, <2>2, Zenon DEF Path, WindowInv, NothingLess
  <2>. QED
    BY <2>1, <2>2, Zenon DEF WindowInv, NothingMore
<1>. HIDE DEF Regular
<1>4. WindowSpec => [](TypeOK /\ WindowInv)
  BY <1>1, <1>2, PTL DEF WindowSpec
<1>5. WindowSpec => [][Regular]_wvars
  BY <1>3, <1>4, PTL
<1>. QED
  BY <1>5 DEF RestockIsRegular, Regular

================================================================================
