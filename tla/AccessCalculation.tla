--------------------------- MODULE AccessCalculation ---------------------------
(***************************************************************************)
(* From the cluster to the published access data: the worker's synch lists *)
(* the namespaces, and for each of them AllowedSubjects reads the bindings *)
(* and then the role of each binding through CRAuthRetriever, one read of  *)
(* an informer's store after the other, while the informers move on.       *)
(*                                                                         *)
(* One synch runs at a time and main's is the first, as                    *)
(* SynchronizedAccessCache shows; here the worker's synchs are followed.   *)
(***************************************************************************)
EXTENDS ResourceCache

CONSTANT SystemMasters  \* the group AllowedSubjects adds to every answer

ASSUME SynchAssumption == SystemMasters \in Subjects

VARIABLES requested,  \* s.requested, a channel of capacity one, is full
          pc,         \* where the worker is
          todo,       \* the namespaces the range loop has not visited
          ns,         \* the namespace AllowedSubjects was called for
          visiting,   \* the listed bindings AllowedSubjects has not visited
          answer,     \* the subjects AllowedSubjects has found
          tmp,        \* the access data the synch is filling
          data,       \* the access data published, as pairs
          dropped     \* history: the last synch gave up

callVars == <<ns, visiting, answer>>
synchVars == <<requested, pc, todo, callVars, tmp, data, dropped>>
vars == <<resourceVars, synchVars>>

NamespaceKey(n) == [kind |-> "Namespace", namespace |-> "", name |-> n]

InStore(k) == k \in Keys /\ store[k] # Absent

(* The handlers have been called for what the informers listed.            *)
Init ==
    /\ ResourceInit
    /\ requested = TRUE
    /\ pc = "idle"
    /\ todo = {}
    /\ ns = Absent
    /\ visiting = {}
    /\ answer = {}
    /\ tmp = {}
    /\ data = {}
    /\ dropped = FALSE

--------------------------------------------------------------------------------
(* CRAuthRetriever.                                                        *)

Bindings(keys) ==
    {[key |-> k, obj |-> store[k]] : k \in {j \in keys : InStore(j)}}

ListClusterRoleBindings ==
    Bindings({k \in Keys : k.kind = "ClusterRoleBinding"})

(* Mutant: the list is not limited to the namespace.                       *)
ListRoleBindingsEverywhere(n) ==
    Bindings({k \in Keys : k.kind = "RoleBinding"})

ListRoleBindings(n) ==
    Bindings({k \in Keys : k.kind = "RoleBinding" /\ k.namespace = n})

(* GetRole in the namespace of the binding k, or GetClusterRole.           *)
RoleKey(k, binding) ==
    [kind |-> binding.roleKind,
     namespace |-> IF binding.roleKind = "Role" THEN k.namespace ELSE "",
     name |-> binding.roleName]

(* A role that is not found is an error, which AllowedSubjects collects    *)
(* and synch drops: the binding contributes nothing.                       *)
GetRules(k) == IF InStore(k) THEN store[k].rules ELSE {}

(* The authorizer's own reading of the rules, wildcards included.          *)
RulesAllow(rules, n) ==
    \E r \in rules : /\ r.apiGroups \cap {"", "*"} # {}
                     /\ r.resources \cap {"namespaces", "*"} # {}
                     /\ r.verbs \cap {"get", "*"} # {}
                     /\ r.resourceNames = {} \/ n \in r.resourceNames

--------------------------------------------------------------------------------
(* The event handlers and the worker.                                      *)

EventHandlerFuncs ==
    /\ pending > 0
    /\ pending' = pending - 1
    /\ requested' = TRUE
    /\ UNCHANGED <<selecting, cluster, queue, store, kept, changes, pc, todo,
                   callVars, tmp, data, dropped>>

(* Mutant: the timer loop waits but requests nothing.                      *)
TimerWaits == ~requested /\ UNCHANGED vars

TimerTick ==
    /\ ~requested
    /\ requested' = TRUE
    /\ UNCHANGED <<resourceVars, pc, todo, callVars, tmp, data, dropped>>

WorkerReceive ==
    /\ pc = "idle"
    /\ requested
    /\ requested' = FALSE
    /\ pc' = "list"
    /\ dropped' = FALSE
    /\ UNCHANGED <<resourceVars, todo, callVars, tmp, data>>

ListNamespaces ==
    /\ pc = "list"
    /\ todo' = {n \in Namespaces : InStore(NamespaceKey(n))}
    /\ tmp' = {}
    /\ pc' = "range"
    /\ UNCHANGED <<resourceVars, requested, callVars, data, dropped>>

(* AllowedSubjects begins with the cluster role bindings.                  *)
AllowedSubjects(n) ==
    /\ pc = "range"
    /\ n \in todo
    /\ todo' = todo \ {n}
    /\ ns' = n
    /\ answer' = {SystemMasters}
    /\ visiting' = ListClusterRoleBindings
    /\ pc' = "clusterBindings"
    /\ UNCHANGED <<resourceVars, requested, tmp, data, dropped>>

VisitBinding(b) ==
    /\ pc \in {"clusterBindings", "bindings"}
    /\ b \in visiting
    /\ visiting' = visiting \ {b}
    /\ answer' = IF RulesAllow(GetRules(RoleKey(b.key, b.obj)), ns)
                 THEN answer \cup b.obj.subjects ELSE answer
    /\ UNCHANGED <<resourceVars, requested, pc, todo, ns, tmp, data, dropped>>

VisitNamespace ==
    /\ pc = "clusterBindings"
    /\ visiting = {}
    /\ visiting' = ListRoleBindings(ns)
    /\ pc' = "bindings"
    /\ UNCHANGED <<resourceVars, requested, todo, ns, answer, tmp, data, dropped>>

(* What AllowedSubjects returns goes into the temporary data; its locals   *)
(* die with the call, and those of synch with the publication.             *)
Calculated ==
    /\ pc = "bindings"
    /\ visiting = {}
    /\ tmp' = tmp \cup (answer \X {ns})
    /\ pc' = "range"
    /\ ns' = Absent
    /\ answer' = {}
    /\ UNCHANGED <<resourceVars, requested, todo, visiting, data, dropped>>

Restock ==
    /\ pc = "range"
    /\ todo = {}
    /\ data' = tmp
    /\ tmp' = {}
    /\ pc' = "idle"
    /\ UNCHANGED <<resourceVars, requested, todo, callVars, dropped>>

(* The deadline has passed: the list fails, or the loop stops before the   *)
(* next namespace. Nothing is published and the worker tells nobody.       *)
SynchFails ==
    /\ \/ pc = "list"
       \/ pc = "range" /\ todo # {}
    /\ pc' = "idle"
    /\ todo' = {}
    /\ tmp' = {}
    /\ dropped' = TRUE
    /\ UNCHANGED <<resourceVars, requested, callVars, data>>

WorkerStep ==
    \/ WorkerReceive
    \/ ListNamespaces
    \/ \E n \in Namespaces : AllowedSubjects(n)
    \/ \E b \in visiting : VisitBinding(b)
    \/ VisitNamespace
    \/ Calculated
    \/ Restock

ClusterStep ==
    \E k \in Keys : \E obj \in Contents[k] \cup {Absent} :
        ClusterChanges(k, obj) /\ UNCHANGED synchVars

InformerStep(kind) ==
    /\ \/ Deliver(kind)
       \/ \E evicted \in BOOLEAN : DeliverNil(kind, evicted)
    /\ UNCHANGED synchVars

Next ==
    \/ ClusterStep
    \/ \E kind \in Kinds : InformerStep(kind)
    \/ EventHandlerFuncs
    \/ TimerTick
    \/ WorkerStep
    \/ SynchFails

Spec == Init /\ [][Next]_vars

(* Watches deliver, informers call the handlers, time.After fires and the  *)
(* worker runs. Nothing obliges a synch to fail, or to succeed.            *)
Fairness ==
    /\ WF_vars(\E kind \in Kinds : InformerStep(kind))
    /\ WF_vars(EventHandlerFuncs)
    /\ WF_vars(TimerTick)
    /\ WF_vars(WorkerStep)

FairSpec == Spec /\ Fairness

--------------------------------------------------------------------------------
(* Properties.                                                             *)

(* Stores hold trimmed objects of the kind of their key, watch events tell *)
(* of an object, and the worker's locals keep to their Go types.           *)
TypeOK ==
    /\ selecting \in BOOLEAN
    /\ DOMAIN cluster = Keys
    /\ \A k \in Keys : cluster[k] \in Objects(k.kind) \cup {Absent}
    /\ DOMAIN queue = Kinds
    /\ \A kind \in Kinds : queue[kind] \in Seq(Events(kind))
    /\ DOMAIN store = Keys
    /\ \A k \in Keys : store[k] \in Objects(k.kind) \cup {Absent}
    /\ \A k \in Keys : store[k] # Absent => Trimmed(k, store[k])
    /\ pending \in Nat
    /\ kept \subseteq Keys
    /\ changes \in Nat
    /\ requested \in BOOLEAN
    /\ pc \in {"idle", "list", "range", "clusterBindings", "bindings"}
    /\ todo \subseteq Namespaces
    /\ pc \in {"clusterBindings", "bindings"} => ns \in Namespaces
    /\ \A b \in visiting : /\ b.key \in Keys
                           /\ b.key.kind \in BindingKinds
                           /\ b.obj \in Objects(b.key.kind)
    /\ answer \subseteq Subjects
    /\ tmp \subseteq Subjects \X Namespaces
    /\ data \subseteq Subjects \X Namespaces
    /\ dropped \in BOOLEAN

Quiet ==
    /\ \A kind \in Kinds : queue[kind] = <<>>
    /\ pending = 0
    /\ ~requested
    /\ pc = "idle"

(* The role grants the get of n in so many words.                          *)
Literal(role, n) ==
    \E r \in role.rules : /\ "" \in r.apiGroups
                          /\ "namespaces" \in r.resources
                          /\ "get" \in r.verbs
                          /\ r.resourceNames = {} \/ n \in r.resourceNames

(* What the roles of the cluster grant, and what a role that the store     *)
(* kept grants still.                                                      *)
ClusterGrants ==
    {g \in Keys \X Namespaces :
        /\ g[1].kind \in RoleKinds
        /\ cluster[g[1]] # Absent
        /\ Literal(cluster[g[1]], g[2])}
KeptGrants ==
    {g \in kept \X Namespaces : RulesAllow(store[g[1]].rules, g[2])}

ClusterNamespaces ==
    {n \in Namespaces :
        LET k == NamespaceKey(n)
        IN  k \in Keys /\ cluster[k] # Absent /\ (selecting => cluster[k].labelled)}

(* Role bindings count in their namespace, cluster role bindings with the  *)
(* label in every namespace.                                               *)
Applies(k, n) ==
    \/ k.kind = "RoleBinding" /\ k.namespace = n
    \/ k.kind = "ClusterRoleBinding" /\ cluster[k].labelled

AccessBy(grants) ==
    {a \in Subjects \X Namespaces :
        /\ a[2] \in ClusterNamespaces
        /\ \/ a[1] = SystemMasters
           \/ \E k \in Keys : /\ cluster[k] # Absent
                              /\ Applies(k, a[2])
                              /\ a[1] \in cluster[k].subjects
                              /\ <<RoleKey(k, cluster[k]), a[2]>> \in grants}

(* Everything granted is published, and nothing else is, except through a  *)
(* role that the store kept.                                               *)
Granted ==
    /\ AccessBy(ClusterGrants) \subseteq data
    /\ data \subseteq AccessBy(ClusterGrants \cup KeptGrants)

(* byObjectTransformers, CRAuthRetriever, Request and synch together: once *)
(* the informers and the worker have nothing left to do, the published     *)
(* data is what the cluster grants in so many words, in whichever order    *)
(* bindings, roles and namespaces arrived and whatever was missing when a  *)
(* synch looked for it, unless the last synch gave up.                     *)
PublishedIsGranted == Quiet /\ ~dropped => Granted

(* The same in time, by the timer of Start: once the cluster stops         *)
(* changing and synchs stop to outlive synchTimeout, the published data    *)
(* becomes and stays what the cluster grants.                              *)
AccessConverges == <>[][~SynchFails]_vars => <>[]Granted

================================================================================
