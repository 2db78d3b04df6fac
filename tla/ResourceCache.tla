----------------------------- MODULE ResourceCache -----------------------------
(***************************************************************************)
(* The resource cache: one informer for each watched kind follows the API  *)
(* server through its own watch, drops what its label selector leaves out, *)
(* transforms what is left and stores it. Events of one kind arrive in     *)
(* order; nothing orders the events of different kinds.                    *)
(*                                                                         *)
(* Objects keep the fields that decide who can get a namespace. The fields *)
(* that the transforms clear besides (annotations, managed fields, spec    *)
(* and status of a namespace) are left out, and so are the type errors of  *)
(* the transforms: an informer holds objects of its own kind only.         *)
(***************************************************************************)
EXTENDS Naturals, Sequences

CONSTANTS Namespaces,  \* names of namespaces
          Subjects,    \* rbacv1.Subject values
          Keys,        \* the objects of the cluster: kind, namespace, name
          Contents,    \* Contents[k]: what the object k may be made of
          Initially,   \* bound: the clusters the process may start in
          Absent,      \* no object
          Nil,         \* what a transform makes of an object of no interest
          MaxChanges   \* bound: changes to the cluster

RoleKinds == {"Role", "ClusterRole"}
BindingKinds == {"RoleBinding", "ClusterRoleBinding"}

(* cachedObjects                                                           *)
Kinds == {"Namespace"} \cup RoleKinds \cup BindingKinds

(* A rule lists what it covers; no resource name means every resource.     *)
PolicyRules ==
    [apiGroups : SUBSET {"", "apps", "*"},
     resources : SUBSET {"namespaces", "pods", "*"},
     verbs : SUBSET {"get", "list", "*"},
     resourceNames : SUBSET Namespaces]

Objects(kind) ==
    CASE kind = "Namespace" -> [labelled : BOOLEAN]
      [] kind \in RoleKinds -> [rules : SUBSET PolicyRules]
      [] kind \in BindingKinds -> [roleKind : RoleKinds, roleName : STRING,
                                   subjects : SUBSET Subjects,
                                   labelled : BOOLEAN]

ASSUME ResourceAssumption ==
    /\ \A k \in Keys : k.kind \in Kinds /\ Contents[k] \subseteq Objects(k.kind)
    /\ \A kind \in Kinds : Absent \notin Objects(kind) /\ Nil \notin Objects(kind)
    /\ \A c \in Initially :
           DOMAIN c = Keys /\ \A k \in Keys : c[k] \in Contents[k] \cup {Absent}
    /\ MaxChanges \in Nat

VARIABLES selecting,  \* CACHE_NAMESPACE_LABELSELECTOR holds a selector
          cluster,    \* cluster[k]: the object k of the API server, or Absent
          queue,      \* queue[kind]: watch events the informer has to process
          store,      \* store[k]: the object k of the informer, or Absent
          pending,    \* calls of the event handlers still to be made
          kept,       \* history: keys of which the store kept an old object
          changes     \* bound counter

resourceVars == <<selecting, cluster, queue, store, pending, kept, changes>>

--------------------------------------------------------------------------------
(* Selectors and transforms.                                               *)

(* A rule that matches keeps its resource names and nothing else.          *)
Narrowed(r) == [apiGroups |-> {""}, resources |-> {"namespaces"},
                verbs |-> {"get"}, resourceNames |-> r.resourceNames]

(* Mutant: the rules of any verb are kept.                                 *)
filterAnyVerb(pp) ==
    {Narrowed(r) :
        r \in {q \in pp : "" \in q.apiGroups /\ "namespaces" \in q.resources}}

filterNamespacesRelatedPolicyRules(pp) ==
    {Narrowed(r) : r \in {q \in pp : /\ "" \in q.apiGroups
                                     /\ "namespaces" \in q.resources
                                     /\ "get" \in q.verbs}}

(* Mutant: a role that is left without rules is stored all the same.       *)
TrimRoleEvenIfEmpty(obj) ==
    [obj EXCEPT !.rules = filterNamespacesRelatedPolicyRules(obj.rules)]

(* TrimRole and TrimClusterRole                                            *)
TrimRole(obj) ==
    LET rules == filterNamespacesRelatedPolicyRules(obj.rules)
    IN  IF rules = {} THEN Nil ELSE [obj EXCEPT !.rules = rules]

(* byObjectTransformers: the transforms of the other kinds clear only what *)
(* is left out here.                                                       *)
Transform(k, obj) == IF k.kind \in RoleKinds THEN TrimRole(obj) ELSE obj

(* What a stored object looks like: a role has rules, all of them narrow.  *)
Trimmed(k, obj) ==
    k.kind \in RoleKinds =>
        obj.rules # {} /\ \A r \in obj.rules : r = Narrowed(r)

(* byObjectTransformers: namespaces by the configured selector, cluster    *)
(* role bindings by their own label.                                       *)
Selected(k, obj) ==
    CASE k.kind = "Namespace" -> selecting => obj.labelled
      [] k.kind = "ClusterRoleBinding" -> obj.labelled
      [] OTHER -> TRUE

(* What a watch with the selector of k's kind shows of obj.                *)
Watched(k, obj) == IF obj # Absent /\ Selected(k, obj) THEN obj ELSE Absent

(* What the informer is meant to hold for obj.                             *)
Cached(k, obj) ==
    IF Watched(k, obj) = Absent \/ Transform(k, obj) = Nil
    THEN Absent ELSE Transform(k, obj)

--------------------------------------------------------------------------------

(* The informers have listed the cluster and called the handlers.          *)
ResourceInit ==
    /\ selecting \in BOOLEAN
    /\ cluster \in Initially
    /\ queue = [kind \in Kinds |-> <<>>]
    /\ store = [k \in Keys |-> Cached(k, cluster[k])]
    /\ pending = 0
    /\ kept = {}
    /\ changes = 0

Events(kind) ==
    {e \in [key : {k \in Keys : k.kind = kind},
            last : Objects(kind) \cup {Absent},
            obj : Objects(kind) \cup {Absent}] :
        e.last # Absent \/ e.obj # Absent}

(* The API server rejects a new role reference in an existing binding.     *)
Updatable(k, obj) ==
    k.kind \in BindingKinds /\ obj # Absent /\ cluster[k] # Absent =>
        /\ obj.roleKind = cluster[k].roleKind
        /\ obj.roleName = cluster[k].roleName

ClusterChanges(k, obj) ==
    /\ changes < MaxChanges
    /\ changes' = changes + 1
    /\ obj # cluster[k]
    /\ Updatable(k, obj)
    /\ cluster' = [cluster EXCEPT ![k] = obj]
    /\ queue' = IF Watched(k, cluster[k]) = Absent /\ Watched(k, obj) = Absent
                THEN queue
                ELSE [queue EXCEPT ![k.kind] =
                         Append(@, [key |-> k, last |-> Watched(k, cluster[k]),
                                    obj |-> Watched(k, obj)])]
    /\ UNCHANGED <<selecting, store, pending, kept>>

(* What the transform makes of an event; a deletion carries the last state *)
(* of the object.                                                          *)
Transformed(e) == Transform(e.key, IF e.obj # Absent THEN e.obj ELSE e.last)

(* The informer stores the object, then notifies the handlers.             *)
Deliver(kind) ==
    /\ queue[kind] # <<>>
    /\ LET e == Head(queue[kind])
       IN  /\ Transformed(e) # Nil
           /\ store' = [store EXCEPT ![e.key] =
                           IF e.obj = Absent THEN Absent ELSE Transformed(e)]
           /\ kept' = kept \ {e.key}
    /\ queue' = [queue EXCEPT ![kind] = Tail(@)]
    /\ pending' = pending + 1
    /\ UNCHANGED <<selecting, cluster, changes>>

(* The transform yields nil. The repository takes the old object to be     *)
(* evicted; an informer that cannot tell the key of nil keeps it, and      *)
(* tells nobody. Both are allowed here.                                    *)
DeliverNil(kind, evicted) ==
    /\ queue[kind] # <<>>
    /\ LET e == Head(queue[kind])
       IN  /\ Transformed(e) = Nil
           /\ IF evicted \/ store[e.key] = Absent
              THEN /\ store' = [store EXCEPT ![e.key] = Absent]
                   /\ pending' = pending + 1
                   /\ kept' = kept \ {e.key}
              ELSE /\ kept' = kept \cup {e.key}
                   /\ UNCHANGED <<store, pending>>
    /\ queue' = [queue EXCEPT ![kind] = Tail(@)]
    /\ UNCHANGED <<selecting, cluster, changes>>

================================================================================
