-------------------------- MODULE NamespaceCalculation --------------------------
(***************************************************************************)
(* What one iteration of synch's loop makes of a namespace: the duplicate  *)
(* subjects it drops, the virtual labels it sets and the maps it sets them *)
(* in. The resource cache is built with DefaultUnsafeDisableDeepCopy, so   *)
(* the Labels map of a listed namespace is the informer's own: synch       *)
(* writes the visibility label there, and each published namespace must    *)
(* own the map that carries its access label.                              *)
(*                                                                         *)
(* Maps live in a heap. An address says who made the map; a bit tells the  *)
(* current map from the one it replaces.                                   *)
(***************************************************************************)
EXTENDS Naturals, Sequences, FiniteSets, Functions

CONSTANTS Namespaces,   \* names of namespaces
          Subjects,     \* rbacv1.Subject values, [kind, name]
          Rank,         \* the position of a subject in the order of the sort
          MaxAnswer,    \* bound: subjects in one answer of AllowedSubjects
          Nil           \* the nil map

SystemAuthenticated == [kind |-> "Group", name |-> "system:authenticated"]

ASSUME SubjectsAssumption ==
    /\ SystemAuthenticated \in Subjects
    /\ \A s \in Subjects : s.kind \in {"User", "Group", "ServiceAccount"}
    /\ Rank \in [Subjects -> Nat]
    /\ \A s, t \in Subjects : Rank[s] = Rank[t] => s = t
    /\ MaxAnswer \in Nat

Bit == {0, 1}
InformerMaps == {"informer"} \X Namespaces \X Bit
CopiedMaps == {"copy"} \X Namespaces \X Subjects \X Bit
Addresses == InformerMaps \cup CopiedMaps

ASSUME NilAssumption == Nil \notin Addresses

(* What AllowedSubjects may answer.                                        *)
Answers == UNION {[1..k -> Subjects] : k \in 0..MaxAnswer}

(* Mutant: the kind is taken as it is written.                             *)
KindAsWritten(kind) == kind

ToLower(kind) ==
    CASE kind = "User" -> "user"
      [] kind = "Group" -> "group"
      [] kind = "ServiceAccount" -> "serviceaccount"

Labels == [visibility : {"unset", "private", "authenticated"},
           access : {"unset", "user", "group", "serviceaccount"}]

Unset == [visibility |-> "unset", access |-> "unset"]

VARIABLES
    store,      \* store[n]: the Labels pointer of n in the informer
    heap,       \* heap[a]: the virtual labels in the map at a
    pc,         \* "idle" or "range"
    bit,        \* the bit of the copies this synch makes
    todo,       \* the items the loop has not visited, [name, labels]
    rest,       \* the iterations left of the inner loop, [ns, subject]
    c,          \* the AccessData under construction
    data,       \* the AccessData published
    answers,    \* history: the subjects this synch was given per namespace
    published   \* history: the same for the data published

vars == <<store, heap, pc, bit, todo, rest, c, data, answers, published>>

NoEntries == [s \in Subjects |-> <<>>]
NoAnswers == [n \in Namespaces |-> {}]

--------------------------------------------------------------------------------
(* The helpers of one iteration.                                           *)

Rearrangements(ss) ==
    {[i \in DOMAIN ss |-> ss[p[i]]] : p \in Bijection(DOMAIN ss, DOMAIN ss)}

InOrder(ss) == \A i, j \in DOMAIN ss : i < j => Rank[ss[i]] <= Rank[ss[j]]

(* slices.SortFunc: the elements rearranged in the order of their ranks.   *)
SortFunc(ss) == CHOOSE t \in Rearrangements(ss) : InOrder(t)

(* The positions of the elements that differ from the one before them.     *)
Kept(ss) == {i \in DOMAIN ss : i = 1 \/ ss[i] # ss[i - 1]}

(* The k-th smallest element of a set of positions.                        *)
Nth(S, k) == CHOOSE i \in S : Cardinality({j \in S : j <= i}) = k

(* slices.CompactFunc: an element equal to the one before it is dropped.   *)
CompactFunc(ss) ==
    [k \in 1..Cardinality(Kept(ss)) |-> ss[Nth(Kept(ss), k)]]

(* Mutant: duplicates are dropped without sorting first.                   *)
CompactUnsorted(ss) == CompactFunc(ss)

removeDuplicateSubjects(ss) == CompactFunc(SortFunc(ss))

Visibility(subs) ==
    IF SystemAuthenticated \in subs THEN "authenticated" ELSE "private"

(* Mutant: only the authenticated case sets the label.                     *)
setVisibilityIfShared(h, ns, subs) ==
    IF ns.labels = Nil \/ SystemAuthenticated \notin subs THEN h
    ELSE [h EXCEPT ![ns.labels].visibility = "authenticated"]

(* The label goes into the map the namespace has; a map made because it    *)
(* has none is dropped on return.                                          *)
setVisibilityVirtualLabel(h, ns, subs) ==
    IF ns.labels = Nil THEN h
    ELSE [h EXCEPT ![ns.labels].visibility = Visibility(subs)]

Copied(ns, s) == <<"copy", ns.name, s, bit>>

(* Mutant: no DeepCopy, the access label goes into the listed map.         *)
LabelsOfListed(ns, s) == IF ns.labels = Nil THEN Copied(ns, s) ELSE ns.labels

(* The map that carries the labels of the namespace handed to subject s.   *)
LabelsOfCopy(ns, s) == Copied(ns, s)

withVirtualLabelsAndAnnotationsForAccess(h, ns, s) ==
    LET ll == IF ns.labels = Nil THEN Unset ELSE h[ns.labels]
    IN  [h EXCEPT ![LabelsOfCopy(ns, s)] = [ll EXCEPT !.access = ToLower(s.kind)]]

Entry(ns, s) ==
    [name |-> ns.name, labels |-> LabelsOfCopy(ns, s), subject |-> s.name,
     bare |-> ns.labels = Nil]

--------------------------------------------------------------------------------

Init ==
    /\ \E bare \in SUBSET Namespaces :
           store = [n \in Namespaces |-> IF n \in bare THEN Nil
                                         ELSE <<"informer", n, 0>>]
    /\ heap = [a \in Addresses |-> Unset]
    /\ pc = "idle"
    /\ bit = 0
    /\ todo = {}
    /\ rest = <<>>
    /\ c = NoEntries
    /\ data = NoEntries
    /\ answers = NoAnswers
    /\ published = NoAnswers

(* Once a synch is over, nothing refers to the copies of the one given up  *)
(* or replaced, nor to the informer maps that events have replaced.        *)
Collected(b) ==
    [a \in Addresses |-> IF \/ a \in {"copy"} \X Namespaces \X Subjects \X {b}
                            \/ a \in InformerMaps \ Range(store)
                         THEN Unset ELSE heap[a]]

(* synch holds the map of a namespace it has not finished with.            *)
Held(a) ==
    \/ \E ns \in todo : ns.labels = a
    \/ \E i \in DOMAIN rest : rest[i].ns.labels = a

(* An event replaces the object in the informer's store by another, with a *)
(* map of its own; the old one lives on while a synch holds it.            *)
NamespaceUpdated(n, a) ==
    /\ store[n] \notin {Nil, a}
    /\ ~Held(a)
    /\ store' = [store EXCEPT ![n] = a]
    /\ heap' = [b \in Addresses |-> IF b = a \/ (b = store[n] /\ ~Held(b))
                                   THEN Unset ELSE heap[b]]
    /\ UNCHANGED <<pc, bit, todo, rest, c, data, answers, published>>

(* synch starts: the items share their maps with the informer.             *)
ListNamespaces ==
    /\ pc = "idle"
    /\ pc' = "range"
    /\ bit' = 1 - bit
    /\ todo' = {[name |-> n, labels |-> store[n]] : n \in Namespaces}
    /\ c' = NoEntries
    /\ answers' = NoAnswers
    /\ UNCHANGED <<store, heap, rest, data, published>>

(* One iteration of the loop up to the inner loop, with what               *)
(* AllowedSubjects answered: possibly partial, possibly with duplicates,   *)
(* in any order.                                                           *)
CalculateNamespace(ns, answer) ==
    LET ss == removeDuplicateSubjects(answer)
    IN  /\ pc = "range"
        /\ rest = <<>>
        /\ ns \in todo
        /\ heap' = setVisibilityVirtualLabel(heap, ns, Range(ss))
        /\ rest' = [i \in DOMAIN ss |-> [ns |-> ns, subject |-> ss[i]]]
        /\ todo' = todo \ {ns}
        /\ answers' = [answers EXCEPT ![ns.name] = Range(answer)]
        /\ UNCHANGED <<store, pc, bit, c, data, published>>

(* One iteration of the inner loop.                                        *)
AddToSubject(ns, s) ==
    /\ rest # <<>>
    /\ Head(rest) = [ns |-> ns, subject |-> s]
    /\ heap' = withVirtualLabelsAndAnnotationsForAccess(heap, ns, s)
    /\ c' = [c EXCEPT ![s] = Append(@, Entry(ns, s))]
    /\ rest' = Tail(rest)
    /\ UNCHANGED <<store, pc, bit, todo, data, answers, published>>

(* The context is done: what the loop wrote to the informer's maps stays.  *)
Interrupted ==
    /\ pc = "range"
    /\ rest = <<>>
    /\ todo # {}
    /\ pc' = "idle"
    /\ bit' = 1 - bit
    /\ todo' = {}
    /\ c' = NoEntries
    /\ answers' = NoAnswers
    /\ heap' = Collected(bit)
    /\ UNCHANGED <<store, rest, data, published>>

Restock ==
    /\ pc = "range"
    /\ rest = <<>>
    /\ todo = {}
    /\ data' = c
    /\ published' = answers
    /\ pc' = "idle"
    /\ c' = NoEntries
    /\ answers' = NoAnswers
    /\ heap' = Collected(1 - bit)
    /\ UNCHANGED <<store, bit, todo, rest>>

Next ==
    \/ \E n \in Namespaces, b \in Bit : NamespaceUpdated(n, <<"informer", n, b>>)
    \/ ListNamespaces
    \/ \E ns \in todo, answer \in Answers : CalculateNamespace(ns, answer)
    \/ \E i \in DOMAIN rest : AddToSubject(rest[i].ns, rest[i].subject)
    \/ Interrupted
    \/ Restock

Spec == Init /\ [][Next]_vars

--------------------------------------------------------------------------------
(* Properties.                                                             *)

Entries == [name : Namespaces, labels : Addresses,
            subject : {s.name : s \in Subjects}, bare : BOOLEAN]

Items == [name : Namespaces, labels : {Nil} \cup InformerMaps]

Iterations == [ns : Items, subject : Subjects]

(* Every namespace points to a map of its own or to none, and both         *)
(* AccessData map subjects to lists of namespaces.                         *)
TypeOK ==
    /\ store \in [Namespaces -> {Nil} \cup InformerMaps]
    /\ \A n \in Namespaces : store[n] \in {Nil} \cup ({"informer"} \X {n} \X Bit)
    /\ heap \in [Addresses -> Labels]
    /\ pc \in {"idle", "range"}
    /\ bit \in Bit
    /\ todo \subseteq Items
    /\ rest \in Seq(Iterations)
    /\ c \in [Subjects -> Seq(Entries)]
    /\ data \in [Subjects -> Seq(Entries)]
    /\ answers \in [Namespaces -> SUBSET Subjects]
    /\ published \in [Namespaces -> SUBSET Subjects]

(* removeDuplicateSubjects and the inner loop of synch: a subject's list   *)
(* has each namespace that allows it, once, and each carries the access    *)
(* label of that subject's kind, at any time while it is published.        *)
PublishedAsCalculated ==
    \A s \in Subjects :
        /\ {data[s][i].name : i \in DOMAIN data[s]}
               = {n \in Namespaces : s \in published[n]}
        /\ IsInjective([i \in DOMAIN data[s] |-> data[s][i].name])
        /\ \A e \in Range(data[s]) : /\ heap[e.labels].access = ToLower(s.kind)
                                     /\ e.subject = s.name

(* setVisibilityVirtualLabel: a published namespace that has labels says   *)
(* `authenticated` exactly when the synch that published it found it       *)
(* shared with system:authenticated, whatever an earlier or a later synch  *)
(* left in the map it shares with the informer.                            *)
VisibilityAsCalculated ==
    \A s \in Subjects : \A e \in Range(data[s]) :
        ~e.bare => heap[e.labels].visibility = Visibility(published[e.name])

(* withVirtualLabelsAndAnnotationsForAccess: "we need to deepcopy          *)
(* otherwise we'll have side effects". No subject's access label ever      *)
(* shows in a map of the informer.                                         *)
NoSideEffectsOnListed == \A a \in InformerMaps : heap[a].access = "unset"

================================================================================
