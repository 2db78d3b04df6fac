----------------------- MODULE NamespaceCalculationSteps ------------------------
(***************************************************************************)
(* The inductive invariant of NamespaceCalculation and the steps that keep *)
(* it, given what removeDuplicateSubjects does.                            *)
(***************************************************************************)
EXTENDS NamespaceCalculation, SequenceTheorems, TLAPS

(* What synch relies on removeDuplicateSubjects for. It is a theorem of    *)
(* NamespaceCalculationProofs.                                             *)
DuplicatesRemoved ==
    \A ss \in Seq(Subjects) :
        /\ removeDuplicateSubjects(ss) \in Seq(Subjects)
        /\ Range(removeDuplicateSubjects(ss)) = Range(ss)
        /\ IsInjective(removeDuplicateSubjects(ss))
        /\ InOrder(removeDuplicateSubjects(ss))

--------------------------------------------------------------------------------
(* The inductive invariant.                                                *)

(* The bit of the copies that data refers to.                              *)
PublishedBit == IF pc = "idle" THEN bit ELSE 1 - bit

Names(list) == {list[i].name : i \in DOMAIN list}

(* The inner loop still has to add namespace n to subject s.               *)
Awaits(n, s) ==
    \E i \in DOMAIN rest : rest[i].ns.name = n /\ rest[i].subject = s

(* Entry e of subject s carries its own map, made with bit b, and in it    *)
(* the labels that go with the subjects ans of its namespace.              *)
Labelled(h, e, s, ans, b) ==
    /\ e.labels = <<"copy", e.name, s, b>>
    /\ e.subject = s.name
    /\ h[e.labels].access = ToLower(s.kind)
    /\ ~e.bare => h[e.labels].visibility = Visibility(ans[e.name])

AllLabelled(h, f, ans, b) ==
    \A s \in Subjects : \A i \in DOMAIN f[s] : Labelled(h, f[s][i], s, ans, b)

NamedOnce(f) ==
    \A s \in Subjects : \A i, j \in DOMAIN f[s] : f[s][i].name = f[s][j].name => i = j

(* What List reads: complete, and out of reach of the running synch, whose *)
(* copies have the other bit.                                              *)
DataInv ==
    /\ AllLabelled(heap, data, published, PublishedBit)
    /\ NamedOnce(data)
    /\ \A s \in Subjects, n \in Namespaces : n \in Names(data[s]) <=> s \in published[n]

(* What synch has put together: every answer so far is in c or in the      *)
(* iterations left, and never in both.                                     *)
LoopInv ==
    /\ pc = "idle" => rest = <<>>
    /\ AllLabelled(heap, c, answers, bit)
    /\ NamedOnce(c)
    /\ \A s \in Subjects, n \in Namespaces :
           s \in answers[n] <=> n \in Names(c[s]) \/ Awaits(n, s)
    /\ \A s \in Subjects, n \in Namespaces : ~(n \in Names(c[s]) /\ Awaits(n, s))

(* The iterations left are for one namespace and different subjects, and   *)
(* the visibility label is in its map already. The items not visited have  *)
(* different names and no answer yet.                                      *)
RestInv ==
    /\ \A i, j \in DOMAIN rest : rest[i].ns = rest[j].ns
    /\ \A i, j \in DOMAIN rest : rest[i].subject = rest[j].subject => i = j
    /\ \A i \in DOMAIN rest :
           rest[i].ns.labels # Nil =>
               heap[rest[i].ns.labels].visibility = Visibility(answers[rest[i].ns.name])
    /\ \A ns \in todo : answers[ns.name] = {}
    /\ \A x, y \in todo : x.name = y.name => x = y

IInv == TypeOK /\ DataInv /\ LoopInv /\ RestInv /\ NoSideEffectsOnListed

--------------------------------------------------------------------------------
(* Maps.                                                                   *)

(* The map of a copy is an address of its own and never an informer's.     *)
LEMMA Maps ==
    /\ InformerMaps \subseteq Addresses
    /\ Nil \notin InformerMaps
    /\ \A n \in Namespaces, b \in Bit : <<"informer", n, b>> \in InformerMaps
    /\ \A n \in Namespaces, s \in Subjects, b \in Bit :
           <<"copy", n, s, b>> \in Addresses /\ <<"copy", n, s, b>> \notin InformerMaps
BY NilAssumption DEF Addresses, InformerMaps, CopiedMaps

(* Bits.                                                                   *)
LEMMA Bits ==
    \A b \in Bit : 1 - b \in Bit /\ 1 - b # b /\ 1 - (1 - b) = b
BY DEF Bit

(* Entries whose copies are left alone stay labelled.                      *)
LEMMA LabelsKept ==
    ASSUME NEW h, NEW g, NEW f \in [Subjects -> Seq(Entries)], NEW ans, NEW b,
           \A n \in Namespaces, s \in Subjects :
               g[<<"copy", n, s, b>>] = h[<<"copy", n, s, b>>],
           AllLabelled(h, f, ans, b)
    PROVE  AllLabelled(g, f, ans, b)
<1> SUFFICES ASSUME NEW s \in Subjects, NEW i \in DOMAIN f[s]
             PROVE  Labelled(g, f[s][i], s, ans, b)
    BY DEF AllLabelled
<1>1. f[s][i] \in Entries
    OBVIOUS
<1>2. f[s][i].name \in Namespaces
    BY <1>1 DEF Entries
<1>3. Labelled(h, f[s][i], s, ans, b)
    BY DEF AllLabelled
<1> QED
    BY <1>2, <1>3 DEF Labelled

(* Setting the visibility label touches one informer map at most.          *)
LEMMA VisibilityEffect ==
    ASSUME NEW h \in [Addresses -> Labels], NEW ns \in Items, NEW subs
    PROVE  LET g == setVisibilityVirtualLabel(h, ns, subs)
           IN  /\ g \in [Addresses -> Labels]
               /\ \A a \in Addresses : a # ns.labels => g[a] = h[a]
               /\ ns.labels # Nil => /\ g[ns.labels].visibility = Visibility(subs)
                                     /\ g[ns.labels].access = h[ns.labels].access
<1>1. ns.labels # Nil => ns.labels \in Addresses
    BY Maps DEF Items
<1>2. Visibility(subs) \in {"unset", "private", "authenticated"}
    BY DEF Visibility
<1>3. CASE ns.labels = Nil
    BY <1>3 DEF setVisibilityVirtualLabel
<1>4. CASE ns.labels # Nil
    <2>1. h[ns.labels] \in Labels
        BY <1>1, <1>4
    <2>2. [h[ns.labels] EXCEPT !.visibility = Visibility(subs)] \in Labels
        BY <1>2, <2>1 DEF Labels
    <2> QED
        BY <1>1, <1>2, <1>4, <2>1, <2>2 DEF setVisibilityVirtualLabel, Labels
<1> QED
    BY <1>3, <1>4

(* Labelling the copy for one subject writes one map, that copy's.         *)
LEMMA AccessEffect ==
    ASSUME TypeOK, NEW ns \in Items, NEW s \in Subjects
    PROVE  LET g == withVirtualLabelsAndAnnotationsForAccess(heap, ns, s)
               a == <<"copy", ns.name, s, bit>>
           IN  /\ g \in [Addresses -> Labels]
               /\ \A b \in Addresses : b # a => g[b] = heap[b]
               /\ g[a].access = ToLower(s.kind)
               /\ ns.labels # Nil => g[a].visibility = heap[ns.labels].visibility
<1> DEFINE a == <<"copy", ns.name, s, bit>>
           ll == IF ns.labels = Nil THEN Unset ELSE heap[ns.labels]
<1>1. heap \in [Addresses -> Labels] /\ bit \in Bit
    BY DEF TypeOK
<1>2. a \in Addresses
    BY <1>1, Maps DEF Items
<1>3. ll \in Labels
    BY <1>1, Maps DEF Items, Labels, Unset
<1>4. ToLower(s.kind) \in {"unset", "user", "group", "serviceaccount"}
    <2>1. s.kind \in {"User", "Group", "ServiceAccount"}
        BY SubjectsAssumption
    <2> QED
        BY <2>1 DEF ToLower
<1>5. /\ [ll EXCEPT !.access = ToLower(s.kind)] \in Labels
      /\ [ll EXCEPT !.access = ToLower(s.kind)].access = ToLower(s.kind)
      /\ [ll EXCEPT !.access = ToLower(s.kind)].visibility = ll.visibility
    BY <1>3, <1>4 DEF Labels
<1>6. withVirtualLabelsAndAnnotationsForAccess(heap, ns, s)
          = [heap EXCEPT ![a] = [ll EXCEPT !.access = ToLower(s.kind)]]
    BY DEF withVirtualLabelsAndAnnotationsForAccess, LabelsOfCopy, Copied
<1> HIDE DEF a
<1>7. ns.labels # Nil => ll.visibility = heap[ns.labels].visibility
    OBVIOUS
<1> HIDE DEF ll
<1>8. LET g == withVirtualLabelsAndAnnotationsForAccess(heap, ns, s)
      IN  /\ g \in [Addresses -> Labels]
          /\ \A b \in Addresses : b # a => g[b] = heap[b]
          /\ g[a] = [ll EXCEPT !.access = ToLower(s.kind)]
    BY <1>1, <1>2, <1>5, <1>6
<1> QED
    BY <1>5, <1>7, <1>8 DEF a

(* Collecting garbage leaves the copies of the other bit and the maps in   *)
(* the store alone, and writes no label.                                   *)
LEMMA CollectedEffect ==
    ASSUME TypeOK, NEW b \in Bit
    PROVE  /\ Collected(b) \in [Addresses -> Labels]
           /\ \A n \in Namespaces, s \in Subjects :
                  Collected(b)[<<"copy", n, s, 1 - b>>] = heap[<<"copy", n, s, 1 - b>>]
           /\ \A a \in InformerMaps : Collected(b)[a] \in {Unset, heap[a]}
<1>1. heap \in [Addresses -> Labels] /\ Unset \in Labels
    BY DEF TypeOK, Unset, Labels
<1>2. Collected(b) \in [Addresses -> Labels]
    BY <1>1 DEF Collected
<1>3. ASSUME NEW n \in Namespaces, NEW s \in Subjects
      PROVE  Collected(b)[<<"copy", n, s, 1 - b>>] = heap[<<"copy", n, s, 1 - b>>]
    <2>1. /\ <<"copy", n, s, 1 - b>> \in Addresses
          /\ <<"copy", n, s, 1 - b>> \notin InformerMaps
        BY Maps, Bits
    <2>2. <<"copy", n, s, 1 - b>> \notin {"copy"} \X Namespaces \X Subjects \X {b}
        BY Bits
    <2> QED
        BY <2>1, <2>2 DEF Collected
<1>4. ASSUME NEW a \in InformerMaps PROVE Collected(b)[a] \in {Unset, heap[a]}
    BY Maps DEF Collected
<1> QED
    BY <1>2, <1>3, <1>4

--------------------------------------------------------------------------------
(* Type correctness.                                                       *)

(* A function on an initial segment of the naturals is a sequence.         *)
LEMMA FunctionIsSeq ==
    ASSUME NEW S, NEW m \in Nat, NEW f \in [1..m -> S]
    PROVE  f \in Seq(S)
BY SeqDef

(* The subjects of an answer, deduplicated.                                *)
LEMMA AnswerTypes ==
    ASSUME DuplicatesRemoved, NEW answer \in Answers
    PROVE  /\ removeDuplicateSubjects(answer) \in Seq(Subjects)
           /\ Range(removeDuplicateSubjects(answer)) = Range(answer)
           /\ IsInjective(removeDuplicateSubjects(answer))
           /\ Range(answer) \in SUBSET Subjects
<1>1. PICK k \in 0..MaxAnswer : answer \in [1..k -> Subjects]
    BY DEF Answers
<1>2. k \in Nat
    BY SubjectsAssumption
<1>3. answer \in Seq(Subjects)
    BY <1>1, <1>2, SeqDef
<1>4. Range(answer) \in SUBSET Subjects
    BY <1>1 DEF Range
<1> QED
    BY <1>3, <1>4 DEF DuplicatesRemoved

(* The iteration an inner step takes is the first one left.                *)
LEMMA FirstOfRest ==
    ASSUME TypeOK, NEW i \in DOMAIN rest, NEW ns, NEW s, ns = rest[i].ns, s = rest[i].subject,
           AddToSubject(ns, s)
    PROVE  /\ rest # <<>> /\ 1 \in DOMAIN rest
           /\ ns = rest[1].ns /\ s = rest[1].subject
           /\ ns \in Items /\ s \in Subjects
<1>1. rest \in Seq(Iterations) /\ rest # <<>>
    BY DEF TypeOK, AddToSubject
<1>2. Head(rest) = rest[1] /\ 1 \in DOMAIN rest
    BY <1>1
<1>3. rest[1] = [ns |-> ns, subject |-> s]
    BY <1>2 DEF AddToSubject
<1>4. rest[1] \in Iterations
    BY <1>1, <1>2
<1> QED
    BY <1>1, <1>2, <1>3, <1>4 DEF Iterations

(* Every step keeps the types.                                             *)
LEMMA TypeStep == DuplicatesRemoved /\ TypeOK /\ [Next]_vars => TypeOK'
<1> SUFFICES ASSUME DuplicatesRemoved, TypeOK, [Next]_vars PROVE TypeOK'
    OBVIOUS
<1> USE DEF TypeOK
<1>1. ASSUME NEW n \in Namespaces, NEW b \in Bit, NamespaceUpdated(n, <<"informer", n, b>>)
      PROVE  TypeOK'
    <2> DEFINE a == <<"informer", n, b>>
    <2>1. a \in InformerMaps /\ a \in {"informer"} \X {n} \X Bit
        BY Maps
    <2>2. Unset \in Labels
        BY DEF Unset, Labels
    <2>3. heap' \in [Addresses -> Labels]
        BY <1>1, <2>2 DEF NamespaceUpdated
    <2> HIDE DEF a
    <2>4. store' = [store EXCEPT ![n] = a]
        BY <1>1 DEF NamespaceUpdated, a
    <2>5. /\ store' \in [Namespaces -> {Nil} \cup InformerMaps]
          /\ \A m \in Namespaces : store'[m] \in {Nil} \cup ({"informer"} \X {m} \X Bit)
        BY <2>1, <2>4
    <2> QED
        BY <1>1, <2>3, <2>5 DEF NamespaceUpdated
<1>2. CASE ListNamespaces
    <2>1. todo' \subseteq Items
        BY <1>2 DEF ListNamespaces, Items
    <2>2. NoEntries \in [Subjects -> Seq(Entries)] /\ NoAnswers \in [Namespaces -> SUBSET Subjects]
        BY DEF NoEntries, NoAnswers
    <2> QED
        BY <1>2, <2>1, <2>2, Bits DEF ListNamespaces
<1>3. ASSUME NEW ns \in todo, NEW answer \in Answers, CalculateNamespace(ns, answer)
      PROVE  TypeOK'
    <2> DEFINE ss == removeDuplicateSubjects(answer)
    <2>1. ns \in Items
        OBVIOUS
    <2>2. ss \in Seq(Subjects) /\ Range(answer) \in SUBSET Subjects
        BY AnswerTypes
    <2>3. heap' = setVisibilityVirtualLabel(heap, ns, Range(ss))
        BY <1>3 DEF CalculateNamespace
    <2>4. rest' = [i \in DOMAIN ss |-> [ns |-> ns, subject |-> ss[i]]]
        BY <1>3 DEF CalculateNamespace
    <2> HIDE DEF ss
    <2>5. heap' \in [Addresses -> Labels]
        BY <2>1, <2>3, VisibilityEffect, Zenon
    <2>6. rest' \in Seq(Iterations)
        <3>1. DOMAIN ss = 1..Len(ss) /\ Len(ss) \in Nat
            BY <2>2
        <3>2. \A i \in DOMAIN ss : ss[i] \in Subjects
            BY <2>2
        <3>3. \A i \in DOMAIN ss : [ns |-> ns, subject |-> ss[i]] \in Iterations
            BY <2>1, <3>2 DEF Iterations
        <3>4. rest' \in [1..Len(ss) -> Iterations]
            BY <2>4, <3>1, <3>3
        <3> QED
            BY <3>1, <3>4, FunctionIsSeq, Zenon
    <2>7. answers' \in [Namespaces -> SUBSET Subjects]
        BY <1>3, <2>2, Zenon DEF CalculateNamespace
    <2> QED
        BY <1>3, <2>5, <2>6, <2>7 DEF CalculateNamespace
<1>4. ASSUME NEW i \in DOMAIN rest, AddToSubject(rest[i].ns, rest[i].subject)
      PROVE  TypeOK'
    <2> DEFINE ns == rest[i].ns
               s == rest[i].subject
    <2>1. /\ rest # <<>>
          /\ ns \in Items /\ s \in Subjects
        BY <1>4, FirstOfRest, Zenon
    <2>2. /\ heap' = withVirtualLabelsAndAnnotationsForAccess(heap, ns, s)
          /\ c' = [c EXCEPT ![s] = Append(@, Entry(ns, s))]
          /\ rest' = Tail(rest)
        BY <1>4 DEF AddToSubject
    <2> HIDE DEF ns, s
    <2>3. heap' \in [Addresses -> Labels]
        BY <2>1, <2>2, AccessEffect, Zenon
    <2>4. Entry(ns, s) \in Entries
        BY <2>1, Maps DEF Entry, Entries, Items, LabelsOfCopy, Copied
    <2>5. c' \in [Subjects -> Seq(Entries)]
        BY <2>1, <2>2, <2>4
    <2>6. rest' \in Seq(Iterations)
        BY <2>1, <2>2
    <2> QED
        BY <1>4, <2>3, <2>5, <2>6 DEF AddToSubject
<1>5. CASE Interrupted
    <2>1. NoEntries \in [Subjects -> Seq(Entries)] /\ NoAnswers \in [Namespaces -> SUBSET Subjects]
        BY DEF NoEntries, NoAnswers
    <2>2. heap' \in [Addresses -> Labels]
        BY <1>5, CollectedEffect DEF Interrupted
    <2> QED
        BY <1>5, <2>1, <2>2, Bits DEF Interrupted
<1>6. CASE Restock
    <2>1. NoEntries \in [Subjects -> Seq(Entries)] /\ NoAnswers \in [Namespaces -> SUBSET Subjects]
        BY DEF NoEntries, NoAnswers
    <2>2. heap' \in [Addresses -> Labels]
        BY <1>6, CollectedEffect, Bits DEF Restock
    <2> QED
        BY <1>6, <2>1, <2>2 DEF Restock
<1>7. CASE UNCHANGED vars
    BY <1>7 DEF vars
<1> QED
    BY <1>1, <1>2, <1>3, <1>4, <1>5, <1>6, <1>7, Zenon DEF Next

--------------------------------------------------------------------------------
(* What is published.                                                      *)

(* An event leaves every copy, and every map a synch holds, alone.         *)
LEMMA UpdateEffect ==
    ASSUME TypeOK, NEW n \in Namespaces, NEW b \in Bit,
           NamespaceUpdated(n, <<"informer", n, b>>)
    PROVE  /\ \A m \in Namespaces, s \in Subjects, x \in Bit :
                  heap'[<<"copy", m, s, x>>] = heap[<<"copy", m, s, x>>]
           /\ \A a \in InformerMaps : heap'[a] \in {Unset, heap[a]}
           /\ \A a \in InformerMaps : Held(a) => heap'[a] = heap[a]
<1> DEFINE a == <<"informer", n, b>>
<1>1. a \in InformerMaps
    BY Maps
<1> HIDE DEF a
<1>2. NamespaceUpdated(n, a)
    BY DEF a
<1>3. store[n] \in InformerMaps /\ store[n] # a /\ ~Held(a)
    BY <1>2 DEF NamespaceUpdated, TypeOK
<1>4. \A x \in Addresses : heap'[x] = IF x = a \/ (x = store[n] /\ ~Held(x))
                                      THEN Unset ELSE heap[x]
    BY <1>2 DEF NamespaceUpdated
<1>5. ASSUME NEW m \in Namespaces, NEW s \in Subjects, NEW x \in Bit
      PROVE  heap'[<<"copy", m, s, x>>] = heap[<<"copy", m, s, x>>]
    <2>1. <<"copy", m, s, x>> \in Addresses /\ <<"copy", m, s, x>> \notin InformerMaps
        BY Maps
    <2> QED
        BY <1>1, <1>3, <1>4, <2>1
<1>6. \A x \in InformerMaps : heap'[x] \in {Unset, heap[x]}
    BY <1>4, Maps
<1>7. \A x \in InformerMaps : Held(x) => heap'[x] = heap[x]
    BY <1>3, <1>4, Maps
<1> QED
    BY <1>5, <1>6, <1>7

(* The published data is as good after a step as before it if the step     *)
(* leaves it and its copies alone.                                         *)
LEMMA DataKept ==
    ASSUME TypeOK, DataInv, UNCHANGED <<data, published>>, PublishedBit' = PublishedBit,
           \A n \in Namespaces, s \in Subjects :
               heap'[<<"copy", n, s, PublishedBit>>] = heap[<<"copy", n, s, PublishedBit>>]
    PROVE  DataInv'
<1>1. data \in [Subjects -> Seq(Entries)]
    BY DEF TypeOK
<1>2. AllLabelled(heap, data, published, PublishedBit)
    BY DEF DataInv
<1>3. AllLabelled(heap', data, published, PublishedBit)
    BY <1>1, <1>2, LabelsKept, Zenon
<1>4. AllLabelled(heap', data', published', PublishedBit')
    BY <1>3
<1> QED
    BY <1>4 DEF DataInv, NamedOnce, AllLabelled

(* Restock publishes what the loop has put together, and every other step  *)
(* works on the copies of the other bit.                                   *)
LEMMA DataStep == IInv /\ [Next]_vars => DataInv'
<1> SUFFICES ASSUME IInv, [Next]_vars PROVE DataInv'
    OBVIOUS
<1>1. TypeOK /\ DataInv /\ LoopInv
    BY DEF IInv
<1>2. bit \in Bit /\ pc \in {"idle", "range"} /\ PublishedBit \in Bit
    BY <1>1, Bits DEF TypeOK, PublishedBit
<1>3. ASSUME NEW n \in Namespaces, NEW b \in Bit, NamespaceUpdated(n, <<"informer", n, b>>)
      PROVE  DataInv'
    <2>1. UNCHANGED <<data, published>> /\ PublishedBit' = PublishedBit
        BY <1>3 DEF NamespaceUpdated, PublishedBit
    <2> QED
        BY <1>1, <1>2, <1>3, <2>1, UpdateEffect, DataKept
<1>4. CASE ListNamespaces
    <2>1. UNCHANGED <<data, published, heap>>
        BY <1>4 DEF ListNamespaces
    <2>2. PublishedBit' = PublishedBit
        BY <1>2, <1>4, Bits DEF ListNamespaces, PublishedBit
    <2> QED
        BY <1>1, <2>1, <2>2, DataKept
<1>5. ASSUME NEW ns \in todo, NEW answer \in Answers, CalculateNamespace(ns, answer)
      PROVE  DataInv'
    <2>1. UNCHANGED <<data, published>> /\ PublishedBit' = PublishedBit
        BY <1>5 DEF CalculateNamespace, PublishedBit
    <2>2. heap' = setVisibilityVirtualLabel(heap, ns, Range(removeDuplicateSubjects(answer)))
        BY <1>5 DEF CalculateNamespace
    <2>3. ns \in Items /\ heap \in [Addresses -> Labels]
        BY <1>1 DEF TypeOK
    <2>4. \A a \in Addresses : a # ns.labels => heap'[a] = heap[a]
        BY <2>2, <2>3, VisibilityEffect
    <2>5. ASSUME NEW n \in Namespaces, NEW s \in Subjects
          PROVE  heap'[<<"copy", n, s, PublishedBit>>] = heap[<<"copy", n, s, PublishedBit>>]
        <3>1. /\ <<"copy", n, s, PublishedBit>> \in Addresses
              /\ <<"copy", n, s, PublishedBit>> \notin InformerMaps
            BY <1>2, Maps
        <3>2. ns.labels \in {Nil} \cup InformerMaps
            BY <2>3 DEF Items
        <3>3. <<"copy", n, s, PublishedBit>> # Nil
            BY <3>1, NilAssumption
        <3> QED
            BY <2>4, <3>1, <3>2, <3>3
    <2> QED
        BY <1>1, <2>1, <2>5, DataKept
<1>6. ASSUME NEW i \in DOMAIN rest, AddToSubject(rest[i].ns, rest[i].subject)
      PROVE  DataInv'
    <2> DEFINE ns == rest[i].ns
               s == rest[i].subject
    <2>1. UNCHANGED <<data, published>> /\ PublishedBit' = PublishedBit
        BY <1>6 DEF AddToSubject, PublishedBit
    <2>2. ns \in Items /\ s \in Subjects /\ rest # <<>>
        BY <1>1, <1>6, FirstOfRest
    <2>3. heap' = withVirtualLabelsAndAnnotationsForAccess(heap, ns, s)
        BY <1>6 DEF AddToSubject
    <2>4. \A a \in Addresses : a # <<"copy", ns.name, s, bit>> => heap'[a] = heap[a]
        BY <1>1, <2>2, <2>3, AccessEffect, Zenon
    <2>5. PublishedBit # bit
        BY <1>1, <1>2, <2>2, Bits DEF LoopInv, PublishedBit
    <2>6. ASSUME NEW n \in Namespaces, NEW t \in Subjects
          PROVE  heap'[<<"copy", n, t, PublishedBit>>] = heap[<<"copy", n, t, PublishedBit>>]
        <3>1. <<"copy", n, t, PublishedBit>> \in Addresses
            BY <1>2, Maps
        <3>2. <<"copy", n, t, PublishedBit>> # <<"copy", ns.name, s, bit>>
            BY <2>5
        <3> QED
            BY <2>4, <3>1, <3>2
    <2> QED
        BY <1>1, <2>1, <2>6, DataKept
<1>7. CASE Interrupted
    <2>1. UNCHANGED <<data, published>>
        BY <1>7 DEF Interrupted
    <2>2. PublishedBit' = PublishedBit /\ PublishedBit = 1 - bit
        BY <1>7 DEF Interrupted, PublishedBit
    <2>3. heap' = Collected(bit)
        BY <1>7 DEF Interrupted
    <2> QED
        BY <1>1, <1>2, <2>1, <2>2, <2>3, CollectedEffect, DataKept
<1>8. CASE Restock
    <2>1. /\ data' = c /\ published' = answers /\ PublishedBit' = bit
          /\ rest = <<>> /\ heap' = Collected(1 - bit)
        BY <1>8 DEF Restock, PublishedBit
    <2>2. 1 - bit \in Bit /\ 1 - (1 - bit) = bit
        BY <1>2, Bits
    <2>3. \A n \in Namespaces, s \in Subjects :
              heap'[<<"copy", n, s, bit>>] = heap[<<"copy", n, s, bit>>]
        <3>1. \A n \in Namespaces, s \in Subjects :
                  Collected(1 - bit)[<<"copy", n, s, 1 - (1 - bit)>>]
                      = heap[<<"copy", n, s, 1 - (1 - bit)>>]
            BY <1>1, <2>2, CollectedEffect
        <3> QED
            BY <2>1, <2>2, <3>1
    <2>4. AllLabelled(heap', c, answers, bit)
        <3>1. c \in [Subjects -> Seq(Entries)] /\ AllLabelled(heap, c, answers, bit)
            BY <1>1 DEF TypeOK, LoopInv
        <3> QED
            BY <2>3, <3>1, LabelsKept
    <2>5. AllLabelled(heap', data', published', PublishedBit')
        BY <2>1, <2>4
    <2>6. \A n \in Namespaces, s \in Subjects : ~Awaits(n, s)
        BY <2>1 DEF Awaits
    <2>7. NamedOnce(c) /\ \A s \in Subjects, n \in Namespaces :
                               n \in Names(c[s]) <=> s \in answers[n]
        BY <1>1, <2>6 DEF LoopInv
    <2>8. NamedOnce(data')
        BY <2>1, <2>7
    <2> QED
        BY <2>1, <2>5, <2>7, <2>8 DEF DataInv, NamedOnce, AllLabelled
<1>9. CASE UNCHANGED vars
    <2>1. UNCHANGED <<data, published, heap>> /\ PublishedBit' = PublishedBit
        BY <1>9 DEF vars, PublishedBit
    <2> QED
        BY <1>1, <2>1, DataKept
<1> QED
    BY <1>3, <1>4, <1>5, <1>6, <1>7, <1>8, <1>9, Zenon DEF Next

--------------------------------------------------------------------------------
(* What synch puts together.                                               *)

(* A step that leaves the loop's variables and copies alone.               *)
LEMMA LoopKept ==
    ASSUME TypeOK, LoopInv, UNCHANGED <<c, answers, rest, bit, pc>>,
           \A n \in Namespaces, s \in Subjects :
               heap'[<<"copy", n, s, bit>>] = heap[<<"copy", n, s, bit>>]
    PROVE  LoopInv'
<1>1. c \in [Subjects -> Seq(Entries)] /\ AllLabelled(heap, c, answers, bit)
    BY DEF TypeOK, LoopInv
<1>2. AllLabelled(heap', c, answers, bit)
    BY <1>1, LabelsKept, Zenon
<1>3. AllLabelled(heap', c', answers', bit')
    BY <1>2
<1> QED
    BY <1>3 DEF LoopInv, NamedOnce, AllLabelled, Awaits

(* A step that starts or ends a synch.                                     *)
LEMMA LoopReset ==
    ASSUME c' = NoEntries, answers' = NoAnswers, rest' = <<>>
    PROVE  LoopInv'
<1>1. \A s \in Subjects : DOMAIN c'[s] = {}
    BY DEF NoEntries
<1>2. AllLabelled(heap', c', answers', bit') /\ NamedOnce(c')
    BY <1>1 DEF AllLabelled, NamedOnce
<1>3. \A s \in Subjects : Names(c'[s]) = {}
    BY <1>1 DEF Names
<1>4. \A n \in Namespaces, s \in Subjects : ~Awaits(n, s)' /\ s \notin answers'[n]
    BY DEF Awaits, NoAnswers
<1> QED
    BY <1>2, <1>3, <1>4 DEF LoopInv, NamedOnce, AllLabelled

(* A new answer goes to the iterations left, and to a namespace that has   *)
(* no entry.                                                               *)
LEMMA LoopCalculate ==
    ASSUME DuplicatesRemoved, IInv, NEW ns \in todo, NEW answer \in Answers, CalculateNamespace(ns, answer)
    PROVE  LoopInv'
<1> DEFINE ss == removeDuplicateSubjects(answer)
<1>1. TypeOK /\ LoopInv /\ RestInv
    BY DEF IInv
<1>2. /\ rest = <<>> /\ pc' = "range" /\ bit' = bit /\ c' = c
      /\ heap' = setVisibilityVirtualLabel(heap, ns, Range(ss))
      /\ rest' = [i \in DOMAIN ss |-> [ns |-> ns, subject |-> ss[i]]]
      /\ answers' = [answers EXCEPT ![ns.name] = Range(answer)]
    BY DEF CalculateNamespace
<1>3. Range(ss) = Range(answer)
    BY AnswerTypes
<1> HIDE DEF ss
<1>4. /\ ns \in Items /\ heap \in [Addresses -> Labels] /\ bit \in Bit
      /\ c \in [Subjects -> Seq(Entries)] /\ answers \in [Namespaces -> SUBSET Subjects]
    BY <1>1 DEF TypeOK
<1>5. ns.name \in Namespaces /\ ns.labels \in {Nil} \cup InformerMaps
    BY <1>4 DEF Items
<1>6. answers[ns.name] = {}
    BY <1>1 DEF RestInv
<1>7. \A n \in Namespaces, s \in Subjects : ~Awaits(n, s)
    BY <1>2 DEF Awaits
<1>8. \A s \in Subjects, n \in Namespaces : s \in answers[n] <=> n \in Names(c[s])
    BY <1>1, <1>7 DEF LoopInv
<1>9. \A s \in Subjects : ns.name \notin Names(c[s])
    BY <1>5, <1>6, <1>8
<1>10. \A n \in Namespaces : answers'[n] = IF n = ns.name THEN Range(ss) ELSE answers[n]
    BY <1>2, <1>3, <1>4
<1>11. \A n \in Namespaces, s \in Subjects :
           Awaits(n, s)' <=> n = ns.name /\ s \in Range(ss)
    BY <1>2, Zenon DEF Awaits, Range
<1>12. AllLabelled(heap', c, answers', bit)
    <2>1. \A a \in Addresses : a # ns.labels => heap'[a] = heap[a]
        BY <1>2, <1>4, VisibilityEffect
    <2>2. ASSUME NEW n \in Namespaces, NEW s \in Subjects
          PROVE  heap'[<<"copy", n, s, bit>>] = heap[<<"copy", n, s, bit>>]
        <3>1. <<"copy", n, s, bit>> \in Addresses /\ <<"copy", n, s, bit>> \notin InformerMaps
            BY <1>4, Maps
        <3>2. <<"copy", n, s, bit>> # Nil
            BY <3>1, NilAssumption
        <3> QED
            BY <1>5, <2>1, <3>1, <3>2
    <2>3. AllLabelled(heap', c, answers, bit)
        BY <1>1, <1>4, <2>2, LabelsKept, Zenon DEF LoopInv
    <2>4. ASSUME NEW s \in Subjects, NEW i \in DOMAIN c[s]
          PROVE  Labelled(heap', c[s][i], s, answers', bit)
        <3>1. c[s][i] \in Entries
            BY <1>4
        <3>2. c[s][i].name \in Namespaces /\ c[s][i].name # ns.name
            BY <1>9, <3>1 DEF Entries, Names
        <3>3. answers'[c[s][i].name] = answers[c[s][i].name]
            BY <1>10, <3>2
        <3>4. Labelled(heap', c[s][i], s, answers, bit)
            BY <2>3 DEF AllLabelled
        <3> QED
            BY <3>3, <3>4 DEF Labelled
    <2> QED
        BY <2>4 DEF AllLabelled
<1>13. AllLabelled(heap', c', answers', bit')
    BY <1>2, <1>12
<1>14. NamedOnce(c')
    BY <1>1, <1>2 DEF LoopInv
<1>15. \A s \in Subjects, n \in Namespaces :
           /\ s \in answers'[n] <=> n \in Names(c'[s]) \/ Awaits(n, s)'
           /\ ~(n \in Names(c'[s]) /\ Awaits(n, s)')
    BY <1>2, <1>8, <1>9, <1>10, <1>11
<1> QED
    BY <1>2, <1>13, <1>14, <1>15, Zenon DEF LoopInv, NamedOnce, AllLabelled

(* After an iteration of the inner loop one less is left.                  *)
LEMMA AwaitsAfterAdd ==
    ASSUME TypeOK, RestInv, rest # <<>>, rest' = Tail(rest),
           NEW n \in Namespaces, NEW t \in Subjects
    PROVE  Awaits(n, t)' <=> /\ Awaits(n, t)
                             /\ ~(n = rest[1].ns.name /\ t = rest[1].subject)
<1>1. rest \in Seq(Iterations) /\ Len(rest) \in Nat /\ Len(rest) > 0
    BY DEF TypeOK
<1>2. DOMAIN rest = 1..Len(rest) /\ DOMAIN rest' = 1..(Len(rest) - 1)
    BY <1>1
<1>3. \A j \in DOMAIN rest' : rest'[j] = rest[j + 1] /\ j + 1 \in DOMAIN rest /\ j + 1 # 1
    BY <1>1, <1>2
<1>4. \A i \in DOMAIN rest : i # 1 => i - 1 \in DOMAIN rest' /\ rest'[i - 1] = rest[i]
    BY <1>1, <1>2
<1>5. 1 \in DOMAIN rest
    BY <1>1, <1>2
<1>6. \A i \in DOMAIN rest : rest[i].subject = rest[1].subject => i = 1
    BY <1>5 DEF RestInv
<1>7. ASSUME Awaits(n, t)' PROVE Awaits(n, t) /\ t # rest[1].subject
    <2>1. PICK j \in DOMAIN rest' : rest'[j].ns.name = n /\ rest'[j].subject = t
        BY <1>7 DEF Awaits
    <2> QED
        BY <1>3, <1>6, <2>1 DEF Awaits
<1>8. ASSUME Awaits(n, t), ~(n = rest[1].ns.name /\ t = rest[1].subject)
      PROVE  Awaits(n, t)'
    <2>1. PICK i \in DOMAIN rest : rest[i].ns.name = n /\ rest[i].subject = t
        BY <1>8 DEF Awaits
    <2>2. i # 1
        BY <1>8, <2>1
    <2> QED
        BY <1>4, <2>1, <2>2, Zenon DEF Awaits
<1> QED
    BY <1>7, <1>8

(* An iteration of the inner loop moves one pair from the iterations left  *)
(* to the subject's list.                                                  *)
LEMMA LoopAdd ==
    ASSUME IInv, NEW i \in DOMAIN rest, AddToSubject(rest[i].ns, rest[i].subject)
    PROVE  LoopInv'
<1> DEFINE ns == rest[i].ns
           s == rest[i].subject
           e == Entry(ns, s)
<1>1. TypeOK /\ LoopInv /\ RestInv
    BY DEF IInv
<1>2. /\ rest # <<>> /\ 1 \in DOMAIN rest
      /\ ns = rest[1].ns /\ s = rest[1].subject
      /\ ns \in Items /\ s \in Subjects
    BY <1>1, FirstOfRest
<1>3. /\ heap' = withVirtualLabelsAndAnnotationsForAccess(heap, ns, s)
      /\ c' = [c EXCEPT ![s] = Append(@, e)]
      /\ rest' = Tail(rest)
      /\ UNCHANGED <<pc, bit, answers>>
    BY DEF AddToSubject
<1>4. /\ ns.name \in Namespaces
      /\ e.name = ns.name /\ e.labels = <<"copy", ns.name, s, bit>>
      /\ e.subject = s.name /\ (e.bare <=> ns.labels = Nil)
    BY <1>2, Zenon DEF Entry, Items, LabelsOfCopy, Copied
<1> HIDE DEF e
<1>5. Awaits(ns.name, s) /\ ns.name \notin Names(c[s])
    BY <1>1, <1>2, <1>4 DEF Awaits, LoopInv
<1>6. ns.labels # Nil => heap[ns.labels].visibility = Visibility(answers[ns.name])
    BY <1>1 DEF RestInv
<1> HIDE DEF ns, s
<1>7. c \in [Subjects -> Seq(Entries)] /\ bit \in Bit
    BY <1>1 DEF TypeOK
<1>8. c[s] \in Seq(Entries) /\ c'[s] = Append(c[s], e)
    BY <1>2, <1>3, <1>7
<1>9. \A t \in Subjects : t # s => c'[t] = c[t]
    BY <1>3, <1>7
<1>10. /\ DOMAIN c'[s] = 1..(Len(c[s]) + 1) /\ DOMAIN c[s] = 1..Len(c[s]) /\ Len(c[s]) \in Nat
       /\ c'[s][Len(c[s]) + 1] = e
       /\ \A k \in 1..Len(c[s]) : c'[s][k] = c[s][k]
    BY <1>8
<1>11. /\ \A a \in Addresses : a # <<"copy", ns.name, s, bit>> => heap'[a] = heap[a]
       /\ heap'[<<"copy", ns.name, s, bit>>].access = ToLower(s.kind)
       /\ ns.labels # Nil => heap'[<<"copy", ns.name, s, bit>>].visibility
                                = heap[ns.labels].visibility
    BY <1>1, <1>2, <1>3, AccessEffect
<1>12. ASSUME NEW t \in Subjects, NEW k \in DOMAIN c[t]
       PROVE  /\ ~(c[t][k].name = ns.name /\ t = s)
              /\ Labelled(heap', c[t][k], t, answers, bit)
    <2>1. c[t][k] \in Entries
        BY <1>7
    <2>2. c[t][k].name \in Namespaces
        BY <2>1 DEF Entries
    <2>3. ~(c[t][k].name = ns.name /\ t = s)
        BY <1>5 DEF Names
    <2>4. Labelled(heap, c[t][k], t, answers, bit)
        BY <1>1 DEF LoopInv, AllLabelled
    <2>5. <<"copy", c[t][k].name, t, bit>> \in Addresses
        BY <1>7, <2>2, Maps
    <2>6. <<"copy", c[t][k].name, t, bit>> # <<"copy", ns.name, s, bit>>
        BY <2>3
    <2>7. heap'[<<"copy", c[t][k].name, t, bit>>] = heap[<<"copy", c[t][k].name, t, bit>>]
        BY <1>11, <2>5, <2>6
    <2> QED
        BY <2>3, <2>4, <2>7 DEF Labelled
<1>13. Labelled(heap', e, s, answers, bit)
    BY <1>4, <1>6, <1>11 DEF Labelled
<1>14. AllLabelled(heap', c', answers', bit')
    <2> SUFFICES ASSUME NEW t \in Subjects, NEW k \in DOMAIN c'[t]
                 PROVE  Labelled(heap', c'[t][k], t, answers, bit)
        BY <1>3 DEF AllLabelled
    <2>1. CASE t # s
        BY <1>9, <1>12, <2>1
    <2>2. CASE t = s /\ k \in 1..Len(c[s])
        BY <1>10, <1>12, <2>2
    <2>3. CASE t = s /\ k = Len(c[s]) + 1
        BY <1>10, <1>13, <2>3
    <2> QED
        BY <1>10, <2>1, <2>2, <2>3
<1>15. NamedOnce(c')
    <2> SUFFICES ASSUME NEW t \in Subjects, NEW k \in DOMAIN c'[t], NEW l \in DOMAIN c'[t],
                        c'[t][k].name = c'[t][l].name
                 PROVE  k = l
        BY DEF NamedOnce
    <2>1. NamedOnce(c)
        BY <1>1 DEF LoopInv
    <2>2. CASE t # s
        BY <1>9, <2>1, <2>2 DEF NamedOnce
    <2>3. CASE t = s
        <3>1. \A m \in 1..Len(c[s]) : c'[s][m].name # e.name
            BY <1>2, <1>4, <1>10, <1>12, SMTT(30)
        <3>2. k \in 1..Len(c[s]) \/ k = Len(c[s]) + 1
            BY <1>10, <2>3
        <3>3. l \in 1..Len(c[s]) \/ l = Len(c[s]) + 1
            BY <1>10, <2>3
        <3>4. CASE k \in 1..Len(c[s]) /\ l \in 1..Len(c[s])
            BY <1>2, <1>10, <2>1, <2>3, <3>4, SMTT(30) DEF NamedOnce
        <3> QED
            BY <1>10, <2>3, <3>1, <3>2, <3>3, <3>4, ZenonT(30)
    <2> QED
        BY <2>2, <2>3
<1>16. \A t \in Subjects, n \in Namespaces :
           n \in Names(c'[t]) <=> n \in Names(c[t]) \/ (n = ns.name /\ t = s)
    <2> TAKE t \in Subjects, n \in Namespaces
    <2>1. CASE t # s
        BY <1>9, <2>1
    <2>2. CASE t = s
        <3>1. ASSUME n \in Names(c'[s]) PROVE n \in Names(c[s]) \/ n = ns.name
            <4>1. PICK k \in DOMAIN c'[s] : n = c'[s][k].name
                BY <3>1 DEF Names
            <4>2. k \in 1..Len(c[s]) \/ k = Len(c[s]) + 1
                BY <1>10
            <4> QED
                BY <1>4, <1>10, <4>1, <4>2, ZenonT(30) DEF Names
        <3>2. ASSUME n \in Names(c[s]) PROVE n \in Names(c'[s])
            <4>1. PICK k \in DOMAIN c[s] : n = c[s][k].name
                BY <3>2 DEF Names
            <4>2. k \in DOMAIN c'[s] /\ c'[s][k] = c[s][k]
                BY <1>10
            <4> QED
                BY <4>1, <4>2 DEF Names
        <3>3. ns.name \in Names(c'[s])
            <4>1. Len(c[s]) + 1 \in DOMAIN c'[s]
                BY <1>10
            <4> QED
                BY <1>4, <1>10, <4>1 DEF Names
        <3> QED
            BY <2>2, <3>1, <3>2, <3>3
    <2> QED
        BY <2>1, <2>2
<1>17. \A t \in Subjects, n \in Namespaces :
           Awaits(n, t)' <=> Awaits(n, t) /\ ~(n = ns.name /\ t = s)
    BY <1>1, <1>2, <1>3, AwaitsAfterAdd
<1>18. \A t \in Subjects, n \in Namespaces :
           /\ t \in answers[n] <=> n \in Names(c[t]) \/ Awaits(n, t)
           /\ ~(n \in Names(c[t]) /\ Awaits(n, t))
    BY <1>1 DEF LoopInv
<1>19. \A t \in Subjects, n \in Namespaces :
           /\ t \in answers'[n] <=> n \in Names(c'[t]) \/ Awaits(n, t)'
           /\ ~(n \in Names(c'[t]) /\ Awaits(n, t)')
    BY <1>3, <1>5, <1>16, <1>17, <1>18, ZenonT(30)
<1>20. (pc = "idle" => rest = <<>>)'
    BY <1>1, <1>2, <1>3 DEF LoopInv
<1> QED
    BY <1>14, <1>15, <1>19, <1>20 DEF LoopInv, NamedOnce, AllLabelled

(* Every step keeps the loop's account of the answers.                     *)
LEMMA LoopStep == DuplicatesRemoved /\ IInv /\ [Next]_vars => LoopInv'
<1> SUFFICES ASSUME DuplicatesRemoved, IInv, [Next]_vars PROVE LoopInv'
    OBVIOUS
<1>1. TypeOK /\ LoopInv /\ bit \in Bit
    BY DEF IInv, TypeOK
<1>2. ASSUME NEW n \in Namespaces, NEW b \in Bit, NamespaceUpdated(n, <<"informer", n, b>>)
      PROVE  LoopInv'
    <2>1. UNCHANGED <<c, answers, rest, bit, pc>>
        BY <1>2 DEF NamespaceUpdated
    <2> QED
        BY <1>1, <1>2, <2>1, UpdateEffect, LoopKept
<1>3. CASE ListNamespaces
    <2>1. rest' = <<>>
        BY <1>1, <1>3 DEF ListNamespaces, LoopInv
    <2> QED
        BY <1>3, <2>1, LoopReset DEF ListNamespaces
<1>4. CASE Interrupted \/ Restock
    BY <1>4, LoopReset DEF Interrupted, Restock
<1>5. CASE UNCHANGED vars
    BY <1>1, <1>5, LoopKept DEF vars
<1> QED
    BY <1>2, <1>3, <1>4, <1>5, LoopCalculate, LoopAdd, Zenon DEF Next

--------------------------------------------------------------------------------
(* The iterations left, and the informer's maps.                           *)

(* Nothing is left when a synch starts or ends.                            *)
LEMMA RestReset ==
    ASSUME rest' = <<>>, todo' = {}
    PROVE  RestInv'
BY DEF RestInv

(* The iterations for a namespace are set up with its map labelled.        *)
LEMMA RestCalculate ==
    ASSUME DuplicatesRemoved, IInv, NEW ns \in todo, NEW answer \in Answers, CalculateNamespace(ns, answer)
    PROVE  RestInv'
<1> DEFINE ss == removeDuplicateSubjects(answer)
<1>1. TypeOK /\ RestInv
    BY DEF IInv
<1>2. /\ heap' = setVisibilityVirtualLabel(heap, ns, Range(ss))
      /\ rest' = [i \in DOMAIN ss |-> [ns |-> ns, subject |-> ss[i]]]
      /\ answers' = [answers EXCEPT ![ns.name] = Range(answer)]
      /\ todo' = todo \ {ns}
    BY DEF CalculateNamespace
<1>3. Range(ss) = Range(answer) /\ IsInjective(ss)
    BY AnswerTypes
<1> HIDE DEF ss
<1>4. /\ ns \in Items /\ heap \in [Addresses -> Labels] /\ todo \subseteq Items
      /\ answers \in [Namespaces -> SUBSET Subjects]
    BY <1>1 DEF TypeOK
<1>5. ns.name \in Namespaces
    BY <1>4 DEF Items
<1>6. DOMAIN rest' = DOMAIN ss /\ \A i \in DOMAIN ss : rest'[i].ns = ns /\ rest'[i].subject = ss[i]
    BY <1>2
<1>7. \A i, j \in DOMAIN rest' : rest'[i].subject = rest'[j].subject => i = j
    BY <1>3, <1>6 DEF IsInjective
<1>8. ns.labels # Nil => heap'[ns.labels].visibility = Visibility(answers'[ns.name])
    <2>1. answers'[ns.name] = Range(ss)
        BY <1>2, <1>3, <1>4, <1>5
    <2> QED
        BY <1>2, <1>4, <2>1, VisibilityEffect
<1>9. ASSUME NEW x \in todo' PROVE answers'[x.name] = {}
    <2>1. x \in todo /\ x # ns
        BY <1>2
    <2>2. x.name # ns.name /\ answers[x.name] = {}
        BY <1>1, <2>1 DEF RestInv
    <2>3. x.name \in Namespaces
        BY <1>4, <2>1, ZenonT(30) DEF Items
    <2> QED
        BY <1>2, <1>4, <2>2, <2>3
<1>10. \A x, y \in todo' : x.name = y.name => x = y
    BY <1>1, <1>2, ZenonT(30) DEF RestInv
<1> QED
    BY <1>6, <1>7, <1>8, <1>9, <1>10 DEF RestInv

(* An iteration of the inner loop leaves the map it copies from alone.     *)
LEMMA RestAdd ==
    ASSUME IInv, NEW i \in DOMAIN rest, AddToSubject(rest[i].ns, rest[i].subject)
    PROVE  RestInv' /\ \A a \in InformerMaps : heap'[a] = heap[a]
<1> DEFINE ns == rest[i].ns
           s == rest[i].subject
<1>1. TypeOK /\ RestInv
    BY DEF IInv
<1>2. rest # <<>> /\ ns \in Items /\ s \in Subjects
    BY <1>1, FirstOfRest
<1>3. /\ heap' = withVirtualLabelsAndAnnotationsForAccess(heap, ns, s)
      /\ rest' = Tail(rest)
      /\ UNCHANGED <<todo, answers>>
    BY DEF AddToSubject
<1> HIDE DEF ns, s
<1>4. \A a \in Addresses : a # <<"copy", ns.name, s, bit>> => heap'[a] = heap[a]
    BY <1>1, <1>2, <1>3, AccessEffect, Zenon
<1>5. ns.name \in Namespaces /\ bit \in Bit
    BY <1>1, <1>2 DEF Items, TypeOK
<1>6. \A a \in InformerMaps : heap'[a] = heap[a]
    BY <1>2, <1>4, <1>5, Maps
<1>7. rest \in Seq(Iterations)
    BY <1>1 DEF TypeOK
<1>8. \A j \in DOMAIN rest' : j \in Nat /\ j + 1 \in DOMAIN rest /\ rest'[j] = rest[j + 1]
    BY <1>2, <1>3, <1>7
<1>9. ASSUME NEW j \in DOMAIN rest', rest'[j].ns.labels # Nil
      PROVE  heap'[rest'[j].ns.labels].visibility = Visibility(answers'[rest'[j].ns.name])
    <2>1. rest[j + 1] \in Iterations
        BY <1>7, <1>8
    <2>2. rest'[j].ns \in Items
        BY <1>8, <2>1 DEF Iterations
    <2>3. rest'[j].ns.labels \in InformerMaps
        BY <1>9, <2>2 DEF Items
    <2>4. heap[rest'[j].ns.labels].visibility = Visibility(answers[rest'[j].ns.name])
        BY <1>1, <1>8, <1>9 DEF RestInv
    <2> QED
        BY <1>3, <1>6, <2>3, <2>4
<1>10. /\ \A j, k \in DOMAIN rest' : rest'[j].ns = rest'[k].ns
       /\ \A j, k \in DOMAIN rest' : rest'[j].subject = rest'[k].subject => j = k
    BY <1>1, <1>8 DEF RestInv
<1>11. /\ \A x \in todo' : answers'[x.name] = {}
       /\ \A x, y \in todo' : x.name = y.name => x = y
    BY <1>1, <1>3 DEF RestInv
<1> QED
    BY <1>6, <1>9, <1>10, <1>11 DEF RestInv

(* Every step keeps the iterations left in order.                          *)
LEMMA RestStep == DuplicatesRemoved /\ IInv /\ [Next]_vars => RestInv'
<1> SUFFICES ASSUME DuplicatesRemoved, IInv, [Next]_vars PROVE RestInv'
    OBVIOUS
<1>1. TypeOK /\ LoopInv /\ RestInv
    BY DEF IInv
<1>2. ASSUME NEW n \in Namespaces, NEW b \in Bit, NamespaceUpdated(n, <<"informer", n, b>>)
      PROVE  RestInv'
    <2>1. UNCHANGED <<todo, rest, answers>>
        BY <1>2 DEF NamespaceUpdated
    <2>2. ASSUME NEW i \in DOMAIN rest, rest[i].ns.labels # Nil
          PROVE  heap'[rest[i].ns.labels] = heap[rest[i].ns.labels]
        <3>1. rest[i] \in Iterations
            BY <1>1 DEF TypeOK
        <3>2. rest[i].ns.labels \in InformerMaps
            BY <2>2, <3>1 DEF Iterations, Items
        <3>3. Held(rest[i].ns.labels)
            BY ZenonT(30) DEF Held
        <3> QED
            BY <1>1, <1>2, <3>2, <3>3, UpdateEffect
    <2> QED
        BY <1>1, <2>1, <2>2 DEF RestInv
<1>3. CASE ListNamespaces
    <2>1. /\ rest' = <<>> /\ answers' = NoAnswers
          /\ todo' = {[name |-> n, labels |-> store[n]] : n \in Namespaces}
        BY <1>1, <1>3 DEF ListNamespaces, LoopInv
    <2>2. \A x \in todo' : x.name \in Namespaces /\ x = [name |-> x.name, labels |-> store[x.name]]
        BY <2>1
    <2>3. \A x, y \in todo' : x.name = y.name => x = y
        BY <2>2
    <2>4. \A x \in todo' : answers'[x.name] = {}
        BY <2>1, <2>2 DEF NoAnswers
    <2> QED
        BY <2>1, <2>3, <2>4, SMTT(30) DEF RestInv
<1>4. CASE Interrupted \/ Restock
    BY <1>4, RestReset DEF Interrupted, Restock
<1>5. CASE UNCHANGED vars
    BY <1>1, <1>5 DEF vars, RestInv
<1> QED
    BY <1>2, <1>3, <1>4, <1>5, RestCalculate, RestAdd, Zenon DEF Next

(* No step writes an access label into a map of the informer.              *)
LEMMA ListedStep == IInv /\ [Next]_vars => NoSideEffectsOnListed'
<1> SUFFICES ASSUME IInv, [Next]_vars, NEW a \in InformerMaps
             PROVE  heap'[a].access = "unset"
    BY DEF NoSideEffectsOnListed
<1>1. TypeOK /\ heap[a].access = "unset" /\ Unset.access = "unset"
    BY DEF IInv, NoSideEffectsOnListed, Unset
<1>2. bit \in Bit /\ 1 - bit \in Bit
    BY <1>1, Bits DEF TypeOK
<1>3. ASSUME NEW n \in Namespaces, NEW b \in Bit, NamespaceUpdated(n, <<"informer", n, b>>)
      PROVE  heap'[a].access = "unset"
    BY <1>1, <1>3, UpdateEffect
<1>4. CASE ListNamespaces
    BY <1>1, <1>4 DEF ListNamespaces
<1>5. ASSUME NEW ns \in todo, NEW answer \in Answers, CalculateNamespace(ns, answer)
      PROVE  heap'[a].access = "unset"
    <2>1. heap' = setVisibilityVirtualLabel(heap, ns, Range(removeDuplicateSubjects(answer)))
        BY <1>5 DEF CalculateNamespace
    <2>2. ns \in Items /\ heap \in [Addresses -> Labels]
        BY <1>1 DEF TypeOK
    <2>3. /\ \A x \in Addresses : x # ns.labels => heap'[x] = heap[x]
          /\ ns.labels # Nil => heap'[ns.labels].access = heap[ns.labels].access
        BY <2>1, <2>2, VisibilityEffect
    <2> QED
        BY <1>1, <2>3, Maps
<1>6. CASE Interrupted
    BY <1>1, <1>2, <1>6, CollectedEffect DEF Interrupted
<1>7. CASE Restock
    BY <1>1, <1>2, <1>7, CollectedEffect DEF Restock
<1>8. CASE UNCHANGED vars
    BY <1>1, <1>8 DEF vars
<1> QED
    BY <1>1, <1>3, <1>4, <1>5, <1>6, <1>7, <1>8, RestAdd, Zenon DEF Next

--------------------------------------------------------------------------------
(* The invariant holds at first, is kept, and implies the properties.      *)

(* NewSynchronizedAccessCache and an informer just synced: nothing written *)
(* and nothing published.                                                  *)
LEMMA InitIInv == Init => IInv
<1> SUFFICES ASSUME Init PROVE IInv
    OBVIOUS
<1>1. /\ heap = [a \in Addresses |-> Unset] /\ pc = "idle" /\ bit = 0
      /\ todo = {} /\ rest = <<>> /\ c = NoEntries /\ data = NoEntries
      /\ answers = NoAnswers /\ published = NoAnswers
    BY DEF Init
<1>2. TypeOK
    <2>1. PICK bare \in SUBSET Namespaces :
              store = [n \in Namespaces |-> IF n \in bare THEN Nil
                                            ELSE <<"informer", n, 0>>]
        BY Zenon DEF Init
    <2>2. 0 \in Bit
        BY DEF Bit
    <2>3. \A n \in Namespaces : /\ store[n] \in {Nil} \cup InformerMaps
                                /\ store[n] \in {Nil} \cup ({"informer"} \X {n} \X Bit)
        BY <2>1, <2>2, Maps
    <2>4. store \in [Namespaces -> {Nil} \cup InformerMaps]
        BY <2>1, <2>3
    <2>5. NoEntries \in [Subjects -> Seq(Entries)] /\ <<>> \in Seq(Iterations)
        BY DEF NoEntries
    <2>6. NoAnswers \in [Namespaces -> SUBSET Subjects]
        BY DEF NoAnswers
    <2>7. heap \in [Addresses -> Labels]
        BY <1>1 DEF Unset, Labels
    <2> QED
        BY <1>1, <2>2, <2>3, <2>4, <2>5, <2>6, <2>7 DEF TypeOK
<1>3. \A s \in Subjects : NoEntries[s] = <<>> /\ DOMAIN NoEntries[s] = {}
    BY DEF NoEntries
<1>4. \A n \in Namespaces : NoAnswers[n] = {}
    BY DEF NoAnswers
<1>5. DataInv
    BY <1>1, <1>3, <1>4 DEF DataInv, AllLabelled, NamedOnce, Names
<1>6. LoopInv
    BY <1>1, <1>3, <1>4 DEF LoopInv, AllLabelled, NamedOnce, Names, Awaits
<1>7. RestInv
    BY <1>1 DEF RestInv
<1>8. NoSideEffectsOnListed
    BY <1>1, Maps DEF NoSideEffectsOnListed, Unset
<1> QED
    BY <1>2, <1>5, <1>6, <1>7, <1>8 DEF IInv

(* Every step of synch or of an informer event keeps the invariant.        *)
LEMMA IInvStep == DuplicatesRemoved /\ IInv /\ [Next]_vars => IInv'
BY TypeStep, DataStep, LoopStep, RestStep, ListedStep DEF IInv

(* What is published is what was calculated.                               *)
LEMMA IInvPublished == IInv => PublishedAsCalculated
<1> SUFFICES ASSUME IInv, NEW s \in Subjects
             PROVE  /\ {data[s][i].name : i \in DOMAIN data[s]}
                           = {n \in Namespaces : s \in published[n]}
                    /\ IsInjective([i \in DOMAIN data[s] |-> data[s][i].name])
                    /\ \A e \in Range(data[s]) :
                           /\ heap[e.labels].access = ToLower(s.kind)
                           /\ e.subject = s.name
    BY DEF PublishedAsCalculated
<1>1. TypeOK /\ DataInv
    BY DEF IInv
<1>2. data[s] \in Seq(Entries)
    BY <1>1 DEF TypeOK
<1>3. \A i \in DOMAIN data[s] : data[s][i] \in Entries
    BY <1>2
<1>4. \A i \in DOMAIN data[s] : data[s][i].name \in Namespaces
    BY <1>3 DEF Entries
<1>5. \A n \in Namespaces : n \in Names(data[s]) <=> s \in published[n]
    BY <1>1 DEF DataInv
<1>6. Names(data[s]) = {n \in Namespaces : s \in published[n]}
    BY <1>4, <1>5 DEF Names
<1>7. IsInjective([i \in DOMAIN data[s] |-> data[s][i].name])
    BY <1>1, ZenonT(30) DEF DataInv, NamedOnce, IsInjective
<1>8. ASSUME NEW e \in Range(data[s])
      PROVE  heap[e.labels].access = ToLower(s.kind) /\ e.subject = s.name
    <2>1. PICK i \in DOMAIN data[s] : e = data[s][i]
        BY ZenonT(30) DEF Range
    <2> QED
        BY <1>1, <2>1 DEF DataInv, AllLabelled, Labelled
<1> QED
    BY <1>6, <1>7, <1>8 DEF Names

(* The visibility shown is the one calculated.                             *)
LEMMA IInvVisibility == IInv => VisibilityAsCalculated
<1> SUFFICES ASSUME IInv, NEW s \in Subjects, NEW e \in Range(data[s]), ~e.bare
             PROVE  heap[e.labels].visibility = Visibility(published[e.name])
    BY DEF VisibilityAsCalculated
<1>1. PICK i \in DOMAIN data[s] : e = data[s][i]
    BY DEF Range
<1> QED
    BY <1>1 DEF IInv, DataInv, AllLabelled, Labelled

================================================================================
