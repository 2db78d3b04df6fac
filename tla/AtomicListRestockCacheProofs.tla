---------------------- MODULE AtomicListRestockCacheProofs ----------------------
(***************************************************************************)
(* AtomicListRestockCache implements AccessListing, for any readers, keys, *)
(* names and length of a call.                                             *)
(***************************************************************************)
EXTENDS AtomicListRestockCache, SequenceTheorems, TLAPS

(* The arguments of a call are a sequence of at most MaxKeys keys.         *)
LEMMA CallsAreSequences ==
    ASSUME NEW kk \in Calls
    PROVE  /\ kk \in Seq(Keys)
           /\ Len(kk) \in 0..MaxKeys
           /\ DOMAIN kk = 1..Len(kk)
           /\ \A i \in 1..Len(kk) : kk[i] \in Keys
<1>1. PICK n \in 0..MaxKeys : kk \in [1..n -> Keys]
    BY DEF Calls
<1>2. n \in Nat
    BY VersionsAssumption
<1>3. kk \in Seq(Keys) /\ Len(kk) = n
    BY <1>1, <1>2
<1> QED
    BY <1>1, <1>2, <1>3

(* The entry of key k holds elements that say they come through k.         *)
LEMMA VersionEntries ==
    ASSUME NEW v \in Versions, NEW k \in DOMAIN v
    PROVE  /\ k \in Keys
           /\ v[k] \subseteq Elements
           /\ \A e \in v[k] : e.via = k
<1>1. PICK access \in [Keys -> SUBSET Names] : v = Version(access)
    BY DEF Versions
<1>2. k \in Keys /\ v[k] = {[name |-> n, via |-> k] : n \in access[k]}
    BY <1>1, Zenon DEF Version
<1>3. ASSUME NEW e \in v[k] PROVE e \in Elements /\ e.via = k
  <2>1. PICK n \in access[k] : e = [name |-> n, via |-> k]
      BY <1>2
  <2>2. n \in Names
      BY <1>2
  <2> QED
      BY <1>2, <2>1, <2>2 DEF Elements
<1> QED
    BY <1>2, <1>3

(* A lookup, of a key the version has or not, yields elements.             *)
LEMMA LookupType ==
    ASSUME NEW v \in Versions, NEW k
    PROVE  Lookup(v, k) \subseteq Elements
BY VersionEntries DEF Lookup

--------------------------------------------------------------------------------

(* Init gives every variable a value of its type.                          *)
LEMMA InitTypeOK == Init => TypeOK
<1> SUFFICES ASSUME Init PROVE TypeOK
    OBVIOUS
<1>1. <<>> \in Calls
  <2>1. <<>> \in [1..0 -> Keys]
      OBVIOUS
  <2> QED
      BY <2>1, VersionsAssumption DEF Calls
<1>2. 1 \in 1..(MaxKeys + 1)
    BY VersionsAssumption
<1> QED
    BY <1>1, <1>2 DEF Init, TypeOK, States

(* Every step keeps every variable in its type.                            *)
LEMMA NextTypeOK == TypeOK /\ [Next]_vars => TypeOK'
<1> SUFFICES ASSUME TypeOK, [Next]_vars PROVE TypeOK'
    OBVIOUS
<1> USE VersionsAssumption DEF TypeOK, States
<1>1. ASSUME NEW version \in Versions, Restock(version) PROVE TypeOK'
    BY <1>1 DEF Restock
<1>2. ASSUME NEW r \in Readers, NEW kk \in Calls, List(r, kk) PROVE TypeOK'
    BY <1>2 DEF List
<1>3. ASSUME NEW r \in Readers, ListNone(r) PROVE TypeOK'
    BY <1>3 DEF ListNone, Ready
<1>4. ASSUME NEW r \in Readers, ListOne(r) PROVE TypeOK'
    BY <1>4, LookupType DEF ListOne, Ready
<1>5. ASSUME NEW r \in Readers, Load(r) PROVE TypeOK'
    BY <1>5 DEF Load
<1>6. ASSUME NEW r \in Readers, VisitKey(r) PROVE TypeOK'
  <2>1. m[r] \in Versions /\ keys[r] \in Calls /\ next[r] \in 1..(MaxKeys + 1)
      BY <1>6 DEF VisitKey
  <2>2. Unseen(r, Lookup(m[r], keys[r][next[r]])) \subseteq Elements
      BY <2>1, LookupType DEF Unseen
  <2>3. next[r] + 1 \in 1..(MaxKeys + 1)
      BY <1>6, <2>1, CallsAreSequences DEF VisitKey
  <2> QED
      BY <1>6, <2>2, <2>3 DEF VisitKey
<1>7. ASSUME NEW r \in Readers, Panic(r) \/ Return(r) PROVE TypeOK'
    BY <1>7 DEF Panic, Return
<1>8. ASSUME NEW r \in Readers, Collapse(r) PROVE TypeOK'
    BY <1>8 DEF Collapse, Ready
<1>9. CASE UNCHANGED vars
    BY <1>9 DEF vars
<1> QED
    BY <1>1, <1>2, <1>3, <1>4, <1>5, <1>6, <1>7, <1>8, <1>9 DEF Next

(* No interleaving of readers and restocks takes a local of List out of    *)
(* its type.                                                               *)
THEOREM TypeCorrect == Spec => []TypeOK
BY InitTypeOK, NextTypeOK, PTL DEF Spec

--------------------------------------------------------------------------------
(* What listAll has collected after the first next - 1 keys.               *)

(* Each element collected is the one of the first key that has its name.   *)
FirstWins(r) ==
    \A e \in d[r] : \E i \in Hits(m[r], keys[r], e.name) :
        /\ i < next[r]
        /\ e \in m[r][keys[r][i]]
        /\ \A j \in Hits(m[r], keys[r], e.name) : i <= j

(* Every name that a visited key has is among those collected.             *)
NothingMissed(r) ==
    \A n \in Names : \A i \in Hits(m[r], keys[r], n) :
        i < next[r] => \E e \in d[r] : e.name = n

LoopInv(r) ==
    pc[r] = "range" => IF m[r] = NoData THEN next[r] <= Len(keys[r])
                                        ELSE FirstWins(r) /\ NothingMissed(r)

IInv == TypeOK /\ \A r \in Readers : LoopInv(r)

(* Two elements of one key's entry with the same name are the same.        *)
LEMMA UniqueNames ==
    ASSUME NEW v \in Versions, NEW k \in DOMAIN v,
           NEW e \in v[k], NEW f \in v[k], e.name = f.name
    PROVE  e = f
<1>1. e \in Elements /\ f \in Elements /\ e.via = f.via
    BY VersionEntries
<1> QED
    BY <1>1 DEF Elements

(* One iteration of the range over keys.                                   *)
LEMMA VisitKeyKeepsLoopInv ==
    ASSUME TypeOK, NEW r \in Readers, VisitKey(r), LoopInv(r)
    PROVE  LoopInv(r)'
<1> DEFINE i0 == next[r]
           k == keys[r][i0]
           new == Unseen(r, Lookup(m[r], k))
<1>1. /\ m[r] \in Versions /\ keys[r] \in Calls /\ i0 \in 1..Len(keys[r])
      /\ DOMAIN keys[r] = 1..Len(keys[r])
    BY CallsAreSequences DEF VisitKey, TypeOK
<1>2. /\ d'[r] = d[r] \cup new /\ next'[r] = i0 + 1
      /\ m'[r] = m[r] /\ keys'[r] = keys[r]
    BY DEF VisitKey, TypeOK
<1>3. FirstWins(r) /\ NothingMissed(r)
    BY DEF VisitKey, LoopInv
<1>4. \A n : Hits(m[r], keys[r], n) \subseteq 1..Len(keys[r])
    BY <1>1 DEF Hits
<1>5. ASSUME NEW e \in d'[r]
      PROVE  \E i \in Hits(m[r], keys[r], e.name) :
                 /\ i < i0 + 1
                 /\ e \in m[r][keys[r][i]]
                 /\ \A j \in Hits(m[r], keys[r], e.name) : i <= j
  <2>1. CASE e \in d[r]
    <3>1. PICK i \in Hits(m[r], keys[r], e.name) :
              /\ i < i0
              /\ e \in m[r][keys[r][i]]
              /\ \A j \in Hits(m[r], keys[r], e.name) : i <= j
        BY <1>3, <2>1 DEF FirstWins
    <3>2. i < i0 + 1
        BY <1>1, <1>4, <3>1
    <3> QED
        BY <3>1, <3>2
  <2>2. CASE e \in new
    <3>1. /\ k \in DOMAIN m[r] /\ e \in m[r][k]
          /\ \A x \in d[r] : x.name # e.name
        BY <2>2 DEF Unseen, Lookup
    <3>2. i0 \in Hits(m[r], keys[r], e.name)
        BY <3>1, <1>1 DEF Hits
    <3>3. e.name \in Names
        BY <3>1, <1>1, VersionEntries DEF Elements
    <3>4. ASSUME NEW j \in Hits(m[r], keys[r], e.name) PROVE i0 <= j
        BY <3>1, <3>3, <1>1, <1>3, <1>4 DEF NothingMissed
    <3>5. i0 < i0 + 1
        BY <1>1
    <3> QED
        BY <3>1, <3>2, <3>4, <3>5
  <2> QED
      BY <1>2, <1>5, <2>1, <2>2
<1>6. ASSUME NEW n \in Names, NEW i \in Hits(m[r], keys[r], n), i < i0 + 1
      PROVE  \E e \in d'[r] : e.name = n
  <2>1. CASE i < i0
      BY <2>1, <1>2, <1>3 DEF NothingMissed
  <2>2. CASE i = i0
    <3>1. PICK x \in m[r][k] : x.name = n
        BY <2>2 DEF Hits
    <3>2. k \in DOMAIN m[r]
        BY <2>2 DEF Hits
    <3>3. x \in new \/ \E y \in d[r] : y.name = n
        BY <3>1, <3>2 DEF Unseen, Lookup
    <3> QED
        BY <3>1, <3>3, <1>2
  <2>3. i < i0 \/ i = i0
      BY <1>1, <1>4, <1>6
  <2> QED
      BY <2>1, <2>2, <2>3
<1>7. FirstWins(r)' /\ NothingMissed(r)'
    BY <1>2, <1>5, <1>6 DEF FirstWins, NothingMissed
<1> QED
    BY <1>2, <1>7 DEF LoopInv, VisitKey

(* Every step keeps what every reader has collected.                       *)
LEMMA NextIInv == IInv /\ [Next]_vars => IInv'
<1> SUFFICES ASSUME IInv, [Next]_vars PROVE IInv'
    OBVIOUS
<1>1. TypeOK'
    BY NextTypeOK DEF IInv
<1>2. ASSUME NEW r \in Readers PROVE LoopInv(r)'
  <2> USE DEF IInv
  <2>1. ASSUME NEW q \in Readers, VisitKey(q) PROVE LoopInv(r)'
    <3>1. CASE q = r
        BY <2>1, <3>1, VisitKeyKeepsLoopInv
    <3>2. CASE q # r
        BY <2>1, <3>2, Zenon
        DEF VisitKey, TypeOK, LoopInv, FirstWins, NothingMissed
    <3> QED
        BY <3>1, <3>2
  <2>2. ASSUME NEW q \in Readers, Load(q) PROVE LoopInv(r)'
    <3>1. CASE q = r
      <4>1. d'[r] = {} /\ next'[r] = 1 /\ keys'[r] = keys[r] /\ keys[r] \in Calls
          BY <2>2, <3>1 DEF Load, TypeOK
      <4>2. \A n \in Names : \A i \in Hits(m[r], keys[r], n)' : ~(i < 1)
          BY <4>1, CallsAreSequences DEF Hits
      <4>3. next'[r] <= Len(keys'[r])
          BY <2>2, <3>1, <4>1, CallsAreSequences, VersionsAssumption DEF Load
      <4> QED
          BY <4>1, <4>2, <4>3 DEF LoopInv, FirstWins, NothingMissed
    <3>2. CASE q # r
        BY <2>2, <3>2, Zenon
        DEF Load, TypeOK, LoopInv, FirstWins, NothingMissed
    <3> QED
        BY <3>1, <3>2
  <2>3. ASSUME m'[r] = m[r], next'[r] = next[r], d'[r] = d[r],
               pc'[r] = "range" => pc[r] = "range" /\ keys'[r] = keys[r]
        PROVE  LoopInv(r)'
      BY <2>3, Zenon DEF LoopInv, FirstWins, NothingMissed
  <2>4. ASSUME NEW q \in Readers, NEW kk \in Calls, List(q, kk) PROVE LoopInv(r)'
      BY <2>3, <2>4 DEF List, TypeOK
  <2>5. ASSUME NEW q \in Readers, ListNone(q) \/ ListOne(q) \/ Collapse(q)
        PROVE  LoopInv(r)'
      BY <2>3, <2>5 DEF ListNone, ListOne, Collapse, Ready, TypeOK
  <2>6. ASSUME NEW q \in Readers, Panic(q) \/ Return(q) PROVE LoopInv(r)'
      BY <2>3, <2>6 DEF Panic, Return, TypeOK
  <2>7. ASSUME NEW version \in Versions, Restock(version) PROVE LoopInv(r)'
      BY <2>3, <2>7 DEF Restock
  <2>8. CASE UNCHANGED vars
      BY <2>3, <2>8 DEF vars
  <2> QED
      BY <2>1, <2>2, <2>4, <2>5, <2>6, <2>7, <2>8 DEF Next
<1> QED
    BY <1>1, <1>2 DEF IInv

(* What readers have collected is inductive.                               *)
THEOREM Invariance == Spec => []IInv
<1>1. Init => IInv
    BY InitTypeOK DEF Init, IInv, LoopInv
<1> QED
    BY <1>1, NextIInv, PTL DEF Spec

--------------------------------------------------------------------------------
(* The refinement.                                                         *)

(* The listing's reference definition is the same on both sides.           *)
LEMMA SameAnswer ==
    ASSUME NEW v, NEW kk
    PROVE  Listing!Answer(v, kk) = Answer(v, kk)
BY DEF Listing!Answer, Listing!Hits, Listing!Elements, Answer, Hits, Elements

(* A List of no keys, and a List of one, answer without the map.           *)
LEMMA ShortAnswers ==
    ASSUME NEW v \in Versions, NEW kk \in Calls
    PROVE  /\ kk = <<>> => Answer(v, kk) = {}
           /\ Len(kk) = 1 => Answer(v, kk) = Lookup(v, kk[1])
<1>1. v # NoData
    BY VersionsAssumption
<1>2. DOMAIN kk = 1..Len(kk)
    BY CallsAreSequences
<1>3. ASSUME kk = <<>> PROVE Answer(v, kk) = {}
    BY <1>1, <1>3 DEF Answer, Hits
<1>4. ASSUME Len(kk) = 1 PROVE Answer(v, kk) = Lookup(v, kk[1])
  <2>1. DOMAIN kk = {1}
      BY <1>2, <1>4
  <2>2. ASSUME NEW e \in Lookup(v, kk[1]) PROVE e \in Answer(v, kk)
    <3>1. kk[1] \in DOMAIN v /\ e \in v[kk[1]] /\ e \in Elements
        BY <2>2, LookupType DEF Lookup
    <3>2. Hits(v, kk, e.name) = {1}
        BY <2>1, <3>1 DEF Hits
    <3> QED
        BY <1>1, <3>1, <3>2 DEF Answer
  <2>3. ASSUME NEW e \in Answer(v, kk) PROVE e \in Lookup(v, kk[1])
      BY <1>1, <2>1, <2>3 DEF Answer, Hits, Lookup
  <2> QED
      BY <2>2, <2>3, Zenon
<1> QED
    BY <1>3, <1>4

(* When the range over keys ends, the map holds the answer.                *)
LEMMA CollapseAnswers ==
    ASSUME TypeOK, NEW r \in Readers, LoopInv(r), Collapse(r), m[r] # NoData
    PROVE  d[r] = Answer(m[r], keys[r])
<1>1. /\ m[r] \in Versions /\ keys[r] \in Calls /\ d[r] \subseteq Elements
      /\ next[r] > Len(keys[r]) /\ next[r] \in Nat
    BY VersionsAssumption DEF Collapse, TypeOK
<1>2. Len(keys[r]) \in Nat /\ DOMAIN keys[r] = 1..Len(keys[r])
    BY <1>1, CallsAreSequences
<1>3. FirstWins(r) /\ NothingMissed(r)
    BY DEF Collapse, LoopInv
<1>4. ASSUME NEW e \in d[r] PROVE e \in Answer(m[r], keys[r])
    BY <1>1, <1>3, Zenon DEF FirstWins, Answer
<1>5. ASSUME NEW e \in Answer(m[r], keys[r]) PROVE e \in d[r]
  <2>1. PICK i \in Hits(m[r], keys[r], e.name) :
            /\ e \in m[r][keys[r][i]]
            /\ \A j \in Hits(m[r], keys[r], e.name) : i <= j
      BY <1>5 DEF Answer
  <2>2. e \in Elements /\ e.name \in Names
      BY <1>5 DEF Answer, Elements
  <2>3. i \in 1..Len(keys[r]) /\ i < next[r] /\ keys[r][i] \in DOMAIN m[r]
      BY <1>1, <1>2, <2>1 DEF Hits
  <2>4. PICK f \in d[r] : f.name = e.name
      BY <1>3, <2>1, <2>2, <2>3 DEF NothingMissed
  <2>5. PICK j \in Hits(m[r], keys[r], e.name) :
            /\ f \in m[r][keys[r][j]]
            /\ \A l \in Hits(m[r], keys[r], e.name) : j <= l
      BY <1>3, <2>4 DEF FirstWins
  <2>6. j \in 1..Len(keys[r])
      BY <1>2, <2>5 DEF Hits
  <2>7. i = j
      BY <1>2, <2>1, <2>3, <2>5, <2>6
  <2>8. e = f
      BY <1>1, <2>1, <2>3, <2>4, <2>5, <2>7, UniqueNames
  <2> QED
      BY <2>4, <2>8
<1> QED
    BY <1>4, <1>5, Zenon

(* The mapped phase and answer of every reader.                            *)
phaseBar == [r \in Readers |-> Phase(r)]
answerBar == [r \in Readers |-> IF pc[r] = "range" /\ m[r] # NoData
                                THEN Answer(m[r], keys[r]) ELSE result[r]]

(* A step of reader r leaves the mapped phase and answer of the others.    *)
LEMMA OthersUnmapped ==
    ASSUME TypeOK, NEW r \in Readers,
           \A q \in Readers \ {r} : /\ pc'[q] = pc[q] /\ m'[q] = m[q]
                                    /\ keys'[q] = keys[q] /\ result'[q] = result[q]
    PROVE  /\ phaseBar' = [phaseBar EXCEPT ![r] = Phase(r)']
           /\ answerBar' = [answerBar EXCEPT ![r] = answerBar'[r]]
<1>1. \A q \in Readers \ {r} : phaseBar'[q] = phaseBar[q]
    BY DEF phaseBar, Phase
<1>2. \A q \in Readers \ {r} : answerBar'[q] = answerBar[q]
    BY DEF answerBar
<1>3. phaseBar'[r] = Phase(r)'
    BY DEF phaseBar
<1>4. /\ phaseBar = [q \in Readers |-> phaseBar[q]]
      /\ phaseBar' = [q \in Readers |-> phaseBar'[q]]
      /\ answerBar = [q \in Readers |-> answerBar[q]]
      /\ answerBar' = [q \in Readers |-> answerBar'[q]]
    BY DEF phaseBar, answerBar
<1> HIDE DEF phaseBar, answerBar
<1> QED
    BY <1>1, <1>2, <1>3, <1>4

(* Each step of the code is a step of the listing or changes nothing its   *)
(* callers can see.                                                        *)
LEMMA StepRefines ==
    ASSUME IInv, Next
    PROVE  Listing!ANext \/ UNCHANGED <<data, phaseBar, keys, answerBar>>
<1>t. TypeOK
    BY DEF IInv
<1>1. ASSUME NEW version \in Versions, Restock(version) PROVE Listing!ANext
  <2>1. UNCHANGED <<phaseBar, keys, answerBar>>
      BY <1>1 DEF Restock, phaseBar, answerBar, Phase
  <2>2. Listing!Restocked(version)
      BY <1>1, <2>1 DEF Restock, Listing!Restocked, phaseBar, answerBar
  <2>3. version \in Listing!Versions
      BY Zenon DEF Versions, Version, Listing!Versions, Listing!Version
  <2> QED
      BY <2>2, <2>3 DEF Listing!ANext
<1>2. ASSUME NEW r \in Readers, NEW kk \in Calls, List(r, kk) PROVE Listing!ANext
  <2>1. /\ pc[r] \in {"idle", "returned"} /\ pc'[r] = "called"
        /\ keys' = [keys EXCEPT ![r] = kk] /\ result'[r] = {} /\ data' = data
        /\ \A q \in Readers \ {r} : /\ pc'[q] = pc[q] /\ m'[q] = m[q]
                                    /\ keys'[q] = keys[q] /\ result'[q] = result[q]
      BY <1>2, <1>t DEF List, TypeOK
  <2>2. phaseBar[r] \in {"idle", "returned"} /\ Phase(r)' = "called"
        /\ answerBar'[r] = {}
      BY <2>1 DEF phaseBar, answerBar, Phase
  <2>3. Listing!Called(r, kk)
      BY <1>t, <2>1, <2>2, OthersUnmapped, Zenon DEF Listing!Called, phaseBar, answerBar
  <2>4. kk \in Listing!Calls
      BY DEF Calls, Listing!Calls
  <2> QED
      BY <2>3, <2>4 DEF Listing!ANext
<1>3. ASSUME NEW r \in Readers, ListNone(r) \/ ListOne(r) PROVE Listing!ANext
  <2>1. /\ pc[r] = "called" /\ pc'[r] = "ready"
        /\ keys' = keys /\ data' = data
        /\ \A q \in Readers \ {r} : /\ pc'[q] = pc[q] /\ m'[q] = m[q]
                                    /\ keys'[q] = keys[q] /\ result'[q] = result[q]
      BY <1>3, <1>t DEF ListNone, ListOne, Ready, TypeOK
  <2>2. result'[r] = Answer(data, keys[r])
    <3>1. keys[r] \in Calls /\ (data \in Versions \/ data = NoData)
        BY <1>t DEF TypeOK
    <3>2. CASE data = NoData
        BY <1>3, <1>t, <3>2 DEF ListNone, ListOne, Ready, TypeOK, Answer
    <3>3. CASE data \in Versions
        BY <1>3, <1>t, <3>1, <3>3, ShortAnswers, VersionsAssumption, Zenon
        DEF ListNone, ListOne, Ready, TypeOK
    <3> QED
        BY <3>1, <3>2, <3>3
  <2>3. phaseBar[r] = "called" /\ Phase(r)' = "answered"
        /\ answerBar'[r] = Answer(data, keys[r])
      BY <2>1, <2>2 DEF phaseBar, answerBar, Phase
  <2>4. Listing!Answered(r)
      BY <1>t, <2>1, <2>3, OthersUnmapped, SameAnswer, Zenon
      DEF Listing!Answered, phaseBar, answerBar
  <2> QED
      BY <2>4 DEF Listing!ANext
<1>4. ASSUME NEW r \in Readers, Load(r) PROVE Listing!ANext
  <2>1. /\ pc[r] = "called" /\ pc'[r] = "range" /\ m'[r] = data
        /\ Len(keys[r]) > 1 /\ keys' = keys /\ data' = data /\ result' = result
        /\ \A q \in Readers \ {r} : /\ pc'[q] = pc[q] /\ m'[q] = m[q]
                                    /\ keys'[q] = keys[q] /\ result'[q] = result[q]
      BY <1>4, <1>t DEF Load, TypeOK
  <2>2. CASE data = NoData
    <3>1. phaseBar[r] = "called" /\ Phase(r)' = "failed"
        BY <2>1, <2>2, ZenonT(30) DEF phaseBar, Phase
    <3>2. answerBar'[r] = answerBar[r]
        BY <2>1, <2>2 DEF answerBar
    <3>3. answerBar = [q \in Readers |-> answerBar[q]]
        BY DEF answerBar
    <3>4. answerBar' = answerBar
        BY <1>t, <2>1, <3>2, <3>3, OthersUnmapped, ZenonT(30)
    <3>5. Listing!Failed(r)
        BY <1>t, <2>1, <2>2, <3>1, <3>4, OthersUnmapped, Zenon
        DEF Listing!Failed, phaseBar, answerBar
    <3> QED
        BY <3>5 DEF Listing!ANext
  <2>3. CASE data # NoData
    <3>1. phaseBar[r] = "called" /\ Phase(r)' = "answered"
          /\ answerBar'[r] = Answer(data, keys[r])
        BY <2>1, <2>3 DEF phaseBar, answerBar, Phase
    <3>2. Listing!Answered(r)
        BY <1>t, <2>1, <3>1, OthersUnmapped, SameAnswer, Zenon
        DEF Listing!Answered, phaseBar, answerBar
    <3> QED
        BY <3>2 DEF Listing!ANext
  <2> QED
      BY <2>2, <2>3
<1>5. ASSUME NEW r \in Readers, VisitKey(r)
      PROVE  UNCHANGED <<data, phaseBar, keys, answerBar>>
    BY <1>5 DEF VisitKey, phaseBar, answerBar, Phase
<1>6. ASSUME NEW r \in Readers, Panic(r)
      PROVE  UNCHANGED <<data, phaseBar, keys, answerBar>>
  <2>1. /\ pc[r] = "range" /\ m[r] = NoData /\ m'[r] = m[r]
        /\ pc'[r] = "panicked" /\ result'[r] = result[r]
        /\ keys' = keys /\ data' = data
        /\ \A q \in Readers \ {r} : /\ pc'[q] = pc[q] /\ m'[q] = m[q]
                                    /\ keys'[q] = keys[q] /\ result'[q] = result[q]
      BY <1>6, <1>t DEF Panic, TypeOK
  <2>2. Phase(r)' = phaseBar[r] /\ answerBar'[r] = answerBar[r]
      BY <2>1 DEF phaseBar, answerBar, Phase
  <2> QED
      BY <1>t, <2>1, <2>2, OthersUnmapped, Zenon DEF phaseBar, answerBar
<1>7. ASSUME NEW r \in Readers, Collapse(r)
      PROVE  UNCHANGED <<data, phaseBar, keys, answerBar>>
  <2>1. /\ pc[r] = "range" /\ m'[r] = m[r] /\ pc'[r] = "ready"
        /\ result'[r] = d[r] /\ keys' = keys /\ data' = data
        /\ \A q \in Readers \ {r} : /\ pc'[q] = pc[q] /\ m'[q] = m[q]
                                    /\ keys'[q] = keys[q] /\ result'[q] = result[q]
      BY <1>7, <1>t DEF Collapse, Ready, TypeOK
  <2>2. m[r] # NoData
      BY <1>7, <1>t, CallsAreSequences, VersionsAssumption
      DEF Collapse, IInv, LoopInv, TypeOK
  <2>3. d[r] = Answer(m[r], keys[r])
      BY <1>7, <1>t, <2>2, CollapseAnswers DEF IInv
  <2>4. Phase(r)' = phaseBar[r] /\ answerBar'[r] = answerBar[r]
      BY <2>1, <2>2, <2>3 DEF phaseBar, answerBar, Phase
  <2> QED
      BY <1>t, <2>1, <2>4, OthersUnmapped, ZenonT(30) DEF phaseBar, answerBar
<1>8. ASSUME NEW r \in Readers, Return(r) PROVE Listing!ANext
  <2>1. /\ pc[r] = "ready" /\ pc'[r] = "returned" /\ result'[r] = result[r]
        /\ keys' = keys /\ data' = data
        /\ \A q \in Readers \ {r} : /\ pc'[q] = pc[q] /\ m'[q] = m[q]
                                    /\ keys'[q] = keys[q] /\ result'[q] = result[q]
      BY <1>8, <1>t DEF Return, TypeOK
  <2>2. phaseBar[r] = "answered" /\ Phase(r)' = "returned"
        /\ answerBar'[r] = answerBar[r]
      BY <2>1, ZenonT(30) DEF phaseBar, answerBar, Phase
  <2>3. answerBar' = answerBar
      BY <1>t, <2>1, <2>2, OthersUnmapped, Zenon DEF answerBar
  <2>4. Listing!Returned(r)
      BY <1>t, <2>1, <2>2, <2>3, OthersUnmapped, Zenon
      DEF Listing!Returned, phaseBar, answerBar
  <2> QED
      BY <2>4 DEF Listing!ANext
<1> QED
    BY <1>1, <1>2, <1>3, <1>4, <1>5, <1>6, <1>7, <1>8 DEF Next

(* Every List of the atomic cache behaves as one instantaneous listing of  *)
(* one complete version, whatever is restocked while it walks its keys.    *)
THEOREM ImplementsListing == Spec => ListIsAtomic
<1>1. Init => Listing!AInit
    BY DEF Init, Listing!AInit, Phase
<1>2. IInv /\ [Next]_vars => [Listing!ANext]_(Listing!avars)
  <2> SUFFICES ASSUME IInv, [Next]_vars
               PROVE  Listing!ANext \/ UNCHANGED Listing!avars
      OBVIOUS
  <2>1. CASE Next
      BY <2>1, StepRefines DEF Listing!avars, phaseBar, answerBar
  <2>2. CASE UNCHANGED vars
      BY <2>2 DEF vars, Listing!avars, Phase
  <2> QED
      BY <2>1, <2>2
<1> QED
    BY <1>1, <1>2, Invariance, PTL DEF Spec, ListIsAtomic, Listing!ASpec

================================================================================
