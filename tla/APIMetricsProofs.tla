---------------------------- MODULE APIMetricsProofs ----------------------------
(***************************************************************************)
(* Proofs about RequestPipeline and its metrics, for any requests, users,  *)
(* groups and versions of the access cache.                                *)
(***************************************************************************)
EXTENDS APIMetrics, FiniteSetTheorems, SequenceTheorems, WellFoundedInduction,
        TLAPS

(* What is served is a step of the pipeline or, for the instruments alone, *)
(* no step of it.                                                          *)
LEMMA MetricsStep == [MetricsNext]_avars => [Next]_vars
<1> SUFFICES ASSUME MetricsNext PROVE [Next]_vars
    BY DEF avars
<1>1. ASSUME NEW r \in Requests, NEW name \in Usernames \cup {NoUser},
             NEW groups \in GroupLists, Enter(r, name, groups)
      PROVE  Next
    BY <1>1 DEF Enter, Next
<1>2. ASSUME NEW r \in Requests, InFlightEnds(r) \/ Counted(r)
      PROVE  UNCHANGED vars
    BY <1>2 DEF InFlightEnds, Counted
<1> QED
    BY <1>1, <1>2 DEF MetricsNext, Next

--------------------------------------------------------------------------------
(* Who is served.                                                          *)

TypeInv ==
    /\ usernameHeader \in BOOLEAN
    /\ groupsHeader \in BOOLEAN
    /\ data \in Versions
    /\ pc \in [Requests -> States]
    /\ header \in [Requests -> [name : Usernames \cup {NoUser}, groups : GroupLists]]
    /\ token \in [Requests -> Infos \cup {NoUser}]
    /\ user \in [Requests -> Infos \cup {NoUser}]
    /\ code \in [Requests -> {0} \cup Codes]
    /\ body \in [Requests -> SUBSET Elements]
    /\ read \in [Requests -> Versions \cup {NoData}]

(* The status and the user of a request, by where it is. The body is that  *)
(* of one listing, over the caller's subjects, in the version recorded.    *)
Served(r) ==
    /\ pc[r] \in {"none", "authn", "handler", "aborted"} => code[r] = 0
    /\ pc[r] = "done" => code[r] \in Codes
    /\ pc[r] = "handler" \/ code[r] = 200 =>
           Caller(r) # NoUser /\ user[r] = Caller(r)
    /\ code[r] = 401 => Caller(r) = NoUser
    /\ code[r] = 200 =>
           read[r] \in Versions /\ body[r] = Answer(read[r], subjects(user[r]))

ServedInv == \A r \in Requests : Served(r)

(* The proxy's word is never taken for no user.                            *)
LEMMA HeaderIsUser ==
    ASSUME TypeInv, NEW r \in Requests, ByHeader(r)
    PROVE  HeaderInfo(r) \in Infos /\ HeaderInfo(r) # NoUser
<1>1. header[r].name \in Usernames /\ header[r].groups \in GroupLists
    BY DEF TypeInv, ByHeader
<1>2. HeaderInfo(r) \in Infos
    BY <1>1, PipelineAssumption DEF HeaderInfo, Infos
<1> QED
    BY <1>2, PipelineAssumption

(* Init: nobody has arrived.                                               *)
LEMMA InitServed == Init => TypeInv /\ ServedInv
<1> SUFFICES ASSUME Init PROVE TypeInv /\ ServedInv
    OBVIOUS
<1>1. TypeInv
    BY PipelineAssumption DEF Init, TypeInv, States, Codes
<1>2. ServedInv
    BY DEF Init, ServedInv, Served, Codes
<1> QED
    BY <1>1, <1>2

(* Every variable keeps its type.                                          *)
LEMMA NextTypeInv == TypeInv /\ [Next]_vars => TypeInv'
<1> SUFFICES ASSUME TypeInv, [Next]_vars PROVE TypeInv'
    OBVIOUS
<1> USE DEF TypeInv, States, Codes
<1>1. ASSUME NEW version \in Versions, Restock(version) PROVE TypeInv'
    BY <1>1 DEF Restock, configVars
<1>2. ASSUME NEW r \in Requests, NEW name \in Usernames \cup {NoUser},
             NEW groups \in GroupLists, Arrive(r, name, groups)
      PROVE  TypeInv'
    BY <1>2 DEF Arrive, configVars
<1>3. ASSUME NEW r \in Requests, AuthenticateByHeader(r) PROVE TypeInv'
    <2>1. HeaderInfo(r) \in Infos
        BY <1>3, HeaderIsUser DEF AuthenticateByHeader
    <2> QED
        BY <1>3, <2>1 DEF AuthenticateByHeader, Authenticated, configVars
<1>4. ASSUME NEW r \in Requests, NEW info \in Infos \cup {NoUser},
             AuthenticateByToken(r, info)
      PROVE  TypeInv'
    BY <1>4 DEF AuthenticateByToken, Authenticated, configVars
<1>5. ASSUME NEW r \in Requests, ServeHTTP(r) PROVE TypeInv'
    <2>1. ListNamespaces(user[r]) \in SUBSET Elements
        BY DEF ListNamespaces, Answer
    <2> QED
        BY <1>5, <2>1 DEF ServeHTTP, configVars
<1>6. ASSUME NEW r \in Requests, Abort(r) PROVE TypeInv'
    BY <1>6 DEF Abort, configVars
<1>7. CASE UNCHANGED vars
    BY <1>7 DEF vars, configVars
<1> QED
    BY <1>1, <1>2, <1>3, <1>4, <1>5, <1>6, <1>7, Zenon DEF Next, RequestStep

(* What is served to q depends on q's own variables and the configuration. *)
LEMMA OthersServed ==
    ASSUME NEW q \in Requests, Served(q),
           UNCHANGED configVars,
           pc'[q] = pc[q], header'[q] = header[q], token'[q] = token[q],
           user'[q] = user[q], code'[q] = code[q], body'[q] = body[q],
           read'[q] = read[q]
    PROVE  Served(q)'
<1>1. Caller(q)' = Caller(q)
    BY DEF Caller, ByHeader, HeaderInfo, configVars
<1> QED
    BY <1>1 DEF Served

(* Each step serves one request and leaves the others alone.               *)
LEMMA NextServedInv == TypeInv /\ ServedInv /\ [Next]_vars => ServedInv'
<1> SUFFICES ASSUME TypeInv, ServedInv, [Next]_vars PROVE ServedInv'
    OBVIOUS
<1> USE DEF ServedInv
<1>1. ASSUME NEW version \in Versions, Restock(version) PROVE ServedInv'
    BY <1>1, OthersServed DEF Restock
<1>2. ASSUME NEW r \in Requests, NEW name \in Usernames \cup {NoUser},
             NEW groups \in GroupLists, Arrive(r, name, groups)
      PROVE  ServedInv'
    <2>1. Served(r)'
        <3>1. code'[r] = 0 /\ pc'[r] = "authn"
            BY <1>2 DEF Arrive, TypeInv, Served
        <3> QED
            BY <3>1 DEF Served, Codes
    <2>2. ASSUME NEW q \in Requests \ {r} PROVE Served(q)'
        BY <1>2, OthersServed DEF Arrive, TypeInv
    <2> QED
        BY <2>1, <2>2
<1>3. ASSUME NEW r \in Requests, NEW info \in Infos \cup {NoUser},
             Authenticated(r, info), Caller(r)' = info,
             UNCHANGED <<configVars, header, body, read>>,
             \A q \in Requests \ {r} : token'[q] = token[q]
      PROVE  ServedInv'
    <2>1. Served(r)'
        <3>1. CASE info = NoUser
            BY <1>3, <3>1 DEF Authenticated, Served, TypeInv, Codes
        <3>2. CASE info # NoUser
            BY <1>3, <3>2 DEF Authenticated, Served, TypeInv, Codes
        <3> QED
            BY <3>1, <3>2
    <2>2. ASSUME NEW q \in Requests \ {r} PROVE Served(q)'
        BY <1>3, OthersServed DEF Authenticated, TypeInv
    <2> QED
        BY <2>1, <2>2
<1>4. ASSUME NEW r \in Requests, AuthenticateByHeader(r) PROVE ServedInv'
    <2>1. HeaderInfo(r) \in Infos /\ Caller(r)' = HeaderInfo(r)
        BY <1>4, HeaderIsUser
        DEF AuthenticateByHeader, Caller, ByHeader, HeaderInfo, configVars
    <2> QED
        BY <1>3, <1>4, <2>1 DEF AuthenticateByHeader
<1>5. ASSUME NEW r \in Requests, NEW info \in Infos \cup {NoUser},
             AuthenticateByToken(r, info)
      PROVE  ServedInv'
    <2>1. Caller(r)' = info
        BY <1>5 DEF AuthenticateByToken, Caller, ByHeader, configVars, TypeInv
    <2>2. \A q \in Requests \ {r} : token'[q] = token[q]
        BY <1>5 DEF AuthenticateByToken, TypeInv
    <2> QED
        BY <1>3, <1>5, <2>1, <2>2 DEF AuthenticateByToken
<1>6. ASSUME NEW r \in Requests, ServeHTTP(r) PROVE ServedInv'
    <2>1. Served(r)'
        <3>1. /\ pc'[r] = "done" /\ code'[r] = 200 /\ user' = user
              /\ read'[r] = data /\ body'[r] = ListNamespaces(user[r])
            BY <1>6 DEF ServeHTTP, TypeInv, Served
        <3>2. Caller(r)' = Caller(r) /\ Caller(r) # NoUser /\ user[r] = Caller(r)
            BY <1>6
            DEF ServeHTTP, Served, Caller, ByHeader, HeaderInfo, configVars
        <3>3. body'[r] = Answer(read'[r], subjects(user'[r]))
            BY <3>1 DEF ListNamespaces
        <3> QED
            BY <3>1, <3>2, <3>3 DEF Served, Codes, TypeInv
    <2>2. ASSUME NEW q \in Requests \ {r} PROVE Served(q)'
        BY <1>6, OthersServed DEF ServeHTTP, TypeInv
    <2> QED
        BY <2>1, <2>2
<1>7. ASSUME NEW r \in Requests, Abort(r) PROVE ServedInv'
    <2>1. Served(r)'
        <3>1. code'[r] = 0 /\ pc'[r] = "aborted"
            BY <1>7 DEF Abort, TypeInv, Served
        <3> QED
            BY <3>1 DEF Served, Codes
    <2>2. ASSUME NEW q \in Requests \ {r} PROVE Served(q)'
        BY <1>7, OthersServed DEF Abort, TypeInv
    <2> QED
        BY <2>1, <2>2
<1>8. CASE UNCHANGED vars
    BY <1>8, OthersServed DEF vars
<1> QED
    BY <1>1, <1>2, <1>4, <1>5, <1>6, <1>7, <1>8 DEF Next, RequestStep

(* Both hold of every behaviour of the instrumented pipeline.              *)
LEMMA ServedInvariance == MetricsSpec => [](TypeInv /\ ServedInv)
<1>1. MetricsInit => TypeInv /\ ServedInv
    BY InitServed DEF MetricsInit
<1>2. TypeInv /\ ServedInv /\ [MetricsNext]_avars => (TypeInv /\ ServedInv)'
    BY MetricsStep, NextTypeInv, NextServedInv
<1> QED
    BY <1>1, <1>2, PTL DEF MetricsSpec

(* AuthenticateRequest, AddAuthnMiddleware and ServeHTTP: for any number   *)
(* of requests served at once, each is listed for its own caller or        *)
(* refused because it has none.                                            *)
THEOREM ServesCallersOnly == MetricsSpec => []ListsForCallersOnly
<1>1. TypeInv /\ ServedInv => ListsForCallersOnly
    <2> SUFFICES ASSUME TypeInv, ServedInv, NEW r \in Requests
                 PROVE  /\ pc[r] = "handler" \/ code[r] = 200 =>
                               Caller(r) # NoUser /\ user[r] = Caller(r)
                        /\ code[r] = 401 <=> pc[r] = "done" /\ Caller(r) = NoUser
        BY DEF ListsForCallersOnly
    <2>1. pc[r] \in States /\ Served(r)
        BY DEF TypeInv, ServedInv
    <2> QED
        BY <2>1 DEF Served, States, Codes
<1> QED
    BY <1>1, ServedInvariance, PTL

--------------------------------------------------------------------------------
(* What a response says.                                                   *)

(* A set of natural numbers has a least element.                           *)
LEMMA Least ==
    ASSUME NEW T \in SUBSET Nat, T # {}
    PROVE  \E i \in T : \A j \in T : i <= j
<1> DEFINE R == OpToRel(<, Nat)
<1>1. IsWellFoundedOn(R, Nat)
    BY NatLessThanWellFounded, Zenon
<1>2. \A a, b \in Nat : a < b => <<a, b>> \in R
    BY DEF OpToRel
<1> HIDE DEF R
<1>3. PICK x \in T : \A y \in T : ~(<<y, x>> \in R)
    BY <1>1, WFMin, Zenon
<1>4. ASSUME NEW y \in T PROVE x <= y
    <2>1. x \in Nat /\ y \in Nat
        OBVIOUS
    <2>2. ~(y < x)
        BY <1>2, <1>3, <2>1, Zenon
    <2> QED
        BY <2>1, <2>2
<1> QED
    BY <1>4

(* The entry of a subject holds namespaces that name that subject.         *)
LEMMA VersionEntries ==
    ASSUME NEW v \in Versions, NEW k \in DOMAIN v
    PROVE  v[k] \subseteq Elements /\ \A e \in v[k] : e.via = k
<1>1. PICK access \in [Keys -> SUBSET Names] : v = Version(access)
    BY DEF Versions
<1>2. k \in Keys /\ v[k] = {[name |-> n, via |-> k] : n \in access[k]}
    BY <1>1, Zenon DEF Version
<1> QED
    BY <1>2 DEF Elements

(* The subjects of a caller: the user first, then the groups.              *)
LEMMA SubjectsOf ==
    ASSUME NEW info \in Infos
    PROVE  LET ss == subjects(info) IN
           /\ DOMAIN ss = 1..(Len(info.groups) + 1)
           /\ ss[1] = parseUsername(info.name)
           /\ \A i \in 1..Len(info.groups) : ss[i + 1] = Group(info.groups[i])
           /\ DOMAIN info.groups = 1..Len(info.groups)
           /\ Len(info.groups) \in Nat
<1> DEFINE g == info.groups
           gs == [i \in 1..Len(g) |-> Group(g[i])]
           me == <<parseUsername(info.name)>>
           S == {parseUsername(info.name)} \cup {Group(g[i]) : i \in 1..Len(g)}
<1>1. /\ g \in Seq({g[i] : i \in DOMAIN g})
      /\ Len(g) \in Nat /\ DOMAIN g = 1..Len(g)
    BY PipelineAssumption DEF Infos
<1>2. gs \in Seq(S) /\ Len(gs) = Len(g)
    BY <1>1
<1>3. me \in Seq(S) /\ Len(me) = 1 /\ me[1] = parseUsername(info.name)
    OBVIOUS
<1>4. subjects(info) = me \o gs
    BY DEF subjects
<1> HIDE DEF me, gs, S
<1>c. /\ Len(me \o gs) = Len(me) + Len(gs)
      /\ me \o gs \in Seq(S)
      /\ \A i \in 1..(Len(me) + Len(gs)) :
             (me \o gs)[i] = IF i <= Len(me) THEN me[i] ELSE gs[i - Len(me)]
    BY <1>2, <1>3, ConcatProperties, Zenon
<1>5. DOMAIN (me \o gs) = 1..(Len(g) + 1) /\ (me \o gs)[1] = me[1]
    BY <1>1, <1>2, <1>3, <1>c
<1>6. ASSUME NEW i \in 1..Len(g) PROVE (me \o gs)[i + 1] = gs[i]
    BY <1>1, <1>2, <1>3, <1>c
<1>7. \A i \in 1..Len(g) : gs[i] = Group(g[i])
    BY DEF gs
<1> QED
    BY <1>1, <1>3, <1>4, <1>5, <1>6, <1>7, Zenon

(* Answer over the keys kk: each name that some key has, once, as the      *)
(* first such key has it.                                                  *)
LEMMA AnswerIsFirstHit ==
    ASSUME NEW v \in Versions, NEW kk, NEW len \in Nat, DOMAIN kk = 1..len
    PROVE  /\ \A e, f \in Answer(v, kk) : e.name = f.name => e = f
           /\ \A n \in Names : (\E e \in Answer(v, kk) : e.name = n)
                                   <=> \E i \in 1..len : CanAccess(v, kk[i], n)
           /\ \A e \in Answer(v, kk) :
                  1 \in 1..len /\ CanAccess(v, kk[1], e.name) => e.via = kk[1]
<1>1. v # NoData
    BY VersionsAssumption
<1>2. ASSUME NEW n
      PROVE  /\ Hits(v, kk, n) = {i \in 1..len : CanAccess(v, kk[i], n)}
             /\ Hits(v, kk, n) \in SUBSET Nat
    BY DEF Hits, CanAccess
<1>3. ASSUME NEW e \in Answer(v, kk)
      PROVE  \E i \in Hits(v, kk, e.name) :
                 /\ e \in v[kk[i]] /\ kk[i] \in DOMAIN v
                 /\ \A j \in Hits(v, kk, e.name) : i <= j
    BY <1>1 DEF Answer, Hits
<1>4. ASSUME NEW e \in Elements, NEW f \in Elements,
             e.name = f.name, e.via = f.via
      PROVE  e = f
    BY <1>4 DEF Elements
<1>5. ASSUME NEW e \in Answer(v, kk), NEW f \in Answer(v, kk), e.name = f.name
      PROVE  e = f
    <2>1. PICK i \in Hits(v, kk, e.name) :
              /\ e \in v[kk[i]] /\ kk[i] \in DOMAIN v
              /\ \A j \in Hits(v, kk, e.name) : i <= j
        BY <1>3
    <2>2. PICK j \in Hits(v, kk, f.name) :
              /\ f \in v[kk[j]] /\ kk[j] \in DOMAIN v
              /\ \A k \in Hits(v, kk, f.name) : j <= k
        BY <1>3, Zenon
    <2>3. i \in Nat /\ j \in Nat /\ i <= j /\ j <= i
        BY <1>2, <1>5, <2>1, <2>2
    <2>4. i = j
        BY <2>3
    <2>5. e.via = f.via /\ e \in Elements /\ f \in Elements
        BY <2>1, <2>2, <2>4, VersionEntries
    <2> QED
        BY <1>4, <1>5, <2>5
<1>6. ASSUME NEW n \in Names, NEW e \in Answer(v, kk), e.name = n
      PROVE  \E i \in 1..len : CanAccess(v, kk[i], n)
    BY <1>2, <1>3, <1>6
<1>7. ASSUME NEW n \in Names, NEW h \in 1..len, CanAccess(v, kk[h], n)
      PROVE  \E e \in Answer(v, kk) : e.name = n
    <2>1. Hits(v, kk, n) # {} /\ Hits(v, kk, n) \in SUBSET Nat
        BY <1>2, <1>7
    <2>2. PICK i \in Hits(v, kk, n) : \A j \in Hits(v, kk, n) : i <= j
        BY <2>1, Least
    <2>3. PICK e \in v[kk[i]] : e.name = n
        BY <2>2 DEF Hits
    <2>4. kk[i] \in DOMAIN v
        BY <2>2 DEF Hits
    <2>5. e \in Elements
        BY <2>3, <2>4, VersionEntries
    <2>6. e \in Answer(v, kk)
        BY <1>1, <2>2, <2>3, <2>5 DEF Answer
    <2> QED
        BY <2>3, <2>6
<1>8. ASSUME NEW e \in Answer(v, kk), 1 \in 1..len, CanAccess(v, kk[1], e.name)
      PROVE  e.via = kk[1]
    <2>1. PICK i \in Hits(v, kk, e.name) :
              /\ e \in v[kk[i]] /\ kk[i] \in DOMAIN v
              /\ \A j \in Hits(v, kk, e.name) : i <= j
        BY <1>3
    <2>2. 1 \in Hits(v, kk, e.name) /\ i \in 1..len
        BY <1>2, <1>8, <2>1
    <2>3. i = 1
        BY <2>1, <2>2
    <2> QED
        BY <2>1, <2>3, VersionEntries
<1> QED
    BY <1>5, <1>6, <1>7, <1>8

(* subjects, List and ServeHTTP: for any callers, groups and versions, a   *)
(* response is exactly the caller's access, once per namespace, the        *)
(* caller's own before that of a group.                                    *)
THEOREM RespondsWithCallersAccess == MetricsSpec => []ResponseIsCallersAccess
<1>1. ASSUME TypeInv, ServedInv, NEW r \in Requests, code[r] = 200
      PROVE  LET me == parseUsername(Caller(r).name)
                 groups == {Group(Caller(r).groups[i]) :
                                i \in DOMAIN Caller(r).groups}
             IN  /\ \A e, f \in body[r] : e.name = f.name => e = f
                 /\ \A n \in Names :
                        (\E e \in body[r] : e.name = n)
                            <=> \E s \in {me} \cup groups : CanAccess(read[r], s, n)
                 /\ \A e \in body[r] : CanAccess(read[r], me, e.name) => e.via = me
    <2> DEFINE info == Caller(r)
               g == info.groups
               kk == subjects(info)
               len == Len(g) + 1
               me == parseUsername(info.name)
               groups == {Group(g[i]) : i \in DOMAIN g}
    <2>1. /\ info \in Infos /\ read[r] \in Versions
          /\ body[r] = Answer(read[r], kk)
        BY <1>1 DEF TypeInv, ServedInv, Served
    <2>2. /\ DOMAIN kk = 1..len /\ kk[1] = me /\ len \in Nat /\ 1 \in 1..len
          /\ DOMAIN g = 1..Len(g) /\ Len(g) \in Nat
          /\ \A i \in 1..Len(g) : kk[i + 1] = Group(g[i])
        BY <2>1, SubjectsOf
    <2> HIDE DEF info, g, kk, len, me
    <2>3. ASSUME NEW n
          PROVE  (\E i \in 1..len : CanAccess(read[r], kk[i], n))
                     <=> \E s \in {me} \cup groups : CanAccess(read[r], s, n)
        <3>1. ASSUME NEW i \in 1..len
              PROVE  kk[i] \in {me} \cup groups
            <4>1. CASE i = 1
                BY <2>2, <4>1
            <4>2. CASE i # 1
                <5>1. i - 1 \in 1..Len(g) /\ (i - 1) + 1 = i
                    BY <2>2, <4>2 DEF len
                <5>2. kk[i] = Group(g[i - 1])
                    BY <2>2, <5>1
                <5> QED
                    BY <2>2, <5>1, <5>2
            <4> QED
                BY <4>1, <4>2
        <3>2. ASSUME NEW s \in {me} \cup groups PROVE \E i \in 1..len : kk[i] = s
            <4>1. CASE s = me
                BY <2>2, <4>1
            <4>2. ASSUME NEW j \in 1..Len(g), s = Group(g[j])
                  PROVE  \E i \in 1..len : kk[i] = s
                <5>1. j + 1 \in 1..len
                    BY <2>2 DEF len
                <5> QED
                    BY <2>2, <4>2, <5>1
            <4> QED
                BY <2>2, <4>1, <4>2
        <3> QED
            BY <3>1, <3>2
    <2>4. /\ \A e, f \in Answer(read[r], kk) : e.name = f.name => e = f
          /\ \A n \in Names : (\E e \in Answer(read[r], kk) : e.name = n)
                                  <=> \E i \in 1..len : CanAccess(read[r], kk[i], n)
          /\ \A e \in Answer(read[r], kk) :
                 1 \in 1..len /\ CanAccess(read[r], kk[1], e.name) => e.via = kk[1]
        BY <2>1, <2>2, AnswerIsFirstHit, ZenonT(30)
    <2>5. /\ \A e, f \in body[r] : e.name = f.name => e = f
          /\ \A n \in Names :
                 (\E e \in body[r] : e.name = n)
                     <=> \E s \in {me} \cup groups : CanAccess(read[r], s, n)
          /\ \A e \in body[r] : CanAccess(read[r], me, e.name) => e.via = me
        BY <2>1, <2>2, <2>3, <2>4
    <2> QED
        BY <2>5 DEF me, g, info
<1>2. TypeInv /\ ServedInv => ResponseIsCallersAccess
    BY <1>1 DEF ResponseIsCallersAccess
<1> QED
    BY <1>2, ServedInvariance, PTL

--------------------------------------------------------------------------------
(* The metrics.                                                            *)

Inside == {r \in Requests : layer[r] = "inFlight"}
CountedAs(c) == {r \in Requests : layer[r] = "outside" /\ code[r] = c}

(* The instruments around a request, by where the request is.              *)
LayersInv ==
    /\ layer \in [Requests -> {"outside", "inFlight", "counter"}]
    /\ \A r \in Requests :
           /\ pc[r] = "none" => layer[r] = "outside"
           /\ pc[r] \in {"authn", "handler"} => layer[r] = "inFlight"
           /\ layer[r] = "counter" => pc[r] = "done"

AccountInv ==
    /\ requestCounter \in [Codes -> Nat]
    /\ IsFiniteSet(Inside) /\ inFlightGauge = Cardinality(Inside)
    /\ \A c \in Codes : IsFiniteSet(CountedAs(c))
                        /\ requestCounter[c] = Cardinality(CountedAs(c))

(* Init: all instruments are at zero and nobody is inside.                 *)
LEMMA InitAccount == MetricsInit => LayersInv /\ AccountInv
<1> SUFFICES ASSUME MetricsInit PROVE LayersInv /\ AccountInv
    OBVIOUS
<1>1. LayersInv
    BY DEF Init, MetricsInit, LayersInv
<1>2. Inside = {} /\ \A c \in Codes : CountedAs(c) = {}
    BY DEF Init, MetricsInit, Inside, CountedAs, Codes
<1>3. AccountInv
    BY <1>2, FS_EmptySet DEF MetricsInit, AccountInv
<1> QED
    BY <1>1, <1>3

(* A request is inside from its arrival until its handler is done.         *)
LEMMA NextLayersInv ==
    TypeInv /\ LayersInv /\ [MetricsNext]_avars => LayersInv'
<1> SUFFICES ASSUME TypeInv, LayersInv, [MetricsNext]_avars PROVE LayersInv'
    OBVIOUS
<1> USE DEF TypeInv, LayersInv
<1>1. ASSUME NEW r \in Requests, NEW name \in Usernames \cup {NoUser},
             NEW groups \in GroupLists, Enter(r, name, groups)
      PROVE  LayersInv'
    BY <1>1 DEF Enter, Arrive
<1>2. ASSUME NEW r \in Requests, InFlightEnds(r) PROVE LayersInv'
    BY <1>2 DEF InFlightEnds, vars
<1>3. ASSUME NEW r \in Requests, Counted(r) PROVE LayersInv'
    BY <1>3 DEF Counted, vars
<1>4. ASSUME NEW r \in Requests, RequestStep(r), UNCHANGED metricsVars
      PROVE  LayersInv'
    BY <1>4 DEF RequestStep, AuthenticateByHeader, AuthenticateByToken,
                Authenticated, ServeHTTP, Abort, metricsVars
<1>5. ASSUME NEW version \in Versions, Restock(version), UNCHANGED metricsVars
      PROVE  LayersInv'
    BY <1>5 DEF Restock, metricsVars
<1>6. CASE UNCHANGED avars
    BY <1>6 DEF avars, vars, metricsVars
<1> QED
    BY <1>1, <1>2, <1>3, <1>4, <1>5, <1>6, Zenon DEF MetricsNext

(* A request comes in, goes out, and is counted, one at a time; no request *)
(* outside gets another code.                                              *)
LEMMA NextAccountInv ==
    TypeInv /\ ServedInv /\ LayersInv /\ AccountInv /\ [MetricsNext]_avars
        => AccountInv'
<1> SUFFICES ASSUME TypeInv, ServedInv, LayersInv, AccountInv,
                    [MetricsNext]_avars
             PROVE  AccountInv'
    OBVIOUS
<1>1. ASSUME NEW r \in Requests, NEW name \in Usernames \cup {NoUser},
             NEW groups \in GroupLists, Enter(r, name, groups)
      PROVE  AccountInv'
    <2>1. pc[r] = "none" /\ layer[r] = "outside" /\ code[r] = 0
        BY <1>1 DEF Enter, Arrive, LayersInv, ServedInv, Served
    <2>2. Inside' = Inside \cup {r} /\ r \notin Inside
        BY <1>1, <2>1, ZenonT(30) DEF Enter, Inside, LayersInv
    <2>3. \A c \in Codes : CountedAs(c)' = CountedAs(c)
        BY <1>1, <2>1 DEF Enter, Arrive, CountedAs, LayersInv, Codes
    <2>4. IsFiniteSet(Inside \cup {r})
          /\ Cardinality(Inside \cup {r}) = Cardinality(Inside) + 1
        BY <2>2, FS_AddElement DEF AccountInv
    <2> QED
        BY <1>1, <2>2, <2>3, <2>4, ZenonT(30) DEF Enter, AccountInv
<1>2. ASSUME NEW r \in Requests, InFlightEnds(r) PROVE AccountInv'
    <2>1. Inside' = Inside \ {r} /\ r \in Inside
        BY <1>2 DEF InFlightEnds, Inside, LayersInv
    <2>2. pc[r] = "aborted" => code[r] = 0
        BY DEF ServedInv, Served
    <2>3. \A c \in Codes : CountedAs(c)' = CountedAs(c)
        BY <1>2, <2>2 DEF InFlightEnds, vars, CountedAs, LayersInv, Codes
    <2>4. IsFiniteSet(Inside \ {r})
          /\ Cardinality(Inside \ {r}) = Cardinality(Inside) - 1
        BY <2>1, FS_RemoveElement DEF AccountInv
    <2> QED
        BY <1>2, <2>1, <2>3, <2>4 DEF InFlightEnds, AccountInv
<1>3. ASSUME NEW r \in Requests, Counted(r) PROVE AccountInv'
    <2>1. code[r] \in Codes /\ layer[r] = "counter"
        BY <1>3 DEF Counted, LayersInv, ServedInv, Served
    <2>2. Inside' = Inside
        BY <1>3 DEF Counted, Inside, LayersInv
    <2>3. /\ CountedAs(code[r])' = CountedAs(code[r]) \cup {r}
          /\ r \notin CountedAs(code[r])
          /\ \A c \in Codes \ {code[r]} : CountedAs(c)' = CountedAs(c)
        BY <1>3, <2>1 DEF Counted, vars, CountedAs, LayersInv
    <2>4. /\ IsFiniteSet(CountedAs(code[r]) \cup {r})
          /\ Cardinality(CountedAs(code[r]) \cup {r})
                 = Cardinality(CountedAs(code[r])) + 1
        BY <2>1, <2>3, FS_AddElement DEF AccountInv
    <2>5. \A c \in Codes : IsFiniteSet(CountedAs(c)')
                           /\ requestCounter'[c] = Cardinality(CountedAs(c)')
        BY <1>3, <2>1, <2>3, <2>4, Zenon DEF Counted, vars, AccountInv
    <2> QED
        BY <1>3, <2>1, <2>2, <2>5 DEF Counted, AccountInv
<1>4. ASSUME UNCHANGED metricsVars,
             \A r \in Requests : layer[r] = "outside" => code'[r] = code[r]
      PROVE  AccountInv'
    <2>1. Inside' = Inside /\ \A c \in Codes : CountedAs(c)' = CountedAs(c)
        BY <1>4 DEF metricsVars, Inside, CountedAs
    <2> QED
        BY <1>4, <2>1 DEF metricsVars, AccountInv
<1>5. ASSUME NEW r \in Requests, RequestStep(r), UNCHANGED metricsVars
      PROVE  AccountInv'
    <2>1. layer[r] = "inFlight"
        BY <1>5, ZenonT(30) DEF RequestStep, AuthenticateByHeader, AuthenticateByToken,
                    ServeHTTP, Abort, LayersInv
    <2>2. \A q \in Requests \ {r} : code'[q] = code[q]
        BY <1>5 DEF RequestStep, AuthenticateByHeader, AuthenticateByToken,
                    Authenticated, ServeHTTP, Abort, TypeInv
    <2> QED
        BY <1>4, <1>5, <2>1, <2>2
<1>6. ASSUME NEW version \in Versions, Restock(version), UNCHANGED metricsVars
      PROVE  AccountInv'
    BY <1>4, <1>6, ZenonT(30) DEF Restock
<1>7. CASE UNCHANGED avars
    BY <1>4, <1>7 DEF avars, vars
<1> QED
    BY <1>1, <1>2, <1>3, <1>5, <1>6, <1>7 DEF MetricsNext

(* AddMetricsMiddleware: whatever requests overlap, and however they end,  *)
(* the gauge and the counter account for each of them.                     *)
THEOREM MetricsAccount == MetricsSpec => []MetricsAccountForRequests
<1>1. TypeInv /\ LayersInv /\ [MetricsNext]_avars => LayersInv'
    BY NextLayersInv
<1>2. MetricsSpec => [](LayersInv /\ AccountInv)
    BY <1>1, InitAccount, NextAccountInv, ServedInvariance, PTL DEF MetricsSpec
<1>3. AccountInv => MetricsAccountForRequests
    BY DEF AccountInv, MetricsAccountForRequests, Inside, CountedAs
<1> QED
    BY <1>2, <1>3, PTL
================================================================================
