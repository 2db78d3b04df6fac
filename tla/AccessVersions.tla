----------------------------- MODULE AccessVersions -----------------------------
(***************************************************************************)
(* The data an access cache holds and what a listing over it should be.    *)
(***************************************************************************)
EXTENDS Naturals, Sequences

CONSTANTS Keys,       \* the subjects
          Names,      \* the names of namespaces, what idFunc returns
          MaxKeys,    \* bound: keys in one call
          NoData      \* the nil pointer: nothing stocked yet

Calls == UNION {[1..n -> Keys] : n \in 0..MaxKeys}

(* A namespace as one subject sees it: the virtual labels and annotations  *)
(* that synch adds tell the subject the access comes from.                 *)
Elements == [name : Names, via : Keys]

(* A version has the subjects that can access something, and no others.    *)
Version(access) ==
    [k \in {j \in Keys : access[j] # {}} |->
        {[name |-> n, via |-> k] : n \in access[k]}]

Versions == {Version(access) : access \in [Keys -> SUBSET Names]}

(* The positions of keys whose entry in m holds a namespace called n.      *)
Hits(m, keys, n) ==
    {i \in DOMAIN keys : /\ keys[i] \in DOMAIN m
                         /\ \E e \in m[keys[i]] : e.name = n}

(* One element for each name that any key has: that of the first such key. *)
Answer(m, keys) ==
    IF m = NoData THEN {}
    ELSE {e \in Elements : \E i \in Hits(m, keys, e.name) :
             /\ e \in m[keys[i]]
             /\ \A j \in Hits(m, keys, e.name) : i <= j}

ASSUME VersionsAssumption ==
    /\ MaxKeys \in Nat
    /\ NoData \notin Versions

================================================================================
