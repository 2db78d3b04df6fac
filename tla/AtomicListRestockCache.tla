------------------------- MODULE AtomicListRestockCache -------------------------
(***************************************************************************)
(* AtomicListRestockCache, as instantiated by                              *)
(* NewAtomicListRestockAccessCache: readers that walk the version of the   *)
(* data they loaded, key by key, while a synch stores the next version     *)
(* behind the atomic pointer.                                              *)
(***************************************************************************)
EXTENDS AccessVersions

CONSTANT Readers  \* goroutines that call List, one per HTTP request

VARIABLES
    data,     \* c.data
    pc,       \* where r is in List
    keys,     \* keys[r]: the arguments
    m,        \* m[r]: the pointer listAll loaded
    next,     \* next[r]: position of the range over keys
    d,        \* d[r]: the map from id to element, as the set of its values
    result    \* result[r]: the slice List returns, as a set

vars == <<data, pc, keys, m, next, d, result>>

States == {"idle", "called", "range", "ready", "returned", "panicked"}

Init ==
    /\ data = NoData
    /\ pc = [r \in Readers |-> "idle"]
    /\ keys = [r \in Readers |-> <<>>]
    /\ m = [r \in Readers |-> NoData]
    /\ next = [r \in Readers |-> 1]
    /\ d = [r \in Readers |-> {}]
    /\ result = [r \in Readers |-> {}]

(* A synch fills a map of its own and no one writes it after the store.    *)
Restock(version) ==
    /\ data' = version
    /\ UNCHANGED <<pc, keys, m, next, d, result>>

List(r, kk) ==
    /\ pc[r] \in {"idle", "returned"}
    /\ pc' = [pc EXCEPT ![r] = "called"]
    /\ keys' = [keys EXCEPT ![r] = kk]
    /\ result' = [result EXCEPT ![r] = {}]
    /\ UNCHANGED <<data, m, next, d>>

Ready(r, items) ==
    /\ pc' = [pc EXCEPT ![r] = "ready"]
    /\ result' = [result EXCEPT ![r] = items]

(* The nil slice for no keys at all.                                       *)
ListNone(r) ==
    /\ pc[r] = "called"
    /\ keys[r] = <<>>
    /\ Ready(r, {})
    /\ UNCHANGED <<data, keys, m, next, d>>

Lookup(version, k) == IF k \in DOMAIN version THEN version[k] ELSE {}

(* list, for one key: a nil pointer is an empty cache.                     *)
ListOne(r) ==
    /\ pc[r] = "called"
    /\ Len(keys[r]) = 1
    /\ Ready(r, IF data = NoData THEN {} ELSE Lookup(data, keys[r][1]))
    /\ UNCHANGED <<data, keys, m, next, d>>

(* Mutant: the range starts one position before the first key.             *)
LoadBeforeFirst(r) ==
    /\ pc[r] = "called"
    /\ Len(keys[r]) > 1
    /\ m' = [m EXCEPT ![r] = data]
    /\ next' = [next EXCEPT ![r] = 0]
    /\ d' = [d EXCEPT ![r] = {}]
    /\ pc' = [pc EXCEPT ![r] = "range"]
    /\ UNCHANGED <<data, keys, result>>

(* listAll loads the pointer once, and does not look whether it is nil.    *)
Load(r) ==
    /\ pc[r] = "called"
    /\ Len(keys[r]) > 1
    /\ m' = [m EXCEPT ![r] = data]
    /\ next' = [next EXCEPT ![r] = 1]
    /\ d' = [d EXCEPT ![r] = {}]
    /\ pc' = [pc EXCEPT ![r] = "range"]
    /\ UNCHANGED <<data, keys, result>>

(* The elements of nn whose id is not in the map yet.                      *)
Unseen(r, nn) == {e \in nn : \A x \in d[r] : x.name # e.name}

(* Mutant: every key is looked up in whatever the pointer holds by then.   *)
VisitKeyReloading(r) ==
    /\ pc[r] = "range"
    /\ data # NoData
    /\ next[r] <= Len(keys[r])
    /\ d' = [d EXCEPT ![r] = @ \cup Unseen(r, Lookup(data, keys[r][next[r]]))]
    /\ next' = [next EXCEPT ![r] = @ + 1]
    /\ UNCHANGED <<data, pc, keys, m, result>>

VisitKey(r) ==
    /\ pc[r] = "range"
    /\ m[r] # NoData
    /\ next[r] <= Len(keys[r])
    /\ d' = [d EXCEPT ![r] = @ \cup Unseen(r, Lookup(m[r], keys[r][next[r]]))]
    /\ next' = [next EXCEPT ![r] = @ + 1]
    /\ UNCHANGED <<data, pc, keys, m, result>>

(* Dereferencing the nil pointer: net/http recovers the request goroutine. *)
Panic(r) ==
    /\ pc[r] = "range"
    /\ m[r] = NoData
    /\ pc' = [pc EXCEPT ![r] = "panicked"]
    /\ UNCHANGED <<data, keys, m, next, d, result>>

(* The values of the map, in whatever order the runtime ranges over it.    *)
Collapse(r) ==
    /\ pc[r] = "range"
    /\ next[r] > Len(keys[r])
    /\ Ready(r, d[r])
    /\ UNCHANGED <<data, keys, m, next, d>>

Return(r) ==
    /\ pc[r] = "ready"
    /\ pc' = [pc EXCEPT ![r] = "returned"]
    /\ UNCHANGED <<data, keys, m, next, d, result>>

Next ==
    \/ \E version \in Versions : Restock(version)
    \/ \E r \in Readers :
          \/ \E kk \in Calls : List(r, kk)
          \/ ListNone(r)
          \/ ListOne(r)
          \/ Load(r)
          \/ VisitKey(r)
          \/ Panic(r)
          \/ Collapse(r)
          \/ Return(r)

Spec == Init /\ [][Next]_vars

--------------------------------------------------------------------------------
(* Properties.                                                             *)

(* Every reader's locals have the shape the Go types give them, and the    *)
(* range over keys stays within them.                                      *)
TypeOK ==
    /\ data \in Versions \cup {NoData}
    /\ pc \in [Readers -> States]
    /\ keys \in [Readers -> Calls]
    /\ m \in [Readers -> Versions \cup {NoData}]
    /\ next \in [Readers -> 1..(MaxKeys + 1)]
    /\ d \in [Readers -> SUBSET Elements]
    /\ result \in [Readers -> SUBSET Elements]

(* A listing is decided at the instant its call reads the pointer.         *)
Phase(r) ==
    CASE pc[r] = "ready" -> "answered"
      [] pc[r] = "range" -> IF m[r] = NoData THEN "failed" ELSE "answered"
      [] pc[r] = "panicked" -> "failed"
      [] OTHER -> pc[r]

Listing == INSTANCE AccessListing WITH
    stock <- data,
    phase <- [r \in Readers |-> Phase(r)],
    asked <- keys,
    answer <- [r \in Readers |-> IF pc[r] = "range" /\ m[r] # NoData
                                 THEN Answer(m[r], keys[r]) ELSE result[r]]

(* List against Restock: every List returns the union over its keys of one *)
(* complete version, the one current at some instant of the call, with the *)
(* entry of the first key for a namespace that several keys can access;    *)
(* it fails only over several keys and only before the first Restock.      *)
ListIsAtomic == Listing!ASpec

================================================================================
