----------------------------- MODULE AccessListing -----------------------------
(***************************************************************************)
(* What the access cache promises its callers, with no mention of how the  *)
(* data is held: a List answers as if it ran in one instant between its    *)
(* call and its return, over one complete version of the data. Before the  *)
(* first version is stocked a List over several keys may fail instead.     *)
(***************************************************************************)
EXTENDS AccessVersions

CONSTANT Readers      \* goroutines that call List, one per HTTP request

VARIABLES stock,      \* the current version of the data
          phase,      \* phase[r]: where r's call is
          asked,      \* asked[r]: the keys of r's call
          answer      \* answer[r]: what r's call answers, once it is known

avars == <<stock, phase, asked, answer>>

AInit ==
    /\ stock = NoData
    /\ phase = [r \in Readers |-> "idle"]
    /\ asked = [r \in Readers |-> <<>>]
    /\ answer = [r \in Readers |-> {}]

Restocked(m) ==
    /\ stock' = m
    /\ UNCHANGED <<phase, asked, answer>>

Called(r, keys) ==
    /\ phase[r] \in {"idle", "returned"}
    /\ phase' = [phase EXCEPT ![r] = "called"]
    /\ asked' = [asked EXCEPT ![r] = keys]
    /\ answer' = [answer EXCEPT ![r] = {}]
    /\ UNCHANGED stock

Answered(r) ==
    /\ phase[r] = "called"
    /\ phase' = [phase EXCEPT ![r] = "answered"]
    /\ answer' = [answer EXCEPT ![r] = Answer(stock, asked[r])]
    /\ UNCHANGED <<stock, asked>>

Failed(r) ==
    /\ phase[r] = "called"
    /\ stock = NoData
    /\ Len(asked[r]) > 1
    /\ phase' = [phase EXCEPT ![r] = "failed"]
    /\ UNCHANGED <<stock, asked, answer>>

Returned(r) ==
    /\ phase[r] = "answered"
    /\ phase' = [phase EXCEPT ![r] = "returned"]
    /\ UNCHANGED <<stock, asked, answer>>

ANext ==
    \/ \E m \in Versions : Restocked(m)
    \/ \E r \in Readers : \/ \E keys \in Calls : Called(r, keys)
                          \/ Answered(r)
                          \/ Failed(r)
                          \/ Returned(r)

ASpec == AInit /\ [][ANext]_avars

================================================================================
