-------------------------- MODULE MCAccessCacheMetrics --------------------------
(* Small instance of AccessCacheMetrics for TLC: two users, alike, and a   *)
(* service account.                                                        *)
EXTENDS AccessCacheMetrics, TLC

CONSTANTS alice, bob, builder

MCSubjects == {alice, bob, builder}
MCGroupKind == alice :> "User" @@ bob :> "User" @@ builder :> "ServiceAccount"
Symmetry == Permutations({alice, bob})

================================================================================
