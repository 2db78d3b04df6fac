----------------------- MODULE MCAtomicListRestockCache -----------------------
(* Small instance of AtomicListRestockCache for TLC.                       *)
EXTENDS AtomicListRestockCache, TLC

Symmetry == Permutations(Names)

================================================================================
