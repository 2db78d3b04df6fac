---------------------- MODULE MCSynchronizedAccessCache ----------------------
(* Small instances of SynchronizedAccessCache for TLC.                     *)
EXTENDS SynchronizedAccessCache, TLC

Symmetry == Permutations(Namespaces) \cup Permutations(Subjects)

================================================================================
