------------------------- MODULE MCNamespaceCalculation -------------------------
(* Small instance of NamespaceCalculation for TLC.                         *)
EXTENDS NamespaceCalculation, TLC

MCUser == [kind |-> "User", name |-> "user"]
MCSubjects == {SystemAuthenticated, MCUser}
MCRank == [s \in MCSubjects |-> IF s = MCUser THEN 1 ELSE 0]
Symmetry == Permutations(Namespaces)

================================================================================
