--------------------------- MODULE MCRequestPipeline ---------------------------
(* Small instance of APIMetrics for TLC: a user, a service account, a name *)
(* that stops where the name of the account should be, and one group. The  *)
(* account has access of its own, through the group, both or neither; the  *)
(* user at most through the group.                                         *)
EXTENDS APIMetrics, TLC

MCUsernames == {<<"alice">>,
                <<"system", "serviceaccount", "build", "bot">>,
                <<"system", "serviceaccount", "build">>}
MCGroupLists == {<<>>, <<<<"devs">>>>}
MCKeys == {ServiceAccount("build", <<"bot">>), Group(<<"devs">>)}
Symmetry == Permutations(Requests)

================================================================================
