--------------------------- MODULE CalculationWindow ---------------------------
(***************************************************************************)
(* AccessCalculation with a history of what the stores held since the      *)
(* current synch began. A synch reads them in many steps, and so does each *)
(* AllowedSubjects within it: what it publishes need not be what the       *)
(* stores granted at any single instant. This module says what it may be.  *)
(***************************************************************************)
EXTENDS AccessCalculation

VARIABLE window  \* what the stores held, ever and always, since then

wvars == <<vars, window>>

StoredNamespaces == {n \in Namespaces : InStore(NamespaceKey(n))}

(* A binding in the store binds a subject to a role; a role in the store   *)
(* grants a namespace.                                                     *)
BindingKeys == {k \in Keys : k.kind \in BindingKinds}
RoleKeys == {k \in Keys : k.kind \in RoleKinds}

Links ==
    {l \in [binding : BindingKeys, role : RoleKeys, subject : Subjects] :
        /\ InStore(l.binding)
        /\ l.role = RoleKey(l.binding, store[l.binding])
        /\ l.subject \in store[l.binding].subjects}

Grants == {g \in [role : RoleKeys, name : Namespaces] :
              RulesAllow(GetRules(g.role), g.name)}

(* One binding and one role give a subject a namespace.                    *)
Covers(k, n) ==
    \/ k.kind = "ClusterRoleBinding"
    \/ k.kind = "RoleBinding" /\ k.namespace = n

Path(links, grants, s, n) ==
    \E l \in links : /\ l.subject = s
                     /\ Covers(l.binding, n)
                     /\ [role |-> l.role, name |-> n] \in grants

Now == [everNs |-> StoredNamespaces, alwaysNs |-> StoredNamespaces,
        everLinks |-> Links, alwaysLinks |-> Links,
        everGrants |-> Grants, alwaysGrants |-> Grants]

WindowInit == Init /\ window = Now

(* Between two synchs there is nothing to remember.                        *)
WindowNext ==
    window' = LET now == Now'
              IN  IF pc' = "idle" THEN now ELSE
                  [everNs |-> window.everNs \cup now.everNs,
                   alwaysNs |-> window.alwaysNs \cap now.alwaysNs,
                   everLinks |-> window.everLinks \cup now.everLinks,
                   alwaysLinks |-> window.alwaysLinks \cap now.alwaysLinks,
                   everGrants |-> window.everGrants \cup now.everGrants,
                   alwaysGrants |-> window.alwaysGrants \cap now.alwaysGrants]

WindowSpec == WindowInit /\ [][Next /\ WindowNext]_wvars

FairWindowSpec == WindowSpec /\ Fairness

(* synch, AllowedSubjects and CRAuthRetriever: what a synch publishes. A   *)
(* pair in the new data has a namespace that was listed, a binding that    *)
(* covers it and a role that grants it, each in the stores at some time    *)
(* since the synch began, though not all at once; and a namespace, a       *)
(* binding and a role that were there all along put their pair in the new  *)
(* data.                                                                   *)
RestockIsRegular ==
    [][Restock =>
         \A s \in Subjects, n \in Namespaces :
             /\ <<s, n>> \in data' =>
                    /\ n \in window.everNs
                    /\ \/ s = SystemMasters
                       \/ Path(window.everLinks, window.everGrants, s, n)
             /\ /\ n \in window.alwaysNs
                /\ Path(window.alwaysLinks, window.alwaysGrants, s, n)
                => <<s, n>> \in data']_wvars

================================================================================
