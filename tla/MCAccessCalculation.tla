-------------------------- MODULE MCAccessCalculation --------------------------
(* Small instance of AccessCalculation for TLC: two namespaces, one with   *)
(* the label, a role and a role binding in the first, a cluster role and a *)
(* cluster role binding.                                                   *)
EXTENDS CalculationWindow

CONSTANTS alice, masters

MCSubjects == {alice, masters}

Key(kind, namespace, name) ==
    [kind |-> kind, namespace |-> namespace, name |-> name]

MCKeys == {Key("Namespace", "", "n1"), Key("Namespace", "", "n2"),
           Key("Role", "n1", "reader"), Key("ClusterRole", "", "reader"),
           Key("RoleBinding", "n1", "b"), Key("ClusterRoleBinding", "", "b")}

Rule(resource, verbs, names) ==
    [apiGroups |-> {""}, resources |-> {resource}, verbs |-> verbs,
     resourceNames |-> names]

GetAny == Rule("namespaces", {"get", "list"}, {})
GetOne == Rule("namespaces", {"get"}, {"n1"})
Watching == Rule("namespaces", {"list", "*"}, {})
Pods == Rule("pods", {"get"}, {})

Binding(kind, labelled) ==
    [roleKind |-> kind, roleName |-> "reader", subjects |-> {alice},
     labelled |-> labelled]

MCContents ==
    [k \in MCKeys |->
        CASE k.kind = "Namespace" -> {[labelled |-> k.name = "n1"]}
          [] k.kind = "Role" -> {[rules |-> {GetAny}], [rules |-> {Watching, Pods}]}
          [] k.kind = "ClusterRole" -> {[rules |-> {GetOne, Pods}]}
          [] k.kind = "RoleBinding" ->
                 {Binding("Role", FALSE), Binding("ClusterRole", FALSE)}
          [] k.kind = "ClusterRoleBinding" ->
                 {Binding("ClusterRole", l) : l \in BOOLEAN}]

(* One change away from access: the role wants its binding, the binding of *)
(* the cluster role wants its role.                                        *)
AtStart(k) ==
    CASE k.kind = "Namespace" -> [labelled |-> k.name = "n1"]
      [] k.kind = "Role" -> [rules |-> {GetAny}]
      [] k.kind = "ClusterRoleBinding" -> Binding("ClusterRole", TRUE)
      [] OTHER -> Absent

MCInitially == {[k \in MCKeys |-> AtStart(k)]}

================================================================================
