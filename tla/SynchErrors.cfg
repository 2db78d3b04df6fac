SPECIFICATION Spec
CONSTANTS
    Namespaces = {n1, n2}
    Subjects = {s1}
    Kinds = {"Namespace", "RoleBinding"}
    NoData = NoData
    MaxChanges = 1
    MaxReplay = 1
    MaxFailures = 1
INVARIANT ErrorsReachHandler
