SPECIFICATION FairSpec
CONSTANTS
    Namespaces = {n1}
    Subjects = {s1}
    Kinds = {"Namespace", "RoleBinding"}
    NoData = NoData
    MaxChanges = 2
    MaxReplay = 1
    MaxFailures = 1
PROPERTY Converges
