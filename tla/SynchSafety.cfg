SPECIFICATION Spec
CONSTANTS
    Namespaces = {n1, n2}
    Subjects = {s1}
    Kinds = {"Namespace", "RoleBinding"}
    NoData = NoData
    MaxChanges = 2
    MaxReplay = 1
    MaxFailures = 1
SYMMETRY Symmetry
INVARIANT TypeOK
INVARIANT SynchMutualExclusion
INVARIANT ServedCacheIsStocked
INVARIANT NoRefusalWhileServing
INVARIANT FreshUnlessDropped
INVARIANT NoLostEvent
