SPECIFICATION MetricsSpec
CONSTANTS
    alice = alice
    bob = bob
    builder = builder
    Namespaces = {n1}
    Subjects <- MCSubjects
    GroupKinds = {"User", "ServiceAccount"}
    GroupKind <- MCGroupKind
    Kinds = {"Namespace", "RoleBinding"}
    NoData = NoData
    MaxChanges = 1
    MaxReplay = 1
    MaxFailures = 0
    MaxRequests = 2
SYMMETRY Symmetry
INVARIANT PairsGaugeCountsCache
