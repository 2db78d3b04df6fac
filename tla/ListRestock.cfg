SPECIFICATION Spec
CONSTANTS
    Readers = {r1}
    Keys = {k1, k2}
    Names = {n1, n2}
    MaxKeys = 3
    NoData = NoData
SYMMETRY Symmetry
INVARIANT TypeOK
PROPERTY ListIsAtomic
