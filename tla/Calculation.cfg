SPECIFICATION Spec
CONSTANTS
    Namespaces = {n1, n2}
    Subjects <- MCSubjects
    Rank <- MCRank
    MaxAnswer = 3
    Nil = Nil
SYMMETRY Symmetry
INVARIANT TypeOK
INVARIANT PublishedAsCalculated
INVARIANT VisibilityAsCalculated
INVARIANT NoSideEffectsOnListed
