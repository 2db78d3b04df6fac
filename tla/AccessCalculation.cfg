SPECIFICATION FairWindowSpec
CONSTANTS
    alice = alice
    masters = masters
    Namespaces = {"n1", "n2"}
    Subjects <- MCSubjects
    Keys <- MCKeys
    Contents <- MCContents
    Initially <- MCInitially
    Absent = Absent
    Nil = Nil
    SystemMasters = masters
    MaxChanges = 2
INVARIANT TypeOK
INVARIANT PublishedIsGranted
PROPERTY RestockIsRegular
PROPERTY AccessConverges
