SPECIFICATION MetricsSpec
CONSTANTS
    Requests = {r1, r2}
    Usernames <- MCUsernames
    GroupLists <- MCGroupLists
    Keys <- MCKeys
    Names = {n1}
    MaxKeys = 2
    NoData = NoData
    NoUser = NoUser
SYMMETRY Symmetry
INVARIANT ListsForCallersOnly
INVARIANT ResponseIsCallersAccess
INVARIANT MetricsAccountForRequests
