SPECIFICATION Spec
CONSTANTS
    b1 = b1
    i1 = i1
    i2 = i2
    i3 = i3
    i4 = i4
    i5 = i5
    a1 = a1
    a2 = a2
    rA = rA
    rB = rB
    Batches = {b1}
    Ids = {i1, i2, i3}
    BatchOf <- MCBatchOf
    Contents <- MCContents
    NoId = NoId
    NoContent = NoContent
    Routes = {rA, rB}
    FirstRoute = rA
    Admins = {a1}
    MaxHead = 2
    MaxRouteChanges = 1
    MaxRequests = 2
    Faults = {"timeout", "node", "store"}
CHECK_DEADLOCK FALSE
INVARIANTS
    PublishedRowsAreOnChain
