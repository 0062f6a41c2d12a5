SPECIFICATION SchedulerAloneSpec
CONSTANTS
    b1 = b1
    i1 = i1
    i2 = i2
    i3 = i3
    i4 = i4
    i5 = i5
    a1 = a1
    a2 = a2
    rA = rA
    rB = rB
    Batches = {b1}
    Ids = {i1, i2, i3, i4, i5}
    BatchOf <- MCBatchOf
    Contents <- MCContents
    NoId = NoId
    NoContent = NoContent
    Routes = {rA, rB}
    FirstRoute = rA
    Admins = {}
    MaxHead = 3
    MaxRouteChanges = 2
    MaxRequests = 4
    Faults = {}
CHECK_DEADLOCK FALSE
INVARIANT ScanResolvesActive
PROPERTIES
    NoRepublication
    ConsumersSeeCurrentSource
