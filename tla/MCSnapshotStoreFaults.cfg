SPECIFICATION Spec
CONSTANTS
    b1 = b1
    b2 = b2
    i1 = i1
    i2 = i2
    i3 = i3
    j1 = j1
    m1 = m1
    m2 = m2
    Batches = {b1}
    Ids = {i1, i2, i3}
    BatchOf <- ThreeIds
    Contents = {m1}
    NoId = NoId
    NoContent = NoContent
    Faults = {"archive", "schedule", "crash"}
INVARIANTS
    OneActivePerBatch
    ArchiveFollowsTable
    OnlyPublishedIsServed
