SPECIFICATION Spec
CONSTANTS
    b1 = b1
    b2 = b2
    i1 = i1
    i2 = i2
    i3 = i3
    j1 = j1
    m1 = m1
    m2 = m2
    Batches = {b1, b2}
    Ids = {i1, i2, j1}
    BatchOf <- TwoBatches
    Contents = {m1, m2}
    NoId = NoId
    NoContent = NoContent
    Faults = {}
INVARIANTS
    ServesSourceOfTruth
    EveryRowIsArchived
PROPERTIES
    ActiveContentIsFrozen
    ImplementsLifecycle
