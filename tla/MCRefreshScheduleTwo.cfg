SPECIFICATION Spec
CONSTANTS
    b1 = b1
    b2 = b2
    i1 = i1
    i2 = i2
    j1 = j1
    orange = orange
    c1 = c1
    Batches = {b1, b2}
    Ids = {i1, j1}
    BatchOf <- OneIdEach
    Contents = {c1}
    NoId = NoId
    NoContent = NoContent
    Products = {orange}
    ProductOf <- MCProductOf
    Intervals = {2}
    DefaultInterval = 3
    Windows <- ShortWindows
    NoWindow = NoWindow
    Never = Never
    MaxTime = 1
    MaxFailures = 1
INVARIANTS
    DueInsideWindow
    PolicyTakesEffect
    NeverSleepsPastDue
SYMMETRY Exchange
