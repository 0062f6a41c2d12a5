SPECIFICATION Spec
CONSTANTS
    b1 = b1
    b2 = b2
    i1 = i1
    i2 = i2
    j1 = j1
    orange = orange
    c1 = c1
    Batches = {b1}
    Ids = {i1, i2}
    BatchOf <- OneBatch
    Contents = {c1}
    NoId = NoId
    NoContent = NoContent
    Products = {orange}
    ProductOf <- MCProductOf
    Intervals = {2}
    DefaultInterval = 1
    Windows <- MCWindows
    NoWindow = NoWindow
    Never = Never
    MaxTime = 3
    MaxFailures = 1
PROPERTIES
    CheckedIsNotDue
    DueIsChecked
