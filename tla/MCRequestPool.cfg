CONSTANTS
    Workers = {w1, w2}
    c1 = c1 c2 = c2 p1 = p1 p2 = p2 g1 = g1
    Changes = {c1, c2}
    Publications = {p1, p2}
    Pages = {g1}
    Loads <- MCLoads
    MaxQueue = 2
    RingSize = 1
    Prealloc = 1
    MoreItems = 1
SPECIFICATION Spec
INVARIANTS ItemsAreConserved NeverAsleepWithWork
PROPERTIES AdmittedIsServed 
CHECK_DEADLOCK FALSE
