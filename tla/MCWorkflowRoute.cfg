SPECIFICATION Spec
CONSTANTS
    b1 = b1
    template = template
    s1 = s1
    t1 = t1
    m1 = m1
    farmer = farmer
    driver = driver
    carrier = carrier
    shop = shop
    p1 = p1
    Pages = {p1}
    Batches = {b1}
    Template = template
    NodeIds = {s1, t1, m1}
    Users = {farmer, driver, carrier, shop}
    Routes <- MCRoutes
    FirstRoute <- Linked
    LegacyOf <- MCLegacy
    Selections <- MCSelections
    NoId = NoId
    None = None
    Idle = Idle
    MaxRevisions = 2
    MaxPolicySaves = 1
INVARIANTS
    ShownStageHasPolicy
PROPERTIES
    PolicyChangedOnlyBySave
    ImplementsRouteTable
