CONSTANTS
    Tenant = {"x1", "x2"}
    User = {"ana", "bob", "root"}
    PlatformAdmin = {"root"}
    Site = {"s1"}
    Department = {"d1", "d2", "d3"}
    Thread = {"t1", "t2", "t3"}
    Asset = {"a1", "a2"}
    External = {"e1"}
    Settings <- MCSettings
SPECIFICATION Spec
INVARIANTS HierarchyIsAcyclic
PROPERTIES NobodyLetsThemselvesBackIn InForceWhenHandled
CHECK_DEADLOCK FALSE
