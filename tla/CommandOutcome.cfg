SPECIFICATION Spec
CONSTANTS
    c1 = c1
    c2 = c2
    h1 = h1
    h2 = h2
    Command = {c1}
    Handler = {h1, h2}
    Device = {"d1", "d2"}
    Key = {"k1"}
    Lifetime = {1, 3}
    LeaseSeconds = 2
    MaxAcquireLimit = 1
    Sequence = {1, 2}
    Summary = {"s", "t"}
    Limit <- PollLimits
    MaxTime = 4
SYMMETRY HandlerSymmetry
INVARIANTS
    OneOutcome
    ReportedInTime
    EventsTellTheStory
PROPERTIES
    KeepsItsPromise
