SPECIFICATION FairSpec
CONSTANTS
    c1 = c1
    c2 = c2
    h1 = h1
    h2 = h2
    Command = {c1, c2}
    Handler = {h1, h2}
    Device = {"d1"}
    Key = {"k1", "k2"}
    Lifetime = {1, 2}
    LeaseSeconds = 1
    MaxAcquireLimit = 1
    Sequence = {1}
    Summary = {"s"}
    Limit <- PollLimits
    MaxTime = 1
PROPERTIES
    QueueDrains
