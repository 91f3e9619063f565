SPECIFICATION Spec
CONSTANTS
    Issuance = {"i1", "i2", "i3"}
    Key = {"k1", "k2", "k3"}
    Device = {"d"}
    Request <- MCRequest
    Thread = {"t1", "t2", "t3"}
    Horizon = 3
    CrlLifetime = 2
    FetchTimeout = 1
    Beat = {"b1", "b2"}
    OfflineTimeout = 1
    Settings <- MCSettings
PROPERTIES OnlyActiveIsReplaced
