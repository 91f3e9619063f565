SPECIFICATION FairSpec
CONSTANTS
    Self = "d1"
    Device = {"d1"}
    Command = {1}
    Refresh = {}
    Key = {1, 2}
    Lifetime = {2}
    LeaseSeconds = 1
    MaxAcquireLimit = 1
    MaxItems = 4
    Window = 1
    MaxBatches = 1
    MaxWire = 0
    MayCrash = FALSE
    MaxTime = 2
PROPERTIES
    SpoolRecovers
