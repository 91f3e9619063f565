SPECIFICATION EndpointSpec
CONSTANTS
    Self = "d1"
    Device = {"d1"}
    Command = {1, 2}
    Refresh = {2}
    Key = {1, 2}
    Lifetime = {1}
    LeaseSeconds = 1
    MaxAcquireLimit = 2
    MaxItems = 2
    Window = 0
    MaxBatches = 2
    MaxWire = 1
    MayCrash = TRUE
    MaxTime = 1
    Release = {1, 2, 3}
    Installed = 1
INVARIANTS ExecutedOnce WorkingVersionKept
PROPERTIES HeldUntilRecorded DrainsUnlessRefused ServiceIsLeftRunning ExecutesAsPromised
