SPECIFICATION FairSpec
CONSTANTS
    Domain = {1, 2, 3, 4, 5, 6}
    Request = {2, 6}
    Rejected = {1}
    MaxCopies = 2
    Worker = {"w1", "w2"}
    BatchSize = 2
    Consumer = {"c1", "c2"}
    TenantOf <- Tenants
    Platform = "platform"
    Malformed <- Unreadable
    MaxAckPending = 3
    PageSize = 1
    Audited = {2}
    Safe = {6}
    Setting <- Settings
INVARIANTS
    RecordedOnce
    NoFalseAlarm
    TamperingShows
    PagesMissNothing
    NothingLost
    NoEffectWithoutIntent
PROPERTIES
    KeepsTheLog
    CommittedIsRecorded
CHECK_DEADLOCK FALSE
