CONSTANTS
    User = {"ana", "root", "boss"}
    Administrator = {"root", "boss"}
    Boot = {"b1", "b2", "b3"}
    AccessLife = 3
    RefreshLife = 6
    SignInTimeout = 1
    MaxTime = 4
    MaxKey = 2
    Bucket <- MCBucket
    Capacity <- MCCapacity
    Refill <- MCRefill
    Cost = 2
    Caller <- MCCaller
    Client = {"c1", "c2"}
    Handler = {"h1", "h2", "h3"}
    Service <- MCService
    CacheSeconds = 1
    FetchTimeout = 1
    MaxDrawn = 3
    SessionTtl = 2
    MaxSessions = 1
    Settings <- MCSettings
SPECIFICATION Spec
INVARIANTS WithinRate FreshTokenAccepted LogoutIsFinal SessionsBounded
PROPERTIES LockedOutInTime OldKeyRefusedInTime
CHECK_DEADLOCK FALSE
