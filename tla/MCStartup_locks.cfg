SPECIFICATION Spec
CONSTANTS
    GoodNames = {"a", "b"}
    Lower <- MCLower
    GoodURLs = {"http://a", "http://b"}
    Blank = ""
    None = None
    p = p
    q = q
    Captures = {p, q}
    CaptureConfigs <- MCCaptureConfigs
    Offers <- MCOffers
    MaxVersions = 3
    maxLockPages = 3
    Others = {"x"}
    SentinelRuns <- MCSentinelRuns
    MaxSentinel = 1
    NoName = ""
    FileConfigs <- MCFileConfigs
    FlagLists <- MCFlagLists
    LockPath = "lock"
INVARIANTS CaptureIsWhole OthersKept NoProtectionLost OneSnapshot PoolsAreReachable UnchangedIsAccepted
PROPERTIES CaptureEnds
