SPECIFICATION Joint
CONSTANTS
    Cap = 2
    MaxAttempts = 2
    MaxRecords = 3
    MaxFaults = 2
    MaxExits = 1
    Requesters = {s1, s2, s3}
    MaxGets = 1
    MaxEdits = 1
    Backends = {"file", "redis"}
    Replica = r1
    Pushers = {m1, m2}
    UserNames = {n1, n2}
    MaxPushes = 3
    Builtins = {"loki"}
    Directories <- ThreeDirectories
    Bundles <- SomeBundles
    Disabled = {}
    Verify = TRUE
    RequireSignature = FALSE
    TrustRoot = TRUE
    Scans = {m1, m2}
    MaxPlaced = 3
    Writers = {w1, w2}
    Kinds = {"traces"}
    MaxReports = 2
    MaxChanges = 2
    MaxFailures = 1
    MaxRestarts = 1
    MaxCrashes = 1
    None = None
    Rest = Rest
SYMMETRY RequesterSymmetry
INVARIANTS
    ChainBreaksHaveCauses
    DeliveryHolds
    AckedStays
    NoMemberLeftBehind
    InstalledIsListed
    LossesHaveCauses
PROPERTIES
    QuietEditsVisible
CHECK_DEADLOCK FALSE
