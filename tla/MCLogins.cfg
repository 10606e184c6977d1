SPECIFICATION Joint
CONSTANTS
    None = None
    Torn = Torn
    Empty = Empty
    a1 = a1  a2 = a2
    Attempts = {a1, a2}
    MaxFailures = 3
    WindowSeconds = 1
    BaseLockSeconds = 2
    MaxLockSeconds = 3
    TtlSlack = 1
    MaxTries = 6
    r1 = r1  r2 = r2
    Replicas = {r1, r2}
    Subjects = {"alice"}
    SessionTtl = 2
    MaxSessions = 2
    MaxRevocations = 2
    MaxWriteFailures = 1
    MaxDays = 3
    Users = {"ann", "bob"}
    Passwords = {1}
    Secrets = {1, 2}
    Known = {"admin", "viewer"}
    Admins = {"admin"}
    FirstUsers <- SomeUsers
    Edits <- SomeEdits
    MaxLogins = 2
    MaxCrashes = 1
    Roles = {"admin", "viewer"}
    Permissions <- SomePermissions
    Valid <- SomeValid
    NeedsUsers <- UsersDelete
    FirstPolicy <- SomePolicy
    k = k  l = l
    GrantKeys = {k, l}
    Lists = {l}
    GrantTtl = 2
    ListTtl = 3
    Retry = 1
    Timeout = 1
    MaxQueries = 2
    b1 = b1
    Browsers = {b1}
    FlowTtl = 2
    KeysTtl = 2
    Cooldown = 2
    Latency = 1
    RotationGap = 5
    MaxFlows = 3
    MaxRotations = 2
    MaxLost = 1
    MaxFlowTime = 12
    s1 = s1  s2 = s2
    Slots = {s1, s2}
    MaxChanges = 2
    MaxEdits = 1
    MaxRestarts = 2
    MaxTime = 5
INVARIANTS
    LockoutHolds
    RevokesExactly
    LossIsBounded
    UsersFileHolds
    PolicyFileHolds
    GrantIsRecent
    RotationTurnsNobodyAway
CHECK_DEADLOCK FALSE
