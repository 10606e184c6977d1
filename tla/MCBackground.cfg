SPECIFICATION Joint
CONSTANTS
    Cap = 2  MaxAttempts = 2  MaxEntries = 2  MaxFaults = 1  MaxExits = 1
    Sids = {s1, s2}  Products = {p1, p2}  Root = Root  Slots = {r1, r2}  Ttl = 1  MaxRequests = 2
    HistoryBuffer = 2  RingMax = 2  Retention = 1  Tenants = {t1, t2}  MaxRecords = 3  MaxDays = 2
    SinkBuffer = 2  DeadLetterFile = TRUE  MaxWritten = 4  MaxQueued = 2
    Environments <- SomeEnvironments  Offers <- SomeOffers  Clients = {s1}
    MaxChanges = 2  MaxAsked = 2  MaxFailures = 1
    PingInterval = 2  PingTimeout = 5  Requests <- SomeRequests  Configured = TRUE
    MaxTime = 16  MaxFrames = 2
    None = None
INVARIANTS
    HistoryHolds
    RegisteredIsRouted
    SilentIsClosed
PROPERTIES
    OutboxKept
    NothingWaitsForever
CHECK_DEADLOCK FALSE
