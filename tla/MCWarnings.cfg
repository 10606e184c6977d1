\* A scan, with warnings the log sources hold.
SPECIFICATION Joint
CONSTANTS
    q1 = q1  q2 = q2  s1 = s1  a = a  b = b  c = c  z = z  bad = bad
    Garbage = Garbage  None = None
    Sids = {s1, s2}  Products = {p1, p2}  Root = Root  Slots = {r1, r2}  Ttl = 1  MaxRequests = 4  Idle = Idle
    Callers = {k1}  Invocations <- SomeInvocations  ProductTools <- ShopTools  Plugins <- NoPlugins  RingCap = 2
    BootMode = "enforce"  Entitled = TRUE  Redaction = TRUE  MaxCalls = 3  MaxReviews = 3
    Askers = {q1, q2}  Tokens <- SomeTokens  Skew = 1  Modules = TRUE  StartFiles <- SomeFiles
    GatedCalls <- SomeCalls  Edits <- SomeEdits  AdminCap = "enterprise:admin"  Star = "*"
    MaxBuilds = 3  MaxOps = 3  MaxRestarts = 1  MaxGateTime = 1
    Objects <- SomeObjects  Others <- SomeOthers  MaxObjectChanges = 4  MaxBreaks = 1
    Values = {1, 2, 9}  MetricKinds = {"latency", "generic"}  MinSamples = 6  RecentWindow = 2  Dwell = 2
    Threshold = 20  Period = 3  PhaseTolerance = 0  MinPhaseSamples = 2  MaxLength = 8
    Queries = {q1, q2}  Labels <- TwoLabels  Candidates <- TwoCandidates  Exposures <- SomeExposures
    CacheTtl = 1  MaxSeriesTime = 3  MaxAsked = 2
    Metrics = 1  Logs = 2  Traces = 1  LogLabels <- TwoLogLabels  LogContents <- SomeContents  Services = {s1}
    Batches = {q1, q2}  Lists <- SomeLists  Rows <- OneRow  Ips = {a, b}  FoundTtl = 2  NegTtl = 1
    RdapTimeout = 1  MaxPause = 1  MaxRetries = 1  MaxCache = 1  MaxRdapTime = 4
    Members = {a, b, c, z}  Graphs <- SomeGraphs  Onsets = {1}  SevWeight = {1, 3}  Markers <- OneMarker
    Depth = 1  MaxMarkers = 1
    MaxFailures = 1  MaxChanges = 1
SYMMETRY RequestSymmetry
INVARIANT
    WarnLevelSeen
CHECK_DEADLOCK FALSE
