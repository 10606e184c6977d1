SPECIFICATION Spec
CONSTANTS
    Identities = {a}
    Unlimited = Unlimited
    Unparsed = Unparsed
    MaxInflight = 2
    TicksPerSecond = 2
    DefaultLimitPerMin = 2
    ToolRate = 2
    KeyRate <- UnusableRates
    RateWindow = 3
    Hour = 2
    WindowHours = 2
    DailyLimit = 4
    ResponseChars = {4, 8, 16}
    MaxTime = 5
    MaxCalls = 3
    MaxCharges = 3
    MaxQueued = 2
    MaxWriteFailures = 1
    MaxExits = 1
INVARIANTS
    TypeOK
    RateCapInAnyWindow
    RateRetrySuffices
    BudgetCapHolds
    BudgetRetrySuffices
    CleanExitKeepsCharges
PROPERTIES
    FileNeverGoesBack
    ChargeReachesDisk
CHECK_DEADLOCK FALSE
