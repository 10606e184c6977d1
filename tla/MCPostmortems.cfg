\* One report over a window in which anomalies were recorded.
SPECIFICATION Spec
CONSTANTS
    Writers = {w1}
    Kinds = {"anomalies", "traces"}
    MaxReports = 1
    MaxCrashes = 0
INVARIANT
    AnomaliesReachReport
CHECK_DEADLOCK FALSE
