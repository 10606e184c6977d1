SPECIFICATION Spec
CONSTANTS
    Backends = {"redis"}
    Replicas = {r1, r2}
    Slots = {s1}
    Names = {n1, n2}
    Idle = Idle
    None = None
    MaxChanges = 2
    MaxFailures = 0
    MaxRestarts = 0
INVARIANT
    PushesKept
CHECK_DEADLOCK FALSE
