SPECIFICATION Spec
CONSTANTS
    Slots = {r1, r2}
    Idle = Idle
    None = None
    MaxGets = 1
    MaxChanges = 1
    MaxEdits = 1
    MaxFailures = 0
    MaxRestarts = 0
PROPERTIES
    EditsVisible
CHECK_DEADLOCK FALSE
