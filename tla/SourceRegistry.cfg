SPECIFICATION Spec
CONSTANTS
    Names = {x, y}
    Tenants = {t1, t2}
    Global = Global
    Admin = Admin
    Requests = {p1, p2}
    None = None
    MaxObjects = 3
    MaxConnects = 3
    MaxRestarts = 1
SYMMETRY RegistrySymmetry
INVARIANTS
    SettledAgree
    GateHoldsApart
CHECK_DEADLOCK FALSE
