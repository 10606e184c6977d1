\* A source deleted while its connector is still connecting.
SPECIFICATION Spec
CONSTANTS
    Names = {x, y}
    Tenants = {t1, t2}
    Global = Global
    Admin = Admin
    Requests = {p1, p2}
    None = None
    MaxObjects = 3
    MaxConnects = 3
    MaxRestarts = 0
SYMMETRY RegistrySymmetry
INVARIANT TenantGate
CHECK_DEADLOCK FALSE
