SPECIFICATION Spec
CONSTANTS
    Users = {u1, u2}
    Requests = {r1, r2}
    MaxChanges = 4
    MaxFaults = 1
    NULL = NULL
INVARIANTS
    SuperAdminRemains
CHECK_DEADLOCK FALSE
