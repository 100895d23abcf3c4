SPECIFICATION MCSpec
CONSTANTS
    u0 = u0
    u1 = u1
    u2 = u2
    pw1 = pw1
    pw2 = pw2
    t1 = t1
    t2 = t2
    c1 = c1
    s1 = s1
    r0 = r0
    r1 = r1
    r2 = r2
    Users = {u1, u2}
    Passwords = {pw1, pw2}
    Rows = {t1, t2}
    Codes = {c1}
    Sessions = {s1}
    Requests = {r1, r2}
    MaxFaults = 1
    MaxExpiries = 1
    NULL = NULL
    Addresses = {u1, u2}
    maxReq = 2
    window = 2
    MaxTime = 6
    MaxServed = 5
    Staff = {u0, u1, u2}
    Desks = {r0}
    MaxChanges = 4
    MaxLosses = 1
SYMMETRY Interchangeable
INVARIANTS
    OneUsableCode
    CodesServeTheirPurpose
    SeenSessionsEnd
    LimiterInv
    AdminInv
PROPERTIES
    RefusedWhenFull
CHECK_DEADLOCK FALSE
