SPECIFICATION Spec
CONSTANTS
    u1 = u1
    u2 = u2
    w1 = w1
    r1 = r1
    r2 = r2
    pw1 = pw1
    t1 = t1
    t2 = t2
    t3 = t3
    c1 = c1
    k1 = k1
    o1 = o1
    p1 = p1
    p2 = p2
    s1 = s1
    s2 = s2
    inr = inr
    NULL = NULL
PROPERTIES
    CapturedIsLicensed
    AskedIsMailed
    CacheCatchesUp
    EmptyGetsFilled
    DemotedLosesAccess
    DroppedIsDisconnected
    StoredIsPushed
CHECK_DEADLOCK FALSE
