SPECIFICATION Spec
CONSTANTS
    Users = {u1}
    Passwords = {pw1, pw2}
    Rows = {t1, t2}
    Codes = {c1}
    Sessions = {s1}
    Requests = {r1, r2}
    MaxFaults = 0
    MaxExpiries = 0
    NULL = NULL
PROPERTIES
    ResetEndsOldSessions
CHECK_DEADLOCK FALSE
