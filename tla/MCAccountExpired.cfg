SPECIFICATION FairSpec
CONSTANTS
    Users = {u1}
    Passwords = {pw1}
    Rows = {t1, t2}
    Codes = {c1}
    Sessions = {}
    Requests = {r1}
    MaxFaults = 0
    MaxExpiries = 1
    NULL = NULL
PROPERTIES
    AskedIsMailed
CHECK_DEADLOCK FALSE
