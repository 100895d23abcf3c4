SPECIFICATION Spec
CONSTANTS
    Requests = {r1, r2}
    Editors = {r1, r2}
    Covers = {k1, k2, k3}
    Currencies = {inr}
    MaxVersion = 2
    MaxFaults = 0
    NULL = NULL
INVARIANTS
    CoverPresent
CHECK_DEADLOCK FALSE
