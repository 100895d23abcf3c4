SPECIFICATION Spec
CONSTANTS
    Uploads = {u1}
    Requests = {r1}
    Workers = {}
    NumKinds = 1
    MaxAttempts = 1
    Contents = {good}
    Acceptable = {good}
    Playable = {good}
    Metadata = {form}
    MaxFaults = 0
    DeletesReliable = TRUE
    NULL = NULL
PROPERTIES
    ExpiredReportIsFinal
CHECK_DEADLOCK FALSE
