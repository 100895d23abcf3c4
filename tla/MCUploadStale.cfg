SPECIFICATION Spec
CONSTANTS
    u1 = u1
    r1 = r1
    r2 = r2
    w1 = w1
    w2 = w2
    good = good
    corrupt = corrupt
    form = form
    Uploads = {u1}
    Workers = {w1, w2}
    Requests = {r1, r2}
    NumKinds = 2
    MaxAttempts = 1
    Contents = {good, corrupt}
    Acceptable = {good, corrupt}
    Playable = {good}
    Metadata = {form}
    MaxFaults = 1
    DeletesReliable = FALSE
    NULL = NULL
SYMMETRY MCStaleSymmetry
CONSTRAINT Undisturbed
INVARIANTS
    PublishedPlayable
CHECK_DEADLOCK FALSE
