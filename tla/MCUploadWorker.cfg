SPECIFICATION FairWorkerSpec
CONSTANTS
    u1 = u1
    w1 = w1
    w2 = w2
    u2 = u2
    good = good
    corrupt = corrupt
    form = form
    Uploads = {u1}
    Workers = {w1, w2}
    NumKinds = 2
    MaxAttempts = 1
    Contents = {good, corrupt}
    Acceptable = {good, corrupt}
    Playable = {good}
    Metadata = {form}
    NULL = NULL
    MaxFaults = 2
    DeletesReliable = FALSE
INVARIANTS
    IInv
    PublishedIntact
PROPERTIES
    SettledByHolder
    ImplementsLifecycle
    AcceptedIsSettled
