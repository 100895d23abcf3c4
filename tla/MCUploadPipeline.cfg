SPECIFICATION Spec
CONSTANTS
    u1 = u1
    r1 = r1
    r2 = r2
    w1 = w1
    w2 = w2
    w3 = w3
    good = good
    wrongType = wrongType
    corrupt = corrupt
    form = form
    Uploads = {u1}
    Requests = {r1, r2}
    Acceptable = {good, corrupt}
    Playable = {good, wrongType}
    Metadata = {form}
    NULL = NULL
SYMMETRY MCPipelineSymmetry
INVARIANTS
    RowsAgree
    AcceptedIsVerified
    AcknowledgedIsDurable
    PublishedIsComplete
PROPERTIES
    LapsedIsFinal
    ConfirmsItsOwnAsset
CHECK_DEADLOCK FALSE
