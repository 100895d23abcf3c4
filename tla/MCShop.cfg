SPECIFICATION MCSpec
CONSTANTS
    Orders = {o1, o2}
    PaymentIds = {p1, p2}
    Requests = {r1, r2}
    Providers = {"razorpay", "dodo"}
    MaxFaults = 2
    NULL = NULL
    Specs = {1, 2, 3}
    Producers = {p1, p2}
    MaxPrice = 1
    DefaultLimit = 1
    MaxSpecLimit = 2
    Asked = {0, 2}
    Sorts = {"newest", "oldest", "price_asc", "price_desc"}
    MaxChanges = 1
    Listeners = {reader, other}
    Reader = reader
    Toggles = {r1, r2}
    PageSize = 2
    MaxTime = 1
    MaxTracks = 1
    MaxAdds = 3
    Users = {o1, o2}
    Conns = {r1, r2}
    MaxNotes = 2
    Limit = 1
    Embedded = TRUE
    MayStop = TRUE
    MaxLosses = 1
SYMMETRY Interchangeable
INVARIANTS
    PaymentsAreGenuine
    OneLicensePerPayment
    PaidIsBacked
    ListingInv
    FavoritesInv
    WalkIsExact
    HubInv
    StreamHasNoGap
CHECK_DEADLOCK FALSE
