SPECIFICATION MCSpec
CONSTANTS
    NULL = NULL
    Requests = {r1, r2, r3}
    Editors = {r1}
    Covers = {k1, k2, k3}
    Currencies = {inr}
    MaxVersion = 2
    MaxFaults = 0
    Ids = {i1, i2, i3, i4}
    Types = {k1, k2, k3}
    FreeForm = FALSE
    Specs = {k1, k2, k3}
    Visitors = {r2, r3}
    MaxScore = 1
    MaxRuns = 2
    MaxLosses = 1
    Versioned = TRUE
    BarCounts = {1, 2, 3, 5, 7}
    ChunkFrames = 2
    maxWaveformChunks = 4
    FrameLimit = 12
    Loudness = {0, 1}
    ReadSizes = {0, 3, 5, 14}
    MaxBytes = 54
    Sizes = {0, 1, 16, 17}
    MaxChunks = 3
    Shifts = {0, 1, 2, 8}
SYMMETRY Interchangeable
INVARIANTS
    CatalogInv
    CoverPresent
    SoldOptionsStay
    OptionsInv
    RankingsInv
    WaveformInv
    BarsInOrder
    WavInv
CHECK_DEADLOCK FALSE
