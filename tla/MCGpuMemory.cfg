SPECIFICATION MCSpec
CONSTANTS
    Parts = {"tracking", "buffers", "ranges", "video"}
    long = long
    short = short
    PageCount = 3
    RegionPages = 2
    PageUnits = 2
    Images = {long, short}
    ImageRange <- MCImageRange
    WatcherLimit = 3
    CachePages = 2
    UnitsPerPage = 2
    CacheUnits = 3
    BlockPages = 1
    CacheRegionPages = 4
    MaxGarbage = 1
    LastAddress = 8
    Guests = {g1, g2}
    Buffers = {b1}
    Blank = blank
    Capacity = 2
    MaxRequests = 3
    MaxPortChanges = 3
    MaxWork = 4
SYMMETRY GuestSymmetry
INVARIANTS
    GpuTypeOK
    TrackingExact
    
    RangesAreSets
    FlipQueueExact
PROPERTIES
    FlipsInOrder
CHECK_DEADLOCK FALSE
