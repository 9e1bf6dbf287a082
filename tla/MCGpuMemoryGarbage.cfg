SPECIFICATION MCSpec
CONSTANTS
    Parts = {"buffers"}
    long = long
    short = short
    PageCount = 3
    RegionPages = 2
    PageUnits = 2
    Images = {long, short}
    ImageRange <- MCImageRange
    WatcherLimit = 3
    CachePages = 2
    UnitsPerPage = 2
    CacheUnits = 4
    BlockPages = 2
    CacheRegionPages = 4
    MaxGarbage = 1
    LastAddress = 8
    Guests = {g1, g2}
    Buffers = {b1}
    Blank = blank
    Capacity = 2
    MaxRequests = 3
    MaxPortChanges = 3
    MaxWork = 5
INVARIANT
    GarbageCovers
CHECK_DEADLOCK FALSE
