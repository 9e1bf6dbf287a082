SPECIFICATION LiveSpec
CONSTANTS
    CondThreads = {c1, c2}
    NoThread = none
    MaxRecursion = 1
    MaxBroadcasts = 1
    RwThreads = {r1, r2, r3, r4}
    NoWriter = none
    MaxReads = 2
    OnceThreads = {o1, o2, o3}
    MaxObjects = 2
    Creators = {g1, g2}
    MaxThreads = 2
    MaxStacks = 1
    KeySlots = {1}
    KeyThreads = {k1, k2}
    Iterations = 2
    MaxKeys = 2
    MaxValues = 1
    SemThreads = {p1, p2, p3}
    SemInit0 = 1
    SemValueMax = 2
    AddrThreads = {a1, a2}
    MaxGeneration = 2
    FlagNames = {n1, n2}
    MaxFlags = 1
    MaxReferences = 2
    Programs = {"cond", "rwlock", "once", "pool", "sem", "addr", "sema", "ring"}
    MaxPage = 1
    DirectPages = 1
    FlexiblePages = 1
    Prots = {"RW"}
    Names = {"other"}
    MaxLength = 1
    CallMixes = {{}}
    SemaThreads = {s1, s2}
    Size = 8
    Atom = 2
    Coherent = FALSE
    Download = TRUE
    Requests <- AtomRequests
    MaxTick = 4
INVARIANTS
    RegionsSafe
PROPERTIES
    WakeupsNotLost
    CallsEnd
CHECK_DEADLOCK FALSE
