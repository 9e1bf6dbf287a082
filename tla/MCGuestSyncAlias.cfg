SPECIFICATION MCSpec
CONSTANTS
    CondThreads = {c1, c2, c3}
    NoThread = none
    MaxRecursion = 2
    MaxBroadcasts = 1
    RwThreads = {r1, r2, r3, r4}
    NoWriter = none
    MaxReads = 2
    OnceThreads = {o1, o2, o3}
    MaxObjects = 2
    Creators = {g1, g2}
    MaxThreads = 2
    MaxStacks = 2
    KeySlots = {1, 2}
    KeyThreads = {k1, k2}
    Iterations = 2
    MaxKeys = 2
    MaxValues = 3
    SemThreads = {p1, p2, p3}
    SemInit0 = 1
    SemValueMax = 2
    AddrThreads = {a1, a2, a3}
    MaxGeneration = 2
    FlagNames = {n1, n2}
    MaxFlags = 4
    MaxReferences = 3
    Programs = {"memory"}
    MaxPage = 3
    DirectPages = 2
    FlexiblePages = 2
    Prots = {"RW", "RO"}
    Names = {"other"}
    MaxLength = 3
    CallMixes <- AliasMixes
INVARIANTS
    AliasesOwned
CHECK_DEADLOCK FALSE
