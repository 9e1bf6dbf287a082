SPECIFICATION Spec
CONSTANTS
    t1 = t1
    t2 = t2
    e1 = e1
    e2 = e2
    none = none
    Threads = {t1, t2}
    Events = {e1, e2}
    Mixes <- ListedMixes
    AgcEvent = e2
    Nums = {1}
    MaxStamp = 3
CHECK_DEADLOCK FALSE
INVARIANT
    EopListed
