SPECIFICATION LiveSpec
CONSTANTS
    t1 = t1
    t2 = t2
    e1 = e1
    e2 = e2
    none = none
    Threads = {t1, t2}
    Events = {e1, e2}
    Mixes <- LiveMixes
    AgcEvent = none
    Nums = {1}
    MaxStamp = 1
    Programs = {"queue", "video"}
    Guests = {v1}
    Blank = blank
CHECK_DEADLOCK FALSE
PROPERTIES
    SleeperNotices
    WaitersLeave
    FlipsLeave
