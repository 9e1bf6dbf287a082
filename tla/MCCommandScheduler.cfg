SPECIFICATION FairSpec
CHECK_DEADLOCK FALSE
CONSTANTS
    Others <- MCOthers
    BufferCount = 2
    MaxTick = 3
    MaxOps = 2
INVARIANTS
    TypeOK
    OpsAfterCompletion
    NothingLost
PROPERTIES
    PriorityWaitCovers
    PriorityOpsRun
