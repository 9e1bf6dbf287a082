SPECIFICATION FairSpec
CHECK_DEADLOCK FALSE
CONSTANTS
    Others = {}
    BufferCount = 2
    MaxTick = 2
    MaxOps = 2
PROPERTIES
    ShutdownCompletes
