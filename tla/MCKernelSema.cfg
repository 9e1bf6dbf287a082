SPECIFICATION Spec
SYMMETRY MCSymmetry
CONSTANTS
    t1 = t1
    t2 = t2
    t3 = t3
    Threads <- MCThreads
    InitCount = 1
    MaxCount = 2
    NeedCounts <- MCNeedCounts
    SignalCounts <- MCSignalCounts
    CancelCounts <- MCCancelCounts
    Priorities = {1, 2}
    CountFloor <- MCCountFloor
INVARIANTS
    TypeOK
    NoLostWakeup
    UnitsConserved
    DeleteSafe
PROPERTIES
    NoOvertaking
    ImplementsAtomic
