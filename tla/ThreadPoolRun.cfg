CONSTANTS
    Threads = 3
    MaxTasks = 4
    NoTask = NoTask
SPECIFICATION FairSpec
INVARIANTS
    TakenInOrder
    NoLostNotify
PROPERTIES
    TaskRuns
    DestructorReturns
CHECK_DEADLOCK FALSE
