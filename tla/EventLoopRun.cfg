CONSTANTS
    Thread = {t1, t2}
    Functor = {f1, f2}
    EarlyFunctor = {f1}
    IoChannel = {io}
    WakeupChannel = wakeup
    NoFunctor = none
SPECIFICATION FairSpec
INVARIANTS
    NoLostWakeup
PROPERTIES
    RunsInOrder
    QuitEndsLoop
    RunsEventually
CHECK_DEADLOCK FALSE
