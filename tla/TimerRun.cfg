CONSTANTS
    t1 = t1
    t2 = t2
    t3 = t3
    Timer <- MCTimer
    Interval <- MCInterval
    MaxDelay = 2
    MaxJumps = 1
    Off = Off
SPECIFICATION TimerFairSpec
INVARIANTS
    ArmedForEarliest
    NotEarly
PROPERTIES
    TimersRun
    SleepsAgain
