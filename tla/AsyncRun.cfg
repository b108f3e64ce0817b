CONSTANTS
    short = short
    long1 = long1
    long2 = long2
    oversized = oversized
    Line = {short, long1, long2, oversized}
    Large = 36
    kSmallBuffer = 34
    kMaxNumericSize = 7
    Statement <- MCStatement
    Null = null
    Size <- MCSize
    RollSize = 36
    FlushInterval = 0
    CheckEveryN = 2
    RollPerSeconds = 2
    MaxTime = 3
CHECK_DEADLOCK FALSE
SPECIFICATION FileSpec
INVARIANTS
    BackendAssertions
    TextInOrder
    FileBounded
    FlushedWhenIdle
PROPERTY
    OnDiskWhileRunning
