CONSTANTS
    Chan = {c1, c2, c3}
    Fd = {fd1, fd2}
    None = none
    kInitEventListSize = 1
SPECIFICATION PollerSpec
INVARIANTS
    RegistrationsAgree
    ActiveChannelsLive
PROPERTY
    DataIsRead
