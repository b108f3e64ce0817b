CONSTANTS
    User = {}
    Message = {m1, m2}
    Junk = junk
    Deployments = {TRUE, FALSE}
    CallbackCalls = {"send", "sendBuffer", "shutdown"}
    UserPrograms = {{}}
    ServerDies = FALSE
    WriteComplete = TRUE
    highWaterMark_ = 2
SPECIFICATION ReadingPeerSpec
PROPERTIES
    PeerEndsConnection
    ShutdownSendsFin
