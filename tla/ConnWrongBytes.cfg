CONSTANTS
    User = {}
    Message = {m1}
    Junk = junk
    Deployments = {FALSE}
    CallbackCalls = {"send"}
    UserPrograms = {{}}
    ServerDies = FALSE
    WriteComplete = FALSE
    highWaterMark_ = 9
SPECIFICATION Spec
INVARIANT WireIsPrefix
