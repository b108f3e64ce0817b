CONSTANTS
    User = {u}
    Message = {m1, m2}
    Junk = junk
    Deployments = {TRUE, FALSE}
    CallbackCalls = {"send", "shutdown"}
    UserPrograms = {{"send"}, {"shutdown"}, {"send", "shutdown"}}
    ServerDies = TRUE
    WriteComplete = FALSE
    highWaterMark_ = 2
SPECIFICATION Spec
INVARIANTS
    ChannelLeaves
    CallbackOrder
    WritingIffOutput
PROPERTIES
    FinBehindOutput
SYMMETRY Symmetry
CHECK_DEADLOCK FALSE
