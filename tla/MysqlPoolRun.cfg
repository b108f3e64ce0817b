CONSTANTS
    User = {u1, u2, u3}
    Conn = {c1, c2, c3, c4}
    None = none
    minSize = 1
    maxSize = 3
SPECIFICATION SessionSpec
INVARIANTS
    InOnePlace
    AtMostMaxSize
    SessionIsOwn
PROPERTY RoomIsUsed
