CONSTANTS
    Byte <- MCByte
    Zero = 0
    Data <- MCData
    kCheapPrepend = 1
    initialSize = 3
    ExtraSize = 2
    MaxReadable = 4
SPECIFICATION BufferSpec
INVARIANTS
    AssertionsHold
    GrowthBounded
PROPERTY BytesInOrder
