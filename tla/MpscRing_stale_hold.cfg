SPECIFICATION FirstLapSpec
CONSTANTS
    WriterCount = 2
    Capacity = 4
    OffsetSpan = 12
    Sizes = {1, 2}
INVARIANT CursorWindowWritten
