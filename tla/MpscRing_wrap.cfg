SPECIFICATION Spec
CONSTANTS
    WriterCount = 1
    Capacity = 4
    OffsetSpan = 12
    Sizes = {2}
INVARIANT CursorWindowWritten
