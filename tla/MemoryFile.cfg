CONSTANTS
    Zero = Zero
    NewLine = NewLine
    Byte = {Zero, NewLine, a}
    EmptyCap = 2
    Limit = 6
    MaxIO = 2
SPECIFICATION MemSpec
CHECK_DEADLOCK FALSE
INVARIANTS
    MemTypeOK
    BufferRight
PROPERTY ImplementsByteFile
