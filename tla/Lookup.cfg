CONSTANTS
    Name = {a, b, c}
    HashValue = {0, 1, 2, 3}
    Buckets = 2
    Width = 5
    Payload = 2
    Offset = {3, 6, 30}
    MaxPacked = 3
    MaxPath = 7
    MaxRefresh = 2
    Lib = {"l1", "l2"}
    Symbol = {"f", "g"}
    Layouts <- MCLayouts
    Spacing = 8
    MaxMove = 2
SPECIFICATION KSpec
CHECK_DEADLOCK FALSE
INVARIANTS
    HookRight
    TreesRight
    HandsBack
    ScanRight
    AnswerRight
PROPERTIES
    ImplementsPathSets
