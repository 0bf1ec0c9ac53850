CONSTANTS
    Thread = {t1}
    Worker = {w1, w2}
    h1 = h1
    h2 = h2
    i1 = i1
    p1 = p1
    s1 = s1
    t1 = t1
    t2 = t2
    b1 = b1
    b2 = b2
    At <- OneAddress
    Path = {p1}
    Base = {b1}
    Symbol = {s1}
    Hook = {h1}
    Ignore = {}
    Match <- SamePath
    SymOf <- OneSymbol
    Calls <- OneCaller
    Faulty = {p1}
    All = All
    None = None
    Orig = Orig
SPECIFICATION LiveSpec
CHECK_DEADLOCK FALSE
PROPERTIES
    AsyncServed
    CallReturns
