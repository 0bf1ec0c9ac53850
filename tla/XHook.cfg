CONSTANTS
    Thread = {t1, t2}
    Worker = {w1, w2}
    h1 = h1
    h2 = h2
    i1 = i1
    p1 = p1
    s1 = s1
    t1 = t1
    t2 = t2
    b1 = b1
    b2 = b2
    At <- TwoAddresses
    Path = {p1}
    Base = {b1, b2}
    Symbol = {s1}
    Hook = {h1, h2}
    Ignore = {i1}
    Match <- SamePath
    SymOf <- OneSymbol
    Calls <- TwoCallers
    Faulty = {}
    All = All
    None = None
    Orig = Orig
SPECIFICATION Spec
SYMMETRY Symmetry
CHECK_DEADLOCK FALSE
INVARIANTS
    WalksApart
    CallReachesOriginal
    RefreshHooks
    CrashOnlyWhenExposed
