CONSTANTS
    Thread = {t1, t2}
    Client = {c1, c2}
    p1 = p1
    p2 = p2
    r1 = r1
    r2 = r2
    r3 = r3
    Path = {p1, p2}
    Pattern = {r1, r2, r3}
    Matches <- Patterns
    Kind <- Kinds
    RealHandle = {h1}
    NoPattern = NoPattern
    NoThread = NoThread
    MaxOpens = 2
    MaxReg = 3
SPECIFICATION Spec
SYMMETRY Symmetry
CHECK_DEADLOCK FALSE
INVARIANTS
    TypeOK
    FiltersRight
    NoOtherLeak
    RegistrationsRight
