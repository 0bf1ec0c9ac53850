CONSTANTS
    Thread = {t1, t2}
    m1 = m1
    m2 = m2
    f1 = f1
    f2 = f2
    Method = {m1, m2}
    Name <- Overloaded
    Arity <- Arities
    Declared <- DeclarationOrder
    BadSig = {m2}
    Func = {f1, f2}
    StaticOf <- OneExport
    Override = {}
    NoFunc = NoFunc
    MaxLoads = 1
    MaxReg = 1
    MaxMoves = 2
SPECIFICATION FairSpec
CHECK_DEADLOCK FALSE
PROPERTIES
    CallReachesBody
