CONSTANTS
    Thread = {t1, t2}
    m1 = m1
    m2 = m2
    f1 = f1
    f2 = f2
    Method = {m1, m2}
    Name <- Overloaded
    Arity <- Arities
    Declared <- DeclarationOrder
    BadSig = {m2}
    Func = {f1, f2}
    StaticOf <- OneExport
    Override = {f1}
    NoFunc = NoFunc
    MaxLoads = 2
    MaxReg = 2
    MaxMoves = 3
SPECIFICATION Spec
SYMMETRY ThreadSymmetry
CHECK_DEADLOCK FALSE
INVARIANTS
    TypeOK
    BindingsRight
    ArgsSettled
    CrashExplained
