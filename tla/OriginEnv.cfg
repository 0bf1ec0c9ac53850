CONSTANTS
    JavaThread = {j1}
    NativeThread = {n1, n2}
    Tid = {k1, k2, k3}
    Env = {e1, e2, e3}
    NoTid = NoTid
    NoEnv = NoEnv
SPECIFICATION Spec
SYMMETRY ThreadSymmetry
INVARIANTS
    TypeOK
    FakeEnvResolves
    OriginEnvCurrent
