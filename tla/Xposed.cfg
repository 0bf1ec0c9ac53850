CONSTANTS
    p1 = p1
    p2 = p2
    p3 = p3
    s1 = s1
    None = None
    Proc = {p1, p2, p3}
    PackageOf <- Packages
    NameOf <- Names
    Setting = {s1}
    Contains <- Containing
    Caller = {c1}
    MaxLife = 2
SPECIFICATION Spec
CHECK_DEADLOCK FALSE
INVARIANTS
    HookedOnlyIfChosen
    AcceptedReachable
    CommandsArrive
