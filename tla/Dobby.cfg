CONSTANTS
    f1 = f1
    g1 = g1
    k1 = k1
    h1 = h1
    h2 = h2
    Hooker = {h1, h2}
    Func = {f1, g1, k1}
    Owner <- TwoModules
    Replacement <- Replacements
    Image <- Images
    Reach <- Reaches
    PageWords = 64
    Free = {2, 5}
    Foreign = {6}
    Refusing = {3, 5}
    Fuel = 30
SPECIFICATION Spec
CHECK_DEADLOCK FALSE
INVARIANTS
    CallIntact
    BlocksApart
    PagesRight
