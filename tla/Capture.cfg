CONSTANTS
    Caller = {t1, t2}
    MaxPangle = 3
    MaxRecord = 4
    Package = {p1, p2}
    Uid = {u1, u2}
    Shared = Shared
    MaxRun = 3
    Writer = {w1, w2}
    MaxUse = 2
SPECIFICATION CSpec
CHECK_DEADLOCK FALSE
INVARIANTS
    RecordsRight
    RulesRight
    LogCrashOnlyUnopened
