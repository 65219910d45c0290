SPECIFICATION TokensSpec
CONSTANTS
    r1 = r1  r2 = r2  r3 = r3  o1 = o1  t0 = t0
    Rolls = {r1, r2, r3}
    Others = {o1}
    First = t0
    Lifetimes = {1, 9}
    Overlaps = {0, 2}
    Never = 9
    MAX_VALUES = 3
    MAX_ACTIONS = 2
    MAX_ATTEMPTS = 2
    MaxTime = 2
SYMMETRY Symmetry
VIEW View
INVARIANTS HonoursPromises
PROPERTIES NoneRevived
CHECK_DEADLOCK FALSE
