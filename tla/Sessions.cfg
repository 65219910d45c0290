SPECIFICATION Spec
CONSTANTS
    s1 = s1  s2 = s2  c1 = c1  o1 = o1
    s0 = s0  p0 = p0
    SignIns = {s1, s2}
    Changes = {c1}
    Others = {o1}
    First = s0
    InitialPassword = p0
    WrongPassword = wrong
    SIGN_IN_WINDOW_MS = 1
    SIGN_IN_MAX_FAILURES = 1
    SESSION_TTL_MS = 1
    MAX_SESSIONS = 2
    MAX_ATTEMPTS = 2
    MaxTime = 1
SYMMETRY Symmetry
VIEW View
INVARIANTS SessionsMatchPassword BurstLimited
PROPERTIES NoSessionReturns
CHECK_DEADLOCK FALSE
