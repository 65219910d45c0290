SPECIFICATION Spec
CONSTANTS
    i1 = i1  a1 = a1  a2 = a2  n1 = n1  v1 = v1
    Links = {i1}
    Emails = {ann, bob}
    Accepts = {a1, a2}
    Adds = {}
    Revokes = {v1}
    Nobody = Nobody
    FaultKinds = {"ackLost"}
    MAX_ATTEMPTS = 2
    MaxFaults = 1
INVARIANTS SingleUse
CHECK_DEADLOCK FALSE
