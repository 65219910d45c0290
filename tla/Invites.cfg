SPECIFICATION FairSpec
CONSTANTS
    i1 = i1  a1 = a1  a2 = a2  n1 = n1  v1 = v1
    Links = {i1}
    Emails = {ann, bob}
    Accepts = {a1, a2}
    Adds = {n1}
    Revokes = {v1}
    Nobody = Nobody
    FaultKinds = {"unavailable", "ackLost", "crash"}
    MAX_ATTEMPTS = 2
    MaxFaults = 2
INVARIANTS AccountHasClaim RevokedAdmitsNobody
PROPERTIES ClaimSettles
CHECK_DEADLOCK FALSE
