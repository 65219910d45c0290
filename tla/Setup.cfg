SPECIFICATION FairSpec
CONSTANTS
    s1 = s1  s2 = s2  c1 = c1  p1 = p1  p2 = p2
    Setups = {s1, s2}
    Checks = {c1}
    Replicas = {p1, p2}
    home <- Home
    Others = {bob}
    Nobody = Nobody
    MAX_ATTEMPTS = 2
    MaxFaults = 1
    MaxRevision = 3
INVARIANTS CompleteMeansAccounts OwnerNeverLost
PROPERTIES FirstOwnerArrives
CHECK_DEADLOCK FALSE
