SPECIFICATION RoutingFairSpec
CONSTANTS
    p1 = p1  p2 = p2  w1 = w1  f1 = f1  f2 = f2
    Replicas = {p1, p2}
    Fields = {"rules", "enabled", "targets"}
    PolicyFields = {"enabled", "targets"}
    Puts = {w1}
    Patches = {f1, f2}
    home <- Apart
    NoConfig = none
    FaultKinds = {"unavailable", "ackLost", "restart"}
    MaxFaults = 2
INVARIANTS ActiveWasSaved
PROPERTIES QueuedWritesKept WritesSettle
CHECK_DEADLOCK FALSE
