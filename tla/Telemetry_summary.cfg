SPECIFICATION TelemetrySpec
CONSTANTS
    u1 = u1
    Readers = {u1}
    maxPending = 2
    maxAnalyticsEvents = 2
    MaxEvents = 3
    MaxChain = 2
    MaxFailures = 2
    MaxTime = 0
INVARIANTS SummaryComplete
CHECK_DEADLOCK FALSE
