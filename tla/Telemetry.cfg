SPECIFICATION TelemetryFairSpec
CONSTANTS
    u1 = u1
    Readers = {u1}
    maxPending = 2
    maxAnalyticsEvents = 2
    MaxEvents = 4
    MaxChain = 2
    MaxFailures = 2
    MaxTime = 1
INVARIANTS NothingLostSilently ReportComplete
PROPERTIES EventsArrive ReadersAnswered
CHECK_DEADLOCK FALSE
