SPECIFICATION FairSpec
CONSTANTS
    s1 = s1  p1 = p1  m1 = m1  m2 = m2  m3 = m3  jev = jev
    Streams = {s1}
    Plains = {p1}
    Autos = {s1}
    Orders <- LongOrders
    Selector = jev
    NoModel = none
    Timed = TRUE
INVARIANTS ReservationsMatch OneModelSpeaks CallsRecorded
PROPERTIES AttemptsSettle
CHECK_DEADLOCK FALSE
