-------------------------------- MODULE MCChat --------------------------------
EXTENDS Chat
CONSTANTS s1, p1, m1, m2, m3, jev
LongOrders == {<<m1, m2, m3>>, <<m2, m3>>}
===============================================================================
