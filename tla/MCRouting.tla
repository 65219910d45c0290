------------------------------- MODULE MCRouting -------------------------------
EXTENDS Routing, TLC
CONSTANTS p1, p2, w1, f1, f2
Apart == [r \in Requests |-> IF r \in {f2} THEN p2 ELSE p1]
===============================================================================
