------------------------------- MODULE MCSetup -------------------------------
EXTENDS Setup
CONSTANTS s1, s2, c1, p1, p2
Home == [r \in Requests |-> IF r \in {s1, c1} THEN p1 ELSE p2]
=============================================================================
