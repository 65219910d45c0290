------------------------------ MODULE MCSessions ------------------------------
EXTENDS Sessions, TLC
CONSTANTS s1, s2, c1, o1, s0, p0
Symmetry == Permutations(SignIns)

\* Locals a request will not read again are left out of the state's identity.
Locals(r) ==
    CASE pc[r] = "start" -> <<"start">>
      [] pc[r] = "commit" -> <<"commit", seenPassword[r], attempt[r]>>
      [] pc[r] = "write" -> <<"write", seenPassword[r], attempt[r], next[r], answer[r], seenRev[r]>>
      [] OTHER -> <<pc[r]>>
View == <<now, account, asked, [r \in Requests |-> Locals(r)]>>
===============================================================================
