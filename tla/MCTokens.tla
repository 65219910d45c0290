------------------------------- MODULE MCTokens -------------------------------
EXTENDS Tokens, TLC
CONSTANTS r1, r2, r3, o1, t0

\* Locals a request will not read again are left out of the state's identity.
\* Revisions only grow and are only compared: what counts is whether a pending
\* write still finds the one it read; one that does not is never applied.
Ask(r) == IF r \in Rolls THEN <<life[r], overlap[r]>> ELSE <<r \in revokers>>
Pending(r) ==
    IF Same(r) THEN <<next[r].revoked, next[r].log, next[r].current, next[r].credentials, readAt[r]>>
    ELSE <<"stale">>
Locals(r) ==
    CASE stage[r] = "read" -> <<"read", attempt[r], Ask(r)>>
      [] stage[r] = "write" -> <<"write", attempt[r], Ask(r), Pending(r)>>
      [] OTHER -> <<stage[r] = "ok">>
Symmetry == Permutations(Rolls)
View == <<now, token.revoked, token.log, token.current, token.credentials, promised,
 [r \in Requests |-> Locals(r)]>>
===============================================================================
