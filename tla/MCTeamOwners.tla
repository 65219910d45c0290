---------------------------- MODULE MCTeamOwners ----------------------------
EXTENDS TeamOwners, TLC
CONSTANTS ann, bob, cat, r1, r2
Team == {ann, bob, cat}
TeamRoles == [m \in Team |-> IF m = cat THEN "absent" ELSE "owner"]

\* ann and bob start alike; NoInput's CHOOSE is not in the View.
Symmetry == Permutations(Requests) \cup Permutations({ann, bob})

\* States that differ only in what no request will read again are explored
\* once: each stage keeps the locals that are still to be used.
Asked(r) == <<input[r].actorRole, input[r].target, input[r].new, seenRole[r], deadline[r]>>
Locals(r) ==
    CASE pc[r] = "look" -> <<input[r]>>
      [] pc[r] = "lock" -> <<Asked(r), attempt[r]>>
      [] pc[r] = "lockWrite" -> <<Asked(r), attempt[r], seenRev[r], sentAt[r]>>
      [] pc[r] = "recheck" -> <<Asked(r)>>
      [] pc[r] = "count" -> <<Asked(r), IF Removes(r) THEN seenRev[r] ELSE 0>>
      [] pc[r] = "read" -> <<Asked(r), attempt[r], owners[r]>>
      [] pc[r] = "send" -> <<Asked(r), seenRev[r], owners[r]>>
      [] pc[r] = "write" -> <<Asked(r), attempt[r], owners[r], seenRev[r], sentAt[r]>>
      [] pc[r] = "unlock" -> <<attempt[r]>>
      [] pc[r] = "unlockWrite" -> <<attempt[r], seenRev[r]>>
      [] OTHER -> <<>>
Stage(r) == IF pc[r] = "dead" THEN "done" ELSE pc[r]
View == <<now, users, setup, [r \in Requests |-> <<Stage(r), Locals(r)>>]>>
=============================================================================
