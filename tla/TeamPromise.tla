---------------------------- MODULE TeamPromise ----------------------------
(***************************************************************************)
(* What the team operations of the gateway promise, without leases,        *)
(* revisions or requests: members come and go one at a time, and a change  *)
(* that takes an owner away is made only while another owner stays.        *)
(* TeamOwners is shown to implement this specification.                    *)
(***************************************************************************)
CONSTANTS
    Members,        \* account ids, used and not yet used
    InitialRole     \* the role each id has when the behaviour starts

Roles == {"owner", "admin", "member"}

VARIABLE role

Owners == {m \in Members : role[m] = "owner"}

Init == role = InitialRole

\* An account is created: an id that was never used joins with some role.
Join(m, new) ==
    /\ role[m] = "absent"
    /\ role' = [role EXCEPT ![m] = new]

\* A member gets another role ("gone": the account is removed for good).
Change(m, new) ==
    /\ role[m] \in Roles
    /\ role[m] = "owner" /\ new # "owner" => \E o \in Owners : o # m
    /\ role' = [role EXCEPT ![m] = new]

Next ==
    \E m \in Members :
        \/ \E new \in Roles : Join(m, new)
        \/ \E new \in Roles \cup {"gone"} : Change(m, new)

Spec == Init /\ [][Next]_role
============================================================================
