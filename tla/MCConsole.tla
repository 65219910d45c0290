------------------------------ MODULE MCConsole ------------------------------
(* Four parts of the dashboard that share no state, checked in one run: in   *)
(* every behaviour one of them, the subject, moves and the others stay as    *)
(* they start, at one of their initial states. A gateway without SETUP_TOKEN *)
(* is explored from its first setup on, and without troubles.                *)
EXTENDS Gate, Pages, UsagePage, RoutingEditor

CONSTANTS s1, s2, s3

VARIABLE subject

MCInit ==
    /\ GateInit /\ PagesInit /\ UsageInit /\ EditorInit
    /\ subject \in {"gate", "pages", "usage", "editor"}
    /\ subject # "gate" => complete /\ ~inviting
    /\ complete => setupTokenRequired
    /\ subject # "pages" => page = "team"
    /\ subject # "usage" => selected = CHOOSE k \in Selections : TRUE
    /\ subject # "editor" => served = CHOOSE c \in StartConfigs : TRUE

MCNext ==
    /\ UNCHANGED subject
    /\ \/ /\ subject = "gate" /\ GateNext /\ UNCHANGED <<pageVars, usageVars, editorVars>>
          /\ setupTokenRequired \/ troubles' = 0
       \/ subject = "pages"  /\ PagesNext  /\ UNCHANGED <<gateVars, usageVars, editorVars>>
       \/ subject = "usage"  /\ UsageNext  /\ UNCHANGED <<gateVars, pageVars, editorVars>>
       \/ subject = "editor" /\ EditorNext /\ UNCHANGED <<gateVars, pageVars, usageVars>>

MCSpec == MCInit /\ [][MCNext]_<<subject, gateVars, pageVars, usageVars, editorVars>>

-----------------------------------------------------------------------------
(* Routing configurations: the defaults, and one with an Auto target that is *)
(* a pool and a rule.                                                        *)

Routes(enabled, decision, targets, fallback, pools, failover, rules) ==
    [auto |-> [enabled |-> enabled, decision |-> decision, targets |-> targets,
               fallback |-> fallback],
     pools |-> pools, failover |-> failover, rules |-> rules, tuned |-> FALSE]

NoLists == [x \in {} |-> <<>>]

MCDefaults == Routes(FALSE, "", <<>>, "", NoLists, <<>>, NoLists)

MCStartConfigs ==
    {MCDefaults,
     Routes(TRUE, "d", <<"m", "pool/p">>, "pool/p", [p \in {"pool/p"} |-> <<"m">>],
            <<"m", "n">>, [m \in {"m"} |-> <<"n">>])}

MCOtherConfigs == {MCDefaults}
=============================================================================
