---------------------------- MODULE RoutingEditor ----------------------------
(* The Routing page (RoutingView.tsx): it loads the whole configuration once, *)
(* edits it in the browser and saves it whole; the server checks it           *)
(* (validateRouting) and replaces what it serves. A pool stands for its       *)
(* target pool/<id>. Timeouts, weights, strategies, descriptions and switches *)
(* other than Auto's are one Boolean, tuned.                                  *)
EXTENDS Integers, Sequences, SequencesExt

CONSTANTS
    ChatModels, DecisionModels,   \* of the connections; decision-only models
    PoolIds,                      \* names a user gives to pools
    StartConfigs,                 \* what the server may serve at the start
    OtherConfigs,                 \* what another administrator may save
    MaxEdits,                     \* bound: edits and saves of the page
    NoConfig

VARIABLES
    served,       \* server: the configuration it routes by
    othersSaved,  \* somebody else saved, or this user on a page since left
    config, dirty, saved, routingError,
    put,          \* the PUT in flight: [config, answer]
    routingLoad,  \* the load in flight: [answer, config]
    autoTarget, ruleModel,   \* what the selects of "Add" show
    trial,        \* "Try routing" is running
    draft,        \* history: what the user last saw or made
    edits

editorPage == <<config, dirty, saved, routingError>>
chosen == <<autoTarget, ruleModel>>
editorRequests == <<put, routingLoad>>
editorVars == <<served, othersSaved, editorPage, editorRequests, chosen, trial, draft, edits>>

NoPut == [config |-> NoConfig, answer |-> "idle"]
FreeLoad == [answer |-> "idle", config |-> NoConfig]
AskedLoad == [answer |-> "asked", config |-> NoConfig]
saving == put.answer \in {"asked", "ok", "refused"}

-----------------------------------------------------------------------------
(* validateRouting and the schema of the route *)

Known(c) == ChatModels \cup DOMAIN c.pools

ModelLists(c) ==
    {c.failover} \cup {c.pools[p] : p \in DOMAIN c.pools}
                 \cup {c.rules[m] : m \in DOMAIN c.rules}
Lists(c) == {c.auto.targets} \cup ModelLists(c)

Valid(c) ==
    /\ \A s \in Lists(c) : IsInjective(s)
    /\ \A s \in ModelLists(c) : ToSet(s) \subseteq ChatModels
    /\ \A p \in DOMAIN c.pools : c.pools[p] # <<>>
    /\ ToSet(c.auto.targets) \cup DOMAIN c.rules \subseteq Known(c)
    /\ c.auto.decision \in ChatModels \cup DecisionModels \cup {""}
    /\ c.auto.fallback \in Known(c) \cup {""}
    /\ c.auto.enabled =>
          /\ c.auto.decision # "" /\ Len(c.auto.targets) >= 2
          /\ c.auto.fallback \in ToSet(c.auto.targets)

ASSUME EditorAssumption == \A c \in StartConfigs \cup OtherConfigs : Valid(c)

-----------------------------------------------------------------------------
(* load(): the retry button is there only once it has failed, so that one    *)
(* load is in flight and loadSequence tells apart only pages that were left.  *)

EditorInit ==
    /\ served \in StartConfigs
    /\ othersSaved = FALSE /\ put = NoPut /\ edits = 0
    /\ config = NoConfig /\ dirty = FALSE /\ saved = FALSE /\ routingError = FALSE
    /\ routingLoad = AskedLoad
    /\ autoTarget = "" /\ ruleModel = "" /\ trial = FALSE /\ draft = NoConfig

RetryRouting ==
    /\ routingError /\ config = NoConfig
    /\ routingLoad' = AskedLoad /\ routingError' = FALSE
    /\ UNCHANGED <<served, othersSaved, config, dirty, saved, put, chosen, trial, draft, edits>>

AnswerRouting ==
    /\ routingLoad.answer = "asked"
    /\ routingLoad' = [answer |-> "ok", config |-> served]
    /\ UNCHANGED <<served, othersSaved, editorPage, put, chosen, trial, draft, edits>>

\* The settings and the models arrive, or one of the two requests fails.
RoutingArrives ==
    /\ routingLoad # FreeLoad
    /\ routingLoad' = FreeLoad
    /\ \/ /\ routingLoad.answer = "ok"
          /\ config' = routingLoad.config /\ draft' = routingLoad.config
          /\ UNCHANGED routingError
       \/ routingError' = TRUE /\ UNCHANGED <<config, draft>>
    /\ UNCHANGED <<served, othersSaved, dirty, saved, put, chosen, trial, edits>>

-----------------------------------------------------------------------------
(* Edits *)

\* Variant: the fields are not disabled while a save is under way.
EditableAnyway == config # NoConfig

Editable == config # NoConfig /\ ~saving

Edit(next) ==
    /\ Editable /\ edits < MaxEdits
    /\ config' = next /\ draft' = next /\ edits' = edits + 1
    /\ dirty' = TRUE /\ saved' = FALSE /\ routingError' = FALSE
    /\ UNCHANGED <<served, othersSaved, editorRequests, trial>>

WithAuto(auto) == [config EXCEPT !.auto = auto]

\* filter, of a list that holds x once (KeepsShape).
Without(s, x) == RemoveAt(s, CHOOSE i \in DOMAIN s : s[i] = x)
Offered == ChatModels \cup DOMAIN config.pools

\* Variant: the fallback stays when its target is removed.
FallbackKept(auto, t) == auto.fallback

FallbackWithout(auto, t) == IF auto.fallback = t THEN "" ELSE auto.fallback

EditAuto ==
    LET auto == config.auto
    IN /\ config # NoConfig
       /\ \/ Edit(WithAuto([auto EXCEPT !.enabled = ~@])) /\ UNCHANGED chosen
          \/ \E m \in ChatModels \cup DecisionModels \cup {""} :
                m # auto.decision /\ Edit(WithAuto([auto EXCEPT !.decision = m])) /\ UNCHANGED chosen
          \/ \E t \in ToSet(auto.targets) \cup {""} :
                t # auto.fallback /\ Edit(WithAuto([auto EXCEPT !.fallback = t])) /\ UNCHANGED chosen
          \/ /\ autoTarget \notin ToSet(auto.targets) \cup {""}
             /\ Edit(WithAuto([auto EXCEPT !.targets = Append(@, autoTarget)]))
             /\ autoTarget' = "" /\ UNCHANGED ruleModel
          \/ \E t \in ToSet(auto.targets) :
                /\ Edit(WithAuto([auto EXCEPT !.fallback = FallbackWithout(auto, t),
                                          !.targets = Without(@, t)]))
                /\ UNCHANGED chosen

\* The models an editor of a list offers, and the lists it can turn s into:
\* one more at the end, one less, or (fallbacks) two neighbours swapped.
Added(s, models) == {Append(s, m) : m \in models \ ToSet(s)}
Removed(s) == {Without(s, m) : m \in ToSet(s)}
Moved(s) ==
    {[s EXCEPT ![i] = s[i + 1], ![i + 1] = s[i]] : i \in 1..(Len(s) - 1)}
PolicyEdits(s, models) == Added(s, models) \cup Removed(s) \cup Moved(s)

KeyRemoved(f, k) == [x \in DOMAIN f \ {k} |-> f[x]]
KeyAdded(f, k) == [x \in DOMAIN f \cup {k} |-> IF x = k THEN <<>> ELSE f[x]]

\* A pool is removed without touching what refers to it.
EditPools ==
    /\ config # NoConfig
    /\ LET pools == config.pools
       IN \/ \E p \in PoolIds \ DOMAIN pools : Edit([config EXCEPT !.pools = KeyAdded(@, p)])
          \/ \E p \in DOMAIN pools :
                \/ Edit([config EXCEPT !.pools = KeyRemoved(@, p)])
                \/ \E s \in Added(pools[p], ChatModels) \cup Removed(pools[p]) :
                      Edit([config EXCEPT !.pools[p] = s])
    /\ UNCHANGED chosen

RuleModels(m) == ChatModels \ {m}

EditPolicies ==
    /\ config # NoConfig
    /\ \/ /\ \E s \in PolicyEdits(config.failover, ChatModels) :
                Edit([config EXCEPT !.failover = s])
          /\ UNCHANGED chosen
       \/ /\ ruleModel \notin DOMAIN config.rules \cup {""}
          /\ Edit([config EXCEPT !.rules = KeyAdded(@, ruleModel)])
          /\ ruleModel' = "" /\ UNCHANGED autoTarget
       \/ /\ \E m \in DOMAIN config.rules :
                \/ Edit([config EXCEPT !.rules = KeyRemoved(@, m)])
                \/ \E s \in PolicyEdits(config.rules[m], RuleModels(m)) :
                      Edit([config EXCEPT !.rules[m] = s])
          /\ UNCHANGED chosen

EditDetails ==
    /\ config # NoConfig
    /\ Edit([config EXCEPT !.tuned = ~@])
    /\ UNCHANGED chosen

\* A select offers what is not in its list yet; its choice stays when a pool
\* is removed ("unavailable") or the list changes.
Choose ==
    /\ Editable
    /\ \/ autoTarget' \in (Offered \ ToSet(config.auto.targets)) \cup {""} /\ UNCHANGED ruleModel
       \/ ruleModel' \in (Offered \ DOMAIN config.rules) \cup {""} /\ UNCHANGED autoTarget
    /\ UNCHANGED <<served, othersSaved, editorPage, editorRequests, trial, draft, edits>>

-----------------------------------------------------------------------------
(* save() *)

SaveRouting ==
    /\ Editable /\ dirty /\ put = NoPut /\ edits < MaxEdits
    /\ put' = [config |-> config, answer |-> "asked"]
    /\ routingError' = FALSE /\ saved' = FALSE /\ edits' = edits + 1
    /\ UNCHANGED <<served, othersSaved, config, dirty, routingLoad,
                   chosen, trial, draft>>

\* The server checks and replaces; it refuses or, without its database, fails.
AnswerPut ==
    /\ put.answer \in {"asked", "left"}
    /\ LET Answered(answer) ==
               put' = IF put.answer = "left" THEN NoPut ELSE [put EXCEPT !.answer = answer]
       IN \/ Valid(put.config) /\ served' = put.config /\ Answered("ok")
          \/ Answered("refused") /\ UNCHANGED served
    /\ UNCHANGED <<othersSaved, editorPage, routingLoad, chosen, trial, draft, edits>>

\* The answer arrives or is lost. The fields are enabled again either way.
PutArrives ==
    /\ saving
    /\ LET answered == put.answer = "ok"
       IN \/ /\ answered /\ config' = put.config
             /\ dirty' = FALSE /\ saved' = TRUE /\ UNCHANGED routingError
          \/ /\ routingError' = TRUE /\ UNCHANGED <<config, dirty, saved>>
    /\ put' = IF put.answer = "asked" THEN [put EXCEPT !.answer = "left"] ELSE NoPut
    /\ othersSaved' = (othersSaved \/ put.answer = "asked")
    /\ UNCHANGED <<served, routingLoad, chosen, trial, draft, edits>>

\* Try routing sends a request; the fieldset is disabled over unsaved edits.
TryRouting ==
    /\ config # NoConfig /\ ~dirty /\ ~saving /\ ~trial
    /\ trial' = TRUE
    /\ UNCHANGED <<served, othersSaved, editorPage, editorRequests, chosen, draft, edits>>

TrialAnswered ==
    /\ trial /\ trial' = FALSE
    /\ UNCHANGED <<served, othersSaved, editorPage, editorRequests, chosen, draft, edits>>

OthersSave ==
    /\ served' \in OtherConfigs /\ othersSaved' = TRUE
    /\ UNCHANGED <<editorPage, editorRequests, chosen, trial, draft, edits>>

\* The user leaves, unsaved edits and all, and comes back. A PUT in flight may
\* still be made.
ReopenEditor ==
    /\ config' = NoConfig /\ dirty' = FALSE /\ saved' = FALSE /\ routingError' = FALSE
    /\ routingLoad' = AskedLoad
    /\ autoTarget' = "" /\ ruleModel' = "" /\ trial' = FALSE /\ draft' = NoConfig
    /\ put' = IF put.answer = "asked" THEN [put EXCEPT !.answer = "left"]
              ELSE IF put.answer = "left" THEN put ELSE NoPut
    /\ othersSaved' = (othersSaved \/ put.answer = "asked")
    /\ UNCHANGED <<served, edits>>

EditorNext ==
    \/ RetryRouting \/ AnswerRouting \/ RoutingArrives
    \/ EditAuto \/ EditPools \/ EditPolicies \/ EditDetails \/ Choose
    \/ SaveRouting \/ AnswerPut \/ PutArrives \/ TryRouting \/ TrialAnswered
    \/ OthersSave \/ ReopenEditor

EditorSpec == EditorInit /\ [][EditorNext]_editorVars

-----------------------------------------------------------------------------
(* What the user made stays: the answer to a save never replaces an edit     *)
(* made since it was sent. And without unsaved edits, if nobody else saved,  *)
(* the server serves what the page shows: that is what Try routing tries     *)
(* (where one gateway answers).                                              *)
EditsKept ==
    /\ config = draft
    /\ config # NoConfig /\ ~dirty /\ ~saving /\ ~othersSaved => config = served

(* From a sound configuration no sequence of edits makes one that lists a    *)
(* target twice, falls back to a target Auto may not choose or fails a model *)
(* over to itself.                                                           *)
KeepsShape ==
    config # NoConfig =>
        /\ \A s \in Lists(config) : IsInjective(s)
        /\ config.auto.fallback \in ToSet(config.auto.targets) \cup {""}
        /\ \A m \in DOMAIN config.rules : m \notin ToSet(config.rules[m])
=============================================================================
