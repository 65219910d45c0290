-------------------------------- MODULE Pages -------------------------------
(* The pages of the dashboard that list what the server has and change it:   *)
(* tokens (TokensView.tsx, API and agent tokens), the team (TeamView.tsx)    *)
(* and models (ModelsView.tsx). A list is the set of changes it reflects; a  *)
(* change that issues a secret (a token's value, an invite link) is the only *)
(* time that secret is shown.                                                *)
EXTENDS Integers, FiniteSets

CONSTANTS
    Changes,       \* bound: changes anybody makes
    Issuing,       \* those that create or roll a token, or create a link
    Refreshes,     \* bound: refreshes in flight
    Nothing

ASSUME PagesAssumption ==
    /\ Issuing \subseteq Changes /\ Nothing \notin Changes
    /\ Refreshes \subseteq Nat \ {0} /\ 1 \in Refreshes

VARIABLES
    page,       \* "tokens", "team" or "models"
    applied,    \* server: the changes made
    list,       \* data: what the list reflects
    usable,     \* data, on Models the provider settings, are there
    busyLoad,   \* loading
    failed,     \* the error banner
    panel,      \* the form: "none", "open" or "saving"
    save,       \* the request of the form: [change, answer]
    secret,     \* the secret on screen
    refreshes,  \* refreshes in flight
    latest,     \* the one whose request is sequence.current, or 0
    mine,       \* history: changes whose save this page saw succeed
    unread      \* history: secrets that arrived and nobody dismissed

pageVars == <<page, applied, list, usable, busyLoad, failed, panel, save, secret,
              refreshes, latest, mine, unread>>

Free == [answer |-> "idle", changes |-> {}]
Asked == [answer |-> "asked", changes |-> {}]
NoSave == [change |-> Nothing, answer |-> "idle"]

-----------------------------------------------------------------------------
\* No other panel opens over a form or over a secret.
Busy == panel # "none" \/ secret # Nothing

\* Variant: every answer is shown.
CurrentAnyway(r) == r \in Refreshes

\* Tokens and Team show the answer of the newest refresh only. Models has no
\* sequence and shows every answer.
Current(r) == r = latest \/ page = "models"

\* refresh() is called.
Refresh ==
    \E r \in Refreshes :
        /\ refreshes[r] = Free
        /\ \A q \in Refreshes : refreshes[q] = Free => r <= q
        /\ refreshes' = [refreshes EXCEPT ![r] = Asked]
        /\ latest' = r /\ busyLoad' = TRUE

Mounting == [r \in Refreshes |-> IF r = 1 THEN Asked ELSE Free]

PagesInit ==
    /\ page \in {"tokens", "team", "models"}
    /\ applied = {} /\ mine = {} /\ unread = {}
    /\ list = Nothing /\ usable = FALSE /\ busyLoad = TRUE /\ failed = FALSE
    /\ panel = "none" /\ save = NoSave /\ secret = Nothing
    /\ refreshes = Mounting /\ latest = 1

\* The timer of the tokens pages, or the Refresh or Retry button.
RefreshAgain ==
    /\ page = "tokens" \/ ~busyLoad
    /\ Refresh
    /\ UNCHANGED <<page, applied, list, usable, failed, panel, save, secret, mine, unread>>

\* The server answers a refresh with what it has now.
AnswerRefresh(r) ==
    /\ refreshes[r] = Asked
    /\ refreshes' = [refreshes EXCEPT ![r] = [answer |-> "ok", changes |-> applied]]
    /\ UNCHANGED <<page, applied, list, usable, busyLoad, failed, panel, save,
                   secret, latest, mine, unread>>

Over(r) ==
    /\ refreshes' = [refreshes EXCEPT ![r] = Free]
    /\ latest' = IF r = latest THEN 0 ELSE latest
    /\ busyLoad' = (busyLoad /\ ~Current(r))
    /\ UNCHANGED <<page, applied, save, secret, mine, unread>>

\* The answer arrives.
RefreshArrives(r) ==
    /\ refreshes[r].answer = "ok"
    /\ IF Current(r)
       THEN list' = refreshes[r].changes /\ usable' = TRUE /\ failed' = FALSE
       ELSE UNCHANGED <<list, usable, failed>>
    /\ Over(r)
    /\ UNCHANGED panel

\* The three requests of Models fail each alone: without the models the list
\* stays, without the settings the page drops its form.
ModelsPartly(r) ==
    \/ usable' = TRUE /\ UNCHANGED <<list, panel>>
    \/ /\ usable' = FALSE
       /\ panel' = IF panel = "saving" THEN "open" ELSE panel
       /\ \/ UNCHANGED list
          \/ refreshes[r].answer = "ok" /\ list' = refreshes[r].changes

\* The refresh fails.
RefreshFails(r) ==
    /\ refreshes[r] # Free
    /\ failed' = (failed \/ Current(r))
    /\ \/ page # "models" /\ UNCHANGED <<list, usable, panel>>
       \/ page = "models" /\ ModelsPartly(r)
    /\ Over(r)

\* A button of the page opens the form.
OpenPanel ==
    /\ usable /\ ~Busy
    /\ panel' = "open"
    /\ UNCHANGED <<page, applied, list, usable, busyLoad, failed, save, secret,
                   refreshes, latest, mine, unread>>

\* Cancel and close, both disabled while saving.
ClosePanel ==
    /\ panel = "open" /\ usable
    /\ panel' = "none"
    /\ UNCHANGED <<page, applied, list, usable, busyLoad, failed, save, secret,
                   refreshes, latest, mine, unread>>

SubmitPanel(c) ==
    /\ panel = "open" /\ usable /\ save = NoSave
    /\ c \notin applied /\ (page = "models" => c \notin Issuing)
    /\ panel' = "saving"
    /\ save' = [change |-> c, answer |-> "asked"]
    /\ UNCHANGED <<page, applied, list, usable, busyLoad, failed, secret,
                   refreshes, latest, mine, unread>>

\* The server makes the change, or refuses it.
AnswerSave ==
    /\ save.answer = "asked"
    /\ \/ save' = [save EXCEPT !.answer = "ok"] /\ applied' = applied \cup {save.change}
       \/ save' = [save EXCEPT !.answer = "no"] /\ UNCHANGED applied
    /\ UNCHANGED <<page, list, usable, busyLoad, failed, panel, secret, refreshes,
                   latest, mine, unread>>

\* onSaved, onAdded: close the form, show the secret, refresh. Models puts the
\* new model into its list at once.
SaveArrives ==
    /\ save.answer = "ok"
    /\ save' = NoSave /\ panel' = "none"
    /\ mine' = mine \cup {save.change}
    /\ LET issued == save.change \in Issuing
       IN /\ secret' = IF issued THEN save.change ELSE Nothing
          /\ unread' = IF issued THEN unread \cup {save.change} ELSE unread
    /\ list' = IF page = "models"
               THEN (IF list = Nothing THEN {} ELSE list) \cup {save.change} ELSE list
    /\ Refresh
    /\ UNCHANGED <<page, applied, usable, failed>>

\* Refused or lost, whether or not it was made: the form shows the error.
SaveFails ==
    /\ save # NoSave
    /\ save' = NoSave
    /\ panel' = IF panel = "saving" THEN "open" ELSE panel
    /\ UNCHANGED <<page, applied, list, usable, busyLoad, failed, secret,
                   refreshes, latest, mine, unread>>

\* "I've saved this token", "Done".
Dismiss ==
    /\ secret # Nothing
    /\ secret' = Nothing /\ unread' = unread \ {secret}
    /\ UNCHANGED <<page, applied, list, usable, busyLoad, failed, panel, save,
                   refreshes, latest, mine>>

\* Another member changes something.
OthersChange(c) ==
    /\ c \notin applied /\ c # save.change
    /\ applied' = applied \cup {c}
    /\ UNCHANGED <<page, list, usable, busyLoad, failed, panel, save, secret,
                   refreshes, latest, mine, unread>>

\* The user leaves for another page and comes back; answers to the page that
\* was left change nothing.
LeaveAndReturn ==
    /\ list' = Nothing /\ usable' = FALSE /\ busyLoad' = TRUE /\ failed' = FALSE
    /\ panel' = "none" /\ save' = NoSave /\ secret' = Nothing /\ unread' = {}
    /\ refreshes' = Mounting /\ latest' = 1
    /\ UNCHANGED <<page, applied, mine>>

PagesNext ==
    \/ RefreshAgain \/ OpenPanel \/ ClosePanel \/ AnswerSave \/ SaveArrives
    \/ SaveFails \/ Dismiss \/ LeaveAndReturn
    \/ \E r \in Refreshes : AnswerRefresh(r) \/ RefreshArrives(r) \/ RefreshFails(r)
    \/ \E c \in Changes : SubmitPanel(c) \/ OthersChange(c)

PagesSpec == PagesInit /\ [][PagesNext]_pageVars

-----------------------------------------------------------------------------
(* What the user did is on screen. A secret that is shown only once stays    *)
(* until the user dismisses it or leaves: no panel, save or refresh takes it *)
(* away. When nothing is loading and nothing failed, the tokens and team     *)
(* lists show every change this page made: no older answer hides one.        *)
OwnChangesShown ==
    /\ unread \subseteq {secret}
    /\ page # "models" /\ list # Nothing /\ ~busyLoad /\ ~failed => mine \subseteq list
=============================================================================
