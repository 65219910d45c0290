-------------------------------- MODULE Gate --------------------------------
(* The gate of the dashboard (App.tsx, AuthScreens.tsx) with the credential  *)
(* api.ts keeps: in the memory of this tab and, a session, in localStorage,  *)
(* which other tabs share. Answers travel: what the server said may arrive   *)
(* long after it was true. A user is named after the session.                *)
EXTENDS Integers

CONSTANTS
    Nobody, SessionTokens,
    Loads, ViewRequests,   \* bounds: that many of each in flight
    MaxTroubles            \* bound: failures, restarts and other tabs

ASSUME GateAssumption ==
    /\ SessionTokens \cap {Nobody, "setup", "none", "no"} = {}
    /\ Nobody \notin {"setup", "idle"}
    /\ Loads \subseteq Nat /\ 1 \in Loads /\ Nobody \notin Loads

VARIABLES
    complete,    \* server: setup is complete
    live,        \* server: sessions it honours
    unissued,    \* server: session tokens not given out yet
    setupTokenRequired,   \* server: SETUP_TOKEN is set
    credential,  \* Nobody, "setup" or a session
    stored,      \* localStorage: Nobody or a session
    gate,        \* what is on screen, and for whom when "ready"
    inviting,    \* the address is an invite link
    loads,       \* the runs of load() in flight
    newest,      \* the one whose request is sequence.current, or Nobody
    form,        \* the account form being submitted
    leaving,     \* the sign-out in flight
    requests,    \* requests of the mounted view
    troubles,
    setupKept    \* history: setup has stayed complete while this page is open

server == <<complete, live, unissued, setupTokenRequired>>
memory == <<credential, stored>>
screen == <<gate, inviting>>
loading == <<loads, newest>>
asked == <<form, leaving, requests>>
gateVars == <<server, memory, screen, loading, asked, troubles, setupKept>>

At(state, user) == [state |-> state, user |-> user]
Message(at, active, answer) == [at |-> at, active |-> active, answer |-> answer]
Idle == Message("idle", Nobody, "none")
NoForm == [kind |-> "none", answer |-> "none"]

\* Session tokens are interchangeable: which one is given out next is fixed.
NextToken == CHOOSE s \in unissued : TRUE

Issue(s) ==
    /\ unissued # {}
    /\ unissued' = unissued \ {s} /\ live' = live \cup {s}

Trouble == troubles < MaxTroubles /\ troubles' = troubles + 1

-----------------------------------------------------------------------------
(* api.ts *)

Clear == credential' = Nobody /\ stored' = Nobody
SetSession(s) == credential' = s /\ stored' = s

\* Variant: any 401 clears the credential.
RejectedAnyway(message) == message.answer = "no"

\* apiFetch: a 401 counts only if its credential is still the current one.
Rejected(message) == message.answer = "no" /\ message.active = credential

\* The access hook, on a request with this credential: 401 is "no".
Verdict(active) ==
    IF active \in live THEN "ok" ELSE IF active = "setup" THEN "forbidden" ELSE "no"

-----------------------------------------------------------------------------
(* App: load() and its settle *)

Asking == Message("status", Nobody, "none")
IdleLoads == {l \in Loads : loads[l] = Idle}

Launch(l) == loads' = [loads EXCEPT ![l] = Asking] /\ newest' = l

\* load() is called: the other loads are older from now on.
Load ==
    /\ IdleLoads # {}
    /\ Launch(CHOOSE l \in IdleLoads : \A k \in IdleLoads : l <= k)

\* Variant: an older load settles too.
SettlesAnyway(l) == l \in Loads

Settles(l) == l = newest

\* SetupView asks for the token, where one is required, unless it is known when
\* the view is mounted.
SetupScreen ==
    IF gate.state \in {"verify", "setup"} THEN gate.state
    ELSE IF setupTokenRequired /\ credential # "setup" THEN "verify" ELSE "setup"

\* Load l is over; if it is still the newest its outcome goes on screen.
End(l, state, user) ==
    /\ loads' = [loads EXCEPT ![l] = Idle]
    /\ newest' = IF l = newest THEN Nobody ELSE newest
    /\ gate' = IF Settles(l) THEN At(state, user) ELSE gate

GateInit ==
    /\ complete \in BOOLEAN
    /\ live = {} /\ unissued = SessionTokens
    /\ setupTokenRequired \in BOOLEAN
    /\ credential = Nobody /\ stored = Nobody
    /\ gate = At("loading", Nobody) /\ inviting \in BOOLEAN
    /\ loads = [l \in Loads |-> IF l = 1 THEN Asking ELSE Idle] /\ newest = 1
    /\ form = NoForm /\ leaving = Idle
    /\ requests = [r \in ViewRequests |-> Idle]
    /\ troubles = 0 /\ setupKept = TRUE

\* The server answers with what is true now.
AnswerLoad(l) ==
    /\ loads[l].at # "idle" /\ loads[l].answer = "none"
    /\ loads' = [loads EXCEPT ![l].answer =
           IF loads[l].at = "session" THEN Verdict(loads[l].active)
           ELSE IF complete THEN "complete" ELSE "pending"]
    /\ UNCHANGED <<server, memory, screen, newest, asked, troubles, setupKept>>

\* The status arrives: load() goes on, whether or not it is the newest.
StatusArrives(l) ==
    /\ loads[l].at = "status"
    /\ \/ /\ loads[l].answer = "pending"
          /\ IF credential \in SessionTokens THEN Clear ELSE UNCHANGED memory
          /\ End(l, SetupScreen, Nobody)
       \/ /\ loads[l].answer = "complete" /\ credential \notin SessionTokens
          /\ IF credential = "setup" THEN Clear ELSE UNCHANGED memory
          /\ End(l, "sign-in", Nobody)
       \/ /\ loads[l].answer = "complete" /\ credential \in SessionTokens
          /\ loads' = [loads EXCEPT ![l] = Message("session", credential, "none")]
          /\ UNCHANGED <<memory, gate, newest>>
    /\ UNCHANGED <<server, inviting, asked, troubles, setupKept>>

\* fetchCurrentSession returns; its own 401 starts the next load.
SessionArrives(l) ==
    /\ loads[l].at = "session" /\ loads[l].answer # "none"
    /\ IF Rejected(loads[l])
       THEN Clear /\ Launch(l) /\ UNCHANGED gate
       ELSE /\ UNCHANGED memory
            /\ IF loads[l].answer = "ok" THEN End(l, "ready", loads[l].active)
               ELSE End(l, IF credential # Nobody THEN "error" ELSE "sign-in", Nobody)
    /\ UNCHANGED <<server, inviting, asked, troubles, setupKept>>

\* The gateway cannot be reached, or fails.
LoadFails(l) ==
    /\ loads[l].at # "idle" /\ loads[l].answer = "none" /\ Trouble
    /\ End(l, IF loads[l].at = "session" /\ credential = Nobody
              THEN "sign-in" ELSE "error", Nobody)
    /\ UNCHANGED <<server, memory, inviting, asked, setupKept>>

\* The error screen stays while it loads, so Retry can be pressed again.
Retry ==
    /\ gate.state = "error" /\ Load
    /\ UNCHANGED <<server, memory, screen, asked, troubles, setupKept>>

-----------------------------------------------------------------------------
(* The screens *)

Ready == gate.state = "ready" /\ ~inviting

\* SetupTokenForm, with the right token; the check itself is one step.
VerifySetupToken ==
    /\ gate.state = "verify" /\ ~complete
    /\ credential' = "setup" /\ stored' = Nobody
    /\ gate' = At("setup", Nobody)
    /\ UNCHANGED <<server, inviting, loading, asked, troubles, setupKept>>

\* AccountForm or the sign-in form: busy until it is answered. With SETUP_TOKEN
\* the hook refuses setup without it; without, it takes setup from anyone.
Submit(kind) ==
    /\ form = NoForm
    /\ \/ kind = "setup" /\ gate.state = "setup"
       \/ kind = "sign-in" /\ gate.state = "sign-in" /\ ~inviting
       \/ kind = "join" /\ gate.state \in {"sign-in", "ready"} /\ inviting
    /\ form' = [kind |-> kind,
                answer |-> IF kind = "setup" /\ setupTokenRequired /\ credential # "setup"
                           THEN "no" ELSE "none"]
    /\ UNCHANGED <<server, memory, screen, loading, leaving, requests, troubles,
                   setupKept>>

\* completeSetup, signIn and acceptInvite open a session or refuse.
AnswerForm ==
    /\ form # NoForm /\ form.answer = "none"
    /\ \/ /\ (form.kind = "setup") # complete
          /\ complete' = TRUE
          /\ Issue(NextToken)
          /\ form' = [form EXCEPT !.answer = NextToken]
          /\ UNCHANGED setupTokenRequired
       \/ form' = [form EXCEPT !.answer = "no"] /\ UNCHANGED server
    /\ UNCHANGED <<memory, screen, loading, leaving, requests, troubles, setupKept>>

\* Setup shows Team at once; the others load. The form may be gone by now.
FormArrives ==
    /\ form.answer # "none"
    /\ form' = NoForm
    /\ IF form.answer = "no" THEN UNCHANGED <<memory, screen, loading>>
       ELSE /\ SetSession(form.answer)
            /\ inviting' = (inviting /\ form.kind = "sign-in")
            /\ IF form.kind = "setup"
               THEN gate' = At("ready", form.answer) /\ UNCHANGED loading
               ELSE Load /\ UNCHANGED gate
    /\ UNCHANGED <<server, leaving, requests, troubles, setupKept>>

\* "Go to sign in" on an invite that is not valid.
CancelInvite ==
    /\ inviting /\ gate.state \in {"sign-in", "ready"}
    /\ inviting' = FALSE /\ Load
    /\ UNCHANGED <<server, memory, gate, asked, troubles, setupKept>>

\* hashchange: an invite link is opened in this tab, or left.
Navigate ==
    /\ inviting' = ~inviting
    /\ UNCHANGED <<server, memory, gate, loading, asked, troubles, setupKept>>

\* signOut: asks the server only about a session. The menu can be opened again.
SignOut ==
    /\ Ready /\ leaving = Idle
    /\ IF credential \in SessionTokens
       THEN leaving' = Message("delete", credential, "none") /\ UNCHANGED <<memory, loading>>
       ELSE Clear /\ Load /\ UNCHANGED leaving
    /\ UNCHANGED <<server, screen, form, requests, troubles, setupKept>>

AnswerSignOut ==
    /\ leaving # Idle /\ leaving.answer = "none"
    /\ leaving' = [leaving EXCEPT !.answer = "ok"]
    /\ live' = live \ {leaving.active}
    /\ UNCHANGED <<complete, unissued, setupTokenRequired, memory, screen, loading,
                   form, requests, troubles, setupKept>>

\* Answered or failed, the browser forgets.
SignOutArrives ==
    /\ leaving # Idle
    /\ IF leaving.answer = "ok" THEN UNCHANGED troubles ELSE Trouble
    /\ leaving' = Idle
    /\ Clear /\ Load
    /\ UNCHANGED <<server, screen, form, requests, setupKept>>

\* Requests of the mounted view: it polls, refreshes, saves.
AskView(r) ==
    /\ Ready /\ requests[r] = Idle
    /\ requests' = [requests EXCEPT ![r] = Message("view", credential, "none")]
    /\ UNCHANGED <<server, memory, screen, loading, form, leaving, troubles, setupKept>>

AnswerView(r) ==
    /\ requests[r] # Idle /\ requests[r].answer = "none"
    /\ requests' = [requests EXCEPT ![r].answer = Verdict(requests[r].active)]
    /\ UNCHANGED <<server, memory, screen, loading, form, leaving, troubles, setupKept>>

ViewArrives(r) ==
    /\ requests[r].answer # "none"
    /\ requests' = [requests EXCEPT ![r] = Idle]
    /\ IF Rejected(requests[r]) THEN Clear /\ Load ELSE UNCHANGED <<memory, loading>>
    /\ UNCHANGED <<server, screen, form, leaving, troubles, setupKept>>

-----------------------------------------------------------------------------
(* Around the tab *)

\* A session expires, or is revoked by a new password or a removal.
SessionEnds ==
    /\ \E s \in live : live' = live \ {s}
    /\ UNCHANGED <<complete, unissued, setupTokenRequired, memory, screen, loading,
                   asked, troubles, setupKept>>

\* The API restarts without MongoDB, or on a new database.
ServerForgets ==
    /\ complete /\ Trouble
    /\ complete' = FALSE /\ live' = {} /\ setupKept' = FALSE
    /\ UNCHANGED <<unissued, setupTokenRequired, memory, screen, loading, asked>>

\* Another tab of this browser signs in.
OtherTabSignsIn ==
    /\ complete /\ Trouble
    /\ Issue(NextToken) /\ stored' = NextToken
    /\ UNCHANGED <<complete, setupTokenRequired, credential, screen, loading, asked,
                   setupKept>>

\* The page is reloaded.
Reload ==
    /\ credential' = stored
    /\ gate' = At("loading", Nobody)
    /\ loads' = [l \in Loads |-> IF l = 1 THEN Asking ELSE Idle] /\ newest' = 1
    /\ form' = NoForm /\ leaving' = Idle
    /\ requests' = [r \in ViewRequests |-> Idle]
    /\ setupKept' = TRUE
    /\ UNCHANGED <<server, stored, inviting, troubles>>

GateAnswers ==
    \/ \E l \in Loads : AnswerLoad(l) \/ StatusArrives(l) \/ SessionArrives(l)
    \/ AnswerForm \/ FormArrives \/ AnswerSignOut \/ SignOutArrives
    \/ \E r \in ViewRequests : AnswerView(r) \/ ViewArrives(r)

GateUser ==
    \/ Retry \/ VerifySetupToken \/ CancelInvite \/ Navigate \/ SignOut
    \/ \E kind \in {"setup", "sign-in", "join"} : Submit(kind)
    \/ \E r \in ViewRequests : AskView(r)

GateNext ==
    \/ GateAnswers \/ GateUser
    \/ \E l \in Loads : LoadFails(l)
    \/ SessionEnds \/ ServerForgets \/ OtherTabSignsIn \/ Reload

GateSpec == GateInit /\ [][GateNext]_gateVars

-----------------------------------------------------------------------------
(* The dashboard never goes on showing one account while it acts as another: *)
(* a ready gate belongs to the session requests carry, or a load that will   *)
(* replace it is under way. Setup has to stay complete while the page is     *)
(* open: the form that completes it adopts its session without a load().     *)
NeverSomeoneElse ==
    setupKept /\ gate.state = "ready" /\ credential \in SessionTokens
        /\ credential # gate.user => newest # Nobody

SessionReplaced ==
    \/ credential' \in SessionTokens \cup {"setup"}
    \/ leaving # Idle /\ leaving' = Idle
    \/ \E l \in Loads : loads[l].answer = "pending" /\ loads'[l] = Idle

(* A session the server honours is not forgotten because an older one was    *)
(* rejected: only a sign-out, a status that says setup is pending, a newer   *)
(* session, a setup token or a reload replaces it.                           *)
HonouredSessionsKept ==
    [][credential' # credential /\ credential \in live => SessionReplaced]_gateVars
=============================================================================
