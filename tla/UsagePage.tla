------------------------------ MODULE UsagePage -----------------------------
(* The Dashboard page (Dashboard.tsx): each selection of period and filters  *)
(* starts an effect that fetches its report and then polls, until the next   *)
(* selection, a manual refresh or leaving the page stops it.                 *)
EXTENDS Integers, FiniteSets

CONSTANTS
    Selections,   \* range and filters
    Effects,      \* bound: the running effect and stopped ones with a fetch out
    NoReport

ASSUME UsageAssumption == Effects \subseteq Nat \ {0} /\ 1 \in Effects /\ NoReport \notin Selections

VARIABLES
    selected,     \* range and filters on screen
    effects,      \* [key, fetch, timer, stopped] of each effect
    running,      \* the effect that is not stopped, or 0 when the page is left
    report,       \* whose report data is
    loadedKey,
    usageError,
    hidden        \* document.hidden

usageVars == <<selected, effects, running, report, loadedKey, usageError, hidden>>

NoEffect == [key |-> NoReport, fetch |-> "none", timer |-> FALSE, stopped |-> TRUE]
Started(k) == [key |-> k, fetch |-> "asked", timer |-> FALSE, stopped |-> FALSE]

\* current: the report is shown only under the selection it was loaded for.
Shown == IF report # NoReport /\ loadedKey = selected THEN report ELSE NoReport

-----------------------------------------------------------------------------
UsageInit ==
    /\ selected \in Selections
    /\ effects = [e \in Effects |-> IF e = 1 THEN Started(selected) ELSE NoEffect]
    /\ running = 1
    /\ report = NoReport /\ loadedKey = NoReport
    /\ usageError = FALSE /\ hidden = FALSE

\* The cleanup clears the timer and aborts the fetch; an answer that is in
\* already goes on to its continuation.
Stopped(e) ==
    IF e.fetch \in {"ok", "failed"} THEN [e EXCEPT !.stopped = TRUE, !.timer = FALSE]
    ELSE NoEffect

AfterCleanup == [e \in Effects |-> IF e = running THEN Stopped(effects[e]) ELSE effects[e]]

\* A new selection, or Refresh and Retry (the same selection): one effect is
\* cleaned up, the next one starts.
Select(k) ==
    /\ running # 0
    /\ \E e \in Effects :
          /\ AfterCleanup[e] = NoEffect
          /\ \A d \in Effects : AfterCleanup[d] = NoEffect => e <= d
          /\ effects' = [AfterCleanup EXCEPT ![e] = Started(k)]
          /\ running' = e
    /\ selected' = k
    /\ UNCHANGED <<report, loadedKey, usageError, hidden>>

Leave ==
    /\ running # 0
    /\ effects' = AfterCleanup /\ running' = 0
    /\ report' = NoReport /\ loadedKey' = NoReport /\ usageError' = FALSE
    /\ UNCHANGED <<selected, hidden>>

Return ==
    /\ running = 0 /\ effects[1] = NoEffect
    /\ \E k \in Selections :
          selected' = k /\ effects' = [effects EXCEPT ![1] = Started(k)]
    /\ running' = 1
    /\ UNCHANGED <<report, loadedKey, usageError, hidden>>

\* The report is ready, or the request failed or timed out.
AnswerReport(e) ==
    /\ effects[e].fetch = "asked"
    /\ \E answer \in {"ok", "failed"} : effects' = [effects EXCEPT ![e].fetch = answer]
    /\ UNCHANGED <<selected, running, report, loadedKey, usageError, hidden>>

\* Variant: the timer is set whether or not the effect was stopped.
RearmsAnyway(e) == e.fetch # "asked"

Rearms(e) == ~e.stopped

\* The continuation of refresh(): a stopped effect changes nothing any more.
ReportArrives(e) ==
    LET done == effects[e]
    IN /\ done.fetch \in {"ok", "failed"}
       /\ effects' = [effects EXCEPT ![e] =
              IF Rearms(done) THEN [done EXCEPT !.fetch = "none", !.timer = TRUE] ELSE NoEffect]
       /\ IF done.stopped THEN UNCHANGED <<report, loadedKey, usageError>>
          ELSE /\ usageError' = (done.fetch = "failed")
               /\ IF done.fetch = "ok" THEN report' = done.key /\ loadedKey' = done.key
                  ELSE UNCHANGED <<report, loadedKey>>
       /\ UNCHANGED <<selected, running, hidden>>

\* The timer fires: a hidden page waits another 30 seconds.
Poll(e) ==
    /\ effects[e].timer
    /\ effects' = IF hidden THEN effects
                  ELSE [effects EXCEPT ![e].timer = FALSE, ![e].fetch = "asked"]
    /\ UNCHANGED <<selected, running, report, loadedKey, usageError, hidden>>

Hide ==
    /\ hidden' = ~hidden
    /\ UNCHANGED <<selected, effects, running, report, loadedKey, usageError>>

UsageNext ==
    \/ Leave \/ Return \/ Hide
    \/ \E k \in Selections : Select(k)
    \/ \E e \in Effects : AnswerReport(e) \/ ReportArrives(e) \/ Poll(e)

UsageSpec == UsageInit /\ [][UsageNext]_usageVars

-----------------------------------------------------------------------------
(* While the page is open exactly one loop keeps it fresh, that of the       *)
(* selection on screen: it has a fetch out or a timer set, whatever failed,  *)
(* and no loop outlives its selection or the page.                           *)
ExactlyOneLoop ==
    /\ \A e \in Effects : effects[e].timer => e = running
    /\ running # 0 =>
          /\ effects[running].key = selected
          /\ effects[running].timer # (effects[running].fetch # "none")
    /\ Shown \in {selected, NoReport}
=============================================================================
