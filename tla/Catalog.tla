------------------------------ MODULE Catalog ------------------------------
(* The model catalog (model-catalog.ts) and the service that refreshes it    *)
(* (model-catalog-service.ts), one process. A catalog gives some providers   *)
(* an entry: where its list came from, and a price or Absent for each model.   *)
(* Names, release dates and the order of models are left out. The cache is   *)
(* the default one, in memory: reading or setting it is not interrupted.     *)
EXTENDS Integers, Sequences, FiniteSets

CONSTANTS
    Absent,          \* no catalog, no price
    Specs,         \* PROVIDERS: the providers the gateway knows
    Keyed,         \* those with an API key in the environment
    ApiAnswers,    \* what a provider's endpoint answers: pages of rows, Absent
                   \*   for a page that fails; no rows at all is an error too
    MAX_PAGES,     \* the page cap of the fetchers
    LeftOut,       \* rows without an id, and private fine-tunes
    DevAnswers,    \* what models.dev says: provider -> model -> price; Absent fails
    Bases          \* bundled catalogs

ASSUME CatalogAssumption ==
    /\ Keyed \subseteq Specs /\ Absent \notin Bases
    /\ \A b \in Bases : \A p \in DOMAIN b :
          b[p] = [source |-> b[p].source, models |-> b[p].models]

VARIABLES
    base, latest, cached,   \* catalogs; Absent before the first refresh or once expired
    previous,      \* the catalog the running refresh started from
    inflight,      \* a refresh is running
    loop,          \* "off", "refreshing", "daily" or "retry": runRefreshLoop
    started, stopped,       \* started is the field; stop is called once
    lastApi, lastDev,       \* history: the last list each source gave
    lastRefresh    \* history: what models.dev answered to the last refresh

catalogVars == <<base, latest, cached, previous, inflight, loop, started,
                 stopped, lastApi, lastDev, lastRefresh>>

NoAnswers == [x \in {} |-> Absent]

\* getCatalog: the cache, else the last refresh, else the bundled catalog.
Current == IF cached # Absent THEN cached ELSE IF latest # Absent THEN latest ELSE base

-----------------------------------------------------------------------------
(* The provider's endpoint *)

Normalized(rows) == rows \ LeftOut

\* The pages are read one after the other; a page that fails ends the fetch.
Fetched(pages) ==
    LET read == {pages[i] : i \in {j \in DOMAIN pages : j <= MAX_PAGES}}
    IN IF Absent \in read THEN {} ELSE Normalized(UNION read)

(* buildModelCatalog; api gives each provider with a key what was fetched *)

Unpriced(models) == [m \in models |-> Absent]

ApiEntry(p, api) == [source |-> "api", models |-> Unpriced(api[p])]

DevEntry(p, dev) == [source |-> "models.dev", models |-> Unpriced(DOMAIN dev[p])]

KeepsLive(p, prev) == p \in DOMAIN prev /\ prev[p].source = "api"

\* Variant: an entry no source answered for is dropped.
OrNothing(p, prev) == Absent

OrPrevious(p, prev) == IF p \in DOMAIN prev THEN prev[p] ELSE Absent

EntryOf(p, prev, api, dev) ==
    IF p \in Keyed /\ api[p] # {} THEN ApiEntry(p, api)
    ELSE IF p \in Keyed /\ KeepsLive(p, prev) THEN prev[p]
    ELSE IF dev # Absent /\ p \in DOMAIN dev THEN DevEntry(p, dev)
    ELSE OrPrevious(p, prev)

KnownPrice(p, m, prev) ==
    IF p \in DOMAIN prev /\ m \in DOMAIN prev[p].models
    THEN prev[p].models[m] ELSE Absent

DevPrice(p, m, dev) ==
    IF p \in DOMAIN dev /\ m \in DOMAIN dev[p] THEN dev[p][m] ELSE Absent

\* Variant: a failed models.dev leaves only the prices of the entry itself.
OwnPrice(p, m, entry, prev) == entry.models[m]

KeptPrice(p, m, entry, prev) ==
    IF entry.models[m] # Absent THEN entry.models[m] ELSE KnownPrice(p, m, prev)

WithPrices(p, entry, prev, dev) ==
    [entry EXCEPT !.models = [m \in DOMAIN entry.models |->
        IF dev # Absent THEN DevPrice(p, m, dev) ELSE KeptPrice(p, m, entry, prev)]]

Built(prev, api, dev) ==
    [p \in {q \in Specs : EntryOf(q, prev, api, dev) # Absent} |->
        WithPrices(p, EntryOf(p, prev, api, dev), prev, dev)]

\* It throws rather than replace a catalog with an empty one.
Refused(prev, next) == DOMAIN next = {} /\ DOMAIN prev # {}

-----------------------------------------------------------------------------
(* ModelCatalogService *)

CatalogInit ==
    /\ base \in Bases
    /\ latest = Absent /\ cached = Absent /\ previous = Absent
    /\ inflight = FALSE /\ loop = "off"
    /\ started = FALSE /\ stopped = FALSE
    /\ lastApi = NoAnswers /\ lastDev = NoAnswers /\ lastRefresh = NoAnswers

\* refresh() joins the one that is running (??=).
BeginRefresh ==
    IF inflight THEN UNCHANGED <<previous, inflight, latest>>
    ELSE /\ inflight' = TRUE
         /\ previous' = Current
         /\ latest' = IF cached # Absent THEN cached ELSE latest

Histories == <<lastApi, lastDev, lastRefresh>>

Start ==   \* start(), called once the server listens
    /\ ~started /\ ~stopped
    /\ started' = TRUE
    /\ loop' = "refreshing"
    /\ BeginRefresh
    /\ UNCHANGED <<base, cached, stopped, Histories>>

\* The Worker's first request refreshes without a loop.
RefreshOnce ==
    /\ ~started /\ ~stopped
    /\ BeginRefresh
    /\ UNCHANGED <<base, cached, loop, started, stopped, Histories>>

TimerFires ==
    /\ loop \in {"daily", "retry"}
    /\ loop' = "refreshing"
    /\ BeginRefresh
    /\ UNCHANGED <<base, cached, started, stopped, Histories>>

Stop ==   \* onClose
    /\ ~stopped
    /\ stopped' = TRUE
    /\ started' = FALSE
    /\ loop' = IF loop = "refreshing" THEN loop ELSE "off"
    /\ UNCHANGED <<base, latest, cached, previous, inflight, Histories>>

\* Variant: the loop goes on only after a refresh that worked.
ArmedAfterSuccess(ok) == IF started /\ ok THEN "daily" ELSE "off"

Armed(ok) == IF ~started THEN "off" ELSE IF ok THEN "daily" ELSE "retry"

\* All that a provider listed, page by page.
Said(pages) ==
    (UNION {pages[i] : i \in {j \in DOMAIN pages : pages[j] # Absent}}) \ LeftOut

\* The sources answered; doRefresh ends and the loop arms its timer.
RefreshEnds(api, dev) ==
    LET next == Built(previous, [p \in Keyed |-> Fetched(api[p])], dev)
        ok   == ~Refused(previous, next)
        live == {p \in Keyed : Said(api[p]) # {}
                    /\ \A i \in DOMAIN api[p] : api[p][i] # Absent}
    IN /\ inflight
       /\ inflight' = FALSE
       /\ previous' = Absent
       /\ IF ok THEN latest' = next /\ cached' = next
          ELSE UNCHANGED <<latest, cached>>
       /\ loop' = IF loop = "refreshing" THEN Armed(ok) ELSE loop
       /\ lastApi' = [p \in DOMAIN lastApi \cup live |->
                         IF p \in live THEN Said(api[p]) ELSE lastApi[p]]
       /\ LET listed == IF dev = Absent THEN {} ELSE DOMAIN dev \cap Specs
          IN lastDev' = [p \in DOMAIN lastDev \cup listed |->
                            IF p \in listed THEN DOMAIN dev[p] ELSE lastDev[p]]
       /\ lastRefresh' = dev
       /\ UNCHANGED <<base, started, stopped>>

Expire ==   \* the cache's one-day TTL
    /\ cached # Absent
    /\ cached' = Absent
    /\ UNCHANGED <<base, latest, previous, inflight, loop, started, stopped, Histories>>

CatalogEnds == \E api \in [Keyed -> ApiAnswers], dev \in DevAnswers : RefreshEnds(api, dev)

CatalogNext == Start \/ RefreshOnce \/ TimerFires \/ Stop \/ CatalogEnds \/ Expire

CatalogSpec == CatalogInit /\ [][CatalogNext]_catalogVars

-----------------------------------------------------------------------------
(* "A flaky run must not shrink the catalog": whatever fails in whatever     *)
(* order, an entry lists what its source said last, to the last page. A      *)
(* provider with a key keeps its live list once it had one; else the public  *)
(* list; else what was bundled. An entry never disappears.                   *)
FollowsSources ==
    \A p \in Specs :
        LET listed == IF p \in DOMAIN Current THEN DOMAIN Current[p].models ELSE {}
        IN listed = IF p \in DOMAIN lastApi THEN lastApi[p]
                    ELSE IF p \in DOMAIN lastDev
                            /\ ~(p \in Keyed /\ KeepsLive(p, base)) THEN lastDev[p]
                    ELSE IF p \in DOMAIN base THEN DOMAIN base[p].models ELSE {}

(* "Keep known rates on transient catalog failure": a refresh that could not *)
(* reach models.dev loses no price of a model that is still listed, also     *)
(* when the list itself was fetched anew; telemetry prices calls with it.    *)
RatesKept ==
    [][ \A p \in DOMAIN Current :
            inflight /\ ~inflight' /\ lastRefresh' = Absent /\ p \in DOMAIN Current' =>
                \A m \in DOMAIN Current[p].models \cap DOMAIN Current'[p].models :
                    Current'[p].models[m] = Current[p].models[m] ]_catalogVars

(* A refresh that fails does not end the loop, and one that was running when *)
(* the server closed does not arm a timer: while started there is a refresh  *)
(* or a timer, and neither is left after a stop once the refresh has ended.  *)
LoopGoesOn ==
    /\ started => loop # "off"
    /\ stopped /\ ~inflight => loop = "off"
    /\ loop = "refreshing" => inflight
=============================================================================
