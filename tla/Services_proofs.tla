--------------------------- MODULE Services_proofs ---------------------------
(* What the services behind the routes promise: provider connections that    *)
(* are kept, Worker requests that end with their telemetry shipped, a        *)
(* catalog that goes on being refreshed, token values that work as long as   *)
(* promised, pools whose load is shared fairly, and reports that agree       *)
(* wherever they are computed; each by itself, as they share no state.       *)
EXTENDS Catalog, Providers, Worker, Tokens, Pools, Reports,
        SequenceTheorems, FiniteSetTheorems, TLAPS

(* Provider connections: AddedModelsKept, for one gateway. *)

ProvidersTypeOK ==
    /\ document = [c \in Connections |-> document[c]]
    /\ configs = [g \in Gateways |-> configs[g]]
    /\ \A g \in Gateways : configs[g] = [c \in Connections |-> configs[g][c]]
    /\ configsLoaded \in [Gateways -> BOOLEAN]
    /\ writes \in [Gateways -> Seq(Additions)]
    /\ merged = [g \in Gateways |-> merged[g]]
    /\ outcome = [a \in Additions |-> outcome[a]]

\* What the head is saving was merged into what memory has now.
MergedIsNow ==
    \A g \in Gateways : merged[g] # {} =>
        /\ configsLoaded[g] /\ writes[g] # <<>>
        /\ merged[g] = Known(g) \cup {Wish(g).model}

\* What the environment configured is in memory, and in every document.
EnvironmentKept ==
    \A c \in Connections :
        /\ document[c] # {} => EnvModels[c] \subseteq document[c]
        /\ \A g \in Gateways : EnvModels[c] \subseteq configs[g][c]

ProvidersInv == ProvidersTypeOK /\ MergedIsNow /\ EnvironmentKept /\ AddedModelsKept

(* Worker requests: ShippedBeforeEnd. *)

WorkerTypeOK ==
    /\ pc \in [WorkerRequests -> {"new", "load", "handle", "stream", "drain", "flush",
                                  "close", "done"}]
    /\ recorded \subseteq WorkerRequests
    /\ chain \in Seq(WorkerRequests)
    /\ waits \in [WorkerRequests -> Nat]
    /\ failures \in Nat

Queued(r) == \E i \in 1 .. Len(chain) : chain[i] = r

\* A load runs in the scope of a request that waits for it.
LoadHeld == loading # Nobody => loading \in WorkerRequests /\ pc[loading] = "load"

\* A handler that is at work has its response to send, unless the client left.
AliveAtWork ==
    \A r \in WorkerRequests :
        /\ r \in alive \ hungUp => pc[r] \in {"load", "handle", "stream"}
        /\ pc[r] = "new" => r \notin alive

\* Flushes are queued by calls that were recorded and by requests that end.
QueuedWhy ==
    \A r \in WorkerRequests : Queued(r) =>
        r \in recorded \/ pc[r] \in {"drain", "flush", "close", "done"}

\* A request that ends waits for all of its flushes, then is in none.
WaitsForOwn ==
    \A r \in WorkerRequests \ hungUp :
        /\ pc[r] \in {"drain", "flush"} =>
              \A i \in 1 .. Len(chain) : chain[i] = r => i <= waits[r]
        /\ pc[r] \in {"close", "done"} => ~Queued(r)
        /\ pc[r] = "done" => r \notin open

\* A recorded call is somewhere. Unless an insert failed, one that is not in
\* MongoDB has its own flush ahead, and that flush takes it.
NothingDropped ==
    /\ batch # {} => chain # <<>>
    /\ recorded \subseteq pending \cup batch \cup stored
    /\ \A r \in recorded \ hungUp :
          /\ batch # {} /\ Head(chain) = r => r \in batch \cup stored
          /\ failures = 0 /\ r \notin stored => Queued(r)

WorkerInv ==
    /\ WorkerTypeOK /\ LoadHeld /\ AliveAtWork /\ QueuedWhy /\ WaitsForOwn
    /\ NothingDropped

(* The catalog: FollowsSources and RatesKept. *)

\* "No answer" is neither a catalog nor an entry of one.
AbsentIsNothing ==
    /\ \A P, c : [p \in P |-> c[p]] # Absent
    /\ \A s, m : [source |-> s, models |-> m] # Absent

\* No endpoint has more to say than the fetchers read before they give up.
PagesFit ==
    \A pages \in ApiAnswers : \A i \in DOMAIN pages :
        \E j \in DOMAIN pages : j <= MAX_PAGES /\ pages[j] = pages[i]

Formed(catalog) ==
    \A p \in DOMAIN catalog :
        catalog[p] = [source |-> catalog[p].source, models |-> catalog[p].models]

\* The last refresh is what counts, in the cache or not, and it cannot change
\* while the next one runs.
OneCatalog ==
    /\ base \in Bases
    /\ cached # Absent => latest = cached
    /\ inflight => previous = Current
    /\ Formed(Current)

\* An entry is live once its provider answered, or when it was bundled so.
LiveOrBundled ==
    /\ DOMAIN lastApi \subseteq Keyed
    /\ \A p \in Keyed :
          KeepsLive(p, Current) <=> p \in DOMAIN lastApi \/ KeepsLive(p, base)

CatalogInv == OneCatalog /\ LiveOrBundled /\ FollowsSources

(* The catalog's refresh loop: LoopGoesOn. *)

StopIsFinal == stopped => ~started /\ loop \in {"off", "refreshing"}
LoopInv == StopIsFinal /\ LoopGoesOn

-----------------------------------------------------------------------------
(* The refresh loop. *)

\* While started there is exactly one refresh or timer, and none is left once
\* the last refresh after a stop has ended.
THEOREM LoopNeverDies == CatalogSpec => []LoopGoesOn
<1>1. CatalogInit => LoopInv
  BY DEF CatalogInit, LoopInv, StopIsFinal, LoopGoesOn
<1>2. LoopInv /\ [CatalogNext]_catalogVars => LoopInv'
  <2> SUFFICES ASSUME LoopInv, [CatalogNext]_catalogVars PROVE LoopInv'
    OBVIOUS
  <2> USE DEF LoopInv, StopIsFinal, LoopGoesOn, BeginRefresh
  <2>1. CASE Start
    BY <2>1 DEF Start
  <2>2. CASE RefreshOnce
    BY <2>2 DEF RefreshOnce
  <2>3. CASE TimerFires
    BY <2>3 DEF TimerFires
  <2>4. CASE Stop
    BY <2>4 DEF Stop
  <2>5. ASSUME NEW api \in [Keyed -> ApiAnswers], NEW dev \in DevAnswers,
               RefreshEnds(api, dev)
        PROVE  LoopInv'
    <3>1. /\ ~inflight' /\ UNCHANGED <<started, stopped>>
          /\ \E ok \in BOOLEAN : loop' = IF loop = "refreshing" THEN Armed(ok) ELSE loop
      BY <2>5 DEF RefreshEnds, Refused
    <3> QED
      BY <3>1 DEF Armed
  <2>6. CASE Expire
    BY <2>6 DEF Expire
  <2>7. CASE UNCHANGED catalogVars
    BY <2>7 DEF catalogVars
  <2> QED
    BY <2>1, <2>2, <2>3, <2>4, <2>5, <2>6, <2>7 DEF CatalogNext, CatalogEnds
<1>3. LoopInv => LoopGoesOn
  BY DEF LoopInv
<1> QED
  BY <1>1, <1>2, <1>3, PTL DEF CatalogSpec

-----------------------------------------------------------------------------
(* The catalog. *)

\* What a provider listed is read to the last page, or not at all.
LEMMA FetchedAll ==
    ASSUME PagesFit, NEW pages \in ApiAnswers
    PROVE  /\ (\E i \in DOMAIN pages : pages[i] = Absent) => Fetched(pages) = {}
           /\ (\A i \in DOMAIN pages : pages[i] # Absent) => Fetched(pages) = Said(pages)
<1> DEFINE read == {pages[i] : i \in {j \in DOMAIN pages : j <= MAX_PAGES}}
<1>1. read = {pages[i] : i \in DOMAIN pages}
  BY DEF PagesFit
<1>2. Fetched(pages) = IF Absent \in read THEN {} ELSE (UNION read) \ LeftOut
  BY DEF Fetched, Normalized
<1> HIDE DEF read
<1>3. ASSUME \A i \in DOMAIN pages : pages[i] # Absent
      PROVE  {pages[i] : i \in {j \in DOMAIN pages : pages[j] # Absent}} = read
  BY <1>1, <1>3
<1>4. (\E i \in DOMAIN pages : pages[i] = Absent) <=> Absent \in read
  BY <1>1
<1> QED
  BY <1>2, <1>3, <1>4 DEF Said

\* An entry that is there has a source and a list.
LEMMA EntryFacts ==
    ASSUME AbsentIsNothing, NEW prev, Formed(prev), NEW api, NEW dev, NEW p \in Specs
    PROVE  LET e == EntryOf(p, prev, api, dev)
           IN /\ e # Absent => e = [source |-> e.source, models |-> e.models]
              /\ p \in Keyed /\ api[p] # {} =>
                    e # Absent /\ e.source = "api" /\ DOMAIN e.models = api[p]
                      /\ \A m \in api[p] : e.models[m] = Absent
              /\ ~(p \in Keyed /\ api[p] # {}) /\ p \in Keyed /\ KeepsLive(p, prev) =>
                    e # Absent /\ e = prev[p]
              /\ ~(p \in Keyed /\ (api[p] # {} \/ KeepsLive(p, prev)))
                   /\ dev # Absent /\ p \in DOMAIN dev =>
                    e # Absent /\ e.source = "models.dev" /\ DOMAIN e.models = DOMAIN dev[p]
              /\ ~(p \in Keyed /\ (api[p] # {} \/ KeepsLive(p, prev)))
                   /\ ~(dev # Absent /\ p \in DOMAIN dev) =>
                    /\ p \in DOMAIN prev => e # Absent /\ e = prev[p]
                    /\ p \notin DOMAIN prev => e = Absent
<1> DEFINE e == EntryOf(p, prev, api, dev)
<1>1. p \in DOMAIN prev => prev[p] # Absent
  BY DEF Formed, AbsentIsNothing
<1>2. CASE p \in Keyed /\ api[p] # {}
  <2>1. e = [source |-> "api", models |-> [m \in api[p] |-> Absent]]
    BY <1>2 DEF EntryOf, ApiEntry, Unpriced
  <2>2. e # Absent
    BY <2>1 DEF AbsentIsNothing
  <2> QED
    BY <1>2, <2>1, <2>2
<1>3. CASE ~(p \in Keyed /\ api[p] # {}) /\ p \in Keyed /\ KeepsLive(p, prev)
  <2>1. e = prev[p] /\ p \in DOMAIN prev
    BY <1>3 DEF EntryOf, KeepsLive
  <2> QED
    BY <1>1, <1>3, <2>1 DEF Formed
<1>4. CASE /\ ~(p \in Keyed /\ (api[p] # {} \/ KeepsLive(p, prev)))
           /\ dev # Absent /\ p \in DOMAIN dev
  <2>1. e = [source |-> "models.dev", models |-> [m \in DOMAIN dev[p] |-> Absent]]
    BY <1>4 DEF EntryOf, DevEntry, Unpriced
  <2>2. e # Absent
    BY <2>1 DEF AbsentIsNothing
  <2> QED
    BY <1>4, <2>1, <2>2
<1>5. CASE /\ ~(p \in Keyed /\ (api[p] # {} \/ KeepsLive(p, prev)))
           /\ ~(dev # Absent /\ p \in DOMAIN dev)
  <2>1. e = IF p \in DOMAIN prev THEN prev[p] ELSE Absent
    BY <1>5 DEF EntryOf, OrPrevious
  <2> QED
    BY <1>1, <1>5, <2>1 DEF Formed
<1> HIDE DEF e
<1>6. \/ p \in Keyed /\ api[p] # {}
      \/ ~(p \in Keyed /\ api[p] # {}) /\ p \in Keyed /\ KeepsLive(p, prev)
      \/ /\ ~(p \in Keyed /\ (api[p] # {} \/ KeepsLive(p, prev)))
         /\ dev # Absent /\ p \in DOMAIN dev
      \/ /\ ~(p \in Keyed /\ (api[p] # {} \/ KeepsLive(p, prev)))
         /\ ~(dev # Absent /\ p \in DOMAIN dev)
  OBVIOUS
<1> USE DEF e
<1> QED
  BY <1>2, <1>3, <1>4, <1>5, <1>6

\* A catalog that was built has the entries' sources and lists; without
\* models.dev, prices that were known stay.
LEMMA BuiltFacts ==
    ASSUME AbsentIsNothing, NEW prev, Formed(prev), NEW api, NEW dev
    PROVE  LET snap == Built(prev, api, dev)
           IN /\ snap # Absent /\ Formed(snap) /\ DOMAIN snap \subseteq Specs
              /\ \A p \in Specs :
                    LET e == EntryOf(p, prev, api, dev)
                    IN /\ p \in DOMAIN snap <=> e # Absent
                       /\ p \in DOMAIN snap =>
                             /\ snap[p].source = e.source
                             /\ DOMAIN snap[p].models = DOMAIN e.models
                             /\ dev = Absent => \A m \in DOMAIN e.models :
                                   snap[p].models[m] = KeptPrice(p, m, e, prev)
<1> DEFINE snap == Built(prev, api, dev)
           P == {q \in Specs : EntryOf(q, prev, api, dev) # Absent}
           W(p) == WithPrices(p, EntryOf(p, prev, api, dev), prev, dev)
<1>1. snap = [p \in P |-> W(p)]
  BY DEF Built
<1>2. ASSUME NEW p \in P
      PROVE  LET e == EntryOf(p, prev, api, dev)
             IN /\ W(p) = [source |-> W(p).source, models |-> W(p).models]
                /\ W(p).source = e.source /\ DOMAIN W(p).models = DOMAIN e.models
                /\ dev = Absent => \A m \in DOMAIN e.models :
                      W(p).models[m] = KeptPrice(p, m, e, prev)
  <2> DEFINE e == EntryOf(p, prev, api, dev)
  <2>1. e = [source |-> e.source, models |-> e.models]
    BY <1>2, EntryFacts
  <2> HIDE DEF e
  <2>2. WithPrices(p, e, prev, dev) =
          [source |-> e.source,
           models |-> [m \in DOMAIN e.models |-> IF dev # Absent THEN DevPrice(p, m, dev)
                                                 ELSE KeptPrice(p, m, e, prev)]]
    BY <2>1 DEF WithPrices
  <2>3. W(p) = WithPrices(p, e, prev, dev)
    BY DEF e
  <2>4. /\ W(p) = [source |-> W(p).source, models |-> W(p).models]
        /\ W(p).source = e.source /\ DOMAIN W(p).models = DOMAIN e.models
        /\ dev = Absent => \A m \in DOMAIN e.models :
              W(p).models[m] = KeptPrice(p, m, e, prev)
    BY <2>2, <2>3
  <2> QED
    BY <2>4 DEF e
<1> HIDE DEF snap, W
<1>3. snap = [p \in P |-> snap[p]] /\ DOMAIN snap = P /\ \A p \in P : snap[p] = W(p)
  BY <1>1
<1>4. snap # Absent
  BY <1>3 DEF AbsentIsNothing
<1>5. Formed(snap)
  BY <1>2, <1>3 DEF Formed
<1>6. ASSUME NEW p \in Specs
      PROVE  LET e == EntryOf(p, prev, api, dev)
             IN /\ p \in DOMAIN snap <=> e # Absent
                /\ p \in DOMAIN snap =>
                      /\ snap[p].source = e.source
                      /\ DOMAIN snap[p].models = DOMAIN e.models
                      /\ dev = Absent => \A m \in DOMAIN e.models :
                            snap[p].models[m] = KeptPrice(p, m, e, prev)
  BY <1>2, <1>3
<1> QED
  BY <1>3, <1>4, <1>5, <1>6 DEF snap

LEMMA CatalogInvInit == CatalogInit => CatalogInv
<1> SUFFICES ASSUME CatalogInit PROVE CatalogInv
  OBVIOUS
<1>1. Current = base /\ base \in Bases /\ Formed(base)
  BY CatalogAssumption DEF CatalogInit, Current, Formed
<1>2. OneCatalog
  BY <1>1 DEF CatalogInit, OneCatalog
<1>3. DOMAIN lastApi = {} /\ DOMAIN lastDev = {}
  BY DEF CatalogInit, NoAnswers
<1>4. LiveOrBundled
  BY <1>1, <1>3 DEF LiveOrBundled
<1>5. FollowsSources
  BY <1>1, <1>3 DEF FollowsSources
<1> QED
  BY <1>2, <1>4, <1>5 DEF CatalogInv

\* A step that ends no refresh leaves the catalog and the histories as they are.
LEMMA CatalogStays ==
    ASSUME CatalogInv,
           \/ Start \/ RefreshOnce \/ TimerFires \/ Stop \/ Expire
           \/ UNCHANGED catalogVars
    PROVE  CatalogInv' /\ UNCHANGED <<Current, lastApi, lastDev>>
<1> USE DEF CatalogInv
<1>1. UNCHANGED <<base, lastApi, lastDev>>
  BY DEF Start, RefreshOnce, TimerFires, Stop, Expire, catalogVars, Histories
<1>2. Current' = Current /\ OneCatalog'
  <2>1. /\ cached' # Absent => latest' = cached'
        /\ Current' = Current
        /\ inflight' => previous' = Current
    <3>1. CASE Start \/ RefreshOnce \/ TimerFires
      <4>1. cached' = cached /\ BeginRefresh
        BY <3>1 DEF Start, RefreshOnce, TimerFires
      <4>2. CASE inflight
        BY <3>1, <4>1, <4>2 DEF Start, RefreshOnce, TimerFires, BeginRefresh, Current,
                                OneCatalog
      <4>3. CASE ~inflight
        <5>1. /\ base' = base /\ previous' = Current
              /\ latest' = IF cached # Absent THEN cached ELSE latest
          BY <1>1, <4>1, <4>3 DEF BeginRefresh
        <5> QED
          BY <4>1, <5>1 DEF Current
      <4> QED
        BY <4>2, <4>3
    <3>2. CASE Stop
      BY <3>2 DEF Stop, Current, OneCatalog
    <3>3. CASE Expire
      BY <3>3 DEF Expire, Current, OneCatalog
    <3>4. CASE UNCHANGED catalogVars
      BY <3>4 DEF catalogVars, Current, OneCatalog
    <3> QED
      BY <3>1, <3>2, <3>3, <3>4
  <2> QED
    BY <1>1, <2>1 DEF OneCatalog, Formed
<1>3. LiveOrBundled' /\ FollowsSources'
  BY <1>1, <1>2 DEF LiveOrBundled, KeepsLive, FollowsSources
<1> QED
  BY <1>1, <1>2, <1>3

\* A refresh that ends: each entry against what its sources said last.
LEMMA RefreshFollows ==
    ASSUME AbsentIsNothing, PagesFit, CatalogInv,
           NEW api \in [Keyed -> ApiAnswers], NEW dev \in DevAnswers, RefreshEnds(api, dev)
    PROVE  CatalogInv'
<1> DEFINE got == [p \in Keyed |-> Fetched(api[p])]
           snap == Built(Current, got, dev)
           E(p) == EntryOf(p, Current, got, dev)
           live == {p \in Keyed : Said(api[p]) # {}
                       /\ \A i \in DOMAIN api[p] : api[p][i] # Absent}
           listed == IF dev = Absent THEN {} ELSE DOMAIN dev \cap Specs
<1> USE DEF CatalogInv
<1>1. previous = Current /\ Formed(Current) /\ base \in Bases /\ UNCHANGED base
  BY DEF RefreshEnds, OneCatalog
<1>2. /\ ~inflight'
      /\ IF ~Refused(Current, snap) THEN latest' = snap /\ cached' = snap
         ELSE UNCHANGED <<latest, cached>>
      /\ lastApi' = [p \in DOMAIN lastApi \cup live |->
                        IF p \in live THEN Said(api[p]) ELSE lastApi[p]]
      /\ lastDev' = [p \in DOMAIN lastDev \cup listed |->
                        IF p \in listed THEN DOMAIN dev[p] ELSE lastDev[p]]
  BY <1>1 DEF RefreshEnds
<1>3. \A p \in Keyed : /\ p \in live <=> got[p] # {}
                       /\ p \in live => got[p] = Said(api[p])
  BY FetchedAll
<1>4. /\ snap # Absent /\ Formed(snap) /\ DOMAIN snap \subseteq Specs
      /\ \A p \in Specs : /\ p \in DOMAIN snap <=> E(p) # Absent
                          /\ p \in DOMAIN snap => snap[p].source = E(p).source
                                /\ DOMAIN snap[p].models = DOMAIN E(p).models
  BY <1>1, BuiltFacts
<1> DEFINE List(c, p) == IF p \in DOMAIN c THEN DOMAIN c[p].models ELSE {}
           FromApi(c, p) == p \in DOMAIN c /\ c[p].source = "api"
<1>5. ASSUME NEW p \in Specs
      PROVE  /\ p \in live => E(p) # Absent /\ E(p).source = "api"
                                /\ DOMAIN E(p).models = Said(api[p])
             /\ p \notin live /\ p \in Keyed /\ FromApi(Current, p) =>
                   E(p) # Absent /\ E(p) = Current[p]
             /\ p \notin live /\ ~(p \in Keyed /\ FromApi(Current, p)) /\ p \in listed =>
                   E(p) # Absent /\ E(p).source = "models.dev"
                     /\ DOMAIN E(p).models = DOMAIN dev[p]
             /\ p \notin live /\ ~(p \in Keyed /\ FromApi(Current, p)) /\ p \notin listed =>
                   /\ p \in DOMAIN Current => E(p) # Absent /\ E(p) = Current[p]
                   /\ p \notin DOMAIN Current => E(p) = Absent
  <2>1. p \in live <=> p \in Keyed /\ got[p] # {}
    BY <1>3
  <2>2. p \in live => got[p] = Said(api[p])
    BY <1>3
  <2>3. p \in listed <=> dev # Absent /\ p \in DOMAIN dev
    OBVIOUS
  <2> HIDE DEF live, listed, got
  <2> QED
    BY <1>1, <2>1, <2>2, <2>3, EntryFacts DEF KeepsLive
<1>6. CASE Refused(Current, snap)
  <2>1. DOMAIN snap = {} /\ UNCHANGED <<latest, cached>>
    BY <1>2, <1>6 DEF Refused
  <2>2. live \cap Specs = {} /\ listed = {}
    BY <1>4, <1>5, <2>1
  <2>3. live = {}
    BY <2>2, CatalogAssumption
  <2>4. /\ DOMAIN lastApi' = DOMAIN lastApi
        /\ \A p \in DOMAIN lastApi : lastApi'[p] = lastApi[p]
        /\ DOMAIN lastDev' = DOMAIN lastDev
        /\ \A p \in DOMAIN lastDev : lastDev'[p] = lastDev[p]
    BY <1>2, <2>2, <2>3
  <2>5. Current' = Current
    BY <1>1, <2>1 DEF Current
  <2>6. OneCatalog'
    BY <1>1, <1>2, <2>1, <2>5 DEF OneCatalog, Formed
  <2>7. LiveOrBundled'
    BY <1>1, <2>4, <2>5 DEF LiveOrBundled, KeepsLive
  <2>8. FollowsSources'
    BY <1>1, <2>4, <2>5 DEF FollowsSources, KeepsLive
  <2> QED
    BY <2>6, <2>7, <2>8
<1>7. CASE ~Refused(Current, snap)
  <2>1. Current' = snap /\ OneCatalog'
    <3>1. latest' = snap /\ cached' = snap
      BY <1>2, <1>7
    <3> QED
      BY <1>1, <1>2, <1>4, <3>1 DEF OneCatalog, Current, Formed
  <2>2. /\ DOMAIN lastApi' = DOMAIN lastApi \cup live
        /\ \A p \in live : lastApi'[p] = Said(api[p])
        /\ \A p \in DOMAIN lastApi \ live : lastApi'[p] = lastApi[p]
        /\ DOMAIN lastDev' = DOMAIN lastDev \cup listed
        /\ \A p \in listed : lastDev'[p] = DOMAIN dev[p]
        /\ \A p \in DOMAIN lastDev \ listed : lastDev'[p] = lastDev[p]
    BY <1>2
  <2>3. live \subseteq Keyed /\ Keyed \subseteq Specs
    BY CatalogAssumption
  <2>4. \A p \in Keyed : FromApi(Current, p) <=> p \in DOMAIN lastApi \/ FromApi(base, p)
    BY DEF LiveOrBundled, KeepsLive
  <2>5. DOMAIN lastApi \subseteq Keyed
    BY DEF LiveOrBundled
  <2>6. \A p \in Specs : List(Current, p) =
            IF p \in DOMAIN lastApi THEN lastApi[p]
            ELSE IF p \in DOMAIN lastDev /\ ~(p \in Keyed /\ FromApi(base, p)) THEN lastDev[p]
            ELSE List(base, p)
    BY DEF FollowsSources, KeepsLive
  <2> HIDE DEF live, listed, got, E, snap
  <2>7. ASSUME NEW p \in Specs
        PROVE  /\ p \in Keyed => (FromApi(snap, p) <=> p \in DOMAIN lastApi' \/ FromApi(base, p))
               /\ List(snap, p) =
                    IF p \in DOMAIN lastApi' THEN lastApi'[p]
                    ELSE IF p \in DOMAIN lastDev' /\ ~(p \in Keyed /\ FromApi(base, p))
                         THEN lastDev'[p]
                    ELSE List(base, p)
    <3>1. CASE p \in live
      BY <1>4, <1>5, <2>2, <2>3, <3>1
    <3>2. CASE p \notin live /\ p \in Keyed /\ FromApi(Current, p)
      <4>1. List(snap, p) = List(Current, p) /\ FromApi(snap, p)
        BY <1>4, <1>5, <3>2
      <4> QED
        BY <2>2, <2>4, <2>6, <3>2, <4>1
    <3>3. CASE p \notin live /\ ~(p \in Keyed /\ FromApi(Current, p)) /\ p \in listed
      <4>1. List(snap, p) = DOMAIN dev[p] /\ ~FromApi(snap, p)
        BY <1>4, <1>5, <3>3
      <4> QED
        BY <2>2, <2>4, <2>5, <3>3, <4>1
    <3>4. CASE p \notin live /\ ~(p \in Keyed /\ FromApi(Current, p)) /\ p \notin listed
      <4>1. List(snap, p) = List(Current, p) /\ (FromApi(snap, p) <=> FromApi(Current, p))
        BY <1>4, <1>5, <3>4
      <4> QED
        BY <2>2, <2>4, <2>5, <2>6, <3>4, <4>1
    <3> QED
      BY <3>1, <3>2, <3>3, <3>4
  <2>8. LiveOrBundled'
    BY <1>1, <2>1, <2>2, <2>3, <2>5, <2>7 DEF LiveOrBundled, KeepsLive
  <2>9. FollowsSources'
    BY <1>1, <2>1, <2>7 DEF FollowsSources, KeepsLive
  <2> QED
    BY <2>1, <2>8, <2>9
<1> QED
  BY <1>6, <1>7

LEMMA CatalogInvStep ==
    ASSUME AbsentIsNothing, PagesFit, CatalogInv, [CatalogNext]_catalogVars
    PROVE  CatalogInv'
<1>1. CASE CatalogEnds
  BY <1>1, RefreshFollows DEF CatalogEnds
<1>2. CASE ~CatalogEnds
  BY <1>2, CatalogStays DEF CatalogNext
<1> QED
  BY <1>1, <1>2

\* Whatever fails in whatever order, an entry lists what its source said last,
\* for any providers and answers, as long as an endpoint has no more pages than
\* are read: what comes after the page cap is lost.
THEOREM SourcesFollowed ==
    ASSUME AbsentIsNothing, PagesFit
    PROVE  CatalogSpec => []FollowsSources
<1>1. CatalogInv /\ [CatalogNext]_catalogVars => CatalogInv'
  BY CatalogInvStep
<1>2. CatalogInv => FollowsSources
  BY DEF CatalogInv
<1> QED
  BY <1>1, <1>2, CatalogInvInit, PTL DEF CatalogSpec

\* A refresh that could not reach models.dev loses no price of a model that is
\* still listed.
THEOREM RatesAreKept ==
    ASSUME AbsentIsNothing, PagesFit
    PROVE  CatalogSpec => RatesKept
<1> DEFINE Kept ==
      \A p \in DOMAIN Current :
          inflight /\ ~inflight' /\ lastRefresh' = Absent /\ p \in DOMAIN Current' =>
              \A m \in DOMAIN Current[p].models \cap DOMAIN Current'[p].models :
                  Current'[p].models[m] = Current[p].models[m]
<1>1. CatalogInv /\ [CatalogNext]_catalogVars => CatalogInv'
  BY CatalogInvStep
<1>2. CatalogInv /\ [CatalogNext]_catalogVars => [Kept]_catalogVars
  <2> SUFFICES ASSUME CatalogInv, [CatalogNext]_catalogVars PROVE Kept
    OBVIOUS
  <2>1. CASE ~CatalogEnds
    <3>1. inflight => inflight'
      BY <2>1 DEF CatalogNext, Start, RefreshOnce, TimerFires, Stop, Expire,
                  catalogVars, BeginRefresh
    <3> QED
      BY <3>1
  <2>2. ASSUME NEW api \in [Keyed -> ApiAnswers], NEW dev \in DevAnswers,
               RefreshEnds(api, dev), dev = Absent
        PROVE  Kept
    <3> DEFINE got == [p \in Keyed |-> Fetched(api[p])]
               snap == Built(Current, got, dev)
    <3>1. previous = Current /\ Formed(Current)
      BY <2>2 DEF RefreshEnds, CatalogInv, OneCatalog
    <3>2. /\ snap # Absent /\ DOMAIN snap \subseteq Specs
          /\ \A p \in DOMAIN snap :
                LET e == EntryOf(p, Current, got, dev)
                IN /\ DOMAIN snap[p].models = DOMAIN e.models /\ e # Absent
                   /\ \A m \in DOMAIN e.models :
                         snap[p].models[m] = KeptPrice(p, m, e, Current)
      BY <2>2, <3>1, BuiltFacts
    <3>3. IF ~Refused(Current, snap) THEN latest' = snap /\ cached' = snap
          ELSE UNCHANGED <<latest, cached, base>>
      BY <2>2, <3>1 DEF RefreshEnds
    <3>4. Current' = Current \/ Current' = snap
      BY <3>2, <3>3 DEF Current
    <3>5. ASSUME NEW p \in DOMAIN Current \cap DOMAIN snap,
                 NEW m \in DOMAIN Current[p].models \cap DOMAIN snap[p].models
          PROVE  snap[p].models[m] = Current[p].models[m]
      <4> DEFINE e == EntryOf(p, Current, got, dev)
      <4>1. /\ snap[p].models[m] = KeptPrice(p, m, e, Current)
            /\ m \in DOMAIN e.models /\ p \in Specs
        BY <3>2
      <4>2. (e.models[m] = Absent) \/ e = Current[p]
        BY <2>2, <3>1, <3>2, <4>1, EntryFacts
      <4> QED
        BY <4>1, <4>2 DEF KeptPrice, KnownPrice
    <3> HIDE DEF snap
    <3> QED
      BY <3>4, <3>5
  <2>3. ASSUME NEW api \in [Keyed -> ApiAnswers], NEW dev \in DevAnswers,
               RefreshEnds(api, dev), dev # Absent
        PROVE  Kept
    BY <2>3 DEF RefreshEnds
  <2> QED
    BY <2>1, <2>2, <2>3 DEF CatalogEnds
<1> QED
  BY <1>1, <1>2, CatalogInvInit, PTL DEF CatalogSpec, RatesKept

-----------------------------------------------------------------------------
(* Provider connections. *)

LEMMA ProvidersInvInit == ProvidersInit => ProvidersInv
<1> SUFFICES ASSUME ProvidersInit PROVE ProvidersInv
  OBVIOUS
<1> USE ProvidersAssumption DEF ProvidersInit
<1>1. ProvidersTypeOK
  BY EmptySeq DEF ProvidersTypeOK
<1>2. MergedIsNow
  BY DEF MergedIsNow
<1>3. EnvironmentKept /\ AddedModelsKept
  BY DEF EnvironmentKept, AddedModelsKept
<1> QED
  BY <1>1, <1>2, <1>3 DEF ProvidersInv

\* The head of the chain and what it asks for.
LEMMA HeadFacts ==
    ASSUME ProvidersTypeOK, NEW g \in Gateways, writes[g] # <<>>
    PROVE  /\ Head(writes[g]) \in Additions /\ Wish(g).connection \in Connections
           /\ Tail(writes[g]) \in Seq(Additions)
<1>1. writes[g] \in Seq(Additions)
  BY DEF ProvidersTypeOK
<1> QED
  BY <1>1, HeadTailProperties, ProvidersAssumption DEF Wish

\* Another addition at the end of the chain does not change its head.
LEMMA AppendKeepsHead ==
    ASSUME NEW S, NEW q \in Seq(S), NEW e \in S
    PROVE  /\ Append(q, e) \in Seq(S) /\ Append(q, e) # <<>>
           /\ q # <<>> => Head(Append(q, e)) = Head(q)
<1>1. /\ Append(q, e) \in Seq(S) /\ Append(q, e) # <<>> /\ Len(q) \in Nat
      /\ \A i \in 1 .. Len(q) : Append(q, e)[i] = q[i]
  BY AppendProperties, LenProperties
<1>2. q # <<>> => 1 \in 1 .. Len(q)
  BY EmptySeq
<1> QED
  BY <1>1, <1>2

\* What a step of the only gateway does to the types.
LEMMA ProvidersTypeStep ==
    ASSUME ProvidersInv, [ProvidersNext]_providerVars PROVE ProvidersTypeOK'
<1> USE DEF ProvidersInv, ProvidersTypeOK
<1>1. ASSUME NEW g \in Gateways, NEW a \in Additions, Add(g, a) PROVE ProvidersTypeOK'
  BY <1>1, AppendKeepsHead DEF Add
<1>2. ASSUME NEW g \in Gateways, Load(g) \/ Merge(g) PROVE ProvidersTypeOK'
  <2>1. CASE Load(g)
    <3>1. \A h \in Gateways : configs'[h] = [c \in Connections |-> configs'[h][c]]
      BY <2>1 DEF Load, Loaded
    <3>2. configs' = [h \in Gateways |-> configs'[h]]
      BY <2>1 DEF Load
    <3> QED
      BY <2>1, <3>1, <3>2 DEF Load
  <2>2. CASE Merge(g)
    BY <2>2 DEF Merge
  <2> QED
    BY <1>2, <2>1, <2>2
<1>3. ASSUME NEW g \in Gateways, LoadFails(g) \/ Refuse(g) PROVE ProvidersTypeOK'
  <2>1. writes[g] # <<>>
    BY <1>3 DEF LoadFails, Refuse, Merging
  <2>2. Tail(writes[g]) \in Seq(Additions)
    BY <2>1, HeadFacts
  <2>3. PICK o \in {"failed", "refused"} : Answer(g, o)
    BY <1>3 DEF LoadFails, Refuse
  <2>4. UNCHANGED <<document, configs, configsLoaded>>
    BY <1>3 DEF LoadFails, Refuse
  <2>5. writes' \in [Gateways -> Seq(Additions)]
    BY <2>2, <2>3 DEF Answer
  <2>6. merged' = [h \in Gateways |-> merged'[h]]
    BY <2>3 DEF Answer
  <2>7. outcome' = [a \in Additions |-> outcome'[a]]
    BY <2>3 DEF Answer
  <2> QED
    BY <2>4, <2>5, <2>6, <2>7
<1>4. ASSUME NEW g \in Gateways, SaveDone(g) \/ SaveFails(g) PROVE ProvidersTypeOK'
  <2>1. writes[g] # <<>>
    BY <1>4 DEF SaveDone, SaveFails, MergedIsNow
  <2>2. Tail(writes[g]) \in Seq(Additions) /\ Wish(g).connection \in Connections
    BY <2>1, HeadFacts
  <2>3. CASE SaveDone(g)
    <3>1. /\ configs' = [configs EXCEPT ![g] =
                           [configs[g] EXCEPT ![Wish(g).connection] = merged[g]]]
      BY <2>3 DEF SaveDone
    <3>2. /\ document' = [c \in Connections |-> document'[c]]
          /\ configsLoaded' \in [Gateways -> BOOLEAN]
      BY <2>3 DEF SaveDone
    <3>3. /\ configs' = [h \in Gateways |-> configs'[h]]
          /\ \A h \in Gateways : configs'[h] = [c \in Connections |-> configs'[h][c]]
      BY <2>2, <3>1
    <3>4. writes' \in [Gateways -> Seq(Additions)]
      BY <2>2, <2>3 DEF SaveDone, Answer
    <3>5. /\ merged' = [h \in Gateways |-> merged'[h]]
          /\ outcome' = [a \in Additions |-> outcome'[a]]
      BY <2>3 DEF SaveDone, Answer
    <3> QED
      BY <3>2, <3>3, <3>4, <3>5
  <2>4. CASE SaveFails(g)
    <3>1. /\ document' = [c \in Connections |-> document'[c]]
          /\ UNCHANGED <<configs, configsLoaded>>
      BY <2>4 DEF SaveFails
    <3>2. writes' \in [Gateways -> Seq(Additions)]
      BY <2>2, <2>4 DEF SaveFails, Answer
    <3>3. /\ merged' = [h \in Gateways |-> merged'[h]]
          /\ outcome' = [a \in Additions |-> outcome'[a]]
      BY <2>4 DEF SaveFails, Answer
    <3> QED
      BY <3>1, <3>2, <3>3
  <2> QED
    BY <1>4, <2>3, <2>4
<1>5. ASSUME NEW g \in Gateways, RestartGateway(g) PROVE ProvidersTypeOK'
  <2>1. document' = [c \in Connections |-> document'[c]]
    BY <1>5 DEF RestartGateway
  <2>2. /\ configs' = [h \in Gateways |-> configs'[h]]
        /\ configsLoaded' \in [Gateways -> BOOLEAN]
        /\ merged' = [h \in Gateways |-> merged'[h]]
        /\ outcome' = [a \in Additions |-> outcome'[a]]
    BY <1>5 DEF RestartGateway
  <2>3. \A h \in Gateways : configs'[h] = [c \in Connections |-> configs'[h][c]]
    BY <1>5, ProvidersAssumption DEF RestartGateway
  <2>4. writes' \in [Gateways -> Seq(Additions)]
    BY <1>5, EmptySeq DEF RestartGateway
  <2> QED
    BY <2>1, <2>2, <2>3, <2>4
<1>6. CASE UNCHANGED providerVars
  BY <1>6 DEF providerVars
<1> QED
  BY <1>1, <1>2, <1>3, <1>4, <1>5, <1>6 DEF ProvidersNext

\* A save puts all that memory had, and the new model, into the document.
LEMMA SavedFacts ==
    ASSUME ProvidersInv, NEW g \in Gateways, merged[g] # {}
    PROVE  /\ configsLoaded[g] /\ writes[g] # <<>>
           /\ Head(writes[g]) \in Additions /\ Wish(g).connection \in Connections
           /\ Wish(g).model \in merged[g] /\ Known(g) \subseteq merged[g]
           /\ EnvModels[Wish(g).connection] \subseteq merged[g]
BY HeadFacts DEF ProvidersInv, MergedIsNow, EnvironmentKept, Known

\* A save that arrives although it failed takes nothing from the document.
LEMMA LateSave ==
    ASSUME ProvidersInv, NEW g \in Gateways,
           \/ UNCHANGED document
           \/ /\ merged[g] # {}
              /\ document' = [document EXCEPT ![Wish(g).connection] = Saved(g)]
    PROVE  /\ \A c \in Connections :
                 /\ document'[c] # {} => EnvModels[c] \subseteq document'[c]
                 /\ configs[g][c] \subseteq IF document'[c] # {} THEN document'[c]
                                            ELSE EnvModels[c]
           /\ \A b \in Additions : outcome[b] = "ok" =>
                 {Wanted(b).model} \cup EnvModels[Wanted(b).connection]
                   \subseteq document'[Wanted(b).connection]
<1>1. CASE UNCHANGED document
  BY <1>1 DEF ProvidersInv, EnvironmentKept, AddedModelsKept
<1>2. CASE /\ merged[g] # {}
           /\ document' = [document EXCEPT ![Wish(g).connection] = Saved(g)]
  <2> DEFINE c == Wish(g).connection
  <2>1. /\ c \in Connections /\ configs[g][c] \subseteq merged[g]
        /\ EnvModels[c] \subseteq merged[g] /\ configsLoaded[g]
    BY <1>2, SavedFacts DEF Known
  <2>2. document' = [document EXCEPT ![c] = merged[g]]
    BY <1>2 DEF Saved
  <2> HIDE DEF c
  <2>3. /\ document'[c] = merged[g]
        /\ \A d \in Connections \ {c} : document'[d] = document[d]
    BY <2>1, <2>2 DEF ProvidersInv, ProvidersTypeOK
  <2>4. ASSUME NEW d \in Connections
        PROVE  /\ document'[d] # {} => EnvModels[d] \subseteq document'[d]
               /\ configs[g][d] \subseteq IF document'[d] # {} THEN document'[d]
                                          ELSE EnvModels[d]
    BY <1>2, <2>1, <2>3 DEF ProvidersInv, EnvironmentKept, AddedModelsKept
  <2>5. ASSUME NEW b \in Additions, outcome[b] = "ok"
        PROVE  {Wanted(b).model} \cup EnvModels[Wanted(b).connection]
                 \subseteq document'[Wanted(b).connection]
    <3>1. /\ {Wanted(b).model} \cup EnvModels[Wanted(b).connection]
                 \subseteq document[Wanted(b).connection]
          /\ {Wanted(b).model} \cup EnvModels[Wanted(b).connection]
                 \subseteq configs[g][Wanted(b).connection]
      BY <2>1, <2>5 DEF ProvidersInv, AddedModelsKept
    <3> QED
      BY <2>1, <2>3, <3>1, ProvidersAssumption
  <2> QED
    BY <2>4, <2>5
<1> QED
  BY <1>1, <1>2

LEMMA ProvidersInvStep ==
    ASSUME \A g, h \in Gateways : g = h, ProvidersInv, [ProvidersNext]_providerVars
    PROVE  ProvidersInv'
<1>0. ProvidersTypeOK'
  BY ProvidersTypeStep
<1> USE DEF ProvidersInv
<1>1. ASSUME NEW g \in Gateways, NEW a \in Additions, Add(g, a) PROVE ProvidersInv'
  <2>1. /\ writes'[g] = Append(writes[g], a) /\ writes[g] \in Seq(Additions)
        /\ \A b \in Additions : outcome'[b] = "ok" => outcome[b] = "ok"
        /\ UNCHANGED <<document, configs, configsLoaded, merged>>
    BY <1>1 DEF Add, ProvidersTypeOK
  <2>2. merged[g] # {} => writes'[g] # <<>> /\ Head(writes'[g]) = Head(writes[g])
    BY <2>1, AppendKeepsHead DEF MergedIsNow
  <2>3. MergedIsNow'
    BY <2>1, <2>2 DEF MergedIsNow, Known, Wish
  <2>4. EnvironmentKept' /\ AddedModelsKept'
    BY <2>1 DEF EnvironmentKept, AddedModelsKept
  <2> QED
    BY <1>0, <2>3, <2>4
<1>2. ASSUME NEW g \in Gateways, Load(g) PROVE ProvidersInv'
  <2>1. /\ merged[g] = {} /\ UNCHANGED <<document, merged, outcome>>
        /\ \A c \in Connections : configs'[g][c] = IF document[c] # {} THEN document[c]
                                                   ELSE configs[g][c]
    BY <1>2 DEF Load, Loaded, MergedIsNow, ProvidersTypeOK
  <2>2. MergedIsNow'
    BY <2>1 DEF MergedIsNow
  <2>3. EnvironmentKept'
    BY <2>1 DEF EnvironmentKept
  <2>4. ASSUME NEW b \in Additions, outcome[b] = "ok"
        PROVE  {Wanted(b).model} \cup EnvModels[Wanted(b).connection]
                 \subseteq configs'[g][Wanted(b).connection]
    <3>1. {Wanted(b).model} \cup EnvModels[Wanted(b).connection]
            \subseteq document[Wanted(b).connection]
      BY <2>4 DEF AddedModelsKept
    <3> QED
      BY <2>1, <3>1, ProvidersAssumption
  <2>5. ASSUME NEW d \in Connections
        PROVE  configs'[g][d] \subseteq IF document[d] # {} THEN document[d] ELSE EnvModels[d]
    BY <2>1 DEF AddedModelsKept
  <2>6. AddedModelsKept'
    BY <2>1, <2>4, <2>5 DEF AddedModelsKept
  <2> QED
    BY <1>0, <2>2, <2>3, <2>6
<1>3. ASSUME NEW g \in Gateways, LoadFails(g) \/ Refuse(g) PROVE ProvidersInv'
  <2>1. /\ merged'[g] = {} /\ UNCHANGED <<document, configs, configsLoaded>>
        /\ \A b \in Additions : outcome'[b] = "ok" => outcome[b] = "ok"
    BY <1>3 DEF LoadFails, Refuse, Answer, ProvidersTypeOK
  <2>2. MergedIsNow'
    BY <2>1 DEF MergedIsNow
  <2>3. EnvironmentKept' /\ AddedModelsKept'
    BY <2>1 DEF EnvironmentKept, AddedModelsKept
  <2> QED
    BY <1>0, <2>2, <2>3
<1>4. ASSUME NEW g \in Gateways, Merge(g) PROVE ProvidersInv'
  <2>1. /\ merged'[g] = Known(g) \cup {Wish(g).model}
        /\ UNCHANGED <<document, configs, configsLoaded, writes, outcome>>
        /\ configsLoaded[g] /\ writes[g] # <<>>
    BY <1>4 DEF Merge, Merging, ProvidersTypeOK
  <2>2. MergedIsNow'
    BY <2>1 DEF MergedIsNow, Known, Wish
  <2>3. EnvironmentKept' /\ AddedModelsKept'
    BY <2>1 DEF EnvironmentKept, AddedModelsKept
  <2> QED
    BY <1>0, <2>2, <2>3
<1>5. ASSUME NEW g \in Gateways, SaveDone(g) PROVE ProvidersInv'
  <2> DEFINE c == Wish(g).connection
  <2>1. /\ c \in Connections /\ Wish(g).model \in merged[g] /\ Known(g) \subseteq merged[g]
        /\ EnvModels[c] \subseteq merged[g] /\ configsLoaded[g] /\ merged[g] # {}
    BY <1>5, SavedFacts DEF SaveDone
  <2>2. /\ document' = [document EXCEPT ![c] = merged[g]]
        /\ configs'[g] = [configs[g] EXCEPT ![c] = merged[g]]
        /\ merged'[g] = {} /\ UNCHANGED configsLoaded
        /\ \A b \in Additions : outcome'[b] = "ok" =>
              outcome[b] = "ok" \/ Wanted(b) = Wish(g)
    BY <1>5 DEF SaveDone, Saved, Answer, Wish, ProvidersTypeOK
  <2>3. Known(g) = configs[g][c]
    BY DEF Known
  <2> HIDE DEF c
  <2>4. /\ document'[c] = merged[g] /\ configs'[g][c] = merged[g]
        /\ \A d \in Connections \ {c} :
              document'[d] = document[d] /\ configs'[g][d] = configs[g][d]
    BY <2>1, <2>2 DEF ProvidersTypeOK
  <2>5. MergedIsNow'
    BY <2>2 DEF MergedIsNow
  <2>6. EnvironmentKept'
    BY <2>1, <2>4 DEF EnvironmentKept
  <2>7. ASSUME NEW b \in Additions, outcome'[b] = "ok"
        PROVE  /\ {Wanted(b).model} \cup EnvModels[Wanted(b).connection]
                     \subseteq document'[Wanted(b).connection]
               /\ {Wanted(b).model} \cup EnvModels[Wanted(b).connection]
                     \subseteq configs'[g][Wanted(b).connection]
    <3>1. CASE Wanted(b) = Wish(g)
      BY <2>1, <2>4, <3>1 DEF c
    <3>2. CASE outcome[b] = "ok"
      <4>1. /\ {Wanted(b).model} \cup EnvModels[Wanted(b).connection]
                  \subseteq document[Wanted(b).connection]
            /\ {Wanted(b).model} \cup EnvModels[Wanted(b).connection]
                  \subseteq configs[g][Wanted(b).connection]
        BY <2>1, <3>2 DEF AddedModelsKept
      <4> QED
        BY <2>1, <2>3, <2>4, <4>1, ProvidersAssumption
    <3> QED
      BY <2>2, <2>7, <3>1, <3>2
  <2>8. ASSUME NEW d \in Connections
        PROVE  configs'[g][d] \subseteq IF document'[d] # {} THEN document'[d] ELSE EnvModels[d]
    BY <2>1, <2>4 DEF AddedModelsKept
  <2>9. AddedModelsKept'
    BY <2>7, <2>8 DEF AddedModelsKept
  <2> QED
    BY <1>0, <2>5, <2>6, <2>9
<1>6. ASSUME NEW g \in Gateways, SaveFails(g) PROVE ProvidersInv'
  <2>1. /\ merged'[g] = {} /\ UNCHANGED <<configs, configsLoaded>>
        /\ \A b \in Additions : outcome'[b] = "ok" => outcome[b] = "ok"
        /\ \/ UNCHANGED document
           \/ /\ merged[g] # {}
              /\ document' = [document EXCEPT ![Wish(g).connection] = Saved(g)]
    BY <1>6 DEF SaveFails, Answer, ProvidersTypeOK
  <2>2. MergedIsNow'
    BY <2>1 DEF MergedIsNow
  <2>3. EnvironmentKept'
    BY <2>1, LateSave DEF EnvironmentKept
  <2>4. AddedModelsKept'
    <3>1. \A b \in Additions : outcome'[b] = "ok" =>
             /\ {Wanted(b).model} \cup EnvModels[Wanted(b).connection]
                   \subseteq document'[Wanted(b).connection]
             /\ configsLoaded[g] =>
                   {Wanted(b).model} \cup EnvModels[Wanted(b).connection]
                     \subseteq configs[g][Wanted(b).connection]
      BY <2>1, LateSave DEF AddedModelsKept
    <3>2. \A d \in Connections : configs[g][d] \subseteq
             IF document'[d] # {} THEN document'[d] ELSE EnvModels[d]
      BY <2>1, LateSave
    <3> QED
      BY <2>1, <3>1, <3>2 DEF AddedModelsKept
  <2> QED
    BY <1>0, <2>2, <2>3, <2>4
<1>7. ASSUME NEW g \in Gateways, RestartGateway(g) PROVE ProvidersInv'
  <2>1. /\ merged'[g] = {} /\ configs'[g] = EnvModels /\ configsLoaded'[g] = FALSE
        /\ \A b \in Additions : outcome'[b] = "ok" => outcome[b] = "ok"
        /\ \/ UNCHANGED document
           \/ /\ merged[g] # {}
              /\ document' = [document EXCEPT ![Wish(g).connection] = Saved(g)]
    BY <1>7 DEF RestartGateway, ProvidersTypeOK
  <2>2. MergedIsNow'
    BY <2>1 DEF MergedIsNow
  <2>3. EnvironmentKept'
    BY <2>1, LateSave DEF EnvironmentKept
  <2>4. ASSUME NEW h \in Gateways PROVE h = g
    OBVIOUS
  <2>5. ASSUME NEW b \in Additions, outcome'[b] = "ok"
        PROVE  {Wanted(b).model} \cup EnvModels[Wanted(b).connection]
                 \subseteq document'[Wanted(b).connection]
    BY <2>1, <2>5, LateSave
  <2>6. ASSUME NEW c \in Connections
        PROVE  configs'[g][c] \subseteq IF document'[c] # {} THEN document'[c]
                                        ELSE EnvModels[c]
    BY <2>1, <2>3, <2>6 DEF EnvironmentKept
  <2>7. AddedModelsKept'
    BY <2>1, <2>4, <2>5, <2>6 DEF AddedModelsKept
  <2> QED
    BY <1>0, <2>2, <2>3, <2>7
<1>8. CASE UNCHANGED providerVars
  BY <1>0, <1>8 DEF providerVars, MergedIsNow, Known, Wish, EnvironmentKept, AddedModelsKept
<1> QED
  BY <1>1, <1>2, <1>3, <1>4, <1>5, <1>6, <1>7, <1>8 DEF ProvidersNext

\* An acknowledged addition is in the document and is served, after failed
\* saves and restarts too, as long as one gateway serves: another one would
\* merge into a memory that is never refreshed.
THEOREM AdditionsKept ==
    ASSUME \A g, h \in Gateways : g = h
    PROVE  ProvidersSpec => []AddedModelsKept
<1>1. ProvidersInv /\ [ProvidersNext]_providerVars => ProvidersInv'
  BY ProvidersInvStep
<1>2. ProvidersInv => AddedModelsKept
  BY DEF ProvidersInv
<1> QED
  BY <1>1, <1>2, ProvidersInvInit, PTL DEF ProvidersSpec

-----------------------------------------------------------------------------
(* Worker requests. *)

\* Where the flushes of a chain stand once another one is queued.
LEMMA QueueLonger ==
    ASSUME NEW r \in WorkerRequests, chain \in Seq(WorkerRequests),
           chain' = Append(chain, r)
    PROVE  /\ chain' \in Seq(WorkerRequests) /\ chain' # <<>>
           /\ Len(chain) \in Nat /\ Len(chain') = Len(chain) + 1
           /\ \A i \in 1 .. Len(chain) : chain'[i] = chain[i]
           /\ chain'[Len(chain) + 1] = r
           /\ chain # <<>> => Head(chain') = Head(chain)
           /\ \A q : Queued(q)' <=> Queued(q) \/ q = r
<1>1. /\ chain' \in Seq(WorkerRequests) /\ Len(chain) \in Nat
      /\ Len(chain') = Len(chain) + 1
      /\ \A i \in 1 .. Len(chain) : chain'[i] = chain[i]
      /\ chain'[Len(chain) + 1] = r
  BY AppendProperties, LenProperties
<1>2. chain' # <<>> /\ (chain # <<>> => Head(chain') = Head(chain))
  BY AppendKeepsHead
<1>3. ASSUME NEW q PROVE Queued(q)' <=> Queued(q) \/ q = r
  <2>1. ASSUME Queued(q)' PROVE Queued(q) \/ q = r
    <3>1. PICK i \in 1 .. Len(chain) + 1 : chain'[i] = q
      BY <1>1, <2>1 DEF Queued
    <3>2. i \in 1 .. Len(chain) \/ i = Len(chain) + 1
      BY <1>1
    <3> QED
      BY <1>1, <3>1, <3>2 DEF Queued
  <2>2. ASSUME Queued(q) PROVE Queued(q)'
    <3>1. PICK i \in 1 .. Len(chain) : chain[i] = q
      BY <2>2 DEF Queued
    <3>2. i \in 1 .. Len(chain') /\ chain'[i] = q
      BY <1>1, <3>1
    <3> QED
      BY <3>2 DEF Queued
  <2>3. ASSUME q = r PROVE Queued(q)'
    <3>1. Len(chain) + 1 \in 1 .. Len(chain')
      BY <1>1
    <3> QED
      BY <1>1, <2>3, <3>1 DEF Queued
  <2> QED
    BY <2>1, <2>2, <2>3
<1> QED
  BY <1>1, <1>2, <1>3

\* Where they stand once the first one is over.
LEMMA QueueShorter ==
    ASSUME chain \in Seq(WorkerRequests), chain # <<>>, chain' = Tail(chain)
    PROVE  /\ chain' \in Seq(WorkerRequests) /\ Head(chain) \in WorkerRequests
           /\ Len(chain) \in Nat /\ Len(chain') = Len(chain) - 1
           /\ \A i \in 1 .. Len(chain') : chain'[i] = chain[i + 1]
           /\ Queued(Head(chain))
           /\ \A q : Queued(q)' => Queued(q)
           /\ \A q : Queued(q) => Queued(q)' \/ q = Head(chain)
<1>1. /\ chain' \in Seq(WorkerRequests) /\ Head(chain) \in WorkerRequests
      /\ Len(chain) \in Nat /\ Len(chain') = Len(chain) - 1
      /\ \A i \in 1 .. Len(chain') : chain'[i] = chain[i + 1]
      /\ Head(chain) = chain[1]
  BY HeadTailProperties, LenProperties
<1>2. Len(chain) # 0
  BY EmptySeq
<1>3. Queued(Head(chain))
  BY <1>1, <1>2 DEF Queued
<1>4. ASSUME NEW q, Queued(q)' PROVE Queued(q)
  <2>1. PICK i \in 1 .. Len(chain') : chain'[i] = q
    BY <1>4 DEF Queued
  <2>2. i + 1 \in 1 .. Len(chain) /\ chain[i + 1] = q
    BY <1>1, <2>1
  <2> QED
    BY <2>2 DEF Queued
<1>5. ASSUME NEW q, Queued(q) PROVE Queued(q)' \/ q = Head(chain)
  <2>1. PICK i \in 1 .. Len(chain) : chain[i] = q
    BY <1>5 DEF Queued
  <2>2. CASE i = 1
    BY <1>1, <2>1, <2>2
  <2>3. CASE i # 1
    <3>1. i - 1 \in 1 .. Len(chain') /\ chain'[i - 1] = chain[(i - 1) + 1]
      BY <1>1, <2>1, <2>3
    <3>2. (i - 1) + 1 = i
      BY <2>1
    <3> QED
      BY <2>1, <3>1, <3>2 DEF Queued
  <2> QED
    BY <2>2, <2>3
<1> QED
  BY <1>1, <1>3, <1>4, <1>5

LEMMA QueueSame ==
    ASSUME UNCHANGED chain
    PROVE  \A q : Queued(q)' <=> Queued(q)
BY DEF Queued

LEMMA WorkerInvInit == WorkerInit => WorkerInv
<1> SUFFICES ASSUME WorkerInit PROVE WorkerInv
  OBVIOUS
<1>1. /\ Len(chain) = 0 /\ chain \in Seq(WorkerRequests)
      /\ \A q : ~Queued(q)
  BY EmptySeq DEF WorkerInit, Queued
<1>2. WorkerTypeOK
  BY <1>1 DEF WorkerInit, WorkerTypeOK
<1>3. LoadHeld /\ AliveAtWork /\ QueuedWhy
  BY <1>1 DEF WorkerInit, LoadHeld, AliveAtWork, QueuedWhy
<1>4. WaitsForOwn /\ NothingDropped
  BY <1>1 DEF WorkerInit, WaitsForOwn, NothingDropped
<1> QED
  BY <1>2, <1>3, <1>4 DEF WorkerInv

\* A step of the requests that leaves the telemetry queue alone.
LEMMA QuietStep ==
    ASSUME WorkerInv, NEW r \in WorkerRequests,
           \/ Begin(r) \/ Stream(r) \/ HandlerEnds(r) \/ DrainEnds(r) \/ CloseClients(r)
           \/ \E ok \in BOOLEAN : LoadEnds(ok)
    PROVE  WorkerInv'
<1> USE DEF WorkerInv, WorkerTypeOK
<1>1. /\ UNCHANGED <<hungUp, recorded, pending, batch, stored, chain, waits, failures>>
      /\ \A q : Queued(q)' <=> Queued(q)
  BY QueueSame DEF Begin, Stream, HandlerEnds, DrainEnds, CloseClients, LoadEnds, telemetryVars
<1>2. NothingDropped'
  BY <1>1 DEF NothingDropped
<1>3. CASE Begin(r)
  <2>1. LoadHeld' /\ AliveAtWork'
    BY <1>3, WorkerAssumption DEF Begin, LoadHeld, AliveAtWork
  <2>2. QueuedWhy' /\ WaitsForOwn'
    BY <1>1, <1>3 DEF Begin, QueuedWhy, WaitsForOwn
  <2>3. WorkerTypeOK'
    BY <1>1, <1>3 DEF Begin
  <2> QED
    BY <1>2, <2>1, <2>2, <2>3
<1>4. CASE Stream(r)
  <2>1. LoadHeld' /\ AliveAtWork'
    BY <1>4 DEF Stream, LoadHeld, AliveAtWork
  <2>2. QueuedWhy' /\ WaitsForOwn'
    BY <1>1, <1>4 DEF Stream, QueuedWhy, WaitsForOwn
  <2>3. WorkerTypeOK'
    BY <1>1, <1>4 DEF Stream
  <2> QED
    BY <1>2, <2>1, <2>2, <2>3
<1>5. CASE HandlerEnds(r)
  <2>1. LoadHeld' /\ AliveAtWork'
    BY <1>5 DEF HandlerEnds, LoadHeld, AliveAtWork
  <2>2. QueuedWhy' /\ WaitsForOwn'
    BY <1>1, <1>5 DEF HandlerEnds, QueuedWhy, WaitsForOwn
  <2>3. WorkerTypeOK'
    BY <1>1, <1>5 DEF HandlerEnds
  <2> QED
    BY <1>2, <2>1, <2>2, <2>3
<1>6. CASE DrainEnds(r)
  <2>1. LoadHeld' /\ AliveAtWork'
    BY <1>6 DEF DrainEnds, LoadHeld, AliveAtWork
  <2>2. r \notin hungUp => ~Queued(r)
    BY <1>6 DEF DrainEnds, Drained, WaitsForOwn, Queued
  <2>3. QueuedWhy' /\ WaitsForOwn'
    BY <1>1, <1>6, <2>2 DEF DrainEnds, QueuedWhy, WaitsForOwn
  <2>4. WorkerTypeOK'
    BY <1>1, <1>6 DEF DrainEnds
  <2> QED
    BY <1>2, <2>1, <2>3, <2>4
<1>7. CASE CloseClients(r)
  <2>1. LoadHeld' /\ AliveAtWork'
    BY <1>7 DEF CloseClients, LoadHeld, AliveAtWork
  <2>2. QueuedWhy' /\ WaitsForOwn'
    BY <1>1, <1>7 DEF CloseClients, QueuedWhy, WaitsForOwn
  <2>3. WorkerTypeOK'
    BY <1>1, <1>7 DEF CloseClients
  <2> QED
    BY <1>2, <2>1, <2>2, <2>3
<1>8. ASSUME NEW ok \in BOOLEAN, LoadEnds(ok) PROVE WorkerInv'
  <2>1. LoadHeld' /\ AliveAtWork'
    BY <1>8 DEF LoadEnds, LoadHeld, AliveAtWork
  <2>2. QueuedWhy' /\ WaitsForOwn'
    BY <1>1, <1>8 DEF LoadEnds, QueuedWhy, WaitsForOwn
  <2>3. WorkerTypeOK'
    BY <1>1, <1>8 DEF LoadEnds
  <2> QED
    BY <1>2, <2>1, <2>2, <2>3
<1> QED
  BY <1>3, <1>4, <1>5, <1>6, <1>7, <1>8

\* A call is recorded, and its flush queued.
LEMMA RecordStep ==
    ASSUME WorkerInv, NEW r \in WorkerRequests, Record(r) PROVE WorkerInv'
<1> USE DEF WorkerInv, WorkerTypeOK
<1>1. /\ recorded' = recorded \cup {r} /\ pending' = pending \cup {r} /\ r \in alive
      /\ r \notin recorded /\ pc[r] # "new"
      /\ UNCHANGED <<pc, loading, open, alive, hungUp, batch, stored, waits, failures>>
  BY DEF Record, AliveAtWork
<1>2. /\ chain' \in Seq(WorkerRequests) /\ chain' # <<>>
      /\ Len(chain) \in Nat /\ Len(chain') = Len(chain) + 1
      /\ \A i \in 1 .. Len(chain) : chain'[i] = chain[i]
      /\ chain'[Len(chain) + 1] = r
      /\ chain # <<>> => Head(chain') = Head(chain) /\ Queued(Head(chain))
      /\ \A q : Queued(q)' <=> Queued(q) \/ q = r
  <2>1. chain # <<>> => Queued(Head(chain))
    BY EmptySeq, HeadTailProperties, LenProperties DEF Queued
  <2> QED
    BY <2>1, QueueLonger DEF Record
<1>3. r \notin hungUp => pc[r] \in {"load", "handle", "stream"} /\ ~Queued(r)
  BY <1>1 DEF AliveAtWork, QueuedWhy
<1>4. WorkerTypeOK' /\ LoadHeld' /\ AliveAtWork'
  BY <1>1, <1>2 DEF LoadHeld, AliveAtWork
<1>5. QueuedWhy'
  BY <1>1, <1>2 DEF QueuedWhy
<1>6. WaitsForOwn'
  <2> SUFFICES ASSUME NEW q \in WorkerRequests \ hungUp
               PROVE  /\ pc[q] \in {"drain", "flush"} =>
                            \A i \in 1 .. Len(chain') : chain'[i] = q => i <= waits[q]
                      /\ pc[q] \in {"close", "done"} => ~Queued(q)'
                      /\ pc[q] = "done" => q \notin open
    BY <1>1 DEF WaitsForOwn
  <2>1. CASE q = r
    BY <1>3, <2>1
  <2>2. CASE q # r
    <3>1. \A i \in 1 .. Len(chain') : i \in 1 .. Len(chain) \/ i = Len(chain) + 1
      BY <1>2
    <3> QED
      BY <1>2, <2>2, <3>1 DEF WaitsForOwn
  <2> QED
    BY <2>1, <2>2
<1>7. NothingDropped'
  BY <1>1, <1>2, <1>3 DEF NothingDropped
<1> QED
  BY <1>4, <1>5, <1>6, <1>7

\* The response is over: the request waits for all that is queued by now.
LEMMA EndBeginsStep ==
    ASSUME WorkerInv, NEW r \in WorkerRequests, Finish(r) \/ Cancel(r) PROVE WorkerInv'
<1> USE DEF WorkerInv, WorkerTypeOK
<1>1. /\ pc[r] \in {"handle", "stream"} /\ pc' = [pc EXCEPT ![r] = "drain"]
      /\ waits' = [waits EXCEPT ![r] = Len(chain)]
      /\ alive' \subseteq alive /\ hungUp \subseteq hungUp'
      /\ r \notin alive' \ hungUp'
      /\ UNCHANGED <<loading, open, recorded, pending, batch, stored, chain, failures>>
  BY DEF Finish, Cancel, BeginEnd
<1>2. Len(chain) \in Nat /\ \A q : Queued(q)' <=> Queued(q)
  BY <1>1, QueueSame, LenProperties
<1>3. WorkerTypeOK' /\ LoadHeld'
  BY <1>1, <1>2 DEF LoadHeld
<1>4. AliveAtWork'
  BY <1>1 DEF AliveAtWork
<1>5. QueuedWhy'
  BY <1>1, <1>2 DEF QueuedWhy
<1>6. WaitsForOwn'
  BY <1>1, <1>2 DEF WaitsForOwn
<1>7. NothingDropped'
  BY <1>1, <1>2 DEF NothingDropped
<1> QED
  BY <1>3, <1>4, <1>5, <1>6, <1>7

\* The drain closes, or queues one more flush of its own.
LEMMA DrainAgainStep ==
    ASSUME WorkerInv, NEW r \in WorkerRequests, DrainAgain(r) PROVE WorkerInv'
<1> USE DEF WorkerInv, WorkerTypeOK
<1>1. /\ pc[r] = "drain" /\ waits[r] = 0
      /\ UNCHANGED <<loading, open, alive, hungUp, recorded, pending, batch, stored, failures>>
  BY DEF DrainAgain, Drained
<1>2. r \notin hungUp => ~Queued(r)
  BY <1>1 DEF WaitsForOwn, Queued
<1>3. CASE pending # {}
  <2>1. /\ pc' = [pc EXCEPT ![r] = "flush"] /\ waits' = [waits EXCEPT ![r] = Len(chain) + 1]
    BY <1>3 DEF DrainAgain
  <2>2. /\ chain' \in Seq(WorkerRequests) /\ chain' # <<>>
        /\ Len(chain) \in Nat /\ Len(chain') = Len(chain) + 1
        /\ \A i \in 1 .. Len(chain) : chain'[i] = chain[i]
        /\ chain'[Len(chain) + 1] = r
        /\ chain # <<>> => Head(chain') = Head(chain)
        /\ \A q : Queued(q)' <=> Queued(q) \/ q = r
    BY <1>3, QueueLonger DEF DrainAgain
  <2>3. WorkerTypeOK' /\ LoadHeld' /\ AliveAtWork'
    BY <1>1, <2>1, <2>2 DEF LoadHeld, AliveAtWork
  <2>4. QueuedWhy'
    BY <1>1, <2>1, <2>2 DEF QueuedWhy
  <2>5. ASSUME NEW q \in WorkerRequests \ hungUp
        PROVE  /\ pc'[q] \in {"drain", "flush"} =>
                     \A i \in 1 .. Len(chain') : chain'[i] = q => i <= waits'[q]
               /\ pc'[q] \in {"close", "done"} => ~Queued(q)'
               /\ pc'[q] = "done" => q \notin open
    <3>1. \A i \in 1 .. Len(chain') : i \in 1 .. Len(chain) \/ i = Len(chain) + 1
      BY <2>2
    <3>2. CASE q = r
      BY <2>1, <2>2, <3>2
    <3>3. CASE q # r
      BY <2>1, <2>2, <3>1, <3>3 DEF WaitsForOwn
    <3> QED
      BY <3>2, <3>3
  <2>6. WaitsForOwn'
    BY <1>1, <2>5 DEF WaitsForOwn
  <2>7. NothingDropped'
    BY <1>1, <2>2 DEF NothingDropped
  <2> QED
    BY <2>3, <2>4, <2>6, <2>7
<1>4. CASE pending = {}
  <2>1. pc' = [pc EXCEPT ![r] = "close"] /\ UNCHANGED <<chain, waits>>
    BY <1>4 DEF DrainAgain
  <2>2. \A q : Queued(q)' <=> Queued(q)
    BY <2>1, QueueSame
  <2>3. WorkerTypeOK' /\ LoadHeld' /\ AliveAtWork' /\ QueuedWhy'
    BY <1>1, <2>1, <2>2 DEF LoadHeld, AliveAtWork, QueuedWhy
  <2>4. WaitsForOwn'
    BY <1>1, <1>2, <2>1, <2>2 DEF WaitsForOwn
  <2>5. NothingDropped'
    BY <1>1, <2>1, <2>2 DEF NothingDropped
  <2> QED
    BY <2>3, <2>4, <2>5
<1> QED
  BY <1>3, <1>4

\* The flush ahead takes the batch, in the scope of the request that queued it.
LEMMA FlushTakesStep ==
    ASSUME WorkerInv, FlushTakes PROVE WorkerInv'
<1> USE DEF WorkerInv, WorkerTypeOK
<1>1. /\ batch = {} /\ batch' = pending /\ pending' = {} /\ chain # <<>>
      /\ open' = open \cup {Head(chain)}
      /\ UNCHANGED <<pc, loading, alive, hungUp, recorded, stored, chain, waits, failures>>
  BY DEF FlushTakes
<1>2. Queued(Head(chain)) /\ \A q : Queued(q)' <=> Queued(q)
  <2>1. Queued(Head(chain))
    BY <1>1, EmptySeq, HeadTailProperties, LenProperties DEF Queued
  <2> QED
    BY <1>1, <2>1, QueueSame
<1>3. WorkerTypeOK' /\ LoadHeld' /\ AliveAtWork' /\ QueuedWhy'
  BY <1>1, <1>2 DEF LoadHeld, AliveAtWork, QueuedWhy
<1>4. WaitsForOwn'
  BY <1>1, <1>2 DEF WaitsForOwn
<1>5. NothingDropped'
  BY <1>1, <1>2 DEF NothingDropped
<1> QED
  BY <1>3, <1>4, <1>5

\* The flush ahead is over, with nothing to do, stored or failed.
LEMMA FlushOverStep ==
    ASSUME WorkerInv, FlushEmpty \/ FlushInserts \/ FlushFails PROVE WorkerInv'
<1> USE DEF WorkerInv, WorkerTypeOK
<1>1. /\ chain # <<>> /\ chain' = Tail(chain) /\ waits' = OneLess
      /\ UNCHANGED <<pc, loading, open, alive, hungUp, recorded>>
      /\ failures' \in Nat
  BY DEF FlushEmpty, FlushInserts, FlushFails, Told, NothingDropped
<1>2. /\ chain' \in Seq(WorkerRequests) /\ Head(chain) \in WorkerRequests
      /\ Len(chain) \in Nat /\ Len(chain') = Len(chain) - 1
      /\ \A i \in 1 .. Len(chain') : chain'[i] = chain[i + 1]
      /\ Queued(Head(chain))
      /\ \A q : Queued(q)' => Queued(q)
      /\ \A q : Queued(q) => Queued(q)' \/ q = Head(chain)
  BY <1>1, QueueShorter
<1>3. /\ waits' \in [WorkerRequests -> Nat]
      /\ \A q \in WorkerRequests : waits[q] > 0 => waits'[q] = waits[q] - 1
  BY <1>1 DEF OneLess
<1>4. WorkerTypeOK' /\ LoadHeld' /\ AliveAtWork'
  BY <1>1, <1>2, <1>3 DEF LoadHeld, AliveAtWork
<1>5. QueuedWhy'
  BY <1>1, <1>2 DEF QueuedWhy
<1>6. ASSUME NEW q \in WorkerRequests \ hungUp, pc[q] \in {"drain", "flush"},
             NEW i \in 1 .. Len(chain'), chain'[i] = q
      PROVE  i <= waits'[q]
  <2>1. /\ i \in Nat /\ i >= 1 /\ i <= Len(chain) - 1 /\ chain[i + 1] = q
        /\ waits[q] \in Nat
    BY <1>2, <1>6
  <2>2. i + 1 \in 1 .. Len(chain)
    BY <1>2, <2>1
  <2>3. i + 1 <= waits[q]
    BY <1>6, <2>1, <2>2 DEF WaitsForOwn
  <2>4. waits'[q] = waits[q] - 1
    BY <1>3, <2>1, <2>3
  <2> QED
    BY <2>1, <2>3, <2>4
<1>7. WaitsForOwn'
  BY <1>1, <1>2, <1>6 DEF WaitsForOwn
<1>8. NothingDropped'
  <2>1. CASE FlushEmpty
    <3>1. batch' = {} /\ UNCHANGED <<pending, stored>> /\ recorded \subseteq stored
      BY <2>1 DEF FlushEmpty, NothingDropped
    <3> QED
      BY <1>1, <3>1 DEF NothingDropped
  <2>2. CASE FlushInserts
    <3>1. batch' = {} /\ stored' = stored \cup batch /\ UNCHANGED <<pending, failures>>
      BY <2>2 DEF FlushInserts
    <3> QED
      BY <1>1, <1>2, <2>2, <3>1 DEF FlushInserts, NothingDropped
  <2>3. CASE FlushFails
    <3>1. batch # {} /\ batch' = {} /\ pending' = pending \cup batch /\ UNCHANGED stored
      BY <2>3 DEF FlushFails
    <3>2. failures' = 0 => failures = 0 /\ Head(chain) \in hungUp
      <4>1. CASE pc[Head(chain)] = "close"
        BY <1>2, <2>3, <4>1 DEF FlushFails, WaitsForOwn
      <4>2. CASE pc[Head(chain)] # "close"
        BY <2>3, <4>2 DEF FlushFails
      <4> QED
        BY <4>1, <4>2
    <3> QED
      BY <1>1, <1>2, <3>1, <3>2 DEF NothingDropped
  <2> QED
    BY <2>1, <2>2, <2>3
<1> QED
  BY <1>4, <1>5, <1>7, <1>8

LEMMA WorkerInvStep == WorkerInv /\ [WorkerNext]_workerVars => WorkerInv'
<1> SUFFICES ASSUME WorkerInv, [WorkerNext]_workerVars PROVE WorkerInv'
  OBVIOUS
<1>1. ASSUME NEW ok \in BOOLEAN, LoadEnds(ok) PROVE WorkerInv'
  <2>1. \E r : r \in WorkerRequests
    BY <1>1 DEF LoadEnds, WorkerInv, LoadHeld
  <2> QED
    BY <1>1, <2>1, QuietStep
<1>2. ASSUME NEW r \in WorkerRequests,
             Begin(r) \/ Stream(r) \/ HandlerEnds(r) \/ DrainEnds(r) \/ CloseClients(r)
      PROVE  WorkerInv'
  BY <1>2, QuietStep
<1>3. ASSUME NEW r \in WorkerRequests, Record(r) PROVE WorkerInv'
  BY <1>3, RecordStep
<1>4. ASSUME NEW r \in WorkerRequests, Finish(r) \/ Cancel(r) PROVE WorkerInv'
  BY <1>4, EndBeginsStep
<1>5. ASSUME NEW r \in WorkerRequests, DrainAgain(r) PROVE WorkerInv'
  BY <1>5, DrainAgainStep
<1>6. CASE Flush
  BY <1>6, FlushTakesStep, FlushOverStep DEF Flush
<1>7. CASE UNCHANGED workerVars
  <2>1. \A q : Queued(q)' <=> Queued(q)
    BY <1>7, QueueSame DEF workerVars
  <2> QED
    BY <1>7, <2>1 DEF workerVars, WorkerInv, WorkerTypeOK, LoadHeld, AliveAtWork,
                      QueuedWhy, WaitsForOwn, NothingDropped
<1> QED
  BY <1>1, <1>2, <1>3, <1>4, <1>5, <1>6, <1>7 DEF WorkerNext, End

\* A request whose client stayed closes its clients only when no flush and no
\* load would use them, and is over only when its call is in MongoDB, unless an
\* insert failed; for any number of overlapping requests.
THEOREM RequestsShip == WorkerSpec => []ShippedBeforeEnd
<1>1. WorkerInv => ShippedBeforeEnd
  <2> SUFFICES ASSUME WorkerInv PROVE ShippedBeforeEnd
    OBVIOUS
  <2> USE DEF WorkerInv, WorkerTypeOK
  <2>1. DOMAIN chain = 1 .. Len(chain)
    BY LenProperties
  <2>2. ASSUME NEW r \in WorkerRequests \ hungUp, pc[r] \in {"close", "done"}
        PROVE  /\ \A i \in DOMAIN chain : chain[i] # r
               /\ loading # r
               /\ pc[r] = "done" => r \notin open
    BY <2>1, <2>2, WorkerAssumption DEF WaitsForOwn, Queued, LoadHeld
  <2>3. ASSUME NEW r \in recorded \ hungUp, pc[r] = "done", failures = 0
        PROVE  r \in stored
    BY <2>3 DEF WaitsForOwn, NothingDropped
  <2> QED
    BY <2>2, <2>3 DEF ShippedBeforeEnd
<1> QED
  BY <1>1, WorkerInvInit, WorkerInvStep, PTL DEF WorkerSpec

-----------------------------------------------------------------------------
(* One token: HonoursPromises, NoneRevived. *)

TokenRecords ==
    [rev : Nat, revoked : BOOLEAN, log : Seq(Requests), current : Values,
     credentials : UNION {[S -> Nat] : S \in SUBSET Values}]

TokensTypeOK ==
    /\ now \in Nat /\ token \in TokenRecords /\ next \in [Requests -> TokenRecords]
    /\ revokers \subseteq Others /\ life \in [Rolls -> Nat] /\ overlap \in [Rolls -> Nat]
    /\ stage \in [Requests -> {"read", "write", "ok", "failed", "refused"}]
    /\ seenRev \in [Requests -> Nat] /\ readAt \in [Requests -> Nat]
    /\ promised \in [Values -> Nat]

\* The document says of its values what was promised; one it has no longer is over.
EndsAsPromised ==
    ~token.revoked => \A v \in Values :
        IF v \in DOMAIN token.credentials THEN token.credentials[v] = promised[v]
        ELSE promised[v] <= now

\* A roll that may still land has issued nothing.
UnlandedUnknown ==
    \A r \in Rolls : stage[r] \in {"read", "write"} =>
        promised[r] = 0 /\ r \notin DOMAIN token.credentials

\* EndAfterRoll and ExpiresAt as they were when the pending record was made.
EndWhenRead(r, v) ==
    IF v # token.current THEN token.credentials[v]
    ELSE Least(token.credentials[v], readAt[r] + overlap[r])
OwnEnd(r) == IF life[r] = Never THEN Never ELSE readAt[r] + life[r]

RollPending(r) ==
    /\ ~token.revoked /\ ~next[r].revoked
    /\ DOMAIN next[r].credentials =
          {v \in DOMAIN token.credentials : EndWhenRead(r, v) > readAt[r]} \cup {r}
    /\ \A v \in DOMAIN next[r].credentials :
          next[r].credentials[v] = IF v = r THEN OwnEnd(r) ELSE EndWhenRead(r, v)

EditPending(r) ==
    /\ ~token.revoked /\ ~next[r].revoked
    /\ next[r].credentials = token.credentials

RevokePending(r) ==
    next[r].revoked /\ DOMAIN next[r].credentials \subseteq DOMAIN token.credentials

\* A write that will land carries the change of the document as it still is.
PendingFollows ==
    \A r \in Requests :
        /\ seenRev[r] <= token.rev
        /\ stage[r] = "write" /\ Same(r) =>
              /\ readAt[r] <= now /\ next[r].rev = token.rev + 1
              /\ r \in Rolls => RollPending(r)
              /\ r \in Others \ revokers => EditPending(r)
              /\ r \in revokers => RevokePending(r)

TokensInv == TokensTypeOK /\ EndsAsPromised /\ UnlandedUnknown /\ PendingFollows

LEMMA RecordFields ==
    ASSUME NEW t \in TokenRecords
    PROVE  /\ t.rev \in Nat /\ t.revoked \in BOOLEAN /\ t.log \in Seq(Requests)
           /\ t.current \in Values
           /\ DOMAIN t.credentials \subseteq Values
           /\ \A v \in DOMAIN t.credentials : t.credentials[v] \in Nat
BY DEF TokenRecords

LEMMA LoggedTyped ==
    ASSUME TokensTypeOK, NEW r \in Requests PROVE Logged(r) \in Seq(Requests)
<1> DEFINE whole == <<r>> \o token.log
           n == Least(Len(token.log) + 1, MAX_ACTIONS)
<1>1. token.log \in Seq(Requests) /\ <<r>> \in Seq(Requests) /\ Len(<<r>>) = 1
  BY RecordFields DEF TokensTypeOK
<1>2. /\ whole \in Seq(Requests) /\ Len(whole) = 1 + Len(token.log)
      /\ Len(token.log) \in Nat
  BY <1>1, ConcatProperties, LenProperties
<1>3. n \in 1 .. Len(whole)
  BY <1>2, TokenAssumption DEF Least
<1>4. \A i \in 1 .. n : whole[i] \in Requests
  BY <1>2, <1>3, ElementOfSeq
<1> HIDE DEF whole, n
<1>5. SubSeq(whole, 1, n) \in Seq(Requests)
  BY <1>2, <1>3, SubSeqProperties
<1> QED
  BY <1>5 DEF Logged, whole, n

\* What the assumption says of lifetimes and overlaps.
LEMMA TimesTyped ==
    /\ Lifetimes \subseteq Nat /\ Overlaps \subseteq Nat /\ Never \in Nat
    /\ Rolls \subseteq Requests /\ Rolls \subseteq Values /\ First \in Values
    /\ First \notin Rolls /\ Others \subseteq Requests
BY TokenAssumption DEF Requests, Values

LEMMA TokensInvInit == TokensInit => TokensInv
<1> SUFFICES ASSUME TokensInit PROVE TokensInv
  OBVIOUS
<1>1. PICK t \in Lifetimes :
        /\ token \in {Created(t)} \cup IF t = Never THEN {Gone} ELSE {}
        /\ promised = [v \in Values |-> IF v = First THEN t ELSE 0]
        /\ next = [r \in Requests |-> Created(t)]
  BY DEF TokensInit
<1>2. <<>> \in Seq(Requests) /\ t \in Nat /\ First \in Values
  BY <1>1, TimesTyped, EmptySeq
<1>3. Created(t) \in TokenRecords
  <2>1. [v \in {First} |-> t] \in [{First} -> Nat] /\ {First} \in SUBSET Values
    BY <1>2
  <2> QED
    BY <1>2, <2>1 DEF Created, TokenRecords
<1>4. Gone \in TokenRecords
  <2>1. NoCredentials \in [{} -> Nat] /\ {} \in SUBSET Values
    BY DEF NoCredentials
  <2> QED
    BY <1>2, <2>1 DEF Gone, TokenRecords
<1>5. token = Created(t) \/ token = Gone
  BY <1>1, <1>3
<1>6. token \in TokenRecords /\ token.rev = 0
  <2>1. Created(t).rev = 0 /\ Gone.rev = 0
    BY DEF Created, Gone
  <2> QED
    BY <1>3, <1>4, <1>5, <2>1
<1>7. TokensTypeOK
  <2>1. promised \in [Values -> Nat]
    BY <1>1, <1>2
  <2>2. next \in [Requests -> TokenRecords]
    BY <1>1, <1>3
  <2>3. life \in [Rolls -> Nat] /\ overlap \in [Rolls -> Nat] /\ revokers \subseteq Others
    BY TimesTyped DEF TokensInit
  <2>4. /\ now \in Nat /\ seenRev \in [Requests -> Nat] /\ readAt \in [Requests -> Nat]
        /\ stage \in [Requests -> {"read", "write", "ok", "failed", "refused"}]
    BY DEF TokensInit
  <2> QED
    BY <1>6, <2>1, <2>2, <2>3, <2>4 DEF TokensTypeOK
<1>8. EndsAsPromised
  <2>1. CASE token = Created(t)
    BY <1>1, <1>2, <2>1 DEF Created, EndsAsPromised, TokensInit
  <2>2. CASE token = Gone
    BY <2>2 DEF Gone, EndsAsPromised
  <2> QED
    BY <1>5, <2>1, <2>2
<1>9. UnlandedUnknown
  <2>1. DOMAIN token.credentials \subseteq {First}
    BY <1>5 DEF Created, Gone, NoCredentials
  <2>2. \A r \in Rolls : promised[r] = 0
    BY <1>1, TimesTyped
  <2> QED
    BY <2>1, <2>2, TimesTyped DEF UnlandedUnknown
<1>10. PendingFollows
  BY <1>6 DEF PendingFollows, TokensInit
<1> QED
  BY <1>7, <1>8, <1>9, <1>10 DEF TokensInv

\* What a request sends is the change of the document as it is.
LEMMA RollRecord ==
    ASSUME TokensInv, NEW r \in Rolls, RollSend(r)
    PROVE  /\ next'[r] \in TokenRecords /\ next'[r].rev = token.rev + 1
           /\ RollPending(r)'
<1> DEFINE kept == Previous(r) \cup {r}
           ends == [v \in kept |-> IF v = r THEN ExpiresAt(life[r]) ELSE EndAfterRoll(r, v)]
           new == [rev |-> token.rev + 1, revoked |-> token.revoked, log |-> Logged(r),
                   current |-> r, credentials |-> ends]
<1>1. /\ r \in Requests /\ r \in Values /\ life[r] \in Nat /\ overlap[r] \in Nat /\ now \in Nat
      /\ Never \in Nat /\ Logged(r) \in Seq(Requests) /\ token \in TokenRecords
      /\ r \in DOMAIN next /\ r \in DOMAIN readAt
  BY TimesTyped, LoggedTyped DEF TokensInv, TokensTypeOK
<1>2. /\ ~token.revoked /\ next' = [next EXCEPT ![r] = new]
      /\ readAt' = [readAt EXCEPT ![r] = now]
      /\ UNCHANGED <<token, life, overlap>>
  BY DEF RollSend, MayRoll, Send, asked
<1>3. next'[r] = new /\ readAt'[r] = now
  BY <1>1, <1>2
<1>4. kept \subseteq Values /\ \A v \in Previous(r) : EndAfterRoll(r, v) \in Nat
  BY <1>1, RecordFields DEF Previous, EndAfterRoll, Least
<1>5. ends \in [kept -> Nat]
  BY <1>1, <1>4 DEF ExpiresAt
<1>6. new \in TokenRecords
  <2>1. ends \in UNION {[S -> Nat] : S \in SUBSET Values}
    BY <1>4, <1>5
  <2> HIDE DEF ends
  <2> QED
    BY <1>1, <2>1, RecordFields DEF TokenRecords
<1>7. \A v \in Values : EndAfterRoll(r, v) = EndWhenRead(r, v)'
  BY <1>2, <1>3 DEF EndAfterRoll, EndWhenRead
<1>8. ExpiresAt(life[r]) = OwnEnd(r)'
  BY <1>2, <1>3 DEF ExpiresAt, OwnEnd
<1>9. Previous(r) = {v \in DOMAIN token'.credentials : EndWhenRead(r, v)' > readAt'[r]}
  BY <1>1, <1>2, <1>3, <1>7, RecordFields DEF Previous, Live
<1>10. RollPending(r)'
  <2>1. DOMAIN next'[r].credentials = kept /\ ~next'[r].revoked /\ ~token'.revoked
    BY <1>2, <1>3
  <2>2. \A v \in kept : next'[r].credentials[v]
                           = IF v = r THEN OwnEnd(r)' ELSE EndWhenRead(r, v)'
    BY <1>3, <1>4, <1>7, <1>8
  <2> QED
    BY <1>9, <2>1, <2>2 DEF RollPending
<1> QED
  BY <1>3, <1>6, <1>10

LEMMA OtherRecord ==
    ASSUME TokensInv, NEW r \in Requests, EditSend(r) \/ RevokeSend(r)
    PROVE  /\ next'[r] \in TokenRecords /\ next'[r].rev = token.rev + 1
           /\ r \notin Rolls
           /\ r \in Others \ revokers => EditPending(r)'
           /\ r \in revokers => RevokePending(r)'
<1>1. /\ token \in TokenRecords /\ r \in DOMAIN next /\ Logged(r) \in Seq(Requests)
      /\ revokers \subseteq Others
  BY LoggedTyped DEF TokensInv, TokensTypeOK
<1>2. r \notin Rolls
  BY <1>1, TokenAssumption DEF EditSend, RevokeSend, Reads
<1>3. CASE EditSend(r)
  <2> DEFINE new == [rev |-> token.rev + 1, revoked |-> token.revoked, log |-> Logged(r),
                     current |-> token.current, credentials |-> token.credentials]
  <2>1. next'[r] = new /\ ~token.revoked /\ token' = token /\ r \notin revokers
    BY <1>1, <1>3 DEF EditSend, Send, Reads
  <2>3. token.credentials \in UNION {[S -> Nat] : S \in SUBSET Values}
    BY <1>1 DEF TokenRecords
  <2>4. new \in TokenRecords
    BY <1>1, <2>3, RecordFields DEF TokenRecords
  <2> QED
    BY <1>2, <2>1, <2>4 DEF EditPending
<1>4. CASE RevokeSend(r)
  <2>1. r \in revokers /\ UNCHANGED <<revokers, token>>
    BY <1>4 DEF RevokeSend, Reads, Send, asked
  <2>2. CASE token.revoked
    <3> DEFINE new == [token EXCEPT !.rev = token.rev + 1]
    <3>1. next'[r] = new
      BY <1>1, <1>4, <2>2 DEF RevokeSend, Send
    <3>2. new = [rev |-> token.rev + 1, revoked |-> token.revoked, log |-> token.log,
                 current |-> token.current, credentials |-> token.credentials]
      BY <1>1 DEF TokenRecords
    <3>3. token.credentials \in UNION {[S -> Nat] : S \in SUBSET Values}
      BY <1>1 DEF TokenRecords
    <3> HIDE DEF new
    <3>4. new \in TokenRecords
      BY <1>1, <3>2, <3>3, RecordFields DEF TokenRecords
    <3> QED
      BY <1>2, <2>1, <2>2, <3>1, <3>2, <3>4 DEF RevokePending
  <2>3. CASE ~token.revoked
    <3> DEFINE new == [rev |-> token.rev + 1, revoked |-> TRUE, log |-> Logged(r),
                       current |-> token.current, credentials |-> NoCredentials]
    <3>1. next'[r] = new
      BY <1>1, <1>4, <2>3 DEF RevokeSend, Send
    <3>2. NoCredentials \in UNION {[S -> Nat] : S \in SUBSET Values}
      <4>1. NoCredentials \in [{} -> Nat] /\ {} \in SUBSET Values
        BY DEF NoCredentials
      <4> QED
        BY <4>1
    <3>3. new \in TokenRecords
      BY <1>1, <3>2, RecordFields DEF TokenRecords
    <3> QED
      BY <1>2, <2>1, <3>1, <3>3 DEF RevokePending, NoCredentials
  <2> QED
    BY <2>2, <2>3
<1> QED
  BY <1>3, <1>4

\* A step that leaves the document alone, and changes at most what r is about
\* to write: r stops, or its write is the document's change.
LEMMA SendStep ==
    ASSUME TokensInv, NEW r \in Requests,
           RollSend(r) \/ EditSend(r) \/ RevokeSend(r)
    PROVE  TokensInv'
<1>1. /\ next'[r] \in TokenRecords /\ next'[r].rev = token.rev + 1
      /\ r \in Rolls => RollPending(r)'
      /\ r \in Others \ revokers => EditPending(r)'
      /\ r \in revokers => RevokePending(r)'
  <2>1. CASE RollSend(r)
    <3>1. r \in Rolls /\ r \notin Others
      BY <2>1, TokenAssumption DEF RollSend, Reads
    <3> QED
      BY <2>1, <3>1, RollRecord DEF TokensInv, TokensTypeOK
  <2>2. CASE EditSend(r) \/ RevokeSend(r)
    BY <2>2, OtherRecord
  <2> QED
    BY <2>1, <2>2
<1>2. /\ stage[r] = "read" /\ stage' = [stage EXCEPT ![r] = "write"]
      /\ seenRev' = [seenRev EXCEPT ![r] = token.rev]
      /\ readAt' = [readAt EXCEPT ![r] = now]
      /\ next' = [next EXCEPT ![r] = next'[r]]
      /\ UNCHANGED <<now, token, life, overlap, revokers, promised>>
  <2>1. \E record : Send(r, record) /\ stage[r] = "read"
    BY DEF RollSend, EditSend, RevokeSend, Reads
  <2> QED
    BY <2>1 DEF Send, Goto, asked, TokensInv, TokensTypeOK
<1>3. token.rev \in Nat /\ now \in Nat
  BY RecordFields DEF TokensInv, TokensTypeOK
<1>4. TokensTypeOK'
  BY <1>1, <1>2, <1>3 DEF TokensInv, TokensTypeOK
<1>5. EndsAsPromised'
  BY <1>2 DEF TokensInv, EndsAsPromised
<1>6. UnlandedUnknown'
  BY <1>2 DEF TokensInv, UnlandedUnknown, TokensTypeOK
<1>7. ASSUME NEW q \in Requests, q # r
      PROVE  /\ stage'[q] = stage[q] /\ seenRev'[q] = seenRev[q] /\ readAt'[q] = readAt[q]
             /\ next'[q] = next[q]
  BY <1>2, <1>7 DEF TokensInv, TokensTypeOK
<1>8. ASSUME NEW q \in Requests, q # r
      PROVE  /\ Same(q)' = Same(q) /\ RollPending(q)' = RollPending(q)
             /\ EditPending(q)' = EditPending(q) /\ RevokePending(q)' = RevokePending(q)
  BY <1>2, <1>7, <1>8 DEF Same, RollPending, EditPending, RevokePending, EndWhenRead, OwnEnd
<1>9. seenRev'[r] = token.rev /\ readAt'[r] = now
  BY <1>2 DEF TokensInv, TokensTypeOK
<1>10. PendingFollows'
  <2> SUFFICES ASSUME NEW q \in Requests
               PROVE  /\ seenRev'[q] <= token'.rev
                      /\ stage'[q] = "write" /\ Same(q)' =>
                           /\ readAt'[q] <= now' /\ next'[q].rev = token'.rev + 1
                           /\ q \in Rolls => RollPending(q)'
                           /\ q \in Others \ revokers' => EditPending(q)'
                           /\ q \in revokers' => RevokePending(q)'
    BY DEF PendingFollows
  <2>1. CASE q = r
    BY <1>1, <1>2, <1>3, <1>9, <2>1
  <2>2. CASE q # r
    BY <1>2, <1>7, <1>8, <2>2 DEF TokensInv, PendingFollows
  <2> QED
    BY <2>1, <2>2
<1> QED
  BY <1>4, <1>5, <1>6, <1>10 DEF TokensInv

\* A step in which r stops or reads again, or time passes.
LEMMA PassStep ==
    ASSUME TokensInv, UNCHANGED <<token, life, overlap, revokers, next, seenRev, readAt, promised>>,
           now' \in Nat, now <= now',
           stage' \in [Requests -> {"read", "write", "ok", "failed", "refused"}],
           \A q \in Requests : /\ stage'[q] = "write" => stage[q] = "write"
                               /\ stage'[q] = "read" => stage[q] \in {"read", "write"}
    PROVE  TokensInv'
<1>1. TokensTypeOK'
  BY DEF TokensInv, TokensTypeOK
<1>2. \A v \in Values : promised[v] \in Nat /\ now \in Nat
  BY DEF TokensInv, TokensTypeOK
<1>3. EndsAsPromised'
  BY <1>2 DEF TokensInv, EndsAsPromised
<1>4. UnlandedUnknown'
  BY TimesTyped DEF TokensInv, UnlandedUnknown
<1>5. ASSUME NEW q \in Requests
      PROVE  /\ Same(q)' = Same(q) /\ RollPending(q)' = RollPending(q)
             /\ EditPending(q)' = EditPending(q) /\ RevokePending(q)' = RevokePending(q)
  BY DEF Same, RollPending, EditPending, RevokePending, EndWhenRead, OwnEnd
<1>6. \A q \in Requests : readAt[q] \in Nat
  BY DEF TokensInv, TokensTypeOK
<1>7. PendingFollows'
  BY <1>2, <1>5, <1>6 DEF TokensInv, PendingFollows, TokensTypeOK
<1> QED
  BY <1>1, <1>3, <1>4, <1>7 DEF TokensInv

\* A write lands: the values' ends and the promises move together.
LEMMA LandStep ==
    ASSUME TokensInv, NEW r \in Requests, Land(r)
    PROVE  /\ TokensInv'
           /\ token.revoked => token'.revoked
           /\ \A v \in Values : promised[v] # 0 => promised'[v] <= promised[v]
<1>1. /\ stage[r] = "write" /\ Same(r) /\ token' = next[r] /\ promised' = Promise(r)
      /\ stage' \in [Requests -> {"read", "write", "ok", "failed", "refused"}]
      /\ \A q \in Requests : stage'[q] = IF q = r THEN stage'[r] ELSE stage[q]
      /\ stage'[r] \in {"ok", "failed"}
      /\ UNCHANGED <<now, life, overlap, revokers, next, seenRev, readAt>>
  BY DEF Land, Goto, asked, TokensInv, TokensTypeOK
<1>2. /\ readAt[r] <= now /\ next[r].rev = token.rev + 1
      /\ r \in Rolls => RollPending(r)
      /\ r \in Others \ revokers => EditPending(r)
      /\ r \in revokers => RevokePending(r)
  BY <1>1 DEF TokensInv, PendingFollows
<1>3. /\ now \in Nat /\ readAt[r] \in Nat /\ token.rev \in Nat /\ next[r] \in TokenRecords
      /\ \A v \in Values : promised[v] \in Nat
      /\ \A v \in DOMAIN token.credentials : v \in Values /\ token.credentials[v] \in Nat
      /\ \A q \in Requests : seenRev[q] \in Nat /\ seenRev[q] <= token.rev
  BY RecordFields DEF TokensInv, TokensTypeOK, PendingFollows
<1>4. /\ r \in Rolls => life[r] \in Nat /\ overlap[r] \in Nat /\ r \in Values
      /\ Never \in Nat /\ r \in Rolls \cup Others
  BY TimesTyped DEF TokensInv, TokensTypeOK, Requests
<1>5. r \in Rolls =>
        /\ promised' = [v \in Values |-> IF v = r THEN OwnEnd(r)
                                         ELSE IF v = token.current
                                         THEN Least(promised[v], readAt[r] + overlap[r])
                                         ELSE promised[v]]
        /\ OwnEnd(r) \in Nat
  BY <1>1, <1>3, <1>4 DEF Promise, OwnEnd
<1>6. r \notin Rolls => promised' = promised
  BY <1>1 DEF Promise
<1>7. \A v \in Values : promised'[v] \in Nat /\ (v # r => promised'[v] <= promised[v])
  BY <1>3, <1>4, <1>5, <1>6 DEF Least
<1>8. r \in Rolls => promised[r] = 0 /\ r \notin DOMAIN token.credentials
  BY <1>1 DEF TokensInv, UnlandedUnknown
<1>9. TokensTypeOK'
  <2>1. promised' \in [Values -> Nat]
    <3>1. promised' = [v \in Values |-> promised'[v]]
      BY <1>5, <1>6 DEF TokensInv, TokensTypeOK
    <3> QED
      BY <1>7, <3>1
  <2> QED
    BY <1>1, <1>3, <2>1 DEF TokensInv, TokensTypeOK
<1>10. EndsAsPromised'
  <2>1. CASE r \in Rolls
    <3>1. SUFFICES ASSUME NEW v \in Values
                   PROVE  IF v \in DOMAIN next[r].credentials
                          THEN next[r].credentials[v] = promised'[v] ELSE promised'[v] <= now
      BY <1>1 DEF EndsAsPromised
    <3>2. /\ ~token.revoked
          /\ DOMAIN next[r].credentials =
               {w \in DOMAIN token.credentials : EndWhenRead(r, w) > readAt[r]} \cup {r}
          /\ v \in DOMAIN next[r].credentials =>
               next[r].credentials[v] = IF v = r THEN OwnEnd(r) ELSE EndWhenRead(r, v)
      BY <1>2, <2>1 DEF RollPending
    <3>3. IF v \in DOMAIN token.credentials THEN token.credentials[v] = promised[v]
          ELSE promised[v] <= now
      BY <3>2 DEF TokensInv, EndsAsPromised
    <3>4. CASE v = r
      BY <1>5, <2>1, <3>2, <3>4
    <3>5. CASE v # r /\ v \in DOMAIN token.credentials
      <4>1. EndWhenRead(r, v) = promised'[v] /\ promised'[v] \in Nat
        BY <1>5, <1>7, <2>1, <3>3, <3>5 DEF EndWhenRead
      <4>2. v \notin DOMAIN next[r].credentials => promised'[v] <= now
        BY <1>2, <1>3, <3>2, <3>5, <4>1
      <4> QED
        BY <3>2, <3>5, <4>1, <4>2
    <3>6. CASE v # r /\ v \notin DOMAIN token.credentials
      BY <1>3, <1>7, <3>2, <3>3, <3>6
    <3> QED
      BY <3>4, <3>5, <3>6
  <2>2. CASE r \in Others \ revokers
    <3>1. ~token.revoked /\ token'.credentials = token.credentials /\ r \notin Rolls
      BY <1>1, <1>2, <2>2, TokenAssumption DEF EditPending
    <3> QED
      BY <1>1, <1>6, <3>1 DEF TokensInv, EndsAsPromised
  <2>3. CASE r \in revokers
    BY <1>1, <1>2, <2>3 DEF EndsAsPromised, RevokePending
  <2> QED
    BY <1>4, <2>1, <2>2, <2>3
<1>11. UnlandedUnknown'
  <2>1. SUFFICES ASSUME NEW q \in Rolls, stage'[q] \in {"read", "write"}
                 PROVE  promised'[q] = 0 /\ q \notin DOMAIN token'.credentials
    BY DEF UnlandedUnknown
  <2>2. /\ q # r /\ stage[q] \in {"read", "write"} /\ q \in Values
    BY <1>1, <2>1, TimesTyped
  <2>3. promised[q] = 0 /\ q \notin DOMAIN token.credentials
    BY <2>2 DEF TokensInv, UnlandedUnknown
  <2>4. promised'[q] = 0
    BY <1>7, <2>2, <2>3
  <2>5. CASE r \in Rolls
    BY <1>1, <1>2, <2>2, <2>3, <2>4, <2>5 DEF RollPending
  <2>6. CASE r \in Others \ revokers
    BY <1>1, <1>2, <2>3, <2>4, <2>6 DEF EditPending
  <2>7. CASE r \in revokers
    BY <1>1, <1>2, <2>3, <2>4, <2>7 DEF RevokePending
  <2> QED
    BY <1>4, <2>5, <2>6, <2>7
<1>12. PendingFollows'
  <2>1. \A q \in Requests : seenRev'[q] <= token'.rev /\ ~Same(q)'
    BY <1>1, <1>2, <1>3 DEF Same
  <2> QED
    BY <2>1 DEF PendingFollows
<1>13. token.revoked => token'.revoked
  BY <1>1, <1>2, <1>4 DEF RollPending, EditPending, RevokePending
<1>14. \A v \in Values : promised[v] # 0 => promised'[v] <= promised[v]
  BY <1>4, <1>6, <1>7, <1>8
<1> QED
  BY <1>9, <1>10, <1>11, <1>12, <1>13, <1>14 DEF TokensInv

LEMMA TokensInvStep == TokensInv /\ [TokensNext]_tokenVars => TokensInv'
<1> SUFFICES ASSUME TokensInv, [TokensNext]_tokenVars PROVE TokensInv'
  OBVIOUS
<1>1. ASSUME NEW r \in Requests, RollSend(r) \/ EditSend(r) \/ RevokeSend(r) PROVE TokensInv'
  BY <1>1, SendStep
<1>2. ASSUME NEW r \in Requests, RollRefuse(r) \/ EditRefuse(r) \/ Miss(r) \/ Fail(r)
      PROVE  TokensInv'
  <2>1. /\ stage[r] \in {"read", "write"}
        /\ \/ stage' = [stage EXCEPT ![r] = "refused"]
           \/ stage' = [stage EXCEPT ![r] = "failed"]
           \/ stage[r] = "write" /\ stage' = [stage EXCEPT ![r] = "read"]
        /\ UNCHANGED <<now, token, life, overlap, revokers, next, seenRev, readAt, promised>>
    BY <1>2 DEF RollRefuse, EditRefuse, Miss, Fail, Reads, TurnDown, AfterMiss, Goto, asked
  <2>2. /\ now' \in Nat /\ now <= now'
        /\ stage' \in [Requests -> {"read", "write", "ok", "failed", "refused"}]
        /\ \A q \in Requests : /\ stage'[q] = "write" => stage[q] = "write"
                               /\ stage'[q] = "read" => stage[q] \in {"read", "write"}
    BY <2>1 DEF TokensInv, TokensTypeOK
  <2> QED
    BY <2>1, <2>2, PassStep
<1>3. ASSUME NEW r \in Requests, Land(r) PROVE TokensInv'
  BY <1>3, LandStep
<1>4. CASE Tick \/ UNCHANGED tokenVars
  <2>1. UNCHANGED <<token, life, overlap, revokers, next, seenRev, readAt, promised, stage>>
    BY <1>4 DEF Tick, tokenVars, asked
  <2>2. now' \in Nat /\ now <= now'
    BY <1>4 DEF Tick, tokenVars, TokensInv, TokensTypeOK
  <2>3. /\ stage' \in [Requests -> {"read", "write", "ok", "failed", "refused"}]
        /\ \A q \in Requests : /\ stage'[q] = "write" => stage[q] = "write"
                               /\ stage'[q] = "read" => stage[q] \in {"read", "write"}
    BY <2>1 DEF TokensInv, TokensTypeOK
  <2> QED
    BY <2>1, <2>2, <2>3, PassStep
<1> QED
  BY <1>1, <1>2, <1>3, <1>4 DEF TokensNext

LEMMA InvHonours == TokensInv => HonoursPromises
<1> SUFFICES ASSUME TokensInv, NEW v \in Values
             PROVE  Authenticates(v) <=> ~token.revoked /\ now < promised[v]
  BY DEF HonoursPromises
<1>1. now \in Nat /\ promised[v] \in Nat
  BY DEF TokensInv, TokensTypeOK
<1>2. ~token.revoked => IF v \in DOMAIN token.credentials
                        THEN token.credentials[v] = promised[v] ELSE promised[v] <= now
  BY DEF TokensInv, EndsAsPromised
<1> QED
  BY <1>1, <1>2 DEF Authenticates, Live

\* A value works exactly until the time it was promised, for any number of
\* rolls, edits and revocations and however their reads and writes interleave.
THEOREM PromisesHonoured == TokensSpec => []HonoursPromises
<1>1. TokensInit => TokensInv
  BY TokensInvInit
<1>2. TokensInv /\ [TokensNext]_tokenVars => TokensInv'
  BY TokensInvStep
<1>3. TokensInv => HonoursPromises
  BY InvHonours
<1> QED
  BY <1>1, <1>2, <1>3, PTL DEF TokensSpec

\* A revocation is final, and a value that is over never works again.
THEOREM NeverRevived == TokensSpec => NoneRevived
<1> DEFINE Step == /\ token.revoked => token'.revoked
                   /\ \A v \in Values : promised[v] # 0 /\ ~Authenticates(v)
                                          => ~Authenticates(v)'
<1>1. TokensInit => TokensInv
  BY TokensInvInit
<1>2. TokensInv /\ [TokensNext]_tokenVars => TokensInv'
  BY TokensInvStep
<1>3. TokensInv /\ TokensInv' /\ [TokensNext]_tokenVars => [Step]_tokenVars
  <2> SUFFICES ASSUME TokensInv, TokensInv', [TokensNext]_tokenVars PROVE Step
    OBVIOUS
  <2>1. HonoursPromises /\ HonoursPromises'
    BY InvHonours, PTL
  <2>2. /\ now \in Nat /\ now' \in Nat /\ promised \in [Values -> Nat]
        /\ promised' \in [Values -> Nat]
    BY DEF TokensInv, TokensTypeOK
  <2>3. /\ token.revoked => token'.revoked
        /\ \A v \in Values : promised[v] # 0 => promised'[v] <= promised[v]
        /\ now <= now'
    <3>1. CASE \E r \in Requests : Land(r)
      <4>1. PICK r \in Requests : Land(r)
        BY <3>1
      <4> QED
        BY <2>2, <4>1, LandStep DEF Land
    <3>2. CASE ~\E r \in Requests : Land(r)
      <4>1. CASE Tick \/ UNCHANGED tokenVars
        BY <2>2, <4>1 DEF Tick, tokenVars
      <4>2. ASSUME NEW r \in Requests,
                   \/ RollRefuse(r) \/ RollSend(r) \/ EditRefuse(r) \/ EditSend(r)
                   \/ RevokeSend(r) \/ Miss(r) \/ Fail(r)
            PROVE  UNCHANGED <<token, promised, now>>
        BY <4>2 DEF RollRefuse, RollSend, EditRefuse, EditSend, RevokeSend, Send, TurnDown,
                    Miss, Fail
      <4> QED
        BY <2>2, <3>2, <4>1, <4>2 DEF TokensNext
    <3> QED
      BY <3>1, <3>2
  <2> QED
    BY <2>1, <2>2, <2>3 DEF HonoursPromises
<1> QED
  BY <1>1, <1>2, <1>3, PTL DEF TokensSpec, NoneRevived
-----------------------------------------------------------------------------
(* Pools: PoolsFair, for any pools, weights and load.                        *)

(* Sums. A collection of subsets of a finite set, if not empty, has a member *)
(* no other is inside of: induction over finite sets, of facts that are      *)
(* given as sets of sets.                                                    *)
LEMMA SmallestSubset ==
    ASSUME NEW S, IsFiniteSet(S), NEW B \in SUBSET (SUBSET S), B # {}
    PROVE  \E T \in B : \A U \in B : ~(U \subseteq T /\ U # T)
<1> DEFINE R == StrictSubsetOrdering(S)
<1>1. IsWellFoundedOn(R, SUBSET S)
  BY FS_StrictSubsetOrderingWellFounded, FS_FiniteSubsetsOfFinite
<1>2. \A T, U \in SUBSET S : T \subseteq U /\ T # U => <<T, U>> \in R
  BY DEF StrictSubsetOrdering
<1> HIDE DEF R
<1>3. PICK T \in B : \A U \in B : ~(<<U, T>> \in R)
  BY <1>1, WFMin
<1> QED
  BY <1>2, <1>3

LEMMA SubsetInduction ==
    ASSUME NEW S, IsFiniteSet(S), NEW D, {} \in D,
           \A T \in SUBSET S : \A x \in T : T \ {x} \in D => T \in D
    PROVE  \A T \in SUBSET S : T \in D
<1>1. SUFFICES ASSUME (SUBSET S) \ D # {} PROVE FALSE
  OBVIOUS
<1> DEFINE B == (SUBSET S) \ D
<1>2. B \in SUBSET (SUBSET S) /\ B # {}
  BY <1>1
<1> HIDE DEF B
<1>3. PICK T \in B : \A U \in B : ~(U \subseteq T /\ U # T)
  BY <1>2, SmallestSubset
<1>4. T \in SUBSET S /\ T \notin D
  BY DEF B
<1>5. PICK x \in T : TRUE
  BY <1>4
<1>6. T \ {x} \in SUBSET S /\ T \ {x} \notin B
  BY <1>3, <1>4, <1>5
<1>7. T \ {x} \in D
  BY <1>6 DEF B
<1> QED
  BY <1>4, <1>5, <1>7

(* F holds the sums of f over the subsets of S.                              *)
IsSum(F, f, S) ==
    /\ F \in [SUBSET S -> Int]
    /\ F[{}] = 0
    /\ \A T \in SUBSET S : \A x \in T : F[T] = F[T \ {x}] + f[x]

Sums(f, S) == CHOOSE F : IsSum(F, f, S)

Sigma(f, S) == Sums(f, S)[S]

LEMMA SumExists ==
    ASSUME NEW S, IsFiniteSet(S), NEW f, \A x \in S : f[x] \in Int
    PROVE  IsSum(Sums(f, S), f, S)
<1> DEFINE D == {T \in SUBSET S : \E F : IsSum(F, f, T)}
<1>1. {} \in D
  <2>1. IsSum([T \in SUBSET {} |-> 0], f, {})
    BY DEF IsSum
  <2> QED
    BY <2>1
<1>2. ASSUME NEW T \in SUBSET S, NEW x \in T, T \ {x} \in D
      PROVE  T \in D
  <2>1. PICK F : IsSum(F, f, T \ {x})
    BY <1>2
  <2> DEFINE G == [U \in SUBSET T |-> IF x \in U THEN F[U \ {x}] + f[x] ELSE F[U]]
  <2>2. G \in [SUBSET T -> Int]
    BY <2>1 DEF IsSum
  <2>3. G[{}] = 0
    BY <2>1 DEF IsSum
  <2>4. ASSUME NEW U \in SUBSET T, NEW y \in U
        PROVE  G[U] = G[U \ {y}] + f[y]
    <3>1. CASE y = x
      <4>1. G[U \ {y}] = F[U \ {x}]
        BY <3>1
      <4> QED
        BY <3>1, <4>1
    <3>2. CASE y # x /\ x \in U
      <4>1. F[U \ {x}] = F[(U \ {x}) \ {y}] + f[y]
        BY <2>1, <3>2 DEF IsSum
      <4>2. (U \ {x}) \ {y} = (U \ {y}) \ {x}
        OBVIOUS
      <4>3. F[(U \ {x}) \ {y}] \in Int /\ f[x] \in Int /\ f[y] \in Int
        BY <2>1, <3>2 DEF IsSum
      <4>4. G[U] = F[U \ {x}] + f[x]
        BY <3>2
      <4>5. G[U \ {y}] = F[(U \ {x}) \ {y}] + f[x]
        BY <3>2, <4>2
      <4> HIDE DEF G
      <4> QED
        BY <4>1, <4>3, <4>4, <4>5
    <3>3. CASE x \notin U
      BY <2>1, <3>3 DEF IsSum
    <3> QED
      BY <3>1, <3>2, <3>3
  <2>5. IsSum(G, f, T)
    <3> HIDE DEF G
    <3> QED
      BY <2>2, <2>3, <2>4 DEF IsSum
  <2> QED
    BY <2>5
<1>3. S \in D
  <2> HIDE DEF D
  <2> QED
    BY <1>1, <1>2, SubsetInduction
<1> QED
  BY <1>3 DEF Sums

LEMMA SigmaType ==
    ASSUME NEW S, IsFiniteSet(S), NEW f, \A x \in S : f[x] \in Int
    PROVE  Sigma(f, S) \in Int
BY SumExists DEF IsSum, Sigma

(* A sum of sums, a multiple of a sum, an order of sums.                     *)
LEMMA SigmaPlus ==
    ASSUME NEW S, IsFiniteSet(S), NEW f, NEW g, NEW h,
           \A x \in S : f[x] \in Int /\ g[x] \in Int /\ h[x] = f[x] + g[x]
    PROVE  Sigma(h, S) = Sigma(f, S) + Sigma(g, S)
<1>1. IsSum(Sums(f, S), f, S) /\ IsSum(Sums(g, S), g, S) /\ IsSum(Sums(h, S), h, S)
  BY SumExists
<1> DEFINE F == Sums(f, S)
           G == Sums(g, S)
           H == Sums(h, S)
           D == {T \in SUBSET S : H[T] = F[T] + G[T]}
<1>2. {} \in D
  BY <1>1 DEF IsSum
<1>3. ASSUME NEW T \in SUBSET S, NEW x \in T, T \ {x} \in D
      PROVE  T \in D
  <2>1. /\ F[T] = F[T \ {x}] + f[x]
        /\ G[T] = G[T \ {x}] + g[x]
        /\ H[T] = H[T \ {x}] + h[x]
        /\ F[T \ {x}] \in Int /\ G[T \ {x}] \in Int /\ H[T \ {x}] \in Int
    BY <1>1 DEF IsSum
  <2>2. H[T \ {x}] = F[T \ {x}] + G[T \ {x}] /\ x \in S
    BY <1>3
  <2>3. f[x] \in Int /\ g[x] \in Int /\ h[x] = f[x] + g[x]
    BY <2>2
  <2> HIDE DEF F, G, H
  <2>4. H[T] = F[T] + G[T]
    BY <2>1, <2>2, <2>3
  <2> QED
    BY <2>4
<1>4. S \in D
  <2> HIDE DEF D
  <2> QED
    BY <1>2, <1>3, SubsetInduction
<1> QED
  BY <1>4 DEF Sigma

LEMMA SigmaOrder ==
    ASSUME NEW S, IsFiniteSet(S), NEW f, NEW g,
           \A x \in S : f[x] \in Int /\ g[x] \in Int /\ f[x] <= g[x]
    PROVE  Sigma(f, S) <= Sigma(g, S)
<1>1. IsSum(Sums(f, S), f, S) /\ IsSum(Sums(g, S), g, S)
  BY SumExists
<1> DEFINE F == Sums(f, S)
           G == Sums(g, S)
           D == {T \in SUBSET S : F[T] <= G[T]}
<1>2. {} \in D
  BY <1>1 DEF IsSum
<1>3. ASSUME NEW T \in SUBSET S, NEW x \in T, T \ {x} \in D
      PROVE  T \in D
  <2>1. /\ F[T] = F[T \ {x}] + f[x]
        /\ G[T] = G[T \ {x}] + g[x]
        /\ F[T \ {x}] \in Int /\ G[T \ {x}] \in Int
    BY <1>1 DEF IsSum
  <2>2. F[T \ {x}] <= G[T \ {x}] /\ f[x] \in Int /\ g[x] \in Int /\ f[x] <= g[x]
    BY <1>3
  <2> HIDE DEF F, G
  <2>3. F[T] <= G[T]
    BY <2>1, <2>2
  <2> QED
    BY <2>3
<1>4. S \in D
  <2> HIDE DEF D
  <2> QED
    BY <1>2, <1>3, SubsetInduction
<1> QED
  BY <1>4 DEF Sigma

LEMMA SigmaZero ==
    ASSUME NEW S, IsFiniteSet(S), NEW f, \A x \in S : f[x] = 0
    PROVE  Sigma(f, S) = 0
<1>1. Sigma(f, S) = Sigma(f, S) + Sigma(f, S)
  BY SigmaPlus
<1>2. Sigma(f, S) \in Int
  BY SigmaType
<1>3. \A n \in Int : n = n + n => n = 0
  OBVIOUS
<1> QED
  BY <1>1, <1>2, <1>3

(* The sum of one value.                                                     *)
LEMMA SigmaOne ==
    ASSUME NEW S, IsFiniteSet(S), NEW x \in S, NEW d \in Int, NEW f,
           \A y \in S : f[y] = IF y = x THEN d ELSE 0
    PROVE  Sigma(f, S) = d
<1>1. IsSum(Sums(f, S), f, S)
  BY SumExists
<1> DEFINE F == Sums(f, S)
           D == {T \in SUBSET S : x \notin T => F[T] = 0}
<1>2. {} \in D
  BY <1>1 DEF IsSum
<1>3. ASSUME NEW T \in SUBSET S, NEW y \in T, T \ {y} \in D
      PROVE  T \in D
  <2>1. F[T] = F[T \ {y}] + f[y] /\ F[T] \in Int
    BY <1>1 DEF IsSum
  <2>2. x \notin T => F[T \ {y}] = 0 /\ f[y] = 0
    BY <1>3
  <2> HIDE DEF F
  <2> QED
    BY <2>1, <2>2
<1>4. \A T \in SUBSET S : T \in D
  <2> HIDE DEF D
  <2> QED
    BY <1>2, <1>3, SubsetInduction
<1>5. F[S] = F[S \ {x}] + f[x]
  BY <1>1 DEF IsSum
<1>6. S \ {x} \in D /\ F[S \ {x}] = 0
  BY <1>4
<1> QED
  BY <1>5, <1>6 DEF Sigma

(* One term of a sum changes.                                                *)
Adjusted(f, g, x, d, S) ==
    \A y \in S : f[y] \in Int /\ g[y] = IF y = x THEN f[y] + d ELSE f[y]

LEMMA SigmaUpdate ==
    ASSUME NEW S, IsFiniteSet(S), NEW x \in S, NEW d \in Int, NEW f, NEW g,
           Adjusted(f, g, x, d, S)
    PROVE  Sigma(g, S) = Sigma(f, S) + d
<1> DEFINE e == [y \in S |-> IF y = x THEN d ELSE 0]
<1>1. \A y \in S : f[y] \in Int /\ e[y] \in Int /\ g[y] = f[y] + e[y]
  BY DEF Adjusted
<1>2. \A y \in S : e[y] = IF y = x THEN d ELSE 0
  OBVIOUS
<1> HIDE DEF e
<1>3. Sigma(e, S) = d
  BY <1>2, SigmaOne
<1> QED
  BY <1>1, <1>3, SigmaPlus

(* A sum of equal terms over a sequence's indices.                           *)
LEMMA SigmaConstant ==
    ASSUME NEW S, IsFiniteSet(S), NEW d \in Int, NEW f, \A x \in S : f[x] = d
    PROVE  Sigma(f, S) = d * Cardinality(S)
<1>1. IsSum(Sums(f, S), f, S)
  BY SumExists
<1> DEFINE F == Sums(f, S)
           D == {T \in SUBSET S : F[T] = d * Cardinality(T)}
<1>2. {} \in D
  BY <1>1, FS_EmptySet DEF IsSum
<1>3. ASSUME NEW T \in SUBSET S, NEW y \in T, T \ {y} \in D
      PROVE  T \in D
  <2>1. F[T] = F[T \ {y}] + f[y] /\ f[y] = d
    BY <1>1 DEF IsSum
  <2>2. F[T \ {y}] = d * Cardinality(T \ {y})
    BY <1>3
  <2>3. /\ Cardinality(T) \in Nat /\ Cardinality(T) = Cardinality(T \ {y}) + 1
        /\ Cardinality(T \ {y}) \in Nat
    BY <1>3, FS_Subset, FS_RemoveElement, FS_CardinalityType
  <2> HIDE DEF F
  <2>4. F[T] = d * Cardinality(T)
    BY <2>1, <2>2, <2>3
  <2> QED
    BY <2>4
<1>4. S \in D
  <2> HIDE DEF D
  <2> QED
    BY <1>2, <1>3, SubsetInduction
<1> QED
  BY <1>4 DEF Sigma

-----------------------------------------------------------------------------
(* A set of numbers that has 0 and every successor has them all.             *)
LEMMA NumberInduction ==
    ASSUME NEW D, 0 \in D, \A n \in Nat : n \in D => n + 1 \in D
    PROVE  \A n \in Nat : n \in D
<1>1. SUFFICES ASSUME Nat \ D # {} PROVE FALSE
  OBVIOUS
<1> DEFINE R == OpToRel(<, Nat)
           B == Nat \ D
<1>2. IsWellFoundedOn(R, Nat)
  BY NatLessThanWellFounded
<1>3. \A a, b \in Nat : a < b => <<a, b>> \in R
  BY DEF OpToRel
<1>4. B \subseteq Nat /\ B # {}
  BY <1>1
<1> HIDE DEF R, B
<1>5. PICK x \in B : \A y \in B : ~(<<y, x>> \in R)
  BY <1>2, <1>4, WFMin
<1>6. x \in Nat /\ x \notin D
  BY DEF B
<1>7. x # 0
  BY <1>6
<1>8. x - 1 \in Nat /\ x - 1 < x /\ (x - 1) + 1 = x
  BY <1>6, <1>7
<1>9. x - 1 \notin B
  BY <1>3, <1>5, <1>6, <1>8
<1>10. x - 1 \in D
  BY <1>8, <1>9 DEF B
<1> QED
  BY <1>6, <1>8, <1>10

(* What sums over the subsets of S, in whatever order it takes the elements, *)
(* gives the sum; and the sums themselves are taken in any order.            *)
Terms(f, S) == IsFiniteSet(S) /\ \A x \in S : f[x] \in Int

Picks(c, S) == \A T \in SUBSET S : T # {} => c[T] \in T

AddsUp(G, c, f, S) ==
    /\ G[{}] = 0
    /\ \A T \in SUBSET S : T # {} =>
           \/ G[T] = G[T \ {c[T]}] + f[c[T]]
           \/ G[T] = f[c[T]] + G[T \ {c[T]}]

LEMMA FoldIsSum ==
    ASSUME NEW S, NEW f, Terms(f, S), NEW c, Picks(c, S), NEW G, AddsUp(G, c, f, S)
    PROVE  G[S] = Sigma(f, S)
<1>1. SUFFICES ASSUME G[S] # Sums(f, S)[S] PROVE FALSE
  BY DEF Sigma
<1> DEFINE F == Sums(f, S)
           B == {T \in SUBSET S : G[T] # F[T]}
<1>2. IsSum(F, f, S) /\ IsFiniteSet(S)
  BY SumExists DEF Terms
<1>3. B \in SUBSET (SUBSET S) /\ B # {}
  BY <1>1
<1>4. PICK T \in B : \A U \in B : ~(U \subseteq T /\ U # T)
  <2> HIDE DEF B
  <2> QED
    BY <1>2, <1>3, SmallestSubset
<1> HIDE DEF F
<1>5. T \in SUBSET S /\ T # {} /\ G[T] # F[T]
  BY <1>2, <1>4 DEF IsSum, AddsUp
<1>6. c[T] \in T
  BY <1>5 DEF Picks
<1>7. T \ {c[T]} \notin B
  BY <1>4, <1>5, <1>6
<1>8. G[T \ {c[T]}] = F[T \ {c[T]}]
  BY <1>5, <1>7
<1>9. F[T] = F[T \ {c[T]}] + f[c[T]] /\ F[T \ {c[T]}] \in Int
  BY <1>2, <1>5, <1>6 DEF IsSum
<1>10. f[c[T]] \in Int
  BY <1>5, <1>6 DEF Terms
<1>11. G[T] = G[T \ {c[T]}] + f[c[T]] \/ G[T] = f[c[T]] + G[T \ {c[T]}]
  BY <1>5 DEF AddsUp
<1>12. F[T] = f[c[T]] + F[T \ {c[T]}]
  BY <1>9, <1>10
<1> QED
  BY <1>5, <1>8, <1>9, <1>11, <1>12

LEMMA SumsFold ==
    ASSUME NEW S, NEW f, Terms(f, S), NEW c, Picks(c, S)
    PROVE  /\ Sums(f, S) = [T \in SUBSET S |-> Sums(f, S)[T]]
           /\ \A T \in SUBSET S : Sums(f, S)[T] =
                  IF T = {} THEN 0 ELSE Sums(f, S)[T \ {c[T]}] + f[c[T]]
           /\ \A T \in SUBSET S : Sums(f, S)[T] \in Int
<1> DEFINE F == Sums(f, S)
<1>1. IsSum(F, f, S)
  BY SumExists DEF Terms
<1> HIDE DEF F
<1>2. ASSUME NEW T \in SUBSET S, T # {}
      PROVE  F[T] = F[T \ {c[T]}] + f[c[T]]
  <2>1. c[T] \in T
    BY <1>2 DEF Picks
  <2> QED
    BY <1>1, <2>1 DEF IsSum
<1>3. F[{}] = 0 /\ F = [T \in SUBSET S |-> F[T]] /\ \A T \in SUBSET S : F[T] \in Int
  BY <1>1 DEF IsSum
<1>4. \A T \in SUBSET S : F[T] = IF T = {} THEN 0 ELSE F[T \ {c[T]}] + f[c[T]]
  BY <1>2, <1>3
<1> QED
  BY <1>3, <1>4 DEF F

-----------------------------------------------------------------------------
(* The router's totals are sums.                                             *)
Weights(s) == [i \in DOMAIN s |-> s[i].weight]

LEMMA MembersFacts ==
    ASSUME NEW s \in MemberLists
    PROVE  /\ Len(s) \in Nat /\ DOMAIN s = 1..Len(s) /\ DOMAIN s \in SUBSET Int
           /\ IsFiniteSet(DOMAIN s) /\ Cardinality(DOMAIN s) = Len(s)
           /\ \A i \in DOMAIN s :
                  /\ s[i].model \in PoolModels /\ s[i].weight \in Nat \ {0}
                  /\ Weights(s)[i] = s[i].weight
                  /\ \A j \in DOMAIN s : s[i].model = s[j].model => i = j
           /\ Terms(Weights(s), DOMAIN s)
<1> DEFINE M == [model : PoolModels, weight : Nat \ {0}]
<1>1. s \in Seq(M)
  BY DEF MemberLists
<1>2. \A i \in DOMAIN s : s[i] \in M
  <2> HIDE DEF M
  <2> QED
    BY <1>1, ElementOfSeq, LenProperties
<1>3. Len(s) \in Nat /\ DOMAIN s = 1..Len(s)
  BY <1>1, LenProperties
<1>4. IsFiniteSet(1..Len(s)) /\ Cardinality(1..Len(s)) = Len(s)
  <2>1. 1 \in Int /\ Len(s) \in Int
    BY <1>3
  <2>2. /\ IsFiniteSet(1..Len(s))
        /\ Cardinality(1..Len(s)) = IF 1 > Len(s) THEN 0 ELSE Len(s) - 1 + 1
    BY <2>1, FS_Interval
  <2>3. Len(s) = IF 1 > Len(s) THEN 0 ELSE Len(s) - 1 + 1
    BY <1>3
  <2> QED
    BY <2>2, <2>3
<1>5. \A i, j \in DOMAIN s : s[i].model = s[j].model => i = j
  BY DEF MemberLists
<1>6. \A i \in DOMAIN s : s[i].model \in PoolModels /\ s[i].weight \in Nat \ {0}
  BY <1>2
<1> QED
  BY <1>3, <1>4, <1>5, <1>6 DEF Weights, Terms

LEMMA SumIsSigma ==
    ASSUME NEW S, NEW f, Terms(f, S)
    PROVE  SumFunctionOnSet(f, S) = Sigma(f, S)
<1> DEFINE Anyone(T) == CHOOSE x \in T : TRUE
           c == [T \in SUBSET S |-> Anyone(T)]
           Step(F) == [T \in SUBSET S |->
                IF T = {} THEN 0 ELSE f[Anyone(T)] + F[T \ {Anyone(T)}]]
           iter == CHOOSE F : F = Step(F)
           F0 == Sums(f, S)
<1>1. SumFunctionOnSet(f, S) = iter[S]
  BY DEF SumFunctionOnSet, FoldFunctionOnSet, MapThenFoldSet
<1>2. \A T \in SUBSET S : T # {} => Anyone(T) \in T
  OBVIOUS
<1> HIDE DEF Anyone
<1>3. \A T \in SUBSET S : c[T] = Anyone(T)
  OBVIOUS
<1>4. Picks(c, S)
  BY <1>2, <1>3 DEF Picks
<1> HIDE DEF c
<1>5. F0 = Step(F0)
  <2>1. /\ F0 = [T \in SUBSET S |-> F0[T]]
        /\ \A T \in SUBSET S : F0[T] = IF T = {} THEN 0 ELSE F0[T \ {c[T]}] + f[c[T]]
        /\ \A T \in SUBSET S : F0[T] \in Int
    BY <1>4, SumsFold
  <2> HIDE DEF F0
  <2>2. ASSUME NEW T \in SUBSET S
        PROVE  F0[T] = IF T = {} THEN 0 ELSE f[Anyone(T)] + F0[T \ {Anyone(T)}]
    <3>1. F0[T] = IF T = {} THEN 0 ELSE F0[T \ {Anyone(T)}] + f[Anyone(T)]
      BY <2>1, <1>3
    <3>2. T # {} => f[Anyone(T)] \in Int
      BY <1>2 DEF Terms
    <3>3. F0[T \ {Anyone(T)}] \in Int
      BY <2>1
    <3> QED
      BY <3>1, <3>2, <3>3
  <2> QED
    BY <2>1, <2>2
<1>6. iter = Step(iter)
  <2> HIDE DEF F0
  <2>1. \E F : F = Step(F)
    BY <1>5
  <2> HIDE DEF Step
  <2> QED
    BY <2>1
<1> HIDE DEF iter, F0
<1>7. AddsUp(iter, c, f, S)
  <2>1. ASSUME NEW T \in SUBSET S, T # {}
        PROVE  iter[T] = f[c[T]] + iter[T \ {c[T]}]
    BY <1>3, <1>6, <2>1
  <2>2. iter[{}] = 0
    BY <1>6
  <2> QED
    BY <2>1, <2>2 DEF AddsUp
<1> QED
  BY <1>1, <1>4, <1>7, FoldIsSum
-----------------------------------------------------------------------------
(* A member list filtered by what the registry resolves is a member list.    *)
Filtered(F, s, A, n) ==
    F = [k \in 0..n |-> IF k = 0 THEN <<>>
                        ELSE IF s[k].model \in A THEN Append(F[k - 1], s[k])
                             ELSE F[k - 1]]

LEMMA FilterExists ==
    ASSUME NEW s, NEW A
    PROVE  \A n \in Nat : \E F : Filtered(F, s, A, n)
<1> DEFINE D == {n \in Nat : \E F : Filtered(F, s, A, n)}
<1>1. 0 \in D
  <2>1. Filtered([k \in 0..0 |-> <<>>], s, A, 0)
    BY DEF Filtered
  <2> QED
    BY <2>1
<1>2. ASSUME NEW n \in Nat, n \in D
      PROVE  n + 1 \in D
  <2>1. PICK F : Filtered(F, s, A, n)
    BY <1>2
  <2> DEFINE m == n + 1
             G == [k \in 0..m |-> IF k # m THEN F[k]
                                  ELSE IF s[m].model \in A THEN Append(F[n], s[m])
                                       ELSE F[n]]
  <2>2. ASSUME NEW k \in 0..m
        PROVE  G[k] = IF k = 0 THEN <<>>
                      ELSE IF s[k].model \in A THEN Append(G[k - 1], s[k])
                           ELSE G[k - 1]
    <3>1. CASE k = m
      <4>1. k # 0 /\ k - 1 = n /\ n \in 0..m /\ n # m
        BY <3>1
      <4>2. G[n] = F[n]
        BY <4>1
      <4> QED
        BY <3>1, <4>1, <4>2
    <3>2. CASE k # m
      <4>1. k \in 0..n
        BY <3>2
      <4>2. G[k] = F[k]
        BY <3>2
      <4>3. k # 0 => k - 1 \in 0..m /\ k - 1 # m
        BY <4>1
      <4>4. k # 0 => G[k - 1] = F[k - 1]
        BY <4>3
      <4>5. F[k] = IF k = 0 THEN <<>>
                   ELSE IF s[k].model \in A THEN Append(F[k - 1], s[k])
                        ELSE F[k - 1]
        BY <2>1, <4>1 DEF Filtered
      <4> HIDE DEF G
      <4> QED
        BY <4>2, <4>4, <4>5
    <3> QED
      BY <3>1, <3>2
  <2>3. G = [k \in 0..m |-> G[k]]
    OBVIOUS
  <2> HIDE DEF G
  <2>4. Filtered(G, s, A, m)
    BY <2>2, <2>3 DEF Filtered
  <2> QED
    BY <2>4
<1>3. \A n \in Nat : n \in D
  <2> HIDE DEF D
  <2> QED
    BY <1>1, <1>2, NumberInduction
<1> QED
  BY <1>3

LEMMA FilterKeepsLists ==
    ASSUME NEW s \in MemberLists, NEW A, NEW F, Filtered(F, s, A, Len(s))
    PROVE  F[Len(s)] \in MemberLists
<1> DEFINE M == [model : PoolModels, weight : Nat \ {0}]
           Good(n) == /\ F[n] \in Seq(M)
                      /\ \A k \in DOMAIN F[n] : \E j \in 1..n : F[n][k] = s[j]
                      /\ \A k, l \in DOMAIN F[n] : F[n][k].model = F[n][l].model => k = l
           D == {n \in Nat : n <= Len(s) => Good(n)}
<1>1. Len(s) \in Nat /\ DOMAIN s = 1..Len(s)
  BY MembersFacts
<1>2. 0 \in D
  <2>1. F[0] = <<>>
    BY <1>1 DEF Filtered
  <2>2. <<>> \in Seq(M) /\ DOMAIN <<>> = {}
    OBVIOUS
  <2>3. Good(0)
    <3> HIDE DEF M
    <3> QED
      BY <2>1, <2>2
  <2> HIDE DEF Good
  <2> QED
    BY <2>3
<1>3. ASSUME NEW n \in Nat, n \in D
      PROVE  n + 1 \in D
  <2>1. SUFFICES ASSUME n + 1 <= Len(s) PROVE Good(n + 1)
    OBVIOUS
  <2>2. Good(n)
    BY <1>1, <1>3, <2>1
  <2> DEFINE m == n + 1
  <2>3. m \in 1..Len(s) /\ m - 1 = n /\ m # 0 /\ m \in 0..Len(s)
    BY <1>1, <2>1
  <2>4. F[m] = IF s[m].model \in A THEN Append(F[n], s[m]) ELSE F[n]
    BY <2>3 DEF Filtered
  <2>5. s[m] \in M
    BY <1>1, <2>3, ElementOfSeq DEF MemberLists
  <2>6. CASE s[m].model \in A
    <3> DEFINE g == F[n]
               h == F[m]
    <3>1. g \in Seq(M) /\ h = Append(g, s[m])
      BY <2>2, <2>4, <2>6
    <3>2. h \in Seq(M) /\ Len(h) = Len(g) + 1 /\ Len(g) \in Nat
          /\ h[Len(g) + 1] = s[m] /\ \A k \in 1..Len(g) : h[k] = g[k]
          /\ DOMAIN h = 1..Len(g) + 1 /\ DOMAIN g = 1..Len(g)
      <4> HIDE DEF g, h, M
      <4> QED
        BY <2>5, <3>1, AppendProperties, LenProperties
    <3>3. \A k \in DOMAIN g : \E j \in 1..n : g[k] = s[j]
      BY <2>2
    <3>4. \A k, l \in DOMAIN g : g[k].model = g[l].model => k = l
      BY <2>2
    <3> HIDE DEF g, h, M
    <3>5. ASSUME NEW k \in DOMAIN h
          PROVE  \E j \in 1..m : h[k] = s[j]
      <4>1. CASE k = Len(g) + 1
        BY <2>3, <3>2, <4>1
      <4>2. CASE k \in 1..Len(g)
        <5>1. PICK j \in 1..n : g[k] = s[j]
          BY <3>2, <3>3, <4>2
        <5>2. j \in 1..m /\ h[k] = s[j]
          BY <3>2, <4>2, <5>1
        <5> QED
          BY <5>2
      <4> QED
        BY <3>2, <4>1, <4>2
    <3>6. ASSUME NEW k \in 1..Len(g)
          PROVE  h[k].model # s[m].model
      <4>1. PICK j \in 1..n : g[k] = s[j]
        BY <3>2, <3>3
      <4>2. j \in DOMAIN s /\ m \in DOMAIN s /\ j # m
        BY <1>1, <2>3
      <4>3. s[j].model # s[m].model
        BY <4>2, MembersFacts
      <4> QED
        BY <3>2, <4>1, <4>3
    <3>7. ASSUME NEW k \in DOMAIN h, NEW l \in DOMAIN h, h[k].model = h[l].model
          PROVE  k = l
      <4>1. CASE k \in 1..Len(g) /\ l \in 1..Len(g)
        <5>1. g[k].model = g[l].model
          BY <3>2, <3>7, <4>1
        <5> QED
          BY <3>2, <3>4, <4>1, <5>1
      <4>2. CASE k \in 1..Len(g) /\ l = Len(g) + 1
        BY <3>2, <3>6, <3>7, <4>2
      <4>3. CASE k = Len(g) + 1 /\ l \in 1..Len(g)
        BY <3>2, <3>6, <3>7, <4>3
      <4>4. CASE k = Len(g) + 1 /\ l = Len(g) + 1
        BY <4>4
      <4> QED
        BY <3>2, <4>1, <4>2, <4>3, <4>4
    <3> QED
      BY <3>2, <3>5, <3>7 DEF h, M
  <2>7. CASE ~(s[m].model \in A)
    <3>1. F[m] = F[n]
      BY <2>4, <2>7
    <3>2. \A j \in 1..n : j \in 1..m
      OBVIOUS
    <3> QED
      BY <2>2, <3>1, <3>2
  <2> QED
    BY <2>6, <2>7
<1>4. \A n \in Nat : n \in D
  <2> HIDE DEF D
  <2> QED
    BY <1>2, <1>3, NumberInduction
<1>5. Good(Len(s))
  <2> HIDE DEF Good
  <2> QED
    BY <1>1, <1>4
<1> QED
  BY <1>5 DEF MemberLists

LEMMA MembersAreLists ==
    ASSUME pool \in PoolConfigs
    PROVE  Members \in MemberLists
<1> DEFINE s == pool.members
           up == CHOOSE F : Filtered(F, s, available, Len(s))
<1>1. s \in MemberLists
  BY PoolsAssumption DEF PoolsAssumption
<1>2. Members = up[Len(s)]
  BY DEF Members, Filtered
<1>3. Filtered(up, s, available, Len(s))
  <2>1. \E F : Filtered(F, s, available, Len(s))
    BY <1>1, MembersFacts, FilterExists
  <2> QED
    BY <2>1
<1> HIDE DEF s, up
<1> QED
  BY <1>1, <1>2, <1>3, FilterKeepsLists
-----------------------------------------------------------------------------
LEMMA TotalFacts ==
    ASSUME NEW s \in MemberLists
    PROVE  /\ TotalWeight(s) = Sigma(Weights(s), DOMAIN s)
           /\ TotalWeight(s) \in Nat
           /\ \A i \in DOMAIN s : s[i].weight <= TotalWeight(s)
           /\ \A i, j \in DOMAIN s : i # j => s[i].weight + s[j].weight <= TotalWeight(s)
<1> DEFINE S == DOMAIN s
           w == Weights(s)
           one(i) == [k \in S |-> IF k = i THEN w[i] ELSE 0]
           two(i, j) == [k \in S |-> IF k = j THEN one(i)[k] + w[j] ELSE one(i)[k]]
           none == [k \in S |-> 0]
<1>1. /\ IsFiniteSet(S) /\ Terms(w, S)
      /\ \A i \in S : w[i] \in Nat \ {0} /\ w[i] = s[i].weight
  BY MembersFacts
<1>2. TotalWeight(s) = Sigma(w, S)
  <2>1. TotalWeight(s) = SumFunctionOnSet(w, S)
    BY DEF TotalWeight, SumFunction, Weights
  <2> QED
    BY <1>1, <2>1, SumIsSigma
<1> HIDE DEF w
<1>3. Sigma(w, S) \in Int
  BY <1>1, SigmaType
<1>4. Sigma(none, S) = 0 /\ Sigma(none, S) <= Sigma(w, S)
  <2>1. \A k \in S : none[k] = 0 /\ none[k] \in Int /\ w[k] \in Int /\ none[k] <= w[k]
    BY <1>1
  <2> HIDE DEF none
  <2> QED
    BY <1>1, <2>1, SigmaZero, SigmaOrder
<1>5. ASSUME NEW i \in S
      PROVE  Sigma(one(i), S) = w[i] /\ w[i] <= Sigma(w, S)
  <2> DEFINE f == one(i)
  <2>1. w[i] \in Int
    BY <1>1
  <2>2. \A k \in S : f[k] = IF k = i THEN w[i] ELSE 0
    OBVIOUS
  <2>3. \A k \in S : f[k] \in Int /\ w[k] \in Int /\ f[k] <= w[k]
    BY <1>1
  <2> HIDE DEF f
  <2>4. Sigma(f, S) = w[i]
    BY <1>1, <2>1, <2>2, SigmaOne
  <2>5. Sigma(f, S) <= Sigma(w, S)
    BY <1>1, <2>3, SigmaOrder
  <2> QED
    BY <2>4, <2>5 DEF f
<1>6. ASSUME NEW i \in S, NEW j \in S, i # j
      PROVE  w[i] + w[j] <= Sigma(w, S)
  <2> DEFINE f == one(i)
             g == two(i, j)
  <2>1. w[j] \in Int /\ w[i] \in Int
    BY <1>1
  <2>2. \A k \in S : f[k] \in Int /\ g[k] = IF k = j THEN f[k] + w[j] ELSE f[k]
    BY <1>1
  <2>3. \A k \in S : g[k] \in Int /\ w[k] \in Int /\ g[k] <= w[k]
    BY <1>1, <1>6
  <2>4. Sigma(f, S) = w[i]
    BY <1>5
  <2> HIDE DEF f, g
  <2>5. Sigma(g, S) = Sigma(f, S) + w[j]
    BY <1>1, <2>1, <2>2, SigmaUpdate DEF Adjusted
  <2>6. Sigma(g, S) <= Sigma(w, S)
    BY <1>1, <2>3, SigmaOrder
  <2> QED
    BY <2>4, <2>5, <2>6
<1>7. Sigma(w, S) \in Nat
  BY <1>3, <1>4
<1> QED
  BY <1>1, <1>2, <1>5, <1>6, <1>7 DEF w

LEMMA HasMembers ==
    ASSUME NEW s \in MemberLists, s # <<>>
    PROVE  DOMAIN s # {} /\ TotalWeight(s) > 0
<1>1. Len(s) # 0
  BY EmptySeq DEF MemberLists
<1>2. 1 \in DOMAIN s
  BY <1>1, MembersFacts
<1>3. s[1].weight \in Nat \ {0} /\ s[1].weight <= TotalWeight(s)
  BY <1>2, MembersFacts, TotalFacts
<1> QED
  BY <1>2, <1>3, TotalFacts

-----------------------------------------------------------------------------
(* The pick: some member is least loaded, and one of the eligible members    *)
(* is the first of the highest.                                              *)
LEMMA Ordered ==
    \A x, y \in Int, z \in Nat \ {0} :
        (x < y => x * z < y * z) /\ (x <= y => x * z <= y * z)
OBVIOUS

Loads(a, w, S) == \A i \in S : a[i] \in Nat /\ w[i] \in Nat \ {0}

LEMMA LeastExists ==
    ASSUME NEW S, IsFiniteSet(S), NEW a, NEW w, Loads(a, w, S)
    PROVE  \A T \in SUBSET S : T # {} =>
               \E i \in T : \A j \in T : ~(a[j] * w[i] < a[i] * w[j])
<1> DEFINE Lightest(T, i) == \A j \in T : ~(a[j] * w[i] < a[i] * w[j])
           D == {T \in SUBSET S : T # {} => \E i \in T : Lightest(T, i)}
<1>1. {} \in D
  OBVIOUS
<1>2. ASSUME NEW T \in SUBSET S, NEW x \in T, T \ {x} \in D
      PROVE  T \in D
  <2>1. CASE T = {x}
    <3>1. a[x] \in Nat /\ w[x] \in Nat \ {0}
      BY <1>2 DEF Loads
    <3>2. Lightest(T, x)
      BY <2>1, <3>1
    <3> QED
      BY <3>2
  <2>2. CASE T # {x}
    <3>1. PICK i \in T \ {x} : Lightest(T \ {x}, i)
      BY <1>2, <2>2
    <3>2. a[x] \in Nat /\ a[i] \in Nat /\ w[x] \in Nat \ {0} /\ w[i] \in Nat \ {0}
      BY <1>2, <3>1 DEF Loads
    <3>3. CASE ~(a[x] * w[i] < a[i] * w[x])
      <4>1. Lightest(T, i)
        BY <3>1, <3>3
      <4> QED
        BY <3>1, <4>1
    <3>4. CASE a[x] * w[i] < a[i] * w[x]
      <4>1. ASSUME NEW j \in T, a[j] * w[x] < a[x] * w[j]
            PROVE  FALSE
        <5>1. a[j] \in Nat /\ w[j] \in Nat \ {0}
          BY <1>2 DEF Loads
        <5>2. j # x
          BY <3>2, <4>1
        <5>3. ~(a[j] * w[i] < a[i] * w[j])
          BY <3>1, <5>2
        <5> DEFINE aj == a[j]  wj == w[j]  ai == a[i]  wi == w[i]  ax == a[x]  wx == w[x]
        <5>4. /\ aj \in Nat /\ ai \in Nat /\ ax \in Nat
              /\ wj \in Nat \ {0} /\ wi \in Nat \ {0} /\ wx \in Nat \ {0}
              /\ ~(aj * wi < ai * wj) /\ ax * wi < ai * wx /\ aj * wx < ax * wj
          BY <3>2, <3>4, <4>1, <5>1, <5>3
        <5> HIDE DEF aj, wj, ai, wi, ax, wx
        <5>5. (aj * wx) * wi < (ax * wj) * wi
          BY <5>4, Ordered
        <5>6. (ax * wi) * wj < (ai * wx) * wj
          BY <5>4, Ordered
        <5>7. (ai * wj) * wx <= (aj * wi) * wx
          BY <5>4, Ordered
        <5>8. /\ (aj * wx) * wi = (aj * wi) * wx /\ (ax * wj) * wi = (ax * wi) * wj
              /\ (ai * wx) * wj = (ai * wj) * wx
          BY <5>4
        <5> QED
          BY <5>4, <5>5, <5>6, <5>7, <5>8
      <4>2. Lightest(T, x)
        BY <4>1
      <4> QED
        BY <4>2
    <3> QED
      BY <3>3, <3>4
  <2> QED
    BY <2>1, <2>2
<1>3. \A T \in SUBSET S : T \in D
  <2> HIDE DEF D
  <2> QED
    BY <1>1, <1>2, SubsetInduction
<1> QED
  BY <1>3

LEMMA FirstHighestExists ==
    ASSUME NEW S, IsFiniteSet(S), NEW r, \A i \in S : i \in Int /\ r[i] \in Int
    PROVE  \A T \in SUBSET S : T # {} =>
               \E i \in T : \A j \in T : r[j] < r[i] \/ (r[j] = r[i] /\ i <= j)
<1> DEFINE Before(i, j) == r[j] < r[i] \/ (r[j] = r[i] /\ i <= j)
           D == {T \in SUBSET S : T # {} => \E i \in T : \A j \in T : Before(i, j)}
<1>1. {} \in D
  OBVIOUS
<1>2. ASSUME NEW T \in SUBSET S, NEW x \in T, T \ {x} \in D
      PROVE  T \in D
  <2>1. x \in Int /\ r[x] \in Int /\ Before(x, x)
    BY <1>2
  <2>2. CASE T = {x}
    BY <2>1, <2>2
  <2>3. CASE T # {x}
    <3>1. PICK i \in T \ {x} : \A j \in T \ {x} : Before(i, j)
      BY <1>2, <2>3
    <3>2. i \in Int /\ r[i] \in Int
      BY <1>2, <3>1
    <3>3. CASE Before(i, x)
      <4>1. \A j \in T : Before(i, j)
        BY <3>1, <3>3
      <4> QED
        BY <3>1, <4>1
    <3>4. CASE ~Before(i, x)
      <4>1. Before(x, i)
        BY <2>1, <3>2, <3>4
      <4>2. ASSUME NEW j \in T
            PROVE  Before(x, j)
        <5>1. j \in Int /\ r[j] \in Int
          BY <1>2
        <5>2. CASE j = x
          BY <2>1, <5>2
        <5>3. CASE j # x
          BY <2>1, <3>1, <3>2, <4>1, <5>1, <5>3
        <5> QED
          BY <5>2, <5>3
      <4> QED
        BY <4>2
    <3> QED
      BY <3>3, <3>4
  <2> QED
    BY <2>2, <2>3
<1>3. \A T \in SUBSET S : T \in D
  <2> HIDE DEF D
  <2> QED
    BY <1>1, <1>2, SubsetInduction
<1> QED
  BY <1>3

LEMMA BestChosen ==
    ASSUME pool \in PoolConfigs, Members # <<>>, active \in [PoolModels -> Nat],
           \A i \in DOMAIN Members : Raised[i] \in Int
    PROVE  /\ Eligible \subseteq DOMAIN Members /\ Best \in Eligible
           /\ \A j \in Eligible : Raised[j] <= Raised[Best]
<1> DEFINE S == DOMAIN Members
           a == [i \in S |-> active[Members[i].model]]
           w == [i \in S |-> Members[i].weight]
<1>1. Members \in MemberLists
  BY MembersAreLists
<1>2. IsFiniteSet(S) /\ S \in SUBSET Int /\ S # {}
  BY <1>1, MembersFacts, HasMembers
<1>3. \A i \in S : a[i] \in Nat /\ w[i] \in Nat \ {0}
  BY <1>1, MembersFacts
<1>4. LeastLoaded # {}
  <2>1. \E i \in S : \A j \in S : ~(a[j] * w[i] < a[i] * w[j])
    <3>1. IsFiniteSet(S) /\ S # {} /\ S \in SUBSET S /\ Loads(a, w, S)
      BY <1>2, <1>3 DEF Loads
    <3> HIDE DEF a, w, S
    <3>2. \A T \in SUBSET S : T # {} =>
              \E i \in T : \A j \in T : ~(a[j] * w[i] < a[i] * w[j])
      BY <3>1, LeastExists
    <3> QED
      BY <3>1, <3>2
  <2> QED
    BY <2>1 DEF LeastLoaded, LessLoaded
<1>5. Eligible \in SUBSET S /\ Eligible # {}
  BY <1>2, <1>4 DEF Eligible, LeastLoaded
<1>6. \A i \in S : i \in Int /\ Raised[i] \in Int
  BY <1>2
<1>7. \E i \in Eligible :
          \A j \in Eligible : Raised[j] < Raised[i] \/ (Raised[j] = Raised[i] /\ i <= j)
  <2> HIDE DEF S
  <2> QED
    BY <1>2, <1>5, <1>6, FirstHighestExists
<1>8. /\ Best \in Eligible
      /\ \A j \in Eligible : Raised[j] < Raised[Best] \/ (Raised[j] = Raised[Best] /\ Best <= j)
  BY <1>7 DEF Best
<1> QED
  BY <1>5, <1>6, <1>8

LEMMA ClampBounds ==
    ASSUME NEW n \in Int, NEW w \in Nat
    PROVE  Clamp(n, w) = IF n > w THEN w ELSE IF n < -w THEN -w ELSE n
<1>1. Min({w, n}) = IF n > w THEN w ELSE n
  BY DEF Min
<1>2. Min({w, n}) \in Int
  BY <1>1
<1>3. Max({-w, Min({w, n})}) = IF Min({w, n}) < -w THEN -w ELSE Min({w, n})
  BY <1>2 DEF Max
<1> QED
  BY <1>1, <1>3 DEF Clamp
-----------------------------------------------------------------------------
(* Weighted picks. After t picks of a cycle that give sv, a member's score   *)
(* is its share of the picks less what it got; the scores add up to nothing, *)
(* and none has fallen by the total weight.                                  *)
Owed(s, sc, sv, t) ==
    LET w == TotalWeight(s)
    IN /\ Sigma(sc, DOMAIN s) = 0
       /\ \A i \in DOMAIN s :
              /\ sc[i] = t * s[i].weight - w * sv[s[i].model]
              /\ sc[i] > -w

InCycle(s, sc, sv) ==
    /\ SumFunction(sv) \in 1..TotalWeight(s)
    /\ Owed(s, sc, sv, SumFunction(sv))

LEMMA ServedSum ==
    ASSUME NEW sv \in [PoolModels -> Nat]
    PROVE  /\ SumFunction(sv) = Sigma(sv, PoolModels)
           /\ SumFunction(sv) \in Int
           /\ \A m \in PoolModels :
                  SumFunction([sv EXCEPT ![m] = @ + 1]) = SumFunction(sv) + 1
<1> DEFINE S == PoolModels
<1>1. IsFiniteSet(S)
  BY PoolsAssumption DEF PoolsAssumption
<1>2. ASSUME NEW f \in [S -> Nat]
      PROVE  SumFunction(f) = Sigma(f, S) /\ Sigma(f, S) \in Int
  <2>1. SumFunction(f) = SumFunctionOnSet(f, S)
    BY DEF SumFunction
  <2>2. \A x \in S : f[x] \in Int
    OBVIOUS
  <2> QED
    BY <1>1, <2>1, <2>2, SumIsSigma, SigmaType DEF Terms
<1>3. ASSUME NEW m \in S
      PROVE  SumFunction([sv EXCEPT ![m] = @ + 1]) = SumFunction(sv) + 1
  <2> DEFINE g == [sv EXCEPT ![m] = @ + 1]
  <2>1. g \in [S -> Nat] /\ \A y \in S : sv[y] \in Int /\ g[y] = IF y = m THEN sv[y] + 1 ELSE sv[y]
    OBVIOUS
  <2> HIDE DEF g
  <2>2. Sigma(g, S) = Sigma(sv, S) + 1
    BY <1>1, <2>1, SigmaUpdate DEF Adjusted
  <2> QED
    BY <1>2, <2>1, <2>2 DEF g
<1> QED
  BY <1>2, <1>3

LEMMA NothingServed ==
    SumFunction([m \in PoolModels |-> 0]) = 0
<1> DEFINE z == [m \in PoolModels |-> 0]
<1>1. z \in [PoolModels -> Nat] /\ \A m \in PoolModels : z[m] = 0
  OBVIOUS
<1> HIDE DEF z
<1>2. IsFiniteSet(PoolModels)
  BY PoolsAssumption DEF PoolsAssumption
<1> QED
  BY <1>1, <1>2, ServedSum, SigmaZero DEF z

LEMMA PickArithmetic ==
    \A n, t, a, w, g \in Int :
        n = t * a - w * g => /\ n + a = (t + 1) * a - w * g
                             /\ n + a - w = (t + 1) * a - w * (g + 1)
OBVIOUS

LEMMA WeightedPick ==
    ASSUME NEW s \in MemberLists, s # <<>>,
           NEW sv \in [PoolModels -> Nat], SumFunction(sv) \in 0..(TotalWeight(s) - 1),
           NEW sc \in [DOMAIN s -> Int], Owed(s, sc, sv, SumFunction(sv)),
           NEW up \in [DOMAIN s -> Int], \A i \in DOMAIN s : up[i] = sc[i] + s[i].weight,
           NEW b \in DOMAIN s, \A j \in DOMAIN s : up[j] <= up[b],
           NEW nx, \A i \in DOMAIN s :
               nx[i] = IF i = b THEN up[i] - TotalWeight(s) ELSE up[i]
    PROVE  InCycle(s, nx, [sv EXCEPT ![s[b].model] = @ + 1])
<1> DEFINE S == DOMAIN s
           W == TotalWeight(s)
           t == SumFunction(sv)
           wt == Weights(s)
           none == [i \in S |-> 0]
           sv2 == [sv EXCEPT ![s[b].model] = @ + 1]
<1>1. /\ IsFiniteSet(S)
      /\ \A i \in S : wt[i] \in Nat \ {0} /\ s[i].weight = wt[i] /\ s[i].model \in PoolModels
      /\ \A i, j \in S : s[i].model = s[j].model => i = j
  BY MembersFacts
<1>2. W \in Nat /\ W > 0 /\ Sigma(wt, S) = W
  BY TotalFacts, HasMembers
<1>3. SumFunction(sv2) = t + 1 /\ t \in Int
  BY <1>1, ServedSum
<1>4. Sigma(sc, S) = 0
  BY DEF Owed
<1>5. \A i \in S : sc[i] \in Int /\ wt[i] \in Int /\ up[i] \in Int /\ up[i] = sc[i] + wt[i]
  BY <1>1
<1>6. Sigma(up, S) = W
  <2> HIDE DEF wt, S, W
  <2>1. Sigma(up, S) = Sigma(sc, S) + Sigma(wt, S)
    BY <1>1, <1>5, SigmaPlus
  <2> QED
    BY <1>2, <1>4, <2>1
<1>7. up[b] > 0
  <2>1. SUFFICES ASSUME ~(up[b] > 0) PROVE FALSE
    OBVIOUS
  <2>2. \A i \in S : up[i] <= none[i] /\ none[i] = 0 /\ none[i] \in Int
    BY <1>1, <1>5, <2>1
  <2>3. Sigma(up, S) <= Sigma(none, S) /\ Sigma(none, S) = 0
    <3> HIDE DEF none, S
    <3> QED
      BY <1>1, <1>5, <2>2, SigmaOrder, SigmaZero
  <2> QED
    BY <1>2, <1>6, <2>3
<1>8. \A i \in S : nx[i] = IF i = b THEN up[i] - W ELSE up[i]
  OBVIOUS
<1>9. Sigma(nx, S) = 0
  <2>1. PICK d \in Int : W + d = 0 /\ \A n \in Int : n - W = n + d
    <3>1. \A n \in Int : n - W = n + (0 - W)
      BY <1>2
    <3>2. 0 - W \in Int /\ W + (0 - W) = 0
      BY <1>2
    <3> QED
      BY <3>1, <3>2
  <2>2. Adjusted(up, nx, b, d, S)
    <3> HIDE DEF W
    <3> QED
      BY <1>5, <1>8, <2>1 DEF Adjusted
  <2>3. Sigma(nx, S) = Sigma(up, S) + d
    BY <1>1, <2>1, <2>2, SigmaUpdate
  <2> QED
    BY <1>6, <2>1, <2>3
<1>10. ASSUME NEW i \in S
      PROVE  nx[i] = (t + 1) * s[i].weight - W * sv2[s[i].model] /\ nx[i] > -W
  <2> DEFINE a == s[i].weight
             g == sv[s[i].model]
             n == sc[i]
  <2>1. n = t * a - W * g /\ n > -W
    BY DEF Owed
  <2>2. n \in Int /\ a \in Int /\ a > 0 /\ g \in Int /\ W \in Int /\ t \in Int
    BY <1>1, <1>2, <1>3
  <2>3. n + a = (t + 1) * a - W * g /\ n + a - W = (t + 1) * a - W * (g + 1)
    <3> HIDE DEF a, g, n, W, t
    <3> QED
      BY <2>1, <2>2, PickArithmetic
  <2>4. up[i] = n + a /\ (i = b => up[i] > 0)
    BY <1>1, <1>5, <1>7
  <2>5. CASE i = b
    <3>1. sv2[s[i].model] = g + 1
      BY <1>1, <2>5
    <3>2. nx[i] = up[i] - W
      BY <1>8, <2>5
    <3> HIDE DEF a, g, n, W, t, sv2
    <3>3. nx[i] = n + a - W /\ nx[i] > -W
      BY <2>2, <2>4, <2>5, <3>2
    <3> QED
      BY <2>3, <3>1, <3>3 DEF a
  <2>6. CASE i # b
    <3>1. sv2[s[i].model] = g
      BY <1>1, <2>6
    <3>2. nx[i] = up[i]
      BY <1>8, <2>6
    <3> HIDE DEF a, g, n, W, t, sv2
    <3>3. nx[i] = n + a /\ nx[i] > -W
      BY <2>1, <2>2, <2>4, <3>2
    <3> QED
      BY <2>3, <3>1, <3>3 DEF a
  <2> QED
    BY <2>5, <2>6
<1>11. SumFunction(sv2) \in 1..W
  BY <1>2, <1>3
<1>12. Owed(s, nx, sv2, t + 1)
  BY <1>9, <1>10 DEF Owed
<1> QED
  BY <1>3, <1>11, <1>12 DEF InCycle

(* A cycle that is over left every member with nothing owed.                 *)
LEMMA CycleEnds ==
    ASSUME NEW s \in MemberLists, s # <<>>, NEW sv \in [PoolModels -> Nat],
           NEW sc \in [DOMAIN s -> Int],
           InCycle(s, sc, sv), SumFunction(sv) = TotalWeight(s)
    PROVE  \A i \in DOMAIN s : sc[i] = 0
<1> DEFINE S == DOMAIN s
           W == TotalWeight(s)
<1>1. IsFiniteSet(S) /\ W \in Nat /\ W > 0
  BY MembersFacts, TotalFacts, HasMembers
<1>2. ASSUME NEW i \in S
      PROVE  sc[i] >= 0
  <2>1. sc[i] = W * s[i].weight - W * sv[s[i].model] /\ sc[i] > -W
    BY DEF InCycle, Owed
  <2> DEFINE a == s[i].weight
             n == sv[s[i].model]
  <2>2. a \in Int /\ n \in Int
    BY MembersFacts
  <2> HIDE DEF a, n, W
  <2>3. sc[i] = W * (a - n)
    BY <1>1, <2>1, <2>2 DEF a, n
  <2>4. CASE a - n >= 0
    BY <1>1, <2>2, <2>3, <2>4
  <2>5. CASE a - n <= -1
    <3>1. W * (a - n) <= W * (-1)
      <4>1. (a - n) * W <= (-1) * W
        BY <1>1, <2>2, <2>5, Ordered
      <4> QED
        BY <1>1, <2>2, <4>1
    <3> QED
      BY <1>1, <2>1, <2>3, <3>1
  <2> QED
    BY <2>2, <2>4, <2>5
<1>3. ASSUME NEW i \in S, sc[i] # 0
      PROVE  FALSE
  <2> DEFINE one == [k \in S |-> IF k = i THEN sc[i] ELSE 0]
  <2>1. /\ \A k \in S : one[k] = IF k = i THEN sc[i] ELSE 0
        /\ \A k \in S : one[k] \in Int /\ sc[k] \in Int /\ one[k] <= sc[k]
    BY <1>2
  <2>2. sc[i] \in Int /\ sc[i] > 0
    BY <1>2, <1>3
  <2>3. Sigma(one, S) = sc[i] /\ Sigma(one, S) <= Sigma(sc, S)
    <3> HIDE DEF one, S
    <3> QED
      BY <1>1, <2>1, <2>2, SigmaOne, SigmaOrder
  <2>4. Sigma(sc, S) = 0
    BY DEF InCycle, Owed
  <2> QED
    BY <2>2, <2>3, <2>4
<1> QED
  BY <1>3

LEMMA NothingOwed ==
    ASSUME NEW s \in MemberLists, s # <<>>, NEW sc, \A i \in DOMAIN s : sc[i] = 0
    PROVE  Owed(s, sc, [m \in PoolModels |-> 0], 0)
<1>1. IsFiniteSet(DOMAIN s) /\ TotalWeight(s) \in Nat /\ TotalWeight(s) > 0
  BY MembersFacts, TotalFacts, HasMembers
<1>2. Sigma(sc, DOMAIN s) = 0
  BY <1>1, SigmaZero
<1>3. ASSUME NEW i \in DOMAIN s
      PROVE  /\ sc[i] = 0 * s[i].weight - TotalWeight(s) * [m \in PoolModels |-> 0][s[i].model]
             /\ sc[i] > -TotalWeight(s)
  <2>1. s[i].model \in PoolModels /\ s[i].weight \in Nat
    BY MembersFacts
  <2>2. [m \in PoolModels |-> 0][s[i].model] = 0
    BY <2>1
  <2>3. sc[i] = 0
    OBVIOUS
  <2> QED
    BY <1>1, <2>1, <2>2, <2>3
<1> QED
  BY <1>2, <1>3 DEF Owed
-----------------------------------------------------------------------------
(* Ties. What a waiting member's rivals have in hand.                        *)
InHand(sc, i, S) == [j \in S |-> IF j = i \/ sc[j] < 0 THEN 0 ELSE sc[j]]

(* A member passed over p times in a row, tied each time, gained its weight  *)
(* each time until its score was at the limit; there the rivals' scores pay. *)
Waits(s, sc, p, i) ==
    p >= 1 =>
        LET w == TotalWeight(s)
            a == s[i].weight
            S == DOMAIN s
        IN /\ \A j \in S : sc[j] \in Int /\ -w <= sc[j] /\ sc[j] <= w
           /\ sc[i] < w => a * (p - 1) <= sc[i] + w
           /\ sc[i] = w =>
                  a * (p - 1) + Sigma(InHand(sc, i, S), S) <= (Len(s) + 1) * w - 1

(* Rivals at their limits, and less where one was just charged.              *)
LEMMA InHandBound ==
    ASSUME NEW s \in MemberLists, NEW i \in DOMAIN s, NEW sc,
           \A j \in DOMAIN s : sc[j] \in Int /\ sc[j] <= TotalWeight(s),
           NEW b \in DOMAIN s, b # i, NEW c \in Nat, c <= TotalWeight(s),
           sc[b] <= TotalWeight(s) - c
    PROVE  Sigma(InHand(sc, i, DOMAIN s), DOMAIN s) <= (Len(s) - 1) * TotalWeight(s) - c
<1> DEFINE S == DOMAIN s
           W == TotalWeight(s)
           all == [j \in S |-> W]
           most == [j \in S |-> IF j = i THEN 0 ELSE W]
           cap == [j \in S |-> IF j = i THEN 0 ELSE IF j = b THEN W - c ELSE W]
           f == InHand(sc, i, S)
<1>1. IsFiniteSet(S) /\ Cardinality(S) = Len(s) /\ Len(s) \in Nat
  BY MembersFacts
<1>2. W \in Nat
  BY TotalFacts
<1>3. PICK u \in Int : W + u = 0
  <2>1. 0 - W \in Int /\ W + (0 - W) = 0
    BY <1>2
  <2> QED
    BY <2>1
<1>4. PICK v \in Int : c + v = 0
  <2>1. 0 - c \in Int /\ c + (0 - c) = 0
    OBVIOUS
  <2> QED
    BY <2>1
<1>5. \A j \in S : f[j] \in Int /\ cap[j] \in Int /\ f[j] <= cap[j]
  <2>1. SUFFICES ASSUME NEW j \in S PROVE f[j] \in Int /\ cap[j] \in Int /\ f[j] <= cap[j]
    OBVIOUS
  <2>2. sc[j] \in Int /\ sc[j] <= W /\ (j = b => sc[j] <= W - c) /\ W - c >= 0 /\ W - c \in Int
    BY <1>2
  <2>3. f[j] = IF j = i \/ sc[j] < 0 THEN 0 ELSE sc[j]
    BY DEF InHand
  <2>4. cap[j] = IF j = i THEN 0 ELSE IF j = b THEN W - c ELSE W
    OBVIOUS
  <2> HIDE DEF cap, f, W
  <2> QED
    BY <1>2, <2>2, <2>3, <2>4
<1>6. Sigma(all, S) = W * Len(s)
  <2>1. \A j \in S : all[j] = W
    OBVIOUS
  <2>2. W \in Int
    BY <1>2
  <2> HIDE DEF all, W, S
  <2> QED
    BY <1>1, <2>1, <2>2, SigmaConstant
<1>7. Adjusted(all, most, i, u, S)
  <2>1. W + u = 0 /\ W \in Int
    BY <1>2, <1>3
  <2> HIDE DEF W
  <2> QED
    BY <2>1 DEF Adjusted
<1>8. Adjusted(most, cap, b, v, S)
  <2>1. W - c = W + v /\ W \in Int /\ 0 \in Int
    BY <1>2, <1>4
  <2> HIDE DEF W
  <2> QED
    BY <2>1 DEF Adjusted
<1> HIDE DEF all, most, cap, f
<1>9. Sigma(most, S) = Sigma(all, S) + u
  BY <1>1, <1>7, SigmaUpdate
<1>10. Sigma(cap, S) = Sigma(most, S) + v
  BY <1>1, <1>8, SigmaUpdate
<1>11. Sigma(f, S) <= Sigma(cap, S)
  BY <1>1, <1>5, SigmaOrder
<1>12. (Len(s) - 1) * W - c = ((W * Len(s)) + u) + v
  <2>1. \A n, w, x, y \in Int : w + x = 0 /\ c + y = 0 =>
            (n - 1) * w - c = ((w * n) + x) + y
    OBVIOUS
  <2>2. Len(s) \in Int /\ W \in Int
    BY <1>1, <1>2
  <2> HIDE DEF W
  <2> QED
    BY <1>3, <1>4, <2>1, <2>2
<1> QED
  BY <1>6, <1>9, <1>10, <1>11, <1>12 DEF f

(* While the waiting member is at its limit, each pick costs the rivals its  *)
(* weight: they gain what is left of the total weight and lose the total.    *)
LEMMA InHandFalls ==
    ASSUME NEW s \in MemberLists, NEW i \in DOMAIN s, NEW b \in DOMAIN s, b # i,
           NEW sc, \A j \in DOMAIN s : sc[j] \in Int,
           NEW nx, \A j \in DOMAIN s : nx[j] \in Int,
           sc[b] >= 0, nx[b] >= 0,
           nx[b] = (sc[b] + s[b].weight) - TotalWeight(s),
           \A j \in DOMAIN s : nx[j] <= sc[j] + s[j].weight
    PROVE  /\ Sigma(InHand(nx, i, DOMAIN s), DOMAIN s) + s[i].weight
                 <= Sigma(InHand(sc, i, DOMAIN s), DOMAIN s)
           /\ Sigma(InHand(nx, i, DOMAIN s), DOMAIN s) \in Int
           /\ Sigma(InHand(sc, i, DOMAIN s), DOMAIN s) \in Int
<1> DEFINE S == DOMAIN s
           W == TotalWeight(s)
           w == Weights(s)
           f == InHand(sc, i, S)
           g == InHand(nx, i, S)
           wi == [j \in S |-> IF j = i THEN 0 ELSE w[j]]
           wb == [j \in S |-> IF j = b THEN wi[j] - W ELSE wi[j]]
           h == [j \in S |-> f[j] + wb[j]]
<1>1. IsFiniteSet(S) /\ \A j \in S : w[j] \in Nat \ {0} /\ w[j] = s[j].weight
  BY MembersFacts
<1>2. W \in Nat /\ Sigma(w, S) = W
  BY TotalFacts
<1> HIDE DEF w, W
<1>3. PICK u \in Int : W + u = 0 /\ \A n \in Int : n - W = n + u
  <2>1. 0 - W \in Int /\ W + (0 - W) = 0 /\ \A n \in Int : n - W = n + (0 - W)
    BY <1>2
  <2> QED
    BY <2>1
<1>4. PICK v \in Int : w[i] + v = 0
  <2>1. 0 - w[i] \in Int /\ w[i] + (0 - w[i]) = 0
    BY <1>1
  <2> QED
    BY <2>1
<1>5. Adjusted(w, wi, i, v, S)
  BY <1>1, <1>4 DEF Adjusted
<1>6. \A j \in S : wi[j] = IF j = i THEN 0 ELSE w[j]
  OBVIOUS
<1>7. \A j \in S : wb[j] = IF j = b THEN wi[j] - W ELSE wi[j]
  OBVIOUS
<1> HIDE DEF wi, wb
<1>8. \A j \in S : wi[j] \in Int
  BY <1>1, <1>6
<1>9. Adjusted(wi, wb, b, u, S)
  BY <1>3, <1>7, <1>8 DEF Adjusted
<1>10. \A j \in S : wb[j] \in Int
  BY <1>2, <1>7, <1>8
<1>11. ASSUME NEW j \in S
       PROVE  f[j] \in Int /\ f[j] = IF j = i \/ sc[j] < 0 THEN 0 ELSE sc[j]
  BY DEF InHand
<1>12. ASSUME NEW j \in S
       PROVE  g[j] \in Int /\ g[j] = IF j = i \/ nx[j] < 0 THEN 0 ELSE nx[j]
  BY DEF InHand
<1>13. \A j \in S : h[j] = f[j] + wb[j]
  OBVIOUS
<1> HIDE DEF f, g, h
<1>14. \A j \in S : h[j] \in Int
  BY <1>10, <1>11, <1>13
<1>15. ASSUME NEW j \in S
       PROVE  g[j] <= h[j]
  <2>1. nx[j] \in Int /\ sc[j] \in Int /\ w[j] \in Int /\ w[j] > 0 /\ nx[j] <= sc[j] + w[j]
    BY <1>1
  <2>2. CASE j = i
    <3>1. g[j] = 0 /\ f[j] = 0 /\ wi[j] = 0 /\ wb[j] = wi[j]
      BY <1>6, <1>7, <1>11, <1>12, <2>2
    <3> QED
      BY <1>13, <3>1
  <2>3. CASE j = b
    <3>1. g[j] = nx[j] /\ f[j] = sc[j] /\ wb[j] = w[j] - W
      BY <1>6, <1>7, <1>11, <1>12, <2>1, <2>3
    <3>2. nx[j] = (sc[j] + w[j]) - W
      BY <1>1, <2>3 DEF W
    <3>3. \A x, y, z \in Int : (x + y) - z = x + (y - z)
      OBVIOUS
    <3>4. nx[j] = sc[j] + (w[j] - W)
      BY <1>2, <2>1, <3>2, <3>3
    <3>5. h[j] = sc[j] + (w[j] - W)
      BY <1>13, <3>1
    <3> QED
      BY <2>1, <3>1, <3>4, <3>5
  <2>4. CASE j # i /\ j # b
    <3>1. wb[j] = w[j]
      BY <1>6, <1>7, <2>4
    <3>2. h[j] = f[j] + w[j]
      BY <1>13, <3>1
    <3>3. f[j] = IF sc[j] < 0 THEN 0 ELSE sc[j]
      BY <1>11, <2>4
    <3>4. g[j] = IF nx[j] < 0 THEN 0 ELSE nx[j]
      BY <1>12, <2>4
    <3> QED
      BY <2>1, <3>2, <3>3, <3>4
  <2> QED
    BY <2>2, <2>3, <2>4
<1>16. Sigma(wi, S) = W + v
  BY <1>1, <1>2, <1>5, SigmaUpdate
<1>17. Sigma(wb, S) = (W + v) + u
  BY <1>1, <1>9, <1>16, SigmaUpdate
<1>18. Sigma(h, S) = Sigma(f, S) + Sigma(wb, S)
  BY <1>1, <1>10, <1>11, <1>13, SigmaPlus
<1>19. Sigma(g, S) <= Sigma(h, S)
  BY <1>1, <1>12, <1>14, <1>15, SigmaOrder
<1>20. Sigma(f, S) \in Int /\ Sigma(g, S) \in Int
  BY <1>1, <1>11, <1>12, SigmaType
<1>21. Sigma(g, S) + w[i] <= Sigma(f, S)
  BY <1>1, <1>2, <1>3, <1>4, <1>17, <1>18, <1>19, <1>20
<1> QED
  BY <1>1, <1>20, <1>21 DEF f, g, w

Clamped(n, w) == IF n > w THEN w ELSE IF n < -w THEN -w ELSE n

(* up, ch and nx are the scores raised, charged and kept within bounds.      *)
Raises(up, sc, s) ==
    \A j \in DOMAIN s : up[j] \in Int /\ sc[j] \in Int /\ up[j] = sc[j] + s[j].weight

Charges(ch, up, b, s) ==
    \A j \in DOMAIN s : ch[j] = IF j = b THEN up[j] - TotalWeight(s) ELSE up[j]

Clamps(nx, ch, s) == \A j \in DOMAIN s : nx[j] = Clamped(ch[j], TotalWeight(s))

LEMMA ClampedType ==
    ASSUME NEW w \in Nat, NEW n \in Int
    PROVE  /\ Clamped(n, w) \in Int /\ -w <= Clamped(n, w) /\ Clamped(n, w) <= w
           /\ -w <= n => Clamped(n, w) <= n
BY DEF Clamped

(* The waiting member's score x and the picked one's y, before and after.    *)
Turns(w, a, ab, x, y, xx, yy) ==
    /\ w \in Nat /\ a \in Nat /\ ab \in Nat /\ x \in Int /\ y \in Int
    /\ a > 0 /\ ab > 0 /\ a + ab <= w /\ x + a <= y + ab /\ -w <= x /\ x <= w /\ y <= w
    /\ xx = Clamped(x + a, w) /\ yy = Clamped((y + ab) - w, w)

LEMMA TiedArithmetic ==
    ASSUME NEW w, NEW a, NEW ab, NEW x, NEW y, NEW xx, NEW yy,
           Turns(w, a, ab, x, y, xx, yy)
    PROVE  /\ x < w /\ xx < w => xx = x + a
           /\ x < w /\ xx = w => yy <= w - a
           /\ x = w => xx = w /\ yy = (y + ab) - w /\ yy >= 0 /\ y >= 0
BY DEF Turns, Clamped

LEMMA TurnArithmetic ==
    ASSUME NEW n \in Int, NEW w \in Nat, NEW a \in Nat, NEW p \in Nat
    PROVE  /\ (n + 1) * w = (n - 1) * w + w + w /\ (n - 1) * w \in Int
           /\ a * ((p + 1) - 1) = a * (p - 1) + a /\ a * (p - 1) \in Int
           /\ p = 0 => a * ((p + 1) - 1) = 0
<1>1. \A x, y \in Int : (x + 1) * y = (x - 1) * y + y + y /\ (x - 1) * y \in Int
  OBVIOUS
<1>2. \A x, y \in Int : x * y = x * (y - 1) + x /\ x * (y - 1) \in Int /\ x * 0 = 0
  OBVIOUS
<1>3. (p + 1) - 1 = p
  OBVIOUS
<1> QED
  BY <1>1, <1>2, <1>3

LEMMA TiedPick ==
    ASSUME NEW s \in MemberLists, NEW i \in DOMAIN s, NEW b \in DOMAIN s, b # i,
           NEW sc, NEW up, Raises(up, sc, s), up[i] <= up[b],
           NEW ch, Charges(ch, up, b, s), NEW nx, Clamps(nx, ch, s),
           NEW p \in Nat, Waits(s, sc, p, i)
    PROVE  Waits(s, nx, p + 1, i)
<1> DEFINE S == DOMAIN s
           W == TotalWeight(s)
           a == s[i].weight
           ab == s[b].weight
           n == Len(s)
           turn == a * ((p + 1) - 1)
           hand == Sigma(InHand(sc, i, S), S)
           left == Sigma(InHand(nx, i, S), S)
<1>1. W \in Nat /\ a + ab <= W
  BY TotalFacts
<1>2. n \in Nat /\ a \in Nat /\ a > 0 /\ ab \in Nat /\ ab > 0 /\ IsFiniteSet(S)
  <2>1. a \in Nat \ {0} /\ ab \in Nat \ {0} /\ n \in Nat /\ IsFiniteSet(S)
    BY MembersFacts
  <2> HIDE DEF a, ab
  <2> QED
    BY <2>1
<1>3. ASSUME NEW j \in S
      PROVE  /\ sc[j] \in Int /\ s[j].weight \in Nat /\ up[j] = sc[j] + s[j].weight
             /\ up[j] \in Int /\ ch[j] = (IF j = b THEN up[j] - W ELSE up[j])
             /\ ch[j] \in Int /\ nx[j] = Clamped(ch[j], W)
             /\ nx[j] \in Int /\ -W <= nx[j] /\ nx[j] <= W
             /\ -W <= ch[j] => nx[j] <= ch[j]
  <2>1. sc[j] \in Int /\ up[j] = sc[j] + s[j].weight /\ up[j] \in Int /\ s[j].weight \in Nat
    BY MembersFacts DEF Raises
  <2>2. ch[j] = IF j = b THEN up[j] - W ELSE up[j]
    BY DEF Charges
  <2>3. nx[j] = Clamped(ch[j], W)
    BY DEF Clamps
  <2> HIDE DEF W
  <2>4. ch[j] \in Int
    BY <1>1, <2>1, <2>2
  <2>5. /\ nx[j] \in Int /\ -W <= nx[j] /\ nx[j] <= W
        /\ -W <= ch[j] => nx[j] <= ch[j]
    BY <1>1, <2>3, <2>4, ClampedType
  <2> QED
    BY <2>1, <2>2, <2>3, <2>4, <2>5
<1>4. nx[i] = Clamped(sc[i] + a, W) /\ nx[b] = Clamped((sc[b] + ab) - W, W)
  <2>1. ch[i] = sc[i] + a /\ nx[i] = Clamped(ch[i], W)
    BY <1>3
  <2>2. up[b] = sc[b] + ab /\ ch[b] = up[b] - W /\ nx[b] = Clamped(ch[b], W)
    BY <1>3
  <2> HIDE DEF W, a, ab
  <2> QED
    BY <2>1, <2>2
<1>5. sc[i] \in Int /\ sc[b] \in Int /\ sc[i] + a <= sc[b] + ab
  BY <1>3
<1>6. \A j \in S : nx[j] \in Int /\ -W <= nx[j] /\ nx[j] <= W
  BY <1>3
<1>7. \A j \in S : InHand(nx, i, S)[j] \in Int
  BY <1>6 DEF InHand
<1>8. left \in Int
  BY <1>2, <1>7, SigmaType
<1>9. /\ (n + 1) * W = (n - 1) * W + W + W /\ (n - 1) * W \in Int
      /\ turn = a * (p - 1) + a /\ a * (p - 1) \in Int
      /\ p = 0 => turn = 0
  <2> HIDE DEF n, W, a
  <2> QED
    BY <1>1, <1>2, TurnArithmetic
<1>10. ASSUME NEW c \in Nat, c <= W, nx[b] <= W - c
       PROVE  left <= (n - 1) * W - c
  <2>1. \A j \in S : nx[j] \in Int /\ nx[j] <= TotalWeight(s)
    BY <1>6
  <2> HIDE DEF S, n
  <2> QED
    BY <2>1, <1>10, InHandBound DEF S, n
<1>11. left <= (n - 1) * W
  <2>1. 0 \in Nat /\ 0 <= W /\ nx[b] <= W - 0
    BY <1>1, <1>6
  <2>2. left <= (n - 1) * W - 0
    BY <1>10, <2>1
  <2> HIDE DEF left, n, W
  <2> QED
    BY <1>8, <1>9, <2>2
<1>12. SUFFICES /\ nx[i] < W => turn <= nx[i] + W
                /\ nx[i] = W => turn + left <= (n + 1) * W - 1
  BY <1>6 DEF Waits
<1>13. nx[i] \in Int /\ -W <= nx[i] /\ nx[i] <= W
  BY <1>6
<1>14. CASE p = 0
  <2> HIDE DEF W, a, n, left, turn
  <2> QED
    BY <1>1, <1>2, <1>8, <1>9, <1>11, <1>13, <1>14
<1>15. CASE p >= 1
  <2>1. /\ \A j \in S : sc[j] \in Int /\ -W <= sc[j] /\ sc[j] <= W
        /\ sc[i] < W => a * (p - 1) <= sc[i] + W
        /\ sc[i] = W => a * (p - 1) + hand <= (n + 1) * W - 1
    BY <1>15 DEF Waits
  <2>2. -W <= sc[i] /\ sc[i] <= W /\ sc[b] <= W
    BY <2>1
  <2>3. /\ sc[i] < W /\ nx[i] < W => nx[i] = sc[i] + a
        /\ sc[i] < W /\ nx[i] = W => nx[b] <= W - a
        /\ sc[i] = W => nx[i] = W /\ nx[b] = (sc[b] + ab) - W /\ nx[b] >= 0 /\ sc[b] >= 0
    <3>1. /\ W \in Nat /\ a \in Nat /\ ab \in Nat /\ sc[i] \in Int /\ sc[b] \in Int
          /\ a > 0 /\ ab > 0 /\ a + ab <= W /\ sc[i] + a <= sc[b] + ab
          /\ -W <= sc[i] /\ sc[i] <= W /\ sc[b] <= W
      BY <1>1, <1>2, <1>5, <2>2
    <3>2. nx[i] = Clamped(sc[i] + a, W) /\ nx[b] = Clamped((sc[b] + ab) - W, W)
      BY <1>4
    <3>3. Turns(W, a, ab, sc[i], sc[b], nx[i], nx[b])
      <4> HIDE DEF W, a, ab
      <4> QED
        BY <3>1, <3>2 DEF Turns
    <3> HIDE DEF W, a, ab
    <3> QED
      BY <3>3, TiedArithmetic
  <2>4. CASE sc[i] < W /\ nx[i] < W
    <3>1. a * (p - 1) <= sc[i] + W /\ nx[i] = sc[i] + a
      BY <2>1, <2>3, <2>4
    <3> HIDE DEF W, a, n, left, turn
    <3> QED
      BY <1>1, <1>2, <1>5, <1>9, <2>4, <3>1
  <2>5. CASE sc[i] < W /\ nx[i] = W
    <3>1. a * (p - 1) <= sc[i] + W /\ nx[b] <= W - a
      BY <2>1, <2>3, <2>5
    <3>2. a \in Nat /\ a <= W
      BY <1>1, <1>2
    <3>3. left <= (n - 1) * W - a
      BY <1>10, <3>1, <3>2
    <3> HIDE DEF W, a, n, left, turn
    <3> QED
      BY <1>1, <1>2, <1>5, <1>8, <1>9, <2>5, <3>1, <3>3
  <2>6. CASE sc[i] = W
    <3>1. /\ a * (p - 1) + hand <= (n + 1) * W - 1
          /\ nx[i] = W /\ nx[b] = (sc[b] + ab) - W /\ nx[b] >= 0 /\ sc[b] >= 0
      BY <2>1, <2>3, <2>6
    <3>2. ASSUME NEW j \in S
          PROVE  nx[j] <= sc[j] + s[j].weight
      <4>1. CASE j = b
        <5>1. nx[j] = (sc[j] + s[j].weight) - W
          BY <3>1, <4>1
        <5>2. sc[j] \in Int /\ s[j].weight \in Nat
          BY <1>3
        <5> HIDE DEF W
        <5> QED
          BY <1>1, <5>1, <5>2
      <4>2. CASE j # b
        <5>1. ch[j] = sc[j] + s[j].weight /\ s[j].weight \in Nat /\ -W <= sc[j] /\ sc[j] \in Int
          BY <1>3, <2>1, <4>2
        <5>2. -W <= ch[j] => nx[j] <= ch[j]
          BY <1>3
        <5> HIDE DEF W
        <5> QED
          BY <1>1, <5>1, <5>2
      <4> QED
        BY <4>1, <4>2
    <3>3. left + a <= hand /\ hand \in Int
      <4>1. \A j \in DOMAIN s : sc[j] \in Int
        BY <2>1
      <4>2. \A j \in DOMAIN s : nx[j] \in Int
        BY <1>6
      <4>3. \A j \in DOMAIN s : nx[j] <= sc[j] + s[j].weight
        BY <3>2
      <4>4. nx[b] = (sc[b] + s[b].weight) - TotalWeight(s) /\ nx[b] >= 0 /\ sc[b] >= 0
        BY <3>1
      <4> QED
        BY <4>1, <4>2, <4>3, <4>4, InHandFalls
    <3> HIDE DEF W, a, n, left, hand, turn
    <3> QED
      BY <1>1, <1>2, <1>8, <1>9, <3>1, <3>3
  <2>7. (sc[i] < W /\ nx[i] < W) \/ (sc[i] < W /\ nx[i] = W) \/ sc[i] = W
    <3> HIDE DEF W
    <3> QED
      BY <1>1, <1>5, <1>13, <2>2
  <2> HIDE DEF W, n, left, turn
  <2> QED
    BY <2>4, <2>5, <2>6, <2>7
<1> QED
  BY <1>14, <1>15
-----------------------------------------------------------------------------
PoolsTyped ==
    /\ pool \in PoolConfigs \cup {NoPool}
    /\ active \in [PoolModels -> Nat]
    /\ served \in [PoolModels -> Nat]
    /\ passed \in [PoolModels -> Nat]
    /\ balance # NoPool =>
           /\ balance.signature \in MemberLists
           /\ balance.signature # <<>>
           /\ balance.scores \in [DOMAIN balance.signature -> Int]

(* While every pick was a weighted one the scores are those of the cycle.    *)
CycleKept ==
    clean /\ balance # NoPool => InCycle(balance.signature, balance.scores, served)

(* Whatever was picked, a waiting member's turn approaches.                  *)
TurnsKept ==
    balance # NoPool =>
        \A i \in DOMAIN balance.signature :
            Waits(balance.signature, balance.scores,
                  passed[balance.signature[i].model], i)

Rotating == PoolsTyped /\ CycleKept /\ TurnsKept

Again == balance # NoPool /\ balance.signature = Members

LEMMA PlanFacts ==
    ASSUME PoolsTyped, pool # NoPool, Members # <<>>
    PROVE  /\ Members \in MemberLists
           /\ Scores \in [DOMAIN Members -> Int]
           /\ Raised \in [DOMAIN Members -> Int]
           /\ \A i \in DOMAIN Members : Raised[i] = Scores[i] + Members[i].weight
           /\ Best \in Eligible /\ Best \in DOMAIN Members
           /\ \A j \in Eligible : j \in DOMAIN Members /\ Raised[j] <= Raised[Best]
           /\ TotalWeight(Members) \in Nat /\ TotalWeight(Members) > 0
<1>1. pool \in PoolConfigs /\ active \in [PoolModels -> Nat]
  BY DEF PoolsTyped
<1>2. Members \in MemberLists
  BY <1>1, MembersAreLists
<1>3. Scores \in [DOMAIN Members -> Int]
  BY DEF Scores, Zeros, PoolsTyped
<1>4. \A i \in DOMAIN Members : Members[i].weight \in Nat \ {0}
  BY <1>2, MembersFacts
<1>5. /\ Raised \in [DOMAIN Members -> Int]
      /\ \A i \in DOMAIN Members : Raised[i] = Scores[i] + Members[i].weight
  BY <1>3, <1>4 DEF Raised
<1>6. /\ Eligible \subseteq DOMAIN Members /\ Best \in Eligible
      /\ \A j \in Eligible : Raised[j] <= Raised[Best]
  BY <1>1, <1>5, BestChosen
<1> QED
  BY <1>2, <1>3, <1>5, <1>6, TotalFacts, HasMembers

LEMMA PlanKeepsType ==
    ASSUME PoolsTyped, PlanPool
    PROVE  PoolsTyped'
<1> DEFINE s == Members
           b == Best
           W == TotalWeight(s)
           ch == [Raised EXCEPT ![b] = @ - Charged(b)]
           nx == Bounded(ch)
           old == IF Again /\ ServedTotal < W THEN served ELSE [m \in PoolModels |-> 0]
<1>1. pool # NoPool /\ s # <<>>
  BY DEF PlanPool
<1>2. /\ s \in MemberLists /\ b \in DOMAIN s /\ W \in Nat
      /\ Raised \in [DOMAIN s -> Int]
  BY <1>1, PlanFacts
<1>3. ch \in [DOMAIN s -> Int]
  BY <1>2 DEF Charged
<1>4. nx \in [DOMAIN s -> Int]
  <2>1. \A i \in DOMAIN s : Clamp(ch[i], W) \in Int
    <3> HIDE DEF ch, W
    <3> QED
      BY <1>2, <1>3, ClampBounds
  <2> HIDE DEF ch
  <2> QED
    BY <1>3, <2>1 DEF Bounded
<1>5. /\ balance' = [signature |-> s, scores |-> nx] /\ pool' = pool
      /\ active' = [active EXCEPT ![s[b].model] = @ + 1]
      /\ served' = [old EXCEPT ![s[b].model] = @ + 1]
      /\ passed' = [m \in PoolModels |->
             IF /\ Again /\ pool.strategy = "least-requests"
                /\ m \in {s[j].model : j \in Eligible} /\ m # s[b].model
             THEN passed[m] + 1 ELSE 0]
  BY DEF PlanPool, Note, Again
<1>6. old \in [PoolModels -> Nat] /\ s[b].model \in PoolModels
  BY <1>2, MembersFacts DEF PoolsTyped
<1> HIDE DEF s, b, W, ch, nx, old
<1>7. active' \in [PoolModels -> Nat] /\ served' \in [PoolModels -> Nat]
  BY <1>5, <1>6 DEF PoolsTyped
<1>8. passed' \in [PoolModels -> Nat]
  BY <1>5 DEF PoolsTyped
<1>9. balance'.signature = s /\ balance'.scores = nx
  BY <1>5
<1> QED
  BY <1>1, <1>2, <1>4, <1>5, <1>7, <1>8, <1>9 DEF PoolsTyped

LEMMA PlanKeepsCycle ==
    ASSUME PoolsTyped, CycleKept, PlanPool
    PROVE  CycleKept'
<1> DEFINE s == Members
           b == Best
           W == TotalWeight(s)
           sc == Scores
           zero == [m \in PoolModels |-> 0]
           nx == [Raised EXCEPT ![b] = @ - W]
           old == IF Again /\ ServedTotal < W THEN served ELSE zero
<1>1. SUFFICES ASSUME clean' PROVE InCycle(s, nx, [old EXCEPT ![s[b].model] = @ + 1])
  <2>1. ASSUME clean' PROVE balance' = [signature |-> s, scores |-> nx]
    BY <2>1 DEF PlanPool, Note, Bounded, Charged
  <2>2. served' = [old EXCEPT ![s[b].model] = @ + 1]
    BY DEF PlanPool, Note, Again
  <2> HIDE DEF s, nx, old
  <2>3. ASSUME clean' PROVE balance'.signature = s /\ balance'.scores = nx
    BY <2>1, <2>3
  <2> QED
    BY <2>2, <2>3 DEF CycleKept
<1>2. pool # NoPool /\ s # <<>> /\ (Again => clean) /\ pool.strategy # "least-requests"
  BY <1>1 DEF PlanPool, Note, Again
<1>3. /\ s \in MemberLists /\ b \in DOMAIN s /\ sc \in [DOMAIN s -> Int]
      /\ Raised \in [DOMAIN s -> Int] /\ W \in Nat /\ W > 0
      /\ \A i \in DOMAIN s : Raised[i] = sc[i] + s[i].weight
      /\ \A j \in DOMAIN s : Raised[j] <= Raised[b]
  <2>1. Eligible = DOMAIN s
    BY <1>2 DEF Eligible
  <2> QED
    BY <1>2, <2>1, PlanFacts
<1>4. served \in [PoolModels -> Nat] /\ zero \in [PoolModels -> Nat]
  BY DEF PoolsTyped
<1>5. Again => InCycle(s, sc, served)
  BY <1>2 DEF CycleKept, Again, Scores
<1>6. /\ old \in [PoolModels -> Nat] /\ SumFunction(old) \in 0..(W - 1)
      /\ Owed(s, sc, old, SumFunction(old))
  <2>1. CASE Again /\ ServedTotal < W
    <3>1. old = served
      BY <2>1
    <3>2. SumFunction(served) \in 1..W /\ Owed(s, sc, served, SumFunction(served))
      BY <1>5, <2>1 DEF InCycle
    <3> QED
      BY <1>3, <1>4, <2>1, <3>1, <3>2 DEF ServedTotal
  <2>2. CASE ~(Again /\ ServedTotal < W)
    <3>1. old = zero
      BY <2>2
    <3>2. SumFunction(zero) = 0
      BY NothingServed
    <3>3. \A i \in DOMAIN s : sc[i] = 0
      <4>1. CASE Again
        <5>1. SumFunction(served) \in 1..W /\ ~(SumFunction(served) < W)
          BY <1>5, <2>2, <4>1 DEF InCycle, ServedTotal
        <5>2. SumFunction(served) = W
          BY <1>3, <5>1
        <5> HIDE DEF s, sc
        <5> QED
          BY <1>2, <1>3, <1>4, <1>5, <4>1, <5>2, CycleEnds
      <4>2. CASE ~Again
        BY <4>2 DEF Again, Scores, Zeros
      <4> QED
        BY <4>1, <4>2
    <3>4. Owed(s, sc, zero, 0)
      <4> HIDE DEF s, sc
      <4> QED
        BY <1>2, <1>3, <3>3, NothingOwed
    <3> HIDE DEF zero, old, s, sc
    <3> QED
      BY <1>3, <1>4, <3>1, <3>2, <3>4
  <2> QED
    BY <2>1, <2>2
<1>7. \A i \in DOMAIN s : nx[i] = IF i = b THEN Raised[i] - TotalWeight(s) ELSE Raised[i]
  BY <1>3
<1> DEFINE up == Raised
<1> HIDE DEF s, b, sc, nx, old, up
<1> QED
  BY <1>2, <1>3, <1>6, <1>7, WeightedPick DEF up

LEMMA PlanKeepsTurns ==
    ASSUME PoolsTyped, TurnsKept, PlanPool
    PROVE  TurnsKept'
<1> DEFINE s == Members
           b == Best
           W == TotalWeight(s)
           sc == Scores
           up == Raised
           ch == [Raised EXCEPT ![b] = @ - Charged(b)]
           nx == Bounded(ch)
<1>1. pool # NoPool /\ s # <<>>
  BY DEF PlanPool
<1>2. /\ balance' = [signature |-> s, scores |-> nx]
      /\ passed' = [m \in PoolModels |->
             IF /\ Again /\ pool.strategy = "least-requests"
                /\ m \in {s[j].model : j \in Eligible} /\ m # s[b].model
             THEN passed[m] + 1 ELSE 0]
  BY DEF PlanPool, Note, Again
<1>3. /\ s \in MemberLists /\ b \in DOMAIN s /\ sc \in [DOMAIN s -> Int]
      /\ up \in [DOMAIN s -> Int] /\ W \in Nat
      /\ \A i \in DOMAIN s : up[i] = sc[i] + s[i].weight
      /\ \A j \in Eligible : j \in DOMAIN s /\ up[j] <= up[b]
  BY <1>1, PlanFacts
<1>4. /\ \A i \in DOMAIN s : s[i].model \in PoolModels
      /\ \A i, j \in DOMAIN s : s[i].model = s[j].model => i = j
  BY <1>3, MembersFacts
<1>5. \A i \in DOMAIN s : ch[i] = IF i = b THEN up[i] - TotalWeight(s) ELSE up[i]
  BY <1>3 DEF Charged
<1>6. ASSUME pool.strategy = "least-requests"
      PROVE  \A i \in DOMAIN s : nx[i] = Clamp(ch[i], W)
  <2>1. DOMAIN ch = DOMAIN s
    BY <1>3
  <2> HIDE DEF ch
  <2> QED
    BY <1>6, <2>1 DEF Bounded
<1>7. Raises(up, sc, s)
  BY <1>3 DEF Raises
<1>8. Charges(ch, up, b, s)
  <2> HIDE DEF ch, up, b, s
  <2> QED
    BY <1>5 DEF Charges
<1>9. ASSUME pool.strategy = "least-requests"
      PROVE  Clamps(nx, ch, s)
  <2>1. \A i \in DOMAIN s : ch[i] \in Int
    BY <1>3, <1>5
  <2>2. ASSUME NEW i \in DOMAIN s
        PROVE  nx[i] = Clamped(ch[i], TotalWeight(s))
    <3>1. nx[i] = Clamp(ch[i], W)
      BY <1>6, <1>9
    <3>2. ch[i] \in Int
      BY <2>1
    <3> HIDE DEF nx, ch, W
    <3>3. Clamp(ch[i], W) = Clamped(ch[i], W)
      BY <1>3, <3>2, ClampBounds DEF Clamped
    <3> QED
      BY <3>1, <3>3 DEF W
  <2> QED
    BY <2>2 DEF Clamps
<1>10. ASSUME NEW i \in DOMAIN s
       PROVE  Waits(s, nx, passed'[s[i].model], i)
  <2> DEFINE m == s[i].model
  <2>1. m \in PoolModels
    BY <1>4
  <2>2. CASE /\ Again /\ pool.strategy = "least-requests"
             /\ m \in {s[j].model : j \in Eligible} /\ m # s[b].model
    <3>1. passed'[m] = passed[m] + 1 /\ passed[m] \in Nat
      BY <1>2, <2>1, <2>2 DEF PoolsTyped
    <3>2. i \in Eligible
      BY <1>3, <1>4, <2>2
    <3>3. b # i /\ up[i] <= up[b]
      BY <1>3, <2>2, <3>2
    <3>4. Waits(s, sc, passed[m], i)
      BY <2>2 DEF TurnsKept, Again, Scores
    <3>5. Clamps(nx, ch, s)
      BY <1>9, <2>2
    <3> HIDE DEF s, b, W, sc, up, ch, nx, m
    <3>6. Waits(s, nx, passed[m] + 1, i)
      BY <1>3, <1>7, <1>8, <3>1, <3>3, <3>4, <3>5, TiedPick
    <3> QED
      BY <3>1, <3>6 DEF m
  <2>3. CASE ~(/\ Again /\ pool.strategy = "least-requests"
               /\ m \in {s[j].model : j \in Eligible} /\ m # s[b].model)
    <3>1. passed'[m] = 0
      <4> HIDE DEF s, b, m
      <4> QED
        BY <1>2, <2>1, <2>3
    <3> QED
      BY <3>1 DEF Waits
  <2> QED
    BY <2>2, <2>3
<1> HIDE DEF s, nx
<1>11. balance'.signature = s /\ balance'.scores = nx
  BY <1>2
<1> QED
  BY <1>10, <1>11 DEF TurnsKept

LEMMA RotatingStep ==
    ASSUME Rotating, [PoolsNext]_poolVars
    PROVE  Rotating'
<1>1. CASE PlanPool
  BY <1>1, PlanKeepsType, PlanKeepsCycle, PlanKeepsTurns DEF Rotating
<1>2. CASE PlanOther
  BY <1>2 DEF PlanOther, Rotating, PoolsTyped, CycleKept, TurnsKept
<1>3. ASSUME NEW m \in PoolModels, Release(m)
      PROVE  Rotating'
  <2>1. active' \in [PoolModels -> Nat]
    BY <1>3 DEF Release, Rotating, PoolsTyped
  <2> QED
    BY <1>3, <2>1 DEF Release, Rotating, PoolsTyped, CycleKept, TurnsKept
<1>4. ASSUME NEW m \in PoolModels, Connect(m)
      PROVE  Rotating'
  BY <1>4 DEF Connect, Rotating, PoolsTyped, CycleKept, TurnsKept
<1>5. ASSUME NEW c \in PoolConfigs \cup {NoPool}, Reconfigure(c)
      PROVE  Rotating'
  BY <1>5 DEF Reconfigure, Rotating, PoolsTyped, CycleKept, TurnsKept
<1>6. CASE UNCHANGED poolVars
  BY <1>6 DEF poolVars, Rotating, PoolsTyped, CycleKept, TurnsKept
<1> QED
  BY <1>1, <1>2, <1>3, <1>4, <1>5, <1>6 DEF PoolsNext

LEMMA RotatingIsFair ==
    ASSUME Rotating
    PROVE  FairShare
<1> SUFFICES ASSUME clean, balance # NoPool, NEW i \in DOMAIN balance.signature
             PROVE  LET w == TotalWeight(balance.signature)
                        m == balance.signature[i]
                        ahead == served[m.model] * w - ServedTotal * m.weight
                    IN ahead < w /\ (ServedTotal = w => ahead = 0)
  BY DEF FairShare
<1> DEFINE s == balance.signature
           sc == balance.scores
           w == TotalWeight(s)
           t == SumFunction(served)
           a == s[i].weight
           g == served[s[i].model]
           n == sc[i]
<1>1. /\ s \in MemberLists /\ s # <<>> /\ sc \in [DOMAIN s -> Int]
      /\ served \in [PoolModels -> Nat] /\ InCycle(s, sc, served)
  BY DEF Rotating, PoolsTyped, CycleKept
<1>2. n = t * a - w * g /\ n > -w
  BY <1>1 DEF InCycle, Owed
<1>3. t = w => n = 0
  <2> HIDE DEF s, sc
  <2> QED
    BY <1>1, CycleEnds DEF s
<1>4. n \in Int /\ t \in Int /\ a \in Int /\ w \in Int /\ g \in Int
  BY <1>1, MembersFacts, TotalFacts, ServedSum
<1>5. g * w - t * a < w /\ (t = w => g * w - t * a = 0)
  <2> HIDE DEF s, sc, w, t, a, g, n
  <2>1. g * w = w * g /\ w * g \in Int /\ t * a \in Int
    BY <1>4
  <2> QED
    BY <1>2, <1>3, <1>4, <2>1
<1> QED
  BY <1>5 DEF ServedTotal

LEMMA TurnBound ==
    ASSUME NEW n \in Nat, n >= 1, NEW w \in Nat, w > 0, NEW a \in Nat, a <= w
    PROVE  /\ (n + 2) * w = (n + 1) * w + w /\ (n + 1) * w = n * w + w
           /\ n * w >= w /\ n * w \in Int
           /\ \A p \in Nat : p * a = a * (p - 1) + a /\ a * (p - 1) \in Int
<1>1. \A x, y \in Int : (x + 2) * y = (x + 1) * y + y /\ (x + 1) * y = x * y + y /\ x * y \in Int
  OBVIOUS
<1>2. \A x, y \in Int : x * y = y * (x - 1) + y /\ y * (x - 1) \in Int
  OBVIOUS
<1>3. 1 * w <= n * w
  BY Ordered
<1> QED
  BY <1>1, <1>2, <1>3

LEMMA RotatingTakesTurns ==
    ASSUME Rotating
    PROVE  TiesRotate
<1> SUFFICES ASSUME balance # NoPool, NEW i \in DOMAIN balance.signature
             PROVE  passed[balance.signature[i].model] * balance.signature[i].weight
                        < (Len(balance.signature) + 2) * TotalWeight(balance.signature)
  BY DEF TiesRotate
<1> DEFINE s == balance.signature
           sc == balance.scores
           S == DOMAIN s
           w == TotalWeight(s)
           n == Len(s)
           a == s[i].weight
           p == passed[s[i].model]
           f == InHand(sc, i, S)
           none == [j \in S |-> 0]
<1>1. s \in MemberLists /\ s # <<>> /\ Waits(s, sc, p, i) /\ passed \in [PoolModels -> Nat]
  BY DEF Rotating, PoolsTyped, TurnsKept
<1>2. /\ n \in Nat /\ S = 1..n /\ IsFiniteSet(S) /\ a \in Nat \ {0} /\ a <= w
      /\ w \in Nat /\ w > 0 /\ p \in Nat
  BY <1>1, MembersFacts, TotalFacts, HasMembers
<1>3. n >= 1 /\ a \in Nat
  BY <1>2
<1>4. /\ (n + 2) * w = (n + 1) * w + w /\ (n + 1) * w = n * w + w
      /\ n * w >= w /\ n * w \in Int
      /\ p * a = a * (p - 1) + a /\ a * (p - 1) \in Int
  <2> HIDE DEF n, w, a, p
  <2> QED
    BY <1>2, <1>3, TurnBound
<1>5. CASE p = 0
  <2>1. p * a = 0
    BY <1>2, <1>5
  <2> HIDE DEF n, w, a, p
  <2> QED
    BY <1>2, <1>4, <2>1 DEF n, w, a, p
<1>6. CASE p >= 1
  <2>1. /\ \A j \in S : sc[j] \in Int /\ -w <= sc[j] /\ sc[j] <= w
        /\ sc[i] < w => a * (p - 1) <= sc[i] + w
        /\ sc[i] = w => a * (p - 1) + Sigma(f, S) <= (n + 1) * w - 1
    BY <1>1, <1>6 DEF Waits
  <2>2. \A j \in S : f[j] \in Int /\ none[j] = 0 /\ none[j] \in Int /\ none[j] <= f[j]
    BY <2>1 DEF InHand
  <2>3. Sigma(f, S) \in Int /\ Sigma(f, S) >= 0
    <3> HIDE DEF f, none, S
    <3>1. Sigma(none, S) <= Sigma(f, S) /\ Sigma(none, S) = 0
      BY <1>2, <2>2, SigmaOrder, SigmaZero
    <3> QED
      BY <1>2, <2>2, <3>1, SigmaType
  <2>4. sc[i] \in Int /\ sc[i] <= w
    BY <2>1
  <2> DEFINE turn == a * (p - 1)
             hand == Sigma(f, S)
             k == (n + 1) * w
             score == sc[i]
  <2>5. /\ score < w => turn <= score + w
        /\ score = w => turn + hand <= k - 1
    BY <2>1
  <2>6. /\ p * a = turn + a /\ (n + 2) * w = k + w /\ k = n * w + w
        /\ turn \in Int /\ k \in Int
    BY <1>2, <1>4
  <2>7. p * a < (n + 2) * w
    <3> HIDE DEF turn, hand, k, score, n, w, a, p, f, S, sc
    <3>1. hand \in Int /\ hand >= 0 /\ score \in Int /\ score <= w
      BY <2>3, <2>4 DEF hand, score
    <3> QED
      BY <1>2, <1>3, <1>4, <2>5, <2>6, <3>1
  <2> QED
    BY <2>7
<1> QED
  BY <1>2, <1>5, <1>6

LEMMA RotatingInit ==
    ASSUME PoolsInit
    PROVE  Rotating
BY DEF PoolsInit, Rotating, PoolsTyped, CycleKept, TurnsKept

(* The balances' and histories' types, for any configurations and models.    *)
THEOREM PoolsAreTyped == PoolsSpec => []PoolsTyped
<1>1. PoolsInit => Rotating
  BY RotatingInit
<1>2. Rotating /\ [PoolsNext]_poolVars => Rotating'
  BY RotatingStep
<1>3. Rotating => PoolsTyped
  BY DEF Rotating
<1> QED
  BY <1>1, <1>2, <1>3, PTL DEF PoolsSpec

(* Load balancing is fair: for any number of members with any weights, any   *)
(* changes of settings and connections, and any load.                        *)
THEOREM PoolsAreFair == PoolsSpec => []PoolsFair
<1>1. PoolsInit => Rotating
  BY RotatingInit
<1>2. Rotating /\ [PoolsNext]_poolVars => Rotating'
  BY RotatingStep
<1>3. Rotating => PoolsFair
  BY RotatingIsFair, RotatingTakesTurns DEF PoolsFair
<1> QED
  BY <1>1, <1>2, <1>3, PTL DEF PoolsSpec
-----------------------------------------------------------------------------
(* Reports: ReportsAgree, for any calls, queries and limits.                 *)

(* More about sums: over a part, over two parts, over renamed indices, and   *)
(* over the fibres of a grouping.                                            *)
LEMMA SigmaSame ==
    ASSUME NEW S, IsFiniteSet(S), NEW f, NEW g, \A x \in S : f[x] \in Int /\ g[x] = f[x]
    PROVE  Sigma(g, S) = Sigma(f, S)
<1>1. Sigma(f, S) \in Int /\ Sigma(g, S) \in Int
  BY SigmaType
<1>2. \A x \in S : f[x] \in Int /\ g[x] \in Int /\ f[x] <= g[x] /\ g[x] <= f[x]
  OBVIOUS
<1>3. Sigma(f, S) <= Sigma(g, S) /\ Sigma(g, S) <= Sigma(f, S)
  BY <1>2, SigmaOrder
<1> QED
  BY <1>1, <1>3

LEMMA SigmaEmpty == \A f : Sigma(f, {}) = 0
<1>1. SUFFICES ASSUME NEW f PROVE Sigma(f, {}) = 0
  OBVIOUS
<1>2. IsFiniteSet({})
  BY FS_EmptySet
<1>3. IsSum(Sums(f, {}), f, {})
  BY <1>2, SumExists
<1> QED
  BY <1>3 DEF IsSum, Sigma

(* A set from which an element is taken as long as there is one.             *)
LEMMA PickExists ==
    ASSUME NEW S
    PROVE  \E c : Picks(c, S)
<1> DEFINE Anyone(T) == CHOOSE x \in T : TRUE
           c == [T \in SUBSET S |-> Anyone(T)]
<1>1. \A T \in SUBSET S : T # {} => Anyone(T) \in T
  OBVIOUS
<1> HIDE DEF Anyone
<1>2. Picks(c, S)
  BY <1>1 DEF Picks
<1> QED
  BY <1>2

LEMMA SigmaPart ==
    ASSUME NEW S, NEW f, Terms(f, S), NEW A \in SUBSET S
    PROVE  Terms(f, A) /\ Sums(f, S)[A] = Sigma(f, A)
<1>1. IsSum(Sums(f, S), f, S)
  BY SumExists DEF Terms
<1>2. PICK c : Picks(c, A)
  BY PickExists
<1>3. Terms(f, A)
  BY FS_Subset DEF Terms
<1> DEFINE G == Sums(f, S)
<1>4. AddsUp(G, c, f, A)
  <2> HIDE DEF G
  <2>1. ASSUME NEW T \in SUBSET A, T # {}
        PROVE  G[T] = G[T \ {c[T]}] + f[c[T]]
    <3>1. c[T] \in T /\ T \in SUBSET S
      BY <1>2, <2>1 DEF Picks
    <3> QED
      BY <1>1, <3>1 DEF IsSum, G
  <2>2. G[{}] = 0
    BY <1>1 DEF IsSum, G
  <2> QED
    BY <2>1, <2>2 DEF AddsUp
<1> QED
  BY <1>2, <1>3, <1>4, FoldIsSum

LEMMA SigmaParts ==
    ASSUME NEW S, NEW f, Terms(f, S), NEW A, NEW B, S = A \cup B, A \cap B = {}
    PROVE  /\ Terms(f, A) /\ Terms(f, B)
           /\ Sigma(f, S) = Sigma(f, A) + Sigma(f, B)
<1> DEFINE F == Sums(f, S)
           D == {T \in SUBSET B : F[A \cup T] = F[A] + F[T]}
<1>1. IsSum(F, f, S)
  BY SumExists DEF Terms
<1>2. F[A] = Sigma(f, A) /\ F[B] = Sigma(f, B) /\ Terms(f, A) /\ Terms(f, B)
  BY SigmaPart
<1>3. \A T \in SUBSET S : F[T] \in Int
  BY <1>1 DEF IsSum
<1> HIDE DEF F
<1>4. {} \in D
  <2>1. A \cup {} = A /\ A \in SUBSET S
    OBVIOUS
  <2>2. F[{}] = 0 /\ F[A] \in Int
    BY <1>1, <1>3 DEF IsSum
  <2>3. F[A \cup {}] = F[A] + F[{}]
    BY <2>1, <2>2
  <2> QED
    BY <2>3
<1>5. ASSUME NEW T \in SUBSET B, NEW x \in T, T \ {x} \in D
      PROVE  T \in D
  <2>1. (A \cup T) \ {x} = A \cup (T \ {x}) /\ x \in A \cup T
    OBVIOUS
  <2>2. F[A \cup T] = F[(A \cup T) \ {x}] + f[x] /\ F[T] = F[T \ {x}] + f[x]
    BY <1>1, <2>1 DEF IsSum
  <2>3. F[A \cup (T \ {x})] = F[A] + F[T \ {x}]
    BY <1>5
  <2>4. F[A] \in Int /\ F[T \ {x}] \in Int /\ f[x] \in Int
    BY <1>3 DEF Terms
  <2>5. \A a, b, d \in Int : (a + b) + d = a + (b + d)
    OBVIOUS
  <2>6. F[A \cup T] = (F[A] + F[T \ {x}]) + f[x]
    BY <2>1, <2>2, <2>3
  <2>7. F[A \cup T] = F[A] + F[T]
    BY <2>2, <2>4, <2>5, <2>6
  <2> QED
    BY <2>7
<1>6. IsFiniteSet(B)
  BY <1>2 DEF Terms
<1>7. \A T \in SUBSET B : T \in D
  <2> HIDE DEF D
  <2> QED
    BY <1>4, <1>5, <1>6, SubsetInduction
<1> QED
  BY <1>2, <1>7 DEF F, Sigma

(* One more term.                                                            *)
LEMMA SigmaOneMore ==
    ASSUME NEW S, NEW f, Terms(f, S), NEW x, x \notin S, f[x] \in Int
    PROVE  Terms(f, S \cup {x}) /\ Sigma(f, S \cup {x}) = Sigma(f, S) + f[x]
<1>1. Terms(f, S \cup {x})
  BY FS_AddElement DEF Terms
<1>2. IsSum(Sums(f, S \cup {x}), f, S \cup {x})
  BY <1>1, SumExists DEF Terms
<1>3. (S \cup {x}) \ {x} = S /\ S \in SUBSET (S \cup {x}) /\ x \in S \cup {x}
  OBVIOUS
<1>4. Sums(f, S \cup {x})[S \cup {x}] = Sums(f, S \cup {x})[S] + f[x]
  BY <1>2, <1>3 DEF IsSum
<1>5. Sums(f, S \cup {x})[S] = Sigma(f, S)
  BY <1>1, <1>3, SigmaPart
<1> QED
  BY <1>1, <1>4, <1>5 DEF Sigma

(* The other terms are zero.                                                 *)
LEMMA SigmaSelected ==
    ASSUME NEW S, NEW T \in SUBSET S, NEW f, NEW g, Terms(g, T), IsFiniteSet(S),
           \A x \in S : f[x] = IF x \in T THEN g[x] ELSE 0
    PROVE  Sigma(f, S) = Sigma(g, T)
<1>1. Terms(f, S)
  BY DEF Terms
<1>2. S = T \cup (S \ T) /\ T \cap (S \ T) = {}
  OBVIOUS
<1>3. /\ Terms(f, T) /\ Terms(f, S \ T)
      /\ Sigma(f, S) = Sigma(f, T) + Sigma(f, S \ T)
  BY <1>1, <1>2, SigmaParts
<1>4. Sigma(f, S \ T) = 0
  BY <1>3, SigmaZero DEF Terms
<1>5. Sigma(f, T) = Sigma(g, T) /\ Sigma(f, T) \in Int
  <2>1. \A x \in T : g[x] \in Int /\ f[x] = g[x]
    BY DEF Terms
  <2> QED
    BY <1>3, <2>1, SigmaSame, SigmaType DEF Terms
<1> QED
  BY <1>3, <1>4, <1>5

LEMMA SigmaCount ==
    ASSUME NEW S, IsFiniteSet(S), NEW T \in SUBSET S, NEW f,
           \A x \in S : f[x] = IF x \in T THEN 1 ELSE 0
    PROVE  Sigma(f, S) = Cardinality(T)
<1>1. IsFiniteSet(T) /\ Cardinality(T) \in Nat
  BY FS_Subset, FS_CardinalityType
<1> DEFINE g == [x \in T |-> 1]
<1>2. Terms(g, T) /\ \A x \in S : f[x] = IF x \in T THEN g[x] ELSE 0
  BY <1>1 DEF Terms
<1>3. \A x \in T : g[x] = 1
  OBVIOUS
<1> HIDE DEF g
<1>4. Sigma(g, T) = 1 * Cardinality(T)
  BY <1>1, <1>3, SigmaConstant
<1>5. Sigma(f, S) = Sigma(g, T)
  BY <1>2, SigmaSelected
<1> QED
  BY <1>1, <1>4, <1>5

(* own groups the indices M under the keys K; F[k] is the sum of k's group.  *)
Fibre(own, M, k) == {i \in M : own[i] = k}

Groups(F, f, own, M, K) == \A k \in K : F[k] = Sigma(f, Fibre(own, M, k))

LEMMA SigmaGroups ==
    ASSUME NEW M, NEW f, Terms(f, M), NEW K, IsFiniteSet(K), NEW own, NEW F,
           Groups(F, f, own, M, K)
    PROVE  Terms(F, K) /\ Sigma(F, K) = Sigma(f, {i \in M : own[i] \in K})
<1> DEFINE Under(T) == {i \in M : own[i] \in T}
           G == [T \in SUBSET K |-> Sigma(f, Under(T))]
<1>1. PICK c : Picks(c, K)
  BY PickExists
<1>2. \A T \in SUBSET M : Terms(f, T) /\ Sigma(f, T) \in Int
  BY SigmaPart, SigmaType DEF Terms
<1>3. Terms(F, K)
  <2>1. \A k \in K : Fibre(own, M, k) \in SUBSET M
    BY DEF Fibre
  <2> QED
    BY <1>2, <2>1 DEF Groups, Terms
<1>4. AddsUp(G, c, F, K)
  <2>1. G[{}] = 0
    <3>1. Under({}) = {}
      OBVIOUS
    <3> QED
      BY <3>1, SigmaEmpty
  <2>2. ASSUME NEW T \in SUBSET K, T # {}
        PROVE  G[T] = G[T \ {c[T]}] + F[c[T]]
    <3>1. c[T] \in T
      BY <1>1, <2>2 DEF Picks
    <3> DEFINE k == c[T]
               all == Under(T)
               rest == Under(T \ {k})
               group == Fibre(own, M, k)
    <3>2. all = rest \cup group /\ rest \cap group = {} /\ all \in SUBSET M
      BY <3>1 DEF Fibre
    <3>3. Terms(f, all)
      BY <1>2, <3>2
    <3>4. Sigma(f, all) = Sigma(f, rest) + Sigma(f, group)
      <4> HIDE DEF all, rest, group
      <4> QED
        BY <3>2, <3>3, SigmaParts
    <3>5. F[k] = Sigma(f, group)
      BY <3>1 DEF Groups
    <3> QED
      BY <3>4, <3>5
  <2> HIDE DEF G
  <2> QED
    BY <2>1, <2>2 DEF AddsUp
<1>5. G[K] = Sigma(F, K)
  <2> HIDE DEF G
  <2> QED
    BY <1>1, <1>3, <1>4, FoldIsSum
<1> QED
  BY <1>3, <1>5

(* The same terms under other names.                                         *)
Renames(own, F, f, M) ==
    /\ \A i, j \in M : own[i] = own[j] => i = j
    /\ \A i \in M : F[own[i]] = f[i]

LEMMA SigmaRenamed ==
    ASSUME NEW M, NEW f, Terms(f, M), NEW own, NEW F, Renames(own, F, f, M)
    PROVE  LET K == {own[i] : i \in M}
           IN IsFiniteSet(K) /\ Terms(F, K) /\ Sigma(F, K) = Sigma(f, M)
<1> DEFINE K == {own[i] : i \in M}
<1>1. IsFiniteSet(K)
  <2>1. IsFiniteSet(M)
    BY DEF Terms
  <2>2. [i \in M |-> own[i]] \in Surjection(M, K)
    BY DEF Surjection
  <2> HIDE DEF K
  <2> QED
    BY <2>1, <2>2, FS_Surjection
<1>2. Groups(F, f, own, M, K)
  <2>1. SUFFICES ASSUME NEW i \in M PROVE F[own[i]] = Sigma(f, Fibre(own, M, own[i]))
    BY DEF Groups
  <2>2. Fibre(own, M, own[i]) = {i} /\ F[own[i]] = f[i] /\ f[i] \in Int
    BY DEF Renames, Fibre, Terms
  <2>3. {i} = {} \cup {i} /\ i \notin {} /\ Terms(f, {})
    BY FS_EmptySet DEF Terms
  <2>4. Sigma(f, {i}) = Sigma(f, {}) + f[i]
    BY <2>2, <2>3, SigmaOneMore
  <2>5. Sigma(f, {}) = 0
    BY SigmaEmpty
  <2> QED
    BY <2>2, <2>4, <2>5
<1>3. {i \in M : own[i] \in K} = M
  OBVIOUS
<1> HIDE DEF K
<1>4. Terms(F, K) /\ Sigma(F, K) = Sigma(f, M)
  BY <1>1, <1>2, <1>3, SigmaGroups
<1> QED
  BY <1>1, <1>4 DEF K

-----------------------------------------------------------------------------
LEMMA MaxFacts ==
    ASSUME NEW S, IsFiniteSet(S), S # {}, \A x \in S : x \in Int
    PROVE  Max(S) \in S /\ \A y \in S : y <= Max(S)
<1> DEFINE D == {T \in SUBSET S : T # {} => \E x \in T : \A y \in T : x >= y}
<1>1. {} \in D
  OBVIOUS
<1>2. ASSUME NEW T \in SUBSET S, NEW x \in T, T \ {x} \in D
      PROVE  T \in D
  <2>1. CASE T = {x}
    BY <2>1
  <2>2. CASE T # {x}
    <3>1. PICK z \in T \ {x} : \A y \in T \ {x} : z >= y
      BY <1>2, <2>2
    <3>2. z \in Int /\ x \in Int
      BY <3>1
    <3>3. CASE z >= x
      <4>1. \A y \in T : z >= y
        BY <3>1, <3>3
      <4> QED
        BY <3>1, <4>1
    <3>4. CASE ~(z >= x)
      <4>1. \A y \in T : x >= y
        BY <3>1, <3>2, <3>4
      <4> QED
        BY <4>1
    <3> QED
      BY <3>3, <3>4
  <2> QED
    BY <2>1, <2>2
<1>3. \A T \in SUBSET S : T \in D
  <2> HIDE DEF D
  <2> QED
    BY <1>1, <1>2, SubsetInduction
<1>4. \E x \in S : \A y \in S : x >= y
  BY <1>3
<1>5. Max(S) \in S /\ \A y \in S : Max(S) >= y
  BY <1>4 DEF Max
<1> QED
  BY <1>5

LEMMA MaxIs ==
    ASSUME NEW S, \A y \in S : y \in Int, NEW x \in S, \A y \in S : y <= x
    PROVE  Max(S) = x
<1>1. \A y \in S : x >= y
  OBVIOUS
<1>2. Max(S) \in S /\ \A y \in S : Max(S) >= y
  BY <1>1 DEF Max
<1> QED
  BY <1>1, <1>2

-----------------------------------------------------------------------------
(* A report's metrics are sums over its facts.                               *)
RequestsOf(facts) == [i \in DOMAIN facts |-> facts[i].requests]
ErrorsOf(facts)   == [i \in DOMAIN facts |-> facts[i].errors]
TokensOf(facts)   == [i \in DOMAIN facts |-> facts[i].tokens]
CostOf(facts)     == [i \in DOMAIN facts |-> facts[i].cost]
PricedOf(facts)   == [i \in DOMAIN facts |-> facts[i].priced]
LatencyOf(facts)  == [i \in DOMAIN facts |-> facts[i].latency]

Counted(facts) ==
    /\ IsFiniteSet(DOMAIN facts)
    /\ \A i \in DOMAIN facts :
           /\ i \in Nat /\ facts[i].lastSeen \in Int
           /\ facts[i].requests \in Int /\ facts[i].errors \in Int
           /\ facts[i].tokens \in Int /\ facts[i].cost \in Int
           /\ facts[i].priced \in Int /\ facts[i].latency \in Int

Summed(facts, S) ==
    LET requests == Sigma(RequestsOf(facts), S)
        errors   == Sigma(ErrorsOf(facts), S)
    IN [requests |-> requests, errors |-> errors,
        tokens  |-> Sigma(TokensOf(facts), S),
        cost    |-> Sigma(CostOf(facts), S),
        priced  |-> Sigma(PricedOf(facts), S),
        latency |-> Rounded(Sigma(LatencyOf(facts), S), requests - errors)]

LEMMA CountedParts ==
    ASSUME NEW facts, Counted(facts), NEW S \in SUBSET DOMAIN facts
    PROVE  /\ Terms(RequestsOf(facts), S) /\ Terms(ErrorsOf(facts), S)
           /\ Terms(TokensOf(facts), S) /\ Terms(CostOf(facts), S)
           /\ Terms(PricedOf(facts), S) /\ Terms(LatencyOf(facts), S)
<1>1. IsFiniteSet(S)
  BY FS_Subset DEF Counted
<1> QED
  BY <1>1 DEF Counted, Terms, RequestsOf, ErrorsOf, TokensOf, CostOf, PricedOf, LatencyOf

(* A sum of the model is a sum of a column.                                  *)
LEMMA ColumnSum ==
    ASSUME NEW f, NEW g, NEW S, Terms(f, S), \A x \in S : g[x] = f[x]
    PROVE  SumFunctionOnSet(g, S) = Sigma(f, S)
<1>1. Terms(g, S) /\ \A x \in S : f[x] \in Int /\ g[x] = f[x]
  BY DEF Terms
<1>2. SumFunctionOnSet(g, S) = Sigma(g, S)
  BY <1>1, SumIsSigma
<1>3. Sigma(g, S) = Sigma(f, S)
  BY <1>1, SigmaSame DEF Terms
<1> QED
  BY <1>2, <1>3

LEMMA MetricsAreSums ==
    ASSUME NEW facts, Counted(facts), NEW S \in SUBSET DOMAIN facts
    PROVE  Metrics(facts, S) = Summed(facts, S)
<1> DEFINE req == [i \in S |-> facts[i].requests]
           err == [i \in S |-> facts[i].errors]
           tok == [i \in S |-> facts[i].tokens]
           cos == [i \in S |-> facts[i].cost]
           pri == [i \in S |-> facts[i].priced]
           lat == [i \in S |-> facts[i].latency]
<1>1. \A i \in S : /\ req[i] = RequestsOf(facts)[i] /\ err[i] = ErrorsOf(facts)[i]
                   /\ tok[i] = TokensOf(facts)[i] /\ cos[i] = CostOf(facts)[i]
                   /\ pri[i] = PricedOf(facts)[i] /\ lat[i] = LatencyOf(facts)[i]
  BY DEF RequestsOf, ErrorsOf, TokensOf, CostOf, PricedOf, LatencyOf
<1>2. Metrics(facts, S) =
        [requests |-> SumFunctionOnSet(req, S), errors |-> SumFunctionOnSet(err, S),
         tokens  |-> SumFunctionOnSet(tok, S), cost |-> SumFunctionOnSet(cos, S),
         priced  |-> SumFunctionOnSet(pri, S),
         latency |-> Rounded(SumFunctionOnSet(lat, S),
                             SumFunctionOnSet(req, S) - SumFunctionOnSet(err, S))]
  BY DEF Metrics, Sum
<1> HIDE DEF req, err, tok, cos, pri, lat
<1>3. /\ Terms(RequestsOf(facts), S) /\ Terms(ErrorsOf(facts), S)
      /\ Terms(TokensOf(facts), S) /\ Terms(CostOf(facts), S)
      /\ Terms(PricedOf(facts), S) /\ Terms(LatencyOf(facts), S)
  BY CountedParts
<1>4. /\ SumFunctionOnSet(req, S) = Sigma(RequestsOf(facts), S)
      /\ SumFunctionOnSet(err, S) = Sigma(ErrorsOf(facts), S)
  BY <1>1, <1>3, ColumnSum
<1>5. /\ SumFunctionOnSet(tok, S) = Sigma(TokensOf(facts), S)
      /\ SumFunctionOnSet(cos, S) = Sigma(CostOf(facts), S)
  BY <1>1, <1>3, ColumnSum
<1>6. /\ SumFunctionOnSet(pri, S) = Sigma(PricedOf(facts), S)
      /\ SumFunctionOnSet(lat, S) = Sigma(LatencyOf(facts), S)
  BY <1>1, <1>3, ColumnSum
<1> QED
  BY <1>2, <1>4, <1>5, <1>6 DEF Summed

-----------------------------------------------------------------------------
(* sf are facts that were grouped before they were added up: own[i] is the   *)
(* row that the fact i of mf went into.                                      *)
SameLabels(r, f) == /\ r.bucket = f.bucket /\ r.model = f.model
                    /\ r.caller = f.caller /\ r.operation = f.operation

RowOf(sf, mf, own, n) ==
    LET group == Fibre(own, DOMAIN mf, n)
    IN /\ group # {}
       /\ RequestsOf(sf)[n] = Sigma(RequestsOf(mf), group)
       /\ ErrorsOf(sf)[n]   = Sigma(ErrorsOf(mf), group)
       /\ TokensOf(sf)[n]   = Sigma(TokensOf(mf), group)
       /\ CostOf(sf)[n]     = Sigma(CostOf(mf), group)
       /\ PricedOf(sf)[n]   = Sigma(PricedOf(mf), group)
       /\ LatencyOf(sf)[n]  = Sigma(LatencyOf(mf), group)
       /\ \E i \in group : sf[n].lastSeen = mf[i].lastSeen
       /\ \A i \in group : mf[i].lastSeen <= sf[n].lastSeen

Grouping(sf, mf, own) ==
    /\ Counted(sf) /\ Counted(mf)
    /\ \A i \in DOMAIN mf : own[i] \in DOMAIN sf /\ SameLabels(sf[own[i]], mf[i])
    /\ \A i, j \in DOMAIN mf : mf[i].lastSeen = mf[j].lastSeen => i = j
    /\ \A n \in DOMAIN sf : RowOf(sf, mf, own, n)

LEMMA GroupsAgree ==
    ASSUME NEW sf, NEW mf, NEW own, Grouping(sf, mf, own),
           NEW L \in SUBSET DOMAIN sf, NEW P, P = {i \in DOMAIN mf : own[i] \in L}
    PROVE  Metrics(sf, L) = Metrics(mf, P)
<1> DEFINE M == DOMAIN mf
<1>1. Counted(sf) /\ Counted(mf) /\ P \in SUBSET M /\ IsFiniteSet(L) /\ M \in SUBSET M
  BY FS_Subset DEF Grouping, Counted
<1>2. /\ Terms(RequestsOf(mf), M) /\ Terms(ErrorsOf(mf), M)
      /\ Terms(TokensOf(mf), M) /\ Terms(CostOf(mf), M)
      /\ Terms(PricedOf(mf), M) /\ Terms(LatencyOf(mf), M)
  BY <1>1, CountedParts
<1>3. /\ Groups(RequestsOf(sf), RequestsOf(mf), own, M, L)
      /\ Groups(ErrorsOf(sf), ErrorsOf(mf), own, M, L)
      /\ Groups(TokensOf(sf), TokensOf(mf), own, M, L)
      /\ Groups(CostOf(sf), CostOf(mf), own, M, L)
      /\ Groups(PricedOf(sf), PricedOf(mf), own, M, L)
      /\ Groups(LatencyOf(sf), LatencyOf(mf), own, M, L)
  BY DEF Grouping, RowOf, Groups
<1> HIDE DEF M
<1>4. P = {i \in M : own[i] \in L}
  BY DEF M
<1>5. /\ Sigma(RequestsOf(sf), L) = Sigma(RequestsOf(mf), P)
      /\ Sigma(ErrorsOf(sf), L) = Sigma(ErrorsOf(mf), P)
      /\ Sigma(TokensOf(sf), L) = Sigma(TokensOf(mf), P)
      /\ Sigma(CostOf(sf), L) = Sigma(CostOf(mf), P)
      /\ Sigma(PricedOf(sf), L) = Sigma(PricedOf(mf), P)
      /\ Sigma(LatencyOf(sf), L) = Sigma(LatencyOf(mf), P)
  BY <1>1, <1>2, <1>3, <1>4, SigmaGroups
<1>6. Summed(sf, L) = Summed(mf, P)
  BY <1>5 DEF Summed
<1> QED
  BY <1>1, <1>6, MetricsAreSums DEF M

Times(facts, S) == {facts[i].lastSeen : i \in S}

LEMMA LatestAgree ==
    ASSUME NEW sf, NEW mf, NEW own, Grouping(sf, mf, own),
           NEW L \in SUBSET DOMAIN sf, NEW P, P = {i \in DOMAIN mf : own[i] \in L},
           L # {}
    PROVE  /\ Max(Times(sf, L)) = Max(Times(mf, P))
           /\ \E i \in P : Max(Times(mf, P)) = mf[i].lastSeen
<1> DEFINE A == Times(sf, L)
           B == Times(mf, P)
<1>0. A = {sf[n].lastSeen : n \in L} /\ B = {mf[i].lastSeen : i \in P}
  BY DEF Times
<1>1. /\ \A n \in DOMAIN sf : sf[n].lastSeen \in Int
      /\ \A i \in DOMAIN mf : mf[i].lastSeen \in Int
      /\ IsFiniteSet(DOMAIN sf) /\ L \subseteq DOMAIN sf
  BY DEF Grouping, Counted
<1>2. ASSUME NEW n \in L
      PROVE  /\ \E i \in P : sf[n].lastSeen = mf[i].lastSeen
             /\ \A i \in P : own[i] = n => mf[i].lastSeen <= sf[n].lastSeen
  <2>1. RowOf(sf, mf, own, n)
    BY DEF Grouping
  <2>2. /\ \E i \in Fibre(own, DOMAIN mf, n) : sf[n].lastSeen = mf[i].lastSeen
        /\ \A i \in Fibre(own, DOMAIN mf, n) : mf[i].lastSeen <= sf[n].lastSeen
    BY <2>1 DEF RowOf
  <2>3. \A i : i \in Fibre(own, DOMAIN mf, n) <=> i \in P /\ own[i] = n
    BY DEF Fibre
  <2> QED
    BY <2>2, <2>3
<1>3. IsFiniteSet(A) /\ A # {} /\ \A x \in A : x \in Int
  <2>1. IsFiniteSet(L)
    BY <1>1, FS_Subset
  <2>2. IsFiniteSet(A)
    <3>1. [n \in L |-> sf[n].lastSeen] \in Surjection(L, A)
      BY <1>0 DEF Surjection
    <3> HIDE DEF A
    <3> QED
      BY <2>1, <3>1, FS_Surjection
  <2> QED
    BY <1>0, <1>1, <2>2
<1>4. Max(A) \in A /\ \A y \in A : y <= Max(A)
  <2> HIDE DEF A
  <2> QED
    BY <1>3, MaxFacts
<1>5. Max(A) \in B
  <2>1. PICK n \in L : Max(A) = sf[n].lastSeen
    BY <1>0, <1>4
  <2>2. PICK i \in P : sf[n].lastSeen = mf[i].lastSeen
    BY <1>2
  <2> QED
    BY <1>0, <2>1, <2>2
<1>6. ASSUME NEW x \in B PROVE x \in Int /\ x <= Max(A)
  <2>1. PICK i \in P : x = mf[i].lastSeen
    BY <1>0
  <2>2. own[i] \in L /\ i \in DOMAIN mf
    OBVIOUS
  <2>3. x <= sf[own[i]].lastSeen
    BY <1>2, <2>1, <2>2
  <2>4. sf[own[i]].lastSeen \in A
    BY <1>0, <2>2
  <2>5. x \in Int /\ sf[own[i]].lastSeen \in Int /\ Max(A) \in Int
    BY <1>1, <1>3, <1>4, <2>1, <2>2
  <2>6. sf[own[i]].lastSeen <= Max(A)
    BY <1>4, <2>4
  <2> HIDE DEF A, B
  <2> QED
    BY <2>3, <2>5, <2>6
<1>7. Max(B) = Max(A)
  <2> HIDE DEF A, B
  <2> QED
    BY <1>5, <1>6, MaxIs
<1> QED
  BY <1>0, <1>5, <1>7

(* Two groups were never last used at the same time.                         *)
LEMMA LatestRow ==
    ASSUME NEW sf, NEW mf, NEW own, Grouping(sf, mf, own),
           NEW n \in DOMAIN sf, NEW i \in DOMAIN mf, sf[n].lastSeen = mf[i].lastSeen
    PROVE  own[i] = n
BY DEF Grouping, RowOf, Fibre

LEMMA NamesAgree ==
    ASSUME NEW sf, NEW mf, NEW own, Grouping(sf, mf, own),
           NEW L \in SUBSET DOMAIN sf, NEW P, P = {i \in DOMAIN mf : own[i] \in L},
           NEW id, id \in {sf[n].caller.id : n \in L}
    PROVE  NameOf(sf, L, id) = NameOf(mf, P, id)
<1> DEFINE R == {n \in L : sf[n].caller.id = id}
           Q == {i \in P : mf[i].caller.id = id}
           last == Max(Times(sf, R))
<1>1. /\ \A j \in DOMAIN mf : own[j] \in DOMAIN sf /\ sf[own[j]].caller = mf[j].caller
      /\ \A j, k \in DOMAIN mf : mf[j].lastSeen = mf[k].lastSeen => j = k
      /\ \A n \in DOMAIN sf : n \in Nat
      /\ \A j \in DOMAIN mf : j \in Nat
  BY DEF Grouping, SameLabels, Counted
<1>2. R \in SUBSET DOMAIN sf /\ R # {} /\ Q = {i \in DOMAIN mf : own[i] \in R}
  BY <1>1
<1>3. /\ last = Max(Times(mf, Q))
      /\ \E i \in Q : last = mf[i].lastSeen
  <2>1. R \in SUBSET DOMAIN sf /\ R # {} /\ Q = {i \in DOMAIN mf : own[i] \in R}
    BY <1>2
  <2> HIDE DEF R, Q
  <2>2. Max(Times(sf, R)) = Max(Times(mf, Q)) /\ \E i \in Q : Max(Times(mf, Q)) = mf[i].lastSeen
    BY <2>1, LatestAgree
  <2> QED
    BY <2>2
<1> HIDE DEF last
<1>4. PICK i \in Q : last = mf[i].lastSeen
  BY <1>3
<1>5. own[i] \in R /\ i \in DOMAIN mf
  BY <1>2
<1>6. sf[own[i]].lastSeen = last
  <2>1. last \in Times(sf, R)
    <3>1. IsFiniteSet(R)
      BY <1>2, FS_Subset DEF Grouping, Counted
    <3>2. [n \in R |-> sf[n].lastSeen] \in Surjection(R, Times(sf, R))
      BY DEF Surjection, Times
    <3>3. \A x \in Times(sf, R) : x \in Int
      BY <1>2 DEF Grouping, Counted, Times
    <3>4. Times(sf, R) # {}
      BY <1>2 DEF Times
    <3>5. IsFiniteSet(Times(sf, R))
      BY <3>1, <3>2, FS_Surjection
    <3> QED
      BY <3>3, <3>4, <3>5, MaxFacts DEF last
  <2>2. PICK n \in R : last = sf[n].lastSeen
    BY <2>1 DEF Times
  <2>3. n \in DOMAIN sf /\ sf[n].lastSeen = mf[i].lastSeen
    BY <1>2, <1>4, <2>2
  <2>4. own[i] = n
    BY <1>5, <2>3, LatestRow
  <2> QED
    BY <2>2, <2>4
<1>7. {n \in R : sf[n].lastSeen = last} = {own[i]}
  <2>1. ASSUME NEW n \in R, sf[n].lastSeen = last PROVE n = own[i]
    <3>1. n \in DOMAIN sf /\ sf[n].lastSeen = mf[i].lastSeen
      BY <1>2, <1>4, <2>1
    <3> QED
      BY <1>5, <3>1, LatestRow
  <2> QED
    BY <1>5, <1>6, <2>1
<1>8. {j \in Q : mf[j].lastSeen = last} = {i}
  BY <1>1, <1>4, <1>2
<1>9. Max({own[i]}) = own[i] /\ Max({i}) = i
  <2>1. \A n \in Nat : Max({n}) = n
    BY MaxIs
  <2> QED
    BY <1>1, <1>2, <1>5, <2>1
<1>10. NameOf(sf, L, id) = sf[own[i]].caller.name
  BY <1>7, <1>9 DEF NameOf, last, Times
<1>11. NameOf(mf, P, id) = mf[i].caller.name
  BY <1>3, <1>8, <1>9 DEF NameOf, Times
<1> QED
  BY <1>1, <1>5, <1>10, <1>11

-----------------------------------------------------------------------------
(* The parts of a report.                                                    *)
ModelRows(facts, S)     == By(facts, S, LAMBDA f : f.model)
ProviderRows(facts, S)  == By(facts, S, LAMBDA f : f.model.provider)
CallerRows(facts, S)    == By(facts, S, LAMBDA f : f.caller.id)
OperationRows(facts, S) == By(facts, S, LAMBDA f : f.operation)

Selected(facts, q) == {i \in DOMAIN facts : Matches(facts[i], q)}
CallerIds(facts, S) == {facts[i].caller.id : i \in S}
NameRows(facts, S) == [id \in CallerIds(facts, S) |-> NameOf(facts, S, id)]
SeriesOf(facts, S, q) ==
    [b \in Buckets(q) |-> Metrics(facts, {i \in S : facts[i].bucket = b})]
OptionsOf(facts) ==
    [models |-> {facts[i].model : i \in DOMAIN facts},
     callers |-> CallerIds(facts, DOMAIN facts)]

LEMMA BuildIs ==
    \A facts, q :
        LET S == Selected(facts, q)
        IN Build(facts, q) =
             [totals     |-> Metrics(facts, S),
              models     |-> ModelRows(facts, S),
              providers  |-> ProviderRows(facts, S),
              callers    |-> CallerRows(facts, S),
              operations |-> OperationRows(facts, S),
              names      |-> NameRows(facts, S),
              active     |-> Cardinality(CallerIds(facts, S) \ {Unattributed}),
              series     |-> SeriesOf(facts, S, q),
              options    |-> OptionsOf(facts)]
BY DEF Build, ModelRows, ProviderRows, CallerRows, OperationRows, NameRows, Selected,
       CallerIds, SeriesOf, OptionsOf

(* What a breakdown shows for one key.                                       *)
RowAt(facts, rows) == [metrics |-> Metrics(facts, rows), lastSeen |-> Max(Times(facts, rows))]

Keys(facts, S, key) == {key[i] : i \in S}

(* The rows of a breakdown, for keys that are given as a function.           *)
Rows(facts, S, key) ==
    [k \in Keys(facts, S, key) |-> RowAt(facts, {i \in S : key[i] = k})]

LEMMA RowsAgree ==
    ASSUME NEW sf, NEW mf, NEW own, Grouping(sf, mf, own),
           NEW L \in SUBSET DOMAIN sf, NEW P, P = {i \in DOMAIN mf : own[i] \in L},
           NEW kf, NEW km, \A i \in DOMAIN mf : km[i] = kf[own[i]]
    PROVE  Rows(sf, L, kf) = Rows(mf, P, km)
<1>1. /\ \A i \in DOMAIN mf : own[i] \in DOMAIN sf
      /\ \A n \in DOMAIN sf : \E i \in DOMAIN mf : own[i] = n
  BY DEF Grouping, RowOf, Fibre
<1>2. Keys(sf, L, kf) = Keys(mf, P, km)
  BY <1>1 DEF Keys
<1>3. ASSUME NEW k \in Keys(sf, L, kf)
      PROVE  RowAt(sf, {n \in L : kf[n] = k}) = RowAt(mf, {i \in P : km[i] = k})
  <2> DEFINE R == {n \in L : kf[n] = k}
             Q == {i \in P : km[i] = k}
  <2>1. R \in SUBSET DOMAIN sf /\ R # {} /\ Q = {i \in DOMAIN mf : own[i] \in R}
    BY <1>1 DEF Keys
  <2> HIDE DEF R, Q
  <2>2. Metrics(sf, R) = Metrics(mf, Q)
    BY <2>1, GroupsAgree
  <2>3. Max(Times(sf, R)) = Max(Times(mf, Q))
    BY <2>1, LatestAgree
  <2>4. RowAt(sf, R) = RowAt(mf, Q)
    BY <2>2, <2>3 DEF RowAt
  <2> QED
    BY <2>4 DEF R, Q
<1> QED
  BY <1>2, <1>3 DEF Rows

LEMMA BreakdownsAreRows ==
    ASSUME NEW facts, NEW S \in SUBSET DOMAIN facts
    PROVE  /\ ModelRows(facts, S) = Rows(facts, S, [i \in DOMAIN facts |-> facts[i].model])
           /\ ProviderRows(facts, S)
                = Rows(facts, S, [i \in DOMAIN facts |-> facts[i].model.provider])
           /\ CallerRows(facts, S)
                = Rows(facts, S, [i \in DOMAIN facts |-> facts[i].caller.id])
           /\ OperationRows(facts, S)
                = Rows(facts, S, [i \in DOMAIN facts |-> facts[i].operation])
<1> DEFINE model == [i \in DOMAIN facts |-> facts[i].model]
           provider == [i \in DOMAIN facts |-> facts[i].model.provider]
           caller == [i \in DOMAIN facts |-> facts[i].caller.id]
           operation == [i \in DOMAIN facts |-> facts[i].operation]
<1>1. ModelRows(facts, S) = Rows(facts, S, model)
  <2>1. ModelRows(facts, S) =
          [k \in {facts[i].model : i \in S} |->
              RowAt(facts, {i \in S : facts[i].model = k})]
    BY DEF ModelRows, By, RowAt, Times
  <2>2. \A i \in S : model[i] = facts[i].model
    OBVIOUS
  <2> HIDE DEF model
  <2>3. Keys(facts, S, model) = {facts[i].model : i \in S}
    BY <2>2 DEF Keys
  <2>4. \A k : {i \in S : facts[i].model = k} = {i \in S : model[i] = k}
    BY <2>2
  <2> QED
    BY <2>1, <2>3, <2>4 DEF Rows
<1>2. ProviderRows(facts, S) = Rows(facts, S, provider)
  <2>1. ProviderRows(facts, S) =
          [k \in {facts[i].model.provider : i \in S} |->
              RowAt(facts, {i \in S : facts[i].model.provider = k})]
    BY DEF ProviderRows, By, RowAt, Times
  <2>2. \A i \in S : provider[i] = facts[i].model.provider
    OBVIOUS
  <2> HIDE DEF provider
  <2>3. Keys(facts, S, provider) = {facts[i].model.provider : i \in S}
    BY <2>2 DEF Keys
  <2>4. \A k : {i \in S : facts[i].model.provider = k} = {i \in S : provider[i] = k}
    BY <2>2
  <2> QED
    BY <2>1, <2>3, <2>4 DEF Rows
<1>3. CallerRows(facts, S) = Rows(facts, S, caller)
  <2>1. CallerRows(facts, S) =
          [k \in {facts[i].caller.id : i \in S} |->
              RowAt(facts, {i \in S : facts[i].caller.id = k})]
    BY DEF CallerRows, By, RowAt, Times
  <2>2. \A i \in S : caller[i] = facts[i].caller.id
    OBVIOUS
  <2> HIDE DEF caller
  <2>3. Keys(facts, S, caller) = {facts[i].caller.id : i \in S}
    BY <2>2 DEF Keys
  <2>4. \A k : {i \in S : facts[i].caller.id = k} = {i \in S : caller[i] = k}
    BY <2>2
  <2> QED
    BY <2>1, <2>3, <2>4 DEF Rows
<1>4. OperationRows(facts, S) = Rows(facts, S, operation)
  <2>1. OperationRows(facts, S) =
          [k \in {facts[i].operation : i \in S} |->
              RowAt(facts, {i \in S : facts[i].operation = k})]
    BY DEF OperationRows, By, RowAt, Times
  <2>2. \A i \in S : operation[i] = facts[i].operation
    OBVIOUS
  <2> HIDE DEF operation
  <2>3. Keys(facts, S, operation) = {facts[i].operation : i \in S}
    BY <2>2 DEF Keys
  <2>4. \A k : {i \in S : facts[i].operation = k} = {i \in S : operation[i] = k}
    BY <2>2
  <2> QED
    BY <2>1, <2>3, <2>4 DEF Rows
<1> QED
  BY <1>1, <1>2, <1>3, <1>4

(* Grouping the facts changes nothing in the report.                         *)
LEMMA BuildAgrees ==
    ASSUME NEW sf, NEW mf, NEW own, Grouping(sf, mf, own), NEW q
    PROVE  Build(sf, q) = Build(mf, q)
<1> DEFINE S == Selected(sf, q)
           P == Selected(mf, q)
<1>1. /\ \A i \in DOMAIN mf : own[i] \in DOMAIN sf /\ SameLabels(sf[own[i]], mf[i])
      /\ \A n \in DOMAIN sf : \E i \in DOMAIN mf : own[i] = n
  BY DEF Grouping, RowOf, Fibre
<1>2. S \in SUBSET DOMAIN sf /\ P \in SUBSET DOMAIN mf /\ P = {i \in DOMAIN mf : own[i] \in S}
  BY <1>1 DEF Selected, Matches, SameLabels
<1> HIDE DEF S, P
<1>3. Metrics(sf, S) = Metrics(mf, P)
  BY <1>2, GroupsAgree
<1>4. ModelRows(sf, S) = ModelRows(mf, P)
  <2> DEFINE kf == [i \in DOMAIN sf |-> sf[i].model]
             km == [i \in DOMAIN mf |-> mf[i].model]
  <2>1. \A i \in DOMAIN mf : km[i] = kf[own[i]]
    BY <1>1 DEF SameLabels
  <2>2. ModelRows(sf, S) = Rows(sf, S, kf) /\ ModelRows(mf, P) = Rows(mf, P, km)
    BY <1>2, BreakdownsAreRows
  <2> HIDE DEF kf, km
  <2> QED
    BY <1>2, <2>1, <2>2, RowsAgree
<1>5. ProviderRows(sf, S) = ProviderRows(mf, P)
  <2> DEFINE kf == [i \in DOMAIN sf |-> sf[i].model.provider]
             km == [i \in DOMAIN mf |-> mf[i].model.provider]
  <2>1. \A i \in DOMAIN mf : km[i] = kf[own[i]]
    BY <1>1 DEF SameLabels
  <2>2. ProviderRows(sf, S) = Rows(sf, S, kf) /\ ProviderRows(mf, P) = Rows(mf, P, km)
    BY <1>2, BreakdownsAreRows
  <2> HIDE DEF kf, km
  <2> QED
    BY <1>2, <2>1, <2>2, RowsAgree
<1>6. CallerRows(sf, S) = CallerRows(mf, P)
  <2> DEFINE kf == [i \in DOMAIN sf |-> sf[i].caller.id]
             km == [i \in DOMAIN mf |-> mf[i].caller.id]
  <2>1. \A i \in DOMAIN mf : km[i] = kf[own[i]]
    BY <1>1 DEF SameLabels
  <2>2. CallerRows(sf, S) = Rows(sf, S, kf) /\ CallerRows(mf, P) = Rows(mf, P, km)
    BY <1>2, BreakdownsAreRows
  <2> HIDE DEF kf, km
  <2> QED
    BY <1>2, <2>1, <2>2, RowsAgree
<1>7. OperationRows(sf, S) = OperationRows(mf, P)
  <2> DEFINE kf == [i \in DOMAIN sf |-> sf[i].operation]
             km == [i \in DOMAIN mf |-> mf[i].operation]
  <2>1. \A i \in DOMAIN mf : km[i] = kf[own[i]]
    BY <1>1 DEF SameLabels
  <2>2. OperationRows(sf, S) = Rows(sf, S, kf) /\ OperationRows(mf, P) = Rows(mf, P, km)
    BY <1>2, BreakdownsAreRows
  <2> HIDE DEF kf, km
  <2> QED
    BY <1>2, <2>1, <2>2, RowsAgree
<1>8. CallerIds(sf, S) = CallerIds(mf, P)
  BY <1>1, <1>2 DEF CallerIds, SameLabels
<1>9. NameRows(sf, S) = NameRows(mf, P)
  <2>1. \A id \in CallerIds(sf, S) : NameOf(sf, S, id) = NameOf(mf, P, id)
    BY <1>2, NamesAgree DEF CallerIds
  <2> QED
    BY <1>8, <2>1 DEF NameRows
<1>10. SeriesOf(sf, S, q) = SeriesOf(mf, P, q)
  <2>1. ASSUME NEW b
        PROVE  Metrics(sf, {n \in S : sf[n].bucket = b})
                 = Metrics(mf, {i \in P : mf[i].bucket = b})
    <3> DEFINE R == {n \in S : sf[n].bucket = b}
               Q == {i \in P : mf[i].bucket = b}
    <3>1. R \in SUBSET DOMAIN sf /\ Q = {i \in DOMAIN mf : own[i] \in R}
      BY <1>1, <1>2 DEF SameLabels
    <3> HIDE DEF R, Q
    <3>2. Metrics(sf, R) = Metrics(mf, Q)
      BY <3>1, GroupsAgree
    <3> QED
      BY <3>2 DEF R, Q
  <2> QED
    BY <2>1 DEF SeriesOf
<1>11. OptionsOf(sf) = OptionsOf(mf)
  <2>1. {sf[n].model : n \in DOMAIN sf} = {mf[i].model : i \in DOMAIN mf}
    BY <1>1 DEF SameLabels
  <2>2. CallerIds(sf, DOMAIN sf) = CallerIds(mf, DOMAIN mf)
    BY <1>1 DEF CallerIds, SameLabels
  <2> QED
    BY <2>1, <2>2 DEF OptionsOf
<1> QED
  BY <1>3, <1>4, <1>5, <1>6, <1>7, <1>8, <1>9, <1>10, <1>11, BuildIs DEF S, P

-----------------------------------------------------------------------------
(* Every group is a row, so the rows add up to the totals.                   *)
AddsUpTo(R, K, total) ==
    /\ SumFunctionOnSet([k \in K |-> R[k].requests], K) = total.requests
    /\ SumFunctionOnSet([k \in K |-> R[k].errors], K) = total.errors
    /\ SumFunctionOnSet([k \in K |-> R[k].cost], K) = total.cost

LEMMA RowsAddUp ==
    ASSUME NEW facts, Counted(facts), NEW S \in SUBSET DOMAIN facts,
           NEW own, NEW K, IsFiniteSet(K), \A i \in S : own[i] \in K,
           NEW R, \A k \in K : R[k] = Metrics(facts, Fibre(own, S, k))
    PROVE  AddsUpTo(R, K, Metrics(facts, S))
<1> DEFINE req == [k \in K |-> R[k].requests]
           err == [k \in K |-> R[k].errors]
           cos == [k \in K |-> R[k].cost]
<1>1. /\ Terms(RequestsOf(facts), S) /\ Terms(ErrorsOf(facts), S)
      /\ Terms(CostOf(facts), S)
  BY CountedParts
<1>2. ASSUME NEW k \in K
      PROVE  /\ R[k].requests = Sigma(RequestsOf(facts), Fibre(own, S, k))
             /\ R[k].errors = Sigma(ErrorsOf(facts), Fibre(own, S, k))
             /\ R[k].cost = Sigma(CostOf(facts), Fibre(own, S, k))
  <2>1. Fibre(own, S, k) \in SUBSET DOMAIN facts
    BY DEF Fibre
  <2>2. R[k] = Summed(facts, Fibre(own, S, k))
    BY <2>1, MetricsAreSums
  <2> QED
    BY <2>2 DEF Summed
<1>3. /\ Groups(req, RequestsOf(facts), own, S, K)
      /\ Groups(err, ErrorsOf(facts), own, S, K)
      /\ Groups(cos, CostOf(facts), own, S, K)
  BY <1>2 DEF Groups
<1> HIDE DEF req, err, cos
<1>4. S = {i \in S : own[i] \in K}
  OBVIOUS
<1>5. /\ Terms(req, K) /\ Sigma(req, K) = Sigma(RequestsOf(facts), S)
      /\ Terms(err, K) /\ Sigma(err, K) = Sigma(ErrorsOf(facts), S)
      /\ Terms(cos, K) /\ Sigma(cos, K) = Sigma(CostOf(facts), S)
  BY <1>1, <1>3, <1>4, SigmaGroups
<1>6. /\ SumFunctionOnSet(req, K) = Sigma(RequestsOf(facts), S)
      /\ SumFunctionOnSet(err, K) = Sigma(ErrorsOf(facts), S)
      /\ SumFunctionOnSet(cos, K) = Sigma(CostOf(facts), S)
  BY <1>5, SumIsSigma
<1>7. Metrics(facts, S) = Summed(facts, S)
  BY MetricsAreSums
<1>8. /\ Metrics(facts, S).requests = Sigma(RequestsOf(facts), S)
      /\ Metrics(facts, S).errors = Sigma(ErrorsOf(facts), S)
      /\ Metrics(facts, S).cost = Sigma(CostOf(facts), S)
  BY <1>7 DEF Summed
<1> QED
  BY <1>6, <1>8 DEF AddsUpTo, req, err, cos

LEMMA BreakdownAddsUp ==
    ASSUME NEW facts, Counted(facts), NEW S \in SUBSET DOMAIN facts, NEW key
    PROVE  LET rows == Rows(facts, S, key)
           IN AddsUpTo([k \in DOMAIN rows |-> rows[k].metrics], DOMAIN rows,
                       Metrics(facts, S))
<1> DEFINE K == Keys(facts, S, key)
           rows == Rows(facts, S, key)
           R == [k \in K |-> rows[k].metrics]
<1>1. IsFiniteSet(K)
  <2>1. IsFiniteSet(S)
    BY FS_Subset DEF Counted
  <2>2. [i \in S |-> key[i]] \in Surjection(S, K)
    BY DEF Surjection, Keys
  <2> HIDE DEF K
  <2> QED
    BY <2>1, <2>2, FS_Surjection
<1>2. \A i \in S : key[i] \in K
  BY DEF Keys
<1>3. \A k \in K : R[k] = Metrics(facts, Fibre(key, S, k))
  BY DEF Rows, RowAt, Fibre
<1>4. DOMAIN rows = K
  BY DEF Rows
<1> HIDE DEF K, R
<1>5. AddsUpTo(R, K, Metrics(facts, S))
  BY <1>1, <1>2, <1>3, RowsAddUp
<1> QED
  BY <1>4, <1>5 DEF R

-----------------------------------------------------------------------------
(* Buckets.                                                                  *)
LEMMA DivFacts ==
    ASSUME NEW t \in Nat, NEW n \in Nat \ {0}
    PROVE  t \div n \in Nat /\ t % n \in 0..(n-1) /\ t = n * (t \div n) + (t % n)
OBVIOUS
LEMMA Prod == \A a \in Nat, n \in Nat \ {0} : n * a \in Nat /\ a * n = n * a
OBVIOUS
LEMMA MultMod ==
    ASSUME NEW a \in Nat, NEW n \in Nat \ {0}
    PROVE  (a * n) % n = 0
OBVIOUS
LEMMA DivMono ==
    ASSUME NEW s \in Nat, NEW t \in Nat, s <= t, NEW n \in Nat \ {0}
    PROVE  s \div n <= t \div n
BY DivFacts
LEMMA FloorFacts ==
    ASSUME NEW t \in Nat, NEW n \in Nat \ {0}
    PROVE  /\ Floor(t, n) \in Nat /\ Floor(t, n) <= t /\ Floor(t, n) % n = 0
           /\ \A s \in Nat : s <= t => Floor(s, n) <= Floor(t, n)
<1>1. t \div n \in Nat /\ t = (n * (t \div n)) + (t % n) /\ t % n \in 0..(n - 1)
  BY DivFacts
<1>2. n * (t \div n) \in Nat /\ (t \div n) * n = n * (t \div n)
  BY <1>1, Prod
<1>3. ((t \div n) * n) % n = 0
  BY <1>1, MultMod
<1>4. ASSUME NEW s \in Nat, s <= t
      PROVE  (s \div n) * n <= (t \div n) * n
  <2>1. s \div n \in Nat /\ s \div n <= t \div n
    BY <1>4, DivFacts, DivMono
  <2>2. \A a, b \in Nat : a <= b => a * n <= b * n
    OBVIOUS
  <2> QED
    BY <1>1, <2>1, <2>2
<1> DEFINE d == t \div n
<1>5. (t \div n) * n <= t
  BY <1>1, <1>2
<1> QED
  BY <1>2, <1>3, <1>4, <1>5 DEF Floor

LEMMA BucketsHold ==
    ASSUME NEW q \in Queries, NEW t \in Nat, InWindow(t, q)
    PROVE  Floor(t, BucketOf(q)) \in Buckets(q)
<1>1. q.from \in Nat /\ q.to \in Nat /\ BucketOf(q) \in Nat \ {0}
  BY ReportsAssumption DEF BucketOf
<1>2. q.from <= t /\ t < q.to
  BY DEF InWindow
<1>3. /\ Floor(t, BucketOf(q)) \in Nat /\ Floor(t, BucketOf(q)) <= t
      /\ Floor(t, BucketOf(q)) % BucketOf(q) = 0
      /\ Floor(q.from, BucketOf(q)) \in Nat
      /\ Floor(q.from, BucketOf(q)) <= Floor(t, BucketOf(q))
  BY <1>1, <1>2, FloorFacts
<1>4. Floor(t, BucketOf(q)) <= q.to - 1
  BY <1>1, <1>2, <1>3
<1> QED
  BY <1>1, <1>3, <1>4 DEF Buckets

LEMMA BucketsFinite ==
    ASSUME NEW q \in Queries
    PROVE  IsFiniteSet(Buckets(q))
<1>1. q.from \in Nat /\ q.to \in Nat /\ BucketOf(q) \in Nat \ {0}
  BY ReportsAssumption DEF BucketOf
<1>2. Floor(q.from, BucketOf(q)) \in Int /\ q.to - 1 \in Int
  BY <1>1, FloorFacts
<1>3. IsFiniteSet(Floor(q.from, BucketOf(q)) .. q.to - 1)
  BY <1>2, FS_Interval
<1> QED
  BY <1>3, FS_Subset DEF Buckets

-----------------------------------------------------------------------------
(* The facts of memory.                                                      *)
EventOK(e) ==
    /\ e.time \in Nat /\ e.tokens \in Nat /\ e.latency \in Nat /\ e.error \in BOOLEAN
    /\ e.cost # None => e.cost \in Nat
    /\ e.type = "error" <=> e.error

Recorded(evs) ==
    /\ DOMAIN evs = 1 .. Len(evs) /\ Len(evs) \in Nat
    /\ \A i \in DOMAIN evs : EventOK(evs[i])
    /\ \A i, j \in DOMAIN evs : evs[i].time = evs[j].time => i = j

FactsOf(evs, S, interval) == [i \in S |-> Fact(evs[i], interval)]

LEMMA FactsCounted ==
    ASSUME NEW evs, Recorded(evs), NEW S \in SUBSET DOMAIN evs, NEW interval
    PROVE  Counted(FactsOf(evs, S, interval))
<1>1. IsFiniteSet(S) /\ \A i \in S : i \in Nat /\ EventOK(evs[i])
  <2>1. IsFiniteSet(1 .. Len(evs))
    BY FS_Interval DEF Recorded
  <2> QED
    BY <2>1, FS_Subset DEF Recorded
<1> QED
  BY <1>1 DEF Counted, FactsOf, Fact, EventOK

InTime(evs, q) == {i \in DOMAIN evs : InWindow(evs[i].time, q)}

LEMMA MemoryIs ==
    ASSUME NEW q
    PROVE  MemoryFacts(q) = FactsOf(events, InTime(events, q), BucketOf(q))
BY DEF MemoryFacts, FactsOf, InTime

LEMMA ChartHolds ==
    ASSUME Recorded(events)
    PROVE  ChartAddsUp
<1>1. SUFFICES ASSUME NEW q \in Queries
               PROVE  LET r == Build(MemoryFacts(q), q)
                      IN /\ AddsUpTo(r.series, DOMAIN r.series, r.totals)
                         /\ AddsUpTo([k \in DOMAIN r.models |-> r.models[k].metrics],
                                     DOMAIN r.models, r.totals)
                         /\ AddsUpTo([k \in DOMAIN r.callers |-> r.callers[k].metrics],
                                     DOMAIN r.callers, r.totals)
  BY DEF ChartAddsUp, AddsUpTo, Sum
<1> DEFINE facts == MemoryFacts(q)
           S == Selected(facts, q)
<1>2. facts = FactsOf(events, InTime(events, q), BucketOf(q)) /\ InTime(events, q) \in SUBSET DOMAIN events
  BY MemoryIs DEF InTime
<1>3. Counted(facts)
  BY <1>2, FactsCounted
<1>4. ASSUME NEW i \in DOMAIN facts PROVE facts[i].bucket \in Buckets(q)
  <2>1. i \in InTime(events, q) /\ facts[i].bucket = Floor(events[i].time, BucketOf(q))
    BY <1>2 DEF FactsOf, Fact
  <2>2. events[i].time \in Nat /\ InWindow(events[i].time, q)
    BY <2>1 DEF InTime, Recorded, EventOK
  <2> QED
    BY <2>1, <2>2, BucketsHold
<1> HIDE DEF facts
<1>5. S \in SUBSET DOMAIN facts
  BY DEF Selected
<1> HIDE DEF S
<1>6. /\ Build(facts, q).totals = Metrics(facts, S)
      /\ Build(facts, q).series = SeriesOf(facts, S, q)
      /\ Build(facts, q).models = ModelRows(facts, S)
      /\ Build(facts, q).callers = CallerRows(facts, S)
  BY BuildIs DEF S
<1>7. AddsUpTo(SeriesOf(facts, S, q), DOMAIN SeriesOf(facts, S, q), Metrics(facts, S))
  <2> DEFINE own == [i \in DOMAIN facts |-> facts[i].bucket]
             R == SeriesOf(facts, S, q)
  <2>1. \A i \in S : own[i] \in Buckets(q)
    BY <1>4, <1>5
  <2>2. DOMAIN R = Buckets(q)
    BY DEF SeriesOf
  <2>3. \A b \in Buckets(q) : R[b] = Metrics(facts, Fibre(own, S, b))
    <3>1. \A b : {i \in S : facts[i].bucket = b} = Fibre(own, S, b)
      BY <1>5 DEF Fibre
    <3> QED
      BY <3>1 DEF SeriesOf
  <2> HIDE DEF own, R
  <2>4. AddsUpTo(R, Buckets(q), Metrics(facts, S))
    BY <1>3, <1>5, <2>1, <2>3, BucketsFinite, RowsAddUp
  <2> QED
    BY <2>2, <2>4 DEF R
<1>8. /\ AddsUpTo([k \in DOMAIN ModelRows(facts, S) |-> ModelRows(facts, S)[k].metrics],
                  DOMAIN ModelRows(facts, S), Metrics(facts, S))
      /\ AddsUpTo([k \in DOMAIN CallerRows(facts, S) |-> CallerRows(facts, S)[k].metrics],
                  DOMAIN CallerRows(facts, S), Metrics(facts, S))
  BY <1>3, <1>5, BreakdownAddsUp, BreakdownsAreRows
<1> QED
  BY <1>6, <1>7, <1>8 DEF facts

-----------------------------------------------------------------------------
(* The facts of MongoDB: one document for each event, summed by group.       *)
DocumentsOf(evs, S) == {Document(evs[i]) : i \in S}

LEMMA DocumentsDiffer ==
    ASSUME NEW evs, Recorded(evs), NEW S \in SUBSET DOMAIN evs, NEW f, Terms(f, S),
           NEW F, \A i \in S : F[Document(evs[i])] = f[i]
    PROVE  /\ IsFiniteSet(DocumentsOf(evs, S)) /\ Terms(F, DocumentsOf(evs, S))
           /\ Sigma(F, DocumentsOf(evs, S)) = Sigma(f, S)
<1> DEFINE own == [i \in S |-> Document(evs[i])]
<1>1. ASSUME NEW i \in S, NEW j \in S, own[i] = own[j] PROVE i = j
  <2>1. own[i].time = evs[i].time /\ own[j].time = evs[j].time
    BY DEF Document
  <2> QED
    BY <1>1, <2>1 DEF Recorded
<1>2. Renames(own, F, f, S)
  BY <1>1 DEF Renames
<1>3. DocumentsOf(evs, S) = {own[i] : i \in S}
  BY DEF DocumentsOf
<1> HIDE DEF own
<1> QED
  BY <1>2, <1>3, SigmaRenamed

Bad(ds)    == {d \in ds : d.error}
Good(ds)   == {d \in ds : ~d.error}
Costly(ds) == {d \in ds : d.cost # None}

TokensIn(ds)  == SumFunctionOnSet([d \in ds |-> d.tokens], ds)
CostIn(ds)    == SumFunctionOnSet([d \in ds |-> d.cost], ds)
LatencyIn(ds) == SumFunctionOnSet([d \in ds |-> d.latency], ds)

Counts(ds, facts, S) ==
    /\ IsFiniteSet(ds)
    /\ Cardinality(ds) = Sigma(RequestsOf(facts), S)
    /\ Cardinality(Bad(ds)) = Sigma(ErrorsOf(facts), S)
    /\ TokensIn(ds) = Sigma(TokensOf(facts), S)
    /\ CostIn(Costly(ds)) = Sigma(CostOf(facts), S)
    /\ Cardinality(Costly(ds)) = Sigma(PricedOf(facts), S)
    /\ LatencyIn(Good(ds)) = Sigma(LatencyOf(facts), S)

LEMMA DocumentsCount ==
    ASSUME NEW evs, Recorded(evs), NEW W \in SUBSET DOMAIN evs, NEW S \in SUBSET W,
           NEW interval, NEW facts, facts = FactsOf(evs, W, interval),
           NEW ds, ds = DocumentsOf(evs, S)
    PROVE  Counts(ds, facts, S)
<1>1. /\ Terms(RequestsOf(facts), S) /\ Terms(ErrorsOf(facts), S)
      /\ Terms(TokensOf(facts), S) /\ Terms(CostOf(facts), S)
      /\ Terms(PricedOf(facts), S) /\ Terms(LatencyOf(facts), S)
  <2>1. Counted(facts) /\ DOMAIN facts = W
    BY FactsCounted DEF FactsOf
  <2> QED
    BY <2>1, CountedParts
<1> DEFINE costly == Costly(ds)
           good == Good(ds)
           bad == Bad(ds)
           one == [d \in ds |-> 1]
           err == [d \in ds |-> IF d.error THEN 1 ELSE 0]
           tok == [d \in ds |-> d.tokens]
           cos == [d \in ds |-> IF d.cost = None THEN 0 ELSE d.cost]
           pri == [d \in ds |-> IF d.cost = None THEN 0 ELSE 1]
           lat == [d \in ds |-> IF d.error THEN 0 ELSE d.latency]
<1>2. ASSUME NEW i \in S
      PROVE  /\ one[Document(evs[i])] = RequestsOf(facts)[i]
             /\ err[Document(evs[i])] = ErrorsOf(facts)[i]
             /\ tok[Document(evs[i])] = TokensOf(facts)[i]
             /\ cos[Document(evs[i])] = CostOf(facts)[i]
             /\ pri[Document(evs[i])] = PricedOf(facts)[i]
             /\ lat[Document(evs[i])] = LatencyOf(facts)[i]
  <2> DEFINE d == Document(evs[i])
             f == Fact(evs[i], interval)
  <2>1. /\ RequestsOf(facts)[i] = f.requests /\ ErrorsOf(facts)[i] = f.errors
        /\ TokensOf(facts)[i] = f.tokens /\ CostOf(facts)[i] = f.cost
        /\ PricedOf(facts)[i] = f.priced /\ LatencyOf(facts)[i] = f.latency
    BY DEF FactsOf, RequestsOf, ErrorsOf, TokensOf, CostOf, PricedOf, LatencyOf
  <2>2. /\ f.requests = 1 /\ f.errors = (IF evs[i].error THEN 1 ELSE 0)
        /\ f.tokens = evs[i].tokens
        /\ f.cost = (IF evs[i].cost = None THEN 0 ELSE evs[i].cost)
        /\ f.priced = (IF evs[i].cost = None THEN 0 ELSE 1)
        /\ f.latency = (IF evs[i].error THEN 0 ELSE evs[i].latency)
    BY DEF Fact
  <2>3. /\ d.error = evs[i].error /\ d.tokens = evs[i].tokens
        /\ d.cost = evs[i].cost /\ d.latency = evs[i].latency
    BY DEF Document
  <2>4. d \in ds
    BY DEF DocumentsOf
  <2> HIDE DEF d, f
  <2>5. /\ one[d] = 1 /\ err[d] = (IF d.error THEN 1 ELSE 0) /\ tok[d] = d.tokens
        /\ cos[d] = (IF d.cost = None THEN 0 ELSE d.cost)
        /\ pri[d] = (IF d.cost = None THEN 0 ELSE 1)
        /\ lat[d] = (IF d.error THEN 0 ELSE d.latency)
    BY <2>4
  <2> HIDE DEF one, err, tok, cos, pri, lat
  <2>6. /\ one[d] = RequestsOf(facts)[i] /\ err[d] = ErrorsOf(facts)[i]
        /\ tok[d] = TokensOf(facts)[i] /\ cos[d] = CostOf(facts)[i]
        /\ pri[d] = PricedOf(facts)[i] /\ lat[d] = LatencyOf(facts)[i]
    BY <2>1, <2>2, <2>3, <2>5
  <2> QED
    BY <2>6 DEF d
<1>3. /\ \A d \in ds : /\ one[d] = 1 /\ err[d] = IF d \in bad THEN 1 ELSE 0
                       /\ pri[d] = IF d \in costly THEN 1 ELSE 0
                       /\ cos[d] = IF d \in costly THEN d.cost ELSE 0
                       /\ lat[d] = IF d \in good THEN d.latency ELSE 0
      /\ tok = [d \in ds |-> d.tokens]
      /\ costly \in SUBSET ds /\ bad \in SUBSET ds /\ good \in SUBSET ds
  BY DEF Costly, Good, Bad
<1> HIDE DEF one, err, tok, cos, pri, lat, costly, good, bad
<1>4. S \in SUBSET DOMAIN evs
  OBVIOUS
<1>5. /\ IsFiniteSet(ds)
      /\ Sigma(one, ds) = Sigma(RequestsOf(facts), S)
      /\ Sigma(err, ds) = Sigma(ErrorsOf(facts), S)
  BY <1>1, <1>2, <1>4, DocumentsDiffer
<1>6. /\ Terms(tok, ds) /\ Sigma(tok, ds) = Sigma(TokensOf(facts), S)
      /\ Terms(cos, ds) /\ Sigma(cos, ds) = Sigma(CostOf(facts), S)
  BY <1>1, <1>2, <1>4, DocumentsDiffer
<1>7. /\ Sigma(pri, ds) = Sigma(PricedOf(facts), S)
      /\ Terms(lat, ds) /\ Sigma(lat, ds) = Sigma(LatencyOf(facts), S)
  BY <1>1, <1>2, <1>4, DocumentsDiffer
<1>8. Sigma(one, ds) = Cardinality(ds)
  <2>1. ds \in SUBSET ds /\ \A d \in ds : one[d] = IF d \in ds THEN 1 ELSE 0
    BY <1>3
  <2> QED
    BY <1>5, <2>1, SigmaCount
<1>9. Sigma(err, ds) = Cardinality(bad) /\ Sigma(pri, ds) = Cardinality(costly)
  BY <1>3, <1>5, SigmaCount
<1>10. SumFunctionOnSet(tok, ds) = Sigma(tok, ds)
  BY <1>6, SumIsSigma
<1>11. SumFunctionOnSet([d \in costly |-> d.cost], costly) = Sigma(cos, ds)
  <2> DEFINE g == [d \in costly |-> d.cost]
  <2>1. \A d \in ds : cos[d] = IF d \in costly THEN g[d] ELSE 0
    BY <1>3
  <2>2. Terms(g, costly)
    <3>1. \A d \in costly : g[d] = cos[d] /\ cos[d] \in Int
      BY <1>3, <1>6 DEF Terms
    <3> QED
      BY <1>3, <1>5, <3>1, FS_Subset DEF Terms
  <2> HIDE DEF g
  <2>3. Sigma(cos, ds) = Sigma(g, costly)
    BY <1>3, <1>5, <2>1, <2>2, SigmaSelected
  <2>4. SumFunctionOnSet(g, costly) = Sigma(g, costly)
    BY <2>2, SumIsSigma
  <2> QED
    BY <2>3, <2>4 DEF g
<1>12. SumFunctionOnSet([d \in good |-> d.latency], good) = Sigma(lat, ds)
  <2> DEFINE g == [d \in good |-> d.latency]
  <2>1. \A d \in ds : lat[d] = IF d \in good THEN g[d] ELSE 0
    BY <1>3
  <2>2. Terms(g, good)
    <3>1. \A d \in good : g[d] = lat[d] /\ lat[d] \in Int
      BY <1>3, <1>7 DEF Terms
    <3> QED
      BY <1>3, <1>5, <3>1, FS_Subset DEF Terms
  <2> HIDE DEF g
  <2>3. Sigma(lat, ds) = Sigma(g, good)
    BY <1>3, <1>5, <2>1, <2>2, SigmaSelected
  <2>4. SumFunctionOnSet(g, good) = Sigma(g, good)
    BY <2>2, SumIsSigma
  <2> QED
    BY <2>3, <2>4 DEF g
<1>13. SumFunctionOnSet([d \in ds |-> d.tokens], ds) = Sigma(TokensOf(facts), S)
  BY <1>3, <1>6, <1>10
<1>14. /\ SumFunctionOnSet([d \in costly |-> d.cost], costly) = Sigma(CostOf(facts), S)
       /\ Cardinality(costly) = Sigma(PricedOf(facts), S)
       /\ SumFunctionOnSet([d \in good |-> d.latency], good) = Sigma(LatencyOf(facts), S)
       /\ Cardinality(bad) = Sigma(ErrorsOf(facts), S)
       /\ Cardinality(ds) = Sigma(RequestsOf(facts), S)
  BY <1>5, <1>6, <1>7, <1>8, <1>9, <1>11, <1>12
<1> QED
  BY <1>5, <1>13, <1>14 DEF Counts, TokensIn, CostIn, LatencyIn, costly, good, bad

-----------------------------------------------------------------------------
(* The order of the rows: no two have the same rank.                         *)
Sortable(rows) ==
    /\ IsFiniteSet(rows)
    /\ \A r \in rows : r.bucket \in Int /\ r.lastSeen \in Int
    /\ \A r, s \in rows : r.lastSeen = s.lastSeen => r = s

LEMMA RanksDiffer ==
    ASSUME NEW rows, Sortable(rows)
    PROVE  \A r, s \in rows : /\ Ranks(rows)[r] \in Nat
                              /\ Ranks(rows)[r] = Ranks(rows)[s] => r = s
<1> DEFINE Before(r) == {s \in rows : Earlier(s, r)}
<1>1. \A r \in rows : /\ Ranks(rows)[r] = Cardinality(Before(r))
                      /\ IsFiniteSet(Before(r)) /\ Cardinality(Before(r)) \in Nat
  <2>1. \A r \in rows : IsFiniteSet(Before(r))
    BY FS_Subset DEF Sortable
  <2> QED
    BY <2>1, FS_CardinalityType DEF Ranks
<1>2. ASSUME NEW r \in rows, NEW s \in rows, Earlier(r, s)
      PROVE  Ranks(rows)[r] < Ranks(rows)[s]
  <2>1. Before(r) \subseteq Before(s)
    BY <1>2 DEF Sortable, Earlier
  <2>2. r \in Before(s) /\ r \notin Before(r)
    BY <1>2 DEF Sortable, Earlier
  <2> DEFINE A == Before(r)  B == Before(s)
  <2>3. A \subseteq B /\ A # B /\ IsFiniteSet(B) /\ Cardinality(A) \in Nat /\ Cardinality(B) \in Nat
    BY <1>1, <2>1, <2>2
  <2> HIDE DEF A, B
  <2>4. Cardinality(A) < Cardinality(B)
    <3>1. IsFiniteSet(A) /\ Cardinality(A) <= Cardinality(B)
          /\ (Cardinality(A) = Cardinality(B) => A = B)
      BY <2>3, FS_Subset
    <3> QED
      BY <2>3, <3>1
  <2> QED
    BY <1>1, <2>4 DEF A, B
<1>3. \A r, s \in rows : r # s => Earlier(r, s) \/ Earlier(s, r)
  BY DEF Sortable, Earlier
<1> HIDE DEF Before
<1> QED
  BY <1>1, <1>2, <1>3

(* The rows of a query, by the stamp of their documents.                     *)
StampOf(evs, interval, i) == Stamp(Document(evs[i]), interval)

Stamped(evs, W, interval, g) == {i \in W : StampOf(evs, interval, i) = g}

LEMMA FoundIs ==
    ASSUME Recorded(events), docs = DocumentsOf(events, DOMAIN events), NEW q
    PROVE  {d \in docs : InWindow(d.time, q)} = DocumentsOf(events, InTime(events, q))
<1>1. \A i \in DOMAIN events : Document(events[i]).time = events[i].time
  BY DEF Document
<1> QED
  BY <1>1 DEF DocumentsOf, InTime

LEMMA RowFacts ==
    ASSUME NEW evs, Recorded(evs), NEW W \in SUBSET DOMAIN evs, NEW interval,
           NEW mf, mf = FactsOf(evs, W, interval),
           NEW k \in W, NEW g, g = StampOf(evs, interval, k),
           NEW row, row = Grouped(g, interval, DocumentsOf(evs, W))
    PROVE  LET group == Stamped(evs, W, interval, g)
           IN /\ row.bucket = g.bucket /\ row.model = g.model
              /\ row.caller = g.caller /\ row.operation = g.operation
              /\ row.requests = Sigma(RequestsOf(mf), group)
              /\ row.errors = Sigma(ErrorsOf(mf), group)
              /\ row.tokens = Sigma(TokensOf(mf), group)
              /\ row.cost = Sigma(CostOf(mf), group)
              /\ row.priced = Sigma(PricedOf(mf), group)
              /\ row.latency = Sigma(LatencyOf(mf), group)
              /\ \E i \in group : row.lastSeen = mf[i].lastSeen
              /\ \A i \in group : mf[i].lastSeen <= row.lastSeen
<1> DEFINE group == Stamped(evs, W, interval, g)
           found == DocumentsOf(evs, W)
           ds == {d \in found : Stamp(d, interval) = g}
           seen == {d.time : d \in ds}
<1>1. ds = DocumentsOf(evs, group) /\ group \in SUBSET W /\ k \in group
  BY DEF DocumentsOf, Stamped, StampOf
<1>2. \A d \in ds : d.type = "error" <=> d.error
  <2>1. \A i \in W : /\ Document(evs[i]).type = evs[i].type
                     /\ Document(evs[i]).error = evs[i].error
    BY DEF Document
  <2> QED
    BY <2>1 DEF DocumentsOf, Recorded, EventOK
<1>3. seen = {evs[i].time : i \in group}
  <2>1. \A i \in W : Document(evs[i]).time = evs[i].time
    BY DEF Document
  <2> HIDE DEF ds
  <2> QED
    BY <1>1, <2>1 DEF DocumentsOf
<1>4. Counts(ds, mf, group)
  <2> HIDE DEF ds, group
  <2> QED
    BY <1>1, DocumentsCount
<1> DEFINE failed == {d \in ds : d.type = "error" \/ d.error}
           answered == {d \in ds : ~(d.type = "error" \/ d.error)}
           charged == {d \in ds : Priced(d) /\ d.cost # None}
           priced == {d \in ds : Priced(d)}
<1>5. failed = Bad(ds) /\ answered = Good(ds) /\ charged = Costly(ds) /\ priced = Costly(ds)
  <2> HIDE DEF ds
  <2> QED
    BY <1>2 DEF Priced, Bad, Good, Costly
<1>6. /\ row.bucket = g.bucket /\ row.model = g.model
      /\ row.caller = g.caller /\ row.operation = g.operation
      /\ row.requests = Cardinality(ds)
      /\ row.errors = Cardinality(Bad(ds))
      /\ row.tokens = TokensIn(ds)
      /\ row.cost = CostIn(Costly(ds))
      /\ row.priced = Cardinality(Costly(ds))
      /\ row.latency = LatencyIn(Good(ds))
      /\ row.lastSeen = Max(seen)
  <2>1. row = [bucket |-> g.bucket, model |-> g.model,
          caller |-> g.caller, operation |-> g.operation,
          requests |-> Cardinality(ds),
          errors |-> Cardinality(failed),
          tokens |-> TokensIn(ds),
          cost |-> CostIn(charged),
          priced |-> Cardinality(priced),
          latency |-> LatencyIn(answered),
          lastSeen |-> Max(seen)]
    BY DEF Grouped, Sum, TokensIn, CostIn, LatencyIn
  <2> HIDE DEF ds, seen, failed, answered, charged, priced
  <2> QED
    BY <1>5, <2>1
<1>7. Max(seen) \in seen /\ \A t \in seen : t <= Max(seen)
  <2>1. IsFiniteSet(seen)
    <3>1. [d \in ds |-> d.time] \in Surjection(ds, seen)
      BY DEF Surjection
    <3> HIDE DEF ds, seen
    <3> QED
      BY <1>4, <3>1, FS_Surjection DEF Counts
  <2>2. \A i \in group : evs[i].time \in Int
    BY <1>1 DEF Recorded, EventOK
  <2>3. seen # {} /\ \A t \in seen : t \in Int
    <3> HIDE DEF seen, group
    <3> QED
      BY <1>1, <1>3, <2>2
  <2> HIDE DEF seen
  <2> QED
    BY <2>1, <2>3, MaxFacts
<1>8. \A i \in group : mf[i].lastSeen = evs[i].time
  BY <1>1 DEF FactsOf, Fact
<1>9. /\ \E i \in group : row.lastSeen = mf[i].lastSeen
      /\ \A i \in group : mf[i].lastSeen <= row.lastSeen
  <2> HIDE DEF seen, group
  <2> QED
    BY <1>3, <1>6, <1>7, <1>8
<1>10. /\ row.requests = Sigma(RequestsOf(mf), group)
       /\ row.errors = Sigma(ErrorsOf(mf), group)
       /\ row.tokens = Sigma(TokensOf(mf), group)
       /\ row.cost = Sigma(CostOf(mf), group)
       /\ row.priced = Sigma(PricedOf(mf), group)
       /\ row.latency = Sigma(LatencyOf(mf), group)
  <2> HIDE DEF ds, group
  <2> QED
    BY <1>4, <1>6 DEF Counts
<1> QED
  BY <1>6, <1>9, <1>10

(* The rows of MongoDB group the facts of memory.                            *)
LEMMA SinkGroups ==
    ASSUME Recorded(events), docs = DocumentsOf(events, DOMAIN events), NEW q
    PROVE  \E own : Grouping(SinkFacts(q), MemoryFacts(q), own)
<1> DEFINE W == InTime(events, q)
           interval == BucketOf(q)
           mf == MemoryFacts(q)
           sf == SinkFacts(q)
           rows == SinkRows(q)
           ranks == Ranks(rows)
           stamp == [i \in W |-> StampOf(events, interval, i)]
           row == [i \in W |-> Grouped(stamp[i], interval, DocumentsOf(events, W))]
           own == [i \in W |-> ranks[row[i]]]
<1>1. /\ W \in SUBSET DOMAIN events /\ mf = FactsOf(events, W, interval)
      /\ DOMAIN mf = W
  BY MemoryIs DEF InTime, FactsOf
<1>2. rows = {row[i] : i \in W}
  <2>1. rows = {Grouped(g, interval, DocumentsOf(events, W)) :
                   g \in {Stamp(d, interval) : d \in DocumentsOf(events, W)}}
    BY FoundIs DEF SinkRows
  <2>2. {Stamp(d, interval) : d \in DocumentsOf(events, W)} = {stamp[i] : i \in W}
    BY DEF DocumentsOf, StampOf
  <2> HIDE DEF stamp, rows
  <2> QED
    BY <2>1, <2>2
<1>3. sf = [n \in {ranks[r] : r \in rows} |-> CHOOSE r \in rows : ranks[r] = n]
  BY DEF SinkFacts
<1>4. Counted(mf) /\ IsFiniteSet(W) /\ W \subseteq Nat
  <2>1. Counted(mf)
    BY <1>1, FactsCounted
  <2> QED
    BY <1>1, <2>1 DEF Counted
<1> DEFINE Group(g) == Stamped(events, W, interval, g)
<1>5. ASSUME NEW k \in W
      PROVE  LET r == row[k]  g == stamp[k]  group == Group(g)
             IN /\ r.bucket = g.bucket /\ r.model = g.model
                /\ r.caller = g.caller /\ r.operation = g.operation
                /\ r.requests = Sigma(RequestsOf(mf), group)
                /\ r.errors = Sigma(ErrorsOf(mf), group)
                /\ r.tokens = Sigma(TokensOf(mf), group)
                /\ r.cost = Sigma(CostOf(mf), group)
                /\ r.priced = Sigma(PricedOf(mf), group)
                /\ r.latency = Sigma(LatencyOf(mf), group)
                /\ \E i \in group : r.lastSeen = mf[i].lastSeen
                /\ \A i \in group : mf[i].lastSeen <= r.lastSeen
  <2>1. /\ stamp[k] = StampOf(events, interval, k)
        /\ row[k] = Grouped(stamp[k], interval, DocumentsOf(events, W))
    OBVIOUS
  <2> HIDE DEF W, interval, mf, stamp, row
  <2> QED
    BY <1>1, <2>1, RowFacts
<1>6. \A k \in W : Group(stamp[k]) = {i \in W : stamp[i] = stamp[k]}
  BY DEF Stamped
<1>7. ASSUME NEW k \in W
      PROVE  /\ stamp[k].bucket = mf[k].bucket /\ stamp[k].model = mf[k].model
             /\ stamp[k].caller = mf[k].caller /\ stamp[k].operation = mf[k].operation
             /\ stamp[k] = [bucket |-> stamp[k].bucket, model |-> stamp[k].model,
                            caller |-> stamp[k].caller, operation |-> stamp[k].operation]
             /\ mf[k].bucket \in Int /\ mf[k].lastSeen = events[k].time
  <2>1. stamp[k] = [bucket |-> Floor(events[k].time, interval), model |-> events[k].model,
                    caller |-> CallerOf(events[k]), operation |-> events[k].operation]
    BY DEF StampOf, Stamp, Document, CallerOf
  <2>2. /\ mf[k].bucket = Floor(events[k].time, interval) /\ mf[k].model = events[k].model
        /\ mf[k].caller = CallerOf(events[k]) /\ mf[k].operation = events[k].operation
        /\ mf[k].lastSeen = events[k].time
    BY <1>1 DEF FactsOf, Fact
  <2>3. Floor(events[k].time, interval) \in Int
    <3>1. interval \in Nat \ {0}
      BY ReportsAssumption DEF BucketOf
    <3>2. events[k].time \in Nat
      BY <1>1 DEF Recorded, EventOK
    <3> HIDE DEF interval
    <3> QED
      BY <3>1, <3>2, FloorFacts
  <2> HIDE DEF stamp, mf
  <2> QED
    BY <2>1, <2>2, <2>3
<1> HIDE DEF stamp, row, mf, rows, ranks, W, interval, Group, sf
<1>8. \A i, j \in W : mf[i].lastSeen = mf[j].lastSeen => i = j
  <2>1. \A i \in W : i \in DOMAIN events /\ mf[i].lastSeen = events[i].time
    BY <1>1, <1>7
  <2>2. \A i, j \in DOMAIN events : events[i].time = events[j].time => i = j
    BY DEF Recorded
  <2> QED
    BY <2>1, <2>2
<1>9. \A k, l \in W : row[k].lastSeen = row[l].lastSeen => stamp[k] = stamp[l]
  <2>1. SUFFICES ASSUME NEW k \in W, NEW l \in W, row[k].lastSeen = row[l].lastSeen
                 PROVE  stamp[k] = stamp[l]
    OBVIOUS
  <2>2. PICK i \in Group(stamp[k]) : row[k].lastSeen = mf[i].lastSeen
    BY <1>5
  <2>3. PICK j \in Group(stamp[l]) : row[l].lastSeen = mf[j].lastSeen
    BY <1>5
  <2>4. i \in W /\ j \in W /\ stamp[i] = stamp[k] /\ stamp[j] = stamp[l]
    BY <1>6
  <2>5. i = j
    BY <1>8, <2>1, <2>2, <2>3, <2>4
  <2> QED
    BY <2>4, <2>5
<1>10. \A k, l \in W : stamp[k] = stamp[l] => row[k] = row[l]
  BY DEF row
<1>11. Sortable(rows)
  <2>1. IsFiniteSet(rows)
    <3>1. [i \in W |-> row[i]] \in Surjection(W, rows)
      BY <1>2 DEF Surjection
    <3> QED
      BY <1>4, <3>1, FS_Surjection
  <2>2. \A k \in W : row[k].bucket \in Int
    BY <1>5, <1>7
  <2>3. \A k \in W : row[k].lastSeen \in Int
    <3>1. SUFFICES ASSUME NEW k \in W PROVE row[k].lastSeen \in Int
      OBVIOUS
    <3>2. PICK i \in Group(stamp[k]) : row[k].lastSeen = mf[i].lastSeen
      BY <1>5
    <3>3. i \in W
      BY <1>6
    <3> QED
      BY <1>1, <1>4, <3>2, <3>3 DEF Counted
  <2> QED
    BY <1>2, <1>9, <1>10, <2>1, <2>2, <2>3 DEF Sortable
<1>12. \A r, s \in rows : ranks[r] \in Nat /\ (ranks[r] = ranks[s] => r = s)
  BY <1>11, RanksDiffer DEF ranks
<1>13. /\ DOMAIN sf = {ranks[r] : r \in rows}
       /\ \A r \in rows : ranks[r] \in DOMAIN sf /\ sf[ranks[r]] = r
  BY <1>3, <1>12
<1>14. \A k \in W : own[k] = ranks[row[k]] /\ own[k] \in DOMAIN sf /\ sf[own[k]] = row[k]
  BY <1>2, <1>13
<1>15. \A n \in DOMAIN sf : \E k \in W : n = own[k]
  BY <1>2, <1>13, <1>14
<1> HIDE DEF own
<1>16. \A k \in W : Fibre(own, W, own[k]) = Group(stamp[k])
  <2>1. \A k, l \in W : own[k] = own[l] <=> row[k] = row[l]
    BY <1>2, <1>12, <1>14
  <2>2. \A k, l \in W : row[k] = row[l] <=> stamp[k] = stamp[l]
    BY <1>9, <1>10
  <2> QED
    BY <1>6, <2>1, <2>2 DEF Fibre
<1>17. IsFiniteSet(DOMAIN sf) /\ \A n \in DOMAIN sf : n \in Nat
  <2>1. [k \in W |-> own[k]] \in Surjection(W, DOMAIN sf)
    BY <1>14, <1>15 DEF Surjection
  <2>2. IsFiniteSet(DOMAIN sf)
    BY <1>4, <2>1, FS_Surjection
  <2> QED
    BY <1>12, <1>13, <2>2
<1>18. ASSUME NEW k \in W
       PROVE  SameLabels(sf[own[k]], mf[k])
  <2>1. /\ row[k].bucket = stamp[k].bucket /\ row[k].model = stamp[k].model
        /\ row[k].caller = stamp[k].caller /\ row[k].operation = stamp[k].operation
    BY <1>5
  <2>2. /\ stamp[k].bucket = mf[k].bucket /\ stamp[k].model = mf[k].model
        /\ stamp[k].caller = mf[k].caller /\ stamp[k].operation = mf[k].operation
    BY <1>7
  <2>3. sf[own[k]] = row[k]
    BY <1>14
  <2> QED
    BY <2>1, <2>2, <2>3 DEF SameLabels
<1>19. ASSUME NEW k \in W
       PROVE  RowOf(sf, mf, own, own[k])
  <2> DEFINE n == own[k]
             group == Group(stamp[k])
             r == row[k]
  <2>1. n \in DOMAIN sf /\ sf[n] = r /\ Fibre(own, W, n) = group
    BY <1>14, <1>16
  <2>2. group # {}
    BY <1>6
  <2>3. /\ r.requests = Sigma(RequestsOf(mf), group)
        /\ r.errors = Sigma(ErrorsOf(mf), group)
        /\ r.tokens = Sigma(TokensOf(mf), group)
        /\ r.cost = Sigma(CostOf(mf), group)
        /\ r.priced = Sigma(PricedOf(mf), group)
        /\ r.latency = Sigma(LatencyOf(mf), group)
        /\ \E i \in group : r.lastSeen = mf[i].lastSeen
        /\ \A i \in group : mf[i].lastSeen <= r.lastSeen
    BY <1>5
  <2> HIDE DEF n, group, r
  <2>4. /\ RequestsOf(sf)[n] = r.requests /\ ErrorsOf(sf)[n] = r.errors
        /\ TokensOf(sf)[n] = r.tokens /\ CostOf(sf)[n] = r.cost
        /\ PricedOf(sf)[n] = r.priced /\ LatencyOf(sf)[n] = r.latency
    BY <2>1 DEF RequestsOf, ErrorsOf, TokensOf, CostOf, PricedOf, LatencyOf
  <2>5. RowOf(sf, mf, own, n)
    BY <1>1, <2>1, <2>2, <2>3, <2>4 DEF RowOf
  <2> QED
    BY <2>5 DEF n
<1>20. \A n \in DOMAIN sf : RowOf(sf, mf, own, n)
  BY <1>15, <1>19
<1>21. Counted(sf)
  <2>1. \A S \in SUBSET W : /\ Terms(RequestsOf(mf), S) /\ Terms(ErrorsOf(mf), S)
                            /\ Terms(TokensOf(mf), S) /\ Terms(CostOf(mf), S)
                            /\ Terms(PricedOf(mf), S) /\ Terms(LatencyOf(mf), S)
    BY <1>1, <1>4, CountedParts
  <2>2. \A S \in SUBSET W :
            /\ Sigma(RequestsOf(mf), S) \in Int /\ Sigma(ErrorsOf(mf), S) \in Int
            /\ Sigma(TokensOf(mf), S) \in Int /\ Sigma(CostOf(mf), S) \in Int
            /\ Sigma(PricedOf(mf), S) \in Int /\ Sigma(LatencyOf(mf), S) \in Int
    BY <2>1, SigmaType DEF Terms
  <2>3. \A k \in W : Group(stamp[k]) \in SUBSET W
    BY <1>6
  <2>4. ASSUME NEW k \in W
        PROVE  /\ row[k].requests \in Int /\ row[k].errors \in Int
               /\ row[k].tokens \in Int /\ row[k].cost \in Int
               /\ row[k].priced \in Int /\ row[k].latency \in Int
    BY <1>5, <2>2, <2>3
  <2>5. \A k \in W : row[k].lastSeen \in Int
    BY <1>2, <1>11 DEF Sortable
  <2>6. \A n \in DOMAIN sf : \E k \in W : sf[n] = row[k]
    BY <1>14, <1>15
  <2> QED
    BY <1>17, <2>4, <2>5, <2>6 DEF Counted
<1>22. Grouping(sf, mf, own)
  BY <1>1, <1>4, <1>14, <1>18, <1>20, <1>8, <1>21 DEF Grouping
<1> QED
  BY <1>22 DEF sf, mf

LEMMA SourcesHold ==
    ASSUME Recorded(events), docs = DocumentsOf(events, DOMAIN events)
    PROVE  SourcesAgree
<1>1. SUFFICES ASSUME NEW q \in Queries
               PROVE  Build(SinkFacts(q), q) = Build(MemoryFacts(q), q)
  BY DEF SourcesAgree
<1>2. PICK own : Grouping(SinkFacts(q), MemoryFacts(q), own)
  BY SinkGroups
<1> QED
  BY <1>2, BuildAgrees

-----------------------------------------------------------------------------
(* Averages: rounded, and weighed again.                                     *)
LEMMA RoundedFacts ==
    ASSUME NEW l \in Nat, NEW n \in Nat \ {0}
    PROVE  LET a == (2 * l + n) \div (2 * n)
     IN a \in Nat /\ (2*n)*a <= 2*l + n /\ 2*l+n < (2*n)*a + 2*n
<1>1. 2*l+n \in Nat /\ 2*n \in Nat \ {0}
  OBVIOUS
<1> DEFINE x == 2*l+n y == 2*n
<1>2. x \div y \in Nat /\ x % y \in 0..(y-1) /\ x = y * (x \div y) + (x % y)
  BY <1>1, DivFacts
<1> QED
  BY <1>1, <1>2

LEMMA WeighedAgain ==
    ASSUME NEW l \in Nat, NEW n \in Nat, n = 0 => l = 0
    PROVE  LET w == Rounded(l, n) * n
           IN w \in Nat /\ w + w <= (l + l) + n /\ l + l <= (w + w) + n
<1>1. CASE n = 0
  BY <1>1 DEF Rounded
<1>2. CASE n # 0
  <2> DEFINE a == (2 * l + n) \div (2 * n)
  <2>1. a \in Nat /\ (2 * n) * a <= 2 * l + n /\ 2 * l + n < (2 * n) * a + 2 * n
    BY <1>2, RoundedFacts
  <2>2. Rounded(l, n) = a
    BY <1>2 DEF Rounded
  <2> HIDE DEF a
  <2>3. a * n \in Nat /\ (2 * n) * a = (a * n) + (a * n)
    BY <2>1
  <2> DEFINE w == a * n
  <2>4. w \in Nat /\ w + w <= 2 * l + n /\ 2 * l + n < (w + w) + 2 * n
    BY <2>1, <2>3
  <2> HIDE DEF w
  <2>5. w + w <= (l + l) + n /\ l + l <= (w + w) + n
    BY <2>4
  <2> QED
    BY <2>2, <2>4, <2>5 DEF w
<1> QED
  BY <1>1, <1>2

LEMMA AveragesClose ==
    ASSUME NEW l \in Nat, NEW w \in Nat, NEW n \in Nat,
           w + w <= (l + l) + n, l + l <= (w + w) + n
    PROVE  Rounded(l, n) - Rounded(w, n) \in -1 .. 1
<1>1. CASE n = 0
  BY <1>1 DEF Rounded
<1>2. CASE n # 0
  <2> DEFINE a == (2 * l + n) \div (2 * n)
             b == (2 * w + n) \div (2 * n)
             p == 2 * n
  <2>1. /\ a \in Nat /\ p * a <= 2 * l + n /\ 2 * l + n < p * a + p
        /\ b \in Nat /\ p * b <= 2 * w + n /\ 2 * w + n < p * b + p
    BY <1>2, RoundedFacts
  <2>2. Rounded(l, n) = a /\ Rounded(w, n) = b
    BY <1>2 DEF Rounded
  <2>3. p \in Nat \ {0} /\ p = n + n
    BY <1>2
  <2> HIDE DEF a, b, p
  <2>4. \A x, y \in Nat : y + 2 <= x => p * y + (p + p) <= p * x
    <3>1. SUFFICES ASSUME NEW x \in Nat, NEW y \in Nat, y + 2 <= x
                   PROVE  p * y + (p + p) <= p * x
      OBVIOUS
    <3>2. PICK z \in Nat : x = (y + 2) + z
      <4>1. x - (y + 2) \in Nat /\ x = (y + 2) + (x - (y + 2))
        BY <3>1
      <4> QED
        BY <4>1
    <3>3. p * x = (p * y + (p + p)) + p * z /\ p * z \in Nat /\ p * y \in Nat
      BY <2>3, <3>2
    <3> QED
      BY <2>3, <3>3
  <2>5. p * a \in Nat /\ p * b \in Nat
    BY <2>1, <2>3
  <2> DEFINE pa == p * a
             pb == p * b
  <2>6. pa \in Nat /\ pb \in Nat
    BY <2>5
  <2>7. /\ pa <= 2 * l + n /\ 2 * l + n < pa + p
        /\ pb <= 2 * w + n /\ 2 * w + n < pb + p
        /\ (b + 2 <= a => pb + (p + p) <= pa)
        /\ (a + 2 <= b => pa + (p + p) <= pb)
    BY <2>1, <2>4
  <2> HIDE DEF pa, pb
  <2>8. ~(b + 2 <= a) /\ ~(a + 2 <= b)
    BY <2>1, <2>3, <2>6, <2>7
  <2> QED
    BY <2>1, <2>2, <2>8
<1> QED
  BY <1>1, <1>2

-----------------------------------------------------------------------------
(* What the calls S used.                                                    *)
Seen(evs) == FactsOf(evs, DOMAIN evs, HOUR)

Usage(evs, S) ==
    [requests |-> Sigma(RequestsOf(Seen(evs)), S),
     errors   |-> Sigma(ErrorsOf(Seen(evs)), S),
     tokens   |-> Sigma(TokensOf(Seen(evs)), S),
     latency  |-> Sigma(LatencyOf(Seen(evs)), S)]

UsageTerms(evs, S) ==
    /\ Terms(RequestsOf(Seen(evs)), S) /\ Terms(ErrorsOf(Seen(evs)), S)
    /\ Terms(TokensOf(Seen(evs)), S) /\ Terms(LatencyOf(Seen(evs)), S)

LEMMA SeenFacts ==
    ASSUME NEW evs, Recorded(evs), NEW i \in DOMAIN evs
    PROVE  /\ RequestsOf(Seen(evs))[i] = 1
           /\ ErrorsOf(Seen(evs))[i] = (IF evs[i].error THEN 1 ELSE 0)
           /\ TokensOf(Seen(evs))[i] = evs[i].tokens
           /\ LatencyOf(Seen(evs))[i] = (IF evs[i].error THEN 0 ELSE evs[i].latency)
           /\ EventOK(evs[i])
BY DEF Seen, FactsOf, Fact, RequestsOf, ErrorsOf, TokensOf, LatencyOf, Recorded

LEMMA UsageTyped ==
    ASSUME NEW evs, Recorded(evs), NEW S \in SUBSET DOMAIN evs
    PROVE  UsageTerms(evs, S)
<1>1. Counted(Seen(evs)) /\ DOMAIN Seen(evs) = DOMAIN evs
  BY FactsCounted DEF Seen, FactsOf
<1> QED
  BY <1>1, CountedParts DEF UsageTerms

LEMMA UsageOfNone == \A evs : Usage(evs, {}) = NoUsage
BY SigmaEmpty DEF Usage, NoUsage

LEMMA UsageOfOneMore ==
    ASSUME NEW evs, Recorded(evs), NEW S \in SUBSET DOMAIN evs,
           NEW i \in DOMAIN evs, i \notin S
    PROVE  Usage(evs, S \cup {i}) = With(Usage(evs, S), evs[i])
<1>1. UsageTerms(evs, S) /\ UsageTerms(evs, S \cup {i})
  BY UsageTyped
<1>2. /\ RequestsOf(Seen(evs))[i] \in Int /\ ErrorsOf(Seen(evs))[i] \in Int
      /\ TokensOf(Seen(evs))[i] \in Int /\ LatencyOf(Seen(evs))[i] \in Int
  BY <1>1 DEF UsageTerms, Terms
<1>3. /\ Sigma(RequestsOf(Seen(evs)), S \cup {i})
           = Sigma(RequestsOf(Seen(evs)), S) + RequestsOf(Seen(evs))[i]
      /\ Sigma(ErrorsOf(Seen(evs)), S \cup {i})
           = Sigma(ErrorsOf(Seen(evs)), S) + ErrorsOf(Seen(evs))[i]
      /\ Sigma(TokensOf(Seen(evs)), S \cup {i})
           = Sigma(TokensOf(Seen(evs)), S) + TokensOf(Seen(evs))[i]
      /\ Sigma(LatencyOf(Seen(evs)), S \cup {i})
           = Sigma(LatencyOf(Seen(evs)), S) + LatencyOf(Seen(evs))[i]
  BY <1>1, <1>2, SigmaOneMore DEF UsageTerms
<1> QED
  BY <1>3, SeenFacts DEF Usage, With

(* A call that failed has no latency, so where all failed there is none.     *)
Sound(u) ==
    /\ u.requests \in Nat /\ u.errors \in Nat /\ u.tokens \in Nat /\ u.latency \in Nat
    /\ u.errors <= u.requests
    /\ u.errors = u.requests => u.latency = 0

LEMMA UsageSound ==
    ASSUME NEW evs, Recorded(evs), NEW S \in SUBSET DOMAIN evs
    PROVE  Sound(Usage(evs, S))
<1> DEFINE D == {T \in SUBSET S : Sound(Usage(evs, T))}
<1>1. {} \in D
  BY UsageOfNone DEF Sound, NoUsage
<1>2. ASSUME NEW T \in SUBSET S, NEW x \in T, T \ {x} \in D
      PROVE  T \in D
  <2> DEFINE u == Usage(evs, T \ {x})
             e == evs[x]
  <2>1. (T \ {x}) \cup {x} = T /\ x \in DOMAIN evs /\ T \ {x} \in SUBSET DOMAIN evs
    BY <1>2
  <2>2. Usage(evs, T) = With(u, e)
    BY <2>1, UsageOfOneMore
  <2>3. Sound(u)
    BY <1>2
  <2>4. EventOK(e)
    BY <2>1 DEF Recorded
  <2> HIDE DEF u, e
  <2>5. Sound(With(u, e))
    BY <2>3, <2>4 DEF Sound, With, EventOK
  <2> QED
    BY <2>2, <2>5
<1>3. IsFiniteSet(S)
  BY UsageTyped DEF UsageTerms, Terms
<1>4. \A T \in SUBSET S : T \in D
  <2> HIDE DEF D
  <2> QED
    BY <1>1, <1>2, <1>3, SubsetInduction
<1> QED
  BY <1>4

-----------------------------------------------------------------------------
(* The summary of MongoDB, over a row for each model.                        *)
OfModel(evs, m) == {i \in DOMAIN evs : evs[i].model = m}

Collected == docs = DocumentsOf(events, DOMAIN events)

LEMMA SinkRowIs ==
    ASSUME Recorded(events), Collected, NEW m
    PROVE  SinkRow(m) = Usage(events, OfModel(events, m))
<1> DEFINE S == OfModel(events, m)
           ds == DocumentsOf(events, S)
           facts == Seen(events)
           found == {d \in docs : d.model = m}
           bad == {d \in found : d.error}
           good == {d \in found : ~d.error}
<1>1. S \in SUBSET DOMAIN events /\ DOMAIN events \in SUBSET DOMAIN events
  BY DEF OfModel
<1>2. found = ds
  <2>1. \A i \in DOMAIN events : Document(events[i]).model = events[i].model
    BY DEF Document
  <2> QED
    BY <2>1 DEF Collected, DocumentsOf, OfModel
<1>3. Counts(ds, facts, S)
  <2> HIDE DEF ds, S
  <2> QED
    BY <1>1, DocumentsCount DEF Seen, ds
<1>4. bad = Bad(found) /\ good = Good(found)
  BY DEF Bad, Good
<1>5. SinkRow(m) = [requests |-> Cardinality(found), errors |-> Cardinality(bad),
                    tokens |-> TokensIn(found), latency |-> LatencyIn(good)]
  BY DEF SinkRow, Sum, TokensIn, LatencyIn
<1> HIDE DEF found, ds, bad, good, S, facts
<1>6. SinkRow(m) = [requests |-> Sigma(RequestsOf(facts), S), errors |-> Sigma(ErrorsOf(facts), S),
                    tokens |-> Sigma(TokensOf(facts), S), latency |-> Sigma(LatencyOf(facts), S)]
  BY <1>2, <1>3, <1>4, <1>5 DEF Counts
<1> QED
  BY <1>6 DEF Usage, S, facts

LEMMA SinkTotals ==
    ASSUME Recorded(events), Collected
    PROVE  LET u == Usage(events, DOMAIN events)
           IN /\ SinkSummary.requests = u.requests /\ SinkSummary.errors = u.errors
              /\ SinkSummary.tokens = u.tokens
              /\ Average(u) - SinkSummary.average \in -1 .. 1
<1> DEFINE M == DOMAIN events
           K == {d.model : d \in docs}
           own == [i \in M |-> events[i].model]
           u == Usage(events, M)
           row == [m \in K |-> SinkRow(m)]
           req == [m \in K |-> SinkRow(m).requests]
           err == [m \in K |-> SinkRow(m).errors]
           tok == [m \in K |-> SinkRow(m).tokens]
           lat == [m \in K |-> SinkRow(m).latency]
           num == [m \in K |-> SinkRow(m).requests - SinkRow(m).errors]
           avg == [m \in K |-> Average(SinkRow(m)) * (SinkRow(m).requests - SinkRow(m).errors)]
<1>1. UsageTerms(events, M) /\ IsFiniteSet(M)
  BY UsageTyped DEF UsageTerms, Terms
<1>2. K = {own[i] : i \in M}
  <2>1. \A i \in M : Document(events[i]).model = events[i].model
    BY DEF Document
  <2> QED
    BY <2>1 DEF Collected, DocumentsOf
<1>3. IsFiniteSet(K)
  <2>1. own \in Surjection(M, K)
    BY <1>2 DEF Surjection
  <2> HIDE DEF own, M, K
  <2> QED
    BY <1>1, <2>1, FS_Surjection
<1>4. \A m : Fibre(own, M, m) = OfModel(events, m) /\ OfModel(events, m) \in SUBSET M
  BY DEF Fibre, OfModel
<1>5. \A m : SinkRow(m) = Usage(events, OfModel(events, m))
  BY SinkRowIs
<1>6. ASSUME NEW m \in K
      PROVE  /\ req[m] = Sigma(RequestsOf(Seen(events)), Fibre(own, M, m))
             /\ err[m] = Sigma(ErrorsOf(Seen(events)), Fibre(own, M, m))
             /\ tok[m] = Sigma(TokensOf(Seen(events)), Fibre(own, M, m))
             /\ lat[m] = Sigma(LatencyOf(Seen(events)), Fibre(own, M, m))
  <2>1. SinkRow(m) = Usage(events, Fibre(own, M, m))
    BY <1>4, <1>5
  <2> HIDE DEF own, M
  <2> QED
    BY <2>1 DEF Usage
<1>7. ASSUME NEW m \in K
      PROVE  /\ req[m] \in Nat /\ err[m] \in Nat /\ lat[m] \in Nat /\ num[m] \in Nat
             /\ num[m] = req[m] - err[m] /\ req[m] = num[m] + err[m]
             /\ avg[m] \in Nat
             /\ avg[m] + avg[m] <= (lat[m] + lat[m]) + num[m]
             /\ lat[m] + lat[m] <= (avg[m] + avg[m]) + num[m]
  <2> DEFINE r == SinkRow(m)
  <2>1. Sound(r)
    BY <1>4, <1>5, UsageSound
  <2>2. /\ req[m] = r.requests /\ err[m] = r.errors /\ lat[m] = r.latency
        /\ num[m] = r.requests - r.errors
        /\ avg[m] = Rounded(r.latency, r.requests - r.errors) * (r.requests - r.errors)
    BY DEF Average
  <2> HIDE DEF r, req, err, lat, num, avg
  <2>3. /\ r.latency \in Nat /\ r.requests - r.errors \in Nat
        /\ r.requests - r.errors = 0 => r.latency = 0
    BY <2>1 DEF Sound
  <2>4. /\ avg[m] \in Nat
        /\ avg[m] + avg[m] <= (r.latency + r.latency) + (r.requests - r.errors)
        /\ r.latency + r.latency <= (avg[m] + avg[m]) + (r.requests - r.errors)
    BY <2>2, <2>3, WeighedAgain
  <2> QED
    BY <2>1, <2>2, <2>4 DEF Sound
<1>8. SinkSummary =
        [requests |-> SumFunctionOnSet(req, K), errors |-> SumFunctionOnSet(err, K),
         tokens   |-> SumFunctionOnSet(tok, K),
         average  |-> Rounded(SumFunctionOnSet(avg, K),
                              SumFunctionOnSet(req, K) - SumFunctionOnSet(err, K))]
  BY DEF SinkSummary, Sum
<1>9. /\ u.requests = Sigma(RequestsOf(Seen(events)), M)
      /\ u.errors = Sigma(ErrorsOf(Seen(events)), M)
      /\ u.tokens = Sigma(TokensOf(Seen(events)), M)
      /\ u.latency = Sigma(LatencyOf(Seen(events)), M)
      /\ Average(u) = Rounded(u.latency, u.requests - u.errors)
  BY DEF Usage, Average
<1>10. Sound(u)
  BY UsageSound
<1>11. M = {i \in M : own[i] \in K}
  BY <1>2
<1> HIDE DEF M, K, own, u, req, err, tok, lat, num, avg
<1>12. /\ Terms(req, K) /\ Sigma(req, K) = u.requests
       /\ Terms(err, K) /\ Sigma(err, K) = u.errors
       /\ Terms(tok, K) /\ Sigma(tok, K) = u.tokens
       /\ Terms(lat, K) /\ Sigma(lat, K) = u.latency
  <2>1. /\ Groups(req, RequestsOf(Seen(events)), own, M, K)
        /\ Groups(err, ErrorsOf(Seen(events)), own, M, K)
        /\ Groups(tok, TokensOf(Seen(events)), own, M, K)
        /\ Groups(lat, LatencyOf(Seen(events)), own, M, K)
    BY <1>6 DEF Groups
  <2> QED
    BY <1>1, <1>3, <1>9, <1>11, <2>1, SigmaGroups DEF UsageTerms
<1>13. Terms(num, K) /\ Terms(avg, K)
  BY <1>3, <1>7 DEF Terms
<1>14. Sigma(req, K) = Sigma(num, K) + Sigma(err, K) /\ Sigma(num, K) \in Int
  <2>1. \A m \in K : num[m] \in Int /\ err[m] \in Int /\ req[m] = num[m] + err[m]
    BY <1>7
  <2> QED
    BY <1>3, <2>1, SigmaPlus, SigmaType
<1>15. /\ Sigma(avg, K) \in Nat
       /\ Sigma(avg, K) + Sigma(avg, K) <= (Sigma(lat, K) + Sigma(lat, K)) + Sigma(num, K)
       /\ Sigma(lat, K) + Sigma(lat, K) <= (Sigma(avg, K) + Sigma(avg, K)) + Sigma(num, K)
  <2> DEFINE none == [m \in K |-> 0]
             avg2 == [m \in K |-> avg[m] + avg[m]]
             lat2 == [m \in K |-> lat[m] + lat[m]]
             avgs == [m \in K |-> avg2[m] + num[m]]
             lats == [m \in K |-> lat2[m] + num[m]]
  <2>1. ASSUME NEW m \in K
        PROVE  /\ none[m] = 0 /\ none[m] \in Int /\ avg[m] \in Int /\ none[m] <= avg[m]
               /\ lat[m] \in Int /\ num[m] \in Int
               /\ avg2[m] = avg[m] + avg[m] /\ avg2[m] \in Int
               /\ lat2[m] = lat[m] + lat[m] /\ lat2[m] \in Int
               /\ avgs[m] = avg2[m] + num[m] /\ avgs[m] \in Int
               /\ lats[m] = lat2[m] + num[m] /\ lats[m] \in Int
               /\ avg2[m] <= lats[m] /\ lat2[m] <= avgs[m]
    BY <1>7
  <2> HIDE DEF none, avg2, lat2, avgs, lats
  <2>2. Sigma(none, K) = 0 /\ Sigma(none, K) <= Sigma(avg, K)
    BY <1>3, <2>1, SigmaZero, SigmaOrder
  <2>3. Sigma(avg2, K) = Sigma(avg, K) + Sigma(avg, K)
    BY <1>3, <2>1, SigmaPlus
  <2>4. Sigma(lat2, K) = Sigma(lat, K) + Sigma(lat, K)
    BY <1>3, <2>1, SigmaPlus
  <2>5. Sigma(avgs, K) = Sigma(avg2, K) + Sigma(num, K)
    BY <1>3, <2>1, SigmaPlus
  <2>6. Sigma(lats, K) = Sigma(lat2, K) + Sigma(num, K)
    BY <1>3, <2>1, SigmaPlus
  <2>7. Sigma(avg2, K) <= Sigma(lats, K)
    BY <1>3, <2>1, SigmaOrder
  <2>8. Sigma(lat2, K) <= Sigma(avgs, K)
    BY <1>3, <2>1, SigmaOrder
  <2>9. Sigma(avg, K) \in Int
    BY <1>3, <2>1, SigmaType
  <2> QED
    BY <2>2, <2>3, <2>4, <2>5, <2>6, <2>7, <2>8, <2>9
<1>16. /\ SinkSummary.requests = u.requests /\ SinkSummary.errors = u.errors
       /\ SinkSummary.tokens = u.tokens
       /\ SinkSummary.average = Rounded(Sigma(avg, K), u.requests - u.errors)
  <2>1. /\ SumFunctionOnSet(req, K) = u.requests /\ SumFunctionOnSet(err, K) = u.errors
        /\ SumFunctionOnSet(tok, K) = u.tokens /\ SumFunctionOnSet(avg, K) = Sigma(avg, K)
    BY <1>12, <1>13, SumIsSigma
  <2> QED
    BY <1>8, <2>1
<1>17. Rounded(u.latency, u.requests - u.errors) - Rounded(Sigma(avg, K), u.requests - u.errors)
         \in -1 .. 1
  <2> DEFINE w == Sigma(avg, K)
             n == u.requests - u.errors
             l == u.latency
  <2>1. n \in Nat /\ l \in Nat /\ w \in Nat
    BY <1>10, <1>15 DEF Sound
  <2>2. Sigma(num, K) = n
    BY <1>10, <1>12, <1>14 DEF Sound
  <2>3. w + w <= (l + l) + n /\ l + l <= (w + w) + n
    BY <1>12, <1>15, <2>2
  <2> HIDE DEF w, n, l
  <2>4. Rounded(l, n) - Rounded(w, n) \in -1 .. 1
    BY <2>1, <2>3, AveragesClose
  <2> QED
    BY <2>4 DEF w, n, l
<1> QED
  BY <1>9, <1>16, <1>17 DEF u, M

-----------------------------------------------------------------------------
(* The state: what was recorded, and what the process keeps of it.           *)
Calls == {Event(shape, t) : shape \in Shapes, t \in Nat}

RowRequests(rows) == [m \in DOMAIN rows |-> rows[m].requests]

EventsKept == events \in Seq(Calls) /\ Recorded(events) /\ Collected

TotalsKept == totals = Usage(events, DOMAIN events)

\* A model without a row came after the rows were full, or is the overflow's.
RowsKept ==
    /\ IsFiniteSet(DOMAIN byModel)
    /\ \A m \in DOMAIN byModel : byModel[m].requests \in Int
    /\ \A m \in DOMAIN byModel \ {Overflow} : byModel[m] = Usage(events, OfModel(events, m))
    /\ \A i \in DOMAIN events : \/ events[i].model \in DOMAIN byModel \cup {Overflow}
                                \/ Cardinality(DOMAIN byModel) >= MAX_MODELS
    /\ totals.requests = Sigma(RowRequests(byModel), DOMAIN byModel)

ReportsInv == EventsKept /\ TotalsKept /\ RowsKept

LEMMA CallsAreEvents ==
    ASSUME NEW e \in Calls
    PROVE  EventOK(e)
<1>1. PICK shape \in Shapes, t \in Nat : e = Event(shape, t)
  BY DEF Calls
<1>2. /\ shape.tokens \in Nat /\ shape.latency \in Nat /\ shape.error \in BOOLEAN
      /\ shape.rate \in Nat \cup {None} /\ shape.operation # "error"
  BY ReportsAssumption
<1>3. /\ e.time = t /\ e.tokens = shape.tokens /\ e.latency = shape.latency
      /\ e.error = shape.error
      /\ e.type = (IF shape.error THEN "error" ELSE shape.operation)
      /\ e.cost = (IF shape.error \/ shape.rate = None THEN None
                   ELSE shape.tokens * shape.rate)
  BY <1>1 DEF Event
<1>4. e.cost # None => e.cost \in Nat
  BY <1>2, <1>3
<1> QED
  BY <1>2, <1>3, <1>4 DEF EventOK

LEMMA ReportsInvInit == ReportsInit => ReportsInv
<1> SUFFICES ASSUME ReportsInit PROVE ReportsInv
  OBVIOUS
<1>1. events = <<>> /\ docs = {} /\ DOMAIN byModel = {} /\ totals = NoUsage
  BY DEF ReportsInit
<1>2. DOMAIN events = {} /\ Len(events) = 0 /\ events \in Seq(Calls)
  BY <1>1
<1>3. EventsKept
  BY <1>1, <1>2 DEF EventsKept, Recorded, Collected, DocumentsOf
<1>4. TotalsKept
  BY <1>1, <1>2, UsageOfNone DEF TotalsKept
<1>5. RowsKept
  BY <1>1, <1>2, SigmaEmpty, FS_EmptySet DEF RowsKept, NoUsage
<1> QED
  BY <1>3, <1>4, <1>5 DEF ReportsInv

(* Earlier calls used what they used.                                        *)
LEMMA UsageStays ==
    ASSUME NEW evs \in Seq(Calls), Recorded(evs), NEW e \in Calls,
           NEW new, new = Append(evs, e), Recorded(new), NEW S \in SUBSET DOMAIN evs
    PROVE  Usage(new, S) = Usage(evs, S)
<1>1. /\ S \in SUBSET DOMAIN new
      /\ \A i \in DOMAIN evs : i \in DOMAIN new /\ new[i] = evs[i]
  BY AppendProperties
<1>2. UsageTerms(evs, S) /\ UsageTerms(new, S)
  BY <1>1, UsageTyped
<1>3. \A i \in S : /\ RequestsOf(Seen(new))[i] = RequestsOf(Seen(evs))[i]
                   /\ ErrorsOf(Seen(new))[i] = ErrorsOf(Seen(evs))[i]
                   /\ TokensOf(Seen(new))[i] = TokensOf(Seen(evs))[i]
                   /\ LatencyOf(Seen(new))[i] = LatencyOf(Seen(evs))[i]
  <2>1. SUFFICES ASSUME NEW i \in S
                 PROVE  /\ RequestsOf(Seen(new))[i] = RequestsOf(Seen(evs))[i]
                        /\ ErrorsOf(Seen(new))[i] = ErrorsOf(Seen(evs))[i]
                        /\ TokensOf(Seen(new))[i] = TokensOf(Seen(evs))[i]
                        /\ LatencyOf(Seen(new))[i] = LatencyOf(Seen(evs))[i]
    OBVIOUS
  <2>2. i \in DOMAIN evs /\ i \in DOMAIN new /\ new[i] = evs[i]
    BY <1>1
  <2>3. /\ RequestsOf(Seen(evs))[i] = 1
        /\ ErrorsOf(Seen(evs))[i] = (IF evs[i].error THEN 1 ELSE 0)
        /\ TokensOf(Seen(evs))[i] = evs[i].tokens
        /\ LatencyOf(Seen(evs))[i] = (IF evs[i].error THEN 0 ELSE evs[i].latency)
    BY <2>2, SeenFacts
  <2>4. /\ RequestsOf(Seen(new))[i] = 1
        /\ ErrorsOf(Seen(new))[i] = (IF new[i].error THEN 1 ELSE 0)
        /\ TokensOf(Seen(new))[i] = new[i].tokens
        /\ LatencyOf(Seen(new))[i] = (IF new[i].error THEN 0 ELSE new[i].latency)
    BY <2>2, SeenFacts
  <2> QED
    BY <2>2, <2>3, <2>4
<1>4. /\ Sigma(RequestsOf(Seen(new)), S) = Sigma(RequestsOf(Seen(evs)), S)
      /\ Sigma(ErrorsOf(Seen(new)), S) = Sigma(ErrorsOf(Seen(evs)), S)
      /\ Sigma(TokensOf(Seen(new)), S) = Sigma(TokensOf(Seen(evs)), S)
      /\ Sigma(LatencyOf(Seen(new)), S) = Sigma(LatencyOf(Seen(evs)), S)
  BY <1>2, <1>3, SigmaSame DEF UsageTerms, Terms
<1> QED
  BY <1>4 DEF Usage

(* A row is counted up, or begun.                                            *)
RowsGrow(old, rows, key) ==
    /\ DOMAIN rows = DOMAIN old \cup {key}
    /\ \A m \in DOMAIN old \ {key} : rows[m] = old[m]
    /\ rows[key].requests = (IF key \in DOMAIN old THEN old[key].requests ELSE 0) + 1

Countable(rows) ==
    IsFiniteSet(DOMAIN rows) /\ \A m \in DOMAIN rows : rows[m].requests \in Int

LEMMA RowsStep ==
    ASSUME NEW old, Countable(old), NEW rows, NEW key, RowsGrow(old, rows, key)
    PROVE  /\ Countable(rows)
           /\ Sigma(RowRequests(rows), DOMAIN rows)
                = Sigma(RowRequests(old), DOMAIN old) + 1
<1> DEFINE D == DOMAIN old
           f == RowRequests(old)
           g == RowRequests(rows)
           rest == D \ {key}
           before == IF key \in D THEN old[key].requests ELSE 0
<1>1. IsFiniteSet(D) /\ IsFiniteSet(D \cup {key}) /\ IsFiniteSet(rest)
  BY FS_AddElement, FS_Subset DEF Countable
<1>2. before \in Int
  BY DEF Countable
<1>3. \A m \in DOMAIN rows : rows[m].requests \in Int
  BY <1>2 DEF RowsGrow, Countable
<1>4. Terms(f, D) /\ Terms(f, rest) /\ Terms(g, rest)
  BY <1>1, <1>3 DEF Terms, RowRequests, RowsGrow, Countable
<1>5. \A m \in rest : f[m] \in Int /\ g[m] = f[m]
  BY DEF RowRequests, RowsGrow, Countable
<1>6. g[key] = before + 1 /\ g[key] \in Int /\ DOMAIN rows = rest \cup {key} /\ key \notin rest
  BY <1>2 DEF RowRequests, RowsGrow
<1>7. key \in D => f[key] = before /\ D = rest \cup {key}
  BY DEF RowRequests
<1>8. key \notin D => before = 0 /\ D = rest
  OBVIOUS
<1>9. Countable(rows)
  BY <1>1, <1>3 DEF Countable, RowsGrow
<1> HIDE DEF D, f, g, rest, before
<1>10. Sigma(g, DOMAIN rows) = Sigma(g, rest) + (before + 1)
  BY <1>4, <1>6, SigmaOneMore
<1>11. Sigma(g, rest) = Sigma(f, rest) /\ Sigma(f, rest) \in Int
  BY <1>1, <1>5, SigmaSame, SigmaType
<1>12. Sigma(f, D) = Sigma(f, rest) + before
  <2>1. CASE key \in D
    BY <1>2, <1>4, <1>6, <1>7, <2>1, SigmaOneMore
  <2>2. CASE key \notin D
    BY <1>8, <1>11, <2>2
  <2> QED
    BY <2>1, <2>2
<1>13. Sigma(g, DOMAIN rows) = Sigma(f, D) + 1
  BY <1>2, <1>10, <1>11, <1>12
<1> QED
  BY <1>9, <1>13 DEF f, g, D

LEMMA RecordingKeeps ==
    ASSUME ReportsInv, NEW shape \in Shapes, NEW t \in 0 .. LastTime, RecordCall(shape, t)
    PROVE  ReportsInv'
<1> DEFINE e == Event(shape, t)
           n == Len(events) + 1
           D == DOMAIN byModel
           key == KeyFor(e.model)
           old == IF key \in D THEN byModel[key] ELSE NoUsage
<1>1. /\ \A i \in DOMAIN events : events[i].time < t
      /\ totals' = With(totals, e)
      /\ byModel' = [m \in D \cup {key} |-> IF m = key THEN With(old, e) ELSE byModel[m]]
      /\ events' = Append(events, e)
      /\ docs' = docs \cup {Document(e)}
  BY DEF RecordCall, Aggregate
<1>2. e \in Calls /\ EventOK(e) /\ e.time = t /\ t \in Nat
  <2>1. t \in Nat
    OBVIOUS
  <2>2. e \in Calls
    BY <2>1 DEF Calls
  <2> QED
    BY <2>1, <2>2, CallsAreEvents DEF Event
<1> HIDE DEF e
<1>3. /\ events \in Seq(Calls) /\ Recorded(events) /\ docs = DocumentsOf(events, DOMAIN events)
      /\ totals = Usage(events, DOMAIN events) /\ RowsKept
  BY DEF ReportsInv, EventsKept, Collected, TotalsKept
<1>4. /\ events' \in Seq(Calls) /\ n \in Nat /\ n \notin DOMAIN events
      /\ DOMAIN events' = DOMAIN events \cup {n} /\ DOMAIN events' = 1 .. Len(events')
      /\ Len(events') \in Nat /\ events'[n] = e
      /\ \A i \in DOMAIN events : events'[i] = events[i]
  <2>1. /\ DOMAIN events = 1 .. Len(events) /\ Len(events) \in Nat
    BY <1>3 DEF Recorded
  <2>2. /\ events' \in Seq(Calls) /\ Len(events') = n /\ events'[n] = e
        /\ \A i \in 1 .. Len(events) : events'[i] = events[i]
    BY <1>1, <1>2, <1>3, AppendProperties
  <2>3. DOMAIN events' = 1 .. Len(events')
    BY <2>2, LenProperties
  <2> QED
    BY <2>1, <2>2, <2>3
<1> HIDE DEF n
<1>5. Recorded(events')
  <2>1. \A i \in DOMAIN events' : EventOK(events'[i])
    BY <1>2, <1>3, <1>4 DEF Recorded
  <2>2. \A i \in DOMAIN events : events[i].time # t
    <3>1. \A i \in DOMAIN events : events[i].time \in Nat
      BY <1>3 DEF Recorded, EventOK
    <3> QED
      BY <1>1, <1>2, <3>1
  <2>3. \A i, j \in DOMAIN events : events[i].time = events[j].time => i = j
    BY <1>3 DEF Recorded
  <2>4. \A i, j \in DOMAIN events' : events'[i].time = events'[j].time => i = j
    BY <1>2, <1>4, <2>2, <2>3
  <2> QED
    BY <1>4, <2>1, <2>4 DEF Recorded
<1>6. docs' = DocumentsOf(events', DOMAIN events')
  BY <1>1, <1>3, <1>4 DEF DocumentsOf
<1>7. \A S \in SUBSET DOMAIN events :
          /\ Usage(events', S) = Usage(events, S)
          /\ Usage(events', S \cup {n}) = With(Usage(events, S), e)
  <2>1. \A S \in SUBSET DOMAIN events : Usage(events', S) = Usage(events, S)
    BY <1>1, <1>2, <1>3, <1>5, UsageStays
  <2>2. ASSUME NEW S \in SUBSET DOMAIN events
        PROVE  Usage(events', S \cup {n}) = With(Usage(events', S), e)
    <3>1. S \in SUBSET DOMAIN events' /\ n \in DOMAIN events' /\ n \notin S
      BY <1>4
    <3>2. Usage(events', S \cup {n}) = With(Usage(events', S), events'[n])
      BY <1>5, <3>1, UsageOfOneMore
    <3> QED
      BY <1>4, <3>2
  <2> QED
    BY <2>1, <2>2
<1>8. totals' = Usage(events', DOMAIN events')
  BY <1>1, <1>3, <1>4, <1>7
<1>9. \A m : OfModel(events', m)
               = OfModel(events, m) \cup (IF e.model = m THEN {n} ELSE {})
  BY <1>4 DEF OfModel
<1>10. /\ IsFiniteSet(D) /\ \A m \in D : byModel[m].requests \in Int
       /\ \A m \in D \ {Overflow} : byModel[m] = Usage(events, OfModel(events, m))
       /\ \A i \in DOMAIN events : \/ events[i].model \in D \cup {Overflow}
                                   \/ Cardinality(D) >= MAX_MODELS
       /\ totals.requests = Sigma(RowRequests(byModel), D)
  BY <1>3 DEF RowsKept
<1>11. /\ DOMAIN byModel' = D \cup {key} /\ byModel'[key] = With(old, e)
       /\ \A m \in D \ {key} : byModel'[m] = byModel[m]
  BY <1>1
<1>12. /\ key = e.model \/ key = Overflow
       /\ key # e.model => e.model \notin D /\ Cardinality(D) >= MAX_MODELS
       /\ key = e.model /\ key \notin D /\ key # Overflow => Cardinality(D) < MAX_MODELS
  <2>1. MAX_MODELS \in Nat /\ Cardinality(D) \in Nat
    BY <1>10, ReportsAssumption, FS_CardinalityType
  <2> QED
    BY <2>1 DEF KeyFor
<1>13. old.requests = IF key \in D THEN byModel[key].requests ELSE 0
  BY DEF NoUsage
<1>14. /\ \A m \in DOMAIN byModel' : byModel'[m].requests \in Int
       /\ IsFiniteSet(DOMAIN byModel')
       /\ totals'.requests = Sigma(RowRequests(byModel'), DOMAIN byModel')
  <2>1. byModel'[key].requests = old.requests + 1 /\ totals'.requests = totals.requests + 1
    BY <1>1, <1>11 DEF With
  <2>2. RowsGrow(byModel, byModel', key)
    BY <1>11, <1>13, <2>1 DEF RowsGrow
  <2>3. Countable(byModel)
    BY <1>10 DEF Countable
  <2> HIDE DEF key, old
  <2>4. /\ Countable(byModel')
        /\ Sigma(RowRequests(byModel'), DOMAIN byModel')
             = Sigma(RowRequests(byModel), DOMAIN byModel) + 1
    BY <2>2, <2>3, RowsStep
  <2> QED
    BY <1>10, <2>1, <2>4 DEF Countable
<1>15. ASSUME NEW m \in DOMAIN byModel' \ {Overflow}
       PROVE  byModel'[m] = Usage(events', OfModel(events', m))
  <2>1. OfModel(events, m) \in SUBSET DOMAIN events
    BY DEF OfModel
  <2>2. CASE m = key
    <3>1. key = e.model
      BY <1>12, <2>2
    <3>2. OfModel(events', m) = OfModel(events, m) \cup {n}
      BY <1>9, <2>2, <3>1
    <3>3. old = Usage(events, OfModel(events, m))
      <4>1. CASE key \in D
        BY <1>10, <2>2, <4>1
      <4>2. CASE key \notin D
        <5>1. OfModel(events, m) = {}
          <6>1. Cardinality(D) < MAX_MODELS
            BY <1>12, <2>2, <3>1, <4>2
          <6>2. MAX_MODELS \in Nat /\ Cardinality(D) \in Nat
            BY <1>10, ReportsAssumption, FS_CardinalityType
          <6>3. \A i \in DOMAIN events : events[i].model \in D \cup {Overflow}
            BY <1>10, <6>1, <6>2
          <6> QED
            BY <2>2, <4>2, <6>3 DEF OfModel
        <5> QED
          BY <4>2, <5>1, UsageOfNone
      <4> QED
        BY <4>1, <4>2
    <3> QED
      BY <1>7, <1>11, <2>1, <2>2, <3>2, <3>3
  <2>3. CASE m # key
    <3>1. m \in D \ {Overflow} /\ byModel'[m] = byModel[m]
      BY <1>11, <2>3
    <3>2. m # e.model
      BY <1>12, <2>3, <3>1
    <3>3. OfModel(events', m) = OfModel(events, m)
      BY <1>9, <3>2
    <3> QED
      BY <1>7, <1>10, <2>1, <3>1, <3>3
  <2> QED
    BY <2>2, <2>3
<1>16. ASSUME NEW i \in DOMAIN events'
       PROVE  \/ events'[i].model \in DOMAIN byModel' \cup {Overflow}
              \/ Cardinality(DOMAIN byModel') >= MAX_MODELS
  <2>1. /\ Cardinality(D) <= Cardinality(DOMAIN byModel') /\ MAX_MODELS \in Nat
        /\ Cardinality(D) \in Nat /\ Cardinality(DOMAIN byModel') \in Nat
    BY <1>10, <1>11, <1>14, ReportsAssumption, FS_Subset, FS_CardinalityType
  <2>2. CASE i \in DOMAIN events
    BY <1>4, <1>10, <1>11, <2>1, <2>2
  <2>3. CASE i = n
    BY <1>4, <1>11, <1>12, <2>1, <2>3
  <2> QED
    BY <1>4, <2>2, <2>3
<1>17. RowsKept'
  BY <1>14, <1>15, <1>16 DEF RowsKept
<1>18. EventsKept' /\ TotalsKept'
  BY <1>4, <1>5, <1>6, <1>8 DEF EventsKept, Collected, TotalsKept
<1> QED
  BY <1>17, <1>18 DEF ReportsInv

LEMMA ReportsInvStep == ReportsInv /\ [ReportsNext]_reportVars => ReportsInv'
<1> SUFFICES ASSUME ReportsInv, [ReportsNext]_reportVars PROVE ReportsInv'
  OBVIOUS
<1>1. CASE ReportsNext
  BY <1>1, RecordingKeeps DEF ReportsNext
<1>2. CASE UNCHANGED reportVars
  BY <1>2 DEF reportVars, ReportsInv, EventsKept, Recorded, Collected, DocumentsOf,
              TotalsKept, RowsKept
<1> QED
  BY <1>1, <1>2

LEMMA SummariesHold == ReportsInv => SummariesAgree
<1> SUFFICES ASSUME ReportsInv PROVE SummariesAgree
  OBVIOUS
<1>1. /\ Recorded(events) /\ Collected /\ totals = Usage(events, DOMAIN events) /\ RowsKept
  BY DEF ReportsInv, EventsKept, TotalsKept
<1>2. /\ SinkSummary.requests = totals.requests /\ SinkSummary.errors = totals.errors
      /\ SinkSummary.tokens = totals.tokens
      /\ Average(totals) - SinkSummary.average \in -1 .. 1
  BY <1>1, SinkTotals
<1>3. /\ Summary.requests = totals.requests /\ Summary.errors = totals.errors
      /\ Summary.tokens = totals.tokens /\ Summary.average = Average(totals)
  BY DEF Summary
<1>4. totals.requests = Sum(DOMAIN byModel, LAMBDA m : byModel[m].requests)
  <2>1. totals.requests = Sigma(RowRequests(byModel), DOMAIN byModel)
    BY <1>1 DEF RowsKept
  <2>2. Terms(RowRequests(byModel), DOMAIN byModel)
    BY <1>1 DEF RowsKept, Terms, RowRequests
  <2>3. SumFunctionOnSet(RowRequests(byModel), DOMAIN byModel) = totals.requests
    BY <2>1, <2>2, SumIsSigma
  <2> QED
    BY <2>3 DEF Sum, RowRequests
<1>5. \A m \in DOMAIN byModel \ {Overflow} : byModel[m] = SinkRow(m)
  BY <1>1, SinkRowIs DEF RowsKept
<1> QED
  BY <1>2, <1>3, <1>4, <1>5 DEF SummariesAgree

(* The reports agree, for every number and kind of calls, every query and    *)
(* every limit on the models: both sources build one report, the chart and   *)
(* the breakdowns add up to its totals, and so do the summaries.             *)
THEOREM ReportsAlwaysAgree == ReportsSpec => []ReportsAgree
<1>1. ReportsInit => ReportsInv
  BY ReportsInvInit
<1>2. ReportsInv /\ [ReportsNext]_reportVars => ReportsInv'
  BY ReportsInvStep
<1>3. ReportsInv => ReportsAgree
  BY SourcesHold, ChartHolds, SummariesHold DEF ReportsInv, EventsKept, Collected, ReportsAgree
<1> QED
  BY <1>1, <1>2, <1>3, PTL DEF ReportsSpec
=============================================================================
