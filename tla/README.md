# Verification of the autonomo.us gateway

TLA+ models of the gateway in `src/core/server` (accounts, tokens, telemetry
and reports, chat, load balancing, routing and provider settings, the model
catalog, Worker requests) and of its dashboard in `src/core/ux`, the TLC
configurations that check them on small instances, and TLAPS proofs. Paths
below are relative to `src/core/server/src` unless they start with `src/`; file
names ending in `.tsx`, and `api.ts`, are in `src/core/ux/src`.

The gateway is a TypeScript service that runs as a Node process or a Worker,
usually several replicas against one MongoDB. It has no locks and no
transactions: every guarantee comes from single-document writes, revisions,
promise chains and the order of awaits. Those are what the models keep.

## 1. Inventory

| Component | State | Operations | What is hard | What makes it correct |
|---|---|---|---|---|
| Accounts, team (`auth/accounts.ts` 641-827) | `gateway_users` documents with a revision; the owner lease in the setup record | addMember, updateMember, removeMember, withOwnerLock | "another owner stays" spans documents; a lease that expires while its holder stalls; lost acknowledgements | never no owner; only owners touch owners |
| Accounts, setup (360-486) | the setup record, `gateway_users`, a cached `completed` per replica | completeSetup, isSetupComplete, setupState, forgetEmbeddedOwner | two collections, no transaction: the owner is carried in the record that claims setup | one first owner, never lost |
| Accounts, invites (829-940) | `gateway_invites`, `gateway_users` and its unique e-mail index | createInvite, openInvite, acceptInvite, revokeInvite | claim and insert are two writes, the second may fail and is undone | one account per link, unique addresses |
| Accounts, sessions (488-640, 777-804) | password hash, failed sign-ins and sessions inside one user document | signIn, authenticate, signOut, changePassword, resetPassword | hashing takes long: what was verified is old when it is committed | sessions follow the password; the limit holds in a burst |
| Tokens (`auth/token-store.ts`) | one document per token: values, grants, log | create, update, roll, revoke, authenticate, settings | concurrent read-change-write; overlapping values with deadlines of their own | values work exactly as long as promised |
| Access hook (`auth/access.ts`, `routes/auth.ts`, `routes/team.ts`) | none | one decision per request | the route and role matrix | matches the documented matrix |
| Telemetry (`telemetry/telemetry.ts`) | a bounded queue, a bounded ring, a chain of flushes | record, flush, drain, stop, analytics, summaryFromSink | failure in part, overflow, readers that race flushes | no silent loss, no silent under-report |
| Telemetry store and reports (`telemetry/mongo.ts`, `telemetry/analytics.ts`) | the events collection, per-model totals | insert, queryAnalytics, buildAnalytics, aggregate, querySummary | duplicates on retry; the same arithmetic written twice, in the process and as a pipeline | the same event counts once; both say the same |
| Chat (`routes/chat.ts`) | per request: candidates, attempt, timer, response | POST /v1/chat, streamed or not | failures, time-outs and hang-ups between any two awaits | one model speaks, each call is recorded, reservations balance |
| Router (`routing/router.ts`) | active counts, pool scores | plan, select, acquire | reservations released on every path; fair rotation | counts equal what runs |
| Routing settings (`routing/settings.ts`, `failover.ts`) | one document, a copy in each replica, a chain of writes | initialize, update, updateFailover | publish after durable save, failed saves, several replicas | what is active was saved |
| Provider settings (`providers/settings.ts`) | connections and models, as above | initialize, add, addModel | as above, per document | as above |
| Provider adapters (`providers/`, `config.ts`) | none | streamText, generateText | external | - |
| Catalog (`model-catalog.ts`, `model-catalog-service.ts`) | catalog snapshot, refresh loop | refresh, start, stop | single flight; stop during a refresh | the loop goes on until stopped, last good snapshot stays |
| Server and Worker (`server.ts`, `worker.ts`, `worker-requests.ts`, `mongo.ts`) | MongoDB clients, per process or per request | build, initialize, release | a response that still streams when its request ends; requests that share stores | what a request recorded is shipped before its clients close, and closing ends |
| Dashboard gate (`App.tsx`, `AuthScreens.tsx`, `api.ts`) | gate state, credential, localStorage | load, sign in, setup, join, sign out, 401 | answers out of order, restarts, other tabs | the screen is that of the account requests act as |
| Dashboard pages (`TokensView.tsx`, `TeamView.tsx`, `ModelsView.tsx`) | list, form, secret | refresh, open, save, dismiss | refreshes and saves that overlap | own changes and secrets stay visible |
| Usage page (`Dashboard.tsx`) | selection, report, timer | select, poll, leave | a fetch outlives its effect | one loop; reports under their own selection |
| Routing page (`RoutingView.tsx`) | configuration, dirty, saving | load, edit, save, try | edits around a save; references between lists | edits survive; sound configurations stay sound |
| Common types, logo | none | - | - | - |

They interact by calls inside one process (chat -> router, telemetry; hooks ->
accounts, tokens) and, between processes, only through MongoDB documents.
`PROJECT.json` lists the components with their status and the hazards at their
lines, with the properties that would show each going wrong.

## 2. Modules

| Module | Models | Correspondence |
|---|---|---|
| `TeamPromise` | what team changes promise, atomically | `Change` has no lease, revision or request |
| `TeamOwners` | updateMember and removeMember under withOwnerLock | a request's `pc` is the database call it is at: `look` (first read), `lock`, `lockWrite` (the mutate that takes the lease), `recheck`, `count`, `read`, `send`, `write` (the member's document), `unlock`, `unlockWrite`. `users`, `setup` are the documents with their revisions, `deadline` is the fence, `sentAt` when a write left. |
| `TeamOwners_proofs` | | theorems of `TeamOwners` |
| `Setup` | first-run setup | `marker` is the setup record, `completed` the cache of each replica; `lookup`, `list`, `copy`, `forget` are setupState's calls, `claim` completeSetup's |
| `Setup_proofs` | | theorems of `Setup` |
| `Invites` | redeeming, revoking and adding | `claim`, `claimWrite` are the mutate of the link, `insert` the account, `giveBack` the catch |
| `Invites_proofs` | | theorems of `Invites` |
| `Sessions` | one account's document | `commit` is a mutate's read and change, after the password work; `write` its compare-and-swap; failed sign-ins and sessions are sets, told apart by the revision that added them |
| `Sessions_proofs` | | theorems of `Sessions` |
| `Tokens` | one token's document | `stage` is where a request is in mutate; `credentials` are the values with their ends, `current` the first of them (its prefix is the record's); `promised` is history |
| `Telemetry` | the service of one process and insertMany | `chain` counts flushes on `flushChain`, `pending`, `ring`, `cursor`, `coverageFrom`, `durableIncomplete` are the fields; `waitFor` is how many flushes a drain still waits for |
| `Chat` | the handler and `ModelRouter.acquire` | `candidates`, `index`, `timer`, `sentOutput`, `client` are its locals; `wire`, `calls`, `records`, `active` what others see |
| `Chat_proofs` | | theorems of `Chat` |
| `Routing` | the settings store of several replicas | `doc` the document, `config` each replica's copy, `writes` its chain |
| `Stores_proofs` | | theorems of `Routing` and `Telemetry` |
| `Reports` | one history of calls summed four ways | `docs` and `SinkFacts` are the collection and queryAnalytics' stages; `byModel`, `totals` the aggregates of telemetry.ts. `ReportsAgree` compares every query's report with the other source and with its own parts |
| `Pools` | poolOrder and the reservations it reads | `balance` is an entry of `balances`, `active` the counts; `served`, `clean`, `passed` are history |
| `Catalog` | fetchers, buildModelCatalog, the refresh service | `inflight` is single flight, `loop` is idle, refreshing, or waiting on a timer; `lastApi`, `lastDev`, `lastRefresh` are history |
| `Providers` | the provider settings store | `document` per connection, `configs` and `writes` per gateway |
| `Worker` | overlapping requests of an isolate | `open` is who has a client, `chain` the flush chain with the request each flush runs in |
| `Services_proofs` | | theorems of `Catalog`, `Providers`, `Worker`, `Tokens` and `Pools` |
| `Gate` | App, the auth screens, api.ts | `loads` are the running calls of load() and `newest` is sequence.current; `credential`, `stored` are api.ts and localStorage; `gate` remembers whom it shows |
| `Pages` | three pages with a list and a form | `refreshes` and `latest` are refresh() and sequence.current; a list is the set of changes it reflects |
| `UsagePage` | the polling effect | each member of `effects` is a closure of the effect: its fetch, its timer, its `stopped` |
| `RoutingEditor` | the routing page and validateRouting | `put`, `routingLoad` are the requests in flight; an edit is a new `config` |
| `Console_proofs` | | theorems of these four |
| `MC*` | constants, symmetry and views of the runs | |

A module with a comment "Variant" before a definition keeps, next to it, the
form a plausible mistake would give it. No action uses a variant; replacing the
definition by it violates the property `PROJECT.json` names under "mutants", so
each property is known to depend on the code it is about.

What is abstracted everywhere: ids, names, addresses and secrets are model
values; a password is named after the request that set it, a token value after
the roll that issued it, a configuration by who wrote each part; hashing is a
step that takes time; wording, logging and status codes other than the kind of
answer are left out. All processes read one clock.

### Limits of each model

- `TeamOwners`: a member write lands within `WRITE_MS` of being sent or never
  (the driver's deadlines in `mongo.ts` 60-78 bound it and
  `OWNER_LOCK_MARGIN_MS` is chosen above them). A command the server applies
  after the driver gave up on it is outside the model; with it the last two
  owners can be removed, and no lease duration excludes that.
- `Setup`: the check stream of a replica is one request at a time.
- `Invites`: the unique e-mail index exists. The store tolerates a failed
  createIndex (accounts.ts 333-345), and then the lookup alone does not keep
  two concurrent joins apart, although the comment there relies on it.
- `Sessions`: one account. Recording the last use of a session is left out.
- `Tokens`: one token; permissions and models it grants are left out.
- `Telemetry`: the list of recent events is left out; totals are in `Reports`.
- `Reports`: times of events are distinct, percentiles are left out, and the
  window is one of the queries' bounds; `HOUR` and `DAY` are small multiples.
  A query with more than 100,000 groups, which the code refuses and answers
  from memory instead (telemetry/mongo.ts 389-390), is left out; sums are of whole
  numbers; memory holds every event of the history (what it covers once it is
  full is in `Telemetry`).
- `Chat`: plan returns distinct candidates, and the decision model is not one
  of them. Any order inside a pool is allowed; `Pools` says which it is.
- `Pools`: one pool beside other targets. `clean`, `served` and `passed` are
  history: a weighted pool is fair as long as no tie of least-requests moved its
  scores, and `passed` counts picks in a row in which a member was tied and lost.
- `Catalog`: the default in-memory cache, whose reads are atomic. A page is the
  set of its rows; a cursor that never ends is cut by the page limit. The
  service is started and stopped once, as the server does, and its loop is one
  value: that there is never a second timer is not checked (a start after a stop
  while a refresh runs would bring one).
- `Providers`: runs with one gateway: two gateways replace each other's whole
  documents, which the code does not prevent.
- `Worker`: a store's clients are one client. A client that hangs up is told
  apart: its handler may record after the request's clients are closed, and
  that event waits for the next request, so `ShippedBeforeEnd` excepts it.
  (`RequestTracker` of worker-requests.ts is not used by worker.ts.)
- `Routing`: `validateRouting` is a refusal that may or may not happen; it is a
  predicate in `RoutingEditor`.
- `Gate`: one account form in flight; effects run once (no StrictMode);
  `SETUP_TOKEN` is set or not from the start and stays so. Three
  orders are in the model and no property forbids them: an older status that
  says setup is pending clears a session that was opened meanwhile; a late
  answer to a sign-out clears a newer credential; and a tab that notices the
  end of its session removes from localStorage what another tab stored there.
- `Pages`: one save in flight. `ModelsView` has no sequence number, so an older
  refresh can hide a model that was just added until the next one:
  `OwnChangesShown` speaks of lists only for the other two pages.
- `UsagePage`: an aborted fetch runs no continuation unless its answer was in.
- `RoutingEditor`: one load and one PUT in flight; scalar fields are one
  Boolean; the models of the gateway do not change, and none is of a connection
  called pool; the last of two administrators to save wins, as in the code. One
  gateway answers: on several, each with its own copy, a load or Try routing may
  reach one that does not serve yet what another saved, so the second half of
  `EditsKept` is about a single replica.

## 3. Runs

Every bound is a constant of the configuration; all runs finish in three minutes
or so on two cores.

| Run | Instance | Shows |
|---|---|---|
| `TeamOwners` | two owners and one id not used yet, two requests that promote to owner, demote to admin or remove, callers of any role, a lease of 2 ticks with margin 1, writes of at most 1 tick, 2 attempts, 2 ticks, one rewrite of a member | `AlwaysAnOwner`, `OwnerLostUnderLease`, `OnlyOwnersTouchOwners`, `ImplementsPromise` |
| `Setup` | two setups, one check stream, two replicas, one fault or restart, one later member | `CompleteMeansAccounts`, `OwnerNeverLost`, `FirstOwnerArrives` |
| `Invites` | one link, two redeemers, one account added by hand, one revocation, two addresses, two failures of any kind | `AccountHasClaim`, `RevokedAdmitsNobody`, `ClaimSettles` |
| `Invites_twice` | one link, two redeemers, one lost acknowledgement | finding, below |
| `Sessions` | two sign-ins, a change, a reset or sign-out, limit 1, window and session life 1 tick, two sessions, 2 attempts | `SessionsMatchPassword`, `NoSessionReturns`, `BurstLimited` |
| `Tokens` | three rolls, an edit or revocation, lifetimes 1 and never, overlaps 0 and 2, three values at most, two log entries, 2 ticks | `HonoursPromises`, `NoneRevived` |
| `Telemetry` | four events, queue and ring of two, two flushes ahead, two failures, one reader of any kind, timer or flush per event | `NothingLostSilently`, `ReportComplete`, `EventsArrive`, `ReadersAnswered` |
| `Telemetry_summary` | three events, queue of two | finding |
| `Chat` | a streamed auto request and a plain one, candidate lists of two and three models, time-outs on | `ReservationsMatch`, `OneModelSpeaks`, `CallsRecorded`, `AttemptsSettle` |
| `Routing` | two replicas, a put and a patch on one and a patch on the other, two failures or restarts | `ActiveWasSaved`, `QueuedWritesKept`, `WritesSettle` |
| `Services` | up to three calls of six shapes (priced, unpriced, failed, renamed caller) at six times under six queries; a pool of three members of weights 2, 1, 1 in both strategies with one model that may be missing and two reservations; a catalog of a provider with a key and one without, five answers of the API and four of models.dev; four additions to two connections with two failures and a restart; two Worker requests with two failed inserts | `ReportsAgree`; `PoolsFair`; `FollowsSources`, `RatesKept`, `LoopGoesOn`; `AddedModelsKept`; `ShippedBeforeEnd`, `RequestsEnd` |
| `Console` | a gateway with `SETUP_TOKEN` or, from its first setup on and without failures, restarts and other tabs, without; two sessions, two loads, a request of the view, one failure, restart or other tab; three changes of which two issue secrets, two refreshes, on each page; two selections and three closures of the effect; the default configuration and one with a pool, a rule and a fallback, three edits | `NeverSomeoneElse`, `HonouredSessionsKept`; `OwnChangesShown`; `ExactlyOneLoop`; `EditsKept`, `KeepsShape` |

`MCServices` and `MCConsole` put parts that share no state into one run: in each
behaviour one part, the subject, moves and the others rest, so every part is
explored in full and nothing is explored twice.

Each property is stated in words above its definition.

Why the bounds are enough: every conflict here is between two requests over one
document, so two requests and a third to disturb them meet every order of
reads and writes; two compare-and-swap attempts reach both the retry and the
refusal; queues, rings and session lists of two wrap around, overflow and are
overtaken; two ticks let a lease, a window or an overlap end while a request is
between two steps; two faults let one happen during the recovery of another.
Weights of 2, 1, 1 are the smallest with a tie beside an inequality; three
closures are the running effect and two stopped ones whose answers are still
to come; two loads are an older and a newer one, and two refreshes likewise.
For all safety properties the proofs remove the bounds (for some of them under
a hypothesis, in section 4).

Deadlock checking is off: requests are finite, and a behaviour in which all of
them are over is a proper end. The liveness properties say what must not stall.

### Fairness

`Setup`, `Invites`, `Telemetry`, `Chat` and `Routing` have a `FairSpec`, and
`Worker` a `WorkerFairness` (the flush chain goes on, and a request that drains
or closes its clients goes on). It
gives weak fairness to what the runtime runs on its own: a handler whose await
was answered continues, a timer that is armed fires, a promise chain goes on, a
replica that starts loads. Faults, hang-ups, restarts, time and the arrival of
requests are never fair. In `Chat` a provider's answer is not fair: only the
selector call (which has a time-out of its own) and a call the gateway aborted
end by themselves. In `Setup` a check comes to each replica again and again,
as every request of the gateway asks isSetupComplete first. Failures are
bounded by `MaxFaults`, so "the database answers in the end" is an assumption
of the liveness properties.

### Findings

Two runs expect a violation. Each shows a short behaviour in which the code
does something else than its documentation says.

- `Invites_twice` (accounts.ts 925): the account's insert is applied and its
  answer lost; the catch gives the link back, and it admits a second account.
  `src/README.md` 100: "single-use invite link". `AccountHasClaim` states what
  holds: accounts whose insert was acknowledged match their links.
- `Telemetry_summary` (telemetry.ts 317): summaryFromSink trusts a drain that
  succeeded and does not ask `durableIncomplete`, as analytics does; after an
  overflow the database's summary misses the dropped events. The comment at
  telemetry.ts 315-316 says what that would be: it "would silently
  under-report".

Two more behaviours of the same kind are in the models without a run of their
own. `Setup` (accounts.ts 401): a request that read the setup record while it
carried the first owner's copy and found no account inserts that copy late,
after another request inserted it, the copy was dropped and another owner
removed the account (`src/README.md` 109-110: "Remove deletes the account and
its sessions immediately"). `Sessions` (accounts.ts 600): changePassword checks
the limit before it verifies and not at its commit, as signIn does, so in a
burst a right guess is confirmed on an account at its limit; `BurstLimited` is
therefore about sign-ins.

## 4. Proofs

All theorems hold for every value of the constants that satisfies the named
assumption of the module and, where a theorem has one, its ASSUME. The
invariants below were first checked by TLC on the instances of section 3.

### Assumptions

The modules' assumptions only keep kinds of values apart (a request is no
replica, `Nobody` is nobody), say that constants are numbers or records of the
right shape, and, where a guarantee rests on a choice of the code, name it:

- `TeamAssumption`: the margin is longer than the longest write, the lease
  longer than the margin, and there is an owner at the start (mongo.ts 60-78
  and the constants in accounts.ts);
- `SessionAssumption`: a request is a sign-in or a change, and the password
  that is always wrong is nobody's;
- `ChatAssumption`: requests are finitely many, and plan returns one or more
  distinct candidates;
- `TokenAssumption`: lifetimes are positive; `Never` is beyond the clock;
- `GateAssumption`: sessions differ from the words the model uses beside them,
  and calls of load() are numbered;
- `PoolsAssumption`: models are finitely many, and a pool lists none twice and
  every one with a positive weight (validateRouting, and the schema of PUT
  /v1/routing);
- `ReportsAssumption`: hours, days and `MAX_MODELS` are positive (the constants
  of analytics.ts and telemetry.ts); a call has a number of tokens, a latency
  and a price or none, none of them negative, and no operation is called
  "error", the word the event type of a failed call stands for; the ends of a
  query are times.

Five theorems have hypotheses of their own. Each marks where the guarantee ends:

- `SingleUseAcknowledged`: no acknowledgement is lost. The run `Invites_twice`
  shows what happens otherwise.
- `SourcesFollowed`, `RatesAreKept`: no endpoint has more pages than
  `MAX_PAGES` (what comes after is lost), and `Absent` is no catalog.
- `AdditionsKept`: one gateway serves. Two replace each other's documents.
- `ShapeKept`: the configurations the page starts from are in shape. The server
  refuses lists that repeat a target, but accepts a fallback outside the targets
  while Auto is off, and a rule that lists its own model (settings.ts 83-110);
  the editor makes neither, and repairs neither.

One invariant carries its condition itself. `NeverSomeoneElse` speaks of pages
that saw setup stay complete since they were opened (`setupKept`), which is every
page of a gateway that keeps its database. It is false without: with four sessions and
two restarts of a gateway without MongoDB, which forgets its accounts and runs
setup again, TLC finds 27 states that end with the screen of one account over the
credential of another. The form that completes setup adopts its session without
starting a new load (`App.tsx` 189-195), so a load asked under an earlier session
is still the newest and settles for that one.

### Arguments

**`TeamOwners_proofs`**. `AlwaysAnOwner` is not inductive: that two holders'
writes cannot overlap depends on when each took its lease. `IInv` adds

- `LeaseAsked`: the deadline was fixed before the lease, so the lease ends a
  margin after it; a pending lease write saw a free lease;
- `LeaseKept`: a holder at work keeps the lease until a margin after its deadline;
- `WriteFenced`: a write under way was sent before the deadline and is young;
- `CountHolds`: the owners a holder counted are still owners;
- `RemovalSeen`, `WriteChecked`: the revision a write compares tells whether
  the member is still what was checked;
- `TargetKnown`, `CallerChecked`: the target exists, and the caller was
  authorized for the roles the write touches.

From it: `OwnerAlwaysThere`, `OneChangeAtATime` (sent before the deadline and
no older than `WRITE_MS` puts both writes inside their leases, and there is one
lease), the action properties `OwnerLossLeased` and `OwnersByOwners`, and
`PromiseImplemented`: under the mapping role = the role in each document, every
step is a step of `TeamPromise` or a stutter.

**`Setup_proofs`**. `IInv` adds to the properties `AccountsFollowClaim`,
`SettlesTheClaim` (a request settles the claim there is), `SettledAccount`
(where the code no longer looks, the account was there) and `GateSawOpen` (the
revision tells whether the record is still unclaimed). From it
`OnlyOneFirstOwner`, `CompleteIsTrue`, `OwnerKept` and `SetupClaimedOnce`.

**`Invites_proofs`**. A link and the account it makes are two documents, so
`LinksInv` follows a request from one to the other: who inserts holds the claim
(`InsertsUnderClaim`), which was decided on a link that was pending and still
has the revision it had (`ClaimSawPending`); a request whose account is settled
gives nothing back (`SettledOver`); what was revoked has no claim
(`RevokedUnclaimed`). From it `LinkNamesAccount`, `RevokedClosed`, and
`SingleUseAcknowledged`.

**`Sessions_proofs`**. Password work lies between read and commit, and commit
between read and write, so the invariant is about records that are not stored
yet as much as about the account: `Pending` says of a record to be written that
its sessions fit its password (`Fits`), that the change which set it is past
choosing its session (`Settled`), that its entries are older than it (`Dated`),
and, if the revision still matches, that it adds no session but its own and
counts a failure rather than replacing one (`Faithful`). `Counted` says that
within one window there is a failure for every verdict. From them
`PasswordDecides`, `BurstStopped` and the action property `SignedOutForGood`.

**`Stores_proofs`**. *Routing.* The document, and whatever an acknowledged write
or a finished load is about to publish, has been saved, and only a replica's
defaults are signed by a replica (`RoutingInvariant`); from it `ServedWasSaved`
and `DefaultsReplaceNothing`. `QueueInv` is about the chain of promises: a write
at work is the first of its replica's chain (`RunsFirst`), has waited for the
load (`SentLoaded`), and a patch that was sent is what the replica serves but for
its own field (`PatchFollows`): nothing publishes between its read and its
publication except itself. From it `PatchesKeepTheRest`.
*Telemetry.* Every event is in the store, the queue, the batch of the running
insert, or dropped (`EventsPlaced`), and drops are told (`DropsTold`). A reader
that waited for a drain finds what was recorded when it asked
(`AskedStored`, which needs `DueAtRest`: no flush runs while a reader looks), and
the ring holds what its coverage says (`RingCovers`, over wrapping and
overwriting). From them `NothingLost` and `ReportsComplete`.

**`Chat_proofs`**. `ReservationsMatch` compares counters with a set of requests.
`CountsExact` says which model each request has reserved at each of its stages,
and lemmas on cardinalities say that a step moves one request from one count to
another. `PlanInv` ties the stage to the candidates and to whether the plan's
reservation was given back, `WireInv` says what may stand on the stream at each
stage (text only of the running model, and with text no way back to failover),
and `CallsInv` that the calls are the selector's and then the candidates' in
order, each with a record once it is over. A lemma says that a step of one
request leaves the stream, calls and records of others alone. From them
`CountsMatch`, `OneVoice` and `EveryCallRecorded`.

**`Services_proofs`**. *Catalog.* There is one catalog that counts, cached or
not, and a refresh starts from it (`OneCatalog`); an entry is live once its
provider answered or if it was bundled so (`LiveOrBundled`). From them
`SourcesFollowed` and the action property `RatesAreKept`; `LoopNeverDies` needs
only that stopping is final. *Providers.* What the head of the queue is saving
was merged into what memory has now (`MergedIsNow`) and everything contains what
the environment configures (`EnvironmentKept`); from them `AdditionsKept`.
*Worker.* A request that ends waits for all flushes queued in its scope
(`WaitsForOwn`), flushes have a reason (`QueuedWhy`), and a call that is not
stored has its own flush ahead (`NothingDropped`); from them `RequestsShip`.
*Tokens.* The document says of each value what was promised (`EndsAsPromised`),
a roll that may still land has issued nothing (`UnlandedUnknown`), and a write
that will land carries the change of the document as it still is, as of the time
it was read (`PendingFollows`). From them `PromisesHonoured` and the action
property `NeverRevived`.

*Pools.* A weighted pool's scores are, at every point of a cycle of total-weight
picks, what each member is owed less what it got; they add up to nothing, and no
member has fallen by the total (`InCycle`): the highest score is positive after
the weights are added, so the pick's stays above minus the total, and at the end
of a cycle every score is a multiple of the total, hence nothing. A member that
is tied and waits gains its weight with each pick until its score is at the
limit; there each pick lowers what its rivals have in hand by its weight
(`Waits`, `InHandFalls`), which is less than the number of members times the total. Both are
about sums over any number of members. The totals of the model are folds, and
induction over subsets is stated in first-order form, about sets of sets: a
collection of subsets of a finite set has a smallest member, because the strict
subset ordering is well-founded (`SmallestSubset`). From that come the sums of
a function over a set, in any order (`SumExists`, `FoldIsSum`), their laws
(`SigmaPlus`, `SigmaOrder`, `SigmaUpdate`), and that filtering a list of members
keeps its shape (`FilterKeepsLists`). From them `PoolsAreFair`.

*Reports.* The process adds up calls, MongoDB adds up documents by group first,
and the report of either is built by the same code. On top of the sums above
stand the sum over the fibres of a grouping (`SigmaGroups`) and over renamed
indices (`SigmaRenamed`). If every fact of one list went into one row of another
that carries what a report reads (`Grouping`), the reports of both are equal
(`BuildAgrees`): totals, series, breakdowns, and the name a caller was last seen
with, which is where the order of the rows counts. MongoDB's rows group the facts
of memory so (`SinkGroups`); no two have the same rank, since no two events have
the same time (`RanksDiffer`). Every bucket a call of the window falls into is a
point of the chart, so the points add up to the totals (`ChartHolds`). The state
needs an invariant, `ReportsInv`: the documents are the events' (`EventsKept`),
the totals are what the events used (`TotalsKept`), and a model without a row of
its own was first called when the rows were full (`RowsKept`). The average
latency is rounded in MongoDB's row of each model and weighed again with its
successful calls; the roundings together move the gateway's average by no more
than one (`WeighedAgain`, `AveragesClose`). From them `ReportsAlwaysAgree`.

**`Console_proofs`**. *Gate.* `HonouredSessionsKept` is about one step, and needs
to know what the answer that makes the step can be. The invariant says that a
401 in flight is about a credential that is not honoured any more (`Truthful`: a
session that ended never lives again, and none is used before it is given out),
and that localStorage holds a session whenever the tab uses one (`MemoryOK`: so a
reload does not lose it). From it `SessionsKept`. For `NobodyElse`: on a
page that saw setup stay complete no load has heard otherwise while it is not, and
the form that completes it is on screen, and sent, only where the tab has no
session (`FirstSession`); so when it is answered no load asks for one. Then the
newest load asks for the session that requests carry (`NewestAsks`), and
everything else that adopts a session starts a load.
*Pages.* `SavedApplied` says what the server has: every change this page saw
succeed, and with it whatever the newest refresh will bring, for that refresh was
asked later. `ListFollows` says that the list is that of the newest refresh once
it is over, `SecretAlone` that the form, which alone can bring a secret, is open
only while none is on screen. From them `ChangesStay`.
*Usage page.* Every effect but the running one is over or waits for a
continuation that will change nothing (`OthersOver`), and the running one either
fetches or waits (`RunningAtWork`). From them `OneLoop`.
*Routing page.* What is being saved is what the disabled fields show
(`SavingShown`), a load is out only while there is nothing to edit
(`LoadingAlone`), and an answer carries what the server has unless somebody else
saved (`ServedKnown`). From them `EditsSurvive`, whatever the configurations are.
For `ShapeKept` the invariant speaks of every configuration that is served,
shown or on its way (`AllSound`), and lemmas say that adding a new target,
removing one and exchanging two keep a list free of repetitions.

### Only model-checked

- Liveness: `ClaimSettles`, `FirstOwnerArrives`, `EventsArrive`,
  `ReadersAnswered`, `AttemptsSettle`, `WritesSettle`, `RequestsEnd`. Its proof
  needs ENABLED, which the prover does not support.
- What the two findings violate is refuted, not proved.

## 5. Not modelled

There is no state to model in the provider adapters (`providers/registry.ts`,
`typesafe.ts`, `config.ts`), the decisions route, health and file serving,
shared types and the logo. Password hashing is a step that takes time. Of the
access hook (`auth/access.ts`) only the fate of sessions and the setup token is
modelled, in `Gate`: its table of routes and permissions is a lookup per
request, and a model of it would repeat the table. Rendering (charts, tables,
CSV export, focus, wording) is outside what the models talk about. Start-up of
the Node process (`index.ts`, `start.ts`) is sequential.

Worth adding next: two gateways in `Providers` once its documents carry
revisions; the composition of `Pools` with `Chat`'s reservations; in `Gate`, a
load that starts whenever a form's session is adopted, after which
`NeverSomeoneElse` should need no condition.
