# A verification project for observability-mcp

TLA+ modules for the stateful core of the observability-mcp server
(`src/mcp-server/src`), TLC configurations that check them on small instances,
and theorems, proved with TLAPS for every instance, about every safety and action
property the passing runs check (section 5 says how).

Paths below are relative to `src/mcp-server/src` unless they start with `src/`.

Contents: [1 The system](#1-the-system) ·
[2 Modules and the code](#2-modules-and-the-code) ·
[3 Runs](#3-runs) · [4 Bounds, abstractions, fairness](#4-bounds-abstractions-fairness) ·
[5 Proofs](#5-proofs) · [6 Disagreements found](#6-disagreements-found) ·
[7 Not modelled](#7-not-modelled) · [8 Plan](#8-plan) · [9 Running it](#9-running-it)

## 1 The system

A gateway between AI agents and observability back ends. One Node process
(or several behind a load balancer) serves the MCP protocol on `/mcp` and on
*virtual servers* `/mcp/v/<product>`, and a management API and UI on `/api/*`.
Everything runs on one event loop: code between two `await`s is atomic, and
every `await` is a point where any other request, timer or file operation may
run. That is the concurrency these modules are about: an action is the code from
one suspension to the next.

| component | state | operations | what is hard | what makes it correct |
|---|---|---|---|---|
| tool-call rate limiter `quota/limiter.ts` | stamps per identity, memory only | `check` | boundary of the window, rounded waits | never more than the limit in any window; the announced wait is enough |
| token budget `quota/token-budget.ts` | hourly buckets per identity, debounce timer, write queue, snapshot file | `check`, `flushNow`, bootstrap | charge after the tool ran, hours against a sliding day, failed writes, shutdown | the cap over a stretch of time, the wait, nothing lost by a clean exit, the file never goes back |
| process life `util/shutdown.ts` | phase, hooks | signals, drain, hooks, exit | hooks against deadline and second signal | what a clean exit promises, per component |
| login lockout `auth/lockout.ts` | one entry per user in the session store, shared by replicas | `check`, `recordFailure`, `recordSuccess` | read, await, write; expiry | a lock once written is honoured; the threshold |
| session revocation `auth/revocation.ts` | ids and cut-offs in memory, append-only file | `revokeSession`, `revokeSubject`, `isRevoked`, load | memory before file, chain that can be poisoned, half lines, second granularity | revoked stays out, others stay in, what survives a restart |
| source registry `connectors/registry.ts` | configurations and connectors by name, the config file | add, update, remove, toggle, lookups by tenant | connect and disconnect suspend in the middle | settled state agrees; a tenant never reaches another's source |
| management audit `audit/log.ts`, `audit/sinks/webhook.ts` | hash chain, ring, file, queue of posts, dead letters | `record`, flush, bootstrap, `verifyChain` | swallowed failures, retries, restarts | every break of the chain has a cause; order; nothing lost by a clean exit |
| MCP sessions `index.ts` | transports, activity and product tag by session id | POST, DELETE, close, sweep | the tail of a POST runs after whatever happened meanwhile | a session is used only where it was minted; a deleted one comes back only by a tail that was under way; maps drain |
| product catalogue `products/loader.ts` | catalogue in memory, mtime cursor, file, shared tmp file | reload, create, change, delete, pin | edits by operators and changes by requests on one file | edits become visible, answered changes stay, the file is whole |
| SCIM `scim/*` | users and groups in memory, one file or one Redis key | create, patch and delete of users and groups, persist, load | memory before store, a tmp path without a queue, a queue that can be poisoned, snapshots that share objects, replicas | no member outlives its user; an answered change is stored; the file is whole |
| federation `federation/*` | upstream clients with cached tool lists, refresh timers | boot, refresh, call, close | slow and failed answers, one timer per upstream | what a session registered is routed; the cache catches up while the connection stands |
| inspector and hooks `inspect/*`, `sdk/hooks.ts` | mode, rules and their file, ring of observations | record, derive, accept, enforce | mode and rules change between the hooks of one call | a call is observed once; what was learned passes |
| enterprise gate `enterprise-gate.ts` | one kept promise of a built gate, policy and catalogue files, chained log | build, decide, replace a file | builds under way while files change | an answered edit decides every later call; somebody stays administrator |
| local users, policy file, OPA, OIDC `auth/*` | users and role map in memory and in files, decision cache, key set | login, role change, decision, callback | reloads beside writes, answers that overtake each other, key rotation | see `MCLogins` below |
| connector packages `connectors/loader.ts` | registered connectors, the plugins directory, the import cache | scan, install, remove | scans suspended at imports | what an install answered for is listed |
| anomaly history `analysis/history.ts`, S3 sink `audit/sinks/s3.ts` | buffer, batch in flight, ring | record, flush, stop | stop and timer beside a slow post | each entry settled once, in order; shutdown waits |
| MCP over WebSocket `transport/websocket.ts` | socket, ping timer, last pong | frame, ping, close | heartbeat against late pongs and closes | a silent client goes, an answering one stays |
| topology `connectors/kubernetes*.ts`, `topology/merge.ts`, `tools/topology.ts` | the graph, its revision, subscribers | watch events, resync, merge, blast radius | five watches in any order, two providers of one host | every copy is the graph; whoever is on a host is named |
| connectors `prometheus.ts`, `loki.ts`, `enrich/rdap.ts` | caches of labels, candidates, addresses | query | concurrent probes, failed and late answers kept, throttling, the choice of a label | a wrong answer goes with the cache lifetime of the last cause for it |
| tools and analysis `tools/*`, `analysis/*` | none | fan-out, detection, health, root cause | partial failure, numeric edges | silence is not health; a recovery is no anomaly; victims follow causes |
| postmortems `postmortem/store.ts` | reports in memory and in a JSONL file | generate, append, delete | append beside rewrite, half lines | what was answered survives a boot |

Interactions. A tool call passes the rate limiter before its tool runs and the
token budget after it; both look at one clock. The budget, the audit log and the
federation register shutdown hooks, which run concurrently. Every management
handler writes an audit entry. Virtual servers are looked up in the product
catalogue; sessions carry the tag of the one they were minted on. Tools reach
connectors through the registry's tenant gate. Logins share the lockout through
the session store; the session cookie they issue is judged by the revocation
store on every request.

`PROJECT.json` lists every component with what is modelled of it, and under
"hazards" each place where this code is hard to test, with the properties that
watch it.

## 2 Modules and the code

`PROJECT.json` maps each definition to its lines. Definitions whose comment begins
with "A slip" are not part of a model: each is a plausible mistake in the
definition it precedes. Replacing that definition by it makes TLC report the
property it is paired with in `PROJECT.json`; a property that survived its slip
would say nothing about the code.

### Quotas: `RateLimiter`, `TokenBudget`, `Lifecycle`, `ToolCallQuota`

`RateLimiter` is `IdentityRateLimiter.check`: the bucket of an identity is the
sequence of its admitted stamps, `StopsAt` is where the pruning loop ends,
`RateAdmit` and `RateDeny` are the two outcomes. `LimitFor` resolves the per-key and the
global limits, as what parsing them yields. `TokenBudget` is the tracker:
`Charge` and `Refuse` are `check`, `TimerFires` and `Enqueue` the debounced
`flushNow`, `WriteDone` and `WriteFails` the write and rename, `Bootstrap` the
load at start. `Lifecycle` is `installShutdown`: a signal, a drain, concurrent hooks, an exit when
they settled or a forced one, and a new process. The clock they share
and the rounding to seconds are in `RateLimiter`, which `TokenBudget` extends. `ToolCallQuota` puts them together as
`index.ts` does: `Admit` before the tool, `Respond` after it, with anything in
between. It EXTENDS the three and conjoins their actions.

### `AccountLockout`

One user's entry in the session store and the login requests on it. A login is
at "checking", "counting", "storing" or "clearing": each awaited store call takes effect in one
action, so the read of `recordFailure` (`ReadStreak`) and its write
(`WriteStreak`) are apart. `StoreGet` is the store's expiry.

### `Revocation`

`Revoke` indexes at once and appends to the replica's chain; `AppendDone`,
`AppendFindsNothing`, `MakeDirectory`, `CreateDone` and `AppendFails` are the ends of an append; the last one poisons
the chain as the code's unhandled rejection does, and may leave part of the line or, on the way of a first write, an emptied file (`Rest`). All replicas share the file;
`Restart` reads it. `Attached` is what the session attacher decides.

### `SourceRegistry`

The handlers of `/api/sources` up to each of their awaits: a request disconnects
(`Disconnected`), connects (`Connected`, which may fail), then saves and answers
(`Finish`). `Visible` is the tenant gate of the look-ups. `listed` is the `config`
variable of `index.ts` that other routes save.

### `AuditLog`

An entry is its sequence number, the hash it follows and its own hash; hashes are
numbers handed out in order, so two entries never collide. `Record`
chains, files and posts; `AppendDone`/`AppendFails` are the file queue, `Delivered`,
`PostFails`, `DeadLetter` the webhook queue. `flush` follows the shutdown hook
through the two queues. `Breaks` is `verifyChain`.

### `McpSessions`

Per slot one request: `PostNew` and `PostKnown` are the handlers up to
`handleRequest`, `PostEnds`/`PostEndsUnnamed` their tails on a virtual server and
on `/mcp`, `Delete` and `DeleteEnds` the same for DELETE, `Closes` the transport's
`onclose`, `Sweep` the interval. `trailing` and `removed` remember which POSTs were under way at a DELETE and
which deleted ids none of those has put back.

### `ProductCatalog`

Per slot one request through `maybeReload`: `Stat` takes an mtime, `Decide` compares it with the cursor of then, `Read`
takes the text and `Reload` installs *that* text and mtime, whatever happened to file, memory and cursor in between. Then the change in memory
(`Serve`), `writeProductsFile` (`Open`, `Write`, `Rename`) and the pin (`Pin`). `Edit` is an operator
who replaces the file, breaks it or removes it. A catalogue is the edit it
descends from and the set of changes made since.

### `ScimStore`

One module for both back ends, chosen at `Init`. A change (`CreateUser` ... `DeleteGroup`) is
made in memory in one action and then persisted: `Serialise`, `Open`, `Write`, `Rename` are the
file's mkdir, text, open and rename, each ended early by `PersistFails`; `SetDone` and `SetFails` are the
ends of a Redis write, in the order of the replica's queue. A write that was opened before another
request's rename goes on into the renamed file (the `at` of a slot). `Stripped` is the sharing
of group objects between memory and queued snapshots. `Restart` is a boot's `load`.

### `LocalUsers`, `PolicyFile`, `OpaEngine`, `OidcLogin`

`LocalUsers`: `Login` arrives, `Stat`, `Read` and `Reload` are `maybeReloadUsers` up to each await,
`Decide` the password and the cookie; `SetRole` to `Answer` the role change with its write through the
tmp path. `PolicyFile`: `PutRole`, `Open`, `Fill`, `Rename`, `Swap` the same for a role of the policy, with `WriteFails` at each
of the first three; `Overlaid` is what a text written from the start leaves of one that another writer put into the same tmp file. `Evaluate` with `Need` the engine and the gate that asks it. `OpaEngine`: `Decides` is the synchronous
answer, from the cache or a denial that sends a query; `Answered` and `Failed` cache what comes back,
`policy` is what OPA would say now. `OidcLogin`: `Login`, `Callback`, `Refreshed` and `Fails` are the two routes and
the end of a fetch of keys; `Rotate` is the provider's.

### `EnterpriseGate`, `ToolCall`

`EnterpriseGate`: `Begin` finds or starts the kept promise, `Verify` and `ReadFile` are the awaited
steps of a build, `Decide` and `Authorize` what awaits it, `Accepts`, `Write` and `Answer` the PUTs with
their reset. `ToolCall`: a call goes through its list of hooks one by one (`Fire`, `Enforce`,
`Record`), its handler (`Handle`, which redacts, audits and charges) and `Answer`; the handlers of `/api/inspect` (`SetMode`, `Derive`,
`SetStatus`, `Rename`, `Discard`, `Absorb`) run in between.

### `PluginLoader`, `Postmortems`

`PluginLoader`: a scan considers one directory after the other (`Consider`, `Skip`), is suspended
at the import (`Imported`) and ends; `Install`, `CliCopies`, `CliRemoves` change the directory meanwhile. `Postmortems`:
`Regenerate` and `Fetch` collect a report, `Push`, `Open`, `Write` store and append it; `Delete`,
`WriteBody`, `Rename` are the filter and the rewrite; `CutShort` and `WriteFails` an append that fails with and without part of its line. The file's lines are whole, open (cut short) or broken.

### `Federation`, `WsTransport`, `AnomalyHistory`, `S3Sink`, and `Outbox`

`Federation`: a client shakes hands, asks for the list, is asked again by its timer; answers are
versions of the list and come in any order. `Disconnects` is the end of a connection, after which every request fails: the client never
connects again. `WsTransport`: `Upgrade`, `Frame`, `Pong`, `Heartbeat`, the ends of a socket.
`AnomalyHistory` and `S3Sink` are the two batching sinks: buffer, a batch in flight, timer, full buffer, stop. `Outbox` is
what both promise: what is handed in is settled once, in order, in batches off the front. Each of them
has `O == INSTANCE Outbox` with *waiting* mapped to the batch in flight and the buffer behind it, and
`OutboxKept == O!Spec` is checked as a property: every step of theirs is a step of `Outbox` or none.

### `Topology`, `Prometheus`, `IpEnrichment`, `SignalTools`, `Detection`, `Correlator`

`Topology`: `Apply` and `Delete` are the cluster, `Handle` one event of a watch with the store's upsert or
removal, `Resync` a subscriber; `Aggregate`, `MergedResources` and `BlastRadius` are pure and evaluated in every state.
`Prometheus`: a query walks labels and candidates through the two caches, one action per request
sent and per answer, which comes at any time after it (`apiGet` stops its timer at the headers). A back end is the labels that have the service's name
among their values and the series the service has, each under a label; the first need not be a label of the second. `IpEnrichment`: batches walk their addresses through one cache. `SignalTools`: a call of a tool is one step that
chooses which requests fail and which label look-ups are lost, since it keeps nothing. A Loki holds streams by label and name: `Logged` is `listServices` with the
first label that has values, `Resolved` and `Said` the label a query selects by and the stream it gets (none, and no error, if a lost look-up misled it), `Summary` the counts and
the patterns among the five most frequent; `Families`, `MetricsScore` and `Status` are `analysis/health.ts`. `Detection` keeps a series as a
function from ticks and scales medians and deviations to integers, so that the mean of two samples is one; `Correlator` unfolds an incident
and ranks it in every state.

### The composites: `Logins`, `Stores`, `Background`, `Tools`

Each puts components that do not touch each other's state into one specification. A behaviour
chooses one of them (`which`) and leaves the others at rest, so the states of a run are the sum and not the
product of theirs, and a property speaks of the component it names. `Logins` has `AccountLockout`,
`Revocation`, `LocalUsers`, `PolicyFile`, `OpaEngine` and `OidcLogin`; `Stores` has `AuditLog`, `ProductCatalog`,
`ScimStore`, `PluginLoader` and `Postmortems`; `Background` has `Federation`, `WsTransport`, the two sinks and the liveness of log
and sessions; `Tools` has the sessions, the tool call, the gate, topology, detection, ranking, the query tools and the two
caches. All four declare every parameter of their components as a CONSTANT, with the assumptions the
code justifies, and state the properties, so that the theorems are about them; `MCLogins`, `MCStores`, `MCBackground` and
`MCTools` only give values. Components that do interact are composed in earnest: limiter, budget, snapshots and
lifecycle in `ToolCallQuota`, audit log and lifecycle in `AuditLog`, hooks, inspector, redaction and audit in
`ToolCall`, watch, merge and tools in `Topology`, connector and tools in `SignalTools`. `SourceRegistry` is run as it is.

### Proof modules

`FoldLemmas` has what the proofs need of naturals, sequences and folds; `ToolCallQuota_proofs`, `SourceRegistry_proofs`,
`Background_proofs`, `Logins_proofs` and `Tools_proofs` extend the module they are named for, `Stores_proofs` and `StoresLogs_proofs` extend `Stores`. Section 5
goes through them.

## 3 Runs

All runs use 2 workers and end within five minutes; the four composite ones take between one and
three and a half.

| run | shows |
|---|---|
| `quota` | `RateCapInAnyWindow`: at every admitted call, no more than the limit of the identity in the window that ends there. `RateRetrySuffices`, `BudgetRetrySuffices`: a caller that waits what it was told gets through (the budget's wait needs one tick more, see 6). `BudgetCapHolds`: the cap over the window less one hour, across restarts and with calls in flight together. `CleanExitKeepsCharges`, `FileNeverGoesBack`, `ChargeReachesDisk`: what the snapshot keeps |
| `sources` | `SettledAgree`: when all requests are through, connectors, configurations, the list and the file agree, provided requests on one name did not overlap. `GateHoldsApart`: a tenant never reaches another's source in the middle of updates on different names |
| `logins` | `LockoutHolds`: a lock written with no other request between its read and its write is read by every later check to the second, and serial failures lock at the threshold. `RevokesExactly`, `LossIsBounded`: revoked sessions stay out and later logins in, on every replica; after any restart only what half lines, truncating first writes and failed ones damaged is missing. `UsersFileHolds`: a login is decided by a file no older than itself, and no crash locks everybody out. `PolicyFileHolds`: gates and file agree once the changes in flight are through, also when writes of the shared tmp file were mixed, failed or overtaken, unless the file does not load, was edited or was written into after a rename; with changes one at a time it always loads. `GrantIsRecent`: OPA's answers may overtake each other and no grant outlives a cache lifetime. `RotationTurnsNobodyAway`: a login with a rotated key always finds it |
| `stores` | `ChainBreaksHaveCauses`: as many breaks of the chain as faults at most, none without. `DeliveryHolds`: order and hand-over of the webhook. `AckedStays`: an answered change of products or of SCIM with one replica survives, and only two writes at once tear a file. `QuietEditsVisible`: an operator's edit made while no change is in flight and no request is between its stat and its reload is seen by all that begins after it, and never overwritten. `NoMemberLeftBehind`: a deleted user is in no group. `InstalledIsListed`: a package that an install answers for is registered with the manifest it placed. `LossesHaveCauses`: an answered report survives, a deleted one stays away, but for two named causes (see 6) |
| `background` | `HistoryHolds`: the drawn ring is complete, and `stop()` posts what was recorded unless a post was in flight. `OutboxKept`: both sinks implement `Outbox`. `RegisteredIsRouted`: a registered tool the upstream still offers is never refused. `SilentIsClosed`: the heartbeat. `NothingWaitsForever`: under fairness every post ends, every buffered record leaves, shutdown settles all, cached lists catch up while their connection stands, the session maps empty |
| `tools` | `BoundToProduct`, `DeletedStaysDeleted`: sessions. `InspectionHolds`: one observation a call, learned traffic passes, raw text is audited. `GateHolds`: answered edits decide later calls, an administrator remains, resets keep the chain. `WatcherAgrees`, `TenantsAreNamed`: the graph, its copies, and the blast radius after a merge. `RecoveryIsQuiet`, `LoudVictimsFollow`: detection and ranking. `AbsenceIsRecent`: a service that can be found is called without data only within a cache time of a change, a failure, or an answer kept for a query from before it. `AnswersAreRecent`: the addresses' cache. `LogsAreHeard`: what a scan and a health score owe to the logs of the sources that answered and lost no look-up, when metrics are missing |
| `lock_erased` | with two logins in flight a late write erases a lock |
| `tenant_gate` | overlapping requests on one name break the gate |
| `edit_masked` | an edit between a change's rename and its pin is never read |
| `scim_replicas` | a second replica writes the directory of its boot over what the first one provisioned |
| `postmortem_blind` | a report never shows the anomalies its source holds |
| `warn_unseen` | a critical pattern logged as a warning is not reported |

Several properties carry a history condition (`overlapped`, `clobbered`, `crowded`, `quiet`,
`alone`, `clash`, `torn`, `edited`, `late`, `lost`, `excused`). It names the overlap under which the code does not keep the promise.
Where the repository makes the promise without that condition, a violation run
or a note in 6 says so; otherwise the condition is simply the strongest under
which TLC finds it kept. A restart resets those histories that speak of requests
in flight.

## 4 Bounds, abstractions, fairness

Bounds (constants named `Max...`, and the sets of actors) and why they are enough:

- *quota*: limit 2 and three calls cross the limiter's boundary; window 3 ticks with
  2 ticks to a second makes rounding matter; an hour of 2 ticks and a window of two hours let
  a bucket be shared, pruned early and reloaded; two queued snapshots, one failed
  write and one exit give every order of flush, write, hook and restart. One
  identity: identities share nothing but the clock and the file, and the proofs
  cover any number of them.
- *lockout*: two logins at a time are enough for a lost update; six attempts
  reach a second lock level and the cap of the doubling.
- *revocation*: two replicas on one file, three revocations of two
  sessions, one failed append of each kind (nothing, part of a line, an emptied file), two restarts.
- *sources*: two names, two tenants and the administrator, two requests, three
  configurations and connects, one restart.
- *audit*: three entries, a ring of two (so that it overflows), two faults, two
  attempts per post, one exit and one boot after it. Its liveness, like that of the sessions, is checked in
  `MCBackground` on an instance with smaller bounds.
- *sessions*: four requests, two at once, two ids, two products and the root: a POST meets a DELETE, and what
  its tail puts back a later request.
- *users*, *policy*: two requests at once, one operator's edit, one crash: a write meets another's rename, an edit
  a write in progress, two writes one tmp file, and one of them fails. *OPA*: two queries of a key and a list over four ticks let answers overtake and expire.
  *OIDC*: two rotations five ticks apart, as close as `RotationAssumption` lets them be, and three logins, with a key life longer than the cooldown.
- *plugins*: two scans, a package with a successor, one that overrides a builtin, one without a signature, one crash.
  *postmortems*: two writers, two reports, one crash.
- *history*, *S3*: a buffer of two filled twice over a slow post. *federation*: two upstreams (or one name twice),
  two requests in flight, one failed request of a connection that stands, connections lost at any moment. *WebSocket*: three missed pings.
- *tool call*: one call at a time against three reviews of mode and rules, a ring of two. *gate*: three builds, three
  operations, one failure, one restart, a token that expires.
- *topology*: a node, two pods, their deployment, two kinds of second provider, four changes, one broken watch.
  *detection*: series of eight samples over three values with two periods of three. *Prometheus*: two queries, two labels, two candidates, one change or failure between four ways to expose the service, one of them hidden behind another's name;
  an answer may wait through all three ticks, with a cache life of one. *Query tools*: a metrics source, two Lokis with two labels and five contents.
  *ranking*: every incident of one anomaly a service on two graphs of four services, which checks order, ties and hints; really loud victims are the theorem's, which takes any number up to the ten of the property. *RDAP*: two batches over a cache of one.
- *products*: two changes and a read, one edit of any kind, one failed write,
  one restart.
- *scim*: three changes, two at once, let a group be made, patched and waited for while its
  member is deleted; one failed write and one restart. `scim_replicas` has two replicas and one request at a time, as
  `scim/redis-store.ts:11-17` assumes.

Abstractions that matter to a reader:

- Time is an integer that never goes back (`Date.now()` could, when the clock is
  set). Windows are a few ticks; only their order relations are used.
- Hashes do not collide, cookies cannot be forged, session ids are not reissued.
- Identity, tenant, product and user names are model values; parsing of
  environment variables is modelled as the value it yields (`LimitFor` keeps the
  cases a parse can end in).
- A file operation takes effect in one step, the one that uses its result; a
  rename is atomic; a write may fail or stop half way where a property depends on it. `ProductCatalog` has a step for each stat and read before the
  one that uses it. A stat or read that fails for another reason than absence is left out there: it would serve no catalogue until the next mtime.
  In `ProductCatalog` half a catalogue does not parse; a YAML text cut exactly
  between two products would, and would be read as a shorter catalogue. The
  products properties exclude the only way to get there (`TornOnlyByTwo`).
- The SDK's transport, Redis, the file system and the webhook receiver are external.
- Read-only routes are left out where their answer is a projection of modelled state.

Every check runs with `CHECK_DEADLOCK FALSE`: each model stops when its budget of
requests is used up and the process is down or idle, which is a legal end.

Fairness. `ToolCallQuota`: a timer that is due fires and a write ends, well or badly
(`WF` on `Flush` and on `Write \/ WriteError`). `AuditLog`: a post is answered or its
`AbortController` fires after five seconds, and the backoff timer fires. `McpSessions`:
time passes, the transport answers, the interval fires; a transport that answers never would keep
its own slot only. No fairness is assumed of clients, operators, signals or kills; the
other modules state safety only and have none. `AnomalyHistory`: the interval fires and a post ends, the code's `fetch` being
aborted by a timer. `S3Sink`: the chain's next flush begins and the SDK's calls end. `Federation`: per upstream the interval fires and a
`tools/list` is answered or fails, as the MCP client times requests out. While a connection stands at most `MaxFailures` of its requests fail; one that is
lost (`Disconnects`, at any moment and for ever) fails them all, and of its list nothing is promised. Symmetry is over the interchangeable
requests (`MCTools`, `MCStores`) and the interchangeable names, tenants and requests (`SourceRegistry`); both check safety and step properties only.

## 5 Proofs

Eight modules hold theorems, checked by TLAPS 1.4.5 for all values of the constants that satisfy the
assumptions named in the modules. `PROJECT.json` lists the results under "theorems". Together they cover every safety property and action
property of the passing runs; only the two liveness properties are left to TLC alone. Each proof has the same
shape: an inductive invariant, one lemma per action that keeps it, and that it implies the property. What the
invariants add to the properties is the interesting part, and is what follows.

Assumptions that are more than typing, and where they come from:

- `LockoutAssumption`: the settings are positive, as `num` in `auth/lockout.ts` makes them.
- `RotationAssumption` (`Logins`): two rotations of the provider's keys are at least the key set's life, the cooldown
  of forced refreshes and two fetches apart, an hour and a minute by default. `OidcLogin` does turn logins away if keys rotate faster;
  the proof needs the bound, and the run takes the tightest values that satisfy it.
- `HeartbeatAssumption` (`Background`): the ping timeout is not shorter than the interval.
- `PolicyAssumption`, `UsersAssumption`: the server starts on a file that loads.
- `CatalogueAssumption`, `ScimAssumption`, `PackagesAssumption`, `NoneAssumption`: what stands for "nothing" or "at rest" is none of the values it is told
  from.
- `SeriesAssumption` (`Tools`, like those below): more than one candidate, since a metric with one is not probed; at least one label (a configured list of nothing
  but commas would fall back to "job"); a series has its label's name among the label's values. `SignalsAssumption`: at least one label, and the newest 200 lines are among the newest 500. `EnrichmentAssumption`: a batch names at least
  one address, as the tool's handler demands, and the cache holds at least one answer.
- `InspectionAssumption`: the hooks of plugins have whole priorities and allow, refuse or throw; "no text" is no text.
- `GateAssumption`: an edit is of one of the two files and has a body.
- `TopologyAssumption`: an id names one object, its kind included, whatever the object's version; the code builds ids from kind, namespace and name.
- `DetectionAssumption`: samples are whole numbers (only their order and the means of two of them matter); windows, threshold and the
  least phase are positive.
- `RankingAssumption`: finitely many services, and severity weights of one to three as `SEVERITY_WEIGHT` has them.

The remaining ones say that bounds and durations are numbers.

Every theorem is about the specification a run checks. The bounds (`Max...`) stay in the specifications as constants, so
the theorems hold for any of them.

### `FoldLemmas`

The library's induction theorems take an operator as parameter, which no backend can instantiate. `Induction`
states the principle for a *set* of naturals, from the least element of a set (`LeastNatural`), and `FoldDefined` uses it to show that the recursive
definition behind the community modules' folds has a value at each set of positions. `MaxOf...` and `Filtered...` follow from it for
the maxima and filters the models use. That is what makes sums of buckets, and the loading of a file line by line, provable.

### `ToolCallQuota_proofs`

- `RateCap`, `RateRetry`. The invariant of the code is about what it keeps, the property about all calls ever
  admitted. `RateIInv` says that the bucket of an identity is a suffix of its admitted stamps and what precedes it is a window
  old (*Tracks*), no longer than the limit (*Bounded*), and that the cap holds of the history (*Capped*). Any window that ends at a call
  lies in a suffix the code still had at that call. The wait is enough by the rounding lemma on `CeilDiv`.
- `QuotaImplementsLimiter`: every step of the composition is a step of `RateSpec` or leaves its variables alone;
  so `QuotaRateCap` and `QuotaRateRetry` hold with snapshots, shutdown and restart.
- `BudgetCap`. `BudgetIInv` relates buckets to the ledger of all charges (*Sound*): whatever part of the window one looks at, the buckets of an identity hold at
  least what was charged there (*Held*), and the ledger satisfies the cap (*LedgerCapped*). It says so of memory, of every queued snapshot and of the
  file with the ledger of its moment, since a restart makes the third of them the first. The sums need `Total` of a sequence under appending, cutting and replacing.
- `BudgetRetry`: when the buckets that the announcement waits for have left the window, what the buckets still hold is
  below the limit (*Headroom*).
- `SnapshotsOnlyGrow`, `CleanExits`: the ledgers of file, queue and memory are prefixes of one another in this order (*Chained*), and what a shutdown hook promised is a
  prefix of what it waits for (*Pledged*).

### `SourceRegistry_proofs`

`GateApart` and `SettledStatesAgree` from `RegistryIInv`: a configuration object is of one name wherever it is kept (*OneName*), requests in
flight that did not overlap are on names of their own (*OwnNames*), list and registry differ only on those names (*Filed*), and a connector in the map is that
of the name's present configuration, with each waiting request's half-way state spelt out (*Linked*).

### `Tools_proofs`

- `ProductBinding` and `DeletionIsFinal` from `SessionInvariant`: tags, transports and requests in flight
  exist only for issued ids (*Issued*), and the POSTs in flight on an id that is *removed* were under way at its DELETE (*PostsLeftTrail*); it is the tail of
  one of those that puts it back, and takes it from *removed*. `SessionTypes` rests on *Issued*.
- `InspectionStaysTrue`. Rules cover every signature they were learned from (*GoodRules*), so the first accepted rule of a tool lets through what it
  learned. The hooks a call has left hold the recorder once and the call was not observed, or they hold none and it was, or the mode was off when it passed
  (*Recorded*). Raw text has an audit entry, and the log only grows (*RawTold*). That the order the registry
  gives its hooks exists at all (`HookList` chooses it) is an induction over the hooks: a finite set with integer priorities has a first.
- `GateStaysHeld`. `GateIInv`: what a build has read, and what it still has to read when it does, is at least as new as every edit that was answered before a
  request came to wait for it (*BuildsHold*, *OpsHold*), since a PUT drops the kept promise before it answers.
- `WatchersAgree`. `GraphIInv`: of an object's versions the cluster holds the one its watch last reported, and the store the one it last handled
  (*LastEventHolds*), whatever the order of the five watches. `TenantsStayNamed` needs no invariant but the types: it is about the merge, whose
  primaries and edges are shown to keep every `RUNS_ON` of a provider.
- `RecoveryStaysQuiet`. There is a k-th smallest of any finite family of samples, and a median is the mean of two of them. So where no
  recent sample is higher than any sample before it, neither is the median of the recent ones than that of the baseline or of the phase, and nothing is above.
- `LoudVictimsStayBehind`. The folds are defined (`ChosenFoldDefined`, the set counterpart of `FoldDefined`); the closure that `Correlator` computes is transitive by
  an induction over the services taken in as intermediates; so whoever depends on the victim depends on its cause, the cause has a dependant more, and the victim
  something upstream. That is worth 20 + 12 to the cause, and the victim's severities are worth at most 30.
- `AbsenceIsTold`. `SeriesIInv`: what is kept or under way is true of the back end as it is, unless its query began before the last change, or it fades within a cache time of
  the moment (`settled`) when an answer for such a query was last kept. So a query that begins later is led to the first label that names the service and to a series it has there, if any.
- `LookupsAreRecent`: the same of the RDAP cache, as an action property, with an age that depends on the answer.
- `LogsStayHeard`: a call of a tool is one step, so it is a case analysis of what may fail in it; the finite sets of lines give counts (`SummaryFacts`), the first label of a sequence is one of it (`FirstFacts`), and what a source that lost a
  look-up is taken to say is still one of its streams (`JudgedFacts`).

### `Background_proofs`

- `SilentClients`: `SocketIInv` relates each socket's last pong to the ticks of its timer.
- `OutboxImplemented`: both sinks implement `Outbox` step by step. The refinement needs only that buffer and batch are sequences of
  records and that a batch in flight is not empty.
- `RegisteredTools`: versions of a list only grow, those in an upstream's requests and cache are versions it had (*UpstreamHolds*), and what a session registered
  was in the cache it saw (*ClientHolds*).
- `HistoryKept`: the ring holds the numbers of the last records, and each record before those has left the window or has as many behind it as the ring
  takes (`RingHolds`; the cut is a filter by a set that keeps every later record, `FilteredSuffix`). Settled, in flight and buffered are consecutive numbers, what the
  database took rises and is settled, and a stop that found no post in flight leaves nothing made before it in the buffer (`SettledHolds`).

### `Logins_proofs`

- `Grants`: a cached answer was decided not longer before it was stored than a query may take.
- `Policy`: while engine and file differ, and the file parses, some request will read it (*EngineFollows*), whichever writer's text or mixture it holds; a writer has its tmp file
  until another renames it (*TmpThere*); changes that did not overlap are one at a time (*OneAtATime*).
- `UserFiles`: what a login finds in the hands of requests that read after it came in is at least as new as itself
  (*UsersClock*, *UsersSeen*); what is on its way to the file has a user who can log in (*UsersUsable*).
- `Revocations`: a replica's memory has what it must honour and what it is about to write (*HonouredIndexed*), and nothing nobody asked for (*OnlyAsked*). The load
  at a restart is a fold over the lines; `Latest` says what it returns, by `FoldDefined`.
- `RevocationLoss`: the answered revocations that cannot be read, and half a line, are together no more than the damage counted.
- `Lockouts`: `LockIInv` for the quiet lock; `AloneIInv` for the threshold: with one login at a time the entry's counter is the length of a streak of
  refusals in its window (*StreakOf*), whatever `recordFailure` resets in between. The doubling of the lock is an exponent, bounded by `MaxLockSeconds`.
- `Rotations`: the cached key set is that of some rotation (*CachedFrom*); of an earlier one, it expires soon after the last, and no forced refresh holds the
  next one back; what a fetch in flight brings holds the key of its callback (*CallSound*).

### `Stores_proofs`

- `GroupsOfTheLiving`: every copy of the directory, in memory, queued, half-way to the file or stored, has no member that the copy does not have as a user (*ScimSound*).
- `AnsweredStays`: for SCIM, what was answered is in memory, in the text being written and in the store (*ScimKept*), which needs who waits for
  which element of the Redis queue (*ScimQueue*) and that a lone writer's tmp file is its text (*ScimAlone*). For products,
  *ShelfAlone* and *ShelfKept* say the same of the catalogue.
- `QuietEdits`: memory is behind a quiet edit only until the next reload, which the cursor makes sure of, nothing older is on its way to the
  file (*ShelfQuiet*), and no request holds an older text it has yet to install (*ShelfRead*).
- `InstallsAreListed`: scans that wait for one import are served in order and those that read an older package are in front (*Lined*); so an
  installed package is listed, or its own scan still has it to do (*Promised*).

### `StoresLogs_proofs`

- `ReportsOutlive`: no id is given twice (*ReportsFresh*); what is stored is in file, memory and the body of a rewrite, what was deleted in none of them, but
  for what a rewrite and an append beside it may do (*ReportsKept*, *ReportsGone*, *ReportsInFlight*).
- `LogIsDelivered`, `ChainBreaksCaused`: `AuditIInv` counts the breaks of the readable file *and the one the next append would make* against the faults
  (*AuditChain*), and says where the entries that a shutdown waits for are (*AuditFlush*). It is not inductive alone: the hook takes over what is queued at
  that moment, so an entry that waits for the file must be queued for the receiver or settled already (`AuditQueued`). Without a fault, file and queue are the whole chain (*AuditExact*).

### What the attempts corrected

Six properties or models turned out not to be what was meant, on instances larger than the runs had:
`SerialThreshold` of the lockout did not ask that a login's read and write be within the entry's slack; a login that was `crowded` could be judged by
the *older* file only if that one still lets somebody in (`LoginSeesEdits`, `NeverLockedOut`); rotations need `RotationAssumption`;
a builtin is listed again only when no scan is under way and signatures are not required (`InstalledIsListed`); the hand-over of the log is not inductive without `AuditQueued`;
and `LoudVictimsFollow` holds of victims with up to ten anomalies only, but of any graph, those with cycles included.

### Only model-checked

- Liveness (`NothingWaitsForever`, `ChargeReachesDisk`): the prover has no ENABLED, so what fairness gives cannot be used in a proof.
- The disagreements of section 6, each of which is a behaviour TLC shows.

## 6 Disagreements found

Six runs are expected to fail; each checks a sentence of the repository
against what the code does.

1. `lock_erased`: `auth/lockout.ts:21-22` calls the races harmless to the locked state; a stale
   write removes the lock.
2. `tenant_gate`: `connectors/registry.ts:112-116`; a connect that comes back late is filed under a name of
   another tenant.
3. `edit_masked`: `index.ts:1673-1675`, "visible on the very next request".
4. `scim_replicas`: `scim/redis-store.ts:4-6` wants a push to one replica to be visible to another, and lines
   14-17 take the last writer of the key to be the truth; a replica never reads the key again and
   removes what others wrote.
5. `postmortem_blind`: `tools/generate-postmortem.ts:156` passes a finished selector as `metric`, which `tools/get-anomaly-history.ts:80-84`
   warns against; the query does not parse, the error is swallowed, and no report has anomalies.
6. `warn_unseen`: `tools/detect-anomalies.ts:170-171` promises warn-level patterns; `connectors/loki.ts:323` extracts patterns from errors only.

Smaller ones that the models show but no run is spent on: the "24-hour rolling window" of
`quota/token-budget.ts:4-8` forgets tokens up to an hour early (`BudgetCapHolds` is about the window
less that hour); a revocation appended after a half-written line completes it, is answered 201 and cannot be read
at the next boot (`auth/revocation.ts:149`; `LossIsBounded` counts it); a poisoned revocation chain
(`auth/revocation.ts:147`) answers every later revocation with the first error;
the budget's announced wait ends exactly on the boundary, where the bucket still counts
(`quota/token-budget.ts:275` is strict), against `docs/access-control.md:337`; a failed snapshot write
is not retried, so more than "one debounce window" (`quota/token-budget.ts:239-240`) can be lost; a
product change whose write fails is answered `persisted: true` (`index.ts:3570`); the lockout's
window tumbles although its header says it slides; an audit sink may have an
entry the file does not (`audit/log.ts:143` does not wait for the append).

More of the same kind, by component:

- *Enterprise gate*. A token's expiry is looked at only when the gate is built; a build that rejected stays the answer, although
  `enterprise-gate.ts:201` says "never throws"; the check of the author and the write of a PUT are apart by awaits; the chained log on disk
  begins anew at each restart.
- *S3 sink*. Nothing in `src/` constructs it, though the docs describe `OMCP_AUDIT_S3_*`.
- *Packages*. Every scan first puts the builtins back, so an overriding package is gone while another scan runs (`connectors/loader.ts:99`, `:430`); an
  upgrade keeps the old code, since the import cache goes by path (against "Hot-reloadable", `sdk/manifest-schema.ts:60-61`); in strict mode one bad package makes
  an install answer 400 though it was placed, and without it an install answers 200 for a package `load()` skipped; disabled packages still register hooks, and the loader
  is never given the hook registry (`index.ts:1556`).
- *Tool call*. `redactToolText` returns text that is not JSON as it is; the gates of HTTP and WebSocket leave the tools unnarrowed when the product of a credential is gone.
- *Users and policy*. A login that overlaps another's reading may be decided by the older file (`index.ts:2708`); a policy write that meets
  another's rename leaves file and engine apart and answers 500 although its content is in the file; two PUTs that opened the one tmp file together can leave a text there that does not
  parse, rename it into place and so leave a file that no start accepts while the engine goes on (against `auth/policy/loader.ts:129-132`); a PUT may take the last `users:delete` grant away.
- *Detection*. The edges of an exactly periodic series are flagged, against `analysis/anomaly.ts:224-225`.
- *Topology*. Ids of a Kubernetes connector carry no source, although `topology/merge.ts:72` says so; a watch that fails is logged and not restarted; a provider
  that fails is skipped silently (against `docs/topology-providers.md:117`); siblings of one source are merged as soon as a second provider reports; `cloud_service` and `trace_service` are missing from the vocabulary.
- *Product catalogue*. A request that read the file before an edit can install that text and its mtime after another has reloaded the edit; a change made from there writes over the edit
  (`products/loader.ts:196`, `:208-209`), which is why `QuietEditsVisible` asks that no request be between stat and reload. A file that cannot be read, for another reason than absence, is taken for an empty catalogue.
- *Federation*. After a connection was lost every refresh and call fails until the process is restarted (`federation/upstream.ts:154-162`); the docs say so of a failed first connect only (`src/docs/federation.md:85-86`).
- *Prometheus*. A body that stalls after its headers is waited for without limit and cached as an answer of the moment it arrives (`connectors/prometheus.ts:629-636`), against the message of
  line 632; so a wrong answer may be spread one cache life after the last query from before a change ends, and `AbsenceIsRecent` counts from there. A service whose name is also a value of a preferred label of
  other series is looked for under that label and has no data as long as they exist (`:531-537`); the property is about services that are not hidden so (`Visible`).
- *Loki*. A look-up that fails counts as an empty label for a minute (`connectors/loki.ts:422-425`), so a service's query selects nothing and succeeds: it resets the error rate and a fleet scan does not list the
  service. Only the stream under the first label that holds the name is looked at, and only names under the first label with any values are listed.
- *MCP sessions*. The tail of a POST that was under way at a DELETE puts the session back (`index.ts:4151`); the sweep takes it half an hour later.
- *Postmortems*. An append after a half-written line joins it and is lost at the next boot; one that overlaps a delete's rewrite is lost
  though answered 201, or doubled (against `postmortem/store.ts:6-7` and `:104-105`); a delete that failed answers 404 until a restart; a failed append stays listed in memory.
- *Query tools*. Loki's `listServices` never throws, so `list_services` never names a Loki that is down; a later log source without lines resets the error
  rate of an earlier one (`tools/get-service-health.ts:36-41`, `:94-96`); absent error rates and latencies count as zero when there is a CPU value; errors of failed sources are dropped
  when another answered; coverage says "scanned" although every query failed; patterns are the five most frequent errors of the newest 500 lines.
- *Ranking*. Eleven high anomalies on a victim outrank a quiet root, against `analysis/correlator.ts:58-59`; production calls pass no edges.

## 7 Not modelled

`PROJECT.json` gives the reason per component. In short: cryptography and parsing (signatures, password hashing, JWT, configuration),
text (redaction patterns, OpenAPI, report layout, UI), clients of back ends distributed apart from the server
(`src/connectors/*`), dynamic client registration and the batch dry run of policies, `correlateSignals` and the backtest harness, code nothing calls
(`transport/transportSessionMap.ts`), the one-shot command line, and of SCIM the filters, pages and attribute patches.

## 8 Plan

What is left, in order of worth:

1. An abstract directory (a change is atomic and durable when answered) that the serial file store and the single-replica Redis store of `ScimStore` implement
   by refinement; *ScimKept* and *ScimQueue* are most of that proof.
2. The composition of a whole call: `McpSessions`, `EnterpriseGate`, `ToolCallQuota` and `ToolCall` over one clock.
3. SCIM filters and pages, and the group-to-role map, as pure operators; payloads that a hook replaces.

## 9 Running it

In this directory, with TLC and the community modules on the path:

    tlc -workers 2 -config ToolCallQuota.cfg ToolCallQuota

and so on for each run of `PROJECT.json`; `tlapm Logins_proofs.tla` for the proofs of a
module. `Stores_proofs` takes about eleven minutes from nothing, `StoresLogs_proofs`
about eight, `Tools_proofs` about twenty, the others less.
