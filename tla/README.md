# alon-sentinel in TLA+

alon-sentinel is an uptime monitor: an API server through which sites, monitors
and notification channels are configured, public status pages, and any number of
worker processes that check the monitors, open and resolve incidents, and notify
channels. PostgreSQL is the only thing the processes share; beside it each API
process keeps two caches and a rate limiter. This directory models that
coordination, checks it with TLC and proves its main safety properties with
TLAPS. All paths below are relative to `src/alon_sentinel/src/` unless they
begin with `src/`.

## 1. Inventory

| Component | State | Operations | Interacts with |
|---|---|---|---|
| **Site monitors** (`domain/site_monitors`, `domain/sites`) | rows with `is_active`, `last_checked_at`, `last_is_success`, `check_claimed_by`, `check_lease_until` | claim due rows, extend, release, save last check, create, update, disable, pause, resume, delete site | statements run by workers and API handlers |
| **Incidents** (`domain/site_monitor_incidents`) | at most one open row per monitor (partial unique index) | open, update failure, resolve, resolve all open of a monitor or a site, acknowledge | save transaction, API handlers |
| **Site worker** (`worker/site_worker.rs`) | futures of the batch, their snapshot of the row, a shutdown flag | claim, initial lease, heartbeat, check with retries, save, release, stop | monitors, incidents, enqueue |
| **Monitoring API** (`api/routes/sites/**`) | none; two statements per handler without a transaction | create/update/delete site, create/update/disable/pause/resume monitor, heartbeat ping | monitors, incidents |
| **Notification deliveries** (`domain/notification_deliveries`, `notification_channels`, `site_notification_channel_overrides`) | deliveries with `status`, `attempts`, `next_attempt_at`, `claimed_by`, `lease_until`; channels; per-site overrides | enqueue, claim, extend, release, mark delivered, mark failed, channel and override changes | save transaction, delivery service, API |
| **Delivery service** (`notifications/service.rs`) | futures of the batch, attempts as claimed | claim, send, renew, retry with backoff, cancel on shutdown | deliveries, external channels |
| **Worker loop** (`worker/site_worker.rs`: `run`) | time of the next retention run | the three phases, idle delay, retention under an advisory lock | all of the above |
| **Authentication** (`auth`, `api/extractors.rs`, `domain/api_auth`, `domain/admin_auth`, `api/routes/auth.rs`) | access tokens of users and clients; in each API process an LRU cache of contexts with a time to live | issue, look up, use, revoke, expire; insert, evict, invalidate | API handlers, administration |
| **Administration** (`api/routes/admin.rs`, `domain/{admin_users,roles,permissions}`, `bin/provision_*`, `bin/seed_*`) | users, roles, permissions, clients, scopes | handlers of several statements that end with invalidations; tools that reach no cache | token cache |
| **Rate limiter, page cache** (`api/rate_limit.rs`) | windows per key; an LRU cache of pages | check, clean up; get, set | public pages |
| **Public pages** (`api/routes/public.rs`, `api/routes/sites/mod.rs`, `domain/site_status_pages`) | configuration of pages: slug, enabled | read a page and its monitors kind by kind, derive statuses, cache; configure | monitors, page cache |
| **Checkers** (`monitoring/*`) | none | a series of tests of what a request observes, a verdict | site worker |
| **Other views** (`uptime.rs`, `checks.rs`, `metrics.rs`, `pagination.rs`) | none (read only) | list, count | not modelled |
| Configuration (but for the retry policy), crypto, network address checks, logging, migrations, admin UI, benchmarks, deployment | – | – | not modelled |

What is hard here, and what must hold:

* **Leases.** A worker owns a row through `claimed_by`; a lease only says when
  others may take it. A stalled worker outlives its lease, renews it if nobody
  else came, and otherwise finishes a check whose result must not count. Its
  view of the row (`last_is_success`, `attempts`) dates from the claim. *The
  view of the owner is current; what a late worker writes is undone.*
* **One transaction, many effects.** Saving a result inserts a check, moves the
  incident, enqueues deliveries and only then finds out whether the claim is
  still held. *Incidents follow health; announcements alternate.*
* **Handlers in two steps.** Turning monitoring off and resolving incidents are
  two statements, and checks commit between them.
* **Crashes, lost replies, shutdown.** *Claims come free; every due monitor is
  checked, every delivery settles, every shutdown ends.*
* **Time that must fit.** A lease must outlast attempts, jittered delays and
  renewals that fail; the loop must sleep, but not over work. *No second worker
  checks a monitor whose check is running; no work waits for an idle worker.*
* **Caches filled late.** A request reads the database and fills a cache later;
  meanwhile rights are revoked, pages disabled, other requests fill the same
  entry; and the handlers that change rights invalidate one process's cache, in
  another statement, or not at all. *What is served is out of date for a bounded
  time only.*
* **Verdicts.** A checker is a series of tests over a cut body, a rounded number
  of days, one address of several. *A success is deserved, and a failure is.*
* **At-least-once sending.** A message may be sent again after a crash; attempts
  must still be counted exactly, and *nothing settled is attempted again*.

`PROJECT.json` lists each hazard with its line and the properties for it.

## 2. Modules

| Module | What it is |
|---|---|
| `SiteMonitors` | tables `sites`, `site_monitors`, `site_monitor_incidents`; one operator per SQL statement |
| `SiteWorker` | the worker process over those statements |
| `MonitoringApi` | the API handlers over those statements |
| `Monitoring` | workers, handlers and time composed; fairness; properties |
| `IncidentLifecycle` | abstract: checks of a monitor happen one at a time |
| `MonitoringProofs` | theorems about `Monitoring` |
| `MonitorRegistry` | the handlers of ssl, tcp, dns and heartbeat monitors, concurrent, statement by statement |
| `RegistryProofs` | theorems about `MonitorRegistry` |
| `Checkers` | the five protocol checkers as functions |
| `CheckExecution` | one check in time: attempts, jittered retries, the lease and its renewal |
| `WorkerLoop` | the worker's loop around it: phases, idle delay, pruning, the other workers |
| `WorkerProofs` | theorems about `WorkerLoop` |
| `CheckerProofs` | theorems about verdicts: success and failure are deserved |
| `NotificationDeliveries` | tables of channels, overrides, deliveries; one operator per statement |
| `Notifications` | delivery service, enqueueing, channel handlers, time; properties |
| `DeliveryLifecycle` | abstract: a delivery is attempted one attempt at a time within its budget |
| `NotificationProofs` | theorems about `Notifications` |
| `AccessTables` | tables of users, roles, permissions, clients, scopes and tokens; one operator per statement |
| `TokenCache` | the token cache of an API process |
| `Access` | extractors, handlers of tokens and administration, provisioning tools, time; properties |
| `AccessProofs` | theorems about `Access` |
| `RateLimiter` | the fixed-window rate limiter |
| `PublicPages` | the handler of public pages with limiter and page cache; properties |
| `PublicProofs` | theorems about `PublicPages` |
| `CommonLemmas` | what several proofs need: least elements, sums over ticks, orders of use, capacities |
| `MC*` | constants and symmetry for TLC |

### Correspondence

**Rows.** `status[m]` is the existence and `is_active` of a monitor's row,
`last[m]` its `last_is_success`, `claimedBy`/`lease` its claim, `due` and `older`
the two things the claim statement asks of `last_checked_at`. `incident[m]` is
the state of the monitor's latest incident: the unique index allows one open
incident, and no statement touches a resolved one (acknowledgement apart).
`notified[m]` keeps the last two events enqueued, a history of
`notification_deliveries`. The five monitor types share their statements up to
columns that no property reads; `KindOf` distinguishes them where handlers do.
Ids are not reused: a deleted row stays `"deleted"`.

**Time** in `Monitoring` and `Notifications`. A lease is null, live or expired; a monitor is due or not; a retry is
in the future or not. Time passing is an action (`LeaseElapses`,
`IntervalElapses`, `RetryDelayElapses`) that may come at any moment.

**Futures.** `task[w][m]` is where the future of a claimed row stands. Each
await that touches the database ends a step, so other processes act between any
two statements. Reading the shutdown flag just before claiming is part of the
claim: no step of another process is affected by which of the two comes first.

**The save transaction** (`save_check_result`) runs at READ COMMITTED and is two
steps. `SaveBegins` is everything up to the read of the open incident;
`SaveCommits` writes, enqueues, updates the row where `check_claimed_by` still
names the worker, and commits; `SaveRollsBack` is the same path when that update
finds no row or the unique index refuses the insert. Two steps are enough: the
inserted check row holds a key-share lock on the monitor row, so until the
transaction ends a claim skips the row (`Locked`) and a deletion waits; handlers'
updates of other columns do not conflict and may come in between, which is what
the split is for. That an incident was open when read is all that is kept of it
(`act`), since only the owner of the claim opens incidents.

**Handlers** put their second statement into `resolving`; it is executed by
`ResolveIncidents`, at any later time, or never (`ResolveLost`).

**Enqueueing** is in both halves: in `SiteWorker` as the event it announces
(`EnqueueNotifications`), in `Notifications` as the rows it inserts (`Enqueue`),
at an arbitrary moment for each check. The channels' `notify_on_*` flags select
any non-empty subset of the effectively active channels.

**A worker id is never reused** (`runtime/mod.rs`: host, pid, a random part and
an index), so a restarted process is a new worker; `Crash` is final for an id.

**Deliberate abstractions** of these two. A check's verdict is any of up, down, transient
(`timeout`, `connect_error`). Monitors are ordered by when their last save
committed, while `NOW()` is the start of the transaction. Deliveries of a batch
are taken in any order instead of by `next_attempt_at`. The local lease deadline
of a send is any moment at which renewals have failed (`HeartbeatGivesUp`).
`accepted` is a history variable.

**Registry.** `row[m]` is a monitor's site, kind, target and `is_active`;
`request[q]` is what the handler of `q` has still to do. The four files are four
sets of handlers over the same few statements and differ in what identifies a
monitor; each handler has an operator of its own (`upsert_ssl_site_monitor` ...).
A statement after the first may fail. `abandoned` and `overlapped` are histories
that name the windows the code leaves open: a monitor is `abandoned` when a
handler turned it off but failed to close its incident, or when a check opened
one after that (below, 5.1). A check is two steps: `ClaimCheck`, of an active
monitor, and `SaveCheck`, which asks for no `is_active`, as `save_check_result`
does not. In `MonitoringApi`, the http handlers are composed with the steps of
the save transaction; here the transaction is one.

**Checks in time.** `CheckExecution` counts in ticks. `check` is the attempt or
the delay that runs, `beat` the task that renews the lease, `lease` and `owner`
the two columns of the claim. Only `Tick` lets time pass, and `MayPass` bounds
it: an attempt by `AttemptMax`, which is what the timeouts of each checker add up
to (an ssl check makes two rounds of connections over all addresses, each with
a connection and a handshake, and names are resolved without a timeout, bound
`NameMax`; the timeout of a dns check is for each of its queries, of which a
lookup may make several, bound `QueryMax`), a call to the database by `CallMax`.
The policy of a check is that of its monitor (`Override`) where it sets something
and the configured one elsewhere. The configuration is checked to have a delay
for every retry, the combination is not: a policy may ask for retries and have
no delay for them, and the check then ends with its first attempt. The lease
plan, the jitter and the interval of renewals are the code's arithmetic in ticks. The result of a
check is `Check(m, o)` of some observation `o` of its target; `MayObserve` says
which observations are possible, and texts, header and JSON values are members of
small sets. Texts in the part of the body that is cut off are `tail`.

**The loop.** `loop.phase` follows `run`. A batch is one monitor: the checks of a
batch share nothing but the loop, which waits for all. Deliveries are a moment at
which one is claimable, the check history a number of expired rows; other
workers and the API are the environment. `watch` is a history: for how long work
has been ready while the loop slept, and whether it came up during the sleep (or
the statements that plan the sleep failed, which makes it sleep for the whole
poll interval). `LoopAssumption` lets nothing be said of a zero interval of
pruning but that it is a number.

**Access.** A request runs one statement per step (`req[q].stage`), and may be
abandoned between any two: the future of a handler is dropped when the client
goes away. Permissions on sites are one set `SitePermissions`, the others
`"admin"`; being authenticated at all is the key `"session"`. `ReplaceUserRoles`
and `ReplaceRolePermissions` are transactions at READ COMMITTED that delete what
was there when they began (`seen`). `lacking[t][k]` is a history: the ticks since
the tables last gave token `t` the right `k`. Order of use in the cache is the
relation `recent`. `LookupMax` bounds the ticks from a request's reading of the
tables to its filling of the cache.

**Public pages.** A handler checks the limiter and the cache (one step: nothing
awaits between them), reads the row of the page, then the monitors of one kind
per step in any order, and stores the page. The process starts on a database in
any state. A monitor whose last check succeeded is "degraded" when that took
longer than its maximum allows now: a tcp check never compares the two, an http
check compares with the maximum it was claimed with, and `ChangeMaximum` is the
PUT or PATCH that gives another. A read `view` carries two histories:
for how many ticks the row of the page, and the status of each monitor, have not
been what was read. `LoadMax` bounds the ticks of a handler. The limiter takes
the time before it takes its lock; with ticks as long as a lock is held that is
the same tick. Titles, incidents and uptime figures are data of the page.

## 3. Runs

| Run | Expect | Shows |
|---|---|---|
| `monitoring_safety` | pass | type, freshness of the owner's snapshot, incidents follow health, the unique index never costs the owner a result, announcements alternate, refinement of `IncidentLifecycle` |
| `monitoring_progress` | pass | every due monitor is checked; every shutdown ends |
| `registry` | pass | type and uniqueness of rows; an open incident of an inactive monitor is about to be closed, or was left by a handler that failed or by a check saved after it; one heartbeat monitor per site |
| `worker` | pass | type, a lease outlasts its check, a success and a failure are deserved, the loop does not sleep over work |
| `notifications_safety` | pass | type, freshness of attempts, retry budget, refinement of `DeliveryLifecycle` |
| `notifications_undisturbed` | pass | each delivery acknowledged at most once when nothing fails |
| `notifications_progress` | pass | every delivery to an active channel settles |
| `access` | pass | type; rights that let a request in are recent; expired tokens are refused |
| `access_tokens` | pass | the token cache keeps its capacity; revoked and deleted tokens are in the end refused for good |
| `public` | pass | type; pages are recent; "operational" is deserved; the limiter refuses neither too little nor too much |
| `paused` | violation | a check in flight leaves a paused monitor with an open incident |
| `override` | violation | channels activated by an override only are never served |

**Bounds of monitoring and notifications.** `MaxAttempts` (2: first attempt and
last), `ClaimLimit` (1, or 2 in `notifications_undisturbed`), `MaxApiCalls`
(handlers between their statements, 1), and the sets themselves. The safety runs
have two workers, the fewest that can take a claim from each other, and any
number of re-claims; the safety of one monitor does not depend on the others (no
statement but the site-wide ones reads two rows), so one monitor is enough there,
and the proofs cover any number. `monitoring_progress` has two monitors and
claims of one, so that one can starve the other, and no handlers, which may
switch a monitor off and on forever without obliging anyone. The runs of
`notifications_*` have two deliveries. `Unreadable = {k2}` makes one payload fail
to parse. `Faults` lets any database call fail or its reply get lost. Workers are
symmetric in the runs that check safety only.

**Bounds of the others.** `registry`: two monitors, two targets and two requests,
the fewest for which a PATCH may meet another row's target and two first PUTs may
overlap; a second site id names no site. `worker`: a configuration of one
attempt of two ticks and no delays, which one http monitor overrides with two
attempts and a delay of three ticks, the ssl monitor with two attempts of one
tick and a delay of one, and the dns and tcp monitors with two attempts only, so
that they have no delay to wait for; a jitter of half a delay; a lease that a
claim sets (8) shorter than the longest plan's (10, of which the safety buffer
is two) and longer than others; calls of up to one tick, two renewals that may
fail, an ssl target of two addresses and dns lookups of two queries (whose checks
take longer than the plan counts), one batch of one row, a poll interval, backoff
and check interval of one or two ticks. `access`: one token, two requests of which one
administers, two roles, a time to live of two ticks and lookups of up to one, so
that all of a lookup, a change, its invalidation and a second lookup may
interleave. `access_tokens`: two tokens, of a user and of a client, and a
cache of one entry, so that eviction happens. `public`: a site with two monitors
of two kinds, which a handler reads at two moments, two slugs between which its
page may move, two handlers at a time, a cache of one page, a time to live of
two ticks, two requests per window of two ticks, so that two windows can let
three in within one, and a cleanup every two requests (256 in the
code: only that some requests clean up and others do not matters). Since the
database may be in any state at the start, one change while the process runs
(`MaxChanges`) is enough to come between any two steps of two handlers; that two
sites do not take each other's slug needs two sites and is not in the run. The
proofs have no bounds but the constants.

**Deadlock** is not checked in the runs of monitoring and notifications, nor
reached in the others: a system whose workers have all stopped rests.

**Fairness and why the code justifies it.** Weak fairness of claiming (the loop
claims again whenever it is idle and sleeps at most `worker_max_poll_interval`),
of the next step of each future (tokio polls it; checks and sends have timeouts),
of cancellation after a shutdown (the `select!` on the shutdown channel), and of
the passage of time. No fairness for crashes, shutdown requests, faults,
heartbeats or handlers. Progress is claimed for systems with one worker in
`Reliable`, which does not crash or stop and renews in time (`MayElapse`;
`LeaseOutlastsCheck` is why it can), and with `Faults = FALSE`: with a database
that always fails nothing can be promised. The other worker may crash or stop at
any step. In `access_tokens`, time passes and a lookup that has read the tables
comes to fill the cache or is abandoned; nothing else is fair, in particular no
invalidation.

## 4. Proofs

The theorems hold for every value of the constants that satisfies the
assumptions the modules state: any number of workers, monitors, requests,
processes and tokens, any retry policy, any bound. Every safety property that a
passing run checks is a theorem.

*Common lemmas.* Inductions over numbers are done by the least counterexample in
a set of them (`LeastMember`, from the library's `WFMin`; `AllNaturals`). From
it follow that recursive sums take values in `Nat` and grow as their terms do
(`SumsExist`, `SumsShift`, `SumsAfterOneMore`), and, by the size of a finite set,
that an order of use has a first and a last entry (`OrderHasEnds`), that an entry
used now keeps it an order (`OrderAfterUse`), and that a store which lets one
entry go for the one it takes in keeps its capacity (`CapacityKept`).

*Monitoring.* `TypeOK` is inductive. For the rest, `SnapshotFresh` alone is not
enough: what a save transaction decided in its first step must still fit what it
finds in its second. `SaveDecisionFits` says so: a pending `Open` implies a
snapshot that was not failing, a pending `ReopenMissing` or `None` of the claim's
owner implies that no incident is open. `IInv` is the conjunction of type,
freshness, fitting decisions, `IncidentTracksHealth` and
`NotificationsAlternate`; one lemma per action shows that it is preserved, most
of them by showing that the action leaves the rows or the tasks alone. From it
follow `OwnersSnapshotIsFresh`, `IncidentsFollowHealth`,
`NotificationsAreNotRepeated`, `UniqueIndexNeverHitByOwner` and, step by step,
`Implementation` (every step is one of `IncidentLifecycle` or a stutter).

*Notifications.* `IInv` adds to `AttemptsFresh` and `RetriesWithinBudget` that a
row not yet enqueued counts no attempts; a worker's decision to retry is taken
from its snapshot, which is the row's count as long as it owns the claim, so
`attempts` cannot pass `MaxAttempts`. `AcknowledgedAtMostOnce` needs a second
invariant, `OnceInv`: without disturbances every running future owns its claim
under a live lease (so nobody claims the row again), and an acknowledgement is
either about to be recorded or has been.

*Registry.* `RInv` is the types of rows and requests, the two properties, of
which the one about incidents is weak on purpose: the code does not keep inactive
monitors free of open incidents, and the theorem says which ways they come by
one, and
`CreatorsAreAlone`: a handler that is about to create a heartbeat monitor for a
site where no two overlapped is the only one, and the site has none yet. That a
request's row still fits when its next statement comes follows from `RowsStay`:
no statement removes a row or moves it.

*Worker.* `WInv` adds to the types of check and renewal what the lease is worth
(`LeaseKept`). There are two ways to keep it. If attempts take no longer than
their timeout, the lease and what the check has used of its plan together never
fall below the plan by more than one call: `Used` sums the attempts and the worst
delays up to now, and `WorstDelays`, a recursive function, is unfolded by one
step per retry; `AttemptsCounted` says that an attempt takes no longer than
that, and does not hold of ssl checks nor of dns lookups of several queries. A
policy without delays adds none to the sum and starts no retry. If no two renewals in a row fail, the lease and the time since
the last renewal never fall below it by more than a call. Both need
`CallsAreShort`: a call to the database is shorter than the safety buffer, and
three calls fit in what two intervals leave of the lease. `IdleSleepIsShort` needs `IdleFits`: as long as nothing surprised the
sleep, what is left of it is at most the time to each of the three wake-ups, and
after a surprise the time waited and the time left are together at most the poll
interval. Nothing is assumed of the other workers.

*Checkers.* The two properties need of the worker only that a result being saved
is what the checker says of the observation, and that a transient one was not
retried for want of attempts or of a delay (part of `WInv`). The rest is about `Checkers`: the
verdict is the first failing test of a list put together from what the monitor
is configured for, so "ok" means that every test passed and no more (again by
the least failing one), and one lemma per kind of monitor shows what these tests
together ask for; for certificates that includes the rounding of the days that
remain. For tcp, dns and heartbeats the verdict is an equivalence. For http and ssl
there is a gap between what a success shows (`Deserved`) and what rules a failure
out (`Deserved` and `SeenWhole`), and it is in the code: a body that is cut, an
address that times out before another answers. `ObservationAssumption` says
which outcomes the calls of a checker have.

*Access.* The property is about steps, so its invariant bounds what the step will
find: a right in a cached context has been lacking for at most the age of the
entry and `LookupMax` (`CachedAreRecent`), a right in the hands of a request that
has not filled the cache yet at most since it was read (`FoundAreRecent`). Every
action that changes tables can only start the count of a right at zero, so none
of the invalidations is needed for it: they make the bound better, not possible.
`CacheIsBounded` needs that there is something to evict: `OrderFits` says that
`recent` orders the contexts a process holds, so among those that have expired
one was used last, and among all one first.

*Public.* `PInv` bounds the two histories of every view: of one that is being read
by the time its handler has spent, of a cached one by `LoadMax` and its age.
`PagesTyped` proves the capacity of the page cache as that of the token cache.
`OperationalDeserved` needs that a page is stored only when every monitor of its
site has been read (`CacheFits`), so that none is missing from what the overall
status is derived from.
For the limiter, `WindowFits` relates a key's window to the history of what was
accepted: since the window was opened the key was let in as often as the window
counts, and in any stretch that reaches further back by at most one full window
more, less the request that opened it. `LimitKept` and `RefusalsDeserved` are two
ends of that; when the cleanup runs does not matter for either, which is why it
may run on every `CleanEvery`-th request of whatever key. That a missing window
is no window (`None \notin LimitEntry`) is all that is assumed.

*Only model-checked:* the liveness properties `EveryDueMonitorIsChecked`,
`ShutdownCompletes`, `EveryDeliverySettles` and `DeadTokensAreForgotten` (the
prover has no rule for fairness or ENABLED), and what the violation runs refute.

## 5. Disagreements found

1. **Pausing races a check in flight** (`paused`). The handler resolves open
   incidents and leaves the claim; the check then commits, opens an incident
   without looking at `is_active`, and the paused monitor keeps it open until it
   is resumed. The handlers of the other kinds, and those that disable, leave the
   same window (`abandoned` in `MonitorRegistry`). `src/alon_sentinel/tests/v1_routes.rs:2041` expects it resolved.
2. **Overrides** (`override`): enqueueing applies the override, claiming reads
   the channel's own flag.

Others that show in single statements need no run:

* Disabling one kind of monitor closes the incidents of the whole site
  (`api/routes/sites/monitors/http.rs:375` and its siblings; `DisableKind` and
  `Covered` in `MonitorRegistry`).
* The comment of the incident schema promises that incidents survive, the
  foreign keys cascade when a site is deleted.
* The failure metric counts `status = 'failed'`, which includes deliveries that
  wait for a retry (`api/routes/metrics.rs:619`).
* A payload that does not parse (`notifications/service.rs:529`) is claimed again
  after every lease without its attempts being counted; only a change of the
  payload's schema across versions can bring it about.
* Only `timeout` and `connect_error` are retried (`is_retryable_check_result`):
  the `connect_timeout` and `dns_error` of a TCP check and the `lookup_error` of
  a DNS check never are.
* `max_connect_time_ms` of a TCP monitor is stored and not enforced.
* A certificate that expired less than a day ago has zero days remaining, and is
  reported as invalid rather than as expired.
* An SSL check may take four timeouts per address, and a DNS lookup one per
  query, more than the lease plan counts; only renewals keep the lease then
  (`LeaseOutlastsCheck`).
* `HTTP_CHECK_RETRY_DELAYS_MS` is checked against `HTTP_CHECK_MAX_ATTEMPTS`
  (`config/mod.rs:553`), but a monitor may override the attempts alone: with an
  empty list its retries never happen (`FailureIsDeserved` allows for it).

## 6. Not modelled

Columns of a monitor's configuration other than its target and `is_active`, and
the ping that sets `last_heartbeat_received_at` (one statement; what a check sees
of it is the age the claim returned). Acknowledging incidents (two columns
nothing else reads), listings and pagination, uptime statistics, incidents and
figures on public pages, deletion of sites in `PublicPages` and of rows in
`MonitorRegistry` (it is in `Monitoring`). Passwords and their changes, rotation
of a client's secret, hashing, audit rows, validation of payloads. Configuration
parsing except the validation of the retry policy, encryption, address checks,
logging, metrics, schema migrations, the admin UI, benchmarks. Several workers
inside a process are several workers.

## 7. What could follow

The composition of `Monitoring` with `Notifications` through the enqueueing
transaction, in place of the event that stands for it in one and the arbitrary
moment in the other; the heartbeat ping and its race with the claim; the last
active administrator under concurrent deletions; rotation of secrets.
