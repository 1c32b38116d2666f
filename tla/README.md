# IP Country API: specification

A TLA+ development of the IP Country API: what its parts do between two
awaits, what they promise, which of that TLC checks on small instances and
which TLAPS proves for every instance. Paths are relative to the repository;
`ip_country_api/` stands for `src/ip_country_api/`.

## The system

A client posts an IP address to `POST /api/v1/lookups`. A pod validates it,
reads a row of the table `ip_lookup_cache` in PostgreSQL, and on a miss asks a
GeoIP provider and upserts the answer. Several pods share the table and nothing
else. Each pod is one asyncio process: a handler runs undisturbed from one
`await` to the next and interleaves there with the others.

| component | state | operations | talks to |
|---|---|---|---|
| HTTP layer (`main.py`, `api/`, `observability/request_context.py`) | a request id per task | middleware, routing, exception handlers, probes | lookup service, readiness check, metrics |
| lookup service (`services/`) | none of its own; locals across awaits | `lookup` | validation, repository, provider, metrics |
| address validation (`domain/`) | none | `validate_public_ip` | |
| repository (`repositories/`, `database/models.py`) | the table | `get`, `upsert` | PostgreSQL through the pool |
| connection pool (`database/engine.py`) | checked-out connections | checkout, checkin | PostgreSQL |
| provider (`providers/`) | attempts of a call | `lookup` with retries; fixtures | IPinfo Lite API |
| metrics (`observability/metrics.py`) | counters in the memory of a pod | one increment per event | scraped by Prometheus |
| lifespan (`lifespan.py`) | the wired application | start, stop, readiness check | pool |
| web client (`static/app.js`) | the page state, one controller | submit, abort, timeout | HTTP layer |
| settings (`config.py`) | none; read once by each process | `Settings()` accepts or refuses the values | environment of the pod, the runtime Secret |
| release (`deploy/helm`, `migrations/`, `deploy-challenge.sh`) | Secret, Deployment, pods, the schema | migration hook, rolling update, rollback | Kubernetes, PostgreSQL |
| verification (`verify-challenge.sh`) | none | one look per command | Kubernetes, HTTP layer |
| recovery drill (`verify-pod-recovery.py`) | an inventory, two tallies | delete a pod, poll, send lookups, report | Kubernetes, HTTP layer |
| traffic generator (`generate-observability-traffic.py`) | a thread pool, its results | send, collect, summarise | HTTP layer |
| dashboards (`build-`, `verify-sre-dashboards.py`) | JSON files, three running variables of a layout | lay out, write, compare, query | Prometheus |
| SLO rules (rule templates) | time series | rates over counters | metrics |

What is hard here: a clock read before an await and used after it; concurrent
misses of one address; a COMMIT whose acknowledgement is lost; a pod that dies
between two steps; clocks of different hosts in one comparison; retries whose
counters and whose final error must be those of one call; a context variable
that handlers read after others ran; and error paths that leave by a way no
handler was written for; a pool that lookups and probes share, whose waiters,
openings and statements may each be cut short; a release that is refused at
three different places, after some of its steps have been taken; a verification
that puts the state of a cluster together from several instants; a drill of two
threads that judges a cluster which moves under it; and tools whose exit status
must not be better than what they saw. `PROJECT.json` lists each at its line,
with the property that covers it or the reason none does yet.

What makes each part correct: the table and the replies hold whole answers of
the provider, recent and for the right address; a reply is never ahead of the
table; only PostgreSQL can hold a lookup; every event is in exactly the counters that
count it; retries are bounded and only follow transient failures; envelopes
and headers name the request they answer; no connection is lost or held
without need, and an error that names the database has a cause there; a release
that cannot come up costs nothing that served before; a verification, a drill or
a generator that passes saw what it claims.

## Modules

| module | models |
|---|---|
| `LookupPromise` | the promise of the service, without pods, transactions or clocks |
| `IPLookupService` | lookup service, repository, PostgreSQL, crashes, clocks; refines `LookupPromise` |
| `IPinfoProvider` | the two provider adapters and their counters |
| `LookupProcess` | one process: `IPLookupService` awaiting `IPinfoProvider` |
| `HttpApi` | the middleware stack, the exception handlers, the request counter |
| `TrafficGenerator` | the traffic generator on a process of `HttpApi` |
| `WebClient` | the page: its submit handler, its timer and what it shows |
| `ConnectionPool` | the pool of one pod, lookups and readiness checks on it, start and stop of PostgreSQL |
| `PodRecovery` | the recovery drill, its two threads, and the replica set it disturbs |
| `Settings` | what `Settings()` and the chart make of the values of a release |
| `Rollout` | a release from `deploy-challenge.sh` to the drill, on the cluster of `PodRecovery` |
| `DashboardLayout` | the layout algorithm of the dashboard builder |
| `DashboardPack` | a dashboard from the builder over CI to the validator |
| `MC...` | instances of these for TLC, with their inputs; `WebClient`, `ConnectionPool` and `PodRecovery` have plain constants and are run as they are |
| `..._proofs` | the theorems |

Four modules compose others. `LookupProcess` conjoins the actions of two
components whose lookups and calls are one to one; `TrafficGenerator`, `Rollout`
and `DashboardPack` extend the component they put to use and add its driver.

### IPLookupService

One action is one stretch of code between two awaits, or one step of
PostgreSQL. `StartLookup` validates and reads the clock (`asOf`, the local
`now`); `DbSelect` is the moment PostgreSQL evaluates the SELECT; `ReadHit` and
`ReadMiss` are what the handler does when it resumes; `ProviderAnswers` reads
the clock again and builds the record; `SendUpsert`, `DbCommit`, `DbAbort` and
`UpsertReturns` separate the transaction from what its client learns of it, so
that `UpsertFails` may happen before or after a COMMIT whose outcome the client
never hears. `Crash` loses the tasks and counters of a pod and nothing that it
already sent. Rows keep the columns a lookup reads back; a country is one value
for code and name.

True time is `now`; a reading of a clock is anything within `MaxSkew` of it, on
each reading anew. `Parse` is `ipaddress.ip_address(value.strip())` as a
function from the strings in play to addresses. `arrived` and `answer` are
history, read only by properties.

`Promise` instantiates `LookupPromise` with what clients see: an address was
asked for at a time, the provider told a fact, the table keeps an address, a
verdict was given. `KeepsPromise` says that every step is one of the abstract
ones or invisible.

### IPinfoProvider

Concurrent calls of one process. An attempt ends with an HTTP status and a
body, or without a response (`TimedOut`, `Broken`, `Garbled`, the three ways
`httpx` raises). `RetryLater` is a retryable outcome with attempts left,
`Conclude` everything else. A body is usable, unusable (a `ValueError`,
`ValidationError`), or one that raises what no clause catches. The exceptions
of `_request` are classified in the order of its clauses. The wait of a backoff
has no length.

### LookupProcess

A lookup and the provider call it makes have one name. `Ask` is the step in
which a miss runs into the provider's first await, `Attempting` what happens
between two attempts, `ProviderEnds` the step in which the coroutine of
`provider.lookup` returns or raises and the service goes on. What
`IPLookupService` leaves to chance, which answer comes and that one comes, is
here the result of retries. A crash loses calls, counters and tasks together.
The outcome of a failed lookup is the one the provider raised.

### HttpApi

`Receive` and `Observe` are `request_observability` before and after
`call_next`; what happens between is decided by CORS and the host check
(`AnswerEarly`), the router (`ServePlain`), the validation of the body
(`RejectBody`) or an endpoint that awaits. `EndpointBreaks` is the path of an
exception that is no `AppError`: out of the middleware, whose `finally` resets
the context, into `ServerErrorMiddleware`. A route is the `path` of the
`APIRoute` in the scope, "unmatched" where there is none.

### TrafficGenerator

`Take`, `GetAnswer`, `GetNothing` and `BodyBreaks` are a thread of the pool:
`urlopen` returns or raises an `HTTPError`, ends without a response (status 0),
or a body breaks off in an exception no clause names. A request that was given
up goes on in the server. The main thread is `executor.map` in the order of the
indexes (`CollectException`, `Drain`) and `Summarise`. `Possible` restricts the
server of `HttpApi` to what a well-formed request of its category can meet: a
request to a public address is not refused as an address, a malformed one is.

### WebClient

One action is one task of the browser's event loop with the promise
continuations that follow it. A submit is "fetching" at the await of `fetch`
and "reading" at the await of the body; `Submit`, `SubmitEmpty` and
`PickExample` are the listeners, `HeadersArrive`, `BodyArrives` and
`FetchFails` what the network does, `TimerFires` the callback of the timeout,
`FetchAborts` and `BodyAborts` what the abort does at either await. `Settle` is
the `finally` clause. The panels stand for the page states and error titles;
their text, the focus and the announcements are left out. `shownFor` is
history: the submit whose handler drew the panel. The network of the page is
not `HttpApi`: any response may come, an ok one with a value that is no country
included, which the page shows as a result (`PanelOf`).

### ConnectionPool

The pool is SQLAlchemy's `QueuePool` and external: `live` and `dead` count the
records of its queue with a connection that works and without one, `total` the
records in all. `Checkout` takes a queued record, opens another up to
`Capacity`, or waits; a dead one is reopened, which is what `pool_pre_ping`
gains (`Pinged`). `GiveBack` returns a record, with its connection or without,
or closes it when the queue is full. A task is a lookup, which checks a
connection out for the SELECT and again for the upsert and holds none while
the provider answers, or a readiness check, whose `asyncio.timeout` may end it
in the queue, in an open or in its statement (`CheckTimesOut`). `PoolTimesOut`
is `pool_timeout`, `OpenFails` also `connect_timeout`. `DbChanges` stops
PostgreSQL, which breaks every connection, starts it, or migrates the table in
or out; `QueuedIsLost` is the end of one idle connection. A statement fails on a
broken connection or for want of the table (`StatementFails`, `CheckFails`), or
for any other reason while its connection works (`StatementRejected`): the
database rejects it, which includes the address with a zone of finding 1, or the
connection is lost in use. The clauses of repository and readiness check take
all of these for an unavailable database, but a check the missing table.
`Shutdown` is the end of the lifespan, after uvicorn's last request; start-up
has no await and is the initial state. Durations are left out. `seen` is
history: what the database was while a task ran, and whether it met a timeout or
a refusal. Two answers are the code's and no property speaks against them, since
nothing in the repository promises otherwise: a full pool, and an address that
PostgreSQL rejects, are reported as an unavailable database, and a readiness
check that is too late in a busy pool takes a pod with a healthy database out of
the service. `FailuresHaveACause` and `ReadinessIsTruthful` name these causes;
what they rule out is an error whose cause is a connection that died in the
queue, or a check that calls a missing table a missing database.

### PodRecovery

One action of the main thread is the code from one command or wait to the
next: `Inventory` (the first inventory, its guard, the start of the thread),
`DeletePod`, `Poll` or `GiveUp` at the head of the loop, `Settle`, `Join`,
`Sum` and `Report`; the last two are apart because a thread that was not joined
may tally between them. `CommandFails` is a `kubectl` that ends in an
exception. The traffic thread is in a request (`Send`, then `Answered` or
`CutOff`) or between two. The cluster creates a pod while fewer than
`Replicas` are not being deleted, schedules it to a node without another,
turns readiness on and off at will and removes deleted pods; a rollout may
have left pods on their way out when the drill starts. Only the drill deletes
pods: an operator who does so at the same time can cause the recovery it sees.

### Settings and Rollout

`Settings` keeps of a value the class its validator puts it in. `Accepts` is
`Settings()` without a `ValidationError`; `Renders` the two `required` of the
templates; `OfJob` the four values the migration Job gets, the others being
defaults.

`Rollout` starts with two pods of an older release, Ready or not, or with none.
`Render`, `MigrationPodFails`, `MigrationDeadline`, `Migrated`, `Rolled`,
`RollTimeout` and `RolledBack` are the steps of `helm upgrade --install --atomic
--wait` and the ways it ends. The Secret is replaced in place with the template,
so a container that starts, or restarts, reads the values of the moment
(`StartContainer`), and `config` says which. `Create` and `ScaleDown` are the
deployment controller and its two ReplicaSets under `maxSurge` 1 and
`maxUnavailable` 0; `room` are the nodes that take pods. Scheduling, probes and
removal are those of `PodRecovery`, a probe with the further condition that the
process started and sees the table (`Probed`). `VerifyStep` is
`verify-challenge.sh`: one action per command that looks at pods, any of which
may fail. `DrillStep` is `PodRecovery`, on a release that was verified or that
helm reported deployed. The two pods of an upgrade are called 1 and 2 and are on
the nodes 1 and 2, which is no restriction; names are used in order, so that a
name is a creation time.

### DashboardLayout and DashboardPack

`StartRow`, `PlaceBeside`, `PlaceBelow` and `EndRow` are the loop of
`Layout.row`. `DashboardPack` writes the JSON of the laid out panels, lets
someone edit the JSON or the builder, runs `--check` and then the validator,
query by query (`Query`, `QueryBreaks`, `Summarise`), on the committed file and
those of other directories. Of a panel's target only whether it may be empty is
kept, of a sample whether it is zero, a number, not finite or no number at all.

## Runs

| run | question | result |
|---|---|---|
| `lookup_safety` | do two lookups on two pods keep rows whole, replies recent and kept, and counters consistent, and do they implement `LookupPromise`? | holds, 1.3 million states |
| `lookup_zone` | is a healthy database ever reported unavailable? | yes: a finding |
| `lookup_process` | with the provider it awaits, are retries strict, decided by the last attempt and counted once, do the counters of both agree, and can anything but PostgreSQL keep a lookup from its end? | holds, 77 thousand states |
| `provider_garbled` | is an undecodable body an invalid response? | no: a finding |
| `http_safety` | under the generator and another client, do ids stay with their requests, is each handled response counted once, and does the generator report what happened, and end? | holds, 0.7 million states |
| `http_slo` | is every 5xx of a lookup in the counter of the SLO? | no: a finding |
| `web_page` | do form, panel and controller agree, does the page show the last submit, and does the form come back? | holds, 212 states |
| `web_timeout` | is a lookup that its timer aborted shown as timed out? | no: a finding |
| `pool` | do the accounts of the pool balance, have errors and readiness answers their causes, and does every check end? | holds, 0.5 million states |
| `recovery` | from release to drill: does the hook come first, do old pods survive a release that cannot come up, is what was verified real, is a recovery that passes the drill's own, and does it all end? | holds, 1.1 million states |
| `recovery_flow` | do lookups flow until the replacement is Ready whenever the drill passes? | no: a finding |
| `dashboards` | do panels never overlap, and does a validation that passes mean data for every expression? | holds, 0.5 million states |

Bounds and why they are enough:

- Two lookups suffice for every race on one row: a third adds no kind of
  interleaving between an upsert, a commit and a read, since neither a row nor
  a lookup remembers more than one other. The inputs are two spellings of one
  address and one of each other kind that validation and the database tell
  apart: a private address, no address, and a public one that INET cannot hold.
- `TTL = 1` and `MaxTime = TTL + 2 * MaxSkew` at least: a row written at time 0
  can be read as fresh, at its expiry and after it, with the clocks apart in
  either direction. `MaxTime` only stops `Tick`.
- Two countries, so that a row mixed from two answers can be told from either.
- One retry, so that an attempt can be first or last: nothing tells a middle one
  from a first. One status of each kind that `_request` tells apart. The clock
  ticks once, so that the row of one lookup can expire before the other reads it.
- Four submits of the page: the state of a submit is independent of the ones
  that ended before it, so two would do; the others show that nothing piles up.
- A queue of one and an overflow of one, for three tasks: two can hold a
  connection while the third waits, a record can come back to a full queue,
  and a queued one can die. Each task runs once, since it carries nothing over
  to a next run but what it left in the pool.
- Two requests of the generator on two threads, with indexes on both sides of
  each boundary of `request_for`, and one of another client, which keeps the
  counters of the server apart from what the generator saw.
- Five names of pods: two of the old release, two of the new one and the
  replacement of the drill; an installation has two to spare. Three nodes, the
  third cordoned or not: without it a surge pod cannot be placed. One set of
  values of each kind: accepted, refused by the rendering, by the migration Job
  (two ways) and only by the pods. Two retries of the Job, which is its
  `backoffLimit`. One lookup of the drill; `recovery_flow` has more.
- Layouts: both dashboards of the builder, and every one of up to four items in
  one row or up to two in each of two rows, with two heights and widths that
  leave a rest, fill a line together, and overrun it by one column. Up to three
  panels go on to CI and the validator: one each that passes, is excused and
  fails.
- `Symmetry` permutes requests, pods and countries, which no definition tells
  apart, in `lookup_safety` and two of the finding runs; `KeepsPromise` says what
  a step may do and names none of them. The runs with liveness properties use
  none, as they must not.
- `CHECK_DEADLOCK FALSE` everywhere: a finite set of requests is served once,
  and when all are done and time is up nothing is left to happen.

Fairness. Of a process (`ProcessFairness`): a request of `httpx` ends and a sleep
ends. `httpx` bounds the connect and each read and write, not the whole, so this
leaves out a body that trickles for ever. Of PostgreSQL and the connection to it
nothing is assumed: the code sets a connect timeout and no statement timeout, so
a connection that neither answers nor breaks holds its lookup for ever. Hence
`OnlyPostgresHoldsALookup` promises no end: a lookup ends, or stays for ever in
one await of the repository, its SELECT or its upsert. Without either of the two
exceptions the property is violated. Clients, crashes, restarts and clocks are never fair. Of
the generator (`GeneratorSpec`): sockets time out and threads run; nothing is
asked of the server. Of the page: a timer that is set fires and an abort is
delivered, which a browser guarantees; the network may be silent for ever. Of
the pool: the timer of a readiness check fires, and nothing else; PostgreSQL may
hang, and with it every lookup. Of a release (`RolloutFairness`): a script goes
on, its commands end, and a deadline that is pending passes (`helm --timeout`,
`activeDeadlineSeconds`, the drill's own); nothing of the cluster or the traffic
thread, so that no pod need ever become Ready.

## Proofs

| module | theorem | says |
|---|---|---|
| `IPLookupService_proofs` | `TypeCorrect` | `[]TypeOK` |
| | `LookupInvariant`, `MeterInvariant` | the inductive invariants of rows and replies, and of the counters |
| | `NoTornRowHolds`, `ReplyIsRecentHolds`, `ReplyIsKeptHolds` | what rows and replies promise |
| | `MissesAreObservableHolds`, `UpsertsAreObservableHolds` | each pod's counters add up with its lookups in flight |
| | `ServiceKeepsPromise` | `Spec => KeepsPromise`, the refinement |
| `IPinfoProvider_proofs` | `TypeCorrect`, `RetriesAreStrictHolds`, `LastAttemptDecidesHolds`, `EachCallIsCountedOnceHolds` | of the provider alone, for any calls, bound and statuses |
| | `ProcessImplementsService`, `ProcessKeepsPromise` | `ProcessSpec => Lookup!Spec`, and so `LookupPromise`: service and provider together are the service |
| | `ProviderInProcess`, `ProviderHoldsInProcess`, `CountersAgreeHolds` | in the process, crashes included, the provider keeps its properties and the two sets of counters agree |
| | `LookupsAreBounded` | a lookup is at most `2 * MaxRetries + 6` awaits from its end, and never goes back |
| `HttpApi_proofs` | `TypeCorrect`, `EnvelopeNamesItsRequestHolds`, `HandledResponsesAreMeteredHolds` | for any requests and paths |
| `TrafficGenerator_proofs` | `GeneratorImplementsHttpApi` | `GeneratorSpec => Spec`: under the generator the process is one of `HttpApi` |
| | `GeneratorTypeCorrect`, `NoFalsePassHolds`, `DashboardsShowTheTrafficHolds`, `GeneratorGoesForwards` | for any requests, indexes and concurrency |
| `WebClient_proofs` | `TypeCorrect`, `FormFollowsRequestHolds`, `PageShowsLastSubmitHolds` | for any number of submits |
| | `LockedFormHasAWayOut` | a locked form waits for one request whose timer is pending or has aborted it; a submit is at most six steps from its end, and never goes back |
| `ConnectionPool_proofs` | `TypeCorrect`, `NoConnectionIsLostHolds`, `FailuresHaveACauseHolds`, `ReadinessIsTruthfulHolds` | for any finite set of tasks, any size and overflow |
| | `TasksAreBounded` | a check is at most five steps from its end and a lookup ten, and neither goes back; a check that has begun is where its timeout can end it |
| `DashboardLayout_proofs` | `LayoutTypeCorrect`, `PanelsDoNotOverlapHolds`, `RowsStaySeparateHolds` | for any dashboard of any items up to 24 columns wide |
| | `PackTypeOKHolds`, `PipelineKeepsLayout`, `PassMeansDataHolds`, `ReportAddsUpHolds` | of `DashboardPack`, for any dashboard, any set of other files to take one from and any answers |
| `PodRecovery_proofs` | `TypeCorrect`, `PassCountsEveryLookupHolds`, `RecoveryIsCausedHolds` | of the drill, for any pods, nodes and number of lookups |
| | `RolloutTypeCorrect`, `MigrationComesFirstHolds`, `OldPodsStayHolds`, `VerifiedIsRealHolds` | of `Rollout`, for any names, nodes and values |
| | `RecoveryIsCausedInRollout`, `PassCountsEveryLookupInRollout`, `OperationIsBounded` | of the drill on the cluster a release leaves, and of the operation as a whole |

They rest on the named assumptions of the modules: `Parse` is a function into
the addresses or `Malformed`; public and storable addresses are addresses; no
country is called "none" or "refused"; `NoRow` and `NoAnswer` are neither a row
nor an answer; `TTL` is a positive natural number and `MaxSkew` and `MaxTime`
are natural (`geoip_cache_ttl_seconds` is at least 60); the bound on retries is
natural and statuses lie in 200..599; `LookupProcess` repeats those of the service
for its own constants (`LookupAssumption`); the paths
requested of `HttpApi` are of the kinds its router tells apart (`PathsAssumption`). The sets of requests, pods, addresses and
countries need not be finite; the tasks of the pool and the names of pods are,
the pool has at least one place (`config.py:29`), and names are positive
numbers, so that they have an order; the nodes of a release are 1, 2 and a finite
set of spare ones, 1 and 2 are names, and releases are values of `Settings`; the
indexes of the generator's requests are natural and it has at least one thread; a
dashboard is a sequence of sequences of items.

The argument for the lookup service. None of the three invariants is inductive:
nothing in `NoTornRow` says what a lookup carries between its awaits, and the
next commit or reply may be any of those. `LookupInv` adds it. `TaskInv` says
of a lookup, stage by stage, that the row it read is known and its address
kept, that the record it upserts is its own answer, and that its clock reading
is at most `MaxSkew` behind its arrival; `RowInv` and `WriteInv` say the same
of rows and of open transactions. An answer is given once and never changes
(`AnswerStays`), so a known row stays known (`ToldStays`), a row is replaced
but never removed (`KeptStays`), and a step of one lookup leaves what is said
of the others untouched (`TaskFrame`). What remains is one lemma for each
action. `ReplyIsRecent` comes from `HitKeeps`: `expires > asOf`, `expires` is
at most the answer's time plus `MaxSkew + TTL`, and `asOf` at least the
arrival less `MaxSkew`.

The refinement maps `ProviderAnswers` to `Learn`, `DbCommit` to `Keep`, hits
and returned upserts to `Reply`, every failure and a crash to `Refuse`, and all
else to a stutter; a commit over an existing row is a stutter too.

The provider's invariant `CallInv` says that before the last attempt all were
transient and how many there may be; HttpApi's `RequestInv` that inside the
middleware the context of a task is its request's id. `PageShowsLastSubmit`
needs `FormFollowsRequest`, that the one open request is the active one, and
that the active one is the last.

The pool's invariant `PoolInv` ties a task's place in the pool to its
statement (`PlacesOK`): a task has one exactly while it runs one. With it the
accounts balance because every action moves one record from one count to
another, which is a statement about the cardinality of `Using` (`UsingJoin`,
`UsingLeave`, `UsingSame`). `SeenOK` says that what a task has seen includes
what the database is now, and that its broken connection was broken while it
ran: that is where pre-ping matters.

Of the drill, `TallyInv` says that every outcome is a 200 or a failure and that
nothing is tallied after a join that did not time out. `DrillInv` carries the
recovery: between the inventory and the deletion two pods live, so that the
replica set creates none (`ClusterKeeps`), hence every pod that existed at the
deletion and still does is in the first inventory; one that is not was created
later.

Of the rollout, `MigrationInv` says that before the hook has succeeded no Secret,
template or pod is of the new revision; a ReplicaSet makes pods only of a
revision that was a target. `OldPodsStay` needs `DoomedInv`, which holds in a
release that cannot come up: the two old pods are where they were, verification
and drill have not begun, and no new pod is or becomes Ready, either since none
that started has values `Settings` accepts, or since none has a node. Hence the
condition under which the controller removes an old pod, more Ready pods of the
target than are missing, is never met. Nothing is assumed of helm's timeout or
of the number of retries.

`VerifiedIsReal` needs `ReleaseInv`, stage by stage up to the drill: before the
hook succeeds the cluster is as it was found (`Before`); during the rollout the
other ReplicaSet has exactly the pods it should have, so that it creates none,
and a Ready new pod runs values that were accepted (`Rolling`); from "deployed"
on the new ReplicaSet is complete, on two nodes (`Complete`); and with two
different nodes among all items of `get pods` there is, by the anti-affinity, no
room for a pod beside these two (`PlacedIsAll`). It is the one command that
counts nodes, not those that count Ready pods, which excludes an old pod.

Of the generator, `TrafficInv` adds to `HttpApi`'s invariant that a result other
than 0 is the status of a request the server is done with; the refinement needs
no mapping, as each step of a thread leaves the server as it is. Of the layout,
`LayoutInv` says that every panel placed lies behind the current line or on it,
left of `x` and no higher than `row_height`, and that ids count the panels.

The counting invariants compare a counter with the cardinality of a set, so each
proof is a statement about what one step adds to a set. `MeterInv` says on every
pod that the lookups at a stage are finitely many, and that its counters and
those numbers make up the two equations; a step of a lookup moves one member
between two stages and bumps series of the same pod, and a crash empties both
sides. The provider's `TallyInv` does so with the calls that ended one way
(`EndCounts`, `SumGrows`), and `CountInv` of `HttpApi` with the requests
answered with one route and status, where `SeriesInv` says that a route is that
of the path unless it was not matched. `DashboardsShowTheTraffic` then follows
without a count: what the clients have seen is a subset of what was counted.

`LookupProcess` implements `IPLookupService` step by step: `Ask` is `ReadMiss`,
`ProviderEnds` is `ProviderAnswers` or `ProviderFails` (this is where the verdict
of the last attempt must be an error the service knows), an attempt in between is
a stutter. Hence every theorem about the service holds of the process. Of the
provider a crash is no step, so its invariants are shown to survive one
(`NextProvider`). `AgreeInv` then relates the counters of the two: a lookup past
its answer and not at its end is the difference (`AgreeStep`).

`PackInv` has a part for each stage of the pipeline: `FilesInv` (once `--check` has
passed, the committed file is the builder's, and it is the one the validator
reads), `ProgressInv` (files are read one after the other, so that each check is
the judgement of one target, at a place that can be computed) and `VerdictInv` (a
verdict is given when every target was read, and a pass when no list of failures
has a check). `PassMeansData` then needs that every target of every file has its
check by then (`AllRead`), and that a check which is in no list is data or an
allowed absence of it (`NoFailure`).

The drill keeps its invariant on the cluster of `Rollout` for another reason than
alone: more than one ReplicaSet can create pods there, but the drill begins after
helm has ended, and from then on the replicas of the old revision are zero and
those of the new one complete, so that nothing is created before the deletion
(`NoneCreated`). `DrillInv` is therefore split into `DrillCore`, which both
clusters keep, and what keeps it.

Only checked by TLC: the five liveness properties (`OnlyPostgresHoldsALookup`,
`GeneratorEnds`, `FormComesBack`, `EveryCheckEnds`, `OperationEnds`), since the
prover does no `ENABLED` and so no fairness. The half of each that needs none is
proved: `LookupsAreBounded`, `GeneratorGoesForwards`, `LockedFormHasAWayOut`,
`TasksAreBounded` and `OperationIsBounded` give a natural number that every step
towards the end makes smaller and no step makes larger, so that only a step that is
never taken, or a poll that is repeated, can keep them from ending. For the page and
the pool they also say which step that is. A locked form has a pending timer, or a
request that this timer has aborted and whose rejection is due (`LockHasAWayOut`; it
rests on `FormFollowsRequest`, since only the request of `activeController` unlocks
the form in its `finally`). A check is idle, at its statement or ended (`Roles`), and
`CheckTimesOut` asks for nothing but that it is at its statement. In the pool the
number falls along the places a task can have (waiting, opening, held, lost): a
waiter that was woken does not wait again for that statement, and a connection that
is lost under a task brings it nearer to its end too. The runs that expect a
violation are not proved to have one. Every safety property of every passing run is
a theorem.

## Findings

1. A public IPv6 address with a zone passes validation and is no INET value:
   the client gets `DATABASE_UNAVAILABLE` from a healthy database.
2. `httpx.DecodingError` is an `httpx.RequestError`, so `_request` retries it
   and the clause of `lookup()` that names it never sees it.
3. A lookup that ends in an unexpected exception answers 500 without a count,
   a header or a request id.
4. A timer that fires while a body is read is swallowed by `parsePayload`: the
   page shows an internal error instead of its timeout message.
5. A response that breaks off in its body ends the traffic thread of the
   recovery drill, and the drill passes without traffic.

## Not modelled, and why

`PROJECT.json` lists every component with its status, and hazards that no
property covers with the reason.

- The SLO recording and alert rules, and the PromQL of the dashboards: ratios of
  rates, evaluated by Prometheus. What `rate` makes of resets and missing
  samples is its own, and real numbers are out of TLC's reach. What the rules
  read, the counters, is modelled where it is incremented.
- Logging, the text of errors and pages, latencies, percentiles and histograms:
  no decision reads them.
- `postgres_performance` and `k3s_reliability` of the dashboard builder, which
  nothing calls; downgrade and the offline mode of Alembic, which no script
  runs; `public_summary` of the settings.
- Failures of nodes, evictions, and an upgrade that changes neither values nor
  image; the liveness probe beyond the restart it may cause; two operators at
  once.
- A second `--base-url` of the generator: the processes share nothing it sees.
- Packaging, compose files, CI and release workflows: build steps of external
  services.

What remains to be done: the promise of `LookupPromise` for the client of the page,
through `HttpApi`, which is now proved up to the process only.
