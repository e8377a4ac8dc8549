# Playback service: specifications and proofs

This directory holds TLA+ models of the playback session service: the session
logic and its heartbeat pipeline (`internal/session`, `internal/kafka`), the
process around them (`cmd/service`, migrations, hooks), and the HTTP server with
its middlewares, handlers, settings and published API. TLC configurations check
them on small instances; TLAPS proofs hold for every instance.

## 1. The system

The service keeps one *playback session* per user: track, position, status
(playing or paused), device, time of the last change. It is stored twice, in
the PostgreSQL table `playback_sessions` and, for fast reads, in Redis under
`session:<user>` with a TTL of 24 h. Heartbeats, the frequent writes, reach the
table by way of the Kafka topic `playback.heartbeat`.

```
client --HTTP--> middleware --> session.Handler --> session.Service
                                                      |         |
                                     session.Repository    kafka.Producer
                                      |            |              |
                                PostgreSQL       Redis          Kafka
                                      ^                            |
                                      +-- HeartbeatConsumer <------+
```

| component | state it keeps | operations |
|---|---|---|
| `session/service.go` | none between requests; each request holds a `*PlaybackSession` | Start, GetCurrent, Heartbeat, Pause, Resume |
| `session/repository.go` | the row and the cache entry of each user | Get (with a goroutine that warms the cache), Upsert, SetCache |
| `kafka/producer.go` | batches inside the kafka-go Writer | Publish, Close |
| `kafka/consumer.go`, `session/consumer.go` | Reader position, group offset, the message in hand | Run (fetch, handle, commit), handle, start and stop |
| `kafka/event.go` | none | NewEnvelope, ParseEnvelope |
| `session/handler.go`, `validator`, `apperror`, `handler` | the readiness flag | one handler per route, binding, error answers, probes |
| `middleware` | counters | recover, request id, tracing, metrics, log |
| `server`, `cmd/service` | the hooks of fx | start, stop, migrations |
| `config`, `logger`, `redis`, `postgres`, `tracing` | clients | open, close |

How they interact: a request runs in a goroutine of its own and calls Redis,
PostgreSQL and Kafka in turn, without a lock or a transaction across two calls;
the goroutine that warms the cache shares its struct with the request that
started it; one consumer goroutine writes the table concurrently with all of
them. What is hard, therefore:

* *two stores, no order.* Every operation writes table and cache one after the
  other, the consumer writes only the table, the warming goroutine only the
  cache, and none of them compares `updated_at`. The last to arrive wins.
* *read, change, write.* Pause and Resume write back a whole session they have
  read earlier.
* *at-least-once delivery.* Produce requests are repeated, offsets are committed
  after the handler has run, a crash or a rebalance starts again from them.
* *partial failure.* Each call may fail, or succeed and lose its reply.
* *panics and shutdown.* What a middleware does after `next` is skipped by a
  panic; readiness, cancelled contexts and closing clients race with requests.

`PROJECT.json` lists these hazards at their lines, with the property for each.

What makes each component correct:

* service and repository: an acknowledged write is durable; reads are not older
  than what has been acknowledged, or only after something that the code has no
  answer to, and not for long; 404 means that there is no row; a session shows a
  place that its user has really sent;
* pipeline: every acknowledged heartbeat reaches the table, no message is
  skipped, a bad message does not block the ones behind it;
* lifecycle: nothing is closed under a request in flight, an orderly stop
  answers every request and sends every acknowledged heartbeat on its way out;
* migrations: nothing serves a database whose migration has not come to its end;
* middleware and handlers: a request acts at most once and only if it names its
  user and conforms to its schema, its answer is one of the documented ones and
  means what it says, log and trace tell what the client got, and each counter
  counts what its labels say;
* configuration: every documented environment variable takes effect.

## 2. The modules

| module | models | builds on |
|---|---|---|
| `SessionModel` | `model.go`: sessions, bodies, the failures of the environment, what a data race makes of a struct | |
| `Repository` | `repository.go`, the table: `WriteRow`, `Upsert`, `SetCache`, hit, miss, expiry | `SessionModel` |
| `HeartbeatPipeline` | `producer.go`, `kafka/consumer.go`, `session/consumer.go`: topic, Writer, Reader, offsets | `Repository` |
| `PlaybackService` | `service.go`, `Get` of the repository, crashes; fairness; all properties | `HeartbeatPipeline` |
| `Freshness` | a history of the users whose cache entry may be behind, and what may put them there | `PlaybackService` |
| `AtLeastOnce` | what producer and consumer promise together, abstractly | |
| `Lifecycle` | `main.go`, `migrate.go`, the hooks of all components: build, migrate, start, failing start, stop, timeout, restart; calls cancelled by a stop | `PlaybackService` |
| `Config` | `config.go`: where each setting is taken from | |
| `ApiContract` | `docs.go`: the published API and what it means for a client, abstractly; three points in which a service may differ from it, by name | |
| `HttpServer` | `middleware.go`, `server.go`, `handler.go`, `session/handler.go`, `validator.go`, `apperror.go`, `tracing.go`, `logger.go` | `Config` |
| `MCPlayback` | the bodies and the symmetry of the TLC instances | `PlaybackService` |
| `MCFreshness` | the same for the instance of `Freshness` | `Freshness`, `MCPlayback` |
| `MCLifecycle` | the same for the instances of `Lifecycle` | `Lifecycle`, `MCPlayback` |
| `MCHttp` | the requests, files and environments of the instance of `HttpServer` | `HttpServer` |
| `PlaybackService_proofs` | theorems and proofs | `PlaybackService` |
| `Sessions_proofs` | what is in the sessions, and which of them reach the table | `PlaybackService_proofs` |
| `Delivery_proofs` | the refinement of `AtLeastOnce` | `PlaybackService_proofs` |
| `Lifecycle_proofs` | theorems and proofs | `Lifecycle` |
| `HttpServer_proofs` | theorems and proofs | `HttpServer` |
| `Shutdown_proofs` | the service inside its process: stops, cancelled calls, restarts | `Lifecycle_proofs`, `Sessions_proofs`, `Delivery_proofs` |
| `Counters_proofs` | the request counters | `HttpServer_proofs` |
| `Fresh_proofs` | how recent reads are | `Freshness`, `Sessions_proofs` |

`PlaybackService` and `HttpServer` meet at the interface `sessionService` of
`session/handler.go`. To `HttpServer` a call of the service is one that returns
in the end, with a result, a not-found or another error (`Outcomes`);
`PlaybackService` is what happens in between, and `EveryRequestAnswered` is
where the end comes from. In the other direction, `Accept` of `PlaybackService`
takes exactly the calls that `UserID` and `BindJSON` of `HttpServer` let pass.

**How state and actions correspond to the code.** `db[u]` and `cache[u]` are the
row and the Redis entry of user `u` (`Nil`: none); `stored` is a history of
everything ever written to the table, for the properties. `topic[p]` is the log
of a partition; `writer[r]` is the message of request `r` inside kafka-go's
Writer; `position`, `committed` and `consumer` are the Reader's position, the
group's offset and the message in the body of `Run`'s loop; `handled` is a
history. For each request, `call[r]` is what was asked, `pc[r]` the next call it
makes, `sess[r]` the struct it works on, `code[r]` the answer, and `warm[r]` the
goroutine that `Get` started for it, which *shares* `sess[r]`. `clock` numbers
the calls of `time.Now`.

An action is the code between two calls of a server. `UpsertSession(r)`, for
instance, is the `Upsert` of Start, Pause and Resume with its outcome: the row is
written and the request goes on to `SetCache`, or an error is answered 500,
after which the row may have been written all the same (`dbReply`). An error of
`SetCache` is only logged, so `SetCache` writes the entry or does not, and its
caller goes on. `Mutate(r)` is the three assignments of Pause and Resume; if the
warming goroutine has not encoded the struct yet it may do so meanwhile, and
`RacedReads` is every value it can then see: each field old or new, a string
also torn (pointer of one value, length of the other).

The Writer is modelled from how the code configures it (`RequireAll`,
`MaxAttempts`, `LeastBytes`, `Async`): any partition is chosen for any message,
a failed produce request may have appended the message, and is repeated until
the attempts are used up or the error is permanent. Asynchronous or not,
`WriteMessages` may also refuse a message before it is queued (`PublishRefused`). Batches hold one message
each and may be sent in any order; that includes every log that shared batches,
sent again as a whole, can leave. The Reader belongs to a group of one member.

**The process around it.** `Lifecycle` wraps the steps of `PlaybackService`
into one process. `Components` is the order in which fx builds the parts: the
Invokes of `main.go` from top to bottom, before each what its parameters need.
`comp` is the state of each, `app` what fx is doing. `StartHook` follows that
order and `BeginStop`/`EndStop` the opposite one; `Drained` and `Flushed` are
what the stop hooks of the server and the producer wait for. If the port is
taken, fx undoes the start (`ListenFails`), with the consumer already at work;
when `fx.StopTimeout` is over, the process exits between two hooks
(`StopTimeout`). A stop cancels contexts: fasthttp's Shutdown those of all
requests, since handlers pass their `RequestCtx` on (`CancelledCall`), and
`RegisterConsumer` that of the message in hand (`HandleCancelled`,
`CommitCancelled`). kafka-go chooses between a message or a free slot in its
commit queue and the cancelled context at random, so the consumer may go on for a
while, and a commit may still get through until the Reader is closed. The
warming goroutines keep an uncancelled context and may meet a closed client
(`WarmClosed`).

Before that, `Up` and `RunMigrations` take the database from "empty" over
"applying" to "ready". A process that ends in between, or a statement that
fails, leaves "dirty", which golang-migrate refuses at every later start until
someone repairs it by hand; nobody does in the model.

**The HTTP server.** `LoadConfig` takes each key of the configuration from the
environment, the file or the default, or leaves it at zero: viper's `Unmarshal`
looks only at keys with a default and keys of the file, so an environment
variable for any other key is ignored. `Register` makes of it whether there is a
tracer provider (`tracing`) and whether the logger lets Info through
(`verbose`). A request `query[r]` goes down `Chain` in one step (`Enter`), since
nothing on the way down is shared: it gets its identifier and its span. `Route`
finds its handler; `ProbeHandler`, `UserID`, `BindJSON` and `ServiceReturns` are
the handlers with every early return. On the way up `Leave` is one step for each
middleware, because `lines` (the log) and `total` (`http_requests_total`) are
shared with other requests. A `Panic` takes the other way: `Unwind` runs only
deferred calls, which is Tracing's `span.End`, until `Recover` answers 500.
`resp[r]` is the response with its status, the kind of its body and
`X-Request-Id`; `outcome[r]` is what the handler or the service has done, for the
properties. `Stop` takes back `ready` and `ShutdownReturns` waits for all
requests.

The names with a suffix (`Select_NotFound`, `FetchMessage_AutoCommit`, ...) are
not part of the model. Each is a plausible mistake in the definition that
follows it, kept to show that the property named in `PROJECT.json` notices it.

**Idealisations.** User ids, tracks and devices are opaque. Two calls of
`time.Now` differ, and a stamp survives the microseconds of the table. A
heartbeat encodes and decodes to itself; only somebody else's message is
malformed. A call that failed has no effect later, after the caller has gone on
(no Redis or PostgreSQL command that a dead connection still delivers). Outside
`Lifecycle` the table exists from the start. In `HttpServer` the text of
messages, durations and the values of settings are left out, and the router's own
answers (OPTIONS, redirects, 404, 405) and the handlers of promhttp and the Swagger
UI are taken from how their libraries are used. A client that goes away does not cancel
its request (fasthttp cancels requests only at a shutdown).

## 3. What TLC checks

Requests are used once, so their number bounds a behaviour; when all are used
up, the system stops (`CHECK_DEADLOCK FALSE` in every configuration). `Faults`
selects the failures of a run, `Workload` the operations, `Sequential` clients
that wait for each answer.

| run | instance | properties | shows |
|---|---|---|---|
| `Storage` | 2 concurrent requests of any kind with two bodies; all failures of Redis, PostgreSQL and Kafka, produce requests tried twice, a crash; a position that the column refuses | `TypeOK`, `AckDurable`, `NoMixedSessions`, `NotFoundIsTrue` | acknowledged means durable, also after repeated attempts, duplicates, refusals and the fallback; 404 means no row; track and position always belong together |
| `Fresh` | 3 requests of one user of any kind, concurrent or not; expiry, failing Redis, lost replies of PostgreSQL, a crash | `NoTornWrites`, `StaleOnlyInDoubt` | a read is behind an acknowledged write only after a named disturbance, and only until a request that runs alone has cached its session; what the data race tears stays in the cache |
| `Live` | 2 heartbeats, failing brokers, failing commits, rebalances, a malformed message, a crash; a table that accepts everything | `CommittedWasHandled`, `CommittedIsStored`, `DeliversAtLeastOnce`, `AckedIsStoredEventually`, `EveryRequestAnswered` | offsets never run ahead of the handler, the pipeline implements `AtLeastOnce`, every acknowledged heartbeat gets into the table, every heartbeat request ends |
| `Lifecycle` | 2 requests (Start, GetCurrent, Heartbeat, Pause), a failing start, a stop that may run out of time, one restart | `InFlightFindsOpen`, `OrderlyStopAnswersAll`, `AckDurable`, `LossOnlyByStop`, `MigratedFirst`, `DeliversAtLeastOnce` | the order of the hooks is right; cancelled calls acknowledge nothing; delivery stays at-least-once across a stop and the next start; no part runs on a dirty database; see below for what a stop can lose |
| `Flush` | 2 heartbeats through an asynchronous Writer, otherwise as `Lifecycle` | `OrderlyStopSendsHeartbeats` | a stop that is given the time sends what was acknowledged |
| `Http` | 2 requests out of twelve kinds (anonymous, malformed, with and without identifier and trace, an unknown path, a probe where `docs.go` has it, another method), panics, values that do not encode, four files and two environments, a shutdown | `HttpTypeOK`, `DocumentedEnvWorks`, `ObserversAgree`, `ReturnedAreCounted`, `ImplementsContract`, `StopReturns` | but for three deviations the server keeps to its published API; log, spans and counters are right however two requests interleave; the shutdown ends |

Three requests are enough for every interleaving in which one write is overtaken
by a second and noticed by a third; two attempts and one crash show repetition,
duplicates and a restart; two bodies that differ in track and position make a
mixture visible; positions 0 and 1 with `Int4 = {0}` give a value the column
stores and one it refuses. In `Lifecycle` every position fits the column and no
statement fails by itself, so that what `LossOnlyByStop` sees lost is lost by the
stop. `Live` runs heartbeats only: the other operations wait for nothing but a
call of Redis or PostgreSQL.

**Fairness** (`FairSpec`, used by `Live` and `Reordered`): weak fairness of the steps of each
request, of its warming goroutine, of the Writer and of the consumer loop: Go
schedules every goroutine, and every call returns in the end with a result or
an error. For PostgreSQL that rests on the servers and on TCP, since the code
sets no timeout of its own. Strong fairness of a successful commit: `Run` asks
again with every message it fetches again, and a broker that refuses for ever is
down for good. Clients owe nothing, and no failure ever has to happen.
`FairHttpSpec`, used by `Http` and `ProbePaths`, has weak fairness of the steps of each request
that has arrived, and of the return of `Shutdown`, which polls for open
connections until there are none.

In `Http` two requests show every pair of interleaved steps on the shared counters
and log, and each kind of request meets each other kind; files and environments
decide between all combinations of tracing and level, and hold a key with a
default and one without. The proofs need none of these bounds.

**Abstract specifications.** `DeliversAtLeastOnce` says that the pipeline
implements `AtLeastOnce`: a log that only grows, deliveries in any order and any
number, and prefixes that are released only when all of them has been delivered.
The mapping takes `handled` for the deliveries and `committed` for the prefixes;
fetching, retries, rebalances and crashes are stutters or take prefixes back.
`ImplementsContract` says that the server implements `ApiContract`: a client asks,
the service acts at most once and only on a request that is authentic and
conforms, and replies with a documented status and body whose meaning (`Meaning`)
is true. An answer shows only when the outermost middleware has returned, so the
chain, the panic and the recovery are all stutters; a 500 promises nothing.

With `Deviations = {}`, `ApiContract` is what `docs.go` says: paths under the base
path `/api/v1`, bodies by their schemas, JSON errors, a 500 only where one is
listed. The server differs from it in three points, each with a name:
`rootProbes` (the probes are at the root), `plainErrors` (a panic is answered in
plain text, also by operations without a 500), `emptyStrings` (an empty string
counts as missing). `Http` allows for all three and finds no fourth; `ProbePaths` takes the
first away and finds it. So does `Http` itself without "plainErrors" (a panic) or without
"emptyStrings" (`track_id` empty, answered 400).

**Violations.** These runs show the code doing something else than a comment, a
test, `docs.go` or the README says (quoted in `PROJECT.json`):

| run | property | what happens |
|---|---|---|
| `StaleWarm` | `FreshReads` | Start; the entry expires; GetCurrent misses and starts its warming goroutine; Pause succeeds; the goroutine writes the playing session over the paused one, and GetCurrent returns it. One waiting client is enough. |
| `HandlerError` | `CommittedIsStored` | The consumer's Upsert fails; `Run` logs that and commits the message. The heartbeat is lost, although a test says that Kafka retries. |
| `TornStatus` | `CachedStatusKnown` | Pause after a miss assigns to the struct that the warming goroutine is encoding: the cache gets a status that is neither `playing` nor `paused`. |
| `Reordered` | `CacheAndTableAgree` | Two heartbeats of a user go to two partitions (`LeastBytes` ignores the key), the second is consumed first, and the table keeps the first one for good. |
| `Degraded` | `AckedIsFound` | A heartbeat is answered 204; Redis fails before the consumer has written the row; GetCurrent answers 404. |
| `ProbePaths` | `ImplementsContract` | `GET /api/v1/healthz`, as published (`BasePath` and path), is answered 404. |

What is stale, and for how long. `Freshness` divides the reads that `StaleWarm`
and `Degraded` find, and those after a lost update (below), from all others. A user is *in doubt* from
the moment one of five things happens: the cache entry disappears (`EntryDropped`), a
Get of an existing entry fails (`GetFailed`), a session does not get into the cache
(`SetCacheFailed`), the first row of a user is written by a request that ends before
it has cached it (`Stranded`), or two requests of the user overlap (`Overlapping`). The
doubt ends when a request puts its session into the cache while no other request and no
warming goroutine of the user is under way (`Recovered`), so in practice with the next
heartbeat. Everyone else reads the most recent state (`StaleOnlyInDoubt`), however far
behind the consumer is and in whatever order it writes: it writes only the table, and
for users not in doubt the table is not read.

What a stop can lose. `LossOnlyByStop` is as strong as the code allows: if the
consumer is stopped while a heartbeat is in its Upsert, the statement is
cancelled, `Run` takes that for any error of the handler and asks for the commit,
which may still be granted: an orderly stop of a healthy service can lose an
acknowledged heartbeat. `OrderlyStopSendsHeartbeats` does not
speak of that: it says that what was acknowledged has left the process, for the
table or for the topic, where the handler has seen it or the next process will.
Nor does an orderly stop let requests finish their work: it waits for them, but
cancels their calls, so that most of them are answered 500.

What else the models show of the code. The first two break `CacheAndTableAgree` when
`MCReordered.cfg` is given one partition and their workload and faults:

* an overtaken heartbeat: it is still in the topic when its user pauses, and the
  consumer then writes it over the paused row, since `Upsert` does not compare
  `updated_at`; one partition and no failure are enough;
* a stale commit: a commit fails, and the group rebalances while the second heartbeat is
  in hand. It is handled and committed all the same; meanwhile the Reader starts over at
  the first one, which is in hand when a second rebalance moves the Reader past both,
  and is written last;
* failed commits and a crash alone make the consumer write old heartbeats again, but the
  newest of them last: with one partition, one waiting client and no operation but
  heartbeats, the table comes to agree;
* a lost update: Pause reads the session, a heartbeat caches a newer position, and Pause
  writes back what it has read, with the old position;
* a request that panicked is answered 500 in plain text and is in no series of
  `http_requests_total`, whose help text promises the total: `ReturnedAreCounted` says
  what is counted;
* a request that panicked has no "request completed" line, and its span ends
  without status or error, because Tracing's `End` runs before Recoverer's
  `SetStatus`; its answer has lost `X-Request-Id`, as has the router's 404;
* a heartbeat whose process dies after `SetCache` stays in the cache although its
  client got no answer, and a Pause may make it durable; the next heartbeat is due
  within 5 seconds;
* variables for the ten settings without default are ignored unless the
  file has the key; the README does not document them, so `DocumentedEnvWorks` holds;
* `Publish` injects no trace into the message: handlers pass their `RequestCtx`,
  where the span is only under the key `otel_ctx`. Messages are modelled without
  headers.

## 4. What is proved

`PlaybackService_proofs` proves for all constants that satisfy
`ModelAssumption`, `PipelineAssumption` and `ServiceAssumption` (typing of the
parameters; `Nil` is none of the values it stands beside), for any number of
users, requests, partitions and crashes and any set of failures:

| theorem | states |
|---|---|
| `TypeCorrect` | `Spec => []TypeOK` |
| `TornStaysInCache` | `Spec => []NoTornWrites` |
| `NothingSkipped` | `Spec => []CommittedWasHandled` |
| `AcknowledgedIsDurable` | `Spec => []AckDurable` |
| `NotFoundTellsTheTruth` | `Spec => NotFoundIsTrue` |

The argument. `TypeOK` is not inductive: nothing in it says that a request at its
Upsert holds a session, or that the message the consumer handles exists.
`TypeInv` adds what a request holds at each step, and that positions, offsets and
the message in hand lie within the logs. It also separates `Session` from
`RacedSession`: Pause and Resume overwrite exactly the fields that a race can
tear, so what they write is clean even if they have read a torn entry
(`MutatedType`); hence `NoTornWrites`. `CommitInv` says that everything below the
Reader's position has been handled, but for the message in hand; a rebalance or
a crash only moves the position back to what is committed. `DurableInv` follows
a request: before it caches a session, the session is in the table; the Writer
holds the very session of its request and says "acked" only of a message in the
topic; logs and history only grow. `RowsStay`: a user with a stored session has a
row, so a 404, which only `Select` without a row answers, is true of the table. It is
not true of heartbeats that are still in the topic (`Degraded`).

`Sessions_proofs` proves two more from the same assumptions:

| theorem | states |
|---|---|
| `SessionsAreNotMixed` | `Spec => []NoMixedSessions` |
| `CommittedHeartbeatsAreStored` | `Spec => []CommittedIsStored`, if `Positions \subseteq Int4` and `"db" \notin Faults` |

`NoMixedSessions` is not inductive: it does not say where the messages of the
Writer and the data of the goroutines come from, nor that the request a place
came from keeps it. `OriginInv` says both. Only Get and what follows it assign a
session, and Start and Heartbeat, which build theirs from a body, never get there
(`SourcesFixed`); so a place that has a source keeps it (`SourcedStays`). Every
other step copies a session as a whole, or overwrites status, device and time,
which is also all that a racing read can mix (`RacedPlace`). For the second
theorem, `HandledStored` says that what the handler is done with is in the log and,
unless it did not decode, in the table: a lost reply makes the handler fail, but
the row is written. The two hypotheses are needed; run `HandlerError` shows a
committed heartbeat that a failing statement has lost. Run `Live` checks the
same property on an instance that satisfies them.

`Delivery_proofs` proves `ServiceDeliversAtLeastOnce == Spec => DeliversAtLeastOnce`
from the same assumptions and `TypeInv`, `CommitInv`: the only steps that touch
what the mapping shows are appends of the broker, the return of a handler, a
successful commit, which releases what `CommitInv` knows to be handled, and each
of them is one step of `AtLeastOnce`.

`Lifecycle_proofs` proves, without any assumption on the constants:

| theorem | states |
|---|---|
| `NothingClosesUnderRequests` | `LifecycleSpec => []InFlightFindsOpen` |
| `StopAnswersRequests` | `LifecycleSpec => []OrderlyStopAnswersAll` |
| `ServesMigratedSchema` | `LifecycleSpec => []MigratedFirst` |

`LifeInv` says why: a request is in flight only while the server is started or
closing, the server is either of these only while everything before it is
started, and the server's hook ends only when no request is in flight.
`SchemaInv` says that the migrations are past "none" only in a process whose
database is ready, and that no later step takes that back; a restart begins again
with everything at "none".

`HttpServer_proofs` proves, from `HttpAssumption` (typing of the parameters; `Nil`
is no query, span or identifier), for any requests, settings and kinds of failure:

| theorem | states |
|---|---|
| `HttpTypeCorrect` | `HttpSpec => []HttpTypeOK` |
| `EnvironmentWorks` | `HttpSpec => []DocumentedEnvWorks` |
| `ServerImplementsContract` | `HttpSpec => ImplementsContract`, if `DeviationsNamed` |
| `ObserversAgreeAlways` | `HttpSpec => []ObserversAgree` |

The contract is that of `docs.go` itself where nothing panics, no client asks for a
probe and none sends an empty string; `DeviationsNamed`, the one hypothesis, says that
where they do, `Deviations` names it.

`HTypes` strengthens the type invariant by what a request owns at each stage.
For the contract, `Promise(r)` says of each stage what has been established: at
"bind" that the request is authentic, at "service" that it conforms too and that
nothing has been done, at "leave" that the response is one that `Allowed` permits
for what has been done; with `Flag` (readiness is the phase) every step is a step
of `ApiContract` or a stutter. For the observers, `Story(r)` says for each depth of
the chain what the request has left behind: on the way up, nothing inside Logger,
then its one line, then a closed span; after a panic, a span that was ended
unfinished, and no line but Recoverer's.

`Counters_proofs` proves `ReturnsAreCounted == HttpSpec => []ReturnedAreCounted` from the
same assumption. `CountInv` adds to the property that the requests counted so far are
finitely many, without which their cardinality says nothing: each step counts at most
one, so nothing needs to be assumed of `Requests`. A request is counted from the step
in which `Metrics` returns on (`PastMetrics`), that step adds one to one series, and
neither its method nor its pattern nor its status changes afterwards. A request that
panicked never gets there, so the counters are not the totals of their help text.

`Shutdown_proofs` carries the results on the service over to its process, for any
number of stops, restarts and failed starts. Every step of `Lifecycle` is a step of
`PlaybackService`, a call that was cancelled (`Cancelled`), the end of the process or a
restart (`ProcessSteps`), so only the last three are new:

| theorem | states |
|---|---|
| `ProcessTypes` | `LifecycleSpec => []TypeInv` |
| `StopKeepsAcknowledged` | `LifecycleSpec => []AckDurable` |
| `ProcessDeliversAtLeastOnce` | `LifecycleSpec => DeliversAtLeastOnce` |
| `StopFlushesHeartbeats` | `LifecycleSpec => []OrderlyStopSendsHeartbeats`, if `"kafka" \notin Faults` |
| `OnlyStopsLoseHeartbeats` | `LifecycleSpec => LossOnlyByStop`, if `Positions \subseteq Int4` and `"db" \notin Faults` |

The first three keep the invariants `TypeInv`, `DurableInv` and `CommitInv`: a
cancelled Publish leads to the fallback, a cancelled Upsert to a 500, and a handler
that was cancelled has returned. For the fourth, `Held` says that an acknowledged
heartbeat is in the table, in the topic or still in the Writer, and `SendInv` that the
Writer is empty once the producer's hook has returned: no request is in flight then
to fill it again, by `LifeInv`. A broker that refuses a message for good loses
one that an asynchronous Writer has acknowledged, hence the hypothesis. For the fifth,
`LagInv` says that, until the consumer is cancelled, everything fetched and not yet
committed is in the table, did not decode, or is in hand, and that the message in hand
is the last one fetched of its partition; the next process begins at the committed
offset, with nothing in hand.
The hypotheses are those of `CommittedHeartbeatsAreStored`, and the instances
of the runs satisfy them.

`Fresh_proofs` proves `ReadsAreFresh == FreshSpec => StaleOnlyInDoubt` from the
assumptions of the service alone: for all failures, any number of users, devices and
requests, and a Writer of either kind. `FreshInv` says why (`Settled`): for a user not
in doubt nobody reads the table. Such a user has an entry or no row, or a request just
about to cache what it has stored (`RowCached`), and every heartbeat is cached before it
is published (`PublishedCached`), so what the consumer writes, in whatever order,
belongs to somebody with an entry; a request that misses finds no row (`Missed`), answers
404 rightly, and starts no goroutine (`NoWarming`). What remains are the requests of the
user, one at a time, each with a later stamp than all that has been acknowledged
(`Newest`), so the entry is at least as recent as those (`Shown`). Each action keeps
this for a user it does not disturb (`UndisturbedSettled`), whatever it does to others,
and `RecoveredSettled` establishes it anew from `Base`, which holds of everybody. None
of the disturbances can be left out of `Disturbed`: `StaleWarm` begins with a dropped
entry, a lost update is an overlap, `Degraded` a failed Get. `FreshSpec` adds only the
history `doubt` to `Spec` (`FreshSpecIsSpec`).

Every invariant and every action property that a run checks is thus proved, some under the
hypotheses named. Only model-checked are the liveness properties
(`AckedIsStoredEventually`, `EveryRequestAnswered`, `StopReturns`), since TLAPS does not do fairness, and the violations.

## 5. Not modelled

* `kafka/event.go` is modelled by what it carries: an envelope stands for its
  payload, and only a message that somebody else wrote does not decode.
* The pools of `postgres.go` and `redis.go`: their limits, lifetimes and timeouts
  are inside pgx and go-redis; a call that waits for a connection is one that
  takes longer, and one that does not get it is one that fails.
* The batches of the span exporter, and trace headers in messages: nothing the
  service keeps or answers depends on them.
* The limits of the fasthttp server (timeouts, body size): requests that exceed
  them are answered by fasthttp before the chain is entered.
* `HealthCheck` of the consumer and `NewConflict`, which nothing calls.
* Text: log messages other than the two of the middlewares, wording of errors,
  summaries of the API documentation, the Swagger UI.
* Out of TLAPS' reach, hence only model-checked: liveness and `ENABLED`.
