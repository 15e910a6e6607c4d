# Verification of user-order-api

TLA+ models of `src/user-order-api`, checked with TLC, and theorems about all of
them proved with TLAPS: every invariant, every action property and every
refinement the runs check is a theorem for all values of the constants, under the
assumptions section 5 names. Paths below are relative to `src/user-order-api`.

## 1. The system

An HTTP API for users, sessions and orders over MySQL. A business write puts an
event into the table `outbox_events` in its own transaction. A `Publisher` in
each API instance polls that table and publishes to RabbitMQ; a `Consumer` in
each instance reads the audit queue and keeps `inbox_events` so that an event is
handled once.

| Component | State it keeps | Operations | Works with | Hard because | Correct if |
|---|---|---|---|---|---|
| Outbox (`internal/platform/outbox`) | `outbox_events`: status, attempts, available_at, locked_until, lock_token | `AppendTx`, `ClaimBatch`, `MarkPublished`, `MarkRetry`; `Publisher.Run`, `PublishOnce` | every business transaction; the broker; other instances through row locks | batches share one token, locks expire, cycles die half way | published only what the broker took; published and dead are final; everything settles |
| Audit consumer and inbox (`audit/consumer.go`, `outbox/repository.go`) | `inbox_events`, deliveries in progress | `process`, `ClaimInbox`, `MarkInboxProcessed`, `MarkInboxFailed` | broker, inbox | redelivery, duplicates, two TTLs, crashes between two stores | an event is handled, or dead-lettered for cause, and one handler at a time |
| Broker adapter (`messaging/rabbitmq.go`) | one connection, a confirm channel, a consume channel | `Publish`, `Consume`, `publishRetry`, `publishDead`, `Close`, `Ready` | shared by Publisher and Consumer | confirmations are matched by order only; a full Go channel blocks the connection | nil means confirmed; `Publish` returns; deliveries flow |
| Orders (`internal/order`) | `orders` | create with idempotency key, pay, cancel, list | outbox | concurrent requests, lost answers | one order per key; closed once; one event per change |
| Accounts and sessions (`internal/auth`) | `users`, `sessions` | register, login, refresh, logout, `RequireBearer`, `BootstrapAdmin` | outbox | check and write are apart; several processes bootstrap | tokens work once, logout is final, an account has one origin |
| Users (`internal/user`) | `users` | create, get, list | outbox, registration | its accounts have no password | a user and its event together |
| Lifecycle (`internal/app`, `cmd/api`) | workers, resources, deadlines | `main`, `NewMemory`, `NewProduction`, `Close`, `serveUntilCancelled` | everything | a start that fails half way; shutdown against what still runs | nothing is used before it is open or after it is closed; the process ends |
| Audit logger (`audit/audit.go`) | bounded queue | `Record`, `Close`, `run` | services | `Record` against `Close` | a record is logged or counted as dropped |
| Rate limiting (`security`) | counters in memory or Redis | `Increment`, `Middleware` | every request | stale clock, shared store, repeated scripts | few pass in a window; `Retry-After` is honest |
| Migrations (`database`) | the tables, `schema_migrations` | `ApplyMigrations` | every process that starts | no lock; a statement and its record are apart | who has come through finds its tables; a retry comes through |
| HTTP plumbing, observability, memory repositories | - | - | - | - | see section 8 |

`PROJECT.json` lists the hazards of this code line by line with the properties
that cover them.

## 2. The modules

| Module | Models | Composed of |
|---|---|---|
| `AtLeastOnce` | what the outbox promises: submit, accept, settle, give up | |
| `Outbox` | table, repository and Publisher cycles, any number of instances | implements `AtLeastOnce` |
| `OutboxProofs` | theorems about `Outbox` | extends `Outbox` |
| `AuditConsumer` | queues, inbox, `process` statement by statement, crashes, lost connections | |
| `AuditConsumerProofs` | theorems about `AuditConsumer` | extends `AuditConsumer` |
| `PublisherConfirms` | one process's confirm channel and the connection's reader | |
| `PublisherConfirmsProofs` | theorems about `PublisherConfirms` | extends `PublisherConfirms` |
| `Pipeline` | a write on its way into the audit trail, in the three deployments | instances of `Outbox` and `AuditConsumer` |
| `PipelineProofs` | theorems about `Pipeline` | extends `Pipeline`; instances of `OutboxProofs` and `AuditConsumerProofs` |
| `OrderLedger` | what the order service promises | |
| `Orders` | concurrent HTTP requests as MySQL transactions | implements `OrderLedger` |
| `OrdersProofs` | theorems about `Orders` | extends `Orders` |
| `Sessions` | registration, `POST /users`, login, refresh, logout, `RequireBearer`, `BootstrapAdmin` | |
| `SessionsProofs` | theorems about `Sessions` | extends `Sessions` |
| `FixedWindow` | what a rate limit promises | |
| `RateLimiter` | `Middleware` over the memory store or the script in Redis | implements `FixedWindow` |
| `RateLimiterProofs` | theorems about `RateLimiter` | extends `RateLimiter` |
| `AuditLogger` | `AsyncLogger` | |
| `Migrations` | `ApplyMigrations` in any number of processes | |
| `Lifecycle` | start and end of a process, again and again | extends `AuditLogger`, `Migrations` |
| `LifecycleProofs` | theorems about `Lifecycle` | extends `Lifecycle` |

### How state and actions correspond to the code

**Outbox.** `row[e]` is a row of `outbox_events`; `delay` and `lock` are the
ticks until `available_at` and `locked_until`. `worker[w]` is where `PublishOnce`
of instance `w` is, with its lock token and the rest of its batch. One action per
statement that changes state: `AppendTx`, `ClaimBatch`, `Publish`,
`MarkPublished`, `MarkRetry`. `MarkRetry` updates by token alone, as the SQL does,
and so reaches the whole rest of the batch. `Abandon` is a failed statement,
`Restart` a crash or a shutdown with its new connection, `Tick` is time.
What `Publish` may answer (`MayTell`) is what `RabbitBroker.Publish` may: it takes
the next confirmation of its channel for its own, which is true until a consumer
over the same connection has published a retry or a dead letter (`Republish`, by
the workers of the constant `Sharing`). From then on the worker is `outOfStep`, and
nil may be the answer for an event that the broker refused, which is then
`doubtful`. A claim is one step: `SELECT ... FOR UPDATE SKIP LOCKED` and the
`UPDATE` (`outbox/repository.go:76-113`) are in one transaction, and the row locks
that keep other claims from between them are taken from MySQL, not checked.
Attempts saturate at `MaxAttempts`, beyond which the code cannot tell them apart.
Tokens are a finite supply out of which a token is taken again once nothing
refers to it.

**AuditConsumer.** `msg[m]` is a message in one of RabbitMQ's queues, or
unacknowledged at a consumer. `process` is cut wherever another process can get
in between: claim, handler, `MarkInboxProcessed` or `MarkInboxFailed`,
republication, acknowledgement. The inbox operations are the three transactions
of the repository. A retry waits `RetryTTL` ticks in the retry queue. The broker
may refuse the copy that `publishRetry` or `publishDead` sends
(`RepublishIsRefused`, a fault of the budget): neither reads the confirmation, and
the original is acknowledged all the same. RabbitMQ itself is modelled from how
the code uses it.

**PublisherConfirms.** Frames in both directions, the Go channel `b.confirms`
with its capacity and `b.mu` (as `waiting`). `Publish` takes whichever
confirmation is next. One goroutine of the library reads all frames in order and
blocks on a full channel. `Cancel` is `workerCancel` at the shutdown, after which
the `Publish` in progress may return the error of its context and leave its
confirmation in the channel (`PublishAbandon`). The worker may have been just
before a `Publish` when the context was cancelled; no other follows, because the
statement after it fails on the same context and ends the cycle.

**Pipeline.** `Out` and `In` are the two modules over the same processes and the
same connection. `Publish` of the one puts a message into the queue of the other;
a retry or dead letter of the consumer, refused ones included, puts the channel of
the Publisher out of step (`Consume`); a crash takes both ends and their
connection. `deployment` is chosen at the start: `NewMemory`, `NewProduction`
without and with `RABBITMQ_URL`.

**Orders, Sessions.** A request is a small state machine; what its transaction
has written stays in its record and locks the row or the unique key until
`Commit` copies it to the tables. Every request may roll back at every step, and
a commit may happen without the client hearing of it. In `Orders` the outbox is a
function that counts the rows for each event.

In `Sessions`, `account[u]` is the row of `users` with that email address: none,
of a registration, of `BootstrapAdmin`, or of `POST /users`, which writes no
password hash. A process that starts takes a slot of `Requests`: `FindAdmin` is
the look-up, which fails on a hash that is NULL, and `CreateAdmin` the `INSERT`
without a transaction. The history `bootstrap` remembers how the last start came
through: it found an account, made one, or was overtaken by somebody who did
(`Ways`).

**RateLimiter.** One client address and one class of routes, since buckets do not
affect each other. Times are ages, so that nothing grows: `bucket[p]` is the
counter with the age of its window, `request[r].age` the time since the clock was
read, or since the script ran. In memory the reading of the clock and the mutex
are two steps (`Ask`, `IncrementInMemory`); with Redis the script runs at once on
Redis's clock and the reply comes later, is lost, or is lost and the script sent
again. `opened`, `granted` and `told` remember true time, grants and the shortest
`Retry-After` of a window; `Watch` starts an observer who counts what passes.

**AuditLogger, Migrations, Lifecycle.** `main` names the next step of the main
goroutine, from opening MySQL to the last deferred function. Each wait has the
outcome that its deadline passes, but for `CloseBroker`: the adapter's `Close` has
none, and waits for answers of the broker that come through the reader of the
connection. `jammed` says that this reader is blocked by confirmations that nobody
reads; a `Publish` may free it, as long as the worker runs. `stop` is the first of
the deferred functions, so that a second signal ends the process at once
(`SecondSignal`). `Record` and the logger's `Close` never overlap: `Close` comes
after the server has seen its last handler end. After `log.Fatal` nothing else
runs, and `Launch` starts the process again with nothing but the schema left. `migrator[i]`
is where `ApplyMigrations` of process `i` is: the versions are read once, then
each migration is one statement (`Apply`) and one row (`InsertVersion`), and
`CutOff` ends the process before either or after it. `applied` is what is in
force, `versions` what is recorded. Handlers may record: with `NewMemory` the
services do, with `NewProduction` they do not, and `NewWithDependencies` allows
either.

## 3. The runs

| Run | Module / cfg | Bounds | Shows |
|---|---|---|---|
| `outbox` | `MCOutbox_full.cfg` | 3 events, 2 workers, one of which shares its connection, batches of 2, 2 attempts, 1 disturbance | `PublishedWasAccepted`, `LockTokenNamesOneBatch`, `NoStrandedLock`, the inductive `IInv`, refinement of `AtLeastOnce`, everything settles |
| `outbox_dead` | `MCOutbox_dead.cfg` | 2 events, 1 worker | violation of `DeadWasTried` |
| `consumer` | `MCAuditConsumer_full.cfg` | 2 consumers, a good and a malformed event, 2 publications, 5 messages, 1 fault of 4 kinds, 2 late ticks | what a loss takes and leaves behind, dead letters, one handler, finality, settling |
| `consumer_crash` | `MCAuditConsumer_crash.cfg` | 1 event, 1 consumer, 1 crash | violation of `NoEventLost` |
| `consumer_connection` | `MCAuditConsumer_connection.cfg` | as above, 1 lost connection | violation of `ConsumptionResumes` |
| `confirms` | `MCPublisherConfirms_full.cfg` | 2 events, 3 deliveries, capacity 1 | how far confirmations fall behind, and that only retries, dead letters and the `Publish` abandoned at the shutdown put them behind; that `Publish` returns; when deliveries stop |
| `confirms_stale` | `MCPublisherConfirms_stale.cfg` | 1 event, 1 delivery | violation of `PublishedWasConfirmed` |
| `pipeline` | `MCPipeline_full.cfg` | 3 deployments, 2 writes, 1 process, 1 attempt, 1 crash, lost connection or refused copy, 1 disturbance of the outbox | nothing falls through between outbox, broker and inbox; what takes an unsent event for published; every write is audited |
| `orders` | `MCOrders.cfg` | 3 requests, 2 users, 1 key, 2 orders | keys name one order, answers stay true, refinement of `OrderLedger` |
| `sessions` | `MCSessions.cfg` | 3 requests or starts at once, 1 email address, 3 sessions | tokens work once, logout is final, events tell the story, one origin per account, what each way to come through a start leaves |
| `ratelimit` | `MCRateLimiter.cfg` | 2 processes, 2 requests, limit 2, window of 2 seconds of 3 ticks, delays of 2 ticks, 1 script sent again, 1 restart or set clock | how many pass while an observer watches, what `Retry-After` is worth, refinement of `FixedWindow` |
| `lifecycle` | `MCLifecycle.cfg` | 2 processes of 2 releases (2 and 3 migrations), 2 faults; 2 requests, both workers, queue of 1, 3 records | what is open, migrated and recorded while somebody needs it; that the process ends, but for one wait, and starts |

### Why these bounds are enough

The theorems of section 5 remove the bounds for everything but liveness. What the
runs add is that the interesting cases can happen, and they found what could be
proved.

- *outbox*: three events and batches of two give a full batch and a rest, and a
  batch with an item behind the one that fails; two workers and one disturbance
  give a takeover of an expired lock while its first owner is still at work. One
  worker shares its connection with a consumer and one does not, so that one has
  doubtful confirmations and the other none.
- *consumer*: two publications of one event reach two consumers at once; the
  malformed event takes the path past the inbox. Two late ticks let a lock of
  two ticks run out under its owner. One fault suffices for every loss found;
  `RetryTTL + 1` retries is the largest number for which a retry never comes
  back before the lock of the failure is over (six in the code).
- *confirms*: capacity 1 is the code's; three deliveries give one more retry
  than fits in the channel; two events are one before the shutdown and one that is
  abandoned.
- *pipeline*: each end has a run of its own; here there is one process, so that
  a crash takes both ends at once, and two events, the least for the failure of one
  to hide the refusal of the other. A blocked reader is not in `Pipeline` but in
  `confirms` and `lifecycle`.
- *orders*: a creation, its repetition and a third request that races either.
- *sessions*: login, a refresh and a racing refresh or logout; three sessions are
  two generations of successors. Three slots are a registration, `POST /users`
  and a start for one address, or two starts and a registration. One address is
  enough: two share no row and no lock.
- *ratelimit*: one request delayed behind another that opens the window; a limit
  of two tells the first request of a window from the last one allowed; a second
  of three ticks lets `TTL` round up and down. The delay is below the window, a
  minute in the code.
- *lifecycle*: one request holds the slot of the queue while the other is
  refused. The peer of the later release migrates before, with and after the
  process; two faults are one that leaves a migration half done and one more.

States found: 632 360 in `outbox`, 425 863 in `consumer`, 120 712 in `confirms`,
422 880 in `pipeline`, 405 945 in `lifecycle`, 3 869 852 in `sessions`.

There is one type invariant per module: in `outbox` it is a part of `IInv`, and
`Pipeline` has the types of its parts. Deadlock is checked in `orders`,
`sessions`, `ratelimit` and `lifecycle`; the other systems may really stop: the
bounded supply of events is settled or the consumers are off line.

## 4. Fairness

- `Outbox`: a Publisher polls at every tick of its ticker and a cycle goes on to
  its end, so weak fairness of each of its steps, and of time. Outcomes of the
  broker are not fair: it may refuse for ever, and the event turns dead. Crashes
  and writes are never obliged.
- `AuditConsumer`: RabbitMQ delivers what is ready to somebody with room in the
  prefetch window, a consumer works off its channel, time passes. A consumer
  whose connection is gone takes no step, which is what the code does.
- `PublisherConfirms`: the broker, the reader of the connection and the
  goroutines of the process go on.
- `Pipeline`: those of its parts, as long as RabbitMQ is configured; the reader of
  the connection is taken to go on.
- `Lifecycle`: the main goroutine alone. No handler and no worker has to end, and a
  blocked reader need not go on, so `SignalEndsProcess` rests on the deadlines,
  which all waits of `main` have but the one for the broker; there the property
  ends. A process
  that has ended is started again (`Launch`), as an orchestrator does; without
  that, `StartsUnlessHalfDone` would say nothing about retries. A peer goes on
  with its migrations.
- `Orders`, `Sessions` and `RateLimiter` make no liveness claim.

## 5. What is proved

Each proof module has the three facts `Init => IInv`, `IInv /\ [Next]_vars =>
IInv'` and `IInv => Inv` for an `IInv` that is a conjunction of named parts, each
with a comment that says why it is there. A step is shown to keep `IInv` action by
action, over lemmas that say what an action does to the records it touches. No
fact is assumed beside the named assumptions on the constants, which TLC evaluates
in every run of the module.

### The outbox

`OutboxProofs` proves, for every number of events, workers, tokens, attempts and
disturbances and every batch size:

| Theorem | States |
|---|---|
| `InductiveInvariant` | `Spec => []IInv` |
| `TypeCorrect` | `Spec => []TypeOK` |
| `PublishedEventsWereAccepted` | `Spec => []PublishedWasAccepted` |
| `TokensNameOneBatch` | `Spec => []LockTokenNamesOneBatch` |
| `NoLockIsStranded` | `Spec => []NoStrandedLock` |
| `OutboxKeepsPromise` | `Spec => ImplementsAtLeastOnce` |

Assumptions: the constants' own (`EventsAssumption`, `SharingAssumption`,
`TokensAssumption`, `LimitsAssumption`) and `BackoffAssumption`, that the powers
of the backoff are natural numbers. It is weaker than `BackoffBase \in Nat`, from
which the available provers do not derive it, as exponentiation is recursive. TLC
evaluates all five.

The argument. None of the three safety invariants is inductive. Publishing and
marking are two steps, so `ConfirmedWasAccepted` carries what `Publish` told of an
event, true or doubtful, from the one to the other. A token on a row speaks of a
batch only if rows have tokens exactly while they are publishing
(`LockedWhilePublishing`) and a batch names each event once (`BatchesWellFormed`).
`NoStrandedLock` needs that no lock has expired and that workers still own all
they claimed, until something is disturbed (`LocksHoldUndisturbed`). Their
conjunction with `TypeOK` is `IInv`; each part is preserved by a lemma with one
step per action, over lemmas that say what an action does to a row and a cycle
(`ClaimEffect`, `MarkRetryEffect`, ...).

The refinement maps `pending` and `publishing` to `queued`. `AppendTx` is
`Submit`, `Publish` is `Accept`, `Doubt` or a stutter, `MarkPublished` is `Settle`
(here `ConfirmedWasAccepted` is needed), `MarkRetry` is `GiveUp` of all rows it
reaches or a stutter; all else stutters.

What is published was accepted or is doubtful, and no more can be said: that
`RabbitBroker` confirms what was refused once a retry has gone over its channel is
what `confirms_stale` shows. `BehindByUnawaited` says that before that it does not,
and `UnsentTakesAnothersFailure` what it takes from end to end.

### The audit consumer

`AuditConsumerProofs` proves, for every number of events, consumers and
publications, every retry limit, lock and TTL and every budget of faults:

| Theorem | States |
|---|---|
| `TypeCorrect` | `Spec => []TypeOK` |
| `DeadLettersAreEarned` | `Spec => []DeadLetterIsEarned` |
| `OneHandler` | `Spec => []OneHandlerAtATime` |
| `HandledOnce` | `Spec => []HandledTwiceTakesAFault` |
| `ProcessedStays` | `Spec => ProcessedIsFinal` |
| `SparedIsNotLost` | an event is handled or in the broker, as long as there was no fault and no retry that may come back too early |
| `LossNeedsAFault` | `Spec => []LossTakesAFault`, if `MaxRetries <= RetryTTL + 1` |

Assumptions: `ConsumerAssumption` (there are events, so that a free slot of the
broker has one to name) and `NobodyAssumption`, that no consumer is called
`Nobody`. `LossNeedsAFault` has a hypothesis of its own, that a retry never comes
back before the lock of its failure is over. The code's default keeps it (5
against 5 s of TTL); without it the theorem is false (section 7). `SparedIsNotLost`
has no hypothesis: it speaks, for larger limits, of the events whose handler has
not failed. A fault is a crash, a failing statement, a lost connection or a copy
that the broker refuses: the original of such a copy is acknowledged, so that a
nack is enough to lose an event.

The argument. What a connected consumer has in its hands is what the broker holds
for it (`DeliveriesAreHeld`), so an acknowledgement frees the message of its own
delivery. While no handler was late a delivery inside the handler owns the inbox
row (`HandlersHoldTheLock`); this gives one handler at a time and, as nobody else
can write the row, that `processed` is final. `FailuresAreCounted` ties the
attempt a message carries to the failures of its event, and so what `burying` may
bury. That nothing is lost is `CopySurvives`: of an event that was not handled
some message is in the broker that nobody is about to acknowledge. It is not
inductive alone, because a copy that meets a locked row is acknowledged unhandled:
`LockIsGuarded` says that such a lock is there for a delivery in progress, or for a
copy in the retry queue that will come back when it is over.

### The broker adapter

`PublisherConfirmsProofs` proves, for any events, any capacity of the Go channel
and any number of deliveries:

| Theorem | States |
|---|---|
| `TypeCorrect` | `Spec => []TypeOK` |
| `BehindByEachUnawaited` | `Spec => []BehindByUnawaited` |

`ConfirmsAssumption` says, beside the numbers, that no event is the value for
"not waiting" or the value for a retry.

`BooksAreKept` counts: the confirmations that are due, wherever they are (in a
message the broker has not handled, among the frames, in the Go channel), are as
many as the retries and dead letters, the `Publish` that was abandoned and the one
in progress, and no more than that once the connection is gone. Therefore, before
the first retry, everything on its way belongs to the event `Publish` waits for
(`InStep`), and an ack among it means that the broker has this event. An abandoned
`Publish` does not break this, since it is the last one (`AbandonedIsLast`). The
confirmations among the frames are counted as the cardinality of their positions,
about which facts can be proved.

### The composition

`PipelineProofs` proves, for any number of writes and processes and all three
deployments:

| Theorem | States |
|---|---|
| `NothingFallsThrough` | `Spec => []PublishedIsInGoodHands`, if `MaxRetries <= RetryTTL + 1` |
| `UnsentNeedsAnothersFailure` | `Spec => []UnsentTakesAnothersFailure` |

`OutboxAssumption` and `InboxAssumption` repeat what the two ends assume of their
constants. The proofs of the ends are used through instances (`OutP`, `InP`): each
step of the composition is a step of an end or leaves it alone, so the lemmas that
a step keeps an end's invariant apply, to all of both invariants. Two parts reach
from end to end: what the broker accepted is what was put into the queue
(`AcceptedWasSent`), and a channel is out of step, or an event doubtful, only after
a handler has failed (`DoubtTakesAFailure`). An event that was not sent has not
failed (`FailuresWereSent`), so that the failure was another's.

### Orders

`OrdersProofs` proves, for any number of users, keys, amounts, orders and requests
in progress:

| Theorem | States |
|---|---|
| `TypeCorrect` | `Spec => []TypeOK` |
| `OneOrderForAKey` | `Spec => []KeyNamesOneOrder` |
| `AnswersHold` | `Spec => []AnswersStand` |
| `OrdersImplementLedger` | `Spec => ImplementsLedger` |

`OrdersAssumption`: the administrator is no user, the absent key no key, and there
are users and amounts (a row that does not exist has one of each).

`KeyNamesOneOrder` is not inductive: it takes that a transaction, when it commits,
still finds what it found when it wrote. This is `WritesStand` (its id and its key
are of no order; the order it closes is pending), and it is kept because no two
open transactions hold the same row or key (`LocksExclude`). `EventsMatch`, that the
events of an order are those of its status, turns each commit into the one step of
`OrderLedger` it should be; all else stutters.

### Accounts and sessions

`SessionsProofs` proves, for any number of addresses, sessions and requests or
starts in progress:

| Theorem | States |
|---|---|
| `TypeCorrect` | `Spec => []TypeOK` |
| `TokensRotate` | `Spec => []RefreshTokenWorksOnce` |
| `LogoutsLast` | `Spec => []LogoutIsFinal` |
| `EventsAreTrue` | `Spec => []EventsTellTheStory` |
| `OneOrigin` | `Spec => []AccountHasOneOrigin` |
| `StartsLeaveAccounts` | `Spec => []StartLeavesAnAccount` |

`SessionsAssumption`: sessions are numbered, and there are sessions and users.

The locks again (`LocksExclude`, `WritesStand`): a refresh or a logout that is about
to commit has found its session in force and nobody else can end it. The sessions
of a login form a chain: predecessor and first session are of the same login
(`ChainsAreClosed`), what has a successor is revoked and has one only
(`ChainsDoNotFork`), and one at most is in force (`OneInForce`). Hence a logout, which
ends the one in force, ends the login, and no commit brings it back
(`LogoutsStand`). `BeginningsMatch`, `EndsMatch` and `OriginsMatch` say which events
the tables imply; `EventsTellTheStory` and `AccountHasOneOrigin` count them.

### The process and its schema

`LifecycleProofs` proves, for every number of instances, migrations per release,
faults, requests, workers and records and every length of the queue:

| Theorem | States |
|---|---|
| `LifecycleInvariant` | `Spec => []IInv` |
| `SchemaStaysWhole` | `Spec => []SchemaIsWhole` |
| `ResourcesOutlive` | `Spec => []ResourcesOutliveTheirUsers` |
| `NothingIsLost` | `Spec => []NothingRecordedIsLost` |
| `TypeCorrect` | `Spec => []TypeOK` |

Assumptions: `MigrationsAssumption`, `QueueAssumption` and `LifecycleAssumption`.

`IInv` is the schema's part and the process's part. Of the schema: migrations are
applied and recorded in order (`InOrder`), a process has left to do all it knows
but what is recorded (`WorkIsLeft`), and what was executed is recorded or about to
be, or there was a fault (`RecordFollows`). `SchemaIsWhole` is not inductive
without `WorkIsLeft`: only because the versions a process read stay recorded is
the least of what it has left the next one, so that a row is never written before
those in front of it. Of the process: `MainMigrates`, `OpenByStage`,
`RunningByStage` and `LoggerByStage` say for each stage of `main` how far the
migrations are, what is open, who may still run, and that a closed logger has
nobody on the way into its queue. `NothingIsLost` adds the books of the logger
(`Books`): every record is on its way into the queue, in it, being written,
written or dropped. The books give the types of the logger's counters as well;
those of the schema need `OnlyKnown`, that nobody executes or has left to do what
no release knows.

### The rate limiter

`RateLimiterProofs` proves, for every number of processes and requests, every
limit, window and delay below it and every number of faults
(`RateLimiterAssumption`):

| Theorem | States |
|---|---|
| `CountersImplementFixedWindow` | `Spec => ImplementsFixedWindow` |
| `TypeCorrect` | `Spec => []TypeOK` |
| `RetryAfterHolds` | `Spec => []RetryAfterIsHonest` |
| `BurstsAreBounded` | `Spec => []BurstIsBounded` |

The refinement: a bucket counts at least what it grants (`GrantsAreCounted`); and the
age of a window by the reading of whoever opened it is ahead of the true one by
`MaxDelay` at most (`AgeIsAlmostTrue`), so that one that is over by any reading has
been open for `Window - MaxDelay`.

`Retry-After`: as long as a client waits, the window that refused it is open and
ends no later than the wait does, up to the rounding of `TTL` (`PromisesHold`). A
request that reads an older clock, or a clock that is set, moves the window's age;
`Ranges` bounds how far.

Bursts: what passes while one watches was granted by the present window, by the
one before it, or by one that a fault cut short. In memory a request passes with
its grant (`MemoryCounts`). With Redis a grant may pass `MaxDelay` later, so that
`RedisCounts` counts the grants on their way (`Pending`) with what has passed, and
tells whether the window before the present one was over when the observer
started. The set of pending requests is finite although `Requests` need not be,
because requests join it one at a time.

## 6. What is only model-checked

Liveness, within the bounds above: `EverySubmittedEventSettles`,
`EveryEventSettles`, `PublishReturns`, `DeliveriesFlow`, `EveryWriteIsAudited`,
`SignalEndsProcess` and `StartsUnlessHalfDone`. Fairness is about when an action is
enabled, and the installed provers handle neither `ENABLED` nor what would have to
be built on it. The disagreements of section 7 are counterexamples of TLC, and need
no proof.

No module that is proved about has a `RECURSIVE` operator, and no theorem needs
induction over data: of the power in the backoff `BackoffAssumption` states what is
needed, and the selection of frames in `DeliveriesFlow` is used in that liveness
property alone.

## 7. Disagreements between code and documents

Each is a run that TLC refutes; `PROJECT.json` quotes the lines.

1. `outbox_dead`: `MarkRetry` applies one item's outcome to the rest of its
   batch, so events turn `dead` that were never handed to the broker.
2. `consumer_crash`: after a crash the redelivered message finds the inbox row
   locked and is acknowledged; the event is lost.
3. `consumer_connection`: nothing connects again after the connection is lost.
4. `confirms_stale`: `Publish` takes the confirmation of a retry for its own.

Observed as well, without a run of their own:

- Without `RABBITMQ_URL` no audit record is made at all. `README.md` says that the
  local `AsyncLogger` is kept in this case; `NewProduction` gives every repository
  the outbox (`internal/app/composition.go:46`), the services then leave the
  record to it, and nobody publishes from the table. This holds in every behaviour
  of that deployment, so there is no interleaving to find.
- A migration that was executed and not recorded (`HalfDone`) stops every later
  start of every instance until somebody repairs `schema_migrations`:
  `StartsUnlessHalfDone` says that nothing else does.
- `SHUTDOWN_TIMEOUT` (`README.md:104`) is the time a graceful shutdown takes. The
  broker's `Close` (`internal/app/application.go:133`) has no deadline and waits for
  answers that come through the reader of the connection; blocked by two unread
  confirmations of retries, that never answers, and only another signal ends the
  process. `SignalEndsProcess` excuses this wait and no other; without the excuse
  TLC finds the process waiting for ever.
- A retry or a dead letter that the broker refuses is lost with its original, which
  is acknowledged without the confirmation (`messaging/rabbitmq.go:210`).
- `BootstrapAdmin` succeeds when somebody has registered its address, before it
  looked or between the look and the `INSERT` (`internal/auth/service.go:207-220`):
  the account is then not an administrator's, and after `POST /users` nobody can
  log in to it. `StartLeavesAnAccount` says which of the three each start leaves.
- A signal before `main` listens for it, which is after the workers were started,
  ends the process with nothing closed (`cmd/api/main.go:110`).
- With `CONSUMER_MAX_RETRIES` above six a retry comes back from the retry queue
  (5 s) while the inbox row is locked for as many seconds as the attempt has in
  its number, and is acknowledged unhandled (`audit/consumer.go:75`,
  `messaging/rabbitmq.go:120`). `LossTakesAFault` fails in `AuditConsumer` when
  `MaxRetries` is raised to `RetryTTL + 2`.

## 8. What is not modelled

- Memory repositories: each operation is atomic under a mutex.
- HTTP plumbing (`httpx`, `page`, `cors`, routing, `routeClass`, `clientIP`) and the
  parsing of the configuration: functions of a request or of the environment that
  keep no state. Observability: counters and traces that nothing reads back.
- The growth of the memory store of the rate limiter, whose buckets are never
  deleted: the behaviour of a bucket does not depend on the others.
- Encoding of JWTs, bcrypt, cookies, JSON, paging, CORS, metrics, tracing: data
  that no property tells apart, or output that nothing reads back.
- MySQL and RabbitMQ themselves: transactions are atomic at commit (so that a row
  of an open transaction is seen by nobody, and a claim is one step), row locks and
  unique indexes make others wait, published messages are persistent. Lock-wait
  timeouts and deadlocks of MySQL are rollbacks.

## 9. Plan

Done, in this order: outbox with its promise and proofs; audit consumer; orders;
sessions; broker confirmations; composition; shutdown; rate limiter with its
promise and the proof of it; bootstrap and `POST /users`; migrations and start-up,
with the proofs of the process; proofs of orders, sessions, the audit consumer,
confirmations and the composition; bursts and `Retry-After` of the rate limiter.

To do:

1. A promise for the audit trail as a whole, of which `Pipeline` is shown to be an
   implementation as `Outbox` is of `AtLeastOnce`: audited at most once without
   faults, and only what was committed.
2. `MayTell` and `outOfStep` of `Outbox` derived from `PublisherConfirms` by a
   refinement, where they are now read off the same code twice.
3. The step lemmas of the proof modules that differ only in names, brought to a
   common form.
