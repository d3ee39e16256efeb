# A TLA+ model of CodeNautic

CodeNautic reviews merge requests. Its packages are `core` (domain and use
cases), `adapters` (git, LLM, messaging, workers, database, ...), `runtime`
(configuration and plans only at this commit) and `ui`. This directory holds
TLA+ modules for the parts of it in which the order of events matters, the TLC
configurations that check them on small instances, and proofs that TLAPS
checks for instances of any size.

Paths below are relative to `src/packages/`.

## 1. Inventory

| Component | State it keeps | Operations | What makes it hard | What makes it correct |
|---|---|---|---|---|
| Review pipeline orchestrator, `core/src/application/use-cases/review/pipeline-orchestrator.use-case.ts` | a `ReviewPipelineState` per execution; checkpoints in a store; events on a bus | `execute`: validate, pin the version, resolve the start, run the stages | crashes, failing stages, rejected or half-done side effects, resumes, an operator's `startFromStageId` | resumes where it stopped; one version per run; results, events and checkpoints agree |
| Outbox relay, `adapters/src/messaging/outbox-relay-service.impl.ts`, `core/src/application/services/messaging/outbox-relay.service.ts` | copies of a batch; documents in Mongo | `relay`; repository `save`, `markSent`, `markFailed`, `findPending` | relays interleave in read-modify-write; lost replies; crashes; messages that cannot be published | what is recorded as sent or given up is so; at-least-once; duplicates only when a disturbance explains them |
| Inbox deduplication, `adapters/src/messaging/inbox-deduplication.impl.ts`, `core/src/application/services/messaging/inbox-deduplication.service.ts` | records in Mongo | `process`, `isDuplicate` | concurrent deliveries of one message, lost calls | a message is new once; none is dropped |
| Review stages, `core/src/application/use-cases/review/*-stage.use-case.ts` | the data part of the pipeline state; comments and checks at the provider | `execute` of each | external effects repeated by a retry | a retry repeats an external effect only when a disturbance explains it; decision and conclusion agree with the comments |
| Review gate, `throttle-review.use-case.ts`, `manage-review-cadence.use-case.ts` | one cache entry per repository | `execute` | concurrent read and write of the entry | no more reviews in a window than allowed |
| Task lifecycle, `core/src/domain/entities/task.entity.ts` and `use-cases/task/` | a task document | start, progress, complete, fail | concurrent load and save | a final status stays |
| Aggregates, `core/src/domain/aggregates/` | reviews, rules, organizations, their events | domain operations | long legal call sequences | life cycle and invariants of each |
| Redis connections, `adapters/src/worker/redis-connection-manager.impl.ts` | pool, status, connect promise | connect, disconnect, healthCheck | await points of the three interleave | status agrees with the pool; no connection leaks |
| Worker runtime, queue and DLQ, `adapters/src/worker/` | BullMQ jobs, processors | start, stop, process, enqueue, dequeue, retry | retries of work already done, shutdown, partial dequeue | no job is lost |
| Git resilience, `adapters/src/git/git-rate-limiter.ts`, `git-retry-wrapper.ts`, `git-provider-health-monitor.ts` | per-organization window, block and queue; circuit state | execute, probe | time, queueing, results of calls begun in another circuit state | quota per window; every call gets its turn |
| UI client, `ui/src/lib/` | retry loop, event source, session | request, reconnect, refresh | timers against unmounting and late events | bounded retries; one live source |
| Pure algorithms: dependency graph, configuration merger, rule status policy | none | functions | boundaries | agree with a reference definition |
| LLM, AST, notifications, context, vector adapters, analytics | none shared | I/O and data transformation | - | not modelled |

How they interact: a producer saves an outbox message, a relay publishes it
through `IMessageBroker`, a consumer asks the inbox whether it is new. The
pipeline orchestrator drives the stages through `IPipelineStageUseCase`, stores
checkpoints through `IPipelineCheckpointStore`, publishes domain events on
`IDomainEventBus`, and is called again by whoever retries a run. Workers take
jobs from BullMQ over the Redis connections; stages call the git providers
through the rate limiter, the retry wrapper and the circuit breaker.

`PROJECT.json` lists the components with their status, and every hazard with
the line where it bites.

## 2. Modules

| Module | What it is |
|---|---|
| `ReviewPipeline` | the orchestrator, one run |
| `RunProgress` | what a run promises to an observer; `ReviewPipeline` implements it |
| `MCReviewPipeline` | instance: three stages, three definition versions |
| `ReviewPipelineProofs` | theorems about `ReviewPipeline`: types, versions, resumes, completion |
| `ReviewPipelineResultsProofs` | theorems about its events and results, and that it implements `RunProgress` |
| `Outbox` | the relays, the repository and the entity |
| `Delivery` | at-least-once delivery; one relay of `Outbox` implements it |
| `MCOutbox` | instances with one and two relays |
| `OutboxProofs` | theorems about `Outbox` |
| `Inbox` | both deduplication implementations |
| `MCInbox` | instance: three deliveries of one message, two of another |
| `InboxProofs` | theorems about `Inbox` |
| `GitRateLimiter` | the rate limiter, for one organization |
| `GitCalls` | calls through health monitor, retry wrapper and limiter; extends `GitRateLimiter` |
| `MCGitCalls` | instance: three calls, a quota of one request in three units of time |
| `GitCallsProofs` | theorems about both |
| `RedisConnections` | the connection manager, its calls overlapping |
| `MCRedisConnections` | instance: a pool of two |
| `RedisConnectionsProofs` | theorems about `RedisConnections` |
| `ReviewStages` | the stages that post at the git provider, one run |
| `MCReviewStages` | instance: two suggestions, one category of comments on the whole change |
| `ReviewStagesProofs` | theorems about `ReviewStages` |
| `ReviewGate` | throttle and cadence, for one repository |
| `MCReviewGate` | instance: four calls, windows of two seconds |
| `ReviewGateProofs` | theorems about `ReviewGate` |

Every mapped definition and the lines it stands for are in `PROJECT.json`.
An operator preceded by a comment "Mutant" is a wrong version of the definition
that follows. It is used by no run of the model; put in the place of that
definition it makes a property fail, which shows that the property depends on
the code there.

### ReviewPipeline

The variable `pc` names the await an execution stands at, so an action is the
code from one await to the next. `Execute` is `executeInternal` up to the first
await: `ValidDefinition` is `validateDefinition`, `CanPin` is
`pinDefinitionVersion`, `StartIndex` and `ImplicitStart` are
`resolveStartIndex` and `resolveImplicitStartIndex` (0 stands for their
failures, which `Reject` takes). A stage goes through `SaveStartedCheckpoint`,
`PublishStageStarted`, then `StageSucceeds` or `StageFails`; success through
`SaveCompletedCheckpoint`, `PublishStageCompleted`, `LogStageCompleted`;
failure through `SaveFailedCheckpoint`, `PublishStageFailed`,
`PublishPipelineFailed`, `LogStageFailed`; the end through
`PublishPipelineCompleted` and `LogPipelineCompleted`. `executeSideEffect`
turns a rejection into `Result.fail` at once, so every side effect has three
outcomes: done (`Then`), done and rejected all the same (a lost reply, the
second disjunct of `Then`), not done (`SideEffectFails`). `Crash` may happen at
every await and forgets what only the process knew.

The caller of `execute` is not in the repository yet; the retry handler is
planned in `runtime/todo/m17-full-ui-production.md` (REVW-015). `Inputs` gives
the states a caller can have: a new one before there is a checkpoint, one built
from the latest checkpoint (`Restored`, which has the attempt of that stage
only, because the checkpoint has no more), or the context of a failed result.
A new run under the same runId after the first checkpoint is not an input.

Left out: stage data (merge request, files, suggestions), durations, log texts,
event payloads other than type, stage, attempt and the terminal flag. A stage
returns the progress it was given. `executeOneStage` also refuses a stage
without a use case, which `validateDefinition` has refused before; stage ids are
compared as they are, as `normalizeStageIdentifier` trims them in errors and log
entries only.

### Outbox

Each relay has its own copies (`batch`, `current`), as
`OutboxRelayServiceImpl.relay` fetches entities once and works on them. A
repository operation that reads and writes is two actions (`MarkSentRead`,
`MarkSentWrite`; `MarkFailedRead`, `MarkFailedWrite`), so another relay can act
in between. `save` writes the relay's copy and gives the document a new
`createdAt`, as `toOutboxDocument` does without its third argument: the message
goes to the end of the insertion order. `Loads` is the entity's constructor,
which rejects a sent message with retries (`ensureStateIsValid`): a message
published at the second attempt is stored as such by `markSent`, and every later
read of it throws. `EnvelopeInTry = FALSE` and `MaxAttempts = 1` give the relay
of `core`. `core` also skips a message whose copy is not pending, which
`findPending` never returns.

`MaxRetries` is a field of each message and may be 0 (`normalizeMaxRetries`):
such a message is given up after its first failed attempt. A new message has no
failed attempts. No producer under `src/` makes one with other counts; only
`MongoOutboxRepository` constructs messages, from what it has stored.

Left out: payloads (only whether the envelope can be made, `Poison`), result
counters, the length of the backoff, `findById`. `createdAt` is a logical
clock: two documents never have the same instant.

### Inbox

A delivery is one call of `process`: `Find`, then `Save` (a new record, answer
"first"), `MarkProcessed` (only `core`, when the record is not processed yet) or
no further step. `FixedKeys` says which consumers use
`InboxDeduplicationImpl`, whose record ids are made from the key; the others
use the service of `core`, with random ids. Both work on one repository.
`Ingest` stands for
another user of the repository that records a message before it is processed;
the entity and the tests of `core` allow for it. `Keys` are what
`composeDeduplicationKey` makes of message and consumer.

### GitRateLimiter and GitCalls

`Enter` and `Leave` are the two halves of `runInOrganizationQueue`: `behind` is
the promise a call awaits, `tail` the entry of `ORGANIZATION_QUEUES`.
`AwaitBlock`, `AwaitWindow` and `TakeSlot` are the three ways through the loop
of `acquireQuota`, with `normalizeStateWindow` (`WindowAge`, `WindowCount`) as
part of each; `Throttled` is the catch block of `executeWithRateLimit`. Between
`TakeSlot` and the next step the call awaits the provider. Time is relative:
`age` is the age of the window, `blocked`, `sleep` and `openFor` what is left
until a deadline, and `Tick` lets one unit pass. The code compares nothing but
such differences. `recent` is a history, for the quota: how many requests were
begun within the last `a + 1` units of time, for every `a` up to a window.

`GitCalls` puts a call through the wrappers as `resolveGitProvider` stacks
them. `Start` and `TurnedAway` are `beforeOperation`, and `runHealthCheck` for
a probe; `AnswerThrottled` stays inside the limiter, `AnswerRetryable` leaves
it for the backoff of the retry wrapper, `AnswerFinal` leaves it for
`writeDlqEntry`; `RecordSuccess` and `RecordFailure` are the monitor's. What
`normalizeGitAclError` tells apart is which of the answers it is.

Left out: events and reports, the timer that starts health checks (a call may
begin at any time), organizations other than one (they share nothing),
limiters of different tiers for the same organization, an observer
(`onStatusChange`) that throws out of `recordSuccess` or `recordFailure`, and a
tier that `resolveTierLimit` does not know.

### RedisConnections

An action is the code between two awaits of `connect`, `disconnect` or
`healthCheck`. `phase` is where the one initialization stands that
`connectPromise` allows; every disconnect and every health check has its own
local list (`todo`, `left`). Connections are numbers in the order the factory
makes them. Each request to redis succeeds or fails. `replaced` is a history:
the connections of a pool that another was put in place of.

Left out: `lastFailure`, the length of the backoff, the reconnect strategy
inside the redis client, what `healthCheck` returns when there is no pool (it
writes nothing).

### ReviewStages

One run of the stages that post at the provider, decide, or make what those
depend on, in the order of the pipeline. `data` is the part of
`ReviewPipelineState` they read and write. A stage is a step
(`Succeed`, `Fail`) or a loop of steps (`PostEach`); a post whose reply is lost
fails the stage after it has taken effect. `FinalizeCheck` goes through
`updateCheckRunWithRetry` one update at a time. The orchestrator is reduced to
what it does to `data`: a failed stage gives the input state back and the
caller executes it again (`Retry`); anything else that ends the execution
leaves the checkpoint, which holds position and attempt and no data (`Lose`).

Assumed: a caller that resumes passes `mergeRequest` and `config` again, and the
defaults of `ReviewPipelineState.create` for the rest, as nothing stores it. The
failure of the posting stages for a missing merge request id is therefore no
step of the model. The order of the comments of one loop is left open. The
settings that name the blocking severities may change between two executions.
Left out: the stages that validate, gate, resolve configuration, expert rules or
context and store statistics, the texts that are posted, and how suggestions are
filtered (any subset within the budget).

### ReviewGate

A throttle call is `Ask` (the clock is read and the cache asked), `Decide` (the
entry arrives), `Admit` (the entry is written); a cadence call in auto-pause
mode is `Load` and `Save`. The clock advances between any two of them. An entry
expires with its ttl. A cache call fails (`CacheFails`) or takes effect without
an answer (second disjunct of `Admit` and `Save`). The histories `admitted` and
`allowed` count reviews by window, `begun` and `answered` suggestions since the
last resume; `punctual` and `inTurn` say that calls did not overlap.

Left out: automatic and manual cadence (no state), changes of the project's
limits, and entries another program has written: `advanceWindowState` replaces
one with negative numbers, which no call writes.

## 3. Runs

| Run | Instance | Shows |
|---|---|---|
| `pipeline_safety` | 3 stages, 3 versions (one with an unknown stage), 2 stages an operator may name, 3 disturbances; about 92,000 states | type invariant, exact resume, true trace, earned completion, fresh attempts, durable events, announced failures, pinned version |
| `pipeline_progress` | the same without named starts, 2 disturbances, fair; about 6,500 states | every stage completes; the orchestrator implements `RunProgress` |
| `pipeline_lost` | 1 disturbance, fair; a violation | a complete run may never be announced |
| `outbox_relays` | 2 messages (one poisoned), 2 relays, batches of 2, 2 attempts a run, 2 retries, 2 disturbances; about 218,000 states | sent was published, failed was tried |
| `outbox_delivery` | 3 messages (one poisoned), 1 relay, batches of 2, 2 attempts a run, 3, 3 and 0 retries, 2 disturbances, fair; about 33,000 states | types; duplicates are earned; one relay implements `Delivery` |
| `outbox_blocked` | `core`'s relay, 2 messages, no disturbance, fair; a violation | a poisoned message blocks those behind it |
| `inbox` | 3 + 2 deliveries, one consumer with fixed and one with random ids, 2 disturbances; 178,656 states | types; one record per message with fixed ids; new once to deliveries in turn; nothing is dropped without a cause |
| `inbox_race` | fixed ids; a violation | concurrent deliveries are both told that the message is new |
| `git_calls` | 3 calls, quota 1 in 3 units of time, 1 retry after a 429, 2 attempts, 2 failures open the circuit for 2 units, fair; 225,116 states | calls go in turn; quota kept; requests bounded; the circuit agrees with the failures and closes early only for a cause; every call returns |
| `redis_connections` | pool of 2, 2 attempts, 2 disconnects and 1 health check made again and again, 6 connections, fair; 83,591 states | types; leaks only of replaced pools; the pool is open; connected means full; calls return |
| `review_stages` | 2 suggestions (critical, low), 1 category, settings that block nothing but the low one, 3 updates of the check, 4 disturbances, fair; 177,424 states | approvals, conclusions and repeats are earned; the review concludes |
| `review_gate` | 4 calls of either kind, 2 reviews a window, windows of 2 s, clock up to 4, threshold 2, triggers of 1 or 2 suggestions, 1 disturbance; 562,319 states | types; the limit in turn; refusals are earned; suggestions are counted |

Why these bounds suffice: a definition of three stages has a first, a middle and
a last one; a version with another order and another length makes a mixed-up
version visible, one with an unregistered stage the validation. Three
disturbances allow a failed resume of a failed resume. Two relays
and two messages contain every pair of overlapping read-modify-writes; three
messages and batches of two make a relay leave some pending. Two attempts a run
under three retries make a message fail over several runs, and one message that
may not be retried fails at once. Three deliveries of
one message contain an earlier one and two that race, two of the other a race
between the random ids. Every run that can stop
says so: all messages are settled, or all deliveries have ended. Three
calls make a queue with a first, a middle and a last one, a circuit opened by
two of them while the third is under way, and a quota of one that every other
call must wait for; the window is longer than the block, the backoff and the
open circuit, so each of these ends before and after it. Six connections are a
pool that is made, replaced or lost, and made again with failed attempts in
between; two disconnects overlap each other and an initialization. Two
suggestions of opposite effect on the decision and settings that turn it round
are what a decision can tell apart; four disturbances allow a lost reply, a
resume and a failed retry before the conclusion. Four calls of the gate exceed
a limit of two by two, and the clock crosses two boundaries of a window, the
first with the entry of the window before it still in the cache. Symmetry is
used only in runs without liveness properties, over relays, over the three
deliveries of the same message and over the calls of the gate.

Bounds: `MaxDisturbances` counts failed stages, rejected side effects, lost calls
and replies, crashes, resumes from a checkpoint and starts at a named stage.
`MaxConnections` caps the connections the factory of `RedisConnections` makes,
`MaxTime` the clock of `ReviewGate`, and the calls of `GitCalls` and
`ReviewGate` are made once each. The other counters (attempts, retries, the
clock of the outbox) grow only with disturbances or with poisoned messages, up
to the `MaxRetries` of each message; `GitCalls` needs no cap, as its times are relative.

### Fairness

`ReviewPipeline!FairSpec`: the event loop carries a started execution on
(`Proceed`), and the run is started again as long as `execute` accepts it
(`Start`). `Outbox!FairSpec`: `Relay(r)` of every relay; relays are started
again and again by a scheduler and an execution is not suspended for ever.
Crashes, lost calls, failures and an operator's starts are never fair.
`RunProgress!FairSpec` does not require `Announce`: the code does not guarantee
it (`pipeline_lost`). `Delivery!FairSpec` requires that a pending message is
settled.

`GitCalls!FairSpec`: time passes (`Tick`), and every call that has begun
proceeds: timers fire, the chain of promises goes on and the provider's client
answers or times out. Weak fairness of `Proceed(c)` suffices although other
calls come and go, because nobody overtakes in the queue. That calls begin is
not fair. `RedisConnections!FairSpec`: requests to redis are settled and sleeps
end, for the initialization, every disconnect and every health check. That
operations are called is not fair. `ReviewStages!FairSpec`: an execution goes on
and the caller retries a failed one (`Proceed`); failures, refused prompts and
resumes are not fair.

### What the violations show

- `pipeline_lost`. The last completed checkpoint precedes `PipelineCompleted`.
  When the event is rejected or the process dies in between,
  `resolveImplicitStartIndex` rejects the run ("no stage left"), so the event is
  never published. `PRODUCT.md` promises a correct resume after every stage.
- `outbox_blocked`. `OutboxRelayService` makes the envelope before its `try`; a
  payload that is JSON but not an object makes every `relay()` reject before the
  messages behind it. The relay of `adapters` makes it inside, and passes.
- `inbox_race`. `process` looks up and saves in two awaits. The plan of
  `adapters` (MSG-004) calls it free of duplicates under concurrency.

Also met while modelling, in no run: with two relays a stale `save` turns a sent
document back to pending, so SENT is not terminal; `save` resets `createdAt`,
so a retried message loses its place in the insertion order; a sent document
with retries cannot be read again; the relay of `adapters` does not pass the
message id to `publish`, so a consumer cannot use it as a deduplication key. A
relay that runs again after a crash or a lost reply between `publish` and
`markSent` publishes a duplicate (`DuplicatesAreEarned` bounds their number),
which the acceptance criteria of MSG-001 exclude
(`adapters/todo/m06-adapters-foundation.md:118`).

In the git wrappers: a success that was under way when the circuit opened closes
it before its time (`EarlyCloseIsEarned` says that nothing else does); a half
open circuit lets every call through, not one probe; a 429 that exhausts the
limiter's retries does not block the organization; limiters of different
windows share the state of an organization; a limited operation that called
another of the same organization would wait for itself. `QuotaKept` allows two
quotas within the length of one window, as many as there are at the end of one
window and the beginning of the next: the limiter keeps a quota per fixed
window and smooths no bursts, though GIT-006
(`adapters/todo/m14-all-providers-pages.md:42`) says that it prevents them.

In the connection manager: a disconnect during a connect finds no pool, and the
connect installs one afterwards; a disconnect that ends after a reconnect
writes "disconnected" over a full pool; a reconnect of a pool that a health
check found degraded drops the old connections without closing them
(`LeaksAreEarned` names them), and if it fails closes the old pool while
`getConnection` still hands it out; a health check compares the pings of one
pool with the size of another.

In the stages: a run resumed from its checkpoint has no `checkId`, so
`finalize-check` ends it for good and its check stays pending; it has no
suggestions either, so it may approve over its own blocking comments
(`ApprovalIsEarned` says: only then); a file whose analysis fails or times out
counts as one without suggestions; comments on the whole change never block,
whatever their severity; a retried loop posts its first comments again.
CORE-075 and CORE-076 (`core/todo/m03-20-stage-pipeline-safeguard.md:76`, `:77`)
promise more: an approval only without CRITICAL or HIGH issues, which the
comments on the whole change and those of a lost execution are not counted
among; and a check that always gets a final status, which that of a resumed run
does not.

In the gate: overlapping throttle calls exceed the limit (hence `punctual`); a
call that reads the clock in one window and the entry in the next resets the
newer one; a trigger in flight overwrites a resume.

## 4. Proofs

All theorems hold for every value of the constants that satisfies the named
assumptions (`StagesAssumption`, `DefinitionAssumption`, `BoundAssumption`,
`NullAssumption` of `ReviewPipeline`; `RelayAssumption`, `NullAssumption` of
`Outbox`; `InboxAssumption` of `Inbox`; `LimiterAssumption` and
`CallsAssumption` of the git modules; `RedisAssumption`; `PostsAssumption` and
`BoundsAssumption` of `ReviewStages`; `GateAssumption`; TLC evaluates them in
the runs). They say that the null values are no records, that bounds and limits
are natural numbers (limits positive, as the constructors require; `MaxRetries`
and `MaxProvider429Retries` may be 0), that definitions are sequences of stages,
and that posts of different kinds differ.

`ReviewPipelineProofs`: `TypeCorrect`, `VersionPinned`, `ResumeCorrect`,
`CompletionCorrect`. The invariant is `TypeOK /\ PinnedInv /\ ResumeInv`.
`ResumesWhereItStopped` alone is not inductive: what a resume does is decided by
the checkpoint or by the context the caller still holds. So `ResumeInv` says of
each of these, and of the state being executed, that its last completed stage
is the end of the prefix of the definition that has completed checkpoints, and
that its current stage is that one or the next; the lemmas about `Position`
turn this into the start index. It also says that a published completion means
that the prefix is the whole definition. All of it holds as long as no operator
has named a stage (`manual`). `PinnedInv` relates the version of every state to
that of the checkpoint.

`ReviewPipelineResultsProofs`: `DurableCorrect`, `FailureCorrect`,
`AttemptsCorrect`, `TraceCorrect`, `ImplementsRunProgress`, `ResumableCorrect`,
`ExecutionsEndCorrect`. The first two need no
more than where an execution stands in its chain of side effects (`DoneInv`,
`HandlingInv`), and hold under an operator too. That attempts are new is less
obvious, as the checkpoint keeps the attempt of one stage: by `StartedInv`, every
other stage that was ever started is done, so a resume that forgets its attempts
never starts it again. The trace rests on `StartsAfterDone` for the skipped
stages and on `DoneInv` for the others. `ImplementsRunProgress` is a step
simulation for runs nobody starts at a named stage (`ManualStages = {}`): as
`RunDone` counts the stages done, it changes only with `SaveCompletedCheckpoint`.
The last two are what `EveryStageCompletes` rests on besides fairness.
`ResumableCorrect` follows from `ResumeInv`: whatever the caller holds, `execute`
accepts a run that has begun exactly under its own version and until its stages
are done. By `ExecutionsEndCorrect` each step leads to a later side effect or the
next stage, and an execution that ends undisturbed has returned a result.

`OutboxProofs`: `TypeCorrect`, `SentCorrect`, `FailedCorrect`, and for one relay
alone `DuplicatesCorrect` and `ImplementsDelivery`. A relay writes its copies
over the store, so the invariant says the same of every document wherever it is,
in the store, in a batch, as the current copy or as read by the repository
(`Truthful`): SENT means published, FAILED means as many failures as
`MaxRetries` says and one at least, and a pending document's retries never
exceed the failures counted. The histories only grow, so what is true of a copy
stays true while other relays act (`Grows`). For one relay `OwnInv` adds that
the documents of its batch are as it fetched them and that the current message
is pending until its fate is written; then markSent is never refused, and every
message that will be published again has used up a disturbance
(`DuplicatesInv`). With two relays both theorems are false. Three more say that
no run goes round in circles: `RunsCorrect`, for any number of relays, orders
the steps of a run by batch, attempt and await; `RetriesCorrect`, also for any
number, says that no write of a relay, however stale its copy, leaves a message
pending with its retries used up (`CopyRetries`: what is about to be written has
been marked); `CountsCorrect`, for one relay that makes the envelope inside its
`try`, says that a message it leaves is settled or has a retry more, unless a
call was disturbed. So an undisturbed message is settled after at most
`MaxRetries` runs that take it, or after the first if that is 0.

`InboxProofs`: `TypeCorrect`, `NewOnceInTurnCorrect`, `NothingIsDroppedCorrect`,
`OneRecordCorrect`. The invariant says that every record has a cause and that a
message told to be new has a record for ever, so that a delivery that finds no
record is preceded by none that was told so; that an id determines the key of
its record, so that `save` replaces no record of another message.

`GitCallsProofs`: `LimiterInTurn`, `LimiterQuota`, `LimiterMoves` and
`LimiterSleeps` about the limiter alone; `TypeCorrect`, `InTurnCorrect`,
`QuotaCorrect`, `RequestsCorrect`, `CircuitCorrect`, `EarlyCloseCorrect` and
`CallsForward` about the calls. `InTurn` needs `QueueInv`: the calls inside are ordered by `ahead`,
`tail` is the last of them, and each awaits the one just before it (`Chained`).
A call leaves from the head only, so removing it from every `ahead` keeps the
order. Each step of a call is a step of the limiter or leaves it alone
(`ImplementsLimiter`), so the theorems about the limiter carry over. The quota
rests on `QuotaInv`: the count is that of the requests begun since the window
began, at most one quota of the older ones are as recent as a window is long,
and none of those is left when the next window begins. `RequestsAreBounded` is a budget: the
requests of finished attempts, plus one for every retry of the current one.
That an early close is earned follows from `under`: a call can only have been
let through before the circuit opened, or after its time. What `EveryCallReturns`
rests on besides fairness is proved: somebody inside the limiter waits for nobody
else (`SomeoneIsFirst`, from `QueueInv` and from `SuccessorInv`: only the last
call has nobody who awaits it), a sleep is exactly as long as what it waits for
(`SleepIsExact`), and each step of a call gets it on in the order attempt, stage,
retries of the limiter, time left (`CallsAdvance`).

`RedisConnectionsProofs`: `TypeCorrect`, `LeaksCorrect`, `PoolCorrect`,
`ConnectedCorrect`, `CallsForward`. `InitializationInv` says what the lists of an initialization
hold in each phase and that a new connection is in no other list; with it each
action moves a connection from one owner to the next or closes it. By
`CallsForward` an initialization under way gains a connection, an attempt or a
step, or loses a connection it has to close, and nobody else throws it back;
what `CallsReturn` adds is fairness.

`ReviewStagesProofs`: `TypeCorrect`, `ApprovalCorrect`, `SuccessCorrect`,
`RepeatsCorrect`, `EndCorrect`, `AdvanceCorrect`. `CountsInv` refines the bound of repeats: a post that this
execution has still to make has been made no more often than there were
disturbances. `CommentsInv` and `DecisionInv` say that, as long as the run has
its data, they agree with what stands at the provider: comments with
suggestions, the decision with the last one accepted. After a loss the run can
still approve but no longer conclude, as it has no check id. `EndCorrect` says
that a run ends for good for two reasons only and that one that is done has
concluded its check; by `AdvanceCorrect` every step uses up a disturbance or
leads to a later stage, a later step or one more comment. With fairness this is
`ReviewConcludes`.

`ReviewGateProofs`: `TypeCorrect`, `LimitCorrect`, `RefusalsCorrect`,
`SuggestionsCorrect`. The lemmas about `WindowStart` (a moment lies in the
window that starts there, starts are a window apart) are the arithmetic.
`BucketInv` says that no entry counts a review that its window has not admitted
and that an entry outlives its window; `PunctualInv` that, in turn, it misses
none. `CadenceInv` bounds what the calls in flight are about to write.

Every invariant the runs check is a theorem, except `NewOnce`, which
`inbox_race` refutes. Only model-checked is what needs liveness
(`EveryStageCompletes`, `EveryCallReturns`, `CallsReturn`, `ReviewConcludes`, the
fair parts of `RunIsProgress` and `DeliversAtLeastOnce`): fairness under ENABLED
is out of the reach of the prover. The theorems on progress above are its safety
half: a step that is taken leads on. That some step can be taken, and that the
orders used have no infinite descent (induction over data), is left to TLC.

## 5. Not modelled

- Stages that validate, gate, resolve configuration, rules or context, or store
  statistics: one read or one write each, which the orchestrator's model takes
  as a step with an outcome.
- The task use cases: each loads a task, changes it synchronously and replaces
  the document. Overlapping calls overwrite each other, in the way `Outbox`
  shows for its relays.
- Worker runtime, queue and dead letter queue: thin wrappers of BullMQ. The
  states, locks and retries of a job are that library's.
- The in-memory outbox writer and deduplicator, and the aggregates: synchronous
  objects, no step of another actor falls between.
- The user interface: its order of events is that of React and the browser.
- Pure functions (dependency graph, configuration merger, rule policies), the
  parsers and resolvers of `adapters/src/ast`, the mappers of git, context, LLM
  and notification providers, and analytics. They make up most of the
  repository, keep no state and share nothing; the mapped lines are therefore a
  small share of all.

## 6. Plan

1. Done: the pipeline orchestrator and `RunProgress`; the outbox and `Delivery`;
   the inbox; the git wrappers; the connection manager; the review stages; the
   review gate; their invariants proved as listed above.
2. Done: the refinements as step simulations (`RunProgress`, `Delivery`, the
   limiter by the calls), and the safety half of every liveness property.
3. Models: the caller of the pipeline once the retry handler is in the
   repository, and `ReviewStages` composed with `ReviewPipeline` over it; the
   task use cases with an abstract life cycle.
