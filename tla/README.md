# Waybill: specification, model checking and proofs

Waybill accepts events from tenants over HTTP and delivers each of them as a signed webhook, at least once. This
directory holds TLA+ models of the parts that decide whether an accepted event can be lost, sent twice without need,
delivered after it was given up, or replayed twice, and of what surrounds them: rate limits, leases, sign-in, the
monitoring and the pages of the dashboard; the TLC configurations that check them on small instances; and
proofs that TLAPS checks for instances of every size. Every definition that models code is listed with its source lines
in `PROJECT.json` under `map`.

Run a model with `tlc -config X.cfg M`, a proof module with `tlapm M.tla`.

## 1. Inventory

### The parts and how they meet

| Part | State | Operations | Meets the others through |
|---|---|---|---|
| Event ingestion (`packages/api/src/services/events.ts`) | `events`, `outbox`, objects in S3 | refuse, upload a large payload, commit event and outbox row, answer | outbox table, S3 |
| Outbox publisher (`packages/worker/src/outbox-poller.ts`) | advisory lock of its connection, `isLeader`, tenant cursor | elect, select a batch, send, mark, fail, stop | outbox table, SQS |
| Delivery worker (`packages/worker/src/index.ts`) | `deliveries`, `dead_letters`, one message in hand, background deletes | receive, gate, look up, attempt, succeed, retry, dead-letter, acknowledge | SQS, S3, Postgres, Redis |
| Circuit breaker (`delivery/circuit-breaker.ts`) | a Redis hash per destination with a time to live | decide, mark probe, record failure or success | Redis, shared by all workers |
| Visibility leases (`delivery/visibility.ts`) | receipts with their local expiry, the renewal under way | track, renew in batches, release, isCurrent | SQS visibility timeouts |
| Dead-letter replay (`packages/api/src/services/replays.ts`) | `replays` with two unique indexes | look up the key, check, read the archive, insert in a transaction | `deliveries`, `dead_letters`, S3, outbox |
| Token buckets (`packages/shared/src/rate-limit.ts`) | tokens and time of refill per tenant in Redis, with a time to live | take | ingestion and worker |
| Tenant turns and receive loop (`delivery/tenant-turns.ts`, `index.ts`) | receives under way, turns taken in a cycle, deferred messages, background deletes | receive, take a turn, defer, handle, drain | worker, leases |
| Sign-in, sessions, API keys (`packages/api/src/services/auth.ts`, `api-keys.ts`, `scripts/grant-tenant.ts`) | login states, sessions, memberships, keys | begin, call back, issue, revoke, authenticate, grant, withdraw | Postgres, GitHub, the dashboard |
| Read APIs (`delivery-history.ts`, `dead-letters.ts`, `delivery-summary.ts`) | none | keyset pagination, summaries | Postgres standby, the dashboard |
| Backlog sampler (`worker/src/metrics/backlog-sampler.ts`) | a sample and a gauge per source | sample, miss the deadline, stop | Postgres, SQS, Prometheus |
| Monitoring handler (`web/src/server/observability.ts`) | queries in flight, kept reports | look up, join, query, serve, refuse | Prometheus, the dashboard |
| Dashboard pages (`web/src/components/dashboard/*.tsx`, `web/src/lib/*.ts`) | the list and its cursors, the panel of a dead letter, overrides and secrets of API keys, the session | load, page, replay, create, revoke, copy, sign out | the API |
| Landing page drawing (`web/src/components/landing-network.tsx`) | layout, pending frames, what is drawn | measure, draw, follow scroll and pointer | the browser |
| Runtime guard (`infra/oracle/guard.ts`, `run.sh`, `stop.sh`, `lease-stop.sh`) | lease file, stop latch, time of bad health | check, enforce, watch the lease, stop | systemd, the processes above |
| Metrics, signatures, infrastructure scripts | none of the pipeline's | | |

The path of an event: ingestion commits it with its outbox row; the publisher sends it to SQS and marks the row; a
worker receives it, passes the circuit and the tenant's bucket, creates or updates the delivery row, calls the
webhook, and deletes the message; when the attempts are used up the worker archives the payload, records a dead
letter and deletes the message; a client may later replay the dead letter, which is a new event in the outbox.

### What is hard

* Three stores without a common transaction (Postgres, S3, SQS), so that each handler is a sequence of writes which
  may stop after any of them.
* SQS hands a message out again whenever its visibility timeout ends, also while a slow worker still handles it: two
  workers run the same handler on the same rows.
* A publisher's lock lives and dies with a connection whose loss the publisher notices only at its next query.
* Redis commands of several workers interleave without a transaction.
* Renewals of a lease are answered late, in part or not at all.
* Requests for one replay race each other; the answer may be lost and the client asks again.
* Time stamps reach the token bucket out of order, and a command may run twice.
* The guard looks for the stop latch once and then waits for its checks; the processes it lets run look at the lease on
  their own clock.
* A page goes on while its requests are under way: answers come late, to a page that shows something else by now, or
  not at all although the server has done what was asked; lists are read from a standby that lags behind.

The full list, each hazard at its line with the properties that would catch it going wrong, is in `PROJECT.json` under
`hazards`.

### What makes each part correct

* Ingestion and publisher: no published row without a message; no message whose payload is missing; one leader; no more
  copies than faults explain; no tenant blocked by another's bad message.
* Worker: no message deleted before its event is delivered or archived; no terminal status without the fact behind it;
  the attempt budget; completed work stays completed; every message is settled.
* Circuit: opens after the threshold, lets nothing through while it cools down, and, if open, has a date from which its cooldown ends.
* Leases: what the worker believes it owns it does own; a chosen delay stands.
* Replay: one event per dead letter and per key, nothing left behind by a losing transaction, repeated commands answered.
* Whole pipeline: at-least-once, from the answer 201 on.
* Limits and turns: no more than a full bucket and its refill; a refused caller is told the right time; no tenant has
  more than its turns; no receipt is renewed beyond its cycle; the loop goes on.
* Guard: nothing runs beyond the window, the latch or the grace by more than a lease and its last look.
* Access: one session per login, a page acts as the user it shows, a key ends with its membership.
* Monitoring: what is shown as observed is recent, and nobody waits for a query that is over.
* Pages: a walk misses nothing, a replay or key is neither repeated nor hidden, nothing that has ended comes back.

## 2. Modules

| Module | Models | Used by |
|---|---|---|
| `Outbox` | ingestion and publishers | `MCOutbox`, `OutboxProofs` |
| `Delivery` | workers, queue, tables | `MCDelivery`, `DeliveryProofs` |
| `AtLeastOnce` | abstract specification: an accepted event is kept, delivered or archived | `Pipeline` |
| `Pipeline` | `Outbox` and `Delivery` over one queue and one S3, with what is proved of each | `MCPipeline`, `PipelineProofs` |
| `CircuitBreaker` | the Redis hash and its workers | its runs, `CircuitProofs` |
| `VisibilityLeases` | the worker's leases against SQS | `MCLeases`, `LeaseProofs` |
| `Replay` | concurrent replay requests | `MCReplay`, `ReplayProofs` |
| `RuntimeGuard` | the guard, its files, the wrappers and the stop script | `Runtime` |
| `TokenBucket` | the script in Redis and its callers | `Runtime` |
| `ReceiveCycle` | the receive loop of a worker, tenant turns, background confirmations | `Runtime` |
| `BacklogSampler` | the sampler and its gauges | `Runtime` |
| `Monitoring` | Prometheus, the monitoring handler and the pages that poll it | `Runtime` |
| `Runtime` | the five modules above, side by side | `MCRuntime`, `RuntimeProofs` |
| `Access` | sign-in, sessions, API keys, memberships | `Console` |
| `ListPages` | keyset pages of the API and the list of the dashboard | `Console` |
| `DeadLetterPage` | the dead-letter page and its replay button | `Console` |
| `ApiKeyPage` | the page that lists, creates and revokes API keys | `Console` |
| `SessionState` | the session the dashboard shows | `Console` |
| `FrameLoop` | when the landing page is measured and drawn | `Console` |
| `Console` | the six modules above, side by side | `MCConsole`, `ConsoleProofs` |

An `MC` module only gives values to the constants of what it extends; a `Proofs` module holds the theorems.

Definitions whose comment starts with "Mutant" are the faulty variants that show, for every checked property, a bug it
would find (`PROJECT.json`, `mutants`); no specification uses them.

### Delivery

A worker is `pc`, `msg`, `row` and `attempt`, the local variables of `handleMessage` that survive an `await`; every
awaited call is one action, so that anything may happen between two of them. `processDeliveryBatch` is sequential,
hence one message per worker; `confirming` is the set of deletes that `DeliveryConfirmations` runs in the background,
with its limit. A row of `deliveries` is identified by its event and its creator: `findByEventAndUrl` followed by
`create` is not atomic and there is no unique index, so two workers can create a row each. `attempt` is the count that
`upsertInFlight` returned.

`Arrival` is the environment: an object is stored and a message is sent. `Expire` makes a hidden message visible at any
moment. `HandlerError` is a call that fails or times out, `Crash` the death of the process; both use up the
`FaultBudget`. The circuit and the token bucket appear as the choice between `Admit` and `Defer`. Time is abstracted to
the flag `due` of a row.

### Outbox

A request runs through `upload`, `commit` and `respond`, and may fail at each; `outbox` is the row it committed. A
publisher has a `session` (its only connection), `isLeader`, the cursor `after`, and `rows`, the state of each
`publishOne` of the current tick: `Promise.allSettled` runs them concurrently. The selection is the SQL of
`listUnpublished`: `TenantPosition` is `ROW_NUMBER() OVER (PARTITION BY tenant_id ...)`, `Before` its `ORDER BY` with the
rotation by `after`, and `Rank` against `BatchSize` its `LIMIT`. `Select` and `Fetch` are two queries. A lost session
frees the lock at once, but `isLeader` falls only when a query fails. The model assumes that the first query on a
connection that PostgreSQL closed throws; whether the client library may reconnect silently is not decided in this
repository.

### Pipeline and AtLeastOnce

`Pipeline` interleaves the two over the shared `queue` and `s3`; the actions of `Delivery!Arrival` are replaced by what
`Outbox` really does. The refinement mapping to `AtLeastOnce` makes `kept` an unpublished row or a live copy in the
queue, `delivered` the 2xx answers a worker saw and `archived` the dead letters whose object exists.

### CircuitBreaker

`Decide`, `MarkProbe`, the webhook call, and the read, the computation, the HSET and the EXPIRE of
`recordDeliveryFailure` and `recordDeliverySuccess` are separate actions with the clock ticking between them.
`applyFailure`, `applySuccess` and `getCircuitDecision` are the pure functions of the source. `streak` is a history
variable: failures recorded since the last reset. Redis drops the key when `expiresAt` is reached; a worker that stops
between HSET and EXPIRE (`Abandon`) leaves the old time to live. `deployed` is the set of workers that run, any nonempty
set chosen once: `OpensWhenAlone` and `QuietWhenAlone` speak of the behaviours in which it is one worker.

### VisibilityLeases

SQS's side is `hiddenUntil`; the worker's is `expiresAt`. A renewal request is answered (`Confirm`) with the entries SQS
applied, or fails (`Fail`) before or after it was applied; a request that was given up may still be applied later
(`RenewLate`). `release` takes the receipt out of the map and waits for the renewal under way ("leaving"), and only then
the message is deleted, delayed or left alone (`Dispose`). `Stop` ends the worker after the renewal under way. The assumption `ReceiveDelay <= Margin` is what the 5 s in
`isCurrent` are worth: `track` counts the 30 s from the arrival of the response, SQS from its departure, and the call's
own timeout alone does not bound the difference by 5 s. One clock is assumed for worker and SQS, that is, clocks that
run at the same rate.

### Replay

A request is one run of `requestReplay`. `WorkerWrites` and `ArchiveVanishes` are the changes others make meanwhile. The
transaction is two steps, `CheckReplay` and `InsertReplay`, since under read committed its check may be out of date at
the insert; the unique indexes on the key and on the dead letter decide at the insert, and the loser goes to
`ResolveConflict`. `repeats` is a history variable: the request began after a replay with its key and its dead letter
was committed.

### RuntimeGuard

A run of `enforce` begins when it has found no latch (`EnforceStarts`) and ends up to `CheckTime` later: it grants a
lease, refuses, is killed, or dies between its two files (`EnforceHalfWritten`). What AWS, the usage counters and the
health of the host answer is chosen by each run. `svc` is the wrapper `run.sh` of each service: it looks at the lease
every `Poll`, and its process is gone `Term` after SIGTERM. `stop.sh` is a step per command and may die after any of them
(`StopDies`); `WrapperRefused` starts it through `lease-stop.sh`. `Reboot` ends every process and
empties `/run`, so that of the files only the latch in `/var/lib` is kept: the lease and the date of bad health are gone.
`firstBad` is a history variable: the first run to note bad health since one noted good health. No guard of an action
reads it, and it is computed from itself and not from `badSince`, whose handling in `healthPermission` it is there to
judge. Bad health counts from the run that noted it: a run that is killed or refused before it writes its files noted
nothing, and gave no lease either. `Reboot` clears the history too: nothing that survives it says that health was bad.

### TokenBucket

The Lua script is one step, `Execute`, since Redis runs it in one piece; the stamp it is given was read earlier (at most
`Delay`), so that stamps arrive out of order. `DecideLost` is a command that ran and is sent again by the client. Tokens
are counted in shares to keep the fractions of the script as integers. `back` is a history variable: the time by which
late stamps set `lastRefillAt` back; the script refills that time again, and the bound of `BudgetKept` says that this is
all it gives away.

### ReceiveCycle

One cycle of `main`: all receives are sent at once, their batches are handled in the order of the answers, a receipt is
skipped unless the leases call it current, the turn of its tenant is taken or the message is deferred, handled messages
are confirmed in the background up to a limit, and the cycle ends with the drain and the deferral. The leases are
reduced to `owned` and `unsure`; their times are the subject of `VisibilityLeases`, what a handler does that of `Delivery`.

### BacklogSampler and Monitoring

A depth is abstracted to the moment at which it was counted. A sample that passes its deadline is recorded as failed and
may still settle (`SettleLate`), which must leave the gauge alone. In `Monitoring` a page asks for a range; the handler
answers from its cache, joins the query in flight or starts one, refuses when too many are under way, and answers
everybody who joined when the query ends or fails. `oldest` is a history variable: the greatest age at which a depth was
shown as observed.

### Access

Tabs of one browser share its cookies (`jar`), each has a page with a CSRF token and at most one request, and a request
is handled in the steps between which the tables may change. `Callback`, `ConsumeLogin` and `CreateSession` are the three
steps of a sign-in, and a callback that is denied, has no code or has no login of its browser only clears the cookie; `Issue` and `Revoke` are the checks of the middleware, `CreateKey` and `RevokeKey` the statements behind
them. `Withdraw` is the script that takes a membership away, with the keys that refer to it. A random token is modelled
by the row it opens.

### ListPages, DeadLetterPage, ApiKeyPage, SessionState

Each is a page with the requests it has under way, whose callbacks run late or never: React's effects are part of the
action that causes them, an aborted request may have been carried out, and a request that timed out in the browser goes
on at the server. `ListPages` has both ends, the SQL of a page below a cursor and the reducer that keeps the cursors of a
walk; `walk` records what was shown at each depth. The list of dead letters has this form; the list of API keys nearly so:
its cursor is the id of a row, and is refused when that key was deleted with its membership, and it reads the primary. `DeadLetterPage` reads its list from a standby and sends replays to the
primary, whose handling is a reduction of `Replay` to three steps. `ApiKeyPage` distinguishes answers that leave the
outcome open (`Unconfirmed`) from refusals. Its answers are those of the API, Caddy's 502 and 503, and the page's own (0,
and 502 for one it cannot read). `SessionState` follows `generation`, by which the provider drops answers that
were under way when the session was forgotten.

### FrameLoop

The three effects of the landing page's drawing: one measures the page in a frame, one computes a scene, one draws.
`queued` counts the drawing frames the browser will run, `frame` says whether the component holds the handle of one: a
second frame would not be cancelled by anybody.

### Runtime and Console

The modules in each of the two are independent: they share no state, but for the clock in `Runtime`. One behaviour is
about one of them, its `subject`, chosen in the initial state, while the others rest. A property of one module is checked
in all behaviours of that module, and the state spaces add up instead of multiplying. `Runtime` extends `RuntimeGuard` and
`Console` extends `Access`; the others are instances, and each keeps an assumption of its own on its constants
(`CycleAssumption`, `ListAssumption` and so on), which `RuntimeAssumption` and `ConsoleAssumption` collect. The composed
system is `Pipeline`, where the components do share state.

## 3. Runs

| Run | Instance | Properties | What it shows |
|---|---|---|---|
| `delivery_alone` | 1 worker, a large event, 3 copies, one of them malformed, 2 attempts, 2 faults | `AttemptBudget`, `CompleteStays`, `Settles` | with messages handled one at a time, attempts exceed the budget only for faults and a retry is always within it, completed deliveries stay, and every message is finally deleted |
| `delivery_race` | 2 workers on one message, 1 fault | `NoLoss`, `DeadLetterArchived`, `TerminalRecorded` | two handlers of one message never lose it and never write a status ahead of its fact |
| `delivery_reopened` | 2 workers, no fault | `DeadLetteredStays` violated | finding 1 below |
| `outbox_takeover` | 2 publishers, 2 tenants, 2 faults | `TypeOK`, `PublishedWasSent`, `PointerResolves`, `OneLeader`, `DuplicatesNeedFaults` | publication is safe through crashes, lost sessions, lost answers and takeovers |
| `outbox_isolation` | 1 publisher, 3 tenants, batch of 1, one message that SQS never takes | `Isolation` | the rotation starves nobody |
| `pipeline` | 1 publisher with 1 fault, 1 worker with 1 fault, a large event | `KeepsPromise`, `HonoursDelivery`, `Resolves` | the pipeline implements `AtLeastOnce`, honours the environment `Delivery` assumes, and resolves every accepted event |
| `circuit` | 1 or 2 workers up to time 8, threshold 2, cooldown 2, 0.35 million states | `NeverStuck`, `OpensWhenAlone`, `QuietWhenAlone` | whatever is written late, an open circuit has an `openedAt` in the past, so that its cooldown ends; for a worker alone it opens at the threshold and is quiet while it cools down |
| `circuit_probe` | 1 worker | `FailedProbeReopens` violated | finding 2 |
| `leases` | 3 receipts in batches of 2, lease 3, margin 1 | `CurrentIsOwned`, `DelayKept`, `UncertainStays` | local ownership is never ahead of SQS; delays stand; doubt stays |
| `replay` | 3 requests, 3 dead letters (one with another destination), 2 keys | `OneReplay`, `NoOrphans`, `RepeatAnswered` | one replay at most, no leftovers, repeated commands answered |
| `runtime` | the five modules of `Runtime`, 0.9 million states | below | |
| `console` | the six modules of `Console`, 1.1 million states | below | |

`runtime` and `console` ask one question per part; a property that joins two or three names them in its comment, and each
of them has its own mutant.

| Property | Parts | What it shows |
|---|---|---|
| `CutoffHonoured` | | no process outlives the policy's window by more than one look of its wrapper and the time of SIGTERM |
| `StopsBind` | `LatchBinds`, `GraceBinds` | a latched stop takes effect although a guard that began before it writes one more lease; Grace + Life after the first run that noted bad health no lease is valid, although later runs note it again, fail or die between the files; only a run that notes good health, or a restart of the host, gives a new grace |
| `BudgetExact` | `BudgetKept`, `RetryExact` | the tokens given out are bounded by the capacity, the time and what late stamps set back; `retryAfterMs` is exact |
| `TurnsAndReleases` | `FairShares`, `NothingLeaks` | no tenant has more than its turns, nobody is put off without need, every receipt is released in its cycle |
| `KeepsReceiving` | | cycles end, again and again |
| `TruthfulSample` | | no late count is recorded with a fresh stamp |
| `TruthfulReports` | `ObservedIsRecent`, `NobodyForgotten` | sharing and keeping reports adds nothing to the age of a depth; everybody who joined a query is answered |
| `SessionsBound` | `OneSessionPerLogin`, `ActsAsShown` | one session per login state; a tab acts as the user it shows |
| `KeysBound` | `KeysNeedMembers`, `EndedForGood` | a key ends with its membership, and an ended key admits nothing |
| `WalksAreSound` | `WalkComplete`, `CursorsFit`, `LoadingIsAwaited` | Next misses and repeats no row that did not change; no cursor is refused; a page that loads waits for an answer |
| `ReplaysAreSound` | `NotOfferedAgain`, `RetryRecognised`, `LockedForRequest` | a replayed row is not offered again; a retry is the same command; the page is locked for a request only |
| `KeyPageIsSound` | `NothingSilent`, `RevokedAsShown`, `CopiedIsShown` | no key is made behind the reader's back; a revoked key is shown as such; "copied" is said of the secret on display |
| `NothingComesBack` | `ForgottenForGood`, `OneLoop` | a forgotten session and a replaced loop of frames do not come back |
| `CatchesUp` | | a visible page ends up drawn as it is |
| `RuntimeTypeOK`, `ConsoleTypeOK` | the type invariants of the modules | |

### Bounds, and why they are enough

* `FaultBudget` bounds crashes and failed calls of a behaviour. One fault in a race and two alone cover a failure and
  the failure of its repair. `AttemptCap` bounds the row's count above `MaxAttempts + FaultBudget`, where it no longer
  matters for a single worker; with two workers it cuts off further attempts of a race that has already shown both
  rows, both orders of their writes and exhaustion.
* `MaxAttempts = 2` has a first, a last and no attempt in between; `isExhausted` is a comparison, so nothing changes with
  a larger number.
* `AckLimit = 1` makes the set of background deletes full at once.
* `Copies` exceeds `1 + FaultBudget` in `outbox_takeover` (4 with 2 faults), so that the bound of the property and not
  that of the queue is what holds.
* `BatchSize = 1` with three tenants in `outbox_isolation` is the tightest case of the rotation: a batch holds either
  the bad row or a good one. With two tenants the rotation could not skip anybody.
* `Threshold = 2`, `Cooldown = 2` and `MaxTime` of 8 leave room for two failures, a cooldown, a probe and another
  cooldown.
* Three receipts in batches of two give two requests under way at once, one of them with a partial answer; `MaxTime = 5`
  lets a lease of 3 expire and a renewed one come close.
* Guard: a window of 7 ticks, leases of 3, a grace of 2 and plans that end inside or after the window leave room for
  several leases, a latch under a running check and a reboot, and the clock goes on past the end of the window.
* Bucket: a token is 3 shares and a tick refills 2, so that every rounding happens; stamps are up to 2 old, and a bucket
  of two tokens fills, and its hash ends, within the 6 ticks.
* Cycle: three messages of one tenant and one of another, in two batches of two, with one turn per tenant and one
  confirmation at a time: both limits are met in every cycle.
* Sampler and monitoring: the clock passes each deadline and each stale limit; two pages and two ranges with one query
  in flight and one kept report make both limits bind.
* Access: two tabs, two users, two logins and two sessions for races and for a change of user, one key with its whole
  life. Lists: three rows of one moment and one later, page sizes 1 and 2, two filters, one change of the table.
  `DeadLetterPage`: two rows, two requests, two panels. `ApiKeyPage`: two creations and an older key. `SessionState`: three
  requests in flight. `FrameLoop`: two layouts, texts and scroll positions, four actions of the visitor.
* Symmetry is used over workers, publishers, receipts and, in `Replay`, over requests, keys and dead letters with the
  worker's destination, only in runs without liveness.
* Deadlock checking is off in every run: each model may stop when everything is settled or a bound is reached.

### Fairness

* A running worker or publisher takes its next step (weak fairness of `HandlerStep`, `ConfirmStep`, `PublisherStep`):
  both are endless loops. The calls to SQS, S3 and the webhook have timeouts in the code, and so have the publisher's
  queries; that a call of the worker's Redis or Prisma client ends, with an answer or an error, is assumed: the
  repository gives these calls no time limit. Nothing is assumed of requests, crashes or errors.
* Visibility timeouts expire and retries fall due: weak fairness of `Expire` and `FallDue`.
* Strong fairness of `Admit`: an open circuit admits a probe after its cooldown and the bucket refills, so a message is
  not deferred for ever. Strong fairness of `Acknowledge` (per message) and of `SendOk` (per event): SQS does not fail
  every delete and every send; `SendOk` is never enabled for an `Unsendable` event.
* `ReceiveCycle`: weak fairness of the loop's own step, of the answers to receives and of the confirmations. The calls
  to SQS have a time limit (`sendWithTimeout`), so each comes back with an answer or an error. `KeepsReceiving` also needs
  that each handler ends, hence that its Redis and Prisma calls do, which is the assumption above.
* `FrameLoop`: weak fairness of `Measure`, `Commit` and `Tick`, which a hidden document disables: the browser runs
  the frames of a visible one, and React commits what was set. Nothing is assumed of the visitor.

## 4. Proofs

TLAPS checks the following for every value of the constants that satisfies the named assumptions: `DeliveryAssumption`,
`OutboxAssumption`, `PipelineAssumption`, `CircuitAssumption`, `ReplayAssumption`, `LeaseAssumption`, `RuntimeAssumption`
and `ConsoleAssumption`, which TLC evaluates in the runs. They say what kind of value a constant is (a finite set, a
number, a positive limit); the one with content is `ReceiveDelay <= Margin` of the leases (above). Every safety property that a run expects to hold is a theorem here, and so are both refinements of `Pipeline`.

Each module has one inductive invariant. What it adds to the property is listed below, since that is the argument.

* `PipelineProofs`: `PromiseKept` (`Spec => A!Spec`, that is, the pipeline implements `AtLeastOnce`) and `DeliveryHonoured`
  (`Spec => D!Spec`). `Pipeline` instantiates `OutboxProofs` and `DeliveryProofs`, so the two invariants are used with
  their step lemmas instead of being proved again. `Ingested` adds where a request stands (`RequestFits`): it has a row
  before it is answered. It follows that each action of ingestion or publisher is an `Arrival` of `Delivery` or leaves its
  variables alone, hence `DeliveryHonoured`, and from it the workers' invariant over the shared queue. A step then maps
  to a step of the promise or to a stutter: an event leaves `kept` only when the last copy is deleted, and by `NoLoss` it
  was delivered or archived by then; marking a row published keeps it, since `PublishedWasSent` has a copy in the queue.
* `DeliveryProofs`: `TypeCorrect`, `NothingLost`, `DeadLettersArchived`, `TerminalsRecorded`. The three safety properties
  are not inductive: `NoLoss` says nothing of a worker about to delete. `Justified` states for each step what the worker
  has established, `HoldsMessage` that it works on a sent message and a row of its own event, `PayloadStored` what
  ingestion guarantees. All of these facts are monotone (`FactsStay`: a 2xx answer, a dead letter, an object and a sent
  message do not go away), which is why other workers cannot invalidate them between two steps. This is the argument for
  the code's lack of locks. `AttemptsBounded` and `CompleteForGood` are about one worker (`Alone`, a hypothesis): there a
  row still is what the worker read when it writes it (`WorkerFits`), and an attempt without a worker was cut off by a
  fault (`RowsFit`). Finding 1 is what happens with two.
* `OutboxProofs`: `TypeCorrect`, `SingleLeader`, `PublishedSent`, `PointersResolve`, `DuplicatesPaid`. `LeaderHoldsLock` ties
  `isLeader` on a live connection to the lock; `RowWasSent` follows a row through `publishOne`; `UploadedFirst` covers the
  transaction about to begin. The type of the cursor needs that the last selected row exists (`BatchOK` and a lemma on
  `Rank`). `DuplicatesPaid` counts: copies sent and publishers that may still send are at most one more than the faults,
  and at most the faults while the next leader would select the row again (`Counted`). Every way to get one more (a lost
  session, a lost answer, a crash between send and mark) is a fault.
* `CircuitProofs`: `TypeCorrect` and `CircuitNeverStuck`; the snapshots workers hold must be in the invariant, since any of
  them may be written later. `AloneOpens` and `AloneQuiet`, for behaviours with one deployed worker and any threshold and
  cooldown, from `AloneInv`: a closed circuit has counted every failure of the streak, in Redis and in the snapshot about
  to be written.
* `ReplayProofs`: `TypeCorrect`, `ReplayedOnce`, `NothingOrphaned`, `RepeatsAnswered`, from the unique indexes (`Unique`),
  what an answer stands for (`AnswerStored`) and where a repeated command can be (`RepeatStored`).
* `LeaseProofs`: `TypeCorrect`, `CurrentOwned`, `DelayIsKept`, `UncertainForGood`. `InOneRequest` says that a receipt in a
  request has not left and is in no other request; `AppliedHolds` that an applied renewal reaches at least from the start
  of its request; `ViewBounded` that the local expiry exceeds SQS's by at most `ReceiveDelay`.
* `RuntimeProofs`: a part keeps its invariant by its own steps and by the steps of the others, which leave it alone or
  advance the clock while it rests.
  * Guard, `CutoffIsHonoured` and `StopsAreBinding`: the three deadlines are instances of one predicate, `BoundedBy(b)`: no
    lease is valid beyond b and no wrapper has a step beyond what that allows. `Timers` says that every wrapper's next look
    is near, `BeganBefore` that a guard which runs past a latch began before it, so that the lease it may still write is
    the last, and `badSince = firstBad` (`HistoryStep`) that the date in the health file is the one of the history: it is
    not moved by a run that finds health bad again, and is lost only where the history is.
  * Bucket, `BudgetIsExact`: `Accounted` is a balance: tokens given out and tokens left are at most a full bucket and the
    refill of the time up to the last stamp, with what stamps were set back. It is kept because the hash lives as long as
    an empty bucket takes to fill, which is where the proof needs the exactness of rounding (`CeilExact`). `RefusalFits`
    says that the bucket still holds what the last refusal was computed from.
  * Receive loop, `TurnsAreFair`: `Tracked` gives every receipt that is held on to a place it will be released from: a
    batch, the hand, the pending deletes or the deferred messages. `Phases` says which of these are empty in each phase,
    so that none is left when a cycle ends; `Turns` that only messages of a tenant without a turn are deferred.
  * Sampler, `SamplesAreTruthful`: `Readings` says that a reading that still counts began within the time limit.
  * Monitoring, `ReportsAreTruthful`: `FlightsFit` and `CacheFits` carry the age of a depth from the sample into the query
    under way and into the kept report, whose expiry is computed from the earliest moment at which a depth gets stale.
  * `TypesCorrect` for all five.
* `ConsoleProofs`: the same for the pages and what they reach.
  * `SessionsAreBound`, `KeysAreBound`: `LoginUsedOnce` ties the deleted row to the one request that deleted it,
    `PageOfSession` the CSRF token of a page to the user it shows, `LateStays` says that a key which had ended when an
    event was sent stays ended while the event is checked; `UsersKnown` that whoever is named has a row.
  * `WalksSound`: `Sound` says of an answer that it shows, of the rows that did not change, exactly those between its
    cursor and the next one. It stays true, since such rows only get fewer (`SoundStays`). `Descends` orders the cursors of
    a walk, `WalkFits` says that the pages shown are the ones between them, `RequestsFit` that the only request listened
    to is the one of the query. The lemmas about the SQL (`HighestRow`, `TakeIs`, `LastIsLowest`) say that a page of any
    limit is an upper part of what is below its cursor, with its lowest row as the next cursor.
  * `ReplaysSound`: `PanelHasOneKey` and `LastIsLive` say that the requests of a panel share the key of the first and that
    only the last is listened to; `OvertakenKnown` that a request which finds its own key stored follows one the page gave
    up on. `LockFits` names who holds the lock of the page.
  * `KeyPageSound`: `CreationsKnown` accounts for every key asked for, `SeenIsStored` for every list, also the one under
    way, and `SecretFits` keeps a second secret from being made under an open dialog.
  * `NothingReturns`: `CallsInOrder` says that a call whose generation is the present one began after the session was last
    forgotten; `HandleIsKept` that the handle of a frame is held exactly as long as one is pending.
  * `TypesCorrect` for all six.

Only model-checked: liveness (`Settles`, `Isolation`, `Resolves`, `KeepsReceiving`, `CatchesUp`), since fairness and ENABLED
are beyond the prover. The theorems are about specifications without `Fairness` or do not use it. A type invariant that
states the bound TLC puts on a clock or counter is proved with that bound as a constant of any value.

## 5. Findings

1. **A dead-lettered delivery can be reopened** (`delivery_reopened`). `upsertInFlight` updates the row whatever its
   status, so a worker that looked the delivery up before another dead-lettered it sets it back to `IN_FLIGHT`, and it may
   end `SUCCEEDED` or `FAILED` beside its dead letter. `PHASE_7_NOTES.md:209` says that the original of a replay
   "remains complete".
2. **A failed probe does not reopen the circuit** (`circuit_probe`). `half-open` is never stored; `applyFailure` on an
   open circuit keeps the old `openedAt`, so the next delivery is admitted at once. `PHASE_4_NOTES.md:28`: "If it fails,
   we reopen immediately."

### Observations

Behaviours met while modelling that contradict no statement of the repository, or one that can be read both ways:

* Two requests with one idempotency key at the same time: one may get 409, when it overtakes the lookup of the key but
  not the check of the source (`replays.ts:26`). `PHASE_7_NOTES.md` promises 202 for "repetition of the same command"; a
  command that began after the first was committed is always answered (`RepeatAnswered`).
* A panel of a dead letter that is unmounted while its replay is pending leaves `replayPending` set, and the page
  locked until it is left; `LockedForRequest` names this one exception.
* A token bucket with a capacity between 0 and 1 never grants a token; stamps that arrive out of order refill the same
  time twice (the term `back` of `BudgetKept`).
* The grace for bad health is kept in `/run`: it starts anew after a restart of the host, as many times as the host
  restarts (`GraceBinds` excepts it).
* Two workers that record failures at once may overwrite an open circuit with a closed snapshot; the next failures open
  it again. `OpensWhenAlone` and `QuietWhenAlone` speak of one worker for that reason.
* `apiKeyError` says that a creation is unconfirmed for 0, 502 and 503. A 504 would be reported as a plain failure although
  the key may exist; neither the API nor `live.caddy`, which sets no timeout, gives one.
* A list that is refreshed after an unconfirmed creation of a key may be read before the key is committed; the form has
  said by then that the creation could not be confirmed.
* A clipboard write that a closed dialog began may land after the secret of the next dialog was copied; the page says
  "copied" only of a secret that was (`CopiedIsShown`).

## 6. Not modelled, and the plan

Left out for good: metrics and formatting (no influence on the pipeline), layout, charts and navigation of the
dashboard, webhook signatures (cryptography), deployment units, load and failure-drill scripts (they drive the system
and hold none of its logic). The delivery summary is a single count. Message groups and their order inside SQS are not
modelled: no code relies on an order of delivery.

Done in this order: `Delivery`, `Outbox`, `Pipeline` with `AtLeastOnce`, `CircuitBreaker`, `Replay`, `VisibilityLeases`;
then `RuntimeGuard`, `TokenBucket`, `ReceiveCycle`, `Access`, `BacklogSampler`, `Monitoring`, `ListPages`, the pages of the
dashboard and `FrameLoop`; then the proofs, until every safety property of the runs and the refinements of `Pipeline` were
theorems. Next:

1. The same for what the runs do not ask yet: an abstract specification of a replay (a command is carried out once or
   refused) implemented by `Replay`, and one of the circuit for a worker alone.
2. The composition of `ReceiveCycle` with `VisibilityLeases`, which now abstracts the leases to `owned` and `unsure`.
3. A bound on the attempts of several workers that handle one message, instead of `AttemptBudget` for one.
