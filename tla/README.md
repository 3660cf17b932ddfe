# TLA+ development of the AI gateway

The gateway (Go, `src/`) sits between API clients and an AI router. It
authenticates an API key, checks the customer's plan limits in Redis, reserves
money or tokens in Postgres, calls the router, writes a usage ledger row, settles
the reservation and reports the debit to genfity-app, the system that owns the
customers' money. None of this runs in one transaction: a request is a chain of
separate Redis commands and SQL statements, interleaved with other requests of
the same customer, with detached settlement goroutines, with a sweeper and a
retry worker, and with process restarts. The development models that chain.

## Inventory

| component | state | operations | what makes it correct |
|---|---|---|---|
| prepaid wallet (`postgres_store.go`, `gateway_handler.go`) | `credit_balance`/`payg_usd_balance` and the matching `_reserved` column, `updated_at` | reserve, finalize, deferred finalize, sweep, balance push, debit of an embeddings request | a credit is promised once; every exit gives its hold back; nothing but the named disturbances moves a column away from what live requests hold and were charged; no debit without a ledger row; orphaned holds come back |
| usage-debit callbacks (`genfity_callback.go`, `callback_retry.go`) | `pending_callbacks` rows, in-process attempts | post, enqueue, list due, mark, replay | no settled debit is forgotten; no row is given up early; the queue drains |
| plan request counters (`rate_limit_service.go`, `applyPreRequestLimits`) | Redis period counter, reset sentinel, day counters | reset once, reseed from the ledger, check, commit, rollback | the caps hold but for what a reseed cannot see; a refused request gives its slots back unless a command fails; a reset is granted once |
| concurrency slots (`AcquireConcurrency`) | one Redis key with an expiry | INCR, EXPIRE, DECR, DEL | nothing is counted that nobody holds, unless a command failed; a leak heals |
| token quota (`postgres_store.go`, `sync_service.go`) | `quota_counters` rows, one per period end | reserve, finalize, increment by embeddings, release stale, migrate period, admin adjustment | a migration loses or doubles only what races it; the limit holds for what it is asked about, also across an extension |
| plan credits (`rate_limit_service.go`) | Redis counters per day and per period | check, finalize, roll back | caps hold, rollbacks match increments |
| free-model limits, RPM, TPM | Redis counters | check, finalize, roll back | caps hold, rollbacks match increments |
| request pipeline: the handlers, streaming, settlement decision and usage parsing (`gateway_handler.go`, `cli_proxy_client.go`, `error_sanitize.go`) | one request: what was read, captured, forwarded, counted, recorded and finalized | call and retry, copy the stream, classify the answer, parse usage, decide what is billed and counted, record, finalize | upstream is asked once; the client sees masked whole events; only service is charged, at the reported usage; every exit settles once and ends |
| entitlement sync | `customer_entitlements` rows | single-row upsert, plan upsert, quota carry-over, RPD reset | one active row per schema; no usage lost at an extension |
| API keys (`api_key_service.go`, `cache.go`) | `api_keys` rows, Redis copies with a TTL | create, validate through the cache, revoke, change, regenerate | a revoked or replaced key stops working within the TTL; a regenerate keeps the settings |
| usage reports and rollup (`postgres_store.go`) | `usage_ledger` rows, `usage_daily_rollup` cells | append, roll up and prune a day, some fifteen reports | pruning is invisible to the reports; no usage is lost or counted twice |
| model catalogue (`sync_service.go`, `model_service.go`) | `ai_models`, `ai_model_routes`, `ai_model_prices` | SyncModels, edits by administrators, resolution of a name | the catalogue is what was synced; a retired model has no route and no price |
| embeddings handler | `quota_counters` and the wallet row | call, record, then increment the quota without a limit check and debit the credit package (`recordUsageWithLegacyBilling`); no reservation | bills what its ledger row records, and no error |
| image handlers (generations and edits) | the reservation of the wallet or quota | reserve, call, finalize; an unknown model is passed on unbilled | a reservation is finalized once |
| other admin handlers, monitoring, proxies, wiring | tables, or none | CRUD, reporting, I/O | - |

How they interact. A handler first applies the limits (Redis), then takes a
concurrency slot (Redis), then reserves (Postgres), then calls the router.
`recordAndFinalizeRuntime` writes the ledger row, finalizes the reservation and
starts the callback goroutine, on the request context, on a detached context or in
a detached goroutine, depending on the route and the outcome. Deferred functions
of the handler release the concurrency slot, roll back the counters unless they
were committed, and finalize the reservation with zero unless it was settled. In
the background one goroutine per process sweeps stale reservations every minute
and another retries callbacks. genfity-app pushes entitlements and balances at any
time.

What is hard: read-then-write sequences on Redis; a reserved column shared by all
requests of a customer, so that a finalize cannot tell whose hold it gives back;
time-outs (request, sweeper, slot, backoff) racing each other; deferred clean-up
racing asynchronous settlement; a crash between any two statements; replies lost
after the statement was applied. `PROJECT.json` lists these places line by line
under `hazards`.

## Modules

| module | models | composes with |
|---|---|---|
| `WalletSettlement` | one wallet row, the requests that spend it, sweeper, balance push | its `posted` debits are what `CallbackDelivery` starts from |
| `CallbackDelivery` | a settled debit's way to genfity-app | - |
| `PreRequestLimits` | period and day counters, ledger reseed, commit and rollback | - |
| `ConcurrencySlots` | the per-account concurrency key | - |
| `QuotaCounters` | the token quota of a subscription, the cached entitlement and the sync of a changed expiry | - |
| `ResponseSettlement` | what an answer is worth: classification of bodies and streams, usage parsing, billing decision, credits, ledger row (operators only) | extended by `RequestPipeline` |
| `RequestPipeline` | one request through its handler: limits, reservation, upstream call, stream, settlement, deferred clean-up | its outcomes are the nondeterministic outcomes of `WalletSettlement` |
| `UsageReports` | the reports as queries over ledger and rollup (operators only) | extended by `UsageRollup` |
| `UsageBook` | abstract specification: a book of usage that only grows | - |
| `UsageRollup` | appends, the rollup job, the clock | implements `UsageBook` |
| `ApiKeys` | a key, its cache, requests and customer operations | - |
| `Catalogue` | models, routes and prices, their syncs and edits | - |
| `MC...` | symmetry sets and model values for TLC | each extends its module |
| `..._proofs` | theorems and proofs | each extends its module and TLAPS; `Limits_proofs` both `PreRequestLimits` and `ConcurrencySlots` |

Definitions named in comments as *Mutant* are deliberately wrong variants of the
definition that follows; no specification uses them. They serve to show that each
property can fail.

### WalletSettlement

State: the row (`balance`, `reserved`, and `idle`, the time since `updated_at`) and,
per request, the position of its handler or settlement goroutine (`pc`), the
reservation it carries (`hold`), the charge being settled (`due`), the complement
of the Go variable `settled` (`armed`), the ledger row, and the time since the
reservation (`age`). A request may run for any time, also longer than the sweeper's
threshold. The rest is history: `held`, `spent` and `posted` per request, and three
sums that say how far the row may have drifted. `orphaned` is what a crash, a failed
finalize or a lost reply left in `reserved`; `excess` is what was taken out of it although
a live request may own it, by a sweep of holds older than the threshold or by a repeated
finalize; `exposed` is what left the balance without having been reserved, by a charge above
the estimate or by a push. Each is increased at the one action that causes it, so the
properties that name them say that no other action does.

| action | code |
|---|---|
| `Reserve`, `ReserveFree`, `ReserveRejected`, `ReserveReplyLost` | the prepaid branches of `tryPriorityBilling`, `ReserveRequestCredits`, `ReservePaygUsdBalance` |
| `Answered`, `Refused`, `Disconnected`, `Unreachable`, `Aborted` | the exits of `ChatCompletions` and `Messages` after the reservation |
| `RecordUsage`, `RecordUsageFailed`, `Finalize`, `Release`, `FinalizeFailed`, `FinalizeReplyLost` | `recordAndFinalizeRuntime`, `finalizeRuntimeReservation`, `FinalizeRequestCredits`, `FinalizePaygUsdBalance` |
| `DeferredFinalize` | the handlers' `defer` |
| `Sweep` | `ReleaseStaleReservations` |
| `SyncBalance` | `UpsertBalanceSnapshot` and the entitlement upsert |
| `DebitCreditBalance` | `DebitCreditBalance`, called by the embeddings handler after its own ledger insert; the statement checks the balance net of reservations |
| `Crash`, `Tick` | process death, clock |

The two prepaid schemas run the same statements on different columns, so one row
stands for either. Amounts are small naturals; the code's decimals are not
distinguished from them because every statement only adds, subtracts, compares,
`LEAST`s and `GREATEST`s. What a response costs is left open (`d` in `0..MaxCharge`,
subject to `Chargeable`); how it is computed is the settlement-decision component.

### CallbackDelivery

State: the `PostUsageDebitAsync` goroutine of each debit, the `pending_callbacks`
rows (`status`, `attempts`, and the due ones in order), each worker's batch as it was
read together with the outcome it has yet to mark, and genfity-app's ledger, which
is external and idempotent on the request id. Posting and marking are separate
steps. Deleting a row is `status = "none"`.

### PreRequestLimits

State: the Redis keys, the day, the requests with a success row in the ledger (`recorded`)
and, per request, its position and `preRequestCounters`. An absent key and a zero
one behave alike (GET reads 0, INCR starts from 0) and are not told apart. Every command
and query is a step that may fail, because the client leaves and so cancels the request's
context or because Redis or Postgres does not answer: a GET that fails reads 0 (`ReadFailed`),
a query that fails lists some of the rows (`ListFailed`), a failed INCR refuses the request
and may have been applied (`CountFailed`, `DayCountFailed`), errors of SET and DECR are ignored
(`SeedFailed`, `PeriodExceededFailed`, `DayExceededFailed`, `RollbackFailed`). The keys may be lost
at any step (`Flush`). A streaming handler writes the ledger row before it commits the
counters and the others after; since the slot stays taken in both orders, one stands
for both.

History: `inCounter` are the requests whose increment the counter holds, `stuck` those of them
whose DECR will never come, `lost` those whose increment a SET or a loss of the key took
away, and `forgotten` the granted requests that the counter did not count when another one
went on to its INCR; `resets` counts resets, and `dayOf` and `lostDay` are the same for the day counters.

### ConcurrencySlots

State: the key's value, existence and remaining life, and each request's position
between the commands of `AcquireConcurrency` and its release (`at`). `slots` may go negative,
as the Redis counter may. INCR, EXPIRE, DECR and DEL may each fail, and the reply to an INCR
or DECR may be lost; `leaked` counts the increments that nobody will take back. The
specification is `SlotSpec`, its process death `ProcessDies`: names differ from those of
`PreRequestLimits` so that one module can hold the proofs of both kinds of limit.

### QuotaCounters

State: `tokens_used` and `tokens_reserved` per period end (`used`, `reserved`), the period
end in the entitlement row and in its cached copy, per sync its position, the period end it
brings and the sum its migration has read (`sync`, `target`, `carry`), and per request the
period end it saw and its reservation. A missing row and a row of zeros behave alike.

| action | code |
|---|---|
| `CacheHit`, `CacheMiss`, `CacheFill`, `CacheExpires` | `EntitlementService.GetByUser` and the cache under it |
| `ReserveQuotaTokens`, `ReserveRejected`, `Abandon` | the subscription branch of `tryPriorityBilling`, with its rollbacks when a plan credit is refused |
| `IncrementQuotaCounter` | the embeddings handler's increment, which asks no limit |
| `Finalize`, `FinalizeCreditFailed`, `FinalizeDeferred`, `FinalizeFailed`, `GiveBack` | `finalizeRuntimeReservation` as called by the settlement or by the deferred finalize, `FinalizeQuotaTokens` |
| `Upsert`, `CacheDel`, `CacheDelFailed` | one item of `SyncCustomerEntitlements`, `EntitlementService.Upsert`; any number of syncs overlap |
| `MigrateRead`, `MigrateFold`, `MigrateCommit`, `MigrateFailed`, `MigrateDeadlock` | `MigrateQuotaCounterPeriodEnd`: the snapshot of the first statement, its upsert with the row lock, the DELETE with the commit, and its ways to fail |
| `Sweep`, `Crash` | `ReleaseStaleQuotaReservations`, process death |

Both statements of a migration run at READ COMMITTED, so finalizes, increments and
other migrations interleave with them; what they write to the row the migration has
written waits for its lock. Time is not counted: a sweep may take any row, also one in
which live requests hold tokens, which `REQUEST_TIMEOUT` allows. `request_count` is left out,
and so is the admin adjustment of `tokens_used`.

History: `settled`, the tokens reported so far; `late` and `moved`, per migration, the tokens that
came onto a row after it was read and those another migration took off it, which at the
commit become `dropped` and `doubled`; `loose`, tokens of live requests that a sweep, a migration or a
repeated finalize took out of `reserved`; `unchecked`, tokens that were added without asking the
limit (embeddings, a use above the estimate) or that were reserved in one row while others
were in use.

### ResponseSettlement and RequestPipeline

A stream is a sequence of events, an event one of a few kinds (`Kinds`: text, a finish
reason, a usage report, an error, a heartbeat, the Anthropic messages) and two bytes
long, since all that splitting, capturing and reassembling can tell is whether an event
is whole. `ResponseSettlement` has the functions over such sequences one by one under
the names of the code (`ClassifySSECompletion`, `ParseUsageFromSSEBody`,
`DecideSettlementBilling`, `UsageRow`, ...). Charges are computed in credits (`CreditBillingBuckets`)
and in dollars per token (`CostUSD`); the separate prices of cached tokens are left out.
Upstream may answer 200, 300, 400, 499 or 503: one status for every branch that the
handlers, `shouldCountAsSuccess` and `recordUsage` take on it.

`RequestPipeline` follows one request. State: the handler's position, the upstream answer
read so far (`wire`), `tailCaptureBuffer` (`captured`), `sseRewriteBuffer` (`pending`), what the
client got (`forwarded`), counters, reservation, and the settlement as a process of its
own (`job`), because it may run in a detached goroutine while the handler leaves.

| action | code |
|---|---|
| `Refuse`, `TakeCounters`, `RefuseLate`, `Reserve`, `PassThrough` | the first half of the handlers up to the upstream call; `PassThrough` is an image model that the catalogue does not list |
| `ConnectRefused`, `CallFailed`, `GiveUp`, `AllCandidatesFailed`, `DisconnectedBeforeAnswer`, `Answered` | `forwardJSON` with its retries of refused connections, and the handlers' treatment of a failed call |
| `ReadChunk`, `EndOfStream`, `CountStream`, `StreamSettled` | the copy loop of `streamUpstreamResponse` and the settlement of a stream |
| `AnswerRead`, `ErrorRead`, `ErrorSettled`, `ImagesRead` | answers that are read as a whole |
| `EmbeddingsRead` | the same for embeddings, with `LegacyBilling`: the quota increment and the wallet debit of `recordUsageWithLegacyBilling`, each of which may fail |
| `RecordUsage`, `RecordUsageFailed`, `Finalize`, `FinalizeFailed` | `recordAndFinalizeRuntime`, on the request context or detached; a finalize posts the debit if the callback is enabled and the amount positive, and drops the cached entitlement |
| `DeferredFinalize`, `Leave` | the handlers' `defer`s |
| `ClientLeaves` | the client's disconnect, at any moment |

What the rewrite buffer writes is `Safe`: the masked, renamed form of each whole event
(`SafeEvents`) and, when a stream ends within an event, its unmasked half (`Fragment`).

### UsageReports, UsageBook and UsageRollup

Time is counted in half days so that a window may begin within a day. Every report is
an operator over `ledger` and `rollup`, by its name in the code; what it selects is a set
of rows and a set of cells, and a sum is the number of points below a function's graph
(`SumOf`). A job does its days oldest first (`DayAt` is the one it is at). A rollup job is its
statements: list the days, and per day sum, upsert, delete, commit, each reading what is
committed when it begins (READ COMMITTED); a job whose transaction fails (`Abort`) ends,
with its earlier days committed. Two jobs may run at once since an HTTP call starts them.
`BookSpec` is the refinement: with `Booked` (the cells of the rolled-up days and the sums of
the raw ones) for the book, every step of ledger and rollup is an addition of one request
or no step at all.

### ApiKeys

One key's row, the cached records by prefix with the ticks they have left, requests
between their cache read, row read and fill, and customer operations between their row
read, write and cache delete. Every command of either may fail: a failing cache GET is a
miss, a failing row read or write of `last_used_at` refuses the request. `ago`, `wanted` and
`overtaken` are history. The value of `last_used_at` is left out.

### Catalogue

Routes and prices are rows of two tables that behave alike (`Rows`). A sync is its statements:
per model the upsert, then for route and price the look-up and the write; then the
list of models to retire and, per model, status, route and price. A read that fails is
taken for an absent row, a failing write ends the first half and is ignored in the
cleanup, as in the code. Administrators create, change (a read and a write of the whole row)
and delete at any time. `disturbed` and `tampered` are history. A payload without a route
leaves the route alone; a model that was retired and is taken up again without one
therefore has none, because its old route stays retired.

## Runs

Passing runs:

| run | shows |
|---|---|
| run | shows |
|---|---|
| `wallet_safety` | two requests of either route, every kind of failing statement, repeated finalizes, a crash, a sweeper that also takes holds of running requests, overrunning charges, a push and embeddings' debits: how far row and books may drift apart is bounded by what each of these moved (`HoldsCovered`, `NoLeak`, `Solvent`, `BilledInFull`) |
| `wallet_recovery` | the same environment, with handlers that may hang: `TypeOK`, `DebitRecorded`, and `OrphansReleased` once the row is left alone |
| `callback_delivery` | two processes, lost answers and a failing statement, a crash or a replay: `ForgottenOnlyUnqueued` (a debit that is nowhere was posted the full number of times and did not get into the queue), `AbandonedAfterMaxRetry`, and `QueueDrains` although genfity-app may stay down |
| `limits` | three overlapping requests after an earlier one, a debt reserve, a daily cap, midnight, a reset, and any two of lost keys, a crash, a failing command or query: `PeriodCapHolds`, `SlotsAccounted`, `DayCapHolds` |
| `concurrency_slots` | a busy account with lost expiries, failing commands, lost replies and a crash: `NoPhantomSlots`, `LeakHealed` |
| `quota_counters` | two requests, with or without a reservation, two overlapping changes of the expiry, the sweeper, a failing statement or a crash: `TypeOK`, `UsageConserved`, `QuotaKept` |
| `request_pipeline` | every route and billing mode, streams of up to four events split anywhere and longer than the capture, a client that leaves, a failing statement: the client sees whole masked events (`ForwardedFaithfully`), upstream is asked once (`SentOnce`), what is charged was served and what was served is charged (`ChargedForService`, `CompletionCharged`) at the reported usage (`UsageAsReported`), Redis, ledger, reservation and callback agree (`CountersAgree`, `SettledOnce`, `ChargeMatchesRow`), embeddings bill what they record (`EmbeddingsBilled`); every request ends if its client takes the answer or leaves and the database answers (`RequestEnds`) |
| `usage_rollup` | two jobs, a failing transaction, rows a day late: `ReportsExact`, `WindowBounds`, `RecentRowsRaw`, `PrunedDaysFinal`, and the refinement `BookSpec` |
| `api_keys` | requests and two operations on a key, any command of which may fail: `CacheCoherent`, `SettingsKept`, `AnswersTimely` |
| `catalogue` | two syncs, one edit, one failing statement: `TypeOK`, `SyncedExact`, `RetiredInert`, `SyncSucceeds` |

Violation runs (`findings` in `PROJECT.json`):

| run | shows |
|---|---|
| `wallet_slow_request` | the sweeper (5 min) clears the hold of a request that is still running (330 s by default), although two comments say that what it clears is orphaned by definition |
| `callback_unqueued` | the callback built in `server.go` has no queue, so a debit is lost after three attempts, although a comment says that it is persisted |

One more configuration, which is not among the project's runs, reproduces an execution in which
the code does something else than a comment says: in `MCWalletRepeat.cfg` a Messages request
finalizes twice after a failed ledger insert, and the second time takes another request's hold.

### Known exceptions

The properties carry conditions where the code gives no more, and history variables where what
the code costs can be bounded:

- A request that takes longer than the sweeper's five minutes loses its hold, in the wallet
  and in the quota (`excess`, `loose`); another request may then be admitted on the same money
  or tokens, and the LEAST cap of a finalize may leave the first one unpaid. `BilledInFull` and
  `QuotaKept` bound what that can cost. A Messages request whose ledger insert fails
  finalizes twice, with the same effect.
- A charge above its estimate and a push that lowers the balance may leave `reserved` above
  the balance (`exposed`).
- An orphaned hold is never swept while the customer's own requests keep renewing
  `updated_at`. `OrphansReleased` therefore speaks of rows that are left alone.
- A settlement that fails in its detached goroutine is only logged: the sweeper later
  returns the hold, and the served request is never paid (`Faults` with `"finalize"`; no
  property claims otherwise).
- A reseed of the period counter sees success rows only. What is still running, is recorded
  as failed although it counts, or was granted since the ledger was read is `forgotten`; so is
  what a failing query did not list, or everything when it listed nothing or the SET failed.
  A GET that fails reads 0 and makes a seeded counter be reseeded. `PeriodCapHolds` speaks of
  the requests that are not forgotten, and adds one for each DECR of an increment that was
  no longer in the counter (`Undercut`). A loss of the keys removes the sentinel, so a pending
  reset is granted again.
- A debt reserve that takes the cap to 0 removes it (`RPP = 2`, `Mult = 1`, `Debt = 2`), since 0 means
  unlimited; `PeriodCapHolds` asks for `EffectiveRPP > 0`.
- A DECR runs on the request's context and its error is ignored, and an INCR may be applied
  without an answer: a client that leaves at the wrong moment keeps its slot until the
  counter is next overwritten (`stuck`) or the key expires (`leaked`).
- A rollback after midnight decrements the new day's counter, and one after a loss of the
  keys a counter without the increment. `DayCapHolds` bounds what that costs: one extra
  request for each (`Strays`).
- A process that dies between INCR and EXPIRE leaves a concurrency key that never
  expires; `LeakHealed` speaks of keys that have an expiry. The DEL of a release may
  remove a newer request's increment, so the concurrency limit itself is not stated,
  only that the counter is never too high.
- A finalize that arrives between the two statements of a quota migration is deleted with
  the old row (`dropped`), and two overlapping migrations may carry the same tokens twice
  (`doubled`). The reservations of the old rows are deleted as well (`loose`). While requests
  of two period ends are under way each is checked against its own row only (`unchecked`).
- Embeddings add to `tokens_used` whatever the limit, and their debit is skipped when the
  balance is short.
- A relayed 3xx counts in the ledger and in `request_count` but not in Redis, because
  `recordUsage` takes any status below 400 for a success and `shouldCountAsSuccess` only 2xx. An
  upstream's own 499 is recorded like a disconnect of the client (`CountedApart`).
- The total of a row whose usage came from Anthropic's `message_delta` is that of the
  completion alone (`gateway_handler.go:583-585`); `UsageAsReported` checks prompt and
  completion there.
- An image request is finalized without an amount, so the whole reservation is returned,
  while its ledger row shows the credits as its cost (`gateway_handler.go:2655`, `2667-2669`).
  `ChargeMatchesRow` therefore speaks of chat requests.
- When every candidate failed, the durable `request_count` is incremented although the comment
  at `gateway_handler.go:3127-3129` says that the user is not penalized.
- A stream longer than the capture loses the prompt tokens that Anthropic reports at its
  beginning (`UsageAsReported`), and may be classified as unfinished (`CompletionCharged`).
- The fragment of an event that upstream never finished is forwarded unmasked
  (`ForwardedFaithfully`).
- A window that begins within a rolled-up day counts all of that day (`WindowBounds` bounds
  the difference). A customer's 30-day summary reads raw rows only and so covers the
  retention at most; a period counter reseeded after the pruning of its first days is
  seeded too low.
- A cached key may outlive its revocation by the TTL and one fill when a fill was overtaken
  or a delete lost, although `api_key_service.go:207-210` says that a regenerated key stops working
  immediately (`AnswersTimely` gives the bound). A regenerate that overlaps a revoke restores
  the status it had read (`SettingsKept` exempts it).
- An inactive price newer than the active one makes every later SyncModels call fail
  (`SyncSucceeds`), and a cleanup statement that fails is never repeated, because the next
  cleanup skips retired models (`RetiredInert` exempts faults).

### Bounds

Two wallet requests are enough because every statement touches one row and one request's
data: two are needed for one request to disturb another's hold, and the sums of the
properties do not tell a third from the second. Amounts up to 2 let
an actual charge lie below, at and above an estimate. Time thresholds are one or two
ticks: only their order matters (request ends before or after the sweep). Two debits
and two processes let a worker overtake another on the same row while a second row
sits in the batch. Four requests, one of them in the ledger at the start, against a cap of
two (twice two, less a debt of two) and one a day let both limits refuse; a second day
lets a rollback cross midnight; two mishaps let a lost key or a failed GET start a reseed
whose query or SET then fails. Two requests of up to two tokens against a quota of three,
with two period ends and two syncs, let a request of the first period settle after a
second one was admitted in the next, and within another's migration. Three calls and two
failures on a key with a limit of two let one call be refused while another leaks. In the pipeline four
events are enough for content, finish, usage and a heartbeat or an error, in every order
a provider may send them, and a capture of three of them overflows. Two usage rows over
four days with a retention of one let one row be rolled up while the other is raw, late, or
on the same day; two jobs overlap. Two key operations, three raw keys and one
request meet every order of read, write, delete and fill. Two syncs of two models, one
of which is the prefixed name of the other, with one edit and one fault let a route or
price be created, changed, retired and contested. `MaxCrashes`, `MaxDeaths`, `MaxFailures`,
`MaxMishaps`, `MaxEvents` and `MaxFaults` bound the environment, never the
code. `MaxMishaps`, `MaxEvents` and `MaxFaults` bound several kinds of event together, so that each
kind occurs in some execution. Symmetry is declared in runs without a temporal
property only.

### Fairness

Fairness is assumed only where the program enforces an end. The wallet assumes the
clock and the sweeper's ticker: handlers may hang, and `OrphansReleased` does not need them.
The slots assume the clock of Redis only. The callbacks assume the goroutines, whose posts
time out, and the tickers of the retry workers. `FairSpec` of the pipeline assumes the
steps of handler and settlement whose waits have a deadline: the call of the router
(the HTTP client's timeout), the detached settlement (30 s) and Redis (its client's
timeouts). It leaves out the two that have none. A write to the client (`ToClient`) may block
for ever, since `WriteTimeout` is 0, and so may a statement on the request's context or,
in the deferred finalize, on `context.Background()` (`Untimed`). That clients take what is
written or leave, and that Postgres answers, are therefore written into `RequestEnds` as
`ClientTakes` and `DatabaseAnswers`, and the run shows that nothing else is needed. Nothing is
assumed of what upstream says, nor of clients sending requests: they may stop or keep
coming back (`Recycle`). A successful statement is never assumed: failure actions are part of the
fair disjunction, so a fair execution may fail every time the constants let it.
`Crash`, `ProcessDies`, `SyncBalance`, `ReplayUsageDebits` and the loss of keys are not fair.

Deadlock is checked except where a system whose requests or debits are all over
really has nothing left to do (`CHECK_DEADLOCK FALSE` in the callback, limit, quota,
pipeline, rollup and catalogue runs).

Each module also states its types as `TypeOK` (`SlotTypes` for the slots); the wallet, quota and catalogue runs check it,
in the catalogue together with what the schema promises, and the proofs use it. The
other runs spend their properties on behaviour.

## Proofs

All theorems hold for every value of the constants that meets the module's `ASSUME`; two
need a capture of a certain length. The inductive invariants of the limits, the wallet,
the callbacks and the quota were checked by TLC before they were proved.

| theorem | states | hypotheses | inductive invariant |
|---|---|---|---|
| `TypeCorrect` (wallet, callbacks, quota, keys) | `TypeOK` | - | `TypeOK`; for the callbacks with `TriesLeft` and `Marking`, for the keys with `Shape` and `Uncreated` |
| `DebitIsRecorded` | `DebitRecorded` | - | `DebitInv`: nothing is spent before the ledger row is written and the settlement about to be applied does not exceed it |
| `HoldsStayCovered`, `NoHoldLeaks`, `SolventAlways`, `PostedIsPaid` | `HoldsCovered`, `NoLeak`, `Solvent`, `BilledInFull` | - | `OwnInv` and `SumsInv` (below) |
| `NothingForgotten` | `ForgottenOnlyUnqueued`, for the callback with and the one without a queue | - | `AcknowledgedInv`: an acknowledgement not yet acted upon is of a recorded debit, and a goroutine enqueues only after all its attempts |
| `DueRowsPending` | the due rows are pending rows, each once | - | itself with the types; `NotDueFacts` says what removing a row does to the list |
| `GivenUpAfterMaxRetry` | `AbandonedAfterMaxRetry` | - | `AttemptsPosted`: the attempts in a row, and those a worker has read from it, were all posted; a worker about to count one more has posted that one too |
| `SlotsAlwaysAccounted`, `PeriodCapAlwaysHolds` | `SlotsAccounted`, `PeriodCapHolds` | - | `PeriodInv` (below) |
| `DayCapAlwaysHolds` | `DayCapHolds` | - | `DayPlaces` and `DayInv`: a day's counter falls short of the increments it holds by at most the stray decrements |
| `SlotsNeverPhantom` | `NoPhantomSlots` | - | the property with the type invariant |
| `UsageAlwaysConserved` | `UsageConserved` | - | `ConserveInv`: a migration under way has read what is still in the other rows, but for the late and the moved tokens (`ReadInv`) |
| `QuotaAlwaysKept` | `QuotaKept` | - | `QuotaInv`, on top of the conservation: the holds of live requests are in `reserved` of their rows but for the loose tokens (`Backed`) |
| `SettingsAreKept` | `SettingsKept` | - | `SnapCurrent`: what an operation read is still so when it writes, unless it was overtaken |
| `CacheIsCoherent` | `CacheCoherent` | - | `FillCurrent`, the same of a request about to fill the cache; `Fresh`: a raw key that is not written yet is nowhere else |
| `AnswersAreTimely` | `AnswersTimely` (action property) | - | `FillTimely`, `EntryTimely`: what is cached or about to be cached gives the row's answer, or the answer changed no longer ago than the entry is old |
| `SentAtMostOnce`, `AlwaysSettledOnce`, `CountersAlwaysAgree` | `SentOnce`, `SettledOnce`, `CountersAgree` | - | `Control` |
| `EmbeddingsAlwaysBilled` | `EmbeddingsBilled` | - | `Control` and `Metered`: nothing is billed before the handler is about to return, and only by embeddings |
| `ChargeAlwaysMatchesRow` | `ChargeMatchesRow` | - | `Control` and `Account` |
| `AlwaysChargedForService` | `ChargedForService` | the capture holds one event | `Control`, `Stream` and `Account` |
| `CompletionAlwaysCharged` | `CompletionCharged` | - | the same |
| `UsageAlwaysAsReported` | `UsageAsReported` | the capture holds three events | the same |
| `AlwaysForwardedFaithfully` | `ForwardedFaithfully` | - | `Delivery` with the other three: the client has the safe form of the whole events read so far, and the buffer keeps the unfinished one |
| `RollupInvariant`, `TypeCorrect` (rollup) | the invariant, `TypeOK` | - | `RowsInv`, `JobTypes`, `DaysInv`, `FloorInv`, `JobsInv`, `LockInv` (below) |
| `ReportsAreExact`, `WindowsBounded`, `RecentRowsKept` | `ReportsExact`, `WindowBounds`, `RecentRowsRaw` | - | the same |
| `PrunedFinal` | `PrunedDaysFinal` (action property) | - | the same |
| `Refines` | `BookSpec` (refinement of `UsageBook`) | - | the same |
| `CatalogueInvariant`, `TypeCorrect` (catalogue) | the invariant, `TypeOK` | - | `Types`, `Schema`, `Held`, `Place`, `Progress`, `Calm` (below) |
| `SyncsAreExact`, `ConflictsExplained`, `RetiredStayInert` | `SyncedExact`, `SyncSucceeds`, `RetiredInert` | - | the same |

The wallet. A finalize cannot see whose hold it releases, so none of the four bounds is
inductive by itself. `OwnInv` says when a request still owns what it reserved, and that the
row was touched no earlier than the youngest live reservation, which is what limits a sweep to holds
older than the threshold. `SumsInv` has the four bounds and `WorthInv`: what live requests
hold and what was posted but not paid, together, is in the reserved column and in the balance
up to `excess` and `exposed`. That one is needed because a finalize that hits its cap turns
part of a hold into a debt.

The period counter. Where a request stands decides what it holds (`PeriodPlaces`).
`CounterInv` bounds the counter from both sides by the requests it counts: every one of them
holds a slot or is stuck, and it falls short of their number by at most the decrements that
were not its own. `BaselineInv` is the point of the reseed: either every granted request
that is not forgotten is in the counter, or the counter reads 0 and nobody is about to
increment it, so the next request reseeds first. `GrantInv` is the cap itself over granted
requests, and `ResetInv` has at most one reset done or under way for each life of the sentinel.

The four invariants of the pipeline stand one above the other. `Control` relates the place of
the handler, the step of the settlement (`Jobs`), the deferred finalize, the row and the
reservation; its part `Faultless` is what remains of an exactly-once settlement in the
middle of the request, `Agreed` carries the one decision that handler and settlement
take apart (`SameDecision` proves the two functions equal), and `Quitted` singles out the
one row that is written without a settlement. `Stream` says which bytes upstream may have
sent (halves of events alternate and the kinds come in the order of a provider's stream)
and that `tailCaptureBuffer` holds the last `CaptureLimit` of them, however the reads split
them (`Reading`, `Capturing`). `Account` says where the body and status of a settlement
came from. From these, `EventsAfter` bounds what may follow an event that closes a stream,
`ClosingCaptured` places it in the capture, and `UsageReported`, `DeltaReported` say what the
parser makes of it. The two hypotheses on the capture are met by
`maxStreamCaptureBytes` unless a single event is nearly as long as the capture.
`Delivery` compares what a sequence of reads wrote with what one read of everything
would have written. It needs that cutting a stream at the last event boundary commutes
with splitting it into events, which is proved from the alternation of halves in `Stream`.

The rollup. `ReportsExact` says nothing of an open transaction, so it is not inductive: a
second job may write its sums after the first has deleted the rows. `DaysInv` has every day
raw as a whole or pruned as a whole, each cell exact or, while the rows are there, not yet
written, and only days that some retention has given up touched at all; the last clause needs
that no row arrives more days late (`MaxLag`) than a retention keeps (an assumption). `FloorInv` puts the
pruned days before the raw ones, which is what lets a report split at `FloorDay`;
it survives because a deleting job still has every older raw day before it (`TodoOK`).
`JobsInv` says that the sums of a transaction are exact or were read from a day that
was already pruned, and that it deletes all or nothing of its day; `LockInv` that two
transactions that have written never share a cell, which the row locks of the upsert
give. The refinement then maps every step: an append adds one request to the book, and
summing, writing, deleting, committing and failing leave `Booked` as it was. The reports
follow from `DaysInv` and `FloorInv`, because `SumOf` is additive over disjoint sets: the two
halves of a report's UNION add up to the same query over all rows ever served.

The catalogue. That a table has one active row per model is not inductive, because syncs
and PATCHes write back rows that they read earlier: `Held` says that an id belongs to one
table and model for ever, also in those copies, and `Schema` has the ids unique. `Place`
is what is true of a sync wherever it is interrupted. `Progress` says what it has done
so far as long as nobody disturbed it: `Upserting` for the first half, with the table it
is at exempted, `Cleaning` for the second; at its end it is `SyncedExact`, at a
conflict `SyncSucceeds`. `Calm` is what remains of `RetiredInert` in the middle of a cleanup:
a table of a retired model is clean, or the one call under way is about to clean it.

What the parser computes for every sequence of events needs an induction over the events.
The library's induction theorems cannot be instantiated here, so `Least` and `UpTo` state
induction for a *set* of numbers, from the well-founded order of the naturals, and each
claim about the parser names the set at which it holds (`Accumulated`, `SilentStream`,
`AfterFinal`).

The proofs found one defect of the model: four operators of `ResponseSettlement` and
`RequestPipeline` (`CaptureWrite`, `ClassifySSECompletion`, `BilledTokens`, `LedgerErrorCode`) used `CASE` with
overlapping guards, which TLC evaluates in order and TLA+ does not. They are now chains of
`IF`, as the code's early returns are.

The two hypotheses on the capture are all that is assumed beyond the `ASSUME`s. In particular
no theorem assumes that requests end before the sweep, that finalizes are not repeated,
that there is a queue, that Redis keeps its keys or that its commands succeed: the
properties say what each of these costs. A sum is written as a cardinality, of the units of a
function (`Units` in the wallet, the pairs under `Sum` in the quota, `Points` in the rollup), so that
the finite-set theorems apply.

Only model-checked: the liveness properties (`OrphansReleased`, `QueueDrains`, `LeakHealed`,
`RequestEnds`), which are out of the prover's reach. Every other property of a passing run is
stated by a theorem.

## Not modelled

- RPM, TPM, free-model and plan-credit counters: a script or a command on one key each,
  or the increment-check-rollback pattern of `PreRequestLimits` and `ConcurrencySlots`. The reset of
  the day counter at an extension (`ResetPlanRPDOnce`), which is `ResetRequestsPerPeriodOnce` on
  another key.
- `ReserveCreditBalance` and `FinalizeCreditBalance`, the wallet's statements on `balance_snapshot` for
  keys without a billing source. (The legacy statements of the embeddings handler,
  `DebitCreditBalance` and `IncrementQuotaCounter`, are modelled.) Separate prices of cached tokens.
- `request_count` and the administrator's adjustment of `tokens_used`, which reads and
  writes the counter in two steps.
- The replay of debits composed with the wallet: what genfity-app is told about a request
  whose finalize failed.
- Plan-code upserts of the entitlement sync; router instances and credit costs of the
  catalogue (single-row CRUD).
- Monitoring, proxy and health handlers; tool validation (rewriting of text); headers and
  URLs of the upstream client; the in-memory store (a test double); configuration and
  wiring, whose effect enters as constants; generated queries. Of the schema, the
  constraints that matter enter as guards or assumptions.

## Plan

1. Done: the modules above, with proofs for every component that has a run.
2. An abstract reserve-once, settle-once, report-once specification that
   `WalletSettlement` composed with `CallbackDelivery` implements.
