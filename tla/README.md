# wanpay, specified

TLA+ specifications of the payment gateway in this repository, the TLC runs that check them and the
proofs of what matters most. Paths below are relative to the repository; `UC` stands for
`internal/usecase/impl`, `MW` for `internal/delivery/http/middleware`, `WK` for `internal/infrastructure/worker`,
`PG` for `internal/infrastructure/database/postgres`.

## 1. The system

A Go service (one binary, several instances behind a load balancer), PostgreSQL, Redis (or an in-memory
cache when there is one instance), four payment providers (DOKU, Midtrans, Xendit, iPaymu), and the
merchants' own HTTP endpoints.

| component | state | operations | interacts with | what is hard | what makes it correct |
|---|---|---|---|---|---|
| Payments (`UC/payment.go`) | `payments`, `payment_audits` | CreateVA/CreateQRIS, CancelPayment, HandleWebhook | provider (call, webhook), ledger, outbox, expiry sweep | a cancel call spans two transactions and a provider call, and writes rows it read before; webhooks repeat and race | credited once, exactly when paid; the merchant is told what the ledger says; a final row stays; every due payment is closed |
| Expiry worker (`WK/expiry_worker.go`) | none of its own | a sweep each minute | payments | meets rows being cancelled or paid | closes pending rows and no others |
| Disbursements (`UC/disbursement.go`) | `disbursements` | Disburse, HandleDisbursementCallback | merchant row lock, ledger, outbox, provider | balance and pending sum are read by different statements; answer and callback race; answers get lost | no payout without funds reserved or debited; the daily limit |
| Ledger (`UC/mutation.go`, `PG/mutation_repo.go`) | `mutations` | insert, balance | written by payments and disbursements | a second insert for one reference | one entry per reference, fee at most the amount |
| Outbox (`WK/outbox_worker.go`, `PG/outbox_repo.go`) | `outbox`, per instance a batch in memory | insert in the use case's transaction; claim, post, record the outcome | merchants' endpoints, several instances | lease against slow batches, an instance dying after the post, deadlines that run out | at most one instance at a time, attempts counted, every event settled |
| Idempotency (`MW/idempotency.go`, `internal/infrastructure/cache`) | one cache item per key | claim, look up, run, store or delete | any POST of a merchant | expiry of the guard under a request that lasts longer, a holder that fails or dies | one request at a time within the time of its guard, answers replayed, nobody harmed by another's clean-up but by one that comes too late |
| Merchants, bank accounts (`UC/merchant.go`) | `merchants`, `merchant_bank_accounts` | create, update, suspend, activate, deactivate, delete, rotate the key, accounts | authentication, disbursements | whole-row updates from stale reads; the primary flag moved by two statements | a deleted merchant stays as it was; a decision is undone by nothing but an overlapping call; one primary account |
| Fees (`UC/fee_resolver.go`, `UC/admin.go`) | the contract in `merchants`, `fee_defaults`, `platform_margin`, `fee_holidays`, `fee_audit_logs` | resolve for a payment or a payout; change a layer | payments, disbursements, admins | layers are read one by one while they change; flat parts are capped one by one; a change and its log are two statements, and a boot logs nothing; negative fees are not refused | the fee is that of one moment and bounded; what an admin put in force was logged |
| Administration (`UC/admin.go`, `MW/admin_auth.go`, `internal/delivery/http/router.go`) | `admins`, tokens in the clients' hands | log in, refresh, manage admins, merchants, fees, balances | all | a token is checked without the admin's row; requests let in go on while rows change | the power of a deactivated admin and of a replaced key ends after a known time; who may do what |
| Adapters (`internal/infrastructure/provider/*`) | DOKU's token and its mutex | translate calls, answers, statuses, callbacks | providers | answers that refuse, are incomplete or no JSON; codes they do not know; a token that ends on its way | a success is one; every call returns |
| Circuit breakers (`internal/infrastructure/provider/circuit_breaker.go`) | state and counts per gateway | wrap each provider call but the parsing of callbacks | adapters | answers of calls begun in an earlier state | a failing provider is left alone, and tried again by few |
| Lists and pages (handlers, `PG/pagination.go`, the `List` of each repository) | none | count, select a page | all tables | two statements per page, three layers that correct the limit, rows that come, go and move between pages | who walks the pages sees every row |
| Treasury (`internal/infrastructure/taskqueue`) | queue in Redis, `provider_balances` | check balances, top up, enter a balance | asynq, admins | checks of several instances on rows read earlier, dying workers | one top-up per provider at a time |
| Start and shutdown (`internal/app/app.go`, `cmd/api`) | what is open and running in an instance, `platform_margin` | boot, seed the margin, serve, five stages of stopping | everything in the instance, other instances by the database | work in flight when its connections close, a boot that overlaps a change by an admin | closed last, and at all; an admin's margin stays |
| HTTP server, handlers, authentication (`internal/delivery/http`) | none | authenticate, decode, call, encode | use cases | the 30 s deadline of a request's context cuts calls in half, but does not end the request | see administration, lists, idempotency |
| Database access | connections | transactions, locks, constraints | PostgreSQL | see the use cases | |
| Configuration, logging, tracing, commands, `pkg/*`, generated code | none | | | | |

How a payment flows: `CreateVA` calls the provider, then saves the row; the provider's webhook makes it
`paid` and in the same transaction writes the audit entry, the ledger entry (`mutations`) and the event
(`outbox`); the outbox worker posts the event to the merchant. How a payout flows: `Disburse` reserves the
amount by inserting a `pending` row under the lock of the merchant, calls the provider, stores its answer;
the provider's callback makes the row `completed` and in the same transaction debits the ledger and queues
the event. Every request that creates something passes the idempotency middleware first.

## 2. Modules

| module | models | run | proofs |
|---|---|---|---|
| `Settlement` | the abstract specification: an entry per settled transfer, at most one, together with its notice | as a property of `payment` and `disbursement` | |
| `Payment` | payments, expiry sweep, the provider's side of a payment | `payment` | `PaymentProofs` |
| `Disbursement` | cash-out and its callbacks | `disbursement` | `DisbursementProofs` |
| `DailyWindow` | the calendar of the daily limit | `daily_window_utc` | |
| `Outbox` | outbox table and worker instances | `outbox` | `BackgroundProofs` |
| `Idempotency` | the guard of one key | `idempotency` | `IdempotencyProofs` |
| `Merchant` | one merchant and its bank accounts | `merchant` | `MerchantProofs` |
| `Fees` | the layers of a fee, their resolution and their changes | `fees` | `FeesProofs` |
| `Adapters`, `Gateway` | the four adapters as functions of an answer; calls through breakers and adapters, DOKU's token | `gateway` | `InfrastructureProofs` |
| `Access` | sessions, routes and roles, API keys, requests under way | `access` | `AccessProofs` |
| `Paging` | the ten lists and a client that walks through one | `paging` | `AccessProofs` |
| `Lifecycle` | boot, work and shutdown of the instances, the platform's margin | `lifecycle` | `InfrastructureProofs` |
| `Treasury` | checks of the balances and the top-up tasks in asynq | `treasury` | `BackgroundProofs` |

Three proof modules hold two components each, which have no state in common; that is why the definitions every module
has (`Init`, `Next`, `Spec`, `TypeOK`) carry the component's name in `Lifecycle`, `Treasury` and `Paging`.

`MC*` modules only name model values, their symmetry and what each actor is used for. In each module the operators called "Mutant" are
the variants the runs must reject; nothing else refers to them.

### Payment

*State.* `payments`, `audits`, `mutations`, `outbox` are the tables (columns that no decision depends on
left out); `due` is the set of payments whose `expiry_at` has passed; `provider` is the true state of the
payment at the provider; `create`, `cancel`, `hook` are the calls in flight with what they have read.

*Grain.* One action is one transaction, one statement outside a transaction, or one call to the provider.
A transaction is one step since the first thing each of them does is to write the payment row it is about,
or to lock it `FOR UPDATE` (`UC/payment.go:226, 254, 314`), so that two transactions about a payment are
serialised. What was read before the transaction is the `view` of the call, and it may be stale: the code
writes that view back (`payment.go:222-229, 326-336`), and so does the model.

*Actions.* `CreatePayment` (the provider call of CreateVA/CreateQRIS), `CreateStep`'s save or failure;
`CancelRead`, `CancelMark` (transaction 1), `CancelCall`, `CancelFinish` (transaction 2, to `cancelled` or
back to `pending`), `CancelDies`; `HookRead`, `HookSkip` (already final: 200, nothing done), `HookApply`
(row, audit, ledger and event), `HookFails`; `ExpirePayments` (takes every pending row that is due),
`PassExpiry`; `ProviderCloses`.

*Choices.* A call whose statement fails stops there, its transaction rolled back. A webhook about a payment
without a row changes nothing. The provider reports its true status, `pending` (an event that was late) or
`failed` (what the adapters make of a code they do not know). `paid_at` is set by one provider only, hence
free. The fee is any of `Fees`, also above the amount: the ledger's CHECK then refuses the entry.
Payments do not interact, so one payment is enough; the balance is `Disbursement`'s matter.
`webhook_url` is never empty: `CanTransact` asks for it and no update empties it.

### Disbursement

*State.* `rows`, `ledger`, `outbox` are tables; `provider` is the truth about the payout; `call` and
`callback` are the calls, `seen` the balance a call has read. `Opening` is what payments have brought in; further
payments only add to it.

*Grain.* `Disburse` reserves in a transaction of several steps under READ COMMITTED: it locks the merchant
and reads the balance, sums the pending rows, checks the daily limit, inserts and commits
(`UC/disbursement.go:101-147`). Another reservation waits for the lock. So does a callback: its transaction
inserts into `mutations` and `outbox`, whose foreign keys to the merchant ask for `FOR KEY SHARE`
(`migrations/000002_schema.up.sql:147`, `000005_outbox_webhook.up.sql:5`), which `FOR UPDATE` excludes.
This, and nothing in the Go code, is why no completion slips in between balance and pending sum: the mutant
`CallbackApplyUnlocked` breaks `FundsSuffice`. The update that stores the provider's answer
(`disbursement.go:160-186`) does not touch the merchant and waits for nobody.

*Environment.* The provider may answer with any status, refuse, or accept while the answer is lost; a
callback may report the true status, an open one, or a failure that the adapter has read into a code it
does not know (DOKU's default, `doku.go:465-474`). `Misled` names the payouts about which the platform was
told something untrue, or told `completed` at once; the money properties speak of the others (`Regular`);
section 5 says what becomes of the misled ones.

### DailyWindow

The expression `(NOW() AT TIME ZONE 'Asia/Jakarta')::DATE::TIMESTAMPTZ`
(`PG/query/disbursement.sql:48`) in hours of UTC, with the offset of the session's time zone as a constant.
A reservation is one step, as the lock of the merchant makes it.

### Outbox

*State.* `rows` (attempt_count, delivered, failed, next_retry_at, url), what each instance is doing with each
event of its batch, what the merchants have received, and counters of faults. Time is discrete, one tick is
5 s, the poll interval: the lease is 12 ticks (60 s), the HTTP client's timeout 2, the deadline of the
context for the outcome's update 1. It starts *before* the post (`WK/outbox_worker.go:157`).

*Actions.* `Insert`, `FetchAndClaim`, `StartDelivery`, `EndPost`, `MarkOutcome`, `MarkFails`, `Crash`, `Tick`. Which
of the eligible rows a claim takes is left open (the code orders by `next_retry_at`).
`Urgent` work (a poll whose ticker fired, a delivery that may start) comes before the next tick.

### Idempotency

*State.* One cache key with its item and what is left of its time to live, and the requests that use it.
*Actions.* the middleware's cache calls and the handler one by one: `Claim` (SetNX), `Lookup` (Get), `Handle`, `Fail` (Del),
`Succeed` (Set); a failing cache call leaves the request unguarded or its item in place; `Die` (the process
stops; also a panic, which unwinds past the clean-up); `LoseMemory` (a single instance with the in-memory
cache restarts); `Tick`. The effect of a SetNX in Redis may be there although its answer is lost. `by` in an item, and the
`age` of a request, counted from its claim up to `GuardTTL`, only serve the properties.

*Time.* Nothing bounds the length of a request. Its context ends after 30 s (`internal/delivery/http/server.go:52-58`), and
the guard, set a little later, lasts 30 s too (`MW/idempotency.go:24`). But the body is read after the claim
(`c.Bind`, `internal/delivery/http/handler/payment_handler.go:39`) and the server has no `ReadTimeout`; and
the mutex of DOKU's token (`doku.go:277`) takes no context, and is held during a token request that the
verification of a webhook makes under `context.Background()` (`doku.go:382`). So a request may outlive its guard, a retry
claims as well, and the first one's `Del` or `Set` then hits the retry's item. The model has all that. `ClaimIsExclusive`
says when it can begin: not before a request that has outlived its guard ends; `ForeignItemsStay` that nobody but such a
request, or one that comes after it, hits another's item.

### Merchant

*State.* `merchant` (status, API key, deleted), `accounts` (exists, primary, verified), and per call what it has
read: a `view` of the merchant's row or a `copy` of an account.

*Grain.* Every statement is a step, since none of these operations runs in a transaction (`UC/merchant.go:88-215`,
`UC/admin.go:139-213`) but `AddBankAccount`. An update writes all columns of the copy (`PG/query/merchant.sql:18-33`), and
finds no row if that was deleted meanwhile. The columns kept are those that decide about a call or a payout;
`profile` stands for the operations that change others and carry these along.

*Actions.* `APIKeyAuth`, then a call of the merchant's own; admins' calls need no key here. `FindByID` and `Update` for
every change of the row, with `Changed` as the operation's effect; `DeleteMerchant`; `FindBankAccountByID` followed by
`UpdateBankAccount` (verification), `DeleteBankAccount`, or `UnsetPrimaryBankAccounts` and `UpdateBankAccount`
(a new primary account), the last under `uq_merchant_primary_account`; `Fail`. `AddBankAccount` always fails: its first
statement counts rows `FOR UPDATE`, which PostgreSQL refuses (section 5).

### Fees

*State.* `layers`: the fee in force in the contract, the default, the margin and the holiday of today, and whether
the last two apply; `log`; per resolution the sum so far and `during`, all settings of the layers since its first
read, which only the property uses.

*Actions.* `Start` (the use case reads the merchant, and with it the contract), `ResolveBase`, `ResolveMargin`,
`ResolveHoliday` or `SkipHoliday` (`UC/fee_resolver.go:43-84`, `86-134`), `ResolveFails`. An admin's `Read`, `Update` and
`WriteAuditLog` are separate statements, in no transaction; `ChangeHoliday` begins the two operations that read nothing.
`Stop` is a failure of any statement. `ReadMerchant` and `RewriteMerchant` are the operations of `Merchant` as far as they
carry the contract along. `ReadSeed` and `SeedMargin` are the boot, which writes no entry (`internal/app/app.go:116-131`); the
margin that it may replace is one with an empty `updated_by`. An entry tells the switch but for a new holiday, whose
`is_active` is not logged (`UC/admin.go:522-529`): it agrees with either value (`told`). Fees and percentages are integers:
nothing refuses a negative one (`internal/usecase/admin.go:37-42`, `admin_handler.go:806-809, 931`), amounts are validated. One payment method is enough, as a
resolution uses one and a change writes all; percentages are whole numbers.

### Adapters and Gateway

`Adapters` has no state. An answer of a provider is abstracted to what it says (done, done without a number, refused,
a status, no JSON), and one operator per adapter and operation says what the Go code makes of it: which fields it
looks at, which it believes, how it maps a status (`mapStatus` and its like). `Result` puts them together as
`CreateVA` ... `ParseDisbursementWebhook` of the ports in `internal/domain/gateway`.

`Gateway` is one provider's gateway as `app.go:133-172` builds it: the adapter inside the two decorators of
`circuit_breaker.go`. *State:* `breaker` per kind of call with the library's counts (gobreaker, external: modelled from
its documented behaviour and the settings in `circuit_breaker.go:24-42`), DOKU's `token` and the `holder` of its mutex,
the `call`s. *Actions:* `Begin` (admitted or refused by the breaker), `Refuse` (the adapter has no channel for the
bank), `Send`, for DOKU `UseCached` or `Fetch` ... `Fetched`/`FetchFails` under the mutex, `Return` with any answer of
the provider, `Lost`, `Finish` as the breaker's accounting. A result of an earlier generation is not counted (`cur`).
Time matters for the token only; a tick is 15 s, the HTTP client's timeout, so that the margin of 30 s is two.

### Access

*State.* `admin` rows, `merchant` with its key, and ages: of an admin's newest tokens (`session`), of a deactivation
(`since`), of the end of a key (`off`), of a request. An older pair of tokens allows nothing that the newest does
not, so one age per admin is enough. `req` are requests from their authentication to their effect.

*Actions.* `AdminJWTAuth` with `RequireRole` as `Allowed`, `APIKeyAuth`, `WebhookIPAllowlist`, `Login`, `RefreshToken`
and `IssueTokens` (after the row was read), then one action per handler. Handlers whose effect another module has, and
reads, end a request and change nothing here (`Elsewhere`). The error path of every handler is `Fail`. A request may last
as long as it likes, for the reasons given under Idempotency; but once its context has ended (`Overdue`,
`server.go:52-58`), it has no effect any more, since all effects go through the database or to a provider with that context.
An exception is `IssueTokens`, which asks nobody after the row was read: a login or a refresh that is overdue still
gives tokens, and the time of `PowerEnds` counts from then.
`Allowed` is the permission matrix of `router.go:91-177` as sets of operations; a super admin may do all of them.

### Paging

*State.* One `table` whose rows are in or out of a filter, or that of the holidays (`holidays`), whose rows have a date;
and one client's `walk`: the list, its filter and limit, the page it is at, the rows there at its start and those seen. *Operators.* Per list, what the handler passes on (`Ask...`),
what the use case hands to the repository and announces (`List...`), and what the repository makes of it
(`...RepoList`); the three differ from list to list, and that is the point. Limits and offsets are cut to 32 bits
(`Int32`); the limit of holidays is not capped before (`PG/fee_repo.go:174`, `RowsSent`). Nine lists are ordered by
`created_at`, holidays by their date (`PG/query/fee.sql:26`): `Place`.
*Actions.* `Count` and `List` are the two statements of a call; at any time in between there are `Insert`, `ChangeRow` (a
row enters the filter or leaves it: a status changes in either direction, a merchant gets another name or is deleted) and
`UpdateFeeHoliday` (a holiday is moved to a day without one, `uq_holiday_date`). That rows are inserted in the order of
their `created_at` is an assumption. A page is the rows with that many before them, which is what
`ORDER BY ... LIMIT ... OFFSET` of distinct places means.
`WalkSeesAll` names what may hide a row: one that came into the list between the two statements of the last call (`raced`),
one that left it or was moved (`left`), and a limit of which another size is announced than sent (`Overasked`).

### Lifecycle

*State.* Per instance: `stage` (where `Boot`, `Run` or `shutdown` is), `infra`, the `work` under way and what of it the
shutdown no longer waits for (`forced`); one `margin` in the database. *Actions.* `Boot`, `ReadMargin` and `SeedMargin`
(two statements, `app.go:116-131`), `Wire` (here the task server starts), `Serve`; `BeginWork`/`EndWork` of requests, tasks and
batches; `AdminSetsMargin`; `Shutdown` and its stages, each with its deadline where it has one (`app.go:327-390`); `Die`
at any point. The task server is stopped by `Stop`, which waits for nothing (asynq, external). After the infrastructure
the injector shuts Echo down once more, without a deadline: the instance ends when its last request has.

### Treasury

*State.* `row` per provider (balance, stamped by a reconciliation or not), `task` per id, `check` with the rows it read
and those left. *Actions.* `ListAll`, `Skip`, `Queue`, `QueueFails`, `EndCheck`; the queue's `Take`, `Complete`,
`Recover` (a dead worker: retried, then archived); `UpdateProviderBalance` by an admin; `Reconcile` is external: no
code in the repository sets `last_reconciled_at`.

## 3. Runs

| run | bounds | checks |
|---|---|---|
| `payment` | 1 payment, 2 cancel calls, 2 webhooks, fees below and above the amount | `AuditChain` (each audit entry starts where the one before ended, up to stale writes), `CreditOnce`, `PaidIsCredited`, `NoticeMatchesCredit`, `AckedPaidIsCredited` (a paid webhook that was answered with 200 has its entry), `FinalLostOnlyToCancel`, `ImplementsSettlement`, `PaymentIsSettled` |
| `disbursement` | 2 Disburse calls, 2 callbacks, amounts 1 and 2, fee 0 or 1, funds 3, limit 2 | `PayoutsAreCovered`, `FundsSuffice`, `DailyLimitKept`, `NoticeMatchesDebit`, `FinalLostOnlyToCallback`, `ImplementsSettlement` |
| `daily_window_utc` | 3 payouts, limit 3, session in UTC, a clock over a whole day and its two midnights | *violated*: `LimitPerDay`, which holds for the session in UTC+7 of `MCDailyWindow.cfg` |
| `outbox` | 2 events, 2 instances, 3 attempts, 1 fault, 1 late answer | `OneDeliveryAtATime`, `PostsAreBounded`, `AcceptedOnce`, `EventIsSettled` |
| `idempotency` | 3 requests of any length, a guard of 2 ticks and a response of 3, any number of failing cache calls, lost answers, deaths and restarts | `ClaimIsExclusive`, `ForeignItemsStay`, `ReplayInsteadOfRun`, `GuardGoesAway` |
| `merchant` | 4 calls, 2 accounts | `DeletedIsFrozen`, `LostOnlyToOverlap` (a status or key is undone only by another such operation or by a call that had read the row before), `PrimaryIsKept` |
| `fees` | 1 resolution, 2 changes or boots, a flat fee, a negative one and a percentage, amounts below and above the flat fee | `FeeIsOfOneMoment`, `FeeIsBounded`, `InForceIsLogged` |
| `gateway` | each of the 4 providers, 2 concurrent calls, a breaker that opens after 2 failures and admits 1, a token of 3 ticks | `AnswersAreTrue` (a success reported is one, a payout reported as failed was not made, but for the answers in `Unchecked`), `TokenValidOnArrival`, `ProviderIsShielded`, `CallsReturn` |
| `access` | 2 requests, 2 admins, 1 merchant with 2 keys, lifetimes of 1 and 2 ticks, contexts of 1 | `PowerEnds`, `KeyPowerEnds`, `LastSuperAdminFalls` |
| `paging` | 8 of the 10 lists (the other two are `payments` again), 2 owners, 3 rows, 4 days, limits none, at the cap, above it, above half the range of integers and above the whole | `WalkSeesAll` |
| `lifecycle` | 2 instances, one with a task queue | `InfraClosesLast`, `AdminMarginIsKept`, `ShutdownEnds` |
| `treasury` | 2 providers, 3 ids, 2 checks, 1 retry | `OneTopupAtATime` |

Each module but `DailyWindow`, `Settlement` and `Adapters` has a type invariant; it is proved, and so are
`Payment!StampsAgree`, `Outbox!SettledIsQuiet`, `Fees!FeeIsNatural`, `Gateway!HolderFetches` and `Paging!AnnouncedOffsetsFit`. The
configurations list the properties only that say more; these were checked by TLC in the state spaces of their modules'
configurations, as the inductive invariants of section 4 were, before they were proved (`FeeIsNatural` without the negative
fee in `MCFees`, with which it claims nothing).

Why the bounds are enough: every hazard in `PROJECT.json`
needs two racing actors on one row (two cancel calls, two webhooks, two reservations, two instances, two
requests of one key, a resolution and a change, two admins, two checks) and at most two earlier ones; payments, events
of different rows and keys do not
interact. The outbox's 10 rows and 5 parallel posts become 2 and 1, which keeps the second wave of a batch that
starts after the first; the number of attempts is 3 as it is with any number above 2. Faults and late answers of the
outbox are bounded (`MaxFaults`, `MaxLate`) because with unboundedly many of them no event has to be settled;
`MaxLate` may be overshot by the answer that is under way. In `MCGateway` and `MCAccess` one actor is used for every
operation and the other for the ones that race with it. Ages are cut off where nothing depends on them any more
(`Gone`, `PowerEnd + 1`). `Paging`'s table is bounded by `MaxRows`, with pages of one or two rows: a walk through two
rows has two pages of the default size, and a third row added meanwhile moves the others down; with four days for three
holidays there is always one to move to. Integers have 5 bits there (`Half = 16`), so that 20 is cut to a negative limit and
33 to one row. Symmetry is used where no temporal property needs the states apart.

*Fairness.* `Payment`: the expiry ticker fires each minute (`WK/expiry_worker.go:27-41`), and a cancel call
goes on or dies, since the request's context ends. `Outbox`: the ticker, and the timeouts of posts and
statements. `Idempotency`: time passes, and nothing else. `Gateway`: a call goes on and its requests end by the
timeout of the HTTP client (weak, `Answer`), and a goroutine that waits for a `sync.Mutex` gets it if it becomes free again
and again (strong, `Lock`; Go hands a mutex to a waiter that has starved for a millisecond). `Lifecycle`: a shutdown
runs on, and requests end: their context does, and so does a call to DOKU's token endpoint, by the client's timeout;
that a client sends its body or goes away is an assumption (the last wait for requests has no deadline). Tasks and
batches need not end. No fairness is assumed of providers,
merchants, callers or operators.

## 4. Proofs

Every safety property of the passing runs is proved, invariants and action properties alike, for every value of the
constants that meets the modules' assumptions. What follows names the invariant of each proof and why it is needed.

**Payments** (`PaymentProofs`; any number of payments, cancel calls and webhooks, any set of fees). `TypeOK`,
`CreditOnce`, `PaidIsCredited`, `NoticeMatchesCredit`, `FinalLostOnlyToCancel`, `AuditChain`, `AckedPaidIsCredited`,
`StampsAgree`, and that `Payment` implements `Settlement`.

- The ledger: `Typed /\ Ledger`. `Ledger` adds two facts to the three properties: a payment whose row does not exist has
  neither entry nor call about it (`Unsaved`; without it a webhook could credit a row that is then inserted as new), and
  an entry exists only for money the provider holds (`Covered`; what `Settlement` asks of an entry). `Typed` says of every
  view held by a call that it is a row the call may legally hold; this is what makes a stale write harmless to the
  ledger: `CancelMark` and `CancelFinish` never write `paid`.
- The trail: `Trail` is `AuditChain` with `Saved`, that a row once saved has a first entry: a sweep or a webhook reads the
  status it replaces from the row under its lock, and that is the last entry's.
- Acknowledged webhooks: a final row is `Closed`, that is credited, or closed by an entry of its trail; neither ever goes
  away, so that a delivery answered with 200 because the row was final stays explained.
- Stamps: a view that waits to be written back carries no stamp (`Stamps`), so that a stale one leaves none behind.

**Disbursements** (`DisbursementProofs`; any number of calls and callbacks, any amounts, fees, limit and funds).
`TypeOK`, `PayoutsAreCovered`, `NoticeMatchesDebit`, `FinalLostOnlyToCallback`, `FundsSuffice`, `DailyLimitKept`, and that
`Disbursement` implements `Settlement`.

- Cover: `Typed /\ Stages /\ Books` with the two state properties. `Stages` ties a row to how far its call is: until the
  answer is stored the row is `pending` and has no external id, so that no callback finds it; a callback that carries
  `completed` is about a payout that the provider has made. `Books` says that entries and events name what callbacks have
  found. Without `Stages` a callback could fail a row whose call then stores `completed` over it.
- Sums: the balance and what is reserved are sums over sets of rows, whose number is unbounded. The community module
  defines them by a recursive choice; the lemmas before `Weights` show, by the well-foundedness of the subsets of a finite
  set, that such a sum exists for every finite set, is the same whatever the order of the choices, gains the weight of an
  element that is added (`TotalAdd`), grows with its set (`TotalMonotone`), and is at most that of a second set whose
  elements account for those of the first (`TotalCovered`). They are general and mention no disbursement.
- `Reservation`: one call at a time is between its lock and its commit (`OneReserves`), and what it has read still holds
  (`ReadHolds`): the balance it saw is the balance, and with its amount the sums stay within funds and limit. A callback
  cannot come in between, since it waits for the lock; every other step leaves the sums or lowers them. `Unfailed` says
  that no payout at stake is `failed` in the table, which would take its amount out of what is reserved.

**Idempotency** (`IdempotencyProofs`; any number of requests, of any length, any times to live). `TypeOK`,
`ClaimIsExclusive`, `ForeignItemsStay`, `ReplayInsteadOfRun`. The invariant adds to the types that, as long as no request has
ended after its guard (`Late = {}`), the guard of a holder that has not outlived its own is in the cache, and that its time
left plus the age of the request is at least `GuardTTL` (`Guarded`): the guard outlasts every age below that. From it
follows that nobody claims meanwhile, and so that there is nobody else to delete it. `AnswersAreGiven` says that a stored
response names a request that has created something.

**Merchants** (`MerchantProofs`; any number of calls and accounts). `TypeOK`, `OnePrimaryAtMost`, `DeletedIsFrozen`,
`LostOnlyToOverlap`, `PrimaryIsKept`. The first four need no more than the types; the last an invariant about calls
under way (`RemovalsChecked`: a removal holds a copy that was not primary, and only a call for a new primary account
unsets the old one).

**Fees** (`FeesProofs`; any number of resolutions and changes, any amounts, fees and initial layers). `TypeOK`,
`FeeIsBounded`, `FeeIsNatural`, `InForceIsLogged`, `FeeIsOfOneMoment`. The fees may be of any sign; that no fee is
negative is claimed only where none is set that is (`FeeIsNatural`). `Bounded` counts the parts added so far: after `n`
parts the sum is `n` times the amount at most. `AllAccounted` extends the claim about the log to contracts that a call
carries in its copy of the merchant's row, and to margins that a boot has left. `Composed` says that every part of a sum
belongs to a setting in force during the resolution, and that as long as these are at most two, they differ in one layer only (`OneApart`), which makes the
mixture equal to one of them.

**Access** (`AccessProofs`; any number of admins, keys and requests, any sets of operations and any lifetimes).
`TypeOK`, `PowerEnds`, `KeyPowerEnds`, `LastSuperAdminFalls`. The invariant is `Timed`. `RowsAge` bounds the rows: while
an access token lives, its owner has been deactivated for no longer than the token is old, plus one request (tokens may
be issued to an admin whose row was read just before). `Permitted` bounds the requests: one under way is as old as the
end of the power it was let in with, the life of a token aside. Both are kept by `Tick`, which makes all of them older
by the same, also of a request that has outlived its context, whose age only counts up to there; such a request has no effect
(`HandledInTime`), and the tokens it may still give reset the age of the deactivation. The bound of `PowerEnds` is the sum
of the two and the deadline of the request's own context. `Permitted` also has that a
request to deactivate an admin is a super admin's, from which `LastSuperAdminFalls` follows.

**Lists** (`AccessProofs`, second half; any table of fewer than 2^31 rows, any lists, owners and limits).
`PagingTypeOK`, `WalkSeesAll`, `AnnouncedOffsetsFit`. The invariant `Walk` says of a client under way, while no row has left
its filter or was moved, that the rows it started with are still in the list, and that those of them with fewer rows before
them than the pages asked for so far hold have been seen (`SeenSoFar`): a row that comes in, new or old, only adds to what
comes before the others (`RowsRemain`), and the client notices what does not (`ClientNotices`). `CountIsTrue` ties the number
of pages to the list as it is, up to a row that came in since the count. Two facts of arithmetic carry the step of `List`: the
last page announced ends at or behind the last row counted (`PagesCover`), and an offset within the table survives the
cut to 32 bits (`OffsetsFit`). The invariant holds only where a page announced is as large as a page sent, hence
`Overasked` in the property. `AnnouncedOffsetsFit` needs no such exception: however large a list announces its pages, it
announces too few of them rather than too many (`PagesAreNotUnderstated`), so that a client that keeps to them stays
within 32 bits.

**Outbox** (`BackgroundProofs`; any number of instances and events, any batch size, any number of parallel posts and
attempts, any durations). `TypeOK`, `OneDeliveryAtATime`, `PostsAreBounded`, `AcceptedOnce`, `SettledIsQuiet`. What makes
the lease sufficient is not an assumption of the theorem but its argument: a post may start only while the batch keeps
`MaxConcurrent` posts under way or has fewer left, so that every tick takes that many off the ticks of posting still
ahead (`Ahead`); hence a row that is still queued has `MaxConcurrent * Elapsed + Ahead <= BatchLimit * HttpTimeout`, and a
post begins no later than the rest of the batch can last (`OnTime`). `OutboxAssumption` asks that `BatchLimit - 1` posts,
shared among `MaxConcurrent`, and the last one end within the lease: 18 + 10 of 60 with the code's numbers
(10 rows, 5 at a time, timeouts of 10 s, a lease of 60 s). `Held` says that all rows of a batch run on the same lease and
are as they were claimed, `PostsCounted` that every post is counted as an attempt, is the one in flight, or was one whose
update was prevented; `AnswersCounted` the same of accepted events.

**Treasury** (`BackgroundProofs`, second half; any number of providers, checks and ids). `TreasuryTypeOK`,
`OneTopupAtATime`, and `TopupsFollowReports` (a top-up is queued only for a provider that a reconciliation found low). The
invariant says that a task's id is that of its provider, and that every low balance in the table or in a check's copy was
reported.

**Gateway** (`InfrastructureProofs`; any number of calls with any operations, each provider, any limits of the breaker
and any durations with `Margin >= 2 * HttpTimeout`). `TypeOK`, `AnswersAreTrue`, `TokenValidOnArrival`,
`ProviderIsShielded`, `HolderFetches`. The first rests on a lemma about `Adapters` alone: for every provider, operation and answer, what
the adapter makes of it is so at the provider, the operations in `Unchecked` aside. The second on `TokenFit`: the
platform believes in its token at most one request's time too long, as its clock starts when the answer arrives and the
provider's when it was made; with a request's own time that is the margin. The third on `Shield`: the calls inside since
the breaker's last change are among those its counter has admitted. `HolderFetches` is the safety half of `CallsReturn`:
the mutex of the token is held by the call that fetches it and by no other.

**Start and shutdown** (`InfrastructureProofs`, second half; any number of instances). `LifecycleTypeOK`,
`InfraClosesLast`, `AdminMarginIsKept`. `Drained` says of each stage what has ended or was given up when it was passed,
`MarginIsSafe` that after an admin's change no boot is between its read and its write, unless it overlapped.

The assumptions on constants are those named `...Assumption` in the modules; TLC evaluates them in every run.

Only model-checked: liveness (`PaymentIsSettled`, `EventIsSettled`, `GuardGoesAway`, `CallsReturn`, `ShutdownEnds`), since
fairness and `ENABLED` are out of the prover's reach; and the violation in `DailyWindow`, which is a matter of one
instance.

## 5. Where code and documentation disagree

With a run that shows it (see `findings` in `PROJECT.json`): the daily limit counts from midnight of the session's
time zone, not of Jakarta (`daily_window_utc`).

Stated at the end of the modules, without a run of their own; each is false in the configuration of the module's run
unless another is named:

- `Payment!FinalIsImmutable`: a cancel call overwrites a payment that a webhook has made paid
  (`UC/payment.go:222-260`); `internal/domain/entity/payment.go:53` says "immutable once in a final state".
- `Disbursement!CompletedIsDebited`: a payout that the provider completes at once is never debited, since only
  callbacks debit and they skip a final row (`UC/disbursement.go:160-178`).
- `Disbursement!FailedIsNotPaid`: a payout whose answer is lost is failed and its funds released, and it may be paid
  out nevertheless (`UC/disbursement.go:160-172`).
- `Outbox!AttemptsAreCounted`: an endpoint slower than 5 s never uses up its attempts, since the deadline of the update
  runs while the request does (`WK/outbox_worker.go:157`). False with `MaxLate = 2`.
- `Fees!FeeWithinAmount`: a fee can exceed the amount, since its parts are capped one by one (`UC/helpers.go:58`); the ledger
  refuses the entry, and with it the webhook's transaction: the payment stays pending although it is paid.
  The same becomes of a negative fee, which nothing refuses where it is set (`chk_mutation_fee`,
  `migrations/000002_schema.up.sql:156`).
- `Payment!OneCancelInFlight`: two cancel calls reach the provider, although README.md:480 says the status `cancelling`
  "prevents double-cancel races" (`UC/payment.go:208-238`).
- `Disbursement!FinalIsImmutable`: a late callback overwrites a final disbursement (`UC/disbursement.go:265-280`).
- `Merchant!OldKeyIsDead`: a call that has read the row before a new key was generated writes the old key back;
  `internal/delivery/http/handler/merchant_handler.go:92` says "immediately invalidates the old one".
- `Merchant!OneIsPrimary`: calls that overlap can leave no primary account; `internal/domain/entity/merchant.go:39` says
  "exactly one must be primary".
- `Merchant!AddBankAccount`: `SELECT COUNT(*) ... FOR UPDATE` (`PG/query/merchant.sql:79-82`) is an error in PostgreSQL, so no
  account can be added, although README.md:198 and 482 describe it.
- `Payment!FeeIsRecorded`: `fee_amount` of a payment stays 0; the fee is resolved after the row is
  written (`UC/payment.go:342`).
- `Disbursement!BalanceNotNegative`: a reservation compares the amount only, the debit includes the fee
  (`UC/disbursement.go:114, 289`), so the balance can fall below zero by the fees.
- `Idempotency!OnlyOneProceeds`: a request that finds the key taken, and then gone since its holder has failed, goes on without a
  claim (`MW/idempotency.go:61-64`), next to any other that does the same; and a request may outlive its guard, which a retry
then takes, and whose item the first one deletes or overwrites in the end (`MW/idempotency.go:24, 56, 91, 104`).
- `Access!ApprovedCanTransact`: an approved merchant without a webhook URL cannot transact, nor set the URL, since the
  route that does asks for a merchant that can (`internal/domain/entity/merchant.go:77-83`, `MW/auth.go:34-57`);
  `internal/delivery/http/handler/admin_handler.go:228` says "so they can start transacting".
- `Paging!OffsetNeverOverflows`: the page is not capped, and the product of page and limit is cut to 32 bits
  (`PG/payment_repo.go:179-190`); the comment there says "never overflows int32". It does not for a client that asks only for pages
  announced to it (`AnnouncedOffsetsFit`, proved).
- `Paging!DatesAreRFC3339`: the lists of a merchant's payments and disbursements read their dates as `2006-01-02` and
  ignore others; the annotations say "RFC3339" (`internal/delivery/http/handler/payment_handler.go:121`,
  `disbursement_handler.go:64`).
- `Lifecycle!TasksAreDrained`: the shutdown does not wait for tasks under way; `internal/app/app.go:344` says it does
  so that they "can write to DB".
- `Treasury!EnteredIsReconciled`: a balance entered by an admin clears the stamp of the last reconciliation, and checks pass
  that provider over from then on; `admin_handler.go:649` says it is entered "for reconciliation".

Met while modelling, and stated as exemptions of a property or in a definition only:

- The log of fees: `PG/fee_repo.go:209` says "Must be called inside the same tx as the fee update"; no caller opens one
  (`UC/admin.go:455-545`). The margin seeded at boot has no entry, and the entry of a new holiday no `is_active`
  (`Fees!InForceIsLogged`).
- DOKU's cancel call succeeds whatever the answer's body says (`doku.go:179-186`; `Payment!CancelCall`, which therefore may
  be told of a cancellation that was none, `Gateway!Unchecked`).
- `PG/fee_repo.go:174` cuts an uncapped limit to 32 bits: 2^32+1 announces one page and sends one row (`Paging!Overasked`).

What is claimed of such a case in the passing runs is what remains true: a final row is lost *only* to a
stale call, the ledger is right whatever the row says, a payout about which the platform was told the truth is covered.

## 6. What could come next

In this order: a composition of `Payment` and `Outbox`, from the provider's webhook to the merchant's; `Merchant` with
`Disbursement`, for the limit and the status that a reservation reads before its lock.

## 7. Not modelled, and why

Reads of single rows change nothing. Signatures, masking, validation, response formats and
JSON are pure functions of data that no property here distinguishes; that a callback's signature or a request's
body is not valid is an outcome of its action. Passwords are data: a change of one revokes no token. Configuration,
logging and tracing are I/O. Migration and seed commands run once by hand; of them only the first admin (`Access!Init`)
and the first row of the margin (`Lifecycle!LifecycleInit`) show. Generated code repeats the queries and annotations. The pool of
database connections, reconnection and TLS are left to the driver. The transfer of a top-up is a stub in the code, and
`HandleLargeCashoutTopupCheck` is called by nobody. Changes of a merchant's limit while payouts are requested are left to
`Merchant`.
