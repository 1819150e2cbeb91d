# Verification of the SaaS billing API

TLA+ models of the parts of this service that move money, usage and their
statuses, TLC configurations that check them on small instances, and TLAPS
proofs of the results that matter most for every instance. The modules are
translated from `src/app`; the documents under `src/docs` and `src/README.md`
are used only as statements the code is held to (see *Findings*).

    tlc -config Payments_safety.cfg MCPayments.tla
    tlapm PaymentsProof.tla

## 1. Inventory

The program is a FastAPI application, Celery workers and Celery beat over
PostgreSQL and Redis, with Stripe outside. All state is in database rows, in the
broker's queue, in one Redis lock and in the provider. Every handler uses a
SQLAlchemy session of its own at READ COMMITTED with `autoflush=False`: it reads
committed rows, keeps what it read in its identity map, and writes the columns it
changed when it commits. Only billing and refresh tokens lock rows, and no version
is compared anywhere.

| Component | State | Operations | Talks to | What is hard | What makes it correct |
|---|---|---|---|---|---|
| Lifecycles (`*_status_service.py`, `enums.py`) | none | `transition_status` | everything below | each caller asks with the status *it* read | graphs, same-status no-op |
| Payments (`payment_service.py`) | `invoices.status`, `payments` | create, retry | Stripe inside the transaction | stale reads, crash after the provider's answer | charged attempts are known; invoices follow their graph |
| Webhooks (`webhook_service.py`) | `processed_webhooks` | four handlers | payments, invoices, refunds | duplicates, order, two processes, events before the row | record and effect are one commit |
| Reconciliation (`reconcilliation_service.py`, `scheduler_tasks.py`) | a batch in memory, the Redis lock | two passes; scheduled and manual | Stripe, payments, refunds | batch committed long after it was read; lock expiry | settles what ended; nothing untrue is written |
| Refunds (`refund_service.py`) | `refunds` | create, full-refund cascade | Stripe, payments, invoices | concurrent validation, write skew, half cascades | not more than the payment; cascade complete |
| Usage ingestion (`usage_event_service.py`, `usage_tasks.py`) | broker queue, `usage_events` | accept, insert | billing reads the rows | duplicates, failing tasks | accepted usage recorded once |
| Billing (`invoice_service.py`) | `invoices`, `usage_events.invoice_id`, `projects.next_billing_date` | nightly and manual runs | usage, projects | overlapping runs, period boundaries, late commits | every usage invoiced exactly once |
| The night (`scheduler_tasks.py`) | the loop's local variables | `generate_due_invoices`, by beat and by hand | projects, billing | projects deleted during it, an exception in its exception handler, overlapping nights | one failure does not cost the others their night; a date that has come is billed some night |
| Projects (`project_service.py`) | `projects` | create, update, delete | billing dates | frequency changes during a run | the billing date never skips usage |
| Refresh tokens (`auth_service.py`, `refresh_token_repository.py`) | `refresh_tokens` | login, refresh, logout | – | several commits per operation, rows locked until the first, waits in an UPDATE | a token is spent once; sessions end with the next one; every request ends |
| Clients, event types, pricing rules (`client_service.py`, `event_type_service.py`, `pricing_rule_service.py`) | their tables | create, update, delete | projects above, keys and usage below | check-then-insert, deletion against rows created meanwhile, prices read by billing | what usage refers to stays; usage is invoiced at a price its type had |
| API keys (`api_key_service.py`, `dependencies/api_key.py`) | `api_keys` | create, rename, rotate, revoke; look-up by prefix | clients, ingestion | two handlers over one key, a cascade that takes unseen keys | a revoked key stays revoked; usage is accounted to the key that was sent |
| Users (`user_service.py`) | `users` | register | – | – | one account per e-mail (the database's constraint) |
| Dashboard, reads, migrations | – | – | – | – | – |

Hazards, each at its line and with the properties that watch it, are in
`PROJECT.json`.

## 2. Modules

| Module | Models | Used by |
|---|---|---|
| `Lifecycles` | the status sets, the three transition graphs, `transition_status`, the provider's status tables | `Payments`, `Refunds` |
| `Payments` | creation and retry of payments, payment webhooks, `reconcile_payments`, the provider's intents | `MCPayments`, `PaymentsProof` |
| `Refunds` | creation of refunds, `refund.updated`, `reconcile_refunds`, the cascade, the provider's refunds | `MCRefunds`, `RefundsProof` |
| `UsageBilling` | usage of one project from the API to its invoice, billing runs with their row locks, changes of frequency | `MCUsageBilling`, `UsageBillingProof` |
| `BillingNight` | the loop over due projects, its handler, deletions, overlapping runs, nights that follow | `MCBillingNight`, `BillingNightProof` |
| `Tables` | what the models declare of users, projects, clients, event types, rules, keys and usage: references, uniqueness, cascades | `Catalog` |
| `Catalog` | the handlers that create, change, rotate and delete those rows, ingestion's look-ups, the price of invoiced usage | `MCCatalog`, `CatalogProof` |
| `ExactlyOnceBilling` | what usage billing promises: no times, workers, locks or runs | refined by `UsageBilling` |
| `RefundLedger` | what refunds promise: no requests, events, sessions or runs | refined by `Refunds` |
| `ReconcileLock` | which reconciliations run at the same time | `MCReconcileLock`, `ReconcileLockProof` |
| `RefreshTokens` | login, refresh and logout of one user as statements, row locks and commits | `MCRefreshTokens`, `RefreshTokensProof` |
| `Sums` | no code: lemmas about the sum of a function over a finite set | `RefundsProof` |
| `PaymentsProof`, `RefundsProof`, `ReconcileLockProof`, `RefreshTokensProof`, `UsageBillingProof`, `BillingNightProof`, `CatalogProof` | theorems | |

### How code becomes actions

*A session is its reads and its commit.* Between them the values that were read
are kept in a variable (`seen`, `hook`, `loaded`/`change`, `memory`, `run`) and any
other session may commit. A commit writes the columns the session changed and
leaves the others, which is what SQLAlchemy's UPDATE does; a status that was
already right is not written. A handler that rolls back returns to idle. A
delivery that changes nothing (an event already recorded, an unknown payment, a
transition that raises before anything is written) is not a step.

*Provider calls are separate steps inside a request*, with the outcomes: it
answers; it raises, having done or not done what was asked; the process dies
before the commit. The provider's own steps (customer confirms, bank declines,
intent canceled, refund ends) are external and unconstrained.

*Payments.* `CreatePayment`/`RetryPayment` -> `ProviderCreatesIntent` |
`ProviderRaises` | `AbandonPayment` -> `CommitPayment`. Webhooks:
`HookLoadsPayment`, `HookLoadsInvoice` (the lazy load of `payment.invoice`),
`HookCommits` | `HookRollsBack`. Reconciliation: `ReconcileLoads`, one
`ReconcileQueries` per row, `ReconcileCommits`. The webhook route is a coroutine
that never awaits once it has the body, so one API process handles one webhook at
a time: a member of `Hooks` is a process.

*Refunds.* The same shape. `CascadeWrites` says which columns
`mark_refunded_if_fully_refunded` changes in a session, `CascadeRaises` whether it
raises; the webhook then rolls back, `reconcile_refunds` goes on and commits.
`Overlay` is the session's view of `refunds`: its own changed objects over the
committed rows. A refund's amount and a payment's are small whole numbers.

*UsageBilling.* One project. `SELECT ... FOR UPDATE` is a snapshot
(`BillingSelects`) and the locking (`BillingLocks`), which waits for other runs and
looks again at each row, as PostgreSQL does at READ COMMITTED. The query joins
`event_types`, so their rows are locked as well and delay the insertion of usage
of these types (its foreign key needs a share of the row). A period is a number of
ticks; calendar arithmetic is planned. Item rows are left out, prices are in
`Catalog`: which usage is on which invoice is what the properties tell apart.

*BillingNight.* `generate_due_invoices` from the outside: `Lists` is the query for due
ids, then, project by project, `Gets` loads it, `Commits` is the one commit of
`generate_project_billing`, `Logs` the log line after it and `Handles` the exception
handler. What is committed for a project is its new date only; its invoices are in
`UsageBilling`. Commit and rollback expire what the session holds, so the log line and the
handler read the project again: a billing that is committed and whose log line fails
counts as failed, and a handler whose read fails ends the task. `Advance` is the loop over
missed periods. `run[r].project` is the loop's variable, which keeps the previous
project when `get` raises and is unbound before the first; a project that is gone
leaves None in it. `GetFails`, `BillingFails` and `HandlerFails` are failures of the
database, `Dies` is the end of a worker. A call of the task by POST /invoices is one
more run. A change of frequency, which moves a date as well, is in `UsageBilling`.

*Tables and Catalog.* A row has a table, one parent (`of`), the rows it uses and a name,
which is whatever tells it from its siblings. `Tables` holds what the database
and the ORM do with rows of each model: a foreign key must exist when its row
is inserted; unique constraints are checked at the commit; `db.delete` loads the
children of a relationship without a cascade and would set their NOT NULL foreign key
to NULL, which fails, so that a parent with loaded children is not deleted; children
that were committed after they were loaded stop the DELETE, except API keys, whose
foreign key has `ON DELETE CASCADE`. In `Catalog` every handler begins by finding its row
through the rows above it, makes its checks, and commits in a later step
(`InsertCommits`, `UpdateCommits`, `DeleteCommits`, `RotateCommits`, `RevokeCommits`,
`ProcessUsage`, `BillReadsRules`, `BillCommits`). A refused request (404, 409, 400)
and one that dies change nothing and are no step. `Write` sets the columns the session
changed and no others. Renaming an event type writes nothing, because the request's field is
`event_name` and the column is `name`; a name set to null fails. `get_client_from_api_key`
takes a key by its first twelve characters (`PrefixOf`) and compares the whole, without
reading `revoked`. Billing's FOR UPDATE also locks event types (`LockedTypes`), so changes of
these types and insertions below them wait for it; pricing rules are read without a
lock. `line` (the requests behind a row), `renamed`, `earlier` and `offered` are
auxiliary.

*ReconcileLock.* The lock counts down its time to live and a run counts up its
age, so time needs no bound.

*RefreshTokens.* `Login` starts at the revocation; `Refresh` and `Logout` select a
row first (`SelectsToken`, or `FindsNoToken` 401, or `FindsTokenLocked` 429) and
compare it with what was presented (`Verifies`). `revoke_all_for_user` is one
UPDATE, but PostgreSQL carries it out row by row against the snapshot of its
beginning and waits for rows that others hold: `UpdateBegins`, `UpdatesRow` per row,
`RevokeCommits`. Then `Signs`, `Creates`, `Answers`. The session lets go of its
rows in `Leaves`, which is the commit, the rollback, or `get_db` closing it after an
error. `DeadlockBreaks` is PostgreSQL failing one of the sessions that wait for each
other. Hashing is left out, since `verify_token_hash` tells strings apart; strings
are not: what two requests sign within one second is equal, so `jwt` maps a
token to the first one with its string. Rows and their tokens expire together.

## 3. Runs

A cfg's name is the run's name. The first nine runs pass; the last three are the
violations behind the findings of section 4.

| Run | Shows | Bounds |
|---|---|---|
| `Payments_safety` | types; statuses tell the truth; charged attempts are known; attempts open invoices; recording with effect; reconciliation settles ended attempts for good | 1 invoice, 2 attempts, 1 decline, 1 fault, 1 webhook process, 1 reconciliation; fairness of reconciliation |
| `Payments_webhooks` | webhooks alone: legal transitions, collections stay | 1 invoice, 2 attempts, 2 declines, 1 webhook process, no reconciliation |
| `UsageBilling_exactly_once` | types; invoices and marks agree; refinement of `ExactlyOnceBilling`; write-once rows | 2 keys of 2 clients, 2 messages each, 2 runs, clock to 3, a fault, a frequency change, commits up to a tick late |
| `UsageBilling_nothing_left` | no usage falls behind; accepted usage is recorded unless a task failed | 2 keys of 1 client, 2 workers, 3 runs, clock to 3, a fault, one frequency, commits within a tick; fairness of workers and of runs that have begun |
| `Refunds_rows` | types; what is recorded as refunded was given back; payment and invoice move together; one refund of everything cascades; reconciliation settles refunds; refinement of `RefundLedger` | 2 refunds of a payment of 2, a PAID invoice, 1 webhook process, 1 reconciliation, a fault; fairness of reconciliation |
| `ReconcileLock` | types; overlaps need a run as old as the timeout; an outlived run does not free its successor's lock; reconciliation recurs | 3 workers, 1 caller, timeout 2, runs up to 4 |
| `RefreshTokens` | types; a token is spent once; sessions are valid together only if their requests overlapped; every request ends | 3 requests, 2 tokens from before, valid or not, 1 failure or expiry; fairness of requests |
| `Catalog` | types; rows of one name only of overlapping requests; usage stays accountable; usage is invoiced at a price of its time; keys go only with a client whose deletion overlapped their creation; revocation sticks | 3 requests of any kind over 7 rows, 2 names, 2 prices, keys that all begin alike |
| `BillingNight` | types; a run ends early only for a cause; a run without failures beside no other has billed what it listed; a date that has come is billed some night | 2 projects of periods 1 and 2, the nightly and a manual run, clock to 2, 2 failures; fairness of the night |
| `Payments_stale_invoice` | `LegalInvoiceTransitions` fails | 2 attempts, no reconciliation |
| `Payments_unpaid_invoice` | `SucceededPaymentPaysInvoice` fails | 1 attempt, fair reconciliation |
| `Refunds_write_skew` | `FullRefundCascades` fails | 2 refunds, 1 webhook process, 1 reconciliation |

*Why the bounds are enough.* The interesting cases are two sessions over one row
and a third event between a read and a commit. Two attempts or refunds, one
invoice, and two sessions in every pairing (request and request, hook and
reconciliation, run and run) reach each of them; the violation runs
show that they do. One decline lets an event of an earlier try arrive after a
later success. Two refunds of a payment of two are the smallest partial refunds.
A lock that expires in the middle of the longest run lets a successor start and
outlive its own lock in turn. Two valid tokens from before (which overlapping logins
leave) and two refreshes are the smallest deadlock, and a third request comes between
or after; one failure is enough because what it leaves (a committed revocation, or a
token nobody was told) does not depend on others. In `Catalog` three requests are a
check, what comes between it and its commit, and a third that makes or uses what they leave; the
rows of the beginning give each handler something to work on. Two projects are one that is
hit and one that should not be; a period of one is missed twice by the time of two.
Every property of a passing run has a mutant of the
code that breaks it under the same bounds. `CHECK_DEADLOCK FALSE` is set where a
bounded number of attempts, refunds, requests or runs lets a behaviour end; `ReconcileLock`
goes on for ever and is checked for deadlock.

*Why some runs leave an actor out.* `Payments_webhooks`, `Refunds_rows` (PAID
invoices only) and `UsageBilling_nothing_left` (no change of frequency, prompt
commits) check a property under the conditions where it holds. That each condition
is needed is shown by a finding, or can be seen by lifting it:

| Lift | and TLC violates | because | against |
|---|---|---|---|
| `Payments_webhooks` with `Reconcilers <- MCOneReconciler` | `LegalPaymentTransitions` | `reconcile_payments` decides on rows loaded before it asked the provider and commits them at the end, over what a webhook committed in between; the next run repairs the status (`ReconciliationSettles`) | README.md:64, docs/api.md:683 |
| `UsageBilling_nothing_left` with `MaxChanges = 1` | `NothingLeftBehind` | `update_project` recomputes `next_billing_date` from now when the frequency changes, and the usage since the last period is in no period any more | docs/architecture.md:321 |
| `UsageBilling_nothing_left` with `MaxLag = 1` | `NothingLeftBehind` | a row's timestamp is the start of the worker's transaction, so it can appear in a period that is already billed | docs/architecture.md:321 |
| `UsageBilling_nothing_left` without `\/ faults > 0` in `AcceptedIsRecorded` | `AcceptedIsRecorded` | the task raises again but declares neither `autoretry_for` nor `acks_late`: the message is gone | docs/architecture.md:315, tests/test_usage.py:300 |
| `Refunds_rows` with `PaidStatuses <- MCPending` | `RefundedTogether` | the cascade moves the payment, raises for the invoice that reconciliation left PENDING, and `reconcile_refunds` commits that half | docs/api.md:742, docs/architecture.md:527 |
| `Refunds_rows` with `SPECIFICATION WebhookFairSpec`, `Reconcilers <- MCNoReconciler` | `RefundSettles` | the handler's branch is spelt "cancelled", the provider's status "canceled" | docs/api.md:795 |
| `Payments_unpaid_invoice` with `PROPERTY CollectedMoneyIsRecorded` | `CollectedMoneyIsRecorded` | an intent nobody has paid yet reads as FAILED, which is terminal here although it can still be paid | README.md:723 |
| `Refunds_write_skew` with `INVARIANT ClaimsWithinPayment` | `ClaimsWithinPayment` | two requests validate against the same remaining balance | docs/architecture.md:523 |
| `BillingNight` with `INVARIANT FailureIsIsolated` | `FailureIsIsolated` | a project deleted during its billing cannot be read by the handler, whose exception ends the loop | README.md:683 |
| `ReconcileLock` with `INVARIANT OneScheduledRun` | `OneScheduledRun` | the lock's 120 seconds pass under a run that is still going, and nothing extends it | README.md:703 |
| `RefreshTokens` with `Old <- MCNoOld`, `INVARIANT SingleSession` | `SingleSession` | two logins that overlap both revoke before either creates | docs/api.md:44 |
| `RefreshTokens` with `Old <- MCNoOld`, `INVARIANT NewTokenIsNew` | `NewTokenIsNew` | a refresh within the second of the login signs the same string again, so the token just spent is the one just issued | docs/api.md:175 |

*Fairness.* Beat starts reconciliation every three minutes and a run goes on, so
its steps are weakly fair (`Fairness`, `ReconcileFairness`); provider errors and
crashes are bounded by `MaxFaults`, which stands for "not for ever". Celery
workers take and finish tasks (`UsageBilling`). Nothing makes a customer pay, a
bank answer, a client send or a webhook arrive. Only `WebhookFairSpec` assumes
fair webhooks, to show that even then the event is dropped. In `ReconcileLock`
time passes and runs end. In `BillingNight` beat sends the task every night and a worker goes
on with it (`WF_vars(GoesOn(Night))`); manual runs are owed nothing. In `RefreshTokens` a thread goes on with the request it
has begun, and the database ends deadlocks; no request need arrive.

## 4. Findings

| Run | The code | The statement it contradicts |
|---|---|---|
| `Payments_stale_invoice` | a second creation returns a PAID invoice to PENDING | docs/api.md:602 |
| `Payments_unpaid_invoice` | reconciliation never pays the invoice, and the webhook returns early | README.md:48 |
| `Refunds_write_skew` | two halves of a full refund miss each other | docs/architecture.md:527 |

## 5. Proofs

`PaymentsProof` proves, for any sets of invoices, webhook processes and
reconciliation runs and any bounds, from the two assumptions of `Payments` (bounds
are naturals; `None` is no status), the type invariant, `StatusTellsTruth`,
`ChargedPaymentIsKnown`, `AttemptOpensInvoice` and `CollectionRecordedWithEffect`.
None of these is inductive by itself, because what will be committed is already
decided in a session. `IInv` adds what sessions hold: `Coherent` (request, row, link
and intent of an attempt agree), `PendingClaims` (every event, batch entry and
session that will claim the end of an intent is right about it, which stays true
since an intent ends once), `OpenedBefore` (a request whose invoice was not
GENERATED when it was read will still find it opened) and `WillWrite` (a session
that will record a succeeded event will write the payment).

Under `Alone` (one webhook process, no reconciliation, any number of requests: the
constants of `Payments_webhooks`) it also proves `RecordedCollectionStays` and
`LegalPaymentTransitions`. A handler checks a transition against a row it read earlier, so the
property is not inductive: `HookHoldsRow` says that the row is still what the session read,
because rows with a provider's id change only in a webhook's commit (`RowsStay`), and
`RowsAppearOnce` that requests write only rows no event can name yet. SUCCEEDED has no edge to
an event's target but itself (`CollectedIsFinalForEvents`). The condition is what the property
says in `Payments`; section 3 shows what happens without it.

`RefundsProof` proves, for any payments, amounts, refunds, webhook processes and runs, from the
assumptions that amounts are positive, bounds natural, first invoices PAID or PENDING and `None` no
status, payment or number, the type invariant, `RefundTruth` and `WholeRefundCascades`; for
invoices that are all PAID at first, `RefundedTogether`; and for one webhook process without
reconciliation, as for one run at a time without webhooks, `FullRefundCascades`, which
`Refunds_write_skew` shows to fail with both. None is inductive: a cascade decides on a view of the
refunds that others change before its commit. The argument is an action property,
`NothingIsTakenBack`: a step never undoes a refund that has ended at the provider, changes the
payment or amount of a claim, or deletes a row, so what was given back of a payment
only grows (`RepaidStays`). A conclusion from an old view is therefore still true at the
commit; `HooksTrue` and `RunsTrue` are these conclusions, `EventsTrue` and `Ordered` what they rest
on. For `WholeRefundCascades` they add that a session that completes a refund of everything has
put the payment among its writes or found it REFUNDED. For `FullRefundCascades` `HookTakes` says
that the cascade, run on the rows as they would be now, would come to the same result, which holds as
long as nobody else completes refunds (`OnlyCommitsComplete`). `RunTakes` says the same of a run, which
has the changes of its own session before its eyes (`Seen`).

`RefundsProof` also proves, with no further condition, that `Refunds` implements `RefundLedger`: every
step enters a claim or a row, ends one refund at the provider and adds its amount to what was given
back of its payment, settles rows as they ended together with payments and invoices (one commit), or
is hidden (`StepRefines`). `LedgerInv` adds that a session or run writes an invoice only with its
payment or after it, and that unused requests have no payment. The ledger keeps a running
balance where the code adds up rows; `EndReturns` and `ReturnedStays` connect the two. The
ledger says what holds whatever overlaps: a refund is settled once and not reopened, and a commit
that settles one of everything takes the payment along. It promises neither that claims stay within
the payment nor that refunds which cover it only together cascade: both fail (section 3).

Amounts are added by `SumFunctionOnSet` of the community modules, a fold. `Sums` proves what is
needed of it: the sum is a natural number, is not less than the sum over a part or than a
member, and depends on the values on the set only. Induction theorems take an operator, which the
provers cannot instantiate, so each proof takes the set of counterexamples among the subsets
of the finite set and a minimal one of them, which exists because inclusion is well-founded on
finite sets (`MinimalSubset`); the fold's recursive function itself is shown to exist and to be unique
the same way (`SumExists`, `SumUnique`).

`ReconcileLockProof` proves, for any number of workers and callers, the type
invariant, `OverlapNeedsTimeout` without any assumption on how long a run takes (and from it
that scheduled runs never overlap when `MaxRun < Timeout`), and `LockIsItsHolders`. The first is not
inductive: `RunnerHolds` adds that a worker that runs holds the lock and its age and
the lock's remaining time make the timeout, or its age has reached the timeout. The last needs
`KeyHasTime`: a key that is there has a tick left, so that only a last tick drops it.

`RefreshTokensProof` proves, for any number of requests and any tokens from before,
the type invariant, `SessionsOverlap` and `TokenSpentOnce`, from the assumptions that
`None` is no token and old tokens are no requests. `IInv` adds `RowsAppear` (a row is
there once its request has created it), `RowsHeld` (what a session has selected or
revoked is locked by it and valid), `TokenHeld` (from the comparison to the commit a
request holds the row it was let in with, and its UPDATE has the row before it or
behind it) and `EarlierEnds` (a valid token of an earlier request is still in the way
of the UPDATE, and there is none after its commit).

`UsageBillingProof` proves, for any messages, workers, runs, periods and bounds, from the
assumption that `None` is no invoice, the type invariant, `BilledOnce`,
`UsageIsWriteOnce` and that `UsageBilling` implements `ExactlyOnceBilling`. `IInv` adds what
runs hold: `FoundIsRecorded` (what a run's snapshot found is recorded), `StagedIsDue`
(what it has staged is not on a committed invoice) and `StagedApart` (no usage
is staged by two runs, since each holds its lock until it commits).
For `MaxChanges = 0` and `MaxLag = 0` (one frequency, a worker's transaction within one tick: the
constants of `UsageBilling_nothing_left`, and section 3 shows that each is needed) it proves
`NothingLeftBehind` as well. `LeftInv` adds `PeriodBegun` (the next billing date is at most a
period ahead) and `RunsCover`: uninvoiced usage a run has not staged is not older than
the period the run is at and, once its snapshot is taken, what the snapshot missed is not older than
that period's end, because usage gets the time at which it appears (`WorkersPrompt`). When
the commit moves the billing date to the run's period, nothing uninvoiced is before it.

`BillingNightProof` proves, for any projects, periods and runs, from the assumptions
that periods are positive, bounds natural and `None` and the unbound value no projects, the
type invariant, `EarlyEndHasCause` and `CompletedRunHasBilled`. `IInv` adds `LoopState`
(what the loop's variable says of the projects behind it), `StagedDates` (a staged date is
past the time of its run, which is a fact about `Advance` and integer division),
`Aloneness` (beside a run that was alone only later ones go, which can move a date
only further) and `ThroughIsBilled` (what is behind a run without failures has been billed or
is staged).

`CatalogProof` proves, for any rows there are at first, names, prices, generated keys and
number of requests, the type invariant, `TwinsOverlap`, `UsageAccountable`,
`InvoicedAtOfferedPrice`, `RevocationSticks` and `KeysOutliveDeletion`. It assumes that the
first rows are a state of the database (each under a row that is there, rules with
positive prices, no two for the same thing, no usage), that requests are not their ids and
that `None` is none of this. None of the properties is inductive, because a session commits
what it read when others had not committed. `IInv` says what a reading is worth later: ids
are not used again (`RowsSettled`), so a row that is found again is the same one, with the table,
the parent and the line it had (`Fits`, `Knows`, `Belongs` in `SessionsOK`); the rows about to be
inserted have an excuse for their twins already, or get one from a session that is open
with them (`PendingTwins`, `EarlierOver`); a deletion has seen all keys of requests that
were over when it began (`DeleteOK`); no usage is billed by two runs, and what a run
has read of the rules is on offer (`BillOK`). The steps are proved in two halves: a request that
begins changes no row (`StartStep`), and a commit has one `Effect` (a row goes by a deletion,
keeps what sessions know of it, or is the session's own), from which the invariant follows once.

Only model-checked: liveness (`ReconciliationSettles`, `RefundSettles`,
`AcceptedIsRecorded`, `ReconciliationRecurs`, `EveryRequestEnds`, `BilledOrGone`), which is beyond
the prover, and the violations of section 4. Every invariant and every action property of a passing run is a
theorem.

## 6. Not modelled

The dashboard and all listings only read; schemas validate input; migrations and
deployment are generated or configuration. Item rows and sums of prices, calendar
arithmetic (a month is a number of ticks) and the conversion to cents, where
`int(amount * 100)` of a binary fraction can lose one, are planned below.

## 7. Plan

1. Done: `Lifecycles`, `Payments`, `UsageBilling` with `ExactlyOnceBilling`,
   `Refunds` with `RefundLedger`, `ReconcileLock`, `RefreshTokens`, `BillingNight`, `Tables` with
   `Catalog`; proofs of all of them, with the refinement of both abstract specifications.
2. An abstract specification of what payments promise (a status follows the provider), refined
   by `Payments`, with the step lemmas of its proof as the refinement's steps.
3. Payments and Refunds composed: attempts on an invoice that is REFUNDED, and
   the number of collected attempts of one invoice.
4. `Money` and `BillingCalendar`: pure operators for item totals, rounding, cents
   and month arithmetic against reference definitions.

A run asks one question, so a new module gets one run, and violations that
explain each other share a run's finding; the rest are lifts in section 3.
