# Verification of the captive portal add-on

TLA+ models of the Home Assistant captive portal add-on (`addon/src`), checked with TLC and, where it says so, proved
with TLAPS for every value of the constants. `PROJECT.json` lists the runs, the mutants every property is tested
against, the source lines each definition stands for, the findings, the hazards and the theorems.

## 1. The system

The add-on is one asyncio process: a FastAPI application, background loops, a SQLite database and an HTTP client to a
network controller. Nothing runs in parallel, but every `await` lets another handler or loop run. Handlers share the
database, a few in-memory singletons and the controller; they hold no locks on rows and rows carry no version.

| Component | State | Operations | Interacts with |
|---|---|---|---|
| Grant lifecycle (`services/grant_manager.py`, `api/grants.py`) | rows of `grants` | create, activate, extend, shorten, revoke, expire by hand | repository, retry policy, controller, audit log, metrics |
| Expiry scheduler (`services/expiry_scheduler.py`) | running flag, grace period | loop, one pass over due grants | repository, controller, audit log |
| Retry policy (`services/retry_policy.py`) | counters | attempts with backoff around a controller call | grant lifecycle |
| Controller adapter (`controllers/`) | vouchers on the controller (external), token | provision, extend, revoke | grant lifecycle, scheduler |
| Audit log (`services/audit_logger.py`, `api/audit.py`) | event rows | one insert per event, queries | everybody |
| Portal authentication (`portal/router.py`) | none of its own | check limit, read voucher, use it, make and activate a grant, count the result | limiter, vouchers, grants |
| Rate limiter (`services/rate_limiter.py`) | attempts and lockouts per client, in memory | check, record, reset | portal |
| Vouchers (`services/voucher_service.py`, `api/vouchers.py`) | rows of `vouchers` | create, use, deactivate, expire | portal, repository |
| Queue scheduler and queued operations (`services/queue_scheduler.py`, `services/queue_integration.py`) | priority queue, workers, active tasks, metrics | submit, work, retry, scale, stop, drain | grants, lifespan |
| Event ingestion (`services/event_ingestion.py`) | running flag | ingest a booking (look it up, create and activate a grant), watch loop (a stub) | grants |
| Theme manager (`services/theme_manager.py`, `api/theme.py`) | cached theme object and its age, theme row | read through the cache, update in place, reset | portal, sessions |
| Metrics and health (`services/metrics_exporter.py`, `api/health.py`, `api/system.py`) | counters and gauges | record, export | everybody |
| Sessions (`storage/database.py`), repositories (`storage/repository.py`) | one connection that all sessions share, and its transaction | statements, commit, rollback, whole-row updates | everybody |
| Lifespan (`app.py`), auth (`core/auth.py`), configuration | started services | start, shut down | all services |

### What is hard here

* **Read, await, write.** Each operation reads a row into an object in one session, awaits (a controller call may take
  seconds and be retried), and writes every column back in another (`GrantRepository.update`, `VoucherRepository.update`).
  Whatever was saved in between is lost.
* **A row and a controller.** Revocation, extension and expiry save the row, then call the controller; activation calls
  the controller, then saves the row. A failed call, a lost reply or a crash leaves the two apart.
* **Nothing is retried later.** Comments speak of later retries by a scheduler; only the loop inside
  `execute_with_retry` repeats anything, and only for exceptions.
* **Check then act** in the portal: limit, voucher and use are looked at and changed in different steps.
* **Database errors.** Each session may raise. Handlers answer with an error and leave behind what they saved before; the pass goes on with
  the next grant (`expiry_scheduler.py:217`), and creation swallows the error of the activation that follows it (`api/grants.py:79`).
* **Times with an offset.** A request may name times with any offset from UTC; a row keeps what the clock shows and is read as UTC.
* **One connection.** Every SQLite url, the default one included, gets a pool of one connection handed to all sessions at once
  (`database.py:45`): the statements of two sessions that overlap are in one transaction, and either may commit or roll back both.
* **Memory and table.** The limiter, the theme cache, the metrics and the queue are lost at a restart; the tables stay.

### What makes each component correct

* Grants: a row is never a mixture of two histories; transitions follow the contract; every change is audited; closed
  on record means cut off at the controller, active means access until the end; due grants close.
* Portal, limiter and vouchers: failures on record are bounded whatever overlaps; a client at the limit is locked out;
  no voucher makes more grants than its uses; a deactivated voucher is used no more.
* Queue: every submitted task is run, retried or given up, never lost; the pool stays within its bounds; drain returns
  only when nothing is left.
* Bookings: no booking has more grants than requests that raced for it; an event sent again finds the grant it made; what
  `list_grants` returns is enough for the scheduler.
* Sessions: what was committed is in the file, and nothing of what was rolled back.
* Theme: what the portal shows is the theme that was saved, or becomes it when the cache expires.

## 2. Modules

| Module | Models |
|---|---|
| `GrantLifecycle` | request handlers, expiry passes, the grants table, audit log and controller, at the granularity of awaits |
| `GrantContract` | what the grant endpoints promise, each request as one step, and the little they promise after a race |
| `GrantRaces` | extends `GrantLifecycle` by a record of the grants that two had in hand at once; the contract is implemented here |
| `MCGrantLifecycle`, `MCGrantRaces` | constants and symmetry for TLC |
| `GrantLifecycleProofs` | type correctness and row consistency |
| `GrantAuditProofs` | the audit property |
| `GrantRaceProofs` | grants, audit log and controller agree, and the contract is implemented, except for grants that were raced for |
| `RateLimiter` | attempts, lockouts, check and record |
| `PortalAccess` | extends `RateLimiter`: the login handler, the vouchers table, deactivations, restarts |
| `VoucherContract` | what a voucher promises, each login and deactivation as one step |
| `MCPortalAccess` | constants and symmetry for TLC |
| `PortalAccessProofs` | types, limiter bounds and voucher rows |
| `PortalUsesProofs` | uses counted and deactivations kept, for vouchers held by one request at a time; the contract is implemented |
| `QueueScheduler` | queue, workers, scaling, stop, and what drain reads |
| `TaskLedger` | what the queue promises whoever submits a task |
| `MCQueueScheduler` | constants for TLC |
| `QueueProofs` | types, conservation of tasks, what drain sees, the pool, the ledger is implemented |
| `BookingIngestion` | requests for bookings up to the insert, the reach of `list_grants` |
| `MCBookingIngestion`, `BookingProofs` | module of its run; types, duplicates, answers |
| `SharedConnection` | database sessions on one connection, at the granularity of statements |
| `ThemeManager` | extends `SharedConnection`: theme row, cache, theme requests, and sessions of other components |
| `MCThemeManager`, `ThemeProofs` | constants for TLC; types, the connection, cache and table |

### GrantLifecycle

`rows` is the grants table. A handler (`task`) has a program counter, the object it holds (`obj`), the time a request
names (`arg`), the offsets of the times it names (`zone`) and its local `now` (`at`). An action is the code between two awaits: `ReadGrant` is the read session,
`StartActivation`, `ApplyChange` and `Refuse` the checks of `activate_grant`, `extend_grant`, `shorten_grant` and `revoke_grant` with
the change they make to the object, `SaveRow` and `SaveRefused` the write session (the table's CHECK refuses some), `ProvisionReturns` and
`ProvisionRaises` one attempt of the retry loop, `ExtendVoucher` and `RevokeVoucher` the controller calls after the save, `LogOutcome`
the audit record. A pass of the scheduler (`pass`) copies the due grants (`StartPass`) and takes them one at a time
(`ExpireRow`, `LogExpired`, `RevokeExpired`). A session that fails ends the handler (`SaveFails`, `LogFails`) and, in a pass, the work on the grant
at hand: before the row is saved it is due again next time (`ExpireFails`), after it, when the audit event cannot be written, the call of the controller
is skipped for good (`LogExpiredFails`). A session that only reads, or inserts a new grant, leaves nothing behind when it fails and has no action. `live`, `owner` and `until` are the controller's own state: the vouchers
it honours, whose they are and until when. `Faults` says what it may do wrong. `Crash` loses handlers and passes, and keeps
table, audit log and controller.

A time is a number, what a clock shows, and an offset from UTC; `Offsets` are those a request may use. Checks and the controller get the time itself (`Held`, `Named`: the
number less the offset), the row gets the number (`Stored`, `schema.py:26-27`), and whoever reads the row takes it for UTC (`ReadGrant`,
`domain.py:98`). Only the handler that created a grant holds an object with other offsets than UTC; extension and shortening
put such a time into an object that was read. The CHECK compares the numbers.

Five history variables remember what the code does not make up for, and each is a waiver of some property:

| Variable | Holds | Waives |
|---|---|---|
| `cut` | grants a crash left with a step undone, and those whose voucher was provisioned and could not be saved | audit, orphans, cut-off and access of that grant |
| `failed` | grants for which a controller call went wrong | orphans, cut-off and access of that grant |
| `unlogged` | audit events whose session failed | the audit of just this event; cut-off of a grant that a pass expired without the event |
| `shifted` | grants given a time with an offset | that the row shows an activation within its window, and that the voucher lasts to the row's end |
| `raced` (`GrantRaces`) | grants two had in hand at once | the contract, orphans, cut-off and access of that grant |

So the properties say of the code exactly this: a failed save or audit record leaves table and controller in agreement, but for a voucher just provisioned and for
a grant that the pass expired unaudited; the latter keeps its voucher for ever. A grant of another zone keeps a coherent row and a live voucher, but its window in
the table is not the one it was activated in: with end 12:00+02:00 the voucher ends at 10:00 UTC while the row promises 12:00 UTC, and a shortening
checked against the real time may write a number beyond the row's old end (`GrantContract` lets a shortening move the row's end either way for that reason).

`GrantRaces` adds the history variable `raced`: the grants of which two handlers or passes once held a copy, or had still to tell the
controller, at the same time. It changes no step. A grant is `Undisturbed` when it is at rest and in none of `cut`, `failed` and
`raced`; of such a grant table, audit log and controller agree: `NoOrphanVoucher`, `ClosedMeansCutOff` and `ActiveMeansAccess` are about requests
and passes that handle a grant one after the other, beside others at work on other grants and with failing sessions. What goes wrong in an overlap, a crash or after a bad reply
is the subject of `ImplementsContract`, `RowsConsistent`, `ChangesAudited`, `DueGrantsClose` and of the findings. `GrantContract` is implemented whatever overlaps: its variable `waived` is `raced`, and
only a waived grant may take the step `Overwrite`, which leaves its row in place and lends it no other grant's voucher.

Each database session is one atomic step. That is so as long as sessions do not overlap on the connection they share: `SharedConnection`
has them statement by statement (the same goes for `PortalAccess` and `BookingIngestion`), and `AloneMeansKept` is what a session that had the connection to itself may count on. A save and the
write session of another handler can overlap in the program; what they then do to each other is the finding `sessions_lost`.
Error texts, reasons and users are left out; `error` says whether `last_error` is set. Two details are
abstracted: a pass takes its `now` together with the list, and the identity of bookings does not appear.

### RateLimiter and PortalAccess

The limiter's methods run under an asyncio lock and await nothing else, so each is one operator. An attempt on record
is its time and the number of its request; the list of the code holds times only, and its length is the cardinality
of the set here. `PortalAccess` follows the login handler: `Authenticate` (the check), `Lookup` (the read session),
`LookupFails` (that session raises outside the handler's `try`, and the attempt is not counted), `Reject` or `Accept` (the checks on the copy, and the count on the copy), `SaveUse`, `CreateGrant`, `Succeed`
(clears the limiter), `Report` (the audit record) and `SystemError` (any of the writes fails; what was written stays,
the attempt is counted as failed). `DeleteVoucher` and `SaveInactive` are the two sessions of a deactivation, whose save may fail (`SaveInactiveFails`). `made`, `off` and
`raced` are history: grants made, vouchers whose deactivation was saved, vouchers of which two requests held a copy at once.
`expires_at` is left out because no request sets it. `VoucherContract` has a login take its use in one step, a grant made for a
use that is not yet spent on one, and no way back from an inactive voucher. Like that of grants it is waived for a voucher of which two copies were
held at once, down to a consistent row of a voucher that exists.

`DeactivatedUnused` and the strict part of `VoucherContract` speak of vouchers no two requests held at once: a stale save over a deactivation, or over
another login's use, is `portal_reuse` and the waiver. `OverLimitMeansLocked` and `AttemptsBounded` are about what is in memory, so a restart, which clears both maps, meets them trivially.

With at least one attempt allowed, `OverLimitMeansLocked` shows that the branch of `check_rate_limit` that
starts a lockout (`rate_limiter.py:120-138`) is never taken: `record_attempt` has started it already.

### QueueScheduler

`Submit` is `submit_task` with the evaluation of scaling it ends in. A worker waits (`wait`), runs a task (`run`) or
sleeps before it puts one back (`retry`); `Take`, `Complete`, `GiveUp`, `Retry`, `PutBack`, `TimeOut` and `Unwind` are the stretches of `_worker`
between awaits. A `get` from a queue that holds something does not suspend, so a worker that ends a task takes the next
one in the same step (`Proceed`). `Evaluate` is `_evaluate_scaling`: the 95th percentile it reads may be of any level and the cooldown may hold
or not, the two streak counters are kept. `Grow` is atomic; `Cancel` cancels workers and leaves a record in `shrinking` until
`Shrunk`, since the new count is stored only after the cancelled workers have ended. Other submitters, and a second collector after
a quick restart, evaluate meanwhile. `Stop` clears the flag and leaves a record in `stops` of the workers it waits for; `Stopped` empties the pool when they
have ended. `Start` asks for the flag only, as line 118 does, so that it may come while a stop waits: it finds the old workers still in the pool, those that have ended included, starts
what is missing or cancels what is too many, and the workers that have not yet looked at the flag go on. Then the stop need not return; if it does, it empties the pool of the
new start. `overlapped` is history and says that this has happened. From then on `PoolSound` keeps only the upper bound, and `TasksSettle` says nothing; `StopReturns`
promises that a stop returns unless the scheduler is running again. `Drained` is the condition `drain` polls. The queue is a set: tasks of one priority leave
it in any order, which leaves out only the time they were put. `fate` is history; `"cut"` says that the worker was
cancelled with the task: the code forgets it, which `TasksConserved` records and does not forbid; `WorkVisible` likewise excepts tasks put back after a stop and tasks that
share an id.

`TaskLedger` is the queue without workers, pool and counters: each task has a stage and a number of failures. `Stage` maps the detailed
state to it: a task that is not settled is in the queue, or with a worker that runs it or sleeps over it. Since a worker that lets
go of a task may take another in the same step, a step of the ledger ends in a task served, or none (`Served`). What `ImplementsLedger` adds to
`TasksConserved` is the order: the most urgent of the queued tasks is served, one put back by its urgency anew, a new attempt comes only after a
failure, and a task that ended, in whatever way, is not touched again.

Which tasks are in the queue is a matter of its API: in production the lifespan only drains it (`app.py:142`), and nothing starts it.
FR-020 lets the pool grow when latency is low; the code grows it when it is high. No property speaks of that direction, and the model reads either level.

### BookingIngestion

A grant is named after the request that made it. A request looks its booking up in the newest `ListLimit` grants (`ListFinds`,
`ListFindsNone`: the handlers' own check), then by booking id (`CheckRefuses`, `CheckPasses`: the check of
`create_grant`), and inserts in a third session (`Insert`). `stamp` is `created_at`, taken before the insert. `Lose` ends a request before or after
the insert, which an event sent again does not know. `NoBooking` is a null booking id: a post with it is not checked (the portal's
grants), an event with it is looked up like any other. `BecomeDue` and `Pass` stand for what `GrantLifecycle` does in detail, since here only
which grants a pass sees matters. `ListedDueClose` is about the grants within `list_grants`' limit: of an older one the code promises nothing, it is never expired. `peak` is history: how many requests for a booking were past both checks at once.

### SharedConnection and ThemeManager

`view` is the database as the connection sees it, `committed` the file. `Select` and `Put` are statements, `Commit`, `Rollback` and `Return`
the end of a session: `get_session` commits or rolls back, and the pool resets the connection once more when it comes back.
`Disconnect` is the end of the process. `alone`, `promised` and `doubtful` are history: whether another session ran meanwhile,
what a committed session was told, and which rows were last written by a session that was not alone.

`ThemeManager` runs the sessions of theme requests on it. `heap` holds the theme objects, named after the request that made them, because
the cache holds a reference: `update_theme` changes the cached object (`Proceed`) before `SaveSelect`, `SaveWrite` and `Saved`
write it. `Load` and `Loaded` read past an empty or old cache; `Fails` and `Failed` end a session that raises, which leaves the cache as
it is. A title or a colour is one of a few kinds, told apart by the checks: a blank title passes `update_theme` and is refused on reading,
a colour of three digits passes and breaks the table's CHECK, so does an empty one, which is not looked at at all (`theme_manager.py:129`), a malformed one is refused at once. Handlers that are no theme
requests are other components' sessions, which insert a row of their own or only read. `suspect` is history: the cached object was
read next to another session, or a save has failed since. `CacheAgrees` excepts such a cache, and `AloneMeansKept` sessions that were not alone: what happens to these is left to
`StaleThemeExpires`, which says that a wrong theme does not stay, and to the finding `sessions_lost`.

## 3. Runs

| Run | Specification and bounds | Shows |
|---|---|---|
| `grant_concurrent` | `RaceSpec`; 1 grant, 2 handlers, 1 pass, 3 requests, 1 crash, 1 failing session, failures and exceptions of the controller, clock to 2, grace 1 | types, coherent rows, audited changes, whatever overlaps; the contract is implemented; table, audit log and controller agree about what was not raced for |
| `grant_neighbours` | `RaceSpec`; 2 grants, 1 handler, 1 pass, 3 requests, offsets 0 and 1, a controller without faults, clock to 2, grace 0 | the same with times of two zones, and while the other grant is handled or raced for |
| `grant_expiry` | `FairSpec`; 2 overlapping handlers, 1 pass, 2 requests, 1 retry, 1 crash, 1 failing session, exceptions, late effects and no controller | due grants close |
| `grant_revoke_retry`, `grant_active`, `grant_revoked` | smallest bounds at which it happens | the findings below |
| `portal` | `Spec`; 1 client, 2 handlers, 4 logins, 1 deactivation, 1 voucher of 2 uses, limit 2, 1 restart, errors | limiter and voucher invariants; the voucher contract is implemented |
| `portal_reuse` | 2 logins, 1 voucher of 1 use, nothing fails | the finding below |
| `queue` | `FairSpec`; 2 tasks of different priority, 2 workers, pool of 1 to 2, 1 retry, streaks of 2, 2 starts | no task is lost unaccounted, drain sees the work, the pool is sound, tasks settle, stop returns, the ledger is implemented |
| `bookings` | `FairSpec`; 3 requests, 1 booking and the null one, a list limit of 1 | duplicates only where requests overlapped past both checks, true answers, due grants within the limit closed |
| `themes` | `FairSpec`; 2 theme requests, 1 session of another component, 4 kinds of update, cache of 2 ticks, failures and restarts | sessions that ran alone are kept, cache and table agree, a stale theme goes away |
| `sessions_lost` | 2 sessions of other components | the finding below |

Why the bounds are enough: the properties speak of one grant, voucher or client at a time, and operations on different
ones share only the clock, the controller's choice of fresh ids and the connection, whose sessions have a run of their own (`themes`); two handlers and a pass give every overlap of
two writers with the scheduler. Three requests are create, activate and one change. In `grant_neighbours` a handler and the pass are at
work on two grants, on different ones or on the same, so that a race for one does not count for the other, and a fresh voucher is one among two. One offset beside zero makes every order of the time and its number happen, in both directions, since a start and an end
have offsets of their own. The hazards are spread over the three runs because together they are too many states for minutes; larger instances were checked once and held: all faults, two offsets and
a crash (5.3 million states), a failing session, a crash and a retry (4.3 million), an offset of -1 in place of 1 (4.3 million), and everything at once with two requests. The clock gives a start, an end and a time past the grace period. Four logins with a limit of two fill the
window, overlap at the limit and go one beyond. Two tasks let one be cancelled while another is retried; the
second start comes after the stop, or while it waits, and meets what the first left. With three workers, where a new one is started beside the one that still ends, the same
properties hold (1.95 million states, too many for a run of a few minutes). The streak of 5 before
the pool shrinks is 2 here: the evaluations between do nothing. Three requests for a booking are
two that race and one that comes later, or a grant, a newer one that pushes it out of a list of one, and the repeated event; the limit of
the code (10000) differs only in number. Two theme requests and a third session let a save fail, or a read go stale, beside another session, and
a later request meet what that left; two ticks tell a cache that was read from one that was renewed. Deadlock checking is off because requests and the clock are bounded:
a behaviour that used them up stops.

`raced` names the condition under which the properties of table, audit log and controller hold. The code has neither row versions nor locks, so
it keeps them only for a grant that no two had in hand at once, and `grant_revoked` shows that otherwise it does not. That handlers and passes of other grants
overlap is no exception: neither is that the same grant was handled before, by whatever requests, one after the other.

**Fairness** (`FairSpec`): weak fairness of each handler's and each pass's next step and of the clock. asyncio runs every task that
is ready, the scheduler's loop catches what a pass raises and starts the next one, and time passes. No fairness is
assumed for requests or of a good answer from the controller. `MaxErrors` and `MaxCrashes` make failing sessions and crashes finitely many, which `DueGrantsClose` needs: a database that always
fails expires nothing.

For bookings it is weak fairness of the scheduler's pass, for themes of the clock alone: a stale theme goes away with time, whatever
requests do or fail to do.

For the queue it is weak fairness of each worker's next step and of the end of stop: a task's coroutine returns or raises in the end, and a
`get` times out every second. Nothing is assumed of submitters or collectors.

## 4. Findings

* `grant_revoke_retry`: a controller revocation that failed "will be retried by the expiry scheduler"
  (`grant_manager.py:680`); the scheduler looks at open grants only.
* `grant_active`: a reply without success makes the grant active without a voucher, past the comment that says
  only a success gets there (`grant_manager.py:306`).
* `grant_revoked`: a slow activation overwrites a revocation (`grant_manager.py:318`).
* `portal_reuse`: two logins at once redeem a single-use voucher twice (`router.py:263`, `voucher_service.py:198`).
* `sessions_lost`: of two sessions that overlap on the shared connection one fails, and its rollback takes the row of the other, which
  then commits and reports success (`database.py:45`, `database.py:69`).

Some are seen in the text or follow from a property's waiver, and have no run of their own: a time with an offset is stored as another time (`schema.py:26-27`, waiver `shifted`);
a pass that cannot write its audit event leaves the voucher live for ever (`expiry_scheduler.py:217`, the premise of `ClosedMeansCutOff`); a `start()` during a `stop()` may keep it
from returning (`queue_scheduler.py:118`, waiver `overlapped`); with no controller configured the handler reads a variable never assigned and the error is not saved
(`grant_manager.py:274`, `ControllerMissing`); nothing calls `process_pending_activations`, so a grant made in advance stays pending until
somebody activates it, whatever the scheduler's docstring says (`expiry_scheduler.py:6-9`); and operations of one kind queued on one grant share a
task id (`queue_integration.py:77`), so that `drain` may miss the second (`WorkVisible` excepts tasks of a shared id).

## 5. Proofs

The proofs assume no more than the modules' named assumptions: `LifecycleAssumption` (naturals, integer offsets with zero among them, a null voucher and a null grant outside
their sets, handlers that are no passes, known faults; nothing need be finite), `LimiterAssumption` and `PortalAssumption` (finitely many handlers), `QueueAssumption` (finitely many tasks and
workers, a pool of at least one), `ConnectionAssumption` and `ThemeAssumption` (nulls that are no values, one row for the theme),
`BookingAssumption` (finitely many requests, a list limit of at least one).

* `TypeCorrect` and `RowsAlwaysConsistent` (`GrantLifecycleProofs`). Row consistency alone is not inductive: a row is about to be
  replaced by an object some handler holds. The invariant `IInv` says the same of every object in flight, with what its
  program counter has established (the checks passed, the local time not in the future, the voucher fresh), and of the copies of the
  passes; of grants that are not `shifted` it says too that the request's times were in UTC and that an activation lies between the object's. One lemma per action shows that `IInv` is kept.
* `ChangesAlwaysAudited` (`GrantAuditProofs`). The invariant follows an activation or a revocation from the object it was
  made on (of a handler or of a pass's copy) to the row it is saved in: it is audited, to be audited by a handler
  still running, cut by a crash, or its event is in `unlogged`.
* `PortalAccessProofs`: `TypeCorrect`, `AttemptsAlwaysBounded`, `OverLimitAlwaysLocked`, `VoucherRowsAlwaysConsistent`. The invariant adds to the
  properties that the failures of a client are finitely many, and that the copies in flight, of logins and of deactivations, are as consistent as the rows they
  will replace. `CheckKeeps`, `FailureKeeps` and `SuccessKeeps` say what the three limiter operations do; `BoundKept` that an ending handler pays
  for the failure it records.
* `PortalUsesProofs`: `UsesAlwaysCounted`, `DeactivatedNeverUsed`, `VouchersKeepContract`. The invariant `UInv` follows each voucher of which no two copies were ever held
  at once. The one copy there may be is the row, or the row as it is about to be saved; the row of a deactivated voucher
  is inactive; and the grants made with those of the handlers in "create" are no more than the uses of the row. An exception is
  needed: a handler that looked a code up before its voucher was created holds an empty copy, which no check accepts. A saved use
  moves a handler into "create", the grant it makes moves it out. For the refinement `CInv` adds `Existing`, of raced vouchers too: who holds a copy that
  may be saved replaces a row that is there, by one that is not blank. `RowSeen` says how the contract sees one row replaced.
* `QueueProofs`: `TypeCorrect`, `TasksAlwaysConserved`, `WorkAlwaysVisible`, `PoolAlwaysSound`. The invariant has a part for tasks and one for
  the pool. For tasks, a depth of zero means that all queued tasks were put back late, and the id of every task in flight is active or shared. For the pool,
  workers in it and cancelled ones are disjoint, the alive are among them, and the count in use is within the bounds even while a
  stale target waits to be stored. Until a start overlaps a stop, no stop waits while the scheduler runs and a stop that waits has all of the pool to wait for; afterwards only the upper bound is kept. `TasksMove` covers every step of a worker that leaves a task, `Resized` every change of the pool.
  `QueueKeepsLedger` is the refinement: `StageOf` reads a stage off the queue or the one worker that has the task, `StageStays` says who does not
  move, and `WorkerServes` that a worker which lets go of one task takes the most urgent of those then queued, or none.

* `GrantRaceProofs`: `RaceInductive`, `NoOrphanAlways`, `ClosedAlwaysCutOff`, `ActiveAlwaysReached`, `GrantsKeepContract`. The three properties speak of grants at
  rest. Between the steps of a handler they do not hold, so the invariant `RaceInv` says what holds instead, grant by grant. Of a grant that is not raced,
  `Agreement` has three cases. Nobody has it in hand: `Rest`. One handler has: `HandlerOK`, by its program counter (an activation about to be
  saved has its voucher; between the save and the controller's answer the row is ahead of the voucher). A pass has a copy: `CopyOK`, the copy is
  the row as it stands. `Ownership` holds of raced grants too: no row, no object and no copy bears another grant's voucher, so that a
  stale write harms the grant it writes and no other. That grants in hand twice are in `raced` (`Contended`) is part of the invariant; with it
  `HandlerAlone` and `NewHandlerAlone` give the step of a handler on a grant that is not raced the row it read. One lemma per action follows.
  The refinement needs more (`FreshInv`): `Existing`, that who has a grant in hand knows that its row exists, and
  `CopiesFresh`, that what is about to be written is a step of the contract from the row as it is, for grants a crash or a fault has
  touched too. A write to a raced grant is `Overwrite`.
* `ThemeProofs`: `TypeCorrect`, `ImplementsConnection`, `AloneAlwaysKept`, `CacheAlwaysAgrees`. Every step of `ThemeManager` is one of `SharedConnection` or leaves the
  connection alone, so what `ConnInv` says of sessions holds for it: what the connection shows beyond the file was written by a session under
  way (`PendingOwned`), and two of them leave no written row unmarked (`WritesMarked`). `CacheInv` follows a theme object from the session that read
  it (`ReadAgrees`) to the cache; `ObjectsOwned` says that an object not yet read is nobody's, so that no other request changes it.
* `BookingProofs`: `TypeCorrect`, `DuplicatesAlwaysBounded`, `RepliesAlwaysTrue`. Bounding the grants of a booking is not inductive: requests past the
  checks will add to them. The grants and the requests about to insert together are bounded by `peak`, because a request passes the second check only
  when there is no grant yet.

Every invariant of a run is proved. Only model-checked: the liveness properties (`DueGrantsClose`, `TasksSettle`, `StopReturns`,
`ListedDueClose`, `StaleThemeExpires`), since fairness is beyond the prover.

## 6. Not modelled

* The HTTP client of the Omada controller, request schemas, configuration, logging and the asset loader are I/O or validation without state.
* Times: sub-second precision, daylight saving and naive times beyond the offset. A session that fails after its commit is not told from one that fails before.
* Metrics: the grant gauges are written by `GrantManager` and read by export methods that have no caller; `/metrics` counts rows. They do
  drift from the table (a revocation decrements the active gauge of a grant that never was active), but no behaviour depends on it.
* Lifespan: a straight line at start and one at shutdown. The queue it drains is never filled, and the pass that stopping the
  scheduler cancels is lost as a crash loses it (`Crash`).
* Admin authentication compares a token and keeps nothing.
* The watch loop of event ingestion is a stub that logs. What the queued coroutines do is what the grant manager and the voucher service do.
* `shorten_grant(immediate=True)`, `expire_grant`, `update_grant_error`, `process_grant_lifecycle`, `reset_client` and `expire_vouchers` have no caller.

## 7. Left for later

1. Compose `SharedConnection` with the sessions of grants and bookings: which of their properties survive a lost or joined transaction.
2. Join `BookingIngestion` and `GrantLifecycle`: the activation after an ingested event, and its failure.
3. The voucher and portal events of the audit log.
4. Contracts of the bookings and of the theme row, as the grants, the vouchers, the connection and the queue have them.
