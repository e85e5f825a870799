# Verification of Quant_Strategies

TLA+ models of the repository's server side, the TLC runs that check them on
small instances, and TLAPS proofs of the main results for every size.  Paths are
relative to the repository.  `PROJECT.json` lists components, runs, mutants, the
map from definitions to source lines, findings, hazards and theorems.

## 1. Inventory

The program fits trading strategies on price series (backtests), keeps the
fitted strategies, and trades them on schedules through exchange accounts.  One
PostgreSQL database is the shared store; Redis carries reference data, venue
limits, key profiles and a wake-up token.  Every database access goes through a
stored procedure, and `quant/shared/db.py` runs each call as a transaction of
its own: *between two calls of one operation anything may happen*.  The API
process serves its requests from a pool of threads, so what one object keeps in
memory is shared by requests that run at once.

| Component | State | Operations | Hard because |
|---|---|---|---|
| Backtest queue: `quant/queue`, `quant/api/services/jobs.py` | open row per job in `BT.QUEUE`, child processes, the loop's `_active` | enqueue, cancel, reenqueue; claim, spawn, reap, cancel, time out, recover; run, save, complete, fail | API threads, the loop and workers write the same rows without reading what they replace; the loop and workers crash |
| Strategy lineage and promotion: `quant/promotion`, `SP_INS_STRATEGY`, `SP_INS_RESULT`, `SP_UPD_PROMOTE_STRATEGY` | versions, the best flag, results and their current flag | insert version and result, evaluate, promote, promote by hand, delete, re-run | two workers on one version; read best, then flip |
| Order execution: `quant/trade/order_policy.py`, `live_apply.py`, `brokers/ccxt` | the order at the venue, the attempt log, the position, the TRANSACTION rows | decide, submit, confirm, cancel, retry, dry-run | an unconfirmed order may fill late; a retry may double it; a manual apply overlaps a tick |
| Deployments and scheduler: `quant/trade/service.py`, `scheduler/` | versions of a deployment, the schedule cursor | create, update, stop, apply; tick, sweep, advance, auto-pause | concurrent ticks without a lease; whole versions written from old reads |
| Market data: `quant/market_data` | stored bars, subscriptions, the shared exchange client | load a window, keep fresh, backfill, warm; subscribe | overlapping fills, a venue that is late or replays, partial stores |
| Research data: `quant/data`, `quant/strategy/backtest_service.py` | cached provider payloads, captures | look up, fetch, refresh, scheduled fill, align | a cached series under a wider request |
| Instruments: `quant/data/instruments.py` | products and symbols, the copy in memory | create, reload, look up | two writes, then four attributes replaced one by one |
| Reference data, venue limits | Redis snapshots, a version stamp, local copies | publish, compare the stamp, load, read | loads that cross a drop of the copy |
| Authentication, credentials, key routing | cached user row, generations; versions of a key; cached key profile, open sessions | log in, revoke, rotate, decrypt; connect, learn, disconnect | caches that outlive what they copy; exceptions half way through a connect |
| Strategy computation: `quant/strategy` | none | indicators, signals, profit and loss, search, walk-forward | undefined values, windows, ties |
| Frontend, Lambda, scripts | none the server relies on | presentation, delivery of ticks | |

What makes each correct, in a sentence: a *job* runs at most once, ends, and
says COMPLETED only with a result behind it; a *lineage* always has a best
version, which passed the gates; a *deployment* driven by the scheduler has at
most one order on the book and a position within its qty; a *stopped deployment*
is undone by no sweep; a *window* of bars handed to a signal has no hole; a
*frame* of a backtest covers what was asked; a *revoked* user or key is not
served; what a *refusal* taught is not forgotten; a *backtest* decides on what
was known.

## 2. Structure and plan

| Subject | Modules | Abstract specification | Proofs |
|---|---|---|---|
| Backtest queue | `BtQueueRepo`, `JobsService`, `BacktestWorker`, `WorkerLoop`, composed in `BacktestQueue` | `JobLifecycle` | `BacktestQueueProofs` |
| Order path | `OrderPolicy`, `Venue`, `OrderExecutor`, composed in `OrderPath`; overlapping cycles in `LiveApply` | `TargetPosition` | `OrderPathProofs`, `StrategyProofs` |
| Scheduler | `BarIntervals`, `DeploymentRepo`, `DeploymentService`, `ScheduleTick`, `SchedulePoller`, composed in `TradeSchedule` | | `BarIntervalsProofs`, `TradeScheduleProofs` |
| Market data | `PriceBarService`, composed in `MarketData` | | `MarketDataProofs` |
| Strategy computation | `Indicators`, `Signals`, `Performance`, `WalkForward` | reference definitions in `MCAlgorithms` | `AlgorithmsProofs` |
| Research | `Promotion`, `StrategyLineage`, `ResearchData` | | `StrategyProofs` |
| Platform | `SeriesSubscr`, `InstrumentCache`, `RefdataSnapshot`, `VenueLimits`, `AuthSessions`, `Credentials`, `KeyRouting` | | `PlatformProofs` |

`MC*` modules give the constants small values where a configuration file alone
cannot; `market_data` and the `order_*` runs check their module as it is.  `MCAlgorithms` and
`MCPlatform` check several components in one run: a behaviour picks one of them
(`part`) and leaves the variables of the others as they are, so the run explores
each component from its own initial state and never their product.

Left of the plan: scheduler, orders and venue in one composition.

## 3. The backtest queue

### Modules

* `BtQueueRepo` - `BT.QUEUE`.  The table is a log of versions; readers use the
  open row, so the state is `status`, `priority`, `owner` of that row and the
  order `before` in which open rows were written (both timestamp columns the
  code sorts by are the time of that write).  `SP_INS_QUEUE` replaces the open
  row without looking at it; `SP_GET_QUEUE` returns the newest `ListLimit` rows
  of a status; `Heads` is `in_run_order(rows)[0]`.
* `JobsService` - request threads.  `req[h]` is where a request stands between
  two database calls and what it has read.  The API restarting, a primary-key
  collision of two writers of one job and a refused request all end it
  (`RequestFails`).
* `BacktestWorker` - one process per started job; `proc[j]` is the next call it
  makes or how it exited.
* `WorkerLoop` - `lpc` is the next call of the loop; `todo` the list a phase
  iterates over as it was read; `cur` the job a pending write is for; `active`
  and `expired` are `_active` and its clocks.  `LoopCrash` can strike between
  any two calls, which includes every exception a database call raises.
* `BacktestQueue` - composition, fairness, properties.
* `JobLifecycle` - what readers of the table may rely on.
* `MCBacktestQueue` - symmetry for TLC.

Modelling decisions.  A stored-procedure call is atomic (one transaction; two
overlapping `SP_INS_QUEUE` of one job collide on the key and one of them
raises).  The wake token only shortens a wait that may end at any time.
Iteration order inside a phase is left open, which covers every order the code
uses.  SIGKILL ends a child.  `OrphansSurvive` distinguishes the container,
where the loop is PID 1 and its exit takes the children along, from a loop
started by hand.  Requests come from the owner of the job.

### Runs

| Run | Bounds | Shows |
|---|---|---|
| `queue_safety` | 2 jobs, 2 request threads, cap 1, 1 slot, 1 stop or crash, children die with the loop | `SpawnedAtMostOnce`, `VerdictAfterDeath`, `QueuedCapOverrun`, `RestIsFinal` and the refinement of `JobLifecycle` |
| `queue_live` | 2 jobs, 1 request thread, 1 slot, 1 stop or crash, children survive the loop | `Settles`, which covers requested cancels |

Two jobs are enough for the interesting cases: one occupies the slot while the
other waits, is cancelled, or is ranked against it; two RUNNING rows exercise a
recovery of more than one row.  One request thread already interleaves a stale
read with every step of the loop and the workers; two are needed for the cap.
One fault reaches every crash point; a second adds nothing new, since a boot
starts from the table alone.

Fairness: weak fairness on the loop's own thread, its restart by the supervisor
included (`restart: unless-stopped`), and on the passing of `JOB_TIMEOUT_S`.
Nothing is assumed of users or of workers: a worker that hangs for ever is
covered by the timeout, which is why `Settles` holds without it.  Restarts are
bounded by `MaxFaults`; without a bound a loop that crashes on every tick would
settle nothing.

### What the model shows about the code

* *A cancelled job can run.*  `claim_next` is a read and a write; a cancel in
  between is overwritten by RUNNING.  Similarly a cancel decided on a RUNNING
  row lands on a COMPLETED one, and a worker's verdict lands on CANCELLED.
  `docs/design/backtest-queue.md:230` says "Terminal states are immutable".
  `RestIsFinal` states what does hold: only writers that read the row before it
  became terminal can replace it.
* *A finished job can be failed.*  `_enforce_timeouts` does not re-read the row,
  as `_reap_children` does: a worker that has written COMPLETED and not yet
  exited is killed and its row turned to FAILED.
* *The cap per user is not a cap.*  Count and insert are separate calls
  (`jobs.py:111`).  `QueuedCapOverrun` bounds the excess: one per request that
  runs beside the last one to count.
* *The head can be missed.*  Past 1000 QUEUED rows the oldest are not listed.

The design document also gives numbers the code does not use (a cap of 20 where
the setting is 30, a timeout of 600 s where the default is 6000); they are
constants here.

### Proofs (`BacktestQueueProofs`)

For every finite set of jobs and any users, request threads, priorities,
capacity and number of restarts, from the assumptions on the constants
(`JobAssumption`, `PriorityAssumption`, `LimitAssumption`, `LoopAssumption`,
`CapacityAssumption`):

`TypeCorrect`, `NoSecondRun`, `NoStrandedJob`, `SuccessIsBacked`,
`VerdictsAreFinal`, `CapacityRespected`, `RestStays`, `CapIsOverrunByRequests`,
`LifecycleRefined`.

None of the invariants is inductive alone.  `QueueInv` adds what the argument
turns on.  A worker exists only after the job has left the queue and no writer
puts a job back (`SpawnFacts`), so a job the loop has in hand for a claim has
never been started (`HandFacts`), although a cancel may have changed its row; a
cancel in flight that read RUNNING cannot concern it (`RequestFacts`).  A row
leaves `_active` only when it is not RUNNING or the loop is about to write it:
an exit of 0 implies the verdict was written (`VerdictFacts`), the lists of the
cancel and reap phases hold no RUNNING row and no live child (`ListFacts`).
Only a claim adds a RUNNING row, when `_active` has room and holds all others,
so the RUNNING rows never outnumber `max_concurrent` (`CapacityFacts`) and the
listing of boot recovery is complete (`RecoverySeesAll`) as long as
`max_concurrent` does not exceed its limit of 1000, which is
`CapacityAssumption`.

`CapIsOverrunByRequests` (`QueuedCapOverrun`) needs no invariant besides types,
but arithmetic of cardinalities: a request that counts below the cap joins those
about to insert, one that inserts moves a job from them to the queue, and every
other step only takes jobs out.  It rests on `HandlerAssumption` (finitely many
request threads) and `MaxQueuedAssumption`.

`NoStrandedJob` (a RUNNING row has a live worker or a loop that will close it),
`SuccessIsBacked` (COMPLETED only with a result) and `CapacityRespected` are
theorems only; the runs do not repeat them.  Only model-checked: liveness.

## 4. The order path

### Modules

* `OrderPolicy` - `order_policy.py` as functions: `intended_action`, `order_for`,
  `is_retryable`, and the reasons that pause.  Quantities are integers in a unit
  of the venue and signed; `FlatEps` is `_FLAT_EPS`.  An `OrderResult` keeps what
  the policy reads: success, whether it has an order id, which marker texts its
  message holds, the typed reason, the fill.
* `Venue` - external: the orders of one deployment and the signed position.  An
  order fills in parts at any time, or the venue ends it.  A cancel that is
  accepted stops what is left.  Reads of the position are current: the account
  trades nothing but this deployment, and a lagging read is left out.
* `OrderExecutor` - `OrderRetryExecutor.execute` over `place_order` and
  `confirm_market_order`.  `pc` is the next call that leaves the process; the
  venue moves between any two.  `pos`, `req`, `oid`, `res`, `att` and `polls` are
  the local variables of the loop.
* `OrderPath` - `_run_one` of the tick and the manual endpoint around it:
  start, raise, retry, pause, abandon; the kill switch at any moment; and the
  user who enables the deployment again, after a pause only once no order is
  open (the reconciliation the code asks for).
* `TargetPosition` - what the path promises: one live order at a time, each the
  one due at the position of the moment it is sent.
* `LiveApply` - two or more runs of `LiveApplyOrchestrator.run` and `run_dry_run`
  on one deployment, each with its own row, price series, session and orders
  over one account: what nothing in the code prevents.  `book` is the position,
  `ledger` the sum of the TRANSACTION rows, `unledgered` the fills no row was
  written for, and `allowed` what the account may hold: the qty and what passes
  for flat, doubled by each book read that led to an order while another cycle's
  order was under way.  The bars each cycle prices from come from `for_app` and
  the interval it has.

`Faults` names answers of the outside world that a run allows: `lost_ack` (an
order reaches the book though its submission was not answered), `poll_denied`
(the key is refused while the fill is polled for), `pause_fails` (the pause
cannot be written).  `Drivers` says who applies.

### Runs

| Run | Bounds | Shows |
|---|---|---|
| `order_safety` | qty 3, tolerance 1, 2 order ids, 2 attempts, 1 poll, 2 tick attempts, no fault, ticks only | `ExposureBounded`, `ReportedPositionTrue`, the refinement of `TargetPosition` |
| `order_faults` | qty 1, 1 order id, all faults, both drivers, fair | `CycleEnds` |
| `platform` (section 9), part `cycles` | qty 1, two cycles at once, 2 attempts, `MaxAllowed` 4 (two doublings), 1 lost row | `OverlapBounded`, `TransactionsExplain`, `PreviewPricesTheSame` |
| `order_lost_ack` | qty 2; violated | a position of more than qty after a lost answer |

Qty 3 with tolerance 1 leaves room for partial fills that stop inside and
outside the tolerance, on both sides of zero.  Two ids let a second order exist
beside an open one; the ids of ended orders return, so the number of orders over
time is not bounded.  `PositionLimit` is twice what the invariants allow: it cuts
the state space only after a violation.  Two attempts and two tick attempts reach
the first, a middle and the last of each loop.

Fairness in `order_faults`: weak fairness of the thread that runs a cycle.
Every call it makes returns or times out (ccxt and database timeouts).  Nothing
is assumed of fills, of the user or of the scheduler.

### Findings

* *A lost answer can double a position* (`order_lost_ack`).  An unanswered
  submission is treated as an order that is not on the book.  The repository's
  dependency review lists the missing client order id as a design item.
* *A refused poll can double a position* (`order_lost_ack` with the fault
  `poll_denied` in place of `lost_ack`).  `KEY_REFUSED`
  after the order was accepted is final for the executor, which does not cancel,
  and does not pause the tick.
* *Overlapping applies drift.*  A tick and a manual apply of one deployment
  (`deployments.py:195`) both read a flat book and both place.  `OverlapBounded`
  is what holds: each order decided beside another cycle's at most doubles what
  the account may hold, because a reader of a wrong position flattens all of it.
* *A fill can miss its TRANSACTION row* when the write fails, and always when a
  part-filled attempt is cancelled unconfirmed; `TransactionsExplain` says that
  these are the only differences.
* *A manual apply does not pause* after a failed cancel, though
  `order_policy.py:207` says that it "pauses the deployment": only the tick's
  `_auto_pause` writes.

One fear of that review is unfounded for a current position read: it expects a
retry after an open partial fill to buy the remainder twice.  The retry reads the
position again and holds (`ExposureBounded` covers partial fills before, during
and after the cancel).

### Proofs (`OrderPathProofs`)

In the setting of `order_safety` (`Quiet`: no fault, ticks only), for every qty,
tolerance below it, set of ids, position limit and number of attempts, polls and
tick attempts, from `QtyAssumption`, `VenueAssumption`, `ExecutorAssumption` and
`PathAssumption`: `TypeCorrect`, `OneOrderOnTheBook`, `AppliesConverge`,
`ReportsAreTrue`, `FlattenIsSafe`, `Refinement`.

The inductive invariant `OrderInv` turns on `OpenHeld`: an open order is in the
hands of the cycle that sent it (polling, judging an unconfirmed result,
cancelling), or the cycle ends with a reason that pauses, or the deployment is
idle and disabled.  Hence nothing is open when a cycle starts or reads the
book, and the reading stays true until the order is placed (`Knows`).  `Headed`
says where an open order would take the position if it filled to its end:
within bounds and not across zero.  A fill moves the position towards that end
and leaves the end where it is (`FillMoves`), which gives `ExposureBounded` and
`FlattenNeverFlips` for partial fills of any size.  `DueBound` shows that the
order due keeps both.  The findings show that the setting is needed: with
`lost_ack` or `poll_denied` `OpenHeld` fails, with manual applies it fails after
a failed cancel.

### Proofs (`StrategyProofs`, overlapping cycles)

For any finite set of callers, any qty and tolerance, number of attempts and
bounds, from `ApplyAssumption` and `QtyAssumption`: `OverlapIsBounded`,
`RowsExplainTheAccount`, `OneSeriesPerStrategy`.

`ApplyInv` says of each cycle that an order is filled towards its quantity and
not beyond (`OrderFits`), and of all of them that the position stays within
`allowed` however the orders under way are filled (`WithinReach`): the position
plus what all of them may still buy, and minus what they may still sell.  A read
with no other order under way sees the position all fills will leave, so what it
decides ends within the qty; a read beside another order adds at most the
position it sees.  `Explained` adds up the fills the rows do not tell of.  Sums
over the callers are functions on the subsets of `Applier` (`IsSum`); that two
such sums agree, and that the fold in the property is one, is shown by a
smallest subset on which they differ (`SmallestSubset`).

Only model-checked in this section: `CycleEnds` (liveness).

Left out of the order path: the intent and execution-event rows, which nothing on
it reads; the schedule cursor and `STUCK` (section 5); a crash of the process in
the middle of a cycle; lagging position reads; spot balances shared with other
trading.

## 5. Deployments and the scheduler

### Modules

* `BarIntervals` - `quant/shared/intervals.py` as functions on whole time units
  since the epoch: `floor_to_period`, `next_apply_slot`,
  `next_session_apply_slot` and the bars of a window.
* `DeploymentRepo` - `TRADE.DEPLOYMENT` and `TRADE.DEPLOYMENT_SCHEDULE_STATUS`.
  Both tables are logs; readers use the open version and the current row, so
  the state is one of each per deployment (`deployment`, `schedule`) and the
  clock `now`.  `NextSchedule` is the branch of `SP_INS_DEPLOYMENT` that decides
  what happens to the schedule; `SP_GET_MISSED_DUE_DEPLOYMENTS` is the due list
  with the next slot of each row.
* `DeploymentService` - `create_deployment`, `update_deployment`,
  `stop_deployment`.  The last two read, merge and write a whole version;
  `request[u].current` is what a client's request has read.  A row carries the
  cadence its strategy was fitted on (`fitted`), the only one the policy lets
  it be scheduled on.
* `ScheduleTick` - one sweep: the intervals still to visit (`todo`), the due
  list as it was read (`rows`), the row in hand (`due`), the attempt, and what
  the reports will say (`advanced`, `stuck`).  `_auto_pause` and `_advance`
  write from `due`, however old it is.
* `SchedulePoller` - drain on boot, then the timer loop, `stop`.
* `TradeSchedule` - composition: clients, overlapping calls of
  `/scheduler/tick`, the poller, the clock; fairness; properties.
* `MCTradeSchedule` - instances for TLC.

Modelling decisions.  A procedure is one transaction.  Two of them on one
schedule row can collide on its key; where the collision is reported the call
fails (`write_fails`, `advance_fails`), where the nested procedure swallows it
the version is written without its row (`schedule_lost`).  `write_deployment`
reads the version back, and a failure of that read after a committed write is
`readback_fails`.  An apply is one step with three outcomes, and looks only at
the kill switch of the open version, as `apply_deployment` does; what it does at
the venue is section 4.  The manual apply endpoint changes no row of this
section.  Checks that refuse a request (ownership, venue minimum, a cadence not
fitted) leave no trace and are not steps.  Time moves in half bars; a bar, a day
and a session close are small numbers of those.  A listed session closes at the
same instant of every day: time zones and daylight saving are left out.

### Runs

| Run | Bounds | Shows |
|---|---|---|
| `sched_safety` | 1 deployment, 1 client with every patch, 2 overlapping sweeps, 2 attempts, all failures but a lost row | `CursorOnSlot`, `SweepNeverRevives`, `StopUndoneOnlyByStaleRead` |
| `sched_drain` | 2 deployments, a listed session and a shorter bar, the poller, 5 passes, failures, lost rows and crashes | `DrainComplete` |
| `sched_liveness` | 2 deployments, 1 client, 1 tick | `DueIsClosed` |
| `sched_stop_revived` | 2 clients; violated | a stale PATCH undoes a stop |

The slot and bar arithmetic is checked in the run `algorithms` (section 7).

One deployment is enough where the question is about writers of one row; two
appear where a sweep's list, a drain's passes or fairness between rows matter.
One client already interleaves its stale read with every step of a sweep, two
sweeps race each other.  A stale read against a stop takes two clients, which is
`sched_stop_revived`; `StopsHold` covers any number.  `MaxNow` lets at least two slots pass, so a backlog
exists; the drain has enough passes to work it off, and reaches its ceiling only
when the clock makes each pass move a single cursor.  `sched_drain` may stop: the poller can be
stopped for good.

Fairness, in `FairSpec`: ticks keep being called (EventBridge, hourly), are
answered, and a sweep that has begun goes on.  Nothing is assumed of clients,
of stops, of crashes, or of an apply succeeding.  A call that always fails is
excluded from that run (`Faults` is empty): a cursor write that never succeeds
leaves a slot due for ever, as the code's own comment says.

### Findings

* *A stop can be undone* (`sched_stop_revived`).  `update_deployment` writes back
  a version it read before the stop.  `StopUndoneOnlyByStaleRead` says that
  nothing else does: not the switch, not a sweep.
* *A stop can turn into a pause.*  The sweep's apply fails on the switch the stop
  has just cleared, and `_auto_pause` writes PAUSED over STOPPED; a later
  "enable" then resumes it.  `scheduler-trade-open-questions.md:125` calls the
  stop "a separate, explicit disable".  What does hold is `SweepNeverRevives`: the
  scheduler itself never switches a deployment on.
* *A cursor can go back.*  `_advance` writes the next slot of the row it read;
  after a faster sweep that is a slot already applied, and it is applied again.
* *A schedule row can be lost.*  `SP_INS_DEPLOYMENT` does not look at the status
  of the procedure it calls (line 145): with `schedule_lost` among the faults of
  `sched_safety`, a resumed deployment is live and never due and `LiveIsPending`
  is false.  Every other interleaving keeps it.
* *A re-posted deployment can keep a slot of its old cadence* when a tick that
  read the old row advances it last: with two cadences and `TwoPeriods`,
  `CursorOnSlot` is false; with one it holds under the same interleavings, for
  any number of clients and sweeps (`CursorsStayOnSlots`).
* *A listed daily is due on Saturday*: only the first slot skips weekends, the
  next is the last plus `PERIOD_LENGTH`
  (`SP_GET_MISSED_DUE_DEPLOYMENTS.sql:51`).
* *Resuming by the switch alone does not realign* when the switch was still on
  (`schedule_align.py:21`): a deployment paused by a PATCH of its status and
  resumed by `{enabled: true}` is due at once for the slots it missed.
* *Stopping the poller does not end a drain*: `drain` never reads `_running`.
* *A failed deployment is paused*, where the comment of the endpoint
  (`router.py:44`) says it is left due.  `DueIsClosed` is what holds: a due slot
  does not stay due.

### Proofs (`BarIntervalsProofs`, `TradeScheduleProofs`)

`BarIntervalsProofs`, for every instant, period and offset: `SlotIsAhead`,
`SlotIsFirst`, `LastClosedBarIsOver`, `SessionSlotIsAhead`, `SessionSlotIsFirst`
and `BarStartsAreBoundaries` (a window asks for exactly the bar boundaries in it).
All rest on `FloorOpensBar`, the only place where a division happens, and on the
order of multiples of a period; the session slots also on `MinOfNats`, the least
member of a set of natural numbers, and on one weekday among any three days.  The
session loop tries ten dates: they reach a weekday whose slot is still ahead for
any lead of up to six days, which both session theorems therefore assume.  The
configured `EXECUTE_OFFSET` is five minutes, so this is far from the edge.

`TradeScheduleProofs`, for any deployments, cadences, clients, patches,
overlapping sweeps, attempts and passes, from `RepoAssumption`,
`ServiceAssumption`, `TickAssumption`, `PollerAssumption` and
`CreatedAssumption`: `TypeCorrect`, `LiveHoldsSlot` (when `schedule_lost` is not
among the faults), `SweepsOnlySwitchOff`, `StopsHold`, `DrainClearsTheBacklog`
(`DrainComplete`; under `Undisturbed`, below), and `CursorsStayOnSlots`
(`CursorOnSlot`; under `OneCadence`: a cadence that all deployments share, as the
finding about re-posted deployments requires, shorter than a day where the market
closes, since the slots of a daily session follow the close and not the grid, and
no lost schedule row, without which the next version takes NOW() for its slot).

`TypeOK` is not inductive: a sweep that applies, pauses or advances must hold a
row (`HoldsRow`), or what it writes would be no version, and a drain that goes
on must have a pass left (`PassesLeft`).  `StepWrites` then reduces every step
to four kinds of write - none, a client's version, a version that is not to
fire, a pending slot - and the two safety theorems need only those: the
procedure gives a version that fires a pending slot (`InsPending`), and what a
sweep writes is closed (`PausedRowCloses`) or leaves the version alone.
`StopsHold` adds what a PATCH makes of a stopped version.

`CursorOnSlot` speaks of cursors only; `GridInv` adds every place an instant or a
version waits in memory before it is written: what a sweep has listed and holds
lies on the grid too (`SweepsOnGrid`), and a request that read a version with a
cadence finds a schedule row when it writes (`RequestsHaveRows`, with
`ScheduledHasRow` and `RowsStay`: a row, once there, stays), so
`SP_INS_DEPLOYMENT` never falls back to NOW() for the slot.

`DrainComplete` rests on `DrainInv`: in a drain pass that has moved no cursor and
left none stuck, whatever was due when the pass began is still ahead of it - its
interval to be read, its row in the list, or in hand (`Ahead`).  The pass that
ends the drain has nothing ahead of it.  `Undisturbed` (no client, no other
sweep, no interval whose due list cannot be read) is needed: a client's resume, or
the late write of another sweep, can make a slot overdue behind the pass, and a
failed listing is passed over (`sweep.py:73`) without a word to the drain, so a
boot during which clients are served may leave such a slot to the timer loop.

Only model-checked: the liveness property, which is out of the prover's reach.

## 6. Market data

`PriceBarService` models `service.py` and `fetcher.py`: a call of a thread is
split at its database and exchange calls (`call[t].at`).  `LoadWindow` is a
signal's read: `ensure_fresh` (coverage, gaps, fetch, check, store), a second
reading of the clock, the closed bars, the forming one.  `Sync` is a warm pass
over several series, `Backfill` a range by hand with its staged plan
(`plan_backfill`).  `FetchPage` is one page of `fetch_bars`: the venue may be
late with the newest bar or replay an old page.  Rows are stored one by one,
oldest first; a process restart can fall between any two.  `MarketData`
composes the requests with the clock.

| Run | Bounds | Shows |
|---|---|---|
| `market_data` | 1 series, a signal and a job, lookback 5, pages of 2, backfills of at most 7 bars, all faults, fair threads | `RowsTrue`, `ServedWithoutHoles`, `PlansConverge`, `EnsuredWindow`, `CallsEnd` |

A lookback of 5 with pages of 2 takes three pages, and one missing bar of five
passes the coverage floor, as in the code.  The first windows start before the
series does (`Listed`), so the pre-listing rule is used; the clock moves on until
the window leaves the first bar behind, so two calls can hold windows that start at
different bars.  A backfill with an end in the future is left to `RowsAreTrue`: its
partial bars multiply the states.  Fairness: a thread goes
on with the call it is in; every call to the venue and the database returns or
raises.

What the model shows about the code:

* *Bars of the wrong market.*  `_apply_default_type` sets the default type "for
  this call" (`fetcher.py:114`) on the client that all threads of a venue share:
  with a second series of another market type, two threads, and the same
  `RowsTrue`, TLC finds a page answered for the market the other thread selected,
  stored under the first one's series and kept (the natural key keeps the first
  row).  The run stays with one market type, where `RowsTrue` is about partial
  candles.
* *A warm pass is not enough for a longer lookback.*  `ensure_fresh` returns when
  the newest bar is stored (`service.py:169`).  `EnsuredWindow` holds when warm
  passes reach as far back as signals; with a shorter `WarmLookback` it is false,
  where `warm.py` says "Warming short is safe by construction".  A backfill by hand
  that starts inside the current window and ends at its newest bar does the same
  (`service.py:261`), and there `ServedWithoutHoles` fails too.
* *A gate passed on somebody else's row.*  A call that read the clock before a bar
  closed finds the newer row of another thread and takes its own window for fresh;
  the oldest bar of that window, which no window as of now wants, may be missing.
  `EnsuredWindow` therefore speaks of the bars both windows want.
* *A bar that closes between the two clock readings* of `load_window` is missing
  from the window; `ServedWithoutHoles` allows exactly that.

### Proofs (`MarketDataProofs`)

For any series, threads, lookbacks, page size, backfill ceiling, faults and
clock, from `BarsAssumption`:

* `RowsAreTrue` (`RowsTrue`).  Every stored row is a closed bar, or was asked for
  with an end in the future by hand, without further hypothesis; it is of the
  market of its series if all series share one (`SharedMarket`), which is what
  the finding above is about.  `MarketInv` carries that along a call: `until` is
  closed when a call gets to its pages unless its end is open, `begun` is a bar
  behind the clock, and the bars in hand are already bars that may be stored
  (`CallOK`), since time only passes and a closed bar stays closed.
* `PlansAlwaysConverge` (`PlansConverge`).  Bars are multiples of the period
  (`StoredOK`); a plan is then the run of bars from the newest one missing back to
  the target, cut at the ceiling (`PlanIsPass`), and storing its bars moves that
  newest missing bar by as many, so the number of passes falls by one.

* `WindowsAreEnsured` (`EnsuredWindow`) and `WindowsAreWhole`
  (`ServedWithoutHoles`), under `Deep`: warm passes reach as far back as signals,
  and no backfill starts inside a window, which the findings above require.

The last two rest on `WindowInv`.  `NoHoles`: behind every stored bar, each bar
that a window as of now wants is stored.  It is not inductive by itself, since a
row is stored at the end of a call that planned it long before, while others
stored and the clock moved: `Covers` says of a call at each of its steps what
will make its next row safe.  A fetch has asked for every wanted bar up to its
end that is not stored (`Asks`); what it has so far is a run of the venue's bars
without a gap (`Runs`, kept because a page is a prefix of what the venue printed,
`PagesAreRuns`, and because a replayed page adds nothing); a store has the wanted
bars behind the ones in hand and writes the oldest first (`Stores`), so a crash or a
failure between two rows leaves no hole; and a signal that goes on to read has
the newest bar it was begun for (`Reads`).  More rows and a later clock only make
these easier (`CoversStay`), which is why the steps of other threads need no case
analysis.

Stays with TLC: `CallsEnd` (liveness).

## 7. Strategy computation

`Indicators`, `Signals`, `Performance` and `WalkForward`, with exact fractions and
an undefined value that behaves like NaN (arithmetic yields NaN, comparisons are
false; `Indicators` defines both), are the pipeline from bars to a fitted and tested
strategy.  Columns are sequences, an average or an index at a bar is a fold over
the window before it (`SumOf`, `EmaOf`), and only the equity curve, its peak and the
greatest common divisor are recursive functions.  A Bollinger
z-score is compared by its signed square and a Sharpe ratio likewise, both
order-preserving changes of unit that keep the square root out.

| Run | Bounds | Shows |
|---|---|---|
| `algorithms` | every instant of three weeks, periods and offsets up to 5; six strategies (one and two factors, all indicators, the conjunctions) on every series of 5 bars with closes up to 3 and gaps | `SlotsAndBars`, `NoLookAhead`, `LiveAgrees`, `EquityHonest`, `BestIsReportedBest`, `HoldOutUnseen` |

`SlotsAndBars` compares `BarIntervals` with definitions by enumeration.  The
market part prints one bar after another; each state is a price history, so an
invariant over states is a statement about every history up to five bars, and
`NoLookAhead` one about every extension of a history.  Five bars hold windows of
two and three, a split at 3/5 and a hold-out of two bars.

What the model shows about the code: a conjunction of conflicting factors ranks
readings among the bars loaded, so a live evaluation can differ there (the
exception in `LiveAgrees`); `_latest_final_position` may answer from an older bar
when the newest reading is undefined; a stochastic oscillator in a strategy of
several factors always raises; bounded thresholds below 50 make both bands true
at once; a walk-forward split cuts every frame by its own row numbers; ties for
the best are broken by the order of trials.

### Proofs (`AlgorithmsProofs`)

Each property of the run is a theorem of the same specification for any longest
period and other bounds, any number of bars and any highest close.  Behind five of
them stands a theorem about the operators alone, for every strategy, parameter,
series and pattern of gaps, of which the property is the case of the market's own
frames.  `ClockInv` and `MarketInv` are the inductive invariants: the ranges of the
clock's variables, and the shape of the frames (the traded product has a bar on
every date so far, the other one on some of them).

* `SlotsAreFirstAhead` (`SlotsAndBars`), under `ShortLead`, periods of at most six
  days, because the session part leads by the same offset (section 5).
* `BacktestSeesNoFuture`, and from it `PositionsNeverChange` (`NoLookAhead`).
  `Continues` says of two columns that one is the beginning of the other.  Frames
  that agree up to a cut have aligned columns (`factor`) of that form, because the
  date a bar is aligned with is a largest one not after it, and its number is a count
  of dates (`Rank`, `Ordered`); every indicator keeps the form, since its value at a
  bar is computed from a `SubSeq` that ends there; so do the thresholds, the
  conjunctions and the conviction that settles a conflict.
* `SearchFindsReportedBest` and `BestIsAlwaysReportedBest` (`BestIsReportedBest`):
  the objective a trial is ranked by is the Sharpe ratio its report shows, and
  `_build_result` takes the largest defined one, none if none is defined.
* `FitSeesNoHeldOutBar` and `HoldOutAlwaysUnseen` (`HoldOutUnseen`).  `SameBefore`:
  two series with the same dates that agree on the bars before the split.  Their
  in-sample frames are then equal where anything reads them, so both runs are
  refused or both choose the same parameters and report the same in-sample metrics.
* `EquityStaysHonest` and `EquityIsAlwaysHonest` (`EquityHonest`).  `Carried` shows
  that the recursive functions of the curve exist and satisfy their equations (a
  least bar at which one fails, `MinOfNats`, in place of an induction over bars), and
  `CurveBy` states the curve by them.  Fractions are pairs in lowest terms: `Gcd` is
  the greatest number that divides both of its arguments (`GcdIsGreatest`), so
  `Reduced` keeps the value of a pair and leaves no common factor (`ReducedIs`), and
  a sum, product or quotient has the sign it should (`SignKept`).  The equity is then
  never negative, never above its peak, and zero once it is zero.
* `LiveReadsAsBacktest` and `LiveAlwaysAgrees` (`LiveAgrees`).  `Ends` says of two
  columns that one is the end of the other.  The bars loaded are the end of all bars
  (`LoadedEnd`), and an indicator over a window that lies within them reads the same
  (`WindowEnds` to `IndicatorEnds`).  A position the live evaluation finds is the
  backtest's, conflicts excepted; and it finds one on the newest bar whenever the
  backtest has one there.  That second half has a hypothesis in the general theorem: where the
  backtest has a relative strength on the newest bar, the loaded bars must hold a
  window of price changes, which gaps in a factor's product can prevent
  for longer windows, since `live_lookback_bars` counts bars and not changes.  In the
  strategies of the run such windows are of one change and need no hypothesis.  As in
  the property, the exponential average is excluded: it runs from the first bar
  loaded.

## 8. Research: results, promotion and frames

* `Promotion` - `evaluate.py`: gates (HARD) and comparisons (SOFT) between a
  result and the best version.
* `StrategyLineage` - one lineage: versions, results, current and best flags,
  workers from claim to verdict, promotion by hand, deletion and the re-run
  script.  `SP_INS_RESULT` and `SP_UPD_PROMOTE_STRATEGY` are two steps each, the
  snapshot of their UPDATE and the write, as READ COMMITTED allows.
  `overlapped` records which kinds of writes ran at once.
* `ResearchData` - where the frames of a run come from: captures, the cache and
  its open rows, the provider, the scheduled fill, and `_enforce_date_sync`.

What the model shows about the code: two flips at once leave two best versions,
where `docs/design/best-vid-promotion.md:49` says "exactly one per
`STRATEGY_ID`"; two inserts at once leave two current results; a soft ranking
is not an order once a metric is missing (a beats b, b beats c, c beats a); a
payload is labelled with the range requested, not the range received, and a
narrower refresh narrows the cached series (`FramesSound` holds because a hit must
cover the request); a refresh in the live provider path cannot succeed
(`backtest_service.py:243` calls a method on a plain dict); the re-run script
enqueues versions that are still queued.

### Proofs (`StrategyProofs`, frames and lineage)

* `FramesAreSound` (`FramesSound`), for any products, runs, requests and days, from
  `DataAssumption`.  A frame, a cached row and the bars on their way into one are
  all slices: the bars of the product within the range asked for that its source
  had by a day (`FrameOK`, `RowOK`, `RunOK`).  A slice of a row that covers a
  request is the slice of the request, whatever has been refreshed, filled or
  replaced since.  `_enforce_date_sync` compares least and largest days;
  `BothEnds` shows that this puts both ends of the window into every frame.
* `FlagsAreAccounted` and `BestHasPassed` (`FlagsAccounted`,
  `BestPassedTheGates`), for any number of versions, workers and payloads, from
  `LineageAssumption`.  `WriterOK` says what a writer knows between its two
  writes: its version has a current result since it stored one, what it promotes
  has a stored result that passed, and its snapshot of the flags is the table's
  unless a write of the same kind has overlapped with it.

## 9. Platform

Each of these modules is one component with two actors; all are checked by the
run `platform`, together with those of section 8 and `LiveApply` (two versions, two cached rows, three subscription ids, two
generations, four keys, two tables, two editions, two instruments, and two of
every other constant; each component reaches all its interleavings from its
initial state).

* `SeriesSubscr`, `OneProviderRow`.  The comment in `subscriptions.py:122` relies on
  a unique index that was dropped: two open venue rows for one series are
  possible, and disabling one does not stop the capture.
* `InstrumentCache`, `CreatedIsServed`.  `load_all` replaces four attributes one
  by one and nothing keeps two reloads apart: one begun before an instrument was
  written can hide it again, and its creator is then told that the product does
  not exist though both rows are written (`instruments.py:248`).
* `RefdataSnapshot`, `NeverOlderThanStamp`; `VenueLimits`, `LotOfTheMarket`.  In
  both a load that crosses another thread's drop of the copy leaves older rows
  until the next stamp.  A table whose read fails is published empty; limits that
  fail to load are cached as absent, and then enforce nothing, until the next
  publication.
* `AuthSessions`, `RevokedIsRefused`: a revoked token lives at most the cache's
  lifetime, from a login that read the row before the change.  Logging out leaves
  the token valid.
* `Credentials`, `RevokedNotServed`: rotation does not look at the activity of the
  row again, so one that read it before a revocation re-activates the key.
* `KeyRouting`, `LearnedIsKept` and `SessionsEndClean`: a recorded restriction
  outlives reconnects, but `put` writes a whole profile, and so erases it in two
  ways besides the loss of the entry.  The history `learned` keeps them apart.
  `overtaken`: a session that had read the entry before the refusal was recorded
  writes after that.  `unread`: the session's read failed, which `RedisKeyProfiles.get`
  answers like an absent entry (`key_profiles.py:42`, and `:51` for an entry that
  cannot be parsed), and the profile its connect writes carries nothing over.  That
  takes no second session: one Redis timeout at a reconnect and the key forgets
  what `KeyProfile.accepted` (`models/key_profile.py:54`) says is carried over,
  until an order is refused again.

Two actors are enough for a read of one to straddle a write of the other, which
is what each of these properties is about.  `platform` may stop: its counters are
bounded, and a component at its bound has nothing left to do.

### Proofs (`PlatformProofs`)

The theorems hold for any sets of actors, instruments, tables, series, markets,
keys and credentials and any bounds; they assume that the marks of an absent row
or entry are no rows (`NoCredAssumption`, `SubscrAssumption`, `RouteAssumption`),
that the lifetime and `MaxGen` are naturals (`AuthAssumption`) and that a market
belongs to a broker's venue (`MarketAssumption`).

* `AnsweredStaysServed` (`CreatedIsServed`).  Call an instrument settled when no
  reload was under way as it was written.  Rows in the hand of a reloading thread
  then hold every settled instrument (`RowsFresh`), because each reload still
  running began its read after the write; `Reached` says which of the four
  attributes a thread's own reload has already replaced, so that they hold its
  instrument when it answers; and `AnsweredInMemory` is kept because a later
  reload replaces an attribute by rows that hold it as well.
* `RowsAreCurrent` (`NeverOlderThanStamp`).  Published rows carry the published
  stamp and no reader's stamp is ahead of it (`StampsPublished`), so a thread's own
  load is as new as the stamp it read (`OwnLoadIsNew`).  Rows that are older than
  the reader's stamp, stored or on their way, belong to a table recorded in
  `crossedLoads` at the last drop (`OldIsCrossed`).
* `RevokedStaysClosed` (`RevokedNotServed`).  A revoked, not overtaken id has an
  inactive row and no rotation in flight (`RevokedClosed`): `EditRead` admits no
  new one, because the row is inactive, and `Create` takes an id without a row.
* `RevokedEndsInTime` (`RevokedIsRefused`).  A row a request holds was true within
  the tick (`HeldIsFresh`), so an entry is never older than the part of its lifetime
  it has used up (`EntryAge`), whoever wrote it.
* `ProviderRowIsUnique` (`OneProviderRow`).  Of a series no two requests chose an
  id for at once, at most one is about to write (`OneChooser`), and it writes the
  id that is open, if one is (`ChoosesTheOpenId`).
* `LotIsOfTheMarket` (`LotOfTheMarket`).  Published limits are those of their stamp
  (`PublishedTrue`), a local snapshot is of the stamp it is kept under, and not
  older than the last drop unless its load crossed it (`LocalTrue`); what one
  request holds is then of a stamp between the one it read and the present
  (`CheckTrue`).
* `RefusalsAreRemembered` and `EndedSessionsAreClean` (`LearnedIsKept`,
  `SessionsEndClean`).  `SessionTrue` says of a session that the exchange it
  counts is the one that is open, that the routes refused and those still to try
  are all there are, and that the profile it will put restricts whatever was due
  when it read the entry (`knew`).  Of what is due at a write, the rest was recorded
  since or stood in an entry the session could not read (`missed`), and goes to
  `overtaken` or `unread` (`PutKeeps`).

## 10. Runs

Times are for two workers.

| Run | Time | | Run | Time |
|---|---|---|---|---|
| `queue_safety` | 1.7 min | | `sched_safety`, `sched_drain` | under 1 min |
| `queue_live` | 1 min | | `sched_liveness` | 1.5 min |
| `order_safety` | 1.5 min | | `market_data` | 1 min |
| `order_faults` | under 1 min | | `algorithms` | 3 min |
| `order_lost_ack`, `sched_stop_revived` | seconds, violated | | `platform` | 3.5 min |

Every property of a passing run has a mutant in `PROJECT.json`: a plausible bug
in a mapped definition (operators `X_Something` before `X`) under which TLC finds
the property violated.

## 11. Only model-checked, and not modelled

Proofs cover every component with state and the strategy computation: each
invariant and each action property of a passing run is stated by a theorem.  Only
model-checked is liveness under fairness (`Settles`, `CycleEnds`, `DueIsClosed`,
`CallsEnd`), which is out of the prover's reach.

Not modelled: vendor HTTP clients, parsing and formatting of payloads; ratios with
square roots beyond their order, and floating point; notifications,
configuration, logging; the connection pool; the command line, the Futu client
(used by nothing in the server) and the local test harnesses under `scripts/`;
the API quota's reset and report (`ResearchData` counts the calls); the frontend.
