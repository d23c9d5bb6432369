# Verification of pullbackup

pullbackup is a service that pulls backups: for every *task* it runs `rsync` or
`syncoid` from a remote *source* into a local *destination*, on a cron schedule
or by hand.  One Python process (FastAPI on one asyncio loop, SQLite through
SQLModel) does the scheduling, the admission, the execution and the bookkeeping.

This directory holds TLA+ models of that process, TLC configurations that check
them on small instances, and theorems that TLAPS proves for every instance.
`PROJECT.json` is the index: which definition models which lines (`map`), what
each run checks (`runs`), which change of a definition each property catches
(`mutants`), what is hard to test in this code (`hazards`) and what is proved
(`theorems`).  Paths below are relative to `src/backend/pullbackup/` unless they
begin with `src/`.

## 1. The system

| component | code | state | operations | what is hard |
|---|---|---|---|---|
| run lifecycle | `services/runner.py`, `api/tasks.py` (run_now, locked edits), `api/runs.py` (cancel), `main.py` (lifespan) | the `Run` table; `_run_owners`, `_active_destinations`, `_global_sem`, `_source_locks`, the process group | admit, execute (destination, permit, source, transfer, prune), time out, cancel, sweep orphans, shut down, reconcile at start-up | three nested waits, each of which may be cancelled; a shielded cleanup; rows, map entries and processes that must agree across awaits, crashes and restarts |
| destination keys | `services/runner.py` `_destination_key`, `_conflicts` | none | build a key, compare two | containment in both directions; prefixes of names are not containment |
| due-work ledger | `services/due.py` | the `TaskDue` row and `Task.schedule_baseline_at` | reconcile, record a tick, settle, apply an outcome, edit, back off | early and late callbacks, follow-ups behind a run, crashes between an occurrence and its run, runs that end without telling the ledger |
| dispatcher | `services/dispatcher.py` | none of its own; reads the tables | one pass: settle, order, admit; the pump and reconcile loops | the order of several rows, scopes claimed by refused rows, errors in the middle of a pass |
| scheduler | `services/scheduler.py` | jobs, per-task generation tokens, the heartbeat | register, remove, fire | a callback of a replaced job waiting for the lock |
| task and source API | `api/tasks.py`, `api/sources.py` | `Task`, `Source` | create, edit, delete, run now | awaits inside and outside the lifecycle lock; partial failures of the monitor |
| run history and log stream | `api/runs.py` | a reader's position in a log file | list, follow, cancel | a process, a coroutine and a reader on one file: the last lines race the terminal row |
| freshness, cadence | `services/freshness.py`, `services/cadence.py` | none | judge a task's age, describe a cron, size the expiry of its monitor | two notions of a schedule (the trigger's zone and UTC), changes of the clocks, uneven gaps, boundaries |
| Uptime Kuma sync | `services/kuma_sync.py`, `services/kuma.py`, `tools/kuma_reconcile.py` | owed monitor operations, reported failures, outcome of the last push (all in memory) | push what the projection says, create, edit and delete monitors, repair their intervals | partial failures, calls that fail after they had their effect, readings that overtake one another, a second process |
| authentication stores | `http_auth.py`, `api/auth.py` | revocations and failed logins in bounded expiring stores, in memory; sessions are signed tokens | log in, check, revoke, throttle | eviction at the cap, closed and open ends of intervals, several threads with old readings of the clock, headers the client writes |
| destination filesystem | `services/fs.py` | directories below the roots | resolve, create | symbolic links |
| configuration, database | `config.py`, `db.py`, `models.py` | settings, the schema | parse, migrate | straight-line code |
| notifications, ssh keys, system API | `services/notify.py`, `services/ssh.py`, `api/system.py` | none | one request each | none |
| frontend | `src/frontend` | browser storage | render, request | none for the service |
| demo data, packaging | `src/scripts`, `src/docker` | none | fill a demonstration database | none |

How they meet.  A cron callback (scheduler) writes an obligation (ledger) and
pumps the dispatcher, which admits runs (lifecycle).  A manual run enters the
lifecycle directly.  The lifecycle tells the ledger how a run ended, in the
transaction that makes the row terminal, or not at all when the row is made
terminal elsewhere (watchdog, restart, a cancelled wait); the ledger then learns
of it from the run table.  Edits go through the API, which refuses locked fields
while a run is active, replaces the job and resets the ledger.  The lifecycle
lock (`_admission_lock`) serialises callbacks, passes of the dispatcher, edits and `run_now`;
executions, the watchdog and cancellations do not take it, and `create_task` does not either.
The end of a run, an edit and a sweep every five minutes compute the projection of a task
(freshness) and push it to the task's monitor at Uptime Kuma; edits also configure the monitor,
under the lifecycle lock.  The authentication stores and a log stream meet the rest
only through the run table and the log file.

What makes each part correct:

- *lifecycle*: no two process groups write overlapping destinations; nothing is
  leaked or given back twice; the row says what the execution does; a terminal
  row is final; only an operator cancels; every run ends.
- *ledger*: an occurrence is never lost and never paid twice; an edit never backfills; retries are counted exactly; every obligation is settled.
- *dispatcher, scheduler*: oldest first without starvation; a dead generation
  does nothing.
- *monitor configuration*: the job is the one the row asks for; a monitor that is not
  what its task asks for is reported until it is repaired.
- *projection and pushes*: a missed occurrence cannot hide, no attempt renews an old
  backup, the monitor says what the projection says or the failure is reported, and the
  monitor's own expiry does not cry before the projection does.
- *stores*: no live lockout is evicted before a cheaper entry; guesses are bounded for whoever
  makes them; a logged-out token stays out to the last instant of its age.
- *log stream*: what it ends with is how the run ended, and nothing of the log is missing.

## 2. The modules

| module | models | composed with |
|---|---|---|
| `DestKeys` | `_conflicts` on keys (tuples of path components led by `"fs"` or `"zfs"`) | extended by the next two |
| `RunService` | what the lifecycle promises, with no locks, permits or ownership map | abstract specification |
| `RunLifecycle` | the lifecycle | implements `RunService` (`Service!ServiceSpec`) |
| `DueWork` | the ledger of one task with its callbacks, dispatch, runs, edits and restarts | on its own |
| `DispatchPass` | a pass of the dispatcher over the rows of several tasks | extends `DestKeys` |
| `TaskMonitors` | one task between its row, its job and its monitor: the task API with its calls to Kuma | `MCKuma` |
| `Freshness` | the projection and the expiry of a monitor, as operators | extended by the next |
| `KumaPush` | sweep, syncs, pushes and the monitor's word over time | `MCKuma` |
| `ExpiringStore` | the bounded expiring store, as operators on a value | instantiated by the next two |
| `LoginThrottle` | failed logins of several origins in several threads | `MCHttp` |
| `SessionRevocation` | tokens, logout, checks | `MCHttp` |
| `LogStream` | a log written and followed | `MCHttp` |
| `MCRunLifecycle`, `MCDueWork`, `MCDispatchPass` | values for the constants | |
| `MCKuma`, `MCHttp` | compositions; a behaviour follows one of the instances | see below |
| `MCKumaDaily` | values for the constants, with the assumption that they are regular | extends `MCKuma` |
| `DestKeys_proofs`, `RunService_proofs`, `RunLifecycle_proofs`, `DueWork_proofs`, `DispatchPass_proofs`, `ExpiringStore_proofs`, `MCHttp_proofs`, `MCKuma_proofs` | theorems | each extends what it is about; `MCHttp_proofs` instantiates `ExpiringStore_proofs` once for each store |

Definitions whose comment says "Seeded fault" stand beside the definition they
corrupt.  No specification uses them; they are the mutated forms with which
`PROJECT.json` shows that each property can fail.

### RunLifecycle

The application is one asyncio loop, so what lies between two awaits is one step.

| variable | code |
|---|---|
| `taskDest`, `taskSource` | `Task.local_path` as a key, `Task.source_id` |
| `rowTask`, `rowState` | the `Run` table |
| `phase` | where the coroutine of the run stands: `created` (task made, no step yet), waiting for `dest`, `permit` or `source`, `transfer`, `prune`, and the shielded cleanups `reapTimeout` and `reapCancel` |
| `owners`, `asked` | `_run_owners` and `RunOwner.cancel_requested` |
| `signalled` | a `CancelledError` is on its way |
| `snapDest`, `snapSource` | what `_execute_run` read before it waited |
| `activeDest`, `free`, `locked` | `_active_destinations`, `_global_sem`, `_source_locks` |
| `proc` | the process group: live, or how it ended |
| `request` | the cancel request of a client: in flight, or its answer |
| `up` | the process is up, stopping or down |

Only the tables and `asked` (kept as history) survive `Crash`.

Actions and code: `AdmitManual` is `run_now` and `admit_run`; `AdmitDue` is one
admission of `dispatch_due`; `EditTask` is a PATCH of a locked field; `RunStep`
gathers the steps of the execution (start, the three acquisitions, transfer,
prune, deadline, every exit with its `finally` blocks, the failing commit of the running row in `BeginFails` included); `ProcExit` is a process
group ending by itself and `Kill` one that dies after it was killed;
`CancelRequest` and `CancelAnswer` are the two sides of the wait in
`cancel_run`; `Sweep` is `sweep_orphaned_runs`; `Shutdown`, `Exit`, `Crash` and
`Restart` are the lifespan and `reconcile_stale_runs`.

Abstractions:

- The condition lock of `_destination_exclusion` is held only between awaits, so it
  is never contended and the unwinding of an execution is one step.  The
  acquisitions are separate steps even where the code would not suspend: more
  interleavings than the code has.
- A dispatch pass admits each row in its own step; which of several rows it
  prefers is not in this model.  The order in which the semaphore wakes its
  waiters is not either.
- Awaiting the spawn of the process is part of `transfer`; `bad` is also a process
  that could not be launched.  A missing source and a failed validation are one
  rejection.
- The watchdog's grace period is the fact that a row whose execution has been
  created and has not started yet is younger than the grace period.  A start
  delayed beyond the whole grace period is outside the model.
- The process groups die with the container in a crash.
- Two requests to cancel the same run are one: only the latest answer is kept.
  An unknown run id is left out.  Each run id is used once.
- `timed` is `run_timeout_seconds > 0`; `InitTimed` says which of the two an instance allows.
- A process that survives SIGKILL (uninterruptible sleep) is outside the fairness.
- Command lines, statistics, log text and notifications are left out.

### RunService

A run waits, works and ends.  `ServiceNext` lets it start working only where it is
apart from every working run and fewer than `Limit` work, lets a waiting run
or a working one end, and allows "cancelled" only for a run somebody asked to
cancel.  The refinement maps "working" to the phases from the start of the
transfer to the end of the cleanup, and the destination to the snapshot.

### DueWork

One task; other tasks appear only as a dispatch that need not happen.  `now` counts
units of `TICK_EARLY_TOLERANCE`.  `owed` is the `TaskDue` row with what the run
table says of its `run_id`; `baseline` is the watermark; `run` is the active run;
`paidAt`, `paidEnd`, `lastStart`, `lastEnd` summarise the run table as the queries
of the ledger see it; `armed` is the set of fires the registered job still has
to deliver (the generation token: an edit replaces the whole set); `epoch` is
`schedule_epoch_at`, the time of the last edit of the schedule.

Four variables are history, which no action reads.  `since` is the time up to which
occurrences were waived by an edit, a cancellation or the first watermark, and
`dropped` the part of it that the last cancellation did.  `outpaced`: a run was dispatched, started by hand or began
while an occurrence up to now was not folded yet or a finished run not settled.  The service
passes over the ledger every 15 seconds and reconciles every 60, so this is rare and
not impossible; then more occurrences can be lost (a reconciliation that folds two
occurrences around a success counts the later one as paid by it).  `swallowed`: an occurrence
went into a blocked row that a success had already paid, where it may be lost (section 5).
`NothingForgotten` promises something only to behaviours with neither of the two, `NoNeedlessRun` to those
in which no run outpaced the ledger; everything else is promised to all.

A schedule that does not parse is stored like any other: `TaskIn` (`api/tasks.py:68-100`)
does not look at it, and `upsert_job` only logs it.  So `EditSchedule` may break and mend the
schedule, and `EditOther` may give the blocked row of a broken one a new chance.  It is then dispatched, and the next
reconciliation blocks the dispatched row, which keeps its run and its attempts
(`due.py:211-216`).  `TypeOK` and `ExhaustedIsSpent` say how far that goes: only under a broken schedule
may a row that is not dispatched be linked, or a row that is not exhausted have spent its retries, and
then it is blocked (or, with the link, due again).

| action | code |
|---|---|
| `Reconcile` | `reconcile_task`, through the dispatcher's periodic loop |
| `RecordTick` | a cron callback from `Early` before to `Lateness` after its occurrence |
| `SettleAll` | the settling half of a dispatch pass |
| `Dispatch` | the rest of a pass for this task; the committed run may lose its execution, and its link, to an error later in the pass |
| `ManualRun`, `RunBegins` | `admit_run`; the commit that sets `running` and resets `started_at` |
| `Terminal` | the terminal commit of `_execute_run`, with `apply_run_outcome` in the same transaction |
| `OwnerEnds`, `Watchdog`, `Restart` | a row made terminal without telling the ledger |
| `EditSchedule`, `EditOther` | PATCH with `on_task_edited` and a new job |
| `Crash`, `Restart`, `StartUp` | the process, and the start-up reconciliation, which does not await |

Abstractions: the exit of an edit whose push to Kuma raises, which leaves the job unregistered
(`TaskMonitors!PushFails`), is not in this model, so here an edit always arms the
job of its row; the occurrence scan is never long enough to be cut off; a disabled task's row is dropped by the edit, so
the dispatcher's own drop of one is not reachable under the lock.

### DispatchPass

`queue` is the order in which the due times of all rows, and the follow-ups behind
them, lie in time: an entry is a task with `"due"` or `"newer"`.  `at`, `refused` and
`started` are the loop of `dispatch_due`: the row it looks at, the rows it refused
(`claimed_sources` and `claimed_dests` are their scopes) and the rows it started.
`Looks`, `Refuse`, `Dispatch` and `Skip` are the branches of the loop's body,
`StartPass` is `settle_all` and the queries before it, `EndPass` its last commit and the start
of the executions, and `Abort` an exception, which leaves the runs committed so far
without executions and the last of them possibly without its link.  A pass
does not await, so nothing else is enabled while `at > 0`.

The other actions are the life of the rows between passes, as far as a pass can
see it: `DueWork` models it in full.  Which of its obligations a success pays
is left open where it depends on when the run began.  A destination is unusable in
one way, by having no key at all.  With `LateFolds` an occurrence may be folded
behind younger ones of other tasks, as after a restart.  The schedules parse: what a broken one does
to a row is in `DueWork`.  `wait_reason` is a label and is left
out, and so is the silent skip of a row whose task or source was deleted.

### TaskMonitors

`row` is the task's row (its cron, `enabled`, `kuma_enabled` and monitor), `job` the registered
job, `ticks` the callback that fired and waits for the lock, with whether its generation is
still the current one, `lock` and `req` the requests and what each waits for with its
own view of the row (the ORM object it read), `monitors` Kuma's side, `failed` and `pending`
the memory of `_sync_failures` and `_pending_ops`, `tool` the plan of `kuma_reconcile`.

`Create`, `Update` and `Delete` are the handlers up to their first wait; each call to Kuma
ends in a `...Done` or `...Fails` action, and a failure may have had its effect.
`PushAndReturn` and `Return` are the ends of `_sync_kuma` and of the handler, with `upsert_job`
(`JobOf`: no job for a disabled task or a schedule that does not parse).  `PushFails` is the
exit of a push that raises: it lies outside the `try`, so the handler leaves after its commit and before
`upsert_job`.
`Fire` and `Callback` are the scheduler's, `Plan` and `Apply` the tool's two halves,
`Restart` the process with its memory.

The interval of a monitor is a function of the cron expression and stands for it.  A service
without Kuma settings (`client()` is None) is not in the model.  Three history variables set apart what the code
does not promise: `overlapped`, an edit or deletion met an unfinished `create_task`, which holds
no lock while it awaits Kuma and then registers the job of the row as it had read it; and
`unowned`, the interval became wrong by a plan of the tool that an edit had overtaken, or by a restart that forgot a failure;
and `stranded`, a push raised and no request has returned since.

### Freshness and KumaPush

`Freshness` knows a schedule through two functions: `Fires`, the instants at which the
trigger fires in its zone, and `Nominal`, what croniter counts in UTC when it measures the
cadence.  They differ where the clocks change, which is what the floor in `Deadline` and the
margin in `KumaExpirySeconds` are for.  Tenths and halves of the code are kept
exact by scaling (`TenSlacks`, `TwoAllowances`).

`KumaPush` adds time.  A sync reads the projection (`Read`, in `BeginSweep` and `BeginSync`) and then
awaits its push, which may be delivered several times, lose its answer or fail (`AnswerLost`, `EndPush`).
`RunBegins`, `RunEnds` and `Edit` change what the projection reads, `Crash` and `Restart` cut off
syncs and forget the outcome.  `shown` is the projection of the state (a function of it, kept for
the action property), `steady` for how long it has not changed.

Of Kuma itself the model assumes: a push sets the word and restarts the expiry, a paused monitor
refuses pushes and does not expire, an edited or resumed one starts to count again, and a
new one is active.  A unit of time is longer than the interval of the sweep and than the
longest push with its retries, so `Clock` waits for the sweep of the unit and for every push.

### ExpiringStore, LoginThrottle, SessionRevocation

`ExpiringStore` is a pair of tiers in the order of insertion, and `Put`, `Get` and `Drop` are
the methods with their sweep and the enforcement of the cap.  Every operation takes the
reading of the clock that its caller made before it waited for the store's lock: readings may
arrive out of order, and then an expired entry can hide behind a live one.

`LoginThrottle`: a request of an origin arrives with whatever header its sender wrote, directly or through
the trusted proxies (`Arrivals`), and is charged to `ClientIdentity`.  `Ask`, `Compare`, `Record` and
`Clear` are the handler's steps between which other threads run.  `failures` is a history of
what each origin really did.  `SessionRevocation`: `Issue`, then checks and logouts whose one reading of
the clock is used later; time is in half seconds since the retention exceeds the age by part of a
second.  `Restart` empties the store and keeps the tokens.

### LogStream

`row`, the number of lines of the `log`, who may write it (`writer`) and the `stream`.  The process
group writes at any time; the coroutine's remarks, its commit and the steps of the stream take turns on the
loop, which `LoopHeld` says of the two halves of one step (read to the end, look at the row).

### MCKuma and MCHttp

The two halves of the Kuma synchronisation read different parts of a task, and the
authentication stores and the log share nothing.  Each of these modules instantiates its parts over one
set of variables and lets a behaviour follow one of them, chosen in `Init`: their
product has no order of steps within a part that a part alone does not have.  Once an edit has met an
unfinished creation, `MCKuma` follows only the next restart.

## 3. The runs

| run | module and cfg | checks | instance |
|---|---|---|---|
| `lifecycle` | MCRunLifecycle | `IInv`, `DestinationExclusion`, `NothingLeaked`, `ActiveRowsDisjoint`, `PermitNeverIdle`, `RowFollowsExecution`, `LiveIsOwned`, `CancelledWasAsked`, `AnswerIsTrue`, `HistoryIsFinal`, `NotOwnedIsDead`, `ImplementsService` | 2 runs of 2 tasks in every configuration of 3 destinations (two overlap) and 2 sources, limit 2, edits, deadline and prune; 570 000 states |
| `ends` | MCRunLifecycle, MCRunEnds.cfg | `PermitsConserved`, `EveryRunEnds`, `CancelEnds` | 2 runs of 3 tasks, limit 1, prune, with and without a run timeout; 140 000 states |
| `slots` | MCRunLifecycle, MCRunSlots.cfg | `OnlyNeededScopesHold`, violated | 3 runs of 3 tasks, limit 2, deadline and prune |
| `ledger` | MCDueWork | `TypeOK`, `FollowUpIsNewer`, `ExhaustedIsSpent`, `EditNeverBackfills`, `NothingForgotten`, `NoNeedlessRun` | a schedule with three occurrences, one with a single one and a broken one, horizon 4, one retry; 1.7 million states |
| `settles` | MCDueWork, MCDueLiveness.cfg | `DebtSettles` | one occurrence, horizon 2, retries beyond it, a broken schedule; 69 000 states |
| `follow_up` | MCDueWork, MCDueForgotten.cfg | `LaterStaysPromised`, violated | as `ledger`, horizon 7 |
| `cancel` | MCDueWork, MCDueCancel.cfg | `CancelIsNoRerun`, violated | as `ledger`, horizon 5, callbacks never early |
| `passes` | MCDispatchPass | `TypeOK`, `NoOvertaking`, `NoHeadOfLineBlocking`, `StartsAtOnce` | 3 tasks: two overlap, two share a source, one of these has no usable destination and the other is also run by hand; limit 2, late folds, errors; 910 000 states |
| `fair` | MCDispatchPass, MCDispatchFair.cfg | `NobodyStarves` | one destination over two others that are apart, limit 2; 140 000 states |
| `http` | MCHttp | `TypeOK`, `GuessesBounded`, `LockoutHolds`, `NewcomerIsCounted`, `LogoutIsFinal`, `EndIsComplete` | 3 origins, a proxy, 3 tokens, 2 threads, cap 2, lockout after 2 failures, readings one unit old; a log of 4 lines; 250 000 states |
| `kuma` | MCKumaDaily | `TypeOK`, `ScheduleIsCurrent`, `DriftIsReported`, `LapseMeansStale`, `KumaAgrees`, `NothingHides`, `OnlySuccessRenews` | 2 schedules, one more that does not parse, 2 monitors, 2 concurrent requests, the tool; horizon 10, one edit, one run at a time; 1.6 million states |
| `backstop` | MCKuma, MCKumaUneven.cfg | `LapseMeansStale`, violated | a schedule with uneven gaps |

Why the bounds are enough.

*Lifecycle.*  A conflict over a destination or a source is a matter of
two runs, and the configurations of `lifecycle` contain each of them, both
containment directions included; its edits move a task onto the other's scopes
before, during and after a run.  Waiting for a permit takes one permit and two runs, which is
the instance of `ends`.  What more runs could add, a third party
in a conflict between two, is covered by the theorems of section 4, which hold
for any number of runs and any limit, and the key comparison is proved for keys of any length.
Symmetry over run ids is used in `lifecycle` only.

*Ledger.*  A follow-up, a further occurrence behind it and
a retry between them need two or three occurrences, a cap of one retry and a back-off
of one or two units; the horizons let them all happen, with crashes and edits
anywhere, to the broken schedule and back.  `Horizon` also bounds manual runs, edits and crashes, and the clock
passes it only while a retry is waiting; a behaviour may therefore stop there, which is
why the ledger's configurations do not check deadlock.  The lifecycle runs do:
they end nowhere, since the process can always crash and restart.

*Dispatcher.*  Starvation and overtaking are matters of three tasks, one waiting for scopes that
the two others keep busy in turn; each task has at most two entries in the queue, so the queue is
finite without a clock, and the theorems about a pass hold for any number of
tasks.

*Stores.*  A cap of two is the smallest in which a protected entry and a newcomer meet, three
clients overfill it, and one of them is always neither.  Two threads are what it takes to be
between asking and recording twice.  `LoginHorizon` exceeds the lockout and `SessionHorizon` the
retention after an issue by a clock that was ahead.  `Quiet` ends the exploration at the alarm about an evicted revocation,
since nothing is promised after it.  Threads, and tokens with the origins named alike, are symmetric.  A
log of four lines has its heading, a line of the transfer and two remarks.

*Monitors.*  The schedules have a cycle of four units; the first gap of `spring` is stretched and the
first occurrence of `fall` repeated, so a change of the clocks meets every stage of a cycle, and
horizon 10 sees one whole cycle after it.  One edit moves a task between them at any time.
One sync by an event is under way at a time, beside the sweep.  Two monitors are a
linked one and one left behind; two requests an update or deletion and a creation.
The clocks stop at the horizon, which is why `http`, `kuma` and `backstop` do not check deadlock.

### Fairness

`RunLifecycle!FairSpec` has weak fairness on each execution's next step, on the
death of a killed process group, on the answer to a cancel request, on the sweep,
on the exit and on the restart: the loop runs every ready callback, SIGKILL
works, the watchdog loop never ends and the container has a restart policy.
There is none on `ProcExit`: a transfer may run for ever, and only the deadline
(`EveryRunEnds`, where there is one) or the operator (`CancelEnds`) ends it.  Nothing is assumed
of admission, edits, cancellation or crashes.

`DueWork!FairSpec` has weak fairness on settling, the watchdog, restart and
start-up, for the same reasons.  The clock, a successful start, the beginning
of a run and its decided end have strong fairness: crashes may interrupt them any
number of times but not every time.  Without it an obligation is requeued after
each interruption for ever, which is what the code intends.

`DispatchPass!FairSpec` has weak fairness on starting and finishing a pass (the loop),
and strong fairness on the success of each task's runs.  The latter is an assumption about the
backups and not about the code.  Retries becoming due and the watchdog need none: only what
keeps the waiting task's scopes busy matters.
An exhausted obligation is re-armed with the due time it had, so two tasks that
fail for ever stay older than a third one and can keep a scope that it needs: with fairness for
ends of any kind instead, TLC finds that behaviour.  Manual runs are not held back by
anybody's turn, so `fair` has none.

`http` and `kuma` check safety only.

## 4. What is proved

For every set of tasks, sources, destinations and runs and every limit, from
`LifecycleAssumption` alone (destinations are sequences, the null values are
outside their sets, `Run` is finite, the limit is positive):

- `TypeCorrect`: `Spec => []TypeOK`.
- `Invariance`: `Spec => []IInv`.  The safety properties are not inductive: that two
  live process groups are apart depends on what the ended ones gave back and
  on where the tasks pointed when they waited.  `IInv` says so in five parts: `Shape`
  (phase, row, ownership, snapshot, claim and process of one run agree in every
  phase, and the snapshot still equals the configuration, which is where the lock
  on edits enters), `ActiveRowsDisjoint` (active rows share neither a task nor a
  source), `ClaimsDisjoint` (claims do not conflict), `LocksHeld` (a source is locked
  exactly when an execution past its lock has it) and `DownIsIdle`.  The proof
  takes one step per action and one part at a time.
- From it, `ExclusionHolds`, `RowsFollow`, `AdmissionDisjoint`, `LiveAreOwned`,
  `NoLeak`, `PermitsAreUsed`.  `PermitsAreConserved` adds the cardinality of the holders
  to the argument, and `HistoryStays` is an action property.
- `CancelledByOperator`, `AnswersAreTrue` and `NotOwnedMeansDead`: what an operator is told.
  The first is inductive by itself, given the types.  The second needs that rows do not
  disappear and that a terminal one stays what it is, and that a row which is asked about exists
  (`Answered`); the third follows from `IInv` at the step that answers.
- `Refinement`: `Spec => Service!ServiceSpec`, initial states and every step.
- `ServiceTypeCorrect` and `ServiceKeepsPromise` about the abstract service.
- `ConflictIsContainment` and `AncestorBlocksMore` about keys: two keys conflict exactly when
  one covers the other, and a key above another excludes at least as much.

About a pass of the dispatcher, for every set of tasks and scopes and every limit
(from `PassAssumption`): `OrderIsKept`, `NobodyIsBlockedInVain` and `StartsNeverCollide`.
Each is a statement about the rows the loop has gone by, and `PassInv` is their
conjunction with what ties them together: the refused rows are exactly those that
still wait, and what was started is active.  The proof has one lemma per
branch of the loop's body; every other action happens outside a pass, where
nothing is refused or started.  `TypeCorrect` is about the rows over time: the queue holds every
row once, in it is exactly what the statuses say, and no task is tried more often than its retries
allow.  Its invariant adds that whoever is not exhausted has an attempt left (`Row`) and that a
started row is linked, which is what an error in the middle of a pass relies on (`Look`,
`AbortKeeps`).  `WithoutHolds`, `PromoteHolds` and `InsertAtHolds` are its lemmas about the
operators on the queue: which rows are left, each of them once.

About the ledger, for every set of schedules, any number of occurrences, every limit of
retries, every back-off and every tolerance (from `LedgerAssumption`: occurrences are
positive times, the bounds are naturals, broken schedules are among the
schedules):

- `LedgerInvariance`: `Spec => []LedgerInv`.  None of the ledger's properties is inductive.
  That a follow-up is newer than its obligation depends on the watermark being at
  least as far as everything that was written down (`Accounted`); that no edit backfills
  depends on the watermark being beyond the last edit and at most `Early` ahead of the clock
  (`Watermark`), and on every job being one of the present schedule (`ArmedIsAhead`), so that what
  is owed is never older than an occurrence after that edit (`Answered`); and no run is from the future
  (`RunsArePast`, from which a missing watermark is derived).  `Sound` says the rest about one row as
  a value, with what a broken schedule leaves in it, so that the functions of the code (`Finish`, `Outcome`,
  `Settled`, `Noted`, `Rearm`) get one lemma each and the actions are put together from them.
- From it `LedgerTyped`, `FollowUps`, `RetriesAreSpent`, `EditsHold` and, for every step, `NoRunInVain`.
- `PromiseInvariance`: `Spec => []PromiseInv`, which adds to it, for behaviours in
  which no run outpaced the bookkeeping and nothing was swallowed, that under a schedule that parses a run starts with every
  occurrence up to then accounted for (`StartsRecorded`), that what is linked is not
  paid (`LinkedIsUnpaid`), and that where nothing is owed, or
  what is owed was paid, every promise was kept (`PaidIsKept`).  The last is where the
  tolerance of an early callback has to be the same in the watermark and in the
  payment.
- From both, `NothingIsForgotten`.

About the bounded store, for every cap of at least two, every retention and every kind of
entries (`ExpiringStore_proofs`): `SweepKeeps`, `DropKeeps` and `PutKeeps` say which entries
each operation keeps, drops and may evict, and that the store stays within its cap with
one entry per key.  They are about the operators, whatever store they are given.

About the HTTP side, for any number of origins, proxies, threads, tokens and log lines, any
cap, limit and retention (from `HttpAssumption`: the caps are at least two, the retention
exceeds the age by more than the tolerance and the lag of a thread together, that lag is
shorter than a lockout, no proxy is an origin, threads are finitely many):

- `HttpEndIsComplete`.  Its invariant ties the reader to the file and the row: a stream has read
  no more than there is, and when it looks at the row of a run that is over, it has read
  everything (`StreamRead`); who may write follows from the row (`StreamRow`).
- `HttpLogoutIsFinal`.  The invariant is `Lasting`: a token that was logged out is still entered
  until after the last reading of the clock that a check may work on while the token is of age.
  It needs that readings are recent (`RequestsRecent`), and that no eviction
  happened (`alarm`, which ends the promise).
- `HttpGuessesBounded`, `HttpLockoutHolds`, `HttpNewcomerIsCounted`.  What a client did and what
  the store has of it are related stamp by stamp, counted from the last (`Backed`): the
  recorded times are those the threads had read, older than the failures by up to the lag
  and out of order.  From it a client with as many failures as the limit finds itself locked out,
  and `Guessing` bounds the failures together with the threads that have passed the throttle.
  `OwnKeys` is the lemma about `ClientIdentity`: a request is charged to where it came
  from, whatever header its sender wrote.
- `HttpTypeCorrect`, with the caps of both stores.

About Uptime Kuma, for every set of schedules, monitors and requests (from `KumaAssumption`: the
null values are outside their sets, `Samples` and the slacks are positive, every
schedule that parses has another two occurrences ahead):

- `KumaScheduleIsCurrent` and `KumaDriftIsReported`, from `ConfigIInv` (the schedules may or may not
  parse).  The lock is not enough
  for them, since a creation does not hold it.  `LockKept` says that whoever is under way without the
  lock is a creation, `OneAtATime` that nobody else is unless an edit has met one, and that the request
  knows the row as it is; `JobsFollow` and `DebtsKept` are the two properties with
  the stages of a request in which they are owed and not yet true.
- `KumaAlwaysAgrees`, from `PushIInv`: as long as the projection stands still, whoever pushes
  pushes what it says (`PushersAgree`), and a sweep that is over told the monitor so in this unit,
  or another in the last (`Told`).
- `KumaNothingHides`, `KumaLapseMeansStale` and `KumaOnlySuccessRenews`, from the same
  invariant and the arithmetic of grace, deadline and expiry (`GraceGrows`: a longer cycle adds less to
  the grace than to the cycle).  They do not hold for every schedule, as `backstop` shows, so their
  hypotheses say what a schedule needs: `Even`, its cycle is the same whenever it is
  measured; `Roomy`, it is longer than twice the least slack (20 minutes in the code, so an
  obligation of a task that runs more often may be called delayed for longer than a
  cycle); `MarginCovers`, the next two occurrences come no later than one and two
  cycles and the margin, the tolerance for early callbacks included.  `MCKumaDaily` assumes all three, so
  that TLC evaluates them for the schedules of `kuma`.  In the code the margin is an hour and the tolerance
  one second, so on a day with one hour more `MarginCovers` misses by that second: a monitor that last heard
  of a success which began early and took no longer than it may expire up to a second
  before the projection calls the task stale.
- `KumaTypeCorrect`.

Each of these has a theorem about the component alone as well (`Stream...`, `Session...`,
`Throttle...`, `Config...`, `Push...`).

The schedule's next and latest occurrence are defined with `CHOOSE`, and the filters of a
queue and of a client's stamps with a recursive function.  That they exist and what they return is
proved from the well-foundedness of the naturals: an index at which a claim fails first
(`LeastExists`, `GreatestExists`, `FirstInstant`, `LeastIndex`) contradicts the step before it.  The
induction theorems of the library cannot be instantiated here.

Only model-checked: the liveness properties of the lifecycle, the ledger and the dispatcher, since
fairness is out of the prover's reach.  Every safety invariant and action property of a passing
run is a theorem.

## 5. Where the code and what it says disagree

Four of these are runs in which TLC exhibits the behaviour:

- `slots`: `services/dispatcher.py:138` counts active rows, a pending run that waits
  for a busy destination among them, against `max_concurrent_runs`.  Two overlapping
  manual runs then keep an unrelated due task out although a permit is
  free.  `services/runner.py:735-738` says such a run cannot occupy a slot.
- `follow_up`: a follow-up recorded while the run was pending is not moved by a later
  occurrence, and beginning the run resets `started_at`.  Its success then drops the
  follow-up, and the later occurrence, which came after the start, is owed by
  nobody.  `services/due.py:413-414` promises the contrary.
- `cancel`: a reconciliation folds an occurrence as the follow-up of a run, the operator cancels the run,
  and the callback of that occurrence comes after it.  It finds neither a row nor a run since the watermark
  and owes the occurrence again (`services/due.py:317-322`), so the next pass starts a
  run.  `services/due.py:343-344` drops the follow-up to keep a cancellation from becoming an instant
  re-run.
- `backstop`: `services/freshness.py:131` sizes a monitor's expiry by the gap between the next two
  firings at the time of the edit.  On a schedule with uneven gaps (`0 2 * * 1-5`, edited on a
  Monday) the long gap outlasts it: the monitor of a process that is down expires while the projection is
  fresh or not yet due.  `services/freshness.py:125` calls it "the backstop, never tighter than the
  projection".  The deadline of the projection reads the same cadence from the clock, so on such schedules a
  task that is stale can become delayed again; `OnlySuccessRenews` holds for regular ones.

The models met more, without a run of its own:

- An occurrence that comes while the row is blocked is folded into it without a marker
  (`services/due.py:188`).  What blocked the task may pass by itself (a path that is not allowed
  while a file system is missing), and nothing keeps a manual run of a blocked task from succeeding.  When an edit
  then makes the row due, it is settled as paid by that run and deleted, with the later occurrence in it.
  `services/due.py:413-414` says of such a success that an occurrence after its start stays promised.
  TLC finds it, at horizon 5, when `~ swallowed` is taken out of `NothingForgotten`.
- A callback that comes just before its instant moves the watermark and leaves an
  exhausted row exhausted (`services/due.py:308-316`), so that occurrence never re-arms the task.
  `src/README.md:137-138` and `services/due.py:42-43` say it does.
- Revocations and failed logins live in memory, but a signing key from the settings survives a
  restart: after one, a logged-out token is good again until its age ends.  `src/README.md:211` and
  `http_auth.py:477-479` expect a restart to sign everybody out.
- A push that raises (`api/tasks.py:455`) fails the request after its commit: the task keeps the job
  of its old schedule until the next edit or restart (`stranded`).
- A schedule that does not parse is accepted by the API, blocks its row, and an edit of another field has the row
  dispatched once more; the reconciliation then blocks the row of a run that is under way.
- `create_task` awaits Kuma outside the lifecycle lock (`api/tasks.py:297`): an edit, disable or deletion in
  that time is followed by the registration of a job that fits the row no longer.  It lasts until the
  next edit or restart.
- A task created disabled gets an active monitor; `src/README.md:57` says that a disabled task's is paused.
- The reconciliation tool applies the interval it had planned; an edit in between is overwritten, and
  the service does not know.
- A log stream gives up after 20 polls (five seconds) when there is no file yet, so it ends without a state for a
  run that waits longer than that for its destination, a permit or its source (`Look`).  When the task is
  deleted between the run's end and the stream's next look, the stream finds no row and goes on
  polling until its client leaves (`Ask`).

## 6. Not modelled, and what is left

Left out for good: process output, statistics, log text, notifications, ssh key
generation, read-only queries, settings parsing, the column migration, HTTP
header parsing, Basic credentials, password hashing and signatures, the frontend's rendering, the
demo script, packaging.  They keep no state that these properties are about, or are a
single call.

Not modelled yet:

- Deleting a source while a task is created for it: `delete_source` runs in a worker thread,
  and its check and its deletion are two statements of one session beside another one.
- The scheduler's heartbeat and the missed-schedule flag of the task list.
- Canonical destination paths: the resolution of a path under the roots and the walk by descriptors
  (`services/fs.py`) are system calls on a tree that others may change; `DestKeys` begins at the resolved
  path.  The key is computed before the waits and the path resolved again after them.

Proofs left: the refinement of an abstract store, which forgets exactly what has expired, by
`ExpiringStore` until its first eviction; and that the filter of the dispatcher's queue keeps
the order of the rows, which no property states.
