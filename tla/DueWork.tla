------------------------------- MODULE DueWork -------------------------------
(***************************************************************************)
(* The due-work ledger of one task (services/due.py): an occurrence of the *)
(* schedule is written down before anything can refuse it and stays owed   *)
(* until a run pays it.  The ledger is fed by cron callbacks and by the    *)
(* periodic reconciliation, settled by the commit that ends a run or by a  *)
(* later pass over the run table, and emptied by the dispatcher.           *)
(*                                                                         *)
(* Time is counted in units of TICK_EARLY_TOLERANCE.  Other tasks appear   *)
(* only as a dispatcher that may find the source, the destination or the   *)
(* capacity taken.                                                         *)
(***************************************************************************)
EXTENDS Integers

CONSTANTS
  Cron,          \* the schedules the task may be given
  Fires,         \* the occurrences of each schedule
  Broken,        \* the persisted schedules that do not parse
  Early,         \* TICK_EARLY_TOLERANCE
  Lateness,      \* how late a cron callback may be handled
  MaxRetries,    \* MAX_AUTOMATIC_RETRIES
  BackoffInitial, BackoffCeiling,
  Horizon        \* the clock stops there, but for a retry that waits

Never == -1      \* NULL
Time  == Nat
Maybe == Time \union {Never}

ASSUME LedgerAssumption ==
  /\ Broken \subseteq Cron
  /\ Fires \in [Cron -> SUBSET (Time \ {0})]
  /\ {Early, Lateness, MaxRetries} \subseteq Nat
  /\ {BackoffInitial, BackoffCeiling, Horizon} \subseteq Nat

VARIABLES
  now, up,                  \* the clock; "up", "down" or "starting"
  cron, enabled,            \* the Task: its schedule and its switch,
  baseline, epoch,          \* its schedule_baseline_at and schedule_epoch_at
  owed,                     \* its TaskDue row
  run,                      \* its active run: state, started_at, has an execution
  paidAt, paidEnd,          \* start and end of its newest successful run
  lastStart, lastEnd,       \* start and end of its newest run of any kind
  armed,                    \* the fires of the registered job still to be handled
  since,                    \* history: occurrences up to here were waived by an
                            \* edit, a cancellation or the first baseline
  dropped,                  \* history: those that a cancellation waived
  outpaced,                 \* history: a run overtook the ledger's bookkeeping
  swallowed                 \* history: an occurrence went into a blocked row that
                            \* a success had already paid

table == <<run, paidAt, paidEnd, lastStart, lastEnd>>
task  == <<cron, enabled>>
marks == <<baseline, epoch, since, dropped>>
ledger == <<now, up, task, owed, table, armed, marks>>
vars   == <<ledger, outpaced, swallowed>>

\* run is what the run table says of run_id: "active", or how it ended.
Verdict == {"success", "cancelled", "plain", "permanent", "infra"}
Status  == {"none", "due", "dispatched", "retry", "exhausted", "blocked"}
Row == [status : Status, due : Maybe, newer : Maybe, attempts : Nat,
        retry : Maybe, run : {"none", "active"} \union Verdict]
Run == [state : {"none", "pending", "running"}, start : Maybe, owned : BOOLEAN]

NoRow == [status |-> "none", due |-> Never, newer |-> Never, attempts |-> 0,
          retry |-> Never, run |-> "none"]
NoRun == [state |-> "none", start |-> Never, owned |-> FALSE]

RunIsActive == run.state # "none"

\* Types, an empty row, and the link: a dispatched row has a run, and a row that
\* reconcile_task blocked for its schedule may keep it, until an edit of another
\* field makes it due again with the link it had (due.py:211-213, 458-460).
TypeOK ==
  /\ now \in Time /\ up \in {"up", "down", "starting"}
  /\ cron \in Cron /\ enabled \in BOOLEAN
  /\ baseline \in Maybe /\ epoch \in Time
  /\ owed \in Row
  /\ run \in Run
  /\ {paidAt, paidEnd, lastStart, lastEnd} \subseteq Maybe
  /\ owed.status = "none" <=> owed.due = Never
  /\ owed.status = "dispatched" => owed.run # "none"
  /\ owed.run # "none" =>
       owed.status = "dispatched" \/ (cron \in Broken /\ owed.status \in {"due", "blocked"})
  /\ armed \subseteq Time
  /\ {since, dropped} \subseteq Time /\ {outpaced, swallowed} \subseteq BOOLEAN
-----------------------------------------------------------------------------
(* The schedule.                                                           *)

\* The occurrences up to a time, and the first one after it.
UpTo(c, t) == {o \in Fires[c] : o <= t}
NextOccurrence(c, t) ==
  IF \E o \in Fires[c] : o > t
  THEN CHOOSE o \in Fires[c] : o > t /\ \A p \in Fires[c] : p > t => o <= p
  ELSE Never

\* The newest occurrence up to a time.  The bounded walk of the code gives up
\* after MAX_OCCURRENCE_SCAN of them, which no schedule here has.
LatestOccurrence(c, t) == CHOOSE o \in UpTo(c, t) : \A p \in UpTo(c, t) : p <= o

\* The watermark of a task that has none: the end of its newest run, or its
\* creation at time 0.
DeriveBaseline ==
  IF lastStart = Never THEN 0 ELSE IF lastEnd = Never THEN lastStart ELSE lastEnd

Backoff(n) ==
  LET b == BackoffInitial * 2 ^ (n - 1)
  IN  IF b \in 0..BackoffCeiling THEN b ELSE BackoffCeiling
-----------------------------------------------------------------------------
(* What a run's end does to the obligation, as functions of the row.       *)

Owe(at) == [NoRow EXCEPT !.status = "due", !.due = at]

\* Seeded fault: a new lease of life with the old count of attempts.
Rearm_Spent(d) == [d EXCEPT !.status = "due", !.retry = Never]

Rearm(d) == [d EXCEPT !.status = "due", !.attempts = 0, !.retry = Never]

\* Seeded faults: a payment always promises another obligation, or leaves the
\* follow-up behind when it becomes the obligation.
Finish_Always(d) == Owe(d.newer)
Finish_Keeps(d) ==
  IF d.newer = Never THEN NoRow ELSE [Owe(d.newer) EXCEPT !.newer = d.newer]

\* _finish: the debt is paid; a follow-up becomes the next one.
Finish(d) == IF d.newer = Never THEN NoRow ELSE Owe(d.newer)

\* Seeded fault: an interrupted run is not requeued.
Outcome_NoRequeue(d, v) ==
  CASE v = "success" -> Finish(d)
    [] v \in {"cancelled", "infra"} -> NoRow
    [] OTHER -> [d EXCEPT !.status = "blocked", !.run = "none"]

\* apply_run_outcome, for the verdict v of the run.
Outcome(d, v) ==
  CASE v = "success"   -> Finish(d)
    [] v = "cancelled" -> NoRow
    [] v = "infra"     -> [d EXCEPT !.status = "due", !.run = "none", !.retry = Never]
    [] v = "permanent" ->
         [d EXCEPT !.status = "blocked", !.run = "none", !.retry = Never]
    [] v = "plain"     ->
         LET n == d.attempts + 1
             tried == [d EXCEPT !.attempts = n, !.run = "none"]
         IN  IF n > MaxRetries
             THEN [tried EXCEPT !.status = "exhausted", !.retry = Never]
             ELSE [tried EXCEPT !.status = "retry", !.retry = now + Backoff(n)]

PaysDebt(d) == paidAt # Never /\ paidAt >= d.due

\* Seeded fault: only the dispatched run can pay.
Settled_OwnRun(d) ==
  IF d.status = "dispatched" /\ d.run # "active" THEN Outcome(d, d.run) ELSE d

\* _settle_row: the end of the dispatched run, or a manual success that pays what
\* was owed when it started, or a deferral whose reason is gone.
Settled(d) ==
  IF d.status = "dispatched"
  THEN IF d.run = "active" THEN d ELSE Outcome(d, d.run)
  ELSE IF d.status \notin {"due", "retry", "exhausted"} THEN d
  ELSE IF PaysDebt(d)
  THEN Finish(IF d.newer <= paidAt THEN [d EXCEPT !.newer = Never] ELSE d)
  ELSE IF d.newer = Never \/ RunIsActive THEN d
  ELSE LET merged == [d EXCEPT !.newer = Never]
       IN  IF d.status = "exhausted" THEN Rearm(merged) ELSE merged

\* _note_occurrence_during_run: is there a run the new occurrence came after?
Defers(d, latest) ==
  \/ d.status = "dispatched"
  \/ d.status # "blocked" /\ RunIsActive /\ latest > run.start

Noted(d, first, latest) ==
  IF d.newer # Never THEN d
  ELSE [d EXCEPT !.newer = IF d.status = "dispatched" THEN first ELSE latest]
-----------------------------------------------------------------------------
(* reconcile_task: fold every occurrence in (baseline, now] into the row.  *)

Base  == IF baseline = Never THEN DeriveBaseline ELSE baseline
First == NextOccurrence(cron, Base)
FoldsOne == First # Never /\ First <= now

Folded ==
  LET d == Settled(owed)  latest == LatestOccurrence(cron, now) IN
  IF d.status = "none" THEN Owe(First)
  ELSE IF Defers(d, latest) THEN Noted(d, First, latest)
  ELSE IF d.status = "exhausted" THEN Rearm(d)
  ELSE d

\* The row and the watermark a reconciliation leaves.
Reconciled  == IF FoldsOne THEN Folded ELSE Settled(owed)
NewBaseline == IF FoldsOne THEN LatestOccurrence(cron, now) ELSE Base

\* A schedule that does not parse produces no debt but a visible row.  Whatever
\* the row was, it keeps its run, its attempts and its times.
BrokenRow ==
  IF owed.status = "none" THEN [Owe(now) EXCEPT !.status = "blocked"]
  ELSE [owed EXCEPT !.status = "blocked", !.retry = Never]

Later(a, b) == IF a < b THEN b ELSE a

\* History: the first baseline and a cancellation settled late waive what the
\* watermark has passed.
CancelSettles == owed.status = "dispatched" /\ owed.run = "cancelled" /\ owed' # owed
Waives ==
  /\ since' = IF (baseline = Never /\ baseline' # Never) \/ CancelSettles
              THEN Later(since, Base) ELSE since
  /\ dropped' = IF CancelSettles THEN Base ELSE dropped
  /\ UNCHANGED epoch

ReconcileTask ==
  IF ~ enabled THEN UNCHANGED <<owed, marks>>
  ELSE IF cron \in Broken THEN owed' = BrokenRow /\ UNCHANGED marks
  ELSE owed' = Reconciled /\ baseline' = NewBaseline /\ Waives

\* The periodic reconcile_all of the dispatcher loop.
Reconcile ==
  /\ up = "up"
  /\ ReconcileTask
  /\ UNCHANGED <<now, up, task, table, armed>>
-----------------------------------------------------------------------------
(* record_tick: a cron callback, handled from Early before its occurrence  *)
(* to Lateness after it, under the lifecycle lock.                         *)

Upcoming == NextOccurrence(cron, NewBaseline)
IsEarly  == Upcoming # Never /\ Upcoming - now \in 0..Early

\* _run_covers: some run started at or after the watermark.
RunCovers == lastStart # Never /\ lastStart >= NewBaseline

RecordTick(o) ==
  /\ up = "up"
  /\ o \in armed
  /\ now \in (o - Early)..(o + Lateness)
  /\ armed' = {p \in armed : p > o}
  /\ IF IsEarly
     THEN /\ baseline' = Upcoming
          /\ owed' = IF Reconciled.status = "none" THEN Owe(now)
                     ELSE IF Defers(Reconciled, Upcoming)
                     THEN Noted(Reconciled, Upcoming, Upcoming)
                     ELSE Reconciled
     ELSE IF Reconciled.status = "none" /\ ~ RunCovers
     THEN /\ owed' = Owe(now)
          /\ baseline' = Later(NewBaseline, now)
     ELSE IF FoldsOne THEN owed' = Reconciled /\ baseline' = NewBaseline
     ELSE UNCHANGED <<owed, baseline>>    \* the session closes without a commit
  /\ Waives
  /\ UNCHANGED <<now, up, task, table>>
-----------------------------------------------------------------------------
(* dispatch_due: settle, then start the obligation if nothing holds it.    *)

\* Seeded fault: a retry is never picked up.
Startable_Fresh(d) == d.status = "due"

Startable(d) ==
  \/ d.status = "due"
  \/ d.status = "retry" /\ d.retry <= now

SettleAll ==
  /\ up = "up"
  /\ owed' = Settled(owed)
  /\ UNCHANGED <<now, up, task, baseline, table, armed>>
  /\ Waives

NewRun(hasExecution) ==
  /\ run' = [state |-> "pending", start |-> now, owned |-> hasExecution]
  /\ lastStart' = now /\ lastEnd' = Never
  /\ UNCHANGED <<paidAt, paidEnd>>

\* The row is dispatched in the step that starts the execution.  An error in the
\* rest of the pass leaves the committed run without one, and without its link if
\* nothing was committed after it.
Dispatch ==
  /\ up = "up"
  /\ enabled
  /\ ~ RunIsActive
  /\ Startable(Settled(owed))
  /\ LET d == Settled(owed)
         linked == [d EXCEPT !.status = "dispatched", !.run = "active", !.retry = Never]
     IN  \/ NewRun(TRUE) /\ owed' = linked
         \/ NewRun(FALSE) /\ owed' \in {linked, d}
  /\ UNCHANGED <<now, up, task, baseline, armed>>
  /\ Waives

ManualRun ==
  /\ up = "up"
  /\ now < Horizon
  /\ ~ RunIsActive
  /\ \E hasExecution \in BOOLEAN : NewRun(hasExecution)
  /\ UNCHANGED <<now, up, task, owed, armed, marks>>

\* The run takes its last resource and starts, whatever the row says of the task:
\* what blocked it may have passed.
RunBegins ==
  /\ up = "up"
  /\ run.state = "pending" /\ run.owned
  /\ run' = [run EXCEPT !.state = "running", !.start = now]
  /\ lastStart' = now
  /\ UNCHANGED <<now, up, task, owed, paidAt, paidEnd, lastEnd, armed, marks>>

RunEnds(v) ==
  /\ run' = NoRun
  /\ lastEnd' = now
  /\ IF v = "success" THEN paidAt' = run.start /\ paidEnd' = now
     ELSE UNCHANGED <<paidAt, paidEnd>>
  /\ UNCHANGED <<now, up, task, baseline, epoch, lastStart, armed>>

\* The terminal commit of _execute_run: the run and the row that is linked to it,
\* whatever its status, in one transaction.
Terminal(v) ==
  /\ up = "up"
  /\ run.state = "running" /\ run.owned
  /\ v # "permanent"
  /\ RunEnds(v)
  /\ IF owed.run # "active" THEN UNCHANGED <<owed, since, dropped>>
     ELSE /\ owed' = Outcome(owed, v)
          /\ IF v = "cancelled" THEN since' = Later(since, Base) /\ dropped' = Base
             ELSE UNCHANGED <<since, dropped>>

\* The run is terminalized elsewhere: by execute_run around a failed or cancelled
\* wait, by the watchdog, by a restart.  The obligation learns of it later.
EndedElsewhere(v) ==
  /\ RunEnds(v)
  /\ owed' = IF owed.run = "active" THEN [owed EXCEPT !.run = v] ELSE owed
  /\ UNCHANGED <<since, dropped>>

OwnerEnds(v) ==
  /\ up = "up"
  /\ run.owned
  /\ v \in {"plain", "permanent", "cancelled", "infra"}
  /\ v = "permanent" => run.state = "pending"
  /\ EndedElsewhere(v)

Watchdog ==
  /\ up = "up"
  /\ RunIsActive /\ ~ run.owned
  /\ EndedElsewhere("infra")
-----------------------------------------------------------------------------
(* Edits, restarts and time.                                               *)

FiresAfter(c, e) == IF e /\ c \notin Broken THEN {o \in Fires[c] : o > now} ELSE {}

\* Seeded fault: work under way survives the edit of its schedule.
EditedRow_Keeps(d, drops) ==
  IF drops /\ d.status # "dispatched" THEN NoRow
  ELSE IF d.status \in {"blocked", "exhausted"} THEN Rearm(d) ELSE d

\* on_task_edited: the row after an edit, which drops it or gives it a new chance.
EditedRow(d, drops) ==
  IF drops THEN NoRow
  ELSE IF d.status \in {"blocked", "exhausted"} THEN Rearm(d) ELSE d

\* An edit waives everything up to now, and starts a new epoch of the schedule.
NewEpoch == baseline' = now /\ epoch' = now /\ since' = now /\ dropped' = 0

\* PATCH of cron or enabled.  Nothing checks the schedule: one that does not parse
\* is stored like any other, and gets no job.
EditSchedule(c, e) ==
  /\ up = "up"
  /\ now < Horizon
  /\ <<c, e>> # task
  /\ cron' = c /\ enabled' = e
  /\ NewEpoch
  /\ owed' = EditedRow(owed, TRUE)
  /\ armed' = FiresAfter(c, e)
  /\ UNCHANGED <<now, up, table>>

\* PATCH of anything else, a broken schedule or not: the job is registered anew all
\* the same.
EditOther ==
  /\ up = "up"
  /\ now < Horizon
  /\ armed' = FiresAfter(cron, enabled)
  /\ owed' = EditedRow(owed, ~ enabled)
  /\ IF enabled THEN UNCHANGED marks ELSE NewEpoch
  /\ UNCHANGED <<now, up, task, table>>

Crash ==
  /\ up = "up"
  /\ now < Horizon
  /\ up' = "down"
  /\ armed' = {}
  /\ UNCHANGED <<now, task, owed, table, marks>>

\* The start-up of the application does not await: reconcile_stale_runs and
\* scheduler.start here, reconcile_all in StartUp, and nothing in between.
Restart ==
  /\ up = "down"
  /\ up' = "starting"
  /\ armed' = FiresAfter(cron, enabled)
  /\ IF RunIsActive
     THEN /\ run' = NoRun
          /\ lastEnd' = now
          /\ owed' = IF owed.run = "active" THEN [owed EXCEPT !.run = "infra"] ELSE owed
     ELSE UNCHANGED <<run, lastEnd, owed>>
  /\ UNCHANGED <<now, task, paidAt, paidEnd, lastStart, marks>>

StartUp ==
  /\ up = "starting"
  /\ up' = "up"
  /\ ReconcileTask
  /\ UNCHANGED <<now, task, table, armed>>

Clock ==
  /\ up # "starting"
  /\ now < Horizon \/ (owed.status = "retry" /\ owed.retry > now)
  /\ now' = now + 1
  /\ UNCHANGED <<up, task, owed, table, armed, marks>>

Init ==
  /\ now = 0 /\ up = "up"
  /\ cron \in Cron /\ enabled \in BOOLEAN
  /\ baseline = Never /\ epoch = 0
  /\ owed = NoRow
  /\ run = NoRun /\ paidAt = Never /\ paidEnd = Never /\ lastStart = Never /\ lastEnd = Never
  /\ armed = FiresAfter(cron, enabled)
  /\ since = 0 /\ dropped = 0 /\ outpaced = FALSE /\ swallowed = FALSE

Step ==
  \/ Reconcile \/ SettleAll \/ Dispatch \/ ManualRun \/ RunBegins \/ Watchdog
  \/ \E o \in armed : RecordTick(o)
  \/ \E v \in Verdict : Terminal(v) \/ OwnerEnds(v)
  \/ \E c \in Cron, e \in BOOLEAN : EditSchedule(c, e)
  \/ EditOther \/ Crash \/ Restart \/ StartUp \/ Clock

\* A run starts or is dispatched while the ledger is behind the clock or the run
\* table.
Recorded == enabled /\ cron \notin Broken => ~ FoldsOne
Outpaces ==
  /\ run'.state # run.state /\ run'.state # "none"
  /\ ~ Recorded \/ Settled(owed) # owed

\* The watermark moves over an occurrence that coalesces into a blocked row, which
\* keeps no follow-up, although a success has paid that row.
Swallows == owed'.status = "blocked" /\ PaysDebt(owed') /\ baseline' # baseline

Next ==
  /\ Step
  /\ outpaced' = (outpaced \/ Outpaces)
  /\ swallowed' = (swallowed \/ Swallows)

Spec == Init /\ [][Next]_vars

Started == Dispatch /\ run'.owned
Decided == \E v \in {"success", "cancelled", "plain"} : Terminal(v)

\* The clock, the dispatcher loop and the watchdog keep going, and the application
\* is brought up again.  Restarts do not stop the clock; a start that keeps being
\* possible is not always cut short by an error, nor every run interrupted.
FairSpec ==
  /\ Spec
  /\ SF_ledger(Clock) /\ WF_ledger(SettleAll) /\ WF_ledger(Watchdog)
  /\ WF_ledger(Restart) /\ WF_ledger(StartUp)
  /\ SF_ledger(Started) /\ SF_ledger(RunBegins) /\ SF_ledger(Decided)
-----------------------------------------------------------------------------
PaidAt(o) == paidAt # Never /\ paidAt + Early >= o
PaidBy(o) == paidEnd # Never /\ paidEnd + Early >= o

\* The occurrences the ledger has to answer for.
Promised ==
  IF enabled /\ cron \notin Broken THEN {o \in UpTo(cron, baseline) : o > since} ELSE {}

\* The ledger loses nothing: an occurrence the watermark accounts for is owed, or
\* some success ended after it, unless an operator waived it (due.py:3, "a cron
\* occurrence is a debt that survives a busy source").  As long as no run outpaced
\* the bookkeeping, and none went into a blocked row that was already paid.
NothingForgotten ==
  ~ outpaced /\ ~ swallowed => \A o \in Promised : owed.status # "none" \/ PaidBy(o)

\* The stricter promise of _settle_row (due.py:413-414): a success pays only what
\* was owed when it started, and a later occurrence stays promised.
LaterStaysPromised ==
  ~ outpaced /\ ~ swallowed => \A o \in Promised : owed.status # "none" \/ PaidAt(o)

\* The one follow-up is later than the obligation it follows, through folding,
\* payment, failure, merging and restarts.
FollowUpIsNewer == owed.newer # Never => owed.newer > owed.due

\* A row gives up exactly when its retries are spent, whichever of the outcomes,
\* folds, settles and edits touched it on the way (MAX_AUTOMATIC_RETRIES).  Only a
\* row that was blocked for its schedule may have spent them and not show it, so
\* nothing that can still be started has.
ExhaustedIsSpent ==
  LET spent == owed.attempts > MaxRetries
  IN  /\ owed.status = "exhausted" => spent
      /\ spent => owed.status = "exhausted" \/ (cron \in Broken /\ owed.status = "blocked")

\* What is owed is, or follows, an occurrence later than t, a hair before it at most.
AnswersAfter(t) ==
  owed.status # "none" /\ cron \notin Broken =>
    \E o \in Fires[cron] : t < o /\ o <= owed.due + Early

\* "An edit establishes an explicit baseline; it never backfills" (due.py:442):
\* neither an occurrence missed before it, nor a late callback of the old schedule,
\* nor the end of an old run makes the task owe anything the new schedule did not.
EditNeverBackfills == AnswersAfter(epoch)

\* "Dropping the follow-up as well keeps 'cancel' from turning into an instant re-run"
\* (due.py:343-344): what is owed after a cancellation is a later occurrence.
CancelIsNoRerun == AnswersAfter(dropped)

\* No run is started for an obligation that a success has already paid
\* (due.py:402, "A run that succeeded after the occurrence ... pays the debt").
NoNeedlessRun ==
  [][~ outpaced' /\ owed.status # "dispatched" /\ owed'.status = "dispatched"
       => paidAt = Never \/ paidAt < owed'.due]_vars

\* Every obligation is settled: paid, given up or blocked, whatever runs fail, are
\* orphaned or are cut short by crashes on the way.
DebtSettles ==
  owed.status \in {"due", "retry", "dispatched"}
    ~> owed.status \in {"none", "exhausted", "blocked"}
=============================================================================
