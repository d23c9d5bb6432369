---------------------------- MODULE TaskMonitors ----------------------------
(***************************************************************************)
(* One task between its row, its cron job and its monitor at Uptime Kuma   *)
(* (api/tasks.py, services/scheduler.py, services/kuma_sync.py,            *)
(* tools/kuma_reconcile.py).  Updates and deletions hold the lifecycle     *)
(* lock across their calls to Kuma; create_task does not.  A call may be   *)
(* refused, and may have had its effect although it failed.  What a        *)
(* refused call still owes is kept in the memory of the process.           *)
(*                                                                         *)
(* A monitor's interval is a function of the cron expression and stands    *)
(* for it here.                                                            *)
(***************************************************************************)
EXTENDS FiniteSets, Integers

CONSTANTS
  Cron,
  Broken,           \* the persisted schedules that do not parse
  Monitor,          \* ids Kuma gives to monitors; a bound on how many exist
  Request,          \* concurrent requests to the task API
  NoMonitor

VARIABLES
  row,              \* the task's row, or NoRow
  job,              \* the cron of the registered job, or NoJob
  ticks,            \* the callback that fired and waits for the lifecycle lock, if any
  lock,             \* the request that holds the lifecycle lock, or Free
  req,              \* what each request is waiting for, and its view of the row
  monitors,         \* Kuma's side: what every monitor is configured to
  failed,           \* a configuration failure is reported (_sync_failures)
  pending,          \* the operations that are still owed (_pending_ops)
  tool,             \* the change the reconciliation tool has planned
  unowned,          \* history: the interval is wrong and no process remembers why
  overlapped,       \* history: an edit or deletion met an unfinished creation
  stranded          \* history: a request failed between its commit and its job

MonitorsAssumption ==
  NoMonitor \notin Monitor /\ "none" \notin Cron /\ "free" \notin Request

vars == <<row, job, ticks, lock, req, monitors, failed, pending, tool, unowned, overlapped,
          stranded>>

NoRow == [cron |-> "none", enabled |-> FALSE, kuma |-> FALSE, monitor |-> NoMonitor]
NoJob == "none"
Free  == "free"
Idle  == [at |-> "idle"]
Gone  == [cron |-> "none", active |-> FALSE]     \* no such monitor at Kuma
NoPlan == [monitor |-> NoMonitor, cron |-> "none"]

Fields == [cron : Cron, enabled : BOOLEAN, kuma : BOOLEAN]
Row    == [cron : Cron, enabled : BOOLEAN, kuma : BOOLEAN, monitor : Monitor \cup {NoMonitor}]
Op     == {"interval", "active"}
Call   == {"create", "ops", "delete", "drop", "push"}

Exists == row # NoRow
With(r, f) == [r EXCEPT !.cron = f.cron, !.enabled = f.enabled, !.kuma = f.kuma]

Init ==
  /\ row = NoRow /\ job = NoJob /\ ticks = {}
  /\ lock = Free /\ req = [r \in Request |-> Idle]
  /\ monitors = [m \in Monitor |-> Gone]
  /\ failed = FALSE /\ pending = {}
  /\ tool = NoPlan
  /\ unowned = FALSE /\ overlapped = FALSE /\ stranded = FALSE
-----------------------------------------------------------------------------
\* The job a row asks for: none if it is disabled, or if its schedule does not parse,
\* which upsert_job only logs.
JobOf(r) == IF r.enabled /\ r.cron \notin Broken THEN r.cron ELSE NoJob

\* Seeded fault: the new job has the generation of the old one.
Register_Live(j) == job' = j /\ stranded' = FALSE /\ UNCHANGED ticks

\* upsert_job and remove_job: every callback of the old job is dead from now on.
Register(j) ==
  /\ job' = j
  /\ ticks' = {[t EXCEPT !.live = FALSE] : t \in ticks}
  /\ stranded' = FALSE
KeepJob == UNCHANGED <<job, ticks, stranded>>

\* Seeded fault: the lifecycle lock is not given back.
Return_Keeps(r, view) ==
  /\ req' = [req EXCEPT ![r] = Idle]
  /\ UNCHANGED lock
  /\ Register(JobOf(view))

\* A request returns with the job of the row as it last saw it.
Return(r, view) ==
  /\ req' = [req EXCEPT ![r] = Idle]
  /\ lock' = IF lock = r THEN Free ELSE lock
  /\ Register(JobOf(view))

Await(r, what, view, ops) ==
  /\ req' = [req EXCEPT ![r] = [at |-> what, view |-> view, ops |-> ops]]
  /\ KeepJob

\* The end of _sync_kuma when nothing failed: push the projection to a monitored
\* task, which is one more wait, and return.
PushAndReturn(r, view) ==
  IF view.kuma /\ view.monitor # NoMonitor
  THEN Await(r, "push", view, {}) /\ UNCHANGED lock
  ELSE Return(r, view)

Cleared  == failed' = FALSE /\ pending' = {}
Recorded(owed) == failed' = TRUE /\ pending' = owed
KeepDebt == UNCHANGED <<failed, pending>>
-----------------------------------------------------------------------------
\* create_task
Create(r, f) ==
  LET view == With(NoRow, f) IN
  /\ req[r].at = "idle" /\ ~Exists
  /\ row' = view
  /\ IF f.kuma THEN Await(r, "create", view, {}) /\ UNCHANGED lock ELSE Return(r, view)
  /\ UNCHANGED <<monitors, failed, pending, tool, overlapped>>

Creating == \E r \in Request : req[r].at # "idle" /\ lock # r

\* The operations an update owes Kuma: its own and those a refusal left behind.
Owed(old, new) ==
  pending \cup (IF new.cron # old.cron \/ new.enabled # old.enabled THEN {"interval"} ELSE {})
          \cup (IF new.enabled # old.enabled THEN {"active"} ELSE {})

\* update_task up to its first wait.
Update(r, f) ==
  LET view == With(row, f)
      ops  == Owed(row, view)
  IN
  /\ req[r].at = "idle" /\ lock = Free /\ Exists
  /\ row' = view
  /\ IF view.kuma /\ view.monitor = NoMonitor
       THEN Await(r, "create", view, {}) /\ lock' = r
     ELSE IF view.kuma /\ ops # {}
       THEN Await(r, "ops", view, ops) /\ lock' = r
     ELSE IF ~view.kuma /\ view.monitor # NoMonitor
       THEN Await(r, "delete", view, {}) /\ lock' = r
     ELSE IF view.kuma
       THEN Await(r, "push", view, {}) /\ lock' = r
     ELSE Return(r, view)
  /\ overlapped' = (overlapped \/ Creating)
  /\ UNCHANGED <<monitors, failed, pending, tool>>

\* delete_task; a task without a monitor goes at once.
Forget ==
  /\ row' = NoRow
  /\ Register(NoJob)
Delete(r) ==
  /\ req[r].at = "idle" /\ lock = Free /\ Exists
  /\ IF row.monitor # NoMonitor
     THEN Await(r, "drop", row, {}) /\ lock' = r /\ UNCHANGED row
     ELSE Forget /\ UNCHANGED <<req, lock>>
  /\ overlapped' = (overlapped \/ Creating)
  /\ UNCHANGED <<monitors, failed, pending, tool>>
-----------------------------------------------------------------------------
(* What Kuma answers.                                                      *)

\* create_push_monitor: add and editMonitor.  A monitor is born active.
Born(cron) == [cron |-> cron, active |-> TRUE]

\* The monitor is linked by a write to its two columns, and the row is read again.
CreateDone(r, m) ==
  /\ req[r].at = "create" /\ monitors[m] = Gone
  /\ monitors' = [monitors EXCEPT ![m] = Born(req[r].view.cron)]
  /\ IF Exists
     THEN row' = [row EXCEPT !.monitor = m] /\ Cleared /\ PushAndReturn(r, row')
     ELSE \* the write finds no row: the request fails, the monitor stays behind
          /\ req' = [req EXCEPT ![r] = Idle]
          /\ lock' = IF lock = r THEN Free ELSE lock
          /\ KeepJob /\ KeepDebt /\ UNCHANGED row
  /\ UNCHANGED <<tool, overlapped>>

\* It failed, perhaps after the monitor had been added.
CreateFails(r) ==
  /\ req[r].at = "create"
  /\ \/ UNCHANGED monitors
     \/ \E m \in Monitor : monitors[m] = Gone
          /\ monitors' = [monitors EXCEPT ![m] = Born(req[r].view.cron)]
  /\ Recorded({})
  /\ Return(r, req[r].view)
  /\ UNCHANGED <<row, tool, overlapped>>

NextOp(ops) == IF "interval" \in ops THEN "interval" ELSE "active"
Applied(op, view) ==
  monitors' = [monitors EXCEPT ![view.monitor] =
    IF op = "interval" THEN [@ EXCEPT !.cron = view.cron] ELSE [@ EXCEPT !.active = view.enabled]]

\* One of the owed operations succeeds, and the next one is awaited.
OpDone(r) ==
  LET view == req[r].view
      op   == NextOp(req[r].ops)
      rest == req[r].ops \ {op}
  IN
  /\ req[r].at = "ops" /\ monitors[view.monitor] # Gone
  /\ Applied(op, view)
  /\ IF rest # {} THEN Await(r, "ops", view, rest) /\ KeepDebt /\ UNCHANGED lock
     ELSE Cleared /\ PushAndReturn(r, view)
  /\ UNCHANGED <<row, tool, overlapped>>

\* It is refused, or its answer is lost: it stays owed with those behind it.
OpFails(r) ==
  LET view == req[r].view IN
  /\ req[r].at = "ops"
  /\ \/ UNCHANGED monitors
     \/ monitors[view.monitor] # Gone /\ Applied(NextOp(req[r].ops), view)
  /\ Recorded(req[r].ops)
  /\ Return(r, view)
  /\ UNCHANGED <<row, tool, overlapped>>

\* The monitor of a task that is no longer monitored.
DeleteDone(r) ==
  /\ req[r].at = "delete"
  /\ monitors' = [monitors EXCEPT ![req[r].view.monitor] = Gone]
  /\ row' = [row EXCEPT !.monitor = NoMonitor]
  /\ Cleared
  /\ PushAndReturn(r, row')
  /\ UNCHANGED <<tool, overlapped>>

\* Seeded fault: the refusal is logged and nothing more.
DeleteFails_Quiet(r) ==
  /\ req[r].at = "delete"
  /\ monitors' \in {monitors, [monitors EXCEPT ![req[r].view.monitor] = Gone]}
  /\ Cleared
  /\ Return(r, req[r].view)
  /\ UNCHANGED <<row, tool, overlapped>>

\* It failed, perhaps after the monitor was gone; it is not retried by itself.
DeleteFails(r) ==
  /\ req[r].at = "delete"
  /\ monitors' \in {monitors, [monitors EXCEPT ![req[r].view.monitor] = Gone]}
  /\ Recorded({})
  /\ Return(r, req[r].view)
  /\ UNCHANGED <<row, tool, overlapped>>

\* The monitor of a task that is deleted; a refusal is only logged.
DropEnds(r) ==
  /\ req[r].at = "drop"
  /\ monitors' \in {monitors, [monitors EXCEPT ![req[r].view.monitor] = Gone]}
  /\ Forget
  /\ req' = [req EXCEPT ![r] = Idle]
  /\ lock' = Free
  /\ UNCHANGED <<failed, pending, tool, overlapped>>

PushEnds(r) ==
  /\ req[r].at = "push"
  /\ Return(r, req[r].view)
  /\ UNCHANGED <<row, monitors, failed, pending, tool, overlapped>>

\* sync_task raises, which nothing around it catches: the request fails with its row
\* committed and the job it found.
PushFails(r) ==
  /\ req[r].at = "push"
  /\ req' = [req EXCEPT ![r] = Idle]
  /\ lock' = IF lock = r THEN Free ELSE lock
  /\ stranded' = TRUE
  /\ UNCHANGED <<row, job, ticks, monitors, failed, pending, tool, overlapped>>
-----------------------------------------------------------------------------
\* The scheduler calls back; the callback carries the generation of its job.  One
\* callback of a task exists at a time (max_instances), also across its jobs.
Fire ==
  /\ job # NoJob /\ ticks = {}
  /\ ticks' = {[cron |-> job, live |-> TRUE]}
  /\ UNCHANGED <<row, job, lock, req, monitors, failed, pending, tool, overlapped, stranded>>

\* The callback gets the lock; its effect on the ledger is DueWork's business.
Callback(t) ==
  /\ t \in ticks /\ lock = Free
  /\ ticks' = ticks \ {t}
  /\ UNCHANGED <<row, job, lock, req, monitors, failed, pending, tool, overlapped, stranded>>

\* The reconciliation tool, a process of its own: it compares, and later changes
\* what it planned.
Plan ==
  /\ tool = NoPlan
  /\ Exists /\ row.kuma /\ row.monitor # NoMonitor
  /\ monitors[row.monitor] # Gone /\ monitors[row.monitor].cron # row.cron
  /\ tool' = [monitor |-> row.monitor, cron |-> row.cron]
  /\ UNCHANGED <<row, job, ticks, lock, req, monitors, failed, pending, overlapped, stranded>>

Apply ==
  /\ tool # NoPlan
  /\ \/ UNCHANGED monitors
     \/ /\ monitors[tool.monitor] # Gone
        /\ monitors' = [monitors EXCEPT ![tool.monitor].cron = tool.cron]
  /\ tool' = NoPlan
  /\ UNCHANGED <<row, job, ticks, lock, req, failed, pending, overlapped, stranded>>

\* The process ends anywhere and starts again with the jobs of its rows.
Restart ==
  /\ req' = [r \in Request |-> Idle] /\ lock' = Free
  /\ job' = JobOf(row) /\ ticks' = {}
  /\ failed' = FALSE /\ pending' = {} /\ overlapped' = FALSE /\ stranded' = FALSE
  /\ UNCHANGED <<row, monitors, tool>>

\* The linked monitor does not have the interval of the task's schedule.
Wrong ==
  /\ row.monitor # NoMonitor
  /\ monitors[row.monitor] # Gone => monitors[row.monitor].cron # row.cron

Serve(r) ==
  \/ \E f \in Fields : Create(r, f) \/ Update(r, f)
  \/ Delete(r)
  \/ (\E m \in Monitor : CreateDone(r, m)) \/ CreateFails(r)
  \/ OpDone(r) \/ OpFails(r) \/ DeleteDone(r) \/ DeleteFails(r)
  \/ DropEnds(r) \/ PushEnds(r) \/ PushFails(r)

Next ==
  \/ /\ Fire \/ Plan \/ (\E t \in ticks : Callback(t)) \/ \E r \in Request : Serve(r)
     /\ unowned' = (unowned /\ Wrong')
  \/ /\ Apply \/ Restart
     /\ unowned' = Wrong'

Spec == Init /\ [][Next]_vars
-----------------------------------------------------------------------------
TypeOK ==
  /\ row \in Row \cup {NoRow}
  /\ job \in Cron \cup {NoJob}
  /\ ticks \subseteq [cron : Cron, live : BOOLEAN]
  /\ lock \in Request \cup {Free}
  /\ req \in [Request -> {Idle} \cup [at : Call, view : Row, ops : SUBSET Op]]
  /\ lock # Free => req[lock].at # "idle"
  /\ monitors \in [Monitor -> {Gone} \cup [cron : Cron, active : BOOLEAN]]
  /\ failed \in BOOLEAN /\ pending \subseteq Op
  /\ unowned \in BOOLEAN /\ overlapped \in BOOLEAN /\ stranded \in BOOLEAN
  /\ tool \in {NoPlan} \cup [monitor : Monitor, cron : Cron]

Quiet == lock = Free /\ ~Creating

\* Between requests the registered job is the one the row asks for, and a callback
\* that still counts was fired by it: no occurrence of a replaced or removed
\* schedule is ever recorded, unless an edit met an unfinished creation, or a request
\* failed between its commit and its job and none has returned since.
ScheduleIsCurrent ==
  Quiet /\ ~overlapped /\ ~stranded =>
    /\ job = JobOf(row)
    /\ \A t \in ticks : t.live => t.cron = JobOf(row)

\* A monitor with an interval that is not its task's is reported as a failure until
\* it is repaired, as long as the process that failed lives and the tool did not
\* apply a plan that an edit had overtaken.
DriftIsReported ==
  Quiet /\ ~overlapped /\ row.kuma /\ Wrong => failed \/ unowned

=============================================================================
