---------------------------- MODULE RunLifecycle ----------------------------
(***************************************************************************)
(* The life of a backup run in the application process                     *)
(* (services/runner.py): admission of a row, the execution that takes the  *)
(* destination, a concurrency permit and the source lock in that order,    *)
(* the transfer and its prune, the deadline, operator cancellation, the    *)
(* orphan watchdog, shutdown, crash and the reconciliation at start-up.    *)
(*                                                                         *)
(* The application is one asyncio loop, so everything between two awaits   *)
(* is one step here.  The database row (rowTask, rowState) and the task    *)
(* configuration survive a crash; every other variable is process memory.  *)
(***************************************************************************)
EXTENDS DestKeys, FiniteSets

CONSTANTS
  Task, Source, Dest,
  Run,         \* the run ids a behaviour may use; each is admitted at most once
  NoTask, NoSource, NoDest,
  Limit,       \* settings.max_concurrent_runs
  Prunes,      \* syncoid tasks with prune_keep_hourly
  InitDest, InitSource,  \* the task configurations a behaviour may start from
  Editable,    \* the tasks an operator re-points
  InitTimed    \* whether there is a run timeout, in the same way

ASSUME LifecycleAssumption ==
  /\ Dest \subseteq Seq(STRING)
  /\ NoTask \notin Task /\ NoSource \notin Source /\ NoDest \notin Dest
  /\ IsFiniteSet(Run)
  /\ Limit \in Nat \ {0}
  /\ Prunes \subseteq Task
  /\ Editable \subseteq Task
  /\ InitDest \subseteq [Task -> Dest]
  /\ InitSource \subseteq [Task -> Source]
  /\ InitTimed \subseteq BOOLEAN

VARIABLES
  taskDest, taskSource,   \* Task.local_path as a key, Task.source_id
  timed,                  \* settings.run_timeout_seconds > 0
  rowTask, rowState,      \* the Run table
  phase,                  \* where the execution of a run is
  owners,                 \* _run_owners
  asked,                  \* the runs whose RunOwner.cancel_requested is set
  signalled,              \* a CancelledError is on its way to the execution
  snapDest, snapSource,   \* what _execute_run read before it started waiting
  activeDest,             \* _active_destinations
  free,                   \* _global_sem._value
  locked,                 \* the locked entries of _source_locks
  proc,                   \* the process group of the run
  request,                \* cancel requests: in flight, or the last answer
  up                      \* the process: "up", "stopping" or "down"

config    == <<taskDest, taskSource, timed>>
rows      == <<rowTask, rowState>>
resources == <<snapDest, snapSource, activeDest, free, locked>>
vars == <<config, rows, phase, owners, asked, signalled, resources, proc,
          request, up>>

ActiveState   == {"pending", "running"}
TerminalState == {"success", "failed", "cancelled"}
RowState      == {"none"} \union ActiveState \union TerminalState

\* "none": no execution.  "reapTimeout" and "reapCancel" are the shielded
\* process cleanup after a deadline and after a cancellation.
WaitPhase == {"dest", "permit", "source"}
BodyPhase == {"transfer", "prune"}
ReapPhase == {"reapTimeout", "reapCancel"}
Phase == {"none", "created"} \union WaitPhase \union BodyPhase \union ReapPhase

Working == {r \in Run : phase[r] \in BodyPhase \union ReapPhase}

\* "live", or how the process group ended; "bad" is also one never launched.
Proc   == {"none", "live", "ok", "bad"}
Answer == {"already_finished", "not_owned", "cancelled", "still_running"}

Active == {r \in Run : rowState[r] \in ActiveState}

HoldsPermit(r) == phase[r] \in {"source"} \union BodyPhase \union ReapPhase
HoldsSource(r) == phase[r] \in BodyPhase \union ReapPhase

TypeOK ==
  /\ taskDest \in [Task -> Dest]
  /\ taskSource \in [Task -> Source]
  /\ timed \in BOOLEAN
  /\ rowTask \in [Run -> Task \union {NoTask}]
  /\ rowState \in [Run -> RowState]
  /\ phase \in [Run -> Phase]
  /\ owners \subseteq Run
  /\ asked \subseteq Run
  /\ signalled \subseteq Run
  /\ snapDest \in [Run -> Dest \union {NoDest}]
  /\ snapSource \in [Run -> Source \union {NoSource}]
  /\ activeDest \in [Run -> Dest \union {NoDest}]
  /\ free \in Nat
  /\ locked \subseteq Source
  /\ proc \in [Run -> Proc]
  /\ request \in [Run -> {"none", "waiting"} \union Answer]
  /\ up \in {"up", "stopping", "down"}

\* Every run with the same value.
All(v) == [r \in Run |-> v]

Init ==
  /\ taskDest \in InitDest
  /\ taskSource \in InitSource
  /\ timed \in InitTimed
  /\ rowTask = All(NoTask)
  /\ rowState = All("none")
  /\ phase = All("none") /\ owners = {} /\ signalled = {}
  /\ snapDest = All(NoDest) /\ snapSource = All(NoSource)
  /\ activeDest = All(NoDest) /\ free = Limit /\ locked = {}
  /\ proc = All("none")
  /\ asked = {}
  /\ request = All("none")
  /\ up = "up"
-----------------------------------------------------------------------------
(* Admission.  Each of these runs under _admission_lock without an await.  *)

TaskIdle(t) == \A r \in Active : rowTask[r] # t

\* Seeded fault: a pending run does not count as activity of its source.
SourceIdle_Running(t) ==
  \A r \in Active : rowState[r] = "running" => taskSource[rowTask[r]] # taskSource[t]
SourceIdle(t) == \A r \in Active : taskSource[rowTask[r]] # taskSource[t]

DestIdle(t)   == \A r \in Active : ~ Conflicts(taskDest[t], taskDest[rowTask[r]])

\* The execution is created in the step that commits the row, or, when an
\* error escapes between the two, not at all: the row is left without one.
NewPendingRun(r, t) ==
  /\ up = "up"
  /\ rowState[r] = "none"
  /\ rowTask' = [rowTask EXCEPT ![r] = t]
  /\ rowState' = [rowState EXCEPT ![r] = "pending"]
  /\ \E p \in {"created", "none"} : phase' = [phase EXCEPT ![r] = p]
  /\ UNCHANGED <<config, owners, asked, signalled, resources, proc, request, up>>

\* POST /tasks/{id}/run
AdmitManual(r, t) == TaskIdle(t) /\ SourceIdle(t) /\ NewPendingRun(r, t)

\* The dispatcher's test of a due task: no reason to hold it back.
MayDispatch(t) ==
  /\ TaskIdle(t)
  /\ SourceIdle(t)
  /\ DestIdle(t)
  /\ Cardinality(Active) < Limit

AdmitDue(r, t) == MayDispatch(t) /\ NewPendingRun(r, t)

\* PATCH of a locked field; refused while the task has an active run.
EditTask(t, d, s) ==
  /\ up = "up"
  /\ TaskIdle(t)
  /\ taskDest' = [taskDest EXCEPT ![t] = d]
  /\ taskSource' = [taskSource EXCEPT ![t] = s]
  /\ UNCHANGED <<timed, rows, phase, owners, asked, signalled, resources, proc, request, up>>
-----------------------------------------------------------------------------
(* The execution of run r: execute_run around _execute_run.                *)

\* The three exits of the async with block.
\* Seeded fault: only a run that started to write gives its destination back.
FreeDest_Written(r) ==
  activeDest' = IF HoldsSource(r) THEN [activeDest EXCEPT ![r] = NoDest] ELSE activeDest
FreeDest(r) == activeDest' = [activeDest EXCEPT ![r] = NoDest]

\* Seeded fault: a run cancelled at the source lock keeps its permit.
FreePermit_Started(r) == free' = IF HoldsSource(r) THEN free + 1 ELSE free
FreePermit(r) == free' = IF HoldsPermit(r) THEN free + 1 ELSE free

\* Seeded fault: a killed run keeps its source lock.
FreeSource_Clean(r) ==
  locked' = IF phase[r] \in BodyPhase THEN locked \ {snapSource[r]} ELSE locked
FreeSource(r) == locked' = IF HoldsSource(r) THEN locked \ {snapSource[r]} ELSE locked

\* Everything the unwinding gives back, then the ownership entry and the settled
\* event.
Settle(r) ==
  /\ phase' = [phase EXCEPT ![r] = "none"]
  /\ owners' = owners \ {r}
  /\ signalled' = signalled \ {r}
  /\ snapDest' = [snapDest EXCEPT ![r] = NoDest]
  /\ snapSource' = [snapSource EXCEPT ![r] = NoSource]
  /\ FreeDest(r) /\ FreePermit(r) /\ FreeSource(r)
  /\ proc' = [proc EXCEPT ![r] = "none"]
  /\ UNCHANGED <<config, rowTask, asked, request, up>>

\* Terminalization by the owner.  The commit itself may fail, and the row then
\* stays as it is, with nobody owning it.
Terminalize(r, s) ==
  \/ rowState' = [rowState EXCEPT ![r] = s]
  \/ UNCHANGED rowState

\* Seeded fault: every interruption is recorded as an operator's.
CancelOutcome_Any(r) == "cancelled"
CancelOutcome(r) == IF r \in asked THEN "cancelled" ELSE "failed"

\* First step: ownership is registered, the configuration is validated and the
\* destination key and the source are read, before any wait.
Start(r) ==
  /\ phase[r] = "created"
  /\ r \notin signalled
  /\ phase' = [phase EXCEPT ![r] = "dest"]
  /\ owners' = owners \union {r}
  /\ snapDest' = [snapDest EXCEPT ![r] = taskDest[rowTask[r]]]
  /\ snapSource' = [snapSource EXCEPT ![r] = taskSource[rowTask[r]]]
  /\ UNCHANGED <<config, rows, asked, signalled, activeDest, free, locked, proc,
                 request, up>>

\* The stored task does not pass validate_destination.
Reject(r) ==
  /\ phase[r] = "created"
  /\ r \notin signalled
  /\ Terminalize(r, "failed")
  /\ Settle(r)

\* Seeded fault: exclusion by identity, so a dataset and its descendant overlap.
DestFree_Same(r) == \A h \in Run \ {r} : activeDest[h] # snapDest[r]
DestFree(r) ==
  \A h \in Run \ {r} :
    activeDest[h] # NoDest => ~ Conflicts(snapDest[r], activeDest[h])

GetDest(r) ==
  /\ phase[r] = "dest"
  /\ r \notin signalled
  /\ DestFree(r)
  /\ activeDest' = [activeDest EXCEPT ![r] = snapDest[r]]
  /\ phase' = [phase EXCEPT ![r] = "permit"]
  /\ UNCHANGED <<config, rows, owners, asked, signalled, snapDest, snapSource,
                 free, locked, proc, request, up>>

GetPermit(r) ==
  /\ phase[r] = "permit"
  /\ r \notin signalled
  /\ free > 0
  /\ free' = free - 1
  /\ phase' = [phase EXCEPT ![r] = "source"]
  /\ UNCHANGED <<config, rows, owners, asked, signalled, snapDest, snapSource,
                 activeDest, locked, proc, request, up>>

\* With the source lock the row becomes running and the command is launched;
\* a launch that fails leaves a run with nothing to wait for.
GetSource(r) ==
  /\ phase[r] = "source"
  /\ r \notin signalled
  /\ snapSource[r] \notin locked
  /\ rowState[r] = "pending"
  /\ locked' = locked \union {snapSource[r]}
  /\ rowState' = [rowState EXCEPT ![r] = "running"]
  /\ phase' = [phase EXCEPT ![r] = "transfer"]
  /\ \E p \in {"live", "bad"} : proc' = [proc EXCEPT ![r] = p]
  /\ UNCHANGED <<config, rowTask, owners, asked, signalled, snapDest, snapSource,
                 activeDest, free, request, up>>

\* The commit of the running row fails with the lock in hand: the lock goes back in the
\* same step and the execution ends like a rejected one.
BeginFails(r) ==
  /\ phase[r] = "source"
  /\ r \notin signalled
  /\ snapSource[r] \notin locked
  /\ Terminalize(r, "failed")
  /\ Settle(r)

NeedsPrune(r) == phase[r] = "transfer" /\ proc[r] = "ok" /\ rowTask[r] \in Prunes

StartPrune(r) ==
  /\ NeedsPrune(r)
  /\ r \notin signalled
  /\ phase' = [phase EXCEPT ![r] = "prune"]
  /\ \E p \in {"live", "bad"} : proc' = [proc EXCEPT ![r] = p]
  /\ UNCHANGED <<config, rows, owners, asked, signalled, resources, request, up>>

\* Seeded fault: the prune is not bounded (nor was it in the first version).
UnderDeadline_Transfer(r) == timed /\ phase[r] = "transfer"
UnderDeadline(r) == timed /\ phase[r] \in BodyPhase

\* One deadline covers the transfer and the prune.  Expiring in the same loop
\* iteration as the exit it still wins.
Deadline(r) ==
  /\ UnderDeadline(r)
  /\ r \notin signalled
  /\ phase' = [phase EXCEPT ![r] = "reapTimeout"]
  /\ UNCHANGED <<config, rows, owners, asked, signalled, resources, proc, request, up>>

\* The state the terminal commit gives the row.  A prune that fails is logged
\* and the run stays a success.
Outcome(r) ==
  IF phase[r] = "reapCancel" THEN CancelOutcome(r)
  ELSE IF phase[r] = "prune" \/ (phase[r] = "transfer" /\ proc[r] = "ok")
  THEN "success" ELSE "failed"

\* From the terminal commit to the settled event nothing is awaited.  When the
\* commit raises, the owner terminalizes the row as failed, or cannot.
Finish(r) ==
  /\ r \in Working
  /\ proc[r] # "live"
  /\ ~ NeedsPrune(r)
  /\ r \in signalled => phase[r] \in ReapPhase
  /\ \E s \in {Outcome(r), "failed"} : Terminalize(r, s)
  /\ Settle(r)
-----------------------------------------------------------------------------
(* Delivery of a pending CancelledError at the next await.                 *)

\* The coroutine had not begun: nothing of execute_run ever runs.
CancelUnstarted(r) ==
  /\ phase[r] = "created"
  /\ r \in signalled
  /\ UNCHANGED rowState
  /\ Settle(r)

\* Seeded fault: a run waiting for its destination does not hear the cancellation.
CancelWaiting_Deaf(r) ==
  /\ phase[r] \in {"permit", "source"}
  /\ r \in signalled
  /\ Terminalize(r, CancelOutcome(r))
  /\ Settle(r)

CancelWaiting(r) ==
  /\ phase[r] \in WaitPhase
  /\ r \in signalled
  /\ Terminalize(r, CancelOutcome(r))
  /\ Settle(r)

\* Seeded fault: ownership is dropped before the process group is gone.
CancelBody_Disowns(r) ==
  /\ phase[r] \in BodyPhase
  /\ r \in signalled
  /\ phase' = [phase EXCEPT ![r] = "reapCancel"]
  /\ owners' = owners \ {r}
  /\ signalled' = signalled \ {r}
  /\ UNCHANGED <<config, rows, asked, resources, proc, request, up>>

CancelBody(r) ==
  /\ phase[r] \in BodyPhase
  /\ r \in signalled
  /\ phase' = [phase EXCEPT ![r] = "reapCancel"]
  /\ signalled' = signalled \ {r}
  /\ UNCHANGED <<config, rows, owners, asked, resources, proc, request, up>>

\* _shield_process_cleanup swallows a cancellation that arrives while it kills,
\* and waits on; once the group is gone it returns, cancelled again or not.
CancelShielded(r) ==
  /\ phase[r] \in ReapPhase
  /\ proc[r] = "live"
  /\ r \in signalled
  /\ signalled' = signalled \ {r}
  /\ UNCHANGED <<config, rows, phase, owners, asked, resources, proc, request, up>>

\* Everything the event loop does for the execution of r.
RunStep(r) ==
  \/ Start(r) \/ Reject(r)
  \/ GetDest(r) \/ GetPermit(r) \/ GetSource(r) \/ BeginFails(r)
  \/ StartPrune(r) \/ Deadline(r) \/ Finish(r)
  \/ CancelUnstarted(r) \/ CancelWaiting(r) \/ CancelBody(r) \/ CancelShielded(r)

(* The process group.                                                      *)

ProcExit(r) ==
  /\ phase[r] \in BodyPhase
  /\ proc[r] = "live"
  /\ \E p \in {"ok", "bad"} : proc' = [proc EXCEPT ![r] = p]
  /\ UNCHANGED <<config, rows, phase, owners, asked, signalled, resources, request, up>>

\* SIGTERM, or SIGKILL five seconds later.
Kill(r) ==
  /\ phase[r] \in ReapPhase
  /\ proc[r] = "live"
  /\ proc' = [proc EXCEPT ![r] = "bad"]
  /\ UNCHANGED <<config, rows, phase, owners, asked, signalled, resources, request, up>>
-----------------------------------------------------------------------------
(* cancel_run, in the two steps around its wait.                           *)

CancelRequest(r) ==
  /\ up = "up"
  /\ rowState[r] # "none"
  /\ IF r \in Active /\ r \in owners
     THEN /\ asked' = asked \union {r}
          /\ signalled' = signalled \union {r}
          /\ request' = [request EXCEPT ![r] = "waiting"]
     ELSE /\ request' = [request EXCEPT ![r] =
                           IF r \in Active THEN "not_owned" ELSE "already_finished"]
          /\ UNCHANGED <<asked, signalled>>
  /\ UNCHANGED <<config, rows, phase, owners, resources, proc, up>>

\* Seeded fault: the answer asserts what the request intended.
AnswerFor_Intent(r) == "cancelled"
AnswerFor(r) ==
  IF rowState[r] = "cancelled" THEN "cancelled"
  ELSE IF r \in Active THEN "still_running" ELSE "already_finished"

\* The wait ends when the execution settles or after 30 seconds; the answer is
\* what the row says then.
CancelAnswer(r) ==
  /\ up # "down"
  /\ request[r] = "waiting"
  /\ request' = [request EXCEPT ![r] = AnswerFor(r)]
  /\ UNCHANGED <<config, rows, phase, owners, asked, signalled, resources, proc, up>>
-----------------------------------------------------------------------------
(* Reclaiming, stopping and starting.                                      *)

\* Rows the watchdog may fail: active and unowned.  An execution that was just
\* created has not registered yet; its row is younger than ORPHAN_GRACE_SECONDS.
\* Seeded faults: no grace period; age alone; no look at the state.
Orphans_NoGrace  == Active \ owners
Orphans_ByAge    == {r \in Active : phase[r] # "created"}
Orphans_AnyState == {r \in Run \ owners : rowState[r] # "none" /\ phase[r] # "created"}
Orphans == {r \in Active \ owners : phase[r] # "created"}

\* Those of them that are older than the grace period.
Sweep ==
  /\ up = "up"
  /\ \E late \in SUBSET Orphans \ {{}} :
       rowState' = [r \in Run |-> IF r \in late THEN "failed" ELSE rowState[r]]
  /\ UNCHANGED <<config, rowTask, phase, owners, asked, signalled, resources, proc,
                 request, up>>

\* Scheduler, dispatcher and watchdog are stopped, then every execution is
\* cancelled and awaited.
Shutdown ==
  /\ up = "up"
  /\ up' = "stopping"
  /\ signalled' = signalled \union {r \in Run : phase[r] # "none"}
  /\ UNCHANGED <<config, rows, phase, owners, asked, resources, proc, request>>

ForgetRequests ==
  request' = [r \in Run |-> IF request[r] = "waiting" THEN "none" ELSE request[r]]

Exit ==
  /\ up = "stopping"
  /\ \A r \in Run : phase[r] = "none"
  /\ up' = "down"
  /\ ForgetRequests
  /\ UNCHANGED <<config, rows, phase, owners, asked, signalled, resources, proc>>

\* The process dies with its container, and so do the process groups it runs.
Crash ==
  /\ up # "down"
  /\ up' = "down"
  /\ phase' = All("none") /\ owners' = {} /\ signalled' = {}
  /\ snapDest' = All(NoDest) /\ snapSource' = All(NoSource)
  /\ activeDest' = All(NoDest) /\ free' = Limit /\ locked' = {}
  /\ proc' = All("none")
  /\ ForgetRequests
  /\ UNCHANGED <<config, rows, asked>>

\* reconcile_stale_runs: no active row can belong to this process.
Restart ==
  /\ up = "down"
  /\ up' = "up"
  /\ rowState' = [r \in Run |-> IF r \in Active THEN "failed" ELSE rowState[r]]
  /\ UNCHANGED <<config, rowTask, phase, owners, asked, signalled, resources, proc,
                 request>>

Next ==
  \/ \E r \in Run, t \in Task : AdmitManual(r, t) \/ AdmitDue(r, t)
  \/ \E t \in Editable, d \in Dest, s \in Source : EditTask(t, d, s)
  \/ \E r \in Run : RunStep(r) \/ ProcExit(r) \/ Kill(r)
  \/ \E r \in Run : CancelRequest(r) \/ CancelAnswer(r)
  \/ Sweep \/ Shutdown \/ Exit \/ Crash \/ Restart

Spec == Init /\ [][Next]_vars

\* The loop runs every ready callback, a killed group dies, the watchdog sweeps
\* for ever and the container is restarted.  A process that is not killed may
\* run for ever.
Fairness ==
  /\ \A r \in Run : WF_vars(RunStep(r)) /\ WF_vars(Kill(r)) /\ WF_vars(CancelAnswer(r))
  /\ WF_vars(Sweep) /\ WF_vars(Exit) /\ WF_vars(Restart)

FairSpec == Spec /\ Fairness
-----------------------------------------------------------------------------
(* Safety.                                                                 *)

WritesDest(r) == taskDest[rowTask[r]]

\* Two process groups never write overlapping destinations at the same time,
\* whatever was admitted by hand, edited, cancelled, timed out or restarted in
\* between (_destination_exclusion; README, "Raising it never allows two backups
\* into the same place").
DestinationExclusion ==
  \A r, s \in Run :
    r # s /\ proc[r] = "live" /\ proc[s] = "live"
      => ~ Conflicts(WritesDest(r), WritesDest(s))

\* Every permit of the global semaphore is either free or held by an execution
\* that is past the destination wait: none leaks on a failed, cancelled or
\* rejected run, none is given back twice, and a run waiting for a busy
\* destination holds none.
PermitsConserved == free + Cardinality({r \in Run : HoldsPermit(r)}) = Limit

\* Two active rows share neither a task nor a source, although admission looks
\* at rows and edits may move a task to another source (admit_run,
\* _unsafe_active_changes).
ActiveRowsDisjoint ==
  \A r, s \in Active :
    r # s => /\ rowTask[r] # rowTask[s]
             /\ taskSource[rowTask[r]] # taskSource[rowTask[s]]

\* A run that holds a permit never waits: the source lock it asks for last is
\* always open, so a slot is never occupied by an execution that cannot run.
PermitNeverIdle ==
  \A r \in Run : phase[r] = "source" => snapSource[r] \notin locked

\* Destination claims and source locks belong to executions in flight: an
\* execution that ended, however it ended, left neither behind (the finally
\* blocks; "a leak here would wedge every task sharing that path").
NothingLeaked ==
  /\ \A r \in Run : activeDest[r] # NoDest
                      => HoldsPermit(r) \/ phase[r] = "permit"
  /\ \A s \in locked : \E r \in Run : HoldsSource(r) /\ snapSource[r] = s

\* The row tells the truth about the execution: pending while it waits, running
\* while it works, and never terminal before it has let go.  So the watchdog
\* never failed the row of a live execution, and the RunNotOwnedError of
\* _execute_run is unreachable.
RowFollowsExecution ==
  \A r \in Run :
    /\ phase[r] \in {"created"} \union WaitPhase => rowState[r] = "pending"
    /\ r \in Working => rowState[r] = "running"

\* Whatever may still be copying bytes is in _run_owners, where a cancellation
\* finds it and the watchdog leaves it alone (sweep_orphaned_runs: "there is no
\* state in which a live execution is missing from the map").
LiveIsOwned ==
  \A r \in Run : proc[r] = "live" => r \in owners /\ r \in Active

\* "cancelled" is kept for an operator's decision: a shutdown, a timeout or a
\* failure in the same window never produces it (_cancel_was_requested).
CancelledWasAsked == \A r \in Run : rowState[r] = "cancelled" => r \in asked

\* What a cancel request is told stays true: "cancelled" of a cancelled row,
\* "already_finished" of a terminal one, and in both cases the process group is
\* gone when the operator reads it (CancelOutcome, cancel_run).
AnswerIsTrue ==
  \A r \in Run :
    /\ request[r] = "cancelled" => rowState[r] = "cancelled" /\ proc[r] # "live"
    /\ request[r] = "already_finished"
         => rowState[r] \in TerminalState /\ proc[r] # "live"

\* A terminal row is history: no late execution, sweep, shutdown or restart
\* rewrites it.
HistoryIsFinal ==
  [][\A r \in Run : rowState[r] \in TerminalState => rowState'[r] = rowState[r]]_vars

\* "Not owned" is only said of a run that is not executing: an operator told so
\* can rely on nothing being copied for it (cancel_run never finds a live
\* execution unowned).
NotOwnedIsDead ==
  [][\A r \in Run : request'[r] = "not_owned" /\ request[r] # "not_owned"
                       => proc[r] # "live" /\ phase[r] \in {"none", "created"}]_vars
-----------------------------------------------------------------------------
(* The inductive invariant behind the safety properties.                   *)

Claims(r) == phase[r] = "permit" \/ HoldsPermit(r)

\* How the variables of one run fit together in every phase of its execution.
Shape(r) ==
  /\ r \in owners <=> phase[r] \notin {"none", "created"}
  /\ phase[r] \in {"created"} \union WaitPhase => rowState[r] = "pending"
  /\ r \in Working => rowState[r] = "running"
  /\ rowState[r] # "none" => rowTask[r] \in Task
  /\ r \in owners => /\ snapDest[r] = taskDest[rowTask[r]]
                     /\ snapSource[r] = taskSource[rowTask[r]]
  /\ activeDest[r] = IF Claims(r) THEN snapDest[r] ELSE NoDest
  /\ proc[r] # "none" => r \in Working

ClaimsDisjoint ==
  \A r, s \in Run :
    r # s /\ Claims(r) /\ Claims(s) => ~ Conflicts(snapDest[r], snapDest[s])

LocksHeld ==
  \A s \in Source : s \in locked <=> \E r \in Run : HoldsSource(r) /\ snapSource[r] = s

DownIsIdle == up = "down" => \A r \in Run : phase[r] = "none"

\* Every exit path gives back exactly what the execution took, under one active
\* row per task and source.
IInv ==
  /\ \A r \in Run : Shape(r)
  /\ ActiveRowsDisjoint
  /\ ClaimsDisjoint
  /\ LocksHeld
  /\ DownIsIdle

-----------------------------------------------------------------------------
(* What the documentation says and the code does not do.                   *)

\* runner.py:735-738: a run waiting for a busy destination "cannot occupy a slot that
\* an unrelated backup could be using".  Here: with a permit free, and nobody
\* else on the way to it, a due task whose task, source and destination are idle
\* may be dispatched.
OnlyNeededScopesHold ==
  \A t \in Task :
    /\ TaskIdle(t) /\ SourceIdle(t) /\ DestIdle(t)
    /\ free > 0
    /\ \A r \in Active : phase[r] \in {"dest"} \union BodyPhase \union ReapPhase
    => MayDispatch(t)

(* Liveness.                                                               *)

\* With a run timeout every admitted run becomes terminal, through its execution,
\* the watchdog or a restart (README, "Stuck runs").
EveryRunEnds ==
  \A r \in Run :
    timed /\ rowState[r] \in ActiveState ~> rowState[r] \in TerminalState

\* An operator's cancellation ends the run even where no timeout is configured
\* and whatever the run was waiting for.
CancelEnds ==
  \A r \in Run : (r \in asked /\ r \in owners)
                    ~> (rowState[r] \in TerminalState /\ proc[r] # "live")
-----------------------------------------------------------------------------
(* Refinement of RunService: an execution is working from the moment it    *)
(* holds everything until it has let everything go.                        *)

Service == INSTANCE RunService WITH
  state   <- rowState,
  waiting <- {r \in Run : phase[r] \in {"created"} \union WaitPhase},
  working <- Working,
  into    <- [r \in Run |-> IF r \in Working THEN snapDest[r] ELSE NoDest],
  cancels <- asked

\* The run lifecycle implements the service: in particular no sweep, restart or
\* late cancellation fails a run that is executing, and none starts working
\* while an overlapping one is (runner.py as a whole).
ImplementsService == Service!ServiceSpec
=============================================================================
