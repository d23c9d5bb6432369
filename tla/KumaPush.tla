------------------------------ MODULE KumaPush ------------------------------
(***************************************************************************)
(* What Uptime Kuma is told about one monitored task                       *)
(* (services/kuma_sync.py, services/notify.py): a sweep every few minutes  *)
(* and a sync at the end of every run and every edit read the projection   *)
(* and then await a push, so several readings may be under way at once.    *)
(* The monitor expires by itself when it hears nothing.                    *)
(*                                                                         *)
(* A unit of time is longer than the interval of the sweep and than the    *)
(* longest push with its retries: a sweep ends in every unit the process   *)
(* sees whole, and no push outlives the unit it began in.                  *)
(***************************************************************************)
EXTENDS Freshness

CONSTANTS
  Samples,      \* DURATION_SAMPLES
  Edits,        \* bound: how often the schedule or the switch is edited
  Horizon       \* bound: the clock stops there

PushAssumption ==
  /\ FreshnessAssumption /\ Samples \in Nat \ {0} /\ {Edits, Horizon} \subseteq Nat
  \* croniter always has another occurrence
  /\ \A c \in Cron \ Broken : \A t \in 0..Horizon : \E a, b \in Nominal[c] : t < a /\ a < b

VARIABLES
  now, up,
  task,         \* cron, enabled, schedule_epoch_at
  successes,    \* its newest successful runs, newest first
  run,          \* when its active run started, or Never
  syncs,        \* what each sync is doing: waiting to read, or pushing a status
  swept,        \* the sweep of this unit is over
  outcome,      \* _outcomes: how the newest sync ended
  kuma,         \* the monitor: its word, since when, its expiry, whether it is active
  edits,
  shown,        \* history: the state of the projection, and
  steady        \* for how many units it was kept by a living process, up to two

backup == <<task, successes, run, edits>>
vars   == <<now, up, backup, syncs, swept, outcome, kuma, shown, steady>>

\* The sweep, and the sync that follows a run or an edit.  A sync is idle, about to
\* read the projection, or pushing the status it read.  Bound: a run ends and an
\* edit is made when the sync of the last one is over.
Syncer == {"sweep", "event"}
Status == {"up", "down"}
Pushing(s) == syncs[s] \in Status
Quiet == \A s \in Syncer : syncs[s] = "idle"

State  == Project(task, successes, now)
Lapsed == kuma.active /\ now - kuma.at > kuma.interval

Init ==
  /\ now = 0 /\ up = TRUE
  /\ task \in [cron : Cron, enabled : BOOLEAN, epoch : {0}]
  /\ successes = <<>> /\ run = Never
  /\ syncs = [s \in Syncer |-> "idle"] /\ swept = FALSE
  /\ outcome = "ok"
  /\ kuma = [word |-> "pending", at |-> 0, active |-> task.enabled,
             interval |-> KumaExpirySeconds(task.cron, 0)]
  /\ edits = 0 /\ shown = State /\ steady = 0
-----------------------------------------------------------------------------
\* sync_task up to its push: read the projection, and end when it says nothing.
Read(s) ==
  LET status == KumaStatus(shown) IN
  IF status # "nothing"
  THEN syncs' = [syncs EXCEPT ![s] = status] /\ UNCHANGED <<outcome, swept>>
  ELSE /\ syncs' = [syncs EXCEPT ![s] = "idle"]
       /\ outcome' = "ok"
       /\ swept' = (swept \/ s = "sweep")

BeginSweep ==
  /\ up /\ ~swept /\ syncs["sweep"] = "idle"
  /\ Read("sweep")
  /\ UNCHANGED <<now, up, backup, kuma>>

BeginSync ==
  /\ syncs["event"] = "waiting"
  /\ Read("event")
  /\ UNCHANGED <<now, up, backup, kuma>>

\* An attempt reaches the monitor but its answer is lost, so it is made again.
Hears(s) == kuma' = [kuma EXCEPT !.word = syncs[s], !.at = now]
AnswerLost(s) ==
  /\ Pushing(s) /\ kuma.active
  /\ Hears(s)
  /\ UNCHANGED <<now, up, backup, syncs, swept, outcome>>

\* Seeded fault: the outcome is recorded as if every push were delivered.
Verdict_Blind(ok) == "ok"
Verdict(ok) == IF ok THEN "ok" ELSE "failed"

\* The push is over: accepted, refused, or at the end of its attempts.
EndPush(s, ok) ==
  /\ Pushing(s)
  /\ IF ok THEN kuma.active /\ Hears(s) ELSE UNCHANGED kuma
  /\ syncs' = [syncs EXCEPT ![s] = "idle"]
  /\ outcome' = Verdict(ok)
  /\ swept' = (swept \/ s = "sweep")
  /\ UNCHANGED <<now, up, backup>>
-----------------------------------------------------------------------------
\* A run of the task, scheduled or by hand.
RunBegins ==
  /\ up /\ run = Never
  /\ run' = now
  /\ UNCHANGED <<now, up, task, successes, edits, syncs, swept, outcome, kuma>>

Newest(n, q) == SubSeq(q, 1, Smaller(n, Len(q)))
RunEnds(ok) ==
  /\ up /\ run # Never /\ syncs["event"] = "idle"
  /\ successes' = IF ok THEN Newest(Samples, <<[start |-> run, end |-> now]>> \o successes)
                  ELSE successes
  /\ run' = Never
  /\ syncs' = [syncs EXCEPT !["event"] = "waiting"]
  /\ UNCHANGED <<now, up, task, edits, swept, outcome, kuma>>

\* update_task.  What its calls to Kuma may do is the business of TaskMonitors:
\* here they succeed at once.  An edited monitor starts to count again.
Edit(c, e) ==
  /\ up /\ edits < Edits /\ syncs["event"] = "idle"
  /\ <<c, e>> # <<task.cron, task.enabled>>
  /\ task' = [cron |-> c, enabled |-> e, epoch |-> now]
  /\ kuma' = [kuma EXCEPT !.interval = KumaExpirySeconds(c, now), !.active = e, !.at = now]
  /\ syncs' = [syncs EXCEPT !["event"] = "waiting"]
  /\ edits' = edits + 1
  /\ UNCHANGED <<now, up, successes, run, swept, outcome>>

Crash ==
  /\ up /\ up' = FALSE
  /\ run' = Never
  /\ syncs' = [s \in Syncer |-> "idle"]
  /\ outcome' = "ok"
  /\ UNCHANGED <<now, task, successes, edits, swept, kuma>>

Restart ==
  /\ ~up /\ up' = TRUE
  /\ swept' = FALSE
  /\ UNCHANGED <<now, backup, syncs, outcome, kuma>>

Clock ==
  /\ now < Horizon
  /\ up => swept /\ Quiet
  /\ now' = now + 1
  /\ swept' = FALSE
  /\ UNCHANGED <<up, backup, syncs, outcome, kuma>>

Step ==
  \/ BeginSweep \/ BeginSync
  \/ \E s \in Syncer : AnswerLost(s) \/ \E ok \in BOOLEAN : EndPush(s, ok)
  \/ RunBegins \/ \E ok \in BOOLEAN : RunEnds(ok)
  \/ \E c \in Cron, e \in BOOLEAN : Edit(c, e)
  \/ Crash \/ Restart \/ Clock

\* The projection reads the task, its successes and the clock.
Next ==
  /\ Step
  /\ shown' = IF UNCHANGED <<task, successes, now>> THEN shown
              ELSE Project(task', successes', now')
  /\ steady' = IF shown' # shown \/ ~up' THEN 0 ELSE Smaller(2, steady + now' - now)

Spec == Init /\ [][Next]_vars
-----------------------------------------------------------------------------
TypeOK ==
  /\ now \in Nat /\ up \in BOOLEAN
  /\ task \in [cron : Cron, enabled : BOOLEAN, epoch : Nat]
  /\ successes \in Seq([start : Nat, end : Nat]) /\ Len(successes) <= Samples
  /\ run \in Nat \cup {Never}
  /\ syncs \in [Syncer -> {"idle", "waiting"} \cup Status]
  /\ swept \in BOOLEAN
  /\ outcome \in {"ok", "failed"}
  /\ kuma \in [word : {"pending"} \cup Status, at : Nat, interval : Nat, active : BOOLEAN]
  /\ edits \in 0..Edits /\ shown \in States /\ steady \in 0..2

\* Even if the process dies, the monitor expires on no task that is not stale, once
\* it has heard of the newest success or of the schedule: its expiry is "never
\* tighter than the projection" (freshness.py, kuma_expiry_seconds), also across a
\* change of the clocks.
HeardOf == successes # <<>> => kuma.at >= Head(successes).end
LapseMeansStale == Lapsed /\ HeardOf => shown = "stale"

\* When the projection has kept its state for a whole unit, the monitor says what it
\* says or the failure is reported, although an older reading may have overtaken a
\* newer one on its way.
KumaAgrees ==
  steady = 2 /\ outcome # "failed" =>
    /\ shown = "fresh" => kuma.word = "up" /\ ~Lapsed
    /\ shown = "stale" => kuma.word = "down"

\* An occurrence that no success has covered is stale before another cycle is over
\* (freshness.py:23-24, "a missed daily or weekly obligation cannot hide").
NothingHides ==
  task.enabled /\ task.cron \notin Broken =>
    \A o \in Fires[task.cron] :
      LET gap == Larger(NextOccurrence(task.cron, o) - o, CadenceSeconds(task.cron, o)) IN
      /\ o \in (task.epoch + 1)..now
      /\ \A i \in DOMAIN successes : successes[i].start + Early < o
      /\ now >= o + gap
      => shown = "stale"

\* An owed backup only gets later: neither time nor an attempt renews it, only a
\* success or an edit does (freshness.py:25-27).
Lateness(state) == CASE state = "delayed" -> 1 [] state = "stale" -> 2 [] OTHER -> 0
OnlySuccessRenews ==
  [][UNCHANGED <<task, successes>> => Lateness(shown') >= Lateness(shown)]_vars
=============================================================================
