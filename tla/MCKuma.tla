------------------------------- MODULE MCKuma -------------------------------
(***************************************************************************)
(* The two sides of the synchronisation with Uptime Kuma, for TLC: how a   *)
(* monitor is configured and what it is told.  They read different parts   *)
(* of the task, so a behaviour follows one of them.                        *)
(***************************************************************************)
EXTENDS Integers, TLC

CONSTANTS
  Monitor, Request, NoMonitor,
  Given,            \* the schedules the requests give the task; those that are not
                    \* among Cron \ Broken do not parse
  Cron,             \* the schedules the monitor is told about
  Fires, Nominal, Broken, Early, SlackFloor, SlackCeiling, DstMargin,
  DefaultCadence, Samples, Edits, Horizon

VARIABLES
  side,             \* what this behaviour follows
  row, job, ticks, lock, req, monitors, failed, pending, tool, unowned, overlapped,
  stranded, now, up, task, successes, run, syncs, swept, outcome, kuma, edits, shown, steady

Config == INSTANCE TaskMonitors WITH Cron <- Given, Broken <- Given \ (Cron \ Broken)
Push   == INSTANCE KumaPush

ASSUME KumaAssumption == Config!MonitorsAssumption /\ Push!PushAssumption

configVars == <<row, job, ticks, lock, req, monitors, failed, pending, tool, unowned,
                overlapped, stranded>>
pushVars   == <<now, up, task, successes, run, syncs, swept, outcome, kuma, edits, shown,
                steady>>
vars == <<side, configVars, pushVars>>

\* The side that rests keeps one of its initial states.
Resting == task = CHOOSE t \in [cron : Cron, enabled : {TRUE}, epoch : {0}] : TRUE

Init ==
  /\ side \in {"config", "push"}
  /\ Config!Init /\ Push!Init
  /\ task.enabled              \* an edit disables it
  /\ side = "config" => Resting

\* Bound: once an edit met an unfinished creation, which nothing is promised about,
\* only a restart is followed.
Follow == Config!Next /\ (overlapped => ~overlapped')

Next ==
  /\ UNCHANGED side
  /\ \/ side = "config" /\ Follow /\ UNCHANGED pushVars
     \/ side = "push" /\ Push!Next /\ UNCHANGED configVars

Spec == Init /\ [][Next]_vars

\* The properties of each side, named and stated in its own module.
TypeOK            == IF side = "config" THEN Config!TypeOK ELSE Push!TypeOK
ScheduleIsCurrent == side = "config" => Config!ScheduleIsCurrent
DriftIsReported   == side = "config" => Config!DriftIsReported
LapseMeansStale   == side = "push" => Push!LapseMeansStale
KumaAgrees        == side = "push" => Push!KumaAgrees
NothingHides      == side = "push" => Push!NothingHides
OnlySuccessRenews == Push!OnlySuccessRenews

\* What the promises about time need of the schedules: a cycle that is the same
\* at every time,
Even ==
  \A c \in Cron \ Broken : \A t \in 0..Horizon :
    Push!CadenceSeconds(c, t) = Push!CadenceSeconds(c, 0)
\* and longer than twice the least slack, and a margin that covers what a change of
\* the clocks moves the next two occurrences by.
Roomy == \A c \in Cron \ Broken : 2 * SlackFloor < Push!CadenceSeconds(c, 0)
MarginCovers ==
  \A c \in Cron \ Broken : \A t \in 0..(Horizon + Early) :
    LET cycle     == Push!CadenceSeconds(c, 0)
        first     == Push!NextOccurrence(c, t)
        following == Push!NextOccurrence(c, first)
    IN  /\ first # Push!Never /\ first + Early <= t + cycle + DstMargin
        /\ following # Push!Never => following + Early <= t + 2 * cycle + DstMargin

\* Two occurrences in a row and a long pause, as of a schedule for some weekdays.
UnevenFires == [weekdays |-> {10, 11, 21, 22, 32, 33}]

Alike == Permutations(Monitor) \cup Permutations(Request)
=============================================================================
