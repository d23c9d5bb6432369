------------------------------ MODULE Freshness ------------------------------
(***************************************************************************)
(* Whether the newest successful backup is recent enough for its schedule  *)
(* (services/freshness.py, services/cadence.py), as operators: the         *)
(* projection that the API, the interface and Uptime Kuma are told, and    *)
(* the expiry a push monitor is created with.                              *)
(*                                                                         *)
(* Two functions know the schedule: Fires is what the trigger fires, in    *)
(* the zone of the scheduler, and Nominal what croniter counts in UTC,     *)
(* which knows no daylight saving time.                                    *)
(***************************************************************************)
EXTENDS Integers, Sequences, FiniteSetsExt

CONSTANTS
  Cron, Fires, Nominal,
  Broken,                    \* the expressions that do not parse
  Early,                     \* TICK_EARLY_TOLERANCE
  SlackFloor, SlackCeiling,
  DstMargin,                 \* KUMA_DST_MARGIN_SECONDS
  DefaultCadence

FreshnessAssumption ==
  /\ Broken \subseteq Cron
  /\ Fires \in [Cron -> SUBSET Nat] /\ Nominal \in [Cron -> SUBSET Nat]
  /\ SlackFloor \in Nat \ {0} /\ SlackCeiling \in Nat /\ SlackFloor <= SlackCeiling
  /\ {Early, DstMargin, DefaultCadence} \subseteq Nat

Never == -1

Larger(a, b)  == IF a >= b THEN a ELSE b
Smaller(a, b) == IF a <= b THEN a ELSE b

NextOf(instants, t) ==
  IF \E o \in instants : o > t THEN Min({o \in instants : o > t}) ELSE Never

\* The first occurrence after a time, and the gap between the next two.
NextOccurrence(c, t) == NextOf(Fires[c], t)
CadenceSeconds(c, t) ==
  IF c \in Broken THEN DefaultCadence
  ELSE LET first == NextOf(Nominal[c], t) IN NextOf(Nominal[c], first) - first
-----------------------------------------------------------------------------
\* A tenth of the cycle, clamped; in tenths.
TenSlacks(gap) == Smaller(Larger(gap, 10 * SlackFloor), 10 * SlackCeiling)

\* 1.5 times the longest duration, never more than half a cycle; in halves.
TwoAllowances(gap, durations) ==
  LET samples == {d \in durations : d > 0} IN
  IF samples = {} THEN gap ELSE Smaller(3 * Max(samples), gap)

GraceSeconds(gap, durations) ==
  (TenSlacks(gap) + 5 * TwoAllowances(gap, durations)) \div 10

\* The cadence, the largest grace and a margin.
ExpiryOf(gap) == gap + DstMargin + (TenSlacks(gap) + 5 * gap) \div 10

\* Seeded fault: no margin for a day of 25 hours.
KumaExpirySeconds_NoMargin(c, t) == ExpiryOf(CadenceSeconds(c, t)) - DstMargin

KumaExpirySeconds(c, t) == ExpiryOf(CadenceSeconds(c, t))
-----------------------------------------------------------------------------
(* The projection of a task = [cron, enabled, epoch] and its newest        *)
(* successes = <<[start, end], ...>>, newest first, at a time.             *)

Covers(success) == success.start + Early

\* Seeded fault: a success covers what came before its end.
After_End(task, successes) ==
  IF successes = <<>> THEN task.epoch ELSE Larger(task.epoch, Head(successes).end + Early)

After(task, successes) ==
  IF successes = <<>> THEN task.epoch ELSE Larger(task.epoch, Covers(Head(successes)))

\* Seeded fault: the newest uncovered occurrence, not the earliest.
Owed_Newest(task, successes, now) ==
  LET missed == {o \in Fires[task.cron] : o > After(task, successes) /\ o <= now} IN
  IF missed = {} THEN NextOccurrence(task.cron, After(task, successes)) ELSE Max(missed)

Owed(task, successes, now) == NextOccurrence(task.cron, After(task, successes))

Durations(successes) == {successes[i].end - successes[i].start : i \in DOMAIN successes}

\* The nominal gap is never below the cadence: the repeated hour of a fall-back
\* day must not shrink it.
Deadline(task, successes, now) ==
  LET first     == Owed(task, successes, now)
      following == NextOccurrence(task.cron, first)
      spacing   == IF following = Never THEN 0 ELSE following - first
  IN  first + GraceSeconds(Larger(spacing, CadenceSeconds(task.cron, now)),
                           Durations(successes))

States == {"fresh", "not_yet_due", "delayed", "stale", "disabled"}

Project(task, successes, now) ==
  LET first == Owed(task, successes, now) IN
  IF ~task.enabled THEN "disabled"
  ELSE IF task.cron \in Broken THEN "stale"
  ELSE IF first = Never \/ first > now
    THEN IF successes = <<>> \/ Head(successes).start < task.epoch
         THEN "not_yet_due" ELSE "fresh"
  ELSE IF now <= Deadline(task, successes, now) THEN "delayed"
  ELSE "stale"

\* What Kuma is told; "nothing" leaves the monitor as it is.
KumaStatus(state) ==
  CASE state = "fresh" -> "up" [] state = "stale" -> "down" [] OTHER -> "nothing"
=============================================================================
