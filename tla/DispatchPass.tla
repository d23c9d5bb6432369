---------------------------- MODULE DispatchPass ----------------------------
(***************************************************************************)
(* The order in which several obligations become runs                      *)
(* (services/dispatcher.py, dispatch_due).  A pass settles the ledger and  *)
(* walks its rows oldest first; a row that cannot start keeps its scopes   *)
(* against the younger ones for the rest of the pass.                      *)
(*                                                                         *)
(* A pass does not await, so nothing else happens between StartPass and    *)
(* its end; it is one step per row here, which is what its invariants and  *)
(* an error in its middle need.  What becomes of one obligation over time  *)
(* is the business of DueWork; here its row is reduced to what a pass      *)
(* looks at.                                                               *)
(***************************************************************************)
EXTENDS DestKeys, SequencesExt

CONSTANTS
  Task, Source, Dest,
  SourceOf, DestOf,   \* the configuration, which no action edits
  Unusable,           \* the tasks whose destination has no key
  Manual,             \* the tasks an operator runs by hand
  Limit, MaxRetries,
  LateFolds,          \* an occurrence may be folded behind a younger one
  Errors              \* a pass may be cut short by an exception

ASSUME PassAssumption ==
  /\ Dest \subseteq Seq(STRING)
  /\ IsFiniteSet(Task)
  /\ SourceOf \in [Task -> Source]
  /\ DestOf \in [Task -> Dest]
  /\ Unusable \subseteq Task /\ Manual \subseteq Task
  /\ Limit \in Nat \ {0} /\ MaxRetries \in Nat
  /\ LateFolds \in BOOLEAN /\ Errors \in BOOLEAN

VARIABLES
  queue,     \* due_at and newer_due_at of all rows, in order of time
  status,    \* TaskDue.status; "due" is also a retry whose time has come
  attempts,
  run,       \* the active run of a task: "none", "owned", or "orphan"
  linked,    \* the tasks whose row is dispatched to that run
  at,        \* the row of queue the pass looks at; 0 when there is no pass
  refused,   \* the tasks it refused; their scopes are the claimed ones
  started    \* the rows it started

pass == <<at, refused, started>>
vars == <<queue, status, attempts, run, linked, pass>>

Status == {"none", "due", "retry", "dispatched", "exhausted", "blocked"}
Entry  == Task \X {"due", "newer"}

Active     == {t \in Task : run[t] # "none"}
Entries(t) == {e \in Range(queue) : e[1] = t}

\* The row at a place in the order, and the tasks of the rows started.
RowAt(i, t) == queue[i] = <<t, "due">>
Started     == {queue[i][1] : i \in started}

TypeOK ==
  /\ queue \in Seq(Entry) /\ IsInjective(queue)
  /\ status \in [Task -> Status]
  /\ attempts \in [Task -> 0..(MaxRetries + 1)]
  /\ run \in [Task -> {"none", "owned", "orphan"}]
  /\ linked \subseteq Active
  /\ at \in Nat /\ refused \subseteq Task /\ started \subseteq 1..at
  /\ \A t \in Task :
       /\ status[t] = "none" <=> <<t, "due">> \notin Range(queue)
       /\ status[t] = "none" => <<t, "newer">> \notin Range(queue)
       /\ status[t] = "dispatched" <=> t \in linked

Init ==
  /\ queue = <<>>
  /\ status = [t \in Task |-> "none"]
  /\ attempts = [t \in Task |-> 0]
  /\ run = [t \in Task |-> "none"]
  /\ linked = {}
  /\ at = 0 /\ refused = {} /\ started = {}
-----------------------------------------------------------------------------
(* The ledger, between passes.                                             *)

\* The rows of q that are not in E, in their order.
Without(q, E) ==
  LET kept[i \in 0..Len(q)] == IF i = 0 THEN <<>>
                               ELSE IF q[i] \in E THEN kept[i - 1]
                               ELSE Append(kept[i - 1], q[i])
  IN  kept[Len(q)]

\* Seeded fault: the follow-up of a paid obligation stays a follow-up.
Promote_Stays(t, q) == q

\* The follow-up of a paid obligation becomes the obligation, at its own time.
Promote(t, q) ==
  [i \in DOMAIN q |-> IF q[i] = <<t, "newer">> THEN <<t, "due">> ELSE q[i]]

Insert(e) ==
  \/ queue' = Append(queue, e)
  \/ /\ LateFolds
     /\ \E i \in 1..Len(queue) :
          /\ \A j \in i..Len(queue) : queue[j][1] # e[1]
          /\ queue' = InsertAt(queue, i, e)

\* A new occurrence of the schedule: a row, a follow-up, a new lease of life, or
\* nothing where the obligation covers it already.
Occurrence(t) ==
  /\ at = 0
  /\ \/ /\ status[t] = "none"
        /\ Insert(<<t, "due">>)
        /\ status' = [status EXCEPT ![t] = "due"]
        /\ UNCHANGED attempts
     \/ /\ status[t] \notin {"none", "blocked"}
        /\ t \in Active
        /\ <<t, "newer">> \notin Range(queue)
        /\ Insert(<<t, "newer">>)
        /\ UNCHANGED <<status, attempts>>
     \/ /\ status[t] = "exhausted"
        /\ t \notin Active
        /\ status' = [status EXCEPT ![t] = "due"]
        /\ attempts' = [attempts EXCEPT ![t] = 0]
        /\ UNCHANGED queue
  /\ UNCHANGED <<run, linked, pass>>

\* retry_at is reached.
RetryDue(t) ==
  /\ at = 0
  /\ status[t] = "retry"
  /\ status' = [status EXCEPT ![t] = "due"]
  /\ UNCHANGED <<queue, attempts, run, linked, pass>>

\* An edit that leaves the schedule alone gives the row a new chance.
Edited(t) ==
  /\ at = 0
  /\ status[t] \in {"blocked", "exhausted"}
  /\ status' = [status EXCEPT ![t] = "due"]
  /\ attempts' = [attempts EXCEPT ![t] = 0]
  /\ UNCHANGED <<queue, run, linked, pass>>

\* The obligation of t is paid, and its follow-up too where the run that paid it
\* began after it.
Paid(t) ==
  \/ /\ queue' = Without(queue, Entries(t))
     /\ status' = [status EXCEPT ![t] = "none"]
     /\ attempts' = [attempts EXCEPT ![t] = 0]
  \/ /\ <<t, "newer">> \in Range(queue)
     /\ queue' = Promote(t, Without(queue, {<<t, "due">>}))
     /\ status' = [status EXCEPT ![t] = "due"]
     /\ attempts' = [attempts EXCEPT ![t] = 0]

Failed(t) ==
  /\ attempts' = [attempts EXCEPT ![t] = @ + 1]
  /\ status' = [status EXCEPT ![t] =
                  IF attempts'[t] > MaxRetries THEN "exhausted" ELSE "retry"]
  /\ UNCHANGED queue

\* The dispatched run of t ends: apply_run_outcome, in its transaction or in the
\* settling of a later pass.
DispatchedEnds(t, v) ==
  /\ at = 0
  /\ run[t] = "owned" /\ t \in linked
  /\ run' = [run EXCEPT ![t] = "none"]
  /\ linked' = linked \ {t}
  /\ CASE v = "success" -> Paid(t)
       [] v = "failed" -> Failed(t)
       [] v = "cancelled" ->
            /\ queue' = Without(queue, Entries(t))
            /\ status' = [status EXCEPT ![t] = "none"]
            /\ attempts' = [attempts EXCEPT ![t] = 0]
       [] v = "permanent" ->
            status' = [status EXCEPT ![t] = "blocked"] /\ UNCHANGED <<queue, attempts>>
       [] v = "infra" ->
            status' = [status EXCEPT ![t] = "due"] /\ UNCHANGED <<queue, attempts>>
  /\ UNCHANGED pass

\* A run the ledger did not start ends.  A success pays what was owed when it
\* began, which may be nothing.
ManualEnds(t, v) ==
  /\ at = 0
  /\ run[t] = "owned" /\ t \notin linked
  /\ run' = [run EXCEPT ![t] = "none"]
  /\ \/ UNCHANGED <<queue, status, attempts>>
     \/ v = "success" /\ status[t] \in {"due", "retry", "exhausted"} /\ Paid(t)
  /\ UNCHANGED <<linked, pass>>

Verdict == {"success", "failed", "cancelled", "permanent", "infra"}
RunEnds(t, v) == DispatchedEnds(t, v) \/ ManualEnds(t, v)

\* The watchdog fails a run that nothing executes.
Watchdog(t) ==
  /\ at = 0
  /\ run[t] = "orphan"
  /\ run' = [run EXCEPT ![t] = "none"]
  /\ linked' = linked \ {t}
  /\ status' = IF t \in linked THEN [status EXCEPT ![t] = "due"] ELSE status
  /\ UNCHANGED <<queue, attempts, pass>>

\* POST /tasks/{id}/run: refused for a busy task or source, not for a destination,
\* the limit or anybody's turn.
ManualRun(t) ==
  /\ at = 0
  /\ t \in Manual
  /\ \A u \in Active : SourceOf[u] # SourceOf[t]
  /\ run' = [run EXCEPT ![t] = "owned"]
  /\ UNCHANGED <<queue, status, attempts, linked, pass>>
-----------------------------------------------------------------------------
(* The pass.                                                               *)

\* _settle_row: a follow-up whose run ended without paying is merged into the
\* obligation.
Merged == {t \in Task : /\ status[t] \in {"due", "retry", "exhausted"}
                        /\ t \notin Active
                        /\ <<t, "newer">> \in Range(queue)}

StartPass ==
  /\ at = 0
  /\ queue' = Without(queue, {<<t, "newer">> : t \in Merged})
  /\ status' = [t \in Task |-> IF t \in Merged /\ status[t] = "exhausted"
                               THEN "due" ELSE status[t]]
  /\ attempts' = [t \in Task |-> IF t \in Merged /\ status[t] = "exhausted"
                                 THEN 0 ELSE attempts[t]]
  /\ at' = 1 /\ refused' = {} /\ started' = {}
  /\ UNCHANGED <<run, linked>>

SameDest(t, u) ==
  t \notin Unusable /\ u \notin Unusable /\ Conflicts(DestOf[t], DestOf[u])

SharesScope(t, u) == SourceOf[t] = SourceOf[u] \/ SameDest(t, u)

\* Seeded faults: a refused row claims nothing; the runs of this pass do not count
\* as active; a refused row claims everything.
Reason_NoClaim(t) ==
  \/ \E u \in Active : SharesScope(t, u)
  \/ Cardinality(Active) >= Limit
Reason_Running(t) ==
  \/ t \in Active
  \/ \E u \in Active : u \notin Started /\ SharesScope(t, u)
  \/ \E u \in refused : SharesScope(t, u)
  \/ Cardinality(Active) >= Limit
Reason_Siblings(t) ==
  \/ \E u \in Active \union refused : SharesScope(t, u)
  \/ refused # {}
  \/ Cardinality(Active) >= Limit

\* Why a row cannot start now: its task, its source or its destination is busy or
\* claimed by an older row, or there is no capacity.
Reason(t) ==
  \/ \E u \in Active \union refused : SharesScope(t, u)
  \/ Cardinality(Active) >= Limit

Startable(t) == status[t] = "due"

InPass == at > 0 /\ at <= Len(queue)

Looks(t) == InPass /\ RowAt(at, t) /\ Startable(t)

Refuse(t) ==
  /\ Looks(t)
  /\ Reason(t)
  /\ refused' = refused \union {t}
  /\ at' = at + 1
  /\ UNCHANGED <<queue, status, attempts, run, linked, started>>

Dispatch(t) ==
  /\ Looks(t)
  /\ ~ Reason(t)
  /\ run' = [run EXCEPT ![t] = "owned"]
  /\ linked' = linked \union {t}
  /\ status' = [status EXCEPT ![t] = "dispatched"]
  /\ started' = started \union {at}
  /\ at' = at + 1
  /\ UNCHANGED <<queue, attempts, refused>>

\* A follow-up is not a row of its own, and a row that is not startable is passed
\* over without a claim.
Skip ==
  /\ InPass
  /\ queue[at][2] = "newer" \/ ~ Startable(queue[at][1])
  /\ at' = at + 1
  /\ UNCHANGED <<queue, status, attempts, run, linked, refused, started>>

EndPass ==
  /\ at = Len(queue) + 1
  /\ at' = 0 /\ refused' = {} /\ started' = {}
  /\ UNCHANGED <<queue, status, attempts, run, linked>>

\* An exception ends the pass before its executions were created: the pending
\* rows it committed have none, and the last of them may not be linked.
Abort ==
  /\ Errors
  /\ at > 0
  /\ run' = [t \in Task |-> IF t \in Started THEN "orphan" ELSE run[t]]
  /\ \/ UNCHANGED <<linked, status>>
     \/ \E i \in started :
          /\ \A j \in started : j <= i
          /\ linked' = linked \ {queue[i][1]}
          /\ status' = [status EXCEPT ![queue[i][1]] = "due"]
  /\ at' = 0 /\ refused' = {} /\ started' = {}
  /\ UNCHANGED <<queue, attempts>>

PassStep == Skip \/ EndPass \/ \E t \in Task : Refuse(t) \/ Dispatch(t)

Next ==
  \/ \E t \in Task : \/ Occurrence(t) \/ RetryDue(t) \/ Edited(t)
                     \/ Watchdog(t) \/ ManualRun(t)
  \/ \E t \in Task, v \in Verdict : RunEnds(t, v)
  \/ StartPass \/ PassStep \/ Abort

Spec == Init /\ [][Next]_vars

\* The loop passes for ever, and a task whose runs keep ending is not denied success
\* for ever.
FairSpec ==
  /\ Spec
  /\ WF_vars(StartPass \/ PassStep)
  /\ \A t \in Task : SF_vars(RunEnds(t, "success"))
-----------------------------------------------------------------------------
\* The rows the pass has gone by and that could have started.
Waiting ==
  {w \in (1..(at - 1)) \X Task : RowAt(w[1], w[2]) /\ Startable(w[2])}

\* A younger task never overtakes an older one that needs the same source or an
\* overlapping destination (dispatcher.py:24-26, "a younger sibling cannot jump
\* it").
NoOvertaking ==
  \A j \in started, w \in Waiting :
    w[1] < j => ~ SharesScope(w[2], queue[j][1])

\* No head-of-line blocking: whoever a pass leaves waiting has an active run in its
\* way, or an older row that waits for the same scope, or the limit is reached and
\* no younger row took the last of it.
NoHeadOfLineBlocking ==
  \A w \in Waiting :
    \/ \E u \in Active : SharesScope(w[2], u)
    \/ \E o \in Waiting : o[1] < w[1] /\ SharesScope(w[2], o[2])
    \/ Cardinality(Active) >= Limit /\ \A j \in started : j < w[1]

\* A run is only created for work that can start at once (dispatcher.py:18): it
\* shares no source and no destination with another active run, started by this
\* pass or before it, by hand or not, and there is a permit for it.
StartsAtOnce ==
  \A u \in Started :
    /\ \A v \in Active : v # u => ~ SharesScope(u, v)
    /\ Cardinality(Active) <= Limit

\* Within a pass: the refused rows are the ones that wait, and what was started is
\* active.  The three properties above follow each other through the pass.
PassInv ==
  /\ at \in Nat
  /\ refused \subseteq Task
  /\ \A t \in Task : t \in refused <=> \E w \in Waiting : w[2] = t
  /\ started \subseteq 1..(at - 1)
  /\ Started \subseteq Active
  /\ NoOvertaking /\ NoHeadOfLineBlocking /\ StartsAtOnce

\* Nobody starves: an obligation that could start does, whatever younger and older
\* tasks do around it, as long as nobody runs tasks by hand.
NobodyStarves == \A t \in Task : status[t] = "due" ~> status[t] # "due"
=============================================================================
