------------------------ MODULE RunLifecycle_proofs ------------------------
(* Theorems about RunLifecycle, for any number of tasks, sources, runs and  *)
(* permits: what it keeps, what an operator is told, and that it implements *)
(* RunService.  No fairness is used; liveness is left to TLC.               *)
EXTENDS RunLifecycle, DestKeys_proofs, FiniteSetTheorems

LEMMA TypeInit == Init => TypeOK
  BY LifecycleAssumption
     DEF Init, TypeOK, All, RowState, Phase, Proc, ActiveState, TerminalState

\* Settling preserves the types of what it changes.
LEMMA SettleType ==
  ASSUME TypeOK, NEW r \in Run, Settle(r)
  PROVE  /\ phase' \in [Run -> Phase] /\ owners' \subseteq Run
         /\ signalled' \subseteq Run /\ proc' \in [Run -> Proc]
         /\ snapDest' \in [Run -> Dest \union {NoDest}]
         /\ snapSource' \in [Run -> Source \union {NoSource}]
         /\ activeDest' \in [Run -> Dest \union {NoDest}]
         /\ free' \in Nat /\ locked' \subseteq Source
         /\ UNCHANGED <<taskDest, taskSource, timed, rowTask, asked, request, up>>
  BY DEF Settle, FreeDest, FreePermit, FreeSource,
     TypeOK, Phase, Proc, config

\* Types are inductive together with Shape: the lock that GetSource takes is a
\* source only because an owned execution has read its task.
LEMMA TypeNext ==
  ASSUME TypeOK, \A r \in Run : Shape(r), [Next]_vars
  PROVE  TypeOK'
<1> USE DEF TypeOK, RowState, Phase, Proc, Answer, ActiveState, TerminalState,
            WaitPhase, BodyPhase, ReapPhase
<1>1. ASSUME NEW r \in Run, NEW t \in Task, NewPendingRun(r, t)
      PROVE  TypeOK'
  BY <1>1 DEF NewPendingRun, config, resources
<1>2. ASSUME NEW t \in Editable, NEW d \in Dest, NEW s \in Source, EditTask(t, d, s)
      PROVE  TypeOK'
  BY <1>2, LifecycleAssumption DEF EditTask, rows, resources
<1>3. ASSUME NEW r \in Run, RunStep(r)
      PROVE  TypeOK'
  <2>1. CASE Start(r)
    <3>1. rowTask[r] \in Task
      BY <2>1 DEF Start, Shape
    <3>2. QED
      BY <2>1, <3>1 DEF Start, config, rows
  <2>2. CASE Reject(r) \/ BeginFails(r)
    BY <2>2, SettleType DEF Reject, BeginFails, Terminalize
  <2>3. CASE GetDest(r)
    BY <2>3 DEF GetDest, config, rows
  <2>4. CASE GetPermit(r)
    BY <2>4 DEF GetPermit, config, rows
  <2>5. CASE GetSource(r)
    <3>1. snapSource[r] \in Source
      BY <2>5 DEF GetSource, Shape
    <3>2. QED
      BY <2>5, <3>1 DEF GetSource, config
  <2>6. CASE StartPrune(r)
    BY <2>6 DEF StartPrune, config, rows, resources
  <2>7. CASE Deadline(r)
    BY <2>7 DEF Deadline, UnderDeadline, config, rows, resources
  <2>8. CASE Finish(r)
    <3>1. PICK s \in {Outcome(r), "failed"} : Terminalize(r, s)
      BY <2>8 DEF Finish
    <3>2. s \in RowState
      BY DEF Outcome, CancelOutcome
    <3>3. rowState' \in [Run -> RowState]
      BY <3>1, <3>2 DEF Terminalize
    <3>4. QED
      BY <2>8, <3>3, SettleType DEF Finish
  <2>9. CASE CancelUnstarted(r)
    BY <2>9, SettleType DEF CancelUnstarted
  <2>10. CASE CancelWaiting(r)
    BY <2>10, SettleType DEF CancelWaiting, Terminalize, CancelOutcome
  <2>11. CASE CancelBody(r)
    BY <2>11 DEF CancelBody, config, rows, resources
  <2>12. CASE CancelShielded(r)
    BY <2>12 DEF CancelShielded, config, rows, resources
  <2>13. QED
    BY <1>3, <2>1, <2>2, <2>3, <2>4, <2>5, <2>6, <2>7, <2>8, <2>9, <2>10, <2>11,
       <2>12 DEF RunStep
<1>4. ASSUME NEW r \in Run, ProcExit(r) \/ Kill(r)
      PROVE  TypeOK'
  BY <1>4 DEF ProcExit, Kill, config, rows, resources
<1>5. ASSUME NEW r \in Run, CancelRequest(r)
      PROVE  TypeOK'
  BY <1>5 DEF CancelRequest, config, rows, resources
<1>6. ASSUME NEW r \in Run, CancelAnswer(r)
      PROVE  TypeOK'
  BY <1>6 DEF CancelAnswer, AnswerFor, config, rows, resources
<1>7. CASE Sweep
  BY <1>7 DEF Sweep, config, resources
<1>8. CASE Shutdown
  BY <1>8 DEF Shutdown, config, rows, resources
<1>9. CASE Exit
  BY <1>9 DEF Exit, ForgetRequests, config, rows, resources
<1>10. CASE Crash
  BY <1>10, LifecycleAssumption DEF Crash, ForgetRequests, All, config, rows
<1>11. CASE Restart
  BY <1>11 DEF Restart, Active, config, resources
<1>12. CASE UNCHANGED vars
  BY <1>12 DEF vars, config, rows, resources
<1>13. QED
  BY <1>1, <1>2, <1>3, <1>4, <1>5, <1>6, <1>7, <1>8, <1>9, <1>10, <1>11, <1>12
     DEF Next, AdmitManual, AdmitDue

-----------------------------------------------------------------------------
(* The shape of one run.                                                    *)

\* The ways in which an execution ends differ only in what the row is left as.
Ended(r) ==
  /\ phase[r] # "none"
  /\ Settle(r)
  /\ \E s \in TerminalState : Terminalize(r, s)

LEMMA EndsAlike ==
  ASSUME NEW r \in Run,
         Reject(r) \/ BeginFails(r) \/ Finish(r) \/ CancelUnstarted(r) \/ CancelWaiting(r)
  PROVE  Ended(r)
<1>1. CASE Reject(r) \/ BeginFails(r)
  BY <1>1 DEF Reject, BeginFails, Ended, TerminalState
<1>2. CASE Finish(r)
  <2>1. PICK s \in {Outcome(r), "failed"} : Terminalize(r, s)
    BY <1>2 DEF Finish
  <2>2. s \in TerminalState
    BY DEF Outcome, CancelOutcome, TerminalState
  <2>3. phase[r] # "none"
    BY <1>2 DEF Finish, Working, BodyPhase, ReapPhase
  <2>4. QED
    BY <1>2, <2>1, <2>2, <2>3 DEF Finish, Ended
<1>3. CASE CancelUnstarted(r)
  BY <1>3 DEF CancelUnstarted, Ended, Terminalize, TerminalState
<1>4. CASE CancelWaiting(r)
  BY <1>4 DEF CancelWaiting, Ended, CancelOutcome, WaitPhase, TerminalState
<1>5. QED
  BY <1>1, <1>2, <1>3, <1>4

LEMMA ShapeInit == Init => \A r \in Run : Shape(r)
  BY DEF Init, All, Shape, Claims, HoldsPermit, Working, WaitPhase, BodyPhase,
         ReapPhase

\* What an execution's end leaves of its own run and of every other.
LEMMA EndedShape ==
  ASSUME TypeOK, NEW r \in Run, Ended(r), NEW q \in Run, Shape(q)
  PROVE  Shape(q)'
<1> USE DEF Shape, Working, Claims, HoldsPermit, WaitPhase, BodyPhase, ReapPhase,
            Phase
<1>1. PICK s \in TerminalState : Terminalize(r, s)
  BY DEF Ended
<1>2. CASE q = r
  BY <1>1, <1>2 DEF Ended, Settle, FreeDest, FreePermit, FreeSource,
     TypeOK, Terminalize, TerminalState
<1>3. CASE q # r
  BY <1>1, <1>3 DEF Ended, Settle, FreeDest, FreePermit, FreeSource,
     TypeOK, Terminalize, TerminalState, config
<1>4. QED
  BY <1>2, <1>3

LEMMA ShapeNext ==
  ASSUME TypeOK, IInv, [Next]_vars
  PROVE  \A q \in Run : Shape(q)'
<1> SUFFICES ASSUME NEW q \in Run PROVE Shape(q)'
  OBVIOUS
<1>0. Shape(q)
  BY DEF IInv
<1> USE <1>0 DEF TypeOK, Shape, Working, Claims, HoldsPermit, WaitPhase,
                 BodyPhase, ReapPhase, Phase
<1>1. ASSUME NEW r \in Run, NEW t \in Task, NewPendingRun(r, t)
      PROVE  Shape(q)'
  BY <1>1 DEF NewPendingRun, config, resources
<1>2. ASSUME NEW t \in Editable, NEW d \in Dest, NEW s \in Source, EditTask(t, d, s)
      PROVE  Shape(q)'
  <2>1. q \in owners => rowTask[q] # t
    BY <1>2 DEF EditTask, TaskIdle, Active, ActiveState, Phase
  <2>2. QED
    BY <1>2, <2>1, LifecycleAssumption DEF EditTask, rows, resources
<1>3. ASSUME NEW r \in Run, RunStep(r)
      PROVE  Shape(q)'
  <2>1. CASE Reject(r) \/ BeginFails(r) \/ Finish(r) \/ CancelUnstarted(r) \/ CancelWaiting(r)
    BY <2>1, <1>0, EndsAlike, EndedShape
  <2>2. CASE Start(r)
    BY <2>2 DEF Start, config, rows
  <2>3. CASE GetDest(r)
    BY <2>3 DEF GetDest, config, rows
  <2>4. CASE GetPermit(r)
    BY <2>4 DEF GetPermit, config, rows
  <2>5. CASE GetSource(r)
    BY <2>5 DEF GetSource, config
  <2>6. CASE StartPrune(r)
    BY <2>6 DEF StartPrune, NeedsPrune, config, rows, resources
  <2>7. CASE Deadline(r)
    BY <2>7 DEF Deadline, UnderDeadline, config, rows, resources
  <2>8. CASE CancelBody(r)
    BY <2>8 DEF CancelBody, config, rows, resources
  <2>9. CASE CancelShielded(r)
    BY <2>9 DEF CancelShielded, config, rows, resources
  <2>10. QED
    BY <1>3, <2>1, <2>2, <2>3, <2>4, <2>5, <2>6, <2>7, <2>8, <2>9 DEF RunStep
<1>4. ASSUME NEW r \in Run, ProcExit(r) \/ Kill(r)
      PROVE  Shape(q)'
  BY <1>4 DEF ProcExit, Kill, config, rows, resources
<1>5. ASSUME NEW r \in Run, CancelRequest(r) \/ CancelAnswer(r)
      PROVE  Shape(q)'
  BY <1>5 DEF CancelRequest, CancelAnswer, config, rows, resources
<1>6. CASE Sweep
  BY <1>6 DEF Sweep, Orphans, Active, ActiveState, config, resources
<1>7. CASE Shutdown \/ Exit
  BY <1>7 DEF Shutdown, Exit, config, rows, resources
<1>8. CASE Crash
  BY <1>8 DEF Crash, All, config, rows
<1>9. CASE Restart
  BY <1>9 DEF IInv, DownIsIdle, Restart, Active, ActiveState, config, resources
<1>10. CASE UNCHANGED vars
  BY <1>10 DEF vars, config, rows, resources
<1>11. QED
  BY <1>1, <1>2, <1>3, <1>4, <1>5, <1>6, <1>7, <1>8, <1>9, <1>10
     DEF Next, AdmitManual, AdmitDue
-----------------------------------------------------------------------------
(* One active row per task and source.                                      *)

\* Steps that add no active row and move no configuration keep it.
LEMMA FewerRows ==
  ASSUME TypeOK, ActiveRowsDisjoint, Active' \subseteq Active,
         UNCHANGED <<rowTask, taskSource>>
  PROVE  ActiveRowsDisjoint'
  BY DEF ActiveRowsDisjoint

LEMMA RowsNext ==
  ASSUME TypeOK, IInv, [Next]_vars
  PROVE  ActiveRowsDisjoint'
<1> USE DEF TypeOK, IInv, Active, ActiveState
<1>1. ASSUME NEW r \in Run, NEW t \in Task, AdmitManual(r, t) \/ AdmitDue(r, t)
      PROVE  ActiveRowsDisjoint'
  BY <1>1 DEF AdmitManual, AdmitDue, MayDispatch, NewPendingRun, TaskIdle,
              SourceIdle, ActiveRowsDisjoint, config
<1>2. ASSUME NEW t \in Editable, NEW d \in Dest, NEW s \in Source, EditTask(t, d, s)
      PROVE  ActiveRowsDisjoint'
  <2>1. \A r \in Active : r \in Active' /\ taskSource'[rowTask'[r]] = taskSource[rowTask[r]]
    BY <1>2, LifecycleAssumption DEF EditTask, TaskIdle, rows, Shape
  <2>2. Active' = Active /\ rowTask' = rowTask
    BY <1>2 DEF EditTask, rows
  <2>3. QED
    BY <2>1, <2>2 DEF ActiveRowsDisjoint
<1>3. ASSUME NEW r \in Run, RunStep(r)
      PROVE  ActiveRowsDisjoint'
  <2>1. CASE Reject(r) \/ BeginFails(r) \/ Finish(r) \/ CancelUnstarted(r) \/ CancelWaiting(r)
    <3>1. PICK s \in TerminalState : Terminalize(r, s)
      BY <2>1, EndsAlike DEF Ended
    <3>2. Active' \subseteq Active
      BY <3>1 DEF Terminalize, TerminalState
    <3>3. QED
      BY <2>1, <3>2, EndsAlike, FewerRows
         DEF Ended, Settle, FreeDest, FreePermit, FreeSource, config
  <2>2. CASE GetSource(r)
    BY <2>2, FewerRows DEF GetSource, config
  <2>3. CASE Start(r) \/ GetDest(r) \/ GetPermit(r)
    BY <2>3, FewerRows DEF Start, GetDest, GetPermit, config, rows
  <2>4. CASE StartPrune(r) \/ Deadline(r) \/ CancelBody(r) \/ CancelShielded(r)
    BY <2>4, FewerRows DEF StartPrune, Deadline, UnderDeadline,
       CancelBody, CancelShielded, config, rows
  <2>5. QED
    BY <1>3, <2>1, <2>2, <2>3, <2>4 DEF RunStep
<1>4. ASSUME NEW r \in Run, ProcExit(r) \/ Kill(r) \/ CancelRequest(r) \/ CancelAnswer(r)
      PROVE  ActiveRowsDisjoint'
  BY <1>4, FewerRows DEF ProcExit, Kill, CancelRequest, CancelAnswer, config, rows
<1>5. CASE Sweep \/ Restart
  BY <1>5, FewerRows DEF Sweep, Restart, config
<1>6. CASE Shutdown \/ Exit \/ Crash \/ UNCHANGED vars
  BY <1>6, FewerRows DEF Shutdown, Exit, Crash, vars, config, rows
<1>7. QED
  BY <1>1, <1>2, <1>3, <1>4, <1>5, <1>6 DEF Next
-----------------------------------------------------------------------------
(* Destination claims.                                                      *)

\* Steps in which no run begins to claim and no claimed key moves.
LEMMA FewerClaims ==
  ASSUME ClaimsDisjoint,
         \A r \in Run : Claims(r)' => Claims(r) /\ snapDest'[r] = snapDest[r]
  PROVE  ClaimsDisjoint'
  BY DEF ClaimsDisjoint

LEMMA OwnedKey ==
  ASSUME TypeOK, IInv, NEW r \in owners
  PROVE  snapDest[r] \in Dest /\ snapDest[r] \in Seq(STRING)
<1>1. r \in Run /\ rowTask[r] \in Task
  BY DEF TypeOK, IInv, Shape, Phase, Working
<1>2. QED
  BY <1>1, LifecycleAssumption DEF TypeOK, IInv, Shape

LEMMA ClaimsNext ==
  ASSUME TypeOK, IInv, [Next]_vars
  PROVE  ClaimsDisjoint'
<1>0. ClaimsDisjoint
  BY DEF IInv
<1> USE <1>0 DEF TypeOK, Claims, HoldsPermit, WaitPhase, BodyPhase, ReapPhase
<1>1. ASSUME NEW r \in Run, NEW t \in Task, NewPendingRun(r, t)
      PROVE  ClaimsDisjoint'
  BY <1>1, FewerClaims DEF NewPendingRun, resources
<1>2. ASSUME NEW t \in Editable, NEW d \in Dest, NEW s \in Source, EditTask(t, d, s)
      PROVE  ClaimsDisjoint'
  BY <1>2, FewerClaims DEF EditTask, resources
<1>3. ASSUME NEW r \in Run, RunStep(r)
      PROVE  ClaimsDisjoint'
  <2>1. CASE Reject(r) \/ BeginFails(r) \/ Finish(r) \/ CancelUnstarted(r) \/ CancelWaiting(r)
    BY <2>1, EndsAlike, FewerClaims DEF Ended, Settle, FreeDest, FreePermit, FreeSource
  <2>2. CASE Start(r)
    BY <2>2, FewerClaims DEF Start
  <2>3. CASE GetDest(r)
    <3>1. ASSUME NEW h \in Run, h # r, Claims(h)
          PROVE  ~ Conflicts(snapDest[r], snapDest[h])
                 /\ ~ Conflicts(snapDest[h], snapDest[r])
      <4>1. h \in owners /\ activeDest[h] = snapDest[h]
        BY <3>1 DEF IInv, Shape
      <4>2. r \in owners
        BY <2>3 DEF GetDest, IInv, Shape
      <4>3. activeDest[h] # NoDest
        BY <4>1, OwnedKey, LifecycleAssumption
      <4>4. ~ Conflicts(snapDest[r], snapDest[h])
        BY <2>3, <3>1, <4>1, <4>3 DEF GetDest, DestFree
      <4>5. QED
        BY <4>1, <4>2, <4>4, OwnedKey, ConflictsSymmetric
    <3>2. \A h \in Run \ {r} : Claims(h)' => Claims(h)
      BY <2>3 DEF GetDest
    <3>3. snapDest' = snapDest
      BY <2>3 DEF GetDest
    <3>4. QED
      BY <3>1, <3>2, <3>3 DEF ClaimsDisjoint
  <2>4. CASE GetPermit(r)
    BY <2>4, FewerClaims DEF GetPermit
  <2>5. CASE GetSource(r)
    BY <2>5, FewerClaims DEF GetSource
  <2>6. CASE StartPrune(r)
    BY <2>6, FewerClaims DEF StartPrune, NeedsPrune, resources
  <2>7. CASE Deadline(r) \/ CancelBody(r) \/ CancelShielded(r)
    BY <2>7, FewerClaims DEF Deadline, UnderDeadline, CancelBody, CancelShielded, resources
  <2>8. QED
    BY <1>3, <2>1, <2>2, <2>3, <2>4, <2>5, <2>6, <2>7 DEF RunStep
<1>4. ASSUME NEW r \in Run, ProcExit(r) \/ Kill(r) \/ CancelRequest(r) \/ CancelAnswer(r)
      PROVE  ClaimsDisjoint'
  BY <1>4, FewerClaims DEF ProcExit, Kill, CancelRequest, CancelAnswer, resources
<1>5. CASE Sweep \/ Restart \/ Shutdown \/ Exit \/ UNCHANGED vars
  BY <1>5, FewerClaims DEF Sweep, Restart, Shutdown, Exit, vars, resources
<1>6. CASE Crash
  BY <1>6, FewerClaims DEF Crash, All
<1>7. QED
  BY <1>1, <1>2, <1>3, <1>4, <1>5, <1>6 DEF Next, AdmitManual, AdmitDue
-----------------------------------------------------------------------------
(* Source locks.                                                            *)

\* Steps that leave every holder of a source lock as it was.
LEMMA SameHolders ==
  ASSUME LocksHeld, locked' = locked,
         \A r \in Run : /\ HoldsSource(r)' <=> HoldsSource(r)
                        /\ HoldsSource(r) => snapSource'[r] = snapSource[r]
  PROVE  LocksHeld'
  BY DEF LocksHeld

\* Two executions that both got past the source lock hold different locks.
LEMMA LocksApart ==
  ASSUME TypeOK, IInv, NEW r \in Run, NEW q \in Run, r # q,
         r \in owners, q \in owners
  PROVE  snapSource[r] # snapSource[q]
<1>1. r \in Active /\ q \in Active
  BY DEF TypeOK, Phase, IInv, Shape, Working, Active, ActiveState
<1>2. QED
  BY <1>1 DEF IInv, Shape, ActiveRowsDisjoint

LEMMA LocksNext ==
  ASSUME TypeOK, IInv, [Next]_vars
  PROVE  LocksHeld'
<1>0. LocksHeld
  BY DEF IInv
<1> USE <1>0 DEF TypeOK, HoldsSource, BodyPhase, ReapPhase
<1>1. ASSUME NEW r \in Run, NEW t \in Task, NewPendingRun(r, t)
      PROVE  LocksHeld'
  <2>1. phase[r] = "none"
    BY <1>1 DEF NewPendingRun, IInv, Shape, Working, Phase, WaitPhase
  <2>2. QED
    BY <1>1, <2>1, SameHolders DEF NewPendingRun, resources
<1>2. ASSUME NEW t \in Editable, NEW d \in Dest, NEW s \in Source, EditTask(t, d, s)
      PROVE  LocksHeld'
  BY <1>2, SameHolders DEF EditTask, resources
<1>3. ASSUME NEW r \in Run, RunStep(r)
      PROVE  LocksHeld'
  <2>1. CASE Reject(r) \/ BeginFails(r) \/ Finish(r) \/ CancelUnstarted(r) \/ CancelWaiting(r)
    <3>1. Settle(r)
      BY <2>1, EndsAlike DEF Ended
    <3>2. \A q \in Run \ {r} : /\ HoldsSource(q)' <=> HoldsSource(q)
                               /\ snapSource'[q] = snapSource[q]
      BY <3>1 DEF Settle, FreeDest, FreePermit, FreeSource
    <3>3. ~ HoldsSource(r)'
      BY <3>1 DEF Settle, FreeDest, FreePermit, FreeSource
    <3>4. CASE HoldsSource(r)
      <4>1. \A q \in Run \ {r} : HoldsSource(q) => snapSource[q] # snapSource[r]
        BY <3>4, LocksApart DEF IInv, Shape
      <4>2. locked' = locked \ {snapSource[r]}
        BY <3>1, <3>4 DEF Settle, FreeDest, FreePermit, FreeSource
      <4>3. QED
        BY <3>2, <3>3, <4>1, <4>2 DEF LocksHeld
    <3>5. CASE ~ HoldsSource(r)
      <4>1. locked' = locked
        BY <3>1, <3>5 DEF Settle, FreeDest, FreePermit, FreeSource
      <4>2. QED
        BY <3>2, <3>3, <3>5, <4>1 DEF LocksHeld
    <3>6. QED
      BY <3>4, <3>5
  <2>2. CASE Start(r)
    BY <2>2, SameHolders DEF Start
  <2>3. CASE GetDest(r) \/ GetPermit(r)
    BY <2>3, SameHolders DEF GetDest, GetPermit
  <2>4. CASE GetSource(r)
    <3>1. \A q \in Run \ {r} : HoldsSource(q)' <=> HoldsSource(q)
      BY <2>4 DEF GetSource
    <3>2. HoldsSource(r)' /\ ~ HoldsSource(r)
      BY <2>4 DEF GetSource
    <3>3. snapSource' = snapSource /\ locked' = locked \union {snapSource[r]}
      BY <2>4 DEF GetSource
    <3>4. QED
      BY <3>1, <3>2, <3>3 DEF LocksHeld
  <2>5. CASE StartPrune(r)
    BY <2>5, SameHolders DEF StartPrune, NeedsPrune, resources
  <2>6. CASE Deadline(r) \/ CancelBody(r) \/ CancelShielded(r)
    BY <2>6, SameHolders DEF Deadline, UnderDeadline, CancelBody, CancelShielded, resources
  <2>7. QED
    BY <1>3, <2>1, <2>2, <2>3, <2>4, <2>5, <2>6 DEF RunStep
<1>4. ASSUME NEW r \in Run, ProcExit(r) \/ Kill(r) \/ CancelRequest(r) \/ CancelAnswer(r)
      PROVE  LocksHeld'
  BY <1>4, SameHolders DEF ProcExit, Kill, CancelRequest, CancelAnswer, resources
<1>5. CASE Sweep \/ Restart \/ Shutdown \/ Exit \/ UNCHANGED vars
  BY <1>5, SameHolders DEF Sweep, Restart, Shutdown, Exit, vars, resources
<1>6. CASE Crash
  BY <1>6 DEF Crash, All, LocksHeld
<1>7. QED
  BY <1>1, <1>2, <1>3, <1>4, <1>5, <1>6 DEF Next, AdmitManual, AdmitDue

LEMMA DownNext ==
  ASSUME TypeOK, IInv, [Next]_vars
  PROVE  DownIsIdle'
<1> USE DEF DownIsIdle, IInv, TypeOK
<1>1. ASSUME NEW r \in Run, RunStep(r)
      PROVE  DownIsIdle'
  <2>1. phase[r] # "none" /\ up' = up
    BY <1>1 DEF RunStep, Start, Reject, BeginFails, GetDest, GetPermit, GetSource, StartPrune,
         NeedsPrune, Deadline, UnderDeadline, Finish, Working, CancelUnstarted, CancelWaiting,
         CancelBody, CancelShielded, Settle, WaitPhase, BodyPhase, ReapPhase
  <2>2. QED
    BY <2>1
<1>2. CASE Exit \/ Crash \/ Shutdown \/ Restart \/ Sweep
  BY <1>2 DEF Exit, Crash, Shutdown, Restart, Sweep, All
<1>3. ASSUME NEW r \in Run, NEW t \in Task, NewPendingRun(r, t)
      PROVE  DownIsIdle'
  BY <1>3 DEF NewPendingRun
<1>4. ASSUME NEW t \in Editable, NEW d \in Dest, NEW s \in Source, EditTask(t, d, s)
      PROVE  DownIsIdle'
  BY <1>4 DEF EditTask
<1>5. ASSUME NEW r \in Run, ProcExit(r) \/ Kill(r) \/ CancelRequest(r) \/ CancelAnswer(r)
      PROVE  DownIsIdle'
  BY <1>5 DEF ProcExit, Kill, CancelRequest, CancelAnswer
<1>6. CASE UNCHANGED vars
  BY <1>6 DEF vars
<1>7. QED
  BY <1>1, <1>2, <1>3, <1>4, <1>5, <1>6 DEF Next, AdmitManual, AdmitDue
-----------------------------------------------------------------------------
(* The theorems.                                                            *)

LEMMA IInvInit == Init => IInv
<1>1. Init => ActiveRowsDisjoint
  BY DEF Init, All, ActiveRowsDisjoint, Active, ActiveState
<1>2. Init => ClaimsDisjoint /\ LocksHeld /\ DownIsIdle
  BY DEF Init, All, ClaimsDisjoint, LocksHeld, DownIsIdle, Claims, HoldsPermit,
         HoldsSource, BodyPhase, ReapPhase
<1>3. QED
  BY <1>1, <1>2, ShapeInit DEF IInv

LEMMA IInvNext == TypeOK /\ IInv /\ [Next]_vars => TypeOK' /\ IInv'
<1> SUFFICES ASSUME TypeOK, IInv, [Next]_vars PROVE TypeOK' /\ IInv'
  OBVIOUS
<1>1. TypeOK'
  BY TypeNext DEF IInv
<1>2. QED
  BY <1>1, ShapeNext, RowsNext, ClaimsNext, LocksNext, DownNext DEF IInv

\* Every variable keeps its type and the invariant of the machinery holds in
\* every reachable state, for any tasks, sources, runs, edits and permits.
THEOREM TypeCorrect == Spec => []TypeOK
<1>1. Init => TypeOK /\ IInv
  BY TypeInit, IInvInit
<1>2. TypeOK /\ IInv /\ [Next]_vars => TypeOK' /\ IInv'
  BY IInvNext
<1>3. QED
  BY <1>1, <1>2, PTL DEF Spec

THEOREM Invariance == Spec => [](TypeOK /\ IInv)
<1>1. Init => TypeOK /\ IInv
  BY TypeInit, IInvInit
<1>2. TypeOK /\ IInv /\ [Next]_vars => TypeOK' /\ IInv'
  BY IInvNext
<1>3. QED
  BY <1>1, <1>2, PTL DEF Spec

\* No two process groups write overlapping destinations (_destination_exclusion).
THEOREM ExclusionHolds == Spec => []DestinationExclusion
<1>1. TypeOK /\ IInv => DestinationExclusion
  <2> SUFFICES ASSUME TypeOK, IInv, NEW r \in Run, NEW s \in Run, r # s,
                      proc[r] = "live", proc[s] = "live"
               PROVE  ~ Conflicts(WritesDest(r), WritesDest(s))
    BY DEF DestinationExclusion
  <2>1. r \in Working /\ s \in Working
    BY DEF IInv, Shape
  <2>2. r \in owners /\ s \in owners /\ Claims(r) /\ Claims(s)
    BY <2>1 DEF IInv, Shape, Working, Claims, HoldsPermit, BodyPhase, ReapPhase
  <2>3. snapDest[r] = WritesDest(r) /\ snapDest[s] = WritesDest(s)
    BY <2>2 DEF IInv, Shape, WritesDest
  <2>4. QED
    BY <2>2, <2>3 DEF IInv, ClaimsDisjoint
<1>2. QED
  BY <1>1, Invariance, PTL

\* The row tells the truth about the execution (the watchdog never failed a
\* live one, RunNotOwnedError is unreachable).
THEOREM RowsFollow == Spec => []RowFollowsExecution
<1>1. TypeOK /\ IInv => RowFollowsExecution
  BY DEF IInv, Shape, RowFollowsExecution
<1>2. QED
  BY <1>1, Invariance, PTL

\* One active row per task and per source (admit_run, dispatch_due, update_task).
THEOREM AdmissionDisjoint == Spec => []ActiveRowsDisjoint
  BY Invariance, PTL DEF IInv

\* A live process group is always in _run_owners (sweep_orphaned_runs).
THEOREM LiveAreOwned == Spec => []LiveIsOwned
<1>1. TypeOK /\ IInv => LiveIsOwned
  BY DEF IInv, Shape, LiveIsOwned, Working, BodyPhase, ReapPhase, Active, ActiveState
<1>2. QED
  BY <1>1, Invariance, PTL

\* No claim and no lock outlives its execution (the finally blocks).
THEOREM NoLeak == Spec => []NothingLeaked
<1>1. TypeOK /\ IInv => NothingLeaked
  BY DEF IInv, Shape, NothingLeaked, Claims, LocksHeld, TypeOK
<1>2. QED
  BY <1>1, Invariance, PTL

\* An execution that holds a permit finds its source lock open (the acquisition
\* order of _execute_run).
THEOREM PermitsAreUsed == Spec => []PermitNeverIdle
<1>1. TypeOK /\ IInv => PermitNeverIdle
  <2> SUFFICES ASSUME TypeOK, IInv, NEW r \in Run, phase[r] = "source",
                      snapSource[r] \in locked
               PROVE  FALSE
    BY DEF PermitNeverIdle
  <2>1. PICK q \in Run : HoldsSource(q) /\ snapSource[q] = snapSource[r]
    BY DEF TypeOK, IInv, LocksHeld
  <2>2. q # r /\ q \in owners /\ r \in owners
    BY <2>1 DEF HoldsSource, BodyPhase, ReapPhase, IInv, Shape
  <2>3. QED
    BY <2>1, <2>2, LocksApart
<1>2. QED
  BY <1>1, Invariance, PTL
-----------------------------------------------------------------------------
(* Permits.                                                                 *)

Holders == {r \in Run : HoldsPermit(r)}

LEMMA HoldersFinite == IsFiniteSet(Holders) /\ Cardinality(Holders) \in Nat
<1>1. IsFiniteSet(Holders)
  BY LifecycleAssumption, FS_Subset DEF Holders
<1>2. QED
  BY <1>1, FS_CardinalityType

LEMMA SamePermits ==
  ASSUME PermitsConserved, free' = free,
         \A r \in Run : HoldsPermit(r)' <=> HoldsPermit(r)
  PROVE  PermitsConserved'
<1>1. Holders' = Holders
  BY DEF Holders
<1>2. QED
  BY <1>1 DEF PermitsConserved, Holders

LEMMA PermitsInit == Init => PermitsConserved
<1> SUFFICES ASSUME Init PROVE PermitsConserved
  OBVIOUS
<1>1. Holders = {}
  BY DEF Init, All, Holders, HoldsPermit, BodyPhase, ReapPhase
<1>2. free + Cardinality(Holders) = Limit
  BY <1>1, FS_EmptySet, LifecycleAssumption DEF Init
<1>3. QED
  BY <1>2 DEF PermitsConserved, Holders

LEMMA PermitsNext ==
  ASSUME TypeOK, IInv, PermitsConserved, [Next]_vars
  PROVE  PermitsConserved'
<1> USE DEF TypeOK, HoldsPermit, BodyPhase, ReapPhase
<1>1. ASSUME NEW r \in Run, NEW t \in Task, NewPendingRun(r, t)
      PROVE  PermitsConserved'
  <2>1. phase[r] = "none"
    BY <1>1 DEF NewPendingRun, IInv, Shape, Working, Phase, WaitPhase
  <2>2. QED
    BY <1>1, <2>1, SamePermits DEF NewPendingRun, resources
<1>2. ASSUME NEW t \in Editable, NEW d \in Dest, NEW s \in Source, EditTask(t, d, s)
      PROVE  PermitsConserved'
  BY <1>2, SamePermits DEF EditTask, resources
<1>3. ASSUME NEW r \in Run, RunStep(r)
      PROVE  PermitsConserved'
  <2>1. CASE Reject(r) \/ BeginFails(r) \/ Finish(r) \/ CancelUnstarted(r) \/ CancelWaiting(r)
    <3>1. Settle(r)
      BY <2>1, EndsAlike DEF Ended
    <3>2. Holders' = Holders \ {r}
      BY <3>1 DEF Settle, FreeDest, FreePermit, FreeSource, Holders
    <3>3. CASE HoldsPermit(r)
      <4>1. free' = free + 1
        BY <3>1, <3>3 DEF Settle, FreeDest, FreePermit, FreeSource
      <4>2. Cardinality(Holders') = Cardinality(Holders) - 1
        <5>1. r \in Holders
          BY <3>3 DEF Holders
        <5>2. QED
          BY <3>2, <5>1, HoldersFinite, FS_RemoveElement, ZenonT(30)
      <4>3. QED
        BY <4>1, <4>2, HoldersFinite, LifecycleAssumption
           DEF PermitsConserved, Holders
    <3>4. CASE ~ HoldsPermit(r)
      <4>1. free' = free
        BY <3>1, <3>4 DEF Settle, FreeDest, FreePermit, FreeSource
      <4>2. Holders' = Holders
        BY <3>2, <3>4 DEF Holders
      <4>3. QED
        BY <4>1, <4>2 DEF PermitsConserved, Holders
    <3>5. QED
      BY <3>3, <3>4
  <2>2. CASE Start(r) \/ GetDest(r)
    BY <2>2, SamePermits DEF Start, GetDest
  <2>3. CASE GetPermit(r)
    <3>1. free' = free - 1 /\ r \notin Holders
      BY <2>3 DEF GetPermit, Holders
    <3>2. Holders' = Holders \union {r}
      BY <2>3 DEF GetPermit, Holders
    <3>3. Cardinality(Holders') = Cardinality(Holders) + 1
      BY <3>1, <3>2, HoldersFinite, FS_AddElement
    <3>4. QED
      BY <3>1, <3>3, HoldersFinite, LifecycleAssumption DEF PermitsConserved, Holders
  <2>4. CASE GetSource(r)
    BY <2>4, SamePermits DEF GetSource
  <2>5. CASE StartPrune(r)
    BY <2>5, SamePermits DEF StartPrune, NeedsPrune, resources
  <2>6. CASE Deadline(r) \/ CancelBody(r) \/ CancelShielded(r)
    BY <2>6, SamePermits DEF Deadline, UnderDeadline, CancelBody, CancelShielded, resources
  <2>7. QED
    BY <1>3, <2>1, <2>2, <2>3, <2>4, <2>5, <2>6 DEF RunStep
<1>4. ASSUME NEW r \in Run, ProcExit(r) \/ Kill(r) \/ CancelRequest(r) \/ CancelAnswer(r)
      PROVE  PermitsConserved'
  BY <1>4, SamePermits DEF ProcExit, Kill, CancelRequest, CancelAnswer, resources
<1>5. CASE Sweep \/ Restart \/ Shutdown \/ Exit \/ UNCHANGED vars
  BY <1>5, SamePermits DEF Sweep, Restart, Shutdown, Exit, vars, resources
<1>6. CASE Crash
  <2>1. Holders' = {}
    BY <1>6 DEF Crash, All, Holders
  <2>2. free' + Cardinality(Holders') = Limit
    BY <1>6, <2>1, FS_EmptySet, LifecycleAssumption DEF Crash
  <2>3. QED
    BY <2>2 DEF PermitsConserved, Holders
<1>7. QED
  BY <1>1, <1>2, <1>3, <1>4, <1>5, <1>6 DEF Next, AdmitManual, AdmitDue

\* No permit is lost or given back twice on any exit path, so the limit is never
\* exceeded and never shrinks (_global_sem).
THEOREM PermitsAreConserved == Spec => []PermitsConserved
<1>1. TypeOK /\ IInv /\ PermitsConserved /\ [Next]_vars => PermitsConserved'
  BY PermitsNext
<1>2. QED
  BY <1>1, PermitsInit, Invariance, PTL DEF Spec
-----------------------------------------------------------------------------
(* History.                                                                 *)

LEMMA HistoryNext ==
  ASSUME TypeOK, IInv, [Next]_vars, NEW q \in Run, rowState[q] \in TerminalState
  PROVE  rowState'[q] = rowState[q]
<1>1. phase[q] = "none" /\ q \notin Active
  BY DEF IInv, Shape, TypeOK, Phase, Working, Active, ActiveState, TerminalState
<1> USE DEF TypeOK, TerminalState
<1>2. ASSUME NEW r \in Run, NEW t \in Task, NewPendingRun(r, t)
      PROVE  rowState'[q] = rowState[q]
  BY <1>2 DEF NewPendingRun
<1>3. ASSUME NEW r \in Run, RunStep(r)
      PROVE  rowState'[q] = rowState[q]
  <2>1. CASE Reject(r) \/ BeginFails(r) \/ Finish(r) \/ CancelUnstarted(r) \/ CancelWaiting(r)
    <3>1. q # r
      BY <1>1, <2>1, EndsAlike DEF Ended
    <3>2. PICK s \in TerminalState : Terminalize(r, s)
      BY <2>1, EndsAlike DEF Ended
    <3>3. QED
      BY <3>1, <3>2 DEF Terminalize
  <2>2. CASE GetSource(r)
    BY <2>2 DEF GetSource
  <2>3. CASE Start(r) \/ GetDest(r) \/ GetPermit(r)
    BY <2>3 DEF Start, GetDest, GetPermit, rows
  <2>4. CASE StartPrune(r) \/ Deadline(r) \/ CancelBody(r) \/ CancelShielded(r)
    BY <2>4 DEF StartPrune, Deadline, UnderDeadline, CancelBody, CancelShielded, rows
  <2>5. QED
    BY <1>3, <2>1, <2>2, <2>3, <2>4 DEF RunStep
<1>4. CASE Sweep \/ Restart
  BY <1>1, <1>4 DEF Sweep, Restart, Orphans
<1>5. ASSUME NEW r \in Run, ProcExit(r) \/ Kill(r) \/ CancelRequest(r) \/ CancelAnswer(r)
      PROVE  rowState'[q] = rowState[q]
  BY <1>5 DEF ProcExit, Kill, CancelRequest, CancelAnswer, rows
<1>6. ASSUME NEW t \in Editable, NEW d \in Dest, NEW s \in Source, EditTask(t, d, s)
      PROVE  rowState'[q] = rowState[q]
  BY <1>6 DEF EditTask, rows
<1>7. CASE Shutdown \/ Exit \/ Crash \/ UNCHANGED vars
  BY <1>7 DEF Shutdown, Exit, Crash, vars, rows
<1>8. QED
  BY <1>2, <1>3, <1>4, <1>5, <1>6, <1>7 DEF Next, AdmitManual, AdmitDue

\* A terminal row is never rewritten (sweep_orphaned_runs, cancel_run and
\* reconcile_stale_runs only touch active rows that nobody executes).
THEOREM HistoryStays == Spec => HistoryIsFinal
<1>1. TypeOK /\ IInv /\ [Next]_vars
        => [\A r \in Run : rowState[r] \in TerminalState => rowState'[r] = rowState[r]]_vars
  BY HistoryNext
<1>2. QED
  BY <1>1, Invariance, PTL DEF Spec, HistoryIsFinal
-----------------------------------------------------------------------------
(* What an operator is told about a run, and what the history says about    *)
(* the operator.                                                            *)

\* Who may turn a row "cancelled": an execution that unwinds with the request of an
\* operator on record.
LEMMA CancelledNext ==
  ASSUME TypeOK, CancelledWasAsked, [Next]_vars
  PROVE  CancelledWasAsked'
<1> USE DEF CancelledWasAsked, TypeOK
<1>1. ASSUME NEW r \in Run, NEW t \in Task, NewPendingRun(r, t)
      PROVE  CancelledWasAsked'
  BY <1>1 DEF NewPendingRun
<1>2. ASSUME NEW r \in Run, RunStep(r)
      PROVE  CancelledWasAsked'
  <2>1. CASE Reject(r) \/ BeginFails(r)
    BY <2>1 DEF Reject, BeginFails, Terminalize, Settle
  <2>2. CASE Finish(r)
    <3>1. PICK s \in {Outcome(r), "failed"} : Terminalize(r, s)
      BY <2>2 DEF Finish
    <3>2. s = "cancelled" => r \in asked
      BY DEF Outcome, CancelOutcome
    <3>3. QED
      BY <2>2, <3>1, <3>2 DEF Finish, Settle, Terminalize
  <2>3. CASE CancelUnstarted(r)
    BY <2>3 DEF CancelUnstarted, Settle
  <2>4. CASE CancelWaiting(r)
    BY <2>4 DEF CancelWaiting, CancelOutcome, Terminalize, Settle
  <2>5. CASE GetSource(r)
    BY <2>5 DEF GetSource
  <2>6. CASE Start(r) \/ GetDest(r) \/ GetPermit(r)
    BY <2>6 DEF Start, GetDest, GetPermit, rows
  <2>7. CASE StartPrune(r) \/ Deadline(r) \/ CancelBody(r) \/ CancelShielded(r)
    BY <2>7 DEF StartPrune, Deadline, CancelBody, CancelShielded, rows
  <2>8. QED
    BY <1>2, <2>1, <2>2, <2>3, <2>4, <2>5, <2>6, <2>7 DEF RunStep
<1>3. CASE Sweep \/ Restart
  BY <1>3 DEF Sweep, Restart
<1>4. ASSUME NEW r \in Run, ProcExit(r) \/ Kill(r) \/ CancelRequest(r) \/ CancelAnswer(r)
      PROVE  CancelledWasAsked'
  BY <1>4 DEF ProcExit, Kill, CancelRequest, CancelAnswer, rows
<1>5. ASSUME NEW t \in Editable, NEW d \in Dest, NEW s \in Source, EditTask(t, d, s)
      PROVE  CancelledWasAsked'
  BY <1>5 DEF EditTask, rows
<1>6. CASE Shutdown \/ Exit \/ Crash \/ UNCHANGED vars
  BY <1>6 DEF Shutdown, Exit, Crash, vars, rows
<1>7. QED
  BY <1>1, <1>2, <1>3, <1>4, <1>5, <1>6 DEF Next, AdmitManual, AdmitDue

\* A shutdown, a deadline and a failure never produce "cancelled": some operator
\* asked for it (_cancel_was_requested).
THEOREM CancelledByOperator == Spec => []CancelledWasAsked
<1>1. Init => CancelledWasAsked
  BY DEF Init, All, CancelledWasAsked
<1>2. TypeOK /\ CancelledWasAsked /\ [Next]_vars => CancelledWasAsked'
  BY CancelledNext
<1>3. QED
  BY <1>1, <1>2, TypeCorrect, PTL DEF Spec
-----------------------------------------------------------------------------
(* The answers.  A row that is asked about exists and stays what it became. *)

Known == \A r \in Run : request[r] # "none" => rowState[r] # "none"

Answered == Known /\ AnswerIsTrue

\* No step takes a row away.
LEMMA RowsStay ==
  ASSUME TypeOK, IInv, [Next]_vars, NEW q \in Run, rowState[q] # "none"
  PROVE  rowState'[q] # "none"
<1> USE DEF TypeOK
<1>1. CASE rowState[q] \in TerminalState
  BY <1>1, HistoryNext
<1>2. CASE rowState[q] \notin TerminalState
  <2>1. ASSUME NEW r \in Run, NEW t \in Task, NewPendingRun(r, t)
        PROVE  rowState'[q] # "none"
    BY <2>1 DEF NewPendingRun
  <2>2. ASSUME NEW r \in Run, RunStep(r)
        PROVE  rowState'[q] # "none"
    <3>1. CASE Reject(r) \/ BeginFails(r) \/ Finish(r) \/ CancelUnstarted(r) \/ CancelWaiting(r)
      <4>1. PICK s \in TerminalState : Terminalize(r, s)
        BY <3>1, EndsAlike DEF Ended
      <4>2. QED
        BY <4>1 DEF Terminalize, TerminalState
    <3>2. CASE GetSource(r)
      BY <3>2 DEF GetSource
    <3>3. CASE Start(r) \/ GetDest(r) \/ GetPermit(r)
      BY <3>3 DEF Start, GetDest, GetPermit, rows
    <3>4. CASE StartPrune(r) \/ Deadline(r) \/ CancelBody(r) \/ CancelShielded(r)
      BY <3>4 DEF StartPrune, Deadline, CancelBody, CancelShielded, rows
    <3>5. QED
      BY <2>2, <3>1, <3>2, <3>3, <3>4 DEF RunStep
  <2>3. CASE Sweep \/ Restart
    BY <2>3 DEF Sweep, Restart
  <2>4. ASSUME NEW r \in Run,
               ProcExit(r) \/ Kill(r) \/ CancelRequest(r) \/ CancelAnswer(r)
        PROVE  rowState'[q] # "none"
    BY <2>4 DEF ProcExit, Kill, CancelRequest, CancelAnswer, rows
  <2>5. ASSUME NEW t \in Editable, NEW d \in Dest, NEW s \in Source, EditTask(t, d, s)
        PROVE  rowState'[q] # "none"
    BY <2>5 DEF EditTask, rows
  <2>6. CASE Shutdown \/ Exit \/ Crash \/ UNCHANGED vars
    BY <2>6 DEF Shutdown, Exit, Crash, vars, rows
  <2>7. QED
    BY <2>1, <2>2, <2>3, <2>4, <2>5, <2>6 DEF Next, AdmitManual, AdmitDue
<1>3. QED
  BY <1>1, <1>2

\* Requests change where a client asks and where it is answered, and are forgotten
\* when the process ends.
LEMMA RequestNext ==
  ASSUME TypeOK, [Next]_vars, NEW q \in Run, request'[q] # request[q]
  PROVE  \/ CancelRequest(q) \/ CancelAnswer(q)
         \/ request'[q] = "none"
<1> USE DEF TypeOK
<1>1. ASSUME NEW r \in Run, NEW t \in Task, NewPendingRun(r, t)
      PROVE  FALSE
  BY <1>1 DEF NewPendingRun
<1>2. ASSUME NEW r \in Run, RunStep(r)
      PROVE  FALSE
  <2>1. CASE Reject(r) \/ BeginFails(r) \/ Finish(r) \/ CancelUnstarted(r) \/ CancelWaiting(r)
    BY <2>1, EndsAlike DEF Ended, Settle
  <2>2. CASE Start(r) \/ GetDest(r) \/ GetPermit(r) \/ GetSource(r)
    BY <2>2 DEF Start, GetDest, GetPermit, GetSource
  <2>3. CASE StartPrune(r) \/ Deadline(r) \/ CancelBody(r) \/ CancelShielded(r)
    BY <2>3 DEF StartPrune, Deadline, CancelBody, CancelShielded
  <2>4. QED
    BY <1>2, <2>1, <2>2, <2>3 DEF RunStep
<1>3. ASSUME NEW r \in Run, ProcExit(r) \/ Kill(r)
      PROVE  FALSE
  BY <1>3 DEF ProcExit, Kill
<1>4. ASSUME NEW r \in Run, CancelRequest(r) \/ CancelAnswer(r)
      PROVE  r = q
  BY <1>4 DEF CancelRequest, CancelAnswer
<1>5. ASSUME NEW t \in Editable, NEW d \in Dest, NEW s \in Source, EditTask(t, d, s)
      PROVE  FALSE
  BY <1>5 DEF EditTask
<1>6. CASE Sweep \/ Shutdown \/ Restart \/ UNCHANGED vars
  BY <1>6 DEF Sweep, Shutdown, Restart, vars
<1>7. CASE Exit \/ Crash
  BY <1>7 DEF Exit, Crash, ForgetRequests
<1>8. QED
  BY <1>1, <1>2, <1>3, <1>4, <1>5, <1>6, <1>7 DEF Next, AdmitManual, AdmitDue

LEMMA AnswerNext ==
  ASSUME TypeOK, IInv, TypeOK', IInv', Answered, [Next]_vars
  PROVE  Answered'
<1>1. ASSUME NEW q \in Run, request'[q] # "none"
      PROVE  rowState'[q] # "none"
  <2>1. rowState[q] # "none"
    BY <1>1, RequestNext DEF Answered, Known, CancelRequest, CancelAnswer
  <2>2. QED
    BY <2>1, RowsStay
<1>2. ASSUME NEW q \in Run, request'[q] \in {"cancelled", "already_finished"}
      PROVE  /\ rowState'[q] \in TerminalState
             /\ request'[q] = "cancelled" => rowState'[q] = "cancelled"
  <2>1. CASE request'[q] = request[q]
    BY <1>2, <2>1, HistoryNext DEF Answered, AnswerIsTrue, TerminalState
  <2>2. CASE request'[q] # request[q]
    <3>1. CASE CancelRequest(q)
      <4>1. rowState[q] # "none" /\ q \notin Active /\ request'[q] = "already_finished"
        BY <1>2, <3>1 DEF CancelRequest, TypeOK
      <4>2. rowState[q] \in TerminalState
        BY <4>1 DEF TypeOK, RowState, Active, ActiveState, TerminalState
      <4>3. QED
        BY <4>1, <4>2, HistoryNext
    <3>2. CASE CancelAnswer(q)
      <4>1. rowState[q] # "none"
        BY <3>2 DEF CancelAnswer, Answered, Known
      <4>2. /\ q \notin Active
            /\ request'[q] = "cancelled" => rowState[q] = "cancelled"
        BY <1>2, <3>2 DEF CancelAnswer, AnswerFor, TypeOK, Active, ActiveState
      <4>3. rowState[q] \in TerminalState
        BY <4>1, <4>2 DEF TypeOK, RowState, Active, ActiveState, TerminalState
      <4>4. QED
        BY <4>2, <4>3, HistoryNext
    <3>3. QED
      BY <1>2, <2>2, <3>1, <3>2, RequestNext
  <2>3. QED
    BY <2>1, <2>2
<1>3. ASSUME NEW q \in Run, rowState'[q] \in TerminalState
      PROVE  proc'[q] # "live"
  BY <1>3 DEF IInv, Shape, TypeOK, TerminalState
<1>4. QED
  BY <1>1, <1>2, <1>3 DEF Answered, Known, AnswerIsTrue

\* An operator who is told "cancelled" or "already finished" can rely on it, then and
\* ever after: the row says so and nothing is copied (cancel_run).
THEOREM AnswersAreTrue == Spec => []AnswerIsTrue
<1>1. Init => Answered
  BY DEF Init, All, Answered, Known, AnswerIsTrue
<1>2. TypeOK /\ IInv /\ TypeOK' /\ IInv' /\ Answered /\ [Next]_vars => Answered'
  BY AnswerNext
<1>3. Answered => AnswerIsTrue
  BY DEF Answered
<1>4. QED
  BY <1>1, <1>2, <1>3, Invariance, PTL DEF Spec

\* "Not owned" is only said of a run that nothing executes (cancel_run).
THEOREM NotOwnedMeansDead == Spec => NotOwnedIsDead
<1>1. ASSUME TypeOK, IInv, [Next]_vars, NEW q \in Run,
             request'[q] = "not_owned", request[q] # "not_owned"
      PROVE  proc[q] # "live" /\ phase[q] \in {"none", "created"}
  <2>1. q \notin owners
    BY <1>1, RequestNext DEF CancelRequest, CancelAnswer, AnswerFor, TypeOK
  <2>2. phase[q] \in {"none", "created"}
    BY <1>1, <2>1 DEF IInv, Shape
  <2>3. proc[q] # "live"
    BY <1>1, <2>2 DEF IInv, Shape, Working, BodyPhase, ReapPhase
  <2>4. QED
    BY <2>2, <2>3
<1>2. TypeOK /\ IInv /\ [Next]_vars
        => [\A r \in Run : request'[r] = "not_owned" /\ request[r] # "not_owned"
                             => proc[r] # "live" /\ phase[r] \in {"none", "created"}]_vars
  BY <1>1
<1>3. QED
  BY <1>2, Invariance, PTL DEF Spec, NotOwnedIsDead
-----------------------------------------------------------------------------
(* Every step of the runner is a step of the service or leaves what the     *)
(* service promises alone.                                                  *)

MWaiting == {r \in Run : phase[r] \in {"created"} \union WaitPhase}
MInto    == [r \in Run |-> IF r \in Working THEN snapDest[r] ELSE NoDest]

LEMMA InitRefines == Init => Service!ServiceInit
  BY DEF Init, All, Service!ServiceInit, Working, WaitPhase, BodyPhase, ReapPhase

\* Steps the service does not see.
Unseen == UNCHANGED <<rowState, MWaiting, Working, MInto, asked>>

LEMMA UnseenStutters == ASSUME Unseen PROVE UNCHANGED Service!svars
  BY DEF Unseen, MWaiting, MInto, Service!svars

\* An execution that ends: what the row may become depends on what it was doing.
LEMMA EndRefines ==
  ASSUME TypeOK, IInv, NEW r \in Run,
         Reject(r) \/ BeginFails(r) \/ Finish(r) \/ CancelUnstarted(r) \/ CancelWaiting(r)
  PROVE  Service!End(r)
<1> USE DEF TypeOK, WaitPhase, BodyPhase, ReapPhase, Phase
<1>1. Settle(r) /\ phase[r] # "none"
  BY EndsAlike DEF Ended
<1>2. r \in MWaiting \union Working
  BY <1>1 DEF MWaiting, Working
<1>3. /\ MWaiting' = MWaiting \ {r}
      /\ Working' = Working \ {r}
      /\ MInto' = [MInto EXCEPT ![r] = NoDest]
      /\ asked' = asked
  BY <1>1 DEF Settle, FreeDest, FreePermit, FreeSource, MWaiting, Working, MInto
<1>4. \/ \E s \in Service!Closed :
           /\ s = "success" => r \in Working
           /\ s = "cancelled" => r \in asked
           /\ rowState' = [rowState EXCEPT ![r] = s]
      \/ UNCHANGED rowState
  <2>1. CASE Reject(r) \/ BeginFails(r)
    BY <2>1 DEF Reject, BeginFails, Terminalize, Service!Closed
  <2>2. CASE Finish(r)
    <3>1. PICK s \in {Outcome(r), "failed"} : Terminalize(r, s)
      BY <2>2 DEF Finish
    <3>2. s \in Service!Closed /\ (s = "cancelled" => r \in asked)
      BY DEF Outcome, CancelOutcome, Service!Closed
    <3>3. QED
      BY <2>2, <3>1, <3>2 DEF Finish, Terminalize
  <2>3. CASE CancelUnstarted(r)
    BY <2>3 DEF CancelUnstarted
  <2>4. CASE CancelWaiting(r)
    <3>1. CancelOutcome(r) \in Service!Closed /\ CancelOutcome(r) # "success"
          /\ (CancelOutcome(r) = "cancelled" => r \in asked)
      BY DEF CancelOutcome, Service!Closed
    <3>2. QED
      BY <2>4, <3>1 DEF CancelWaiting, Terminalize
  <2>5. QED
    BY <2>1, <2>2, <2>3, <2>4
<1>5. QED
  BY <1>2, <1>3, <1>4 DEF Service!End, MWaiting, MInto

\* A run starts working: the permit it holds is the room the service requires,
\* its claim the exclusion.
LEMMA BeginRefines ==
  ASSUME TypeOK, IInv, PermitsConserved, NEW r \in Run, GetSource(r),
         NEW d \in Dest, d = snapDest[r]
  PROVE  Service!Begin(r, d)
<1> USE DEF TypeOK, WaitPhase, BodyPhase, ReapPhase, HoldsPermit
<1>1. phase[r] = "source" /\ rowState[r] = "pending" /\ r \in owners
  BY DEF GetSource, IInv, Shape
<1>2. r \in MWaiting /\ r \notin Working
  BY <1>1 DEF MWaiting, Working
<1>3. Cardinality(Working) < Limit
  <2>1. Working \union {r} \subseteq Holders
    BY <1>1 DEF Working, Holders
  <2>2. IsFiniteSet(Working \union {r}) /\ IsFiniteSet(Working)
        /\ Cardinality(Working \union {r}) <= Cardinality(Holders)
    BY <2>1, HoldersFinite, FS_Subset
  <2>3. Cardinality(Working \union {r}) = Cardinality(Working) + 1
    BY <1>2, <2>2, FS_AddElement
  <2>4. free + Cardinality(Holders) = Limit
    BY DEF PermitsConserved, Holders
  <2>5. Cardinality(Working) \in Nat
    BY <2>2, FS_CardinalityType
  <2>6. QED
    BY <2>2, <2>3, <2>4, <2>5, HoldersFinite, LifecycleAssumption
<1>4. \A w \in Working : ~ Conflicts(d, MInto[w])
  <2> SUFFICES ASSUME NEW w \in Working PROVE ~ Conflicts(d, MInto[w])
    OBVIOUS
  <2>1. Claims(r) /\ Claims(w) /\ w # r /\ w \in Run /\ MInto[w] = snapDest[w]
    BY <1>1, <1>2 DEF Claims, Working, MInto
  <2>2. QED
    BY <2>1 DEF IInv, ClaimsDisjoint
<1>5. /\ rowState' = [rowState EXCEPT ![r] = "running"]
      /\ MWaiting' = MWaiting \ {r}
      /\ Working' = Working \union {r}
      /\ MInto' = [MInto EXCEPT ![r] = d]
      /\ asked' = asked
  <2>1. /\ phase' = [phase EXCEPT ![r] = "transfer"] /\ phase \in [Run -> Phase]
        /\ phase[r] = "source" /\ UNCHANGED <<snapDest, asked>>
        /\ rowState' = [rowState EXCEPT ![r] = "running"]
    BY DEF GetSource
  <2>2. \A q \in Run : phase'[q] = IF q = r THEN "transfer" ELSE phase[q]
    BY <2>1
  <2>3. MWaiting' = MWaiting \ {r} /\ Working' = Working \union {r}
    BY <2>1, <2>2 DEF MWaiting, Working
  <2>4. MInto' = [MInto EXCEPT ![r] = d]
    BY <1>1, <2>1, <2>3 DEF MInto
  <2>5. QED
    BY <2>1, <2>3, <2>4
<1>6. \A w \in Working : ~ Service!Conflicts(d, MInto[w])
  BY <1>4 DEF Conflicts, Service!Conflicts, Shorter, Service!Shorter
<1>7. Service!Cardinality(Working) < Limit
  BY <1>3 DEF Cardinality, Service!Cardinality
<1>8. QED
  BY <1>1, <1>2, <1>5, <1>6, <1>7 DEF Service!Begin, MWaiting, MInto

LEMMA AcceptRefines ==
  ASSUME TypeOK, IInv, NEW r \in Run, NEW t \in Task, NewPendingRun(r, t)
  PROVE  Service!Accept(r)
<1> USE DEF TypeOK, WaitPhase, BodyPhase, ReapPhase
<1>1. phase[r] = "none"
  BY DEF NewPendingRun, IInv, Shape, Phase, Working
<1>2. PICK p \in {"created", "none"} : phase' = [phase EXCEPT ![r] = p]
  BY DEF NewPendingRun
<1>3. MWaiting' \in {MWaiting, MWaiting \union {r}} /\ Working' = Working
  BY <1>1, <1>2 DEF MWaiting, Working
<1>4. MInto' = MInto
  BY <1>3 DEF NewPendingRun, resources, MInto
<1>5. QED
  BY <1>3, <1>4 DEF NewPendingRun, Service!Accept, MWaiting, MInto

\* Rows failed by the watchdog or at start-up: none of them executes.
LEMMA ReclaimRefines ==
  ASSUME TypeOK, IInv, Sweep \/ Restart
  PROVE  Service!Reclaim
<1> USE DEF TypeOK, WaitPhase, BodyPhase, ReapPhase
<1>1. MWaiting' = MWaiting /\ Working' = Working /\ MInto' = MInto /\ asked' = asked
  BY DEF Sweep, Restart, resources, MWaiting, Working, MInto
<1>2. \E dead \in SUBSET (Run \ (MWaiting \union Working)) :
        /\ \A r \in dead : rowState[r] \in Service!Open
        /\ rowState' = [r \in Run |-> IF r \in dead THEN "failed" ELSE rowState[r]]
  <2>1. CASE Sweep
    <3>1. PICK late \in SUBSET Orphans :
            rowState' = [r \in Run |-> IF r \in late THEN "failed" ELSE rowState[r]]
      BY <2>1 DEF Sweep
    <3>2. late \in SUBSET (Run \ (MWaiting \union Working))
      BY DEF Orphans, Active, MWaiting, Working, IInv, Shape
    <3>3. \A r \in late : rowState[r] \in Service!Open
      BY DEF Orphans, Active, ActiveState, Service!Open
    <3>4. QED
      BY <3>1, <3>2, <3>3
  <2>2. CASE Restart
    <3>1. Active \in SUBSET (Run \ (MWaiting \union Working))
      BY <2>2 DEF Restart, IInv, DownIsIdle, Active, MWaiting, Working
    <3>2. \A r \in Active : rowState[r] \in Service!Open
      BY DEF Active, ActiveState, Service!Open
    <3>3. QED
      BY <2>2, <3>1, <3>2 DEF Restart
  <2>3. QED
    BY <2>1, <2>2
<1>3. QED
  BY <1>1, <1>2 DEF Service!Reclaim, MWaiting, MInto

LEMMA StepRefines ==
  ASSUME TypeOK, IInv, PermitsConserved, [Next]_vars
  PROVE  [Service!ServiceNext]_(Service!svars)
<1> USE DEF TypeOK, WaitPhase, BodyPhase, ReapPhase
<1>1. ASSUME NEW r \in Run, NEW t \in Task, NewPendingRun(r, t)
      PROVE  Service!ServiceNext
  BY <1>1, AcceptRefines DEF Service!ServiceNext
<1>2. ASSUME NEW t \in Editable, NEW d \in Dest, NEW s \in Source, EditTask(t, d, s)
      PROVE  UNCHANGED Service!svars
  BY <1>2, UnseenStutters DEF EditTask, rows, resources, Unseen, MWaiting, Working, MInto
<1>3. ASSUME NEW r \in Run, RunStep(r)
      PROVE  [Service!ServiceNext]_(Service!svars)
  <2>1. CASE Reject(r) \/ BeginFails(r) \/ Finish(r) \/ CancelUnstarted(r) \/ CancelWaiting(r)
    BY <2>1, EndRefines DEF Service!ServiceNext
  <2>2. CASE GetSource(r)
    <3>1. r \in owners
      BY <2>2 DEF GetSource, IInv, Shape
    <3>2. PICK d \in Dest : d = snapDest[r]
      BY <3>1, OwnedKey
    <3>3. Service!Begin(r, d)
      BY <2>2, <3>2, BeginRefines
    <3>4. QED
      BY <3>3 DEF Service!ServiceNext
  <2>3. CASE Start(r)
    BY <2>3, UnseenStutters DEF Start, rows, Unseen, MWaiting, Working, MInto
  <2>4. CASE GetDest(r)
    BY <2>4, UnseenStutters DEF GetDest, rows, Unseen, MWaiting, Working, MInto
  <2>5. CASE GetPermit(r)
    BY <2>5, UnseenStutters DEF GetPermit, rows, Unseen, MWaiting, Working, MInto
  <2>6. CASE StartPrune(r)
    BY <2>6, UnseenStutters DEF StartPrune, NeedsPrune, rows, resources, Unseen,
       MWaiting, Working, MInto
  <2>7. CASE Deadline(r)
    BY <2>7, UnseenStutters
       DEF Deadline, UnderDeadline, rows, resources, Unseen, MWaiting, Working,
       MInto
  <2>8. CASE CancelBody(r)
    BY <2>8, UnseenStutters DEF CancelBody, rows, resources, Unseen, MWaiting, Working,
       MInto
  <2>9. CASE CancelShielded(r)
    BY <2>9, UnseenStutters DEF CancelShielded, rows, resources, Unseen, MWaiting,
       Working, MInto
  <2>10. QED
    BY <1>3, <2>1, <2>2, <2>3, <2>4, <2>5, <2>6, <2>7, <2>8, <2>9 DEF RunStep
<1>4. ASSUME NEW r \in Run, ProcExit(r) \/ Kill(r) \/ CancelAnswer(r)
      PROVE  UNCHANGED Service!svars
  BY <1>4, UnseenStutters DEF ProcExit, Kill, CancelAnswer, rows, resources, Unseen,
     MWaiting, Working, MInto
<1>5. ASSUME NEW r \in Run, CancelRequest(r)
      PROVE  [Service!ServiceNext]_(Service!svars)
  <2>1. MWaiting' = MWaiting /\ Working' = Working /\ MInto' = MInto
        /\ rowState' = rowState
    BY <1>5 DEF CancelRequest, rows, resources, MWaiting, Working, MInto
  <2>2. CASE r \in Active /\ r \in owners
    <3>1. rowState[r] \in Service!Open /\ asked' = asked \union {r}
      BY <1>5, <2>2 DEF CancelRequest, Active, ActiveState, Service!Open
    <3>2. Service!Ask(r)
      BY <2>1, <3>1 DEF Service!Ask, MWaiting, MInto
    <3>3. QED
      BY <3>2 DEF Service!ServiceNext
  <2>3. CASE ~ (r \in Active /\ r \in owners)
    <3>1. asked' = asked
      BY <1>5, <2>3 DEF CancelRequest
    <3>2. QED
      BY <2>1, <3>1, UnseenStutters DEF Unseen
  <2>4. QED
    BY <2>2, <2>3
<1>6. CASE Sweep \/ Restart
  BY <1>6, ReclaimRefines DEF Service!ServiceNext
<1>7. CASE Shutdown \/ Exit \/ UNCHANGED vars
  BY <1>7, UnseenStutters DEF Shutdown, Exit, vars, rows, resources, Unseen, MWaiting,
     Working, MInto
<1>8. CASE Crash
  <2>1. MWaiting' = {} /\ Working' = {} /\ MInto' = [r \in Run |-> NoDest]
    BY <1>8 DEF Crash, All, MWaiting, Working, MInto
  <2>2. rowState' = rowState /\ asked' = asked
    BY <1>8 DEF Crash, rows
  <2>3. Service!Die
    BY <2>1, <2>2 DEF Service!Die, MWaiting, MInto
  <2>4. QED
    BY <2>3 DEF Service!ServiceNext
<1>9. QED
  BY <1>1, <1>2, <1>3, <1>4, <1>5, <1>6, <1>7, <1>8 DEF Next, AdmitManual, AdmitDue

\* The runner implements the service it promises, for any tasks, runs, edits and
\* permits (runner.py as a whole).
THEOREM Refinement == Spec => ImplementsService
<1>1. Init => Service!ServiceInit
  BY InitRefines
<1>2. TypeOK /\ IInv /\ PermitsConserved /\ [Next]_vars
        => [Service!ServiceNext]_(Service!svars)
  BY StepRefines
<1>3. QED
  BY <1>1, <1>2, Invariance, PermitsAreConserved, PTL
     DEF Spec, ImplementsService, Service!ServiceSpec
=============================================================================
