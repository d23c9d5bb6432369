---------------------------- MODULE MCKuma_proofs ----------------------------
(* Theorems about the synchronisation with Uptime Kuma, for every value of  *)
(* the constants: the configuration of the monitor of a task, and what the  *)
(* monitor is told.                                                         *)
EXTENDS MCKuma, WellFoundedInduction, SequenceTheorems, TLAPS
-----------------------------------------------------------------------------
(* The configuration of the monitor.                                       *)

Active(r) == req[r].at # "idle"
Resident  == \A r \in Request : ~Active(r)      \* nothing is under way

\* A request that is under way and does not hold the lock is a creation.
LockKept ==
  \A r \in Request : Active(r) /\ lock # r => req[r].at \in {"create", "push"}

\* Unless an edit met an unfinished creation, one request at most is under way; it
\* knows the row as it is, and waits for what that row calls for.
Fits(v) ==
  /\ row # Config!NoRow /\ v.view = row
  /\ v.at = "create" => row.monitor = NoMonitor
  /\ v.at \in {"ops", "delete", "drop"} => row.monitor \in Monitor
OneAtATime ==
  ~overlapped => \A r \in Request : Active(r) =>
    Fits(req[r]) /\ \A q \in Request : Active(q) => q = r

\* The registered job is the one of the row, unless a request failed before it came to
\* the job; and a callback that counts is that job's own.
JobsFollow ==
  /\ \A t \in ticks : t.live => t.cron = job
  /\ ~overlapped /\ ~stranded /\ Resident => job = Config!JobOf(row)

\* A wrong interval that a process remembers is reported and owed, or the request that
\* has to repair it is under way.
Remembers(v) ==
  Config!Wrong /\ ~unowned =>
    /\ v.at \in {"idle", "push"} => failed
    /\ v.at = "idle" => pending = {} \/ "interval" \in pending
    /\ v.at = "push" => pending = {}
    /\ v.at = "ops"  => "interval" \in v.ops
DebtsKept ==
  ~overlapped => /\ Resident => Remembers(Config!Idle)
                 /\ \A r \in Request : Active(r) => Remembers(req[r])

ConfigIInv == Config!TypeOK /\ LockKept /\ OneAtATime /\ JobsFollow /\ DebtsKept

Waiting == [at : Config!Call, view : Config!Row, ops : SUBSET Config!Op]

LEMMA ConfigFacts ==
  /\ NoMonitor \notin Monitor /\ "none" \notin Given /\ Config!Free \notin Request
  /\ Config!Idle.at = "idle" /\ Config!NoRow \notin Config!Row
  /\ \A v \in Waiting : v.at # "idle" /\ v.at \in Config!Call /\ v.view \in Config!Row
                          /\ v.ops \in SUBSET Config!Op
<1>1. NoMonitor \notin Monitor /\ "none" \notin Given /\ "free" \notin Request
  BY KumaAssumption DEF Config!MonitorsAssumption
<1>2. Config!NoRow \notin Config!Row
  BY <1>1 DEF Config!NoRow, Config!Row
<1>3. QED
  BY <1>1, <1>2 DEF Config!Free, Config!Idle, Waiting, Config!Call

LEMMA ConfigInit == ASSUME Config!Init PROVE ConfigIInv
<1>1. \A r \in Request : ~Active(r)
  BY DEF Config!Init, Config!Idle, Active
<1>2. Config!TypeOK
  BY DEF Config!Init, Config!TypeOK, Config!NoRow, Config!NoJob, Config!Free, Config!NoPlan,
         Config!Gone
<1>3. ~Config!Wrong
  BY DEF Config!Init, Config!Wrong, Config!NoRow
<1>4. QED
  BY <1>1, <1>2, <1>3
     DEF Config!Init, ConfigIInv, LockKept, OneAtATime, JobsFollow, DebtsKept, Remembers,
         Config!JobOf, Config!NoRow, Config!NoJob

\* The step of one request: what is asked of its new state, and of the job and the
\* debts it leaves.
LEMMA ServeKeeps ==
  ASSUME ConfigIInv, NEW r \in Request, NEW v \in {Config!Idle} \cup Waiting,
         req' = [req EXCEPT ![r] = v],
         row' \in Config!Row \cup {Config!NoRow}, job' \in Given \cup {Config!NoJob},
         ticks' \subseteq [cron : Given, live : BOOLEAN],
         monitors' \in [Monitor -> {Config!Gone} \cup [cron : Given, active : BOOLEAN]],
         failed' \in BOOLEAN, pending' \subseteq Config!Op, unowned' \in BOOLEAN,
         overlapped' \in BOOLEAN, stranded' \in BOOLEAN, tool' = tool,
         lock' # lock => {lock, lock'} \subseteq {r, Config!Free},
         lock' = r => v.at # "idle",
         v.at # "idle" /\ lock' # r => v.at \in {"create", "push"},
         ~overlapped' => ~overlapped /\ (Active(r) \/ Resident),
         ~overlapped' /\ v.at # "idle" => Fits(v)',
         \A t \in ticks' : t.live => t.cron = job',
         ~overlapped' /\ ~stranded' /\ v.at = "idle" => job' = Config!JobOf(row)',
         ~overlapped' => Remembers(v)'
  PROVE  ConfigIInv'
<1>1. /\ \A q \in Request : req'[q] = IF q = r THEN v ELSE req[q]
      /\ req' \in [Request -> {Config!Idle} \cup Waiting]
  BY DEF ConfigIInv, Config!TypeOK, Waiting
<1>2. Config!TypeOK'
  <2>1. lock' # Config!Free => req'[lock'].at # "idle"
    BY <1>1 DEF ConfigIInv, Config!TypeOK
  <2>2. lock' \in Request \cup {Config!Free}
    BY DEF ConfigIInv, Config!TypeOK
  <2>3. QED
    BY <1>1, <2>1, <2>2 DEF ConfigIInv, Config!TypeOK, Waiting
<1>3. LockKept'
  BY <1>1, ConfigFacts DEF ConfigIInv, LockKept, Active
<1>4. ASSUME ~overlapped' PROVE \A q \in Request : q # r => ~Active(q)'
  BY <1>1, <1>4 DEF ConfigIInv, OneAtATime, Active, Resident
<1>5. OneAtATime'
  BY <1>1, <1>4 DEF OneAtATime, Active
<1>6. JobsFollow'
  BY <1>1 DEF JobsFollow, Resident, Active
<1>7. DebtsKept'
  <2>1. ASSUME ~overlapped', Resident' PROVE Remembers(Config!Idle)'
    <3>1. v.at = "idle"
      BY <1>1, <2>1 DEF Resident, Active
    <3>2. v = Config!Idle
      BY <3>1, ConfigFacts
    <3>3. QED
      BY <2>1, <3>2
  <2>2. ASSUME ~overlapped', NEW q \in Request, Active(q)' PROVE Remembers(req[q])'
    BY <1>1, <1>4, <2>2
  <2>3. QED
    BY <2>1, <2>2 DEF DebtsKept
<1>8. QED
  BY <1>2, <1>3, <1>5, <1>6, <1>7 DEF ConfigIInv

LEMMA RegisterIs ==
  ASSUME ConfigIInv, NEW j \in Given \cup {Config!NoJob}, Config!Register(j)
  PROVE  /\ job' = j /\ ~stranded' /\ stranded' \in BOOLEAN
         /\ ticks' \subseteq [cron : Given, live : BOOLEAN]
         /\ \A t \in ticks' : ~t.live
<1>1. ticks \subseteq [cron : Given, live : BOOLEAN]
  BY DEF ConfigIInv, Config!TypeOK
<1>2. /\ job' = j /\ stranded' = FALSE
      /\ ticks' = {[t EXCEPT !.live = FALSE] : t \in ticks}
  BY DEF Config!Register
<1>3. ASSUME NEW t \in ticks
      PROVE  /\ [t EXCEPT !.live = FALSE] \in [cron : Given, live : BOOLEAN]
             /\ ~[t EXCEPT !.live = FALSE].live
  BY <1>1, <1>3
<1>4. QED
  BY <1>2, <1>3

LEMMA JobTyped ==
  ASSUME NEW view \in Config!Row \cup {Config!NoRow}
  PROVE  Config!JobOf(view) \in Given \cup {Config!NoJob}
BY DEF Config!JobOf, Config!Row, Config!NoRow, Config!NoJob

LEMMA KeepJobIs ==
  ASSUME ConfigIInv, Config!KeepJob
  PROVE  /\ job' \in Given \cup {Config!NoJob} /\ stranded' \in BOOLEAN
         /\ ticks' \subseteq [cron : Given, live : BOOLEAN]
         /\ \A t \in ticks' : t.live => t.cron = job'
BY DEF ConfigIInv, Config!TypeOK, JobsFollow, Config!KeepJob

\* The two ways in which a request goes on.
LEMMA ReturnIs ==
  ASSUME ConfigIInv, NEW r \in Request, NEW view \in Config!Row \cup {Config!NoRow},
         Config!Return(r, view)
  PROVE  /\ req' = [req EXCEPT ![r] = Config!Idle]
         /\ lock' # lock => {lock, lock'} \subseteq {r, Config!Free}
         /\ lock' # r
         /\ job' = Config!JobOf(view) /\ job' \in Given \cup {Config!NoJob}
         /\ stranded' \in BOOLEAN
         /\ ticks' \subseteq [cron : Given, live : BOOLEAN]
         /\ \A t \in ticks' : t.live => t.cron = job'
BY JobTyped, RegisterIs, ConfigFacts DEF Config!Return

LEMMA AwaitIs ==
  ASSUME ConfigIInv, NEW r \in Request, NEW what \in Config!Call, NEW view \in Config!Row,
         NEW ops \in SUBSET Config!Op, Config!Await(r, what, view, ops)
  PROVE  \E v \in Waiting :
           /\ req' = [req EXCEPT ![r] = v]
           /\ v.at = what /\ v.view = view /\ v.ops = ops
           /\ job' \in Given \cup {Config!NoJob} /\ stranded' \in BOOLEAN
           /\ ticks' \subseteq [cron : Given, live : BOOLEAN]
           /\ \A t \in ticks' : t.live => t.cron = job'
<1> DEFINE v == [at |-> what, view |-> view, ops |-> ops]
<1>1. v \in Waiting
  BY DEF Waiting
<1>2. req' = [req EXCEPT ![r] = v] /\ Config!KeepJob
  BY DEF Config!Await
<1>3. v.at = what /\ v.view = view /\ v.ops = ops
  OBVIOUS
<1> HIDE DEF v
<1>4. QED
  BY <1>1, <1>2, <1>3, KeepJobIs

\* What a request knows of the row, and that it is alone.
LEMMA ServedIs ==
  ASSUME ConfigIInv, NEW r \in Request, Active(r)
  PROVE  /\ req[r] \in Waiting /\ req[r].at \in Config!Call
         /\ req[r].view \in Config!Row /\ req[r].ops \in SUBSET Config!Op
         /\ req[r].at \notin {"create", "push"} => lock = r
         /\ ~overlapped => Fits(req[r]) /\ Remembers(req[r]) /\ row \in Config!Row
<1>1. req[r] \in Waiting
  BY DEF ConfigIInv, Config!TypeOK, Active, Waiting, Config!Idle
<1>2. row \in Config!Row \cup {Config!NoRow}
  BY DEF ConfigIInv, Config!TypeOK
<1>3. QED
  BY <1>1, <1>2, ConfigFacts DEF ConfigIInv, LockKept, OneAtATime, DebtsKept, Fits

\* Before a request that may start on an existing row there is none.
LEMMA NobodyElse ==
  ASSUME ConfigIInv, lock = Config!Free, ~Config!Creating
  PROVE  Resident
BY ConfigFacts DEF Config!Creating, Resident, Active

\* What a step that is no change of the tool leaves to whom.
Disowns == unowned' \in BOOLEAN /\ (Config!Wrong' /\ ~unowned' => ~unowned)

LEMMA ConfigTypes ==
  ASSUME ConfigIInv
  PROVE  /\ row \in Config!Row \cup {Config!NoRow} /\ job \in Given \cup {Config!NoJob}
         /\ ticks \subseteq [cron : Given, live : BOOLEAN]
         /\ lock \in Request \cup {Config!Free}
         /\ monitors \in [Monitor -> {Config!Gone} \cup [cron : Given, active : BOOLEAN]]
         /\ failed \in BOOLEAN /\ pending \subseteq Config!Op /\ unowned \in BOOLEAN
         /\ overlapped \in BOOLEAN /\ stranded \in BOOLEAN
         /\ \A r \in Request : ~Active(r) => req[r] = Config!Idle /\ lock # r
<1>1. \A r \in Request : req[r] \in {Config!Idle} \cup Waiting
  BY DEF ConfigIInv, Config!TypeOK, Waiting
<1>2. \A r \in Request : ~Active(r) => req[r] = Config!Idle
  BY <1>1, ConfigFacts DEF Active
<1>3. \A r \in Request : ~Active(r) => lock # r
  BY ConfigFacts DEF ConfigIInv, Config!TypeOK, Active
<1>4. QED
  BY <1>2, <1>3 DEF ConfigIInv, Config!TypeOK

\* What every step of a request does to the rest of the state.
Tame(r) ==
  /\ row' \in Config!Row \cup {Config!NoRow}
  /\ monitors' \in [Monitor -> {Config!Gone} \cup [cron : Given, active : BOOLEAN]]
  /\ failed' \in BOOLEAN /\ pending' \subseteq Config!Op /\ overlapped' \in BOOLEAN
  /\ tool' = tool
  /\ ~overlapped' => ~overlapped /\ (Active(r) \/ Resident)

LEMMA AwaitKeeps ==
  ASSUME ConfigIInv, Disowns, NEW r \in Request, Tame(r), NEW what \in Config!Call,
         NEW view \in Config!Row, NEW ops \in SUBSET Config!Op,
         Config!Await(r, what, view, ops),
         lock' = r \/ (what \in {"create", "push"} /\ lock' = lock),
         lock \in {r, Config!Free} \/ lock' = lock,
         ~overlapped' =>
           /\ row' = view
           /\ what = "create" => view.monitor = NoMonitor
           /\ what \in {"ops", "delete", "drop"} => view.monitor \in Monitor
           /\ Config!Wrong' /\ ~unowned' => /\ what = "push" => failed' /\ pending' = {}
                                            /\ what = "ops" => "interval" \in ops
  PROVE  ConfigIInv'
<1>1. PICK v \in Waiting :
        /\ req' = [req EXCEPT ![r] = v]
        /\ v.at = what /\ v.view = view /\ v.ops = ops
        /\ job' \in Given \cup {Config!NoJob} /\ stranded' \in BOOLEAN
        /\ ticks' \subseteq [cron : Given, live : BOOLEAN]
        /\ \A t \in ticks' : t.live => t.cron = job'
  BY AwaitIs
<1>2. v.at # "idle"
  BY ConfigFacts
<1>3. ~overlapped' => Fits(v)' /\ Remembers(v)'
  BY <1>1, <1>2, ConfigFacts DEF Fits, Remembers
<1>4. QED
  BY <1>1, <1>2, <1>3, ServeKeeps DEF Disowns, Tame

LEMMA ReturnKeeps ==
  ASSUME ConfigIInv, Disowns, NEW r \in Request, Tame(r),
         NEW view \in Config!Row \cup {Config!NoRow}, Config!Return(r, view),
         ~overlapped' =>
           /\ row' = view
           /\ Config!Wrong' /\ ~unowned' =>
                failed' /\ (pending' = {} \/ "interval" \in pending')
  PROVE  ConfigIInv'
<1>1. /\ req' = [req EXCEPT ![r] = Config!Idle]
      /\ lock' # lock => {lock, lock'} \subseteq {r, Config!Free}
      /\ lock' # r
      /\ job' = Config!JobOf(view) /\ job' \in Given \cup {Config!NoJob}
      /\ stranded' \in BOOLEAN
      /\ ticks' \subseteq [cron : Given, live : BOOLEAN]
      /\ \A t \in ticks' : t.live => t.cron = job'
  BY ReturnIs
<1>2. ~overlapped' => Remembers(Config!Idle)' /\ job' = Config!JobOf(row)'
  BY <1>1, ConfigFacts DEF Remembers, Config!JobOf
<1>3. QED
  BY <1>1, <1>2, ConfigFacts, ServeKeeps DEF Disowns, Tame

\* The push at the end of a synchronisation, and the return of a task without monitor.
LEMMA PushKeeps ==
  ASSUME ConfigIInv, Disowns, NEW r \in Request, Tame(r), NEW view \in Config!Row,
         Config!PushAndReturn(r, view), pending' = {}, lock = r \/ req[r].at = "create",
         ~overlapped' => row' = view /\ ~(Config!Wrong' /\ ~unowned')
  PROVE  ConfigIInv'
<1>1. CASE Config!Return(r, view)
  BY <1>1, ReturnKeeps
<1>2. CASE Config!Await(r, "push", view, {}) /\ UNCHANGED lock
  <2>1. "push" \in Config!Call /\ {} \in SUBSET Config!Op
    BY DEF Config!Call
  <2>2. QED
    BY <1>2, <2>1, AwaitKeeps
<1>3. QED
  BY <1>1, <1>2 DEF Config!PushAndReturn

LEMMA CreateKeeps ==
  ASSUME ConfigIInv, Disowns, NEW r \in Request, NEW f \in Config!Fields, Config!Create(r, f)
  PROVE  ConfigIInv'
<1> DEFINE view == Config!With(Config!NoRow, f)
<1>1. /\ view \in Config!Row /\ view.monitor = NoMonitor
  BY DEF Config!With, Config!NoRow, Config!Row, Config!Fields
<1>2. /\ row = Config!NoRow /\ row' = view
      /\ UNCHANGED <<monitors, failed, pending, tool, overlapped>>
      /\ \/ Config!Await(r, "create", view, {}) /\ UNCHANGED lock
         \/ Config!Return(r, view)
  BY DEF Config!Create, Config!Exists
<1> HIDE DEF view
<1>3. Tame(r) /\ ~Config!Wrong'
  <2>1. ~overlapped => Resident
    BY <1>2 DEF ConfigIInv, OneAtATime, Fits, Resident
  <2>2. QED
    BY <1>1, <1>2, <2>1, ConfigTypes DEF Tame, Config!Wrong
<1>4. "create" \in Config!Call /\ {} \in SUBSET Config!Op
  BY DEF Config!Call
<1>5. QED
  BY <1>1, <1>2, <1>3, <1>4, AwaitKeeps, ReturnKeeps

LEMMA UpdateKeeps ==
  ASSUME ConfigIInv, Disowns, NEW r \in Request, NEW f \in Config!Fields, Config!Update(r, f)
  PROVE  ConfigIInv'
<1> DEFINE view == Config!With(row, f)
           ops  == Config!Owed(row, view)
<1>1. /\ lock = Config!Free /\ row # Config!NoRow /\ row' = view
      /\ overlapped' = (overlapped \/ Config!Creating)
      /\ UNCHANGED <<monitors, failed, pending, tool>>
  BY DEF Config!Update, Config!Exists
<1>2. /\ row \in Config!Row /\ view \in Config!Row /\ ops \in SUBSET Config!Op
      /\ view.monitor = row.monitor /\ row.monitor \in Monitor \cup {NoMonitor}
  <2>1. row \in Config!Row
    BY <1>1, ConfigTypes
  <2>2. view \in Config!Row /\ view.monitor = row.monitor
    BY <2>1 DEF Config!With, Config!Row, Config!Fields
  <2>3. ops \in SUBSET Config!Op
    BY ConfigTypes DEF Config!Owed, Config!Op
  <2>4. QED
    BY <2>1, <2>2, <2>3 DEF Config!Row
<1>3. overlapped' \in BOOLEAN /\ (~overlapped' => ~overlapped /\ Resident)
  BY <1>1, ConfigTypes, NobodyElse
<1>4. Tame(r)
  BY <1>1, <1>2, <1>3, ConfigTypes DEF Tame
<1>5. /\ "interval" \notin ops => view.cron = row.cron /\ ops = pending
      /\ ops = {} => view.cron = row.cron /\ pending = {}
      /\ pending \subseteq ops
  BY DEF Config!Owed
<1>6. /\ view.kuma /\ view.monitor = NoMonitor =>
           Config!Await(r, "create", view, {}) /\ lock' = r
      /\ view.kuma /\ view.monitor # NoMonitor /\ ops # {} =>
           Config!Await(r, "ops", view, ops) /\ lock' = r
      /\ view.kuma /\ view.monitor # NoMonitor /\ ops = {} =>
           Config!Await(r, "push", view, {}) /\ lock' = r
      /\ ~view.kuma /\ view.monitor # NoMonitor =>
           Config!Await(r, "delete", view, {}) /\ lock' = r
      /\ ~view.kuma /\ view.monitor = NoMonitor => Config!Return(r, view)
  BY DEF Config!Update
<1> HIDE DEF view, ops
<1>7. {"create", "ops", "push", "delete"} \subseteq Config!Call /\ {} \in SUBSET Config!Op
  BY DEF Config!Call
<1>8. ~overlapped' /\ Config!Wrong' /\ ~unowned' =>
        /\ view.monitor # NoMonitor
        /\ view.cron = row.cron =>
             failed' /\ (pending' = {} \/ "interval" \in pending')
  <2>1. Config!Wrong' => view.monitor # NoMonitor
    BY <1>1 DEF Config!Wrong
  <2>2. Config!Wrong' /\ view.cron = row.cron => Config!Wrong
    BY <1>1, <1>2 DEF Config!Wrong
  <2>3. ~overlapped' => Remembers(Config!Idle)
    BY <1>3 DEF ConfigIInv, DebtsKept
  <2>4. QED
    BY <1>1, <2>1, <2>2, <2>3, ConfigFacts DEF Remembers, Disowns
<1>9. CASE view.kuma /\ view.monitor = NoMonitor
  BY <1>1, <1>2, <1>4, <1>6, <1>7, <1>8, <1>9, AwaitKeeps
<1>10. CASE view.kuma /\ view.monitor # NoMonitor /\ ops # {}
  <2>1. ~overlapped' /\ Config!Wrong' /\ ~unowned' => "interval" \in ops
    BY <1>1, <1>5, <1>8, <1>10
  <2>2. QED
    BY <1>1, <1>2, <1>4, <1>6, <1>7, <1>10, <2>1, AwaitKeeps
<1>11. CASE view.kuma /\ view.monitor # NoMonitor /\ ops = {}
  BY <1>1, <1>2, <1>4, <1>5, <1>6, <1>7, <1>8, <1>11, AwaitKeeps
<1>12. CASE ~view.kuma /\ view.monitor # NoMonitor
  BY <1>1, <1>2, <1>4, <1>6, <1>7, <1>12, AwaitKeeps
<1>13. CASE ~view.kuma /\ view.monitor = NoMonitor
  BY <1>1, <1>2, <1>4, <1>6, <1>8, <1>13, ReturnKeeps
<1>14. QED
  BY <1>9, <1>10, <1>11, <1>12, <1>13

LEMMA DeleteKeeps ==
  ASSUME ConfigIInv, Disowns, NEW r \in Request, Config!Delete(r)
  PROVE  ConfigIInv'
<1>1. /\ ~Active(r) /\ lock = Config!Free /\ row # Config!NoRow
      /\ overlapped' = (overlapped \/ Config!Creating)
      /\ UNCHANGED <<monitors, failed, pending, tool>>
  BY DEF Config!Delete, Config!Exists, Active
<1>2. row \in Config!Row /\ row.monitor \in Monitor \cup {NoMonitor}
  <2>1. row \in Config!Row
    BY <1>1, ConfigTypes
  <2>2. QED
    BY <2>1 DEF Config!Row
<1>3. overlapped' \in BOOLEAN /\ (~overlapped' => ~overlapped /\ Resident)
  BY <1>1, ConfigTypes, NobodyElse
<1>4. CASE row.monitor # NoMonitor
  <2>1. Config!Await(r, "drop", row, {}) /\ lock' = r /\ row' = row
    BY <1>4 DEF Config!Delete
  <2>2. Tame(r)
    BY <1>1, <1>2, <1>3, <2>1, ConfigTypes DEF Tame
  <2>3. "drop" \in Config!Call /\ {} \in SUBSET Config!Op
    BY DEF Config!Call
  <2>4. QED
    BY <1>1, <1>2, <1>4, <2>1, <2>2, <2>3, AwaitKeeps
<1>5. CASE row.monitor = NoMonitor
  <2>1. Config!Forget /\ UNCHANGED <<req, lock>>
    BY <1>5 DEF Config!Delete
  <2>2. row' = Config!NoRow /\ Config!Register(Config!NoJob)
    BY <2>1 DEF Config!Forget
  <2>3. /\ job' = Config!NoJob /\ stranded' \in BOOLEAN
        /\ ticks' \subseteq [cron : Given, live : BOOLEAN]
        /\ \A t \in ticks' : ~t.live
    BY <2>2, RegisterIs
  <2>4. req[r] = Config!Idle /\ req \in [Request -> {Config!Idle} \cup Waiting]
    BY <1>1, ConfigTypes DEF ConfigIInv, Config!TypeOK, Waiting
  <2>5. req' = [req EXCEPT ![r] = Config!Idle]
    BY <2>1, <2>4
  <2>6. ~Config!Wrong' /\ Config!JobOf(row)' = Config!NoJob
    BY <2>2 DEF Config!Wrong, Config!NoRow, Config!JobOf
  <2>7. Remembers(Config!Idle)'
    BY <2>6 DEF Remembers
  <2>8. lock' # r
    BY <1>1, <2>1, ConfigFacts
  <2>9. QED
    BY <1>1, <1>3, <2>1, <2>2, <2>3, <2>5, <2>6, <2>7, <2>8, ConfigTypes, ConfigFacts,
       ServeKeeps DEF Disowns
<1>6. QED
  BY <1>4, <1>5

LEMMA CreateDoneKeeps ==
  ASSUME ConfigIInv, Disowns, NEW r \in Request, NEW m \in Monitor, Config!CreateDone(r, m)
  PROVE  ConfigIInv'
<1>0. PICK view : view = req[r].view
  OBVIOUS
<1>1. /\ Active(r) /\ req[r].at = "create"
      /\ monitors' = [monitors EXCEPT ![m] = Config!Born(view.cron)]
      /\ UNCHANGED <<tool, overlapped>>
  BY <1>0 DEF Config!CreateDone, Active
<1>2. view \in Config!Row /\ (~overlapped => Fits(req[r]))
  BY <1>0, <1>1, ServedIs
<1>3. Config!Born(view.cron) \in [cron : Given, active : BOOLEAN]
  BY <1>2 DEF Config!Born, Config!Row
<1>4. /\ monitors' \in [Monitor -> {Config!Gone} \cup [cron : Given, active : BOOLEAN]]
      /\ monitors'[m] = Config!Born(view.cron)
  BY <1>1, <1>3, ConfigTypes
<1>5. CASE row # Config!NoRow
  <2>1. /\ row' = [row EXCEPT !.monitor = m] /\ Config!Cleared
        /\ Config!PushAndReturn(r, row')
    BY <1>5 DEF Config!CreateDone, Config!Exists
  <2>2. row \in Config!Row
    BY <1>5, ConfigTypes
  <2>3. row' \in Config!Row /\ row'.monitor = m /\ row'.cron = row.cron
    BY <2>1, <2>2 DEF Config!Row
  <2>4. ~overlapped' => ~Config!Wrong'
    <3>1. ~overlapped => view = row
      BY <1>0, <1>2 DEF Fits
    <3>2. ~overlapped => monitors'[m] # Config!Gone /\ monitors'[m].cron = row'.cron
      BY <1>4, <2>3, <3>1 DEF Config!Born, Config!Gone
    <3>3. QED
      BY <1>1, <2>3, <3>2 DEF Config!Wrong
  <2>5. failed' = FALSE /\ pending' = {}
    BY <2>1 DEF Config!Cleared
  <2>6. Tame(r)
    BY <1>1, <1>4, <2>3, <2>5, ConfigTypes DEF Tame
  <2>7. QED
    BY <1>1, <2>1, <2>3, <2>4, <2>5, <2>6, PushKeeps
<1>6. CASE row = Config!NoRow
  <2>1. /\ req' = [req EXCEPT ![r] = Config!Idle]
        /\ lock' = IF lock = r THEN Config!Free ELSE lock
        /\ Config!KeepJob /\ UNCHANGED <<failed, pending, row>>
    BY <1>6 DEF Config!CreateDone, Config!Exists, Config!KeepDebt
  <2>2. overlapped' /\ overlapped' \in BOOLEAN
    BY <1>1, <1>2, <1>6, ConfigTypes DEF Fits
  <2>3. /\ job' \in Given \cup {Config!NoJob} /\ stranded' \in BOOLEAN
        /\ ticks' \subseteq [cron : Given, live : BOOLEAN]
        /\ \A t \in ticks' : t.live => t.cron = job'
    BY <2>1, KeepJobIs
  <2>4. lock' # r /\ (lock' # lock => {lock, lock'} \subseteq {r, Config!Free})
    BY <2>1, ConfigFacts
  <2>5. QED
    BY <1>1, <1>4, <2>1, <2>2, <2>3, <2>4, ConfigTypes, ConfigFacts, ServeKeeps DEF Disowns
<1>7. QED
  BY <1>5, <1>6

LEMMA CreateFailsKeeps ==
  ASSUME ConfigIInv, Disowns, NEW r \in Request, Config!CreateFails(r)
  PROVE  ConfigIInv'
<1>0. PICK view : view = req[r].view
  OBVIOUS
<1>1. /\ Active(r) /\ req[r].at = "create"
      /\ \/ monitors' = monitors
         \/ \E m \in Monitor : monitors' = [monitors EXCEPT ![m] = Config!Born(view.cron)]
      /\ Config!Return(r, view)
      /\ failed' = TRUE /\ pending' = {}
      /\ UNCHANGED <<row, tool, overlapped>>
  BY <1>0 DEF Config!CreateFails, Config!Recorded, Active
<1>2. view \in Config!Row /\ (~overlapped => Fits(req[r]))
  BY <1>0, <1>1, ServedIs
<1>3. Config!Born(view.cron) \in [cron : Given, active : BOOLEAN]
  BY <1>2 DEF Config!Born, Config!Row
<1>4. monitors' \in [Monitor -> {Config!Gone} \cup [cron : Given, active : BOOLEAN]]
  BY <1>1, <1>3, ConfigTypes
<1>5. Tame(r)
  BY <1>1, <1>4, ConfigTypes DEF Tame
<1>6. ~overlapped' => row' = view
  BY <1>0, <1>1, <1>2 DEF Fits
<1>7. QED
  BY <1>1, <1>2, <1>5, <1>6, ReturnKeeps

\* An operation that reached Kuma leaves a wrong interval only if it was not that one.
LEMMA AppliedIs ==
  ASSUME ConfigIInv, NEW r \in Request, req[r].at = "ops",
         monitors[req[r].view.monitor] # Config!Gone,
         Config!Applied(Config!NextOp(req[r].ops), req[r].view)
  PROVE  /\ monitors' \in [Monitor -> {Config!Gone} \cup [cron : Given, active : BOOLEAN]]
         /\ ~overlapped /\ row' = row =>
              (Config!Wrong' => Config!Wrong /\ "interval" \notin req[r].ops)
<1>0. PICK view, ops, m : view = req[r].view /\ ops = req[r].ops /\ m = view.monitor
  OBVIOUS
<1>1. Active(r)
  BY DEF Active
<1>2. /\ view \in Config!Row /\ view.cron \in Given /\ view.enabled \in BOOLEAN
      /\ ~overlapped => view = row /\ m \in Monitor
  <2>1. view \in Config!Row /\ (~overlapped => Fits(req[r]))
    BY <1>0, <1>1, ServedIs
  <2>2. QED
    BY <1>0, <2>1 DEF Fits, Config!Row
<1>3. monitors \in [Monitor -> {Config!Gone} \cup [cron : Given, active : BOOLEAN]]
  BY ConfigTypes
<1>4. m \in Monitor => monitors[m] \in [cron : Given, active : BOOLEAN]
  BY <1>0, <1>3
<1>5. CASE "interval" \in ops
  <2>1. monitors' = [monitors EXCEPT ![m] = [@ EXCEPT !.cron = view.cron]]
    BY <1>0, <1>5 DEF Config!Applied, Config!NextOp
  <2>2. m \in Monitor => /\ [monitors[m] EXCEPT !.cron = view.cron] \in [cron : Given, active : BOOLEAN]
                         /\ [monitors[m] EXCEPT !.cron = view.cron].cron = view.cron
    BY <1>2, <1>4
  <2>3. monitors' \in [Monitor -> {Config!Gone} \cup [cron : Given, active : BOOLEAN]]
    BY <1>3, <2>1, <2>2
  <2>4. m \in Monitor => monitors'[m] \in [cron : Given, active : BOOLEAN] /\ monitors'[m].cron = view.cron
    BY <1>3, <2>1, <2>2
  <2>5. ASSUME ~overlapped, row' = row PROVE ~Config!Wrong'
    <3>1. monitors'[m] # Config!Gone /\ monitors'[m].cron = row.cron /\ row'.monitor = m
      BY <1>0, <1>2, <2>4, <2>5, ConfigFacts DEF Config!Gone
    <3>2. QED
      BY <2>5, <3>1 DEF Config!Wrong
  <2>6. QED
    BY <2>3, <2>5
<1>6. CASE "interval" \notin ops
  <2>1. monitors' = [monitors EXCEPT ![m] = [@ EXCEPT !.active = view.enabled]]
    BY <1>0, <1>6 DEF Config!Applied, Config!NextOp
  <2>2. m \in Monitor =>
          /\ [monitors[m] EXCEPT !.active = view.enabled] \in [cron : Given, active : BOOLEAN]
          /\ [monitors[m] EXCEPT !.active = view.enabled].cron = monitors[m].cron
    BY <1>2, <1>4
  <2>3. monitors' \in [Monitor -> {Config!Gone} \cup [cron : Given, active : BOOLEAN]]
    BY <1>3, <2>1, <2>2
  <2>4. m \in Monitor => /\ monitors'[m] \in [cron : Given, active : BOOLEAN]
                         /\ monitors'[m].cron = monitors[m].cron
    BY <1>3, <2>1, <2>2
  <2>5. ASSUME ~overlapped, row' = row, Config!Wrong' PROVE Config!Wrong
    <3>1. /\ monitors'[m] # Config!Gone /\ monitors'[m].cron = monitors[m].cron
          /\ row'.monitor = m /\ row.monitor = m
      BY <1>0, <1>2, <2>4, <2>5, ConfigFacts DEF Config!Gone
    <3>2. QED
      BY <2>5, <3>1 DEF Config!Wrong
  <2>6. QED
    BY <1>0, <1>6, <2>3, <2>5
<1>7. QED
  BY <1>5, <1>6

LEMMA OpDoneKeeps ==
  ASSUME ConfigIInv, Disowns, NEW r \in Request, Config!OpDone(r)
  PROVE  ConfigIInv'
<1>0. PICK view, ops, rest :
        view = req[r].view /\ ops = req[r].ops /\ rest = ops \ {Config!NextOp(ops)}
  OBVIOUS
<1>1. /\ Active(r) /\ req[r].at = "ops" /\ monitors[req[r].view.monitor] # Config!Gone
      /\ Config!Applied(Config!NextOp(req[r].ops), req[r].view)
      /\ UNCHANGED <<row, tool, overlapped>>
      /\ \/ rest # {} /\ Config!Await(r, "ops", view, rest) /\ Config!KeepDebt /\ UNCHANGED lock
         \/ rest = {} /\ Config!Cleared /\ Config!PushAndReturn(r, view)
  BY <1>0 DEF Config!OpDone, Active
<1>2. /\ view \in Config!Row /\ rest \in SUBSET Config!Op /\ lock = r
      /\ ~overlapped => Fits(req[r]) /\ Remembers(req[r])
  BY <1>0, <1>1, ServedIs
<1>3. /\ monitors' \in [Monitor -> {Config!Gone} \cup [cron : Given, active : BOOLEAN]]
      /\ ~overlapped => (Config!Wrong' => Config!Wrong /\ "interval" \notin ops)
  BY <1>0, <1>1, AppliedIs
<1>4. ~overlapped' => row' = view /\ ~(Config!Wrong' /\ ~unowned') /\ view.monitor \in Monitor
  BY <1>0, <1>1, <1>2, <1>3, ConfigFacts DEF Fits, Remembers, Disowns
<1>5. CASE rest # {} /\ Config!Await(r, "ops", view, rest) /\ Config!KeepDebt /\ UNCHANGED lock
  <2>1. UNCHANGED <<failed, pending>>
    BY <1>5 DEF Config!KeepDebt
  <2>2. Tame(r)
    BY <1>1, <1>3, <2>1, ConfigTypes DEF Tame
  <2>3. "ops" \in Config!Call
    BY DEF Config!Call
  <2>4. QED
    BY <1>2, <1>4, <1>5, <2>2, <2>3, AwaitKeeps
<1>6. CASE rest = {} /\ Config!Cleared /\ Config!PushAndReturn(r, view)
  <2>1. failed' = FALSE /\ pending' = {}
    BY <1>6 DEF Config!Cleared
  <2>2. Tame(r)
    BY <1>1, <1>3, <2>1, ConfigTypes DEF Tame
  <2>3. QED
    BY <1>2, <1>4, <1>6, <2>1, <2>2, PushKeeps
<1>7. QED
  BY <1>1, <1>5, <1>6

LEMMA OpFailsKeeps ==
  ASSUME ConfigIInv, Disowns, NEW r \in Request, Config!OpFails(r)
  PROVE  ConfigIInv'
<1>0. PICK view, ops : view = req[r].view /\ ops = req[r].ops
  OBVIOUS
<1>1. /\ Active(r) /\ req[r].at = "ops" /\ Config!Return(r, view)
      /\ UNCHANGED <<row, tool, overlapped>> /\ failed' = TRUE /\ pending' = ops
      /\ \/ UNCHANGED monitors
         \/ /\ monitors[req[r].view.monitor] # Config!Gone
            /\ Config!Applied(Config!NextOp(req[r].ops), req[r].view)
  BY <1>0 DEF Config!OpFails, Config!Recorded, Active
<1>2. /\ view \in Config!Row /\ ops \in SUBSET Config!Op
      /\ ~overlapped => Fits(req[r]) /\ Remembers(req[r])
  BY <1>0, <1>1, ServedIs
<1>3. /\ monitors' \in [Monitor -> {Config!Gone} \cup [cron : Given, active : BOOLEAN]]
      /\ ~overlapped => (Config!Wrong' => Config!Wrong)
  <2>1. CASE UNCHANGED monitors
    BY <1>1, <2>1, ConfigTypes DEF Config!Wrong
  <2>2. CASE /\ monitors[req[r].view.monitor] # Config!Gone
             /\ Config!Applied(Config!NextOp(req[r].ops), req[r].view)
    BY <1>1, <2>2, AppliedIs
  <2>3. QED
    BY <1>1, <2>1, <2>2
<1>4. ~overlapped' => /\ row' = view
                      /\ Config!Wrong' /\ ~unowned' => "interval" \in pending'
  BY <1>0, <1>1, <1>2, <1>3, ConfigFacts DEF Fits, Remembers, Disowns
<1>5. Tame(r)
  BY <1>1, <1>2, <1>3, ConfigTypes DEF Tame
<1>6. QED
  BY <1>1, <1>2, <1>4, <1>5, ReturnKeeps

\* Kuma deletes a monitor, or does not.
LEMMA GoneIs ==
  ASSUME ConfigIInv, NEW m,
         monitors' \in {monitors, [monitors EXCEPT ![m] = Config!Gone]}
  PROVE  monitors' \in [Monitor -> {Config!Gone} \cup [cron : Given, active : BOOLEAN]]
BY ConfigTypes

LEMMA DeleteDoneKeeps ==
  ASSUME ConfigIInv, Disowns, NEW r \in Request, Config!DeleteDone(r)
  PROVE  ConfigIInv'
<1>0. PICK m : m = req[r].view.monitor
  OBVIOUS
<1>1. /\ Active(r) /\ row' = [row EXCEPT !.monitor = NoMonitor]
      /\ monitors' = [monitors EXCEPT ![m] = Config!Gone]
      /\ failed' = FALSE /\ pending' = {} /\ UNCHANGED <<tool, overlapped>>
      /\ Config!PushAndReturn(r, row')
  BY <1>0 DEF Config!DeleteDone, Config!Cleared, Active
<1>2. row' \in Config!Row \cup {Config!NoRow} /\ row'.monitor = NoMonitor
  <2>1. row \in Config!Row \cup {Config!NoRow}
    BY ConfigTypes
  <2>2. CASE row \in Config!Row
    BY <1>1, <2>2 DEF Config!Row
  <2>3. CASE row = Config!NoRow
    BY <1>1, <2>3 DEF Config!NoRow
  <2>4. QED
    BY <2>1, <2>2, <2>3
<1>3. Config!Return(r, row') /\ ~Config!Wrong'
  BY <1>1, <1>2 DEF Config!PushAndReturn, Config!Wrong
<1>4. Tame(r)
  BY <1>1, <1>2, GoneIs, ConfigTypes DEF Tame
<1>5. QED
  BY <1>2, <1>3, <1>4, ReturnKeeps

LEMMA DeleteFailsKeeps ==
  ASSUME ConfigIInv, Disowns, NEW r \in Request, Config!DeleteFails(r)
  PROVE  ConfigIInv'
<1>0. PICK view : view = req[r].view
  OBVIOUS
<1>1. /\ Active(r) /\ Config!Return(r, view)
      /\ monitors' \in {monitors, [monitors EXCEPT ![view.monitor] = Config!Gone]}
      /\ failed' = TRUE /\ pending' = {} /\ UNCHANGED <<row, tool, overlapped>>
  BY <1>0 DEF Config!DeleteFails, Config!Recorded, Active
<1>2. view \in Config!Row /\ (~overlapped => row = view)
  BY <1>0, <1>1, ServedIs DEF Fits
<1>3. Tame(r)
  BY <1>1, GoneIs, ConfigTypes DEF Tame
<1>4. QED
  BY <1>1, <1>2, <1>3, ReturnKeeps

LEMMA DropEndsKeeps ==
  ASSUME ConfigIInv, Disowns, NEW r \in Request, Config!DropEnds(r)
  PROVE  ConfigIInv'
<1>0. PICK m : m = req[r].view.monitor
  OBVIOUS
<1>1. /\ Active(r) /\ req[r].at = "drop"
      /\ monitors' \in {monitors, [monitors EXCEPT ![m] = Config!Gone]}
      /\ row' = Config!NoRow /\ Config!Register(Config!NoJob)
      /\ req' = [req EXCEPT ![r] = Config!Idle] /\ lock' = Config!Free
      /\ UNCHANGED <<failed, pending, tool, overlapped>>
  BY <1>0 DEF Config!DropEnds, Config!Forget, Active
<1>2. lock = r
  BY <1>1, ServedIs
<1>3. Config!Return(r, Config!NoRow)
  BY <1>1, <1>2 DEF Config!Return, Config!JobOf, Config!NoRow
<1>4. Tame(r) /\ ~Config!Wrong'
  BY <1>1, GoneIs, ConfigTypes DEF Tame, Config!Wrong, Config!NoRow
<1>5. QED
  BY <1>1, <1>3, <1>4, ReturnKeeps

LEMMA PushEndsKeeps ==
  ASSUME ConfigIInv, Disowns, NEW r \in Request, Config!PushEnds(r)
  PROVE  ConfigIInv'
<1>0. PICK view : view = req[r].view
  OBVIOUS
<1>1. /\ Active(r) /\ req[r].at = "push" /\ Config!Return(r, view)
      /\ UNCHANGED <<row, monitors, failed, pending, tool, overlapped>>
  BY <1>0 DEF Config!PushEnds, Active
<1>2. view \in Config!Row /\ (~overlapped => row = view /\ Remembers(req[r]))
  BY <1>0, <1>1, ServedIs DEF Fits
<1>3. Tame(r) /\ (Config!Wrong' => Config!Wrong)
  BY <1>1, ConfigTypes DEF Tame, Config!Wrong
<1>4. QED
  BY <1>1, <1>2, <1>3, ReturnKeeps DEF Remembers, Disowns

\* The projection raises: the request is over, its job and its debts are as they were.
LEMMA PushFailsKeeps ==
  ASSUME ConfigIInv, Disowns, NEW r \in Request, Config!PushFails(r)
  PROVE  ConfigIInv'
<1>1. /\ Active(r) /\ req[r].at = "push"
      /\ req' = [req EXCEPT ![r] = Config!Idle]
      /\ lock' = IF lock = r THEN Config!Free ELSE lock
      /\ stranded' = TRUE
      /\ UNCHANGED <<row, job, ticks, monitors, failed, pending, tool, overlapped>>
  BY DEF Config!PushFails, Active
<1>2. ~overlapped => Remembers(req[r])
  BY <1>1, ServedIs
<1>3. Tame(r) /\ (Config!Wrong' => Config!Wrong)
  BY <1>1, ConfigTypes DEF Tame, Config!Wrong
<1>4. ~overlapped' => Remembers(Config!Idle)'
  BY <1>1, <1>2, <1>3, ConfigFacts DEF Remembers, Disowns
<1>5. /\ lock' # r /\ (lock' # lock => {lock, lock'} \subseteq {r, Config!Free})
      /\ \A t \in ticks' : t.live => t.cron = job'
  BY <1>1, ConfigFacts DEF ConfigIInv, JobsFollow
<1>6. QED
  BY <1>1, <1>3, <1>4, <1>5, ConfigTypes, ConfigFacts, ServeKeeps DEF Disowns, Tame

\* The steps of the scheduler and of the tool, which change neither row nor debts.
LEMMA ElseKeeps ==
  ASSUME ConfigIInv, Disowns,
    UNCHANGED <<row, job, lock, req, monitors, failed, pending, overlapped, stranded>>,
         ticks' \subseteq [cron : Given, live : BOOLEAN],
         \A t \in ticks' : t.live => t.cron = job,
         tool' \in {Config!NoPlan} \cup [monitor : Monitor, cron : Given]
  PROVE  ConfigIInv'
<1>1. Config!TypeOK' /\ LockKept'
  BY DEF ConfigIInv, Config!TypeOK, LockKept, Active, Disowns
<1>2. OneAtATime' /\ JobsFollow'
  BY DEF ConfigIInv, OneAtATime, JobsFollow, Fits, Active, Resident, Config!JobOf
<1>3. \A v : Remembers(v) => Remembers(v)'
  BY DEF Remembers, Disowns, Config!Wrong
<1>4. DebtsKept'
  BY <1>3 DEF ConfigIInv, DebtsKept, Resident, Active
<1>5. QED
  BY <1>1, <1>2, <1>4 DEF ConfigIInv

LEMMA FireKeeps ==
  ASSUME ConfigIInv, Disowns, Config!Fire PROVE ConfigIInv'
<1>1. tool' \in {Config!NoPlan} \cup [monitor : Monitor, cron : Given]
  BY DEF ConfigIInv, Config!TypeOK, Config!Fire
<1>2. job \in Given /\ ticks' = {[cron |-> job, live |-> TRUE]}
  BY ConfigTypes DEF Config!Fire
<1>3. QED
  BY <1>1, <1>2, ElseKeeps DEF Config!Fire

LEMMA CallbackKeeps ==
  ASSUME ConfigIInv, Disowns, NEW t, Config!Callback(t) PROVE ConfigIInv'
<1>1. tool' \in {Config!NoPlan} \cup [monitor : Monitor, cron : Given]
  BY DEF ConfigIInv, Config!TypeOK, Config!Callback
<1>2. ticks' \subseteq ticks
  BY DEF Config!Callback
<1>3. \A d \in ticks : d.live => d.cron = job
  BY DEF ConfigIInv, JobsFollow
<1>4. QED
  BY <1>1, <1>2, <1>3, ConfigTypes, ElseKeeps DEF Config!Callback

LEMMA PlanKeeps ==
  ASSUME ConfigIInv, Disowns, Config!Plan PROVE ConfigIInv'
<1>1. row \in Config!Row /\ row.monitor # NoMonitor
  BY ConfigTypes DEF Config!Plan, Config!Exists
<1>2. tool' \in [monitor : Monitor, cron : Given]
  BY <1>1 DEF Config!Plan, Config!Row
<1>3. \A d \in ticks : d.live => d.cron = job
  BY DEF ConfigIInv, JobsFollow
<1>4. QED
  BY <1>2, <1>3, ConfigTypes, ElseKeeps DEF Config!Plan

\* After a change of the tool and after a restart nobody remembers a wrong interval.
LEMMA ApplyKeeps ==
  ASSUME ConfigIInv, Config!Apply, unowned' = Config!Wrong' PROVE ConfigIInv'
<1>1. tool \in [monitor : Monitor, cron : Given]
  BY DEF ConfigIInv, Config!TypeOK, Config!Apply
<1>2. monitors' \in [Monitor -> {Config!Gone} \cup [cron : Given, active : BOOLEAN]]
  <2>1. CASE UNCHANGED monitors
    BY <2>1, ConfigTypes
  <2>2. CASE /\ monitors[tool.monitor] # Config!Gone
             /\ monitors' = [monitors EXCEPT ![tool.monitor].cron = tool.cron]
    <3>1. monitors[tool.monitor] \in [cron : Given, active : BOOLEAN] /\ tool.cron \in Given
      BY <1>1, <2>2, ConfigTypes
    <3>2. [monitors[tool.monitor] EXCEPT !.cron = tool.cron] \in [cron : Given, active : BOOLEAN]
      BY <3>1
    <3>3. monitors' = [monitors EXCEPT ![tool.monitor] = [monitors[tool.monitor] EXCEPT !.cron = tool.cron]]
      BY <2>2
    <3>4. QED
      BY <3>2, <3>3, ConfigTypes
  <2>3. QED
    BY <2>1, <2>2 DEF Config!Apply
<1>3. unowned' \in BOOLEAN /\ ~(Config!Wrong' /\ ~unowned')
  BY DEF Config!Wrong
<1>4. /\ UNCHANGED <<row, job, ticks, lock, req, failed, pending, overlapped, stranded>>
      /\ tool' = Config!NoPlan
  BY DEF Config!Apply
<1>5. Config!TypeOK' /\ LockKept'
  BY <1>2, <1>3, <1>4 DEF ConfigIInv, Config!TypeOK, LockKept, Active
<1>6. OneAtATime' /\ JobsFollow'
  BY <1>4 DEF ConfigIInv, OneAtATime, JobsFollow, Fits, Active, Resident, Config!JobOf
<1>7. DebtsKept'
  BY <1>3 DEF DebtsKept, Remembers
<1>8. QED
  BY <1>5, <1>6, <1>7 DEF ConfigIInv

LEMMA RestartKeeps ==
  ASSUME ConfigIInv, Config!Restart, unowned' = Config!Wrong' PROVE ConfigIInv'
<1>1. \A r \in Request : ~Active(r)'
  BY ConfigFacts DEF Config!Restart, Active
<1>2. unowned' \in BOOLEAN /\ ~(Config!Wrong' /\ ~unowned')
  BY DEF Config!Wrong
<1>3. job' \in Given \cup {Config!NoJob} /\ job' = Config!JobOf(row)' /\ row' = row
  <2>1. job' = Config!JobOf(row) /\ row' = row
    BY DEF Config!Restart
  <2>2. QED
    BY <2>1, JobTyped, ConfigTypes DEF Config!JobOf
<1>4. Config!TypeOK'
  BY <1>2, <1>3 DEF ConfigIInv, Config!TypeOK, Config!Restart
<1>5. LockKept' /\ OneAtATime' /\ JobsFollow'
  BY <1>1, <1>3 DEF LockKept, OneAtATime, JobsFollow, Config!Restart
<1>6. DebtsKept'
  BY <1>2 DEF DebtsKept, Remembers
<1>7. QED
  BY <1>4, <1>5, <1>6 DEF ConfigIInv

LEMMA ConfigStep ==
  ASSUME ConfigIInv, Config!Next \/ UNCHANGED Config!vars
  PROVE  ConfigIInv'
<1>1. CASE UNCHANGED Config!vars
  BY <1>1 DEF Config!vars, ConfigIInv, Config!TypeOK, LockKept, OneAtATime, JobsFollow,
              DebtsKept, Fits, Remembers, Active, Resident, Config!Wrong, Config!JobOf
<1>2. ASSUME \/ Config!Fire \/ Config!Plan \/ (\E t \in ticks : Config!Callback(t))
             \/ \E r \in Request : Config!Serve(r),
             unowned' = (unowned /\ Config!Wrong')
      PROVE  ConfigIInv'
  <2>1. Disowns
    BY <1>2, ConfigTypes DEF Disowns
  <2>2. ASSUME NEW r \in Request, Config!Serve(r) PROVE ConfigIInv'
    BY <2>1, <2>2, CreateKeeps, UpdateKeeps, DeleteKeeps, CreateDoneKeeps, CreateFailsKeeps,
       OpDoneKeeps, OpFailsKeeps, DeleteDoneKeeps, DeleteFailsKeeps, DropEndsKeeps,
       PushEndsKeeps, PushFailsKeeps DEF Config!Serve
  <2>3. QED
    BY <1>2, <2>1, <2>2, FireKeeps, PlanKeeps, CallbackKeeps
<1>3. ASSUME Config!Apply \/ Config!Restart, unowned' = Config!Wrong' PROVE ConfigIInv'
  BY <1>3, ApplyKeeps, RestartKeeps
<1>4. QED
  BY <1>1, <1>2, <1>3 DEF Config!Next

LEMMA ConfigMeans ==
  ASSUME ConfigIInv
  PROVE  Config!TypeOK /\ Config!ScheduleIsCurrent /\ Config!DriftIsReported
<1>1. Config!Quiet => Resident
  BY NobodyElse DEF Config!Quiet
<1>2. Config!ScheduleIsCurrent
  BY <1>1 DEF ConfigIInv, JobsFollow, Config!ScheduleIsCurrent
<1>3. Config!DriftIsReported
  BY <1>1, ConfigFacts DEF ConfigIInv, DebtsKept, Remembers, Config!DriftIsReported
<1>4. QED
  BY <1>2, <1>3 DEF ConfigIInv

LEMMA ConfigBoxed == ConfigIInv /\ [Config!Next]_(Config!vars) => ConfigIInv'
BY ConfigStep

\* The types of the configuration side, and that whoever holds the lock is under way.
THEOREM ConfigTypeCorrect == Config!Spec => []Config!TypeOK
<1>1. ConfigIInv => Config!TypeOK
  BY ConfigMeans
<1>2. QED
  BY ConfigInit, ConfigBoxed, <1>1, PTL DEF Config!Spec

\* Between requests the registered job is the one of the row, and no callback of another
\* schedule counts (upsert_job, remove_job, the generation of a job), apart from an edit
\* that met an unfinished creation and a request that failed before it came to the job.
THEOREM ConfigScheduleIsCurrent == Config!Spec => []Config!ScheduleIsCurrent
<1>1. ConfigIInv => Config!ScheduleIsCurrent
  BY ConfigMeans
<1>2. QED
  BY ConfigInit, ConfigBoxed, <1>1, PTL DEF Config!Spec

\* A monitor whose interval is not that of its task is reported until it is repaired,
\* however calls are refused or half done (_sync_kuma, _pending_ops).
THEOREM ConfigDriftIsReported == Config!Spec => []Config!DriftIsReported
<1>1. ConfigIInv => Config!DriftIsReported
  BY ConfigMeans
<1>2. QED
  BY ConfigInit, ConfigBoxed, <1>1, PTL DEF Config!Spec
-----------------------------------------------------------------------------
(* The schedule.                                                           *)

Before == {p \in Nat \X Nat : p[1] < p[2]}

\* Of some instants there is a first one.
LEMMA FirstInstant ==
  ASSUME NEW S, S \subseteq Nat, S # {}
  PROVE  \E m \in S : \A n \in S : m <= n
<1>1. IsWellFoundedOn(Before, Nat)
  BY NatLessThanWellFounded DEF Before, OpToRel
<1>2. PICK m \in S : \A n \in S : ~ (<<n, m>> \in Before)
  BY <1>1, WFMin, Zenon
<1>3. ASSUME NEW n \in S PROVE m <= n
  <2>1. m \in Nat /\ n \in Nat /\ <<n, m>> \notin Before
    BY <1>2
  <2>2. QED
    BY <2>1 DEF Before
<1>4. QED
  BY <1>3

LEMMA PushFacts ==
  /\ Early \in Nat /\ DstMargin \in Nat /\ DefaultCadence \in Nat
  /\ SlackFloor \in Nat /\ SlackFloor >= 1 /\ SlackCeiling \in Nat /\ SlackFloor <= SlackCeiling
  /\ Samples \in Nat /\ Samples >= 1 /\ Edits \in Nat /\ Horizon \in Nat
  /\ \A c \in Cron : Fires[c] \subseteq Nat /\ Nominal[c] \subseteq Nat
  /\ \A c \in Cron \ Broken : \A t \in 0..Horizon : \E a, b \in Nominal[c] : t < a /\ a < b
BY KumaAssumption DEF Push!PushAssumption, Push!FreshnessAssumption

\* The first of some instants after a time.
LEMMA NextIs ==
  ASSUME NEW S, S \subseteq Nat, NEW t \in Int
  PROVE  /\ Push!NextOf(S, t) \in Nat \cup {Push!Never} /\ Push!NextOf(S, t) \in Int
         /\ Push!NextOf(S, t) # Push!Never =>
              /\ Push!NextOf(S, t) \in S /\ Push!NextOf(S, t) > t
              /\ \A o \in S : o > t => Push!NextOf(S, t) <= o
         /\ (\E o \in S : o > t) => Push!NextOf(S, t) # Push!Never
<1> DEFINE T == {o \in S : o > t}
           n == CHOOSE x \in T : \A y \in T : x <= y
<1>0. Push!Never = -1
  BY DEF Push!Never
<1>1. CASE \E o \in S : o > t
  <2>1. n \in T /\ \A y \in T : n <= y
    <3>1. T # {} /\ T \subseteq Nat
      BY <1>1
    <3>2. \E x \in T : \A y \in T : x <= y
      BY <3>1, FirstInstant
    <3>3. QED
      BY <3>2
  <2>2. Push!NextOf(S, t) = n
    BY <1>1 DEF Push!NextOf, Push!Min
  <2> HIDE DEF n
  <2>3. QED
    BY <1>0, <1>1, <2>1, <2>2
<1>2. CASE ~ \E o \in S : o > t
  BY <1>0, <1>2 DEF Push!NextOf
<1>3. QED
  BY <1>1, <1>2

\* A cycle is longer than nothing.
LEMMA CadenceIs ==
  ASSUME NEW c \in Cron, NEW t \in 0..Horizon
  PROVE  /\ Push!CadenceSeconds(c, t) \in Nat
         /\ c \notin Broken => Push!CadenceSeconds(c, t) > 0
<1>1. CASE c \in Broken
  BY <1>1, PushFacts DEF Push!CadenceSeconds
<1>2. CASE c \notin Broken
  <2> DEFINE first == Push!NextOf(Nominal[c], t)
             next  == Push!NextOf(Nominal[c], first)
  <2>1. t \in Int /\ Nominal[c] \subseteq Nat
    BY PushFacts
  <2>2. PICK a \in Nominal[c], b \in Nominal[c] : t < a /\ a < b
    BY <1>2, PushFacts
  <2>3. first \in Int /\ first # Push!Never /\ first <= a
    BY <2>1, <2>2, NextIs
  <2>4. first \in Nominal[c] /\ first \in Nat
    BY <2>1, <2>3, NextIs
  <2>5. \E o \in Nominal[c] : o > first
    BY <2>1, <2>2, <2>3
  <2>6. next \in Nat /\ next > first
    BY <2>1, <2>3, <2>5, NextIs
  <2>7. Push!CadenceSeconds(c, t) = next - first
    BY <1>2 DEF Push!CadenceSeconds
  <2> HIDE DEF first, next
  <2>8. QED
    BY <2>4, <2>6, <2>7
<1>3. QED
  BY <1>1, <1>2

\* The slack of a cycle, in tenths.
LEMMA SlackIs ==
  ASSUME NEW gap \in Nat
  PROVE  /\ Push!TenSlacks(gap) \in Nat /\ Push!TenSlacks(gap) >= 10
         /\ Push!TenSlacks(gap) <= gap \/ Push!TenSlacks(gap) <= 10 * SlackFloor
         /\ \A d \in Nat : Push!TenSlacks(gap + d) <= Push!TenSlacks(gap) + d
BY PushFacts DEF Push!TenSlacks, Push!Larger, Push!Smaller

\* The longest grace that a cycle can have.
Grace(gap) == (Push!TenSlacks(gap) + 5 * gap) \div 10

LEMMA GraceGrows ==
  ASSUME NEW gap \in Nat
  PROVE  /\ Grace(gap) \in Nat /\ Grace(gap) >= 1
         /\ gap > 2 * SlackFloor => Grace(gap) < gap
         /\ \A d \in Nat : Grace(gap + d) <= Grace(gap) + d
<1> DEFINE T == Push!TenSlacks(gap)
<1>1. T \in Nat /\ T >= 10 /\ (T <= gap \/ T <= 10 * SlackFloor)
  BY SlackIs
<1>2. SlackFloor \in Nat /\ SlackFloor >= 1
  BY PushFacts
<1>3. ASSUME NEW d \in Nat PROVE Grace(gap + d) <= Grace(gap) + d
  <2> DEFINE U == Push!TenSlacks(gap + d)
  <2>1. U \in Nat /\ U <= T + d
    <3>1. gap + d \in Nat
      OBVIOUS
    <3>2. U \in Nat
      BY <3>1, SlackIs
    <3>3. U <= T + d
      BY SlackIs
    <3>4. QED
      BY <3>2, <3>3
  <2>2. Grace(gap + d) = (U + 5 * (gap + d)) \div 10 /\ Grace(gap) = (T + 5 * gap) \div 10
    BY DEF Grace
  <2> HIDE DEF T, U
  <2>3. (U + 5 * (gap + d)) \div 10 <= (T + 5 * gap) \div 10 + d
    BY <1>1, <2>1
  <2>4. QED
    BY <2>2, <2>3
<1>4. Grace(gap) = (T + 5 * gap) \div 10
  BY DEF Grace
<1> HIDE DEF T
<1>5. (T + 5 * gap) \div 10 \in Nat /\ (T + 5 * gap) \div 10 >= 1
  BY <1>1
<1>6. gap > 2 * SlackFloor => (T + 5 * gap) \div 10 < gap
  BY <1>1, <1>2
<1>7. QED
  BY <1>3, <1>4, <1>5, <1>6

LEMMA ExpiryIs ==
  ASSUME NEW gap \in Nat
  PROVE  /\ Push!ExpiryOf(gap) = gap + DstMargin + Grace(gap)
         /\ Push!ExpiryOf(gap) \in Nat /\ Push!ExpiryOf(gap) >= 1
<1>1. Grace(gap) \in Nat /\ Grace(gap) >= 1 /\ DstMargin \in Nat
  BY GraceGrows, PushFacts
<1>2. Push!ExpiryOf(gap) = gap + DstMargin + Grace(gap)
  BY DEF Push!ExpiryOf, Grace
<1>3. QED
  BY <1>1, <1>2

LEMMA LongestIs ==
  ASSUME NEW n \in Nat, NEW S, S \subseteq 1..n, S # {}
  PROVE  Push!Max(S) \in S
<1> DEFINE B == {b \in Nat : \A d \in S : d <= b}
<1>1. n \in B
  OBVIOUS
<1>2. PICK m \in B : \A b \in B : m <= b
  BY <1>1, FirstInstant
<1>3. m \in S
  <2>1. SUFFICES ASSUME m \notin S PROVE FALSE
    OBVIOUS
  <2>2. PICK d \in S : d <= m
    BY <1>2
  <2>3. m - 1 \in Nat /\ \A e \in S : e <= m - 1
    BY <1>2, <2>1, <2>2
  <2>4. QED
    BY <1>2, <2>3
<1>4. \A d \in S : m >= d
  BY <1>2
<1>5. QED
  BY <1>3, <1>4 DEF Push!Max

\* What a success took makes the grace shorter only.
LEMMA GraceIs ==
  ASSUME NEW gap \in Nat, NEW n \in Nat, NEW D, D \subseteq 0..n
  PROVE  Push!GraceSeconds(gap, D) \in Int /\ Push!GraceSeconds(gap, D) <= Grace(gap)
<1> DEFINE S == {d \in D : d > 0}
           A == Push!TwoAllowances(gap, D)
           T == Push!TenSlacks(gap)
<1>1. A \in Int /\ A <= gap
  <2>1. CASE S = {}
    BY <2>1 DEF Push!TwoAllowances
  <2>2. CASE S # {}
    <3>1. ASSUME NEW d \in S PROVE d \in 1..n
      <4>1. d \in 0..n /\ d > 0
        OBVIOUS
      <4>2. QED
        BY <4>1
    <3>2. Push!Max(S) \in 1..n
      BY <2>2, <3>1, LongestIs
    <3>3. A = Push!Smaller(3 * Push!Max(S), gap)
      BY <2>2 DEF Push!TwoAllowances
    <3>4. QED
      BY <3>2, <3>3 DEF Push!Smaller
  <2>3. QED
    BY <2>1, <2>2
<1>2. T \in Nat
  BY SlackIs
<1>3. Push!GraceSeconds(gap, D) = (T + 5 * A) \div 10 /\ Grace(gap) = (T + 5 * gap) \div 10
  BY DEF Push!GraceSeconds, Grace
<1> HIDE DEF A, T
<1>4. (T + 5 * A) \div 10 \in Int /\ (T + 5 * A) \div 10 <= (T + 5 * gap) \div 10
  BY <1>1, <1>2
<1>5. QED
  BY <1>3, <1>4
-----------------------------------------------------------------------------
(* What the monitor is told.                                               *)

\* Nothing lies ahead of the clock, and a monitor starts to count when it is edited.
Past ==
  /\ now <= Horizon /\ kuma.at <= now /\ task.epoch <= kuma.at
  /\ run <= now
  /\ \A i \in DOMAIN successes :
       successes[i].start <= successes[i].end /\ successes[i].end <= now

Projected  == shown = Push!Project(task, successes, now)
Configured == /\ kuma.active = task.enabled
              /\ kuma.interval = Push!KumaExpirySeconds(task.cron, task.epoch)

\* While the projection stands still, whoever pushes pushes what it says; a sweep
\* that is over has told the monitor in this unit, and another has told it in the last.
Says == Push!KumaStatus(shown)
PushersAgree == steady > 0 => \A s \in Push!Syncer : Push!Pushing(s) => syncs[s] = Says
Told ==
  steady > 0 /\ outcome = "ok" /\ Says # "nothing" =>
    /\ swept => kuma.word = Says /\ kuma.at = now
    /\ steady = 2 => kuma.word = Says /\ now <= kuma.at + 1

PushIInv == Push!TypeOK /\ Past /\ Projected /\ Configured /\ PushersAgree /\ Told

LEMMA ProjectIs ==
  ASSUME NEW t, NEW q, NEW n PROVE Push!Project(t, q, n) \in Push!States
BY DEF Push!Project, Push!States

LEMMA InstalledIs ==
  ASSUME NEW c \in Cron, NEW t \in 0..Horizon
  PROVE  Push!KumaExpirySeconds(c, t) \in Nat /\ Push!KumaExpirySeconds(c, t) >= 1
BY CadenceIs, ExpiryIs DEF Push!KumaExpirySeconds

\* The state of the projection after a step, and for how long it has stood.
Judged ==
  /\ shown' \in Push!States /\ steady' \in 0..2 /\ Projected'
  /\ steady' > 0 => shown' = shown /\ up'
  /\ steady' > 0 /\ now' = now => steady' = steady
  /\ steady' = 2 /\ now' # now => steady > 0

LEMMA JudgedIs ==
  ASSUME PushIInv, now' \in {now, now + 1},
         shown' = IF UNCHANGED <<task, successes, now>> THEN shown
                  ELSE Push!Project(task', successes', now'),
         steady' = IF shown' # shown \/ ~up' THEN 0
                   ELSE Push!Smaller(2, steady + now' - now)
  PROVE  Judged
<1>1. now \in Nat /\ steady \in 0..2 /\ shown \in Push!States
  BY DEF PushIInv, Push!TypeOK
<1>2. shown' \in Push!States
  BY <1>1, ProjectIs
<1>3. Projected'
  BY DEF PushIInv, Projected
<1>4. \/ now' = now /\ steady + now' - now = steady
      \/ now' # now /\ steady + now' - now = steady + 1
  <2>1. CASE now' = now
    BY <1>1, <2>1
  <2>2. CASE now' = now + 1
    BY <1>1, <2>2
  <2>3. QED
    BY <2>1, <2>2
<1> DEFINE d == steady + now' - now
<1>5. steady' = IF shown' # shown \/ ~up' THEN 0 ELSE Push!Smaller(2, d)
  OBVIOUS
<1>6. (now' = now /\ d = steady) \/ (now' # now /\ d = steady + 1)
  BY <1>4
<1> HIDE DEF d
<1>7. Push!Smaller(2, d) \in 0..2 /\ (now' = now => Push!Smaller(2, d) = steady)
      /\ (now' # now /\ Push!Smaller(2, d) = 2 => steady > 0)
  BY <1>1, <1>6 DEF Push!Smaller
<1>8. QED
  BY <1>2, <1>3, <1>5, <1>7 DEF Judged

LEMMA PushTypes ==
  ASSUME PushIInv
  PROVE  /\ now \in 0..Horizon /\ task.cron \in Cron /\ task.enabled \in BOOLEAN
         /\ task.epoch \in Nat /\ task.epoch <= now
         /\ kuma.word \in {"pending", "up", "down"} /\ kuma.at \in Nat /\ kuma.interval \in Nat
         /\ kuma.active \in BOOLEAN /\ kuma.interval >= 1
<1>1. /\ now \in Nat /\ Horizon \in Nat /\ now <= Horizon
      /\ task.cron \in Cron /\ task.enabled \in BOOLEAN /\ task.epoch \in Nat
      /\ kuma.word \in {"pending", "up", "down"} /\ kuma.at \in Nat /\ kuma.interval \in Nat
      /\ kuma.active \in BOOLEAN /\ task.epoch <= kuma.at /\ kuma.at <= now
  BY PushFacts DEF PushIInv, Push!TypeOK, Push!Status, Past
<1>2. kuma.interval = Push!KumaExpirySeconds(task.cron, task.epoch)
  BY DEF PushIInv, Configured
<1>3. task.epoch \in 0..Horizon
  BY <1>1
<1>4. kuma.interval >= 1
  BY <1>1, <1>2, <1>3, InstalledIs
<1>5. QED
  BY <1>1, <1>4

LEMMA PushInit == Push!Init => PushIInv
<1> SUFFICES ASSUME Push!Init PROVE PushIInv
  OBVIOUS
<1>1. /\ now = 0 /\ task \in [cron : Cron, enabled : BOOLEAN, epoch : {0}] /\ successes = <<>>
      /\ run = -1 /\ steady = 0 /\ shown = Push!Project(task, successes, now)
  BY DEF Push!Init, Push!State, Push!Never
<1>2. task.cron \in Cron /\ task.epoch = 0 /\ 0 \in 0..Horizon /\ task.enabled \in BOOLEAN
      /\ task \in [cron : Cron, enabled : BOOLEAN, epoch : Nat]
  BY <1>1, PushFacts
<1>3. Push!KumaExpirySeconds(task.cron, 0) \in Nat
  BY <1>2, InstalledIs
<1>4. kuma = [word |-> "pending", at |-> 0, active |-> task.enabled,
              interval |-> Push!KumaExpirySeconds(task.cron, 0)]
  BY DEF Push!Init
<1>5. kuma \in [word : {"pending"} \cup Push!Status, at : Nat, interval : Nat, active : BOOLEAN]
  BY <1>2, <1>3, <1>4
<1>6. Push!TypeOK
  <2>1. successes \in Seq([start : Nat, end : Nat]) /\ Len(successes) <= Samples
    BY <1>1, PushFacts
  <2>2. syncs \in [Push!Syncer -> {"idle", "waiting"} \cup Push!Status]
    BY DEF Push!Init
  <2>3. /\ now \in Nat /\ up \in BOOLEAN /\ run \in Nat \cup {-1} /\ swept \in BOOLEAN
        /\ outcome \in {"ok", "failed"} /\ edits \in 0..Edits /\ steady \in 0..2
    <3>1. /\ now = 0 /\ run = -1 /\ edits = 0 /\ steady = 0 /\ up = TRUE /\ swept = FALSE
          /\ outcome = "ok"
      BY <1>1 DEF Push!Init
    <3>2. 0 \in 0..Edits
      BY PushFacts
    <3>3. up \in BOOLEAN /\ swept \in BOOLEAN /\ edits \in 0..Edits
      BY <3>1, <3>2, Zenon
    <3>4. now \in Nat /\ run \in Nat \cup {-1} /\ outcome \in {"ok", "failed"} /\ steady \in 0..2
      BY <3>1
    <3>5. QED
      BY <3>3, <3>4
  <2>4. shown \in Push!States
    BY <1>1, ProjectIs
  <2>5. QED
    BY <1>2, <1>5, <2>1, <2>2, <2>3, <2>4 DEF Push!TypeOK, Push!Never
<1>7. Past
  BY <1>1, <1>2, <1>4, PushFacts DEF Past
<1>8. Projected /\ Configured /\ PushersAgree /\ Told
  BY <1>1, <1>2, <1>4 DEF Projected, Configured, PushersAgree, Told
<1>9. QED
  BY <1>6, <1>7, <1>8 DEF PushIInv

LEMMA ReadKeeps ==
  ASSUME PushIInv, Judged, NEW s \in Push!Syncer, Push!Read(s),
         UNCHANGED <<now, up, task, successes, run, edits, kuma>>
  PROVE  PushIInv'
<1>1. Says \in {"up", "down", "nothing"}
  BY DEF Says, Push!KumaStatus
<1>2. Push!TypeOK'
  BY <1>1 DEF PushIInv, Push!TypeOK, Judged, Push!Read, Says, Push!Status
<1>3. Past' /\ Configured' /\ Projected'
  BY DEF PushIInv, Past, Configured, Judged
<1>4. steady' > 0 => steady' = steady /\ Says' = Says
  BY DEF Judged, Says
<1>5. syncs \in [Push!Syncer -> {"idle", "waiting"} \cup Push!Status]
  BY DEF PushIInv, Push!TypeOK
<1>6. PushersAgree'
  BY <1>4, <1>5 DEF PushIInv, PushersAgree, Push!Read, Push!Pushing, Push!Status, Says
<1>7. Told'
  BY <1>4 DEF PushIInv, Told, Push!Read, Says
<1>8. QED
  BY <1>2, <1>3, <1>6, <1>7 DEF PushIInv

\* The monitor hears a status of somebody who pushes.
LEMMA HeardKeeps ==
  ASSUME PushIInv, NEW s \in Push!Syncer, Push!Pushing(s), Push!Hears(s)
  PROVE  /\ kuma' \in [word : {"pending"} \cup Push!Status, at : Nat, interval : Nat, active : BOOLEAN]
         /\ kuma'.word = syncs[s] /\ kuma'.at = now
         /\ kuma'.interval = kuma.interval /\ kuma'.active = kuma.active
<1>1. kuma \in [word : {"pending"} \cup Push!Status, at : Nat, interval : Nat, active : BOOLEAN]
  BY DEF PushIInv, Push!TypeOK
<1>2. syncs[s] \in Push!Status /\ now \in Nat
  BY DEF PushIInv, Push!TypeOK, Push!Pushing
<1>3. kuma' = [kuma EXCEPT !.word = syncs[s], !.at = now]
  BY DEF Push!Hears
<1>4. QED
  BY <1>1, <1>2, <1>3

LEMMA AnswerLostKeeps ==
  ASSUME PushIInv, Judged, NEW s \in Push!Syncer, Push!AnswerLost(s) PROVE PushIInv'
<1>1. UNCHANGED <<now, up, task, successes, run, edits, syncs, swept, outcome>>
  BY DEF Push!AnswerLost, Push!backup
<1>2. /\ kuma' \in [word : {"pending"} \cup Push!Status, at : Nat, interval : Nat, active : BOOLEAN]
      /\ kuma'.word = syncs[s] /\ kuma'.at = now
      /\ kuma'.interval = kuma.interval /\ kuma'.active = kuma.active
  BY HeardKeeps DEF Push!AnswerLost
<1>3. Push!TypeOK'
  BY <1>1, <1>2 DEF PushIInv, Push!TypeOK, Judged
<1>4. Past' /\ Configured' /\ Projected'
  BY <1>1, <1>2, PushTypes DEF PushIInv, Past, Configured, Judged
<1>5. steady' > 0 => steady' = steady /\ Says' = Says
  BY <1>1 DEF Judged, Says
<1>6. PushersAgree'
  BY <1>1, <1>5 DEF PushIInv, PushersAgree, Push!Pushing
<1>7. steady > 0 => syncs[s] = Says
  BY DEF PushIInv, PushersAgree, Push!AnswerLost
<1>8. Told'
  BY <1>1, <1>2, <1>5, <1>7, PushTypes DEF Told
<1>9. QED
  BY <1>3, <1>4, <1>6, <1>8 DEF PushIInv

LEMMA EndPushKeeps ==
  ASSUME PushIInv, Judged, NEW s \in Push!Syncer, NEW ok \in BOOLEAN, Push!EndPush(s, ok)
  PROVE  PushIInv'
<1>1. /\ UNCHANGED <<now, up, task, successes, run, edits>> /\ Push!Pushing(s)
      /\ syncs' = [syncs EXCEPT ![s] = "idle"] /\ outcome' = Push!Verdict(ok)
      /\ swept' = (swept \/ s = "sweep")
  BY DEF Push!EndPush, Push!backup
<1>2. /\ kuma' \in [word : {"pending"} \cup Push!Status, at : Nat, interval : Nat, active : BOOLEAN]
      /\ kuma'.interval = kuma.interval /\ kuma'.active = kuma.active
      /\ ok => kuma'.word = syncs[s] /\ kuma'.at = now
      /\ ~ok => kuma' = kuma
  <2>1. CASE ok
    BY <1>1, <2>1, HeardKeeps DEF Push!EndPush
  <2>2. CASE ~ok
    BY <2>2 DEF Push!EndPush, PushIInv, Push!TypeOK
  <2>3. QED
    BY <2>1, <2>2
<1>3. Push!TypeOK'
  BY <1>1, <1>2 DEF PushIInv, Push!TypeOK, Judged, Push!Verdict
<1>4. Past' /\ Configured' /\ Projected'
  BY <1>1, <1>2, PushTypes DEF PushIInv, Past, Configured, Judged
<1>5. steady' > 0 => steady' = steady /\ Says' = Says
  BY <1>1 DEF Judged, Says
<1>6. syncs \in [Push!Syncer -> {"idle", "waiting"} \cup Push!Status]
  BY DEF PushIInv, Push!TypeOK
<1>7. PushersAgree'
  BY <1>1, <1>5, <1>6 DEF PushIInv, PushersAgree, Push!Pushing, Push!Status
<1>8. steady > 0 => syncs[s] = Says
  BY <1>1 DEF PushIInv, PushersAgree
<1>9. Told'
  <2>1. outcome' = "ok" => ok
    BY <1>1 DEF Push!Verdict
  <2>2. QED
    BY <1>1, <1>2, <1>5, <1>8, <2>1, PushTypes DEF Told
<1>10. QED
  BY <1>3, <1>4, <1>7, <1>9 DEF PushIInv

LEMMA RunBeginsKeeps ==
  ASSUME PushIInv, Judged, Push!RunBegins PROVE PushIInv'
<1>1. /\ UNCHANGED <<now, up, task, successes, edits, syncs, swept, outcome, kuma>>
      /\ run' = now
  BY DEF Push!RunBegins
<1>2. Push!TypeOK' /\ Past'
  BY <1>1, PushTypes DEF PushIInv, Push!TypeOK, Past, Judged
<1>3. Configured' /\ Projected'
  BY <1>1 DEF PushIInv, Configured, Judged
<1>4. PushersAgree' /\ Told'
  BY <1>1 DEF PushIInv, PushersAgree, Told, Judged, Push!Pushing, Says
<1>5. QED
  BY <1>2, <1>3, <1>4 DEF PushIInv

\* The newest of the successes, with one more.
Newer(w, S, n, r, q) ==
  /\ w \in Seq(S) /\ Len(w) <= n
  /\ \A i \in DOMAIN w : w[i] = r \/ \E j \in DOMAIN q : w[i] = q[j]

LEMMA NewestIs ==
  ASSUME NEW S, NEW q \in Seq(S), NEW r \in S, NEW n \in Nat
  PROVE  Newer(Push!Newest(n, <<r>> \o q), S, n, r, q)
<1> DEFINE x == <<r>> \o q
           k == Push!Smaller(n, Len(x))
           w == SubSeq(x, 1, k)
<1>1. x \in Seq(S) /\ Len(x) = 1 + Len(q) /\ Len(q) \in Nat
  OBVIOUS
<1>2. \A i \in 1..Len(x) : x[i] = IF i = 1 THEN r ELSE q[i - 1]
  OBVIOUS
<1>3. \A i \in 1..Len(x) : x[i] \in S
  BY <1>1
<1>4. k \in Nat /\ k <= n /\ k <= Len(x)
  BY <1>1 DEF Push!Smaller
<1> HIDE DEF x, k
<1>5. w \in Seq(S) /\ Len(w) = k /\ \A i \in 1..k : w[i] = x[i]
  BY <1>1, <1>3, <1>4
<1>6. ASSUME NEW i \in DOMAIN w PROVE w[i] = r \/ \E j \in DOMAIN q : w[i] = q[j]
  <2>1. i \in 1..Len(x) /\ w[i] = x[i]
    BY <1>1, <1>4, <1>5
  <2>2. CASE i = 1
    BY <1>2, <2>1, <2>2
  <2>3. CASE i # 1
    <3>1. w[i] = q[i - 1]
      BY <1>2, <2>1, <2>3
    <3>2. ASSUME NEW a \in Nat, NEW b \in 1..(1 + a), b # 1 PROVE b - 1 \in 1..a
      BY <3>2
    <3>3. i \in 1..(1 + Len(q)) /\ Len(q) \in Nat
      BY <1>1, <2>1
    <3>4. i - 1 \in 1..Len(q)
      BY <2>3, <3>2, <3>3
    <3>5. DOMAIN q = 1..Len(q)
      OBVIOUS
    <3>6. QED
      BY <3>1, <3>4, <3>5
  <2>4. QED
    BY <2>2, <2>3
<1>7. Push!Newest(n, <<r>> \o q) = w
  BY DEF Push!Newest, x, k
<1>8. QED
  BY <1>4, <1>5, <1>6, <1>7 DEF Newer

LEMMA RunEndsKeeps ==
  ASSUME PushIInv, Judged, NEW ok \in BOOLEAN, Push!RunEnds(ok) PROVE PushIInv'
<1> DEFINE r == [start |-> run, end |-> now]
<1>1. /\ UNCHANGED <<now, up, task, edits, swept, outcome, kuma>> /\ run # -1 /\ run' = -1
      /\ syncs' = [syncs EXCEPT !["event"] = "waiting"]
      /\ successes' = IF ok THEN Push!Newest(Samples, <<r>> \o successes) ELSE successes
  BY DEF Push!RunEnds, Push!Never
<1>2. r \in [start : Nat, end : Nat] /\ r.start <= r.end /\ r.end <= now
  <2>1. run \in Nat /\ now \in Nat /\ run <= now
    BY <1>1 DEF PushIInv, Push!TypeOK, Past, Push!Never
  <2>2. QED
    BY <2>1
<1>3. /\ successes' \in Seq([start : Nat, end : Nat]) /\ Len(successes') <= Samples
      /\ \A i \in DOMAIN successes' :
           successes'[i].start <= successes'[i].end /\ successes'[i].end <= now
  <2>1. /\ successes \in Seq([start : Nat, end : Nat]) /\ Len(successes) <= Samples
        /\ \A i \in DOMAIN successes :
             successes[i].start <= successes[i].end /\ successes[i].end <= now
    BY DEF PushIInv, Push!TypeOK, Past
  <2>2. CASE ok
    <3> DEFINE w == Push!Newest(Samples, <<r>> \o successes)
    <3> HIDE DEF r
    <3>1. Newer(w, [start : Nat, end : Nat], Samples, r, successes)
      BY <1>2, <2>1, NewestIs, PushFacts
    <3>2. successes' = w
      BY <1>1, <2>2 DEF r
    <3> HIDE DEF w
    <3>3. QED
      BY <1>2, <2>1, <3>1, <3>2 DEF Newer
  <2>3. CASE ~ok
    BY <1>1, <2>1, <2>3
  <2>4. QED
    BY <2>2, <2>3
<1> HIDE DEF r
<1>4. Push!TypeOK'
  BY <1>1, <1>3 DEF PushIInv, Push!TypeOK, Judged, Push!Never, Push!Syncer
<1>5. Past'
  <2>1. run' <= now
    BY <1>1, PushTypes
  <2>2. now' = now /\ kuma' = kuma /\ task' = task
    BY <1>1
  <2>3. QED
    BY <1>3, <2>1, <2>2 DEF PushIInv, Past
<1>6. Configured' /\ Projected'
  BY <1>1 DEF PushIInv, Configured, Judged
<1>7. steady' > 0 => steady' = steady /\ Says' = Says
  BY <1>1 DEF Judged, Says
<1>8. syncs \in [Push!Syncer -> {"idle", "waiting"} \cup Push!Status]
  BY DEF PushIInv, Push!TypeOK
<1>9. PushersAgree'
  BY <1>1, <1>7, <1>8 DEF PushIInv, PushersAgree, Push!Pushing, Push!Status, Push!Syncer
<1>10. Told'
  BY <1>1, <1>7 DEF PushIInv, Told
<1>11. QED
  BY <1>4, <1>5, <1>6, <1>9, <1>10 DEF PushIInv

LEMMA EditKeeps ==
  ASSUME PushIInv, Judged, NEW c \in Cron, NEW e \in BOOLEAN, Push!Edit(c, e) PROVE PushIInv'
<1>1. /\ UNCHANGED <<now, up, successes, run, swept, outcome>> /\ edits' = edits + 1
      /\ edits < Edits
      /\ task' = [cron |-> c, enabled |-> e, epoch |-> now]
      /\ kuma' = [kuma EXCEPT !.interval = Push!KumaExpirySeconds(c, now), !.active = e, !.at = now]
      /\ syncs' = [syncs EXCEPT !["event"] = "waiting"]
  BY DEF Push!Edit
<1>2. now \in 0..Horizon /\ now \in Nat /\ Push!KumaExpirySeconds(c, now) \in Nat
  BY PushTypes, InstalledIs
<1>3. /\ kuma' \in [word : {"pending"} \cup Push!Status, at : Nat, interval : Nat, active : BOOLEAN]
      /\ kuma'.word = kuma.word /\ kuma'.at = now
      /\ kuma'.interval = Push!KumaExpirySeconds(c, now) /\ kuma'.active = e
  <2>1. kuma \in [word : {"pending"} \cup Push!Status, at : Nat, interval : Nat, active : BOOLEAN]
    BY DEF PushIInv, Push!TypeOK
  <2>2. kuma' = [kuma EXCEPT !.interval = Push!KumaExpirySeconds(c, now), !.active = e, !.at = now]
    BY <1>1
  <2> DEFINE x == Push!KumaExpirySeconds(c, now)
  <2>3. x \in Nat /\ now \in Nat
    BY <1>2
  <2>4. kuma' = [kuma EXCEPT !.interval = x, !.active = e, !.at = now]
    BY <2>2
  <2> HIDE DEF x
  <2>5. kuma'.word = kuma.word /\ kuma'.at = now /\ kuma'.interval = x /\ kuma'.active = e
    BY <2>1, <2>4
  <2>6. kuma' \in [word : {"pending"} \cup Push!Status, at : Nat, interval : Nat, active : BOOLEAN]
    BY <2>1, <2>3, <2>4
  <2>7. QED
    BY <2>5, <2>6 DEF x
<1>4. task' \in [cron : Cron, enabled : BOOLEAN, epoch : Nat] /\ edits' \in 0..Edits
  <2>1. task' \in [cron : Cron, enabled : BOOLEAN, epoch : Nat]
    BY <1>1, <1>2
  <2>2. edits \in 0..Edits /\ Edits \in Nat
    BY PushFacts DEF PushIInv, Push!TypeOK
  <2>3. QED
    BY <1>1, <2>1, <2>2
<1>5. Push!TypeOK'
  BY <1>1, <1>3, <1>4 DEF PushIInv, Push!TypeOK, Judged, Push!Syncer
<1>6. Past'
  BY <1>1, <1>2, <1>3 DEF PushIInv, Past
<1>7. Configured' /\ Projected'
  BY <1>1, <1>3 DEF Configured, Judged
<1>8. steady' > 0 => steady' = steady /\ Says' = Says
  BY <1>1 DEF Judged, Says
<1>9. syncs \in [Push!Syncer -> {"idle", "waiting"} \cup Push!Status]
  BY DEF PushIInv, Push!TypeOK
<1>10. PushersAgree'
  BY <1>1, <1>8, <1>9 DEF PushIInv, PushersAgree, Push!Pushing, Push!Status, Push!Syncer
<1>11. Told'
  BY <1>1, <1>2, <1>3, <1>8 DEF PushIInv, Told
<1>12. QED
  BY <1>5, <1>6, <1>7, <1>10, <1>11 DEF PushIInv

LEMMA CrashKeeps ==
  ASSUME PushIInv, Judged, Push!Crash PROVE PushIInv'
<1>1. /\ UNCHANGED <<now, task, successes, edits, swept, kuma>> /\ up' = FALSE /\ run' = -1
      /\ syncs' = [s \in Push!Syncer |-> "idle"] /\ outcome' = "ok"
  BY DEF Push!Crash, Push!Never
<1>2. Push!TypeOK'
  <2>1. syncs' \in [Push!Syncer -> {"idle", "waiting"} \cup Push!Status]
    BY <1>1
  <2>2. up' \in BOOLEAN /\ run' \in Nat \cup {-1} /\ outcome' \in {"ok", "failed"}
    BY <1>1
  <2>3. UNCHANGED <<now, task, successes, edits, swept, kuma>>
    BY <1>1
  <2>4. QED
    BY <2>1, <2>2, <2>3 DEF PushIInv, Push!TypeOK, Judged, Push!Never
<1>3. Past'
  <2>1. run' <= now
    BY <1>1, PushTypes
  <2>2. QED
    BY <1>1, <2>1 DEF PushIInv, Past
<1>4. Configured' /\ Projected'
  BY <1>1 DEF PushIInv, Configured, Judged
<1>5. PushersAgree' /\ Told'
  BY <1>1 DEF PushersAgree, Told, Judged
<1>6. QED
  BY <1>2, <1>3, <1>4, <1>5 DEF PushIInv

LEMMA RestartedKeeps ==
  ASSUME PushIInv, Judged, Push!Restart PROVE PushIInv'
<1>1. /\ UNCHANGED <<now, task, successes, run, edits, syncs, outcome, kuma>> /\ up' = TRUE
      /\ swept' = FALSE
  BY DEF Push!Restart, Push!backup
<1>2. Push!TypeOK' /\ Past'
  BY <1>1 DEF PushIInv, Push!TypeOK, Past, Judged
<1>3. Configured' /\ Projected'
  BY <1>1 DEF PushIInv, Configured, Judged
<1>4. PushersAgree' /\ Told'
  BY <1>1 DEF PushIInv, PushersAgree, Told, Judged, Push!Pushing, Says
<1>5. QED
  BY <1>2, <1>3, <1>4 DEF PushIInv

LEMMA ClockKeeps ==
  ASSUME PushIInv, Judged, Push!Clock PROVE PushIInv'
<1>1. /\ UNCHANGED <<up, task, successes, run, edits, syncs, outcome, kuma>> /\ now' = now + 1
      /\ now < Horizon /\ swept' = FALSE /\ (up => swept /\ Push!Quiet)
  BY DEF Push!Clock, Push!backup
<1>2. now \in Nat /\ kuma.at \in Nat /\ Horizon \in Nat
  BY PushTypes, PushFacts
<1>3. Push!TypeOK'
  <2>1. now' \in Nat /\ swept' \in BOOLEAN /\ shown' \in Push!States /\ steady' \in 0..2
    <3>1. now' \in Nat
      BY <1>1, <1>2
    <3>2. swept' \in BOOLEAN
      BY <1>1
    <3>3. shown' \in Push!States /\ steady' \in 0..2
      BY DEF Judged
    <3>4. QED
      BY <3>1, <3>2, <3>3
  <2>2. UNCHANGED <<up, task, successes, run, edits, syncs, outcome, kuma>>
    BY <1>1
  <2>3. QED
    BY <2>1, <2>2 DEF PushIInv, Push!TypeOK
<1>4. Past'
  <2>1. run \in Int /\ run <= now /\ kuma.at <= now /\ task.epoch <= kuma.at
    BY DEF PushIInv, Push!TypeOK, Past, Push!Never
  <2>2. \A q \in Seq([start : Nat, end : Nat]) : \A i \in DOMAIN q : q[i].end \in Nat
    <3>1. \A S : \A q \in Seq(S) : \A i \in DOMAIN q : q[i] \in S
      OBVIOUS
    <3>2. \A e \in [start : Nat, end : Nat] : e.end \in Nat
      OBVIOUS
    <3>3. QED
      BY <3>1, <3>2, Zenon
  <2>3. \A i \in DOMAIN successes : successes[i].end \in Nat
    BY <2>2 DEF PushIInv, Push!TypeOK
  <2>4. \A i \in DOMAIN successes :
           successes[i].start <= successes[i].end /\ successes[i].end <= now + 1
    BY <1>2, <2>3 DEF PushIInv, Past
  <2>5. QED
    BY <1>1, <1>2, <2>1, <2>4 DEF Past
<1>5. Configured' /\ Projected'
  BY <1>1 DEF PushIInv, Configured, Judged
<1>6. steady' > 0 => up /\ Says' = Says
  BY <1>1 DEF Judged, Says
<1>7. PushersAgree'
  BY <1>1, <1>6 DEF PushersAgree, Push!Quiet, Push!Pushing, Push!Status
<1>8. steady' = 2 => steady > 0
  BY <1>1, <1>2 DEF Judged
<1>9. Told'
  BY <1>1, <1>2, <1>6, <1>8 DEF PushIInv, Told
<1>10. QED
  BY <1>3, <1>4, <1>5, <1>7, <1>9 DEF PushIInv

LEMMA TimePasses == ASSUME Push!Next PROVE now' \in {now, now + 1}
<1>1. ASSUME Push!Step PROVE now' \in {now, now + 1}
  BY <1>1 DEF Push!Step, Push!BeginSweep, Push!BeginSync, Push!AnswerLost, Push!EndPush,
              Push!RunBegins, Push!RunEnds, Push!Edit, Push!Crash, Push!Restart, Push!Clock
<1>2. QED
  BY <1>1 DEF Push!Next

LEMMA PushStep == PushIInv /\ [Push!Next]_(Push!vars) => PushIInv'
<1>1. ASSUME PushIInv, UNCHANGED Push!vars PROVE PushIInv'
  BY <1>1 DEF Push!vars, Push!backup, PushIInv, Push!TypeOK, Past, Projected, Configured,
              PushersAgree, Told, Says, Push!Pushing
<1>2. ASSUME PushIInv, Push!Next PROVE PushIInv'
  <2>1. now' \in {now, now + 1}
    BY <1>2, TimePasses
  <2>2. Judged
    BY <1>2, <2>1, JudgedIs DEF Push!Next
  <2>3. CASE Push!BeginSweep
    BY <1>2, <2>2, <2>3, ReadKeeps DEF Push!BeginSweep, Push!Syncer, Push!backup
  <2>4. CASE Push!BeginSync
    BY <1>2, <2>2, <2>4, ReadKeeps DEF Push!BeginSync, Push!Syncer, Push!backup
  <2>5. CASE \E s \in Push!Syncer : Push!AnswerLost(s) \/ \E ok \in BOOLEAN : Push!EndPush(s, ok)
    BY <1>2, <2>2, <2>5, AnswerLostKeeps, EndPushKeeps
  <2>6. CASE Push!RunBegins \/ \E ok \in BOOLEAN : Push!RunEnds(ok)
    BY <1>2, <2>2, <2>6, RunBeginsKeeps, RunEndsKeeps
  <2>7. CASE \E c \in Cron, e \in BOOLEAN : Push!Edit(c, e)
    BY <1>2, <2>2, <2>7, EditKeeps
  <2>8. CASE Push!Crash \/ Push!Restart \/ Push!Clock
    BY <1>2, <2>2, <2>8, CrashKeeps, RestartedKeeps, ClockKeeps
  <2>9. QED
    BY <1>2, <2>3, <2>4, <2>5, <2>6, <2>7, <2>8 DEF Push!Next, Push!Step
<1>3. QED
  BY <1>1, <1>2

-----------------------------------------------------------------------------
\* The projection, unfolded: what is owed, how far the next occurrence is from it, and
\* the cycle its grace is reckoned from.
Moment    == Push!After(task, successes)
First     == Push!NextOccurrence(task.cron, Moment)
Following == Push!NextOccurrence(task.cron, First)
Spacing   == IF Following = Push!Never THEN 0 ELSE Following - First
Cycle     == Push!CadenceSeconds(task.cron, now)
Gap       == Push!Larger(Spacing, Cycle)
Deadline  == Push!Deadline(task, successes, now)

LEMMA HeadIs ==
  ASSUME PushIInv, successes # <<>>
  PROVE  /\ 1 \in DOMAIN successes /\ Head(successes) = successes[1]
         /\ Head(successes).start \in Nat /\ Head(successes).end \in Nat
         /\ Head(successes).start <= Head(successes).end /\ Head(successes).end <= now
<1>1. successes \in Seq([start : Nat, end : Nat])
  BY DEF PushIInv, Push!TypeOK
<1>2. 1 \in DOMAIN successes /\ Head(successes) = successes[1]
      /\ Head(successes) \in [start : Nat, end : Nat]
  <2>1. \A S : \A q \in Seq(S) : q # <<>> => 1 \in DOMAIN q /\ Head(q) = q[1] /\ Head(q) \in S
    OBVIOUS
  <2>2. QED
    BY <1>1, <2>1
<1>3. QED
  BY <1>2 DEF PushIInv, Past

LEMMA MomentIs ==
  ASSUME PushIInv
  PROVE  /\ Moment \in Nat /\ Moment >= task.epoch
         /\ \/ Moment = task.epoch
            \/ successes # <<>> /\ Moment = Head(successes).start + Early
<1>1. task.epoch \in Nat /\ Early \in Nat
  BY PushTypes, PushFacts
<1>2. CASE successes = <<>>
  BY <1>1, <1>2 DEF Moment, Push!After
<1>3. CASE successes # <<>>
  <2>1. Moment = Push!Larger(task.epoch, Head(successes).start + Early)
    BY <1>3 DEF Moment, Push!After, Push!Covers
  <2>2. Head(successes).start \in Nat
    BY <1>3, HeadIs
  <2>3. QED
    BY <1>1, <1>3, <2>1, <2>2 DEF Push!Larger
<1>4. QED
  BY <1>2, <1>3

LEMMA DurationsAre == ASSUME PushIInv PROVE Push!Durations(successes) \subseteq 0..now
<1>1. \A S : \A q \in Seq(S) : \A i \in DOMAIN q : q[i] \in S
  OBVIOUS
<1>2. ASSUME NEW i \in DOMAIN successes PROVE successes[i].end - successes[i].start \in 0..now
  <2>1. successes[i] \in [start : Nat, end : Nat]
    BY <1>1 DEF PushIInv, Push!TypeOK
  <2>2. successes[i].start <= successes[i].end /\ successes[i].end <= now
    BY DEF PushIInv, Past
  <2>3. now \in Nat
    BY PushTypes
  <2>4. QED
    BY <2>1, <2>2, <2>3
<1>3. QED
  BY <1>2 DEF Push!Durations

LEMMA FirstIs ==
  ASSUME PushIInv
  PROVE  /\ First \in Nat \cup {Push!Never} /\ First \in Int
         /\ Following \in Nat \cup {Push!Never} /\ Following \in Int
         /\ First # Push!Never => First \in Fires[task.cron] /\ First > Moment
         /\ First # Push!Never /\ Following # Push!Never => Following > First
         /\ \A o \in Fires[task.cron] : o > Moment => First # Push!Never /\ First <= o
         /\ \A o \in Fires[task.cron] : o > First => Following # Push!Never /\ Following <= o
<1>1. Fires[task.cron] \subseteq Nat /\ Moment \in Int
  BY PushTypes, PushFacts, MomentIs
<1>2. First = Push!NextOf(Fires[task.cron], Moment)
  BY DEF First, Push!NextOccurrence
<1>3. First \in Int
  BY <1>1, <1>2, NextIs
<1>4. Following = Push!NextOf(Fires[task.cron], First)
  BY DEF Following, Push!NextOccurrence
<1> HIDE DEF First, Following, Moment
<1>5. /\ First \in Nat \cup {Push!Never}
      /\ First # Push!Never => First \in Fires[task.cron] /\ First > Moment
      /\ \A o \in Fires[task.cron] : o > Moment => First # Push!Never /\ First <= o
  BY <1>1, <1>2, NextIs
<1>6. /\ Following \in Nat \cup {Push!Never} /\ Following \in Int
      /\ Following # Push!Never => Following > First
      /\ \A o \in Fires[task.cron] : o > First => Following # Push!Never /\ Following <= o
  BY <1>1, <1>3, <1>4, NextIs
<1>7. QED
  BY <1>3, <1>5, <1>6

LEMMA DeadlineIs ==
  ASSUME PushIInv, First # Push!Never
  PROVE  /\ Spacing \in Nat /\ Cycle \in Nat /\ Gap \in Nat /\ First \in Nat
         /\ Deadline \in Int /\ Deadline <= First + Grace(Gap)
<1>1. Cycle \in Nat
  BY PushTypes, CadenceIs DEF Cycle
<1>2. First \in Nat
  BY FirstIs
<1>3. Spacing \in Nat
  BY <1>2, FirstIs DEF Spacing
<1>4. Gap \in Nat
  BY <1>1, <1>3 DEF Gap, Push!Larger
<1> DEFINE G == Push!GraceSeconds(Gap, Push!Durations(successes))
<1>5. G \in Int /\ G <= Grace(Gap)
  BY <1>4, DurationsAre, GraceIs, PushTypes
<1>6. Deadline = First + G
  BY DEF Deadline, Push!Deadline, Push!Owed, First, Following, Spacing, Cycle, Gap, Moment
<1>7. Grace(Gap) \in Nat
  BY <1>4, GraceGrows
<1> HIDE DEF G, First, Gap, Deadline
<1>8. QED
  BY <1>1, <1>2, <1>3, <1>4, <1>5, <1>6, <1>7

LEMMA ShownIs ==
  ASSUME PushIInv, task.enabled
  PROVE  /\ task.cron \in Broken => shown = "stale"
         /\ task.cron \notin Broken /\ First # Push!Never /\ First <= now /\ ~(now <= Deadline)
              => shown = "stale"
<1>1. shown = Push!Project(task, successes, now)
  BY DEF PushIInv, Projected
<1>2. First = Push!Owed(task, successes, now)
  BY DEF First, Moment, Push!Owed
<1>3. QED
  BY <1>1, <1>2, FirstIs, PushTypes DEF Push!Project, Deadline

LEMMA AgreesMeans == PushIInv => Push!KumaAgrees
<1> SUFFICES ASSUME PushIInv, steady = 2, outcome # "failed"
             PROVE  /\ shown = "fresh" => kuma.word = "up" /\ ~Push!Lapsed
                    /\ shown = "stale" => kuma.word = "down"
  BY DEF Push!KumaAgrees
<1>1. outcome = "ok"
  BY DEF PushIInv, Push!TypeOK
<1>2. shown = "fresh" => Says = "up"
  BY DEF Says, Push!KumaStatus
<1>3. shown = "stale" => Says = "down"
  BY DEF Says, Push!KumaStatus
<1>4. Says # "nothing" => kuma.word = Says /\ now <= kuma.at + 1
  BY <1>1 DEF PushIInv, Told
<1>5. now <= kuma.at + 1 => ~Push!Lapsed
  BY PushTypes DEF Push!Lapsed
<1>6. QED
  BY <1>2, <1>3, <1>4, <1>5

\* While nothing but time passes the deadline stays where it is.
LEMMA OnlyGetsLater ==
  ASSUME Even, PushIInv, Push!Next, UNCHANGED <<task, successes>>
  PROVE  Push!Lateness(shown') >= Push!Lateness(shown)
<1>1. PushIInv'
  BY PushStep
<1>2. now' \in {now, now + 1} /\ now \in Nat
  BY TimePasses, PushTypes
<1>3. now \in 0..Horizon /\ now' \in 0..Horizon
  BY <1>1, <1>2, PushFacts DEF PushIInv, Past
<1>4. shown = Push!Project(task, successes, now) /\ shown' = Push!Project(task, successes, now')
  BY <1>1 DEF PushIInv, Projected
<1>5. Push!Lateness(shown) \in 0..2 /\ Push!Lateness(shown') \in 0..2
  BY DEF Push!Lateness
<1>6. CASE ~task.enabled \/ task.cron \in Broken
  <2>1. shown' = shown
    BY <1>4, <1>6 DEF Push!Project
  <2>2. QED
    BY <1>5, <2>1
<1>7. CASE task.enabled /\ task.cron \notin Broken
  <2>1. First = Push!Owed(task, successes, now) /\ First = Push!Owed(task, successes, now')
        /\ First \in Int
    BY FirstIs DEF First, Moment, Push!Owed
  <2>2. CASE First = Push!Never \/ First > now
    <3>1. Push!Lateness(shown) = 0
      BY <1>4, <1>7, <2>1, <2>2 DEF Push!Project, Push!Lateness
    <3>2. QED
      BY <1>5, <3>1
  <2>3. CASE First # Push!Never /\ First <= now
    <3>1. Push!CadenceSeconds(task.cron, now') = Push!CadenceSeconds(task.cron, now)
      BY <1>3, <1>7, PushTypes DEF Even
    <3>2. Push!Deadline(task, successes, now') = Deadline
      BY <3>1 DEF Deadline, Push!Deadline, Push!Owed
    <3>3. Deadline \in Int
      BY <2>3, DeadlineIs
    <3>4. shown = IF now <= Deadline THEN "delayed" ELSE "stale"
      BY <1>2, <1>4, <1>7, <2>1, <2>3 DEF Push!Project, Deadline
    <3>5. shown' = IF now' <= Deadline THEN "delayed" ELSE "stale"
      BY <1>2, <1>4, <1>7, <2>1, <2>3, <3>2 DEF Push!Project
    <3> HIDE DEF Deadline
    <3>6. QED
      BY <1>2, <3>3, <3>4, <3>5 DEF Push!Lateness
  <2>4. QED
    BY <1>2, <2>1, <2>2, <2>3
<1>8. QED
  BY <1>6, <1>7

LEMMA RenewsMeans ==
  Even /\ PushIInv /\ [Push!Next]_(Push!vars) =>
    [UNCHANGED <<task, successes>> => Push!Lateness(shown') >= Push!Lateness(shown)]_(Push!vars)
BY OnlyGetsLater

LEMMA HidesMeans == ASSUME Even, Roomy, PushIInv PROVE Push!NothingHides
<1>1. SUFFICES ASSUME task.enabled, task.cron \notin Broken, NEW o \in Fires[task.cron],
                      o \in (task.epoch + 1)..now,
                      \A i \in DOMAIN successes : successes[i].start + Early < o,
                      now >= o + Push!Larger(Push!NextOccurrence(task.cron, o) - o,
                                             Push!CadenceSeconds(task.cron, o))
               PROVE  shown = "stale"
  BY DEF Push!NothingHides
<1> DEFINE next == Push!NextOccurrence(task.cron, o)
           gap  == Push!Larger(next - o, Cycle)
<1>2. now \in 0..Horizon /\ now \in Nat /\ task.cron \in Cron \ Broken /\ task.epoch \in Nat
  BY <1>1, PushTypes
<1>3. o \in 0..Horizon /\ o \in Nat /\ o <= now /\ o > task.epoch
  BY <1>1, <1>2, PushFacts
<1>4. Moment < o
  <2>1. CASE Moment = task.epoch
    BY <1>3, <2>1
  <2>2. CASE successes # <<>> /\ Moment = Head(successes).start + Early
    BY <1>1, <2>2, HeadIs
  <2>3. QED
    BY <2>1, <2>2, MomentIs
<1>5. First # Push!Never /\ First <= o
  BY <1>3, <1>4, FirstIs, MomentIs
<1>6. /\ Spacing \in Nat /\ Cycle \in Nat /\ Gap \in Nat /\ First \in Nat
      /\ Deadline \in Int /\ Deadline <= First + Grace(Gap)
  BY <1>5, DeadlineIs
<1>7. Push!CadenceSeconds(task.cron, o) = Cycle /\ 2 * SlackFloor < Cycle
  BY <1>2, <1>3 DEF Even, Roomy, Cycle
<1>8. Gap = Push!Larger(Spacing, Cycle) /\ now >= o + gap
  BY <1>1, <1>7 DEF Gap
<1>9. next \in Int /\ (next = Push!Never \/ next > o)
  <2>1. Fires[task.cron] \subseteq Nat /\ o \in Int
    BY <1>2, <1>3, PushFacts
  <2>2. next = Push!NextOf(Fires[task.cron], o)
    BY DEF Push!NextOccurrence
  <2> HIDE DEF next
  <2>3. QED
    BY <2>1, <2>2, NextIs
<1>10. Grace(Gap) \in Nat /\ Grace(Gap) < Gap
  <2>1. Gap > 2 * SlackFloor
    BY <1>6, <1>7, <1>8, PushFacts DEF Push!Larger
  <2>2. QED
    BY <1>6, <2>1, GraceGrows
<1>11. First + Gap <= now
  <2>1. CASE First = o
    <3>1. Spacing = IF next = Push!Never THEN 0 ELSE next - o
      BY <2>1 DEF Spacing, Following
    <3>2. gap = Gap
      <4> HIDE DEF next, Spacing, Cycle, Gap
      <4>1. QED
        BY <1>3, <1>6, <1>8, <1>9, <3>1 DEF Push!Larger, Push!Never
    <3>3. QED
      BY <1>8, <2>1, <3>2
  <2>2. CASE First # o
    <3>1. Following # Push!Never /\ Following <= o /\ Following \in Int
      BY <1>3, <1>5, <1>6, <2>2, FirstIs
    <3>2. Spacing = Following - First
      BY <3>1 DEF Spacing
    <3>3. gap \in Int /\ gap >= Cycle
      <4> HIDE DEF next, Cycle
      <4>1. QED
        BY <1>3, <1>6, <1>9 DEF Push!Larger
    <3> HIDE DEF gap, Cycle, Spacing, First, Following, Gap
    <3>4. QED
      BY <1>2, <1>3, <1>5, <1>6, <1>8, <3>1, <3>2, <3>3 DEF Push!Larger
  <2>3. QED
    BY <2>1, <2>2
<1>12. First <= now /\ ~(now <= Deadline)
  <2> HIDE DEF First, Deadline, Gap
  <2>1. QED
    BY <1>2, <1>3, <1>5, <1>6, <1>10, <1>11
<1>13. QED
  BY <1>1, <1>5, <1>12, ShownIs

LEMMA LapseMeans == ASSUME Even, MarginCovers, PushIInv PROVE Push!LapseMeansStale
<1>1. SUFFICES ASSUME Push!Lapsed, Push!HeardOf PROVE shown = "stale"
  BY DEF Push!LapseMeansStale
<1>2. /\ now \in 0..Horizon /\ now \in Nat /\ task.cron \in Cron /\ task.epoch \in 0..Horizon
      /\ kuma.at \in Nat /\ kuma.interval \in Nat /\ task.epoch <= kuma.at /\ kuma.at <= now
      /\ Horizon \in Nat /\ Early \in Nat /\ DstMargin \in Nat
  BY PushTypes, PushFacts DEF PushIInv, Past
<1>3. task.enabled /\ now - kuma.at > kuma.interval
  BY <1>1 DEF Push!Lapsed, PushIInv, Configured
<1>4. CASE task.cron \in Broken
  BY <1>3, <1>4, ShownIs
<1>5. CASE task.cron \notin Broken
  <2>1. Moment \in Nat /\ Moment <= kuma.at + Early
    <3>1. CASE Moment = task.epoch
      BY <1>2, <3>1
    <3>2. CASE successes # <<>> /\ Moment = Head(successes).start + Early
      <4>1. /\ Head(successes).start \in Nat /\ Head(successes).end \in Nat
            /\ Head(successes).start <= Head(successes).end
        BY <3>2, HeadIs
      <4>2. kuma.at >= Head(successes).end
        BY <1>1, <3>2 DEF Push!HeardOf
      <4> HIDE DEF Moment
      <4>3. QED
        BY <1>2, <3>2, <4>1, <4>2
    <3>3. QED
      BY <3>1, <3>2, MomentIs
  <2>2. Moment \in 0..(Horizon + Early)
    BY <1>2, <2>1
  <2>3. Cycle = Push!CadenceSeconds(task.cron, 0)
    BY <1>2, <1>5 DEF Even, Cycle
  <2>4. /\ First # Push!Never /\ First + Early <= Moment + Cycle + DstMargin
        /\ Following # Push!Never => Following + Early <= Moment + 2 * Cycle + DstMargin
    BY <1>2, <1>5, <2>2, <2>3 DEF MarginCovers, First, Following
  <2>5. /\ Spacing \in Nat /\ Cycle \in Nat /\ Gap \in Nat /\ First \in Nat
        /\ Deadline \in Int /\ Deadline <= First + Grace(Gap)
    BY <2>4, DeadlineIs
  <2>6. kuma.interval = Cycle + DstMargin + Grace(Cycle)
    <3>1. kuma.interval = Push!ExpiryOf(Push!CadenceSeconds(task.cron, task.epoch))
      BY DEF PushIInv, Configured, Push!KumaExpirySeconds
    <3>2. Push!CadenceSeconds(task.cron, task.epoch) = Cycle
      BY <1>2, <1>5, <2>3 DEF Even
    <3>3. QED
      BY <2>5, <3>1, <3>2, ExpiryIs
  <2>7. Grace(Cycle) \in Nat /\ \A d \in Nat : Grace(Cycle + d) <= Grace(Cycle) + d
    BY <2>5, GraceGrows
  <2>8. Spacing = (IF Following = Push!Never THEN 0 ELSE Following - First)
        /\ Gap = Push!Larger(Spacing, Cycle) /\ Following \in Int
    BY FirstIs DEF Spacing, Gap
  <2>9. First + Grace(Gap) <= kuma.at + kuma.interval
    <3>1. CASE Gap = Cycle
      <4> HIDE DEF First, Cycle, Gap, Moment
      <4>1. QED
        BY <1>2, <2>1, <2>4, <2>5, <2>6, <2>7, <3>1
    <3>2. CASE Gap # Cycle
      <4> DEFINE d == Gap - Cycle
      <4>1. Gap = Following - First /\ Following # Push!Never /\ Gap > Cycle
        <5> HIDE DEF First, Following, Cycle, Gap, Spacing
        <5>1. QED
          BY <2>5, <2>8, <3>2 DEF Push!Larger
      <4> HIDE DEF First, Following, Cycle, Gap, Moment
      <4>2. d \in Nat /\ Cycle + d = Gap
        BY <2>5, <4>1
      <4>3. Grace(Gap) <= Grace(Cycle) + d /\ Grace(Gap) \in Nat
        <5>1. Grace(Cycle + d) <= Grace(Cycle) + d
          BY <2>7, <4>2
        <5>2. QED
          BY <2>5, <4>2, <5>1, GraceGrows
      <4>4. QED
        BY <1>2, <2>1, <2>4, <2>5, <2>6, <2>7, <2>8, <4>1, <4>3
    <3>3. QED
      BY <3>1, <3>2
  <2>10. First <= now /\ ~(now <= Deadline)
    <3>1. Grace(Gap) \in Nat
      BY <2>5, GraceGrows
    <3> HIDE DEF First, Deadline, Gap
    <3>2. QED
      BY <1>2, <1>3, <2>5, <2>9, <3>1
  <2>11. QED
    BY <1>3, <1>5, <2>4, <2>10, ShownIs
<1>6. QED
  BY <1>4, <1>5

\* The types of the push side.
THEOREM PushTypeCorrect == Push!Spec => []Push!TypeOK
<1>1. PushIInv => Push!TypeOK
  BY DEF PushIInv
<1>2. QED
  BY PushInit, PushStep, <1>1, PTL DEF Push!Spec

\* Whatever an older reading overtakes on its way, the monitor says what the projection
\* has said for a unit, or the failure is reported (sync_task, push_status).
THEOREM PushKumaAgrees == Push!Spec => []Push!KumaAgrees
BY PushInit, PushStep, AgreesMeans, PTL DEF Push!Spec

\* Under a schedule whose cycle is always the same, neither time nor an attempt renews
\* an owed backup (project_freshness).
THEOREM PushOnlySuccessRenews == Even => (Push!Spec => Push!OnlySuccessRenews)
<1> SUFFICES ASSUME Even PROVE Push!Spec => Push!OnlySuccessRenews
  OBVIOUS
<1>1. PushIInv /\ [Push!Next]_(Push!vars) =>
        [UNCHANGED <<task, successes>> => Push!Lateness(shown') >= Push!Lateness(shown)]_(Push!vars)
  BY RenewsMeans
<1>2. QED
  BY PushInit, PushStep, <1>1, PTL DEF Push!Spec, Push!OnlySuccessRenews

\* Under such a schedule an uncovered occurrence is stale before another cycle is over
\* (project_freshness, _slack_seconds, _runtime_allowance_seconds).
THEOREM PushNothingHides == Even /\ Roomy => (Push!Spec => []Push!NothingHides)
<1> SUFFICES ASSUME Even, Roomy PROVE Push!Spec => []Push!NothingHides
  OBVIOUS
<1>1. PushIInv => Push!NothingHides
  BY HidesMeans
<1>2. QED
  BY PushInit, PushStep, <1>1, PTL DEF Push!Spec

\* With a margin for the change of the clocks, a monitor that expires by itself does so
\* on a stale task (kuma_expiry_seconds).
THEOREM PushLapseMeansStale == Even /\ MarginCovers => (Push!Spec => []Push!LapseMeansStale)
<1> SUFFICES ASSUME Even, MarginCovers PROVE Push!Spec => []Push!LapseMeansStale
  OBVIOUS
<1>1. PushIInv => Push!LapseMeansStale
  BY LapseMeans
<1>2. QED
  BY PushInit, PushStep, <1>1, PTL DEF Push!Spec
-----------------------------------------------------------------------------
(* Both sides together.                                                    *)

KumaIInv ==
  /\ side \in {"config", "push"}
  /\ side = "config" => ConfigIInv
  /\ side = "push" => PushIInv

LEMMA KumaInit == Init => KumaIInv
BY ConfigInit, PushInit DEF Init, KumaIInv

LEMMA KumaStep == KumaIInv /\ [Next]_vars => KumaIInv'
<1>1. ASSUME KumaIInv, UNCHANGED vars PROVE KumaIInv'
  <2>1. side' = side /\ UNCHANGED Config!vars /\ UNCHANGED Push!vars
    BY <1>1 DEF vars, configVars, pushVars, Config!vars, Push!vars, Push!backup
  <2>2. QED
    BY <1>1, <2>1, ConfigStep, PushStep DEF KumaIInv
<1>2. ASSUME KumaIInv, Next PROVE KumaIInv'
  BY <1>2, ConfigStep, PushStep DEF KumaIInv, Next, Follow
<1>3. QED
  BY <1>1, <1>2

\* The types of whichever side a behaviour follows.
THEOREM KumaTypeCorrect == Spec => []TypeOK
<1>1. KumaIInv => TypeOK
  BY ConfigMeans DEF KumaIInv, TypeOK, PushIInv
<1>2. QED
  BY KumaInit, KumaStep, <1>1, PTL DEF Spec

\* Between requests the registered job is the one of the row.
THEOREM KumaScheduleIsCurrent == Spec => []ScheduleIsCurrent
<1>1. KumaIInv => ScheduleIsCurrent
  BY ConfigMeans DEF KumaIInv, ScheduleIsCurrent
<1>2. QED
  BY KumaInit, KumaStep, <1>1, PTL DEF Spec

\* A wrong interval is reported until it is repaired.
THEOREM KumaDriftIsReported == Spec => []DriftIsReported
<1>1. KumaIInv => DriftIsReported
  BY ConfigMeans DEF KumaIInv, DriftIsReported
<1>2. QED
  BY KumaInit, KumaStep, <1>1, PTL DEF Spec

\* The monitor says what the projection has said for a unit, or the failure is reported.
THEOREM KumaAlwaysAgrees == Spec => []KumaAgrees
<1>1. KumaIInv => KumaAgrees
  BY AgreesMeans DEF KumaIInv, KumaAgrees
<1>2. QED
  BY KumaInit, KumaStep, <1>1, PTL DEF Spec

\* Under schedules with one cycle each, longer than twice the least slack, an uncovered
\* occurrence is stale before another cycle is over.
THEOREM KumaNothingHides == Even /\ Roomy => (Spec => []NothingHides)
<1> SUFFICES ASSUME Even, Roomy PROVE Spec => []NothingHides
  OBVIOUS
<1>1. KumaIInv => NothingHides
  BY HidesMeans DEF KumaIInv, NothingHides
<1>2. QED
  BY KumaInit, KumaStep, <1>1, PTL DEF Spec

\* Under schedules with one cycle each and a margin that covers a change of the clocks,
\* a monitor that expires by itself does so on a stale task.
THEOREM KumaLapseMeansStale == Even /\ MarginCovers => (Spec => []LapseMeansStale)
<1> SUFFICES ASSUME Even, MarginCovers PROVE Spec => []LapseMeansStale
  OBVIOUS
<1>1. KumaIInv => LapseMeansStale
  BY LapseMeans DEF KumaIInv, LapseMeansStale
<1>2. QED
  BY KumaInit, KumaStep, <1>1, PTL DEF Spec

\* Under such schedules neither time nor an attempt renews an owed backup.
THEOREM KumaOnlySuccessRenews == Even => (Spec => OnlySuccessRenews)
<1> SUFFICES ASSUME Even PROVE Spec => OnlySuccessRenews
  OBVIOUS
<1>1. KumaIInv /\ [Next]_vars =>
        [UNCHANGED <<task, successes>> => Push!Lateness(shown') >= Push!Lateness(shown)]_(Push!vars)
  <2>1. ASSUME UNCHANGED pushVars
        PROVE  [UNCHANGED <<task, successes>> =>
                  Push!Lateness(shown') >= Push!Lateness(shown)]_(Push!vars)
    BY <2>1 DEF pushVars, Push!vars, Push!backup
  <2>2. ASSUME PushIInv, Push!Next
        PROVE  [UNCHANGED <<task, successes>> =>
                  Push!Lateness(shown') >= Push!Lateness(shown)]_(Push!vars)
    BY <2>2, RenewsMeans
  <2>3. QED
    BY <2>1, <2>2 DEF KumaIInv, Next, vars
<1>2. QED
  BY KumaInit, KumaStep, <1>1, PTL DEF Spec, OnlySuccessRenews, Push!OnlySuccessRenews
=============================================================================
