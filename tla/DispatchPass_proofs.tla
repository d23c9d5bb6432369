------------------------- MODULE DispatchPass_proofs -------------------------
(***************************************************************************)
(* A pass of the dispatcher keeps the order of the obligations, for every  *)
(* set of tasks, every configuration and every limit.                      *)
(***************************************************************************)
EXTENDS DispatchPass, DestKeys_proofs, FiniteSetTheorems, SequenceTheorems,
        WellFoundedInduction

\* Sharing a scope has no direction, and every task shares its own.
LEMMA ScopesSymmetric ==
  ASSUME NEW t \in Task, NEW u \in Task
  PROVE  SharesScope(t, u) <=> SharesScope(u, t)
<1>1. DestOf[t] \in Seq(STRING) /\ DestOf[u] \in Seq(STRING)
  BY PassAssumption DEF PassAssumption
<1>2. Conflicts(DestOf[t], DestOf[u]) <=> Conflicts(DestOf[u], DestOf[t])
  BY <1>1, ConflictsSymmetric
<1> QED
  BY <1>2 DEF SharesScope, SameDest

LEMMA ScopeIsOwn ==
  ASSUME NEW t \in Task
  PROVE  SharesScope(t, t)
BY DEF SharesScope

\* The types the argument needs.
Typed == /\ run \in [Task -> {"none", "owned", "orphan"}]
         /\ status \in [Task -> Status]

LEMMA StaysTyped ==
  ASSUME Typed, [Next]_vars
  PROVE  Typed'
<1> USE DEF Typed, Status
<1>1. CASE UNCHANGED vars
  BY <1>1 DEF vars
<1>2. ASSUME NEW t \in Task, Occurrence(t) PROVE Typed'
  BY <1>2 DEF Occurrence
<1>3. ASSUME NEW t \in Task, RetryDue(t) \/ Edited(t) \/ Watchdog(t) \/ ManualRun(t)
      PROVE  Typed'
  BY <1>3 DEF RetryDue, Edited, Watchdog, ManualRun
<1>4. ASSUME NEW t \in Task, NEW v \in Verdict, DispatchedEnds(t, v) PROVE Typed'
  <2>1. CASE v = "success"
    BY <1>4, <2>1 DEF DispatchedEnds, Paid
  <2>2. CASE v = "failed"
    BY <1>4, <2>2 DEF DispatchedEnds, Failed
  <2>3. CASE v \in {"cancelled", "permanent", "infra"}
    BY <1>4, <2>3 DEF DispatchedEnds
  <2> QED
    BY <2>1, <2>2, <2>3 DEF Verdict
<1>5. ASSUME NEW t \in Task, NEW v \in Verdict, ManualEnds(t, v) PROVE Typed'
  BY <1>5 DEF ManualEnds, Paid
<1>6. CASE StartPass \/ EndPass \/ Skip
  BY <1>6 DEF StartPass, EndPass, Skip
<1>7. CASE Abort
  BY <1>7 DEF Abort
<1>8. ASSUME NEW t \in Task, Refuse(t) \/ Dispatch(t) PROVE Typed'
  BY <1>8 DEF Refuse, Dispatch
<1> QED
  BY <1>1, <1>2, <1>3, <1>4, <1>5, <1>6, <1>7, <1>8 DEF Next, RunEnds, PassStep

\* Before a pass has looked at a row there is nothing to keep.
LEMMA FreshPass ==
  ASSUME at \in {0, 1}, refused = {}, started = {}
  PROVE  PassInv
<1>1. 1..(at - 1) = {}
  OBVIOUS
<1>2. Waiting = {}
  BY <1>1 DEF Waiting
<1> QED
  BY <1>2 DEF PassInv, Started, NoOvertaking, NoHeadOfLineBlocking, StartsAtOnce

LEMMA FreshPassNext ==
  ASSUME at' \in {0, 1}, refused' = {}, started' = {}
  PROVE  PassInv'
<1>1. 1..(0 - 1) = {} /\ 1..(1 - 1) = {}
  OBVIOUS
<1>2. Waiting' = {}
  BY <1>1 DEF Waiting
<1> QED
  BY <1>2 DEF PassInv, Started, NoOvertaking, NoHeadOfLineBlocking, StartsAtOnce

\* Outside a pass nothing is refused or started.
LEMMA IdlePass ==
  ASSUME PassInv, at = 0
  PROVE  refused = {} /\ started = {}
<1>1. 1..(at - 1) = {}
  OBVIOUS
<1>2. Waiting = {}
  BY <1>1 DEF Waiting
<1> QED
  BY <1>1, <1>2 DEF PassInv

LEMMA ActiveIsFinite == IsFiniteSet(Active)
<1>1. Active \subseteq Task
  BY DEF Active
<1> QED
  BY <1>1, PassAssumption, FS_Subset DEF PassAssumption

\* What a pass does with the row it looks at: the rows that wait grow by a
\* refusal and by nothing else.
LEMMA SkipKeeps ==
  ASSUME PassInv, Skip
  PROVE  PassInv'
<1> USE DEF PassInv, Skip
<1>1. 1..(at' - 1) = (1..(at - 1)) \union {at} /\ at' \in Nat /\ at \in 1..at /\ at >= 1
  <2>1. at >= 1
    BY DEF InPass
  <2> QED
    BY <2>1
<1>2. Waiting' = Waiting
  <2>1. ASSUME NEW t \in Task PROVE ~ (RowAt(at, t) /\ Startable(t))
    BY DEF RowAt
  <2> QED
    BY <1>1, <2>1 DEF Waiting, RowAt, Startable
<1>3. started' = started /\ Active' = Active /\ Started' = Started
  BY DEF Active, Started
<1>4. started' \subseteq 1..(at' - 1)
  BY <1>1, <1>3
<1>5. NoOvertaking' /\ NoHeadOfLineBlocking' /\ StartsAtOnce'
  BY <1>2, <1>3 DEF NoOvertaking, NoHeadOfLineBlocking, StartsAtOnce, SharesScope, SameDest
<1> QED
  BY <1>1, <1>2, <1>3, <1>4, <1>5

LEMMA RefuseKeeps ==
  ASSUME PassInv, NEW t \in Task, Refuse(t)
  PROVE  PassInv'
<1> USE DEF PassInv, Refuse
<1>1. at >= 1 /\ 1..(at' - 1) = (1..(at - 1)) \union {at} /\ at' \in Nat
  BY DEF Looks, InPass
<1>2. Waiting' = Waiting \union {<<at, t>>}
  <2>1. \A u \in Task : RowAt(at, u) <=> u = t
    BY DEF Looks, RowAt
  <2>2. Startable(t)
    BY DEF Looks
  <2> QED
    BY <1>1, <2>1, <2>2 DEF Waiting, RowAt, Startable
<1>3. started' = started /\ Active' = Active /\ Started' = Started
  BY DEF Active, Started
<1>4. started' \subseteq 1..(at' - 1)
  BY <1>1, <1>3
<1>5. /\ refused' \subseteq Task
      /\ \A u \in Task : u \in refused' <=> \E w \in Waiting' : w[2] = u
  <2>1. <<at, t>>[2] = t
    OBVIOUS
  <2> QED
    BY <1>2, <2>1
<1>6. NoOvertaking'
  <2>1. \A j \in started : ~ at < j
    BY <1>1
  <2> QED
    BY <1>2, <1>3, <2>1 DEF NoOvertaking, SharesScope, SameDest
<1>7. NoHeadOfLineBlocking'
  <2>1. \A j \in started : j < at
    BY <1>1
  <2>2. \A o \in Waiting : o[1] < at
    BY <1>1 DEF Waiting
  <2>3. \/ \E u \in Active : SharesScope(t, u)
        \/ \E o \in Waiting : SharesScope(t, o[2])
        \/ Cardinality(Active) >= Limit
    BY DEF Reason
  <2> QED
    BY <1>2, <1>3, <2>1, <2>2, <2>3 DEF NoHeadOfLineBlocking, SharesScope, SameDest
<1>8. StartsAtOnce'
  BY <1>3 DEF StartsAtOnce, SharesScope, SameDest
<1> QED
  BY <1>1, <1>3, <1>4, <1>5, <1>6, <1>7, <1>8

LEMMA DispatchKeeps ==
  ASSUME PassInv, Typed, NEW t \in Task, Dispatch(t)
  PROVE  PassInv'
<1> USE DEF PassInv, Dispatch
<1>1. at >= 1 /\ 1..(at' - 1) = (1..(at - 1)) \union {at} /\ at' \in Nat
  BY DEF Looks, InPass
<1>2. queue[at][1] = t /\ RowAt(at, t)
  BY DEF Looks, RowAt
<1>3. \A u \in Active \union refused : ~ SharesScope(t, u)
  BY DEF Reason
<1>4. t \notin Active /\ t \notin refused
  BY <1>3, ScopeIsOwn
<1>5. Waiting' = Waiting
  <2>1. \A u \in Task : RowAt(at, u) => u = t
    BY <1>2 DEF RowAt
  <2>2. ~ Startable(t)'
    BY DEF Startable, Typed
  <2>3. \A u \in Task : u # t => (Startable(u)' <=> Startable(u))
    BY DEF Startable, Typed
  <2>4. \A w \in Waiting : w[2] # t
    BY <1>4
  <2>5. Waiting' \subseteq Waiting
    BY <1>1, <2>1, <2>2, <2>3 DEF Waiting, RowAt
  <2>6. Waiting \subseteq Waiting'
    BY <1>1, <2>3, <2>4 DEF Waiting, RowAt
  <2> QED
    BY <2>5, <2>6
<1>6. Active' = Active \union {t}
  BY DEF Active, Typed
<1>7. Started' = Started \union {t}
  BY <1>2 DEF Started
<1>8. started' \subseteq 1..(at' - 1)
  BY <1>1
<1>9. Started' \subseteq Active'
  BY <1>6, <1>7
<1>10. NoOvertaking'
  <2>1. \A w \in Waiting : ~ SharesScope(w[2], t)
    <3>1. \A w \in Waiting : w[2] \in refused /\ w[2] \in Task
      BY DEF Waiting
    <3> QED
      BY <1>3, <3>1, ScopesSymmetric
  <2> QED
    BY <1>2, <1>5, <2>1 DEF NoOvertaking, SharesScope, SameDest
<1>11. Cardinality(Active) < Limit /\ Cardinality(Active') <= Limit
  <2>1. Cardinality(Active) \in Nat
    BY ActiveIsFinite, FS_CardinalityType
  <2>2. Cardinality(Active') = Cardinality(Active) + 1
    BY <1>4, <1>6, ActiveIsFinite, FS_AddElement
  <2>3. Cardinality(Active) < Limit
    BY <2>1, PassAssumption DEF Reason, PassAssumption
  <2> QED
    BY <2>1, <2>2, <2>3, PassAssumption DEF PassAssumption
<1>12. NoHeadOfLineBlocking'
  <2>1. \A w \in Waiting : \/ \E u \in Active : SharesScope(w[2], u)
                           \/ \E o \in Waiting : o[1] < w[1] /\ SharesScope(w[2], o[2])
    <3>1. ~ Cardinality(Active) >= Limit
      BY DEF Reason
    <3> QED
      BY <3>1 DEF NoHeadOfLineBlocking
  <2> QED
    BY <1>5, <1>6, <2>1 DEF NoHeadOfLineBlocking, SharesScope, SameDest
<1>13. StartsAtOnce'
  <2>1. \A u \in Started : \A v \in Active \union {t} : v # u => ~ SharesScope(u, v)
    <3>1. \A u \in Started : u \in Task /\ ~ SharesScope(u, t)
      BY <1>3, ScopesSymmetric DEF Active
    <3> QED
      BY <3>1 DEF StartsAtOnce
  <2>2. \A v \in Active \union {t} : v # t => ~ SharesScope(t, v)
    BY <1>3
  <2> QED
    BY <1>6, <1>7, <1>11, <2>1, <2>2 DEF StartsAtOnce, SharesScope, SameDest
<1>14. /\ refused' \subseteq Task
       /\ \A u \in Task : u \in refused' <=> \E w \in Waiting' : w[2] = u
  BY <1>5
<1> QED
  BY <1>1, <1>8, <1>9, <1>10, <1>12, <1>13, <1>14

LEMMA StepKeeps ==
  ASSUME PassInv, Typed, [Next]_vars
  PROVE  PassInv'
<1>1. CASE UNCHANGED vars
  <2>1. /\ Waiting' = Waiting /\ Started' = Started /\ Active' = Active
        /\ at' = at /\ refused' = refused /\ started' = started /\ queue' = queue
    BY <1>1 DEF vars, pass, Waiting, RowAt, Startable, Started, Active
  <2>2. NoOvertaking' /\ NoHeadOfLineBlocking' /\ StartsAtOnce'
    BY <2>1 DEF PassInv, NoOvertaking, NoHeadOfLineBlocking, StartsAtOnce,
                SharesScope, SameDest
  <2> QED
    BY <2>1, <2>2 DEF PassInv
<1>2. ASSUME at = 0, UNCHANGED pass PROVE PassInv'
  BY <1>2, IdlePass, FreshPassNext DEF pass
<1>3. ASSUME NEW t \in Task,
             Occurrence(t) \/ RetryDue(t) \/ Edited(t) \/ Watchdog(t) \/ ManualRun(t)
      PROVE  PassInv'
  BY <1>2, <1>3 DEF Occurrence, RetryDue, Edited, Watchdog, ManualRun
<1>4. ASSUME NEW t \in Task, NEW v \in Verdict, RunEnds(t, v) PROVE PassInv'
  BY <1>2, <1>4 DEF RunEnds, DispatchedEnds, ManualEnds
<1>5. CASE StartPass \/ EndPass \/ Abort
  <2>1. at' \in {0, 1} /\ refused' = {} /\ started' = {}
    BY <1>5 DEF StartPass, EndPass, Abort
  <2> QED
    BY <2>1, FreshPassNext
<1>6. CASE Skip
  BY <1>6, SkipKeeps
<1>7. ASSUME NEW t \in Task, Refuse(t) \/ Dispatch(t) PROVE PassInv'
  BY <1>7, RefuseKeeps, DispatchKeeps
<1> QED
  BY <1>1, <1>3, <1>4, <1>5, <1>6, <1>7 DEF Next, PassStep
-----------------------------------------------------------------------------
\* What holds of the rows a pass refused and started, at each of its rows.
THEOREM PassInvariance == Spec => [](Typed /\ PassInv)
<1>1. Init => Typed /\ PassInv
  <2>1. ASSUME Init PROVE Typed
    BY <2>1 DEF Init, Typed, Status
  <2>2. ASSUME Init PROVE PassInv
    BY <2>2, FreshPass DEF Init
  <2> QED
    BY <2>1, <2>2
<1>2. Typed /\ PassInv /\ [Next]_vars => (Typed /\ PassInv)'
  BY StaysTyped, StepKeeps
<1> QED
  BY <1>1, <1>2, PTL DEF Spec

\* A younger task never takes a scope from an older one that could have started.
THEOREM OrderIsKept == Spec => []NoOvertaking
<1>1. PassInv => NoOvertaking
  BY DEF PassInv
<1> QED
  BY <1>1, PassInvariance, PTL

\* Whoever is left waiting has a reason that is still true.
THEOREM NobodyIsBlockedInVain == Spec => []NoHeadOfLineBlocking
<1>1. PassInv => NoHeadOfLineBlocking
  BY DEF PassInv
<1> QED
  BY <1>1, PassInvariance, PTL

\* What the dispatcher starts meets neither another run's scopes nor the limit.
THEOREM StartsNeverCollide == Spec => []StartsAtOnce
<1>1. PassInv => StartsAtOnce
  BY DEF PassInv
<1> QED
  BY <1>1, PassInvariance, PTL
-----------------------------------------------------------------------------
(* The queue.                                                              *)

\* A set of naturals has a least element, which stands in for an induction.
Below == {p \in Nat \X Nat : p[1] < p[2]}

LEMMA BelowIsWellFounded == IsWellFoundedOn(Below, Nat)
BY NatLessThanWellFounded DEF Below, OpToRel

LEMMA LeastIndex ==
  ASSUME NEW S, S \subseteq Nat, S # {}
  PROVE  \E m \in S : \A n \in S : m <= n
<1>1. PICK m \in S : \A n \in S : ~ (<<n, m>> \in Below)
  BY BelowIsWellFounded, WFMin, Zenon
<1>2. ASSUME NEW n \in S PROVE m <= n
  <2>1. m \in Nat /\ n \in Nat /\ <<n, m>> \notin Below
    BY <1>1
  <2>2. QED
    BY <2>1 DEF Below
<1>3. QED
  BY <1>2

\* A queue and the rows it holds, each of them once.
Holds(q, S) == q \in Seq(Entry) /\ IsInjective(q) /\ Range(q) = S

\* The function that Without is read off, up to a position.
KeptTo(n, q, E, f) ==
  f = [i \in 0..n |-> IF i = 0 THEN <<>>
                      ELSE IF q[i] \in E THEN f[i - 1] ELSE Append(f[i - 1], q[i])]

LEMMA KeptExists ==
  ASSUME NEW q, NEW E, NEW len \in Nat
  PROVE  \E f : KeptTo(len, q, E, f)
<1> DEFINE Missing == {n \in Nat : ~ \E f : KeptTo(n, q, E, f)}
<1>1. SUFFICES ASSUME Missing # {} PROVE FALSE
  OBVIOUS
<1>2. PICK m \in Missing : \A n \in Missing : m <= n
  BY <1>1, LeastIndex
<1>3. m \in Nat /\ ~ \E f : KeptTo(m, q, E, f)
  OBVIOUS
<1>4. CASE m = 0
  <2> DEFINE g == [i \in 0..0 |-> <<>>]
  <2>1. KeptTo(0, q, E, g)
    BY DEF KeptTo
  <2> QED
    BY <1>3, <1>4, <2>1
<1>5. CASE m # 0
  <2>1. m - 1 \in Nat /\ m - 1 \notin Missing
    BY <1>2, <1>3, <1>5
  <2>2. PICK f : KeptTo(m - 1, q, E, f)
    BY <2>1
  <2> DEFINE g == [i \in 0..m |-> IF i < m THEN f[i]
                                  ELSE IF q[m] \in E THEN f[m - 1]
                                  ELSE Append(f[m - 1], q[m])]
             h == [i \in 0..m |-> IF i = 0 THEN <<>>
                                  ELSE IF q[i] \in E THEN g[i - 1]
                                  ELSE Append(g[i - 1], q[i])]
  <2>3. \A i \in 0..(m - 1) : g[i] = f[i]
    BY <1>3
  <2>4. \A i \in 0..(m - 1) :
          f[i] = IF i = 0 THEN <<>>
                 ELSE IF q[i] \in E THEN f[i - 1] ELSE Append(f[i - 1], q[i])
    BY <2>2 DEF KeptTo
  <2>5. g[m] = IF q[m] \in E THEN f[m - 1] ELSE Append(f[m - 1], q[m])
    BY <1>3
  <2> HIDE DEF g
  <2>6. ASSUME NEW i \in 0..m
        PROVE  g[i] = IF i = 0 THEN <<>>
                      ELSE IF q[i] \in E THEN g[i - 1] ELSE Append(g[i - 1], q[i])
    <3>1. CASE i = m
      <4>1. m - 1 \in 0..(m - 1)
        BY <1>3, <1>5
      <4>2. g[m - 1] = f[m - 1]
        BY <2>3, <4>1
      <4> QED
        BY <1>5, <2>5, <3>1, <4>2
    <3>2. CASE i # m
      <4>1. i \in 0..(m - 1)
        BY <1>3, <3>2
      <4>2. i # 0 => g[i - 1] = f[i - 1]
        <5>1. i # 0 => i - 1 \in 0..(m - 1)
          BY <1>3, <4>1
        <5> QED
          BY <2>3, <5>1
      <4>3. g[i] = f[i]
        BY <2>3, <4>1
      <4> QED
        BY <2>4, <4>1, <4>2, <4>3
    <3> QED
      BY <3>1, <3>2
  <2>7. g = h
    <3>1. g = [i \in 0..m |-> g[i]]
      BY DEF g
    <3> QED
      BY <2>6, <3>1
  <2>8. KeptTo(m, q, E, g)
    BY <2>7 DEF KeptTo
  <2> QED
    BY <1>3, <2>8
<1> QED
  BY <1>4, <1>5

LEMMA AppendHolds ==
  ASSUME NEW q, NEW S, Holds(q, S), NEW e \in Entry, e \notin S
  PROVE  Holds(Append(q, e), S \union {e})
<1> DEFINE len == Len(q)
           r == Append(q, e)
<1>1. q \in Seq(Entry) /\ len \in Nat /\ DOMAIN q = 1..len /\ IsInjective(q) /\ Range(q) = S
  BY DEF Holds
<1>2. /\ r \in Seq(Entry) /\ Len(r) = len + 1
      /\ \A i \in 1..len : r[i] = q[i]
      /\ r[len + 1] = e
  BY <1>1, AppendProperties
<1> HIDE DEF r, len
<1>3. DOMAIN r = 1..(len + 1)
  BY <1>2
<1>4. \A i \in 1..len : q[i] \in S /\ q[i] # e
  BY <1>1 DEF Range
<1>5. IsInjective(r)
  <2>1. ASSUME NEW i \in 1..(len + 1), NEW j \in 1..(len + 1), r[i] = r[j] PROVE i = j
    <3>1. \A k \in 1..(len + 1) : k = len + 1 \/ k \in 1..len
      BY <1>1
    <3>2. CASE i \in 1..len /\ j \in 1..len
      BY <1>1, <1>2, <2>1, <3>2 DEF IsInjective
    <3>3. CASE i = len + 1 /\ j \in 1..len
      BY <1>2, <1>4, <2>1, <3>3
    <3>4. CASE i \in 1..len /\ j = len + 1
      BY <1>2, <1>4, <2>1, <3>4
    <3> QED
      BY <3>1, <3>2, <3>3, <3>4
  <2> QED
    BY <1>3, <2>1 DEF IsInjective
<1>6. Range(r) = S \union {e}
  <2>1. 1..(len + 1) = (1..len) \union {len + 1}
    BY <1>1
  <2>2. Range(r) = {r[i] : i \in 1..len} \union {r[len + 1]}
    BY <1>3, <2>1 DEF Range
  <2>3. {r[i] : i \in 1..len} = S
    BY <1>1, <1>2 DEF Range
  <2> QED
    BY <1>2, <2>2, <2>3
<1> QED
  BY <1>2, <1>5, <1>6 DEF Holds, r

\* Without drops the rows of E and loses no other.
LEMMA WithoutHolds ==
  ASSUME NEW q, NEW S, Holds(q, S), NEW E
  PROVE  Holds(Without(q, E), S \ E)
<1> DEFINE len == Len(q)
           f == CHOOSE f : KeptTo(len, q, E, f)
           first(n) == {q[i] : i \in 1..n}
<1>1. q \in Seq(Entry) /\ len \in Nat /\ DOMAIN q = 1..len /\ IsInjective(q) /\ Range(q) = S
  BY DEF Holds
<1>2. \A i \in 1..len : q[i] \in Entry
  BY <1>1
<1>3. Without(q, E) = f[len]
  BY DEF Without, KeptTo
<1>4. KeptTo(len, q, E, f)
  BY <1>1, KeptExists
<1> HIDE DEF f, len
<1>5. \A i \in 0..len :
        f[i] = IF i = 0 THEN <<>>
               ELSE IF q[i] \in E THEN f[i - 1] ELSE Append(f[i - 1], q[i])
  BY <1>4 DEF KeptTo
<1> DEFINE Wrong == {n \in 0..len : ~ Holds(f[n], first(n) \ E)}
<1>6. ASSUME Wrong # {} PROVE FALSE
  <2>1. Wrong \subseteq Nat
    OBVIOUS
  <2>2. PICK m \in Wrong : \A n \in Wrong : m <= n
    BY <1>6, <2>1, LeastIndex
  <2>3. m \in 0..len /\ ~ Holds(f[m], first(m) \ E)
    OBVIOUS
  <2>4. CASE m = 0
    <3>1. f[m] = <<>> /\ first(m) = {}
      BY <1>5, <2>3, <2>4
    <3>2. Holds(<<>>, {})
      BY DEF Holds, Range, IsInjective
    <3> QED
      BY <2>3, <3>1, <3>2
  <2>5. CASE m # 0
    <3>1. m \in 1..len /\ m - 1 \in 0..len /\ ~ m <= m - 1
      BY <1>1, <2>3, <2>5
    <3>2. Holds(f[m - 1], first(m - 1) \ E)
      BY <2>2, <3>1
    <3>3. f[m] = IF q[m] \in E THEN f[m - 1] ELSE Append(f[m - 1], q[m])
      BY <1>5, <2>3, <2>5
    <3>4. first(m) = first(m - 1) \union {q[m]}
      <4>1. 1..m = (1..(m - 1)) \union {m}
        BY <3>1
      <4> QED
        BY <4>1
    <3>5. q[m] \notin first(m - 1)
      <4>1. \A i \in 1..(m - 1) : i \in 1..len /\ i # m
        BY <1>1, <3>1
      <4> QED
        BY <1>1, <3>1, <4>1 DEF IsInjective
    <3> HIDE DEF first
    <3>6. CASE q[m] \in E
      <4>1. first(m) \ E = first(m - 1) \ E
        BY <3>4, <3>6
      <4> QED
        BY <2>3, <3>2, <3>3, <3>6, <4>1
    <3>7. CASE q[m] \notin E
      <4>1. first(m) \ E = (first(m - 1) \ E) \union {q[m]}
        BY <3>4, <3>7
      <4>2. q[m] \in Entry /\ q[m] \notin first(m - 1) \ E
        BY <1>2, <3>1, <3>5
      <4>3. Holds(Append(f[m - 1], q[m]), (first(m - 1) \ E) \union {q[m]})
        BY <3>2, <4>2, AppendHolds
      <4> QED
        BY <2>3, <3>3, <3>7, <4>1, <4>3
    <3> QED
      BY <3>6, <3>7
  <2> QED
    BY <2>4, <2>5
<1>7. len \in 0..len /\ first(len) = S
  BY <1>1 DEF Range
<1>8. Holds(f[len], first(len) \ E)
  BY <1>6, <1>7
<1> QED
  BY <1>3, <1>7, <1>8

\* A follow-up that becomes the obligation keeps its place.
LEMMA PromoteHolds ==
  ASSUME NEW q, NEW S, Holds(q, S), NEW t \in Task,
         <<t, "newer">> \in S, <<t, "due">> \notin S
  PROVE  Holds(Promote(t, q), (S \ {<<t, "newer">>}) \union {<<t, "due">>})
<1> DEFINE new == <<t, "newer">>
           old == <<t, "due">>
           r == Promote(t, q)
           len == Len(q)
<1>1. q \in Seq(Entry) /\ len \in Nat /\ DOMAIN q = 1..len /\ IsInjective(q) /\ Range(q) = S
  BY DEF Holds
<1>2. r = [i \in 1..len |-> IF q[i] = new THEN old ELSE q[i]]
  BY <1>1 DEF Promote
<1>3. old \in Entry /\ new # old /\ \A i \in 1..len : q[i] \in Entry /\ q[i] \in S
  BY <1>1 DEF Entry, Range
<1> HIDE DEF r, new, old
<1>4. r \in Seq(Entry) /\ DOMAIN r = 1..len
  <2>1. r \in [1..len -> Entry]
    BY <1>2, <1>3
  <2> QED
    BY <1>1, <2>1, SeqDef
<1>5. IsInjective(r)
  <2>1. \A i \in 1..len : q[i] # old
    BY <1>3 DEF old
  <2>2. \A i, j \in 1..len : r[i] = r[j] => q[i] = q[j]
    BY <1>2, <2>1
  <2> QED
    BY <1>1, <1>4, <2>2 DEF IsInjective
<1>6. Range(r) = (S \ {new}) \union {old}
  <2>1. Range(r) = {r[i] : i \in 1..len}
    BY <1>4 DEF Range
  <2>2. PICK k \in 1..len : q[k] = new
    BY <1>1 DEF Range, new
  <2>3. S = {q[i] : i \in 1..len}
    BY <1>1 DEF Range
  <2>4. \A i \in 1..len : r[i] \in (S \ {new}) \union {old}
    BY <1>2, <1>3
  <2>5. r[k] = old
    BY <1>2, <2>2
  <2>6. \A e \in S \ {new} : \E i \in 1..len : r[i] = e
    BY <1>2, <2>3
  <2> QED
    BY <2>1, <2>4, <2>5, <2>6
<1> QED
  BY <1>4, <1>5, <1>6 DEF Holds, r, new, old

\* An entry put before the i-th has the entries before it before it and the others
\* behind it.
LEMMA InsertAtHolds ==
  ASSUME NEW q, NEW S, Holds(q, S), NEW e \in Entry, e \notin S, NEW i \in 1..Len(q)
  PROVE  Holds(InsertAt(q, i, e), S \union {e})
<1> DEFINE len == Len(q)
           head == SubSeq(q, 1, i - 1)
           tail == SubSeq(q, i, len)
           more == head \o <<e>>
           r == InsertAt(q, i, e)
<1>1. q \in Seq(Entry) /\ len \in Nat /\ DOMAIN q = 1..len /\ IsInjective(q) /\ Range(q) = S
  BY DEF Holds
<1>2. \A k \in 1..len : q[k] \in Entry /\ q[k] # e /\ q[k] \in S
  BY <1>1 DEF Range
<1>3. i \in Nat /\ i >= 1 /\ i <= len
  BY <1>1
<1>4. /\ head \in Seq(Entry) /\ Len(head) = i - 1
      /\ \A k \in 1..(i - 1) : head[k] = q[k]
  BY <1>1, <1>2, <1>3, SubSeqProperties
<1>5. /\ tail \in Seq(Entry) /\ Len(tail) = len - i + 1
      /\ \A k \in 1..(len - i + 1) : tail[k] = q[i + k - 1]
  BY <1>1, <1>2, <1>3, SubSeqProperties
<1>6. r = more \o tail
  BY DEF InsertAt
<1> HIDE DEF r, head, tail, len
<1>7. /\ more \in Seq(Entry) /\ Len(more) = i
      /\ \A k \in 1..(i - 1) : more[k] = q[k]
      /\ more[i] = e
  <2>1. <<e>> \in Seq(Entry) /\ Len(<<e>>) = 1 /\ <<e>>[1] = e
    OBVIOUS
  <2>2. /\ more \in Seq(Entry) /\ Len(more) = (i - 1) + 1
        /\ \A k \in 1..((i - 1) + 1) : more[k] = IF k <= i - 1 THEN head[k] ELSE <<e>>[k - (i - 1)]
    BY <1>4, <2>1, ConcatProperties
  <2> HIDE DEF more
  <2>3. \A k \in 1..(i - 1) : more[k] = head[k]
    BY <1>3, <2>2
  <2>4. more[i] = e
    <3>1. i \in 1..((i - 1) + 1) /\ ~ i <= i - 1 /\ i - (i - 1) = 1
      BY <1>3
    <3> QED
      BY <2>1, <2>2, <3>1
  <2> QED
    BY <1>3, <1>4, <2>2, <2>3, <2>4
<1> HIDE DEF more
<1>8. /\ r \in Seq(Entry) /\ Len(r) = len + 1
      /\ \A k \in 1..(len + 1) : r[k] = IF k <= i THEN more[k] ELSE tail[k - i]
  <2>1. /\ r \in Seq(Entry) /\ Len(r) = i + (len - i + 1)
        /\ \A k \in 1..(i + (len - i + 1)) : r[k] = IF k <= i THEN more[k] ELSE tail[k - i]
    <3>1. /\ r \in Seq(Entry) /\ Len(r) = Len(more) + Len(tail)
          /\ \A k \in 1..(Len(more) + Len(tail)) :
               r[k] = IF k <= Len(more) THEN more[k] ELSE tail[k - Len(more)]
      BY <1>5, <1>6, <1>7, ConcatProperties
    <3> QED
      BY <1>5, <1>7, <3>1
  <2>2. i + (len - i + 1) = len + 1
    BY <1>1, <1>3
  <2> QED
    BY <2>1, <2>2
<1>9. DOMAIN r = 1..(len + 1)
  BY <1>8
<1>10. /\ \A k \in 1..(len + 1) : k < i => r[k] = q[k] /\ k \in 1..len
       /\ r[i] = e
       /\ \A k \in 1..(len + 1) : k > i => r[k] = q[k - 1] /\ k - 1 \in 1..len
  <2>1. ASSUME NEW k \in 1..(len + 1), k < i PROVE r[k] = q[k] /\ k \in 1..len
    <3>1. k \in 1..(i - 1) /\ k <= i /\ k \in 1..len
      BY <1>1, <1>3, <2>1
    <3> QED
      BY <1>7, <1>8, <3>1
  <2>2. r[i] = e
    <3>1. i \in 1..(len + 1) /\ i <= i
      BY <1>1, <1>3
    <3> QED
      BY <1>7, <1>8, <3>1
  <2>3. ASSUME NEW k \in 1..(len + 1), k > i PROVE r[k] = q[k - 1] /\ k - 1 \in 1..len
    <3>1. /\ ~ k <= i /\ k - i \in 1..(len - i + 1) /\ k - 1 \in 1..len
          /\ i + (k - i) - 1 = k - 1
      BY <1>1, <1>3, <2>3
    <3>2. r[k] = tail[k - i]
      BY <1>8, <3>1
    <3>3. tail[k - i] = q[i + (k - i) - 1]
      BY <1>5, <3>1
    <3> QED
      BY <3>1, <3>2, <3>3
  <2> QED
    BY <2>1, <2>2, <2>3
<1>11. IsInjective(r)
  <2>1. ASSUME NEW a \in 1..(len + 1), NEW b \in 1..(len + 1), r[a] = r[b], a < b
        PROVE  FALSE
    <3>1. \A k \in 1..(len + 1) : k # i => r[k] # e
      BY <1>2, <1>3, <1>10
    <3>2. a # i /\ b # i
      BY <1>10, <2>1, <3>1
    <3>3. CASE b < i
      <4>1. q[a] = q[b] /\ a \in 1..len /\ b \in 1..len
        BY <1>3, <1>10, <2>1, <3>3
      <4> QED
        BY <1>1, <2>1, <4>1 DEF IsInjective
    <3>4. CASE a > i
      <4>1. q[a - 1] = q[b - 1] /\ a - 1 \in 1..len /\ b - 1 \in 1..len
        BY <1>3, <1>10, <2>1, <3>4
      <4> QED
        BY <1>1, <2>1, <4>1 DEF IsInjective
    <3>5. CASE a < i /\ i < b
      <4>1. q[a] = q[b - 1] /\ a \in 1..len /\ b - 1 \in 1..len /\ a # b - 1
        BY <1>3, <1>10, <2>1, <3>5
      <4> QED
        BY <1>1, <4>1 DEF IsInjective
    <3> QED
      BY <1>3, <2>1, <3>2, <3>3, <3>4, <3>5
  <2>2. \A a, b \in 1..(len + 1) : a < b \/ b < a \/ a = b
    BY <1>1
  <2> QED
    BY <1>9, <2>1, <2>2 DEF IsInjective
<1>12. Range(r) = S \union {e}
  <2>1. Range(r) = {r[k] : k \in 1..(len + 1)}
    BY <1>9 DEF Range
  <2>2. i \in 1..(len + 1)
    BY <1>1, <1>3
  <2>3. ASSUME NEW k \in 1..(len + 1) PROVE r[k] \in S \union {e}
    <3>1. k < i \/ k = i \/ k > i
      BY <1>3
    <3> QED
      BY <1>2, <1>10, <3>1
  <2>4. ASSUME NEW d \in S PROVE \E k \in 1..(len + 1) : r[k] = d
    <3>1. PICK k \in 1..len : q[k] = d
      BY <1>1 DEF Range
    <3>2. CASE k < i
      BY <1>1, <1>10, <3>1, <3>2
    <3>3. CASE ~ k < i
      <4>1. k + 1 \in 1..(len + 1) /\ k + 1 > i /\ (k + 1) - 1 = k
        BY <1>1, <1>3, <3>3
      <4> QED
        BY <1>10, <3>1, <4>1
    <3> QED
      BY <3>2, <3>3
  <2> QED
    BY <1>10, <2>1, <2>2, <2>3, <2>4
<1> QED
  BY <1>8, <1>11, <1>12 DEF Holds, r
-----------------------------------------------------------------------------
(* The types of the ledger.                                                *)

\* What the ledger holds of a task: a row exactly where its status says so, a
\* follow-up only behind a row, and a retry left to whoever may still be retried.
Row(t) ==
  /\ status[t] = "none" <=> <<t, "due">> \notin Range(queue)
  /\ status[t] = "none" => <<t, "newer">> \notin Range(queue)
  /\ status[t] = "dispatched" <=> t \in linked
  /\ status[t] # "exhausted" => attempts[t] <= MaxRetries

Ledger ==
  /\ Holds(queue, Range(queue))
  /\ status \in [Task -> Status]
  /\ attempts \in [Task -> 0..(MaxRetries + 1)]
  /\ run \in [Task -> {"none", "owned", "orphan"}]
  /\ linked \subseteq Active
  /\ \A t \in Task : Row(t)

\* A pass looks at rows there are, and a row it started is linked to its run.
Look ==
  /\ at \in 0..(Len(queue) + 1)
  /\ Started \subseteq linked

LEMMA TypeFacts ==
  /\ MaxRetries \in Nat /\ 0 \in 0..(MaxRetries + 1) /\ 0 <= MaxRetries
  /\ \A n \in 0..(MaxRetries + 1) : n \in Int /\ (n <= MaxRetries => n + 1 \in 0..(MaxRetries + 1))
  /\ \A t \in Task : <<t, "due">> \in Entry /\ <<t, "newer">> \in Entry
  /\ \A t, u \in Task : <<t, "due">> # <<u, "newer">>
  /\ \A t, u \in Task : t # u => <<t, "due">> # <<u, "due">> /\ <<t, "newer">> # <<u, "newer">>
BY PassAssumption DEF PassAssumption, Entry

\* A new row goes behind the others, or among them where it is late.
LEMMA InsertKeeps ==
  ASSUME Ledger, NEW e \in Entry, e \notin Range(queue), Insert(e)
  PROVE  Holds(queue', Range(queue) \union {e}) /\ Range(queue') = Range(queue) \union {e}
<1>1. Holds(queue, Range(queue))
  BY DEF Ledger
<1>2. CASE queue' = Append(queue, e)
  <2>1. Holds(Append(queue, e), Range(queue) \union {e})
    BY <1>1, AppendHolds
  <2> QED
    BY <1>2, <2>1 DEF Holds
<1>3. ASSUME NEW i \in 1..Len(queue), queue' = InsertAt(queue, i, e)
      PROVE  Holds(queue', Range(queue) \union {e}) /\ Range(queue') = Range(queue) \union {e}
  <2>1. Holds(InsertAt(queue, i, e), Range(queue) \union {e})
    BY <1>1, InsertAtHolds
  <2> QED
    BY <1>3, <2>1 DEF Holds
<1> QED
  BY <1>2, <1>3 DEF Insert

LEMMA OccurrenceKeeps ==
  ASSUME Ledger, NEW t \in Task, Occurrence(t)
  PROVE  Ledger'
<1>1. /\ status \in [Task -> Status] /\ attempts \in [Task -> 0..(MaxRetries + 1)]
      /\ linked \subseteq Active /\ \A u \in Task : Row(u)
      /\ run \in [Task -> {"none", "owned", "orphan"}]
      /\ Holds(queue, Range(queue))
  BY DEF Ledger
<1>2. run' = run /\ linked' = linked /\ Active' = Active
  BY DEF Occurrence, Active
<1>3. CASE /\ status[t] = "none" /\ Insert(<<t, "due">>)
           /\ status' = [status EXCEPT ![t] = "due"] /\ attempts' = attempts
  <2>1. <<t, "due">> \notin Range(queue)
    BY <1>1, <1>3 DEF Row
  <2>2. /\ Holds(queue', Range(queue) \union {<<t, "due">>})
        /\ Range(queue') = Range(queue) \union {<<t, "due">>}
    BY <1>3, <2>1, TypeFacts, InsertKeeps
  <2>3. ASSUME NEW u \in Task PROVE Row(u)'
    <3>1. status'[u] = IF u = t THEN "due" ELSE status[u]
      BY <1>1, <1>3
    <3> QED
      BY <1>1, <1>2, <1>3, <2>2, <3>1, TypeFacts DEF Row
  <2>4. status' \in [Task -> Status]
    BY <1>1, <1>3 DEF Status
  <2> QED
    BY <1>1, <1>2, <1>3, <2>2, <2>3, <2>4 DEF Ledger
<1>4. CASE /\ status[t] \notin {"none", "blocked"} /\ <<t, "newer">> \notin Range(queue)
           /\ Insert(<<t, "newer">>) /\ status' = status /\ attempts' = attempts
  <2>1. /\ Holds(queue', Range(queue) \union {<<t, "newer">>})
        /\ Range(queue') = Range(queue) \union {<<t, "newer">>}
    BY <1>4, TypeFacts, InsertKeeps
  <2>2. ASSUME NEW u \in Task PROVE Row(u)'
    BY <1>1, <1>2, <1>4, <2>1, TypeFacts DEF Row
  <2> QED
    BY <1>1, <1>2, <1>4, <2>1, <2>2 DEF Ledger
<1>5. CASE /\ status[t] = "exhausted" /\ queue' = queue
           /\ status' = [status EXCEPT ![t] = "due"] /\ attempts' = [attempts EXCEPT ![t] = 0]
  <2>1. ASSUME NEW u \in Task PROVE Row(u)'
    <3>1. /\ status'[u] = IF u = t THEN "due" ELSE status[u]
          /\ attempts'[u] = IF u = t THEN 0 ELSE attempts[u]
      BY <1>1, <1>5
    <3> QED
      BY <1>1, <1>2, <1>5, <3>1, TypeFacts DEF Row
  <2>2. status' \in [Task -> Status] /\ attempts' \in [Task -> 0..(MaxRetries + 1)]
    BY <1>1, <1>5, TypeFacts DEF Status
  <2> QED
    BY <1>1, <1>2, <1>5, <2>1, <2>2 DEF Ledger
<1> QED
  BY <1>3, <1>4, <1>5 DEF Occurrence

\* A row whose status changes among those of a row that is not dispatched.
LEMMA NewChanceKeeps ==
  ASSUME Ledger, NEW t \in Task, RetryDue(t) \/ Edited(t)
  PROVE  Ledger'
<1>1. /\ status \in [Task -> Status] /\ attempts \in [Task -> 0..(MaxRetries + 1)]
      /\ linked \subseteq Active /\ \A u \in Task : Row(u)
      /\ run \in [Task -> {"none", "owned", "orphan"}]
      /\ Holds(queue, Range(queue))
  BY DEF Ledger
<1>2. /\ run' = run /\ linked' = linked /\ Active' = Active /\ queue' = queue
      /\ status[t] \in {"retry", "blocked", "exhausted"}
      /\ status' = [status EXCEPT ![t] = "due"]
      /\ \/ attempts' = attempts /\ status[t] = "retry"
         \/ attempts' = [attempts EXCEPT ![t] = 0]
  BY DEF RetryDue, Edited, Active
<1>3. ASSUME NEW u \in Task PROVE Row(u)'
  <2>1. /\ status'[u] = IF u = t THEN "due" ELSE status[u]
        /\ u # t => attempts'[u] = attempts[u]
        /\ \/ attempts'[u] = 0
           \/ attempts'[u] = attempts[u] /\ (u = t => status[u] = "retry")
    BY <1>1, <1>2
  <2> QED
    BY <1>1, <1>2, <2>1, TypeFacts DEF Row
<1>4. status' \in [Task -> Status] /\ attempts' \in [Task -> 0..(MaxRetries + 1)]
  BY <1>1, <1>2, TypeFacts DEF Status
<1> QED
  BY <1>1, <1>2, <1>3, <1>4 DEF Ledger

\* The rows of the other tasks are left alone where the row of t is.
Others(t) ==
  \A u \in Task \ {t} :
    /\ status'[u] = status[u] /\ attempts'[u] = attempts[u]
    /\ u \in linked' <=> u \in linked
    /\ <<u, "due">> \in Range(queue') <=> <<u, "due">> \in Range(queue)
    /\ <<u, "newer">> \in Range(queue') <=> <<u, "newer">> \in Range(queue)

\* A run of t that ends is no longer active, and the row is no longer linked to it.
LEMMA EndKeeps ==
  ASSUME Ledger, NEW t \in Task, run' = [run EXCEPT ![t] = "none"], linked' = linked \ {t},
         Holds(queue', Range(queue')), Others(t),
         status' \in [Task -> Status], attempts' \in [Task -> 0..(MaxRetries + 1)],
         Row(t)'
  PROVE  Ledger'
<1>1. ASSUME NEW u \in Task \ {t} PROVE Row(u)'
  <2>1. Row(u)
    BY DEF Ledger
  <2> QED
    BY <2>1 DEF Others, Row
<1>2. run' \in [Task -> {"none", "owned", "orphan"}] /\ Active' = Active \ {t}
  BY DEF Ledger, Active
<1>3. linked' \subseteq Active'
  BY <1>2 DEF Ledger
<1> QED
  BY <1>1, <1>2, <1>3 DEF Ledger

\* What the payment of t leaves: no row of its own, or the follow-up in its place.
LEMMA DroppedRows ==
  ASSUME Ledger, NEW t \in Task, queue' = Without(queue, Entries(t))
  PROVE  /\ Holds(queue', Range(queue'))
         /\ <<t, "due">> \notin Range(queue') /\ <<t, "newer">> \notin Range(queue')
         /\ \A u \in Task \ {t} :
              /\ <<u, "due">> \in Range(queue') <=> <<u, "due">> \in Range(queue)
              /\ <<u, "newer">> \in Range(queue') <=> <<u, "newer">> \in Range(queue)
<1>1. Holds(queue', Range(queue) \ Entries(t))
  BY WithoutHolds DEF Ledger
<1>2. Range(queue') = Range(queue) \ Entries(t)
  BY <1>1 DEF Holds
<1>3. \A e : e \in Range(queue') <=> e \in Range(queue) /\ e[1] # t
  BY <1>2 DEF Entries
<1>4. \A u : <<u, "due">>[1] = u /\ <<u, "newer">>[1] = u
  OBVIOUS
<1> QED
  BY <1>1, <1>2, <1>3, <1>4

LEMMA PromotedRows ==
  ASSUME Ledger, NEW t \in Task, <<t, "newer">> \in Range(queue),
         queue' = Promote(t, Without(queue, {<<t, "due">>}))
  PROVE  /\ Holds(queue', Range(queue'))
         /\ <<t, "due">> \in Range(queue') /\ <<t, "newer">> \notin Range(queue')
         /\ \A u \in Task \ {t} :
              /\ <<u, "due">> \in Range(queue') <=> <<u, "due">> \in Range(queue)
              /\ <<u, "newer">> \in Range(queue') <=> <<u, "newer">> \in Range(queue)
<1> DEFINE S == Range(queue) \ {<<t, "due">>}
           q == Without(queue, {<<t, "due">>})
<1>1. Holds(q, S)
  BY WithoutHolds DEF Ledger
<1>2. <<t, "newer">> \in S /\ <<t, "due">> \notin S
  BY TypeFacts
<1>3. queue' = Promote(t, q)
  OBVIOUS
<1> HIDE DEF q, S
<1>4. Holds(queue', (S \ {<<t, "newer">>}) \union {<<t, "due">>})
  <2>1. Holds(Promote(t, q), (S \ {<<t, "newer">>}) \union {<<t, "due">>})
    BY <1>1, <1>2, PromoteHolds
  <2> QED
    BY <1>3, <2>1
<1>5. Range(queue') = (S \ {<<t, "newer">>}) \union {<<t, "due">>}
  BY <1>4 DEF Holds
<1> QED
  BY <1>4, <1>5, TypeFacts DEF S

\* A payment, by a run the ledger started or by another.
LEMMA PaidKeeps ==
  ASSUME Ledger, NEW t \in Task, Paid(t),
         run' = [run EXCEPT ![t] = "none"], linked' = linked \ {t}
  PROVE  Ledger'
<1>1. /\ status \in [Task -> Status] /\ attempts \in [Task -> 0..(MaxRetries + 1)]
  BY DEF Ledger
<1>2. attempts' = [attempts EXCEPT ![t] = 0]
  BY DEF Paid
<1>3. attempts' \in [Task -> 0..(MaxRetries + 1)]
  BY <1>1, <1>2, TypeFacts
<1>4. CASE queue' = Without(queue, Entries(t)) /\ status' = [status EXCEPT ![t] = "none"]
  <2>1. /\ Holds(queue', Range(queue'))
        /\ <<t, "due">> \notin Range(queue') /\ <<t, "newer">> \notin Range(queue')
        /\ \A u \in Task \ {t} :
             /\ <<u, "due">> \in Range(queue') <=> <<u, "due">> \in Range(queue)
             /\ <<u, "newer">> \in Range(queue') <=> <<u, "newer">> \in Range(queue)
    BY <1>4, DroppedRows
  <2>2. status' \in [Task -> Status] /\ status'[t] = "none" /\ attempts'[t] = 0
    BY <1>1, <1>2, <1>4 DEF Status
  <2>3. Row(t)'
    BY <2>1, <2>2, TypeFacts DEF Row
  <2>4. Others(t)
    BY <1>1, <1>2, <1>4, <2>1 DEF Others
  <2> QED
    BY <1>3, <2>1, <2>2, <2>3, <2>4, EndKeeps
<1>5. CASE /\ <<t, "newer">> \in Range(queue)
           /\ queue' = Promote(t, Without(queue, {<<t, "due">>}))
           /\ status' = [status EXCEPT ![t] = "due"]
  <2>1. /\ Holds(queue', Range(queue'))
        /\ <<t, "due">> \in Range(queue') /\ <<t, "newer">> \notin Range(queue')
        /\ \A u \in Task \ {t} :
             /\ <<u, "due">> \in Range(queue') <=> <<u, "due">> \in Range(queue)
             /\ <<u, "newer">> \in Range(queue') <=> <<u, "newer">> \in Range(queue)
    BY <1>5, PromotedRows
  <2>2. status' \in [Task -> Status] /\ status'[t] = "due" /\ attempts'[t] = 0
    BY <1>1, <1>2, <1>5 DEF Status
  <2>3. Row(t)'
    BY <2>1, <2>2, TypeFacts DEF Row
  <2>4. Others(t)
    BY <1>1, <1>2, <1>5, <2>1 DEF Others
  <2> QED
    BY <1>3, <2>1, <2>2, <2>3, <2>4, EndKeeps
<1> QED
  BY <1>4, <1>5 DEF Paid

LEMMA DispatchedEndsKeeps ==
  ASSUME Ledger, NEW t \in Task, NEW v \in Verdict, DispatchedEnds(t, v)
  PROVE  Ledger'
<1>1. /\ status \in [Task -> Status] /\ attempts \in [Task -> 0..(MaxRetries + 1)]
      /\ Holds(queue, Range(queue)) /\ Row(t)
  BY DEF Ledger
<1>2. t \in linked /\ run' = [run EXCEPT ![t] = "none"] /\ linked' = linked \ {t}
  BY DEF DispatchedEnds
<1>3. /\ status[t] = "dispatched" /\ <<t, "due">> \in Range(queue)
      /\ attempts[t] <= MaxRetries
  BY <1>1, <1>2 DEF Row
<1>4. CASE v = "success"
  BY <1>2, <1>4, PaidKeeps DEF DispatchedEnds
<1>5. CASE v = "failed"
  <2>1. Failed(t)
    BY <1>5 DEF DispatchedEnds
  <2>2. /\ queue' = queue /\ attempts' = [attempts EXCEPT ![t] = attempts[t] + 1]
        /\ status' = [status EXCEPT ![t] =
                        IF attempts'[t] > MaxRetries THEN "exhausted" ELSE "retry"]
    BY <2>1 DEF Failed
  <2>3. /\ attempts' \in [Task -> 0..(MaxRetries + 1)]
        /\ status' \in [Task -> Status]
        /\ attempts'[t] \in Int
        /\ status'[t] = IF attempts'[t] > MaxRetries THEN "exhausted" ELSE "retry"
    BY <1>1, <1>3, <2>2, TypeFacts DEF Status
  <2>4. Row(t)'
    BY <1>2, <1>3, <2>2, <2>3, TypeFacts DEF Row
  <2>5. Others(t)
    BY <1>1, <1>2, <2>2 DEF Others
  <2> QED
    BY <1>1, <1>2, <2>2, <2>3, <2>4, <2>5, EndKeeps
<1>6. CASE v = "cancelled"
  <2>1. Paid(t)
    BY <1>6 DEF DispatchedEnds, Paid
  <2> QED
    BY <1>2, <2>1, PaidKeeps
<1>7. CASE v \in {"permanent", "infra"}
  <2>1. /\ queue' = queue /\ attempts' = attempts
        /\ \/ status' = [status EXCEPT ![t] = "blocked"]
           \/ status' = [status EXCEPT ![t] = "due"]
    BY <1>7 DEF DispatchedEnds
  <2>2. status' \in [Task -> Status] /\ status'[t] \in {"blocked", "due"}
    BY <1>1, <2>1 DEF Status
  <2>3. Row(t)'
    BY <1>2, <1>3, <2>1, <2>2 DEF Row
  <2>4. Others(t)
    BY <1>1, <1>2, <2>1 DEF Others
  <2> QED
    BY <1>1, <1>2, <2>1, <2>2, <2>3, <2>4, EndKeeps
<1> QED
  BY <1>4, <1>5, <1>6, <1>7 DEF Verdict

LEMMA ManualEndsKeeps ==
  ASSUME Ledger, NEW t \in Task, NEW v \in Verdict, ManualEnds(t, v)
  PROVE  Ledger'
<1>1. run' = [run EXCEPT ![t] = "none"] /\ linked' = linked \ {t} /\ t \notin linked
  BY DEF ManualEnds
<1>2. CASE UNCHANGED <<queue, status, attempts>>
  <2>1. Holds(queue, Range(queue)) /\ Row(t) /\ Others(t)
    BY <1>1, <1>2 DEF Ledger, Others
  <2>2. Row(t)'
    BY <1>1, <1>2, <2>1 DEF Row
  <2>3. /\ Holds(queue', Range(queue')) /\ status' \in [Task -> Status]
        /\ attempts' \in [Task -> 0..(MaxRetries + 1)]
    BY <1>2, <2>1 DEF Ledger
  <2> QED
    BY <1>1, <2>1, <2>2, <2>3, EndKeeps
<1>3. CASE Paid(t)
  BY <1>1, <1>3, PaidKeeps
<1> QED
  BY <1>2, <1>3 DEF ManualEnds

LEMMA WatchdogKeeps ==
  ASSUME Ledger, NEW t \in Task, Watchdog(t)
  PROVE  Ledger'
<1>1. /\ status \in [Task -> Status] /\ Holds(queue, Range(queue)) /\ Row(t)
      /\ attempts \in [Task -> 0..(MaxRetries + 1)]
  BY DEF Ledger
<1>2. /\ run' = [run EXCEPT ![t] = "none"] /\ linked' = linked \ {t}
      /\ queue' = queue /\ attempts' = attempts
      /\ status' = IF t \in linked THEN [status EXCEPT ![t] = "due"] ELSE status
  BY DEF Watchdog
<1>3. /\ status' \in [Task -> Status]
      /\ status'[t] = IF t \in linked THEN "due" ELSE status[t]
  BY <1>1, <1>2 DEF Status
<1>4. Row(t)'
  BY <1>1, <1>2, <1>3 DEF Row
<1>5. Others(t)
  BY <1>1, <1>2 DEF Others
<1> QED
  BY <1>1, <1>2, <1>3, <1>4, <1>5, EndKeeps

LEMMA ManualRunKeeps ==
  ASSUME Ledger, NEW t \in Task, ManualRun(t)
  PROVE  Ledger'
<1>1. /\ run' = [run EXCEPT ![t] = "owned"] /\ linked' = linked
      /\ queue' = queue /\ attempts' = attempts /\ status' = status
  BY DEF ManualRun
<1>2. /\ run' \in [Task -> {"none", "owned", "orphan"}] /\ Active \subseteq Active'
  BY <1>1 DEF Ledger, Active
<1>3. \A u \in Task : Row(u)'
  BY <1>1 DEF Ledger, Row
<1> QED
  BY <1>1, <1>2, <1>3 DEF Ledger

LEMMA StartPassKeeps ==
  ASSUME Ledger, StartPass
  PROVE  Ledger'
<1> DEFINE E == {<<t, "newer">> : t \in Merged}
<1>1. /\ status \in [Task -> Status] /\ Holds(queue, Range(queue))
      /\ attempts \in [Task -> 0..(MaxRetries + 1)]
      /\ \A t \in Task : Row(t)
  BY DEF Ledger
<1>2. /\ run' = run /\ linked' = linked /\ Active' = Active
      /\ queue' = Without(queue, E)
      /\ status' = [t \in Task |-> IF t \in Merged /\ status[t] = "exhausted"
                                   THEN "due" ELSE status[t]]
      /\ attempts' = [t \in Task |-> IF t \in Merged /\ status[t] = "exhausted"
                                     THEN 0 ELSE attempts[t]]
  BY DEF StartPass, Active
<1>3. Holds(queue', Range(queue) \ E)
  BY <1>1, <1>2, WithoutHolds
<1>4. Range(queue') = Range(queue) \ E
  BY <1>3 DEF Holds
<1>5. ASSUME NEW t \in Task
      PROVE  /\ <<t, "due">> \in Range(queue') <=> <<t, "due">> \in Range(queue)
             /\ <<t, "newer">> \in Range(queue') => <<t, "newer">> \in Range(queue)
  <2>1. Merged \subseteq Task
    BY DEF Merged
  <2>2. <<t, "due">> \notin E
    BY <2>1, TypeFacts
  <2> QED
    BY <1>4, <2>2
<1>6. status' \in [Task -> Status] /\ attempts' \in [Task -> 0..(MaxRetries + 1)]
  BY <1>1, <1>2, TypeFacts DEF Status
<1>7. ASSUME NEW t \in Task PROVE Row(t)'
  <2>1. \/ status'[t] = status[t] /\ attempts'[t] = attempts[t]
        \/ status[t] = "exhausted" /\ status'[t] = "due" /\ attempts'[t] = 0
    BY <1>2
  <2> QED
    BY <1>1, <1>2, <1>5, <2>1, TypeFacts DEF Row
<1> QED
  BY <1>1, <1>2, <1>3, <1>4, <1>6, <1>7 DEF Ledger

LEMMA DispatchLedger ==
  ASSUME Ledger, NEW t \in Task, Dispatch(t)
  PROVE  Ledger'
<1>1. /\ status \in [Task -> Status] /\ \A u \in Task : Row(u)
      /\ linked \subseteq Active
  BY DEF Ledger
<1>2. /\ run' = [run EXCEPT ![t] = "owned"] /\ linked' = linked \union {t}
      /\ status' = [status EXCEPT ![t] = "dispatched"]
      /\ queue' = queue /\ attempts' = attempts /\ status[t] = "due"
  BY DEF Dispatch, Looks, Startable
<1>3. /\ run' \in [Task -> {"none", "owned", "orphan"}] /\ Active' = Active \union {t}
  BY <1>2 DEF Ledger, Active
<1>4. status' \in [Task -> Status]
  BY <1>1, <1>2 DEF Status
<1>5. ASSUME NEW u \in Task PROVE Row(u)'
  <2>1. status'[u] = IF u = t THEN "dispatched" ELSE status[u]
    BY <1>1, <1>2
  <2> QED
    BY <1>1, <1>2, <2>1 DEF Row
<1> QED
  BY <1>1, <1>2, <1>3, <1>4, <1>5 DEF Ledger

\* An error takes from a row started at most its link, which makes it due again.
LEMMA AbortKeeps ==
  ASSUME Ledger, Look, PassInv, Abort
  PROVE  Ledger'
<1>1. /\ status \in [Task -> Status] /\ \A u \in Task : Row(u)
      /\ linked \subseteq Active
      /\ run \in [Task -> {"none", "owned", "orphan"}]
  BY DEF Ledger
<1>2. /\ run' = [t \in Task |-> IF t \in Started THEN "orphan" ELSE run[t]]
      /\ queue' = queue /\ attempts' = attempts
  BY DEF Abort
<1>3. run' \in [Task -> {"none", "owned", "orphan"}] /\ Active \subseteq Active'
  BY <1>1, <1>2 DEF Active
<1>4. CASE UNCHANGED <<linked, status>>
  <2>1. \A u \in Task : Row(u)'
    BY <1>1, <1>2, <1>4 DEF Row
  <2> QED
    BY <1>2, <1>3, <1>4, <2>1 DEF Ledger
<1>5. ASSUME NEW i \in started, linked' = linked \ {queue[i][1]},
             status' = [status EXCEPT ![queue[i][1]] = "due"]
      PROVE  Ledger'
  <2> DEFINE t == queue[i][1]
  <2>1. t \in linked /\ t \in Task
    <3>1. t \in Started
      BY DEF Started
    <3> QED
      BY <1>1, <3>1 DEF Look, Active
  <2> HIDE DEF t
  <2>2. linked' = linked \ {t} /\ status' = [status EXCEPT ![t] = "due"]
    BY <1>5 DEF t
  <2>3. status[t] = "dispatched"
    BY <1>1, <2>1 DEF Row
  <2>4. ASSUME NEW u \in Task PROVE Row(u)'
    <3>1. status'[u] = IF u = t THEN "due" ELSE status[u]
      BY <1>1, <2>2
    <3> QED
      BY <1>1, <1>2, <2>1, <2>2, <2>3, <3>1 DEF Row
  <2>5. status' \in [Task -> Status]
    BY <1>1, <2>2 DEF Status
  <2> QED
    BY <1>1, <1>2, <1>3, <2>2, <2>4, <2>5 DEF Ledger
<1> QED
  BY <1>4, <1>5 DEF Abort

LEMMA LedgerSame ==
  ASSUME Ledger, UNCHANGED <<queue, status, attempts, run, linked>>
  PROVE  Ledger'
<1>1. Active' = Active /\ Range(queue') = Range(queue)
  BY DEF Active
<1>2. \A t \in Task : Row(t)'
  BY <1>1 DEF Ledger, Row
<1> QED
  BY <1>1, <1>2 DEF Ledger

LEMMA LedgerStep ==
  ASSUME Ledger, Look, PassInv, [Next]_vars
  PROVE  Ledger'
<1>1. CASE UNCHANGED vars
  BY <1>1, LedgerSame DEF vars
<1>2. ASSUME NEW t \in Task,
             Occurrence(t) \/ RetryDue(t) \/ Edited(t) \/ Watchdog(t) \/ ManualRun(t)
      PROVE  Ledger'
  BY <1>2, OccurrenceKeeps, NewChanceKeeps, WatchdogKeeps, ManualRunKeeps
<1>3. ASSUME NEW t \in Task, NEW v \in Verdict, RunEnds(t, v) PROVE Ledger'
  BY <1>3, DispatchedEndsKeeps, ManualEndsKeeps DEF RunEnds
<1>4. CASE StartPass
  BY <1>4, StartPassKeeps
<1>5. CASE Abort
  BY <1>5, AbortKeeps
<1>6. CASE EndPass \/ Skip
  BY <1>6, LedgerSame DEF EndPass, Skip
<1>7. ASSUME NEW t \in Task, Refuse(t) \/ Dispatch(t) PROVE Ledger'
  BY <1>7, DispatchLedger, LedgerSame DEF Refuse
<1> QED
  BY <1>1, <1>2, <1>3, <1>4, <1>5, <1>6, <1>7 DEF Next, PassStep

\* The pass keeps to the rows there are: they do not change under it.
LEMMA LookStep ==
  ASSUME Ledger, Look, PassInv, [Next]_vars
  PROVE  Look'
<1>1. Holds(queue', Range(queue'))
  BY LedgerStep DEF Ledger
<1>2. Len(queue) \in Nat /\ Len(queue') \in Nat
  BY <1>1 DEF Ledger, Holds
<1>3. ASSUME at' \in {0, 1}, started' = {} PROVE Look'
  BY <1>2, <1>3 DEF Look, Started
<1>4. ASSUME at = 0, UNCHANGED pass PROVE Look'
  BY <1>3, <1>4, IdlePass DEF pass
<1>5. CASE UNCHANGED vars
  BY <1>5 DEF Look, vars, pass, Started
<1>6. ASSUME NEW t \in Task,
             Occurrence(t) \/ RetryDue(t) \/ Edited(t) \/ Watchdog(t) \/ ManualRun(t)
      PROVE  Look'
  BY <1>4, <1>6 DEF Occurrence, RetryDue, Edited, Watchdog, ManualRun
<1>7. ASSUME NEW t \in Task, NEW v \in Verdict, RunEnds(t, v) PROVE Look'
  BY <1>4, <1>7 DEF RunEnds, DispatchedEnds, ManualEnds
<1>8. CASE StartPass \/ EndPass \/ Abort
  BY <1>3, <1>8 DEF StartPass, EndPass, Abort
<1>9. ASSUME InPass, at' = at + 1, queue' = queue PROVE at' \in 0..(Len(queue') + 1)
  BY <1>2, <1>9 DEF Look, InPass
<1>10. ASSUME Skip \/ \E t \in Task : Refuse(t) PROVE Look'
  <2>1. InPass /\ at' = at + 1 /\ queue' = queue /\ started' = started /\ linked' = linked
    BY <1>10 DEF Skip, Refuse, Looks
  <2> QED
    BY <1>9, <2>1 DEF Look, Started
<1>11. ASSUME NEW t \in Task, Dispatch(t) PROVE Look'
  <2>1. /\ InPass /\ at' = at + 1 /\ queue' = queue /\ started' = started \union {at}
        /\ linked' = linked \union {t} /\ queue[at][1] = t
    BY <1>11 DEF Dispatch, Looks, RowAt
  <2>2. Started' = Started \union {t}
    BY <2>1 DEF Started
  <2> QED
    BY <1>9, <2>1, <2>2 DEF Look
<1> QED
  BY <1>5, <1>6, <1>7, <1>8, <1>10, <1>11 DEF Next, PassStep

\* The type invariant: the queue holds every row once and at its task's status, and
\* no task is tried more often than its retries allow.
THEOREM TypeCorrect == Spec => []TypeOK
<1>1. Init => Ledger /\ Look
  <2>1. SUFFICES ASSUME Init PROVE Ledger /\ Look
    OBVIOUS
  <2>2. Holds(queue, {}) /\ Range(queue) = {} /\ Len(queue) = 0
    BY <2>1 DEF Init, Holds, Range, IsInjective
  <2>3. status \in [Task -> Status] /\ attempts \in [Task -> 0..(MaxRetries + 1)]
    BY <2>1, TypeFacts DEF Init, Status
  <2>4. run \in [Task -> {"none", "owned", "orphan"}] /\ linked \subseteq Active
    BY <2>1 DEF Init
  <2>5. \A t \in Task : Row(t)
    BY <2>1, <2>2, TypeFacts DEF Init, Row
  <2>6. Look
    BY <2>1, <2>2 DEF Init, Look, Started
  <2> QED
    BY <2>2, <2>3, <2>4, <2>5, <2>6 DEF Ledger
<1>2. PassInv /\ Ledger /\ Look /\ [Next]_vars => Ledger' /\ Look'
  BY LedgerStep, LookStep
<1>3. PassInv /\ Ledger /\ Look => TypeOK
  <2>1. SUFFICES ASSUME PassInv, Ledger, Look PROVE TypeOK
    OBVIOUS
  <2>2. started \subseteq 1..at /\ at \in Nat /\ refused \subseteq Task
    BY <2>1 DEF PassInv
  <2>3. queue \in Seq(Entry) /\ IsInjective(queue)
    BY <2>1 DEF Ledger, Holds
  <2> QED
    BY <2>1, <2>2, <2>3 DEF Ledger, Row, TypeOK
<1> QED
  BY <1>1, <1>2, <1>3, PassInvariance, PTL DEF Spec
=============================================================================
