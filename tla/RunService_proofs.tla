-------------------------- MODULE RunService_proofs --------------------------
(* The service keeps its promise, whatever implements it.                  *)
EXTENDS RunService, DestKeys_proofs, FiniteSetTheorems

\* Type correctness of the service's state.
THEOREM ServiceTypeCorrect == ServiceSpec => []ServiceTypeOK
<1>1. ServiceInit => ServiceTypeOK
  BY DEF ServiceInit, ServiceTypeOK
<1>2. ServiceTypeOK /\ [ServiceNext]_svars => ServiceTypeOK'
  BY DEF ServiceTypeOK, ServiceNext, svars, Accept, Ask, Begin, End, Die, Reclaim, Open,
         Closed
<1>3. QED
  BY <1>1, <1>2, PTL DEF ServiceSpec

\* The promise, with what makes it inductive: a waiting run is not yet working.
Apart == waiting \intersect working = {}

LEMMA ServiceInduction ==
  ASSUME ServiceAssumption, ServiceTypeOK, ServicePromise, Apart, [ServiceNext]_svars
  PROVE  (ServicePromise /\ Apart)'
<1> USE DEF ServiceAssumption, ServiceTypeOK, ServicePromise, Apart
<1>1. CASE \E r \in Run : Accept(r)
  BY <1>1 DEF Accept
<1>2. CASE \E r \in Run : Ask(r)
  BY <1>2 DEF Ask
<1>3. CASE \E r \in Run : End(r)
  <2>1. PICK r \in Run : End(r)
    BY <1>3
  <2>2. Cardinality(working') <= Limit
    <3>1. IsFiniteSet(working) /\ working' \subseteq working
      BY <2>1, FS_Subset DEF End
    <3>2. QED
      BY <3>1, FS_Subset, FS_CardinalityType
  <2>3. QED
    BY <2>1, <2>2 DEF End, Closed
<1>4. CASE \E r \in Run, d \in Dest : Begin(r, d)
  <2>1. PICK r \in Run, d \in Dest : Begin(r, d)
    BY <1>4
  <2>2. Cardinality(working') <= Limit
    <3>1. IsFiniteSet(working) /\ r \notin working
      BY <2>1, FS_Subset DEF Begin
    <3>2. Cardinality(working \union {r}) = Cardinality(working) + 1
      BY <3>1, FS_AddElement
    <3>3. QED
      BY <2>1, <3>1, <3>2, FS_CardinalityType DEF Begin
  <2>3. \A q, s \in working' : q # s => ~ Conflicts(into'[q], into'[s])
    <3>1. SUFFICES ASSUME NEW q \in working', NEW s \in working', q # s
                   PROVE  ~ Conflicts(into'[q], into'[s])
      OBVIOUS
    <3>2. CASE q # r /\ s # r
      BY <2>1, <3>1, <3>2 DEF Begin
    <3>3. CASE q = r
      BY <2>1, <3>1, <3>3 DEF Begin
    <3>4. CASE s = r
      BY <2>1, <3>1, <3>4, ConflictsSymmetric DEF Begin
    <3>5. QED
      BY <3>2, <3>3, <3>4
  <2>4. QED
    BY <2>1, <2>2, <2>3 DEF Begin
<1>5. CASE Die
  BY <1>5, FS_EmptySet DEF Die
<1>6. CASE Reclaim
  BY <1>6 DEF Reclaim, Open
<1>7. CASE UNCHANGED svars
  BY <1>7 DEF svars
<1>8. QED
  BY <1>1, <1>2, <1>3, <1>4, <1>5, <1>6, <1>7 DEF ServiceNext

\* On any finite set of runs, whatever implements the service never has two runs
\* writing overlapping destinations, more than Limit of them working, or a working
\* run whose row does not say so.
THEOREM ServiceKeepsPromise ==
  ASSUME ServiceAssumption PROVE ServiceSpec => []ServicePromise
<1>1. ServiceInit => ServicePromise /\ Apart
  BY FS_EmptySet DEF ServiceAssumption, ServiceInit, ServicePromise, Apart
<1>2. ServiceTypeOK /\ ServicePromise /\ Apart /\ [ServiceNext]_svars
        => (ServicePromise /\ Apart)'
  BY ServiceInduction
<1>3. QED
  BY <1>1, <1>2, ServiceTypeCorrect, PTL DEF ServiceSpec
=============================================================================
