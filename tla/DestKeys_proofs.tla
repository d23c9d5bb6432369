--------------------------- MODULE DestKeys_proofs ---------------------------
(* What the exclusion of overlapping destinations relies on: _conflicts is  *)
(* containment in either direction, over keys of any length.                *)
EXTENDS DestKeys, TLAPS

\* The test does not depend on which of the two runs came first.
LEMMA ConflictsSymmetric ==
  ASSUME NEW S, NEW a \in Seq(S), NEW b \in Seq(S)
  PROVE  Conflicts(a, b) <=> Conflicts(b, a)
<1>1. Len(a) \in Nat /\ Len(b) \in Nat
  OBVIOUS
<1>2. Shorter(Len(a), Len(b)) = Shorter(Len(b), Len(a))
  BY <1>1 DEF Shorter
<1>3. QED
  BY <1>2 DEF Conflicts

\* Two keys conflict exactly when one destination contains the other: a common
\* beginning of the names ("photos", "photos-old") is not enough, and an
\* ancestor or a descendant always is (_conflicts).
THEOREM ConflictIsContainment ==
  ASSUME NEW S, NEW a \in Seq(S), NEW b \in Seq(S)
  PROVE  Conflicts(a, b) <=> Covers(a, b) \/ Covers(b, a)
<1>1. Len(a) \in Nat /\ Len(b) \in Nat
  OBVIOUS
<1>2. CASE Len(a) <= Len(b)
  <2>1. Shorter(Len(a), Len(b)) = Len(a)
    BY <1>1, <1>2 DEF Shorter
  <2>2. Covers(a, b) <=> Conflicts(a, b)
    BY <1>2, <2>1 DEF Covers, Conflicts
  <2>3. Covers(b, a) => Covers(a, b)
    <3>1. SUFFICES ASSUME Covers(b, a) PROVE Covers(a, b)
      OBVIOUS
    <3>2. Len(b) = Len(a)
      BY <1>1, <1>2, <3>1 DEF Covers
    <3>3. QED
      BY <3>1, <3>2 DEF Covers
  <2>4. QED
    BY <2>2, <2>3
<1>3. CASE Len(b) < Len(a)
  <2>1. Shorter(Len(a), Len(b)) = Len(b)
    BY <1>1, <1>3 DEF Shorter
  <2>2. Covers(b, a) <=> Conflicts(a, b)
    BY <1>1, <1>3, <2>1 DEF Covers, Conflicts
  <2>3. ~ Covers(a, b)
    BY <1>1, <1>3 DEF Covers
  <2>4. QED
    BY <2>2, <2>3
<1>4. QED
  BY <1>1, <1>2, <1>3

\* A destination that contains another conflicts with everything the other
\* conflicts with: claiming a dataset blocks whatever any of its descendants
\* would block.
THEOREM AncestorBlocksMore ==
  ASSUME NEW S, NEW a \in Seq(S), NEW b \in Seq(S), NEW c \in Seq(S),
         Covers(a, b), Conflicts(b, c)
  PROVE  Conflicts(a, c)
<1>1. Len(a) \in Nat /\ Len(b) \in Nat /\ Len(c) \in Nat /\ Len(a) <= Len(b)
  BY DEF Covers
<1>2. SUFFICES ASSUME NEW i \in 1..Shorter(Len(a), Len(c))
               PROVE  a[i] = c[i]
  BY DEF Conflicts
<1>3. i \in 1..Len(a) /\ i \in 1..Shorter(Len(b), Len(c))
  BY <1>1, <1>2 DEF Shorter
<1>4. a[i] = b[i] /\ b[i] = c[i]
  BY <1>3 DEF Covers, Conflicts
<1>5. QED
  BY <1>4
=============================================================================
