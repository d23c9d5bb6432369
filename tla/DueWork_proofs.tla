---------------------------- MODULE DueWork_proofs ----------------------------
(***************************************************************************)
(* The row of the ledger keeps its shape through every fold, payment,      *)
(* failure, edit and restart, for every schedule and every configuration.  *)
(***************************************************************************)
EXTENDS DueWork, TLAPS, WellFoundedInduction

(* The schedule: a next occurrence is the least one after a time, a latest  *)
(* one the greatest up to it.  Neither is found without the well-foundedness *)
(* of the order of the naturals.                                           *)

Below == {p \in Nat \X Nat : p[1] < p[2]}

LEMMA BelowIsWellFounded == IsWellFoundedOn(Below, Nat)
BY NatLessThanWellFounded DEF Below, OpToRel

LEMMA LeastExists ==
  ASSUME NEW S, S \subseteq Nat, S # {}
  PROVE  \E m \in S : \A n \in S : m <= n
<1>1. PICK m \in S : \A n \in S : ~ (<<n, m>> \in Below)
  BY BelowIsWellFounded, WFMin, Zenon
<1>2. ASSUME NEW n \in S PROVE m <= n
  <2>1. m \in Nat /\ n \in Nat /\ <<n, m>> \notin Below
    BY <1>1
  <2>2. QED
    BY <2>1 DEF Below
<1>3. QED
  BY <1>2

LEMMA GreatestExists ==
  ASSUME NEW b \in Nat, NEW S, S \subseteq 0..b, S # {}
  PROVE  \E m \in S : \A n \in S : n <= m
<1> DEFINE T == {k \in 0..b : b - k \in S}
<1>1. \A n \in S : n \in 0..b /\ b - n \in T
  OBVIOUS
<1>2. T \subseteq Nat /\ T # {}
  <2>1. PICK n \in S : TRUE
    OBVIOUS
  <2>2. b - n \in T
    BY <1>1, <2>1
  <2>3. QED
    BY <2>2
<1>3. PICK k \in T : \A j \in T : k <= j
  BY <1>2, LeastExists, Zenon
<1>4. ASSUME NEW n \in S PROVE n <= b - k
  <2>1. k <= b - n
    BY <1>1, <1>3
  <2>2. QED
    BY <1>1, <2>1
<1>5. QED
  BY <1>4

LEMMA NextIsNext ==
  ASSUME NEW c \in Cron, NEW t \in Nat, NextOccurrence(c, t) # Never
  PROVE  /\ NextOccurrence(c, t) \in Fires[c]
         /\ NextOccurrence(c, t) \in Nat
         /\ NextOccurrence(c, t) > t
<1> DEFINE S == {o \in Fires[c] : o > t}
<1>1. Fires[c] \subseteq Nat
  BY LedgerAssumption DEF LedgerAssumption, Time
<1>2. S # {}
  BY DEF NextOccurrence
<1>3. PICK m \in S : \A n \in S : m <= n
  BY <1>1, <1>2, LeastExists
<1>4. NextOccurrence(c, t) =
        CHOOSE o \in Fires[c] : o > t /\ \A p \in Fires[c] : p > t => o <= p
  BY <1>2 DEF NextOccurrence
<1>5. QED
  BY <1>1, <1>3, <1>4

LEMMA LatestIsLatest ==
  ASSUME NEW c \in Cron, NEW t \in Nat, NEW o \in Fires[c], o <= t
  PROVE  /\ LatestOccurrence(c, t) \in Fires[c]
         /\ LatestOccurrence(c, t) \in Nat
         /\ o <= LatestOccurrence(c, t) /\ LatestOccurrence(c, t) <= t
<1>1. Fires[c] \subseteq Nat
  BY LedgerAssumption DEF LedgerAssumption, Time
<1>2. UpTo(c, t) \subseteq 0..t /\ o \in UpTo(c, t)
  BY <1>1 DEF UpTo
<1>3. \E m \in UpTo(c, t) : \A n \in UpTo(c, t) : n <= m
  BY <1>2, GreatestExists
<1>4. LatestOccurrence(c, t) \in UpTo(c, t) /\ o <= LatestOccurrence(c, t)
  BY <1>2, <1>3 DEF LatestOccurrence
<1>5. QED
  BY <1>1, <1>4 DEF UpTo

LEMMA BackoffIsTime ==
  ASSUME NEW n \in Nat
  PROVE  Backoff(n) \in Nat
BY LedgerAssumption DEF LedgerAssumption, Backoff
-----------------------------------------------------------------------------
(* The row by itself.                                                      *)

\* A well-formed row: typed, linked to a run while it is dispatched, followed only
\* by something later, and exhausted when its retries are spent.  A row blocked for
\* its schedule keeps what it had: the link, or the spent retries.
Sound(d) ==
  /\ d \in Row
  /\ d.status = "none" <=> d.due = Never
  /\ d.status = "dispatched" => d.run # "none"
  /\ d.run # "none" =>
       d.status = "dispatched" \/ (cron \in Broken /\ d.status \in {"due", "blocked"})
  /\ d.newer # Never => d.newer > d.due
  /\ d.status = "exhausted" => d.attempts > MaxRetries
  /\ d.attempts > MaxRetries =>
       \/ d.status = "exhausted"
       \/ cron \in Broken /\ d.status = "blocked" /\ d.run = "none"

\* What e owes was owed in d, and nothing older.
Within(e, d) ==
  \/ e.status = "none"
  \/ /\ d.status # "none"
     /\ e.due \in {d.due, d.newer} /\ e.due >= d.due
     /\ e.newer \in {d.newer, Never}

USE DEF Time, Maybe, Never

LEMMA RetriesAreNat == MaxRetries \in Nat /\ Early \in Nat
BY LedgerAssumption DEF LedgerAssumption

LEMMA NoRowIsSound ==
  /\ Sound(NoRow)
  /\ NoRow.status = "none" /\ NoRow.run = "none" /\ NoRow.newer = Never
BY RetriesAreNat DEF Sound, NoRow, Row, Status

LEMMA OweIsSound ==
  ASSUME NEW at \in Nat
  PROVE  /\ Sound(Owe(at))
         /\ Owe(at).status = "due" /\ Owe(at).due = at /\ Owe(at).newer = Never
         /\ Owe(at).run = "none"
<1>1. NoRow \in Row
  BY NoRowIsSound DEF Sound
<1>2. Owe(at) \in Row
  BY <1>1 DEF Owe, Row, Status
<1>3. /\ Owe(at).status = "due" /\ Owe(at).due = at
      /\ Owe(at).newer = Never /\ Owe(at).run = "none" /\ Owe(at).attempts = 0
  BY DEF Owe, NoRow
<1>4. QED
  BY <1>2, <1>3, RetriesAreNat DEF Sound

LEMMA RearmIsSound ==
  ASSUME NEW d, Sound(d), d.status \notin {"none", "dispatched"}
  PROVE  Sound(Rearm(d)) /\ Within(Rearm(d), d) /\ Rearm(d).status = "due"
<1>1. d \in Row
  BY DEF Sound
<1>2. Rearm(d) \in Row
  BY <1>1 DEF Rearm, Row, Status
<1>3. /\ Rearm(d).status = "due" /\ Rearm(d).due = d.due /\ Rearm(d).attempts = 0
      /\ Rearm(d).newer = d.newer /\ Rearm(d).run = d.run
  BY <1>1 DEF Rearm, Row
<1>4. d.due \in Int
  BY <1>1 DEF Row
<1>5. QED
  BY <1>2, <1>3, <1>4, RetriesAreNat DEF Sound, Within

\* A row whose due time, follow-up and attempts stay is sound if its status fits.
LEMMA SameDebt ==
  ASSUME NEW d, Sound(d), d.status # "none",
         NEW e \in Row, e.due = d.due, e.newer \in {d.newer, Never},
         e.status # "none",
         e.status = "dispatched" => e.run # "none",
         e.run # "none" =>
           e.status = "dispatched" \/ (cron \in Broken /\ e.status \in {"due", "blocked"}),
         e.status = "exhausted" => e.attempts > MaxRetries,
         e.attempts > MaxRetries =>
           \/ e.status = "exhausted"
           \/ cron \in Broken /\ e.status = "blocked" /\ e.run = "none"
  PROVE  Sound(e) /\ Within(e, d)
<1>1. d.due \in Int
  BY DEF Sound, Row
<1>2. QED
  BY <1>1 DEF Sound, Within

LEMMA FinishIsSound ==
  ASSUME NEW d, Sound(d), d.status # "none"
  PROVE  Sound(Finish(d)) /\ Within(Finish(d), d)
<1>1. CASE d.newer = Never
  BY <1>1, NoRowIsSound DEF Finish, Within
<1>2. CASE d.newer # Never
  <2>1. d.newer \in Nat /\ d.due \in Nat /\ d.newer > d.due
    BY <1>2 DEF Sound, Row
  <2>2. Finish(d) = Owe(d.newer)
    BY <1>2 DEF Finish
  <2>3. QED
    BY <2>1, <2>2, OweIsSound DEF Within
<1>3. QED
  BY <1>1, <1>2

LEMMA OutcomeIsSound ==
  ASSUME NEW d, Sound(d), d.run # "none", NEW v \in Verdict, now \in Nat
  PROVE  Sound(Outcome(d, v)) /\ Within(Outcome(d, v), d)
<1>0. d \in Row /\ d.status # "none" /\ ~ (d.attempts > MaxRetries)
  BY DEF Sound
<1>1. CASE v = "success"
  BY <1>0, <1>1, FinishIsSound DEF Outcome
<1>2. CASE v = "cancelled"
  BY <1>2, NoRowIsSound DEF Outcome, Within
<1>3. CASE v \in {"infra", "permanent"}
  <2> DEFINE s == IF v = "infra" THEN "due" ELSE "blocked"
             e == [d EXCEPT !.status = s, !.run = "none", !.retry = Never]
  <2>1. Outcome(d, v) = e
    BY <1>3 DEF Outcome
  <2>2. e \in Row
    BY <1>0 DEF Row, Status
  <2>3. /\ e.status = s /\ e.run = "none" /\ e.due = d.due
        /\ e.newer = d.newer /\ e.attempts = d.attempts
    BY <1>0 DEF Row
  <2>4. QED
    <3>2. e.status \notin {"none", "dispatched", "exhausted"}
      BY <2>3
    <3>3. QED
      BY <1>0, <2>1, <2>2, <2>3, <3>2, SameDebt
<1>4. CASE v = "plain"
  <2> DEFINE n == d.attempts + 1
             spent == [d EXCEPT !.attempts = n, !.run = "none",
                                !.status = "exhausted", !.retry = Never]
             again == [d EXCEPT !.attempts = n, !.run = "none",
                                !.status = "retry", !.retry = now + Backoff(n)]
  <2>1. n \in Nat /\ now + Backoff(n) \in Nat
    BY <1>0, BackoffIsTime DEF Row
  <2>2. CASE n > MaxRetries
    <3>1. Outcome(d, v) = spent
      BY <1>4, <2>2 DEF Outcome
    <3>2. spent \in Row
      BY <1>0, <2>1 DEF Row, Status
    <3>3. /\ spent.status = "exhausted" /\ spent.run = "none" /\ spent.due = d.due
          /\ spent.newer = d.newer /\ spent.attempts = n
      BY <1>0 DEF Row
    <3>4. QED
      BY <1>0, <2>2, <3>1, <3>2, <3>3, SameDebt
  <2>3. CASE ~ (n > MaxRetries)
    <3>1. Outcome(d, v) = again
      BY <1>4, <2>3 DEF Outcome
    <3>2. again \in Row
      BY <1>0, <2>1 DEF Row, Status
    <3>3. /\ again.status = "retry" /\ again.run = "none" /\ again.due = d.due
          /\ again.newer = d.newer /\ again.attempts = n
      BY <1>0 DEF Row
    <3>4. QED
      BY <1>0, <2>1, <2>3, <3>1, <3>2, <3>3, SameDebt
  <2>4. QED
    BY <2>2, <2>3
<1>5. QED
  BY <1>1, <1>2, <1>3, <1>4 DEF Verdict

\* No outcome leaves the row dispatched.
LEMMA OutcomeUnlinks ==
  ASSUME NEW d \in Row, NEW v \in Verdict
  PROVE  Outcome(d, v).status # "dispatched"
<1>1. Finish(d).status # "dispatched"
  BY NoRowIsSound DEF Finish, Owe, NoRow
<1>2. QED
  BY <1>1, NoRowIsSound DEF Outcome, Verdict, Row

\* Settling keeps the row well-formed, adds nothing to what is owed, and takes a
\* cancelled obligation away.
LEMMA SettledIsSound ==
  ASSUME NEW d, Sound(d), now \in Nat, paidAt \in Maybe
  PROVE  /\ Sound(Settled(d)) /\ Within(Settled(d), d)
         /\ d.status \in {"none", "blocked"} => Settled(d) = d
         /\ d.status = "dispatched" /\ d.run = "cancelled" => Settled(d) = NoRow
         /\ Settled(d).status = "dispatched" => Settled(d) = d
<1> USE DEF Sound
<1>1. CASE d.status = "dispatched"
  <2>1. CASE d.run = "active"
    BY <1>1, <2>1 DEF Settled, Within, Row
  <2>2. CASE d.run # "active"
    <3>1. d.run \in Verdict /\ Settled(d) = Outcome(d, d.run)
      BY <1>1, <2>2 DEF Settled, Row
    <3>2. Sound(Settled(d)) /\ Within(Settled(d), d)
      BY <1>1, <3>1, OutcomeIsSound DEF Verdict
    <3>3. d.run = "cancelled" => Settled(d) = NoRow
      BY <3>1 DEF Outcome
    <3>4. Settled(d).status # "dispatched"
      BY <3>1, OutcomeUnlinks
    <3>5. QED
      BY <1>1, <3>2, <3>3, <3>4
  <2>3. QED
    BY <2>1, <2>2
<1>2. CASE d.status \notin {"dispatched", "due", "retry", "exhausted"}
  BY <1>2 DEF Settled, Within, Row
<1>3. CASE d.status \in {"due", "retry", "exhausted"}
  <2> DEFINE merged == [d EXCEPT !.newer = Never]
  <2>1. Sound(merged) /\ Within(merged, d) /\ merged.status = d.status
    BY <1>3 DEF Row, Within
  <2>2. CASE PaysDebt(d)
    <3>1. \E e \in {d, merged} : Settled(d) = Finish(e)
      BY <1>3, <2>2 DEF Settled
    <3>2. PICK e \in {d, merged} : Settled(d) = Finish(e)
      BY <3>1
    <3>3. Sound(e) /\ e.status # "none" /\ e.due = d.due /\ e.newer \in {d.newer, Never}
      BY <1>3, <2>1, <3>2 DEF Row
    <3>4. Sound(Settled(d)) /\ Within(Settled(d), e)
      BY <3>2, <3>3, FinishIsSound
    <3>5. Settled(d).status # "dispatched"
      BY <3>2, NoRowIsSound DEF Finish, Owe, NoRow
    <3>6. Within(Settled(d), d)
      BY <1>3, <3>3, <3>4 DEF Within, Row
    <3>7. QED
      BY <1>3, <3>4, <3>5, <3>6
  <2>3. CASE ~ PaysDebt(d) /\ (d.newer = Never \/ RunIsActive)
    BY <1>3, <2>3 DEF Settled, Within, Row
  <2>4. CASE ~ PaysDebt(d) /\ ~ (d.newer = Never \/ RunIsActive)
    <3>1. Settled(d) = IF d.status = "exhausted" THEN Rearm(merged) ELSE merged
      BY <1>3, <2>4 DEF Settled
    <3>2. Sound(Rearm(merged)) /\ Within(Rearm(merged), merged)
           /\ Rearm(merged).status = "due"
      BY <1>3, <2>1, RearmIsSound
    <3>3. Within(Rearm(merged), d)
      BY <1>3, <2>1, <3>2 DEF Within, Row
    <3>4. QED
      BY <1>3, <2>1, <3>1, <3>2, <3>3
  <2>5. QED
    BY <2>2, <2>3, <2>4
<1>4. QED
  BY <1>1, <1>2, <1>3

LEMMA NotedIsSound ==
  ASSUME NEW d, Sound(d), d.status # "none",
         NEW first \in Nat, NEW latest \in Nat, first > d.due, latest > d.due
  PROVE  /\ Sound(Noted(d, first, latest))
         /\ Noted(d, first, latest).due = d.due
         /\ Noted(d, first, latest).newer \in {d.newer, first, latest}
         /\ Noted(d, first, latest).status = d.status
         /\ Noted(d, first, latest).run = d.run
<1> DEFINE n == IF d.status = "dispatched" THEN first ELSE latest
           e == [d EXCEPT !.newer = n]
<1>1. d \in Row
  BY DEF Sound
<1>2. e \in Row
  BY <1>1 DEF Row
<1>3. /\ e.due = d.due /\ e.newer = n /\ e.status = d.status /\ e.run = d.run
      /\ e.attempts = d.attempts
  BY <1>1 DEF Row
<1>4. n > d.due
  OBVIOUS
<1>5. Sound(e)
  BY <1>2, <1>3, <1>4 DEF Sound
<1>6. Noted(d, first, latest) \in {d, e}
  BY DEF Noted
<1>7. QED
  BY <1>3, <1>5, <1>6

LEMMA EditedIsSound ==
  ASSUME NEW d, Sound(d), NEW drops \in BOOLEAN
  PROVE  /\ Sound(EditedRow(d, drops)) /\ Within(EditedRow(d, drops), d)
         /\ drops => EditedRow(d, drops) = NoRow
<1>1. Within(NoRow, d) /\ Within(d, d)
  BY NoRowIsSound DEF Within, Sound, Row
<1>2. QED
  BY <1>1, NoRowIsSound, RearmIsSound DEF EditedRow

\* A row whose run alone changes.
LEMMA RunEndsSound ==
  ASSUME NEW d, Sound(d), d.run = "active", NEW v \in Verdict
  PROVE  Sound([d EXCEPT !.run = v]) /\ Within([d EXCEPT !.run = v], d)
<1> DEFINE e == [d EXCEPT !.run = v]
<1>1. d \in Row
  BY DEF Sound
<1>2. e \in Row
  BY <1>1 DEF Row
<1>3. /\ e.due = d.due /\ e.newer = d.newer /\ e.status = d.status /\ e.run = v
      /\ e.attempts = d.attempts
  BY <1>1 DEF Row
<1>4. d.status # "none" /\ ~ (d.attempts > MaxRetries) /\ v # "none"
  BY DEF Sound, Verdict
<1>5. QED
  BY <1>1, <1>2, <1>3, <1>4, SameDebt DEF Sound
-----------------------------------------------------------------------------
(* The row among the clock, the watermark and the waivers.                 *)

Typed ==
  /\ now \in Time /\ up \in {"up", "down", "starting"}
  /\ cron \in Cron /\ enabled \in BOOLEAN
  /\ baseline \in Maybe /\ epoch \in Time
  /\ run \in Run
  /\ paidAt \in Maybe /\ paidEnd \in Maybe /\ lastStart \in Maybe /\ lastEnd \in Maybe
  /\ armed \subseteq Time
  /\ since \in Time /\ dropped \in Time /\ outpaced \in BOOLEAN /\ swallowed \in BOOLEAN

\* The watermark may be ahead by an early callback, and covers every edit and every
\* waiver.  Only under a schedule that does not parse may a cancellation come
\* before the first watermark.
Watermark ==
  /\ epoch <= now
  /\ IF baseline = Never THEN epoch = 0 /\ (cron \notin Broken => since = 0)
     ELSE epoch <= baseline /\ since <= baseline /\ baseline <= now + Early

\* What is owed, and what follows it, was accounted for.
AccountedBy(d, b) == d.status # "none" => d.due <= b /\ d.newer <= b
Accounted ==
  cron \notin Broken =>
    /\ AccountedBy(owed, baseline)
    /\ owed.status # "none" => baseline # Never

\* What is owed is, or follows, an occurrence later than the last edit.
Answers(d) ==
  d.status # "none" => \E o \in Fires[cron] : epoch < o /\ o <= d.due + Early
Answered == cron \notin Broken => Answers(owed)

\* The job fires at occurrences of this schedule, after its last edit; one that does
\* not parse has no job.
ArmedIsAhead ==
  /\ cron \in Broken => armed = {}
  /\ \A o \in armed : o \in Fires[cron] /\ o > epoch

RunsArePast == lastStart <= now /\ lastEnd <= now

RowInv == Sound(owed) /\ Watermark /\ Accounted /\ Answered
LedgerInv == Typed /\ RowInv /\ ArmedIsAhead /\ RunsArePast

LEMMA LedgerInvImplies ==
  LedgerInv => TypeOK /\ FollowUpIsNewer /\ ExhaustedIsSpent /\ EditNeverBackfills
<1>1. Typed /\ Sound(owed) => TypeOK
  BY DEF Typed, Sound, TypeOK
<1>2. Sound(owed) => FollowUpIsNewer /\ ExhaustedIsSpent
  BY DEF Sound, FollowUpIsNewer, ExhaustedIsSpent
<1>3. Answered => EditNeverBackfills
  BY DEF Answered, Answers, EditNeverBackfills, AnswersAfter
<1>4. QED
  BY <1>1, <1>2, <1>3 DEF LedgerInv, RowInv

LEMMA BaseIsTime ==
  ASSUME LedgerInv
  PROVE  /\ Base \in Nat /\ epoch <= Base /\ Base <= now + Early
         /\ cron \notin Broken => since <= Base
<1>1. CASE baseline = Never
  <2>1. DeriveBaseline \in Nat /\ DeriveBaseline <= now
    BY DEF LedgerInv, Typed, RunsArePast, DeriveBaseline
  <2>2. QED
    BY <1>1, <2>1, RetriesAreNat DEF LedgerInv, RowInv, Typed, Watermark, Base
<1>2. CASE baseline # Never
  BY <1>2 DEF LedgerInv, RowInv, Typed, Watermark, Base
<1>3. QED
  BY <1>1, <1>2

\* What is within an accounted row is accounted for, and answers as much.
LEMMA WithinStays ==
  ASSUME NEW d, Sound(d), NEW e, Sound(e), Within(e, d),
         NEW b \in Int, AccountedBy(d, b), Answers(d), cron \in Cron
  PROVE  AccountedBy(e, b) /\ Answers(e)
<1>1. d.due \in Int /\ d.newer \in Int /\ e.due \in Int /\ e.newer \in Int
  BY DEF Sound, Row
<1>2. CASE e.status = "none"
  BY <1>2 DEF AccountedBy, Answers
<1>3. CASE e.status # "none"
  <2>1. /\ d.status # "none" /\ e.due \in {d.due, d.newer}
        /\ e.due >= d.due /\ e.newer \in {d.newer, Never}
    BY <1>3 DEF Within
  <2>2. d.due <= b /\ d.newer <= b /\ d.due \in Nat
    BY <2>1 DEF AccountedBy, Sound, Row
  <2>3. AccountedBy(e, b)
    BY <1>1, <2>1, <2>2 DEF AccountedBy
  <2>4. PICK o \in Fires[cron] : epoch < o /\ o <= d.due + Early
    BY <2>1 DEF Answers
  <2>5. o \in Int
    BY LedgerAssumption DEF LedgerAssumption
  <2>6. o <= e.due + Early
    BY <1>1, <2>1, <2>4, <2>5, RetriesAreNat
  <2>7. Answers(e)
    BY <2>4, <2>6 DEF Answers
  <2>8. QED
    BY <2>3, <2>7
<1>4. QED
  BY <1>2, <1>3

\* An occurrence after the last edit may be owed, at its own time or a hair before.
LEMMA OweAnswers ==
  ASSUME NEW o \in Fires[cron], epoch < o, NEW t \in Nat, o <= t + Early
  PROVE  Answers(Owe(t))
BY OweIsSound DEF Answers

\* The invariant of the row in the next state, where the schedule stays.
LEMMA SoundStays ==
  ASSUME cron' = cron, Sound(owed')
  PROVE  (Sound(owed))'
BY DEF Sound
-----------------------------------------------------------------------------
(* Settling and reconciling.                                               *)

\* Whether an action may have waived what the watermark has passed.
Waiving == baseline = Never \/ owed.run = "cancelled"

LEMMA SettledStays ==
  ASSUME LedgerInv, cron \notin Broken
  PROVE  /\ Sound(Settled(owed)) /\ Within(Settled(owed), owed)
         /\ AccountedBy(Settled(owed), Base) /\ Answers(Settled(owed))
         /\ Waiving => Settled(owed).status = "none"
         /\ baseline = Never => owed.status = "none"
<1>1. /\ Sound(owed) /\ Typed /\ Answers(owed) /\ AccountedBy(owed, baseline)
      /\ baseline = Never => owed.status = "none"
      /\ owed.run # "none" => owed.status = "dispatched"
  BY DEF LedgerInv, RowInv, Accounted, Answered, Sound
<1>2. /\ Sound(Settled(owed)) /\ Within(Settled(owed), owed)
      /\ owed.status \in {"none", "blocked"} => Settled(owed) = owed
      /\ owed.status = "dispatched" /\ owed.run = "cancelled" => Settled(owed) = NoRow
  BY <1>1, SettledIsSound DEF Typed
<1>3. Waiving => Settled(owed).status = "none"
  BY <1>1, <1>2, NoRowIsSound DEF Waiving
<1>4. AccountedBy(Settled(owed), baseline) /\ Answers(Settled(owed))
  BY <1>1, <1>2, WithinStays DEF Typed
<1>5. AccountedBy(Settled(owed), Base)
  BY <1>1, <1>3, <1>4 DEF AccountedBy, Base, Waiving
<1>6. QED
  BY <1>1, <1>2, <1>3, <1>4, <1>5

LEMMA ReconciledStays ==
  ASSUME LedgerInv, cron \notin Broken
  PROVE  /\ NewBaseline \in Nat /\ NewBaseline >= Base /\ NewBaseline <= now + Early
         /\ Sound(Reconciled)
         /\ AccountedBy(Reconciled, NewBaseline) /\ Answers(Reconciled)
<1> DEFINE d == Settled(owed)
<1>1. /\ Sound(d) /\ AccountedBy(d, Base) /\ Answers(d)
      /\ Base \in Nat /\ epoch <= Base /\ Base <= now + Early /\ now \in Nat
      /\ epoch \in Nat /\ cron \in Cron
  BY SettledStays, BaseIsTime DEF LedgerInv, Typed
<1>2. CASE ~ FoldsOne
  <2>1. Reconciled = d /\ NewBaseline = Base
    BY <1>2 DEF Reconciled, NewBaseline
  <2>2. QED
    BY <1>1, <2>1
<1>3. CASE FoldsOne
  <2> DEFINE F == First
             L == LatestOccurrence(cron, now)
  <2>1. F # Never /\ F <= now
    BY <1>3 DEF FoldsOne
  <2>2. F \in Fires[cron] /\ F \in Nat /\ F > Base
    BY <1>1, <2>1, NextIsNext DEF First
  <2>3. L \in Nat /\ F <= L /\ L <= now
    BY <1>1, <2>1, <2>2, LatestIsLatest
  <2>4. NewBaseline = L /\ Reconciled = Folded
    BY <1>3 DEF NewBaseline, Reconciled
  <2>5. L \in Nat /\ L >= Base /\ L <= now + Early
    BY <1>1, <2>2, <2>3, RetriesAreNat
  <2>6. CASE d.status = "none"
    <3>1. Folded = Owe(F)
      BY <2>6 DEF Folded
    <3>2. Sound(Owe(F)) /\ Owe(F).due = F /\ Owe(F).newer = Never
      BY <2>2, OweIsSound
    <3>3. AccountedBy(Owe(F), L)
      BY <2>3, <3>2 DEF AccountedBy
    <3>4. epoch < F /\ F <= F + Early
      BY <1>1, <2>2, RetriesAreNat
    <3>5. Answers(Owe(F))
      BY <2>2, <3>4, OweAnswers
    <3>6. QED
      BY <2>4, <2>5, <3>1, <3>2, <3>3, <3>5
  <2>7. CASE d.status # "none"
    <3>1. d.due \in Int /\ d.newer \in Int /\ d.due <= Base /\ d.newer <= Base
      BY <1>1, <2>7 DEF AccountedBy, Sound, Row
    <3>2. F > d.due /\ L > d.due /\ d.due <= L /\ d.newer <= L
      BY <1>1, <2>2, <2>3, <3>1
    <3>3. CASE Defers(d, L)
      <4>1. Folded = Noted(d, F, L)
        BY <2>7, <3>3 DEF Folded
      <4>2. /\ Sound(Noted(d, F, L)) /\ Noted(d, F, L).due = d.due
            /\ Noted(d, F, L).newer \in {d.newer, F, L}
        BY <1>1, <2>2, <2>3, <2>7, <3>2, NotedIsSound
      <4>3. AccountedBy(Noted(d, F, L), L) /\ Answers(Noted(d, F, L))
        BY <1>1, <2>2, <2>3, <2>7, <3>1, <3>2, <4>2 DEF AccountedBy, Answers
      <4>4. QED
        BY <2>4, <2>5, <3>1, <4>1, <4>2, <4>3
    <3>4. CASE ~ Defers(d, L) /\ d.status = "exhausted"
      <4>1. Folded = Rearm(d)
        BY <2>7, <3>4 DEF Folded
      <4>2. Sound(Rearm(d)) /\ Within(Rearm(d), d)
        BY <1>1, <3>4, RearmIsSound
      <4>3. AccountedBy(d, L)
        BY <3>2 DEF AccountedBy
      <4>4. AccountedBy(Rearm(d), L) /\ Answers(Rearm(d))
        BY <1>1, <2>3, <4>2, <4>3, WithinStays
      <4>5. QED
        BY <2>4, <2>5, <3>1, <4>1, <4>2, <4>4
    <3>5. CASE ~ Defers(d, L) /\ d.status # "exhausted"
      <4>1. Folded = d
        BY <2>7, <3>5 DEF Folded
      <4>2. AccountedBy(d, L)
        BY <3>2 DEF AccountedBy
      <4>3. QED
        BY <1>1, <2>4, <2>5, <3>1, <4>1, <4>2
    <3>6. QED
      BY <3>3, <3>4, <3>5
  <2>8. QED
    BY <2>6, <2>7
<1>4. QED
  BY <1>2, <1>3
-----------------------------------------------------------------------------
(* What each action does to the row, its watermark and its waivers.        *)

\* What a step waives lies behind the watermark it started from.
LEMMA WaiverIsTime ==
  ASSUME LedgerInv, Waives
  PROVE  /\ since' \in Nat /\ dropped' \in Nat /\ epoch' = epoch
         /\ since' \in {since, Base}
<1>1. Base \in Nat /\ since \in Nat /\ dropped \in Nat
  BY BaseIsTime DEF LedgerInv, Typed
<1>2. QED
  BY <1>1 DEF Waives, Later

\* An action that moves the watermark forward with the row.
LEMMA ForwardNext ==
  ASSUME LedgerInv, cron \notin Broken, UNCHANGED <<now, cron>>, Waives,
         Sound(owed'), baseline' \in Nat, baseline' >= Base, baseline' <= now + Early,
         AccountedBy(owed', baseline'), Answers(owed')
  PROVE  RowInv'
<1>1. /\ Base \in Nat /\ since <= Base /\ since \in Nat /\ epoch \in Nat /\ epoch <= Base
      /\ epoch <= now
  BY BaseIsTime DEF LedgerInv, RowInv, Typed, Watermark
<1>2. since' \in {since, Base} /\ epoch' = epoch
  BY WaiverIsTime
<1>3. since' \in Nat /\ since' <= baseline' /\ epoch' <= baseline'
  BY <1>1, <1>2
<1>4. Watermark'
  BY <1>1, <1>2, <1>3 DEF Watermark
<1>5. Accounted'
  BY DEF Accounted, AccountedBy
<1>6. Answered'
  BY <1>2 DEF Answered, Answers
<1>7. QED
  BY <1>4, <1>5, <1>6, SoundStays DEF RowInv

\* An action that leaves the watermark and owes nothing but what was settled.
LEMMA KeptNext ==
  ASSUME LedgerInv, UNCHANGED <<now, cron, baseline>>, Waives,
         Sound(owed'), Within(owed', Settled(owed))
  PROVE  RowInv'
<1>1. /\ Base \in Nat /\ since \in Nat /\ epoch \in Nat /\ cron \in Cron
      /\ since' \in {since, Base} /\ epoch' = epoch
  BY BaseIsTime, WaiverIsTime DEF LedgerInv, Typed
<1>2. CASE cron \in Broken
  <2>1. baseline # Never => Base = baseline
    BY DEF Base
  <2>2. Watermark'
    BY <1>1, <1>2, <2>1 DEF LedgerInv, RowInv, Watermark
  <2>3. QED
    BY <1>2, <2>2, SoundStays DEF RowInv, Accounted, Answered
<1>3. CASE cron \notin Broken
  <2> DEFINE d == Settled(owed)
  <2>1. /\ Sound(d) /\ AccountedBy(d, Base) /\ Answers(d)
        /\ Waiving => d.status = "none"
        /\ baseline = Never => owed.status = "none"
        /\ since <= Base
    BY <1>3, SettledStays, BaseIsTime
  <2>2. AccountedBy(owed', Base) /\ Answers(owed')
    BY <1>1, <2>1, WithinStays
  <2>3. Waiving => owed'.status = "none"
    BY <2>1 DEF Within
  <2>4. Accounted'
    BY <2>2, <2>3 DEF Accounted, AccountedBy, Base, Waiving
  <2>5. Answered'
    BY <1>1, <2>2 DEF Answered, Answers
  <2>6. Watermark'
    <3>1. CASE baseline = Never
      <4>1. since' = since
        BY <2>1, <3>1 DEF Waives, CancelSettles
      <4>2. QED
        BY <1>1, <3>1, <4>1 DEF LedgerInv, RowInv, Watermark
    <3>2. CASE baseline # Never
      <4>1. Base = baseline
        BY <3>2 DEF Base
      <4>2. QED
        BY <1>1, <2>1, <3>2, <4>1 DEF LedgerInv, RowInv, Watermark
    <3>3. QED
      BY <3>1, <3>2
  <2>7. QED
    BY <2>4, <2>5, <2>6, SoundStays DEF RowInv
<1>4. QED
  BY <1>2, <1>3

\* Actions that leave the row, its watermark and its waivers alone.
LEMMA IdleNext ==
  ASSUME LedgerInv, UNCHANGED <<cron, owed, baseline, epoch, since>>,
         now' = now \/ now' = now + 1
  PROVE  RowInv'
<1>1. now \in Nat /\ baseline \in Maybe /\ epoch \in Nat /\ RowInv
  BY DEF LedgerInv, Typed
<1>2. Watermark'
  <2>1. epoch' <= now'
    BY <1>1 DEF RowInv, Watermark
  <2>2. baseline # Never => baseline' <= now' + Early
    BY <1>1, RetriesAreNat DEF RowInv, Watermark
  <2>3. QED
    BY <1>1, <2>1, <2>2 DEF RowInv, Watermark
<1>3. QED
  BY <1>1, <1>2 DEF RowInv, Sound, Accounted, AccountedBy, Answered, Answers

\* A schedule that does not parse leaves a sound row, which shows it.
LEMMA BrokenRowIsSound ==
  ASSUME LedgerInv, cron \in Broken
  PROVE  Sound(BrokenRow) /\ BrokenRow.status = "blocked"
<1>1. CASE owed.status = "none"
  <2> DEFINE e == [Owe(now) EXCEPT !.status = "blocked"]
  <2>1. Sound(Owe(now)) /\ Owe(now).due = now /\ Owe(now).run = "none"
         /\ Owe(now).status = "due" /\ Owe(now) \in Row
    BY OweIsSound DEF LedgerInv, Typed, Sound
  <2>2. e \in Row
    BY <2>1 DEF Row, Status
  <2>3. /\ e.status = "blocked" /\ e.due = now /\ e.run = "none"
        /\ e.newer = Owe(now).newer /\ e.attempts = Owe(now).attempts
    BY <2>1 DEF Row
  <2>4. ~ (e.attempts > MaxRetries)
    BY <2>1, <2>3 DEF Sound
  <2>5. Sound(e)
    BY <2>1, <2>2, <2>3, <2>4, SameDebt
  <2>6. QED
    BY <1>1, <2>3, <2>5 DEF BrokenRow
<1>2. CASE owed.status # "none"
  <2> DEFINE e == [owed EXCEPT !.status = "blocked", !.retry = Never]
  <2>1. owed \in Row /\ Sound(owed)
    BY DEF LedgerInv, RowInv, Sound
  <2>2. e \in Row
    BY <2>1 DEF Row, Status
  <2>3. /\ e.status = "blocked" /\ e.due = owed.due /\ e.run = owed.run
        /\ e.newer = owed.newer /\ e.attempts = owed.attempts
    BY <2>1 DEF Row
  <2>4. e.attempts > MaxRetries => e.run = "none"
    BY <2>1, <2>3 DEF Sound
  <2>5. Sound(e)
    BY <1>2, <2>1, <2>2, <2>3, <2>4, SameDebt
  <2>6. QED
    BY <1>2, <2>3, <2>5 DEF BrokenRow
<1>3. QED
  BY <1>1, <1>2

LEMMA ReconcileNext ==
  ASSUME LedgerInv, ReconcileTask, UNCHANGED <<now, cron>>
  PROVE  RowInv' /\ baseline' \in Maybe /\ since' \in Nat /\ dropped' \in Nat /\ epoch' = epoch
<1>0. baseline \in Maybe /\ since \in Nat /\ dropped \in Nat
  BY DEF LedgerInv, Typed
<1>1. CASE UNCHANGED <<owed, marks>>
  BY <1>0, <1>1, IdleNext DEF marks
<1>2. CASE owed' = BrokenRow /\ cron \in Broken /\ UNCHANGED marks
  <2>1. (Sound(owed))'
    BY <1>2, BrokenRowIsSound, SoundStays
  <2>2. Watermark'
    BY <1>2 DEF marks, LedgerInv, RowInv, Watermark
  <2>3. QED
    BY <1>0, <1>2, <2>1, <2>2 DEF marks, RowInv, Accounted, Answered
<1>3. CASE /\ cron \notin Broken
           /\ owed' = Reconciled /\ baseline' = NewBaseline /\ Waives
  <2>1. RowInv'
    BY <1>3, ReconciledStays, ForwardNext
  <2>2. QED
    BY <1>3, <2>1, ReconciledStays, WaiverIsTime
<1>4. QED
  BY <1>1, <1>2, <1>3 DEF ReconcileTask

LEMMA RecordTickNext ==
  ASSUME LedgerInv, NEW o \in armed, RecordTick(o)
  PROVE  RowInv' /\ baseline' \in Maybe /\ since' \in Nat /\ dropped' \in Nat /\ epoch' = epoch
<1> DEFINE R == Reconciled
<1>1. cron \notin Broken /\ o \in Fires[cron] /\ epoch < o
  BY DEF LedgerInv, ArmedIsAhead
<1>2. /\ NewBaseline \in Nat /\ NewBaseline >= Base /\ NewBaseline <= now + Early
      /\ Sound(R) /\ AccountedBy(R, NewBaseline) /\ Answers(R)
  BY <1>1, ReconciledStays
<1>3. /\ Base \in Nat /\ Base <= now + Early
      /\ now \in Nat /\ cron \in Cron /\ baseline \in Maybe /\ o \in Nat
  BY BaseIsTime DEF LedgerInv, Typed
<1>4. UNCHANGED <<now, cron>> /\ Waives
  BY DEF RecordTick, task
<1>5. since' \in Nat /\ dropped' \in Nat /\ epoch' = epoch /\ since' \in {since, Base}
  BY <1>4, WaiverIsTime
<1>6. Sound(Owe(now)) /\ Owe(now).due = now /\ Owe(now).newer = Never
  BY <1>3, OweIsSound
<1>7. Answers(Owe(now))
  <2>1. o - Early <= now
    BY DEF RecordTick
  <2>2. o <= now + Early
    BY <1>3, <2>1, RetriesAreNat
  <2>3. QED
    BY <1>1, <1>3, <2>2, OweAnswers
<1>8. CASE IsEarly /\ baseline' = Upcoming
           /\ owed' = IF R.status = "none" THEN Owe(now)
                      ELSE IF Defers(R, Upcoming) THEN Noted(R, Upcoming, Upcoming)
                      ELSE R
  <2> DEFINE U == Upcoming
  <2>1. U # Never /\ U - now \in 0..Early
    BY <1>8 DEF IsEarly
  <2>2. U \in Nat /\ U > NewBaseline
    BY <1>2, <1>3, <2>1, NextIsNext DEF Upcoming
  <2>3. U <= now + Early /\ now <= U /\ U >= Base
    BY <1>2, <1>3, <2>1, <2>2, RetriesAreNat
  <2>4. CASE R.status = "none"
    <3>1. AccountedBy(Owe(now), U)
      BY <1>3, <1>6, <2>2, <2>3 DEF AccountedBy
    <3>2. QED
      BY <1>1, <1>4, <1>5, <1>6, <1>7, <1>8, <2>2, <2>3, <2>4, <3>1, ForwardNext
  <2>5. CASE R.status # "none" /\ Defers(R, U)
    <3> DEFINE e == Noted(R, U, U)
    <3>1. R.due \in Int /\ R.newer \in Int /\ R.due <= NewBaseline /\ R.newer <= NewBaseline
      BY <1>2, <2>5 DEF AccountedBy, Sound, Row
    <3>2. Sound(e) /\ e.due = R.due /\ e.newer \in {R.newer, U} /\ e.status = R.status
      BY <1>2, <2>2, <2>5, <3>1, NotedIsSound
    <3>3. AccountedBy(e, U)
      BY <1>2, <2>2, <3>1, <3>2 DEF AccountedBy
    <3>4. Answers(e)
      BY <1>2, <3>2 DEF Answers
    <3>5. QED
      BY <1>1, <1>4, <1>5, <1>8, <2>2, <2>3, <2>5, <3>2, <3>3, <3>4, ForwardNext
  <2>6. CASE R.status # "none" /\ ~ Defers(R, U)
    <3>1. AccountedBy(R, U)
      BY <1>2, <2>2 DEF AccountedBy, Sound, Row
    <3>2. QED
      BY <1>1, <1>2, <1>4, <1>5, <1>8, <2>2, <2>3, <2>6, <3>1, ForwardNext
  <2>7. QED
    BY <2>4, <2>5, <2>6
<1>9. CASE owed' = Owe(now) /\ baseline' = Later(NewBaseline, now)
  <2>1. baseline' \in Nat /\ baseline' >= NewBaseline /\ now <= baseline'
         /\ baseline' <= now + Early
    BY <1>2, <1>3, <1>9, RetriesAreNat DEF Later
  <2>2. AccountedBy(owed', baseline')
    BY <1>3, <1>6, <1>9, <2>1 DEF AccountedBy
  <2>3. baseline' >= Base
    BY <1>2, <1>3, <2>1
  <2>4. QED
    BY <1>1, <1>4, <1>5, <1>6, <1>7, <1>9, <2>1, <2>2, <2>3, ForwardNext
<1>10. CASE owed' = Reconciled /\ baseline' = NewBaseline
  BY <1>1, <1>2, <1>4, <1>5, <1>10, ForwardNext
<1>11. CASE UNCHANGED <<owed, baseline>>
  <2>1. since' = since
    BY <1>4, <1>11 DEF Waives, CancelSettles
  <2>2. QED
    BY <1>3, <1>4, <1>5, <1>11, <2>1, IdleNext
<1>12. QED
  BY <1>8, <1>9, <1>10, <1>11 DEF RecordTick

LEMMA WithinItself ==
  ASSUME NEW d, Sound(d)
  PROVE  Within(d, d)
BY DEF Within, Sound, Row

LEMMA SettleAllNext ==
  ASSUME LedgerInv, SettleAll
  PROVE  RowInv' /\ since' \in Nat /\ dropped' \in Nat /\ epoch' = epoch
<1>1. Sound(Settled(owed))
  BY SettledIsSound DEF LedgerInv, RowInv, Typed
<1>2. Sound(owed') /\ Within(owed', Settled(owed))
  BY <1>1, WithinItself DEF SettleAll
<1>3. QED
  BY <1>2, KeptNext, WaiverIsTime DEF SettleAll, task

LEMMA DispatchNext ==
  ASSUME LedgerInv, Dispatch
  PROVE  RowInv' /\ since' \in Nat /\ dropped' \in Nat /\ epoch' = epoch
<1> DEFINE d == Settled(owed)
           e == [d EXCEPT !.status = "dispatched", !.run = "active", !.retry = Never]
<1>1. Sound(d) /\ d \in Row
  BY SettledIsSound DEF LedgerInv, RowInv, Typed, Sound
<1>2. d.status \in {"due", "retry"} /\ owed' \in {e, d} /\ Waives
      /\ UNCHANGED <<now, cron, baseline>>
  BY DEF Dispatch, Startable, task
<1>3. e \in Row
  BY <1>1 DEF Row, Status
<1>4. /\ e.status = "dispatched" /\ e.run = "active" /\ e.due = d.due
      /\ e.newer = d.newer /\ e.attempts = d.attempts
  BY <1>1 DEF Row
<1>5. ~ (d.attempts > MaxRetries)
  BY <1>1, <1>2 DEF Sound
<1>6. Sound(e) /\ Within(e, d)
  BY <1>1, <1>2, <1>3, <1>4, <1>5, SameDebt
<1>7. QED
  BY <1>1, <1>2, <1>6, WithinItself, KeptNext, WaiverIsTime

\* The end of a run, seen by the row that is linked to it.
LEMMA OwnEndNext ==
  ASSUME LedgerInv, UNCHANGED <<now, cron, baseline, epoch, since>>, NEW v \in Verdict,
         owed' = IF owed.run = "active" THEN [owed EXCEPT !.run = v] ELSE owed
  PROVE  RowInv'
<1> DEFINE e == [owed EXCEPT !.run = v]
<1>1. Sound(owed) /\ owed \in Row /\ RowInv
  BY DEF LedgerInv, RowInv, Sound
<1>2. CASE owed.run # "active"
  BY <1>2, IdleNext
<1>3. CASE owed.run = "active"
  <2>1. Sound(e) /\ owed' = e
    BY <1>1, <1>3, RunEndsSound
  <2>2. e.due = owed.due /\ e.newer = owed.newer /\ e.status = owed.status
    BY <1>1 DEF Row
  <2>3. QED
    BY <1>1, <2>1, <2>2, SoundStays
    DEF RowInv, Watermark, Accounted, AccountedBy, Answered, Answers
<1>4. QED
  BY <1>2, <1>3

LEMMA TerminalNext ==
  ASSUME LedgerInv, NEW v \in Verdict, Terminal(v)
  PROVE  RowInv' /\ since' \in Nat /\ dropped' \in Nat /\ epoch' = epoch
<1> DEFINE e == Outcome(owed, v)
<1>1. UNCHANGED <<now, cron, baseline, epoch>>
  BY DEF Terminal, RunEnds, task
<1>2. /\ Base \in Nat /\ since \in Nat /\ dropped \in Nat /\ now \in Nat /\ epoch \in Nat
      /\ baseline \in Maybe /\ cron \in Cron /\ Sound(owed)
      /\ cron \notin Broken => since <= Base
  BY BaseIsTime DEF LedgerInv, RowInv, Typed
<1>3. CASE owed.run # "active"
  <2>1. UNCHANGED <<owed, since, dropped>>
    BY <1>3 DEF Terminal
  <2>2. QED
    BY <1>1, <1>2, <2>1, IdleNext
<1>4. CASE owed.run = "active"
  <2>1. owed' = e /\ since' \in {since, Base} /\ dropped' \in {dropped, Base}
    BY <1>2, <1>4 DEF Terminal, Later
  <2>2. Sound(e) /\ Within(e, owed)
    BY <1>2, <1>4, OutcomeIsSound
  <2>3. owed.status # "none" /\ (baseline # Never => Base = baseline)
    BY <1>2, <1>4 DEF Sound, Base
  <2>4. cron \notin Broken => baseline # Never
    BY <2>3 DEF LedgerInv, RowInv, Accounted
  <2>5. Watermark'
    BY <1>1, <1>2, <2>1, <2>3, <2>4 DEF LedgerInv, RowInv, Watermark
  <2>6. cron \notin Broken => AccountedBy(e, baseline) /\ Answers(e)
    BY <1>2, <2>2, WithinStays DEF LedgerInv, RowInv, Accounted, Answered
  <2>7. Accounted' /\ Answered'
    BY <1>1, <2>1, <2>4, <2>6 DEF Accounted, AccountedBy, Answered, Answers
  <2>8. QED
    BY <1>1, <1>2, <2>1, <2>2, <2>5, <2>7, SoundStays DEF RowInv
<1>5. QED
  BY <1>3, <1>4

\* An edit that drops the row: nothing is owed, and nothing before it will be.
LEMMA DroppedNext ==
  ASSUME LedgerInv, NewEpoch, now' = now, owed' = NoRow
  PROVE  RowInv'
<1>1. now \in Nat
  BY DEF LedgerInv, Typed
<1>2. (Sound(owed))'
  BY NoRowIsSound DEF Sound
<1>3. QED
  BY <1>1, <1>2, NoRowIsSound, RetriesAreNat
  DEF NewEpoch, RowInv, Watermark, Accounted, AccountedBy, Answered, Answers

LEMMA EditScheduleNext ==
  ASSUME LedgerInv, NEW c \in Cron, NEW e \in BOOLEAN, EditSchedule(c, e)
  PROVE  RowInv'
BY DroppedNext DEF EditSchedule, EditedRow

LEMMA EditOtherNext ==
  ASSUME LedgerInv, EditOther
  PROVE  RowInv'
<1>1. owed' = EditedRow(owed, ~ enabled) /\ UNCHANGED <<now, cron>>
  BY DEF EditOther, task
<1>2. /\ cron \in Cron /\ enabled \in BOOLEAN /\ RowInv /\ Sound(owed) /\ baseline \in Maybe
  BY DEF LedgerInv, RowInv, Typed
<1>3. CASE enabled
  <2>1. UNCHANGED <<baseline, epoch, since>>
    BY <1>3 DEF EditOther, marks
  <2>2. Sound(owed') /\ Within(owed', owed)
    BY <1>1, <1>2, EditedIsSound
  <2>3. cron \notin Broken => AccountedBy(owed', baseline) /\ Answers(owed')
    BY <1>1, <1>2, <2>2, WithinStays DEF RowInv, Accounted, Answered
  <2>4. cron \notin Broken => (owed'.status # "none" => baseline # Never)
    BY <1>2, <2>2 DEF RowInv, Accounted, Within
  <2>5. Accounted' /\ Answered' /\ Watermark'
    BY <1>1, <1>2, <2>1, <2>3, <2>4
    DEF Accounted, AccountedBy, Answered, Answers, RowInv, Watermark
  <2>6. QED
    BY <1>1, <2>2, <2>5, SoundStays DEF RowInv
<1>4. CASE ~ enabled
  BY <1>1, <1>2, <1>4, EditedIsSound, DroppedNext DEF EditOther
<1>5. QED
  BY <1>3, <1>4

LEMMA RestartNext ==
  ASSUME LedgerInv, Restart
  PROVE  RowInv'
<1>1. UNCHANGED <<now, cron, baseline, epoch, since>>
  BY DEF Restart, task, marks
<1>2. CASE RunIsActive
  BY <1>1, <1>2, OwnEndNext DEF Restart, Verdict
<1>3. CASE ~ RunIsActive
  BY <1>1, <1>3, IdleNext DEF Restart
<1>4. QED
  BY <1>2, <1>3

\* Types and times of everything but the row.
LEMMA FiresAreTimes ==
  ASSUME NEW c \in Cron, NEW e \in BOOLEAN
  PROVE  FiresAfter(c, e) \subseteq Time
BY LedgerAssumption DEF LedgerAssumption, FiresAfter

LEMMA RunTypes ==
  ASSUME LedgerInv
  PROVE  /\ NoRun \in Run
         /\ \A h \in BOOLEAN : [state |-> "pending", start |-> now, owned |-> h] \in Run
         /\ [run EXCEPT !.state = "running", !.start = now] \in Run
         /\ run.start \in Maybe
BY DEF LedgerInv, Typed, NoRun, Run

\* The run table after a step that starts, begins or ends a run.
LEMMA RunEndsTyped ==
  ASSUME LedgerInv, NEW v, RunEnds(v)
  PROVE  /\ run' \in Run
         /\ paidAt' \in Maybe /\ paidEnd' \in Maybe
         /\ lastStart' \in Maybe /\ lastEnd' \in Maybe /\ lastStart' <= now /\ lastEnd' <= now
         /\ UNCHANGED <<now, up, cron, enabled, baseline, epoch, armed>>
<1>1. /\ now \in Nat /\ paidAt \in Maybe /\ paidEnd \in Maybe /\ lastStart \in Maybe
      /\ lastStart <= now
  BY DEF LedgerInv, Typed, RunsArePast
<1>2. NoRun \in Run /\ run.start \in Maybe
  BY RunTypes
<1>3. QED
  BY <1>1, <1>2 DEF RunEnds, task

\* Types after each action, but for those of the watermark and the waivers, which
\* the lemmas about the row give where they change.
LEMMA TypedNext ==
  ASSUME LedgerInv, Step,
         outpaced' = (outpaced \/ Outpaces), swallowed' = (swallowed \/ Swallows),
         baseline' \in Maybe, epoch' \in Nat, since' \in Nat, dropped' \in Nat
  PROVE  Typed' /\ RunsArePast'
<1>1. /\ now \in Nat /\ up \in {"up", "down", "starting"} /\ cron \in Cron
      /\ enabled \in BOOLEAN /\ run \in Run /\ armed \subseteq Nat
      /\ paidAt \in Maybe /\ paidEnd \in Maybe /\ lastStart \in Maybe /\ lastEnd \in Maybe
      /\ lastStart <= now /\ lastEnd <= now
  BY DEF LedgerInv, Typed, RunsArePast
<1>2. outpaced' \in BOOLEAN /\ swallowed' \in BOOLEAN
  OBVIOUS
<1> DEFINE Same == UNCHANGED <<now, up, cron, enabled>>
           SameRuns == UNCHANGED <<run, paidAt, paidEnd, lastStart, lastEnd>>
           GoodRuns == /\ run' \in Run /\ paidAt' \in Maybe /\ paidEnd' \in Maybe
                       /\ lastStart' \in Maybe /\ lastEnd' \in Maybe
                       /\ lastStart' <= now /\ lastEnd' <= now
<1>3. CASE Reconcile \/ SettleAll
  BY <1>1, <1>2, <1>3 DEF Reconcile, SettleAll, task, table, Typed, RunsArePast
<1>4. ASSUME NEW h \in BOOLEAN, NewRun(h)
      PROVE  GoodRuns
  BY <1>1, <1>4, RunTypes DEF NewRun
<1>5. CASE Dispatch
  <2>1. GoodRuns /\ Same /\ armed' = armed
    BY <1>4, <1>5 DEF Dispatch, task
  <2>2. QED
    BY <1>1, <1>2, <2>1 DEF Typed, RunsArePast
<1>6. CASE ManualRun
  <2>1. GoodRuns /\ Same /\ armed' = armed
    BY <1>4, <1>6 DEF ManualRun, task
  <2>2. QED
    BY <1>1, <1>2, <2>1 DEF Typed, RunsArePast
<1>7. CASE RunBegins
  BY <1>1, <1>2, <1>7, RunTypes DEF RunBegins, task, Typed, RunsArePast
<1>8. ASSUME NEW v, RunEnds(v)
      PROVE  Typed' /\ RunsArePast'
  BY <1>1, <1>2, <1>8, RunEndsTyped DEF Typed, RunsArePast
<1>9. CASE Watchdog
  BY <1>8, <1>9 DEF Watchdog, EndedElsewhere
<1>10. ASSUME NEW v \in Verdict, Terminal(v) \/ OwnerEnds(v)
       PROVE  Typed' /\ RunsArePast'
  BY <1>8, <1>10 DEF Terminal, OwnerEnds, EndedElsewhere
<1>11. ASSUME NEW o \in armed, RecordTick(o)
       PROVE  Typed' /\ RunsArePast'
  <2>1. Same /\ SameRuns /\ armed' \subseteq armed
    BY <1>11 DEF RecordTick, task, table
  <2>2. QED
    BY <1>1, <1>2, <2>1 DEF Typed, RunsArePast
<1>12. ASSUME NEW c \in Cron, NEW e \in BOOLEAN, EditSchedule(c, e)
       PROVE  Typed' /\ RunsArePast'
  BY <1>1, <1>2, <1>12, FiresAreTimes DEF EditSchedule, table, Typed, RunsArePast
<1>13. CASE EditOther
  BY <1>1, <1>2, <1>13, FiresAreTimes DEF EditOther, task, table, Typed, RunsArePast
<1>14. CASE Crash \/ StartUp
  BY <1>1, <1>2, <1>14 DEF Crash, StartUp, task, table, Typed, RunsArePast
<1>15. CASE Restart
  <2>1. GoodRuns /\ UNCHANGED <<now, cron, enabled>>
    BY <1>1, <1>15, RunTypes DEF Restart, task
  <2>2. up' = "starting" /\ armed' \subseteq Nat
    BY <1>1, <1>15, FiresAreTimes DEF Restart
  <2>3. QED
    BY <1>1, <1>2, <2>1, <2>2 DEF Typed, RunsArePast
<1>16. CASE Clock
  BY <1>1, <1>2, <1>16 DEF Clock, task, table, Typed, RunsArePast
<1>17. QED
  BY <1>3, <1>5, <1>6, <1>7, <1>9, <1>10, <1>11, <1>12, <1>13, <1>14, <1>15, <1>16 DEF Step

\* The job is registered with the fires to come, after every edit there was.
LEMMA ArmedNext ==
  ASSUME LedgerInv, Step
  PROVE  ArmedIsAhead'
<1>1. /\ ArmedIsAhead /\ now \in Nat /\ epoch \in Nat /\ epoch <= now
      /\ cron \in Cron /\ Fires[cron] \subseteq Nat
  BY LedgerAssumption DEF LedgerInv, RowInv, Watermark, Typed, LedgerAssumption
<1>2. ASSUME UNCHANGED <<cron, epoch>>, armed' \subseteq armed PROVE ArmedIsAhead'
  BY <1>1, <1>2 DEF ArmedIsAhead
<1>3. ASSUME NEW c \in Cron, NEW e, cron' = c, epoch' = now \/ epoch' = epoch,
             armed' = FiresAfter(c, e)
      PROVE  ArmedIsAhead'
  <2>1. ASSUME NEW o \in armed' PROVE o \in Fires[c] /\ o > epoch'
    <3>1. o \in Fires[c] /\ o > now
      BY <1>3, <2>1 DEF FiresAfter
    <3>2. o \in Nat
      BY <3>1, LedgerAssumption DEF LedgerAssumption
    <3>3. QED
      BY <1>1, <1>3, <3>1, <3>2
  <2>2. c \in Broken => armed' = {}
    BY <1>3 DEF FiresAfter
  <2>3. QED
    BY <1>3, <2>1, <2>2 DEF ArmedIsAhead
<1>4. ASSUME ReconcileTask PROVE epoch' = epoch
  BY <1>4 DEF ReconcileTask, Waives, marks
<1>5. CASE Reconcile \/ StartUp
  BY <1>2, <1>4, <1>5 DEF Reconcile, StartUp, task
<1>6. CASE SettleAll \/ Dispatch
  BY <1>2, <1>6 DEF SettleAll, Dispatch, Waives, task
<1>7. CASE ManualRun \/ RunBegins \/ Clock \/ Crash
  BY <1>2, <1>7 DEF ManualRun, RunBegins, Clock, Crash, task, marks
<1>8. ASSUME NEW v, RunEnds(v) PROVE ArmedIsAhead'
  BY <1>2, <1>8 DEF RunEnds, task
<1>9. CASE Watchdog
  BY <1>8, <1>9 DEF Watchdog, EndedElsewhere
<1>10. ASSUME NEW v \in Verdict, Terminal(v) \/ OwnerEnds(v) PROVE ArmedIsAhead'
  BY <1>8, <1>10 DEF Terminal, OwnerEnds, EndedElsewhere
<1>11. ASSUME NEW o \in armed, RecordTick(o) PROVE ArmedIsAhead'
  BY <1>2, <1>11 DEF RecordTick, Waives, task
<1>12. ASSUME NEW c \in Cron, NEW e \in BOOLEAN, EditSchedule(c, e) PROVE ArmedIsAhead'
  BY <1>3, <1>12 DEF EditSchedule, NewEpoch
<1>13. CASE EditOther
  BY <1>1, <1>3, <1>13 DEF EditOther, NewEpoch, task, marks
<1>14. CASE Restart
  BY <1>1, <1>3, <1>14 DEF Restart, task, marks
<1>15. QED
  BY <1>5, <1>6, <1>7, <1>9, <1>10, <1>11, <1>12, <1>13, <1>14 DEF Step

LEMMA LedgerNext ==
  ASSUME LedgerInv, [Next]_vars
  PROVE  LedgerInv'
<1>1. CASE UNCHANGED vars
  BY <1>1
  DEF vars, ledger, table, task, marks, LedgerInv, RowInv, Sound, Typed, Watermark,
      Accounted, AccountedBy, Answered, Answers, ArmedIsAhead, RunsArePast
<1>2. CASE Next
  <2>1. /\ baseline \in Maybe /\ since \in Nat /\ dropped \in Nat /\ epoch \in Nat
        /\ now \in Nat
    BY DEF LedgerInv, Typed
  <2> DEFINE Done == /\ RowInv' /\ baseline' \in Maybe
                     /\ epoch' \in Nat /\ since' \in Nat /\ dropped' \in Nat
  <2>2. ASSUME Reconcile PROVE Done
    BY <2>1, <2>2, ReconcileNext DEF Reconcile, task
  <2>3. ASSUME StartUp PROVE Done
    BY <2>1, <2>3, ReconcileNext DEF StartUp, task
  <2>4. ASSUME SettleAll PROVE Done
    BY <2>1, <2>4, SettleAllNext DEF SettleAll
  <2>5. ASSUME Dispatch PROVE Done
    BY <2>1, <2>5, DispatchNext DEF Dispatch
  <2>6. ASSUME ManualRun \/ RunBegins \/ Crash \/ Clock PROVE Done
    <3>1. /\ UNCHANGED <<cron, owed, baseline, epoch, since, dropped>>
          /\ now' = now \/ now' = now + 1
      BY <2>6 DEF ManualRun, RunBegins, Crash, Clock, task, marks
    <3>2. QED
      BY <2>1, <3>1, IdleNext
  <2>7. ASSUME Watchdog PROVE Done
    <3>1. UNCHANGED <<now, cron, baseline, epoch, since, dropped>>
      BY <2>7 DEF Watchdog, EndedElsewhere, RunEnds, task
    <3>2. QED
      BY <2>1, <2>7, <3>1, OwnEndNext DEF Watchdog, EndedElsewhere, Verdict
  <2>8. ASSUME NEW v \in Verdict, OwnerEnds(v)
        PROVE  Done
    <3>1. UNCHANGED <<now, cron, baseline, epoch, since, dropped>>
      BY <2>8 DEF OwnerEnds, EndedElsewhere, RunEnds, task
    <3>2. QED
      BY <2>1, <2>8, <3>1, OwnEndNext DEF OwnerEnds, EndedElsewhere
  <2>9. ASSUME NEW v \in Verdict, Terminal(v)
        PROVE  Done
    BY <2>1, <2>9, TerminalNext DEF Terminal, RunEnds
  <2>10. ASSUME NEW o \in armed, RecordTick(o)
         PROVE  Done
    BY <2>1, <2>10, RecordTickNext
  <2>11. ASSUME NEW c \in Cron, NEW e \in BOOLEAN, EditSchedule(c, e)
         PROVE  Done
    BY <2>1, <2>11, EditScheduleNext DEF EditSchedule, NewEpoch
  <2>12. ASSUME EditOther PROVE Done
    BY <2>1, <2>12, EditOtherNext DEF EditOther, NewEpoch, marks
  <2>13. ASSUME Restart PROVE Done
    BY <2>1, <2>13, RestartNext DEF Restart, marks
  <2>14. Done /\ ArmedIsAhead'
    BY <1>2, <2>2, <2>3, <2>4, <2>5, <2>6, <2>7, <2>8, <2>9, <2>10, <2>11, <2>12, <2>13,
       ArmedNext
    DEF Next, Step
  <2>15. Typed' /\ RunsArePast'
    BY <1>2, <2>14, TypedNext DEF Next
  <2>16. QED
    BY <2>14, <2>15 DEF LedgerInv
<1>3. QED
  BY <1>1, <1>2
-----------------------------------------------------------------------------
\* The inductive invariant of the ledger: a sound row, a watermark between the
\* edits and the clock, nothing owed beyond it, and nothing from before an edit.
THEOREM LedgerInvariance == Spec => []LedgerInv
<1>1. Init => LedgerInv
  <2> SUFFICES ASSUME Init PROVE LedgerInv
    OBVIOUS
  <2>1. Typed /\ RunsArePast
    <3>1. armed \subseteq Time
      BY FiresAreTimes DEF Init
    <3>2. NoRun \in Run
      BY DEF NoRun, Run
    <3>3. lastStart = -1 /\ lastEnd = -1 /\ now = 0
      BY DEF Init
    <3>4. RunsArePast
      BY <3>3 DEF RunsArePast
    <3>5. QED
      BY <3>1, <3>2, <3>4 DEF Init, Typed
  <2>2. Sound(owed) /\ Watermark /\ Accounted /\ Answered
    BY NoRowIsSound DEF Init, Watermark, Accounted, AccountedBy, Answered, Answers
  <2>3. ArmedIsAhead
    BY DEF Init, ArmedIsAhead, FiresAfter
  <2>4. QED
    BY <2>1, <2>2, <2>3 DEF LedgerInv, RowInv
<1>2. LedgerInv /\ [Next]_vars => LedgerInv'
  BY LedgerNext
<1>3. QED
  BY <1>1, <1>2, PTL DEF Spec

\* Every state of the ledger is well typed: a dispatched row is linked to a run, and
\* only a row blocked for its schedule, or an edit after it, keeps the link longer.
THEOREM LedgerTyped == Spec => []TypeOK
BY LedgerInvariance, LedgerInvImplies, PTL

\* The one follow-up is later than the obligation it follows, for every schedule.
THEOREM FollowUps == Spec => []FollowUpIsNewer
BY LedgerInvariance, LedgerInvImplies, PTL

\* A row that gives up has spent its retries, and nothing that can still be started
\* has, for every limit of them and through edits to and from schedules that do not
\* parse.
THEOREM RetriesAreSpent == Spec => []ExhaustedIsSpent
BY LedgerInvariance, LedgerInvImplies, PTL

\* Whatever is owed is, or follows, an occurrence of the schedule later than the last
\* edit of it, for every schedule, earliness and lateness of the callbacks.
THEOREM EditsHold == Spec => []EditNeverBackfills
BY LedgerInvariance, LedgerInvImplies, PTL
-----------------------------------------------------------------------------
(* The ledger forgets nothing, as long as no run outpaced its bookkeeping   *)
(* and nothing went into a blocked row that was paid.                       *)

\* Every run started before the clock, and callbacks belong to an enabled task.
Chronicle ==
  /\ run.start <= now /\ paidAt <= paidEnd /\ paidEnd <= now
  /\ RunIsActive => lastStart # Never /\ lastEnd = Never
  /\ run.owned => RunIsActive
  /\ armed # {} => enabled

\* No run started with an occurrence behind it that was not accounted for.
StartsRecorded ==
  enabled => \A o \in Fires[cron] : o > Base => o > run.start /\ o > paidAt

\* A dispatched obligation is not paid yet, and no run but its own is active.
LinkedIsUnpaid ==
  owed.status = "dispatched" =>
    /\ ~ PaysDebt(owed) /\ owed.run # "success"
    /\ RunIsActive => owed.run = "active"

\* Where nothing is owed, or what is owed was paid, every promise was kept.
PaidIsKept ==
  owed.status = "none" \/ PaysDebt(owed) => \A o \in Promised : PaidBy(o)

Kept == cron \notin Broken => StartsRecorded /\ LinkedIsUnpaid /\ PaidIsKept

PromiseInv == Chronicle /\ (~ outpaced /\ ~ swallowed => Kept)

LEMMA NextIsLeast ==
  ASSUME NEW c \in Cron, NEW t \in Nat, NEW o \in Fires[c], o > t
  PROVE  NextOccurrence(c, t) # Never /\ NextOccurrence(c, t) <= o
<1> DEFINE S == {p \in Fires[c] : p > t}
<1>1. Fires[c] \subseteq Nat
  BY LedgerAssumption DEF LedgerAssumption, Time
<1>2. S # {} /\ S \subseteq Nat
  BY <1>1
<1>3. PICK m \in S : \A n \in S : m <= n
  BY <1>2, LeastExists
<1>4. NextOccurrence(c, t) =
        CHOOSE p \in Fires[c] : p > t /\ \A q \in Fires[c] : q > t => p <= q
  BY DEF NextOccurrence
<1>5. /\ NextOccurrence(c, t) \in Fires[c]
      /\ \A q \in Fires[c] : q > t => NextOccurrence(c, t) <= q
  BY <1>1, <1>3, <1>4
<1>6. QED
  BY <1>1, <1>5
-----------------------------------------------------------------------------
(* Settling.                                                               *)

\* Settling leaves nothing that is already paid but a blocked row, and takes a row
\* away only when it was paid or cancelled.
LEMMA SettledIsUnpaid ==
  ASSUME LedgerInv, LinkedIsUnpaid, cron \notin Broken
  PROVE  /\ Settled(owed).status # "none" /\ PaysDebt(Settled(owed)) =>
              Settled(owed).status = "blocked" /\ Settled(owed) = owed
         /\ Settled(owed).status = "none" =>
              owed.status = "none" \/ PaysDebt(owed) \/ owed.run = "cancelled"
         /\ Settled(owed).status = "dispatched" => Settled(owed) = owed
<1> DEFINE d == Settled(owed)
<1>0. Sound(owed) /\ owed \in Row /\ paidAt \in Maybe /\ now \in Nat
  BY DEF LedgerInv, RowInv, Typed, Sound
<1>1. /\ Sound(owed) /\ Sound(d) /\ Within(d, owed) /\ owed \in Row /\ d \in Row
      /\ owed.status \in {"none", "blocked"} => d = owed
      /\ d.status = "dispatched" => d = owed
      /\ paidAt \in Maybe /\ now \in Nat
  <2>1. /\ Sound(d) /\ Within(d, owed)
        /\ owed.status \in {"none", "blocked"} => d = owed
        /\ d.status = "dispatched" => d = owed
    BY <1>0, SettledIsSound
  <2>2. d \in Row
    BY <2>1 DEF Sound
  <2>3. QED
    BY <1>0, <2>1, <2>2
<1>2. CASE owed.status \in {"none", "blocked"}
  BY <1>1, <1>2
<1>3. CASE owed.status = "dispatched"
  <2>1. CASE owed.run = "active"
    <3>1. d = owed
      BY <1>3, <2>1 DEF Settled
    <3>2. QED
      BY <1>3, <3>1 DEF LinkedIsUnpaid
  <2>2. CASE owed.run # "active"
    <3>1. /\ owed.run \in Verdict \ {"success"} /\ ~ PaysDebt(owed)
          /\ d = Outcome(owed, owed.run)
      BY <1>1, <1>3, <2>2 DEF LinkedIsUnpaid, Settled, Row, Sound
    <3>3. CASE owed.run = "cancelled"
      <4>1. d = NoRow
        BY <3>1, <3>3 DEF Outcome
      <4>2. QED
        BY <3>3, <4>1, NoRowIsSound
    <3>4. CASE owed.run # "cancelled"
      <4>1. d.due = owed.due /\ d.status # "none"
        BY <1>1, <3>1, <3>4 DEF Outcome, Verdict, Row
      <4>2. QED
        BY <1>1, <3>1, <4>1, NoRowIsSound DEF PaysDebt
    <3>5. QED
      BY <3>3, <3>4
  <2>3. QED
    BY <2>1, <2>2
<1>4. CASE owed.status \in {"due", "retry", "exhausted"}
  <2> DEFINE merged == [owed EXCEPT !.newer = Never]
  <2>1. /\ merged.due = owed.due /\ merged.status = owed.status
        /\ merged.newer = Never /\ merged \in Row
    <3>1. merged \in Row
      BY <1>1 DEF Row
    <3>2. QED
      BY <1>1, <3>1 DEF Row
  <2>2. CASE PaysDebt(owed)
    <3>1. d = Finish(IF owed.newer <= paidAt THEN merged ELSE owed)
      BY <1>4, <2>2 DEF Settled
    <3>2. CASE owed.newer <= paidAt \/ owed.newer = Never
      <4>1. d = NoRow
        BY <2>1, <3>1, <3>2 DEF Finish
      <4>2. QED
        BY <2>2, <4>1, NoRowIsSound
    <3>3. CASE ~ (owed.newer <= paidAt) /\ owed.newer # Never
      <4>1. d = Owe(owed.newer) /\ owed.newer \in Nat /\ owed.newer > paidAt
        <5>1. d = Finish(owed) /\ owed.newer \in Maybe
          BY <1>1, <3>1, <3>3 DEF Row
        <5>2. QED
          BY <1>1, <3>3, <5>1 DEF Finish
      <4>2. d.due = owed.newer /\ d.status = "due"
        BY <4>1, OweIsSound
      <4>3. QED
        BY <1>1, <4>1, <4>2 DEF PaysDebt
    <3>4. QED
      BY <3>2, <3>3
  <2>3. CASE ~ PaysDebt(owed)
    <3>1. d \in {owed, merged, Rearm(merged)}
      BY <1>4, <2>3 DEF Settled
    <3>2. Rearm(merged).due = owed.due /\ Rearm(merged).status = "due"
      BY <2>1 DEF Rearm, Row
    <3>3. d.due = owed.due /\ d.status \in {"due", "retry", "exhausted"}
      BY <1>4, <2>1, <3>1, <3>2
    <3>4. QED
      BY <2>3, <3>3 DEF PaysDebt
  <2>4. QED
    BY <2>2, <2>3
<1>5. QED
  BY <1>1, <1>2, <1>3, <1>4 DEF Row, Status
-----------------------------------------------------------------------------
(* Reconciling.                                                            *)

LEMMA ReconciledIsUnpaid ==
  ASSUME LedgerInv, Kept, cron \notin Broken, enabled
  PROVE  /\ Reconciled.status # "none" /\ PaysDebt(Reconciled) =>
              Reconciled.status = "blocked" /\ Reconciled = owed
         /\ Reconciled.status = "none" =>
              /\ ~ FoldsOne
              /\ owed.status = "none" \/ PaysDebt(owed) \/ owed.run = "cancelled"
         /\ Reconciled.status = "dispatched" =>
              owed.status = "dispatched" /\ Reconciled.run = owed.run
<1> DEFINE d == Settled(owed)
<1>1. /\ d.status # "none" /\ PaysDebt(d) => d.status = "blocked" /\ d = owed
      /\ d.status = "none" =>
           owed.status = "none" \/ PaysDebt(owed) \/ owed.run = "cancelled"
      /\ d.status = "dispatched" => d = owed
  BY SettledIsUnpaid DEF Kept
<1>2. Sound(d) /\ AccountedBy(d, Base) /\ Base \in Nat /\ now \in Nat /\ paidAt \in Maybe
      /\ cron \in Cron
  BY SettledStays, BaseIsTime DEF LedgerInv, Typed
<1>3. CASE ~ FoldsOne
  BY <1>1, <1>3 DEF Reconciled
<1>4. CASE FoldsOne
  <2> DEFINE F == First
             L == LatestOccurrence(cron, now)
  <2>1. F # Never /\ F <= now /\ Reconciled = Folded
    BY <1>4 DEF FoldsOne, Reconciled
  <2>2. F \in Fires[cron] /\ F \in Nat /\ F > Base
    BY <1>2, <2>1, NextIsNext DEF First
  <2>3. L \in Nat /\ F <= L
    BY <1>2, <2>1, <2>2, LatestIsLatest
  <2>4. CASE d.status = "none"
    <3>1. Folded = Owe(F)
      BY <2>4 DEF Folded
    <3>2. Owe(F).due = F /\ Owe(F).status = "due"
      BY <2>2, OweIsSound
    <3>3. F > paidAt
      BY <2>2 DEF Kept, StartsRecorded
    <3>4. QED
      BY <1>2, <2>1, <2>2, <3>1, <3>2, <3>3 DEF PaysDebt
  <2>5. CASE d.status # "none"
    <3>1. d.due \in Int /\ d.due <= Base
      BY <1>2, <2>5 DEF AccountedBy, Sound, Row
    <3>2. CASE Defers(d, L)
      <4>1. Folded = Noted(d, F, L) /\ F > d.due /\ L > d.due
        BY <1>2, <2>2, <2>3, <2>5, <3>1, <3>2 DEF Folded
      <4>2. /\ Noted(d, F, L).due = d.due /\ Noted(d, F, L).status = d.status
            /\ Noted(d, F, L).run = d.run
        BY <1>2, <2>2, <2>3, <2>5, <4>1, NotedIsSound
      <4>3. d.status # "blocked"
        BY <3>2 DEF Defers
      <4>4. QED
        BY <1>1, <2>1, <2>5, <4>1, <4>2, <4>3 DEF PaysDebt
    <3>3. CASE ~ Defers(d, L) /\ d.status = "exhausted"
      <4>1. Folded = Rearm(d)
        BY <2>5, <3>3 DEF Folded
      <4>2. Rearm(d).due = d.due /\ Rearm(d).status = "due"
        BY <1>2 DEF Rearm, Sound, Row
      <4>3. QED
        BY <1>1, <2>1, <2>5, <3>3, <4>1, <4>2 DEF PaysDebt
    <3>4. CASE ~ Defers(d, L) /\ d.status # "exhausted"
      <4>1. Folded = d
        BY <2>5, <3>4 DEF Folded
      <4>2. QED
        BY <1>1, <2>1, <2>5, <4>1
    <3>5. QED
      BY <3>2, <3>3, <3>4
  <2>6. QED
    BY <2>4, <2>5
<1>5. QED
  BY <1>3, <1>4

\* An action that changes the row and moves the watermark forward, and leaves the
\* run table alone.
LEMMA RowMoves ==
  ASSUME LedgerInv, Kept, cron \notin Broken, UNCHANGED <<now, task, table>>,
         baseline' = baseline \/ (baseline' \in Nat /\ baseline' >= Base),
         owed'.status = "none" \/ PaysDebt(owed') => \A o \in Promised' : PaidBy(o),
         owed'.status = "dispatched" =>
           ~ PaysDebt(owed') /\ owed.status = "dispatched" /\ owed'.run = owed.run
  PROVE  Kept'
<1>1. /\ UNCHANGED <<now, cron, enabled, run, paidAt, paidEnd, lastStart, lastEnd>>
      /\ Base \in Nat /\ Fires[cron] \subseteq Nat
  BY BaseIsTime, LedgerAssumption
  DEF task, table, LedgerInv, Typed, LedgerAssumption
<1>2. Base' \in Nat /\ Base' >= Base
  <2>1. CASE baseline' = baseline
    <3>1. Base' = Base
      BY <1>1, <2>1 DEF Base, DeriveBaseline
    <3>2. QED
      BY <1>1, <3>1
  <2>2. CASE baseline' \in Nat /\ baseline' >= Base
    <3>1. Base' = baseline'
      BY <2>2 DEF Base
    <3>2. QED
      BY <2>2, <3>1
  <2>3. QED
    BY <2>1, <2>2
<1>3. StartsRecorded'
  <2>1. SUFFICES ASSUME enabled, NEW o \in Fires[cron], o > Base'
                 PROVE  o > run.start /\ o > paidAt
    BY <1>1 DEF StartsRecorded
  <2>2. o > Base
    BY <1>1, <1>2, <2>1
  <2>3. QED
    BY <2>1, <2>2 DEF Kept, StartsRecorded
<1>4. (PaysDebt(owed))' <=> PaysDebt(owed')
  BY <1>1 DEF PaysDebt
<1>5. LinkedIsUnpaid'
  BY <1>1, <1>4 DEF Kept, LinkedIsUnpaid, RunIsActive
<1>6. PaidIsKept'
  BY <1>1, <1>4 DEF PaidIsKept, PaidBy
<1>7. QED
  BY <1>3, <1>5, <1>6 DEF Kept

\* What an action waives is promised to nobody.
LEMMA WaivedOwesNothing ==
  ASSUME baseline' = since', cron' \in Cron, baseline' \in Int
  PROVE  Promised' = {}
<1>1. Fires[cron'] \subseteq Nat
  BY LedgerAssumption DEF LedgerAssumption
<1>2. QED
  BY <1>1 DEF Promised, UpTo

\* The watermark is never further ahead than a success may be late, so a run that
\* ends well now leaves no promise open.
LEMMA PaidNow ==
  ASSUME LedgerInv', paidEnd' = now', NEW o \in Promised'
  PROVE  PaidBy(o)'
<1>1. /\ Fires[cron'] \subseteq Nat /\ now' \in Nat /\ baseline' \in Maybe /\ since' \in Nat
  BY LedgerAssumption DEF LedgerInv, Typed, LedgerAssumption
<1>2. o \in Fires[cron'] /\ o <= baseline' /\ o > since'
  BY DEF Promised, UpTo
<1>3. baseline' # Never
  BY <1>1, <1>2
<1>4. baseline' <= now' + Early
  BY <1>3 DEF LedgerInv, RowInv, Watermark
<1>5. o \in Int /\ baseline' \in Int /\ Early \in Int
  BY <1>1, <1>2, RetriesAreNat
<1>6. paidEnd' + Early >= o /\ paidEnd' # Never
  <2>1. now' \in Int /\ now' # -1
    BY <1>1
  <2>2. \A e, n, b \in Int : o <= b /\ b <= n + e => n + e >= o
    BY <1>5
  <2>3. now' + Early >= o
    BY <1>2, <1>4, <1>5, <2>1, <2>2
  <2>4. QED
    BY <2>1, <2>3
<1>7. QED
  BY <1>6 DEF PaidBy
-----------------------------------------------------------------------------
(* What each action does to the promises.                                  *)

\* A blocked row that is paid keeps its promises while the watermark stays.
LEMMA PaidBlockedKeeps ==
  ASSUME LedgerInv, Kept, cron \notin Broken, UNCHANGED <<task, table>>, Waives, ~ Swallows,
         owed.status = "blocked", owed' = owed, PaysDebt(owed)
  PROVE  \A o \in Promised' : PaidBy(o)
<1>1. baseline' = baseline /\ UNCHANGED <<cron, enabled>>
  BY DEF Swallows, PaysDebt, table, task
<1>2. since' = since
  BY <1>1 DEF Waives, CancelSettles
<1>3. Promised' = Promised
  BY <1>1, <1>2 DEF Promised
<1>4. QED
  BY <1>3 DEF Kept, PaidIsKept

LEMMA ReconcileKeeps ==
  ASSUME LedgerInv, LedgerInv', Kept, ReconcileTask, UNCHANGED <<now, task, table>>, ~ Swallows
  PROVE  Kept'
<1>1. UNCHANGED <<cron, enabled, paidAt, paidEnd>> /\ cron' \in Cron
  BY DEF task, table, LedgerInv, Typed
<1>2. CASE UNCHANGED <<owed, marks>>
  <2>1. Base' = Base /\ UNCHANGED <<baseline, since>>
    BY <1>2 DEF Base, DeriveBaseline, table, marks
  <2>2. QED
    BY <1>1, <1>2, <2>1
    DEF table, Kept, StartsRecorded, LinkedIsUnpaid, PaidIsKept,
        PaysDebt, PaidBy, Promised, RunIsActive
<1>3. CASE cron \in Broken
  BY <1>1, <1>3 DEF Kept
<1>4. CASE /\ enabled /\ cron \notin Broken
           /\ owed' = Reconciled /\ baseline' = NewBaseline /\ Waives
  <2>1. /\ Reconciled.status # "none" /\ PaysDebt(Reconciled) =>
             Reconciled.status = "blocked" /\ Reconciled = owed
        /\ Reconciled.status = "none" =>
             /\ ~ FoldsOne
             /\ owed.status = "none" \/ PaysDebt(owed) \/ owed.run = "cancelled"
        /\ Reconciled.status = "dispatched" =>
             owed.status = "dispatched" /\ Reconciled.run = owed.run
    BY <1>4, ReconciledIsUnpaid
  <2>2. NewBaseline \in Nat /\ NewBaseline >= Base /\ Base \in Nat /\ since <= Base
         /\ since \in Nat
    BY <1>4, ReconciledStays, BaseIsTime DEF LedgerInv, Typed
  <2>3. ASSUME Reconciled.status = "none" PROVE \A o \in Promised' : PaidBy(o)
    <3>1. baseline' = Base
      BY <1>4, <2>1, <2>3 DEF NewBaseline
    <3>2. CASE baseline = Never \/ owed.run = "cancelled"
      <4>1. CancelSettles \/ baseline = Never
        BY <1>4, <2>3, <3>2 DEF LedgerInv, RowInv, Sound, CancelSettles
      <4>2. since' = Base
        BY <1>4, <2>2, <3>1, <4>1 DEF Waives, Later
      <4>3. QED
        BY <1>1, <2>2, <3>1, <4>2, WaivedOwesNothing
    <3>3. CASE ~ (baseline = Never \/ owed.run = "cancelled")
      <4>1. baseline' = baseline /\ since' = since
        BY <1>4, <3>1, <3>3 DEF Waives, CancelSettles, Base
      <4>2. owed.status = "none" \/ PaysDebt(owed)
        BY <2>1, <2>3, <3>3
      <4>3. Promised' = Promised
        BY <1>1, <4>1 DEF Promised
      <4>4. QED
        BY <1>4, <4>2, <4>3 DEF Kept, PaidIsKept
    <3>4. QED
      BY <3>2, <3>3
  <2>4. ASSUME Reconciled.status # "none", PaysDebt(Reconciled)
        PROVE  \A o \in Promised' : PaidBy(o)
    BY <1>4, <2>1, <2>4, PaidBlockedKeeps
  <2>5. QED
    BY <1>4, <2>1, <2>2, <2>3, <2>4, RowMoves
<1>5. QED
  BY <1>2, <1>3, <1>4 DEF ReconcileTask

LEMMA RecordTickKeeps ==
  ASSUME LedgerInv, LedgerInv', Chronicle, Kept, NEW t \in armed, RecordTick(t), ~ Swallows
  PROVE  Kept'
<1> DEFINE R == Reconciled
<1>1. /\ cron \notin Broken /\ enabled
      /\ UNCHANGED <<now, task, table>> /\ Waives
  BY DEF RecordTick, LedgerInv, ArmedIsAhead, Chronicle
<1>2. /\ R.status # "none" /\ PaysDebt(R) => R.status = "blocked" /\ R = owed
      /\ R.status = "none" =>
           /\ ~ FoldsOne
           /\ owed.status = "none" \/ PaysDebt(owed) \/ owed.run = "cancelled"
      /\ R.status = "dispatched" => owed.status = "dispatched" /\ R.run = owed.run
  BY <1>1, ReconciledIsUnpaid
<1>3. /\ NewBaseline \in Nat /\ NewBaseline >= Base /\ NewBaseline <= now + Early
      /\ AccountedBy(R, NewBaseline) /\ Sound(R)
  BY <1>1, ReconciledStays
<1>4. /\ Base \in Nat /\ now \in Nat /\ cron \in Cron /\ paidAt \in Maybe /\ paidEnd \in Maybe
      /\ UNCHANGED <<now, cron, enabled, paidAt, paidEnd>> /\ paidAt <= paidEnd /\ paidEnd <= now
  BY <1>1, BaseIsTime DEF LedgerInv, Typed, task, table, Chronicle
<1>5. Sound(Owe(now)) /\ Owe(now).due = now /\ Owe(now).status = "due"
  BY <1>4, OweIsSound
<1>6. ASSUME PaysDebt(Owe(now)) PROVE \A o \in Promised' : PaidBy(o)
  <2>1. paidEnd = now
    BY <1>4, <1>5, <1>6 DEF PaysDebt
  <2>2. paidEnd' = now'
    BY <1>4, <2>1
  <2>3. ASSUME NEW o \in Promised' PROVE PaidBy(o)
    BY <1>4, <2>2, PaidNow DEF PaidBy
  <2>4. QED
    BY <2>3
<1>7. ASSUME owed' = Owe(now), baseline' \in Nat, baseline' >= Base
      PROVE  Kept'
  BY <1>1, <1>5, <1>6, <1>7, RowMoves
<1>8. ASSUME R.status # "none", PaysDebt(R), owed' = R
       PROVE  \A o \in Promised' : PaidBy(o)
  BY <1>1, <1>2, <1>8, PaidBlockedKeeps
<1>9. CASE IsEarly /\ baseline' = Upcoming
           /\ owed' = IF R.status = "none" THEN Owe(now)
                      ELSE IF Defers(R, Upcoming) THEN Noted(R, Upcoming, Upcoming)
                      ELSE R
  <2> DEFINE U == Upcoming
  <2>1. U \in Nat /\ U > NewBaseline
    BY <1>3, <1>4, <1>9, NextIsNext DEF Upcoming, IsEarly
  <2>2. baseline' \in Nat /\ baseline' >= Base
    BY <1>3, <1>4, <1>9, <2>1
  <2>3. CASE R.status = "none"
    BY <1>7, <1>9, <2>2, <2>3
  <2>4. CASE R.status # "none"
    <3>1. R.due \in Int /\ R.due <= NewBaseline
      BY <1>3, <2>4 DEF AccountedBy, Sound, Row
    <3>2. /\ Noted(R, U, U).due = R.due /\ Noted(R, U, U).status = R.status
          /\ Noted(R, U, U).run = R.run
      BY <1>3, <2>1, <2>4, <3>1, NotedIsSound
    <3>3. owed'.due = R.due /\ owed'.status = R.status /\ owed'.run = R.run
      BY <1>9, <2>4, <3>2
    <3>4. ASSUME PaysDebt(owed') PROVE owed' = R /\ R.status = "blocked"
      <4>1. PaysDebt(R)
        BY <3>3, <3>4 DEF PaysDebt
      <4>2. R.status = "blocked"
        BY <1>2, <2>4, <4>1
      <4>3. ~ Defers(R, U)
        BY <4>2 DEF Defers
      <4>4. QED
        BY <1>9, <2>4, <4>2, <4>3
    <3>5. QED
      BY <1>1, <1>2, <1>8, <2>2, <2>4, <3>3, <3>4, RowMoves
  <2>5. QED
    BY <2>3, <2>4
<1>10. CASE owed' = Owe(now) /\ baseline' = Later(NewBaseline, now)
  <2>1. baseline' \in Nat /\ baseline' >= Base
    BY <1>3, <1>4, <1>10 DEF Later
  <2>2. QED
    BY <1>7, <1>10, <2>1
<1>11. CASE FoldsOne /\ owed' = R /\ baseline' = NewBaseline
  BY <1>1, <1>2, <1>3, <1>11, <1>8, RowMoves
<1>12. CASE UNCHANGED <<owed, baseline>>
  <2>1. since' = since
    BY <1>1, <1>12 DEF Waives, CancelSettles
  <2>2. Base' = Base
    BY <1>1, <1>12 DEF Base, DeriveBaseline, table
  <2>3. QED
    BY <1>1, <1>4, <1>12, <2>1, <2>2
    DEF table, Kept, StartsRecorded, LinkedIsUnpaid, PaidIsKept,
        PaysDebt, PaidBy, Promised, RunIsActive
<1>13. QED
  BY <1>9, <1>10, <1>11, <1>12 DEF RecordTick

LEMMA SettleAllKeeps ==
  ASSUME LedgerInv, LedgerInv', Kept, SettleAll
  PROVE  Kept'
<1>1. UNCHANGED <<now, task, table, baseline>> /\ owed' = Settled(owed) /\ Waives
  BY DEF SettleAll
<1>2. UNCHANGED <<now, cron, enabled, paidAt, paidEnd>>
  BY <1>1 DEF task, table
<1>3. CASE cron \in Broken
  BY <1>2, <1>3 DEF Kept
<1>4. CASE cron \notin Broken
  <2>1. /\ Settled(owed).status # "none" /\ PaysDebt(Settled(owed)) =>
             Settled(owed).status = "blocked" /\ Settled(owed) = owed
        /\ Settled(owed).status = "none" =>
             owed.status = "none" \/ PaysDebt(owed) \/ owed.run = "cancelled"
        /\ Settled(owed).status = "dispatched" => Settled(owed) = owed
    BY <1>4, SettledIsUnpaid DEF Kept
  <2>2. ASSUME owed'.status = "none" PROVE \A o \in Promised' : PaidBy(o)
    <3>1. CASE owed.run = "cancelled"
      <4>1. CancelSettles
        BY <1>4, <2>2, <3>1 DEF LedgerInv, RowInv, Sound, CancelSettles
      <4>2. baseline # Never
        BY <1>4, <4>1 DEF LedgerInv, RowInv, Accounted, CancelSettles
      <4>3. since' = baseline'
        BY <1>1, <1>4, <4>1, <4>2, BaseIsTime
        DEF Waives, Later, Base, LedgerInv, Typed
      <4>4. QED
        BY <4>3, WaivedOwesNothing DEF LedgerInv, Typed
    <3>2. CASE owed.run # "cancelled"
      <4>1. owed.status = "none" \/ PaysDebt(owed)
        BY <1>1, <2>1, <2>2, <3>2
      <4>2. since' = since
        BY <1>1, <3>2 DEF Waives, CancelSettles
      <4>3. Promised' = Promised
        BY <1>1, <1>2, <4>2 DEF Promised
      <4>4. QED
        BY <1>4, <4>1, <4>3 DEF Kept, PaidIsKept
    <3>3. QED
      BY <3>1, <3>2
  <2>3. ASSUME owed'.status # "none", PaysDebt(owed') PROVE \A o \in Promised' : PaidBy(o)
    BY <1>1, <1>4, <2>1, <2>3, PaidBlockedKeeps DEF Swallows
  <2>4. QED
    BY <1>1, <1>4, <2>1, <2>2, <2>3, RowMoves
<1>5. QED
  BY <1>3, <1>4
-----------------------------------------------------------------------------
(* Runs.                                                                   *)

LEMMA Times ==
  ASSUME LedgerInv, Chronicle
  PROVE  /\ now \in Nat /\ run.start \in Maybe /\ run.start <= now
         /\ paidAt \in Maybe /\ paidEnd \in Maybe /\ paidAt <= paidEnd /\ paidAt <= now
         /\ cron \in Cron /\ Fires[cron] \subseteq Nat /\ baseline \in Maybe /\ Base \in Nat
         /\ enabled \in BOOLEAN /\ since \in Nat
<1>1. /\ now \in Nat /\ run \in Run /\ paidAt \in Maybe /\ paidEnd \in Maybe
      /\ cron \in Cron /\ baseline \in Maybe /\ enabled \in BOOLEAN /\ since \in Nat
  BY DEF LedgerInv, Typed
<1>2. run.start \in Maybe
  BY <1>1 DEF Run
<1>3. Fires[cron] \subseteq Nat
  BY <1>1, LedgerAssumption DEF LedgerAssumption
<1>4. paidAt <= now
  BY <1>1 DEF Chronicle
<1>5. QED
  BY <1>1, <1>2, <1>3, <1>4, BaseIsTime DEF Chronicle

\* A run starts with every occurrence up to the clock accounted for.
LEMMA StartsAreRecorded ==
  ASSUME LedgerInv, Chronicle, cron \notin Broken, Recorded,
         UNCHANGED <<now, cron, enabled, baseline, paidAt>>, run'.start = now,
         lastStart' = now, lastEnd' = Never
  PROVE  StartsRecorded'
<1>1. SUFFICES ASSUME enabled, NEW o \in Fires[cron], o > Base'
               PROVE  o > run'.start /\ o > paidAt
  BY DEF StartsRecorded
<1>2. o \in Nat /\ now \in Nat /\ paidAt \in Int /\ paidAt <= now
  BY Times
<1>3. o > now
  <2>1. CASE baseline = Never
    <3>1. Base' = now
      BY <1>2, <2>1 DEF Base, DeriveBaseline
    <3>2. QED
      BY <1>1, <3>1
  <2>2. CASE baseline # Never
    <3>1. Base' = Base
      BY <2>2 DEF Base
    <3>2. First # Never /\ First <= o /\ First \in Nat
      BY <1>1, <3>1, Times, NextIsLeast, NextIsNext DEF First
    <3>3. ~ (First <= now)
      BY <1>1, <3>2 DEF Recorded, FoldsOne
    <3>4. QED
      BY <1>2, <3>2, <3>3
  <2>3. QED
    BY <2>1, <2>2
<1>4. QED
  BY <1>2, <1>3

\* A run ends with its success on record, or with none.
LEMMA EndsAreRecorded ==
  ASSUME LedgerInv, Chronicle, StartsRecorded, RunIsActive,
         UNCHANGED <<now, cron, enabled, baseline, lastStart>>,
         run' = NoRun, lastEnd' = now, paidAt' \in {paidAt, run.start}
  PROVE  StartsRecorded'
<1>1. SUFFICES ASSUME enabled, NEW o \in Fires[cron], o > Base'
               PROVE  o > run'.start /\ o > paidAt'
  BY DEF StartsRecorded
<1>2. /\ o \in Nat /\ now \in Nat /\ paidAt \in Int /\ run.start \in Int
      /\ paidAt <= now /\ run.start <= now
  BY Times
<1>3. run'.start = -1
  BY DEF NoRun
<1>4. CASE baseline = Never
  <2>1. Base' = now
    BY <1>2, <1>4 DEF Base, DeriveBaseline, Chronicle
  <2>2. QED
    BY <1>1, <1>2, <1>3, <2>1
<1>5. CASE baseline # Never
  <2>1. Base' = Base
    BY <1>5 DEF Base
  <2>2. o > run.start /\ o > paidAt
    BY <1>1, <2>1 DEF StartsRecorded
  <2>3. QED
    BY <1>2, <1>3, <2>2
<1>6. QED
  BY <1>4, <1>5

\* A dispatched row that settling leaves alone waits for its run.
LEMMA LinkedWaits ==
  ASSUME LedgerInv, owed.status = "dispatched", Settled(owed) = owed
  PROVE  owed.run = "active"
<1>1. SUFFICES ASSUME owed.run # "active" PROVE FALSE
  OBVIOUS
<1>2. owed \in Row /\ owed.run \in Verdict /\ owed = Outcome(owed, owed.run)
  BY <1>1 DEF LedgerInv, RowInv, Sound, Row, Settled
<1>3. QED
  BY <1>2, OutcomeUnlinks

LEMMA DispatchKeeps ==
  ASSUME LedgerInv, Chronicle, Kept, Dispatch, ~ Outpaces
  PROVE  Kept'
<1> DEFINE e == [owed EXCEPT !.status = "dispatched", !.run = "active", !.retry = Never]
<1>1. owed \in Row
  BY DEF LedgerInv, RowInv, Sound
<1>2. /\ UNCHANGED <<now, cron, enabled, baseline, paidAt, paidEnd>>
      /\ run'.start = now /\ run'.state = "pending" /\ lastStart' = now /\ lastEnd' = Never
      /\ run.state = "none"
  BY DEF Dispatch, NewRun, task, RunIsActive
<1>3. Recorded /\ Settled(owed) = owed
  BY <1>2 DEF Outpaces
<1>4. owed.status \in {"due", "retry"} /\ owed' \in {e, owed} /\ owed \in Row
  BY <1>1, <1>3 DEF Dispatch, Startable
<1>5. SUFFICES ASSUME cron \notin Broken PROVE Kept'
  BY <1>2 DEF Kept
<1>6. e.due = owed.due /\ e.status = "dispatched" /\ e.run = "active"
  BY <1>4 DEF Row
<1>7. ~ PaysDebt(owed)
  BY <1>3, <1>4, <1>5, SettledIsUnpaid DEF Kept
<1>8. ~ PaysDebt(owed)'
  BY <1>2, <1>4, <1>6, <1>7 DEF PaysDebt
<1>9. StartsRecorded'
  BY <1>2, <1>3, <1>5, StartsAreRecorded
<1>10. LinkedIsUnpaid' /\ PaidIsKept'
  BY <1>4, <1>6, <1>8 DEF LinkedIsUnpaid, PaidIsKept
<1>11. QED
  BY <1>9, <1>10 DEF Kept

\* A run that an operator starts, or that begins, pays nothing yet.
LEMMA RunStartKeeps ==
  ASSUME LedgerInv, Chronicle, Kept, ManualRun \/ RunBegins, ~ Outpaces
  PROVE  Kept'
<1>1. /\ UNCHANGED <<now, cron, enabled, baseline, paidAt, paidEnd, owed, since>>
      /\ run'.start = now /\ lastStart' = now /\ lastEnd' = Never
      /\ run'.state \in {"pending", "running"} /\ run'.state # run.state
  <2>1. CASE ManualRun
    BY <2>1 DEF ManualRun, NewRun, task, marks, RunIsActive
  <2>2. CASE RunBegins
    <3>1. run'.state = "running" /\ run'.start = now
      BY <2>2 DEF RunBegins, LedgerInv, Typed, Run
    <3>2. QED
      BY <2>2, <3>1 DEF RunBegins, task, marks, Chronicle, RunIsActive
  <2>3. QED
    BY <2>1, <2>2
<1>2. CASE cron \in Broken
  BY <1>1, <1>2 DEF Kept
<1>3. CASE cron \notin Broken
  <2>1. Recorded /\ Settled(owed) = owed
    BY <1>1 DEF Outpaces
  <2>2. StartsRecorded'
    BY <1>1, <1>3, <2>1, StartsAreRecorded
  <2>3. PaysDebt(owed)' <=> PaysDebt(owed)
    BY <1>1 DEF PaysDebt
  <2>4. owed.status = "dispatched" => owed.run = "active"
    BY <2>1, LinkedWaits
  <2>5. LinkedIsUnpaid'
    BY <1>1, <1>3, <2>3, <2>4 DEF Kept, LinkedIsUnpaid
  <2>6. PaidIsKept'
    BY <1>1, <1>3, <2>3 DEF Kept, PaidIsKept, Promised, PaidBy
  <2>7. QED
    BY <2>2, <2>5, <2>6 DEF Kept
<1>4. QED
  BY <1>2, <1>3

\* A run that ends without a success, wherever that is noticed.
LEMMA EndKeeps ==
  ASSUME LedgerInv, Chronicle, Kept, RunIsActive,
         UNCHANGED <<now, cron, enabled, baseline, since, paidAt, paidEnd, lastStart>>,
         run' = NoRun, lastEnd' = now, NEW v \in Verdict \ {"success"},
         owed' = IF owed.run = "active" THEN [owed EXCEPT !.run = v] ELSE owed
  PROVE  Kept'
<1>1. CASE cron \in Broken
  BY <1>1 DEF Kept
<1>2. CASE cron \notin Broken
  <2>1. StartsRecorded'
    BY <1>2, EndsAreRecorded DEF Kept
  <2>2. owed \in Row
    BY DEF LedgerInv, RowInv, Sound
  <2>3. /\ owed'.due = owed.due /\ owed'.status = owed.status
        /\ owed'.run \in {owed.run, v}
    BY <2>2 DEF Row
  <2>4. PaysDebt(owed)' <=> PaysDebt(owed)
    BY <2>3 DEF PaysDebt
  <2>5. run'.state = "none" /\ ~ RunIsActive'
    BY DEF NoRun, RunIsActive
  <2>6. LinkedIsUnpaid'
    BY <1>2, <2>3, <2>4, <2>5 DEF Kept, LinkedIsUnpaid
  <2>7. PaidIsKept'
    BY <1>2, <2>3, <2>4 DEF Kept, PaidIsKept, Promised, PaidBy
  <2>8. QED
    BY <2>1, <2>6, <2>7 DEF Kept
<1>3. QED
  BY <1>1, <1>2

\* The commit that ends a run, with the obligation it was dispatched for.
LEMMA TerminalKeeps ==
  ASSUME LedgerInv, LedgerInv', Chronicle, Kept, NEW v \in Verdict, Terminal(v)
  PROVE  Kept'
<1>1. /\ UNCHANGED <<now, cron, enabled, baseline, lastStart>>
      /\ run' = NoRun /\ lastEnd' = now /\ run.state = "running" /\ RunIsActive
      /\ v # "permanent"
  BY DEF Terminal, RunEnds, task, RunIsActive
<1>2. run'.state = "none" /\ ~ RunIsActive'
  BY <1>1 DEF NoRun, RunIsActive
<1>3. CASE cron \in Broken
  BY <1>1, <1>3 DEF Kept
<1>4. CASE cron \notin Broken
  <2>1. StartsRecorded'
    <3>1. paidAt' \in {paidAt, run.start}
      BY DEF Terminal, RunEnds
    <3>2. QED
      BY <1>1, <1>4, <3>1, EndsAreRecorded DEF Kept
  <2>3. owed.status = "dispatched" <=> owed.run = "active"
    BY <1>1, <1>4 DEF Kept, LinkedIsUnpaid, LedgerInv, RowInv, Sound
  <2>4. owed \in Row
    BY DEF LedgerInv, RowInv, Sound
  <2>5. CASE v = "success"
    <3>1. owed' = IF owed.run = "active" THEN Finish(owed) ELSE owed
      BY <2>5 DEF Terminal, Outcome
    <3>2. Finish(owed).status \in {"none", "due"}
      BY NoRowIsSound DEF Finish, Owe, NoRow
    <3>3. owed'.status # "dispatched"
      BY <2>3, <3>1, <3>2
    <3>4. paidEnd' = now'
      BY <1>1, <2>5 DEF Terminal, RunEnds
    <3>5. \A o \in Promised' : PaidBy(o)'
      BY <3>4, PaidNow
    <3>6. LinkedIsUnpaid' /\ PaidIsKept'
      BY <3>3, <3>5 DEF LinkedIsUnpaid, PaidIsKept
    <3>7. QED
      BY <2>1, <3>6 DEF Kept
  <2>6. CASE v # "success" /\ owed.run # "active"
    <3>1. UNCHANGED <<owed, since, paidAt, paidEnd>>
      BY <2>6 DEF Terminal, RunEnds
    <3>2. PaysDebt(owed)' <=> PaysDebt(owed)
      BY <3>1 DEF PaysDebt
    <3>3. LinkedIsUnpaid'
      BY <2>3, <2>6, <3>1 DEF LinkedIsUnpaid
    <3>4. PaidIsKept'
      BY <1>1, <1>4, <3>1, <3>2 DEF Kept, PaidIsKept, Promised, PaidBy
    <3>5. QED
      BY <2>1, <3>3, <3>4 DEF Kept
  <2>7. CASE v = "cancelled" /\ owed.run = "active"
    <3>1. owed' = NoRow
      BY <2>7 DEF Terminal, Outcome
    <3>2. baseline # Never
      BY <1>4, <2>3, <2>7 DEF LedgerInv, RowInv, Accounted
    <3>3. since' = baseline'
      BY <1>1, <1>4, <2>7, <3>2, BaseIsTime DEF Terminal, Later, Base, LedgerInv, Typed
    <3>4. Promised' = {}
      BY <3>3, WaivedOwesNothing DEF LedgerInv, Typed
    <3>5. LinkedIsUnpaid' /\ PaidIsKept'
      BY <3>1, <3>4, NoRowIsSound DEF LinkedIsUnpaid, PaidIsKept
    <3>6. QED
      BY <2>1, <3>5 DEF Kept
  <2>8. CASE v \in {"plain", "infra"} /\ owed.run = "active"
    <3>1. owed' = Outcome(owed, v) /\ UNCHANGED <<paidAt, paidEnd>>
      BY <2>8 DEF Terminal, RunEnds
    <3>2. /\ owed'.due = owed.due
          /\ owed'.status \notin {"none", "dispatched"}
      BY <2>4, <2>8, <3>1 DEF Outcome, Row
    <3>3. ~ PaysDebt(owed)
      BY <1>4, <2>3, <2>8 DEF Kept, LinkedIsUnpaid
    <3>4. ~ PaysDebt(owed)'
      BY <3>1, <3>2, <3>3 DEF PaysDebt
    <3>5. LinkedIsUnpaid' /\ PaidIsKept'
      BY <3>2, <3>4 DEF LinkedIsUnpaid, PaidIsKept
    <3>6. QED
      BY <2>1, <3>5 DEF Kept
  <2>9. QED
    BY <1>1, <2>5, <2>6, <2>7, <2>8 DEF Verdict
<1>5. QED
  BY <1>3, <1>4
-----------------------------------------------------------------------------
(* Edits, restarts and time.                                               *)

LEMMA EditScheduleKeeps ==
  ASSUME LedgerInv, LedgerInv', Chronicle, NEW c \in Cron, NEW e \in BOOLEAN,
         EditSchedule(c, e)
  PROVE  Kept'
<1>1. /\ owed' = NoRow /\ baseline' = now /\ since' = now
      /\ UNCHANGED <<now, run, paidAt>>
  BY DEF EditSchedule, EditedRow, NewEpoch, table
<1>2. now \in Nat /\ Base' = now
  BY <1>1 DEF LedgerInv, Typed, Base
<1>3. StartsRecorded'
  <2>1. SUFFICES ASSUME NEW o \in Fires[cron'], o > now
                 PROVE  o > run.start /\ o > paidAt
    BY <1>1, <1>2 DEF StartsRecorded
  <2>2. o \in Nat
    BY LedgerAssumption DEF LedgerInv, Typed, LedgerAssumption
  <2>3. QED
    BY <2>1, <2>2, Times
<1>4. Promised' = {}
  BY <1>1, WaivedOwesNothing DEF LedgerInv, Typed
<1>5. LinkedIsUnpaid' /\ PaidIsKept'
  BY <1>1, <1>4, NoRowIsSound DEF LinkedIsUnpaid, PaidIsKept
<1>6. QED
  BY <1>3, <1>5 DEF Kept

LEMMA EditOtherKeeps ==
  ASSUME LedgerInv, LedgerInv', Kept, EditOther
  PROVE  Kept'
<1>1. /\ UNCHANGED <<now, cron, enabled, run, paidAt, paidEnd, lastStart, lastEnd>>
      /\ owed' = EditedRow(owed, ~ enabled) /\ owed \in Row
      /\ enabled \in BOOLEAN
  BY DEF EditOther, task, table, LedgerInv, RowInv, Typed, Sound
<1>2. SUFFICES ASSUME cron \notin Broken PROVE Kept'
  BY <1>1 DEF Kept
<1>3. CASE enabled
  <2>1. UNCHANGED <<baseline, since>>
    BY <1>3 DEF EditOther, marks
  <2>2. \/ owed' = owed /\ owed.status # "blocked"
        \/ owed' = Rearm(owed) /\ owed.status # "none"
    BY <1>1, <1>3 DEF EditedRow
  <2>3. Rearm(owed).due = owed.due /\ Rearm(owed).status = "due"
    BY <1>1 DEF Rearm, Row
  <2>4. PaysDebt(owed)' <=> PaysDebt(owed)
    BY <1>1, <2>2, <2>3 DEF PaysDebt
  <2>5. Base' = Base /\ Promised' = Promised
    BY <1>1, <2>1 DEF Base, DeriveBaseline, Promised
  <2>6. StartsRecorded'
    BY <1>1, <1>2, <2>5 DEF Kept, StartsRecorded
  <2>7. LinkedIsUnpaid'
    BY <1>1, <1>2, <2>2, <2>3, <2>4 DEF Kept, LinkedIsUnpaid, RunIsActive
  <2>8. PaidIsKept'
    BY <1>1, <1>2, <2>2, <2>3, <2>4, <2>5 DEF Kept, PaidIsKept, PaidBy
  <2>9. QED
    BY <2>6, <2>7, <2>8 DEF Kept
<1>4. CASE ~ enabled
  <2>1. owed' = NoRow /\ baseline' = now /\ since' = now
    BY <1>1, <1>4 DEF EditOther, EditedRow, NewEpoch
  <2>2. Promised' = {}
    BY <2>1, WaivedOwesNothing DEF LedgerInv, Typed
  <2>3. LinkedIsUnpaid' /\ PaidIsKept'
    BY <2>1, <2>2, NoRowIsSound DEF LinkedIsUnpaid, PaidIsKept
  <2>4. StartsRecorded'
    BY <1>1, <1>4 DEF StartsRecorded
  <2>5. QED
    BY <2>3, <2>4 DEF Kept
<1>5. QED
  BY <1>3, <1>4

\* Actions that leave the row, the watermark and the runs alone.
LEMMA IdleKeeps ==
  ASSUME LedgerInv, Kept, UNCHANGED <<task, owed, baseline, table, since>>
  PROVE  Kept'
<1>1. UNCHANGED <<cron, enabled, run, paidAt, paidEnd, lastStart, lastEnd>>
  BY DEF task, table
<1>2. Base' = Base /\ Promised' = Promised
  BY <1>1 DEF Base, DeriveBaseline, Promised
<1>3. QED
  BY <1>1, <1>2
  DEF Kept, StartsRecorded, LinkedIsUnpaid, PaidIsKept, PaysDebt,
      PaidBy, RunIsActive

LEMMA ChronicleNext ==
  ASSUME LedgerInv, Chronicle, Step
  PROVE  Chronicle'
<1>1. /\ now \in Nat /\ run \in Run /\ run.start \in Maybe /\ run.start <= now
      /\ paidAt \in Maybe /\ paidEnd \in Maybe /\ paidAt <= paidEnd /\ paidEnd <= now
      /\ RunIsActive => lastStart # Never /\ lastEnd = Never
      /\ run.owned => RunIsActive
      /\ armed # {} => enabled
  BY Times DEF Chronicle, LedgerInv, Typed
<1> DEFINE SameRuns == UNCHANGED <<run, paidAt, paidEnd, lastStart, lastEnd>>
<1>2. CASE Reconcile \/ SettleAll \/ Crash \/ StartUp
  BY <1>1, <1>2
  DEF Reconcile, SettleAll, Crash, StartUp, task, table, Chronicle, RunIsActive
<1>3. ASSUME NEW o \in armed, RecordTick(o) PROVE Chronicle'
  BY <1>1, <1>3 DEF RecordTick, task, table, Chronicle, RunIsActive
<1>4. CASE Clock
  BY <1>1, <1>4 DEF Clock, task, table, Chronicle, RunIsActive
<1>5. CASE Dispatch \/ ManualRun
  <2>1. /\ UNCHANGED <<now, enabled, paidAt, paidEnd, armed>>
        /\ run'.start = now /\ lastStart' = now /\ lastEnd' = Never /\ RunIsActive'
    BY <1>5 DEF Dispatch, ManualRun, NewRun, task, RunIsActive
  <2>2. QED
    BY <1>1, <2>1 DEF Chronicle
<1>6. CASE RunBegins
  <2>1. /\ UNCHANGED <<now, enabled, paidAt, paidEnd, armed, lastEnd>>
        /\ run'.start = now /\ lastStart' = now /\ RunIsActive /\ RunIsActive'
    BY <1>1, <1>6 DEF RunBegins, task, RunIsActive, Run
  <2>2. QED
    BY <1>1, <2>1 DEF Chronicle
<1>7. ASSUME NEW v, RunEnds(v) PROVE Chronicle'
  <2>1. /\ UNCHANGED <<now, enabled, armed>>
        /\ \/ paidAt' = run.start /\ paidEnd' = now
           \/ UNCHANGED <<paidAt, paidEnd>>
        /\ run'.start = -1 /\ ~ RunIsActive' /\ ~ run'.owned
    BY <1>7 DEF RunEnds, NoRun, task, RunIsActive
  <2>2. QED
    BY <1>1, <2>1 DEF Chronicle
<1>8. CASE Watchdog
  BY <1>7, <1>8 DEF Watchdog, EndedElsewhere
<1>9. ASSUME NEW v \in Verdict, Terminal(v) \/ OwnerEnds(v) PROVE Chronicle'
  BY <1>7, <1>9 DEF Terminal, OwnerEnds, EndedElsewhere
<1>10. ASSUME NEW c \in Cron, NEW e \in BOOLEAN, EditSchedule(c, e) PROVE Chronicle'
  BY <1>1, <1>10 DEF EditSchedule, FiresAfter, table, Chronicle, RunIsActive
<1>11. CASE EditOther
  BY <1>1, <1>11 DEF EditOther, FiresAfter, task, table, Chronicle, RunIsActive
<1>12. CASE Restart
  <2>1. /\ UNCHANGED <<now, enabled, paidAt, paidEnd, lastStart>>
        /\ armed' # {} => enabled
    BY <1>12 DEF Restart, FiresAfter, task
  <2>2. \/ run'.start = -1 /\ ~ RunIsActive' /\ ~ run'.owned
        \/ UNCHANGED <<run, lastEnd>>
    BY <1>12 DEF Restart, NoRun, RunIsActive
  <2>3. QED
    BY <1>1, <2>1, <2>2 DEF Chronicle, RunIsActive
<1>13. QED
  BY <1>2, <1>3, <1>4, <1>5, <1>6, <1>8, <1>9, <1>10, <1>11, <1>12 DEF Step

LEMMA KeptStep ==
  ASSUME LedgerInv, LedgerInv', Chronicle, Kept, Step, ~ Outpaces, ~ Swallows
  PROVE  Kept'
<1>1. CASE Reconcile
  BY <1>1, ReconcileKeeps DEF Reconcile
<1>2. CASE StartUp
  BY <1>2, ReconcileKeeps DEF StartUp
<1>3. CASE SettleAll
  BY <1>3, SettleAllKeeps
<1>4. CASE Dispatch
  BY <1>4, DispatchKeeps
<1>5. CASE ManualRun \/ RunBegins
  BY <1>5, RunStartKeeps
<1>6. ASSUME NEW v \in Verdict \ {"success"}, RunIsActive, EndedElsewhere(v)
      PROVE  Kept'
  BY <1>6, EndKeeps DEF EndedElsewhere, RunEnds, task
<1>7. CASE Watchdog
  BY <1>6, <1>7 DEF Watchdog, Verdict
<1>8. ASSUME NEW v \in Verdict, OwnerEnds(v) PROVE Kept'
  <2>1. v \in Verdict \ {"success"} /\ EndedElsewhere(v) /\ run.owned
    BY <1>8 DEF OwnerEnds
  <2>2. RunIsActive
    BY <2>1 DEF Chronicle
  <2>3. QED
    BY <1>6, <2>1, <2>2
<1>9. ASSUME NEW v \in Verdict, Terminal(v) PROVE Kept'
  BY <1>9, TerminalKeeps
<1>10. ASSUME NEW o \in armed, RecordTick(o) PROVE Kept'
  BY <1>10, RecordTickKeeps
<1>11. ASSUME NEW c \in Cron, NEW e \in BOOLEAN, EditSchedule(c, e) PROVE Kept'
  BY <1>11, EditScheduleKeeps
<1>12. CASE EditOther
  BY <1>12, EditOtherKeeps
<1>13. CASE Crash \/ Clock
  BY <1>13, IdleKeeps DEF Crash, Clock, marks
<1>14. CASE Restart
  <2>1. CASE RunIsActive
    BY <1>14, <2>1, EndKeeps DEF Restart, task, marks, Verdict
  <2>2. CASE ~ RunIsActive
    BY <1>14, <2>2, IdleKeeps DEF Restart, table, marks
  <2>3. QED
    BY <2>1, <2>2
<1>15. QED
  BY <1>1, <1>2, <1>3, <1>4, <1>5, <1>7, <1>8, <1>9, <1>10, <1>11, <1>12, <1>13, <1>14
  DEF Step
-----------------------------------------------------------------------------
LEMMA PromiseNext ==
  ASSUME LedgerInv, LedgerInv', PromiseInv, [Next]_vars
  PROVE  PromiseInv'
<1>1. CASE UNCHANGED vars
  <2>1. UNCHANGED <<now, armed, task, owed, baseline, table, since, outpaced, swallowed>>
    BY <1>1 DEF vars, ledger, marks
  <2>2. Kept => Kept'
    BY <2>1, IdleKeeps
  <2>3. Chronicle'
    BY <2>1 DEF PromiseInv, Chronicle, RunIsActive, task, table
  <2>4. QED
    BY <2>1, <2>2, <2>3 DEF PromiseInv
<1>2. CASE Next
  <2>1. Step /\ outpaced' = (outpaced \/ Outpaces) /\ swallowed' = (swallowed \/ Swallows)
    BY <1>2 DEF Next
  <2>2. Chronicle'
    BY <2>1, ChronicleNext DEF PromiseInv
  <2>3. ASSUME ~ outpaced', ~ swallowed' PROVE Kept'
    BY <2>1, <2>3, KeptStep DEF PromiseInv
  <2>4. QED
    BY <2>2, <2>3 DEF PromiseInv
<1>3. QED
  BY <1>1, <1>2

\* The inductive invariant behind the promise below.
THEOREM PromiseInvariance == Spec => []PromiseInv
<1>1. Init => PromiseInv
  <2> SUFFICES ASSUME Init PROVE PromiseInv
    OBVIOUS
  <2>1. /\ run.start = -1 /\ run.state = "none" /\ ~ run.owned
        /\ paidAt = -1 /\ paidEnd = -1 /\ now = 0
        /\ baseline = -1 /\ since = 0 /\ cron \in Cron
    BY DEF Init, NoRun
  <2>2. Chronicle
    BY <2>1 DEF Init, FiresAfter, Chronicle, RunIsActive
  <2>3. Fires[cron] \subseteq Nat
    BY <2>1, LedgerAssumption DEF LedgerAssumption
  <2>4. StartsRecorded
    BY <2>1, <2>3 DEF StartsRecorded
  <2>5. PaidIsKept
    BY <2>1, <2>3 DEF PaidIsKept, Promised, UpTo
  <2>6. LinkedIsUnpaid
    BY NoRowIsSound DEF Init, LinkedIsUnpaid
  <2>7. QED
    BY <2>2, <2>4, <2>5, <2>6 DEF PromiseInv, Kept
<1>2. LedgerInv /\ LedgerInv' /\ PromiseInv /\ [Next]_vars => PromiseInv'
  BY PromiseNext
<1>3. QED
  BY <1>1, <1>2, LedgerInvariance, PTL DEF Spec

\* An occurrence that was accounted for is owed, or a success ended after it, or an
\* operator waived it: for every schedule, through crashes, failures, edits and manual
\* runs of a blocked task, as long as no run outpaced the bookkeeping and nothing went
\* into a blocked row that was paid.
THEOREM NothingIsForgotten == Spec => []NothingForgotten
<1>1. PromiseInv => NothingForgotten
  <2>1. cron \in Broken => Promised = {}
    BY DEF Promised
  <2>2. QED
    BY <2>1 DEF PromiseInv, Kept, PaidIsKept, NothingForgotten
<1>2. QED
  BY <1>1, PromiseInvariance, PTL

-----------------------------------------------------------------------------
(* No run is started in vain, as long as none outpaced the bookkeeping.     *)

\* Settling leaves a row that can be started as it was only if nothing has paid it.
LEMMA SettledIsOpen ==
  ASSUME LedgerInv, Settled(owed) = owed, owed.status \in {"due", "retry"}
  PROVE  ~ PaysDebt(owed)
<1>1. SUFFICES ASSUME PaysDebt(owed) PROVE FALSE
  OBVIOUS
<1>2. /\ owed \in Row /\ paidAt \in Maybe
      /\ owed.newer # Never => owed.newer \in Nat /\ owed.newer > owed.due
  BY DEF LedgerInv, RowInv, Typed, Sound, Row
<1> DEFINE d == IF owed.newer <= paidAt THEN [owed EXCEPT !.newer = Never] ELSE owed
<1>3. owed = Finish(d) /\ d.newer \in {owed.newer, Never}
  BY <1>1, <1>2 DEF Settled, Row
<1>4. CASE d.newer = Never
  BY <1>3, <1>4, NoRowIsSound DEF Finish
<1>5. CASE d.newer # Never
  <2>1. owed = Owe(owed.newer) /\ owed.newer \in Nat /\ owed.newer > owed.due
    BY <1>2, <1>3, <1>5 DEF Finish
  <2>2. owed.due = owed.newer
    BY <2>1, OweIsSound
  <2>3. QED
    BY <2>1, <2>2
<1>6. QED
  BY <1>4, <1>5

\* Folding an occurrence links nothing.
LEMMA ReconciledLinks ==
  ASSUME LedgerInv, cron \notin Broken, owed.status # "dispatched"
  PROVE  Reconciled \in Row /\ Reconciled.status # "dispatched"
<1> DEFINE d == Settled(owed)
<1>1. d \in Row /\ d.status # "dispatched"
  BY SettledIsSound DEF LedgerInv, RowInv, Typed, Sound
<1>2. Reconciled \in Row
  BY ReconciledStays DEF Sound
<1>3. Rearm(d).status = "due"
  BY <1>1 DEF Rearm, Row
<1>4. Owe(First).status = "due"
  BY DEF Owe, NoRow
<1>5. \A f, l : Noted(d, f, l).status = d.status
  BY <1>1 DEF Noted, Row
<1>6. QED
  BY <1>1, <1>2, <1>3, <1>4, <1>5 DEF Reconciled, Folded

\* Only a dispatch links the row, and it starts nothing that is already paid.
LEMMA DispatchIsNeeded ==
  ASSUME LedgerInv, Next, ~ outpaced',
         owed.status # "dispatched", owed'.status = "dispatched"
  PROVE  paidAt = Never \/ paidAt < owed'.due
<1>1. Step /\ ~ Outpaces
  BY DEF Next
<1>2. owed \in Row /\ Sound(owed) /\ paidAt \in Maybe /\ now \in Nat
  BY DEF LedgerInv, RowInv, Typed, Sound
<1>3. Settled(owed).status # "dispatched"
  BY <1>2, SettledIsSound
<1>4. CASE Dispatch
  <2> DEFINE e == [owed EXCEPT !.status = "dispatched", !.run = "active", !.retry = Never]
  <2>1. run'.state = "pending" /\ run.state = "none"
    BY <1>4 DEF Dispatch, NewRun, RunIsActive
  <2>2. Settled(owed) = owed
    BY <1>1, <2>1 DEF Outpaces
  <2>3. owed' \in {e, owed} /\ owed.status \in {"due", "retry"}
    BY <1>4, <2>2 DEF Dispatch, Startable
  <2>4. owed'.due = owed.due
    BY <1>2, <2>3 DEF Row
  <2>5. ~ PaysDebt(owed)
    BY <2>2, <2>3, SettledIsOpen
  <2>6. QED
    BY <1>2, <2>4, <2>5 DEF PaysDebt, Row
<1>5. ASSUME ReconcileTask PROVE FALSE
  BY <1>5, BrokenRowIsSound, ReconciledLinks DEF ReconcileTask
<1>6. Reconcile \/ StartUp => FALSE
  BY <1>5 DEF Reconcile, StartUp
<1>7. ASSUME NEW o \in armed, RecordTick(o) PROVE FALSE
  <2>1. Reconciled \in Row /\ Reconciled.status # "dispatched"
    BY ReconciledLinks DEF LedgerInv, ArmedIsAhead
  <2>2. Owe(now).status # "dispatched"
    BY <1>2, OweIsSound
  <2>3. Noted(Reconciled, Upcoming, Upcoming).status = Reconciled.status
    BY <2>1 DEF Noted, Row
  <2>4. QED
    BY <1>7, <2>1, <2>2, <2>3 DEF RecordTick
<1>8. SettleAll => FALSE
  BY <1>3 DEF SettleAll
<1>9. ASSUME NEW v \in Verdict, Terminal(v) PROVE FALSE
  BY <1>2, <1>9, OutcomeUnlinks DEF Terminal
<1>10. [owed EXCEPT !.run = "infra"].status = owed.status
       /\ \A v : [owed EXCEPT !.run = v].status = owed.status
  BY <1>2 DEF Row
<1>11. ASSUME NEW v, EndedElsewhere(v) PROVE FALSE
  BY <1>10, <1>11 DEF EndedElsewhere
<1>12. Watchdog \/ (\E v \in Verdict : OwnerEnds(v)) => FALSE
  BY <1>11 DEF Watchdog, OwnerEnds
<1>13. (\E c \in Cron, e \in BOOLEAN : EditSchedule(c, e)) => FALSE
  BY NoRowIsSound DEF EditSchedule, EditedRow
<1>14. EditOther => FALSE
  <2>1. Rearm(owed).status = "due"
    BY <1>2 DEF Rearm, Row
  <2>2. QED
    BY <2>1, NoRowIsSound DEF EditOther, EditedRow
<1>15. Restart => FALSE
  BY <1>10 DEF Restart
<1>16. ManualRun \/ RunBegins \/ Crash \/ Clock => FALSE
  BY DEF ManualRun, RunBegins, Crash, Clock
<1>17. QED
  BY <1>1, <1>4, <1>6, <1>7, <1>8, <1>9, <1>12, <1>13, <1>14, <1>15, <1>16 DEF Step

\* No run is started for an obligation that a success has already paid: for every
\* schedule, one that does not parse included, whatever was edited before.
THEOREM NoRunInVain == Spec => NoNeedlessRun
<1>1. LedgerInv /\ [Next]_vars
        => [~ outpaced' /\ owed.status # "dispatched" /\ owed'.status = "dispatched"
              => paidAt = Never \/ paidAt < owed'.due]_vars
  BY DispatchIsNeeded
<1>2. QED
  BY <1>1, LedgerInvariance, PTL DEF Spec, NoNeedlessRun
=============================================================================
