------------------------ MODULE ExpiringStore_proofs ------------------------
(* What every operation on the bounded store keeps, for any cap, any        *)
(* retention and any entries: first for one tier, then for the store.       *)
EXTENDS ExpiringStore, SequenceTheorems, WellFoundedInduction, TLAPS

Within(tier) == {tier[i] : i \in DOMAIN tier}
Apart(tier)  == \A i, j \in DOMAIN tier : tier[i].key = tier[j].key => i = j

\* The entries are any records with a key and an instant of expiry.
Timed(E) == \A e \in E : e.exp \in Int
Tiers(E) == [plain : Seq(E), guarded : Seq(E)]
-----------------------------------------------------------------------------
(* One tier.                                                               *)

Below == {p \in Nat \X Nat : p[1] < p[2]}

LEMMA BelowIsWellFounded == IsWellFoundedOn(Below, Nat)
BY NatLessThanWellFounded DEF Below, OpToRel

LEMMA LeastIndex ==
  ASSUME NEW S, S \subseteq Nat, S # {}
  PROVE  \E m \in S : \A n \in S : m <= n
<1>1. PICK m \in S : \A n \in S : ~ (<<n, m>> \in Below)
  BY BelowIsWellFounded, WFMin, Zenon
<1>2. ASSUME NEW n \in S PROVE m <= n
  <2>1. m \in Nat /\ n \in Nat /\ <<n, m>> \notin Below
    BY <1>1
  <2>2. QED
    BY <2>1 DEF Below
<1>3. QED
  BY <1>2

\* The sweep drops a prefix of expired entries and keeps the rest in its order.
LEMMA SweepTierIs ==
  ASSUME NEW E, Timed(E), NEW tier \in Seq(E), NEW now \in Int
  PROVE  \E k \in 0..Len(tier) :
           /\ SweepTier(tier, now) \in Seq(E)
           /\ Len(SweepTier(tier, now)) = Len(tier) - k
           /\ \A i \in 1..(Len(tier) - k) : SweepTier(tier, now)[i] = tier[i + k]
           /\ \A i \in 1..k : tier[i].exp <= now
<1>0. /\ Len(tier) \in Nat /\ DOMAIN tier = 1..Len(tier)
      /\ \A i \in DOMAIN tier : tier[i] \in E /\ tier[i].exp \in Int
  BY DEF Timed
<1>1. CASE Live(tier, now) = {}
  <2>1. SweepTier(tier, now) = <<>>
    BY <1>1 DEF SweepTier
  <2>2. \A i \in 1..Len(tier) : tier[i].exp <= now
    BY <1>0, <1>1 DEF Live
  <2>3. WITNESS Len(tier) \in 0..Len(tier)
  <2>4. QED
    BY <1>0, <2>1, <2>2
<1>2. CASE Live(tier, now) # {}
  <2> DEFINE first == CHOOSE i \in Live(tier, now) : \A j \in Live(tier, now) : i <= j
  <2>1. Live(tier, now) \subseteq Nat
    BY <1>0 DEF Live
  <2>2. first \in Live(tier, now) /\ \A j \in Live(tier, now) : first <= j
    BY <1>2, <2>1, LeastIndex
  <2>3. first \in 1..Len(tier)
    BY <1>0, <2>2 DEF Live
  <2>4. SweepTier(tier, now) = SubSeq(tier, first, Len(tier))
    BY <1>2 DEF SweepTier
  <2> HIDE DEF first
  <2>5. ASSUME NEW i \in 1..(first - 1) PROVE tier[i].exp <= now
    <3>1. i \in DOMAIN tier /\ ~(first <= i) /\ tier[i].exp \in Int
      BY <1>0, <2>3
    <3>2. ~(tier[i].exp > now)
      BY <2>2, <3>1 DEF Live
    <3>3. QED
      BY <3>1, <3>2
  <2>6. \A i \in first..Len(tier) : tier[i] \in E
    BY <1>0, <2>3
  <2>7. /\ SweepTier(tier, now) \in Seq(E)
        /\ Len(SweepTier(tier, now)) = Len(tier) - first + 1
        /\ \A i \in 1..(Len(tier) - first + 1) :
             SweepTier(tier, now)[i] = tier[first + i - 1]
    BY <1>0, <2>3, <2>4, <2>6, SubSeqProperties
  <2>8. first - 1 \in 0..Len(tier)
    BY <1>0, <2>3
  <2>9. WITNESS first - 1 \in 0..Len(tier)
  <2>10. QED
    BY <1>0, <2>3, <2>5, <2>7
<1>3. QED
  BY <1>1, <1>2

LEMMA SweptTier ==
  ASSUME NEW E, Timed(E), NEW tier \in Seq(E), NEW now \in Int
  PROVE  LET swept == SweepTier(tier, now) IN
         /\ swept \in Seq(E) /\ Len(swept) <= Len(tier)
         /\ Within(swept) \subseteq Within(tier)
         /\ \A e \in Within(tier) : e.exp > now => e \in Within(swept)
         /\ Apart(tier) => Apart(swept)
         /\ Len(swept) = Len(tier) => swept = tier
<1> DEFINE swept == SweepTier(tier, now)
<1>1. PICK k \in 0..Len(tier) :
        /\ swept \in Seq(E)
        /\ Len(swept) = Len(tier) - k
        /\ \A i \in 1..(Len(tier) - k) : swept[i] = tier[i + k]
        /\ \A i \in 1..k : tier[i].exp <= now
  BY SweepTierIs
<1> HIDE DEF swept
<1>2. /\ Len(tier) \in Nat /\ DOMAIN tier = 1..Len(tier)
      /\ DOMAIN swept = 1..(Len(tier) - k)
  BY <1>1
<1>3. \A i \in DOMAIN swept : i + k \in DOMAIN tier /\ swept[i] = tier[i + k]
  <2>1. ASSUME NEW n \in Nat, NEW i \in 1..(n - k) PROVE i + k \in 1..n
    OBVIOUS
  <2>2. QED
    BY <1>1, <1>2, <2>1
<1>4. Within(swept) \subseteq Within(tier)
  BY <1>3 DEF Within
<1>5. ASSUME NEW e \in Within(tier), e.exp > now
      PROVE  e \in Within(swept)
  <2>1. PICK i \in 1..Len(tier) : e = tier[i]
    BY <1>2 DEF Within
  <2>2. i > k
    <3>1. tier[i].exp \in Int
      BY DEF Timed
    <3>2. QED
      BY <1>1, <1>2, <1>5, <2>1, <3>1
  <2>3. i - k \in DOMAIN swept /\ swept[i - k] = tier[i]
    BY <1>1, <1>2, <2>2
  <2>4. QED
    BY <2>1, <2>3 DEF Within
<1>6. Apart(tier) => Apart(swept)
  <2>1. SUFFICES ASSUME Apart(tier), NEW i \in DOMAIN swept, NEW j \in DOMAIN swept,
                        swept[i].key = swept[j].key
                 PROVE  i = j
    BY DEF Apart
  <2>2. i + k \in DOMAIN tier /\ j + k \in DOMAIN tier /\ tier[i + k].key = tier[j + k].key
    BY <1>3, <2>1, Zenon
  <2>3. i + k = j + k
    BY <2>1, <2>2 DEF Apart
  <2>4. QED
    BY <1>2, <2>3
<1>7. Len(swept) = Len(tier) => swept = tier
  <2>1. SUFFICES ASSUME Len(swept) = Len(tier) PROVE swept = tier
    OBVIOUS
  <2>2. k = 0
    BY <1>1, <1>2, <2>1
  <2>3. \A i \in 1..Len(tier) : swept[i] = tier[i]
    BY <1>1, <1>2, <2>2
  <2>4. QED
    BY <1>1, <1>2, <2>1, <2>3, SeqEqual
<1>8. QED
  BY <1>1, <1>2, <1>4, <1>5, <1>6, <1>7 DEF swept

\* Taking a key out removes its one entry and closes the gap.
LEMMA TierWithout ==
  ASSUME NEW E, NEW tier \in Seq(E), Apart(tier), NEW key
  PROVE  LET rest == Without(tier, key) IN
         /\ rest \in Seq(E) /\ Len(rest) <= Len(tier)
         /\ Within(rest) = {e \in Within(tier) : e.key # key}
         /\ Apart(rest)
         /\ IF Holds(tier, key) THEN Len(rest) < Len(tier) ELSE rest = tier
<1> DEFINE rest == Without(tier, key)
<1>1. Len(tier) \in Nat /\ DOMAIN tier = 1..Len(tier)
  OBVIOUS
<1>2. CASE ~Holds(tier, key)
  <2>1. rest = tier
    BY <1>2 DEF Without
  <2>2. \A e \in Within(tier) : e.key # key
    BY <1>2 DEF Within, Holds
  <2>3. QED
    BY <1>1, <1>2, <2>1, <2>2
<1>3. CASE Holds(tier, key)
  <2> DEFINE p == Position(tier, key)
  <2>1. p \in DOMAIN tier /\ tier[p].key = key
    BY <1>3 DEF Holds, Position
  <2>2. \A i \in DOMAIN tier : tier[i].key = key => i = p
    BY <2>1 DEF Apart
  <2>3. rest = SubSeq(tier, 1, p - 1) \o SubSeq(tier, p + 1, Len(tier))
    BY <1>3 DEF Without, RemoveAt
  <2> HIDE DEF p, rest
  <2>4. p \in 1..Len(tier)
    BY <1>1, <2>1
  <2>5. /\ SubSeq(tier, 1, p - 1) \in Seq(E) /\ Len(SubSeq(tier, 1, p - 1)) = p - 1
        /\ \A i \in 1..(p - 1) : SubSeq(tier, 1, p - 1)[i] = tier[i]
    <3>1. 1 \in Int /\ p - 1 \in Int /\ \A i \in 1..(p - 1) : tier[i] \in E
      BY <1>1, <2>4
    <3>2. /\ SubSeq(tier, 1, p - 1) \in Seq(E)
          /\ Len(SubSeq(tier, 1, p - 1)) = IF 1 <= p - 1 THEN (p - 1) - 1 + 1 ELSE 0
          /\ \A i \in 1..((p - 1) - 1 + 1) : SubSeq(tier, 1, p - 1)[i] = tier[1 + i - 1]
      BY <3>1, SubSeqProperties
    <3>3. QED
      BY <1>1, <2>4, <3>2
  <2>6. /\ SubSeq(tier, p + 1, Len(tier)) \in Seq(E)
        /\ Len(SubSeq(tier, p + 1, Len(tier))) = Len(tier) - p
        /\ \A i \in 1..(Len(tier) - p) : SubSeq(tier, p + 1, Len(tier))[i] = tier[p + i]
    <3>1. p + 1 \in Int /\ Len(tier) \in Int /\ \A i \in (p + 1)..Len(tier) : tier[i] \in E
      BY <1>1, <2>4
    <3>2. /\ SubSeq(tier, p + 1, Len(tier)) \in Seq(E)
          /\ Len(SubSeq(tier, p + 1, Len(tier))) =
               IF p + 1 <= Len(tier) THEN Len(tier) - (p + 1) + 1 ELSE 0
          /\ \A i \in 1..(Len(tier) - (p + 1) + 1) :
               SubSeq(tier, p + 1, Len(tier))[i] = tier[(p + 1) + i - 1]
      BY <3>1, SubSeqProperties
    <3>3. QED
      BY <1>1, <2>4, <3>2
  <2>7. /\ rest \in Seq(E) /\ Len(rest) = Len(tier) - 1
        /\ \A j \in 1..(Len(tier) - 1) : rest[j] = tier[IF j < p THEN j ELSE j + 1]
    <3>1. /\ rest \in Seq(E)
          /\ Len(rest) = (p - 1) + (Len(tier) - p)
          /\ \A j \in 1..((p - 1) + (Len(tier) - p)) :
               rest[j] = IF j <= p - 1 THEN SubSeq(tier, 1, p - 1)[j]
                         ELSE SubSeq(tier, p + 1, Len(tier))[j - (p - 1)]
      BY <2>3, <2>5, <2>6, ConcatProperties, SMTT(30)
    <3>2. Len(rest) = Len(tier) - 1
      BY <1>1, <2>4, <3>1
    <3>3. ASSUME NEW j \in 1..(Len(tier) - 1)
          PROVE  rest[j] = tier[IF j < p THEN j ELSE j + 1]
      <4>1. CASE j < p
        BY <1>1, <2>4, <2>5, <3>1, <4>1
      <4>2. CASE ~(j < p)
        <5>1. j - (p - 1) \in 1..(Len(tier) - p) /\ p + (j - (p - 1)) = j + 1
          BY <1>1, <2>4, <4>2
        <5>2. rest[j] = SubSeq(tier, p + 1, Len(tier))[j - (p - 1)]
          BY <1>1, <2>4, <3>1, <4>2
        <5>3. QED
          BY <2>6, <4>2, <5>1, <5>2
      <4>3. QED
        BY <4>1, <4>2
    <3>4. QED
      BY <3>1, <3>2, <3>3
  <2>8. DOMAIN rest = 1..(Len(tier) - 1)
    BY <1>1, <2>7
  <2>9. Within(rest) \subseteq {e \in Within(tier) : e.key # key}
    <3>1. SUFFICES ASSUME NEW j \in DOMAIN rest
                   PROVE  rest[j] \in Within(tier) /\ rest[j].key # key
      BY DEF Within
    <3> DEFINE i == IF j < p THEN j ELSE j + 1
    <3>2. i \in DOMAIN tier /\ i # p /\ rest[j] = tier[i]
      BY <1>1, <2>4, <2>7, <2>8
    <3>3. QED
      BY <2>2, <3>2 DEF Within
  <2>10. {e \in Within(tier) : e.key # key} \subseteq Within(rest)
    <3>1. SUFFICES ASSUME NEW i \in DOMAIN tier, tier[i].key # key
                   PROVE  tier[i] \in Within(rest)
      BY DEF Within
    <3>2. i \in 1..Len(tier) /\ i # p
      BY <1>1, <2>1, <3>1
    <3> DEFINE j == IF i < p THEN i ELSE i - 1
    <3>3. j \in DOMAIN rest /\ i = IF j < p THEN j ELSE j + 1
      BY <1>1, <2>4, <2>8, <3>2
    <3>4. rest[j] = tier[i]
      BY <2>7, <2>8, <3>3
    <3>5. QED
      BY <3>3, <3>4 DEF Within
  <2>11. Apart(rest)
    <3>1. SUFFICES ASSUME NEW i \in DOMAIN rest, NEW j \in DOMAIN rest,
                          rest[i].key = rest[j].key
                   PROVE  i = j
      BY DEF Apart
    <3> DEFINE a == IF i < p THEN i ELSE i + 1
               b == IF j < p THEN j ELSE j + 1
    <3>2. a \in DOMAIN tier /\ b \in DOMAIN tier /\ rest[i] = tier[a] /\ rest[j] = tier[b]
      BY <1>1, <2>4, <2>7, <2>8
    <3>3. a = b
      BY <3>1, <3>2 DEF Apart
    <3>4. QED
      BY <2>4, <2>8, <3>3
  <2>12. Len(rest) < Len(tier)
    BY <1>1, <2>7
  <2>13. QED
    BY <1>1, <1>3, <2>7, <2>9, <2>10, <2>11, <2>12 DEF rest
<1>4. QED
  BY <1>2, <1>3

\* The oldest entry is the only one that a pop from the front removes.
LEMMA TierTail ==
  ASSUME NEW E, NEW tier \in Seq(E), Apart(tier), tier # <<>>
  PROVE  /\ Tail(tier) \in Seq(E) /\ Len(Tail(tier)) = Len(tier) - 1
         /\ Within(Tail(tier)) = Within(tier) \ {tier[1]}
         /\ Apart(Tail(tier))
<1>1. /\ Len(tier) \in Nat \ {0} /\ DOMAIN tier = 1..Len(tier)
  OBVIOUS
<1>2. /\ Tail(tier) \in Seq(E) /\ Len(Tail(tier)) = Len(tier) - 1
      /\ \A i \in 1..(Len(tier) - 1) : Tail(tier)[i] = tier[i + 1]
  BY HeadTailProperties
<1>3. DOMAIN Tail(tier) = 1..(Len(tier) - 1)
  BY <1>2
<1>4. \A i \in DOMAIN Tail(tier) : i + 1 \in DOMAIN tier /\ Tail(tier)[i] = tier[i + 1]
  BY <1>1, <1>2, <1>3
<1>5. \A i \in DOMAIN tier : i # 1 => i - 1 \in DOMAIN Tail(tier) /\ Tail(tier)[i - 1] = tier[i]
  BY <1>1, <1>2, <1>3
<1>6. Within(Tail(tier)) \subseteq Within(tier) \ {tier[1]}
  <2>1. SUFFICES ASSUME NEW i \in DOMAIN Tail(tier)
                 PROVE  Tail(tier)[i] \in Within(tier) /\ Tail(tier)[i] # tier[1]
    BY DEF Within
  <2>2. i + 1 \in DOMAIN tier /\ 1 \in DOMAIN tier /\ i + 1 # 1 /\ Tail(tier)[i] = tier[i + 1]
    BY <1>1, <1>3, <1>4
  <2>3. QED
    BY <2>2 DEF Within, Apart
<1>7. Within(tier) \ {tier[1]} \subseteq Within(Tail(tier))
  <2>1. SUFFICES ASSUME NEW i \in DOMAIN tier, tier[i] # tier[1]
                 PROVE  tier[i] \in Within(Tail(tier))
    BY DEF Within
  <2>2. i - 1 \in DOMAIN Tail(tier) /\ Tail(tier)[i - 1] = tier[i]
    BY <1>5, <2>1
  <2>3. QED
    BY <2>2, Zenon DEF Within
<1>8. Apart(Tail(tier))
  <2>1. SUFFICES ASSUME NEW i \in DOMAIN Tail(tier), NEW j \in DOMAIN Tail(tier),
                        Tail(tier)[i].key = Tail(tier)[j].key
                 PROVE  i = j
    BY DEF Apart
  <2>2. i + 1 = j + 1
    BY <1>4, <2>1 DEF Apart
  <2>3. QED
    BY <1>3, <2>2
<1>9. QED
  BY <1>2, <1>6, <1>7, <1>8

LEMMA TierAppend ==
  ASSUME NEW E, NEW tier \in Seq(E), Apart(tier), NEW entry \in E,
         \A e \in Within(tier) : e.key # entry.key
  PROVE  /\ Append(tier, entry) \in Seq(E)
         /\ Len(Append(tier, entry)) = Len(tier) + 1
         /\ Append(tier, entry)[Len(tier) + 1] = entry
         /\ Within(Append(tier, entry)) = Within(tier) \cup {entry}
         /\ Apart(Append(tier, entry))
<1> DEFINE longer == Append(tier, entry)
<1>1. /\ longer \in Seq(E) /\ Len(longer) = Len(tier) + 1
      /\ \A i \in 1..Len(tier) : longer[i] = tier[i]
      /\ longer[Len(tier) + 1] = entry
  BY AppendProperties
<1>2. Len(tier) \in Nat /\ DOMAIN tier = 1..Len(tier) /\ DOMAIN longer = 1..(Len(tier) + 1)
  BY <1>1
<1> HIDE DEF longer
<1>3. \A i \in DOMAIN longer :
        \/ i = Len(tier) + 1 /\ longer[i] = entry
        \/ i \in DOMAIN tier /\ longer[i] = tier[i]
  BY <1>1, <1>2
<1>4. Within(longer) = Within(tier) \cup {entry}
  <2>1. Within(longer) \subseteq Within(tier) \cup {entry}
    BY <1>3 DEF Within
  <2>2. \A i \in DOMAIN tier : i \in DOMAIN longer /\ longer[i] = tier[i]
    BY <1>1, <1>2
  <2>3. Len(tier) + 1 \in DOMAIN longer
    BY <1>2
  <2>4. QED
    BY <1>1, <2>1, <2>2, <2>3 DEF Within
<1>5. \A i \in DOMAIN tier : tier[i].key # entry.key
  BY DEF Within
<1>6. Apart(longer)
  BY <1>3, <1>5 DEF Apart
<1>7. QED
  BY <1>1, <1>4, <1>6 DEF longer
-----------------------------------------------------------------------------
(* The store.                                                              *)

Disjoint(plain, guarded) ==
  \A e \in Within(plain), d \in Within(guarded) : e.key # d.key

LEMMA WellFormedIs ==
  ASSUME NEW store
  PROVE  WellFormed(store) <=>
           /\ Len(store.guarded) <= GuardedCap
           /\ Size(store) <= Cap
           /\ Apart(store.plain) /\ Apart(store.guarded)
           /\ Disjoint(store.plain, store.guarded)
BY DEF WellFormed, Apart, Disjoint, Within, Holds

LEMMA EntriesAre ==
  ASSUME NEW store
  PROVE  Entries(store) = Within(store.plain) \cup Within(store.guarded)
BY DEF Entries, Within

\* In a well formed store an entry is known by its key.
LEMMA KeyIsUnique ==
  ASSUME NEW store, WellFormed(store),
         NEW e \in Entries(store), NEW d \in Entries(store), e.key = d.key
  PROVE  e = d
<1>1. Apart(store.plain) /\ Apart(store.guarded) /\ Disjoint(store.plain, store.guarded)
  BY WellFormedIs
<1>2. \A tier : Apart(tier) /\ e \in Within(tier) /\ d \in Within(tier) => e = d
  BY DEF Apart, Within
<1>3. QED
  BY <1>1, <1>2, EntriesAre DEF Disjoint

LEMMA CapSplits ==
  ASSUME StoreAssumption
  PROVE  /\ Cap \in Nat /\ GuardedCap \in Nat
         /\ 1 <= GuardedCap /\ 2 * GuardedCap <= Cap
BY DEF StoreAssumption, GuardedCap

\* Shorter tiers fit where longer ones did.
LEMMA ShorterFits ==
  ASSUME StoreAssumption, NEW E, NEW plain \in Seq(E), NEW guarded \in Seq(E),
         NEW plainer \in Seq(E), NEW guarder \in Seq(E),
         Len(plain) <= Len(plainer), Len(guarded) <= Len(guarder),
         Len(guarder) <= GuardedCap, Len(plainer) + Len(guarder) <= Cap
  PROVE  Len(guarded) <= GuardedCap /\ Len(plain) + Len(guarded) <= Cap
<1> DEFINE a == Len(plain)
           b == Len(guarded)
           c == Len(plainer)
           d == Len(guarder)
<1>1. /\ a \in Nat /\ b \in Nat /\ c \in Nat /\ d \in Nat
      /\ a <= c /\ b <= d /\ d <= GuardedCap /\ c + d <= Cap
  OBVIOUS
<1> HIDE DEF a, b, c, d
<1>2. b <= GuardedCap /\ a + b <= Cap
  BY <1>1, CapSplits
<1>3. QED
  BY <1>2 DEF a, b

\* A sweep keeps every live entry, adds none and keeps the shape of the store.
THEOREM SweepKeeps ==
  ASSUME StoreAssumption, NEW E, Timed(E), NEW store \in Tiers(E), WellFormed(store),
         NEW now \in Int
  PROVE  /\ Sweep(store, now) \in Tiers(E) /\ WellFormed(Sweep(store, now))
         /\ Entries(Sweep(store, now)) \subseteq Entries(store)
         /\ \A e \in Entries(store) : e.exp > now => e \in Entries(Sweep(store, now))
         /\ store.guarded = <<>> => Sweep(store, now).guarded = <<>>
         /\ Within(Sweep(store, now).plain) \subseteq Within(store.plain)
         /\ Within(Sweep(store, now).guarded) \subseteq Within(store.guarded)
         /\ \A e \in Within(store.guarded) :
              e.exp > now => e \in Within(Sweep(store, now).guarded)
         /\ Len(Sweep(store, now).guarded) <= Len(store.guarded)
         /\ Len(Sweep(store, now).guarded) = Len(store.guarded) =>
              Sweep(store, now).guarded = store.guarded
<1> DEFINE plain == SweepTier(store.plain, now)
           guarded == SweepTier(store.guarded, now)
<1>1. store.plain \in Seq(E) /\ store.guarded \in Seq(E)
  BY DEF Tiers
<1>2. /\ plain \in Seq(E) /\ Len(plain) <= Len(store.plain)
      /\ Within(plain) \subseteq Within(store.plain)
      /\ \A e \in Within(store.plain) : e.exp > now => e \in Within(plain)
      /\ Apart(store.plain) => Apart(plain)
  BY <1>1, SweptTier
<1>3. /\ guarded \in Seq(E) /\ Len(guarded) <= Len(store.guarded)
      /\ Within(guarded) \subseteq Within(store.guarded)
      /\ \A e \in Within(store.guarded) : e.exp > now => e \in Within(guarded)
      /\ Apart(store.guarded) => Apart(guarded)
      /\ Len(guarded) = Len(store.guarded) => guarded = store.guarded
  BY <1>1, SweptTier
<1>4. Sweep(store, now) = [plain |-> plain, guarded |-> guarded]
  BY DEF Sweep
<1> HIDE DEF plain, guarded
<1>5. /\ Sweep(store, now).plain = plain /\ Sweep(store, now).guarded = guarded
      /\ Sweep(store, now) \in Tiers(E)
  BY <1>2, <1>3, <1>4 DEF Tiers
<1>6. Len(guarded) <= GuardedCap /\ Size(Sweep(store, now)) <= Cap
  <2>1. Len(store.guarded) <= GuardedCap /\ Len(store.plain) + Len(store.guarded) <= Cap
    BY WellFormedIs DEF Size
  <2>2. Len(guarded) <= GuardedCap /\ Len(plain) + Len(guarded) <= Cap
    BY <1>1, <1>2, <1>3, <2>1, ShorterFits
  <2>3. QED
    BY <1>5, <2>2 DEF Size
<1>7. Apart(plain) /\ Apart(guarded) /\ Disjoint(plain, guarded)
  BY <1>2, <1>3, WellFormedIs DEF Disjoint
<1>8. WellFormed(Sweep(store, now))
  BY <1>5, <1>6, <1>7, WellFormedIs
<1>9. store.guarded = <<>> => guarded = <<>>
  BY DEF guarded, SweepTier, Live
<1>10. QED
  BY <1>2, <1>3, <1>5, <1>8, <1>9, EntriesAre

\* get answers with the live entry of its key, and with nothing else.
LEMMA GetIs ==
  ASSUME StoreAssumption, NEW E, Timed(E), NEW store \in Tiers(E), WellFormed(store),
         NEW now \in Int, NEW key
  PROVE  Get(store, key, now) = {e \in Entries(store) : e.key = key /\ e.exp > now}
BY SweepKeeps DEF Get, Find

\* pop takes its key and what has expired.
THEOREM DropKeeps ==
  ASSUME StoreAssumption, NEW E, Timed(E), NEW store \in Tiers(E), WellFormed(store),
         NEW now \in Int, NEW key
  PROVE  /\ Drop(store, key, now) \in Tiers(E) /\ WellFormed(Drop(store, key, now))
         /\ Entries(Drop(store, key, now)) =
              {e \in Entries(Sweep(store, now)) : e.key # key}
         /\ Within(Drop(store, key, now).plain) \subseteq Within(store.plain)
         /\ Within(Drop(store, key, now).guarded) \subseteq Within(store.guarded)
<1> DEFINE swept == Sweep(store, now)
           plain == Without(swept.plain, key)
           guarded == Without(swept.guarded, key)
<1>1. /\ swept \in Tiers(E) /\ WellFormed(swept)
      /\ Within(swept.plain) \subseteq Within(store.plain)
      /\ Within(swept.guarded) \subseteq Within(store.guarded)
  BY SweepKeeps
<1>2. Drop(store, key, now) = [plain |-> plain, guarded |-> guarded]
  BY DEF Drop
<1> HIDE DEF swept
<1>3. /\ Apart(swept.plain) /\ Apart(swept.guarded) /\ Disjoint(swept.plain, swept.guarded)
      /\ Len(swept.guarded) <= GuardedCap /\ Len(swept.plain) + Len(swept.guarded) <= Cap
  BY <1>1, WellFormedIs DEF Size
<1>4. swept.plain \in Seq(E) /\ swept.guarded \in Seq(E)
  BY <1>1 DEF Tiers
<1>5. /\ plain \in Seq(E) /\ Len(plain) <= Len(swept.plain)
      /\ Within(plain) = {e \in Within(swept.plain) : e.key # key}
      /\ Apart(plain)
  BY <1>3, <1>4, TierWithout
<1>6. /\ guarded \in Seq(E) /\ Len(guarded) <= Len(swept.guarded)
      /\ Within(guarded) = {e \in Within(swept.guarded) : e.key # key}
      /\ Apart(guarded)
  BY <1>3, <1>4, TierWithout
<1> HIDE DEF plain, guarded
<1>7. /\ Drop(store, key, now).plain = plain /\ Drop(store, key, now).guarded = guarded
      /\ Drop(store, key, now) \in Tiers(E)
  BY <1>2, <1>5, <1>6 DEF Tiers
<1>8. Disjoint(plain, guarded)
  BY <1>3, <1>5, <1>6 DEF Disjoint
<1>9. Len(guarded) <= GuardedCap /\ Len(plain) + Len(guarded) <= Cap
  BY <1>3, <1>4, <1>5, <1>6, ShorterFits
<1>10. WellFormed(Drop(store, key, now))
  BY <1>5, <1>6, <1>7, <1>8, <1>9, WellFormedIs DEF Size
<1>11. QED
  BY <1>1, <1>5, <1>6, <1>7, <1>10, EntriesAre DEF swept

\* The oldest protected entry makes room when the protected share is full.
LEMMA RoomTier ==
  ASSUME StoreAssumption, NEW E, NEW tier \in Seq(E), Apart(tier), Len(tier) <= GuardedCap
  PROVE  /\ Room(tier) \in Seq(E) /\ Apart(Room(tier))
         /\ Len(Room(tier)) <= Len(tier) /\ Len(Room(tier)) + 1 <= GuardedCap
         /\ Within(Room(tier)) \subseteq Within(tier)
         /\ \A e \in Within(tier) :
              e \in Within(Room(tier)) \/ (e = tier[1] /\ Len(tier) = GuardedCap)
<1>1. Len(tier) \in Nat /\ GuardedCap \in Nat /\ 1 <= GuardedCap
  BY CapSplits
<1>2. CASE Len(tier) >= GuardedCap
  <2>1. Len(tier) = GuardedCap /\ tier # <<>>
    <3>1. Len(tier) = GuardedCap /\ Len(tier) # 0
      BY <1>1, <1>2
    <3>2. QED
      BY <3>1
  <2>2. Room(tier) = Tail(tier)
    BY <1>2 DEF Room
  <2>3. /\ Tail(tier) \in Seq(E) /\ Len(Tail(tier)) = Len(tier) - 1
        /\ Within(Tail(tier)) = Within(tier) \ {tier[1]}
        /\ Apart(Tail(tier))
    BY <2>1, TierTail
  <2>4. Len(Tail(tier)) <= Len(tier) /\ Len(Tail(tier)) + 1 <= GuardedCap
    <3>1. Len(tier) \in Nat /\ Len(tier) = GuardedCap /\ Len(Tail(tier)) = Len(tier) - 1
      BY <1>1, <2>1, <2>3
    <3>2. QED
      BY <1>1, <3>1
  <2>5. QED
    BY <2>1, <2>2, <2>3, <2>4
<1>3. CASE ~(Len(tier) >= GuardedCap)
  <2>1. Room(tier) = tier
    BY <1>3 DEF Room
  <2>2. Len(tier) <= Len(tier) /\ Len(tier) + 1 <= GuardedCap
    BY <1>1, <1>3
  <2>3. QED
    BY <2>1, <2>2
<1>4. QED
  BY <1>2, <1>3

\* A store that exceeds the cap by one entry at most, and all else in order.
Full(store) ==
  /\ Len(store.guarded) <= GuardedCap
  /\ Len(store.plain) + Len(store.guarded) <= Cap + 1
  /\ Apart(store.plain) /\ Apart(store.guarded)
  /\ Disjoint(store.plain, store.guarded)

\* The eviction takes the oldest entry that is not protected, and nothing below the cap.
LEMMA EnforceCapKeeps ==
  ASSUME StoreAssumption, NEW E, NEW store \in Tiers(E), Full(store)
  PROVE  /\ EnforceCap(store) \in Tiers(E) /\ WellFormed(EnforceCap(store))
         /\ EnforceCap(store).guarded = store.guarded
         /\ Within(EnforceCap(store).plain) \subseteq Within(store.plain)
         /\ \A e \in Within(store.plain) :
              \/ e \in Within(EnforceCap(store).plain)
              \/ e = store.plain[1] /\ Len(store.plain) >= 2
<1> DEFINE a == Len(store.plain)
           b == Len(store.guarded)
<1>1. store.plain \in Seq(E) /\ store.guarded \in Seq(E)
  BY DEF Tiers
<1>2. a \in Nat /\ b \in Nat /\ b <= GuardedCap /\ a + b <= Cap + 1
  <2>1. a \in Nat /\ b \in Nat
    BY <1>1
  <2>2. b <= GuardedCap /\ a + b <= Cap + 1
    BY Zenon DEF Full
  <2>3. QED
    BY <2>1, <2>2
<1>3. CASE Size(store) <= Cap
  <2>1. EnforceCap(store) = store
    BY <1>3 DEF EnforceCap
  <2>2. WellFormed(store)
    BY <1>3, WellFormedIs DEF Full
  <2>3. QED
    BY <2>1, <2>2
<1>4. CASE ~(Size(store) <= Cap)
  <2>1. ~(a + b <= Cap)
    BY <1>4 DEF Size
  <2> HIDE DEF a, b
  <2>2. a + b = Cap + 1 /\ a >= 2
    BY <1>2, <2>1, CapSplits
  <2>3. store.plain # <<>>
    <3>1. a # 0
      BY <1>2, <2>2
    <3>2. QED
      BY <3>1 DEF a
  <2>4. EnforceCap(store) = [store EXCEPT !.plain = Tail(store.plain)]
    BY <1>4, <2>3 DEF EnforceCap
  <2>5. /\ Tail(store.plain) \in Seq(E) /\ Len(Tail(store.plain)) = a - 1
        /\ Within(Tail(store.plain)) = Within(store.plain) \ {store.plain[1]}
        /\ Apart(Tail(store.plain))
    BY <1>1, <2>3, TierTail DEF Full, a
  <2>6. EnforceCap(store) = [plain |-> Tail(store.plain), guarded |-> store.guarded]
    BY <2>4 DEF Tiers
  <2>7. /\ EnforceCap(store).plain = Tail(store.plain)
        /\ EnforceCap(store).guarded = store.guarded
        /\ EnforceCap(store) \in Tiers(E)
    BY <1>1, <2>5, <2>6 DEF Tiers
  <2>8. Size(EnforceCap(store)) <= Cap
    <3>1. Size(EnforceCap(store)) = (a - 1) + b
      BY <2>5, <2>7 DEF Size, b
    <3>2. QED
      BY <1>2, <2>2, <3>1, CapSplits
  <2>9. Disjoint(Tail(store.plain), store.guarded)
    BY <2>5 DEF Full, Disjoint
  <2>10. WellFormed(EnforceCap(store))
    BY <2>5, <2>7, <2>8, <2>9, WellFormedIs DEF Full
  <2>11. QED
    BY <2>2, <2>5, <2>7, <2>10 DEF a
<1>5. QED
  BY <1>3, <1>4

\* What set and mutate promise: nothing but the new entry comes in, and it is in,
\* however full the store is.  A protected entry that is alive stays, unless it is the
\* oldest of a full share and a key that had no protection takes its place.
Takes(store, after, entry, guard, now) ==
  /\ Entries(after) \subseteq {e \in Entries(store) : e.key # entry.key} \cup {entry}
  /\ entry \in Entries(after)
  /\ store.guarded = <<>> /\ ~guard => after.guarded = <<>>
  /\ \A e \in Within(after.plain) : e \in Within(store.plain) \/ (e = entry /\ ~guard)
  /\ \A e \in Within(after.guarded) : e \in Within(store.guarded) \/ (e = entry /\ guard)
  /\ \A e \in Within(store.guarded) :
       e.exp > now /\ e.key # entry.key =>
         \/ e \in Within(after.guarded)
         \/ /\ guard /\ e = store.guarded[1] /\ Len(store.guarded) = GuardedCap
            /\ ~Holds(store.guarded, entry.key) /\ entry \in Within(after.guarded)

\* A write does that, and the store keeps its shape, its caps included.
THEOREM PutKeeps ==
  ASSUME StoreAssumption, NEW E, Timed(E), NEW store \in Tiers(E), WellFormed(store),
         NEW now \in Int, NEW key, NEW val, NEW guard \in BOOLEAN,
         [key |-> key, exp |-> now + Ttl, val |-> val] \in E
  PROVE  /\ Put(store, key, val, guard, now) \in Tiers(E)
         /\ WellFormed(Put(store, key, val, guard, now))
         /\ Takes(store, Put(store, key, val, guard, now),
                  [key |-> key, exp |-> now + Ttl, val |-> val], guard, now)
<1> DEFINE entry == [key |-> key, exp |-> now + Ttl, val |-> val]
           swept == Sweep(store, now)
           plain == Without(swept.plain, key)
           guarded == Without(swept.guarded, key)
           placed == Place(swept, key, val, guard, now)
           after == Put(store, key, val, guard, now)
<1>1. /\ swept \in Tiers(E) /\ WellFormed(swept)
      /\ Entries(swept) \subseteq Entries(store)
      /\ Within(swept.plain) \subseteq Within(store.plain)
      /\ Within(swept.guarded) \subseteq Within(store.guarded)
      /\ \A e \in Within(store.guarded) : e.exp > now => e \in Within(swept.guarded)
      /\ Len(swept.guarded) <= Len(store.guarded)
      /\ Len(swept.guarded) = Len(store.guarded) => swept.guarded = store.guarded
  BY SweepKeeps
<1>2. store.guarded = <<>> => swept.guarded = <<>>
  BY DEF Sweep, SweepTier, Live
<1>3. after = EnforceCap(placed)
  BY DEF Put
<1>4. placed = IF guard
               THEN [plain |-> plain, guarded |-> Append(Room(guarded), entry)]
               ELSE [plain |-> Append(plain, entry), guarded |-> guarded]
  BY DEF Place
<1>5. entry \in E /\ entry.key = key
  OBVIOUS
<1> HIDE DEF entry, swept, placed, after
<1>6. /\ swept.plain \in Seq(E) /\ swept.guarded \in Seq(E)
      /\ Apart(swept.plain) /\ Apart(swept.guarded) /\ Disjoint(swept.plain, swept.guarded)
      /\ Len(swept.guarded) <= GuardedCap /\ Len(swept.plain) + Len(swept.guarded) <= Cap
  BY <1>1, WellFormedIs DEF Tiers, Size
<1>7. /\ plain \in Seq(E) /\ Len(plain) <= Len(swept.plain)
      /\ Within(plain) = {e \in Within(swept.plain) : e.key # key}
      /\ Apart(plain)
  BY <1>6, TierWithout
<1>8. /\ guarded \in Seq(E) /\ Len(guarded) <= Len(swept.guarded)
      /\ Within(guarded) = {e \in Within(swept.guarded) : e.key # key}
      /\ Apart(guarded)
      /\ IF Holds(swept.guarded, key) THEN Len(guarded) < Len(swept.guarded)
         ELSE guarded = swept.guarded
  BY <1>6, TierWithout
<1>9. swept.guarded = <<>> => guarded = <<>>
  BY DEF Without, Holds
<1> HIDE DEF plain, guarded
<1>10. Len(guarded) <= GuardedCap /\ Len(plain) + Len(guarded) <= Cap
  BY <1>6, <1>7, <1>8, ShorterFits
<1>11. Disjoint(plain, guarded)
  BY <1>6, <1>7, <1>8 DEF Disjoint
<1>12. /\ placed \in Tiers(E) /\ Full(placed)
       /\ Entries(placed) \subseteq {e \in Entries(swept) : e.key # key} \cup {entry}
       /\ IF guard THEN entry \in Within(placed.guarded)
          ELSE /\ placed.guarded = guarded
               /\ placed.plain = Append(plain, entry)
       /\ \A e \in Within(placed.plain) : e \in Within(plain) \/ (e = entry /\ ~guard)
       /\ \A e \in Within(placed.guarded) : e \in Within(guarded) \/ (e = entry /\ guard)
       /\ \A e \in Within(guarded) :
            \/ e \in Within(placed.guarded)
            \/ /\ guard /\ e = guarded[1] /\ Len(guarded) = GuardedCap
  <2>1. CASE guard
    <3> DEFINE room == Room(guarded)
               longer == Append(room, entry)
    <3>1. /\ room \in Seq(E) /\ Apart(room)
          /\ Len(room) <= Len(guarded) /\ Len(room) + 1 <= GuardedCap
          /\ Within(room) \subseteq Within(guarded)
          /\ \A e \in Within(guarded) :
               e \in Within(room) \/ (e = guarded[1] /\ Len(guarded) = GuardedCap)
      BY <1>8, <1>10, RoomTier
    <3> HIDE DEF room
    <3>2. \A e \in Within(room) : e.key # entry.key
      BY <1>5, <1>8, <3>1
    <3>3. /\ longer \in Seq(E) /\ Len(longer) = Len(room) + 1
          /\ Within(longer) = Within(room) \cup {entry} /\ Apart(longer)
      BY <1>5, <3>1, <3>2, TierAppend
    <3> HIDE DEF longer
    <3>4. placed = [plain |-> plain, guarded |-> longer]
      BY <1>4, <2>1 DEF longer, room
    <3>5. /\ placed.plain = plain /\ placed.guarded = longer /\ placed \in Tiers(E)
      BY <1>7, <3>3, <3>4 DEF Tiers
    <3>6. Len(longer) <= GuardedCap /\ Len(plain) + Len(longer) <= Cap + 1
      <4> DEFINE a == Len(plain)
                 b == Len(guarded)
                 c == Len(room)
                 d == Len(longer)
      <4>1. /\ a \in Nat /\ b \in Nat /\ c \in Nat /\ d \in Nat
            /\ d = c + 1 /\ c <= b /\ c + 1 <= GuardedCap /\ a + b <= Cap
        BY <1>7, <1>8, <1>10, <3>1, <3>3
      <4> HIDE DEF a, b, c, d
      <4>2. d <= GuardedCap /\ a + d <= Cap + 1
        BY <4>1, CapSplits
      <4>3. QED
        BY <4>2 DEF a, d
    <3>7. Disjoint(plain, longer)
      BY <1>5, <1>7, <1>11, <3>1, <3>3 DEF Disjoint
    <3>8. Full(placed)
      BY <1>7, <3>3, <3>5, <3>6, <3>7 DEF Full
    <3>9. Entries(placed) \subseteq {e \in Entries(swept) : e.key # key} \cup {entry}
      BY <1>7, <1>8, <3>1, <3>3, <3>5, EntriesAre
    <3>10. /\ \A e \in Within(placed.plain) : e \in Within(plain)
           /\ \A e \in Within(placed.guarded) : e \in Within(guarded) \/ e = entry
           /\ \A e \in Within(guarded) :
                e \in Within(placed.guarded) \/ (e = guarded[1] /\ Len(guarded) = GuardedCap)
      BY <3>1, <3>3, <3>5
    <3>11. QED
      BY <2>1, <3>3, <3>5, <3>8, <3>9, <3>10
  <2>2. CASE ~guard
    <3> DEFINE longer == Append(plain, entry)
    <3>1. \A e \in Within(plain) : e.key # entry.key
      BY <1>5, <1>7
    <3>2. /\ longer \in Seq(E) /\ Len(longer) = Len(plain) + 1
          /\ Within(longer) = Within(plain) \cup {entry} /\ Apart(longer)
      BY <1>5, <1>7, <3>1, TierAppend
    <3>3. placed = [plain |-> longer, guarded |-> guarded]
      BY <1>4, <2>2
    <3> HIDE DEF longer
    <3>4. /\ placed.plain = longer /\ placed.guarded = guarded /\ placed \in Tiers(E)
      BY <1>8, <3>2, <3>3 DEF Tiers
    <3>5. Len(longer) + Len(guarded) <= Cap + 1
      <4> DEFINE a == Len(plain)
                 b == Len(guarded)
                 d == Len(longer)
      <4>1. /\ a \in Nat /\ b \in Nat /\ d \in Nat /\ d = a + 1 /\ a + b <= Cap
        BY <1>7, <1>8, <1>10, <3>2
      <4> HIDE DEF a, b, d
      <4>2. d + b <= Cap + 1
        BY <4>1, CapSplits
      <4>3. QED
        BY <4>2 DEF b, d
    <3>6. Disjoint(longer, guarded)
      BY <1>5, <1>8, <1>11, <3>2 DEF Disjoint
    <3>7. Full(placed)
      BY <1>8, <1>10, <3>2, <3>4, <3>5, <3>6 DEF Full
    <3>8. Entries(placed) \subseteq {e \in Entries(swept) : e.key # key} \cup {entry}
      BY <1>7, <1>8, <3>2, <3>4, EntriesAre
    <3>9. /\ \A e \in Within(placed.plain) : e \in Within(plain) \/ e = entry
          /\ placed.guarded = guarded
      BY <3>2, <3>4
    <3>10. QED
      BY <2>2, <3>4, <3>7, <3>8, <3>9 DEF longer
  <2>3. QED
    BY <2>1, <2>2
<1>13. /\ after \in Tiers(E) /\ WellFormed(after)
       /\ after.guarded = placed.guarded
       /\ Within(after.plain) \subseteq Within(placed.plain)
       /\ \A e \in Within(placed.plain) :
            \/ e \in Within(after.plain)
            \/ e = placed.plain[1] /\ Len(placed.plain) >= 2
  BY <1>3, <1>12, EnforceCapKeeps
<1>14. entry \in Entries(after)
  <2>1. CASE guard
    BY <1>12, <1>13, <2>1, EntriesAre
  <2>2. CASE ~guard
    <3>1. \A e \in Within(plain) : e.key # entry.key
      BY <1>5, <1>7
    <3>2. /\ Append(plain, entry) \in Seq(E)
          /\ Len(Append(plain, entry)) = Len(plain) + 1
          /\ Append(plain, entry)[Len(plain) + 1] = entry
          /\ Within(Append(plain, entry)) = Within(plain) \cup {entry}
          /\ Apart(Append(plain, entry))
      BY <1>5, <1>7, <3>1, TierAppend
    <3>3. Len(plain) \in Nat
      BY <1>7
    <3>4. CASE entry = placed.plain[1] /\ Len(placed.plain) >= 2
      <4>1. /\ 1 \in DOMAIN placed.plain /\ Len(plain) + 1 \in DOMAIN placed.plain
            /\ Len(plain) + 1 # 1
        BY <1>12, <2>2, <3>2, <3>3, <3>4
      <4>2. placed.plain[1] = placed.plain[Len(plain) + 1] /\ Apart(placed.plain)
        BY <1>12, <2>2, <3>2, <3>4
      <4>3. QED
        BY <4>1, <4>2 DEF Apart
    <3>5. QED
      BY <1>12, <1>13, <2>2, <3>2, <3>4, EntriesAre
  <2>3. QED
    BY <2>1, <2>2
<1>15. Entries(after) \subseteq {e \in Entries(store) : e.key # key} \cup {entry}
  BY <1>1, <1>12, <1>13, EntriesAre
<1>16. store.guarded = <<>> /\ ~guard => after.guarded = <<>>
  BY <1>2, <1>9, <1>12, <1>13
<1>17. /\ \A e \in Within(after.plain) : e \in Within(store.plain) \/ (e = entry /\ ~guard)
       /\ \A e \in Within(after.guarded) :
            e \in Within(store.guarded) \/ (e = entry /\ guard)
  BY <1>1, <1>7, <1>8, <1>12, <1>13
<1>18. ASSUME NEW e \in Within(store.guarded), e.exp > now, e.key # key,
              e \notin Within(after.guarded)
       PROVE  /\ guard /\ e = store.guarded[1] /\ Len(store.guarded) = GuardedCap
              /\ ~Holds(store.guarded, key) /\ entry \in Within(after.guarded)
  <2>1. e \in Within(guarded)
    BY <1>1, <1>8, <1>18
  <2>2. guard /\ e = guarded[1] /\ Len(guarded) = GuardedCap
    BY <1>12, <1>13, <1>18, <2>1
  <2>3. swept.guarded = store.guarded /\ ~Holds(swept.guarded, key)
    <3> DEFINE a == Len(guarded)
               b == Len(swept.guarded)
               c == Len(store.guarded)
    <3>1. a \in Nat /\ b \in Nat /\ c \in Nat
      BY <1>6, <1>8 DEF Tiers
    <3>2. /\ a = GuardedCap /\ a <= b /\ b <= c /\ c <= GuardedCap
          /\ Holds(swept.guarded, key) => a < b
      BY <1>1, <1>8, <2>2, WellFormedIs
    <3>3. b = c => swept.guarded = store.guarded
      BY <1>1
    <3> HIDE DEF a, b, c
    <3>4. b = c /\ ~(a < b)
      BY <3>1, <3>2
    <3>5. QED
      BY <3>2, <3>3, <3>4
  <2>4. guarded = store.guarded
    BY <1>8, <2>3
  <2>5. entry \in Within(after.guarded)
    BY <1>12, <1>13, <2>2
  <2>6. QED
    BY <2>2, <2>3, <2>4, <2>5
<1>19. Takes(store, after, entry, guard, now)
  BY <1>5, <1>14, <1>15, <1>16, <1>17, <1>18 DEF Takes
<1>20. QED
  BY <1>13, <1>19, Zenon DEF after, entry
=============================================================================
