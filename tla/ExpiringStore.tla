--------------------------- MODULE ExpiringStore ---------------------------
(***************************************************************************)
(* The bounded mapping behind both authentication stores                   *)
(* (http_auth.py, _ExpiringStore), as operators on a value: two tiers of   *)
(* entries, each in the order of insertion, sharing one cap.  Every        *)
(* operation takes the reading of the clock its caller made before it got  *)
(* the lock, so a reading may be older than the entries it meets.          *)
(***************************************************************************)
EXTENDS Integers, SequencesExt

CONSTANTS
  Key, Value,
  Cap,          \* settings.auth_store_max_entries
  Ttl           \* how long an entry lives after its last touch

\* config.py refuses a cap below MIN_AUTH_STORE_MAX_ENTRIES; two is what the
\* store needs to hold a protected entry beside a newcomer.
StoreAssumption == Cap \in Nat /\ Cap >= 2 /\ Ttl \in Nat \ {0}

Entry == [key : Key, exp : Int, val : Value]
Store == [plain : Seq(Entry), guarded : Seq(Entry)]
EmptyStore == [plain |-> <<>>, guarded |-> <<>>]

GuardedCap == Cap \div 2      \* max(1, cap // 2)

Size(store) == Len(store.plain) + Len(store.guarded)
Entries(store) == {store.plain[i] : i \in DOMAIN store.plain}
                    \cup {store.guarded[i] : i \in DOMAIN store.guarded}
-----------------------------------------------------------------------------
\* The sweep pops from the front and stops at the first live entry.
Live(tier, now) == {i \in DOMAIN tier : tier[i].exp > now}
SweepTier(tier, now) ==
  IF Live(tier, now) = {} THEN <<>>
  ELSE LET first == CHOOSE i \in Live(tier, now) : \A j \in Live(tier, now) : i <= j
       IN  SubSeq(tier, first, Len(tier))
Sweep(store, now) == [plain   |-> SweepTier(store.plain, now),
                      guarded |-> SweepTier(store.guarded, now)]

Holds(tier, key) == \E i \in DOMAIN tier : tier[i].key = key
Position(tier, key) == CHOOSE i \in DOMAIN tier : tier[i].key = key
Without(tier, key) ==
  IF Holds(tier, key) THEN RemoveAt(tier, Position(tier, key)) ELSE tier

\* Seeded fault: lockouts may fill the whole cap.
Room_Unbounded(guarded) == guarded
\* An entry that wants protection while the protected share is full takes the
\* place of the oldest protected one.
Room(guarded) == IF Len(guarded) >= GuardedCap THEN Tail(guarded) ELSE guarded
\* Seeded fault: a key that changes its tier stays in the other one too.
Place_Both(store, key, val, guard, now) ==
  LET entry == [key |-> key, exp |-> now + Ttl, val |-> val]
  IN  IF guard
      THEN [store EXCEPT !.guarded = Append(Room(Without(@, key)), entry)]
      ELSE [store EXCEPT !.plain = Append(Without(@, key), entry)]
Place(store, key, val, guard, now) ==
  LET plain   == Without(store.plain, key)
      guarded == Without(store.guarded, key)
      entry   == [key |-> key, exp |-> now + Ttl, val |-> val]
  IN  IF guard
      THEN [plain |-> plain, guarded |-> Append(Room(guarded), entry)]
      ELSE [plain |-> Append(plain, entry), guarded |-> guarded]

\* Seeded fault: lockouts go first, as the entries nearest to their expiry.
EnforceCap_Oldest(store) ==
  IF Size(store) <= Cap THEN store
  ELSE IF store.guarded # <<>> THEN [store EXCEPT !.guarded = Tail(@)]
  ELSE [store EXCEPT !.plain = Tail(@)]
\* A write adds one entry at most, so the loop of _enforce_cap runs once at most.
EnforceCap(store) ==
  IF Size(store) <= Cap THEN store
  ELSE IF store.plain # <<>> THEN [store EXCEPT !.plain = Tail(@)]
  ELSE [store EXCEPT !.guarded = Tail(@)]

\* set and mutate
Put(store, key, val, guard, now) ==
  EnforceCap(Place(Sweep(store, now), key, val, guard, now))

\* _find, and what get answers after its sweep: an expired entry that hides
\* behind a live one is not an answer.
Find(store, key) ==
  {e \in Entries(store) : e.key = key}
Get(store, key, now) ==
  {e \in Find(Sweep(store, now), key) : e.exp > now}

\* pop
Drop(store, key, now) ==
  LET swept == Sweep(store, now)
  IN  [plain |-> Without(swept.plain, key), guarded |-> Without(swept.guarded, key)]

\* One entry for a key, in one tier; the cap and the protected share are kept.
WellFormed(store) ==
  /\ Len(store.guarded) <= GuardedCap
  /\ Size(store) <= Cap
  /\ \A i, j \in DOMAIN store.plain : store.plain[i].key = store.plain[j].key => i = j
  /\ \A i, j \in DOMAIN store.guarded : store.guarded[i].key = store.guarded[j].key => i = j
  /\ \A i \in DOMAIN store.plain : ~Holds(store.guarded, store.plain[i].key)

Keys(store) == {e.key : e \in Entries(store)}

\* What an alarm at an eviction looks at: the entries a write drops although
\* their owner did not ask, alive by the wall clock.
Evicted(before, after, key, wall) ==
  {e \in Entries(before) : e.exp > wall /\ e.key # key /\ e.key \notin Keys(after)}
=============================================================================
