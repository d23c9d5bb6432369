--------------------------- MODULE LoginThrottle ---------------------------
(***************************************************************************)
(* The failed-login throttle (http_auth.py, api/auth.py).  login is a      *)
(* synchronous handler, so several requests run in threads of a pool; each *)
(* reads the clock, takes the lock of the store, and goes on with what it  *)
(* learned there.  The history of a client is the list of its last         *)
(* failures.                                                               *)
(***************************************************************************)
EXTENDS Integers, SequencesExt, FiniteSets

CONSTANTS
  Origin,           \* where requests really come from
  Proxy,            \* the reverse proxies in settings.trusted_proxies
  Worker,           \* threads of the pool
  MaxFailures,      \* LOGIN_MAX_FAILURES
  Lockout,          \* LOGIN_LOCKOUT_SECONDS
  Cap,              \* settings.auth_store_max_entries
  MaxLag,           \* bound: the age of a reading of the clock when it is used
  Horizon           \* bound: the last instant of a behaviour

Address == Origin \cup Proxy
Junk    == "junk"                 \* a hop that is not an address

ThrottleAssumption ==
  /\ MaxFailures \in Nat \ {0} /\ Lockout \in Nat \ {0}
  /\ MaxLag \in 0..(Lockout - 1) /\ Horizon \in Nat
  /\ Origin \cap Proxy = {} /\ Junk \notin Address
  /\ IsFiniteSet(Worker)

Stamps  == Seq(Int)

VARIABLES
  clock,
  attempts,         \* the store, address -> times of its last failures
  login,            \* login[w]: the request thread w works on
  failures          \* history: failures[o], when origin o failed since its last
                    \* success or since others pushed its entry out

vars == <<clock, attempts, login, failures>>

S == INSTANCE ExpiringStore WITH Key <- Address, Value <- Stamps, Ttl <- Lockout
-----------------------------------------------------------------------------
(* Who a request is charged to.                                            *)

\* Seeded fault: the first hop of the header is believed.
ClientIdentity_First(peer, hops) ==
  IF peer \notin Proxy \/ hops = <<>> \/ hops[1] = Junk THEN peer ELSE hops[1]
\* The walk from the right past our own proxies; a hop that is no address ends
\* it, and so does the end of the header.
ClientIdentity(peer, hops) ==
  LET foreign == {i \in DOMAIN hops : hops[i] \notin Proxy}
      last    == CHOOSE i \in foreign : \A j \in foreign : j <= i
  IN  IF peer \notin Proxy \/ foreign = {} \/ hops[last] = Junk
      THEN peer ELSE hops[last]

\* The ways a request of origin o can arrive: directly or through proxies that
\* append what they saw, in both cases behind whatever the sender put there.
Claims   == {<<>>, <<Junk>>} \cup {<<a>> : a \in Address}
Relayed(o) ==
  LET first == {Append(c, o) : c \in Claims}
  IN  first \cup {Append(h, q) : h \in first, q \in Proxy}
Arrivals(o) ==
  {[peer |-> o, hops |-> c] : c \in Claims}
    \cup {[peer |-> p, hops |-> h] : p \in Proxy, h \in Relayed(o)}
-----------------------------------------------------------------------------
\* The stamps after t, in their order; mostly there is nothing to drop.
Since(stamps, t) ==
  LET kept[i \in 0..Len(stamps)] ==
        IF i = 0 THEN <<>>
        ELSE IF stamps[i] > t THEN Append(kept[i - 1], stamps[i]) ELSE kept[i - 1]
  IN  IF \A i \in DOMAIN stamps : stamps[i] > t THEN stamps ELSE kept[Len(stamps)]
Recent(stamps, now) == Since(stamps, now - Lockout)
Newest(stamps) ==
  SubSeq(stamps, IF Len(stamps) > MaxFailures THEN Len(stamps) - MaxFailures + 1 ELSE 1,
         Len(stamps))
Charge(stamps, now) == Newest(Append(Recent(stamps, now), now))
Protects(stamps) == Len(stamps) >= MaxFailures

StampsOf(entries) == IF entries = {} THEN <<>> ELSE (CHOOSE e \in entries : TRUE).val

\* login_throttle_retry_after; a client may try when it is 0
RetryAfter(key, now) ==
  LET recent == Recent(StampsOf(S!Get(attempts, key, now)), now)
      oldest == recent[Len(recent) - MaxFailures + 1]
  IN  IF Len(recent) < MaxFailures THEN 0 ELSE Lockout - (now - oldest) + 1
-----------------------------------------------------------------------------
Idle == [at |-> "idle"]

Init ==
  /\ clock = 0
  /\ attempts = S!EmptyStore
  /\ login = [w \in Worker |-> Idle]
  /\ failures = [o \in Origin |-> <<>>]

\* A request arrives and the throttle reads the clock.
Login(w, o) ==
  /\ login[w].at = "idle"
  /\ \E a \in Arrivals(o) :
       login' = [login EXCEPT ![w] =
         [at |-> "ask", origin |-> o, key |-> ClientIdentity(a.peer, a.hops), now |-> clock]]
  /\ UNCHANGED <<clock, attempts, failures>>

\* The throttle answers under the lock; get sweeps the store.
Ask(w) ==
  /\ login[w].at = "ask"
  /\ attempts' = S!Sweep(attempts, login[w].now)
  /\ login' = [login EXCEPT ![w] =
       IF RetryAfter(login[w].key, login[w].now) > 0 THEN Idle ELSE [@ EXCEPT !.at = "compare"]]
  /\ UNCHANGED <<clock, failures>>

\* The credentials are compared, and the clock is read again for what follows.
Compare(w, good) ==
  /\ login[w].at = "compare"
  /\ login' = [login EXCEPT ![w].at = IF good THEN "clear" ELSE "record", ![w].now = clock]
  /\ UNCHANGED <<clock, attempts, failures>>

\* The write of record_failed_login.
Charged(store, key, now) ==
  LET stamps == Charge(StampsOf(S!Find(S!Sweep(store, now), key)), now)
  IN  S!Put(store, key, stamps, Protects(stamps), now)

Forgiven(store, key) == {e.key : e \in S!Evicted(attempts, store, key, clock)}

Record(w) ==
  /\ login[w].at = "record"
  /\ attempts' = Charged(attempts, login[w].key, login[w].now)
  /\ failures' = [o \in Origin |->
       IF o \in Forgiven(attempts', login[w].key) THEN <<>>
       ELSE IF o = login[w].origin THEN Append(failures[o], login[w].now)
       ELSE failures[o]]
  /\ login' = [login EXCEPT ![w] = Idle]
  /\ UNCHANGED clock

Clear(w) ==
  /\ login[w].at = "clear"
  /\ attempts' = S!Drop(attempts, login[w].key, login[w].now)
  /\ failures' = [failures EXCEPT ![login[w].origin] = <<>>]
  /\ login' = [login EXCEPT ![w] = Idle]
  /\ UNCHANGED clock

\* The store keeps the failures recorded last, which late readings may bring out of
\* the order of their times by MaxLag; a bound on guesses is one for a window that
\* much shorter.
Window == Lockout - MaxLag

\* A reading is used within MaxLag; failures that no window holds any more
\* leave the history.
Tick ==
  /\ clock < Horizon
  /\ \A w \in Worker : login[w].at \in {"ask", "record", "clear"} =>
       clock - login[w].now < MaxLag
  /\ clock' = clock + 1
  /\ failures' = [o \in Origin |-> Since(failures[o], clock + 1 - Window)]
  /\ UNCHANGED <<attempts, login>>

Serve(w) == Ask(w) \/ (\E good \in BOOLEAN : Compare(w, good)) \/ Record(w) \/ Clear(w)
Next == Tick \/ \E w \in Worker : Serve(w) \/ \E o \in Origin : Login(w, o)

Spec == Init /\ [][Next]_vars
-----------------------------------------------------------------------------
Request == [at : {"ask", "compare", "clear", "record"},
            origin : Origin, key : Address, now : 0..Horizon]
Stored  == [key : Address, exp : 1..(Horizon + Lockout), val : Seq(0..Horizon)]

TypeOK ==
  /\ clock \in 0..Horizon
  /\ attempts \in [plain : Seq(Stored), guarded : Seq(Stored)] /\ S!WellFormed(attempts)
  /\ login \in [Worker -> {Idle} \cup Request]
  /\ failures \in [Origin -> Seq(0..Horizon)]

\* An origin whose history is kept gets at most MaxFailures - 1 wrong guesses in
\* any Window, and one more for each thread that had passed the throttle by then;
\* whatever it writes into the forwarding header, and however the threads
\* interleave.
GuessesBounded ==
  \A o \in Origin : Len(failures[o]) < MaxFailures + Cardinality(Worker)

Blocked(key) == RetryAfter(key, clock) > 0
Clears(w)    == login[w].at = "clear" /\ login' # login
\* The new lockout that takes the place of the oldest one.
Displaced(key) ==
  /\ Len(attempts.guarded) = S!GuardedCap
  /\ Head(attempts.guarded).key = key
  /\ \E i \in DOMAIN attempts'.guarded : ~S!Holds(attempts.guarded, attempts'.guarded[i].key)

\* Whatever happens to the store, a client that has to wait still has to, unless a
\* sign-in of its own was under way or younger lockouts fill the protected half of
\* the cap; the number of other clients that fail does not let it in.
LockoutHolds ==
  [][\A key \in Address : Blocked(key) /\ ~Blocked(key)' =>
       \/ \E w \in Worker : Clears(w) /\ login[w].key = key
       \/ Displaced(key)]_attempts

\* A failure is in the store right after it was recorded, however full the store
\* is of lockouts: a client that comes late can still be counted and locked out.
NewcomerIsCounted ==
  [][\A w \in Worker : login[w].at = "record" /\ login'[w] = Idle =>
       login[w].key \in S!Keys(attempts')]_login
=============================================================================
