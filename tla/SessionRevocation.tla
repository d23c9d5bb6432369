------------------------- MODULE SessionRevocation -------------------------
(***************************************************************************)
(* Session tokens and their revocation (http_auth.py, api/auth.py).  A     *)
(* token is signed, carries the second it was issued and is good for       *)
(* MaxAge; a logout enters its id into an expiring store, and every check  *)
(* looks there before it looks at the age.  Both take one reading of the   *)
(* clock and keep it.  Time is counted in half seconds, so that a reading  *)
(* can be late by less than the second the retention has to spare.         *)
(***************************************************************************)
EXTENDS Integers, SequencesExt, FiniteSets

CONSTANTS
  Token, Worker,
  MaxAge,           \* settings.session_max_age_seconds
  Skew,             \* _CLOCK_SKEW_TOLERANCE_SECONDS
  Slack,            \* _REVOCATION_CLOCK_SLACK_SECONDS
  Cap,              \* settings.auth_store_max_entries
  Born,             \* bound: when the tokens of an earlier process were issued
  MaxLag,           \* bound: the age of a reading of the clock when it is used
  Horizon           \* bound: the last instant of a behaviour

\* A thread uses its reading before the second is over that the retention adds to
\* the tolerance.
RevocationAssumption ==
  /\ MaxAge \in Nat /\ Skew \in Nat /\ Slack \in Nat
  /\ MaxLag \in Nat /\ Skew + MaxLag < Slack
  /\ Born \subseteq Int /\ Horizon \in Nat

VARIABLES
  clock,
  revoked,          \* the store: ids of sessions that were logged out
  issued,           \* issued[t]: when token t was issued, for those that were
  request,          \* request[w]: the logout or the check that thread w works on
  loggedOut,        \* history: the tokens this process revoked
  alarm             \* the warning about a live entry evicted at the cap was logged

vars == <<clock, revoked, issued, request, loggedOut, alarm>>

\* Seeded fault: the retention ends at the last instant the token is accepted.
Retention_Closed == MaxAge + Skew
\* How long a revocation is kept.
Retention == MaxAge + Slack
S == INSTANCE ExpiringStore WITH Key <- Token, Value <- {TRUE}, Ttl <- Retention
-----------------------------------------------------------------------------
InAge(t, now) == now - issued[t] \in -Skew..MaxAge

\* session_is_valid for a token whose signature is good
IsValid(t, now) == S!Get(revoked, t, now) = {} /\ InAge(t, now)

\* itsdangerous keeps the whole second.
WholeSecond(now) == now - (now % 2)

Idle == [at |-> "idle"]

\* The clock may have been ahead when the tokens of before were issued.
Init ==
  /\ clock = 0
  /\ revoked = S!EmptyStore
  /\ \E T \in SUBSET Token : issued \in [T -> Born]
  /\ request = [w \in Worker |-> Idle]
  /\ loggedOut = {}
  /\ alarm = FALSE

\* A login that succeeded.
Issue(t) ==
  /\ t \notin DOMAIN issued
  /\ issued' = [u \in DOMAIN issued \cup {t} |->
       IF u = t THEN WholeSecond(clock) ELSE issued[u]]
  /\ UNCHANGED <<clock, revoked, request, loggedOut, alarm>>

\* A request with token t: the logout handler, or the check of the middleware.
Begin(w, t, what) ==
  /\ request[w].at = "idle"
  /\ t \in DOMAIN issued
  /\ request' = [request EXCEPT ![w] = [at |-> what, token |-> t, now |-> clock]]
  /\ UNCHANGED <<clock, revoked, issued, loggedOut, alarm>>

\* The middleware answers.
Check(w) ==
  /\ request[w].at = "check"
  /\ revoked' = S!Sweep(revoked, request[w].now)
  /\ request' = [request EXCEPT ![w] = Idle]
  /\ UNCHANGED <<clock, issued, loggedOut, alarm>>

\* The logout ignores a token that is not valid by its own reading.
Consider(w) ==
  /\ request[w].at = "logout"
  /\ revoked' = S!Sweep(revoked, request[w].now)
  /\ request' = [request EXCEPT ![w] =
       IF IsValid(@.token, @.now) THEN [@ EXCEPT !.at = "revoke"] ELSE Idle]
  /\ UNCHANGED <<clock, issued, loggedOut, alarm>>

Revoke(w) ==
  LET t == request[w].token IN
  /\ request[w].at = "revoke"
  /\ revoked' = S!Put(revoked, t, TRUE, FALSE, request[w].now)
  /\ loggedOut' = loggedOut \cup {t}
  /\ alarm' = (alarm \/ S!Evicted(revoked, revoked', t, clock) # {})
  /\ request' = [request EXCEPT ![w] = Idle]
  /\ UNCHANGED <<clock, issued>>

Tick ==
  /\ clock < Horizon
  /\ \A w \in Worker : request[w].at # "idle" => clock - request[w].now < MaxLag
  /\ clock' = clock + 1
  /\ UNCHANGED <<revoked, issued, request, loggedOut, alarm>>

\* The process ends and another one starts.  Both stores are memory of the process;
\* the signing key comes from the settings and is the same again, so the tokens are
\* as good as before and what was revoked is forgotten.
Restart ==
  /\ revoked' = S!EmptyStore
  /\ request' = [w \in Worker |-> Idle]
  /\ loggedOut' = {}
  /\ alarm' = FALSE
  /\ UNCHANGED <<clock, issued>>

Next ==
  \/ Tick \/ Restart
  \/ \E t \in Token : Issue(t)
  \/ \E w \in Worker :
       \/ \E t \in Token, what \in {"check", "logout"} : Begin(w, t, what)
       \/ Check(w) \/ Consider(w) \/ Revoke(w)

Spec == Init /\ [][Next]_vars
-----------------------------------------------------------------------------
Request == [at : {"check", "logout", "revoke"}, token : Token, now : 0..Horizon]
Stored  == [key : Token, exp : 0..(Horizon + Retention), val : {TRUE}]

TypeOK ==
  /\ clock \in 0..Horizon
  /\ revoked \in [plain : Seq(Stored), guarded : {<<>>}] /\ S!WellFormed(revoked)
  /\ DOMAIN issued \subseteq Token /\ \A t \in DOMAIN issued : issued[t] \in Int
  /\ request \in [Worker -> {Idle} \cup Request]
  /\ loggedOut \subseteq Token
  /\ alarm \in BOOLEAN

\* What a check that is under way would answer now.
Accepts(w) == request[w].at = "check" /\ IsValid(request[w].token, request[w].now)

\* No check accepts a token after it was logged out, up to the last instant of its
\* age and whatever was swept or evicted in between, unless the alarm about an
\* evicted revocation was raised and as long as the process lives.
LogoutIsFinal ==
  ~alarm => \A w \in Worker : Accepts(w) => request[w].token \notin loggedOut
=============================================================================
