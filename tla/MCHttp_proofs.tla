---------------------------- MODULE MCHttp_proofs ----------------------------
(* Theorems about what the HTTP side remembers: the stream of a log, the    *)
(* revocation of sessions and the throttle of failed logins, for every      *)
(* value of the constants.  Each one is proved for the component by itself  *)
(* and for the composition that TLC runs.                                   *)
EXTENDS MCHttp, SequenceTheorems, FiniteSetTheorems, TLAPS
-----------------------------------------------------------------------------
(* The stream of a log.                                                    *)

\* Who may write, and whether there is a file, follow from the row.
StreamRow ==
  /\ row = "pending" <=> writer = "none"
  /\ row = "running" <=> writer \in {"process", "coroutine"}
  /\ writer = "none" => log = Stream!Absent
  /\ row = "running" => log # Stream!Absent

\* Until it looks at the row the stream has said nothing.  It follows a file, which
\* may have been unlinked since, and has read no more of it than there is; when it
\* looks at the row of a run that is over, it has read all of it.
StreamRead ==
  /\ stream.at # "ended" => stream.told = Stream!Silent
  /\ stream.at \in {"none", "wait"} => stream.sent = 0
  /\ stream.at \in {"tail", "ask"} /\ row # "deleted" =>
       log # Stream!Absent /\ stream.sent <= log
  /\ stream.at = "ask" /\ writer = "over" /\ row # "deleted" => stream.sent = log

StreamIInv == Stream!TypeOK /\ StreamRow /\ StreamRead /\ Stream!EndIsComplete

LEMMA StreamInit == ASSUME Stream!Init PROVE StreamIInv
BY HttpAssumption
   DEF Stream!Init, StreamIInv, Stream!TypeOK, StreamRow, StreamRead, Stream!EndIsComplete,
       Stream!NoStream, Stream!Absent, Stream!Silent, Stream!Terminal, Stream!StreamAssumption

\* The steps of the run.
LEMMA StreamRunStep ==
  ASSUME StreamIInv,
         \/ Stream!Start \/ Stream!NeverStarts \/ Stream!Write \/ Stream!ProcessEnds
         \/ Stream!Remark \/ Stream!Finish
  PROVE  StreamIInv'
<1> USE DEF StreamIInv, Stream!TypeOK, StreamRow, StreamRead, Stream!EndIsComplete,
            Stream!Absent, Stream!Silent, Stream!Terminal, Stream!LoopHeld
<1>0. Lines \in Nat \ {0}
  BY HttpAssumption DEF Stream!StreamAssumption
<1>1. CASE Stream!Start
  BY <1>0, <1>1 DEF Stream!Start
<1>2. CASE Stream!NeverStarts
  BY <1>2 DEF Stream!NeverStarts
<1>3. CASE Stream!Write
  BY <1>0, <1>3 DEF Stream!Write
<1>4. CASE Stream!ProcessEnds
  BY <1>4 DEF Stream!ProcessEnds
<1>5. CASE Stream!Remark
  BY <1>0, <1>5 DEF Stream!Remark
<1>6. CASE Stream!Finish
  BY <1>6 DEF Stream!Finish
<1>7. QED
  BY <1>1, <1>2, <1>3, <1>4, <1>5, <1>6

\* Deletion and restart.
LEMMA StreamLossStep ==
  ASSUME StreamIInv, Stream!Delete \/ Stream!Restart
  PROVE  StreamIInv'
<1> USE DEF StreamIInv, Stream!TypeOK, StreamRow, StreamRead, Stream!EndIsComplete,
            Stream!Absent, Stream!Silent, Stream!Terminal, Stream!LoopHeld
<1>0. Lines \in Nat \ {0} /\ Polls \in Nat
  BY HttpAssumption DEF Stream!StreamAssumption
<1>1. CASE Stream!Delete
  BY <1>1 DEF Stream!Delete
<1>2. CASE Stream!Restart
  BY <1>0, <1>2 DEF Stream!Restart, Stream!NoStream
<1>3. QED
  BY <1>1, <1>2

\* The steps of the stream.
LEMMA StreamReaderStep ==
  ASSUME StreamIInv,
         Stream!Connect \/ Stream!Look \/ Stream!ReadLine \/ Stream!Ask
  PROVE  StreamIInv'
<1> USE DEF StreamIInv, Stream!TypeOK, StreamRow, StreamRead, Stream!EndIsComplete,
            Stream!Absent, Stream!Silent, Stream!Terminal
<1>0. Lines \in Nat \ {0} /\ Polls \in Nat
  BY HttpAssumption DEF Stream!StreamAssumption
<1>1. CASE Stream!Connect
  <2>1. stream' = [at |-> "wait", polls |-> Polls, sent |-> 0, told |-> "nothing"]
    BY <1>1 DEF Stream!Connect, Stream!NoStream
  <2>2. stream.told = "nothing" /\ UNCHANGED <<row, log, writer>>
    BY <1>1 DEF Stream!Connect
  <2>3. QED
    BY <1>0, <2>1, <2>2
<1>2. CASE Stream!Look
  BY <1>0, <1>2 DEF Stream!Look
<1>3. CASE Stream!ReadLine
  <2>1. CASE Stream!Rest > 0
    BY <1>0, <1>3, <2>1 DEF Stream!ReadLine, Stream!Rest
  <2>2. CASE ~(Stream!Rest > 0)
    BY <1>0, <1>3, <2>2 DEF Stream!ReadLine, Stream!Rest
  <2>3. QED
    BY <2>1, <2>2
<1>4. CASE Stream!Ask
  BY <1>0, <1>4 DEF Stream!Ask
<1>5. QED
  BY <1>1, <1>2, <1>3, <1>4

LEMMA StreamStep ==
  ASSUME StreamIInv, Stream!Next \/ UNCHANGED Stream!vars
  PROVE  StreamIInv'
<1>1. CASE UNCHANGED Stream!vars
  BY <1>1 DEF Stream!vars, StreamIInv, Stream!TypeOK, StreamRow, StreamRead,
              Stream!EndIsComplete
<1>2. CASE Stream!Next
  BY <1>2, StreamRunStep, StreamLossStep, StreamReaderStep DEF Stream!Next
<1>3. QED
  BY <1>1, <1>2

\* Type correctness of the stream.
THEOREM StreamTypeCorrect == Stream!Spec => []Stream!TypeOK
<1>1. Stream!Init => StreamIInv
  BY StreamInit
<1>2. StreamIInv /\ [Stream!Next]_(Stream!vars) => StreamIInv'
  BY StreamStep
<1>3. StreamIInv => Stream!TypeOK
  BY DEF StreamIInv
<1>4. QED
  BY <1>1, <1>2, <1>3, PTL DEF Stream!Spec

\* A stream that ends with a state has sent the whole log of the run that ended in
\* it (stream_log), for any length of the log and any patience of the stream.
THEOREM StreamEndIsComplete == Stream!Spec => []Stream!EndIsComplete
<1>1. Stream!Init => StreamIInv
  BY StreamInit
<1>2. StreamIInv /\ [Stream!Next]_(Stream!vars) => StreamIInv'
  BY StreamStep
<1>3. StreamIInv => Stream!EndIsComplete
  BY DEF StreamIInv
<1>4. QED
  BY <1>1, <1>2, <1>3, PTL DEF Stream!Spec

\* The same beside the authentication stores.
THEOREM HttpEndIsComplete == Spec => []EndIsComplete
<1>1. Init => StreamIInv
  BY StreamInit DEF Init
<1>2. StreamIInv /\ [Next]_vars => StreamIInv'
  BY StreamStep DEF Next, vars, streamVars, Stream!vars
<1>3. StreamIInv => EndIsComplete
  BY DEF StreamIInv, EndIsComplete
<1>4. QED
  BY <1>1, <1>2, <1>3, PTL DEF Spec
-----------------------------------------------------------------------------
(* The revocation of sessions.                                             *)

\* The lemmas about the store, for the ids of revoked sessions.
RP == INSTANCE ExpiringStore_proofs
        WITH Key <- Token, Value <- {TRUE}, Ttl <- Sessions!Retention

LEMMA SweepIs ==
  ASSUME NEW store, NEW now
  PROVE  Sessions!S!Sweep(store, now) = RP!Sweep(store, now)
BY DEF Sessions!S!Sweep, RP!Sweep, Sessions!S!SweepTier, RP!SweepTier,
       Sessions!S!Live, RP!Live

LEMMA PutIs ==
  ASSUME NEW store, NEW key, NEW val, NEW guard, NEW now
  PROVE  Sessions!S!Put(store, key, val, guard, now) = RP!Put(store, key, val, guard, now)
<1>1. \A s : Sessions!S!Place(s, key, val, guard, now) = RP!Place(s, key, val, guard, now)
  BY DEF Sessions!S!Place, RP!Place, Sessions!S!Without, RP!Without,
         Sessions!S!Holds, RP!Holds, Sessions!S!Position, RP!Position,
         Sessions!S!RemoveAt, RP!RemoveAt,
         Sessions!S!Room, RP!Room, Sessions!S!GuardedCap, RP!GuardedCap
<1>2. \A s : Sessions!S!EnforceCap(s) = RP!EnforceCap(s)
  BY DEF Sessions!S!EnforceCap, RP!EnforceCap, Sessions!S!Size, RP!Size
<1>3. QED
  BY <1>1, <1>2, SweepIs DEF Sessions!S!Put, RP!Put

LEMMA StoreIs ==
  ASSUME NEW store
  PROVE  /\ Sessions!S!WellFormed(store) <=> RP!WellFormed(store)
         /\ Sessions!S!Entries(store) = RP!Entries(store)
         /\ Sessions!S!StoreAssumption <=> RP!StoreAssumption
BY DEF Sessions!S!WellFormed, RP!WellFormed, Sessions!S!GuardedCap, RP!GuardedCap,
       Sessions!S!Holds, RP!Holds, Sessions!S!Size, RP!Size,
       Sessions!S!Entries, RP!Entries, Sessions!S!StoreAssumption, RP!StoreAssumption

LEMMA RetentionFacts ==
  /\ MaxAge \in Nat /\ Skew \in Nat /\ Slack \in Nat /\ MaxLag \in Nat
  /\ Skew + MaxLag < Slack
  /\ Sessions!Retention = MaxAge + Slack /\ Sessions!Retention \in Nat
  /\ SessionHorizon \in Nat /\ Born \subseteq Int
  /\ RP!StoreAssumption
BY HttpAssumption, StoreIs DEF Sessions!RevocationAssumption, Sessions!Retention

\* A request works on a token that was issued and on a recent reading of the clock,
\* and a logout has found its token of age by that reading.
RequestsRecent ==
  \A w \in Worker : request[w].at # "idle" =>
    /\ request[w].token \in DOMAIN issued
    /\ request[w].now <= clock /\ clock <= request[w].now + MaxLag
    /\ request[w].at = "revoke" => Sessions!InAge(request[w].token, request[w].now)

\* A token that was logged out is still entered, until after the last reading that a
\* check may work on when the age of the token ends; or that time has come.
TooOld(t, now) == issued[t] + MaxAge + MaxLag < now
Entered(t)     == \E e \in Sessions!S!Entries(revoked) : e.key = t /\ TooOld(t, e.exp)
Lasting        == \A t \in loggedOut : Entered(t) \/ TooOld(t, clock)

SessionIInv ==
  /\ Sessions!TypeOK
  /\ loggedOut \subseteq DOMAIN issued
  /\ RequestsRecent
  /\ ~alarm => Lasting

LEMMA StoredAre ==
  /\ RP!Timed(Sessions!Stored)
  /\ \A e \in Sessions!Stored : e.key \in Token /\ e.exp \in Int
<1>1. SUFFICES ASSUME NEW e \in Sessions!Stored PROVE e.key \in Token /\ e.exp \in Int
  BY DEF RP!Timed
<1>2. e.key \in Token /\ e.exp \in 0..(SessionHorizon + Sessions!Retention)
  BY DEF Sessions!Stored
<1>3. QED
  BY <1>2, RetentionFacts

\* The types of the store, as the lemmas about it and as the type invariant say it.
LEMMA RevokedIs ==
  ASSUME NEW store
  PROVE  /\ store \in [plain : Seq(Sessions!Stored), guarded : {<<>>}] =>
              store \in RP!Tiers(Sessions!Stored) /\ store.guarded = <<>>
         /\ store \in RP!Tiers(Sessions!Stored) /\ store.guarded = <<>> =>
              store \in [plain : Seq(Sessions!Stored), guarded : {<<>>}]
<1>1. <<>> \in Seq(Sessions!Stored)
  OBVIOUS
<1>2. QED
  BY <1>1 DEF RP!Tiers

LEMMA SessionInit == ASSUME Sessions!Init PROVE SessionIInv
<1>1. PICK T \in SUBSET Token : issued \in [T -> Born]
  BY DEF Sessions!Init
<1>2. /\ clock = 0 /\ loggedOut = {} /\ alarm = FALSE
      /\ revoked = [plain |-> <<>>, guarded |-> <<>>]
      /\ request = [w \in Worker |-> [at |-> "idle"]]
  BY DEF Sessions!Init, Sessions!S!EmptyStore, Sessions!Idle
<1>3. DOMAIN issued \subseteq Token /\ \A t \in DOMAIN issued : issued[t] \in Int
  BY <1>1, RetentionFacts
<1>4. revoked \in [plain : Seq(Sessions!Stored), guarded : {<<>>}]
  BY <1>2
<1>5. Sessions!S!WellFormed(revoked)
  <2>1. DOMAIN revoked.plain = {} /\ DOMAIN revoked.guarded = {}
    BY <1>2
  <2>2. Len(revoked.plain) = 0 /\ Len(revoked.guarded) = 0
    BY <1>2
  <2>3. Cap \in Nat /\ Cap \div 2 \in Nat
    BY HttpAssumption DEF Sessions!S!StoreAssumption
  <2>4. QED
    BY <2>1, <2>2, <2>3
       DEF Sessions!S!WellFormed, Sessions!S!Size, Sessions!S!GuardedCap
<1>6. clock \in 0..SessionHorizon
  BY <1>2, RetentionFacts
<1>7. Sessions!TypeOK
  BY <1>2, <1>3, <1>4, <1>5, <1>6 DEF Sessions!TypeOK, Sessions!Idle
<1>8. QED
  BY <1>2, <1>7 DEF SessionIInv, RequestsRecent, Lasting

\* What a reading of the clock by a request in progress is worth.
LEMMA ReadingIs ==
  ASSUME SessionIInv, NEW w \in Worker, request[w].at # "idle"
  PROVE  /\ request[w] \in Sessions!Request
         /\ request[w].token \in Token /\ request[w].token \in DOMAIN issued
         /\ issued[request[w].token] \in Int
         /\ request[w].now \in 0..SessionHorizon /\ request[w].now \in Int
         /\ clock \in Int
         /\ request[w].now <= clock /\ clock <= request[w].now + MaxLag
<1>1. request[w] \in Sessions!Request
  BY DEF SessionIInv, Sessions!TypeOK, Sessions!Idle
<1>2. clock \in Int /\ \A t \in DOMAIN issued : issued[t] \in Int
  BY RetentionFacts DEF SessionIInv, Sessions!TypeOK
<1>3. QED
  BY <1>1, <1>2, RetentionFacts DEF SessionIInv, RequestsRecent, Sessions!Request

\* The store after a sweep by a reading that is not ahead of the clock.
LEMMA SessionSweep ==
  ASSUME SessionIInv, NEW now \in Int, now <= clock,
         revoked' = Sessions!S!Sweep(revoked, now),
         UNCHANGED <<clock, issued, loggedOut, alarm>>
  PROVE  /\ revoked' \in [plain : Seq(Sessions!Stored), guarded : {<<>>}]
         /\ Sessions!S!WellFormed(revoked')
         /\ (~alarm => Lasting)'
<1>1. revoked \in RP!Tiers(Sessions!Stored) /\ revoked.guarded = <<>> /\ RP!WellFormed(revoked)
  BY RevokedIs, StoreIs DEF SessionIInv, Sessions!TypeOK
<1>2. revoked' = RP!Sweep(revoked, now)
  BY SweepIs
<1>3. /\ revoked' \in RP!Tiers(Sessions!Stored) /\ RP!WellFormed(revoked')
      /\ RP!Entries(revoked') \subseteq RP!Entries(revoked)
      /\ \A e \in RP!Entries(revoked) : e.exp > now => e \in RP!Entries(revoked')
      /\ revoked'.guarded = <<>>
  BY <1>1, <1>2, StoredAre, RetentionFacts, RP!SweepKeeps
<1>4. ASSUME ~alarm, NEW t \in loggedOut
      PROVE  Entered(t)' \/ TooOld(t, clock)'
  <2>1. Entered(t) \/ TooOld(t, clock)
    BY <1>4 DEF SessionIInv, Lasting
  <2>2. CASE TooOld(t, clock)
    BY <2>2 DEF TooOld
  <2>3. CASE Entered(t)
    <3>1. PICK e \in RP!Entries(revoked) : e.key = t /\ TooOld(t, e.exp)
      BY <2>3, StoreIs DEF Entered
    <3>2. CASE e.exp > now
      <4>1. e \in RP!Entries(revoked')
        BY <1>3, <3>2
      <4>2. e \in Sessions!S!Entries(revoked)'
        BY <4>1, StoreIs
      <4>3. TooOld(t, e.exp)'
        BY <3>1 DEF TooOld
      <4>4. QED
        BY <3>1, <4>2, <4>3 DEF Entered
    <3>3. CASE ~(e.exp > now)
      <4>1. e.exp \in Int
        BY <1>1, StoredAre DEF RP!Entries, RP!Tiers
      <4>2. issued[t] \in Int /\ clock \in Int
        BY RetentionFacts DEF SessionIInv, Sessions!TypeOK
      <4>3. issued[t] + MaxAge + MaxLag < clock
        BY <3>1, <3>3, <4>1, <4>2, RetentionFacts DEF TooOld
      <4>4. QED
        BY <4>3 DEF TooOld
    <3>4. QED
      BY <3>2, <3>3
  <2>4. QED
    BY <2>1, <2>2, <2>3
<1>5. (~alarm => Lasting)'
  BY <1>4 DEF Lasting
<1>6. QED
  BY <1>3, <1>5, RevokedIs, StoreIs

\* A check answers, or a logout considers its token.
LEMMA SessionLook ==
  ASSUME SessionIInv, NEW w \in Worker, Sessions!Check(w) \/ Sessions!Consider(w)
  PROVE  SessionIInv'
<1>1. /\ request[w].at \in {"check", "logout"}
      /\ revoked' = Sessions!S!Sweep(revoked, request[w].now)
      /\ UNCHANGED <<clock, issued, loggedOut, alarm>>
  BY DEF Sessions!Check, Sessions!Consider
<1>2. /\ request[w] \in Sessions!Request
      /\ request[w].token \in DOMAIN issued
      /\ request[w].now \in Int
      /\ request[w].now <= clock /\ clock <= request[w].now + MaxLag
  BY <1>1, ReadingIs
<1>3. /\ revoked' \in [plain : Seq(Sessions!Stored), guarded : {<<>>}]
      /\ Sessions!S!WellFormed(revoked')
      /\ (~alarm => Lasting)'
  BY <1>1, <1>2, SessionSweep
<1>4. \/ request' = [request EXCEPT ![w] = Sessions!Idle]
      \/ /\ request' = [request EXCEPT ![w] = [request[w] EXCEPT !.at = "revoke"]]
         /\ Sessions!IsValid(request[w].token, request[w].now)
  BY DEF Sessions!Check, Sessions!Consider
<1>5. request \in [Worker -> {Sessions!Idle} \cup Sessions!Request]
  BY DEF SessionIInv, Sessions!TypeOK
<1>6. ASSUME NEW v \in Worker
      PROVE  /\ request'[v] \in {Sessions!Idle} \cup Sessions!Request
             /\ request'[v].at # "idle" =>
                  /\ request'[v].token \in DOMAIN issued
                  /\ request'[v].now <= clock /\ clock <= request'[v].now + MaxLag
                  /\ request'[v].at = "revoke" =>
                       Sessions!InAge(request'[v].token, request'[v].now)
  <2>1. CASE request'[v] = request[v]
    BY <1>5, <2>1 DEF SessionIInv, RequestsRecent
  <2>2. CASE request'[v] = Sessions!Idle
    BY <2>2 DEF Sessions!Idle
  <2>3. CASE /\ v = w /\ request'[v] = [request[w] EXCEPT !.at = "revoke"]
             /\ Sessions!IsValid(request[w].token, request[w].now)
    <3>1. /\ request'[v].at = "revoke" /\ request'[v].token = request[w].token
          /\ request'[v].now = request[w].now
      BY <1>2, <2>3 DEF Sessions!Request
    <3>2. request'[v] \in Sessions!Request
      BY <1>2, <2>3 DEF Sessions!Request
    <3>3. Sessions!InAge(request[w].token, request[w].now)
      BY <2>3 DEF Sessions!IsValid
    <3>4. QED
      BY <1>2, <3>1, <3>2, <3>3
  <2>4. QED
    BY <1>4, <1>5, <2>1, <2>2, <2>3
<1>7. request' \in [Worker -> {Sessions!Idle} \cup Sessions!Request]
  <2>1. DOMAIN request' = Worker /\ request' = [v \in Worker |-> request'[v]]
    BY <1>4, <1>5
  <2>2. QED
    BY <1>6, <2>1
<1>8. RequestsRecent'
  BY <1>1, <1>6 DEF RequestsRecent, Sessions!InAge
<1>9. Sessions!TypeOK'
  BY <1>1, <1>3, <1>7 DEF SessionIInv, Sessions!TypeOK
<1>10. QED
  BY <1>1, <1>3, <1>8, <1>9 DEF SessionIInv

\* A login, a new request, and the clock.
LEMMA SessionQuiet ==
  ASSUME SessionIInv,
         \/ \E t \in Token : Sessions!Issue(t)
         \/ \E w \in Worker, t \in Token, what \in {"check", "logout"} :
              Sessions!Begin(w, t, what)
         \/ Sessions!Tick
  PROVE  SessionIInv'
<1>0. /\ clock \in 0..SessionHorizon /\ clock \in Int
      /\ \A t \in DOMAIN issued : issued[t] \in Int
      /\ request \in [Worker -> {Sessions!Idle} \cup Sessions!Request]
  BY RetentionFacts DEF SessionIInv, Sessions!TypeOK
<1>1. ASSUME NEW t \in Token, Sessions!Issue(t)
      PROVE  SessionIInv'
  <2>1. /\ t \notin DOMAIN issued
        /\ UNCHANGED <<clock, revoked, request, loggedOut, alarm>>
    BY <1>1 DEF Sessions!Issue
  <2>2. DOMAIN issued' = DOMAIN issued \cup {t}
    BY <1>1 DEF Sessions!Issue
  <2>3. \A u \in DOMAIN issued : issued'[u] = issued[u]
    BY <1>1 DEF Sessions!Issue
  <2>4. issued'[t] \in Int
    <3>1. issued'[t] = Sessions!WholeSecond(clock)
      BY <1>1 DEF Sessions!Issue
    <3>2. QED
      BY <1>0, <3>1 DEF Sessions!WholeSecond
  <2>5. Sessions!TypeOK'
    BY <1>0, <2>1, <2>2, <2>3, <2>4 DEF SessionIInv, Sessions!TypeOK
  <2>6. RequestsRecent'
    BY <2>1, <2>2, <2>3 DEF SessionIInv, RequestsRecent, Sessions!InAge
  <2>7. (~alarm => Lasting)'
    <3>1. \A u \in loggedOut : u \in DOMAIN issued
      BY DEF SessionIInv
    <3>2. QED
      BY <2>1, <2>3, <3>1 DEF SessionIInv, Lasting, Entered, TooOld
  <2>8. QED
    BY <2>1, <2>2, <2>5, <2>6, <2>7 DEF SessionIInv
<1>2. ASSUME NEW w \in Worker, NEW t \in Token, NEW what \in {"check", "logout"},
             Sessions!Begin(w, t, what)
      PROVE  SessionIInv'
  <2>1. /\ t \in DOMAIN issued
        /\ request' = [request EXCEPT ![w] = [at |-> what, token |-> t, now |-> clock]]
        /\ UNCHANGED <<clock, revoked, issued, loggedOut, alarm>>
    BY <1>2 DEF Sessions!Begin
  <2>2. request' \in [Worker -> {Sessions!Idle} \cup Sessions!Request]
    <3>1. [at |-> what, token |-> t, now |-> clock] \in Sessions!Request
      BY <1>0 DEF Sessions!Request
    <3>2. QED
      BY <1>0, <2>1, <3>1
  <2>3. Sessions!TypeOK'
    BY <2>1, <2>2 DEF SessionIInv, Sessions!TypeOK
  <2>4. RequestsRecent'
    <3>1. SUFFICES ASSUME NEW v \in Worker, request'[v].at # "idle"
                   PROVE  /\ request'[v].token \in DOMAIN issued
                          /\ request'[v].now <= clock /\ clock <= request'[v].now + MaxLag
                          /\ request'[v].at = "revoke" =>
                               Sessions!InAge(request'[v].token, request'[v].now)
      BY <2>1 DEF RequestsRecent, Sessions!InAge
    <3>2. CASE v = w
      <4>1. request'[v] = [at |-> what, token |-> t, now |-> clock]
        BY <1>0, <2>1, <3>2
      <4>2. QED
        BY <1>0, <2>1, <4>1, RetentionFacts
    <3>3. CASE v # w
      <4>1. request'[v] = request[v]
        BY <1>0, <2>1, <3>3
      <4>2. QED
        BY <3>1, <4>1 DEF SessionIInv, RequestsRecent
    <3>4. QED
      BY <3>2, <3>3
  <2>5. (~alarm => Lasting)'
    BY <2>1 DEF SessionIInv, Lasting, Entered, TooOld
  <2>6. QED
    BY <2>1, <2>3, <2>4, <2>5 DEF SessionIInv
<1>3. ASSUME Sessions!Tick
      PROVE  SessionIInv'
  <2>1. /\ clock < SessionHorizon /\ clock' = clock + 1
        /\ \A w \in Worker : request[w].at # "idle" => clock - request[w].now < MaxLag
        /\ UNCHANGED <<revoked, issued, request, loggedOut, alarm>>
    BY <1>3 DEF Sessions!Tick
  <2>2. clock' \in 0..SessionHorizon /\ clock' \in Int
    BY <1>0, <2>1, RetentionFacts
  <2>3. Sessions!TypeOK'
    BY <2>1, <2>2 DEF SessionIInv, Sessions!TypeOK
  <2>4. RequestsRecent'
    <3>1. SUFFICES ASSUME NEW v \in Worker, request[v].at # "idle"
                   PROVE  /\ request[v].token \in DOMAIN issued
                          /\ request[v].now <= clock' /\ clock' <= request[v].now + MaxLag
                          /\ request[v].at = "revoke" =>
                               Sessions!InAge(request[v].token, request[v].now)
      BY <2>1 DEF RequestsRecent, Sessions!InAge
    <3>2. request[v].now \in Int /\ request[v].now <= clock
      BY <3>1, ReadingIs
    <3>3. request[v].now <= clock' /\ clock' <= request[v].now + MaxLag
      BY <1>0, <2>1, <3>1, <3>2, RetentionFacts
    <3>4. QED
      BY <3>1, <3>3 DEF SessionIInv, RequestsRecent
  <2>5. (~alarm => Lasting)'
    <3>1. ASSUME NEW t \in loggedOut, TooOld(t, clock) PROVE TooOld(t, clock)'
      <4>1. issued[t] \in Int
        BY <1>0 DEF SessionIInv
      <4>2. QED
        BY <1>0, <2>1, <3>1, <4>1, RetentionFacts DEF TooOld
    <3>2. \A t \in loggedOut : Entered(t) => Entered(t)'
      BY <2>1 DEF Entered, TooOld
    <3>3. QED
      BY <2>1, <3>1, <3>2 DEF SessionIInv, Lasting
  <2>6. QED
    BY <2>1, <2>3, <2>4, <2>5 DEF SessionIInv
<1>4. QED
  BY <1>1, <1>2, <1>3

\* The retention outlives the token: a logout enters it for longer than any check
\* may still find it of age.
LEMMA RetentionOutlives ==
  ASSUME NEW t, NEW now \in Int, issued[t] \in Int, Sessions!InAge(t, now)
  PROVE  TooOld(t, now + Sessions!Retention)
BY RetentionFacts DEF Sessions!InAge, TooOld

LEMMA SessionRevoke ==
  ASSUME SessionIInv, NEW w \in Worker, Sessions!Revoke(w)
  PROVE  SessionIInv'
<1>0. PICK t, now : t = request[w].token /\ now = request[w].now
  OBVIOUS
<1> DEFINE entry == [key |-> t, exp |-> now + Sessions!Retention, val |-> TRUE]
<1>1. /\ request[w].at = "revoke"
      /\ revoked' = Sessions!S!Put(revoked, t, TRUE, FALSE, now)
      /\ loggedOut' = loggedOut \cup {t}
      /\ alarm' = (alarm \/ Sessions!S!Evicted(revoked, revoked', t, clock) # {})
      /\ request' = [request EXCEPT ![w] = Sessions!Idle]
      /\ UNCHANGED <<clock, issued>>
  BY <1>0 DEF Sessions!Revoke
<1>2. /\ t \in Token /\ t \in DOMAIN issued
      /\ issued[t] \in Int
      /\ now \in 0..SessionHorizon /\ now \in Int
      /\ clock \in Int
      /\ now <= clock
  BY <1>0, <1>1, ReadingIs
<1>3. Sessions!InAge(t, now)
  BY <1>0, <1>1 DEF SessionIInv, RequestsRecent
<1>4. entry \in Sessions!Stored
  <2>1. now + Sessions!Retention \in 0..(SessionHorizon + Sessions!Retention)
    BY <1>2, RetentionFacts
  <2>2. QED
    BY <1>2, <2>1 DEF Sessions!Stored
<1>5. revoked \in RP!Tiers(Sessions!Stored) /\ revoked.guarded = <<>> /\ RP!WellFormed(revoked)
  BY RevokedIs, StoreIs DEF SessionIInv, Sessions!TypeOK
<1>6. revoked' = RP!Put(revoked, t, TRUE, FALSE, now)
  BY <1>1, PutIs
<1>7. /\ revoked' \in RP!Tiers(Sessions!Stored) /\ RP!WellFormed(revoked')
      /\ RP!Entries(revoked') \subseteq {e \in RP!Entries(revoked) : e.key # t} \cup {entry}
      /\ entry \in RP!Entries(revoked')
      /\ revoked'.guarded = <<>>
  <2>1. /\ RP!Put(revoked, t, TRUE, FALSE, now) \in RP!Tiers(Sessions!Stored)
        /\ RP!WellFormed(RP!Put(revoked, t, TRUE, FALSE, now))
        /\ RP!Takes(revoked, RP!Put(revoked, t, TRUE, FALSE, now), entry, FALSE, now)
    <3>1. FALSE \in BOOLEAN /\ entry \in Sessions!Stored
      BY <1>4
    <3> HIDE DEF entry
    <3>2. QED
      BY <1>2, <1>5, <3>1, StoredAre, RetentionFacts, RP!PutKeeps, ZenonT(60) DEF entry
  <2>2. RP!Takes(revoked, revoked', entry, FALSE, now)
    BY <1>6, <2>1, Zenon
  <2>3. entry.key = t
    OBVIOUS
  <2> HIDE DEF entry
  <2>4. QED
    BY <1>5, <1>6, <2>1, <2>2, <2>3, Zenon DEF RP!Takes
<1>8. Sessions!TypeOK'
  <2>1. /\ revoked' \in [plain : Seq(Sessions!Stored), guarded : {<<>>}]
        /\ Sessions!S!WellFormed(revoked')
    BY <1>7, RevokedIs, StoreIs
  <2>2. request' \in [Worker -> {Sessions!Idle} \cup Sessions!Request]
    BY <1>1 DEF SessionIInv, Sessions!TypeOK
  <2>3. loggedOut' \subseteq Token
    BY <1>1, <1>2 DEF SessionIInv, Sessions!TypeOK
  <2>4. alarm' \in BOOLEAN
    BY <1>1
  <2>5. QED
    BY <1>1, <2>1, <2>2, <2>3, <2>4 DEF SessionIInv, Sessions!TypeOK
<1>9. RequestsRecent'
  <2>1. SUFFICES ASSUME NEW v \in Worker, request'[v].at # "idle"
                 PROVE  request'[v] = request[v]
    BY <1>1 DEF SessionIInv, RequestsRecent, Sessions!InAge
  <2>2. request \in [Worker -> {Sessions!Idle} \cup Sessions!Request]
    BY DEF SessionIInv, Sessions!TypeOK
  <2>3. QED
    BY <1>1, <2>1, <2>2 DEF Sessions!Idle
<1>10. ASSUME ~alarm', NEW u \in loggedOut'
       PROVE  Entered(u)' \/ TooOld(u, clock)'
  <2>1. CASE u = t
    <3>1. TooOld(t, entry.exp)
      BY <1>2, <1>3, RetentionOutlives
    <3>2. entry \in Sessions!S!Entries(revoked)'
      BY <1>7, StoreIs
    <3>3. TooOld(u, entry.exp)'
      BY <1>1, <2>1, <3>1 DEF TooOld
    <3>4. QED
      BY <2>1, <3>2, <3>3 DEF Entered
  <2>2. CASE u # t
    <3>1. u \in loggedOut /\ ~alarm
      BY <1>1, <1>10, <2>2
    <3>2. Entered(u) \/ TooOld(u, clock)
      BY <3>1 DEF SessionIInv, Lasting
    <3>3. CASE TooOld(u, clock)
      BY <1>1, <3>3 DEF TooOld
    <3>4. CASE Entered(u)
      <4>1. PICK e \in RP!Entries(revoked) : e.key = u /\ TooOld(u, e.exp)
        BY <3>4, StoreIs DEF Entered
      <4>2. CASE e \in RP!Entries(revoked')
        <5>1. e \in Sessions!S!Entries(revoked)'
          BY <4>2, StoreIs
        <5>2. TooOld(u, e.exp)'
          BY <1>1, <4>1 DEF TooOld
        <5>3. QED
          BY <4>1, <5>1, <5>2 DEF Entered
      <4>3. CASE e \notin RP!Entries(revoked')
        \* Nobody was warned, so the entry had expired.
        <5>1. \A d \in RP!Entries(revoked') : d.key # u
          <6>1. SUFFICES ASSUME NEW d \in RP!Entries(revoked'), d.key = u PROVE FALSE
            OBVIOUS
          <6>2. d \in RP!Entries(revoked)
            BY <1>7, <2>2, <6>1
          <6>3. d = e
            BY <1>5, <4>1, <6>1, <6>2, RP!KeyIsUnique
          <6>4. QED
            BY <4>3, <6>3
        <5>2. e \notin Sessions!S!Evicted(revoked, revoked', t, clock)
          BY <1>1, <1>10
        <5>3. e.key \notin Sessions!S!Keys(revoked')
          BY <4>1, <5>1, StoreIs DEF Sessions!S!Keys
        <5>4. ~(e.exp > clock)
          BY <2>2, <4>1, <5>2, <5>3, StoreIs DEF Sessions!S!Evicted
        <5>5. e.exp \in Int
          BY <1>5, StoredAre DEF RP!Entries, RP!Tiers
        <5>6. issued[u] \in Int
          BY <3>1 DEF SessionIInv, Sessions!TypeOK
        <5>7. issued[u] + MaxAge + MaxLag < clock
          BY <1>2, <4>1, <5>4, <5>5, <5>6, RetentionFacts DEF TooOld
        <5>8. QED
          BY <1>1, <5>7 DEF TooOld
      <4>4. QED
        BY <4>2, <4>3
    <3>5. QED
      BY <3>2, <3>3, <3>4
  <2>3. QED
    BY <2>1, <2>2
<1>11. (~alarm => Lasting)'
  BY <1>10 DEF Lasting
<1>12. (loggedOut \subseteq DOMAIN issued)'
  BY <1>1, <1>2 DEF SessionIInv
<1>13. QED
  BY <1>8, <1>9, <1>11, <1>12 DEF SessionIInv

LEMMA SessionRestart ==
  ASSUME SessionIInv, Sessions!Restart
  PROVE  SessionIInv'
<1>1. /\ loggedOut' = {} /\ alarm' = FALSE
      /\ revoked' = [plain |-> <<>>, guarded |-> <<>>]
      /\ request' = [w \in Worker |-> [at |-> "idle"]]
      /\ UNCHANGED <<clock, issued>>
  BY DEF Sessions!Restart, Sessions!S!EmptyStore, Sessions!Idle
<1>2. revoked' \in [plain : Seq(Sessions!Stored), guarded : {<<>>}]
  BY <1>1
<1>3. Sessions!S!WellFormed(revoked')
  <2>1. DOMAIN revoked'.plain = {} /\ DOMAIN revoked'.guarded = {}
    BY <1>1
  <2>2. Len(revoked'.plain) = 0 /\ Len(revoked'.guarded) = 0
    BY <1>1
  <2>3. Cap \in Nat /\ Cap \div 2 \in Nat
    BY HttpAssumption DEF Sessions!S!StoreAssumption
  <2>4. QED
    BY <2>1, <2>2, <2>3
       DEF Sessions!S!WellFormed, Sessions!S!Size, Sessions!S!GuardedCap
<1>4. Sessions!TypeOK'
  BY <1>1, <1>2, <1>3 DEF SessionIInv, Sessions!TypeOK, Sessions!Idle
<1>5. QED
  BY <1>1, <1>4 DEF SessionIInv, RequestsRecent, Lasting

LEMMA SessionStep ==
  ASSUME SessionIInv, Sessions!Next \/ UNCHANGED Sessions!vars
  PROVE  SessionIInv'
<1>1. CASE UNCHANGED Sessions!vars
  BY <1>1 DEF Sessions!vars, SessionIInv, Sessions!TypeOK, RequestsRecent, Lasting,
              Entered, TooOld, Sessions!InAge
<1>2. CASE Sessions!Next
  BY <1>2, SessionLook, SessionQuiet, SessionRevoke, SessionRestart DEF Sessions!Next
<1>3. QED
  BY <1>1, <1>2

\* A check that is under way does not accept a token that was logged out: its entry
\* is found, or the age of the token is over by any reading of the clock in use.
LEMMA LogoutIsFinalIfLasting ==
  ASSUME SessionIInv
  PROVE  Sessions!LogoutIsFinal
<1>1. SUFFICES ASSUME ~alarm, NEW w \in Worker, Sessions!Accepts(w),
                      request[w].token \in loggedOut
               PROVE  FALSE
  BY DEF Sessions!LogoutIsFinal
<1> DEFINE t == request[w].token
           now == request[w].now
<1>2. /\ request[w].at = "check"
      /\ Sessions!S!Get(revoked, t, now) = {} /\ Sessions!InAge(t, now)
  BY <1>1 DEF Sessions!Accepts, Sessions!IsValid
<1>3. /\ issued[t] \in Int
      /\ now \in Int /\ clock \in Int
      /\ clock <= now + MaxLag
  BY <1>2, ReadingIs
<1>4. Entered(t) \/ TooOld(t, clock)
  BY <1>1 DEF SessionIInv, Lasting
<1> HIDE DEF t, now
<1>5. CASE TooOld(t, clock)
  BY <1>2, <1>3, <1>5, RetentionFacts DEF TooOld, Sessions!InAge
<1>6. CASE Entered(t)
  <2>1. PICK e \in RP!Entries(revoked) : e.key = t /\ TooOld(t, e.exp)
    BY <1>6, StoreIs DEF Entered
  <2>2. revoked \in RP!Tiers(Sessions!Stored) /\ RP!WellFormed(revoked)
    BY RevokedIs, StoreIs DEF SessionIInv, Sessions!TypeOK
  <2>3. RP!Get(revoked, t, now) = {d \in RP!Entries(revoked) : d.key = t /\ d.exp > now}
    BY <1>3, <2>2, StoredAre, RetentionFacts, RP!GetIs
  <2>4. Sessions!S!Get(revoked, t, now) = RP!Get(revoked, t, now)
    BY SweepIs, StoreIs DEF Sessions!S!Get, RP!Get, Sessions!S!Find, RP!Find
  <2>5. ~(e.exp > now)
    BY <1>2, <2>1, <2>3, <2>4
  <2>6. e.exp \in Int
    BY <2>2, StoredAre DEF RP!Entries, RP!Tiers
  <2>7. QED
    BY <1>2, <1>3, <2>1, <2>5, <2>6, RetentionFacts DEF TooOld, Sessions!InAge
<1>7. QED
  BY <1>4, <1>5, <1>6

\* Type correctness of the sessions; the store is bounded and has one entry per id.
THEOREM SessionTypeCorrect == Sessions!Spec => []Sessions!TypeOK
<1>1. Sessions!Init => SessionIInv
  BY SessionInit
<1>2. SessionIInv /\ [Sessions!Next]_(Sessions!vars) => SessionIInv'
  BY SessionStep
<1>3. SessionIInv => Sessions!TypeOK
  BY DEF SessionIInv
<1>4. QED
  BY <1>1, <1>2, <1>3, PTL DEF Sessions!Spec

\* No check accepts a token after it was logged out (session_is_valid, logout), for
\* any retention that outlives the tolerance by the longest lag of a thread.
THEOREM SessionLogoutIsFinal == Sessions!Spec => []Sessions!LogoutIsFinal
<1>1. Sessions!Init => SessionIInv
  BY SessionInit
<1>2. SessionIInv /\ [Sessions!Next]_(Sessions!vars) => SessionIInv'
  BY SessionStep
<1>3. SessionIInv => Sessions!LogoutIsFinal
  BY LogoutIsFinalIfLasting
<1>4. QED
  BY <1>1, <1>2, <1>3, PTL DEF Sessions!Spec

\* The same beside the stream, and beside the throttle, which shares the clock only.
THEOREM HttpLogoutIsFinal == Spec => []LogoutIsFinal
<1> DEFINE I == /\ used \in {"attempts", "revoked", "stream"}
                /\ IF used = "revoked" THEN SessionIInv
                   ELSE request = [w \in Worker |-> Sessions!Idle]
<1>1. Init => I
  <2>1. Init => request = [w \in Worker |-> Sessions!Idle]
    BY DEF Init, Sessions!Init
  <2>2. QED
    BY <2>1, SessionInit DEF Init
<1>2. I /\ [Next]_vars => I'
  <2>1. SUFFICES ASSUME I, [Next]_vars PROVE I'
    OBVIOUS
  <2>2. CASE used = "revoked"
    <3>1. UNCHANGED used /\ (Sessions!Next \/ UNCHANGED Sessions!vars)
      BY <2>1, <2>2 DEF Next, vars, sessionVars, Sessions!vars
    <3>2. SessionIInv'
      BY <2>1, <2>2, <3>1, SessionStep
    <3>3. QED
      BY <2>2, <3>1, <3>2
  <2>3. CASE used # "revoked"
    <3>1. UNCHANGED <<used, request>>
      BY <2>1, <2>3 DEF Next, vars, sessionVars
    <3>2. QED
      BY <2>1, <2>3, <3>1 DEF Sessions!Idle
  <2>4. QED
    BY <2>2, <2>3
<1>3. I => LogoutIsFinal
  <2>1. ASSUME request = [w \in Worker |-> Sessions!Idle] PROVE Sessions!LogoutIsFinal
    BY <2>1 DEF Sessions!LogoutIsFinal, Sessions!Accepts, Sessions!Idle
  <2>2. QED
    BY <2>1, LogoutIsFinalIfLasting DEF LogoutIsFinal
<1>4. QED
  BY <1>1, <1>2, <1>3, PTL DEF Spec
-----------------------------------------------------------------------------
(* The stamps of a client.                                                 *)

\* The function that Throttle!Since is read off, up to a position.
KeptTo(n, stamps, t, f) ==
  f = [i \in 0..n |-> IF i = 0 THEN <<>>
                      ELSE IF stamps[i] > t THEN Append(f[i - 1], stamps[i]) ELSE f[i - 1]]

LEMMA KeptExists ==
  ASSUME NEW stamps, NEW t, NEW len \in Nat
  PROVE  \E f : KeptTo(len, stamps, t, f)
<1> DEFINE Missing == {n \in Nat : ~ \E f : KeptTo(n, stamps, t, f)}
<1>1. SUFFICES ASSUME Missing # {} PROVE FALSE
  OBVIOUS
<1>2. PICK m \in Missing : \A n \in Missing : m <= n
  BY <1>1, RP!LeastIndex
<1>3. m \in Nat /\ ~ \E f : KeptTo(m, stamps, t, f)
  OBVIOUS
<1>4. CASE m = 0
  <2> DEFINE g == [i \in 0..0 |-> <<>>]
  <2>1. KeptTo(0, stamps, t, g)
    BY DEF KeptTo
  <2>2. QED
    BY <1>3, <1>4, <2>1
<1>5. CASE m # 0
  <2>1. m - 1 \in Nat /\ m - 1 \notin Missing
    BY <1>2, <1>3, <1>5
  <2>2. PICK f : KeptTo(m - 1, stamps, t, f)
    BY <2>1
  <2> DEFINE g == [i \in 0..m |-> IF i < m THEN f[i]
                                  ELSE IF stamps[m] > t THEN Append(f[m - 1], stamps[m])
                                  ELSE f[m - 1]]
             h == [i \in 0..m |-> IF i = 0 THEN <<>>
                                  ELSE IF stamps[i] > t THEN Append(g[i - 1], stamps[i])
                                  ELSE g[i - 1]]
  <2>3. \A i \in 0..(m - 1) : g[i] = f[i]
    BY <1>3
  <2>4. \A i \in 0..(m - 1) :
          f[i] = IF i = 0 THEN <<>>
                 ELSE IF stamps[i] > t THEN Append(f[i - 1], stamps[i]) ELSE f[i - 1]
    BY <2>2 DEF KeptTo
  <2>5. g[m] = IF stamps[m] > t THEN Append(f[m - 1], stamps[m]) ELSE f[m - 1]
    BY <1>3
  <2> HIDE DEF g
  <2>6. ASSUME NEW i \in 0..m
        PROVE  g[i] = IF i = 0 THEN <<>>
                      ELSE IF stamps[i] > t THEN Append(g[i - 1], stamps[i]) ELSE g[i - 1]
    <3>1. CASE i = m
      <4>1. m - 1 \in 0..(m - 1)
        BY <1>3, <1>5
      <4>2. g[m - 1] = f[m - 1]
        BY <2>3, <4>1
      <4>3. QED
        BY <1>5, <2>5, <3>1, <4>2
    <3>2. CASE i # m
      <4>1. i \in 0..(m - 1)
        BY <1>3, <3>2
      <4>2. i # 0 => g[i - 1] = f[i - 1]
        <5>1. i # 0 => i - 1 \in 0..(m - 1)
          BY <1>3, <4>1
        <5>2. QED
          BY <2>3, <5>1
      <4>3. g[i] = f[i]
        BY <2>3, <4>1
      <4>4. QED
        BY <2>4, <4>1, <4>2, <4>3
    <3>3. QED
      BY <3>1, <3>2
  <2>7. g = h
    <3>1. g = [i \in 0..m |-> g[i]]
      BY DEF g
    <3>2. QED
      BY <2>6, <3>1
  <2>8. KeptTo(m, stamps, t, g)
    BY <2>7 DEF KeptTo
  <2>9. QED
    BY <1>3, <2>8
<1>6. QED
  BY <1>4, <1>5

\* What is kept of the first n stamps: only stamps after t, in their order and none
\* of them twice, and of a run of stamps at the end that are after t, all.
KeptOf(kept, stamps, t, n) ==
  /\ kept \in Seq(Int) /\ Len(kept) <= n
  /\ \A i \in 1..Len(kept) : kept[i] > t
  /\ \A i \in 1..Len(kept) :
       \E k \in 1..n : kept[i] = stamps[k] /\ i <= k /\ k - i <= n - Len(kept)
  /\ \A m \in 0..n :
       (\A k \in (n - m + 1)..n : stamps[k] > t) =>
         /\ m <= Len(kept)
         /\ \A j \in 0..(m - 1) : kept[Len(kept) - j] = stamps[n - j]

LEMMA KeptDrops ==
  ASSUME NEW stamps \in Seq(Int), NEW t \in Int, NEW n \in 1..Len(stamps),
         NEW kept, KeptOf(kept, stamps, t, n - 1), ~(stamps[n] > t)
  PROVE  KeptOf(kept, stamps, t, n)
<1>1. /\ kept \in Seq(Int) /\ Len(kept) <= n - 1 /\ Len(kept) \in Nat /\ n \in Nat
      /\ \A i \in 1..Len(kept) : kept[i] > t
  BY DEF KeptOf
<1>2. ASSUME NEW i \in 1..Len(kept)
      PROVE  \E k \in 1..n : kept[i] = stamps[k] /\ i <= k /\ k - i <= n - Len(kept)
  <2>1. PICK k \in 1..(n - 1) : kept[i] = stamps[k] /\ i <= k /\ k - i <= n - 1 - Len(kept)
    BY DEF KeptOf
  <2>2. k \in 1..n /\ k - i <= n - Len(kept)
    BY <1>1, <2>1
  <2>3. QED
    BY <2>1, <2>2
<1>3. ASSUME NEW m \in 0..n, \A k \in (n - m + 1)..n : stamps[k] > t
      PROVE  m = 0
  BY <1>1, <1>3
<1>4. \A m \in 0..n :
        (\A k \in (n - m + 1)..n : stamps[k] > t) =>
          /\ m <= Len(kept)
          /\ \A j \in 0..(m - 1) : kept[Len(kept) - j] = stamps[n - j]
  BY <1>1, <1>3
<1>5. Len(kept) <= n
  BY <1>1
<1>6. QED
  BY <1>1, <1>2, <1>4, <1>5 DEF KeptOf

LEMMA KeptAppends ==
  ASSUME NEW stamps \in Seq(Int), NEW t \in Int, NEW n \in 1..Len(stamps),
         NEW kept, KeptOf(kept, stamps, t, n - 1), stamps[n] > t
  PROVE  KeptOf(Append(kept, stamps[n]), stamps, t, n)
<1> DEFINE longer == Append(kept, stamps[n])
           len == Len(kept)
<1>1. /\ kept \in Seq(Int) /\ len <= n - 1 /\ len \in Nat /\ n \in Nat
      /\ \A i \in 1..len : kept[i] > t
  BY DEF KeptOf
<1>2. /\ longer \in Seq(Int) /\ Len(longer) = len + 1
      /\ \A i \in 1..len : longer[i] = kept[i]
      /\ longer[len + 1] = stamps[n]
  <2>1. stamps[n] \in Int
    OBVIOUS
  <2>2. QED
    BY <1>1, <2>1, AppendProperties
<1>3. \A i \in 1..len :
        \E k \in 1..(n - 1) : kept[i] = stamps[k] /\ i <= k /\ k - i <= n - 1 - len
  BY DEF KeptOf
<1>4. \A m \in 0..(n - 1) :
        (\A k \in (n - 1 - m + 1)..(n - 1) : stamps[k] > t) =>
          /\ m <= len
          /\ \A j \in 0..(m - 1) : kept[len - j] = stamps[n - 1 - j]
  BY DEF KeptOf
<1> HIDE DEF longer, len
<1>5. ASSUME NEW i \in 1..(len + 1)
      PROVE  /\ longer[i] > t
             /\ \E k \in 1..n : longer[i] = stamps[k] /\ i <= k /\ k - i <= n - (len + 1)
  <2>1. CASE i = len + 1
    <3>1. n \in 1..n /\ i <= n /\ n - i <= n - (len + 1)
      BY <1>1, <2>1
    <3>2. QED
      BY <1>2, <2>1, <3>1
  <2>2. CASE i # len + 1
    <3>1. i \in 1..len
      BY <1>1, <2>2
    <3>2. PICK k \in 1..(n - 1) : kept[i] = stamps[k] /\ i <= k /\ k - i <= n - 1 - len
      BY <1>3, <3>1
    <3>3. k \in 1..n /\ k - i <= n - (len + 1)
      BY <1>1, <3>1, <3>2
    <3>4. QED
      BY <1>1, <1>2, <3>1, <3>2, <3>3
  <2>3. QED
    BY <2>1, <2>2
<1>6. ASSUME NEW m \in 0..n, \A k \in (n - m + 1)..n : stamps[k] > t
      PROVE  /\ m <= len + 1
             /\ \A j \in 0..(m - 1) : longer[len + 1 - j] = stamps[n - j]
  <2>1. CASE m = 0
    BY <1>1, <2>1
  <2>2. CASE m # 0
    <3>1. m - 1 \in 0..(n - 1)
      BY <1>1, <2>2
    <3>2. \A k \in (n - 1 - (m - 1) + 1)..(n - 1) : stamps[k] > t
      <4>1. \A k \in (n - 1 - (m - 1) + 1)..(n - 1) : k \in (n - m + 1)..n
        BY <1>1, <2>2
      <4>2. QED
        BY <1>6, <4>1
    <3>3. /\ m - 1 <= len
          /\ \A j \in 0..(m - 1 - 1) : kept[len - j] = stamps[n - 1 - j]
      BY <1>4, <3>1, <3>2
    <3>4. ASSUME NEW j \in 0..(m - 1)
          PROVE  longer[len + 1 - j] = stamps[n - j]
      <4>1. CASE j = 0
        <5>1. len + 1 - j = len + 1 /\ n - j = n
          BY <1>1, <4>1
        <5>2. QED
          BY <1>2, <5>1
      <4>2. CASE j # 0
        <5>1. /\ j - 1 \in 0..(m - 1 - 1) /\ len - (j - 1) = len + 1 - j
              /\ n - 1 - (j - 1) = n - j /\ len + 1 - j \in 1..len
          BY <1>1, <3>3, <4>2
        <5>2. kept[len + 1 - j] = stamps[n - j]
          BY <3>3, <5>1
        <5>3. QED
          BY <1>2, <5>1, <5>2
      <4>3. QED
        BY <4>1, <4>2
    <3>5. m <= len + 1
      BY <1>1, <3>1, <3>3
    <3>6. QED
      BY <3>4, <3>5
  <2>3. QED
    BY <2>1, <2>2
<1> DEFINE all == Len(longer)
<1>7. all = len + 1 /\ all <= n
  BY <1>1, <1>2
<1> HIDE DEF all
<1>8. \A i \in 1..all :
        /\ longer[i] > t
        /\ \E k \in 1..n : longer[i] = stamps[k] /\ i <= k /\ k - i <= n - all
  BY <1>5, <1>7
<1>9. \A m \in 0..n :
        (\A k \in (n - m + 1)..n : stamps[k] > t) =>
          /\ m <= all
          /\ \A j \in 0..(m - 1) : longer[all - j] = stamps[n - j]
  <2>1. SUFFICES ASSUME NEW m \in 0..n, \A k \in (n - m + 1)..n : stamps[k] > t
                 PROVE  /\ m <= all
                        /\ \A j \in 0..(m - 1) : longer[all - j] = stamps[n - j]
    OBVIOUS
  <2>2. /\ m <= len + 1
        /\ \A j \in 0..(m - 1) : longer[len + 1 - j] = stamps[n - j]
    BY <1>6, <2>1
  <2>3. QED
    <3>1. \A j \in 0..(m - 1) : all - j = len + 1 - j
      BY <1>1, <1>7
    <3>2. QED
      BY <1>1, <1>7, <2>2, <3>1
<1>10. KeptOf(longer, stamps, t, n)
  BY <1>2, <1>7, <1>8, <1>9 DEF KeptOf, all
<1>11. QED
  BY <1>10 DEF longer

LEMMA SinceIs ==
  ASSUME NEW stamps \in Seq(Int), NEW t \in Int
  PROVE  KeptOf(Throttle!Since(stamps, t), stamps, t, Len(stamps))
<1> DEFINE len == Len(stamps)
<1>1. len \in Nat /\ DOMAIN stamps = 1..len /\ \A i \in 1..len : stamps[i] \in Int
  OBVIOUS
<1>2. CASE \A i \in DOMAIN stamps : stamps[i] > t
  <2>1. Throttle!Since(stamps, t) = stamps
    BY <1>2 DEF Throttle!Since
  <2>2. \A i \in 1..len : stamps[i] > t
    BY <1>1, <1>2
  <2>3. \A i \in 1..len : i \in 1..len /\ i <= i /\ i - i <= len - len
    BY <1>1
  <2>4. KeptOf(stamps, stamps, t, len)
    BY <1>1, <2>2, <2>3 DEF KeptOf
  <2>5. QED
    BY <2>1, <2>4
<1>3. CASE ~ \A i \in DOMAIN stamps : stamps[i] > t
  <2> DEFINE f == CHOOSE f : KeptTo(len, stamps, t, f)
  <2>1. Throttle!Since(stamps, t) = f[len]
    BY <1>3 DEF Throttle!Since, KeptTo
  <2>2. KeptTo(len, stamps, t, f)
    BY <1>1, KeptExists
  <2> HIDE DEF f, len
  <2>3. \A i \in 0..len :
          f[i] = IF i = 0 THEN <<>>
                 ELSE IF stamps[i] > t THEN Append(f[i - 1], stamps[i]) ELSE f[i - 1]
    BY <2>2 DEF KeptTo
  <2> DEFINE Wrong == {n \in 0..len : ~KeptOf(f[n], stamps, t, n)}
  <2>4. ASSUME Wrong # {} PROVE FALSE
    <3>1. Wrong \subseteq Nat
      OBVIOUS
    <3>2. PICK m \in Wrong : \A n \in Wrong : m <= n
      BY <2>4, <3>1, RP!LeastIndex
    <3>3. m \in 0..len /\ ~KeptOf(f[m], stamps, t, m)
      OBVIOUS
    <3>4. CASE m = 0
      <4>1. f[0] = <<>>
        BY <2>3, <3>3, <3>4
      <4>2. /\ f[0] \in Seq(Int) /\ Len(f[0]) = 0
        BY <4>1
      <4>3. KeptOf(f[0], stamps, t, 0)
        BY <4>2 DEF KeptOf
      <4>4. QED
        BY <3>3, <3>4, <4>3
    <3>5. CASE m # 0
      <4>1. m \in 1..len /\ m - 1 \in 0..len /\ ~(m <= m - 1)
        BY <1>1, <3>3, <3>5 DEF len
      <4>2. KeptOf(f[m - 1], stamps, t, m - 1)
        BY <3>2, <4>1
      <4>3. f[m] = IF stamps[m] > t THEN Append(f[m - 1], stamps[m]) ELSE f[m - 1]
        BY <2>3, <3>3, <3>5
      <4>4. m \in 1..Len(stamps)
        BY <4>1 DEF len
      <4>5. QED
        BY <3>3, <4>2, <4>3, <4>4, KeptAppends, KeptDrops
    <3>6. QED
      BY <3>4, <3>5
  <2>5. len \in 0..len
    BY <1>1 DEF len
  <2>6. KeptOf(f[len], stamps, t, len)
    BY <2>4, <2>5
  <2>7. QED
    BY <2>1, <2>6 DEF len
<1>4. QED
  BY <1>2, <1>3
-----------------------------------------------------------------------------
(* The throttle of failed logins.                                          *)

TP == INSTANCE ExpiringStore_proofs
        WITH Key <- Throttle!Address, Value <- Throttle!Stamps, Ttl <- Lockout

\* Whatever the header says, a request is charged to where it came from.
OwnKeys == \A w \in Worker : login[w].at # "idle" => login[w].key = login[w].origin

\* The readings of the clock in use.
LoginsRecent ==
  \A w \in Worker : login[w].at \in {"ask", "record", "clear"} =>
    login[w].now <= clock /\ clock <= login[w].now + MaxLag

\* An entry holds one stamp at least and expires a lockout after the last of them;
\* it is protected exactly when it holds as many as make a lockout.
Shaped(e) == /\ 1 <= Len(e.val) /\ Len(e.val) <= MaxFailures
             /\ e.exp = e.val[Len(e.val)] + Lockout
Shapes ==
  /\ \A e \in TP!Within(attempts.plain)   : Shaped(e) /\ Len(e.val) < MaxFailures
  /\ \A e \in TP!Within(attempts.guarded) : Shaped(e) /\ Len(e.val) = MaxFailures

\* What the store has of a client whose failures are kept.  Counted from the last,
\* each of them that could still lock it out has a stamp that no reading in use finds
\* too old, and that is older than the failures before it by the lag at most.
Backed(o, e) ==
  \A j \in 0..(MaxFailures - 1) : j < Len(failures[o]) =>
    /\ j < Len(e.val)
    /\ e.val[Len(e.val) - j] > clock - Lockout
    /\ \A i \in j..(Len(failures[o]) - 1) :
         failures[o][Len(failures[o]) - i] <= e.val[Len(e.val) - j] + MaxLag
Remembered ==
  \A o \in Origin : failures[o] # <<>> =>
    \E e \in TP!Entries(attempts) : e.key = o /\ Backed(o, e)

FailuresPast == \A o \in Origin : \A i \in DOMAIN failures[o] : failures[o][i] <= clock

\* The threads that have passed the throttle on behalf of a client.
Passed(o) == {w \in Worker : login[w].at \in {"compare", "record"} /\ login[w].origin = o}
Guessing ==
  \A o \in Origin :
    Len(failures[o]) + Cardinality(Passed(o)) <= MaxFailures - 1 + Cardinality(Worker)

ThrottleIInv ==
  /\ Throttle!TypeOK
  /\ OwnKeys /\ LoginsRecent /\ Shapes /\ Remembered /\ FailuresPast /\ Guessing

\* Finite sets, as the throttle and as the library know them.
LEMMA SizesAre ==
  ASSUME NEW T
  PROVE  /\ Throttle!IsFiniteSet(T) <=> IsFiniteSet(T)
         /\ Throttle!Cardinality(T) = Cardinality(T)
BY DEF Throttle!IsFiniteSet, IsFiniteSet, Throttle!Cardinality, Cardinality

LEMMA ThrottleFacts ==
  /\ MaxFailures \in Nat \ {0} /\ Lockout \in Nat \ {0} /\ MaxLag \in Nat /\ MaxLag < Lockout
  /\ LoginHorizon \in Nat /\ Throttle!Window = Lockout - MaxLag
  /\ Origin \cap Proxy = {} /\ Throttle!Junk \notin Origin \cup Proxy
  /\ IsFiniteSet(Worker) /\ Cardinality(Worker) \in Nat
<1>1. Throttle!ThrottleAssumption
  BY HttpAssumption
<1>2. MaxLag \in Nat /\ MaxLag < Lockout
  BY <1>1 DEF Throttle!ThrottleAssumption
<1>3. IsFiniteSet(Worker) /\ Cardinality(Worker) \in Nat
  BY <1>1, SizesAre, FS_CardinalityType DEF Throttle!ThrottleAssumption
<1>4. QED
  BY <1>1, <1>2, <1>3 DEF Throttle!ThrottleAssumption, Throttle!Window, Throttle!Address

LEMMA AttemptsStore == TP!StoreAssumption
BY HttpAssumption DEF Throttle!S!StoreAssumption, TP!StoreAssumption

LEMMA TStoreIs ==
  ASSUME NEW store
  PROVE  /\ Throttle!S!WellFormed(store) <=> TP!WellFormed(store)
         /\ Throttle!S!Entries(store) = TP!Entries(store)
         /\ Throttle!S!Keys(store) = TP!Keys(store)
         /\ Throttle!S!GuardedCap = TP!GuardedCap
         /\ \A tier, key : Throttle!S!Holds(tier, key) <=> TP!Holds(tier, key)
BY DEF Throttle!S!WellFormed, TP!WellFormed, Throttle!S!GuardedCap, TP!GuardedCap,
       Throttle!S!Holds, TP!Holds, Throttle!S!Size, TP!Size,
       Throttle!S!Entries, TP!Entries, Throttle!S!Keys, TP!Keys

LEMMA TSweepIs ==
  ASSUME NEW store, NEW now
  PROVE  Throttle!S!Sweep(store, now) = TP!Sweep(store, now)
BY DEF Throttle!S!Sweep, TP!Sweep, Throttle!S!SweepTier, TP!SweepTier,
       Throttle!S!Live, TP!Live

LEMMA TWithoutIs ==
  ASSUME NEW tier, NEW key
  PROVE  Throttle!S!Without(tier, key) = TP!Without(tier, key)
BY DEF Throttle!S!Without, TP!Without, Throttle!S!Holds, TP!Holds,
       Throttle!S!Position, TP!Position, Throttle!S!RemoveAt, TP!RemoveAt

LEMMA TPutIs ==
  ASSUME NEW store, NEW key, NEW val, NEW guard, NEW now
  PROVE  Throttle!S!Put(store, key, val, guard, now) = TP!Put(store, key, val, guard, now)
<1>1. \A s : Throttle!S!Place(s, key, val, guard, now) = TP!Place(s, key, val, guard, now)
  BY TWithoutIs DEF Throttle!S!Place, TP!Place, Throttle!S!Room, TP!Room,
                    Throttle!S!GuardedCap, TP!GuardedCap
<1>2. \A s : Throttle!S!EnforceCap(s) = TP!EnforceCap(s)
  BY DEF Throttle!S!EnforceCap, TP!EnforceCap, Throttle!S!Size, TP!Size
<1>3. QED
  BY <1>1, <1>2, TSweepIs DEF Throttle!S!Put, TP!Put

LEMMA TAnswersAre ==
  ASSUME NEW store, NEW key, NEW now
  PROVE  /\ Throttle!S!Drop(store, key, now) = TP!Drop(store, key, now)
         /\ Throttle!S!Find(store, key) = TP!Find(store, key)
         /\ Throttle!S!Get(store, key, now) = TP!Get(store, key, now)
BY TWithoutIs, TSweepIs, TStoreIs
   DEF Throttle!S!Drop, TP!Drop, Throttle!S!Find, TP!Find, Throttle!S!Get, TP!Get

\* The walk from the right stops at the last hop that is not a proxy of ours.
LEMMA LastForeign ==
  ASSUME NEW o \in Origin, NEW peer \in Proxy, NEW Hop, NEW hops \in Seq(Hop),
         NEW n \in 1..Len(hops), hops[n] = o,
         \A i \in 1..Len(hops) : i > n => hops[i] \in Proxy
  PROVE  Throttle!ClientIdentity(peer, hops) = o
<1> DEFINE foreign == {i \in DOMAIN hops : hops[i] \notin Proxy}
           last    == CHOOSE i \in foreign : \A j \in foreign : j <= i
<1>1. o \notin Proxy /\ o # Throttle!Junk
  BY ThrottleFacts
<1>2. n \in foreign /\ \A j \in foreign : j <= n
  BY <1>1
<1>3. last \in foreign /\ \A j \in foreign : j <= last
  BY <1>2
<1>4. \A i \in foreign : i \in Nat
  OBVIOUS
<1>5. Throttle!ClientIdentity(peer, hops) =
        IF peer \notin Proxy \/ foreign = {} \/ hops[last] = Throttle!Junk
        THEN peer ELSE hops[last]
  BY DEF Throttle!ClientIdentity
<1> HIDE DEF foreign, last
<1>6. last = n
  BY <1>2, <1>3, <1>4
<1>7. QED
  BY <1>1, <1>2, <1>5, <1>6

\* client_identity: a request is charged to where it came from, whatever its sender
\* wrote into the header.
LEMMA ClientIsOrigin ==
  ASSUME NEW o \in Origin, NEW a \in Throttle!Arrivals(o)
  PROVE  Throttle!ClientIdentity(a.peer, a.hops) = o
<1> DEFINE Hop == Throttle!Address \cup {Throttle!Junk}
<1>0. o \in Hop /\ Proxy \subseteq Hop /\ Throttle!Junk \in Hop /\ Throttle!Address \subseteq Hop
  BY DEF Throttle!Address
<1> HIDE DEF Hop
<1>1. ASSUME NEW c \in Throttle!Claims
      PROVE  /\ Append(c, o) \in Seq(Hop) /\ Len(Append(c, o)) = Len(c) + 1 /\ Len(c) \in Nat
             /\ Append(c, o)[Len(c) + 1] = o
  <2>1. \/ c = <<>> \/ c = <<Throttle!Junk>>
        \/ \E x \in Throttle!Address : c = <<x>>
    BY <1>1 DEF Throttle!Claims
  <2>3. c \in Seq(Hop)
    <3>1. <<>> \in Seq(Hop) /\ <<Throttle!Junk>> \in Seq(Hop)
      BY <1>0
    <3>2. \A x \in Throttle!Address : <<x>> \in Seq(Hop)
      BY <1>0
    <3>3. QED
      BY <2>1, <3>1, <3>2, Zenon
  <2>4. QED
    BY <1>0, <2>3, AppendProperties
<1>2. ASSUME NEW p \in Proxy, NEW h \in {Append(c, o) : c \in Throttle!Claims}
      PROVE  Throttle!ClientIdentity(p, h) = o
  <2>1. PICK c \in Throttle!Claims : h = Append(c, o)
    OBVIOUS
  <2>2. /\ h \in Seq(Hop) /\ Len(h) = Len(c) + 1 /\ Len(c) \in Nat /\ h[Len(c) + 1] = o
    BY <1>1, <2>1
  <2>3. /\ Len(c) + 1 \in 1..Len(h)
        /\ \A i \in 1..Len(h) : ~(i > Len(c) + 1)
    BY <2>2
  <2>4. QED
    BY <2>2, <2>3, LastForeign
<1>3. ASSUME NEW p \in Proxy, NEW q \in Proxy, NEW h \in {Append(c, o) : c \in Throttle!Claims}
      PROVE  Throttle!ClientIdentity(p, Append(h, q)) = o
  <2>1. PICK c \in Throttle!Claims : h = Append(c, o)
    OBVIOUS
  <2>2. /\ h \in Seq(Hop) /\ Len(h) = Len(c) + 1 /\ Len(c) \in Nat /\ h[Len(c) + 1] = o
    BY <1>1, <2>1
  <2> DEFINE hops == Append(h, q)
             n    == Len(h)
  <2>3. /\ hops \in Seq(Hop) /\ Len(hops) = n + 1 /\ hops[n + 1] = q
        /\ \A i \in 1..n : hops[i] = h[i]
    BY <1>0, <2>2, AppendProperties
  <2>4. n \in Nat \ {0} /\ h[n] = o
    BY <2>2
  <2> HIDE DEF hops, n
  <2>5. n \in 1..Len(hops) /\ hops[n] = o
    BY <2>3, <2>4
  <2>6. \A i \in 1..Len(hops) : i > n => hops[i] \in Proxy
    <3>1. \A i \in 1..(n + 1) : i > n => i = n + 1
      BY <2>4
    <3>2. QED
      BY <2>3, <3>1
  <2>7. Throttle!ClientIdentity(p, hops) = o
    BY <2>3, <2>5, <2>6, LastForeign
  <2>8. QED
    BY <2>7 DEF hops
<1>4. CASE a \in {[peer |-> o, hops |-> c] : c \in Throttle!Claims}
  <2>1. a.peer = o /\ o \notin Proxy
    BY <1>4, ThrottleFacts
  <2>2. QED
    BY <2>1 DEF Throttle!ClientIdentity
<1>5. CASE a \in {[peer |-> p, hops |-> h] : p \in Proxy, h \in Throttle!Relayed(o)}
  <2>1. PICK p \in Proxy, h \in Throttle!Relayed(o) : a = [peer |-> p, hops |-> h]
    BY <1>5
  <2>2. \/ h \in {Append(c, o) : c \in Throttle!Claims}
        \/ \E g \in {Append(c, o) : c \in Throttle!Claims}, q \in Proxy : h = Append(g, q)
    BY DEF Throttle!Relayed
  <2>3. Throttle!ClientIdentity(p, h) = o
    BY <1>2, <1>3, <2>2
  <2>4. QED
    BY <2>1, <2>3
<1>6. QED
  BY <1>4, <1>5 DEF Throttle!Arrivals

\* The stamps after an instant are stamps of the client, and all of them if all are.
LEMMA SinceKeeps ==
  ASSUME NEW S, S \subseteq Int, NEW stamps \in Seq(S), NEW t \in Int
  PROVE  LET kept == Throttle!Since(stamps, t) IN
         /\ kept \in Seq(S) /\ Len(kept) <= Len(stamps)
         /\ KeptOf(kept, stamps, t, Len(stamps))
         /\ (\A i \in 1..Len(stamps) : stamps[i] > t) => kept = stamps
         /\ Len(kept) = Len(stamps) => \A i \in 1..Len(stamps) : stamps[i] > t
<1> DEFINE kept == Throttle!Since(stamps, t)
<1>1. stamps \in Seq(Int) /\ Len(stamps) \in Nat /\ DOMAIN stamps = 1..Len(stamps)
  <2>1. /\ Len(stamps) \in Nat /\ DOMAIN stamps = 1..Len(stamps)
        /\ \A i \in 1..Len(stamps) : stamps[i] \in S
    OBVIOUS
  <2>2. \A i \in 1..Len(stamps) : stamps[i] \in Int
    BY <2>1
  <2>3. stamps = [i \in 1..Len(stamps) |-> stamps[i]]
    BY <2>1
  <2>4. QED
    BY <2>1, <2>2, <2>3
<1>2. (\A i \in 1..Len(stamps) : stamps[i] > t) => kept = stamps
  BY <1>1 DEF Throttle!Since
<1>3. KeptOf(kept, stamps, t, Len(stamps))
  BY <1>1, SinceIs
<1> HIDE DEF kept
<1>4. /\ kept \in Seq(Int) /\ Len(kept) <= Len(stamps)
      /\ \A i \in 1..Len(kept) : kept[i] > t
      /\ \A i \in 1..Len(kept) :
           \E k \in 1..Len(stamps) :
             kept[i] = stamps[k] /\ i <= k /\ k - i <= Len(stamps) - Len(kept)
  BY <1>3 DEF KeptOf
<1>5. kept \in Seq(S)
  <2>1. \A i \in 1..Len(kept) : kept[i] \in S
    BY <1>1, <1>4
  <2>2. Len(kept) \in Nat /\ kept = [i \in 1..Len(kept) |-> kept[i]]
    BY <1>4
  <2>3. QED
    BY <2>1, <2>2
<1>6. ASSUME Len(kept) = Len(stamps), NEW i \in 1..Len(stamps) PROVE stamps[i] > t
  <2>1. PICK k \in 1..Len(stamps) :
          kept[i] = stamps[k] /\ i <= k /\ k - i <= Len(stamps) - Len(kept)
    BY <1>4, <1>6
  <2>2. k = i
    BY <1>1, <1>6, <2>1
  <2>3. QED
    BY <1>4, <1>6, <2>1, <2>2
<1>7. QED
  BY <1>2, <1>3, <1>4, <1>5, <1>6 DEF kept

\* The slice keeps the newest stamps, as many as make a lockout.
LEMMA NewestIs ==
  ASSUME NEW S, NEW stamps \in Seq(S), stamps # <<>>
  PROVE  LET newest == Throttle!Newest(stamps) IN
         /\ newest \in Seq(S)
         /\ Len(newest) = IF Len(stamps) > MaxFailures THEN MaxFailures ELSE Len(stamps)
         /\ \A j \in 0..(Len(newest) - 1) : newest[Len(newest) - j] = stamps[Len(stamps) - j]
<1> DEFINE len    == Len(stamps)
           first  == IF len > MaxFailures THEN len - MaxFailures + 1 ELSE 1
           newest == Throttle!Newest(stamps)
           count  == Len(newest)
<1>1. /\ len \in Nat /\ len # 0 /\ \A i \in 1..len : stamps[i] \in S
      /\ newest = SubSeq(stamps, first, len)
  BY DEF Throttle!Newest
<1>2. MaxFailures \in Nat /\ MaxFailures # 0
  BY ThrottleFacts
<1>3. first \in 1..len /\ first \in Int /\ len \in Int
  BY <1>1, <1>2
<1>4. \A i \in first..len : stamps[i] \in S
  BY <1>1, <1>3
<1> HIDE DEF len, newest
<1>5. /\ newest \in Seq(S)
      /\ count = IF first <= len THEN len - first + 1 ELSE 0
      /\ \A i \in 1..(len - first + 1) : newest[i] = stamps[first + i - 1]
  <2> HIDE DEF first
  <2>1. QED
    BY <1>1, <1>3, <1>4, SubSeqProperties
<1>6. count = IF len > MaxFailures THEN MaxFailures ELSE len
  BY <1>1, <1>2, <1>5
<1>7. count = len - first + 1 /\ count \in Nat
  BY <1>1, <1>2, <1>3, <1>5
<1> HIDE DEF first, count
<1>8. ASSUME NEW j \in 0..(count - 1) PROVE newest[count - j] = stamps[len - j]
  <2>1. count - j \in 1..(len - first + 1) /\ first + (count - j) - 1 = len - j
    BY <1>3, <1>7
  <2>2. QED
    BY <1>5, <2>1
<1>9. QED
  BY <1>5, <1>6, <1>8 DEF newest, count, len

\* record_failed_login: what is written has the reading as its last stamp, and before
\* it the stamps that the reading does not find too old.
LEMMA ChargeIs ==
  ASSUME NEW S, S \subseteq Int, NEW stamps \in Seq(S), NEW now \in S
  PROVE  LET charge == Throttle!Charge(stamps, now) IN
         /\ charge \in Seq(S)
         /\ 1 <= Len(charge) /\ Len(charge) <= MaxFailures
         /\ charge[Len(charge)] = now
         /\ \A m \in 0..Len(stamps) :
              (\A k \in (Len(stamps) - m + 1)..Len(stamps) : stamps[k] > now - Lockout) =>
                \A j \in 0..(m - 1) : j + 1 < MaxFailures =>
                  /\ j + 1 < Len(charge)
                  /\ charge[Len(charge) - (j + 1)] = stamps[Len(stamps) - j]
<1> DEFINE recent == Throttle!Recent(stamps, now)
           longer == Append(recent, now)
           charge == Throttle!Charge(stamps, now)
           len    == Len(stamps)
           some   == Len(recent)
           count  == Len(charge)
<1>1. now \in Int /\ now - Lockout \in Int /\ len \in Nat
  BY ThrottleFacts
<1>2. recent \in Seq(S) /\ KeptOf(recent, stamps, now - Lockout, len) /\ some \in Nat
  <2>1. recent = Throttle!Since(stamps, now - Lockout)
    BY DEF Throttle!Recent
  <2> HIDE DEF recent
  <2>2. recent \in Seq(S) /\ KeptOf(recent, stamps, now - Lockout, len)
    BY <1>1, <2>1, SinceKeeps
  <2>3. QED
    BY <2>2
<1>3. charge = Throttle!Newest(longer)
  BY DEF Throttle!Charge
<1> HIDE DEF recent, charge
<1>4. /\ longer \in Seq(S) /\ Len(longer) = some + 1 /\ longer # <<>>
      /\ \A i \in 1..some : longer[i] = recent[i]
      /\ longer[some + 1] = now
  BY <1>2, AppendProperties
<1> HIDE DEF longer, some
<1>5. /\ charge \in Seq(S)
      /\ count = IF some + 1 > MaxFailures THEN MaxFailures ELSE some + 1
      /\ \A j \in 0..(count - 1) : charge[count - j] = longer[some + 1 - j]
  <2>1. LET newest == Throttle!Newest(longer) IN
        /\ newest \in Seq(S)
        /\ Len(newest) = IF Len(longer) > MaxFailures THEN MaxFailures ELSE Len(longer)
        /\ \A j \in 0..(Len(newest) - 1) : newest[Len(newest) - j] = longer[Len(longer) - j]
    BY <1>4, NewestIs
  <2>2. some \in Nat
    BY <1>2 DEF some
  <2>3. \A j \in Int : Len(longer) - j = some + 1 - j
    BY <1>4, <2>2
  <2>4. QED
    BY <1>3, <1>4, <2>1, <2>2, <2>3
<1> HIDE DEF len, count
<1>6. MaxFailures \in Nat /\ MaxFailures # 0 /\ some \in Nat
  BY <1>2, ThrottleFacts DEF some
<1>7. 1 <= count /\ count <= MaxFailures /\ count \in Nat
  BY <1>5, <1>6
<1>8. charge[count] = now
  <2>1. 0 \in 0..(count - 1) /\ count - 0 = count /\ some + 1 - 0 = some + 1
    BY <1>6, <1>7
  <2>2. QED
    BY <1>4, <1>5, <2>1
<1>9. ASSUME NEW m \in 0..len, \A k \in (len - m + 1)..len : stamps[k] > now - Lockout,
             NEW j \in 0..(m - 1), j + 1 < MaxFailures
      PROVE  j + 1 < count /\ charge[count - (j + 1)] = stamps[len - j]
  <2>1. m <= some /\ recent[some - j] = stamps[len - j]
    BY <1>2, <1>9 DEF KeptOf, some
  <2>2. m \in Nat /\ j \in Nat /\ j < m
    BY <1>1, <1>9 DEF len
  <2>3. j + 1 < count
    BY <1>5, <1>6, <1>9, <2>1, <2>2
  <2>4. /\ j + 1 \in 0..(count - 1) /\ some + 1 - (j + 1) = some - j
        /\ some - j \in 1..some
    BY <1>6, <1>7, <2>1, <2>2, <2>3
  <2>5. QED
    BY <1>4, <1>5, <2>1, <2>3, <2>4
<1>10. QED
  BY <1>5, <1>7, <1>8, <1>9 DEF charge, count, len

LEMMA StoredIs ==
  /\ TP!Timed(Throttle!Stored)
  /\ \A e \in Throttle!Stored :
       e.key \in Throttle!Address /\ e.exp \in Int /\ e.val \in Seq(0..LoginHorizon)
<1>1. SUFFICES ASSUME NEW e \in Throttle!Stored
               PROVE  e.key \in Throttle!Address /\ e.exp \in Int /\ e.val \in Seq(0..LoginHorizon)
  BY DEF TP!Timed
<1>2. /\ e.key \in Throttle!Address /\ e.exp \in 1..(LoginHorizon + Lockout)
      /\ e.val \in Seq(0..LoginHorizon)
  BY DEF Throttle!Stored
<1>3. QED
  BY <1>2, ThrottleFacts

\* login_throttle_retry_after, of any store.
Delay(store, key, now) ==
  LET recent == Throttle!Recent(Throttle!StampsOf(TP!Get(store, key, now)), now)
      oldest == recent[Len(recent) - MaxFailures + 1]
  IN  IF Len(recent) < MaxFailures THEN 0 ELSE Lockout - (now - oldest) + 1

\* What makes a client wait: an entry that is alive and full of stamps in the window.
Locks(e, key, now) == /\ e.key = key /\ e.exp > now /\ Len(e.val) = MaxFailures
                      /\ \A i \in 1..Len(e.val) : e.val[i] > now - Lockout

LEMMA LockDelays ==
  ASSUME NEW store \in TP!Tiers(Throttle!Stored), TP!WellFormed(store),
         NEW now \in Int, NEW key, NEW e \in TP!Entries(store), Locks(e, key, now)
  PROVE  Delay(store, key, now) > 0
<1>1. e \in Throttle!Stored /\ e.exp \in Int /\ e.val \in Seq(0..LoginHorizon)
  BY StoredIs DEF TP!Entries, TP!Tiers
<1>2. TP!Get(store, key, now) = {e}
  <2>1. TP!Get(store, key, now) = {d \in TP!Entries(store) : d.key = key /\ d.exp > now}
    BY StoredIs, AttemptsStore, TP!GetIs
  <2>2. \A d \in TP!Entries(store) : d.key = key => d = e
    BY TP!KeyIsUnique DEF Locks
  <2>3. QED
    BY <2>1, <2>2 DEF Locks
<1>3. Throttle!StampsOf(TP!Get(store, key, now)) = e.val
  BY <1>2 DEF Throttle!StampsOf
<1>4. Throttle!Recent(e.val, now) = e.val
  <2>1. now - Lockout \in Int /\ 0..LoginHorizon \subseteq Int
    BY ThrottleFacts
  <2>2. QED
    BY <1>1, <2>1, SinceKeeps DEF Locks, Throttle!Recent
<1> DEFINE oldest == e.val[Len(e.val) - MaxFailures + 1]
<1>5. Delay(store, key, now) =
        IF Len(e.val) < MaxFailures THEN 0 ELSE Lockout - (now - oldest) + 1
  BY <1>3, <1>4 DEF Delay
<1>6. /\ Len(e.val) = MaxFailures /\ MaxFailures \in Nat \ {0} /\ Lockout \in Nat
  BY ThrottleFacts DEF Locks
<1>7. oldest \in Int /\ oldest > now - Lockout
  <2>1. Len(e.val) - MaxFailures + 1 \in 1..Len(e.val)
    BY <1>6
  <2>2. \A i \in 1..Len(e.val) : e.val[i] \in 0..LoginHorizon
    <3>1. \A S : \A v \in Seq(S) : \A i \in 1..Len(v) : v[i] \in S
      OBVIOUS
    <3>2. QED
      BY <1>1, <3>1, Zenon
  <2>3. QED
    BY <2>1, <2>2, ThrottleFacts DEF Locks
<1> HIDE DEF oldest
<1>8. QED
  BY <1>5, <1>6, <1>7

LEMMA DelayLocks ==
  ASSUME NEW store \in TP!Tiers(Throttle!Stored), TP!WellFormed(store),
         NEW now \in Int, NEW key, Delay(store, key, now) > 0,
         \A e \in TP!Entries(store) : Len(e.val) <= MaxFailures
  PROVE  \E e \in TP!Entries(store) : Locks(e, key, now)
<1> DEFINE found  == TP!Get(store, key, now)
           stamps == Throttle!StampsOf(found)
           recent == Throttle!Recent(stamps, now)
<1>1. found = {d \in TP!Entries(store) : d.key = key /\ d.exp > now}
  BY StoredIs, AttemptsStore, TP!GetIs
<1>2. ~(Len(recent) < MaxFailures)
  BY DEF Delay
<1>3. now - Lockout \in Int /\ 0..LoginHorizon \subseteq Int /\ MaxFailures \in Nat \ {0}
  BY ThrottleFacts
<1>4. CASE found = {}
  <2>1. stamps = <<>>
    BY <1>4 DEF Throttle!StampsOf
  <2>2. recent = <<>>
    BY <2>1 DEF Throttle!Recent, Throttle!Since
  <2>3. QED
    BY <1>2, <1>3, <2>2
<1>5. CASE found # {}
  <2>1. PICK e \in found : stamps = e.val
    BY <1>5 DEF Throttle!StampsOf
  <2>2. e \in TP!Entries(store) /\ e.key = key /\ e.exp > now
    BY <1>1
  <2>3. e.val \in Seq(0..LoginHorizon) /\ Len(e.val) <= MaxFailures /\ Len(e.val) \in Nat
    BY <2>2, StoredIs DEF TP!Entries, TP!Tiers
  <2>4. LET kept == Throttle!Since(e.val, now - Lockout) IN
        /\ kept \in Seq(0..LoginHorizon) /\ Len(kept) <= Len(e.val)
        /\ Len(kept) = Len(e.val) => \A i \in 1..Len(e.val) : e.val[i] > now - Lockout
    BY <1>3, <2>3, SinceKeeps
  <2>5. recent = Throttle!Since(e.val, now - Lockout)
    BY <2>1 DEF Throttle!Recent
  <2> HIDE DEF recent, stamps, found
  <2>6. Len(recent) \in Nat /\ Len(recent) <= Len(e.val)
    BY <2>4, <2>5
  <2>7. Len(recent) = Len(e.val) /\ Len(e.val) = MaxFailures
    BY <1>2, <1>3, <2>3, <2>6
  <2>8. QED
    BY <2>2, <2>4, <2>5, <2>7 DEF Locks
<1>6. QED
  BY <1>4, <1>5

LEMMA RetryIs ==
  ASSUME NEW key, NEW now
  PROVE  Throttle!RetryAfter(key, now) = Delay(attempts, key, now)
BY TAnswersAre DEF Throttle!RetryAfter, Delay

\* The throttle starts with nothing to remember.
LEMMA ThrottleInit == ASSUME Throttle!Init PROVE ThrottleIInv
<1>1. /\ clock = 0 /\ attempts = [plain |-> <<>>, guarded |-> <<>>]
      /\ login = [w \in Worker |-> [at |-> "idle"]]
      /\ failures = [o \in Origin |-> <<>>]
  BY DEF Throttle!Init, Throttle!S!EmptyStore, Throttle!Idle
<1>2. Throttle!S!WellFormed(attempts)
  <2>1. DOMAIN attempts.plain = {} /\ DOMAIN attempts.guarded = {}
    BY <1>1
  <2>2. Len(attempts.plain) = 0 /\ Len(attempts.guarded) = 0
    BY <1>1
  <2>3. Cap \in Nat /\ Cap \div 2 \in Nat
    BY HttpAssumption DEF Throttle!S!StoreAssumption
  <2>4. QED
    BY <2>1, <2>2, <2>3 DEF Throttle!S!WellFormed, Throttle!S!Size, Throttle!S!GuardedCap
<1>3. Throttle!TypeOK
  <2>1. clock \in 0..LoginHorizon
    BY <1>1, ThrottleFacts
  <2>2. attempts \in [plain : Seq(Throttle!Stored), guarded : Seq(Throttle!Stored)]
    BY <1>1
  <2>3. failures \in [Origin -> Seq(0..LoginHorizon)]
    BY <1>1
  <2>4. QED
    BY <1>1, <1>2, <2>1, <2>2, <2>3 DEF Throttle!TypeOK, Throttle!Idle
<1>4. OwnKeys /\ LoginsRecent /\ Remembered /\ FailuresPast
  BY <1>1 DEF OwnKeys, LoginsRecent, Remembered, FailuresPast
<1>5. Shapes
  BY <1>1 DEF Shapes, TP!Within
<1>6. Guessing
  <2>1. SUFFICES ASSUME NEW o \in Origin
                 PROVE  Len(failures[o]) + Cardinality(Passed(o))
                          <= MaxFailures - 1 + Cardinality(Worker)
    BY DEF Guessing
  <2>2. Passed(o) = {}
    BY <1>1 DEF Passed
  <2>3. Cardinality(Passed(o)) = 0 /\ Len(failures[o]) = 0
    BY <1>1, <2>2, FS_EmptySet
  <2>4. QED
    BY <2>3, ThrottleFacts
<1>7. QED
  BY <1>3, <1>4, <1>5, <1>6 DEF ThrottleIInv

\* What a request in progress looks like.
LEMMA LoginIs ==
  ASSUME ThrottleIInv, NEW w \in Worker, login[w].at # "idle"
  PROVE  /\ login[w] \in Throttle!Request
         /\ login[w].origin \in Origin /\ login[w].key = login[w].origin
         /\ login[w].key \in Throttle!Address
         /\ login[w].now \in 0..LoginHorizon /\ login[w].now \in Int
         /\ clock \in 0..LoginHorizon /\ clock \in Int
         /\ login[w].at # "compare" =>
              login[w].now <= clock /\ clock <= login[w].now + MaxLag
<1>1. login[w] \in Throttle!Request
  BY DEF ThrottleIInv, Throttle!TypeOK, Throttle!Idle
<1>2. /\ login[w].at \in {"ask", "compare", "clear", "record"} /\ login[w].origin \in Origin
      /\ login[w].key \in Throttle!Address /\ login[w].now \in 0..LoginHorizon
  BY <1>1 DEF Throttle!Request
<1>3. login[w].now \in Int
  BY <1>2, ThrottleFacts
<1>4. clock \in 0..LoginHorizon /\ clock \in Int
  BY ThrottleFacts DEF ThrottleIInv, Throttle!TypeOK
<1>5. login[w].key = login[w].origin
  BY DEF ThrottleIInv, OwnKeys
<1>6. login[w].at # "compare" => login[w].now <= clock /\ clock <= login[w].now + MaxLag
  BY <1>2 DEF ThrottleIInv, LoginsRecent
<1>7. QED
  BY <1>1, <1>2, <1>3, <1>4, <1>5, <1>6

\* One thread goes on, and the others stay where they are.
LEMMA LoginKeeps ==
  ASSUME ThrottleIInv, NEW w \in Worker, NEW r \in {Throttle!Idle} \cup Throttle!Request,
         login' = [login EXCEPT ![w] = r], UNCHANGED clock,
         r.at # "idle" => r.key = r.origin,
         r.at \in {"ask", "record", "clear"} => r.now <= clock /\ clock <= r.now + MaxLag
  PROVE  /\ login' \in [Worker -> {Throttle!Idle} \cup Throttle!Request]
         /\ OwnKeys' /\ LoginsRecent'
         /\ \A o : Passed(o)' = IF r.at \in {"compare", "record"} /\ r.origin = o
                                THEN Passed(o) \cup {w} ELSE Passed(o) \ {w}
<1>1. login \in [Worker -> {Throttle!Idle} \cup Throttle!Request]
  BY DEF ThrottleIInv, Throttle!TypeOK
<1>2. login' \in [Worker -> {Throttle!Idle} \cup Throttle!Request]
  BY <1>1
<1>3. \A v \in Worker : login'[v] = IF v = w THEN r ELSE login[v]
  BY <1>1
<1>4. OwnKeys'
  BY <1>3 DEF ThrottleIInv, OwnKeys
<1>5. LoginsRecent'
  <2>1. SUFFICES ASSUME NEW v \in Worker, login'[v].at \in {"ask", "record", "clear"}
                 PROVE  login'[v].now <= clock /\ clock <= login'[v].now + MaxLag
    BY DEF LoginsRecent
  <2>2. QED
    BY <1>3, <2>1 DEF ThrottleIInv, LoginsRecent
<1>6. \A o : Passed(o)' = IF r.at \in {"compare", "record"} /\ r.origin = o
                          THEN Passed(o) \cup {w} ELSE Passed(o) \ {w}
  BY <1>3 DEF Passed
<1>7. QED
  BY <1>2, <1>4, <1>5, <1>6

LEMMA PassedAre ==
  ASSUME NEW T \in SUBSET Worker
  PROVE  /\ Cardinality(T) \in Nat /\ Cardinality(T) <= Cardinality(Worker)
         /\ \A w : /\ Cardinality(T \ {w}) \in Nat
                   /\ Cardinality(T \ {w}) <= Cardinality(T)
                   /\ w \in T => Cardinality(T \ {w}) = Cardinality(T) - 1
<1>1. IsFiniteSet(T) /\ Cardinality(T) <= Cardinality(Worker)
  BY ThrottleFacts, FS_Subset
<1>2. Cardinality(T) \in Nat
  BY <1>1, FS_CardinalityType
<1>3. ASSUME NEW w
      PROVE  /\ Cardinality(T \ {w}) \in Nat
             /\ Cardinality(T \ {w}) <= Cardinality(T)
             /\ w \in T => Cardinality(T \ {w}) = Cardinality(T) - 1
  <2>1. /\ IsFiniteSet(T \ {w})
        /\ Cardinality(T \ {w}) = IF w \in T THEN Cardinality(T) - 1 ELSE Cardinality(T)
    BY <1>1, FS_RemoveElement
  <2>2. Cardinality(T \ {w}) \in Nat
    BY <2>1, FS_CardinalityType
  <2>3. QED
    BY <1>2, <2>1, <2>2
<1>4. QED
  BY <1>1, <1>2, <1>3

\* The store as the invariant has it.
LEMMA AttemptsAre ==
  ASSUME ThrottleIInv
  PROVE  /\ attempts \in TP!Tiers(Throttle!Stored) /\ TP!WellFormed(attempts)
         /\ clock \in Int
         /\ \A e \in TP!Entries(attempts) :
              /\ e \in Throttle!Stored /\ Shaped(e)
              /\ e.exp \in Int /\ e.val \in Seq(0..LoginHorizon)
              /\ \A i \in 1..Len(e.val) : e.val[i] \in Int
<1>1. attempts \in TP!Tiers(Throttle!Stored) /\ TP!WellFormed(attempts)
  BY TStoreIs DEF ThrottleIInv, Throttle!TypeOK, TP!Tiers
<1>2. clock \in Int
  BY ThrottleFacts DEF ThrottleIInv, Throttle!TypeOK
<1>3. ASSUME NEW e \in TP!Entries(attempts)
      PROVE  /\ e \in Throttle!Stored /\ Shaped(e)
             /\ e.exp \in Int /\ e.val \in Seq(0..LoginHorizon)
             /\ \A i \in 1..Len(e.val) : e.val[i] \in Int
  <2>1. Shaped(e)
    BY TP!EntriesAre DEF ThrottleIInv, Shapes
  <2>2. e \in Throttle!Stored
    BY <1>1 DEF TP!Entries, TP!Tiers
  <2>3. e.exp \in Int /\ e.val \in Seq(0..LoginHorizon)
    BY <2>2, StoredIs
  <2>4. \A v \in Seq(0..LoginHorizon) : \A i \in 1..Len(v) : v[i] \in Int
    BY ThrottleFacts
  <2>5. QED
    BY <2>1, <2>2, <2>3, <2>4
<1>4. QED
  BY <1>1, <1>2, <1>3

\* The entry of a client with failures is alive by the clock.
LEMMA BackedLives ==
  ASSUME ThrottleIInv, NEW o \in Origin, failures[o] # <<>>,
         NEW e \in TP!Entries(attempts), Backed(o, e)
  PROVE  e.exp > clock
<1>1. Len(failures[o]) \in Nat /\ Len(failures[o]) # 0
  BY DEF ThrottleIInv, Throttle!TypeOK
<1>2. 0 \in 0..(MaxFailures - 1) /\ 0 < Len(failures[o])
  BY <1>1, ThrottleFacts
<1>3. e.val[Len(e.val) - 0] > clock - Lockout
  BY <1>2 DEF Backed
<1>4. /\ Len(e.val) \in Nat /\ 1 <= Len(e.val)
      /\ e.exp = e.val[Len(e.val)] + Lockout /\ e.exp \in Int
      /\ \A i \in 1..Len(e.val) : e.val[i] \in Int
  BY AttemptsAre DEF Shaped
<1>5. Len(e.val) - 0 = Len(e.val) /\ Len(e.val) \in 1..Len(e.val)
  BY <1>4
<1>6. e.val[Len(e.val)] > clock - Lockout /\ e.val[Len(e.val)] \in Int
  BY <1>3, <1>4, <1>5
<1>7. clock \in Int
  BY AttemptsAre
<1>8. QED
  BY <1>4, <1>6, <1>7, ThrottleFacts

\* An answer sweeps the store by a reading that is not ahead of the clock.
LEMMA ThrottleSweep ==
  ASSUME ThrottleIInv, NEW now \in Int, now <= clock,
         attempts' = Throttle!S!Sweep(attempts, now), UNCHANGED <<clock, failures>>
  PROVE  /\ attempts' \in TP!Tiers(Throttle!Stored) /\ TP!WellFormed(attempts')
         /\ Shapes' /\ Remembered'
<1>1. attempts' = TP!Sweep(attempts, now)
  BY TSweepIs
<1>2. /\ attempts' \in TP!Tiers(Throttle!Stored) /\ TP!WellFormed(attempts')
      /\ \A e \in TP!Entries(attempts) : e.exp > now => e \in TP!Entries(attempts')
      /\ TP!Within(attempts'.plain) \subseteq TP!Within(attempts.plain)
      /\ TP!Within(attempts'.guarded) \subseteq TP!Within(attempts.guarded)
  BY <1>1, AttemptsAre, StoredIs, AttemptsStore, TP!SweepKeeps
<1>3. Shapes'
  BY <1>2 DEF ThrottleIInv, Shapes, Shaped
<1>4. Remembered'
  <2>1. SUFFICES ASSUME NEW o \in Origin, failures[o] # <<>>
                 PROVE  \E e \in TP!Entries(attempts)' : e.key = o /\ Backed(o, e)'
    BY DEF Remembered
  <2>2. PICK e \in TP!Entries(attempts) : e.key = o /\ Backed(o, e)
    BY <2>1 DEF ThrottleIInv, Remembered
  <2>3. e.exp > now
    <3>1. e.exp > clock /\ e.exp \in Int /\ clock \in Int
      BY <2>1, <2>2, BackedLives, AttemptsAre
    <3>2. QED
      BY <3>1
  <2>4. e \in TP!Entries(attempts)'
    BY <1>2, <2>3
  <2>5. Backed(o, e)'
    BY <2>2 DEF Backed
  <2>6. QED
    BY <2>2, <2>4, <2>5
<1>5. QED
  BY <1>2, <1>3, <1>4

\* A success takes the entry of its client out, and forgives its failures.
LEMMA ThrottleForget ==
  ASSUME ThrottleIInv, NEW now \in Int, now <= clock, NEW k \in Origin,
         attempts' = Throttle!S!Drop(attempts, k, now),
         failures' = [failures EXCEPT ![k] = <<>>], UNCHANGED clock
  PROVE  /\ attempts' \in TP!Tiers(Throttle!Stored) /\ TP!WellFormed(attempts')
         /\ Shapes' /\ Remembered'
<1>1. attempts' = TP!Drop(attempts, k, now)
  BY TAnswersAre
<1>2. /\ attempts' \in TP!Tiers(Throttle!Stored) /\ TP!WellFormed(attempts')
      /\ TP!Entries(attempts') = {e \in TP!Entries(TP!Sweep(attempts, now)) : e.key # k}
      /\ TP!Within(attempts'.plain) \subseteq TP!Within(attempts.plain)
      /\ TP!Within(attempts'.guarded) \subseteq TP!Within(attempts.guarded)
  <2>1. LET after == TP!Drop(attempts, k, now) IN
        /\ after \in TP!Tiers(Throttle!Stored) /\ TP!WellFormed(after)
        /\ TP!Entries(after) = {e \in TP!Entries(TP!Sweep(attempts, now)) : e.key # k}
        /\ TP!Within(after.plain) \subseteq TP!Within(attempts.plain)
        /\ TP!Within(after.guarded) \subseteq TP!Within(attempts.guarded)
    BY AttemptsAre, StoredIs, AttemptsStore, TP!DropKeeps
  <2>2. QED
    BY <1>1, <2>1
<1>3. \A e \in TP!Entries(attempts) : e.exp > now => e \in TP!Entries(TP!Sweep(attempts, now))
  BY AttemptsAre, StoredIs, AttemptsStore, TP!SweepKeeps
<1>4. Shapes'
  BY <1>2 DEF ThrottleIInv, Shapes, Shaped
<1>5. \A o \in Origin : failures'[o] = IF o = k THEN <<>> ELSE failures[o]
  BY DEF ThrottleIInv, Throttle!TypeOK
<1>6. Remembered'
  <2>1. SUFFICES ASSUME NEW o \in Origin, failures'[o] # <<>>
                 PROVE  \E e \in TP!Entries(attempts)' : e.key = o /\ Backed(o, e)'
    BY DEF Remembered
  <2>2. o # k /\ failures'[o] = failures[o]
    BY <1>5, <2>1
  <2>3. PICK e \in TP!Entries(attempts) : e.key = o /\ Backed(o, e)
    BY <2>1, <2>2 DEF ThrottleIInv, Remembered
  <2>4. e.exp > now
    <3>1. e.exp > clock /\ e.exp \in Int /\ clock \in Int
      BY <2>1, <2>2, <2>3, BackedLives, AttemptsAre
    <3>2. QED
      BY <3>1
  <2>5. e \in TP!Entries(attempts)'
    BY <1>2, <1>3, <2>2, <2>3, <2>4
  <2>6. Backed(o, e)'
    BY <2>2, <2>3 DEF Backed
  <2>7. QED
    BY <2>3, <2>5, <2>6
<1>7. QED
  BY <1>2, <1>4, <1>6

\* What the throttle goes on from is what it has of the client.
LEMMA KnownIs ==
  ASSUME ThrottleIInv, NEW now \in Int, NEW k
  PROVE  LET known == Throttle!StampsOf(Throttle!S!Find(Throttle!S!Sweep(attempts, now), k)) IN
         /\ known \in Seq(0..LoginHorizon)
         /\ \A e \in TP!Entries(attempts) : e.key = k /\ e.exp > now => known = e.val
<1> DEFINE swept == TP!Sweep(attempts, now)
           found == TP!Find(swept, k)
           known == Throttle!StampsOf(found)
<1>1. /\ TP!WellFormed(swept)
      /\ TP!Entries(swept) \subseteq TP!Entries(attempts)
      /\ \A e \in TP!Entries(attempts) : e.exp > now => e \in TP!Entries(swept)
  BY AttemptsAre, StoredIs, AttemptsStore, TP!SweepKeeps
<1>2. Throttle!StampsOf(Throttle!S!Find(Throttle!S!Sweep(attempts, now), k)) = known
  BY TSweepIs, TAnswersAre
<1> HIDE DEF swept
<1>3. found = {e \in TP!Entries(swept) : e.key = k}
  BY DEF TP!Find
<1> HIDE DEF found
<1>4. known \in Seq(0..LoginHorizon)
  <2>1. CASE found = {}
    BY <2>1 DEF Throttle!StampsOf
  <2>2. CASE found # {}
    <3>1. PICK e \in found : known = e.val
      BY <2>2 DEF Throttle!StampsOf
    <3>2. QED
      BY <1>1, <1>3, <3>1, AttemptsAre
  <2>3. QED
    BY <2>1, <2>2
<1>5. ASSUME NEW e \in TP!Entries(attempts), e.key = k, e.exp > now
      PROVE  known = e.val
  <2>1. e \in found
    BY <1>1, <1>3, <1>5
  <2>2. \A d \in found : d = e
    BY <1>1, <1>3, <2>1, TP!KeyIsUnique
  <2>3. QED
    BY <2>1, <2>2 DEF Throttle!StampsOf
<1>6. QED
  BY <1>2, <1>4, <1>5

\* The stamps of a client that count after m more are those that counted before.
Carries(val, stamps, now) ==
  \A m \in 0..Len(stamps) :
    (\A i \in (Len(stamps) - m + 1)..Len(stamps) : stamps[i] > now - Lockout) =>
      \A j \in 0..(m - 1) : j + 1 < MaxFailures =>
        /\ j + 1 < Len(val)
        /\ val[Len(val) - (j + 1)] = stamps[Len(stamps) - j]

\* What the write of a failure does to the store: the entry of the client carries on
\* what counted, and the others stay, but for an oldest lockout and what expired.
Writes(before, after, k, now, val) ==
  LET entry == [key |-> k, exp |-> now + Lockout, val |-> val] IN
  /\ 1 <= Len(val) /\ Len(val) <= MaxFailures /\ val[Len(val)] = now
  /\ \A e \in TP!Entries(before) : e.key = k /\ e.exp > now => Carries(val, e.val, now)
  /\ after \in TP!Tiers(Throttle!Stored) /\ TP!WellFormed(after)
  /\ TP!Entries(after) \subseteq {e \in TP!Entries(before) : e.key # k} \cup {entry}
  /\ entry \in TP!Entries(after)
  /\ \A e \in TP!Within(after.plain) :
       e \in TP!Within(before.plain) \/ (e = entry /\ Len(val) < MaxFailures)
  /\ \A e \in TP!Within(after.guarded) :
       e \in TP!Within(before.guarded) \/ (e = entry /\ Len(val) = MaxFailures)
  /\ \A e \in TP!Within(before.guarded) :
       e.exp > now /\ e.key # k =>
         \/ e \in TP!Within(after.guarded)
         \/ /\ e = before.guarded[1] /\ Len(before.guarded) = TP!GuardedCap
            /\ ~TP!Holds(before.guarded, k) /\ entry \in TP!Within(after.guarded)

\* record_failed_login.
LEMMA ChargePuts ==
  ASSUME ThrottleIInv, NEW now \in 0..LoginHorizon, NEW k \in Throttle!Address,
         attempts' = Throttle!Charged(attempts, k, now)
  PROVE  \E val \in Seq(0..LoginHorizon) : Writes(attempts, attempts', k, now, val)
<1> DEFINE known == Throttle!StampsOf(Throttle!S!Find(Throttle!S!Sweep(attempts, now), k))
           val == Throttle!Charge(known, now)
           guard == Throttle!Protects(val)
           entry == [key |-> k, exp |-> now + Lockout, val |-> val]
<1>0. now \in Int /\ 0..LoginHorizon \subseteq Int
  BY ThrottleFacts
<1>1. /\ known \in Seq(0..LoginHorizon)
      /\ \A e \in TP!Entries(attempts) : e.key = k /\ e.exp > now => known = e.val
  BY <1>0, KnownIs
<1>2. attempts' = TP!Put(attempts, k, val, guard, now)
  BY TPutIs DEF Throttle!Charged
<1> HIDE DEF known
<1>3. /\ val \in Seq(0..LoginHorizon)
      /\ 1 <= Len(val) /\ Len(val) <= MaxFailures /\ val[Len(val)] = now
      /\ Carries(val, known, now)
  <2>1. val = Throttle!Charge(known, now)
    OBVIOUS
  <2> HIDE DEF val
  <2>2. LET charge == Throttle!Charge(known, now) IN
        /\ charge \in Seq(0..LoginHorizon)
        /\ 1 <= Len(charge) /\ Len(charge) <= MaxFailures
        /\ charge[Len(charge)] = now
        /\ Carries(charge, known, now)
    <3> DEFINE charge == Throttle!Charge(known, now)
    <3>1. /\ charge \in Seq(0..LoginHorizon)
          /\ 1 <= Len(charge) /\ Len(charge) <= MaxFailures
          /\ charge[Len(charge)] = now
          /\ \A m \in 0..Len(known) :
               (\A i \in (Len(known) - m + 1)..Len(known) : known[i] > now - Lockout) =>
                 \A j \in 0..(m - 1) : j + 1 < MaxFailures =>
                   /\ j + 1 < Len(charge)
                   /\ charge[Len(charge) - (j + 1)] = known[Len(known) - j]
      BY <1>0, <1>1, ChargeIs, ZenonT(60)
    <3> HIDE DEF charge
    <3>2. Carries(charge, known, now)
      BY <3>1, ZenonT(60) DEF Carries
    <3>3. QED
      BY <3>1, <3>2 DEF charge
  <2>3. QED
    BY <2>1, <2>2
<1> HIDE DEF val
<1>4. (guard <=> Len(val) = MaxFailures) /\ (~guard <=> Len(val) < MaxFailures)
  <2>1. Len(val) \in Nat
    BY <1>3
  <2>2. QED
    BY <1>3, <2>1, ThrottleFacts DEF Throttle!Protects
<1>5. guard \in BOOLEAN
  BY DEF Throttle!Protects
<1> HIDE DEF guard
<1>6. entry \in Throttle!Stored
  <2>1. now + Lockout \in 1..(LoginHorizon + Lockout)
    BY ThrottleFacts
  <2>2. QED
    BY <1>3, <2>1 DEF Throttle!Stored
<1>7. /\ TP!Put(attempts, k, val, guard, now) \in TP!Tiers(Throttle!Stored)
      /\ TP!WellFormed(TP!Put(attempts, k, val, guard, now))
      /\ TP!Takes(attempts, TP!Put(attempts, k, val, guard, now), entry, guard, now)
  <2>1. /\ attempts \in TP!Tiers(Throttle!Stored) /\ TP!WellFormed(attempts)
        /\ TP!Timed(Throttle!Stored)
    BY AttemptsAre, StoredIs
  <2> HIDE DEF entry
  <2>2. QED
    BY <1>0, <1>5, <1>6, <2>1, AttemptsStore, TP!PutKeeps, ZenonT(60) DEF entry
<1>8. /\ attempts' \in TP!Tiers(Throttle!Stored) /\ TP!WellFormed(attempts')
      /\ TP!Entries(attempts')
           \subseteq {e \in TP!Entries(attempts) : e.key # k} \cup {entry}
      /\ entry \in TP!Entries(attempts')
      /\ \A e \in TP!Within(attempts'.plain) :
           e \in TP!Within(attempts.plain) \/ (e = entry /\ ~guard)
      /\ \A e \in TP!Within(attempts'.guarded) :
           e \in TP!Within(attempts.guarded) \/ (e = entry /\ guard)
      /\ \A e \in TP!Within(attempts.guarded) :
           e.exp > now /\ e.key # k =>
             \/ e \in TP!Within(attempts'.guarded)
             \/ /\ e = attempts.guarded[1] /\ Len(attempts.guarded) = TP!GuardedCap
                /\ ~TP!Holds(attempts.guarded, k) /\ entry \in TP!Within(attempts'.guarded)
  <2>1. TP!Takes(attempts, attempts', entry, guard, now)
    BY <1>2, <1>7, Zenon
  <2>2. entry.key = k
    OBVIOUS
  <2> HIDE DEF entry
  <2>3. QED
    BY <1>2, <1>7, <2>1, <2>2 DEF TP!Takes
<1>9. \A e \in TP!Entries(attempts) : e.key = k /\ e.exp > now => Carries(val, e.val, now)
  BY <1>1, <1>3
<1>10. Writes(attempts, attempts', k, now, val)
  BY <1>3, <1>4, <1>8, <1>9, ZenonT(60) DEF Writes
<1>11. QED
  BY <1>3, <1>10

\* The entry just written backs the failures of its client.
LEMMA OwnBacked ==
  ASSUME ThrottleIInv, NEW k \in Origin,
         NEW now \in Int, now <= clock, clock <= now + MaxLag,
         NEW entry, entry.val \in Seq(0..LoginHorizon),
         1 <= Len(entry.val), entry.val[Len(entry.val)] = now,
         \A e \in TP!Entries(attempts) :
           e.key = k /\ e.exp > now => Carries(entry.val, e.val, now),
         failures'[k] = Append(failures[k], now), UNCHANGED clock
  PROVE  Backed(k, entry)'
<1> DEFINE f == failures[k]
           n == Len(f)
           g == failures'[k]
           val == entry.val
           top == Len(val)
<1>1. f \in Seq(0..LoginHorizon) /\ n \in Nat /\ clock \in Int /\ LoginHorizon \in Nat
  BY ThrottleFacts, AttemptsAre DEF ThrottleIInv, Throttle!TypeOK
<1>2. f \in Seq(Int) /\ \A i \in 1..n : f[i] \in Int /\ f[i] <= clock
  <2>1. \A i \in 1..n : f[i] \in 0..LoginHorizon /\ f[i] <= clock
    <3>1. DOMAIN f = 1..n /\ \A i \in 1..n : f[i] \in 0..LoginHorizon
      BY <1>1, SMTT(30)
    <3>2. \A i \in DOMAIN f : f[i] <= clock
      BY DEF ThrottleIInv, FailuresPast
    <3> HIDE DEF f, n
    <3>3. QED
      BY <3>1, <3>2
  <2>2. \A i \in 1..n : f[i] \in Int
    BY <1>1, <2>1
  <2>3. f = [i \in 1..n |-> f[i]]
    BY <1>1
  <2> HIDE DEF f, n
  <2>4. f \in Seq(Int)
    <3>1. \A m \in Nat : \A h \in [1..m -> Int] : h \in Seq(Int)
      OBVIOUS
    <3>2. f \in [1..n -> Int]
      BY <2>2, <2>3, Zenon
    <3>3. QED
      BY <1>1, <3>1, <3>2
  <2>5. QED
    BY <2>1, <2>2, <2>4
<1>3. /\ Len(g) = n + 1 /\ g[n + 1] = now
      /\ \A i \in 1..n : g[i] = f[i]
  BY <1>2, AppendProperties
<1>4. top \in Nat /\ 1 <= top /\ val[top] = now
  OBVIOUS
<1>5. SUFFICES ASSUME NEW j \in 0..(MaxFailures - 1), j < Len(g)
               PROVE  /\ j < top
                      /\ val[top - j] > clock - Lockout
                      /\ \A i \in j..(Len(g) - 1) : g[Len(g) - i] <= val[top - j] + MaxLag
  BY DEF Backed
<1> HIDE DEF g, val, top, n, f
<1>6. MaxFailures \in Nat \ {0} /\ Lockout \in Nat /\ MaxLag \in Nat /\ MaxLag < Lockout
  BY ThrottleFacts
<1>7. j \in Nat /\ j <= n
  BY <1>1, <1>3, <1>5
<1>8. CASE j = 0
  <2>1. top - j = top /\ j < top
    BY <1>4, <1>8
  <2>2. now > clock - Lockout
    BY <1>1, <1>6
  <2>3. ASSUME NEW i \in j..(Len(g) - 1)
        PROVE  g[Len(g) - i] <= now + MaxLag
    <3>1. CASE i = 0
      <4>1. Len(g) - i = n + 1
        BY <1>1, <1>3, <3>1
      <4>2. QED
        BY <1>3, <1>6, <4>1
    <3>2. CASE i # 0
      <4>1. Len(g) - i \in 1..n
        BY <1>1, <1>3, <1>7, <3>2
      <4>2. g[Len(g) - i] \in Int /\ g[Len(g) - i] <= clock
        BY <1>2, <1>3, <4>1
      <4>3. QED
        BY <1>1, <1>6, <4>2
    <3>3. QED
      BY <3>1, <3>2
  <2>4. QED
    BY <1>4, <2>1, <2>2, <2>3
<1>9. CASE j # 0
  <2>1. f # <<>>
    BY <1>1, <1>7, <1>9 DEF n
  <2>2. PICK e \in TP!Entries(attempts) : e.key = k /\ Backed(k, e)
    BY <2>1 DEF ThrottleIInv, Remembered, f
  <2> DEFINE old == e.val
             len == Len(old)
  <2>3. e.exp > now
    <3>1. e.exp > clock /\ e.exp \in Int
      BY <2>1, <2>2, BackedLives, AttemptsAre DEF f
    <3>2. QED
      BY <1>1, <3>1
  <2>4. Carries(val, old, now)
    BY <2>2, <2>3 DEF val
  <2>5. len \in Nat /\ \A i \in 1..len : old[i] \in Int
    BY AttemptsAre
  <2>6. ASSUME NEW b \in 0..(j - 1)
        PROVE  /\ b < len /\ old[len - b] > clock - Lockout
               /\ \A i \in b..(n - 1) : f[n - i] <= old[len - b] + MaxLag
    <3>1. b \in 0..(MaxFailures - 1) /\ b < n
      BY <1>1, <1>5, <1>6, <1>7
    <3>2. QED
      BY <2>2, <3>1 DEF Backed, f, n
  <2> HIDE DEF old, len
  <2>7. j - 1 \in 0..(j - 1) /\ j - 1 < len
    BY <1>7, <1>9, <2>6
  <2>8. j \in 0..len
    BY <1>7, <2>5, <2>7
  <2>9. ASSUME NEW i \in (len - j + 1)..len PROVE old[i] > now - Lockout
    <3>1. len - i \in 0..(j - 1) /\ len - (len - i) = i /\ i \in 1..len
      BY <2>5, <2>8
    <3>2. old[len - (len - i)] > clock - Lockout
      BY <2>6, <3>1
    <3>3. old[i] \in Int /\ old[i] > clock - Lockout
      BY <2>5, <3>1, <3>2
    <3>4. QED
      BY <1>1, <1>6, <3>3
  <2>10. j < top /\ val[top - j] = old[len - (j - 1)]
    <3>1. /\ (j - 1) + 1 < Len(val)
          /\ val[Len(val) - ((j - 1) + 1)] = old[Len(old) - (j - 1)]
      <4>1. (j - 1) + 1 < MaxFailures
        BY <1>5, <1>6, <1>7
      <4>2. j \in 0..Len(old) /\ \A i \in (Len(old) - j + 1)..Len(old) : old[i] > now - Lockout
        BY <2>8, <2>9 DEF len
      <4>3. QED
        BY <2>4, <2>7, <4>1, <4>2 DEF Carries
    <3>2. (j - 1) + 1 = j
      BY <1>7
    <3>3. QED
      BY <3>1, <3>2 DEF top, len
  <2>11. ASSUME NEW i \in j..(Len(g) - 1)
         PROVE  g[Len(g) - i] <= val[top - j] + MaxLag
    <3>0. i \in j..n /\ Len(g) - i = n + 1 - i
      BY <1>1, <1>3
    <3>1. /\ i - 1 \in (j - 1)..(n - 1) /\ Len(g) - i = n - (i - 1)
          /\ n - (i - 1) \in 1..n
      BY <1>1, <1>7, <1>9, <3>0
    <3>2. f[n - (i - 1)] <= old[len - (j - 1)] + MaxLag
      BY <2>6, <2>7, <3>1
    <3>3. QED
      BY <1>3, <2>10, <3>1, <3>2
  <2>12. QED
    BY <2>6, <2>7, <2>10, <2>11
<1>10. QED
  BY <1>8, <1>9

\* A client that passes the throttle has fewer failures behind it than a lockout takes.
LEMMA PassMeans ==
  ASSUME ThrottleIInv, NEW w \in Worker, login[w].at = "ask",
         ~(Throttle!RetryAfter(login[w].key, login[w].now) > 0)
  PROVE  Len(failures[login[w].origin]) < MaxFailures
<1>0. PICK k, now : k = login[w].key /\ now = login[w].now
  OBVIOUS
<1>1. /\ k \in Origin /\ k = login[w].origin
      /\ now \in Int /\ clock \in Int /\ now <= clock
  BY <1>0, LoginIs
<1> DEFINE f == failures[k]
           n == Len(f)
<1>2. n \in Nat /\ MaxFailures \in Nat \ {0} /\ Lockout \in Nat
  BY <1>1, ThrottleFacts DEF ThrottleIInv, Throttle!TypeOK
<1>3. ASSUME n >= MaxFailures PROVE FALSE
  <2>1. f # <<>>
    BY <1>2, <1>3
  <2>2. PICK e \in TP!Entries(attempts) : e.key = k /\ Backed(k, e)
    BY <1>1, <2>1 DEF ThrottleIInv, Remembered
  <2> DEFINE val == e.val
             len == Len(val)
  <2>3. /\ len \in Nat /\ 1 <= len /\ len <= MaxFailures /\ e.exp \in Int
        /\ \A i \in 1..len : val[i] \in Int
    BY AttemptsAre DEF Shaped
  <2>4. e.exp > clock
    BY <1>1, <2>1, <2>2, BackedLives
  <2>5. \A j \in 0..(MaxFailures - 1) : j < n => j < len /\ val[len - j] > clock - Lockout
    BY <2>2 DEF Backed
  <2> HIDE DEF len, val, n
  <2>6. len = MaxFailures
    <3>1. MaxFailures - 1 \in 0..(MaxFailures - 1) /\ MaxFailures - 1 < n
      BY <1>2, <1>3
    <3>2. MaxFailures - 1 < len
      BY <2>5, <3>1
    <3>3. QED
      BY <1>2, <2>3, <3>2
  <2>7. ASSUME NEW i \in 1..len PROVE val[i] > now - Lockout
    <3>1. len - i \in 0..(MaxFailures - 1) /\ len - i < n /\ len - (len - i) = i
      BY <1>2, <1>3, <2>3, <2>6
    <3>2. val[len - (len - i)] > clock - Lockout
      BY <2>5, <3>1
    <3>3. val[i] > clock - Lockout /\ val[i] \in Int
      BY <2>3, <3>1, <3>2
    <3>4. QED
      BY <1>1, <1>2, <3>3
  <2>8. e.exp > now
    BY <1>1, <2>3, <2>4
  <2>9. Locks(e, k, now)
    BY <2>2, <2>6, <2>7, <2>8 DEF Locks, len, val
  <2>10. Delay(attempts, k, now) > 0
    BY <1>1, <2>9, AttemptsAre, LockDelays
  <2>11. QED
    BY <1>0, <2>10, RetryIs
<1>4. QED
  BY <1>0, <1>1, <1>2, <1>3

\* The types of the store, as the lemmas about it and as the type invariant say it.
LEMMA AttemptsTyped ==
  ASSUME NEW store \in TP!Tiers(Throttle!Stored), TP!WellFormed(store)
  PROVE  /\ store \in [plain : Seq(Throttle!Stored), guarded : Seq(Throttle!Stored)]
         /\ Throttle!S!WellFormed(store)
BY TStoreIs DEF TP!Tiers

\* The guesses of a client do not grow when its threads only leave.
LEMMA GuessingKeeps ==
  ASSUME ThrottleIInv, NEW w \in Worker, NEW o \in Origin, Passed(o)' \subseteq Passed(o),
         Len(failures'[o]) \in Nat, Len(failures'[o]) <= Len(failures[o])
  PROVE  Len(failures'[o]) + Cardinality(Passed(o)') <= MaxFailures - 1 + Cardinality(Worker)
<1> DEFINE a == Len(failures[o])
           b == Len(failures'[o])
           c == Cardinality(Passed(o))
           d == Cardinality(Passed(o)')
<1>1. Passed(o) \in SUBSET Worker /\ IsFiniteSet(Passed(o))
  BY ThrottleFacts, FS_Subset DEF Passed
<1>2. c \in Nat /\ d \in Nat /\ d <= c
  BY <1>1, FS_Subset, FS_CardinalityType
<1>3. a \in Nat
  BY DEF ThrottleIInv, Throttle!TypeOK
<1>4. a + c <= MaxFailures - 1 + Cardinality(Worker)
  BY DEF ThrottleIInv, Guessing
<1>5. b \in Nat /\ b <= a
  OBVIOUS
<1> HIDE DEF a, b, c, d
<1>6. b + d <= MaxFailures - 1 + Cardinality(Worker)
  BY <1>2, <1>3, <1>4, <1>5, ThrottleFacts
<1>7. QED
  BY <1>6 DEF b, d

LEMMA ThrottleAsk ==
  ASSUME ThrottleIInv, NEW w \in Worker, Throttle!Ask(w)
  PROVE  ThrottleIInv'
<1>0. PICK k, now, r :
        /\ k = login[w].origin /\ now = login[w].now
        /\ r = IF Throttle!RetryAfter(login[w].key, login[w].now) > 0 THEN Throttle!Idle
              ELSE [at |-> "compare", origin |-> k, key |-> k, now |-> now]
  OBVIOUS
<1>1. login[w].at = "ask" /\ attempts' = Throttle!S!Sweep(attempts, now)
      /\ UNCHANGED <<clock, failures>>
  BY <1>0 DEF Throttle!Ask
<1>2. /\ login[w] \in Throttle!Request /\ k \in Origin /\ login[w].key = k
      /\ k \in Throttle!Address /\ now \in 0..LoginHorizon /\ now \in Int /\ now <= clock
  BY <1>0, <1>1, LoginIs
<1>3. login' = [login EXCEPT ![w] = r]
  <2>1. [login[w] EXCEPT !.at = "compare"]
          = [at |-> "compare", origin |-> k, key |-> k, now |-> now]
    BY <1>0, <1>2 DEF Throttle!Request
  <2>2. QED
    BY <1>0, <2>1 DEF Throttle!Ask
<1>4. /\ r \in {Throttle!Idle} \cup Throttle!Request
      /\ r.at # "idle" => r.key = r.origin
      /\ r.at \notin {"ask", "record", "clear"}
      /\ r.at \in {"compare", "record"} =>
           /\ ~(Throttle!RetryAfter(login[w].key, login[w].now) > 0)
           /\ r.origin = k
  BY <1>0, <1>2 DEF Throttle!Idle, Throttle!Request
<1>5. /\ login' \in [Worker -> {Throttle!Idle} \cup Throttle!Request]
      /\ OwnKeys' /\ LoginsRecent'
      /\ \A o : Passed(o)' = IF r.at \in {"compare", "record"} /\ r.origin = o
                             THEN Passed(o) \cup {w} ELSE Passed(o) \ {w}
  BY <1>1, <1>3, <1>4, LoginKeeps
<1>6. /\ attempts' \in TP!Tiers(Throttle!Stored) /\ TP!WellFormed(attempts')
      /\ Shapes' /\ Remembered'
  BY <1>1, <1>2, ThrottleSweep
<1>7. Throttle!TypeOK'
  BY <1>1, <1>5, <1>6, AttemptsTyped DEF ThrottleIInv, Throttle!TypeOK
<1>8. FailuresPast'
  BY <1>1 DEF ThrottleIInv, FailuresPast
<1>9. Guessing'
  <2>1. SUFFICES ASSUME NEW o \in Origin
                 PROVE  Len(failures'[o]) + Cardinality(Passed(o)')
                          <= MaxFailures - 1 + Cardinality(Worker)
    BY DEF Guessing
  <2>2. failures'[o] = failures[o] /\ Len(failures[o]) \in Nat
    BY <1>1 DEF ThrottleIInv, Throttle!TypeOK
  <2>3. CASE r.at \in {"compare", "record"} /\ o = k
    <3>1. Len(failures[o]) < MaxFailures
      BY <1>0, <1>1, <1>4, <2>3, PassMeans
    <3>2. /\ Cardinality(Passed(o)') \in Nat
          /\ Cardinality(Passed(o)') <= Cardinality(Worker)
      <4>1. Passed(o)' \in SUBSET Worker
        BY DEF Passed
      <4>2. QED
        BY <4>1, PassedAre
    <3>3. QED
      BY <2>2, <3>1, <3>2, ThrottleFacts
  <2>4. CASE ~(r.at \in {"compare", "record"} /\ o = k)
    <3>1. Passed(o)' \subseteq Passed(o)
      BY <1>4, <1>5, <2>4
    <3>2. QED
      BY <2>2, <3>1, GuessingKeeps
  <2>5. QED
    BY <2>3, <2>4
<1>10. QED
  BY <1>5, <1>6, <1>7, <1>8, <1>9 DEF ThrottleIInv

\* A request arrives, and a request that has passed compares its credentials.
LEMMA ThrottleArrives ==
  ASSUME ThrottleIInv, NEW w \in Worker, UNCHANGED <<clock, attempts, failures>>,
         NEW r \in Throttle!Request, login' = [login EXCEPT ![w] = r],
         r.key = r.origin, r.now = clock,
         r.at = "record" => login[w].at = "compare" /\ r.origin = login[w].origin,
         r.at # "compare"
  PROVE  ThrottleIInv'
<1>1. clock \in Int /\ MaxLag \in Nat
  BY ThrottleFacts, AttemptsAre
<1>2. r.now <= clock /\ clock <= r.now + MaxLag
  BY <1>1
<1>3. /\ login' \in [Worker -> {Throttle!Idle} \cup Throttle!Request]
      /\ OwnKeys' /\ LoginsRecent'
      /\ \A o : Passed(o)' = IF r.at \in {"compare", "record"} /\ r.origin = o
                             THEN Passed(o) \cup {w} ELSE Passed(o) \ {w}
  BY <1>2, LoginKeeps
<1>4. Throttle!TypeOK'
  BY <1>3 DEF ThrottleIInv, Throttle!TypeOK
<1>5. Shapes' /\ Remembered' /\ FailuresPast'
  BY DEF ThrottleIInv, Shapes, Shaped, Remembered, Backed, FailuresPast
<1>6. Guessing'
  <2>1. SUFFICES ASSUME NEW o \in Origin
                 PROVE  Len(failures'[o]) + Cardinality(Passed(o)')
                          <= MaxFailures - 1 + Cardinality(Worker)
    BY DEF Guessing
  <2>2. failures'[o] = failures[o] /\ Len(failures[o]) \in Nat
    BY DEF ThrottleIInv, Throttle!TypeOK
  <2>3. r.at = "record" /\ r.origin = o => w \in Passed(o)
    BY DEF Passed
  <2>4. Passed(o)' \subseteq Passed(o)
    BY <1>3, <2>3
  <2>5. Len(failures'[o]) <= Len(failures[o])
    BY <2>2
  <2>6. QED
    BY <2>2, <2>4, <2>5, GuessingKeeps
<1>7. QED
  BY <1>3, <1>4, <1>5, <1>6 DEF ThrottleIInv

LEMMA ThrottleLogin ==
  ASSUME ThrottleIInv, NEW w \in Worker, NEW o \in Origin, Throttle!Login(w, o)
  PROVE  ThrottleIInv'
<1>1. PICK a \in Throttle!Arrivals(o) :
        login' = [login EXCEPT ![w] = [at |-> "ask", origin |-> o,
                    key |-> Throttle!ClientIdentity(a.peer, a.hops), now |-> clock]]
  BY DEF Throttle!Login
<1>2. Throttle!ClientIdentity(a.peer, a.hops) = o
  BY ClientIsOrigin
<1> DEFINE r == [at |-> "ask", origin |-> o, key |-> o, now |-> clock]
<1>3. login' = [login EXCEPT ![w] = r] /\ UNCHANGED <<clock, attempts, failures>>
  BY <1>1, <1>2 DEF Throttle!Login
<1>4. clock \in 0..LoginHorizon /\ o \in Throttle!Address
  BY DEF ThrottleIInv, Throttle!TypeOK, Throttle!Address
<1>5. r \in Throttle!Request
  BY <1>4 DEF Throttle!Request
<1>6. r.key = r.origin /\ r.now = clock /\ r.at = "ask"
  OBVIOUS
<1> HIDE DEF r
<1>7. QED
  BY <1>3, <1>5, <1>6, ThrottleArrives

LEMMA ThrottleCompare ==
  ASSUME ThrottleIInv, NEW w \in Worker, NEW good \in BOOLEAN, Throttle!Compare(w, good)
  PROVE  ThrottleIInv'
<1>0. PICK k, verdict : k = login[w].origin /\ verdict = IF good THEN "clear" ELSE "record"
  OBVIOUS
<1>1. login[w].at = "compare" /\ UNCHANGED <<clock, attempts, failures>>
  BY DEF Throttle!Compare
<1>2. /\ login[w] \in Throttle!Request /\ k \in Origin /\ login[w].key = k
      /\ k \in Throttle!Address /\ clock \in 0..LoginHorizon
  BY <1>0, <1>1, LoginIs
<1> DEFINE r == [at |-> verdict, origin |-> k, key |-> k, now |-> clock]
<1>3. verdict \in {"clear", "record"}
  BY <1>0
<1>4. login' = [login EXCEPT ![w] = r]
  <2>1. login' = [login EXCEPT ![w].at = verdict, ![w].now = clock]
    BY <1>0 DEF Throttle!Compare
  <2>2. login \in [Worker -> {Throttle!Idle} \cup Throttle!Request]
    BY DEF ThrottleIInv, Throttle!TypeOK
  <2>3. [[login[w] EXCEPT !.at = verdict] EXCEPT !.now = clock] = r
    <3>1. [login[w] EXCEPT !.at = verdict]
            = [at |-> verdict, origin |-> k, key |-> k, now |-> login[w].now]
      BY <1>0, <1>2 DEF Throttle!Request
    <3>2. [[at |-> verdict, origin |-> k, key |-> k, now |-> login[w].now] EXCEPT !.now = clock] = r
      OBVIOUS
    <3>3. QED
      BY <3>1, <3>2
  <2>4. QED
    BY <2>1, <2>2, <2>3
<1>5. r \in Throttle!Request
  BY <1>2, <1>3 DEF Throttle!Request
<1>6. r.key = r.origin /\ r.now = clock /\ r.at = verdict /\ r.origin = k
  OBVIOUS
<1> HIDE DEF r
<1>7. r.at # "compare" /\ (r.at = "record" => r.origin = login[w].origin)
  BY <1>0, <1>3, <1>6
<1>8. QED
  BY <1>1, <1>4, <1>5, <1>6, <1>7, ThrottleArrives

\* A request that is over.
LEMMA LoginEnds ==
  ASSUME ThrottleIInv, NEW w \in Worker, login' = [login EXCEPT ![w] = Throttle!Idle],
         UNCHANGED clock
  PROVE  /\ login' \in [Worker -> {Throttle!Idle} \cup Throttle!Request]
         /\ OwnKeys' /\ LoginsRecent'
         /\ \A o : Passed(o)' = Passed(o) \ {w}
<1>1. Throttle!Idle.at = "idle"
  BY DEF Throttle!Idle
<1>2. /\ login' \in [Worker -> {Throttle!Idle} \cup Throttle!Request]
      /\ OwnKeys' /\ LoginsRecent'
      /\ \A o : Passed(o)' = IF /\ Throttle!Idle.at \in {"compare", "record"}
                                /\ Throttle!Idle.origin = o
                             THEN Passed(o) \cup {w} ELSE Passed(o) \ {w}
  BY <1>1, LoginKeeps
<1>3. QED
  BY <1>1, <1>2

LEMMA ThrottleClear ==
  ASSUME ThrottleIInv, NEW w \in Worker, Throttle!Clear(w)
  PROVE  ThrottleIInv'
<1>0. PICK k, now : k = login[w].origin /\ now = login[w].now
  OBVIOUS
<1>1. login[w].at = "clear" /\ UNCHANGED clock
      /\ login' = [login EXCEPT ![w] = Throttle!Idle]
      /\ failures' = [failures EXCEPT ![k] = <<>>]
  BY <1>0 DEF Throttle!Clear
<1>2. k \in Origin /\ login[w].key = k /\ now \in Int /\ now <= clock
  BY <1>0, <1>1, LoginIs
<1>3. attempts' = Throttle!S!Drop(attempts, k, now)
  BY <1>0, <1>2 DEF Throttle!Clear
<1>4. /\ attempts' \in TP!Tiers(Throttle!Stored) /\ TP!WellFormed(attempts')
      /\ Shapes' /\ Remembered'
  BY <1>1, <1>2, <1>3, ThrottleForget
<1>5. /\ login' \in [Worker -> {Throttle!Idle} \cup Throttle!Request]
      /\ OwnKeys' /\ LoginsRecent'
      /\ \A o : Passed(o)' = Passed(o) \ {w}
  BY <1>1, LoginEnds
<1>6. failures \in [Origin -> Seq(0..LoginHorizon)]
  BY DEF ThrottleIInv, Throttle!TypeOK
<1>7. /\ failures' \in [Origin -> Seq(0..LoginHorizon)]
      /\ \A o \in Origin : failures'[o] = IF o = k THEN <<>> ELSE failures[o]
  <2>1. <<>> \in Seq(0..LoginHorizon)
    OBVIOUS
  <2>2. QED
    BY <1>1, <1>6, <2>1, Zenon
<1>8. Throttle!TypeOK'
  BY <1>1, <1>4, <1>5, <1>7, AttemptsTyped DEF ThrottleIInv, Throttle!TypeOK
<1>9. FailuresPast'
  BY <1>1, <1>7 DEF ThrottleIInv, FailuresPast
<1>10. Guessing'
  <2>1. SUFFICES ASSUME NEW o \in Origin
                 PROVE  Len(failures'[o]) + Cardinality(Passed(o)')
                          <= MaxFailures - 1 + Cardinality(Worker)
    BY DEF Guessing
  <2>2. Len(failures'[o]) \in Nat /\ Len(failures'[o]) <= Len(failures[o])
    <3>1. Len(failures[o]) \in Nat /\ Len(<<>>) = 0
      BY <1>6
    <3>2. QED
      BY <1>7, <3>1
  <2>3. QED
    BY <1>5, <2>2, GuessingKeeps
<1>11. QED
  BY <1>4, <1>5, <1>8, <1>9, <1>10 DEF ThrottleIInv

LEMMA ThrottleRecord ==
  ASSUME ThrottleIInv, NEW w \in Worker, Throttle!Record(w)
  PROVE  ThrottleIInv'
<1>0. PICK k, now : k = login[w].origin /\ now = login[w].now
  OBVIOUS
<1>1. login[w].at = "record" /\ UNCHANGED clock
      /\ login' = [login EXCEPT ![w] = Throttle!Idle]
  BY DEF Throttle!Record
<1>2. /\ k \in Origin /\ login[w].key = k /\ k \in Throttle!Address
      /\ now \in 0..LoginHorizon /\ now \in Int /\ now <= clock /\ clock <= now + MaxLag
      /\ clock \in Int
  BY <1>0, <1>1, LoginIs
<1>3. /\ attempts' = Throttle!Charged(attempts, k, now)
      /\ failures' = [o \in Origin |->
           IF o \in Throttle!Forgiven(attempts', k) THEN <<>>
           ELSE IF o = k THEN Append(failures[o], now) ELSE failures[o]]
  BY <1>0, <1>2 DEF Throttle!Record
<1>4. PICK val \in Seq(0..LoginHorizon) : Writes(attempts, attempts', k, now, val)
  BY <1>2, <1>3, ChargePuts
<1>5. PICK entry : entry = [key |-> k, exp |-> now + Lockout, val |-> val]
  OBVIOUS
<1>6. /\ entry.key = k /\ entry.exp = now + Lockout /\ entry.val = val
      /\ 1 <= Len(val) /\ Len(val) <= MaxFailures /\ val[Len(val)] = now
      /\ \A e \in TP!Entries(attempts) :
           e.key = k /\ e.exp > now => Carries(val, e.val, now)
      /\ attempts' \in TP!Tiers(Throttle!Stored) /\ TP!WellFormed(attempts')
      /\ TP!Entries(attempts') \subseteq {e \in TP!Entries(attempts) : e.key # k} \cup {entry}
      /\ entry \in TP!Entries(attempts')
      /\ \A e \in TP!Within(attempts'.plain) :
           e \in TP!Within(attempts.plain) \/ (e = entry /\ Len(val) < MaxFailures)
      /\ \A e \in TP!Within(attempts'.guarded) :
           e \in TP!Within(attempts.guarded) \/ (e = entry /\ Len(val) = MaxFailures)
  BY <1>4, <1>5 DEF Writes
<1>7. Shapes'
  <2>1. Shaped(entry)
    BY <1>6 DEF Shaped
  <2>2. ASSUME NEW e \in TP!Within(attempts'.plain)
        PROVE  Shaped(e) /\ Len(e.val) < MaxFailures
    BY <1>6, <2>1 DEF ThrottleIInv, Shapes
  <2>3. ASSUME NEW e \in TP!Within(attempts'.guarded)
        PROVE  Shaped(e) /\ Len(e.val) = MaxFailures
    BY <1>6, <2>1 DEF ThrottleIInv, Shapes
  <2>4. QED
    BY <2>2, <2>3 DEF Shapes, Shaped
<1>8. k \notin Throttle!Forgiven(attempts', k)
  BY DEF Throttle!Forgiven, Throttle!S!Evicted
<1>9. \A o \in Origin :
        failures'[o] = IF o \in Throttle!Forgiven(attempts', k) THEN <<>>
                       ELSE IF o = k THEN Append(failures[o], now) ELSE failures[o]
  BY <1>3
<1>10. failures'[k] = Append(failures[k], now)
  BY <1>2, <1>8, <1>9
<1>11. failures \in [Origin -> Seq(0..LoginHorizon)]
  BY DEF ThrottleIInv, Throttle!TypeOK
<1>12. ASSUME NEW o \in Origin
       PROVE  /\ failures'[o] \in Seq(0..LoginHorizon)
              /\ o # k => Len(failures'[o]) <= Len(failures[o])
              /\ \A i \in DOMAIN failures'[o] : failures'[o][i] <= clock
  <2>1. failures[o] \in Seq(0..LoginHorizon) /\ Len(failures[o]) \in Nat
    BY <1>11
  <2>2. \A i \in DOMAIN failures[o] : failures[o][i] <= clock
    BY DEF ThrottleIInv, FailuresPast
  <2>3. CASE failures'[o] = <<>>
    BY <2>1, <2>3
  <2>4. CASE failures'[o] = failures[o]
    BY <2>1, <2>2, <2>4
  <2>5. CASE o = k
    <3> DEFINE longer == Append(failures[o], now)
               len == Len(failures[o])
    <3>1. /\ longer \in Seq(0..LoginHorizon) /\ Len(longer) = len + 1
          /\ \A i \in 1..len : longer[i] = failures[o][i]
          /\ longer[len + 1] = now
      BY <1>2, <2>1, AppendProperties
    <3>2. DOMAIN longer = 1..(len + 1) /\ DOMAIN failures[o] = 1..len
      BY <2>1, <3>1
    <3>3. failures'[o] = longer
      BY <1>10, <2>5
    <3> HIDE DEF longer, len
    <3>4. \A i \in DOMAIN longer : longer[i] <= clock
      <4>1. len \in Nat
        BY <2>1 DEF len
      <4>2. \A i \in DOMAIN longer : i \in DOMAIN failures[o] \/ i = len + 1
        BY <3>2, <4>1
      <4>3. QED
        BY <1>2, <2>2, <3>1, <3>2, <4>2
    <3>5. QED
      BY <2>5, <3>1, <3>3, <3>4
  <2>6. QED
    BY <1>9, <2>3, <2>4, <2>5
<1>13. Remembered'
  <2>1. SUFFICES ASSUME NEW o \in Origin, failures'[o] # <<>>
                 PROVE  \E e \in TP!Entries(attempts)' : e.key = o /\ Backed(o, e)'
    BY DEF Remembered
  <2>2. CASE o = k
    <3>1. Backed(k, entry)'
      BY <1>1, <1>2, <1>6, <1>10, OwnBacked
    <3>2. entry \in TP!Entries(attempts)'
      BY <1>6
    <3>3. QED
      BY <1>6, <2>2, <3>1, <3>2
  <2>3. CASE o # k
    <3>1. failures'[o] = failures[o] /\ o \notin Throttle!Forgiven(attempts', k)
      BY <1>9, <2>1, <2>3
    <3>2. PICK e \in TP!Entries(attempts) : e.key = o /\ Backed(o, e)
      BY <2>1, <3>1 DEF ThrottleIInv, Remembered
    <3>3. e.exp > clock
      BY <2>1, <3>1, <3>2, BackedLives
    <3>4. o \in Throttle!S!Keys(attempts')
      BY <2>3, <3>1, <3>2, <3>3, TStoreIs DEF Throttle!Forgiven, Throttle!S!Evicted
    <3>5. PICK d \in TP!Entries(attempts') : d.key = o
      BY <3>4, TStoreIs DEF TP!Keys
    <3>6. d \in TP!Entries(attempts)
      BY <1>6, <2>3, <3>5
    <3>7. d = e
      BY <3>2, <3>5, <3>6, AttemptsAre, TP!KeyIsUnique
    <3>8. Backed(o, e)'
      BY <1>1, <3>1, <3>2 DEF Backed
    <3>9. QED
      BY <3>2, <3>5, <3>7, <3>8
  <2>4. QED
    BY <2>2, <2>3
<1>14. /\ login' \in [Worker -> {Throttle!Idle} \cup Throttle!Request]
       /\ OwnKeys' /\ LoginsRecent'
       /\ \A o : Passed(o)' = Passed(o) \ {w}
  BY <1>1, LoginEnds
<1>15. Throttle!TypeOK'
  <2>1. failures' \in [Origin -> Seq(0..LoginHorizon)]
    BY <1>3, <1>12
  <2>2. attempts' \in TP!Tiers(Throttle!Stored) /\ TP!WellFormed(attempts')
    BY <1>6
  <2>3. QED
    BY <1>1, <1>14, <2>1, <2>2, AttemptsTyped DEF ThrottleIInv, Throttle!TypeOK
<1>16. FailuresPast'
  BY <1>1, <1>12 DEF FailuresPast
<1>17. Guessing'
  <2>1. SUFFICES ASSUME NEW o \in Origin
                 PROVE  Len(failures'[o]) + Cardinality(Passed(o)')
                          <= MaxFailures - 1 + Cardinality(Worker)
    BY DEF Guessing
  <2>2. CASE o = k
    <3> DEFINE a == Len(failures[o])
               b == Len(failures'[o])
               c == Cardinality(Passed(o))
               d == Cardinality(Passed(o)')
    <3>1. a \in Nat /\ b = a + 1
      BY <1>10, <1>11, <2>2, AppendProperties
    <3>2. Passed(o) \in SUBSET Worker /\ w \in Passed(o)
      BY <1>0, <1>1, <2>2 DEF Passed
    <3>3. c \in Nat /\ d = c - 1
      BY <1>14, <3>2, PassedAre
    <3>4. a + c <= MaxFailures - 1 + Cardinality(Worker)
      BY DEF ThrottleIInv, Guessing
    <3> HIDE DEF a, b, c, d
    <3>5. b + d <= MaxFailures - 1 + Cardinality(Worker)
      BY <3>1, <3>3, <3>4, ThrottleFacts
    <3>6. QED
      BY <3>5 DEF b, d
  <2>3. CASE o # k
    <3>1. Passed(o)' \subseteq Passed(o)
      BY <1>14
    <3>2. Len(failures'[o]) \in Nat /\ Len(failures'[o]) <= Len(failures[o])
      BY <1>12, <2>3
    <3>3. QED
      BY <3>1, <3>2, GuessingKeeps
  <2>4. QED
    BY <2>2, <2>3
<1>18. QED
  BY <1>7, <1>13, <1>14, <1>15, <1>16, <1>17 DEF ThrottleIInv

\* The clock, and the failures that leave the window with it.
LEMMA ThrottleTick ==
  ASSUME ThrottleIInv, Throttle!Tick
  PROVE  ThrottleIInv'
<1>1. /\ clock < LoginHorizon /\ clock' = clock + 1
      /\ \A w \in Worker : login[w].at \in {"ask", "record", "clear"} =>
           clock - login[w].now < MaxLag
      /\ failures' = [o \in Origin |->
           Throttle!Since(failures[o], clock + 1 - Throttle!Window)]
      /\ UNCHANGED <<attempts, login>>
  BY DEF Throttle!Tick
<1>2. /\ clock \in Int /\ clock \in 0..LoginHorizon /\ clock' \in 0..LoginHorizon
      /\ failures \in [Origin -> Seq(0..LoginHorizon)]
  BY <1>1, ThrottleFacts DEF ThrottleIInv, Throttle!TypeOK
<1>3. PICK since : since = clock + 1 - Throttle!Window
  OBVIOUS
<1>4. since \in Int /\ since = clock + 1 - (Lockout - MaxLag) /\ 0..LoginHorizon \subseteq Int
  BY <1>2, <1>3, ThrottleFacts
<1>5. ASSUME NEW o \in Origin
      PROVE  /\ failures'[o] \in Seq(0..LoginHorizon)
             /\ Len(failures'[o]) <= Len(failures[o])
             /\ KeptOf(failures'[o], failures[o], since, Len(failures[o]))
  <2>1. failures[o] \in Seq(0..LoginHorizon)
    BY <1>2
  <2>2. failures'[o] = Throttle!Since(failures[o], since)
    BY <1>1, <1>3
  <2>3. LET kept == Throttle!Since(failures[o], since) IN
        /\ kept \in Seq(0..LoginHorizon) /\ Len(kept) <= Len(failures[o])
        /\ KeptOf(kept, failures[o], since, Len(failures[o]))
    BY <1>4, <2>1, SinceKeeps
  <2>4. QED
    BY <2>2, <2>3
<1>6. Throttle!TypeOK'
  <2>1. failures' \in [Origin -> Seq(0..LoginHorizon)]
    BY <1>1, <1>5
  <2>2. QED
    BY <1>1, <1>2, <2>1 DEF ThrottleIInv, Throttle!TypeOK
<1>7. OwnKeys' /\ Shapes'
  BY <1>1 DEF ThrottleIInv, OwnKeys, Shapes, Shaped
<1>8. LoginsRecent'
  <2>1. SUFFICES ASSUME NEW w \in Worker, login[w].at \in {"ask", "record", "clear"}
                 PROVE  login[w].now <= clock' /\ clock' <= login[w].now + MaxLag
    BY <1>1 DEF LoginsRecent
  <2>2. login[w].now \in Int /\ login[w].now <= clock
    BY <2>1, LoginIs
  <2>3. clock - login[w].now < MaxLag
    BY <1>1, <2>1
  <2>4. QED
    BY <1>1, <1>2, <2>2, <2>3, ThrottleFacts
<1>9. ASSUME NEW o \in Origin, NEW a \in 1..Len(failures'[o])
      PROVE  /\ failures'[o][a] \in Int /\ failures'[o][a] > since
             /\ \E c \in 1..Len(failures[o]) :
                  /\ failures'[o][a] = failures[o][c]
                  /\ a <= c /\ c - a <= Len(failures[o]) - Len(failures'[o])
  <2>1. failures'[o][a] > since /\ failures'[o] \in Seq(Int)
    BY <1>5 DEF KeptOf
  <2>2. QED
    BY <1>5, <2>1 DEF KeptOf
<1>10. FailuresPast'
  <2>1. SUFFICES ASSUME NEW o \in Origin, NEW a \in DOMAIN failures'[o]
                 PROVE  failures'[o][a] <= clock'
    BY DEF FailuresPast
  <2>2. a \in 1..Len(failures'[o])
    BY <1>5
  <2>3. PICK c \in 1..Len(failures[o]) : failures'[o][a] = failures[o][c]
    BY <1>9, <2>2
  <2>4. c \in DOMAIN failures[o]
    BY <1>2
  <2>5. failures[o][c] <= clock
    BY <2>4 DEF ThrottleIInv, FailuresPast
  <2>6. failures'[o][a] \in Int
    BY <1>9, <2>2
  <2>7. QED
    BY <1>1, <1>2, <2>3, <2>5, <2>6
<1>11. Remembered'
  <2>1. SUFFICES ASSUME NEW o \in Origin, failures'[o] # <<>>
                 PROVE  \E e \in TP!Entries(attempts)' : e.key = o /\ Backed(o, e)'
    BY DEF Remembered
  <2> DEFINE f == failures[o]
             g == failures'[o]
             n == Len(f)
             p == Len(g)
  <2>2. n \in Nat /\ p \in Nat /\ p <= n /\ p # 0 /\ f # <<>>
    <3>1. f \in Seq(0..LoginHorizon) /\ g \in Seq(0..LoginHorizon) /\ p <= n
      BY <1>2, <1>5
    <3>2. p # 0
      BY <2>1, <3>1
    <3>3. QED
      BY <3>1, <3>2
  <2>3. PICK e \in TP!Entries(attempts) : e.key = o /\ Backed(o, e)
    BY <2>2 DEF ThrottleIInv, Remembered
  <2> DEFINE val == e.val
             top == Len(val)
  <2>4. top \in Nat /\ \A i \in 1..top : val[i] \in Int
    BY AttemptsAre
  <2>5. ASSUME NEW j \in 0..(MaxFailures - 1), j < p
        PROVE  /\ j < top
               /\ val[top - j] > clock + 1 - Lockout
               /\ \A i \in j..(p - 1) : g[p - i] <= val[top - j] + MaxLag
    <3>1. j < n /\ j \in Nat
      BY <2>2, <2>5
    <3>2. /\ j < top
          /\ \A b \in j..(n - 1) : f[n - b] <= val[top - j] + MaxLag
      BY <2>3, <3>1 DEF Backed
    <3>3. ASSUME NEW a \in 1..p
          PROVE  /\ g[a] \in Int /\ g[a] > since
                 /\ \E c \in 1..n : g[a] = f[c] /\ a <= c /\ c - a <= n - p
      BY <1>9
    <3> HIDE DEF f, g, n, p, val, top
    <3>4. ASSUME NEW i \in j..(p - 1) PROVE g[p - i] <= val[top - j] + MaxLag
      <4>1. p - i \in 1..p
        BY <2>2, <3>1
      <4>2. PICK c \in 1..n : g[p - i] = f[c] /\ p - i <= c /\ c - (p - i) <= n - p
        BY <3>3, <4>1
      <4>3. n - c \in j..(n - 1) /\ n - (n - c) = c
        BY <2>2, <3>1, <4>2
      <4>4. f[n - (n - c)] <= val[top - j] + MaxLag
        BY <3>2, <4>3
      <4>5. QED
        BY <4>2, <4>3, <4>4
    <3>5. val[top - j] > clock + 1 - Lockout
      <4>1. j \in j..(p - 1) /\ p - j \in 1..p
        BY <2>2, <2>5, <3>1
      <4>2. g[p - j] <= val[top - j] + MaxLag /\ g[p - j] > since /\ g[p - j] \in Int
        BY <3>3, <3>4, <4>1
      <4>3. val[top - j] \in Int
        BY <2>4, <3>1, <3>2
      <4>4. QED
        BY <1>2, <1>4, <4>2, <4>3, ThrottleFacts
    <3>6. QED
      BY <3>2, <3>4, <3>5
  <2>6. Backed(o, e)'
    <3>1. clock' - Lockout = clock + 1 - Lockout
      BY <1>1, <1>2, ThrottleFacts
    <3>2. \A j \in 0..(MaxFailures - 1) : j < p =>
            /\ j < top
            /\ val[top - j] > clock' - Lockout
            /\ \A i \in j..(p - 1) : g[p - i] <= val[top - j] + MaxLag
      BY <2>5, <3>1
    <3>3. QED
      BY <3>2 DEF Backed
  <2>7. e \in TP!Entries(attempts)'
    BY <1>1 DEF TP!Entries
  <2>8. QED
    BY <2>3, <2>6, <2>7
<1>12. Guessing'
  <2>1. SUFFICES ASSUME NEW o \in Origin
                 PROVE  Len(failures'[o]) + Cardinality(Passed(o)')
                          <= MaxFailures - 1 + Cardinality(Worker)
    BY DEF Guessing
  <2> DEFINE a == Len(failures[o])
             b == Len(failures'[o])
             c == Cardinality(Passed(o))
  <2>2. a \in Nat /\ b \in Nat /\ b <= a
    <3>1. failures[o] \in Seq(0..LoginHorizon) /\ failures'[o] \in Seq(0..LoginHorizon)
      BY <1>2, <1>5
    <3>2. QED
      BY <1>5, <3>1
  <2>3. c \in Nat
    <3>1. Passed(o) \in SUBSET Worker
      BY DEF Passed
    <3>2. QED
      BY <3>1, PassedAre
  <2>4. a + c <= MaxFailures - 1 + Cardinality(Worker)
    BY DEF ThrottleIInv, Guessing
  <2>5. Passed(o)' = Passed(o)
    BY <1>1 DEF Passed
  <2> HIDE DEF a, b, c
  <2>6. b + c <= MaxFailures - 1 + Cardinality(Worker)
    BY <2>2, <2>3, <2>4, ThrottleFacts
  <2>7. QED
    BY <2>5, <2>6 DEF b, c
<1>13. QED
  BY <1>6, <1>7, <1>8, <1>10, <1>11, <1>12 DEF ThrottleIInv

LEMMA ThrottleStep ==
  ASSUME ThrottleIInv, Throttle!Next \/ UNCHANGED Throttle!vars
  PROVE  ThrottleIInv'
<1>1. CASE UNCHANGED Throttle!vars
  BY <1>1 DEF Throttle!vars, ThrottleIInv, Throttle!TypeOK, OwnKeys, LoginsRecent, Shapes,
              Shaped, Remembered, Backed, FailuresPast, Guessing, Passed
<1>2. CASE Throttle!Next
  BY <1>2, ThrottleTick, ThrottleAsk, ThrottleCompare, ThrottleRecord, ThrottleClear,
     ThrottleLogin DEF Throttle!Next, Throttle!Serve
<1>3. QED
  BY <1>1, <1>2

\* login_throttle_retry_after has a client wait for a lockout in the protected tier.
LEMMA BlockedHas ==
  ASSUME ThrottleIInv, NEW key, Throttle!Blocked(key)
  PROVE  \E e \in TP!Within(attempts.guarded) : Locks(e, key, clock)
<1>1. /\ attempts \in TP!Tiers(Throttle!Stored) /\ TP!WellFormed(attempts) /\ clock \in Int
      /\ \A e \in TP!Entries(attempts) : Shaped(e)
  BY AttemptsAre
<1>2. Delay(attempts, key, clock) > 0
  BY RetryIs DEF Throttle!Blocked
<1>3. PICK e \in TP!Entries(attempts) : Locks(e, key, clock)
  BY <1>1, <1>2, DelayLocks DEF Shaped
<1>4. TP!Entries(attempts) = TP!Within(attempts.plain) \cup TP!Within(attempts.guarded)
  BY DEF TP!Entries, TP!Within
<1>5. e \notin TP!Within(attempts.plain)
  BY <1>3, ThrottleFacts DEF ThrottleIInv, Shapes, Locks
<1>6. QED
  BY <1>3, <1>4, <1>5

LEMMA StillBlocked ==
  ASSUME ThrottleIInv', NEW key, NEW now \in Int, clock' = now,
         NEW e \in TP!Entries(attempts'), Locks(e, key, now)
  PROVE  Throttle!Blocked(key)'
<1>1. attempts' \in TP!Tiers(Throttle!Stored) /\ TP!WellFormed(attempts')
  BY TStoreIs DEF ThrottleIInv, Throttle!TypeOK, TP!Tiers
<1>2. Delay(attempts', key, now) > 0
  BY <1>1, LockDelays
<1>3. Throttle!RetryAfter(key, clock)' = Delay(attempts', key, now)
  BY TAnswersAre DEF Throttle!RetryAfter, Delay
<1>4. QED
  BY <1>2, <1>3 DEF Throttle!Blocked

\* A failure of a client that is locked out leaves it locked out.
LEMMA FullAgain ==
  ASSUME NEW key, NEW now \in Int, NEW wall \in Int, now <= wall, wall <= now + MaxLag,
         NEW e, Locks(e, key, wall), e.val \in Seq(0..LoginHorizon),
         NEW val \in Seq(0..LoginHorizon),
         1 <= Len(val), Len(val) <= MaxFailures, val[Len(val)] = now,
         Carries(val, e.val, now)
  PROVE  Locks([key |-> key, exp |-> now + Lockout, val |-> val], key, wall)
<1> DEFINE old == e.val
           top == Len(val)
<1>1. /\ MaxFailures \in Nat \ {0} /\ Lockout \in Nat /\ MaxLag \in Nat /\ MaxLag < Lockout
      /\ 0..LoginHorizon \subseteq Int
  BY ThrottleFacts
<1>2. /\ Len(old) = MaxFailures
      /\ \A i \in 1..MaxFailures : old[i] > wall - Lockout
  BY DEF Locks
<1>3. \A i \in 1..MaxFailures : old[i] \in Int
  <2>1. \A v \in Seq(0..LoginHorizon) : \A i \in 1..Len(v) : v[i] \in Int
    BY ThrottleFacts
  <2>2. QED
    BY <1>2, <2>1
<1>4. top \in Nat /\ 1 <= top /\ top <= MaxFailures /\ val[top] = now
  OBVIOUS
<1>5. \A j \in 0..(MaxFailures - 1) : j + 1 < MaxFailures =>
        j + 1 < top /\ val[top - (j + 1)] = old[MaxFailures - j]
  <2>1. MaxFailures \in 0..Len(old)
    BY <1>1, <1>2
  <2>2. \A i \in (Len(old) - MaxFailures + 1)..Len(old) : old[i] > now - Lockout
    BY <1>1, <1>2, <1>3
  <2>3. QED
    BY <1>2, <2>1, <2>2 DEF Carries
<1> HIDE DEF old, top
<1>6. top = MaxFailures
  <2>1. CASE MaxFailures = 1
    BY <1>1, <1>4, <2>1
  <2>2. CASE MaxFailures # 1
    <3>1. MaxFailures - 2 \in 0..(MaxFailures - 1) /\ (MaxFailures - 2) + 1 < MaxFailures
      BY <1>1, <2>2
    <3>2. (MaxFailures - 2) + 1 < top
      BY <1>5, <3>1
    <3>3. QED
      BY <1>1, <1>4, <3>2
  <2>3. QED
    BY <2>1, <2>2
<1>7. ASSUME NEW i \in 1..top PROVE val[i] > wall - Lockout
  <2>1. CASE i = top
    BY <1>1, <1>4, <2>1
  <2>2. CASE i # top
    <3>1. /\ MaxFailures - i - 1 \in 0..(MaxFailures - 1)
          /\ (MaxFailures - i - 1) + 1 < MaxFailures
          /\ top - ((MaxFailures - i - 1) + 1) = i
          /\ MaxFailures - (MaxFailures - i - 1) = i + 1 /\ i + 1 \in 1..MaxFailures
      BY <1>1, <1>4, <1>6, <2>2
    <3>2. val[top - ((MaxFailures - i - 1) + 1)] = old[MaxFailures - (MaxFailures - i - 1)]
      BY <1>5, <3>1
    <3>3. QED
      BY <1>2, <3>1, <3>2
  <2>3. QED
    BY <2>1, <2>2
<1>8. now + Lockout > wall
  BY <1>1
<1>9. QED
  BY <1>6, <1>7, <1>8 DEF Locks, top

\* What a step may do to a client that has to wait.
Outcome(key) ==
  \/ \E w \in Worker : Throttle!Clears(w) /\ login[w].key = key
  \/ Throttle!Displaced(key)

LEMMA RecordHolds ==
  ASSUME ThrottleIInv, NEW w \in Worker, Throttle!Record(w),
         NEW key, NEW e \in TP!Within(attempts.guarded), Locks(e, key, clock)
  PROVE  \/ Throttle!Displaced(key)
         \/ \E d \in TP!Entries(attempts') : Locks(d, key, clock)
<1>0. PICK k, now : k = login[w].key /\ now = login[w].now
  OBVIOUS
<1>1. login[w].at = "record" /\ attempts' = Throttle!Charged(attempts, k, now)
  BY <1>0 DEF Throttle!Record
<1>2. /\ k \in Throttle!Address /\ now \in 0..LoginHorizon /\ now \in Int /\ clock \in Int
      /\ now <= clock /\ clock <= now + MaxLag
  BY <1>0, <1>1, LoginIs
<1>3. PICK val \in Seq(0..LoginHorizon) : Writes(attempts, attempts', k, now, val)
  BY <1>1, <1>2, ChargePuts
<1> DEFINE entry == [key |-> k, exp |-> now + Lockout, val |-> val]
<1>4. e \in TP!Entries(attempts) /\ e.exp \in Int /\ e.val \in Seq(0..LoginHorizon)
  <2>1. e \in TP!Entries(attempts)
    BY DEF TP!Entries, TP!Within
  <2>2. QED
    BY <2>1, AttemptsAre
<1>5. e.key = key /\ e.exp > now
  BY <1>2, <1>4 DEF Locks
<1>6. CASE k = key
  <2>1. /\ 1 <= Len(val) /\ Len(val) <= MaxFailures /\ val[Len(val)] = now
        /\ Carries(val, e.val, now) /\ entry \in TP!Entries(attempts')
    BY <1>3, <1>4, <1>5, <1>6 DEF Writes
  <2>2. Locks(entry, key, clock)
    BY <1>2, <1>4, <1>6, <2>1, FullAgain
  <2>3. QED
    BY <2>1, <2>2
<1>7. CASE k # key
  <2>1. \/ e \in TP!Within(attempts'.guarded)
        \/ /\ e = attempts.guarded[1] /\ Len(attempts.guarded) = TP!GuardedCap
           /\ ~TP!Holds(attempts.guarded, k) /\ entry \in TP!Within(attempts'.guarded)
    BY <1>3, <1>5, <1>7 DEF Writes
  <2>2. CASE e \in TP!Within(attempts'.guarded)
    BY <2>2 DEF TP!Entries, TP!Within
  <2>3. CASE /\ e = attempts.guarded[1] /\ Len(attempts.guarded) = TP!GuardedCap
             /\ ~TP!Holds(attempts.guarded, k) /\ entry \in TP!Within(attempts'.guarded)
    <3>1. PICK i \in DOMAIN attempts'.guarded : attempts'.guarded[i] = entry
      BY <2>3 DEF TP!Within
    <3>2. ~Throttle!S!Holds(attempts.guarded, attempts'.guarded[i].key)
      BY <2>3, <3>1, TStoreIs
    <3>3. Head(attempts.guarded).key = key
      BY <1>5, <2>3
    <3>4. Len(attempts.guarded) = Throttle!S!GuardedCap
      BY <2>3, TStoreIs
    <3>5. QED
      BY <3>2, <3>3, <3>4 DEF Throttle!Displaced
  <2>4. QED
    BY <2>1, <2>2, <2>3
<1>8. QED
  BY <1>6, <1>7

\* A client that has to wait still has to.
LEMMA LockoutStep ==
  ASSUME ThrottleIInv, Throttle!Next \/ UNCHANGED Throttle!vars, attempts' # attempts,
         NEW key \in Throttle!Address, Throttle!Blocked(key), ~Throttle!Blocked(key)'
  PROVE  Outcome(key)
<1>1. PICK e \in TP!Within(attempts.guarded) : Locks(e, key, clock)
  BY BlockedHas
<1>2. ThrottleIInv'
  BY ThrottleStep
<1>3. clock \in Int /\ attempts \in TP!Tiers(Throttle!Stored) /\ TP!WellFormed(attempts)
  BY AttemptsAre
<1>4. e \in TP!Entries(attempts) /\ e.exp \in Int /\ e.key = key /\ e.exp > clock
  <2>1. e \in TP!Entries(attempts)
    BY DEF TP!Entries, TP!Within
  <2>2. QED
    BY <1>1, <2>1, AttemptsAre DEF Locks
<1>5. ASSUME clock' = clock, NEW d \in TP!Entries(attempts'), Locks(d, key, clock)
      PROVE  FALSE
  <2>1. PICK wall : wall = clock
    OBVIOUS
  <2>2. wall \in Int /\ clock' = wall /\ Locks(d, key, wall)
    BY <1>3, <1>5, <2>1
  <2>3. QED
    BY <1>2, <2>2, StillBlocked
<1>6. ASSUME NEW now \in Int, now <= clock
      PROVE  e \in TP!Entries(TP!Sweep(attempts, now))
  <2>1. e.exp > now
    BY <1>3, <1>4, <1>6
  <2>2. QED
    BY <1>3, <1>4, <2>1, StoredIs, AttemptsStore, TP!SweepKeeps
<1>7. ASSUME NEW w \in Worker, Throttle!Ask(w) PROVE FALSE
  <2>0. PICK now : now = login[w].now
    OBVIOUS
  <2>1. attempts' = TP!Sweep(attempts, now) /\ clock' = clock /\ login[w].at = "ask"
    BY <1>7, <2>0, TSweepIs DEF Throttle!Ask
  <2>2. now \in Int /\ now <= clock
    BY <2>0, <2>1, LoginIs
  <2>3. QED
    BY <1>1, <1>5, <1>6, <2>1, <2>2
<1>8. ASSUME NEW w \in Worker, Throttle!Clear(w) PROVE Outcome(key)
  <2>0. PICK k, now : k = login[w].key /\ now = login[w].now
    OBVIOUS
  <2>1. /\ attempts' = TP!Drop(attempts, k, now) /\ clock' = clock /\ login[w].at = "clear"
        /\ login' = [login EXCEPT ![w] = Throttle!Idle]
    BY <1>8, <2>0, TAnswersAre DEF Throttle!Clear
  <2>2. now \in Int /\ now <= clock
    BY <2>0, <2>1, LoginIs
  <2>3. CASE k = key
    <3>1. login \in [Worker -> {Throttle!Idle} \cup Throttle!Request]
      BY DEF ThrottleIInv, Throttle!TypeOK
    <3>2. login'[w].at = "idle"
      BY <2>1, <3>1 DEF Throttle!Idle
    <3>3. Throttle!Clears(w)
      BY <2>1, <3>2 DEF Throttle!Clears
    <3>4. QED
      BY <2>0, <2>3, <3>3 DEF Outcome
  <2>4. CASE k # key
    <3>1. TP!Entries(TP!Drop(attempts, k, now)) =
            {d \in TP!Entries(TP!Sweep(attempts, now)) : d.key # k}
      BY <1>3, <2>2, StoredIs, AttemptsStore, TP!DropKeeps
    <3>2. e \in TP!Entries(attempts')
      BY <1>4, <1>6, <2>1, <2>2, <2>4, <3>1
    <3>3. QED
      BY <1>1, <1>5, <2>1, <3>2
  <2>5. QED
    BY <2>3, <2>4
<1>9. ASSUME NEW w \in Worker, Throttle!Record(w) PROVE Outcome(key)
  <2>1. clock' = clock
    BY <1>9 DEF Throttle!Record
  <2>2. QED
    BY <1>1, <1>5, <1>9, <2>1, RecordHolds DEF Outcome
<1>10. QED
  <2>1. Throttle!Next
    BY DEF Throttle!vars
  <2>2. \A w \in Worker : \A o \in Origin : ~Throttle!Login(w, o)
    BY DEF Throttle!Login
  <2>3. \A w \in Worker : \A good \in BOOLEAN : ~Throttle!Compare(w, good)
    BY DEF Throttle!Compare
  <2>4. ~Throttle!Tick
    BY DEF Throttle!Tick
  <2>5. QED
    BY <1>7, <1>8, <1>9, <2>1, <2>2, <2>3, <2>4 DEF Throttle!Next, Throttle!Serve

\* A failure is in the store when its request is over.
LEMMA NewcomerStep ==
  ASSUME ThrottleIInv, Throttle!Next \/ UNCHANGED Throttle!vars,
         NEW w \in Worker, login[w].at = "record", login'[w] = Throttle!Idle
  PROVE  login[w].key \in Throttle!S!Keys(attempts')
<1>1. /\ login \in [Worker -> {Throttle!Idle} \cup Throttle!Request]
      /\ Throttle!Idle.at = "idle" /\ login'[w] # login[w]
  BY DEF ThrottleIInv, Throttle!TypeOK, Throttle!Idle
<1>2. ASSUME NEW v \in Worker, NEW r, login' = [login EXCEPT ![v] = r] PROVE v = w
  BY <1>1, <1>2
<1>3. Throttle!Record(w)
  <2>1. Throttle!Next /\ ~Throttle!Tick
    BY <1>1 DEF Throttle!vars, Throttle!Tick
  <2>2. ASSUME NEW v \in Worker, Throttle!Ask(v) PROVE FALSE
    BY <1>2, <2>2 DEF Throttle!Ask
  <2>3. ASSUME NEW v \in Worker, Throttle!Clear(v) PROVE FALSE
    BY <1>2, <2>3 DEF Throttle!Clear
  <2>4. ASSUME NEW v \in Worker, NEW o \in Origin, Throttle!Login(v, o) PROVE FALSE
    <3>1. PICK r : login' = [login EXCEPT ![v] = r]
      BY <2>4 DEF Throttle!Login
    <3>2. QED
      BY <1>2, <2>4, <3>1 DEF Throttle!Login
  <2>5. ASSUME NEW v \in Worker, NEW good \in BOOLEAN, Throttle!Compare(v, good) PROVE FALSE
    <3>1. v # w
      BY <2>5 DEF Throttle!Compare
    <3>2. login'[w] = login[w]
      BY <1>1, <2>5, <3>1 DEF Throttle!Compare
    <3>3. QED
      BY <1>1, <3>2
  <2>6. ASSUME NEW v \in Worker, Throttle!Record(v) PROVE v = w
    BY <1>2, <2>6 DEF Throttle!Record
  <2>7. QED
    BY <2>1, <2>2, <2>3, <2>4, <2>5, <2>6 DEF Throttle!Next, Throttle!Serve
<1>4. PICK k, now : k = login[w].key /\ now = login[w].now
  OBVIOUS
<1>5. attempts' = Throttle!Charged(attempts, k, now)
  BY <1>3, <1>4 DEF Throttle!Record
<1>6. k \in Throttle!Address /\ now \in 0..LoginHorizon
  BY <1>4, LoginIs
<1>7. PICK val \in Seq(0..LoginHorizon) : Writes(attempts, attempts', k, now, val)
  BY <1>5, <1>6, ChargePuts
<1>8. [key |-> k, exp |-> now + Lockout, val |-> val] \in TP!Entries(attempts')
  BY <1>7 DEF Writes
<1>9. k \in TP!Keys(attempts')
  BY <1>8 DEF TP!Keys
<1>10. QED
  BY <1>4, <1>9, TStoreIs

\* However the threads interleave, the guesses of a client are bounded.
LEMMA GuessesAreBounded ==
  ASSUME ThrottleIInv
  PROVE  Throttle!GuessesBounded
<1>1. SUFFICES ASSUME NEW o \in Origin
               PROVE  Len(failures[o]) < MaxFailures + Cardinality(Worker)
  BY SizesAre DEF Throttle!GuessesBounded
<1> DEFINE f == Len(failures[o])
           p == Cardinality(Passed(o))
           n == Cardinality(Worker)
<1>2. f + p <= MaxFailures - 1 + n
  BY DEF ThrottleIInv, Guessing
<1>3. f \in Nat
  BY DEF ThrottleIInv, Throttle!TypeOK
<1>4. p \in Nat
  <2>1. Passed(o) \in SUBSET Worker
    BY DEF Passed
  <2>2. QED
    BY <2>1, PassedAre
<1>5. MaxFailures \in Nat /\ n \in Nat
  BY ThrottleFacts
<1> HIDE DEF f, p, n
<1>6. f < MaxFailures + n
  BY <1>2, <1>3, <1>4, <1>5
<1>7. QED
  BY <1>6 DEF f, n

LEMMA ThrottleBoxed == ThrottleIInv /\ [Throttle!Next]_(Throttle!vars) => ThrottleIInv'
BY ThrottleStep

LEMMA LockoutBoxed ==
  ThrottleIInv /\ [Throttle!Next]_(Throttle!vars) =>
    [\A key \in Throttle!Address : Throttle!Blocked(key) /\ ~Throttle!Blocked(key)' =>
       \/ \E w \in Worker : Throttle!Clears(w) /\ login[w].key = key
       \/ Throttle!Displaced(key)]_attempts
BY LockoutStep DEF Outcome

LEMMA NewcomerBoxed ==
  ThrottleIInv /\ [Throttle!Next]_(Throttle!vars) =>
    [\A w \in Worker : login[w].at = "record" /\ login'[w] = Throttle!Idle =>
       login[w].key \in Throttle!S!Keys(attempts')]_login
BY NewcomerStep

\* The state of the throttle keeps its types, the caps of its store included.
THEOREM ThrottleTypeCorrect == Throttle!Spec => []Throttle!TypeOK
<1>1. ThrottleIInv => Throttle!TypeOK
  BY DEF ThrottleIInv
<1>2. QED
  BY ThrottleInit, ThrottleBoxed, <1>1, PTL DEF Throttle!Spec

\* A client gets fewer guesses in a window than LOGIN_MAX_FAILURES and one for each
\* thread, whatever it writes into the header and however threads interleave
\* (login_throttle_retry_after, record_failed_login, client_identity).
THEOREM ThrottleGuessesBounded == Throttle!Spec => []Throttle!GuessesBounded
<1>1. ThrottleIInv => Throttle!GuessesBounded
  BY GuessesAreBounded
<1>2. QED
  BY ThrottleInit, ThrottleBoxed, <1>1, PTL DEF Throttle!Spec

\* A client that has to wait has to after every step, but for a sign-in of its own and
\* for younger lockouts that fill the protected half of the cap.
THEOREM ThrottleLockoutHolds == Throttle!Spec => Throttle!LockoutHolds
BY ThrottleInit, ThrottleBoxed, LockoutBoxed, PTL DEF Throttle!Spec, Throttle!LockoutHolds

\* A failure is in the store right after record_failed_login, however full it is.
THEOREM ThrottleNewcomerIsCounted == Throttle!Spec => Throttle!NewcomerIsCounted
BY ThrottleInit, ThrottleBoxed, NewcomerBoxed, PTL DEF Throttle!Spec, Throttle!NewcomerIsCounted
-----------------------------------------------------------------------------
(* The composition that TLC runs.                                          *)

\* What each of the three is known by, used or not.
HttpIInv ==
  /\ used \in {"attempts", "revoked", "stream"}
  /\ StreamIInv
  /\ IF used = "attempts" THEN ThrottleIInv
     ELSE /\ attempts = Throttle!S!EmptyStore /\ failures = [o \in Origin |-> <<>>]
          /\ login = [w \in Worker |-> Throttle!Idle]
  /\ used = "revoked" => SessionIInv

LEMMA HttpInit == Init => HttpIInv
<1>1. SUFFICES ASSUME Init PROVE HttpIInv
  OBVIOUS
<1>2. StreamIInv /\ ThrottleIInv
  BY <1>1, StreamInit, ThrottleInit DEF Init
<1>3. used = "revoked" => SessionIInv
  BY <1>1, SessionInit DEF Init
<1>4. QED
  BY <1>1, <1>2, <1>3 DEF Init, HttpIInv, Throttle!Init

LEMMA HttpStep == HttpIInv /\ [Next]_vars => HttpIInv'
<1>1. SUFFICES ASSUME HttpIInv, [Next]_vars PROVE HttpIInv'
  OBVIOUS
<1>2. /\ UNCHANGED used /\ used \in {"attempts", "revoked", "stream"}
      /\ StreamIInv
  BY <1>1 DEF HttpIInv, Next, vars
<1>3. CASE used = "attempts"
  <2>1. /\ Throttle!Next \/ UNCHANGED Throttle!vars
        /\ UNCHANGED Stream!vars
    BY <1>1, <1>3 DEF Next, vars, throttleVars, streamVars, Throttle!vars, Stream!vars
  <2>2. ThrottleIInv'
    BY <1>1, <1>3, <2>1, ThrottleStep DEF HttpIInv
  <2>3. StreamIInv'
    BY <1>2, <2>1, StreamStep
  <2>4. QED
    BY <1>2, <1>3, <2>2, <2>3 DEF HttpIInv
<1>4. CASE used = "revoked"
  <2>1. /\ Sessions!Next \/ UNCHANGED Sessions!vars
        /\ UNCHANGED Stream!vars /\ UNCHANGED throttleVars
    BY <1>1, <1>4 DEF Next, vars, sessionVars, throttleVars, streamVars,
                      Sessions!vars, Stream!vars
  <2>2. SessionIInv'
    BY <1>1, <1>4, <2>1, SessionStep DEF HttpIInv
  <2>3. StreamIInv'
    BY <1>2, <2>1, StreamStep
  <2>4. QED
    BY <1>1, <1>2, <1>4, <2>1, <2>2, <2>3
       DEF HttpIInv, throttleVars, Throttle!S!EmptyStore, Throttle!Idle
<1>5. CASE used = "stream"
  <2>1. (Stream!Next \/ UNCHANGED Stream!vars) /\ UNCHANGED throttleVars
    BY <1>1, <1>5 DEF Next, vars, throttleVars, streamVars, Stream!vars
  <2>2. StreamIInv'
    BY <1>2, <2>1, StreamStep
  <2>3. QED
    BY <1>1, <1>2, <1>5, <2>1, <2>2
       DEF HttpIInv, throttleVars, Throttle!S!EmptyStore, Throttle!Idle
<1>6. QED
  BY <1>2, <1>3, <1>4, <1>5

\* The types of whatever a behaviour of the composition uses.
THEOREM HttpTypeCorrect == Spec => []TypeOK
<1>1. HttpIInv => TypeOK
  BY DEF HttpIInv, TypeOK, ThrottleIInv, SessionIInv, StreamIInv
<1>2. QED
  BY HttpInit, HttpStep, <1>1, PTL DEF Spec

\* The guesses of a client are bounded beside the other two.
THEOREM HttpGuessesBounded == Spec => []GuessesBounded
<1>1. ASSUME HttpIInv, used # "attempts" PROVE GuessesBounded
  <2>1. SUFFICES ASSUME NEW o \in Origin
                 PROVE  Len(failures[o]) < MaxFailures + Cardinality(Worker)
    BY SizesAre DEF GuessesBounded, Throttle!GuessesBounded
  <2>2. failures[o] = <<>>
    BY <1>1 DEF HttpIInv
  <2>3. Len(failures[o]) = 0
    BY <2>2
  <2> DEFINE n == Cardinality(Worker)
  <2>4. MaxFailures \in Nat \ {0} /\ n \in Nat
    BY ThrottleFacts
  <2> HIDE DEF n
  <2>5. 0 < MaxFailures + n
    BY <2>4
  <2>6. QED
    BY <2>3, <2>5 DEF n
<1>2. HttpIInv => GuessesBounded
  BY <1>1, GuessesAreBounded DEF HttpIInv, GuessesBounded
<1>3. QED
  BY HttpInit, HttpStep, <1>2, PTL DEF Spec

\* A lockout holds beside the other two.
THEOREM HttpLockoutHolds == Spec => LockoutHolds
<1>1. HttpIInv /\ [Next]_vars =>
        [\A key \in Throttle!Address : Throttle!Blocked(key) /\ ~Throttle!Blocked(key)' =>
           \/ \E w \in Worker : Throttle!Clears(w) /\ login[w].key = key
           \/ Throttle!Displaced(key)]_attempts
  <2>1. SUFFICES ASSUME HttpIInv, [Next]_vars, attempts' # attempts,
                        NEW key \in Throttle!Address,
                        Throttle!Blocked(key), ~Throttle!Blocked(key)'
                 PROVE  Outcome(key)
    BY DEF Outcome
  <2>2. used = "attempts" /\ Throttle!Next
    BY <2>1 DEF Next, vars, throttleVars
  <2>3. QED
    BY <2>1, <2>2, LockoutStep DEF HttpIInv
<1>2. QED
  BY HttpInit, HttpStep, <1>1, PTL DEF Spec, LockoutHolds, Throttle!LockoutHolds

\* A newcomer is counted beside the other two.
THEOREM HttpNewcomerIsCounted == Spec => NewcomerIsCounted
<1>1. HttpIInv /\ [Next]_vars =>
        [\A w \in Worker : login[w].at = "record" /\ login'[w] = Throttle!Idle =>
           login[w].key \in Throttle!S!Keys(attempts')]_login
  <2>1. SUFFICES ASSUME HttpIInv, [Next]_vars, login' # login, NEW w \in Worker,
                        login[w].at = "record", login'[w] = Throttle!Idle
                 PROVE  login[w].key \in Throttle!S!Keys(attempts')
    OBVIOUS
  <2>2. used = "attempts" /\ Throttle!Next
    BY <2>1 DEF Next, vars, throttleVars
  <2>3. QED
    BY <2>1, <2>2, NewcomerStep DEF HttpIInv
<1>2. QED
  BY HttpInit, HttpStep, <1>1, PTL DEF Spec, NewcomerIsCounted, Throttle!NewcomerIsCounted
=============================================================================
