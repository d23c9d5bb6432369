----------------------------- MODULE RunService -----------------------------
(***************************************************************************)
(* What running backups promises, with none of the machinery: rows move    *)
(* one way, at most Limit runs work at a time and never into overlapping   *)
(* destinations, an executing run is never failed behind its back, and     *)
(* only a requested cancellation is recorded as one.                       *)
(***************************************************************************)
EXTENDS DestKeys, FiniteSets

CONSTANTS Run, Dest, NoDest, Limit

ServiceAssumption ==
  /\ Dest \subseteq Seq(STRING)
  /\ NoDest \notin Dest
  /\ Limit \in Nat \ {0}
  /\ IsFiniteSet(Run)

VARIABLES
  state,    \* the row of each run
  waiting,  \* the runs accepted and not yet working
  working,  \* the runs that may be writing
  into,     \* where a working run writes
  cancels   \* the runs an operator asked to cancel

svars == <<state, waiting, working, into, cancels>>

Open   == {"pending", "running"}
Closed == {"success", "failed", "cancelled"}

ServiceTypeOK ==
  /\ state \in [Run -> {"none"} \union Open \union Closed]
  /\ waiting \subseteq Run
  /\ working \subseteq Run
  /\ into \in [Run -> Dest \union {NoDest}]
  /\ cancels \subseteq Run

ServiceInit ==
  /\ state = [r \in Run |-> "none"]
  /\ waiting = {} /\ working = {}
  /\ into = [r \in Run |-> NoDest]
  /\ cancels = {}

\* A row is accepted, with an execution or, after an error, without one.
Accept(r) ==
  /\ state[r] = "none"
  /\ state' = [state EXCEPT ![r] = "pending"]
  /\ waiting' \in {waiting, waiting \union {r}}
  /\ UNCHANGED <<working, into, cancels>>

Ask(r) ==
  /\ state[r] \in Open
  /\ cancels' = cancels \union {r}
  /\ UNCHANGED <<state, waiting, working, into>>

Begin(r, d) ==
  /\ r \in waiting
  /\ state[r] = "pending"
  /\ Cardinality(working) < Limit
  /\ \A w \in working : ~ Conflicts(d, into[w])
  /\ state' = [state EXCEPT ![r] = "running"]
  /\ waiting' = waiting \ {r}
  /\ working' = working \union {r}
  /\ into' = [into EXCEPT ![r] = d]
  /\ UNCHANGED cancels

\* An execution ends and says how, or could not say it.
End(r) ==
  /\ r \in waiting \union working
  /\ \/ \E s \in Closed :
          /\ s = "success" => r \in working
          /\ s = "cancelled" => r \in cancels
          /\ state' = [state EXCEPT ![r] = s]
     \/ UNCHANGED state
  /\ waiting' = waiting \ {r}
  /\ working' = working \ {r}
  /\ into' = [into EXCEPT ![r] = NoDest]
  /\ UNCHANGED cancels

Die ==
  /\ waiting' = {} /\ working' = {}
  /\ into' = [r \in Run |-> NoDest]
  /\ UNCHANGED <<state, cancels>>

\* Only rows that nothing executes are failed from outside.
Reclaim ==
  /\ \E dead \in SUBSET (Run \ (waiting \union working)) :
       /\ \A r \in dead : state[r] \in Open
       /\ state' = [r \in Run |-> IF r \in dead THEN "failed" ELSE state[r]]
  /\ UNCHANGED <<waiting, working, into, cancels>>

ServiceNext ==
  \/ \E r \in Run : Accept(r) \/ Ask(r) \/ End(r)
  \/ \E r \in Run, d \in Dest : Begin(r, d)
  \/ Die \/ Reclaim

ServiceSpec == ServiceInit /\ [][ServiceNext]_svars

\* What the machinery is for: working runs write apart, at most Limit of them, the
\* row of each says so for as long as it works, and a cancellation on record was
\* asked for.
ServicePromise ==
  /\ \A r, s \in working : r # s => ~ Conflicts(into[r], into[s])
  /\ Cardinality(working) <= Limit
  /\ \A r \in working : state[r] = "running" /\ into[r] \in Dest
  /\ \A r \in Run : state[r] = "cancelled" => r \in cancels
=============================================================================
