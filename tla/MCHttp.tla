------------------------------- MODULE MCHttp -------------------------------
(***************************************************************************)
(* What the HTTP side of the process remembers between two steps of a      *)
(* request, for TLC: the two authentication stores, and a stream that      *)
(* follows a log.  They share no state, so a behaviour uses one of them:   *)
(* any mixture adds no order of steps within either.                       *)
(***************************************************************************)
EXTENDS Integers, SequencesExt, FiniteSets, TLC

CONSTANTS
  Origin, Proxy, Worker, MaxFailures, Lockout, Token, MaxAge, Skew, Slack, Born,
  Cap, MaxLag, Polls, Lines,
  LoginHorizon, SessionHorizon

VARIABLES
  used,             \* what this behaviour uses
  clock, attempts, login, failures,
  revoked, issued, request, loggedOut, alarm,
  row, log, writer, stream

Throttle == INSTANCE LoginThrottle WITH Horizon <- LoginHorizon
Sessions == INSTANCE SessionRevocation WITH Horizon <- SessionHorizon
Stream   == INSTANCE LogStream

ASSUME HttpAssumption ==
  /\ Throttle!ThrottleAssumption /\ Throttle!S!StoreAssumption
  /\ Sessions!RevocationAssumption /\ Sessions!S!StoreAssumption
  /\ Stream!StreamAssumption

throttleVars == <<attempts, login, failures>>
sessionVars  == <<revoked, issued, request, loggedOut, alarm>>
streamVars   == <<row, log, writer, stream>>
vars == <<used, clock, throttleVars, sessionVars, streamVars>>

Init ==
  /\ used \in {"attempts", "revoked", "stream"}
  /\ Throttle!Init /\ Sessions!Init /\ Stream!Init
  /\ used # "revoked" => issued = <<>>

Next ==
  /\ UNCHANGED used
  /\ \/ used = "attempts" /\ Throttle!Next /\ UNCHANGED <<sessionVars, streamVars>>
     \/ used = "revoked" /\ Sessions!Next /\ UNCHANGED <<throttleVars, streamVars>>
     \/ used = "stream" /\ Stream!Next /\ UNCHANGED <<clock, throttleVars, sessionVars>>

Spec == Init /\ [][Next]_vars

TypeOK == CASE used = "attempts" -> Throttle!TypeOK
            [] used = "revoked"  -> Sessions!TypeOK
            [] used = "stream"   -> Stream!TypeOK
GuessesBounded    == Throttle!GuessesBounded
LockoutHolds      == Throttle!LockoutHolds
NewcomerIsCounted == Throttle!NewcomerIsCounted
LogoutIsFinal     == Sessions!LogoutIsFinal
EndIsComplete     == Stream!EndIsComplete

MCBorn == {2}
\* Bound: nothing is promised after the alarm.
Quiet == ~alarm

\* Origins and tokens are named by the same values, which keeps the group small.
Alike == Permutations(Token) \cup Permutations(Worker)
=============================================================================
