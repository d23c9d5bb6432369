SPECIFICATION Spec
CONSTANTS
  Origin = {a, b, c}
  Proxy = {p}
  Worker = {w1, w2}
  MaxFailures = 2
  Lockout = 3
  Token = {a, b, c}
  MaxAge = 2
  Skew = 2
  Slack = 4
  Born <- MCBorn
  Cap = 2
  MaxLag = 1
  Polls = 2
  Lines = 4
  LoginHorizon = 4
  SessionHorizon = 6
CHECK_DEADLOCK FALSE
SYMMETRY Alike
INVARIANTS
  TypeOK
  GuessesBounded
  LogoutIsFinal
  EndIsComplete
PROPERTIES
  LockoutHolds
  NewcomerIsCounted
CONSTRAINT Quiet
