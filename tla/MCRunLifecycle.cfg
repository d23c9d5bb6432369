SPECIFICATION Spec
CONSTANTS
  Task = {t1, t2}
  Source = {s1, s2}
  Dest <- MCDest
  Run = {r1, r2}
  NoTask = NoTask
  NoSource = NoSource
  NoDest = NoDest
  Limit = 2
  Prunes = {t1}
  InitDest <- AnyDest
  InitSource <- AnySource
  Editable = {t1, t2}
  InitTimed = {TRUE}
  t1 = t1
  t2 = t2
  t3 = t3
  s1 = s1
  s2 = s2
  s3 = s3
SYMMETRY RunSymmetry
INVARIANTS
  IInv
  DestinationExclusion
  NothingLeaked
  ActiveRowsDisjoint
  PermitNeverIdle
  RowFollowsExecution
  LiveIsOwned
  CancelledWasAsked
  AnswerIsTrue
PROPERTIES
  HistoryIsFinal
  NotOwnedIsDead
  ImplementsService
