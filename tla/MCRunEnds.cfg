SPECIFICATION FairSpec
CONSTANTS
  Task = {t1, t2, t3}
  Source = {s1, s2, s3}
  Dest <- MCDest
  Run = {r1, r2}
  NoTask = NoTask
  NoSource = NoSource
  NoDest = NoDest
  Limit = 1
  Prunes = {t1}
  InitDest <- MCInitDest
  InitSource <- MCInitSource
  Editable = {}
  InitTimed = {TRUE, FALSE}
  t1 = t1
  t2 = t2
  t3 = t3
  s1 = s1
  s2 = s2
  s3 = s3
INVARIANT PermitsConserved
PROPERTIES
  EveryRunEnds
  CancelEnds
