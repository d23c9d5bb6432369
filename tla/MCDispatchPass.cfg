SPECIFICATION Spec
CONSTANTS
  Task <- Over
  Source <- MCSource
  Dest <- MCDest
  SourceOf <- MixedSource
  DestOf <- MixedDest
  Unusable = {"right"}
  Manual = {"left"}
  Limit = 2
  MaxRetries = 1
  LateFolds = TRUE
  Errors = TRUE
INVARIANTS
  TypeOK
  NoOvertaking
  NoHeadOfLineBlocking
  StartsAtOnce
