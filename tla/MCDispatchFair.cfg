SPECIFICATION FairSpec
CONSTANTS
  Task <- Over
  Source <- MCSource
  Dest <- MCDest
  SourceOf <- OverSource
  DestOf <- OverDest
  Unusable = {}
  Manual = {}
  Limit = 2
  MaxRetries = 1
  LateFolds = FALSE
  Errors = FALSE
PROPERTIES
  NobodyStarves
