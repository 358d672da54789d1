SPECIFICATION FairSpec
CHECK_DEADLOCK FALSE
CONSTANTS
  Procs = {p1}
  Forces = {TRUE, FALSE}
  SyncsDir = TRUE
  Empty = Empty
  Partial = Partial
  Mixed = Mixed
  Torn = Torn
  MaxKeys = 4
  MaxTokens = 1
  MaxFaults = 2
INVARIANTS
  TypeOK
  TokenGoneMeansIdentity
PROPERTIES
  NoForceNoOverwrite
  EventuallyEnrolled
