SPECIFICATION Spec
CONSTANTS
  Procs = {p1, p2}
  Forces = {FALSE}
  SyncsDir = TRUE
  Empty = Empty
  Partial = Partial
  Mixed = Mixed
  Torn = Torn
  MaxKeys = 3
  MaxTokens = 1
  MaxFaults = 0
PROPERTY NoForceNoOverwrite
