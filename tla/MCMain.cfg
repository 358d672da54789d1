SPECIFICATION Spec
CONSTANTS
  Lines <- MCLines
  Start <- MCStart
  Texts <- MCTexts
  atoi <- MCatoi
  NULL = NULL
  MaxLines = 11
  MaxArgs = 2
  Cols = 1
  MsgWidth = 1
INVARIANTS MainTypeOK ConfigSaysFile FirstBadLine RunsIfAcceptable ExitTellsOutcome LogFileSpansRun
CHECK_DEADLOCK FALSE
