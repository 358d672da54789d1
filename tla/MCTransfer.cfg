SPECIFICATION FairSpec
CONSTANTS
  operator = operator
  service = service
  Procs = {operator, service}
  Tty <- MCTty
  Shows <- MCShows
  transfer_timeout <- MCtransfer_timeout
  low_speed_limit <- MClow_speed
  low_speed_time <- MClow_speed
  Bytes <- MCBytes
  Sizes <- MCSizes
  ByteInterval = 5
  Cols = 3
  MsgWidth = 1
  Widths = {2, 3}
  MaxFetches = 1
  MaxFaults = 1
INVARIANTS TypeOK WholeLines ProgressEnds QuietLog LastLineShowsAll
PROPERTIES FetchedIsWhole FetchReturns
CHECK_DEADLOCK FALSE
