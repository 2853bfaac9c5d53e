SPECIFICATION SourcesSpec
CONSTANTS
  ia = ia
  ib = ib
  None = None
  Inodes = {ia, ib}
  Replay = FALSE
  Window = 3
  LineLimit = 3
  TailLength = 2
  Unreadable = {3}
  Writes <- MCLines
  Troubles = {}
  MaxBytes = 6
  MaxLength = 8
  MaxFiles = 2
  MaxTroubles = 0
  PageSize = 2
  MaxEntries = 4
  Counters = 2
  Readings <- MCReadings
  PerPoll = 1
  MaxIntervals = 3
PROPERTY DrainedFirst
CHECK_DEADLOCK FALSE
