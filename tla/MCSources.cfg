SPECIFICATION SourcesSpec
CONSTANTS
  ia = ia
  ib = ib
  None = None
  Inodes = {ia, ib}
  Replay = FALSE
  Window = 3
  LineLimit = 3
  TailLength = 2
  Unreadable = {3}
  Writes <- MCLines
  Troubles = {"restart", "late"}
  MaxBytes = 6
  MaxLength = 8
  MaxFiles = 3
  MaxTroubles = 1
  PageSize = 2
  MaxEntries = 4
  Counters = 2
  Readings <- MCReadings
  PerPoll = 1
  MaxIntervals = 3
INVARIANT LinesAreWhole
INVARIANT DiscontinuitiesTold
INVARIANT FilePositions
INVARIANT EntriesRecorded
INVARIANT IntervalsTold
PROPERTY LinesCollected
PROPERTY NothingWaits
PROPERTY MissedIsTold
CHECK_DEADLOCK FALSE
