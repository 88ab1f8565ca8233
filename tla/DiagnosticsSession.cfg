SPECIFICATION LogSpec
CONSTANTS
  Launches = 4
  Cap = 5
  Chunk = 2
  Notice = 1
INVARIANTS
  LabelMatchesLog
  LogsAreRecent
CHECK_DEADLOCK FALSE
