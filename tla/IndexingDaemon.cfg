SPECIFICATION BothSpec
CHECK_DEADLOCK FALSE
CONSTANTS
  f1 = f1  f2 = f2
  Own = Own
  File = {f1, f2}
  Ignore = {}
  MaxEdits = 2
  MaxRuns = 2
  Rebuild = TRUE
  IndexErrors = TRUE
  NotifyErrors = TRUE
  StatusErrors = TRUE
  VectorsWait = FALSE
  MaxDaemons = 2
  MaxTasks = 3
  AutoIndex = TRUE
  Commands = {"rebuild", "pause", "resume"}
  Reloads = {"orderly", "crash"}
  Nobody = 0
  Nothing = Nothing
INVARIANT TypeOK
INVARIANT EditsAccounted
INVARIANT CalmControl
PROPERTY Settles
PROPERTY NewestSettles
PROPERTY SettlesAsAsked
