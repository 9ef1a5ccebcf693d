SPECIFICATION FairSpec
CONSTANTS
  id1 = id1  id2 = id2  id3 = id3
  Ids = {id1, id2, id3}
  NoTask = NoTask
  MaxAttempts = 3
  BaseDelayMs = 500
INVARIANTS
  TypeOK
  NoSleepOnWork
  TaskOnce
  DrainedAtShutdown
PROPERTIES
  EveryTaskSettled
  ShutdownTerminates
