SPECIFICATION FairSpec
CONSTANTS
  t1 = t1
  t2 = t2
  urgent = urgent
  NoTask = NoTask
  Tasks = {t1, t2, urgent}
  Renewed = {t1, urgent}
  Priority <- MCPriority
  max_retries = 1
  max_workers = 2
INVARIANTS
  TypeOK
  OneEntryPerPendingTask
  RunsAreBounded
  RunningTaskHasAWrapper
PROPERTIES
  ImplementsContract
  TasksEndWhileProcessorLives
  StopEnds
