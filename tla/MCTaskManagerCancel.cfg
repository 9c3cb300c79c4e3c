SPECIFICATION FairSpec
CONSTANTS
  t1 = t1
  t2 = t2
  urgent = urgent
  NoTask = NoTask
  Tasks = {t1, t2, urgent}
  Renewed = {}
  Priority <- MCPriority
  max_retries = 1
  max_workers = 2
PROPERTY
  SubmittedTasksEnd
