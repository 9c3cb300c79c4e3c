CONSTANTS
  splunk = splunk
  elk = elk
  Names = {splunk, elk}
  batch_size = 2
  max_queue = 1
  failure_threshold = 2
  max_connection_failures = 1
  MaxStarts = 2
  MaxEvents = 3
SPECIFICATION FairSpec
INVARIANTS
  TypeOK
  SentAtMostOnce
PROPERTIES
  StoppedWorkersEnd
  EveryEventIsFlushed
  OpenCircuitsAreRetried
CONSTRAINT Bounded
CHECK_DEADLOCK FALSE
