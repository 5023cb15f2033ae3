\* Two attempts on a backend that can be cancelled, or cannot; a reap takes less than a join.
CONSTANTS
  MaxAttempts = 2
  CallTimeout = 2
  JoinTimeout = 5
  ReapTimeout = 3
  PollInterval = 1
  Polls = 3
  MaxFaults = 2
SPECIFICATION FairSpec
INVARIANTS
  TelemetryIsOwn
  FinishedMeansFinished
PROPERTIES
  JoinOutlastsReap
  CallsEnd
