SPECIFICATION FairSpec
CONSTANTS
  Tasks = {"t", "u"}
  Defined = {"t"}
  Geofencing = {"u"}
  MaxJobs = 2
  MaxInstances = 1
  MaxCalls = 2
PROPERTY
  QueuedEventIsExecuted
CHECK_DEADLOCK FALSE
