SPECIFICATION FairSpec
CONSTANTS
  Tasks = {"t", "u"}
  Defined = {"t"}
  Geofencing = {"u"}
  MaxJobs = 2
  MaxInstances = 0
  MaxCalls = 0
INVARIANT
  JobIdsAreUnique
CHECK_DEADLOCK FALSE
