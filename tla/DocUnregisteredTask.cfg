SPECIFICATION Spec
CONSTANTS
  Tasks = {"t"}
  Defined = {"t"}
  Geofencing = {}
  MaxJobs = 0
  MaxInstances = 2
  MaxCalls = 1
PROPERTY
  UnregisteredStaysUnsaved
CHECK_DEADLOCK FALSE
