SPECIFICATION Spec
CONSTANTS
  Tasks = {"t", "u"}
  Defined = {"t"}
  Geofencing = {"t"}
  MaxJobs = 1
  MaxInstances = 2
  MaxCalls = 2
INVARIANTS
  TypeOK
  EventsAreGivenOnce
  RegisteredTasksAreSaved
  UndefinedTaskIsUnregistered
CHECK_DEADLOCK FALSE
