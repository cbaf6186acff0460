\* A cancel whose job makes way for the next one.
CONSTANTS
  Callers = {c1}
  MaxJobs = 2
  MaxReports = 1
  Works <- MCOneModel
  MayPanic = FALSE
SPECIFICATION Spec
CHECK_DEADLOCK FALSE
INVARIANTS OnlyAskedAreCancelled
