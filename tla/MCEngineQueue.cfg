\* Three jobs, cancels and a drop at every point of them: the queue JobQueue promises.
CONSTANTS
  Callers = {c1}
  MaxJobs = 3
  MaxReports = 0
  Works <- MCQueue
  MayPanic = FALSE
SPECIFICATION FairSpec
CHECK_DEADLOCK FALSE
INVARIANTS NoJobLost DropEndsAll ServedByLastLoad
PROPERTIES IsJobQueue DropReturns
