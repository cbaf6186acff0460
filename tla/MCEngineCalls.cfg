\* Two calls race with the thread and with each other, and a completion may take it down.
CONSTANTS
  Callers = {c1, c2}
  MaxJobs = 2
  MaxReports = 1
  Works <- MCTwoModels
  MayPanic = TRUE
SPECIFICATION Spec
CHECK_DEADLOCK FALSE
SYMMETRY MCSymmetry
INVARIANTS TypeOK AskedIsStopped
PROPERTIES OnlyDeathLoses
