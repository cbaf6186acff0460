\* A window with three jobs of two models on two placements, stopped at any time; the drawing
\* screen on two devices; and the list over two folders, whatever is in them.
CONSTANTS
  AppModels = {"m", "n"}
  MaxAppJobs = 3
  Placements = {"metal", "cpu"}
  MaxReports = 1
  Devices = {"metal", "cpu"}
  MayFail = TRUE
  Published = {"m1", "m2"}
  RepoOf <- MCRepoOf
  Explicit = {"m2"}
  Folders = {"here", "there"}
  Default = "here"
  DiskFails = TRUE
SPECIFICATION ProgramsSpec
INVARIANTS DrawnByItsModel CancelIsNotLost LineIsItsModels OneAsked DrawnWhereShown HandedOnIsWhole
PROPERTIES EndedStays JobsEnd StopsAreTaken
\* A program may be left alone, and come to its end.
CHECK_DEADLOCK FALSE
