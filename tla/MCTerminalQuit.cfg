\* One device, where nothing fails: a picture is asked for and the program is left.
CONSTANTS
  Devices = {"metal"}
  MayFail = FALSE
SPECIFICATION DrawSpec
INVARIANTS WaitIsAStep
\* The program comes to its end.
CHECK_DEADLOCK FALSE
