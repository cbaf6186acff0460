\* Two models that share a file, a client that hangs or fails, and stops and kills.
CONSTANTS
  Fetchers = {p1}
  Models = {"m1", "m2"}
  FilesOf <- MCTwoModels
  Size <- MCSizeTwo
  Mirrors = {"HuggingFace"}
  OneOverHttp = FALSE
  Attempts = {a1, a2, a3}
  MayRemove = FALSE
  MayBeKilled = TRUE
  Unreliable = TRUE
SPECIFICATION FairSpec
INVARIANTS DoneIsCached
PROPERTIES StopEnds
\* What is killed or fails leaves its staging directory, and the attempts run out.
CHECK_DEADLOCK FALSE
