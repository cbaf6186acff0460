\* A stop as the last block lands, and the fetch after it.
CONSTANTS
  Fetchers = {p1}
  Models = {"m1"}
  FilesOf <- MCOneModel
  Size <- MCSize
  Mirrors = {"ModelScope"}
  OneOverHttp = FALSE
  Attempts = {}
  MayRemove = FALSE
  MayBeKilled = FALSE
  Unreliable = FALSE
SPECIFICATION Spec
INVARIANTS StoppedCarriesOn
