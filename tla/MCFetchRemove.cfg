\* Two releases in one repository, as krea2:turbo and krea2:turbo-fp8 are, and one is removed.
CONSTANTS
  Fetchers = {p1}
  Models = {"m1", "m2"}
  FilesOf <- MCTwoReleases
  Size <- MCSizeOfReleases
  Mirrors = {"ModelScope"}
  OneOverHttp = FALSE
  Attempts = {}
  MayRemove = TRUE
  MayBeKilled = FALSE
  Unreliable = FALSE
SPECIFICATION Spec
PROPERTIES RemovesItsOwn
