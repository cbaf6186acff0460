\* Two processes and one cache: over Hugging Face with downloads left running behind a stop, and
\* over HTTP one at a time, with stops, kills, retries, removals and a network that fails anywhere.
CONSTANTS
  Fetchers = {p1, p2}
  Models = {"m1"}
  FilesOf <- MCOneModel
  Size <- MCSize
  Mirrors = {"HuggingFace", "ModelScope"}
  OneOverHttp = TRUE
  Attempts = {a1, a2}
  MayRemove = TRUE
  MayBeKilled = TRUE
  Unreliable = TRUE
SPECIFICATION Spec
SYMMETRY MCSymmetry
PROPERTIES WholeOrNothing ArrivedStays
