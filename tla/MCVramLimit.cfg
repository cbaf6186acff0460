\* One thread, weights and tensors larger than a chunk, a limit, a budget and a device that fails.
SPECIFICATION Spec
CONSTANTS
  Hosts = {h1}
  Tensors = {t1, t2, t3}
  Asks = {3, 9}
  Kinds = {"kCached", "kWeight"}
  ChunkSize = 8
  Granule = 4
  Page = 4
  Excess = 2
  Budget = 20
  Limits = {16}
  Alignment = 2
  Sizes = {2, 4, 6, 8, 10, 12, 14, 16}
  Serials = {0, 1, 2, 3, 4}
  MaxChunks = 2
  PerBatch = 1
  InFlight = 1
  MaxBatches = 1
  MayFail = TRUE
  h1 = h1
  t1 = t1
  t2 = t2
  t3 = t3
SYMMETRY MCSymmetry
INVARIANT TypeOK
INVARIANT BlocksTile
INVARIANT InFlightIsHeld
PROPERTY LimitHolds
