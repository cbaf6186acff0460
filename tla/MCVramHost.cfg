\* Two threads encode, copy, free and allocate over one small chunk, handlers in any order.
SPECIFICATION FairSpec
CONSTANTS
  Hosts = {h1, h2}
  Tensors = {t1, t2}
  Asks = {2, 3}
  Kinds = {"kCached"}
  ChunkSize = 4
  Granule = 4
  Page = 2
  Excess = 0
  Budget = 100
  Limits = {}
  Alignment = 2
  Sizes = {2, 4}
  Serials = {0, 1, 2, 3}
  MaxChunks = 1
  PerBatch = 2
  InFlight = 1
  MaxBatches = 2
  MayFail = FALSE
  h1 = h1
  h2 = h2
  t1 = t1
  t2 = t2
INVARIANT HostAlone
PROPERTY BlockSpec
PROPERTY CallsEnd
\* A thread that waits for ever is what CallsEnd is about.
CHECK_DEADLOCK FALSE
