\* Every graph of three nodes, compiled and run twice on a device that may be too small for it;
\* every kind of request, one after another; and the memory of two backends, one at a time. Vulkan: a
\* cache of two buffers and a ring of two segments. CUDA: two threads, two blocks.
CONSTANTS
  BytesOf <- MCBytesOf
  Package <- MCPackage
  Capacity = 4
  Share = 3
  Elsewhere = {0, 2}
  Asks = {0, 1, 9}
  MaxNodes = 3
  MaxRuns = 2
  MayFail = TRUE
  Trained = 6
  MaxPictures = 2
  Requests <- MCRequests
  Ratios <- MCRatios
  Ticks = 2
  LibraryFails = TRUE
  VkTensors = {u1}
  VkMemories = {m1, m2}
  VkAsks = {16, 17}
  VkUploads = {1, 9}
  VkLimits = {33}
  VkGranule = 1
  CommandsPerBatch = 3
  BatchesInFlight = 1
  Segments = 2
  SegmentBytes = 4
  CopyUnit = 2
  VkMaxBatches = 2
  Threads = {p1, p2}
  CudaTensors = {x1}
  CudaBlocks = {k1, k2}
  CudaAsks = {1, 2}
  CudaLimit = 2
  CudaChunks = {3}
  MaxWork = 2
  u1 = u1
  m1 = m1
  m2 = m2
  p1 = p1
  p2 = p2
  x1 = x1
  k1 = k1
  k2 = k2
SPECIFICATION WorkSpec
INVARIANTS HeldAsNeeded DrawsAsEager KeepsTheMost MadeAsAsked StopIsNear MemoryIsOwned BlocksInOrder
PROPERTIES FailsAsStreamed RunsEnd BarForwardToFull LimitsHold StagedInTurn
\* A graph may be left as it is.
CHECK_DEADLOCK FALSE
