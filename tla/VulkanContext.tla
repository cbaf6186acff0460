---------------------------- MODULE VulkanContext ----------------------------
(***************************************************************************)
(* The context of the Vulkan backend, flint/vulkan/context.cc: commands    *)
(* recorded into batches that the queue runs in order, a cache of freed    *)
(* buffers that takes no notice of what is still queued, and the staging   *)
(* ring that uploads go through.  One recursive lock is held over each     *)
(* call and over the waits in it, so that calls do not overlap and what is *)
(* left to interleave with them is the device.                             *)
(***************************************************************************)
EXTENDS Integers, FiniteSets, FiniteSetsExt

CONSTANTS
  VkTensors,          \* a bound: the tensors there may be at once
  VkMemories,         \* a bound: the buffers the device has given, cached ones included
  VkAsks,             \* the sizes allocated
  VkUploads,          \* the sizes uploaded
  VkLimits,           \* what setMemoryLimit may be given
  VkGranule,          \* the least granule of a size class: 256
  CommandsPerBatch,   \* kCommandsPerBatch
  BatchesInFlight,    \* kMaxBatchesInFlight
  Segments,           \* kStagingSegments
  SegmentBytes,       \* kStagingSegmentBytes
  CopyUnit,           \* what a chunk in a segment starts on: 16
  VkMaxBatches        \* a bound: the batches submitted before a call begins that records more

ASSUME VulkanAssumption ==
  /\ VkAsks \subseteq Nat \ {0} /\ VkUploads \subseteq Nat \ {0} /\ VkLimits \subseteq Nat
  /\ {VkGranule, CommandsPerBatch, BatchesInFlight, Segments, SegmentBytes, CopyUnit} \subseteq Nat \ {0}
  /\ SegmentBytes % CopyUnit = 0 /\ VkMaxBatches \in Nat
  /\ IsFiniteSet(VkMemories) /\ "none" \notin VkMemories

VARIABLES
  numRecorded,        \* _numRecorded: commands in the batch being recorded
  submittedSerial,    \* _submittedSerial
  completedSerial,    \* _completedSerial: the batches whose fences were waited for
  fenced,             \* the device: the batches it has run, in order
  pending,            \* the commands it has not run: their batch, and what they read or write
  segment, offset,    \* _stagingSegment and _stagingOffset
  segmentSerial,      \* _segmentSerial: of each segment the last batch that reads it
  bufferOf,           \* of each tensor its buffer
  cache,              \* _cache
  sizeOf,             \* of each buffer its size, 0 where there is none
  vkLimit,            \* _memoryLimit
  vkCall              \* what holds the lock: where it is, what it waits for

batches == <<numRecorded, submittedSerial, completedSerial, fenced, pending>>
ring    == <<segment, offset, segmentSerial>>
memories == <<bufferOf, cache, sizeOf, vkLimit>>
vkVars  == <<batches, ring, memories, vkCall>>

NoMemory == "none"
VkIdle   == [at |-> "idle", then |-> "idle", target |-> 0, tensor |-> "none", bytes |-> 0]

\* Where a call that records begins: VkMaxBatches is a bound.
VkFree == vkCall.at = "idle" /\ submittedSerial < VkMaxBatches

VkInit ==
  /\ numRecorded = 0 /\ submittedSerial = 0 /\ completedSerial = 0 /\ fenced = 0 /\ pending = {}
  /\ segment = 0 /\ offset = 0 /\ segmentSerial = [s \in 0..(Segments - 1) |-> 0]
  /\ bufferOf = [t \in VkTensors |-> NoMemory] /\ cache = {}
  /\ sizeOf = [m \in VkMemories |-> 0] /\ vkLimit = 0
  /\ vkCall = VkIdle

-----------------------------------------------------------------------------
(* Batches. *)

Submits == /\ submittedSerial' = IF numRecorded > 0 THEN submittedSerial + 1 ELSE submittedSerial
           /\ numRecorded' = 0

\* beginCommand and endCommand: a command that reads these slots of the ring and uses these
\* buffers.
Records(slots, buffers) ==
  /\ pending' = pending \cup {[batch |-> submittedSerial + 1, n |-> numRecorded,
                               slots |-> slots, buffers |-> buffers]}
  /\ IF numRecorded + 1 >= CommandsPerBatch
     THEN submittedSerial' = submittedSerial + 1 /\ numRecorded' = 0
     ELSE submittedSerial' = submittedSerial /\ numRecorded' = numRecorded + 1

\* Once batch target has been waited for -- and those that are too many in flight -- the call
\* goes on there.
Throttled == IF submittedSerial' > BatchesInFlight THEN submittedSerial' - BatchesInFlight ELSE 0

WaitsThen(target, call, where) ==
  LET last == Max({target, Throttled})
  IN  vkCall' = IF last > completedSerial THEN [call EXCEPT !.at = "wait", !.then = where, !.target = last]
                ELSE IF where = "idle" THEN VkIdle ELSE [call EXCEPT !.at = where]

\* retire: the fence of the oldest batch is waited for.
Retire ==
  /\ vkCall.at = "wait" /\ fenced > completedSerial
  /\ completedSerial' = completedSerial + 1
  /\ vkCall' = IF completedSerial' < vkCall.target THEN vkCall
               ELSE IF vkCall.then = "idle" THEN VkIdle ELSE [vkCall EXCEPT !.at = vkCall.then]
  /\ UNCHANGED <<numRecorded, submittedSerial, fenced, pending, ring, memories>>

\* synchronize: what is recorded is submitted, and every batch waited for.
Synchronizes(call, where) ==
  /\ Submits
  /\ WaitsThen(submittedSerial', call, where)

VkSynchronize ==
  /\ vkCall.at = "idle"
  /\ Synchronizes(VkIdle, "idle")
  /\ UNCHANGED <<completedSerial, fenced, pending, ring, memories>>

VkDispatch(ts) ==
  /\ VkFree
  /\ Records({}, {bufferOf[t] : t \in ts})
  /\ WaitsThen(0, VkIdle, "idle")
  /\ UNCHANGED <<completedSerial, fenced, ring, memories>>

\* A chunk of it: the copy is recorded, and everything waited for before the host reads.
Download(t) ==
  /\ VkFree
  /\ Records({}, {bufferOf[t]})
  /\ WaitsThen(0, VkIdle, "drain")
  /\ UNCHANGED <<completedSerial, fenced, ring, memories>>

Drain ==
  /\ vkCall.at = "drain"
  /\ Synchronizes(vkCall, "idle")
  /\ UNCHANGED <<completedSerial, fenced, pending, ring, memories>>

\* The queue runs the batches in order, each command after those before it.
Fence ==
  /\ fenced < submittedSerial
  /\ fenced' = fenced + 1
  /\ pending' = {c \in pending : c.batch # fenced'}
  /\ UNCHANGED <<numRecorded, submittedSerial, completedSerial, ring, memories, vkCall>>

-----------------------------------------------------------------------------
(* upload. *)

Upload(t, bytes) ==
  /\ VkFree
  /\ vkCall' = [VkIdle EXCEPT !.at = "upload", !.tensor = t, !.bytes = bytes]
  /\ UNCHANGED <<batches, ring, memories>>

\* Mutations: the batch being recorded is taken for one that is over; it is waited for without
\* being submitted.
NextSegmentUnsubmitted ==
  LET next == (segment + 1) % Segments
  IN  /\ vkCall.at = "upload" /\ offset = SegmentBytes
      /\ segment' = next /\ offset' = 0
      /\ numRecorded' = numRecorded /\ submittedSerial' = submittedSerial
      /\ WaitsThen(IF segmentSerial[next] > submittedSerial THEN 0 ELSE segmentSerial[next], vkCall, "upload")
      /\ UNCHANGED <<completedSerial, fenced, pending, segmentSerial, memories>>

NextSegmentWaitsAhead ==
  LET next == (segment + 1) % Segments
  IN  /\ vkCall.at = "upload" /\ offset = SegmentBytes
      /\ segment' = next /\ offset' = 0
      /\ numRecorded' = numRecorded /\ submittedSerial' = submittedSerial
      /\ WaitsThen(segmentSerial[next], vkCall, "upload")
      /\ UNCHANGED <<completedSerial, fenced, pending, segmentSerial, memories>>

\* nextStagingSegment: the batch that last reads it is submitted if it is being recorded, and
\* waited for.
NextSegment ==
  LET next == (segment + 1) % Segments
  IN  /\ vkCall.at = "upload" /\ offset = SegmentBytes
      /\ segment' = next /\ offset' = 0
      /\ IF segmentSerial[next] > submittedSerial THEN Submits
         ELSE numRecorded' = numRecorded /\ submittedSerial' = submittedSerial
      /\ WaitsThen(segmentSerial[next], vkCall, "upload")
      /\ UNCHANGED <<completedSerial, fenced, pending, segmentSerial, memories>>

RoundedUp(n, unit) == ((n + unit - 1) \div unit) * unit

\* A chunk is written to what is left of the segment, and its copy recorded.
UploadChunk ==
  LET chunk == Min({SegmentBytes - offset, vkCall.bytes})
      left  == vkCall.bytes - chunk
  IN  /\ vkCall.at = "upload" /\ offset < SegmentBytes
      /\ Records({segment} \X (offset..(offset + chunk - 1)), {bufferOf[vkCall.tensor]})
      /\ segmentSerial' = [segmentSerial EXCEPT ![segment] = submittedSerial + 1]
      /\ offset' = Min({SegmentBytes, RoundedUp(offset + chunk, CopyUnit)})
      /\ WaitsThen(0, [vkCall EXCEPT !.bytes = left], IF left = 0 THEN "idle" ELSE "upload")
      /\ UNCHANGED <<completedSerial, fenced, segment, memories>>

-----------------------------------------------------------------------------
(* allocate, free and the cache. *)

\* The granule doubles until a size is fewer than sixteen of them.
Granule(bytes) ==
  LET doubled[granule \in VkGranule..(VkGranule + bytes)] ==
        IF granule * 16 <= bytes THEN doubled[granule * 2] ELSE granule
  IN  doubled[VkGranule]

SizeClass == [bytes \in VkAsks |-> RoundedUp(bytes, Granule(bytes))]

BytesIn(buffers) == MapThenSumSet(LAMBDA m : sizeOf[m], buffers)
Owned     == {bufferOf[t] : t \in VkTensors} \ {NoMemory}
Allocated == BytesIn(Owned)
\* A mutation: what the cache holds is not counted.
OverLimitUncached(cached, size) == vkLimit > 0 /\ Allocated + size > vkLimit

OverLimit(cached, size) == vkLimit > 0 /\ Allocated + cached + size > vkLimit

\* The smallest cached buffer it fits in, where that is a quarter larger at the most.
BestCached(size) ==
  {m \in cache : /\ sizeOf[m] >= size /\ sizeOf[m] <= size + size \div 4
                 /\ \A other \in cache : sizeOf[other] >= size => sizeOf[m] <= sizeOf[other]}

\* A mutation: it stays in the cache.
AllocateCachedKept(t, bytes) ==
  /\ vkCall.at = "idle" /\ bufferOf[t] = NoMemory
  /\ \E m \in BestCached(SizeClass[bytes]) : bufferOf' = [bufferOf EXCEPT ![t] = m]
  /\ UNCHANGED <<batches, ring, cache, sizeOf, vkLimit, vkCall>>

AllocateCached(t, bytes) ==
  /\ vkCall.at = "idle" /\ bufferOf[t] = NoMemory
  /\ \E m \in BestCached(SizeClass[bytes]) :
       /\ bufferOf' = [bufferOf EXCEPT ![t] = m]
       /\ cache' = cache \ {m}
  /\ UNCHANGED <<batches, ring, sizeOf, vkLimit, vkCall>>

\* Past the limit everything is waited for, and the cache emptied.
AllocateVk(t, bytes) ==
  LET size == SizeClass[bytes]
      call == [VkIdle EXCEPT !.tensor = t, !.bytes = size]
  IN  /\ vkCall.at = "idle" /\ bufferOf[t] = NoMemory
      /\ BestCached(size) = {}
      /\ IF OverLimit(BytesIn(cache), size)
         THEN Synchronizes(call, "limit")
         ELSE vkCall' = [call EXCEPT !.at = "create"] /\ UNCHANGED <<numRecorded, submittedSerial>>
      /\ UNCHANGED <<completedSerial, fenced, pending, ring, memories>>

EmptiesCache == /\ sizeOf' = [m \in VkMemories |-> IF m \in cache THEN 0 ELSE sizeOf[m]]
                /\ cache' = {}

Limit ==
  /\ vkCall.at = "limit"
  /\ EmptiesCache
  /\ vkCall' = IF OverLimit(0, vkCall.bytes) THEN VkIdle ELSE [vkCall EXCEPT !.at = "create"]
  /\ UNCHANGED <<batches, ring, bufferOf, vkLimit>>

Create ==
  /\ vkCall.at \in {"create", "last"}
  /\ \E m \in VkMemories :
       /\ sizeOf[m] = 0
       /\ sizeOf' = [sizeOf EXCEPT ![m] = vkCall.bytes]
       /\ bufferOf' = [bufferOf EXCEPT ![vkCall.tensor] = m]
  /\ vkCall' = VkIdle
  /\ UNCHANGED <<batches, ring, cache, vkLimit>>

\* A mutation: the cache is emptied with the device still at work.
CreateFailsUnwaited ==
  /\ vkCall.at = "create"
  /\ vkCall' = [vkCall EXCEPT !.at = "again"]
  /\ UNCHANGED <<batches, ring, memories>>

\* The device gives none: once more after the cache has gone back.
CreateFails ==
  /\ vkCall.at = "create"
  /\ Synchronizes(vkCall, "again")
  /\ UNCHANGED <<completedSerial, fenced, pending, ring, memories>>

EmptyThenAgain ==
  /\ vkCall.at = "again"
  /\ EmptiesCache
  /\ vkCall' = [vkCall EXCEPT !.at = "last"]
  /\ UNCHANGED <<batches, ring, bufferOf, vkLimit>>

CreateFailsAgain ==
  /\ vkCall.at = "last"
  /\ vkCall' = VkIdle
  /\ UNCHANGED <<batches, ring, memories>>

\* Straight into the cache, with whatever is queued still using it.
FreeVk(t) ==
  /\ vkCall.at = "idle" /\ bufferOf[t] # NoMemory
  /\ cache' = cache \cup {bufferOf[t]}
  /\ bufferOf' = [bufferOf EXCEPT ![t] = NoMemory]
  /\ UNCHANGED <<batches, ring, sizeOf, vkLimit, vkCall>>

ReleaseUnused ==
  /\ vkCall.at = "idle"
  /\ Synchronizes(VkIdle, "empty")
  /\ UNCHANGED <<completedSerial, fenced, pending, ring, memories>>

EmptyCache ==
  /\ vkCall.at = "empty"
  /\ EmptiesCache
  /\ vkCall' = VkIdle
  /\ UNCHANGED <<batches, ring, bufferOf, vkLimit>>

SetLimit(bytes) ==
  /\ vkCall.at = "idle"
  /\ vkLimit' = bytes
  /\ UNCHANGED <<batches, ring, bufferOf, cache, sizeOf, vkCall>>

-----------------------------------------------------------------------------
HasBuffer == {t \in VkTensors : bufferOf[t] # NoMemory}

VkNext ==
  \/ Fence \/ Retire \/ VkSynchronize \/ Drain \/ NextSegment \/ UploadChunk
  \/ \E ts \in SUBSET HasBuffer \ {{}} : VkDispatch(ts)
  \/ \E t \in HasBuffer : Download(t) \/ FreeVk(t) \/ \E bytes \in VkUploads : Upload(t, bytes)
  \/ \E t \in VkTensors, bytes \in VkAsks : AllocateCached(t, bytes) \/ AllocateVk(t, bytes)
  \/ Limit \/ Create \/ CreateFails \/ EmptyThenAgain \/ CreateFailsAgain
  \/ ReleaseUnused \/ EmptyCache
  \/ \E bytes \in VkLimits : SetLimit(bytes)

VkSpec == VkInit /\ [][VkNext]_vkVars

-----------------------------------------------------------------------------
\* Serials keep their order, a buffer has one owner, and the offset stays in its segment.
VkTypeOK ==
  /\ completedSerial \in 0..fenced /\ fenced \in 0..submittedSerial
  /\ numRecorded \in 0..(CommandsPerBatch - 1)
  /\ segment \in 0..(Segments - 1) /\ offset \in 0..SegmentBytes
  /\ cache \cap Owned = {} /\ \A m \in VkMemories : sizeOf[m] > 0 <=> m \in cache \cup Owned
  /\ \A t, u \in HasBuffer : bufferOf[t] = bufferOf[u] => t = u

\* "The cache is memory nothing is using": a buffer goes back to the device only once no command,
\* submitted or being recorded, is still to use it -- the free that put it in the cache waits for
\* nothing.
UsedIsHeld == \A c \in pending : \A m \in c.buffers : sizeOf[m] > 0

\* A buffer is made only within the limit, what the cache keeps counted.
MadeWithinLimit ==
  \A m \in VkMemories : sizeOf[m] = 0 /\ sizeOf'[m] > 0 /\ vkLimit > 0
    => MapThenSumSet(LAMBDA k : sizeOf'[k], VkMemories) <= vkLimit

RingBytes == (0..(Segments - 1)) \X (0..(SegmentBytes - 1))

VkRing == INSTANCE Staging WITH
  Slots <- RingBytes,
  reads <- [s \in RingBytes |-> Cardinality({c \in pending : s \in c.slots})]

\* The staging ring is filled again only where every copy out of it has been made, the one in the
\* batch still being recorded included; and what a call waits for has been submitted, so that the
\* loop that retires batches until it is reached never waits for one still being recorded.
VkStaged ==
  VkRing!StagingSpec /\ [](vkCall.at = "wait" => vkCall.target <= submittedSerial)
=============================================================================
