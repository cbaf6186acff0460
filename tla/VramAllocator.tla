----------------------------- MODULE VramAllocator -----------------------------
(***************************************************************************)
(* The memory of the tensors on a Metal device:                            *)
(* flint/metal_native/vram_allocator.cc, over the blocks of BlockAllocator *)
(* and the work of CommandStream.  Host threads allocate, free, encode     *)
(* commands and copy; a tensor's memory goes back the moment the tensor is *)
(* destroyed, with work that uses it still queued, and the one thing that  *)
(* keeps the host and the device apart is the batch each block was last    *)
(* used by.  The allocator's lock is held across its waits on the stream.  *)
(***************************************************************************)
EXTENDS BlockAllocator, CommandStream, FiniteSetsExt

CONSTANTS
  Hosts,        \* the threads that use the device
  Tensors,      \* a bound: the tensors there may be at once
  Asks,         \* the sizes asked for, in bytes
  Kinds,        \* AllocHint: kCached for an activation, kWeight
  ChunkSize,    \* kChunkSize and kLargeChunk, which are one size
  Granule,      \* kChunkGranule
  Page,         \* kPage
  Excess,       \* a bound: what the device may round a weight's buffer up by, past kPage
  Budget,       \* what the system suggests the process keep
  Limits        \* what setMemoryLimit may be given; 0 for none

NoHost   == "none"
NoTensor == "none"

RoundTo(n, unit) == ((n + unit - 1) \div unit) * unit

ASSUME VramAssumption ==
  /\ Asks \subseteq Nat \ {0} /\ Kinds \subseteq {"kCached", "kWeight"}
  /\ {ChunkSize, Granule, Page, Budget} \subseteq Nat \ {0} /\ Limits \subseteq Nat /\ Excess \in Nat
  /\ \A n \in {ChunkSize, Granule, Page} : n % Alignment = 0

\* What is asked of the blocks is what they are made for, and a name is of one thing only.
ASSUME WithinBlocks ==
  /\ ChunkSize \in Sizes /\ 0..MaxBatches+1 \subseteq Serials
  /\ \A n \in Asks : RoundUp(n) \in Sizes /\ RoundTo(RoundUp(n), Granule) \in Sizes
  /\ NoHost \notin Hosts /\ NoTensor \notin Tensors /\ \A t \in Tensors : t \notin Nat

VARIABLES
  buffers,      \* of each tensor: its BufferState, or NoBuffer
  weights,      \* the memory of the weights' own buffers
  weightBytes,  \* _weightBytes
  memoryLimit,  \* _memoryLimit
  heap,         \* who holds the allocator's lock, or NoHost
  turn,         \* who holds the stream's lock, or NoHost
  host          \* of each thread: where it is in its call

NoBuffer == [memory |-> "none"]

Idle == [at |-> "idle", then |-> "idle", tensor |-> NoTensor, buffer |-> NoBuffer,
         kind |-> "kCached", size |-> 0, needed |-> 0, chunk |-> 0, target |-> 0]

memory == <<made, chunks, blocks, buffers, weights, weightBytes, memoryLimit>>
vars   == <<memory, stream, device, heap, turn, host>>

Init ==
  /\ InitBlocks /\ InitStream
  /\ buffers = [t \in Tensors |-> NoBuffer]
  /\ weights = {} /\ weightBytes = 0 /\ memoryLimit = 0
  /\ heap = NoHost /\ turn = NoHost
  /\ host = [h \in Hosts |-> Idle]

-----------------------------------------------------------------------------
\* The bytes of a buffer, as the commands that are handed it use them.
Run(b) == [memory |-> b.memory, offset |-> b.offset, size |-> b.size]

BufferOn(block) ==
  [memory |-> block.chunk, offset |-> block.offset, size |-> block.size, lastUse |-> block.lastUse,
   type |-> "kCached"]

WeightOn(mem) ==
  [memory |-> mem, offset |-> 0, size |-> mem.size, lastUse |-> 0, type |-> "kWeight"]

Live == {t \in Tensors : buffers[t] # NoBuffer}

Bytes(mems) == MapThenSumSet(LAMBDA m : m.size, mems)

\* held(): what the limit counts. What the device has given this process is the same and the
\* weights nothing lets go of any more.
Held        == Bytes(chunks) + weightBytes
DeviceBytes == Bytes(chunks) + Bytes(weights)

-----------------------------------------------------------------------------
(* dispatch, upload, download, synchronize: the stream's own calls. *)

\* Every argument's buffer remembers the batch. A full batch is committed, and the host waits for
\* the one it makes room for.
Dispatch(h, args) ==
  /\ host[h].at = "idle" /\ turn = NoHost
  /\ Encode({Run(buffers[t]) : t \in args})
  /\ buffers' = [t \in Tensors |-> IF t \in args THEN [buffers[t] EXCEPT !.lastUse = Recording]
                                   ELSE buffers[t]]
  /\ IF submitted' # submitted
     THEN /\ host' = [host EXCEPT ![h] = [Idle EXCEPT !.at = "wait", !.target = Throttle(submitted')]]
          /\ turn' = h
     ELSE UNCHANGED <<host, turn>>
  /\ UNCHANGED <<made, chunks, blocks, weights, weightBytes, memoryLimit, heap>>
  /\ UNCHANGED <<finished, completed, failed, executed, broken>>

\* upload and download: once nothing queued still uses the buffer.
HostCopy(h, t) ==
  /\ host[h].at = "idle"
  /\ host' = [host EXCEPT ![h] = [Idle EXCEPT !.at = "enter", !.then = "copy", !.tensor = t]]
  /\ UNCHANGED <<memory, stream, device, heap, turn>>

Synchronize(h) ==
  /\ host[h].at = "idle"
  /\ host' = [host EXCEPT ![h] = [Idle EXCEPT !.at = "enter"]]
  /\ UNCHANGED <<memory, stream, device, heap, turn>>

\* The batch a call waits for: the one its buffer was last used by, or every one there is.
LastUse(h) ==
  CASE host[h].then = "copy"  -> buffers[host[h].tensor].lastUse
    [] host[h].then = "letGo" -> host[h].buffer.lastUse
    [] OTHER -> Recording

\* A mutation: it is not waited for.
EnterUnwaited(h) ==
  /\ host[h].at = "enter" /\ turn = NoHost
  /\ turn' = h
  /\ IF LastUse(h) > submitted THEN Submit ELSE UNCHANGED <<recorded, submitted>>
  /\ host' = [host EXCEPT ![h].at = "wait", ![h].target = 0]
  /\ UNCHANGED <<memory, finished, completed, failed, device, heap>>

\* The stream's lock, and the batch being encoded committed if it is one of those waited for.
Enter(h) ==
  /\ host[h].at = "enter" /\ turn = NoHost
  /\ turn' = h
  /\ IF LastUse(h) > submitted THEN Submit ELSE UNCHANGED <<recorded, submitted>>
  /\ host' = [host EXCEPT ![h].at = "wait",
                          ![h].target = IF LastUse(h) > submitted THEN submitted' ELSE LastUse(h)]
  /\ UNCHANGED <<memory, finished, completed, failed, device, heap>>

\* The lock goes with the wait, unless it is for a copy, which is made under it.
Waited(h) ==
  /\ host[h].at = "wait" /\ Reached(host[h].target)
  /\ turn' = IF host[h].then = "copy" THEN h ELSE NoHost
  /\ host' = [host EXCEPT ![h] = CASE host[h].then = "idle" -> Idle
                                   [] host[h].then \in {"copy", "letGo"} -> [@ EXCEPT !.at = host[h].then]
                                   [] OTHER -> [@ EXCEPT !.at = "empty"]]
  /\ UNCHANGED <<memory, stream, device, heap>>

CopyEnds(h) ==
  /\ host[h].at = "copy"
  /\ turn' = NoHost
  /\ host' = [host EXCEPT ![h] = Idle]
  /\ UNCHANGED <<memory, stream, device, heap>>

\* A mutation: the allocator's lock stays with the call that threw.
WaitThrowsLocked(h) ==
  /\ host[h].at = "wait" /\ Throws(host[h].target)
  /\ turn' = NoHost
  /\ host' = [host EXCEPT ![h] = Idle]
  /\ UNCHANGED <<memory, stream, device, heap>>

\* AbortedError goes up through the call and both its locks. A weight being freed is kept.
WaitThrows(h) ==
  /\ host[h].at = "wait" /\ Throws(host[h].target)
  /\ turn' = NoHost
  /\ heap' = IF heap = h THEN NoHost ELSE heap
  /\ host' = [host EXCEPT ![h] = Idle]
  /\ UNCHANGED <<memory, stream, device>>

-----------------------------------------------------------------------------
(* allocate. *)

\* Of what an empty dedicated chunk may hold, this fills four fifths at least.
LargestFor(size) == (size * 5) \div 4

Asked(t, kind, bytes) == [Idle EXCEPT !.tensor = t, !.kind = kind, !.size = RoundUp(bytes)]

\* From what there is: a free block, or else an empty dedicated chunk.
FromWhatThereIs(size) ==
  IF BestFit(size) # {} THEN BestFit(size) ELSE DedicatedFit(size, LargestFor(size))

Allocate(h, t, bytes) ==
  LET size == RoundUp(bytes)
  IN  /\ host[h].at = "idle" /\ heap = NoHost /\ buffers[t] = NoBuffer
      /\ \A g \in Hosts : host[g].tensor # t
      /\ \E b \in FromWhatThereIs(size) :
           /\ Cut(b, size)
           /\ buffers' = [buffers EXCEPT ![t] = BufferOn(Taken(b, size))]
      /\ UNCHANGED <<made, chunks, weights, weightBytes, memoryLimit, stream, device, heap, turn, host>>

\* Nothing free is large enough: a chunk, the tensor's own where it is larger than one.
AllocateNew(h, t, bytes) ==
  LET size   == RoundUp(bytes)
      needed == RoundTo(size, Granule)
  IN  /\ host[h].at = "idle" /\ heap = NoHost /\ buffers[t] = NoBuffer
      /\ \A g \in Hosts : host[g].tensor # t
      /\ FromWhatThereIs(size) = {}
      /\ heap' = h
      /\ host' = [host EXCEPT ![h] =
                    [Asked(t, "kCached", bytes) EXCEPT !.at = "limit", !.needed = needed,
                       !.chunk = IF needed > ChunkSize THEN needed ELSE ChunkSize]]
      /\ UNCHANGED <<memory, stream, device, turn>>

\* allocateWeight: a buffer of its own.
AllocateWeight(h, t, bytes) ==
  LET size == RoundUp(bytes)
      pages == RoundTo(size, Page)
  IN  /\ host[h].at = "idle" /\ heap = NoHost /\ buffers[t] = NoBuffer
      /\ \A g \in Hosts : host[g].tensor # t
      /\ heap' = h
      /\ host' = [host EXCEPT ![h] = [Asked(t, "kWeight", bytes) EXCEPT !.at = "limit",
                                        !.needed = pages, !.chunk = pages]]
      /\ UNCHANGED <<memory, stream, device, turn>>

Dedicated(h) == host[h].kind = "kCached" /\ host[h].needed > ChunkSize

\* synchronizeAndReleaseEmptyChunks, and on to where the call goes after it.
ReleasesThen(h, where) == host' = [host EXCEPT ![h].at = "enter", ![h].then = where]
GoesOn(h, where)       == host' = [host EXCEPT ![h].at = where]

WithinLimit(h) ==
  /\ host[h].at = "limit"
  /\ IF memoryLimit > 0 /\ Held + host[h].chunk > memoryLimit
     THEN ReleasesThen(h, "room")
     ELSE GoesOn(h, "room")
  /\ UNCHANGED <<memory, stream, device, heap, turn>>

\* A weight is a buffer of any size, a chunk a number of granules.
RoomFor(h) ==
  LET left == memoryLimit - Held
  IN  IF host[h].kind = "kWeight" THEN left ELSE (left \div Granule) * Granule

\* A mutation: a chunk is made whole though what it is for is all there is room for.
RoomUncut(h) ==
  /\ host[h].at = "room"
  /\ memoryLimit > 0 => host[h].needed <= RoomFor(h)
  /\ host' = [host EXCEPT ![h].at = "large"]
  /\ UNCHANGED <<memory, stream, device, heap, turn>>

\* A whole chunk where there is room for one, and otherwise what the tensor needs.
Room(h) ==
  /\ host[h].at = "room"
  /\ memoryLimit > 0 => host[h].needed <= RoomFor(h)
  /\ host' = [host EXCEPT ![h].at = "large",
                          ![h].chunk = IF memoryLimit > 0 /\ @ > RoomFor(h) THEN host[h].needed ELSE @]
  /\ UNCHANGED <<memory, stream, device, heap, turn>>

NoRoom(h) ==
  /\ host[h].at = "room"
  /\ memoryLimit > 0 /\ host[h].needed > RoomFor(h)
  /\ heap' = NoHost
  /\ host' = [host EXCEPT ![h] = Idle]
  /\ UNCHANGED <<memory, stream, device, turn>>

\* Before a chunk larger than the others the empty ones go back.
Large(h) ==
  /\ host[h].at = "large"
  /\ IF Dedicated(h) THEN ReleasesThen(h, "budget") ELSE GoesOn(h, "budget")
  /\ UNCHANGED <<memory, stream, device, heap, turn>>

PastBudget(h) ==
  /\ host[h].at = "budget"
  /\ IF DeviceBytes + host[h].chunk > Budget THEN ReleasesThen(h, "new") ELSE GoesOn(h, "new")
  /\ UNCHANGED <<memory, stream, device, heap, turn>>

\* The device has been waited for, without the stream's lock any more.
ReleaseEmpty(h) ==
  /\ host[h].at = "empty"
  /\ RemoveEmpty
  /\ IF host[h].then = "done"
     THEN host' = [host EXCEPT ![h] = Idle] /\ heap' = NoHost
     ELSE GoesOn(h, host[h].then) /\ heap' = heap
  /\ UNCHANGED <<buffers, weights, weightBytes, memoryLimit, stream, device, turn>>

\* newBuffer gives one, the first time or once the empty chunks have gone back.
MakeChunk(h) ==
  LET c == Chunk(host[h].chunk, Dedicated(h))
  IN  /\ host[h].at \in {"new", "again"} /\ host[h].kind = "kCached"
      /\ CutFromNew(c, host[h].size)
      /\ buffers' = [buffers EXCEPT ![host[h].tensor] = BufferOn(Taken(WholeOf(c), host[h].size))]
      /\ heap' = NoHost
      /\ host' = [host EXCEPT ![h] = Idle]
      /\ UNCHANGED <<weights, weightBytes, memoryLimit, stream, device, turn>>

\* The device says how large the buffer is once it is made: the pages that were asked about or
\* more.  The memory of a weight that was let go of under this name is not this one's.
MakeWeight(h) ==
  \E excess \in 0..Excess :
   LET mem == [id |-> host[h].tensor, size |-> host[h].chunk + excess, dedicated |-> FALSE]
   IN /\ host[h].at \in {"new", "again"} /\ host[h].kind = "kWeight" /\ mem \notin weights
      /\ weights' = weights \cup {mem}
      /\ weightBytes' = weightBytes + mem.size
      /\ buffers' = [buffers EXCEPT ![host[h].tensor] = [WeightOn(mem) EXCEPT !.size = host[h].size]]
      /\ heap' = NoHost
      /\ host' = [host EXCEPT ![h] = Idle]
      /\ UNCHANGED <<made, chunks, blocks, memoryLimit, stream, device, turn>>

\* newBuffer gives none: once more after the empty chunks have gone back, and then OutOfMemoryError.
NewFails(h) ==
  /\ host[h].at = "new"
  /\ ReleasesThen(h, "again")
  /\ UNCHANGED <<memory, stream, device, heap, turn>>

NewFailsAgain(h) ==
  /\ host[h].at = "again"
  /\ heap' = NoHost
  /\ host' = [host EXCEPT ![h] = Idle]
  /\ UNCHANGED <<memory, stream, device, turn>>

-----------------------------------------------------------------------------
(* free, releaseUnusedMemory, setMemoryLimit. *)

\* Nobody else has a tensor that is being destroyed.
Mine(h, t) == t \in Live /\ \A g \in Hosts \ {h} : host[g].tensor # t

\* A mutation: they are not joined to what is free on either side.
FreeCachedUnjoined(h, t) ==
  /\ host[h].at = "idle" /\ heap = NoHost /\ Mine(h, t) /\ buffers[t].type = "kCached"
  /\ \E b \in blocks : /\ b.chunk = buffers[t].memory /\ b.offset = buffers[t].offset /\ ~b.free
                       /\ blocks' = (blocks \ {b}) \cup {Freed(b, buffers[t].lastUse)}
  /\ buffers' = [buffers EXCEPT ![t] = NoBuffer]
  /\ UNCHANGED <<made, chunks, weights, weightBytes, memoryLimit, stream, device, heap, turn, host>>

\* A cached buffer's bytes go back at once, with the batch they were last used by.
FreeCached(h, t) ==
  /\ host[h].at = "idle" /\ heap = NoHost /\ Mine(h, t) /\ buffers[t].type = "kCached"
  /\ \E b \in blocks : /\ b.chunk = buffers[t].memory /\ b.offset = buffers[t].offset /\ ~b.free
                       /\ Give(b, buffers[t].lastUse)
  /\ buffers' = [buffers EXCEPT ![t] = NoBuffer]
  /\ UNCHANGED <<weights, weightBytes, memoryLimit, stream, device, heap, turn, host>>

\* A weight's go back to the device, after the work that last used them.
FreeWeight(h, t) ==
  /\ host[h].at = "idle" /\ heap = NoHost /\ Mine(h, t) /\ buffers[t].type = "kWeight"
  /\ heap' = h
  /\ host' = [host EXCEPT ![h] = [Idle EXCEPT !.at = "enter", !.then = "letGo", !.tensor = t,
                                    !.buffer = buffers[t]]]
  /\ buffers' = [buffers EXCEPT ![t] = NoBuffer]
  /\ UNCHANGED <<made, chunks, blocks, weights, weightBytes, memoryLimit, stream, device, turn>>

LetGo(h) ==
  /\ host[h].at = "letGo"
  /\ weights' = weights \ {host[h].buffer.memory}
  /\ weightBytes' = weightBytes - host[h].buffer.memory.size
  /\ heap' = NoHost
  /\ host' = [host EXCEPT ![h] = Idle]
  /\ UNCHANGED <<made, chunks, blocks, buffers, memoryLimit, stream, device, turn>>

ReleaseUnusedMemory(h) ==
  /\ host[h].at = "idle" /\ heap = NoHost
  /\ heap' = h
  /\ host' = [host EXCEPT ![h] = [Idle EXCEPT !.at = "enter", !.then = "done"]]
  /\ UNCHANGED <<memory, stream, device, turn>>

SetMemoryLimit(h, bytes) ==
  /\ host[h].at = "idle" /\ heap = NoHost
  /\ memoryLimit' = bytes
  /\ UNCHANGED <<made, chunks, blocks, buffers, weights, weightBytes, stream, device, heap, turn, host>>

-----------------------------------------------------------------------------
Call(h) ==
  \/ \E args \in SUBSET Live : args # {} /\ Cardinality(args) <= 2 /\ Dispatch(h, args)
  \/ \E t \in Live : HostCopy(h, t)
  \/ Synchronize(h)
  \/ \E t \in Tensors, bytes \in Asks :
       \/ "kCached" \in Kinds /\ (Allocate(h, t, bytes) \/ AllocateNew(h, t, bytes))
       \/ "kWeight" \in Kinds /\ AllocateWeight(h, t, bytes)
  \/ \E t \in Live : FreeCached(h, t) \/ FreeWeight(h, t)
  \/ ReleaseUnusedMemory(h)
  \/ \E bytes \in Limits : SetMemoryLimit(h, bytes)

Step(h) ==
  \/ Enter(h) \/ Waited(h) \/ CopyEnds(h) \/ WaitThrows(h)
  \/ WithinLimit(h) \/ Room(h) \/ NoRoom(h) \/ Large(h) \/ PastBudget(h)
  \/ ReleaseEmpty(h) \/ MakeChunk(h) \/ MakeWeight(h) \/ NewFails(h) \/ NewFailsAgain(h)
  \/ LetGo(h)

DeviceRuns == DeviceStep /\ UNCHANGED <<memory, heap, turn, host>>

Next == DeviceRuns \/ \E h \in Hosts : Call(h) \/ Step(h)

Spec == Init /\ [][Next]_vars

\* The device runs what is committed and Metal calls its handlers; a thread in a call goes on.
FairSpec ==
  /\ Spec /\ WF_vars(Execute /\ UNCHANGED <<memory, heap, turn, host>>)
  /\ \A n \in 1..MaxBatches : WF_vars(Completed(n) /\ UNCHANGED <<memory, heap, turn, host>>)
  /\ \A h \in Hosts : SF_vars(Step(h))
-----------------------------------------------------------------------------
Places == {"idle", "enter", "wait", "copy", "limit", "room", "large", "budget", "empty", "new",
           "again", "letGo"}

\* A lock is held by the thread that is where it needs it, and the counts keep their ranges.
TypeOK ==
  /\ recorded \in 0..(PerBatch - 1) /\ submitted \in 0..MaxBatches
  /\ completed \in 0..executed /\ executed \in 0..submitted /\ finished \subseteq completed+2..executed
  /\ \A b \in blocks : b.chunk \in chunks /\ b.size % Alignment = 0 /\ b.offset % Alignment = 0
  /\ \A t \in Live : buffers[t].memory \in chunks \cup weights /\ buffers[t].lastUse <= Recording
  /\ \A h \in Hosts : /\ host[h].at \in Places
                      /\ turn = h <=> host[h].at \in {"wait", "copy"}
                      /\ host[h].at \in {"limit", "room", "large", "budget", "empty", "new", "again",
                                        "letGo"} => heap = h
                      /\ heap = h => host[h].at \notin {"idle", "copy"}
  /\ weightBytes \in Nat /\ memoryLimit \in Limits \cup {0}

SameBytes(r, q) ==
  r.memory = q.memory /\ r.offset < q.offset + q.size /\ q.offset < r.offset + r.size

\* While the host reads or writes a tensor, nothing the device has yet to run uses those bytes,
\* whichever tensor they were when it was encoded.
HostAlone ==
  \A h \in Hosts : host[h].at = "copy" =>
    \A u \in uses : ~SameBytes(u.run, buffers[host[h].tensor])

\* Memory goes back to the device "only once the device is done with it": the command buffers do
\* not keep what they use.
InFlightIsHeld == \A u \in uses : u.run.memory \in chunks \cup weights

Grows == ~(chunks' \subseteq chunks) \/ ~(weights' \subseteq weights)

\* What is asked of the device never takes what it has given past the limit, the weights it failed
\* to let go of counted: "the limit holds from the next allocation on".  Only what the device rounds
\* a weight's buffer up by past the page is known too late, and of the last one only.
Unasked == IF weights' \subseteq weights THEN 0 ELSE Excess

LimitHolds == [][Grows /\ memoryLimit > 0 => DeviceBytes' <= memoryLimit + Unasked]_vars

\* Every call returns or throws, in whatever order Metal calls the handlers.
CallsEnd == \A h \in Hosts : host[h].at # "idle" ~> host[h].at = "idle"
=============================================================================
