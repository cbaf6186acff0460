------------------------------ MODULE CudaStreams ------------------------------
(***************************************************************************)
(* The two streams of the CUDA backend: the one kernels run on and the one *)
(* weights cross on (flint/cuda/copy_stream.h).  Each runs what it is      *)
(* given in order, and nothing else puts the work of one before that of    *)
(* the other but the events in flint/cuda/to_device.cc, the stream a block *)
(* is freed in (flint/cuda/cuda_tensor_data.cc) and the two staging        *)
(* buffers every thread shares (flint/cuda/staged_upload.cc).  Host        *)
(* threads interleave at each of these calls.                              *)
(***************************************************************************)
EXTENDS Integers, FiniteSets, FiniteSetsExt

CONSTANTS
  Threads,        \* the threads that use the device
  CudaTensors,    \* a bound: the tensors a thread may have at once
  CudaBlocks,     \* a bound: the blocks the driver's pool has
  CudaAsks,       \* the sizes asked for
  CudaLimit,      \* gMemoryLimit, set before
  CudaChunks,     \* a bound: of how many chunks a staged upload may be
  MaxWork         \* a bound: what is ever enqueued before a call that enqueues more

ASSUME CudaAssumption ==
  /\ CudaAsks \subseteq Nat \ {0} /\ CudaChunks \subseteq Nat \ {0}
  /\ CudaLimit \in Nat \ {0} /\ MaxWork \in Nat
  /\ IsFiniteSet(Threads) /\ IsFiniteSet(CudaTensors) /\ "none" \notin Threads

VARIABLES
  work,           \* what is enqueued and has not run: its place among all there ever was, its stream
  issued,         \* how much was ever enqueued
  tensor,         \* of each thread's tensors: its block, its size, _stream, and its copy's event
  blockFreed,     \* of each block no tensor has: what frees it, and the stream it was freed in
  nextBuffer,     \* _next
  sent,           \* _sent: of each staging buffer, the copy its event was recorded after
  staging,        \* who holds the lock of StagedUpload
  gAllocatedBytes,
  thread          \* of each thread: where it is in its call

cudaVars == <<work, issued, tensor, blockFreed, nextBuffer, sent, staging, gAllocatedBytes, thread>>

Compute == "compute"
CopyStream == "copy"
NoThread == "none"
NoBlock == "none"
NoData  == [block |-> NoBlock]
NoEvent == [stream |-> CopyStream, at |-> 0]
TensorNames == Threads \X CudaTensors

CudaIdle == [at |-> "idle", name |-> <<>>, bytes |-> 0, stream |-> Compute, before |-> 0,
             chunks |-> 0, buffer |-> 0]

CudaInit ==
  /\ work = {} /\ issued = 0
  /\ tensor = [t \in TensorNames |-> NoData]
  /\ blockFreed = [b \in CudaBlocks |-> [stream |-> Compute, at |-> 0]]
  /\ nextBuffer = 0 /\ sent = [k \in {0, 1} |-> 0]
  /\ staging = NoThread /\ gAllocatedBytes = 0
  /\ thread = [h \in Threads |-> CudaIdle]

-----------------------------------------------------------------------------
(* The device. *)

Kernel(block)       == [kind |-> "kernel", block |-> block]
Crosses(block, k)   == [kind |-> "copy", block |-> block, buffer |-> k]
Waits(event)        == [kind |-> "wait", block |-> NoBlock, event |-> event]
FromPinned          == 2

Enqueue(what, stream) ==
  /\ work' = work \cup {[n |-> issued + 1, stream |-> stream, what |-> what]}
  /\ issued' = issued + 1

\* An event is reached once what its stream had been given when it was recorded has run.
PlacesOn(stream) == {w.n : w \in {v \in work : v.stream = stream}}
EventReached(event)  == \A w \in work : w.stream = event.stream => w.n > event.at
EventOn(stream)  == [stream |-> stream, at |-> issued]

MayRun(w) == /\ \A n \in PlacesOn(w.stream) : w.n <= n
             /\ w.what.kind = "wait" => EventReached(w.what.event)

DeviceWorks ==
  /\ \E w \in work : MayRun(w) /\ work' = work \ {w}
  /\ UNCHANGED <<issued, tensor, blockFreed, nextBuffer, sent, staging, gAllocatedBytes, thread>>

-----------------------------------------------------------------------------
(* Memory: llynCudaMalloc, llynCudaFree and the counts around them. *)

ThreadGoes(h, where) == thread' = [thread EXCEPT ![h].at = where]
Returns(h)           == thread' = [thread EXCEPT ![h] = CudaIdle]
IsAt(h, where)       == thread[h].at = where

\* take: the bytes are counted first.
Take(h, t, bytes, stream) ==
  /\ IsAt(h, "idle") /\ tensor[t] = NoData /\ (stream = CopyStream => issued < MaxWork)
  /\ gAllocatedBytes' = gAllocatedBytes + bytes
  /\ thread' = [thread EXCEPT ![h] = [CudaIdle EXCEPT !.at = "take", !.name = t, !.bytes = bytes,
                                        !.stream = stream, !.before = gAllocatedBytes]]
  /\ UNCHANGED <<work, issued, tensor, blockFreed, nextBuffer, sent, staging>>

\* A mutation: what is asked for is left out of the comparison.
WithinCudaLimitBefore(h) ==
  /\ IsAt(h, "take") /\ thread[h].before <= CudaLimit
  /\ thread' = [thread EXCEPT ![h].at = "malloc", ![h].before = 0]
  /\ UNCHANGED <<work, issued, tensor, blockFreed, nextBuffer, sent, staging, gAllocatedBytes>>

WithinCudaLimit(h) ==
  /\ IsAt(h, "take") /\ thread[h].before + thread[h].bytes <= CudaLimit
  /\ thread' = [thread EXCEPT ![h].at = "malloc", ![h].before = 0]
  /\ UNCHANGED <<work, issued, tensor, blockFreed, nextBuffer, sent, staging, gAllocatedBytes>>

\* A mutation: what the driver refused stays counted.
RefusedKept(h) ==
  /\ \/ IsAt(h, "take") /\ thread[h].before + thread[h].bytes > CudaLimit
     \/ IsAt(h, "malloc")
  /\ Returns(h)
  /\ UNCHANGED <<work, issued, tensor, blockFreed, nextBuffer, sent, staging, gAllocatedBytes>>

\* Past the limit, or the driver has none: the bytes are taken off again.
CudaRefused(h) ==
  /\ \/ IsAt(h, "take") /\ thread[h].before + thread[h].bytes > CudaLimit
     \/ IsAt(h, "malloc")
  /\ gAllocatedBytes' = gAllocatedBytes - thread[h].bytes
  /\ Returns(h)
  /\ UNCHANGED <<work, issued, tensor, blockFreed, nextBuffer, sent, staging>>

\* cudaMallocAsync, external: a block freed in the same stream, which reaches the free first, or
\* one whose free has been reached.
GivenIn(stream) ==
  {b \in CudaBlocks : /\ \A t \in TensorNames : tensor[t].block # b
                      /\ blockFreed[b].stream = stream \/ EventReached(blockFreed[b])}

Malloc(h) ==
  LET stream == thread[h].stream
  IN  /\ IsAt(h, "malloc")
      /\ \E b \in GivenIn(stream) :
           tensor' = [tensor EXCEPT ![thread[h].name] =
                        [block |-> b, size |-> thread[h].bytes, stream |-> stream, copied |-> NoEvent]]
      /\ IF stream = CopyStream THEN ThreadGoes(h, "fetch") ELSE Returns(h)
      /\ UNCHANGED <<work, issued, blockFreed, nextBuffer, sent, staging, gAllocatedBytes>>

\* A mutation: every block goes back in the compute stream's order.
FreeInCompute(h, t) ==
  /\ IsAt(h, "idle") /\ tensor[t] # NoData
  /\ blockFreed' = [blockFreed EXCEPT ![tensor[t].block] = EventOn(Compute)]
  /\ tensor' = [tensor EXCEPT ![t] = NoData]
  /\ thread' = [thread EXCEPT ![h] = [CudaIdle EXCEPT !.at = "give", !.bytes = tensor[t].size]]
  /\ UNCHANGED <<work, issued, nextBuffer, sent, staging, gAllocatedBytes>>

\* ~CudaTensorData: freed in the order of the stream that owns it, a fetch nobody took included.
FreeCuda(h, t) ==
  /\ IsAt(h, "idle") /\ tensor[t] # NoData
  /\ blockFreed' = [blockFreed EXCEPT ![tensor[t].block] = EventOn(tensor[t].stream)]
  /\ tensor' = [tensor EXCEPT ![t] = NoData]
  /\ thread' = [thread EXCEPT ![h] = [CudaIdle EXCEPT !.at = "give", !.bytes = tensor[t].size]]
  /\ UNCHANGED <<work, issued, nextBuffer, sent, staging, gAllocatedBytes>>

Given(h) ==
  /\ IsAt(h, "give")
  /\ gAllocatedBytes' = gAllocatedBytes - thread[h].bytes
  /\ Returns(h)
  /\ UNCHANGED <<work, issued, tensor, blockFreed, nextBuffer, sent, staging>>

-----------------------------------------------------------------------------
(* Kernels, and copies that are asked for early: startTransferAsync and completeTransfer. *)

MayUse(h, t) == IsAt(h, "idle") /\ issued < MaxWork /\ tensor[t] # NoData /\ tensor[t].stream = Compute

Launch(h, t) ==
  /\ MayUse(h, t)
  /\ Enqueue(Kernel(tensor[t].block), Compute)
  /\ UNCHANGED <<tensor, blockFreed, nextBuffer, sent, staging, gAllocatedBytes, thread>>

\* The copy into the block just had, and the event a reader will wait for.
StartTransferAsync(h) ==
  LET t == thread[h].name
  IN  /\ IsAt(h, "fetch")
      /\ Enqueue(Crosses(tensor[t].block, FromPinned), CopyStream)
      /\ tensor' = [tensor EXCEPT ![t].copied = [stream |-> CopyStream, at |-> issued']]
      /\ Returns(h)
      /\ UNCHANGED <<blockFreed, nextBuffer, sent, staging, gAllocatedBytes>>

Fetching(h, t) == IsAt(h, "idle") /\ tensor[t] # NoData /\ tensor[t].stream = CopyStream

\* take: the compute stream waits for the copy, and the block is its from then on.
CompleteTransfer(h, t) ==
  /\ Fetching(h, t) /\ issued < MaxWork
  /\ Enqueue(Waits(tensor[t].copied), Compute)
  /\ tensor' = [tensor EXCEPT ![t].stream = Compute, ![t].copied = NoEvent]
  /\ UNCHANGED <<blockFreed, nextBuffer, sent, staging, gAllocatedBytes, thread>>

\* take_sync: the host waits.
CompleteTransferSync(h, t) ==
  /\ Fetching(h, t)
  /\ EventReached(tensor[t].copied)
  /\ tensor' = [tensor EXCEPT ![t].stream = Compute, ![t].copied = NoEvent]
  /\ UNCHANGED <<work, issued, blockFreed, nextBuffer, sent, staging, gAllocatedBytes, thread>>

-----------------------------------------------------------------------------
(* transferStaged and StagedUpload::copy. *)

\* A mutation: the copy stream does not wait for the block to be the tensor's.
TransferUnordered(h, t, chunks) ==
  /\ MayUse(h, t)
  /\ thread' = [thread EXCEPT ![h] = [CudaIdle EXCEPT !.at = "lock", !.name = t, !.chunks = chunks]]
  /\ UNCHANGED <<work, issued, tensor, blockFreed, nextBuffer, sent, staging, gAllocatedBytes>>

\* allocated: the copy stream waits until the compute stream has come to the block. What another
\* thread enqueues between the event and the wait is not what either is about.
TransferStaged(h, t, chunks) ==
  /\ MayUse(h, t)
  /\ Enqueue(Waits(EventOn(Compute)), CopyStream)
  /\ thread' = [thread EXCEPT ![h] = [CudaIdle EXCEPT !.at = "lock", !.name = t, !.chunks = chunks]]
  /\ UNCHANGED <<tensor, blockFreed, nextBuffer, sent, staging, gAllocatedBytes>>

LockStaging(h) ==
  /\ IsAt(h, "lock") /\ staging = NoThread
  /\ staging' = h
  /\ ThreadGoes(h, "fill")
  /\ UNCHANGED <<work, issued, tensor, blockFreed, nextBuffer, sent, gAllocatedBytes>>

FillThen(h) ==
  /\ nextBuffer' = 1 - nextBuffer
  /\ thread' = [thread EXCEPT ![h].at = "send", ![h].buffer = nextBuffer]
  /\ UNCHANGED <<work, issued, tensor, blockFreed, sent, staging, gAllocatedBytes>>

\* A mutation: the buffer is filled whatever still reads it.
FillAtOnce(h) == IsAt(h, "fill") /\ FillThen(h)

\* The buffer's event is waited for, and then it is written.
FillBuffer(h) ==
  /\ IsAt(h, "fill")
  /\ EventReached([stream |-> CopyStream, at |-> sent[nextBuffer]])
  /\ FillThen(h)

\* Its copy, and the event after it.
SendBuffer(h) ==
  LET left == thread[h].chunks - 1
  IN  /\ IsAt(h, "send")
      /\ Enqueue(Crosses(tensor[thread[h].name].block, thread[h].buffer), CopyStream)
      /\ sent' = [sent EXCEPT ![thread[h].buffer] = issued']
      /\ staging' = IF left = 0 THEN NoThread ELSE h
      /\ thread' = [thread EXCEPT ![h].at = IF left = 0 THEN "copied" ELSE "fill", ![h].chunks = left]
      /\ UNCHANGED <<tensor, blockFreed, nextBuffer, gAllocatedBytes>>

\* copied: the compute stream waits for it.
Copied(h) ==
  /\ IsAt(h, "copied")
  /\ Enqueue(Waits(EventOn(CopyStream)), Compute)
  /\ Returns(h)
  /\ UNCHANGED <<tensor, blockFreed, nextBuffer, sent, staging, gAllocatedBytes>>

-----------------------------------------------------------------------------
CudaCall(h) ==
  \/ \E x \in CudaTensors, bytes \in CudaAsks, s \in {Compute, CopyStream} : Take(h, <<h, x>>, bytes, s)
  \/ \E x \in CudaTensors : \/ FreeCuda(h, <<h, x>>) \/ Launch(h, <<h, x>>)
                            \/ CompleteTransfer(h, <<h, x>>) \/ CompleteTransferSync(h, <<h, x>>)
                            \/ \E n \in CudaChunks : TransferStaged(h, <<h, x>>, n)

CudaStep(h) ==
  \/ WithinCudaLimit(h) \/ CudaRefused(h) \/ Malloc(h) \/ Given(h) \/ StartTransferAsync(h)
  \/ LockStaging(h) \/ FillBuffer(h) \/ SendBuffer(h) \/ Copied(h)

CudaNext == DeviceWorks \/ \E h \in Threads : CudaCall(h) \/ CudaStep(h)

CudaSpec == CudaInit /\ [][CudaNext]_cudaVars

-----------------------------------------------------------------------------
CudaLive == {t \in TensorNames : tensor[t] # NoData}

\* The lock is held where the buffers are used, a copy in flight is the copy stream's, and the
\* count is what the tensors have and what the threads have counted and not had or not given back.
CudaTypeOK ==
  /\ \A w \in work : w.n \in 1..issued
  /\ \A h \in Threads : staging = h <=> thread[h].at \in {"fill", "send"}
  /\ \A t \in CudaLive : tensor[t].copied # NoEvent => tensor[t].stream = CopyStream
  /\ gAllocatedBytes = MapThenSumSet(LAMBDA t : tensor[t].size, CudaLive)
                     + MapThenSumSet(LAMBDA h : thread[h].bytes,
                                     {h \in Threads : thread[h].at \in {"take", "malloc", "give"}})

\* What touches a block runs in the order the host asked for it, in whichever stream and for
\* whichever of the tensors that have had the block: no kernel reads a tensor its copy has not
\* filled, and nothing of an old tensor's is left to run once a new one's starts.
BlocksInOrder ==
  \A w \in work : MayRun(w) /\ w.what.block # NoBlock =>
    \A v \in work : v.what.block = w.what.block => w.n <= v.n

\* "Two threads asking at once cannot both find room for one."
CudaLimitHolds == MapThenSumSet(LAMBDA t : tensor[t].size, CudaLive) <= CudaLimit

\* A staging buffer is being read from the moment it is filled.
CudaBuffers == INSTANCE Staging WITH
  Slots <- {0, 1},
  reads <- [k \in {0, 1} |-> Cardinality({w \in work : w.what.kind = "copy" /\ w.what.buffer = k})
                           + Cardinality({h \in Threads : thread[h].at = "send" /\ thread[h].buffer = k})]

\* A buffer is filled again only once the copy engine is done with it, whichever thread filled it.
CudaStaged == CudaBuffers!StagingSpec
=============================================================================
