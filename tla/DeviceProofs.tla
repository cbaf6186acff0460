----------------------------- MODULE DeviceProofs -----------------------------
(***************************************************************************)
(* What holds of the two devices a request may be on.  Of CudaStreams, for *)
(* any threads, tensors, blocks and sizes: the work on a block runs in     *)
(* order, the two pinned buffers are staging memory, and what is counted   *)
(* stays within the limit.  Of VulkanContext, for any tensors, memories,   *)
(* sizes, segments and batches: what is queued uses only memory there is,  *)
(* a buffer is made only within the limit, and the ring is staging memory. *)
(* And of both, and of the graphs of IrProofs, beside the rest of a        *)
(* request (MCWork).                                                       *)
(***************************************************************************)
EXTENDS MCWork, IrProofs, ReportsProofs

-----------------------------------------------------------------------------
(* CudaStreams. *)

Streams == {Compute, CopyStream}
Uploading == {"lock", "fill", "send", "copied"}
Places   == {"idle", "take", "malloc", "give", "fetch"} \cup Uploading

Data == [block : CudaBlocks, size : Nat, stream : Streams, copied : [stream : {CopyStream}, at : Nat]]

CallTypes == [at : Places, name : {<<>>} \cup TensorNames, bytes : Nat, stream : Streams,
              before : Int, chunks : Int, buffer : {0, 1}]

What ==      [kind : {"kernel"}, block : CudaBlocks]
        \cup [kind : {"copy"}, block : CudaBlocks, buffer : {0, 1, FromPinned}]
        \cup [kind : {"wait"}, block : {NoBlock}, event : [stream : Streams, at : Nat]]

\* What types come to, for the steps to work with.
CudaTyped ==
  /\ issued \in Nat
  /\ \A w \in work : w \in [n : 1..issued, stream : Streams, what : What]
  /\ tensor \in [TensorNames -> {NoData} \cup Data]
  /\ blockFreed \in [CudaBlocks -> [stream : Streams, at : Nat]]
  /\ nextBuffer \in {0, 1} /\ sent \in [{0, 1} -> Nat]
  /\ gAllocatedBytes \in Int
  /\ thread \in [Threads -> CallTypes]

\* A stream is behind a piece of work that is on it, or that it has been made to wait for.
Touches(b)  == {w \in work : w.what.kind # "wait" /\ w.what.block = b}
Covers(u, v, s) ==
  u.what.kind = "wait" /\ u.stream = s /\ u.what.event.stream = v.stream /\ v.n <= u.what.event.at
Follows(v, s) == v.stream = s \/ \E u \in work : Covers(u, v, s)

\* Where the next work on a tensor goes: what is being uploaded is the copy stream's until it ends.
InStaging(t) == thread[t[1]].name = t /\ thread[t[1]].at \in Uploading
AtFetch(t)   == thread[t[1]].name = t /\ thread[t[1]].at = "fetch"
NextOn(t)    == IF InStaging(t) THEN CopyStream ELSE tensor[t].stream

\* Of two pieces of work on a block the later is on the stream of the earlier, or behind a wait for it.
Numbered == \A v, w \in work : v.n = w.n => v = w
Ordered ==
  \A v, w \in work : v.what.kind # "wait" /\ w.what.kind # "wait" /\ v.what.block = w.what.block /\ v.n < w.n =>
     v.stream = w.stream \/ \E u \in work : Covers(u, v, w.stream) /\ u.n < w.n

\* What a call is at agrees with the tensor it is of.
CallAt(h) ==
  /\ thread[h].at \notin {"idle", "give"} => \E x \in CudaTensors : thread[h].name = <<h, x>>
  /\ thread[h].at \in {"take", "malloc"} => tensor[thread[h].name] = NoData
  /\ thread[h].at = "fetch" => tensor[thread[h].name] # NoData /\ tensor[thread[h].name].stream = CopyStream
  /\ thread[h].at \in Uploading => tensor[thread[h].name] # NoData /\ tensor[thread[h].name].stream = Compute
Calls == \A h \in Threads : CallAt(h)

OneOwner ==
  \A t, u \in TensorNames :
    tensor[t] # NoData /\ tensor[u] # NoData /\ tensor[t].block = tensor[u].block => t = u

\* The stream a tensor is worked on next is behind all there is on its block, whoever had it before;
\* and the event of a copy comes after all the copies.
AfterOwn(t) == tensor[t] # NoData => \A v \in Touches(tensor[t].block) :
   /\ Follows(v, NextOn(t))
   /\ tensor[t].stream = CopyStream /\ ~AtFetch(t) /\ v.stream = CopyStream => v.n <= tensor[t].copied.at
AfterOwned == \A t \in TensorNames : AfterOwn(t)
\* Of a free block, so is the stream it was freed in, from the moment it was.
AfterFree(b) == (\A t \in TensorNames : tensor[t] # NoData => tensor[t].block # b) =>
        \A v \in Touches(b) : v.n <= blockFreed[b].at /\ Follows(v, blockFreed[b].stream)
AfterFreed == \A b \in CudaBlocks : AfterFree(b)

\* The inductive invariant.
CudaInv == CudaTyped /\ Numbered /\ Ordered /\ Calls /\ OneOwner /\ AfterOwned /\ AfterFreed

-----------------------------------------------------------------------------
\* What is queued, taken apart: a number not past the last, a stream, and what it does.
LEMMA WorkOf ==
  ASSUME CudaTyped, NEW w \in work
  PROVE  /\ w.n \in Nat /\ w.n >= 1 /\ w.n <= issued /\ w.stream \in Streams
         /\ w.what.kind \in {"kernel", "copy", "wait"}
         /\ w.what.kind = "wait" =>
              w.what.block = NoBlock /\ w.what.event.stream \in Streams /\ w.what.event.at \in Nat
         /\ w.what.kind # "wait" => w.what.block \in CudaBlocks
<1>1. w \in [n : 1..issued, stream : Streams, what : What] /\ issued \in Nat
  BY DEF CudaTyped
<1>2. w.n \in 1..issued /\ w.stream \in Streams /\ w.what \in What
  BY <1>1
<1>3. /\ w.what.kind \in {"kernel", "copy", "wait"}
      /\ w.what.kind = "wait" => w.what.block = NoBlock /\ w.what.event \in [stream : Streams, at : Nat]
      /\ w.what.kind # "wait" => w.what.block \in CudaBlocks
  BY <1>2 DEF What
<1> QED
  BY <1>1, <1>2, <1>3

\* A tensor with data has a block, a size, a stream and an event of a copy.
LEMMA DataOf ==
  ASSUME CudaTyped, NEW t \in TensorNames, tensor[t] # NoData
  PROVE  /\ tensor[t] \in Data
         /\ tensor[t].block \in CudaBlocks /\ tensor[t].size \in Nat /\ tensor[t].stream \in Streams
         /\ tensor[t].copied.stream = CopyStream /\ tensor[t].copied.at \in Nat
<1>1. tensor[t] \in Data
  BY DEF CudaTyped
<1>2. tensor[t].copied \in [stream : {CopyStream}, at : Nat] /\ tensor[t].block \in CudaBlocks /\ tensor[t].size \in Nat /\ tensor[t].stream \in Streams
  BY <1>1 DEF Data
<1> QED
  BY <1>1, <1>2

\* A call, taken apart.
LEMMA CallOf ==
  ASSUME CudaTyped, NEW h \in Threads
  PROVE  /\ thread[h] \in CallTypes
         /\ thread[h].at \in Places /\ thread[h].bytes \in Nat /\ thread[h].stream \in Streams
         /\ thread[h].before \in Int /\ thread[h].chunks \in Int /\ thread[h].buffer \in {0, 1}
BY DEF CudaTyped, CallTypes

\* Data is not the lack of it.
LEMMA DataIsData ==
  ASSUME NEW d \in Data
  PROVE  d # NoData
<1>1. "size" \in DOMAIN d
  BY DEF Data
<1>2. "size" \notin DOMAIN NoData
  BY DEF NoData
<1> QED
  BY <1>1, <1>2

-----------------------------------------------------------------------------
(* What comes to be enqueued. *)
LEMMA Enqueued ==
  ASSUME CudaTyped, NEW what \in What, NEW s \in Streams, Enqueue(what, s)
  PROVE  \E w : /\ w \in [n : 1..(issued + 1), stream : Streams, what : What]
                /\ w.n = issued + 1 /\ w.stream = s /\ w.what = what
                /\ work' = work \cup {w} /\ issued' = issued + 1 /\ issued' \in Nat
                /\ \A v \in work' : v \in [n : 1..issued', stream : Streams, what : What]
<1> DEFINE w == [n |-> issued + 1, stream |-> s, what |-> what]
<1>1. issued \in Nat /\ \A v \in work : v \in [n : 1..issued, stream : Streams, what : What]
  BY DEF CudaTyped
<1>2. w \in [n : 1..(issued + 1), stream : Streams, what : What] /\ w.n = issued + 1 /\ w.stream = s /\ w.what = what
  BY <1>1
<1>3. work' = work \cup {w} /\ issued' = issued + 1
  BY DEF Enqueue
<1>4. \A v \in work : v \in [n : 1..(issued + 1), stream : Streams, what : What]
  <2> SUFFICES ASSUME NEW v \in work PROVE v \in [n : 1..(issued + 1), stream : Streams, what : What]
    OBVIOUS
  <2>1. v \in [n : 1..issued, stream : Streams, what : What]
    BY <1>1
  <2>2. 1..issued \subseteq 1..(issued+1)
    BY <1>1
  <2> QED
    BY <2>1, <2>2
<1> HIDE DEF w
<1> QED
  BY <1>1, <1>2, <1>3, <1>4

\* What a stream is behind it stays behind, whatever else is queued.
LEMMA FollowsStill ==
  ASSUME work \subseteq work', NEW v, NEW s, Follows(v, s)
  PROVE  Follows(v, s)'
BY DEF Follows, Covers

\* Work put on a stream that is behind all that touches its block keeps the order of the queue.
LEMMA QueueKept ==
  ASSUME CudaInv, NEW what \in What, NEW s \in Streams, Enqueue(what, s),
         what.kind # "wait" => \A v \in Touches(what.block) : Follows(v, s)
  PROVE  Numbered' /\ Ordered'
<1>1. PICK w : /\ w.n = issued + 1 /\ w.stream = s /\ w.what = what
               /\ work' = work \cup {w}
  BY Enqueued DEF CudaInv
<1>2. issued \in Nat /\ \A v \in work : v.n \in Nat /\ v.n <= issued
  BY WorkOf DEF CudaInv, CudaTyped
<1>3. Numbered'
  BY <1>1, <1>2 DEF Numbered, CudaInv
<1>4. Ordered'
  <2> SUFFICES ASSUME NEW v \in work', NEW x \in work', v.what.kind # "wait", x.what.kind # "wait",
                      v.what.block = x.what.block, v.n < x.n
               PROVE  v.stream = x.stream \/ \E u \in work' : Covers(u, v, x.stream) /\ u.n < x.n
    BY DEF Ordered, Covers
  <2>1. v \in work
    BY <1>1, <1>2
  <2>2. CASE x \in work
    BY <2>1, <2>2, <1>1 DEF CudaInv, Ordered
  <2>3. CASE x = w
    <3>1. Follows(v, s)
      BY <2>1, <2>3, <1>1 DEF Touches
    <3> QED
      BY <3>1, <2>3, <1>1, <1>2 DEF Follows
  <2> QED
    BY <2>2, <2>3, <1>1
<1> QED
  BY <1>3, <1>4

-----------------------------------------------------------------------------
\* One call changes and the others stay.
LEMMA CallChanges ==
  ASSUME CudaTyped, NEW h \in Threads, NEW r \in CallTypes, thread' = [thread EXCEPT ![h] = r]
  PROVE  /\ thread' \in [Threads -> CallTypes] /\ thread'[h] = r
         /\ \A k \in Threads \ {h} : thread'[k] = thread[k]
BY DEF CudaTyped

\* A thread with no call.
LEMMA IdleCall == CudaIdle \in CallTypes /\ CudaIdle.at = "idle"
BY DEF CudaIdle, CallTypes, Places, Uploading, Streams, Compute

\* A call that returns leaves its thread with none.
LEMMA CallReturns ==
  ASSUME CudaTyped, NEW h \in Threads, Returns(h)
  PROVE  /\ thread' \in [Threads -> CallTypes] /\ thread'[h].at = "idle"
         /\ \A k \in Threads \ {h} : thread'[k] = thread[k]
BY CallChanges, IdleCall DEF Returns

\* A call that goes on keeps all but where it is.
LEMMA CallGoes ==
  ASSUME CudaTyped, NEW h \in Threads, NEW where \in Places, ThreadGoes(h, where)
  PROVE  /\ thread' \in [Threads -> CallTypes]
         /\ thread'[h].at = where /\ thread'[h].name = thread[h].name /\ thread'[h].chunks = thread[h].chunks
         /\ thread'[h].bytes = thread[h].bytes /\ thread'[h].stream = thread[h].stream
         /\ thread'[h].before = thread[h].before /\ thread'[h].buffer = thread[h].buffer
         /\ \A k \in Threads \ {h} : thread'[k] = thread[k]
<1> DEFINE r == [thread[h] EXCEPT !.at = where]
<1>1. thread[h] \in CallTypes
  BY CallOf
<1>2. r \in CallTypes /\ r.at = where /\ r.name = thread[h].name /\ r.chunks = thread[h].chunks
      /\ r.bytes = thread[h].bytes /\ r.stream = thread[h].stream
         /\ r.before = thread[h].before /\ r.buffer = thread[h].buffer
  BY <1>1 DEF CallTypes
<1>3. thread' = [thread EXCEPT ![h] = r]
  BY DEF ThreadGoes
<1> HIDE DEF r
<1> QED
  BY <1>2, <1>3, CallChanges

\* One tensor changes and the others stay.
LEMMA TensorChanges ==
  ASSUME CudaTyped, NEW t \in TensorNames, NEW d \in {NoData} \cup Data, tensor' = [tensor EXCEPT ![t] = d]
  PROVE  /\ tensor' \in [TensorNames -> {NoData} \cup Data] /\ tensor'[t] = d
         /\ \A u \in TensorNames \ {t} : tensor'[u] = tensor[u]
BY DEF CudaTyped

\* Only the thread's own tensors and call changed.
Others(h) ==
  /\ \A k \in Threads \ {h} : thread'[k] = thread[k]
  /\ \A t \in TensorNames : t[1] # h => tensor'[t] = tensor[t]

NewOf(h) == \A v \in work' : v \notin work /\ v.what.kind # "wait" =>
   \E x \in CudaTensors : /\ tensor[<<h, x>>] # NoData /\ v.what.block = tensor[<<h, x>>].block

\* A name is a thread and one of its tensors.
LEMMA NameIs == ASSUME NEW t \in TensorNames PROVE t[1] \in Threads /\ t[2] \in CudaTensors /\ t = <<t[1], t[2]>>
BY DEF TensorNames

\* What is true of the calls stays true where one of them changes and keeps it.
LEMMA CallsKept ==
  ASSUME Calls, NEW h \in Threads, Others(h), CallAt(h)'
  PROVE  Calls'
<1> SUFFICES ASSUME NEW k \in Threads, k # h PROVE CallAt(k)'
  BY DEF Calls
<1>1. CallAt(k) /\ thread'[k] = thread[k]
  BY DEF Calls, Others
<1>2. CASE thread[k].at \in {"idle", "give"}
  BY <1>1, <1>2 DEF CallAt, Uploading
<1>3. CASE thread[k].at \notin {"idle", "give"}
  <2>1. PICK x \in CudaTensors : thread[k].name = <<k, x>>
    BY <1>1, <1>3 DEF CallAt
  <2>2. <<k, x>> \in TensorNames /\ <<k, x>>[1] = k
    BY DEF TensorNames
  <2>3. tensor'[<<k, x>>] = tensor[<<k, x>>]
    BY <2>2 DEF Others
  <2> QED
    BY <1>1, <2>1, <2>3 DEF CallAt
<1> QED
  BY <1>2, <1>3

\* Another thread's tensor has nothing new on its block.
LEMMA OwnedKept ==
  ASSUME CudaInv, NEW h \in Threads, Others(h), work \subseteq work', NewOf(h),
         NEW t \in TensorNames, t[1] # h
  PROVE  AfterOwn(t)'
<1> SUFFICES ASSUME tensor'[t] # NoData, NEW v \in Touches(tensor[t].block)'
             PROVE  /\ Follows(v, NextOn(t))'
                    /\ tensor'[t].stream = CopyStream /\ ~AtFetch(t)' /\ v.stream = CopyStream
                         => v.n <= tensor'[t].copied.at
  BY DEF AfterOwn
<1>1. tensor'[t] = tensor[t] /\ thread'[t[1]] = thread[t[1]]
  BY NameIs DEF Others
<1>2. v \in work
  <2> SUFFICES ASSUME v \notin work PROVE FALSE
    OBVIOUS
  <2>1. v \in work' /\ v.what.kind # "wait" /\ v.what.block = tensor[t].block
    BY <1>1 DEF Touches
  <2>2. PICK x \in CudaTensors : tensor[<<h, x>>] # NoData /\ v.what.block = tensor[<<h, x>>].block
    BY <2>1 DEF NewOf
  <2>3. <<h, x>> \in TensorNames /\ <<h, x>>[1] = h
    BY DEF TensorNames
  <2>4. t = <<h, x>>
    BY <1>1, <2>1, <2>2, <2>3 DEF CudaInv, OneOwner
  <2> QED
    BY <2>3, <2>4
<1>3. v \in Touches(tensor[t].block)
  BY <1>1, <1>2 DEF Touches
<1>4. AfterOwn(t)
  BY DEF CudaInv, AfterOwned
<1>5. NextOn(t)' = NextOn(t) /\ AtFetch(t)' = AtFetch(t)
  BY <1>1 DEF NextOn, AtFetch, InStaging
<1>6. Follows(v, NextOn(t)) /\ (tensor[t].stream = CopyStream /\ ~AtFetch(t) /\ v.stream = CopyStream
                         => v.n <= tensor[t].copied.at)
  BY <1>1, <1>3, <1>4 DEF AfterOwn
<1>7. Follows(v, NextOn(t))'
  <2> DEFINE s == NextOn(t)
  <2>1. Follows(v, s) /\ s' = s
    BY <1>5, <1>6
  <2> HIDE DEF s
  <2>2. Follows(v, s)'
    BY <2>1 DEF Follows, Covers
  <2> QED
    BY <2>2 DEF s
<1> QED
  BY <1>1, <1>5, <1>6, <1>7

\* A free block has nothing new on it.
LEMMA FreeKept ==
  ASSUME CudaInv, work \subseteq work', NEW b \in CudaBlocks, blockFreed'[b] = blockFreed[b],
         \A t \in TensorNames : tensor[t] # NoData => tensor'[t] # NoData /\ tensor'[t].block = tensor[t].block,
         NEW h \in Threads, NewOf(h)
  PROVE  AfterFree(b)'
<1> SUFFICES ASSUME \A t \in TensorNames : tensor'[t] # NoData => tensor'[t].block # b,
                    NEW v \in Touches(b)'
             PROVE  v.n <= blockFreed'[b].at /\ Follows(v, blockFreed[b].stream)'
  BY DEF AfterFree
<1>1. \A t \in TensorNames : tensor[t] # NoData => tensor[t].block # b
  OBVIOUS
<1>2. \A x \in CudaTensors : <<h, x>> \in TensorNames
  BY DEF TensorNames
<1>3. v \in Touches(b)
  BY <1>1, <1>2 DEF Touches, NewOf
<1>4. v.n <= blockFreed[b].at /\ Follows(v, blockFreed[b].stream)
  BY <1>1, <1>3 DEF CudaInv, AfterFreed, AfterFree
<1> DEFINE s == blockFreed[b].stream
<1>5. Follows(v, s) /\ s' = s
  BY <1>4
<1> HIDE DEF s
<1>6. Follows(v, s)'
  BY <1>5 DEF Follows, Covers
<1> QED
  BY <1>4, <1>6 DEF s

\* What is left to show of a call of h.
LEMMA CallKeeps ==
  ASSUME CudaInv, NEW h \in Threads, Others(h), work \subseteq work', NewOf(h),
         CudaTyped', Numbered', Ordered', OneOwner', CallAt(h)',
         \A x \in CudaTensors : AfterOwn(<<h, x>>)',
         \A b \in CudaBlocks : AfterFree(b)'
  PROVE  CudaInv'
<1>1. Calls'
  BY CallsKept DEF CudaInv
<1>2. AfterOwned'
  <2> SUFFICES ASSUME NEW t \in TensorNames PROVE AfterOwn(t)'
    BY DEF AfterOwned
  <2>1. CASE t[1] # h
    BY <2>1, OwnedKept
  <2>2. CASE t[1] = h
    BY <2>2, NameIs
  <2> QED
    BY <2>1, <2>2
<1> QED
  BY <1>1, <1>2 DEF CudaInv, AfterFreed

-----------------------------------------------------------------------------
(* Calls that enqueue nothing and change no tensor. *)

Busy == Uploading \cup {"fetch"}

\* A step that enqueues nothing and changes no tensor keeps the invariant.
LEMMA QuietKeeps ==
  ASSUME CudaInv, NEW h \in Threads, UNCHANGED <<work, issued, tensor, blockFreed>>,
         nextBuffer' \in {0, 1}, sent' \in [{0, 1} -> Nat], gAllocatedBytes' \in Int,
         thread' \in [Threads -> CallTypes],
         \A k \in Threads \ {h} : thread'[k] = thread[k],
         CallAt(h)',
         thread'[h].at \in Busy \/ thread[h].at \in Busy =>
           thread'[h].name = thread[h].name /\ {thread'[h].at, thread[h].at} \subseteq Uploading
  PROVE  CudaInv'
<1>1. CudaTyped'
  BY DEF CudaInv, CudaTyped
<1>2. Numbered' /\ Ordered' /\ OneOwner'
  BY DEF CudaInv, Numbered, Ordered, OneOwner, Covers
<1>3. Others(h) /\ work \subseteq work' /\ NewOf(h)
  BY DEF Others, NewOf
<1>4. \A b \in CudaBlocks : AfterFree(b)'
  BY <1>3, FreeKept
<1>5. ASSUME NEW x \in CudaTensors PROVE AfterOwn(<<h, x>>)'
  <2> DEFINE t == <<h, x>>
  <2>1. t \in TensorNames /\ t[1] = h
    BY DEF TensorNames
  <2> HIDE DEF t
  <2>2. InStaging(t)' = InStaging(t) /\ AtFetch(t)' = AtFetch(t)
    BY <2>1 DEF InStaging, AtFetch, Busy, Uploading
  <2>3. NextOn(t)' = NextOn(t)
    BY <2>2 DEF NextOn
  <2>4. AfterOwn(t)
    BY <2>1 DEF CudaInv, AfterOwned
  <2>5. AfterOwn(t)'
    BY <2>2, <2>3, <2>4 DEF AfterOwn, Touches, Follows, Covers
  <2> QED
    BY <2>5 DEF t
<1> QED
  BY <1>1, <1>2, <1>3, <1>4, <1>5, CallKeeps

\* take counts what is asked for and changes nothing else.
LEMMA TakeKeeps ==
  ASSUME CudaInv, NEW h \in Threads, NEW x \in CudaTensors, NEW bytes \in CudaAsks, NEW s \in Streams,
         Take(h, <<h, x>>, bytes, s)
  PROVE  CudaInv'
<1> DEFINE r == [CudaIdle EXCEPT !.at = "take", !.name = <<h, x>>, !.bytes = bytes,
                                 !.stream = s, !.before = gAllocatedBytes]
<1>1. gAllocatedBytes \in Int /\ bytes \in Nat /\ <<h, x>> \in TensorNames
  BY CudaAssumption DEF CudaInv, CudaTyped, TensorNames
<1>2. r \in CallTypes /\ r.at = "take" /\ r.name = <<h, x>>
  BY <1>1, IdleCall DEF CallTypes, Places, Uploading
<1>3. thread' = [thread EXCEPT ![h] = r]
  BY DEF Take
<1> HIDE DEF r
<1>4. thread' \in [Threads -> CallTypes] /\ thread'[h] = r /\ \A k \in Threads \ {h} : thread'[k] = thread[k]
  BY <1>2, <1>3, CallChanges DEF CudaInv
<1>5. CallAt(h)'
  BY <1>2, <1>4 DEF CallAt, Uploading, Take
<1> QED
  BY <1>1, <1>2, <1>4, <1>5, QuietKeeps DEF Take, IsAt, Busy, Uploading, CudaInv, CudaTyped

\* The look at the limit moves the call on.
LEMMA LimitKeeps ==
  ASSUME CudaInv, NEW h \in Threads, WithinCudaLimit(h)
  PROVE  CudaInv'
<1> PICK z \in Int : z = 0
  OBVIOUS
<1> DEFINE r == [thread[h] EXCEPT !.at = "malloc", !.before = z]
<1>1. thread[h] \in CallTypes /\ thread[h].at = "take" /\ CallAt(h)
  BY CallOf DEF CudaInv, Calls, WithinCudaLimit, IsAt
<1>2. r \in CallTypes /\ r.at = "malloc" /\ r.name = thread[h].name
  BY <1>1 DEF CallTypes, Places, Uploading
<1>3. thread' = [thread EXCEPT ![h] = r]
  BY DEF WithinCudaLimit
<1> HIDE DEF r
<1>4. thread' \in [Threads -> CallTypes] /\ thread'[h] = r /\ \A k \in Threads \ {h} : thread'[k] = thread[k]
  BY <1>2, <1>3, CallChanges DEF CudaInv
<1>5. CallAt(h)'
  BY <1>1, <1>2, <1>4 DEF CallAt, Uploading, WithinCudaLimit
<1> QED
  BY <1>1, <1>2, <1>4, <1>5, QuietKeeps DEF WithinCudaLimit, Busy, Uploading, CudaInv, CudaTyped

\* A call that returns, or gives back what it had counted, owns nothing by then.
LEMMA ReturnKeeps ==
  ASSUME CudaInv, NEW h \in Threads, Returns(h), thread[h].at \notin Busy,
         UNCHANGED <<work, issued, tensor, blockFreed, nextBuffer, sent, staging>>, gAllocatedBytes' \in Int
  PROVE  CudaInv'
<1>1. thread' \in [Threads -> CallTypes] /\ thread'[h].at = "idle" /\ \A k \in Threads \ {h} : thread'[k] = thread[k]
  BY CallReturns DEF CudaInv
<1>2. CallAt(h)'
  BY <1>1 DEF CallAt, Uploading
<1> QED
  BY <1>1, <1>2, QuietKeeps DEF Busy, Uploading, CudaInv, CudaTyped

\* A refusal, and a free that is counted off.
LEMMA GivesKeep ==
  ASSUME CudaInv, NEW h \in Threads, CudaRefused(h) \/ Given(h)
  PROVE  CudaInv'
<1>1. thread[h].bytes \in Nat /\ gAllocatedBytes \in Int
  BY CallOf DEF CudaInv, CudaTyped
<1>2. /\ Returns(h) /\ thread[h].at \notin Busy /\ gAllocatedBytes' = gAllocatedBytes - thread[h].bytes
      /\ UNCHANGED <<work, issued, tensor, blockFreed, nextBuffer, sent, staging>>
  BY DEF CudaRefused, Given, IsAt, Busy, Uploading
<1> QED
  BY <1>1, <1>2, ReturnKeeps

\* The lock of the buffers is of no block.
LEMMA LockKeeps ==
  ASSUME CudaInv, NEW h \in Threads, LockStaging(h)
  PROVE  CudaInv'
<1>1. thread[h].at = "lock" /\ CallAt(h)
  BY DEF CudaInv, Calls, LockStaging, IsAt
<1>2. /\ thread' \in [Threads -> CallTypes] /\ thread'[h].at = "fill" /\ thread'[h].name = thread[h].name
      /\ \A k \in Threads \ {h} : thread'[k] = thread[k]
  BY CallGoes DEF LockStaging, CudaInv, Places, Uploading
<1>3. CallAt(h)'
  BY <1>1, <1>2 DEF CallAt, Uploading, LockStaging
<1> QED
  BY <1>1, <1>2, <1>3, QuietKeeps DEF LockStaging, Busy, Uploading, CudaInv, CudaTyped

\* A buffer is filled by the host.
LEMMA FillKeeps ==
  ASSUME CudaInv, NEW h \in Threads, FillBuffer(h)
  PROVE  CudaInv'
<1> DEFINE r == [thread[h] EXCEPT !.at = "send", !.buffer = nextBuffer]
<1>1. thread[h] \in CallTypes /\ thread[h].at = "fill" /\ CallAt(h) /\ nextBuffer \in {0, 1}
  BY CallOf DEF CudaInv, CudaTyped, Calls, FillBuffer, IsAt
<1>2. r \in CallTypes /\ r.at = "send" /\ r.name = thread[h].name
  BY <1>1 DEF CallTypes, Places, Uploading
<1>3. thread' = [thread EXCEPT ![h] = r]
  BY DEF FillBuffer, FillThen
<1> HIDE DEF r
<1>4. thread' \in [Threads -> CallTypes] /\ thread'[h] = r /\ \A k \in Threads \ {h} : thread'[k] = thread[k]
  BY <1>2, <1>3, CallChanges DEF CudaInv
<1>5. CallAt(h)'
  BY <1>1, <1>2, <1>4 DEF CallAt, Uploading, FillBuffer, FillThen
<1>6. nextBuffer' \in {0, 1}
  BY <1>1 DEF FillBuffer, FillThen
<1> QED
  BY <1>1, <1>2, <1>4, <1>5, <1>6, QuietKeeps DEF FillBuffer, FillThen, Busy, Uploading, CudaInv, CudaTyped

-----------------------------------------------------------------------------
(* Memory. *)

\* All that was asked of a block that is free is over, or before what is given the stream next.
LEMMA MallocKeeps ==
  ASSUME CudaInv, NEW h \in Threads, Malloc(h)
  PROVE  CudaInv'
<1> DEFINE s == thread[h].stream
<1>1. CudaTyped /\ thread[h].at = "malloc" /\ s \in Streams /\ thread[h].bytes \in Nat
  BY CallOf DEF CudaInv, Malloc, IsAt
<1>2. PICK x \in CudaTensors : thread[h].name = <<h, x>>
  BY <1>1 DEF CudaInv, Calls, CallAt
<1> DEFINE t == <<h, x>>
<1>3. t \in TensorNames /\ tensor[t] = NoData /\ t[1] = h
  BY <1>1, <1>2 DEF TensorNames, CudaInv, Calls, CallAt
<1>4. PICK b \in GivenIn(s) : tensor' = [tensor EXCEPT ![t] =
         [block |-> b, size |-> thread[h].bytes, stream |-> s, copied |-> NoEvent]]
  BY <1>2 DEF Malloc
<1> DEFINE d == [block |-> b, size |-> thread[h].bytes, stream |-> s, copied |-> NoEvent]
<1>5. b \in CudaBlocks /\ \A u \in TensorNames : tensor[u].block # b
  BY DEF GivenIn
<1>6. d \in Data /\ d.block = b /\ d.stream = s /\ tensor' = [tensor EXCEPT ![t] = d]
  BY <1>1, <1>4, <1>5 DEF Data, NoEvent
<1> HIDE DEF d
<1>7. d # NoData
  BY <1>6, DataIsData
<1> HIDE DEF t
<1>8. /\ tensor' \in [TensorNames -> {NoData} \cup Data] /\ tensor'[t] = d
      /\ \A u \in TensorNames \ {t} : tensor'[u] = tensor[u]
  BY <1>1, <1>3, <1>6, TensorChanges
<1>9. /\ thread' \in [Threads -> CallTypes] /\ \A k \in Threads \ {h} : thread'[k] = thread[k]
      /\ s = CopyStream  => thread'[h].at = "fetch" /\ thread'[h].name = t
      /\ s # CopyStream  => thread'[h].at = "idle"
  <2>1. CASE s = CopyStream
    BY <2>1, <1>1, <1>2, CallGoes DEF Malloc, Places, t
  <2>2. CASE s # CopyStream
    BY <2>2, <1>1, CallReturns DEF Malloc
  <2> QED
    BY <2>1, <2>2
<1>10. UNCHANGED <<work, issued, blockFreed, nextBuffer, sent, staging, gAllocatedBytes>>
  BY DEF Malloc
<1>11. CudaTyped'
  BY <1>1, <1>8, <1>9, <1>10 DEF CudaTyped
<1>12. Numbered' /\ Ordered'
  BY <1>10 DEF CudaInv, Numbered, Ordered, Covers
<1>13. OneOwner'
  BY <1>3, <1>5, <1>6, <1>8 DEF CudaInv, OneOwner
<1>14. Others(h) /\ NewOf(h) /\ work \subseteq work'
  BY <1>3, <1>8, <1>9, <1>10 DEF Others, NewOf
<1>15. CallAt(h)'
  BY <1>2, <1>6, <1>7, <1>8, <1>9 DEF CallAt, Uploading, t
<1>16. \A c \in CudaBlocks : AfterFree(c)'
  <2>1. \A u \in TensorNames : tensor[u] # NoData => tensor'[u] # NoData /\ tensor'[u].block = tensor[u].block
    BY <1>3, <1>8
  <2> QED
    BY <2>1, <1>10, <1>14, FreeKept
<1>17. \A v \in Touches(b) : Follows(v, s)
  <2> SUFFICES ASSUME NEW v \in Touches(b) PROVE Follows(v, s)
    OBVIOUS
  <2>1. v.n <= blockFreed[b].at /\ Follows(v, blockFreed[b].stream) /\ v \in work
    BY <1>5 DEF CudaInv, AfterFreed, AfterFree, Touches
  <2>2. blockFreed[b].stream = s \/ EventReached(blockFreed[b])
    BY DEF GivenIn
  <2>3. CASE EventReached(blockFreed[b])
    <3>1. v.stream # blockFreed[b].stream
      <4>1. v.stream = blockFreed[b].stream => v.n > blockFreed[b].at
        BY <2>1, <2>3 DEF EventReached
      <4>2. v.n \in Nat /\ blockFreed[b].at \in Nat
        BY <1>1, <1>5, <2>1, WorkOf DEF CudaTyped
      <4> QED
        BY <4>1, <4>2, <2>1
    <3>2. v.stream \in Streams /\ blockFreed[b].stream \in Streams
      BY <1>1, <1>5, <2>1, WorkOf DEF CudaTyped
    <3>3. CASE v.stream = s
      BY <3>3 DEF Follows
    <3>4. CASE blockFreed[b].stream = s
      BY <3>4, <2>1
    <3> QED
      BY <3>1, <3>2, <3>3, <3>4, <1>1 DEF Streams
  <2> QED
    BY <2>1, <2>2, <2>3
<1>18. ASSUME NEW y \in CudaTensors PROVE AfterOwn(<<h, y>>)'
  <2> DEFINE u == <<h, y>>
  <2>1. u \in TensorNames /\ u[1] = h
    BY DEF TensorNames
  <2>2. CASE u = t
    <3>1. NextOn(t)' = s /\ (AtFetch(t)' \/ tensor'[t].stream # CopyStream)
      BY <1>3, <1>6, <1>8, <1>9 DEF NextOn, InStaging, AtFetch, Uploading
    <3>2. AfterOwn(t)'
      BY <3>1, <1>6, <1>8, <1>10, <1>17 DEF AfterOwn, Touches, Follows, Covers
    <3> QED
      BY <3>2, <2>2
  <2>3. CASE u # t
    <3>1. tensor'[u] = tensor[u]
      BY <2>1, <2>3, <1>8
    <3> HIDE DEF u
    <3>2. ~InStaging(u) /\ ~InStaging(u)' /\ ~AtFetch(u)
      BY <2>1, <2>3, <1>1, <1>2, <1>9 DEF InStaging, AtFetch, Uploading, t
    <3>3. NextOn(u)' = NextOn(u)
      BY <3>1, <3>2 DEF NextOn
    <3>4. AfterOwn(u)
      BY <2>1 DEF CudaInv, AfterOwned
    <3>5. AfterOwn(u)'
      BY <3>1, <3>2, <3>3, <3>4, <1>10 DEF AfterOwn, Touches, Follows, Covers
    <3> QED
      BY <3>5 DEF u
  <2> QED
    BY <2>2, <2>3
<1> QED
  BY <1>11, <1>12, <1>13, <1>14, <1>15, <1>16, <1>18, CallKeeps

\* A block goes back after all that was asked of it.
LEMMA FreeKeeps ==
  ASSUME CudaInv, NEW h \in Threads, NEW x \in CudaTensors, FreeCuda(h, <<h, x>>)
  PROVE  CudaInv'
<1> DEFINE t == <<h, x>>
<1>1. CudaTyped /\ t \in TensorNames /\ t[1] = h /\ thread[h].at = "idle" /\ tensor[t] # NoData
  BY DEF CudaInv, FreeCuda, IsAt, TensorNames
<1>2. /\ blockFreed' = [blockFreed EXCEPT ![tensor[t].block] = EventOn(tensor[t].stream)]
      /\ tensor' = [tensor EXCEPT ![t] = NoData]
      /\ thread' = [thread EXCEPT ![h] = [CudaIdle EXCEPT !.at = "give", !.bytes = tensor[t].size]]
      /\ UNCHANGED <<work, issued, nextBuffer, sent, staging, gAllocatedBytes>>
  BY DEF FreeCuda
<1> DEFINE r == [CudaIdle EXCEPT !.at = "give", !.bytes = tensor[t].size]
           e == EventOn(tensor[t].stream)
<1> HIDE DEF t
<1>3. tensor[t].block \in CudaBlocks /\ tensor[t].stream \in Streams /\ tensor[t].size \in Nat
  BY <1>1, DataOf
<1>4. r \in CallTypes /\ r.at = "give"
  BY <1>3, IdleCall DEF CallTypes, Places
<1>5. e \in [stream : Streams, at : Nat] /\ e.stream = tensor[t].stream /\ e.at = issued
  BY <1>1, <1>3 DEF EventOn, CudaTyped
<1> HIDE DEF r, e
<1>6. /\ thread' \in [Threads -> CallTypes] /\ thread'[h].at = "give"
      /\ \A k \in Threads \ {h} : thread'[k] = thread[k]
  BY <1>1, <1>2, <1>4, CallChanges DEF r
<1>7. /\ tensor' \in [TensorNames -> {NoData} \cup Data] /\ tensor'[t] = NoData
      /\ \A u \in TensorNames \ {t} : tensor'[u] = tensor[u]
  BY <1>1, <1>2, TensorChanges
<1>8. /\ blockFreed' \in [CudaBlocks -> [stream : Streams, at : Nat]] /\ blockFreed'[tensor[t].block] = e
      /\ \A b \in CudaBlocks \ {tensor[t].block} : blockFreed'[b] = blockFreed[b]
  BY <1>1, <1>2, <1>3, <1>5 DEF CudaTyped, e
<1>9. CudaTyped'
  BY <1>1, <1>2, <1>6, <1>7, <1>8 DEF CudaTyped
<1>10. Numbered' /\ Ordered'
  BY <1>2 DEF CudaInv, Numbered, Ordered, Covers
<1>11. OneOwner'
  BY <1>7 DEF CudaInv, OneOwner
<1>12. Others(h) /\ NewOf(h) /\ work \subseteq work'
  BY <1>1, <1>2, <1>6, <1>7 DEF Others, NewOf
<1>13. CallAt(h)'
  BY <1>6 DEF CallAt, Uploading
<1>14. AfterOwn(t)
  BY <1>1 DEF CudaInv, AfterOwned
<1>15. NextOn(t) = tensor[t].stream
  BY <1>1 DEF NextOn, InStaging, Uploading
<1>16. \A v \in Touches(tensor[t].block) : v.n <= issued /\ Follows(v, tensor[t].stream)
  BY <1>1, <1>14, <1>15, WorkOf DEF AfterOwn, Touches
<1>17. ASSUME NEW b \in CudaBlocks PROVE AfterFree(b)'
  <2>1. CASE b = tensor[t].block
    BY <2>1, <1>2, <1>5, <1>8, <1>16 DEF AfterFree, Touches, Follows, Covers
  <2>2. CASE b # tensor[t].block
    <3>1. AfterFree(b)
      BY DEF CudaInv, AfterFreed
    <3>2. blockFreed'[b] = blockFreed[b]
      BY <1>8, <2>2
    <3>3. (\A u \in TensorNames : tensor'[u] # NoData => tensor'[u].block # b)
             => (\A u \in TensorNames : tensor[u] # NoData => tensor[u].block # b)
      BY <1>7, <2>2
    <3> QED
      BY <3>1, <3>2, <3>3, <1>2 DEF AfterFree, Touches, Follows, Covers
  <2> QED
    BY <2>1, <2>2
<1>18. ASSUME NEW y \in CudaTensors PROVE AfterOwn(<<h, y>>)'
  <2> DEFINE u == <<h, y>>
  <2>1. u \in TensorNames /\ u[1] = h
    BY DEF TensorNames
  <2> HIDE DEF u
  <2>2. CASE u = t
    BY <2>2, <1>7 DEF AfterOwn, u
  <2>3. CASE u # t
    <3>1. tensor'[u] = tensor[u]
      BY <2>1, <2>3, <1>7
    <3>2. ~InStaging(u) /\ ~InStaging(u)' /\ ~AtFetch(u)
      BY <2>1, <1>1, <1>6 DEF InStaging, AtFetch, Uploading
    <3>3. NextOn(u)' = NextOn(u)
      BY <3>1, <3>2 DEF NextOn
    <3>4. AfterOwn(u)
      BY <2>1 DEF CudaInv, AfterOwned
    <3>5. AfterOwn(u)'
      BY <3>1, <3>2, <3>3, <3>4, <1>2 DEF AfterOwn, Touches, Follows, Covers
    <3> QED
      BY <3>5 DEF u
  <2> QED
    BY <2>2, <2>3
<1> QED
  BY <1>9, <1>10, <1>11, <1>12, <1>13, <1>17, <1>18, CallKeeps

-----------------------------------------------------------------------------
(* Calls that enqueue. *)

\* Work on a tensor of the caller that its stream is behind all there is on its block for.
LEMMA EnqueueKeeps ==
  ASSUME CudaInv, NEW h \in Threads, NEW x \in CudaTensors, NEW t, t = <<h, x>>,
         NEW what \in What, NEW s \in Streams, Enqueue(what, s),
         blockFreed' = blockFreed, nextBuffer' \in {0, 1}, sent' \in [{0, 1} -> Nat], gAllocatedBytes' \in Int,
         thread' \in [Threads -> CallTypes], tensor' \in [TensorNames -> {NoData} \cup Data],
         \A k \in Threads \ {h} : thread'[k] = thread[k],
         \A u \in TensorNames \ {t} : tensor'[u] = tensor[u],
         tensor[t] # NoData, tensor'[t] # NoData, tensor'[t].block = tensor[t].block,
         what.kind # "wait" => /\ what.block = tensor[t].block
                               /\ \A v \in Touches(what.block) : Follows(v, s),
         thread[h].at \in Busy => thread[h].name = t, thread'[h].at \in Busy => thread'[h].name = t,
         CallAt(h)', AfterOwn(t)'
  PROVE  CudaInv'
<1>1. PICK w : /\ w.n = issued + 1 /\ w.stream = s /\ w.what = what
               /\ work' = work \cup {w} /\ issued' = issued + 1 /\ issued' \in Nat
               /\ \A v \in work' : v \in [n : 1..issued', stream : Streams, what : What]
  BY Enqueued DEF CudaInv
<1>2. CudaTyped'
  BY <1>1 DEF CudaInv, CudaTyped
<1>3. Numbered' /\ Ordered'
  BY QueueKept
<1>4. t \in TensorNames /\ t[1] = h
  BY DEF TensorNames
<1>5. OneOwner'
  BY <1>4 DEF CudaInv, OneOwner
<1>6. NewOf(h)
  BY <1>1 DEF NewOf
<1>7. Others(h) /\ work \subseteq work'
  BY <1>1, <1>4 DEF Others
<1>8. \A b \in CudaBlocks : AfterFree(b)'
  BY <1>4, <1>6, <1>7, FreeKept
<1>9. ASSUME NEW y \in CudaTensors PROVE AfterOwn(<<h, y>>)'
  <2> DEFINE u == <<h, y>>
  <2>1. u \in TensorNames /\ u[1] = h
    BY DEF TensorNames
  <2> HIDE DEF u
  <2>2. CASE u = t
    BY <2>2 DEF u
  <2>3. CASE u # t
    <3>1. tensor'[u] = tensor[u]
      BY <2>1, <2>3
    <3>2. ~InStaging(u) /\ ~InStaging(u)' /\ ~AtFetch(u) /\ ~AtFetch(u)'
      BY <2>1, <2>3 DEF InStaging, AtFetch, Uploading, Busy
    <3>3. SUFFICES ASSUME tensor[u] # NoData PROVE AfterOwn(u)'
      BY <3>1 DEF AfterOwn, u
    <3>4. \A v \in Touches(tensor[u].block)' : v \in Touches(tensor[u].block)
      <4>1. tensor[u].block # tensor[t].block
        BY <2>1, <1>4, <2>3, <3>3 DEF CudaInv, OneOwner
      <4> QED
        BY <4>1, <3>1, <1>1 DEF Touches
    <3>5. AfterOwn(u)
      BY <2>1 DEF CudaInv, AfterOwned
    <3>6. ASSUME NEW v \in Touches(tensor[u].block)' PROVE Follows(v, NextOn(u))'
      <4>1. Follows(v, tensor[u].stream)
        BY <3>2, <3>3, <3>4, <3>5, <3>6 DEF AfterOwn, NextOn
      <4> DEFINE z == tensor[u].stream
      <4>2. z' = z /\ NextOn(u)' = z'
        BY <3>1, <3>2 DEF NextOn
      <4> HIDE DEF z
      <4>3. Follows(v, z)'
        BY <4>1, <4>2, <1>7 DEF Follows, Covers, z
      <4> QED
        BY <4>2, <4>3 DEF Follows
    <3>7. ASSUME NEW v \in Touches(tensor[u].block)', tensor'[u].stream = CopyStream, v.stream = CopyStream
          PROVE v.n <= tensor'[u].copied.at
      BY <3>1, <3>2, <3>3, <3>4, <3>5, <3>7 DEF AfterOwn
    <3> QED
      BY <3>6, <3>7, <3>2 DEF AfterOwn
  <2> QED
    BY <2>2, <2>3
<1> QED
  BY <1>2, <1>3, <1>5, <1>6, <1>7, <1>8, <1>9, CallKeeps

\* A kernel is launched on the stream of its tensor.
LEMMA LaunchKeeps ==
  ASSUME CudaInv, NEW h \in Threads, NEW x \in CudaTensors, Launch(h, <<h, x>>)
  PROVE  CudaInv'
<1> DEFINE t == <<h, x>>
<1>1. /\ CudaTyped /\ t \in TensorNames /\ t[1] = h /\ thread[h].at = "idle"
      /\ tensor[t] # NoData /\ tensor[t].stream = Compute
  BY DEF CudaInv, Launch, MayUse, IsAt, TensorNames
<1>2. Enqueue(Kernel(tensor[t].block), Compute)
      /\ UNCHANGED <<tensor, blockFreed, nextBuffer, sent, staging, gAllocatedBytes, thread>>
  BY DEF Launch
<1> HIDE DEF t
<1> DEFINE k == Kernel(tensor[t].block)
<1>3. k \in What /\ k.kind = "kernel" /\ k.block = tensor[t].block
  BY <1>1, DataOf DEF Kernel, What
<1>4. NextOn(t) = Compute /\ NextOn(t)' = Compute
  BY <1>1, <1>2 DEF NextOn, InStaging, Uploading
<1>5. \A v \in Touches(tensor[t].block) : Follows(v, Compute)
  BY <1>1, <1>4 DEF CudaInv, AfterOwned, AfterOwn
<1> HIDE DEF k
<1>6. PICK w : w.stream = Compute /\ w.what = k /\ work' = work \cup {w}
  BY <1>1, <1>2, <1>3, Enqueued DEF k, Streams
<1>7. AfterOwn(t)'
  <2>1. ASSUME NEW v \in Touches(tensor[t].block)' PROVE Follows(v, Compute)'
    <3>1. CASE v \in work
      BY <3>1, <1>2, <1>5, <1>6 DEF Touches, Follows, Covers
    <3>2. CASE v = w
      BY <3>2, <1>6 DEF Follows
    <3> QED
      BY <3>1, <3>2, <1>6 DEF Touches
  <2> QED
    BY <2>1, <1>1, <1>2, <1>4 DEF AfterOwn, Follows, Covers, Compute, CopyStream
<1>8. CallAt(h)'
  BY <1>1, <1>2 DEF CallAt, Uploading
<1> QED
  BY <1>1, <1>2, <1>3, <1>5, <1>7, <1>8, EnqueueKeeps DEF t, k, Busy, Uploading, CudaTyped, Streams

\* A fetch copies into the block it has just been given, in the stream that gave it.
LEMMA FetchKeeps ==
  ASSUME CudaInv, NEW h \in Threads, StartTransferAsync(h)
  PROVE  CudaInv'
<1>1. CudaTyped /\ thread[h].at = "fetch" /\ CallAt(h)
  BY DEF CudaInv, StartTransferAsync, IsAt, Calls
<1>2. PICK x \in CudaTensors : thread[h].name = <<h, x>>
  BY <1>1 DEF CallAt
<1> DEFINE t == <<h, x>>
<1>3. /\ t \in TensorNames /\ t[1] = h /\ tensor[t] # NoData /\ tensor[t].stream = CopyStream
      /\ thread[h].name = t
  BY <1>1, <1>2 DEF CallAt, TensorNames
<1>4. /\ Enqueue(Crosses(tensor[t].block, FromPinned), CopyStream)
      /\ tensor' = [tensor EXCEPT ![t].copied = [stream |-> CopyStream, at |-> issued']]
      /\ Returns(h)
      /\ UNCHANGED <<blockFreed, nextBuffer, sent, staging, gAllocatedBytes>>
  BY <1>2 DEF StartTransferAsync
<1> HIDE DEF t
<1> DEFINE k == Crosses(tensor[t].block, FromPinned)
           d == [tensor[t] EXCEPT !.copied = [stream |-> CopyStream, at |-> issued']]
<1>5. k \in What /\ k.kind = "copy" /\ k.block = tensor[t].block
  BY <1>1, <1>3, DataOf DEF Crosses, What
<1> HIDE DEF k
<1>6. PICK w : w.stream = CopyStream /\ w.what = k /\ w.n = issued' /\ work' = work \cup {w} /\ issued' = issued + 1 /\ issued' \in Nat
  BY <1>1, <1>4, <1>5, Enqueued DEF k, Streams
<1>7. d \in Data /\ d.block = tensor[t].block /\ d.stream = CopyStream /\ d.copied.at = issued'
  BY <1>1, <1>3, <1>6, DataOf DEF Data
<1>8. tensor' = [tensor EXCEPT ![t] = d]
  BY <1>4
<1> HIDE DEF d
<1>9. /\ tensor' \in [TensorNames -> {NoData} \cup Data] /\ tensor'[t] = d /\ d # NoData
      /\ \A u \in TensorNames \ {t} : tensor'[u] = tensor[u]
  BY <1>1, <1>3, <1>7, <1>8, TensorChanges, DataIsData
<1>10. /\ thread' \in [Threads -> CallTypes] /\ thread'[h].at = "idle"
       /\ \A i \in Threads \ {h} : thread'[i] = thread[i]
  BY <1>1, <1>4, CallReturns
<1>11. NextOn(t) = CopyStream /\ NextOn(t)' = CopyStream
  BY <1>1, <1>3, <1>7, <1>9, <1>10 DEF NextOn, InStaging, Uploading
<1>12. \A v \in Touches(tensor[t].block) : Follows(v, CopyStream)
  BY <1>3, <1>11 DEF CudaInv, AfterOwned, AfterOwn
<1>13. AfterOwn(t)'
  <2>1. ASSUME NEW v \in Touches(tensor[t].block)' PROVE Follows(v, CopyStream)' /\ v.n <= issued'
    <3>1. CASE v \in work
      <4>1. v \in Touches(tensor[t].block)
        BY <3>1, <1>7, <1>9, <2>1 DEF Touches
      <4>2. v.n \in Nat /\ v.n <= issued /\ issued \in Nat
        BY <3>1, <1>1, WorkOf DEF CudaTyped
      <4> QED
        BY <4>1, <4>2, <1>12, <1>6 DEF Follows, Covers
    <3>2. CASE v = w
      BY <3>2, <1>6 DEF Follows
    <3> QED
      BY <3>1, <3>2, <1>6 DEF Touches
  <2>2. \A v \in Touches(tensor[t].block)' : Follows(v, NextOn(t))'
    BY <2>1, <1>11 DEF Follows
  <2> QED
    BY <2>1, <2>2, <1>7, <1>9 DEF AfterOwn
<1>14. CallAt(h)'
  BY <1>10 DEF CallAt, Uploading
<1> QED
  BY <1>1, <1>2, <1>3, <1>4, <1>5, <1>7, <1>9, <1>10, <1>12, <1>13, <1>14, EnqueueKeeps
     DEF t, k, Busy, Uploading, CudaTyped, Streams

\* What waits for an event comes after all that the event was recorded after.
LEMMA WaitIsFollowed ==
  ASSUME CudaTyped, NEW e \in [stream : Streams, at : Nat], NEW s \in Streams, Enqueue(Waits(e), s)
  PROVE  /\ Waits(e) \in What /\ Waits(e).kind = "wait" /\ work \subseteq work'
         /\ \A v \in work' \ work : v.what.kind = "wait"
         /\ \A v : v.stream = e.stream /\ v.n <= e.at => Follows(v, s)'
<1>1. Waits(e) \in What /\ Waits(e).kind = "wait" /\ Waits(e).event = e
  BY DEF Waits, What
<1> DEFINE k == Waits(e)
<1> HIDE DEF k
<1>2. PICK w : w.stream = s /\ w.what = k /\ work' = work \cup {w}
  BY <1>1, Enqueued DEF k
<1>3. k.kind = "wait" /\ k.event = e
  BY <1>1 DEF k
<1>4. ASSUME NEW v, v.stream = e.stream, v.n <= e.at PROVE Follows(v, s)'
  BY <1>2, <1>3, <1>4 DEF Follows, Covers
<1> QED
  BY <1>1, <1>2, <1>3, <1>4

\* A tensor whose copy has been taken.
LEMMA CopyTaken ==
  ASSUME CudaInv, NEW t \in TensorNames, tensor[t] # NoData,
         tensor' = [tensor EXCEPT ![t].stream = Compute, ![t].copied = NoEvent]
  PROVE  /\ tensor' \in [TensorNames -> {NoData} \cup Data] /\ tensor'[t] # NoData
         /\ tensor'[t].block = tensor[t].block /\ tensor'[t].stream = Compute
         /\ \A u \in TensorNames \ {t} : tensor'[u] = tensor[u]
<1> DEFINE d == [tensor[t] EXCEPT !.stream = Compute, !.copied = NoEvent]
<1>1. tensor[t] \in Data /\ NoEvent \in [stream : {CopyStream}, at : Nat]
  BY DataOf DEF CudaInv, NoEvent
<1>2. d \in Data /\ d.block = tensor[t].block /\ d.stream = Compute
  BY <1>1 DEF Data, Streams
<1>3. tensor' = [tensor EXCEPT ![t] = d]
  BY DEF CudaInv, CudaTyped
<1> HIDE DEF d
<1> QED
  BY <1>2, <1>3, TensorChanges, DataIsData DEF CudaInv

\* A fetched tensor is taken: the compute stream waits for the event of its copy.
LEMMA TakenKeeps ==
  ASSUME CudaInv, NEW h \in Threads, NEW x \in CudaTensors, CompleteTransfer(h, <<h, x>>)
  PROVE  CudaInv'
<1> DEFINE t == <<h, x>>
<1>1. /\ CudaTyped /\ t \in TensorNames /\ t[1] = h /\ thread[h].at = "idle"
      /\ tensor[t] # NoData /\ tensor[t].stream = CopyStream
  BY DEF CudaInv, CompleteTransfer, Fetching, IsAt, TensorNames
<1>2. /\ Enqueue(Waits(tensor[t].copied), Compute)
      /\ tensor' = [tensor EXCEPT ![t].stream = Compute, ![t].copied = NoEvent]
      /\ UNCHANGED <<blockFreed, nextBuffer, sent, staging, gAllocatedBytes, thread>>
  BY DEF CompleteTransfer
<1> HIDE DEF t
<1> DEFINE e == tensor[t].copied
<1>3. e \in [stream : Streams, at : Nat] /\ e.stream = CopyStream
  <2>1. tensor[t] \in Data
    BY <1>1, DataOf
  <2> QED
    BY <2>1 DEF Data, Streams
<1>4. AfterOwn(t) /\ ~AtFetch(t) /\ NextOn(t) = CopyStream
  BY <1>1 DEF CudaInv, AfterOwned, AtFetch, NextOn, InStaging, Uploading
<1>5. \A v \in Touches(tensor[t].block) : v.stream \in Streams /\ (v.stream = CopyStream => v.n <= e.at)
  BY <1>1, <1>4, WorkOf DEF AfterOwn, Touches
<1> HIDE DEF e
<1>6. /\ Waits(e) \in What /\ Waits(e).kind = "wait" /\ work \subseteq work'
      /\ \A v \in work' \ work : v.what.kind = "wait"
      /\ \A v : v.stream = e.stream /\ v.n <= e.at => Follows(v, Compute)'
  BY <1>1, <1>2, <1>3, WaitIsFollowed DEF e, Streams
<1>7. /\ tensor' \in [TensorNames -> {NoData} \cup Data] /\ tensor'[t] # NoData
      /\ tensor'[t].block = tensor[t].block /\ tensor'[t].stream = Compute
      /\ \A u \in TensorNames \ {t} : tensor'[u] = tensor[u]
  BY <1>1, <1>2, CopyTaken
<1>8. NextOn(t)' = Compute
  BY <1>1, <1>2, <1>7 DEF NextOn, InStaging, Uploading
<1>9. AfterOwn(t)'
  <2>1. ASSUME NEW v \in Touches(tensor[t].block)' PROVE Follows(v, Compute)'
    <3>1. v \in Touches(tensor[t].block)
      BY <1>6, <1>7 DEF Touches
    <3>2. CASE v.stream = Compute
      BY <3>2 DEF Follows
    <3>3. CASE v.stream = CopyStream
      BY <3>1, <3>3, <1>3, <1>5, <1>6
    <3> QED
      BY <3>1, <3>2, <3>3, <1>5 DEF Streams
  <2>2. \A v \in Touches(tensor[t].block)' : Follows(v, NextOn(t))'
    BY <2>1, <1>8 DEF Follows
  <2> QED
    BY <2>2, <1>7 DEF AfterOwn, Compute, CopyStream
<1>10. CallAt(h)'
  BY <1>1, <1>2 DEF CallAt, Uploading
<1>11. /\ Enqueue(Waits(e), Compute) /\ Compute \in Streams
       /\ thread' \in [Threads -> CallTypes] /\ nextBuffer' \in {0, 1} /\ sent' \in [{0, 1} -> Nat] /\ gAllocatedBytes' \in Int
  BY <1>1, <1>2 DEF e, Streams, CudaTyped
<1> QED
  BY <1>1, <1>2, <1>6, <1>7, <1>9, <1>10, <1>11, EnqueueKeeps DEF t, Busy, Uploading

\* Or the host waits, and there is nothing left of it to wait for.
LEMMA TakenSyncKeeps ==
  ASSUME CudaInv, NEW h \in Threads, NEW x \in CudaTensors, CompleteTransferSync(h, <<h, x>>)
  PROVE  CudaInv'
<1> DEFINE t == <<h, x>>
<1>1. /\ CudaTyped /\ t \in TensorNames /\ t[1] = h /\ thread[h].at = "idle"
      /\ tensor[t] # NoData /\ tensor[t].stream = CopyStream
  BY DEF CudaInv, CompleteTransferSync, Fetching, IsAt, TensorNames
<1>2. /\ EventReached(tensor[t].copied)
      /\ tensor' = [tensor EXCEPT ![t].stream = Compute, ![t].copied = NoEvent]
      /\ UNCHANGED <<work, issued, blockFreed, nextBuffer, sent, staging, gAllocatedBytes, thread>>
  BY DEF CompleteTransferSync
<1> HIDE DEF t
<1>3. /\ tensor' \in [TensorNames -> {NoData} \cup Data] /\ tensor'[t] # NoData
      /\ tensor'[t].block = tensor[t].block /\ tensor'[t].stream = Compute
      /\ \A u \in TensorNames \ {t} : tensor'[u] = tensor[u]
  BY <1>1, <1>2, CopyTaken
<1>4. AfterOwn(t) /\ ~AtFetch(t) /\ NextOn(t) = CopyStream
  BY <1>1 DEF CudaInv, AfterOwned, AtFetch, NextOn, InStaging, Uploading
<1>5. \A v \in Touches(tensor[t].block) : v.stream = Compute
  <2> SUFFICES ASSUME NEW v \in Touches(tensor[t].block), v.stream # Compute PROVE FALSE
    OBVIOUS
  <2>1. v \in work /\ v.stream = CopyStream
    BY <1>1, WorkOf DEF Touches, Streams
  <2>2. v.n <= tensor[t].copied.at
    BY <1>1, <1>4, <2>1 DEF AfterOwn
  <2>3. v.n > tensor[t].copied.at
    BY <1>1, <1>2, <2>1, DataOf DEF EventReached
  <2>4. v.n \in Nat /\ tensor[t].copied.at \in Nat
    BY <1>1, <2>1, WorkOf, DataOf
  <2> QED
    BY <2>2, <2>3, <2>4
<1>6. NextOn(t)' = Compute
  BY <1>1, <1>2, <1>3 DEF NextOn, InStaging, Uploading
<1>7. AfterOwn(t)'
  BY <1>2, <1>3, <1>5, <1>6 DEF AfterOwn, Touches, Follows, Compute, CopyStream
<1>8. CallAt(h)'
  BY <1>1, <1>2 DEF CallAt, Uploading
<1>9. CudaTyped'
  BY <1>1, <1>2, <1>3 DEF CudaTyped
<1>10. Numbered' /\ Ordered'
  BY <1>2 DEF CudaInv, Numbered, Ordered, Covers
<1>11. OneOwner'
  BY <1>1, <1>3 DEF CudaInv, OneOwner
<1>12. Others(h) /\ NewOf(h) /\ work \subseteq work'
  BY <1>1, <1>2, <1>3 DEF Others, NewOf
<1>13. \A b \in CudaBlocks : AfterFree(b)'
  BY <1>1, <1>2, <1>3, <1>12, FreeKept
<1>14. ASSUME NEW y \in CudaTensors PROVE AfterOwn(<<h, y>>)'
  <2> DEFINE u == <<h, y>>
  <2>1. u \in TensorNames /\ u[1] = h
    BY DEF TensorNames
  <2> HIDE DEF u
  <2>2. CASE u = t
    BY <2>2, <1>7 DEF u
  <2>3. CASE u # t
    <3>1. tensor'[u] = tensor[u] /\ thread'[h] = thread[h]
      BY <2>1, <2>3, <1>2, <1>3
    <3>2. NextOn(u)' = NextOn(u) /\ AtFetch(u)' = AtFetch(u)
      BY <2>1, <3>1 DEF NextOn, AtFetch, InStaging
    <3>3. AfterOwn(u)
      BY <2>1 DEF CudaInv, AfterOwned
    <3>4. AfterOwn(u)'
      BY <3>1, <3>2, <3>3, <1>2 DEF AfterOwn, Touches, Follows, Covers
    <3> QED
      BY <3>4 DEF u
  <2> QED
    BY <2>2, <2>3
<1> QED
  BY <1>8, <1>9, <1>10, <1>11, <1>12, <1>13, <1>14, CallKeeps

-----------------------------------------------------------------------------
(* Staged uploads. *)

\* A staged upload begins with the copy stream waiting for the compute stream.
LEMMA StagedKeeps ==
  ASSUME CudaInv, NEW h \in Threads, NEW x \in CudaTensors, NEW n \in CudaChunks, TransferStaged(h, <<h, x>>, n)
  PROVE  CudaInv'
<1> DEFINE t == <<h, x>>
           r == [CudaIdle EXCEPT !.at = "lock", !.name = t, !.chunks = n]
<1>1. /\ CudaTyped /\ t \in TensorNames /\ t[1] = h /\ thread[h].at = "idle"
      /\ tensor[t] # NoData /\ tensor[t].stream = Compute
  BY DEF CudaInv, TransferStaged, MayUse, IsAt, TensorNames
<1>2. /\ Enqueue(Waits(EventOn(Compute)), CopyStream)
      /\ thread' = [thread EXCEPT ![h] = r]
      /\ UNCHANGED <<tensor, blockFreed, nextBuffer, sent, staging, gAllocatedBytes>>
  BY DEF TransferStaged
<1> HIDE DEF t
<1>3. r \in CallTypes /\ r.at = "lock" /\ r.name = t
  <2>1. n \in Int
    BY CudaAssumption
  <2> QED
    BY <1>1, <2>1, IdleCall DEF CallTypes, Places, Uploading
<1> HIDE DEF r
<1>4. /\ thread' \in [Threads -> CallTypes] /\ thread'[h].at = "lock" /\ thread'[h].name = t
      /\ \A i \in Threads \ {h} : thread'[i] = thread[i]
  BY <1>1, <1>2, <1>3, CallChanges
<1> DEFINE e == EventOn(Compute)
<1>5. e \in [stream : Streams, at : Nat] /\ e.stream = Compute /\ e.at = issued
  BY <1>1 DEF EventOn, CudaTyped, Streams
<1> HIDE DEF e
<1>6. /\ Waits(e) \in What /\ Waits(e).kind = "wait" /\ work \subseteq work'
      /\ \A v \in work' \ work : v.what.kind = "wait"
      /\ \A v : v.stream = e.stream /\ v.n <= e.at => Follows(v, CopyStream)'
  BY <1>1, <1>2, <1>5, WaitIsFollowed DEF e, Streams
<1>7. NextOn(t)' = CopyStream
  BY <1>1, <1>4 DEF NextOn, InStaging, Uploading
<1>8. AfterOwn(t)'
  <2>1. ASSUME NEW v \in Touches(tensor[t].block)' PROVE Follows(v, CopyStream)'
    <3>1. v \in work
      BY <1>6 DEF Touches
    <3>2. v.stream \in Streams /\ v.n <= issued
      BY <1>1, <3>1, WorkOf
    <3> QED
      BY <3>2, <1>5, <1>6 DEF Streams, Follows
  <2>2. \A v \in Touches(tensor[t].block)' : Follows(v, NextOn(t))'
    BY <2>1, <1>7 DEF Follows
  <2> QED
    BY <2>2, <1>1, <1>2 DEF AfterOwn, Compute, CopyStream
<1>9. CallAt(h)'
  BY <1>1, <1>2, <1>4 DEF CallAt, Uploading, t
<1>10. /\ Enqueue(Waits(e), CopyStream) /\ CopyStream \in Streams
       /\ tensor' \in [TensorNames -> {NoData} \cup Data] /\ nextBuffer' \in {0, 1} /\ sent' \in [{0, 1} -> Nat] /\ gAllocatedBytes' \in Int
  BY <1>1, <1>2 DEF e, Streams, CudaTyped
<1> QED
  BY <1>1, <1>2, <1>4, <1>6, <1>8, <1>9, <1>10, EnqueueKeeps DEF t, Busy, Uploading

\* The copy out of a buffer is queued on the copy stream, behind that wait.
LEMMA SendKeeps ==
  ASSUME CudaInv, NEW h \in Threads, SendBuffer(h)
  PROVE  CudaInv'
<1>1. CudaTyped /\ thread[h].at = "send" /\ CallAt(h) /\ thread[h] \in CallTypes
  BY CallOf DEF CudaInv, SendBuffer, IsAt, Calls
<1>2. PICK x \in CudaTensors : thread[h].name = <<h, x>>
  BY <1>1 DEF CallAt
<1> DEFINE t    == <<h, x>>
           left == thread[h].chunks - 1
           where == IF left = 0 THEN "copied" ELSE "fill"
           r    == [thread[h] EXCEPT !.at = where, !.chunks = left]
<1>3. /\ t \in TensorNames /\ t[1] = h /\ tensor[t] # NoData /\ tensor[t].stream = Compute
      /\ thread[h].name = t
  BY <1>1, <1>2 DEF CallAt, TensorNames, Uploading
<1>4. /\ Enqueue(Crosses(tensor[t].block, thread[h].buffer), CopyStream)
      /\ sent' = [sent EXCEPT ![thread[h].buffer] = issued']
      /\ thread' = [thread EXCEPT ![h] = r]
      /\ UNCHANGED <<tensor, blockFreed, nextBuffer, gAllocatedBytes>>
  BY <1>2 DEF SendBuffer
<1> HIDE DEF t
<1> DEFINE k == Crosses(tensor[t].block, thread[h].buffer)
<1>5. k \in What /\ k.kind = "copy" /\ k.block = tensor[t].block
  BY <1>1, <1>3, DataOf, CallOf DEF Crosses, What
<1> HIDE DEF k
<1>6. PICK w : w.stream = CopyStream /\ w.what = k /\ w.n = issued' /\ work' = work \cup {w} /\ issued' \in Nat
  BY <1>1, <1>4, <1>5, Enqueued DEF k, Streams
<1>7. left \in Int /\ where \in {"copied", "fill"}
  BY <1>1, CallOf
<1> HIDE DEF left, where
<1>8. r \in CallTypes /\ r.at = where /\ r.name = t
  BY <1>1, <1>3, <1>7 DEF CallTypes, Places, Uploading
<1> HIDE DEF r
<1>9. /\ thread' \in [Threads -> CallTypes] /\ thread'[h].at \in Uploading /\ thread'[h].name = t
      /\ \A i \in Threads \ {h} : thread'[i] = thread[i]
  BY <1>1, <1>4, <1>7, <1>8, CallChanges DEF Uploading
<1>10. NextOn(t) = CopyStream /\ NextOn(t)' = CopyStream
  BY <1>1, <1>3, <1>9 DEF NextOn, InStaging, Uploading
<1>11. \A v \in Touches(tensor[t].block) : Follows(v, CopyStream)
  BY <1>3, <1>10 DEF CudaInv, AfterOwned, AfterOwn
<1>12. AfterOwn(t)'
  <2>1. ASSUME NEW v \in Touches(tensor[t].block)' PROVE Follows(v, CopyStream)'
    <3>1. CASE v \in work
      BY <3>1, <1>4, <1>11, <1>6 DEF Touches, Follows, Covers
    <3>2. CASE v = w
      BY <3>2, <1>6 DEF Follows
    <3> QED
      BY <3>1, <3>2, <1>6 DEF Touches
  <2>2. \A v \in Touches(tensor[t].block)' : Follows(v, NextOn(t))'
    BY <2>1, <1>10 DEF Follows
  <2> QED
    BY <2>2, <1>3, <1>4 DEF AfterOwn, Compute, CopyStream
<1>13. CallAt(h)'
  BY <1>3, <1>4, <1>9 DEF CallAt, Uploading, t
<1>14. sent' \in [{0, 1} -> Nat]
  BY <1>1, <1>4, <1>6 DEF CudaTyped
<1>15. /\ Enqueue(k, CopyStream) /\ CopyStream \in Streams
       /\ tensor' \in [TensorNames -> {NoData} \cup Data] /\ nextBuffer' \in {0, 1} /\ gAllocatedBytes' \in Int
  BY <1>1, <1>4 DEF k, Streams, CudaTyped
<1> QED
  BY <1>1, <1>3, <1>4, <1>5, <1>9, <1>11, <1>12, <1>13, <1>14, <1>15, EnqueueKeeps DEF t, Busy

\* The upload ends with the compute stream waiting for the copy stream.
LEMMA CopiedKeeps ==
  ASSUME CudaInv, NEW h \in Threads, Copied(h)
  PROVE  CudaInv'
<1>1. CudaTyped /\ thread[h].at = "copied" /\ CallAt(h)
  BY DEF CudaInv, Copied, IsAt, Calls
<1>2. PICK x \in CudaTensors : thread[h].name = <<h, x>>
  BY <1>1 DEF CallAt
<1> DEFINE t == <<h, x>>
<1>3. /\ t \in TensorNames /\ t[1] = h /\ tensor[t] # NoData /\ tensor[t].stream = Compute
      /\ thread[h].name = t
  BY <1>1, <1>2 DEF CallAt, TensorNames, Uploading
<1>4. /\ Enqueue(Waits(EventOn(CopyStream)), Compute) /\ Returns(h)
      /\ UNCHANGED <<tensor, blockFreed, nextBuffer, sent, staging, gAllocatedBytes>>
  BY DEF Copied
<1> HIDE DEF t
<1> DEFINE e == EventOn(CopyStream)
<1>5. e \in [stream : Streams, at : Nat] /\ e.stream = CopyStream /\ e.at = issued
  BY <1>1 DEF EventOn, CudaTyped, Streams
<1> HIDE DEF e
<1>6. /\ Waits(e) \in What /\ Waits(e).kind = "wait" /\ work \subseteq work'
      /\ \A v \in work' \ work : v.what.kind = "wait"
      /\ \A v : v.stream = e.stream /\ v.n <= e.at => Follows(v, Compute)'
  BY <1>1, <1>4, <1>5, WaitIsFollowed DEF e, Streams
<1>7. /\ thread' \in [Threads -> CallTypes] /\ thread'[h].at = "idle"
      /\ \A i \in Threads \ {h} : thread'[i] = thread[i]
  BY <1>1, <1>4, CallReturns
<1>8. NextOn(t)' = Compute
  BY <1>3, <1>4, <1>7 DEF NextOn, InStaging, Uploading
<1>9. AfterOwn(t)'
  <2>1. ASSUME NEW v \in Touches(tensor[t].block)' PROVE Follows(v, Compute)'
    <3>1. v \in work
      BY <1>6 DEF Touches
    <3>2. v.stream \in Streams /\ v.n <= issued
      BY <1>1, <3>1, WorkOf
    <3> QED
      BY <3>2, <1>5, <1>6 DEF Streams, Follows
  <2>2. \A v \in Touches(tensor[t].block)' : Follows(v, NextOn(t))'
    BY <2>1, <1>8 DEF Follows
  <2> QED
    BY <2>2, <1>3, <1>4 DEF AfterOwn, Compute, CopyStream
<1>10. CallAt(h)'
  BY <1>7 DEF CallAt, Uploading
<1>11. /\ Enqueue(Waits(e), Compute) /\ Compute \in Streams
       /\ tensor' \in [TensorNames -> {NoData} \cup Data] /\ nextBuffer' \in {0, 1} /\ sent' \in [{0, 1} -> Nat] /\ gAllocatedBytes' \in Int
  BY <1>1, <1>4 DEF e, Streams, CudaTyped
<1> QED
  BY <1>1, <1>3, <1>4, <1>6, <1>7, <1>9, <1>10, <1>11, EnqueueKeeps DEF t, Busy, Uploading

-----------------------------------------------------------------------------
(* The device. *)

\* What has run was waited for by nothing that is left to run before it.
LEMMA DeviceKeeps ==
  ASSUME CudaInv, DeviceWorks
  PROVE  CudaInv'
<1>1. PICK w \in work : MayRun(w) /\ work' = work \ {w}
  BY DEF DeviceWorks
<1>2. UNCHANGED <<issued, tensor, blockFreed, nextBuffer, sent, staging, gAllocatedBytes, thread>>
  BY DEF DeviceWorks
<1>3. CudaTyped'
  BY <1>1, <1>2 DEF CudaInv, CudaTyped
<1>4. ASSUME NEW v \in work', NEW u \in work, NEW s, Covers(u, v, s) PROVE u \in work'
  <2> SUFFICES ASSUME u = w PROVE FALSE
    BY <1>1
  <2>1. EventReached(w.what.event) /\ v.stream = w.what.event.stream /\ v.n <= w.what.event.at
    BY <1>1, <1>4 DEF MayRun, Covers
  <2>2. v.n > w.what.event.at /\ v \in work
    BY <2>1, <1>1 DEF EventReached
  <2>3. v.n \in Nat /\ w.what.event.at \in Nat
    BY <2>2, <1>1, <1>4, WorkOf DEF CudaInv, Covers
  <2> QED
    BY <2>1, <2>2, <2>3
<1>5. ASSUME NEW v \in work', NEW s, Follows(v, s) PROVE Follows(v, s)'
  BY <1>4, <1>5 DEF Follows, Covers
<1>6. Numbered'
  BY <1>1 DEF CudaInv, Numbered
<1>7. Ordered'
  <2> SUFFICES ASSUME NEW v \in work', NEW x \in work', v.what.kind # "wait", x.what.kind # "wait",
                      v.what.block = x.what.block, v.n < x.n, v.stream # x.stream
               PROVE  \E u \in work' : Covers(u, v, x.stream) /\ u.n < x.n
    BY DEF Ordered, Covers
  <2>1. PICK u \in work : Covers(u, v, x.stream) /\ u.n < x.n
    BY <1>1 DEF CudaInv, Ordered
  <2> QED
    BY <2>1, <1>4
<1>8. Calls' /\ OneOwner'
  BY <1>2 DEF CudaInv, Calls, CallAt, OneOwner
<1>9. ASSUME NEW t \in TensorNames PROVE AfterOwn(t)'
  <2>1. AfterOwn(t)
    BY DEF CudaInv, AfterOwned
  <2> DEFINE s == NextOn(t)
  <2>2. s' = s /\ AtFetch(t)' = AtFetch(t)
    BY <1>2 DEF NextOn, InStaging, AtFetch
  <2>3. tensor[t] # NoData => \A v \in Touches(tensor[t].block)' : v \in work' /\ v \in Touches(tensor[t].block)
    BY <1>1, <1>2 DEF Touches
  <2>4. tensor[t] # NoData => \A v \in Touches(tensor[t].block)' : Follows(v, s)
    BY <2>1, <2>3 DEF AfterOwn
  <2> HIDE DEF s
  <2>5. tensor[t] # NoData => \A v \in Touches(tensor[t].block)' : Follows(v, s)'
    BY <2>2, <2>3, <2>4, <1>5 DEF Follows, Covers
  <2>6. tensor[t] # NoData => \A v \in Touches(tensor[t].block)' : Follows(v, NextOn(t))'
    BY <2>5 DEF s
  <2> QED
    BY <2>1, <2>2, <2>3, <2>6, <1>2 DEF AfterOwn
<1>10. ASSUME NEW b \in CudaBlocks PROVE AfterFree(b)'
  <2>1. AfterFree(b)
    BY DEF CudaInv, AfterFreed
  <2> SUFFICES ASSUME \A t \in TensorNames : tensor'[t] # NoData => tensor'[t].block # b,
                      NEW v \in Touches(b)'
               PROVE  v.n <= blockFreed'[b].at /\ Follows(v, blockFreed[b].stream)'
    BY DEF AfterFree
  <2>2. v \in work' /\ v \in Touches(b)
    BY <1>1 DEF Touches
  <2> DEFINE s == blockFreed[b].stream
  <2>3. v.n <= blockFreed[b].at /\ Follows(v, s) /\ s' = s
    BY <2>1, <2>2, <1>2 DEF AfterFree
  <2> HIDE DEF s
  <2>4. Follows(v, s)'
    BY <2>2, <2>3, <1>5 DEF Follows, Covers
  <2> QED
    BY <2>3, <2>4, <1>2 DEF s
<1> QED
  BY <1>3, <1>6, <1>7, <1>8, <1>9, <1>10 DEF CudaInv, AfterOwned, AfterFreed

\* The device begins in the invariant.
LEMMA CudaStarts == CudaInit => CudaInv
<1> SUFFICES ASSUME CudaInit PROVE CudaInv
  OBVIOUS
<1>1. CudaTyped
  <2>1. issued = 0 /\ work = {} /\ nextBuffer = 0 /\ gAllocatedBytes = 0
    BY DEF CudaInit
  <2>2. tensor \in [TensorNames -> {NoData} \cup Data]
    BY DEF CudaInit
  <2>3. blockFreed \in [CudaBlocks -> [stream : Streams, at : Nat]]
    BY DEF CudaInit, Streams
  <2>4. sent \in [{0, 1} -> Nat]
    BY DEF CudaInit
  <2>5. thread \in [Threads -> CallTypes]
    BY IdleCall DEF CudaInit
  <2> QED
    BY <2>1, <2>2, <2>3, <2>4, <2>5 DEF CudaTyped
<1>2. work = {} /\ \A h \in Threads : thread[h].at = "idle"
  BY IdleCall DEF CudaInit
<1>3. Numbered /\ Ordered /\ Calls
  BY <1>2 DEF Numbered, Ordered, Calls, CallAt, Uploading
<1>4. OneOwner /\ AfterOwned /\ AfterFreed
  BY <1>2 DEF CudaInit, OneOwner, AfterOwned, AfterOwn, AfterFreed, AfterFree, Touches
<1> QED
  BY <1>1, <1>3, <1>4 DEF CudaInv

\* And every step keeps it.
LEMMA CudaKeeps == CudaInv /\ [CudaNext]_cudaVars => CudaInv'
<1> SUFFICES ASSUME CudaInv, [CudaNext]_cudaVars PROVE CudaInv'
  OBVIOUS
<1>1. CASE DeviceWorks
  BY <1>1, DeviceKeeps
<1>2. ASSUME NEW h \in Threads, CudaCall(h) PROVE CudaInv'
  <2>1. CASE \E x \in CudaTensors, bytes \in CudaAsks, s \in {Compute, CopyStream} : Take(h, <<h, x>>, bytes, s)
    BY <2>1, TakeKeeps DEF Streams
  <2>2. CASE \E x \in CudaTensors : FreeCuda(h, <<h, x>>)
    BY <2>2, FreeKeeps
  <2>3. CASE \E x \in CudaTensors : Launch(h, <<h, x>>)
    BY <2>3, LaunchKeeps
  <2>4. CASE \E x \in CudaTensors : CompleteTransfer(h, <<h, x>>)
    BY <2>4, TakenKeeps
  <2>5. CASE \E x \in CudaTensors : CompleteTransferSync(h, <<h, x>>)
    BY <2>5, TakenSyncKeeps
  <2>6. CASE \E x \in CudaTensors : \E n \in CudaChunks : TransferStaged(h, <<h, x>>, n)
    BY <2>6, StagedKeeps
  <2> QED
    BY <1>2, <2>1, <2>2, <2>3, <2>4, <2>5, <2>6 DEF CudaCall
<1>3. ASSUME NEW h \in Threads, CudaStep(h) PROVE CudaInv'
  BY <1>3, LimitKeeps, GivesKeep, MallocKeeps, FetchKeeps, LockKeeps, FillKeeps, SendKeeps, CopiedKeeps
     DEF CudaStep
<1>4. CASE UNCHANGED cudaVars
  BY <1>4 DEF cudaVars, CudaInv, CudaTyped, Numbered, Ordered, Calls, CallAt, OneOwner, AfterOwned,
     AfterOwn, AfterFreed, AfterFree, Touches, Follows, Covers, NextOn, InStaging, AtFetch
<1> QED
  BY <1>1, <1>2, <1>3, <1>4 DEF CudaNext

\* Work that may run has nothing before it on its block: what would be is over, or waited for.
LEMMA NothingOvertakes == CudaInv => BlocksInOrder
<1> SUFFICES ASSUME CudaInv PROVE BlocksInOrder
  OBVIOUS
<1> SUFFICES ASSUME NEW w \in work, MayRun(w), w.what.block # NoBlock,
                    NEW v \in work, v.what.block = w.what.block, v.n < w.n
             PROVE  FALSE
  <2>1. \A a, b \in work : a.n \in Nat /\ b.n \in Nat
    BY WorkOf DEF CudaInv
  <2> QED
    BY <2>1 DEF BlocksInOrder
<1>1. CudaTyped /\ v.what.kind # "wait" /\ w.what.kind # "wait" /\ v.n \in Nat /\ w.n \in Nat
  BY WorkOf DEF CudaInv
<1>2. v.stream # w.stream
  BY <1>1 DEF MayRun, PlacesOn
<1>3. PICK u \in work : Covers(u, v, w.stream) /\ u.n < w.n
  BY <1>1, <1>2 DEF CudaInv, Ordered
<1>4. w.n <= u.n /\ u.n \in Nat
  BY <1>1, <1>3, WorkOf DEF MayRun, PlacesOn, Covers
<1> QED
  BY <1>1, <1>3, <1>4

\* The work on a block runs in the order it was asked for, from thread to thread and stream to
\* stream, for any threads, tensors, blocks and sizes (BlocksInOrder).
THEOREM RunsInOrder == CudaSpec => []BlocksInOrder
<1> QED
  BY NothingOvertakes, CudaStarts, CudaKeeps, PTL DEF CudaSpec

-----------------------------------------------------------------------------
(* The two staging buffers. *)

\* Who reads a buffer: the copies out of it, and the call that has filled it and is yet to send it.
CopiesOf(k)  == {w \in work : w.what.kind = "copy" /\ w.what.buffer = k}
SendersOf(k) == {h \in Threads : thread[h].at = "send" /\ thread[h].buffer = k}
HasLock(h)   == thread[h].at \in {"fill", "send"}

Locked == \A h \in Threads : staging = h <=> HasLock(h)
\* One copy at a time, no later than the event its filling waits for, and none while it is filled.
BufferKept(k) ==
  /\ \A w \in CopiesOf(k) : w.stream = CopyStream /\ w.n <= sent[k]
  /\ \A v, w \in CopiesOf(k) : v = w
  /\ SendersOf(k) # {} => CopiesOf(k) = {}
UploadInv == Locked /\ \A k \in {0, 1} : BufferKept(k)

ReadsSame(k) == CopiesOf(k)' = CopiesOf(k) /\ SendersOf(k)' = SendersOf(k)

\* Of two sets of one at most, not both with one, there is one in all or none.
LEMMA AtMostOne ==
  ASSUME NEW S, NEW T, \A a, b \in S : a = b, \A a, b \in T : a = b, T # {} => S = {}
  PROVE  Cardinality(S) + Cardinality(T) = (IF S = {} /\ T = {} THEN 0 ELSE 1)
<1>1. ASSUME NEW R, \A a, b \in R : a = b PROVE Cardinality(R) = IF R = {} THEN 0 ELSE 1
  <2>1. CASE R = {}
    BY <2>1, FS_EmptySet
  <2>2. CASE R # {}
    <3>1. PICK x : x \in R
      BY <2>2
    <3>2. R = {x}
      BY <1>1, <3>1
    <3> QED
      BY <2>2, <3>2, FS_Singleton
  <2> QED
    BY <2>1, <2>2
<1>2. Cardinality(S) = (IF S = {} THEN 0 ELSE 1)
  BY <1>1
<1>3. Cardinality(T) = (IF T = {} THEN 0 ELSE 1)
  BY <1>1
<1> QED
  BY <1>2, <1>3

\* The lock has one holder.
LEMMA OneSender ==
  ASSUME Locked, NEW h \in Threads, NEW k \in Threads, HasLock(h), HasLock(k)
  PROVE  h = k
BY DEF Locked

\* A call that has not to do with the buffers.
LEMMA CallAside ==
  ASSUME CudaInv, UploadInv, NEW h \in Threads, \A k \in Threads \ {h} : thread'[k] = thread[k],
         ~HasLock(h), ~HasLock(h)', sent' = sent, staging' = staging, work \subseteq work',
         \A w \in work' : w \in work \/ w.what.kind # "copy" \/ w.what.buffer = FromPinned
  PROVE  UploadInv' /\ \A k \in {0, 1} : ReadsSame(k)
<1>1. Locked'
  BY DEF UploadInv, Locked, HasLock
<1>2. \A k \in {0, 1} : CopiesOf(k)' = CopiesOf(k)
  BY DEF CopiesOf, FromPinned
<1>3. \A k \in {0, 1} : SendersOf(k)' = SendersOf(k)
  BY DEF SendersOf, HasLock
<1>4. ASSUME NEW k \in {0, 1} PROVE BufferKept(k)'
  <2>1. BufferKept(k) /\ CopiesOf(k)' = CopiesOf(k) /\ SendersOf(k)' = SendersOf(k)
    BY <1>2, <1>3 DEF UploadInv
  <2> QED
    BY <2>1 DEF BufferKept
<1> QED
  BY <1>1, <1>2, <1>3, <1>4 DEF UploadInv, ReadsSame

\* What is queued without a buffer adds no reader to either.
LEMMA OnlyEnqueues ==
  ASSUME CudaInv, NEW what \in What, NEW s \in Streams, Enqueue(what, s),
         what.kind # "copy" \/ what.buffer = FromPinned
  PROVE  /\ work \subseteq work'
         /\ \A w \in work' : w \in work \/ w.what.kind # "copy" \/ w.what.buffer = FromPinned
<1>1. PICK w : w.what = what /\ work' = work \cup {w}
  BY Enqueued DEF CudaInv
<1> QED
  BY <1>1

\* A call that begins touches neither buffer.
LEMMA AsideCalls ==
  ASSUME CudaInv, UploadInv, NEW h \in Threads, CudaCall(h)
  PROVE  UploadInv' /\ \A k \in {0, 1} : ReadsSame(k)
<1>1. CudaTyped /\ thread \in [Threads -> CallTypes] /\ Compute \in Streams /\ CopyStream \in Streams
  BY DEF CudaInv, CudaTyped, Streams
<1>2. ASSUME NEW x \in CudaTensors, NEW bytes \in CudaAsks, NEW s \in {Compute, CopyStream}, Take(h, <<h, x>>, bytes, s)
      PROVE  UploadInv' /\ \A k \in {0, 1} : ReadsSame(k)
  <2>1. ~HasLock(h) /\ ~HasLock(h)' /\ (\A k \in Threads \ {h} : thread'[k] = thread[k])
        /\ UNCHANGED <<work, sent, staging>>
    BY <1>1, <1>2 DEF Take, IsAt, HasLock, CudaIdle
  <2> QED
    BY <2>1, CallAside
<1>3. ASSUME NEW x \in CudaTensors, FreeCuda(h, <<h, x>>)
      PROVE  UploadInv' /\ \A k \in {0, 1} : ReadsSame(k)
  <2>1. ~HasLock(h) /\ ~HasLock(h)' /\ (\A k \in Threads \ {h} : thread'[k] = thread[k])
        /\ UNCHANGED <<work, sent, staging>>
    BY <1>1, <1>3 DEF FreeCuda, IsAt, HasLock, CudaIdle
  <2> QED
    BY <2>1, CallAside
<1>4. ASSUME NEW x \in CudaTensors, Launch(h, <<h, x>>)
      PROVE  UploadInv' /\ \A k \in {0, 1} : ReadsSame(k)
  <2>1. ~HasLock(h) /\ ~HasLock(h)' /\ UNCHANGED <<thread, sent, staging>> /\ <<h, x>> \in TensorNames
    BY <1>1, <1>4 DEF Launch, MayUse, IsAt, HasLock, TensorNames
  <2>2. tensor[<<h, x>>].block \in CudaBlocks
    BY <1>1, <1>4, <2>1, DataOf DEF Launch, MayUse
  <2>3. Kernel(tensor[<<h, x>>].block) \in What /\ Kernel(tensor[<<h, x>>].block).kind # "copy"
    BY <2>2 DEF Kernel, What
  <2>4. Enqueue(Kernel(tensor[<<h, x>>].block), Compute)
    BY <1>4 DEF Launch
  <2>5. /\ work \subseteq work'
        /\ \A w \in work' : w \in work \/ w.what.kind # "copy" \/ w.what.buffer = FromPinned
    BY <1>1, <2>3, <2>4, OnlyEnqueues
  <2> QED
    BY <2>1, <2>5, CallAside
<1>5. ASSUME NEW x \in CudaTensors, CompleteTransfer(h, <<h, x>>)
      PROVE  UploadInv' /\ \A k \in {0, 1} : ReadsSame(k)
  <2>1. ~HasLock(h) /\ ~HasLock(h)' /\ UNCHANGED <<thread, sent, staging>> /\ <<h, x>> \in TensorNames
        /\ tensor[<<h, x>>] # NoData
    BY <1>1, <1>5 DEF CompleteTransfer, Fetching, IsAt, HasLock, TensorNames
  <2>2. tensor[<<h, x>>].copied \in [stream : Streams, at : Nat]
    <3>1. tensor[<<h, x>>] \in Data
      BY <1>1, <2>1, DataOf
    <3> QED
      BY <3>1, <1>1 DEF Data
  <2>3. Enqueue(Waits(tensor[<<h, x>>].copied), Compute)
    BY <1>5 DEF CompleteTransfer
  <2>4. work \subseteq work' /\ \A v \in work' \ work : v.what.kind = "wait"
    BY <1>1, <2>2, <2>3, WaitIsFollowed
  <2> QED
    BY <2>1, <2>4, CallAside
<1>6. ASSUME NEW x \in CudaTensors, CompleteTransferSync(h, <<h, x>>)
      PROVE  UploadInv' /\ \A k \in {0, 1} : ReadsSame(k)
  <2>1. ~HasLock(h) /\ ~HasLock(h)' /\ UNCHANGED <<thread, work, sent, staging>>
    BY <1>1, <1>6 DEF CompleteTransferSync, Fetching, IsAt, HasLock
  <2> QED
    BY <2>1, CallAside
<1>7. ASSUME NEW x \in CudaTensors, NEW n \in CudaChunks, TransferStaged(h, <<h, x>>, n)
      PROVE  UploadInv' /\ \A k \in {0, 1} : ReadsSame(k)
  <2>1. ~HasLock(h) /\ ~HasLock(h)' /\ (\A k \in Threads \ {h} : thread'[k] = thread[k])
        /\ UNCHANGED <<sent, staging>>
    BY <1>1, <1>7 DEF TransferStaged, MayUse, IsAt, HasLock, CudaIdle
  <2>2. EventOn(Compute) \in [stream : Streams, at : Nat] /\ Enqueue(Waits(EventOn(Compute)), CopyStream)
    BY <1>1, <1>7 DEF TransferStaged, EventOn, CudaTyped
  <2>3. work \subseteq work' /\ \A v \in work' \ work : v.what.kind = "wait"
    BY <1>1, <2>2, WaitIsFollowed
  <2> QED
    BY <2>1, <2>3, CallAside
<1> QED
  BY <1>2, <1>3, <1>4, <1>5, <1>6, <1>7 DEF CudaCall

\* Nor does a step outside the lock.
LEMMA AsideSteps ==
  ASSUME CudaInv, UploadInv, NEW h \in Threads,
         WithinCudaLimit(h) \/ CudaRefused(h) \/ Malloc(h) \/ Given(h) \/ StartTransferAsync(h) \/ Copied(h)
  PROVE  UploadInv' /\ \A k \in {0, 1} : ReadsSame(k)
<1>1. CudaTyped /\ thread \in [Threads -> CallTypes] /\ Compute \in Streams /\ CopyStream \in Streams
      /\ thread[h] \in CallTypes
  BY CallOf DEF CudaInv, CudaTyped, Streams
<1>2. CASE WithinCudaLimit(h)
  <2>1. ~HasLock(h) /\ ~HasLock(h)' /\ (\A k \in Threads \ {h} : thread'[k] = thread[k])
        /\ UNCHANGED <<work, sent, staging>>
    BY <1>1, <1>2 DEF WithinCudaLimit, IsAt, HasLock, CallTypes
  <2> QED
    BY <2>1, CallAside
<1>3. CASE CudaRefused(h) \/ Given(h)
  <2>1. ~HasLock(h) /\ Returns(h) /\ UNCHANGED <<work, sent, staging>>
    BY <1>3 DEF CudaRefused, Given, IsAt, HasLock
  <2>2. ~HasLock(h)' /\ (\A k \in Threads \ {h} : thread'[k] = thread[k])
    BY <1>1, <2>1, CallReturns DEF HasLock
  <2> QED
    BY <2>1, <2>2, CallAside
<1>4. CASE Malloc(h)
  <2>1. ~HasLock(h) /\ UNCHANGED <<work, sent, staging>> /\ (ThreadGoes(h, "fetch") \/ Returns(h))
    BY <1>4 DEF Malloc, IsAt, HasLock
  <2>2. ~HasLock(h)' /\ (\A k \in Threads \ {h} : thread'[k] = thread[k])
    BY <1>1, <2>1, CallReturns, CallGoes DEF HasLock, Places
  <2> QED
    BY <2>1, <2>2, CallAside
<1>5. CASE StartTransferAsync(h)
  <2> DEFINE t == thread[h].name
  <2>1. ~HasLock(h) /\ Returns(h) /\ UNCHANGED <<sent, staging>>
        /\ Enqueue(Crosses(tensor[t].block, FromPinned), CopyStream)
    BY <1>5 DEF StartTransferAsync, IsAt, HasLock
  <2>2. ~HasLock(h)' /\ (\A k \in Threads \ {h} : thread'[k] = thread[k])
    BY <1>1, <2>1, CallReturns DEF HasLock
  <2>3. t \in TensorNames /\ tensor[t] # NoData
    <3>1. CallAt(h) /\ thread[h].at = "fetch"
      BY <1>5 DEF CudaInv, Calls, StartTransferAsync, IsAt
    <3> QED
      BY <3>1 DEF CallAt, TensorNames
  <2>4. tensor[t].block \in CudaBlocks
    BY <1>1, <2>3, DataOf
  <2>5. Crosses(tensor[t].block, FromPinned) \in What /\ Crosses(tensor[t].block, FromPinned).buffer = FromPinned
    BY <2>4 DEF Crosses, What
  <2>6. /\ work \subseteq work'
        /\ \A w \in work' : w \in work \/ w.what.kind # "copy" \/ w.what.buffer = FromPinned
    BY <1>1, <2>1, <2>5, OnlyEnqueues
  <2> QED
    BY <2>1, <2>2, <2>6, CallAside
<1>6. CASE Copied(h)
  <2>1. ~HasLock(h) /\ Returns(h) /\ UNCHANGED <<sent, staging>>
    BY <1>6 DEF Copied, IsAt, HasLock
  <2>2. ~HasLock(h)' /\ (\A k \in Threads \ {h} : thread'[k] = thread[k])
    BY <1>1, <2>1, CallReturns DEF HasLock
  <2>3. EventOn(CopyStream) \in [stream : Streams, at : Nat] /\ Enqueue(Waits(EventOn(CopyStream)), Compute)
    BY <1>1, <1>6 DEF Copied, EventOn, CudaTyped
  <2>4. work \subseteq work' /\ \A v \in work' \ work : v.what.kind = "wait"
    BY <1>1, <2>3, WaitIsFollowed
  <2> QED
    BY <2>1, <2>2, <2>4, CallAside
<1> QED
  BY <1>2, <1>3, <1>4, <1>5, <1>6

\* Nor does taking the lock.
LEMMA LockAside ==
  ASSUME CudaInv, UploadInv, NEW h \in Threads, LockStaging(h)
  PROVE  UploadInv' /\ \A k \in {0, 1} : ReadsSame(k)
<1>1. thread' \in [Threads -> CallTypes] /\ thread'[h].at = "fill" /\ thread[h].at = "lock"
      /\ \A k \in Threads \ {h} : thread'[k] = thread[k]
  BY CallGoes DEF LockStaging, IsAt, CudaInv, Places, Uploading
<1>2. staging = NoThread /\ staging' = h /\ UNCHANGED <<work, sent>>
  BY DEF LockStaging
<1>3. Locked'
  <2>1. \A k \in Threads : ~HasLock(k)
    BY <1>2, CudaAssumption DEF UploadInv, Locked, NoThread
  <2> QED
    BY <1>1, <1>2, <2>1 DEF Locked, HasLock
<1>4. \A k \in {0, 1} : ReadsSame(k)
  BY <1>1, <1>2 DEF ReadsSame, CopiesOf, SendersOf
<1>5. ASSUME NEW k \in {0, 1} PROVE BufferKept(k)'
  <2>1. BufferKept(k) /\ CopiesOf(k)' = CopiesOf(k) /\ SendersOf(k)' = SendersOf(k)
    BY <1>4 DEF UploadInv, ReadsSame
  <2> QED
    BY <2>1, <1>2 DEF BufferKept
<1> QED
  BY <1>3, <1>4, <1>5 DEF UploadInv

\* The buffer that is filled is one no copy is left of.
LEMMA FillsFree ==
  ASSUME CudaInv, UploadInv, NEW h \in Threads, FillBuffer(h)
  PROVE  /\ UploadInv' /\ nextBuffer \in {0, 1}
         /\ CopiesOf(nextBuffer) = {} /\ SendersOf(nextBuffer) = {}
         /\ \A k \in {0, 1} \ {nextBuffer} : ReadsSame(k)
<1>1. thread[h] \in CallTypes /\ thread[h].at = "fill" /\ nextBuffer \in {0, 1} /\ thread \in [Threads -> CallTypes]
      /\ sent[nextBuffer] \in Nat
  BY CallOf DEF CudaInv, CudaTyped, FillBuffer, IsAt
<1>2. thread'[h].at = "send" /\ thread'[h].buffer = nextBuffer /\ \A k \in Threads \ {h} : thread'[k] = thread[k]
  BY <1>1 DEF FillBuffer, FillThen, CallTypes
<1>3. UNCHANGED <<work, sent, staging>>
  BY DEF FillBuffer, FillThen
<1>4. CopiesOf(nextBuffer) = {}
  <2> SUFFICES ASSUME NEW w \in CopiesOf(nextBuffer) PROVE FALSE
    OBVIOUS
  <2>1. w.stream = CopyStream /\ w.n <= sent[nextBuffer] /\ w \in work
    BY <1>1 DEF UploadInv, BufferKept, CopiesOf
  <2>2. w.n > sent[nextBuffer] /\ w.n \in Nat
    BY <2>1, WorkOf DEF FillBuffer, EventReached, CudaInv
  <2> QED
    BY <1>1, <2>1, <2>2
<1>5. \A k \in Threads : HasLock(k) => k = h
  BY <1>1, OneSender DEF UploadInv, HasLock
<1>6. \A k \in {0, 1} : SendersOf(k) = {}
  BY <1>1, <1>5 DEF SendersOf, HasLock
<1>7. Locked'
  BY <1>1, <1>2, <1>3 DEF UploadInv, Locked, HasLock
<1>8. \A k \in {0, 1} : CopiesOf(k)' = CopiesOf(k)
  BY <1>3 DEF CopiesOf
<1>9. \A k \in {0, 1} \ {nextBuffer} : SendersOf(k)' = SendersOf(k)
  BY <1>1, <1>2 DEF SendersOf
<1>10. ASSUME NEW k \in {0, 1} PROVE BufferKept(k)'
  <2>1. BufferKept(k) /\ CopiesOf(k)' = CopiesOf(k)
    BY <1>8 DEF UploadInv
  <2>2. CASE k = nextBuffer
    BY <2>1, <2>2, <1>3, <1>4 DEF BufferKept
  <2>3. CASE k # nextBuffer
    <3>1. SendersOf(k)' = SendersOf(k)
      BY <1>9, <2>3
    <3> QED
      BY <2>1, <3>1, <1>3 DEF BufferKept
  <2> QED
    BY <2>2, <2>3
<1> QED
  BY <1>1, <1>4, <1>6, <1>7, <1>8, <1>9, <1>10 DEF UploadInv, ReadsSame

\* The copy of the buffer takes over from the thread that filled it.
LEMMA SendsFilled ==
  ASSUME CudaInv, UploadInv, NEW h \in Threads, SendBuffer(h), NEW b, b = thread[h].buffer
  PROVE  /\ UploadInv' /\ b \in {0, 1} /\ h \in SendersOf(b) /\ CopiesOf(b)' # {}
         /\ \A k \in {0, 1} \ {b} : ReadsSame(k)
<1> DEFINE left == thread[h].chunks - 1
           t    == thread[h].name
<1>1. /\ CudaTyped /\ thread[h] \in CallTypes /\ thread[h].at = "send" /\ b \in {0, 1}
      /\ thread \in [Threads -> CallTypes] /\ sent \in [{0, 1} -> Nat]
  BY CallOf DEF CudaInv, CudaTyped, SendBuffer, IsAt
<1>2. /\ Enqueue(Crosses(tensor[t].block, b), CopyStream)
      /\ sent' = [sent EXCEPT ![b] = issued']
      /\ staging' = IF left = 0 THEN NoThread ELSE h
      /\ thread' = [thread EXCEPT ![h].at = IF left = 0 THEN "copied" ELSE "fill", ![h].chunks = left]
  BY DEF SendBuffer
<1>3. t \in TensorNames /\ tensor[t] # NoData
  <2>1. CallAt(h)
    BY DEF CudaInv, Calls
  <2> QED
    BY <1>1, <2>1 DEF CallAt, Uploading, TensorNames
<1>4. tensor[t].block \in CudaBlocks
  BY <1>1, <1>3, DataOf
<1> DEFINE c == Crosses(tensor[t].block, b)
<1>5. c \in What /\ c.kind = "copy" /\ c.buffer = b
  BY <1>1, <1>4 DEF Crosses, What
<1> HIDE DEF c
<1>6. PICK w : w.n = issued' /\ w.stream = CopyStream /\ w.what = c /\ work' = work \cup {w} /\ issued' \in Nat
  BY <1>1, <1>2, <1>5, Enqueued DEF c, Streams
<1> HIDE DEF left, t
<1>7. /\ thread'[h].at = (IF left = 0 THEN "copied" ELSE "fill")
      /\ \A k \in Threads \ {h} : thread'[k] = thread[k]
  BY <1>1, <1>2 DEF CallTypes
<1>8. \A k \in Threads : HasLock(k) <=> k = h
  BY <1>1, OneSender DEF UploadInv, HasLock
<1>9. Locked'
  <2> SUFFICES ASSUME NEW k \in Threads PROVE staging' = k <=> HasLock(k)'
    BY DEF Locked
  <2>1. CASE k = h
    <3>1. CASE left = 0
      BY <2>1, <3>1, <1>2, <1>7, CudaAssumption DEF HasLock, NoThread
    <3>2. CASE left # 0
      BY <2>1, <3>2, <1>2, <1>7 DEF HasLock
    <3> QED
      BY <3>1, <3>2
  <2>2. CASE k # h
    BY <2>2, <1>2, <1>7, <1>8, CudaAssumption DEF HasLock, NoThread
  <2> QED
    BY <2>1, <2>2
<1>10. h \in SendersOf(b) /\ CopiesOf(b) = {}
  BY <1>1 DEF UploadInv, BufferKept, SendersOf
<1>11. CopiesOf(b)' = {w}
  BY <1>5, <1>6, <1>10 DEF CopiesOf
<1>12. \A k \in {0, 1} : SendersOf(k)' = {}
  BY <1>7, <1>8 DEF SendersOf, HasLock
<1>13. ASSUME NEW k \in {0, 1} \ {b} PROVE CopiesOf(k)' = CopiesOf(k) /\ SendersOf(k) = {}
  BY <1>5, <1>6, <1>8, <1>13 DEF CopiesOf, SendersOf, HasLock
<1>14. ASSUME NEW k \in {0, 1} PROVE BufferKept(k)'
  <2>1. CASE k = b
    <3>1. sent'[k] = issued' /\ issued' <= issued'
      BY <1>1, <1>2, <1>6, <2>1
    <3> QED
      BY <2>1, <3>1, <1>6, <1>11, <1>12 DEF BufferKept
  <2>2. CASE k # b
    <3>1. CopiesOf(k)' = CopiesOf(k) /\ BufferKept(k) /\ sent'[k] = sent[k]
      BY <1>1, <1>2, <1>13, <2>2 DEF UploadInv
    <3> QED
      BY <3>1, <1>12 DEF BufferKept
  <2> QED
    BY <2>1, <2>2
<1> QED
  BY <1>1, <1>9, <1>10, <1>11, <1>12, <1>13, <1>14 DEF UploadInv, ReadsSame

\* The device only ends reads.
LEMMA DeviceReads ==
  ASSUME CudaInv, UploadInv, DeviceWorks
  PROVE  UploadInv' /\ \A k \in {0, 1} : CopiesOf(k)' \subseteq CopiesOf(k) /\ SendersOf(k)' = SendersOf(k)
<1>1. work' \subseteq work /\ UNCHANGED <<thread, staging, sent>>
  BY DEF DeviceWorks
<1>2. \A k \in {0, 1} : CopiesOf(k)' \subseteq CopiesOf(k) /\ SendersOf(k)' = SendersOf(k)
  BY <1>1 DEF CopiesOf, SendersOf
<1>3. Locked'
  BY <1>1 DEF UploadInv, Locked, HasLock
<1>4. ASSUME NEW k \in {0, 1} PROVE BufferKept(k)'
  <2>1. BufferKept(k)
    BY DEF UploadInv
  <2> QED
    BY <1>1, <1>2, <2>1 DEF BufferKept
<1> QED
  BY <1>2, <1>3, <1>4 DEF UploadInv

\* To begin with nobody has the lock and nothing is copied.
LEMMA UploadStarts == CudaInit => UploadInv
<1> SUFFICES ASSUME CudaInit PROVE UploadInv
  OBVIOUS
<1>1. work = {} /\ staging = NoThread /\ \A h \in Threads : thread[h].at = "idle"
  BY DEF CudaInit, CudaIdle
<1>2. Locked
  BY <1>1, CudaAssumption DEF Locked, HasLock, NoThread
<1>3. \A k \in {0, 1} : BufferKept(k)
  BY <1>1 DEF BufferKept, CopiesOf
<1> QED
  BY <1>2, <1>3 DEF UploadInv

Reads == [k \in {0, 1} |-> Cardinality(CopiesOf(k)) + Cardinality(SendersOf(k))]
InUse(k) == ~(CopiesOf(k) = {} /\ SendersOf(k) = {})

\* A buffer that is in use has one reader: the call that sends it or the copy out of it.
LEMMA ReadsOnce ==
  ASSUME UploadInv, NEW k \in {0, 1}
  PROVE  Reads[k] = (IF InUse(k) THEN 1 ELSE 0)
<1>1. \A v, w \in CopiesOf(k) : v = w
  BY DEF UploadInv, BufferKept
<1>2. \A h, i \in SendersOf(k) : h = i
  BY OneSender DEF UploadInv, SendersOf, HasLock
<1>3. SendersOf(k) # {} => CopiesOf(k) = {}
  BY DEF UploadInv, BufferKept
<1>4. Cardinality(CopiesOf(k)) + Cardinality(SendersOf(k)) = (IF CopiesOf(k) = {} /\ SendersOf(k) = {} THEN 0 ELSE 1)
  BY <1>1, <1>2, <1>3, AtMostOne
<1> QED
  BY <1>4 DEF Reads, InUse

\* And after a step.
LEMMA ReadsOnceNext ==
  ASSUME UploadInv', NEW k \in {0, 1}
  PROVE  Reads'[k] = (IF InUse(k)' THEN 1 ELSE 0)
<1>1. \A v, w \in CopiesOf(k)' : v = w
  BY DEF UploadInv, BufferKept
<1>2. \A h, i \in SendersOf(k)' : h = i
  BY DEF UploadInv, SendersOf, HasLock, Locked
<1>3. SendersOf(k)' # {} => CopiesOf(k)' = {}
  BY DEF UploadInv, BufferKept
<1> DEFINE A == CopiesOf(k)'
           B == SendersOf(k)'
<1>4. Cardinality(A) + Cardinality(B) = (IF A = {} /\ B = {} THEN 0 ELSE 1)
  <2> HIDE DEF A, B
  <2> QED
    BY <1>1, <1>2, <1>3, AtMostOne DEF A, B
<1> QED
  BY <1>4 DEF Reads, InUse

\* Each step of the backend is one of the two buffers', or none.
LEMMA UploadSteps ==
  ASSUME CudaInv, UploadInv, [CudaNext]_cudaVars
  PROVE  /\ UploadInv'
         /\ \/ \A k \in {0, 1} : InUse(k) => InUse(k)'
            \/ \A k \in {0, 1} : InUse(k)' => InUse(k)
<1>1. CASE DeviceWorks
  BY <1>1, DeviceReads DEF InUse
<1>2. ASSUME NEW h \in Threads, CudaCall(h)
      PROVE UploadInv' /\ \A k \in {0, 1} : InUse(k) => InUse(k)'
  BY <1>2, AsideCalls DEF InUse, ReadsSame
<1>3. ASSUME NEW h \in Threads, CudaStep(h)
      PROVE UploadInv' /\ \A k \in {0, 1} : InUse(k) => InUse(k)'
  <2>1. CASE WithinCudaLimit(h) \/ CudaRefused(h) \/ Malloc(h) \/ Given(h) \/ StartTransferAsync(h) \/ Copied(h)
    BY <2>1, AsideSteps DEF InUse, ReadsSame
  <2>2. CASE LockStaging(h)
    BY <2>2, LockAside DEF InUse, ReadsSame
  <2>3. CASE FillBuffer(h)
    <3>1. /\ UploadInv' /\ CopiesOf(nextBuffer) = {} /\ SendersOf(nextBuffer) = {}
          /\ \A k \in {0, 1} \ {nextBuffer} : ReadsSame(k)
      BY <2>3, FillsFree
    <3> QED
      BY <3>1 DEF InUse, ReadsSame
  <2>4. CASE SendBuffer(h)
    <3>1. PICK b : b = thread[h].buffer
      OBVIOUS
    <3>2. UploadInv' /\ CopiesOf(b)' # {} /\ \A k \in {0, 1} \ {b} : ReadsSame(k)
      BY <2>4, <3>1, SendsFilled
    <3> QED
      BY <3>2 DEF InUse, ReadsSame
  <2> QED
    BY <1>3, <2>1, <2>2, <2>3, <2>4 DEF CudaStep
<1>4. CASE UNCHANGED cudaVars
  <2>1. \A k \in {0, 1} : CopiesOf(k)' = CopiesOf(k) /\ SendersOf(k)' = SendersOf(k)
    BY <1>4 DEF cudaVars, CopiesOf, SendersOf
  <2>2. Locked' /\ \A k \in {0, 1} : BufferKept(k)'
    BY <1>4 DEF cudaVars, UploadInv, Locked, HasLock, BufferKept, CopiesOf, SendersOf
  <2> QED
    BY <2>1, <2>2 DEF UploadInv, InUse
<1> QED
  BY <1>1, <1>2, <1>3, <1>4 DEF CudaNext

\* A step is one of staging memory: a buffer nobody reads is filled, or reads end.
LEMMA BuffersStep ==
  CudaInv /\ UploadInv /\ [CudaNext]_cudaVars => [CudaBuffers!StagingNext]_Reads
<1> SUFFICES ASSUME CudaInv, UploadInv, [CudaNext]_cudaVars
             PROVE  CudaBuffers!StagingNext
  OBVIOUS
<1>1. \A k \in {0, 1} : Reads[k] = (IF InUse(k) THEN 1 ELSE 0)
  BY ReadsOnce
<1>2. UploadInv'
  BY UploadSteps
<1>3. \A k \in {0, 1} : Reads'[k] = (IF InUse(k)' THEN 1 ELSE 0)
  BY <1>2, ReadsOnceNext
<1>4. Reads' \in [{0, 1} -> {0, 1}]
  <2>1. Reads' = [k \in {0, 1} |-> Reads'[k]]
    BY DEF Reads
  <2> QED
    BY <1>3, <2>1
<1>5. \/ \A k \in {0, 1} : Reads'[k] = Reads[k] \/ (Reads[k] = 0 /\ Reads'[k] = 1)
      \/ \A k \in {0, 1} : Reads'[k] = Reads[k] \/ (Reads[k] = 1 /\ Reads'[k] = 0)
  <2>1. CASE \A k \in {0, 1} : InUse(k) => InUse(k)'
    BY <2>1, <1>1, <1>3
  <2>2. CASE \A k \in {0, 1} : InUse(k)' => InUse(k)
    BY <2>2, <1>1, <1>3
  <2> QED
    BY <2>1, <2>2, UploadSteps
<1> QED
  BY <1>4, <1>5 DEF CudaBuffers!StagingNext, CudaBuffers!Fill, CudaBuffers!Read, Reads, CopiesOf, SendersOf

\* Nothing reads either buffer to begin with.
LEMMA BuffersStart == CudaInit => CudaBuffers!StagingInit
<1> SUFFICES ASSUME CudaInit PROVE CudaBuffers!StagingInit
  OBVIOUS
<1>1. \A k \in {0, 1} : CopiesOf(k) = {} /\ SendersOf(k) = {}
  BY DEF CudaInit, CudaIdle, CopiesOf, SendersOf
<1>2. Reads = [k \in {0, 1} |-> 0]
  BY <1>1, FS_EmptySet DEF Reads
<1> QED
  BY <1>2 DEF CudaBuffers!StagingInit, Reads, CopiesOf, SendersOf

\* The readers of each buffer are those the instance counts.
LEMMA BuffersRead ==
  [CudaBuffers!StagingNext]_Reads =>
    [CudaBuffers!StagingNext]_[k \in {0, 1} |->
         Cardinality({w \in work : w.what.kind = "copy" /\ w.what.buffer = k})
       + Cardinality({h \in Threads : thread[h].at = "send" /\ thread[h].buffer = k})]
<1> QED
  BY DEF Reads, CopiesOf, SendersOf

\* The two pinned buffers are staging memory: each is filled again only once every copy out of it
\* is over, whichever threads share them (CudaStaged).
THEOREM BuffersAreStaging == CudaSpec => CudaStaged
<1>1. CudaInv /\ UploadInv /\ [CudaNext]_cudaVars => UploadInv'
  BY UploadSteps
<1> QED
  BY <1>1, BuffersStart, BuffersRead, CudaStarts, CudaKeeps, UploadStarts, BuffersStep, PTL
     DEF CudaSpec, CudaStaged, CudaBuffers!StagingSpec

-----------------------------------------------------------------------------
(* What is counted. *)

\* What the tensors hold, and what the calls under way have counted.
IsCounting(h) == thread[h].at \in {"take", "malloc", "give"}
Sizes == [t \in TensorNames |-> IF tensor[t] = NoData THEN 0 ELSE tensor[t].size]
Asked == [h \in Threads |-> IF IsCounting(h) THEN thread[h].bytes ELSE 0]
LiveBytes  == SumOf(Sizes, TensorNames)

AtTake   == {h \in Threads : thread[h].at = "take"}
AtMalloc == {h \in Threads : thread[h].at = "malloc"}

\* What there would be if these took what they have counted: no more than the limit, or than what
\* the last of them to count looked at.
HeldBy(S) == LiveBytes + SumOf(Asked, AtMalloc \cup S)
RoomFor(S) == HeldBy(S) <= CudaLimit \/ \E h \in S : HeldBy(S) <= thread[h].before + thread[h].bytes

\* All of it is counted, once; and whichever of those that have yet to look are let through, what
\* there is then is within the limit.
Counted == gAllocatedBytes = LiveBytes + SumOf(Asked, Threads)
CountInv == Counted /\ \A S \in SUBSET AtTake : RoomFor(S)

\* There are finitely many names and threads.
LEMMA FiniteNames == IsFiniteSet(TensorNames) /\ IsFiniteSet(Threads)
BY CudaAssumption, FS_Product DEF TensorNames

\* Sizes are numbers.
LEMMA SizeTypes ==
  ASSUME CudaTyped
  PROVE  /\ \A t \in TensorNames : Sizes[t] \in Nat
         /\ \A h \in Threads : Asked[h] \in Nat
<1>1. \A t \in TensorNames : tensor[t] # NoData => tensor[t].size \in Nat
  BY DataOf
<1>2. \A h \in Threads : thread[h].bytes \in Nat
  BY CallOf
<1> QED
  BY <1>1, <1>2 DEF Sizes, Asked

\* And after a step.
LEMMA SizeTypesNext ==
  ASSUME CudaTyped'
  PROVE  /\ \A t \in TensorNames : Sizes'[t] \in Nat
         /\ \A h \in Threads : Asked'[h] \in Nat
<1>1. \A t \in TensorNames : tensor'[t] # NoData => tensor'[t].size \in Nat
  BY DEF CudaTyped, Data
<1>2. \A h \in Threads : thread'[h].bytes \in Nat
  BY DEF CudaTyped, CallTypes
<1> QED
  BY <1>1, <1>2 DEF Sizes, Asked

\* And so are their sums.
LEMMA HeldTypes ==
  ASSUME CudaTyped, NEW S \in SUBSET Threads
  PROVE  /\ LiveBytes \in Nat /\ SumOf(Asked, S) \in Nat /\ HeldBy(S) \in Nat /\ SumOf(Asked, AtMalloc \cup S) \in Nat
         /\ AtMalloc \cup S \in SUBSET Threads
<1>1. LiveBytes \in Nat
  BY SizeTypes, SumTakes, FiniteNames DEF LiveBytes
<1>2. \A T \in SUBSET Threads : SumOf(Asked, T) \in Nat
  BY SizeTypes, SumOfFewer, FiniteNames
<1>3. AtMalloc \cup S \in SUBSET Threads
  BY DEF AtMalloc
<1> QED
  BY <1>1, <1>2, <1>3 DEF HeldBy

\* What a call of h does to the sums.
LEMMA AskedMoves ==
  ASSUME CudaTyped, CudaTyped', NEW h \in Threads, \A k \in Threads \ {h} : thread'[k] = thread[k]
  PROVE  \A T \in SUBSET Threads :
           /\ SumOf(Asked, T) \in Nat /\ SumOf(Asked', T) \in Nat
           /\ h \in T    => SumOf(Asked', T) = SumOf(Asked, T) - Asked[h] + Asked'[h]
           /\ h \notin T => SumOf(Asked', T) = SumOf(Asked, T)
<1>1. \A k \in Threads \ {h} : Asked[k] = Asked'[k]
  BY DEF Asked, IsCounting
<1>2. \A k \in Threads : Asked[k] \in Nat /\ Asked'[k] \in Nat
  BY SizeTypes, SizeTypesNext
<1> DEFINE F == Asked
           G == Asked'
<1>3. \A k \in Threads \ {h} : F[k] = G[k]
  BY <1>1
<1>a. \A k \in Threads : F[k] \in Nat /\ G[k] \in Nat
  BY <1>2
<1>b. IsFiniteSet(Threads)
  BY FiniteNames
<1> HIDE DEF F, G
<1>4. \A T \in SUBSET Threads :
           /\ SumOf(F, T) \in Nat /\ SumOf(G, T) \in Nat
           /\ h \in T    => SumOf(G, T) = SumOf(F, T) - F[h] + G[h]
           /\ h \notin T => SumOf(G, T) = SumOf(F, T)
  BY <1>3, <1>a, <1>b, SumMoves, SMTT(60)
<1> QED
  BY <1>4 DEF F, G

\* One tensor changes, and what is live changes by it.
LEMMA LiveMoves ==
  ASSUME CudaTyped, CudaTyped', NEW t \in TensorNames, \A u \in TensorNames \ {t} : tensor'[u] = tensor[u]
  PROVE  LiveBytes \in Nat /\ LiveBytes' \in Nat /\ LiveBytes' = LiveBytes - Sizes[t] + Sizes'[t]
<1>1. \A u \in TensorNames \ {t} : Sizes[u] = Sizes'[u]
  BY DEF Sizes
<1>2. \A u \in TensorNames : Sizes[u] \in Nat /\ Sizes'[u] \in Nat
  BY SizeTypes, SizeTypesNext
<1> DEFINE F == Sizes
           G == Sizes'
<1>3. \A u \in TensorNames \ {t} : F[u] = G[u]
  BY <1>1
<1>a. \A u \in TensorNames : F[u] \in Nat /\ G[u] \in Nat
  BY <1>2
<1>b. IsFiniteSet(TensorNames)
  BY FiniteNames
<1> HIDE DEF F, G
<1>4. /\ SumOf(F, TensorNames) \in Nat /\ SumOf(G, TensorNames) \in Nat
      /\ SumOf(G, TensorNames) = SumOf(F, TensorNames) - F[t] + G[t]
  BY <1>3, <1>a, <1>b, SumMoves, SMTT(60)
<1> QED
  BY <1>4 DEF F, G, LiveBytes

\* Fewer have counted, and no more is held with any of them.
LEMMA RoomKept ==
  ASSUME CudaTyped, CudaTyped', \A S \in SUBSET AtTake : RoomFor(S), AtTake' \subseteq AtTake,
         \A h \in AtTake' : thread'[h] = thread[h],
         \A S \in SUBSET AtTake' : HeldBy(S)' \in Int /\ HeldBy(S) \in Int /\ HeldBy(S)' <= HeldBy(S)
  PROVE  \A S \in SUBSET AtTake' : RoomFor(S)'
<1> SUFFICES ASSUME NEW S \in SUBSET AtTake' PROVE RoomFor(S)'
  OBVIOUS
<1>1. RoomFor(S) /\ HeldBy(S)' <= HeldBy(S) /\ HeldBy(S)' \in Int /\ HeldBy(S) \in Int
  OBVIOUS
<1>2. CASE HeldBy(S) <= CudaLimit
  BY <1>1, <1>2, CudaAssumption DEF RoomFor
<1>3. ASSUME NEW h \in S, HeldBy(S) <= thread[h].before + thread[h].bytes
      PROVE  RoomFor(S)'
  <2>1. thread'[h] = thread[h] /\ h \in Threads
    BY DEF AtTake
  <2>2. thread[h].before \in Int /\ thread[h].bytes \in Nat
    BY <2>1, CallOf
  <2>3. HeldBy(S)' <= thread'[h].before + thread'[h].bytes
    BY <1>1, <1>3, <2>1, <2>2
  <2> QED
    BY <2>3 DEF RoomFor
<1> QED
  BY <1>1, <1>2, <1>3 DEF RoomFor

\* A call that neither counts nor has anything.
LEMMA CountAside ==
  ASSUME CudaTyped, CudaTyped', CountInv, NEW h \in Threads, \A k \in Threads \ {h} : thread'[k] = thread[k],
         ~IsCounting(h), ~IsCounting(h)', gAllocatedBytes' = gAllocatedBytes,
         \A t \in TensorNames : Sizes'[t] = Sizes[t]
  PROVE  CountInv'
<1>1. Sizes' = Sizes
  BY DEF Sizes
<1>2. Asked' = Asked /\ AtTake' = AtTake /\ AtMalloc' = AtMalloc
  BY DEF Asked, AtTake, AtMalloc, IsCounting
<1>3. LiveBytes' = LiveBytes
  BY <1>1 DEF LiveBytes
<1>4. Counted'
  BY <1>2, <1>3 DEF CountInv, Counted
<1>5. \A k \in AtTake : thread'[k] = thread[k]
  BY DEF AtTake, IsCounting
<1>6. \A S \in SUBSET AtTake : HeldBy(S)' = HeldBy(S)
  BY <1>2, <1>3 DEF HeldBy
<1>7. \A S \in SUBSET AtTake : RoomFor(S)'
  BY <1>2, <1>5, <1>6 DEF CountInv, RoomFor
<1> QED
  BY <1>2, <1>4, <1>7 DEF CountInv

\* Where a thread counts nothing and the tensors keep their sizes.
SizesKept == \A t \in TensorNames : Sizes'[t] = Sizes[t]

\* Tensors that stay have the sizes they had.
LEMMA SameTensors == ASSUME UNCHANGED tensor PROVE SizesKept
BY DEF SizesKept, Sizes

\* A call on a tensor there is counts nothing.
LEMMA CountCallsAside ==
  ASSUME CudaInv, CudaInv', CountInv, NEW h \in Threads, NEW x \in CudaTensors,
         \/ Launch(h, <<h, x>>) \/ CompleteTransfer(h, <<h, x>>) \/ CompleteTransferSync(h, <<h, x>>)
         \/ \E n \in CudaChunks : TransferStaged(h, <<h, x>>, n)
  PROVE  CountInv'
<1> DEFINE t == <<h, x>>
<1>1. CudaTyped /\ CudaTyped' /\ t \in TensorNames /\ thread \in [Threads -> CallTypes]
  BY DEF CudaInv, CudaTyped, TensorNames
<1>2. ~IsCounting(h) /\ ~IsCounting(h)' /\ (\A k \in Threads \ {h} : thread'[k] = thread[k])
  BY <1>1 DEF Launch, CompleteTransfer, CompleteTransferSync, TransferStaged, MayUse, Fetching, IsAt, IsCounting,
     CudaIdle
<1>3. gAllocatedBytes' = gAllocatedBytes
  BY DEF Launch, CompleteTransfer, CompleteTransferSync, TransferStaged
<1>4. SizesKept
  <2>1. CASE UNCHANGED tensor
    BY <2>1, SameTensors
  <2>2. CASE tensor' = [tensor EXCEPT ![t].stream = Compute, ![t].copied = NoEvent] /\ tensor[t] # NoData
    <3> DEFINE d == [tensor[t] EXCEPT !.stream = Compute, !.copied = NoEvent]
    <3>1. tensor[t] \in Data
      BY <1>1, <2>2, DataOf
    <3>2. d.size = tensor[t].size /\ tensor'[t] = d /\ \A u \in TensorNames \ {t} : tensor'[u] = tensor[u]
      BY <1>1, <2>2, <3>1 DEF Data, CudaTyped
    <3>3. tensor'[t] # NoData
      BY <1>1, <2>2, CopyTaken DEF CudaInv
    <3>4. tensor'[t].size = tensor[t].size
      <4> HIDE DEF d, t
      <4> QED
        BY <3>2
    <3>5. Sizes'[t] = Sizes[t]
      BY <1>1, <2>2, <3>3, <3>4 DEF Sizes
    <3>6. \A u \in TensorNames \ {t} : Sizes'[u] = Sizes[u]
      BY <3>2 DEF Sizes
    <3> HIDE DEF d, t
    <3> QED
      BY <3>5, <3>6 DEF SizesKept
  <2> QED
    BY <2>1, <2>2 DEF Launch, CompleteTransfer, CompleteTransferSync, TransferStaged, Fetching
<1> QED
  BY <1>1, <1>2, <1>3, <1>4, CountAside DEF SizesKept

\* Nor does a step of a copy.
LEMMA CountStepsAside ==
  ASSUME CudaInv, CudaInv', CountInv, NEW h \in Threads,
         StartTransferAsync(h) \/ LockStaging(h) \/ FillBuffer(h) \/ SendBuffer(h) \/ Copied(h)
  PROVE  CountInv'
<1>1. CudaTyped /\ CudaTyped' /\ thread \in [Threads -> CallTypes] /\ thread[h] \in CallTypes
  BY CallOf DEF CudaInv, CudaTyped
<1>2. ~IsCounting(h) /\ ~IsCounting(h)' /\ (\A k \in Threads \ {h} : thread'[k] = thread[k])
  <2>1. CASE StartTransferAsync(h) \/ Copied(h)
    BY <1>1, <2>1, CallReturns DEF StartTransferAsync, Copied, IsAt, IsCounting
  <2>2. CASE LockStaging(h)
    BY <1>1, <2>2, CallGoes DEF LockStaging, IsAt, IsCounting, Places, Uploading
  <2>3. CASE FillBuffer(h)
    BY <1>1, <2>3 DEF FillBuffer, FillThen, IsAt, IsCounting, CallTypes
  <2>4. CASE SendBuffer(h)
    BY <1>1, <2>4 DEF SendBuffer, IsAt, IsCounting, CallTypes
  <2> QED
    BY <2>1, <2>2, <2>3, <2>4
<1>3. gAllocatedBytes' = gAllocatedBytes
  BY DEF StartTransferAsync, LockStaging, FillBuffer, FillThen, SendBuffer, Copied
<1>4. SizesKept
  <2>1. CASE UNCHANGED tensor
    BY <2>1, SameTensors
  <2>2. CASE StartTransferAsync(h)
    <3>1. CallAt(h) /\ thread[h].at = "fetch"
      BY <2>2 DEF CudaInv, Calls, StartTransferAsync, IsAt
    <3>2. PICK t \in TensorNames : thread[h].name = t /\ tensor[t] # NoData
      BY <3>1 DEF CallAt, TensorNames
    <3> DEFINE d == [tensor[t] EXCEPT !.copied = [stream |-> CopyStream, at |-> issued']]
    <3>3. tensor' = [tensor EXCEPT ![t].copied = [stream |-> CopyStream, at |-> issued']]
      BY <2>2, <3>2 DEF StartTransferAsync
    <3>4. tensor[t] \in Data /\ issued' \in Nat
      BY <1>1, <3>2, DataOf DEF CudaTyped
    <3>5. d \in Data /\ d.size = tensor[t].size
      BY <3>4 DEF Data
    <3>6. tensor'[t] = d /\ \A u \in TensorNames \ {t} : tensor'[u] = tensor[u]
      BY <1>1, <3>3 DEF CudaTyped
    <3> HIDE DEF d
    <3>7. d # NoData
      BY <3>5, DataIsData
    <3> QED
      BY <3>2, <3>5, <3>6, <3>7 DEF SizesKept, Sizes
  <2> QED
    BY <2>1, <2>2 DEF LockStaging, FillBuffer, FillThen, SendBuffer, Copied
<1> QED
  BY <1>1, <1>2, <1>3, <1>4, CountAside DEF SizesKept

\* Counted before it is looked at: the one that counts comes after all that is held.
LEMMA CountTakes ==
  ASSUME CudaInv, CudaInv', CountInv, NEW h \in Threads, NEW x \in CudaTensors, NEW bytes \in CudaAsks,
         NEW s \in Streams, Take(h, <<h, x>>, bytes, s)
  PROVE  CountInv'
<1>1. CudaTyped /\ CudaTyped' /\ thread \in [Threads -> CallTypes] /\ bytes \in Nat /\ gAllocatedBytes \in Int
  BY CudaAssumption DEF CudaInv, CudaTyped
<1>2. /\ thread[h].at = "idle" /\ thread'[h].at = "take" /\ thread'[h].bytes = bytes
      /\ thread'[h].before = gAllocatedBytes /\ \A k \in Threads \ {h} : thread'[k] = thread[k]
      /\ gAllocatedBytes' = gAllocatedBytes + bytes /\ UNCHANGED tensor
  BY <1>1 DEF Take, IsAt, CudaIdle
<1>3. Asked[h] = 0 /\ Asked'[h] = bytes
  BY <1>2 DEF Asked, IsCounting
<1>4. \A T \in SUBSET Threads :
           /\ SumOf(Asked, T) \in Nat /\ SumOf(Asked', T) \in Nat
           /\ h \in T    => SumOf(Asked', T) = SumOf(Asked, T) - Asked[h] + Asked'[h]
           /\ h \notin T => SumOf(Asked', T) = SumOf(Asked, T)
  BY <1>1, <1>2, AskedMoves
<1>5. LiveBytes' = LiveBytes /\ LiveBytes \in Nat
  BY <1>1, <1>2, HeldTypes DEF LiveBytes, Sizes
<1>6. Threads \in SUBSET Threads
  OBVIOUS
<1>7. gAllocatedBytes = LiveBytes + SumOf(Asked, Threads) /\ SumOf(Asked, Threads) \in Nat
      /\ SumOf(Asked', Threads) = SumOf(Asked, Threads) + bytes
  BY <1>3, <1>4, <1>6, <1>1 DEF CountInv, Counted
<1>8. Counted'
  BY <1>1, <1>2, <1>5, <1>7 DEF Counted
<1>9. AtMalloc' = AtMalloc /\ AtTake' = AtTake \cup {h} /\ h \notin AtMalloc /\ AtMalloc \subseteq Threads
      /\ AtTake \subseteq Threads
  BY <1>2 DEF AtMalloc, AtTake
<1>10. ASSUME NEW S \in SUBSET AtTake' PROVE RoomFor(S)'
  <2> DEFINE T == AtMalloc \cup S
  <2>1. T \in SUBSET Threads /\ HeldBy(S)' = LiveBytes + SumOf(Asked', T)
    BY <1>5, <1>9 DEF HeldBy
  <2>2. CASE h \notin S
    <3>1. S \in SUBSET AtTake /\ h \notin T
      BY <1>9, <2>2
    <3>2. HeldBy(S)' = HeldBy(S)
      BY <1>4, <2>1, <3>1 DEF HeldBy
    <3>3. \A k \in S : thread'[k] = thread[k]
      BY <1>2, <1>9, <2>2, <3>1
    <3>4. RoomFor(S)
      BY <3>1 DEF CountInv
    <3> QED
      BY <3>2, <3>3, <3>4 DEF RoomFor
  <2>3. CASE h \in S
    <3>1. SumOf(Asked', T) = SumOf(Asked, T) + bytes /\ SumOf(Asked, T) \in Nat
      BY <1>1, <1>3, <1>4, <2>1, <2>3
    <3>2. SumOf(Asked, T) <= SumOf(Asked, Threads)
      BY <1>1, <2>1, FiniteNames, SizeTypes, SumOfFewer
    <3>3. HeldBy(S)' <= gAllocatedBytes + bytes
      BY <1>1, <1>5, <1>7, <2>1, <3>1, <3>2
    <3> QED
      BY <2>3, <3>3, <1>2 DEF RoomFor
  <2> QED
    BY <2>2, <2>3
<1> QED
  BY <1>8, <1>10 DEF CountInv

\* Looked at, and there is room: what is asked for is as good as had.
LEMMA CountLooks ==
  ASSUME CudaInv, CudaInv', CountInv, NEW h \in Threads, WithinCudaLimit(h)
  PROVE  CountInv'
<1>1. CudaTyped /\ CudaTyped' /\ thread \in [Threads -> CallTypes] /\ thread[h] \in CallTypes
      /\ thread[h].before \in Int /\ thread[h].bytes \in Nat
  BY CallOf DEF CudaInv, CudaTyped
<1>2. /\ thread[h].at = "take" /\ thread'[h].at = "malloc" /\ thread'[h].bytes = thread[h].bytes
      /\ thread[h].before + thread[h].bytes <= CudaLimit /\ \A k \in Threads \ {h} : thread'[k] = thread[k]
      /\ gAllocatedBytes' = gAllocatedBytes /\ UNCHANGED tensor
  BY <1>1 DEF WithinCudaLimit, IsAt, CallTypes
<1>3. Asked' = Asked
  <2>1. \A k \in Threads : Asked'[k] = Asked[k]
    BY <1>2 DEF Asked, IsCounting
  <2> QED
    BY <2>1 DEF Asked
<1>4. LiveBytes' = LiveBytes
  BY <1>2 DEF LiveBytes, Sizes
<1>5. Counted'
  BY <1>2, <1>3, <1>4 DEF CountInv, Counted
<1>6. AtMalloc' = AtMalloc \cup {h} /\ AtTake' = AtTake \ {h} /\ h \in AtTake
  BY <1>2 DEF AtMalloc, AtTake
<1>7. ASSUME NEW S \in SUBSET AtTake' PROVE RoomFor(S)'
  <2>1. S \cup {h} \in SUBSET AtTake /\ h \notin S /\ S \subseteq Threads
    BY <1>6 DEF AtTake
  <2>2. HeldBy(S)' = HeldBy(S \cup {h})
    <3>1. AtMalloc' \cup S = AtMalloc \cup (S \cup {h})
      BY <1>6
    <3> QED
      BY <1>3, <1>4, <3>1 DEF HeldBy
  <2>3. HeldBy(S \cup {h}) \in Nat
    <3>1. S \cup {h} \in SUBSET Threads
      BY <2>1
    <3> QED
      BY <1>1, <3>1, HeldTypes
  <2>4. RoomFor(S \cup {h})
    BY <2>1 DEF CountInv
  <2>5. CASE HeldBy(S \cup {h}) <= CudaLimit
    BY <2>2, <2>5 DEF RoomFor
  <2>6. ASSUME NEW k \in S \cup {h}, HeldBy(S \cup {h}) <= thread[k].before + thread[k].bytes
        PROVE  RoomFor(S)'
    <3>1. CASE k = h
      <4>1. HeldBy(S \cup {h}) <= CudaLimit
        BY <1>1, <1>2, <2>3, <2>6, <3>1, CudaAssumption
      <4> QED
        BY <2>2, <4>1 DEF RoomFor
    <3>2. CASE k # h
      <4>1. k \in S /\ thread'[k] = thread[k]
        BY <1>2, <2>1, <2>6, <3>2
      <4> QED
        BY <2>2, <2>6, <4>1 DEF RoomFor
    <3> QED
      BY <3>1, <3>2
  <2> QED
    BY <2>4, <2>5, <2>6 DEF RoomFor
<1> QED
  BY <1>5, <1>7 DEF CountInv

\* A call that neither waits for room nor has it any more: what it had or counted is a tensor's, or
\* is given back.
LEMMA CountLeaves ==
  ASSUME CudaTyped, CudaTyped', CountInv, NEW h \in Threads, \A k \in Threads \ {h} : thread'[k] = thread[k],
         h \notin AtTake', h \notin AtMalloc', LiveBytes \in Nat, LiveBytes' \in Nat,
         LiveBytes' <= LiveBytes + (IF h \in AtMalloc THEN Asked[h] ELSE 0),
         gAllocatedBytes' = gAllocatedBytes + (LiveBytes' - LiveBytes) + (Asked'[h] - Asked[h])
  PROVE  CountInv'
<1>1. \A T \in SUBSET Threads :
           /\ SumOf(Asked, T) \in Nat /\ SumOf(Asked', T) \in Nat
           /\ h \in T    => SumOf(Asked', T) = SumOf(Asked, T) - Asked[h] + Asked'[h]
           /\ h \notin T => SumOf(Asked', T) = SumOf(Asked, T)
  BY AskedMoves
<1>2. Asked[h] \in Nat /\ Asked'[h] \in Nat
  BY SizeTypes, SizeTypesNext
<1>3. Counted'
  <2>1. Threads \in SUBSET Threads
    OBVIOUS
  <2>2. SumOf(Asked', Threads) = SumOf(Asked, Threads) - Asked[h] + Asked'[h] /\ SumOf(Asked, Threads) \in Nat
    BY <1>1, <2>1
  <2>3. gAllocatedBytes = LiveBytes + SumOf(Asked, Threads)
    BY DEF CountInv, Counted
  <2>4. gAllocatedBytes' = LiveBytes' + SumOf(Asked', Threads)
    BY <1>2, <2>2, <2>3
  <2> QED
    BY <2>4 DEF Counted
<1>4. AtMalloc' = AtMalloc \ {h} /\ AtTake' = AtTake \ {h} /\ AtMalloc \subseteq Threads /\ AtTake \subseteq Threads
  BY DEF AtMalloc, AtTake
<1>5. \A k \in AtTake' : thread'[k] = thread[k]
  BY <1>4
<1>6. \A S \in SUBSET AtTake' : HeldBy(S)' \in Int /\ HeldBy(S) \in Int /\ HeldBy(S)' <= HeldBy(S)
  <2> SUFFICES ASSUME NEW S \in SUBSET AtTake'
               PROVE  HeldBy(S)' \in Int /\ HeldBy(S) \in Int /\ HeldBy(S)' <= HeldBy(S)
    OBVIOUS
  <2>1. PICK T \in SUBSET Threads : T = AtMalloc \cup S
    BY <1>4
  <2>2. AtMalloc' \cup S = T \ {h} /\ T \ {h} \in SUBSET Threads /\ h \notin S
    BY <1>4, <2>1
  <2>3. HeldBy(S)' = LiveBytes' + SumOf(Asked', T \ {h}) /\ HeldBy(S) = LiveBytes + SumOf(Asked, T)
    BY <2>1, <2>2 DEF HeldBy
  <2>4. SumOf(Asked', T \ {h}) = SumOf(Asked, T \ {h}) /\ SumOf(Asked, T \ {h}) \in Nat /\ SumOf(Asked, T) \in Nat
    BY <1>1, <2>2
  <2>5. CASE h \in AtMalloc
    <3>1. h \in T /\ IsFiniteSet(T) /\ \A y \in T : Asked[y] \in Nat
      BY <2>1, <2>5, FiniteNames, FS_Subset, SizeTypes
    <3>2. SumOf(Asked, T) = Asked[h] + SumOf(Asked, T \ {h})
      BY <3>1, SumTakes
    <3> QED
      BY <1>2, <2>3, <2>4, <2>5, <3>2
  <2>6. CASE h \notin AtMalloc
    <3>1. T \ {h} = T
      BY <2>1, <2>2, <2>6
    <3>2. SumOf(Asked, T \ {h}) = SumOf(Asked, T)
      BY <3>1
    <3>3. LiveBytes' <= LiveBytes
      BY <2>6
    <3>4. HeldBy(S)' = LiveBytes' + SumOf(Asked, T)
      BY <2>3, <2>4, <3>2
    <3> QED
      BY <2>3, <2>4, <3>3, <3>4
  <2> QED
    BY <2>5, <2>6
<1>7. \A S \in SUBSET AtTake' : RoomFor(S)'
  <2>1. AtTake' \subseteq AtTake /\ \A S \in SUBSET AtTake : RoomFor(S)
    BY <1>4 DEF CountInv
  <2> QED
    BY <1>5, <1>6, <2>1, RoomKept
<1> QED
  BY <1>3, <1>7 DEF CountInv

\* What is refused is counted off again, and was never live.
LEMMA CountRefused ==
  ASSUME CudaInv, CudaInv', CountInv, NEW h \in Threads, CudaRefused(h)
  PROVE  CountInv'
<1>1. CudaTyped /\ CudaTyped' /\ thread \in [Threads -> CallTypes] /\ thread[h].bytes \in Nat /\ gAllocatedBytes \in Int
  BY CallOf DEF CudaInv, CudaTyped
<1>2. /\ thread[h].at \in {"take", "malloc"} /\ thread'[h].at = "idle"
      /\ \A k \in Threads \ {h} : thread'[k] = thread[k]
      /\ gAllocatedBytes' = gAllocatedBytes - thread[h].bytes /\ UNCHANGED tensor
  BY <1>1, CallReturns DEF CudaRefused, IsAt
<1>3. LiveBytes' = LiveBytes /\ LiveBytes \in Nat
  BY <1>1, <1>2, HeldTypes DEF LiveBytes, Sizes
<1>4. Asked[h] = thread[h].bytes /\ Asked'[h] = 0
  BY <1>2 DEF Asked, IsCounting
<1>5. h \notin AtTake' /\ h \notin AtMalloc'
  BY <1>2 DEF AtTake, AtMalloc
<1>6. /\ LiveBytes' <= LiveBytes + (IF h \in AtMalloc THEN Asked[h] ELSE 0)
      /\ gAllocatedBytes' = gAllocatedBytes + (LiveBytes' - LiveBytes) + (Asked'[h] - Asked[h])
  BY <1>1, <1>2, <1>3, <1>4
<1> QED
  BY <1>1, <1>2, <1>3, <1>5, <1>6, CountLeaves

\* What was counted is the new tensor's.
LEMMA CountMallocs ==
  ASSUME CudaInv, CudaInv', CountInv, NEW h \in Threads, Malloc(h)
  PROVE  CountInv'
<1>1. CudaTyped /\ CudaTyped' /\ thread \in [Threads -> CallTypes] /\ thread[h] \in CallTypes
      /\ thread[h].bytes \in Nat /\ gAllocatedBytes \in Int
  BY CallOf DEF CudaInv, CudaTyped
<1>2. /\ thread[h].at = "malloc" /\ thread'[h].at \in {"idle", "fetch"}
      /\ \A k \in Threads \ {h} : thread'[k] = thread[k]
      /\ gAllocatedBytes' = gAllocatedBytes
  <2>1. thread[h].at = "malloc" /\ gAllocatedBytes' = gAllocatedBytes /\ (Returns(h) \/ ThreadGoes(h, "fetch"))
    BY DEF Malloc, IsAt
  <2>2. CASE Returns(h)
    BY <1>1, <2>1, <2>2, CallReturns
  <2>3. CASE ThreadGoes(h, "fetch")
    <3>1. "fetch" \in Places
      BY DEF Places
    <3> QED
      BY <1>1, <2>1, <2>3, <3>1, CallGoes
  <2> QED
    BY <2>1, <2>2, <2>3
<1>3. CallAt(h)
  BY DEF CudaInv, Calls
<1>4. PICK t \in TensorNames : thread[h].name = t /\ tensor[t] = NoData
  BY <1>2, <1>3 DEF CallAt, TensorNames
<1>5. PICK b \in CudaBlocks :
        tensor' = [tensor EXCEPT ![t] = [block |-> b, size |-> thread[h].bytes, stream |-> thread[h].stream,
                                          copied |-> NoEvent]]
  BY <1>4 DEF Malloc, GivenIn
<1> DEFINE d == [block |-> b, size |-> thread[h].bytes, stream |-> thread[h].stream, copied |-> NoEvent]
<1>6. d \in Data /\ d.size = thread[h].bytes
  <2>1. thread[h].stream \in Streams /\ NoEvent \in [stream : {CopyStream}, at : Nat]
    BY <1>1, CallOf DEF NoEvent
  <2> QED
    BY <1>1, <2>1 DEF Data
<1>7. tensor'[t] = d /\ \A u \in TensorNames \ {t} : tensor'[u] = tensor[u]
  BY <1>1, <1>5 DEF CudaTyped
<1> HIDE DEF d
<1>8. Sizes[t] = 0 /\ Sizes'[t] = thread[h].bytes
  BY <1>4, <1>6, <1>7, DataIsData DEF Sizes
<1>9. LiveBytes \in Nat /\ LiveBytes' \in Nat /\ LiveBytes' = LiveBytes + thread[h].bytes
  <2>1. LiveBytes \in Nat /\ LiveBytes' \in Nat /\ LiveBytes' = LiveBytes - Sizes[t] + Sizes'[t]
    BY <1>1, <1>7, LiveMoves
  <2> QED
    BY <1>1, <1>8, <2>1
<1>10. Asked[h] = thread[h].bytes /\ Asked'[h] = 0
  BY <1>2 DEF Asked, IsCounting
<1>11. h \notin AtTake' /\ h \notin AtMalloc' /\ h \in AtMalloc
  BY <1>2 DEF AtTake, AtMalloc
<1>12. /\ LiveBytes' <= LiveBytes + (IF h \in AtMalloc THEN Asked[h] ELSE 0)
       /\ gAllocatedBytes' = gAllocatedBytes + (LiveBytes' - LiveBytes) + (Asked'[h] - Asked[h])
  BY <1>1, <1>2, <1>9, <1>10, <1>11
<1> QED
  BY <1>1, <1>2, <1>9, <1>11, <1>12, CountLeaves

\* The tensor's bytes are the call's to give back.
LEMMA CountFrees ==
  ASSUME CudaInv, CudaInv', CountInv, NEW h \in Threads, NEW x \in CudaTensors, FreeCuda(h, <<h, x>>)
  PROVE  CountInv'
<1> DEFINE t == <<h, x>>
<1>1. CudaTyped /\ CudaTyped' /\ thread \in [Threads -> CallTypes] /\ gAllocatedBytes \in Int /\ t \in TensorNames
  BY DEF CudaInv, CudaTyped, TensorNames
<1>2. /\ thread[h].at = "idle" /\ thread'[h].at = "give" /\ thread'[h].bytes = tensor[t].size
      /\ \A k \in Threads \ {h} : thread'[k] = thread[k]
      /\ gAllocatedBytes' = gAllocatedBytes /\ tensor[t] # NoData
  BY <1>1 DEF FreeCuda, IsAt, CudaIdle
<1>3. tensor[t].size \in Nat
  BY <1>1, <1>2, DataOf
<1>4. tensor'[t] = NoData /\ \A u \in TensorNames \ {t} : tensor'[u] = tensor[u]
  BY <1>1 DEF FreeCuda, CudaTyped
<1>5. Sizes[t] = tensor[t].size /\ Sizes'[t] = 0
  BY <1>1, <1>2, <1>4 DEF Sizes
<1>6. LiveBytes \in Nat /\ LiveBytes' \in Nat /\ LiveBytes' = LiveBytes - tensor[t].size
  <2>1. LiveBytes \in Nat /\ LiveBytes' \in Nat /\ LiveBytes' = LiveBytes - Sizes[t] + Sizes'[t]
    <3> HIDE DEF t
    <3> QED
      BY <1>1, <1>4, LiveMoves
  <2> QED
    BY <1>3, <1>5, <2>1
<1>7. Asked[h] = 0 /\ Asked'[h] = tensor[t].size
  BY <1>2 DEF Asked, IsCounting
<1>8. h \notin AtTake' /\ h \notin AtMalloc'
  BY <1>2 DEF AtTake, AtMalloc
<1>9. /\ LiveBytes' <= LiveBytes + (IF h \in AtMalloc THEN Asked[h] ELSE 0)
      /\ gAllocatedBytes' = gAllocatedBytes + (LiveBytes' - LiveBytes) + (Asked'[h] - Asked[h])
  <2> HIDE DEF t
  <2> QED
    BY <1>1, <1>2, <1>3, <1>6, <1>7
<1> QED
  BY <1>1, <1>2, <1>6, <1>8, <1>9, CountLeaves

\* What was freed is counted off once it is.
LEMMA CountGives ==
  ASSUME CudaInv, CudaInv', CountInv, NEW h \in Threads, Given(h)
  PROVE  CountInv'
<1>1. CudaTyped /\ CudaTyped' /\ thread \in [Threads -> CallTypes] /\ thread[h].bytes \in Nat /\ gAllocatedBytes \in Int
  BY CallOf DEF CudaInv, CudaTyped
<1>2. /\ thread[h].at = "give" /\ thread'[h].at = "idle"
      /\ \A k \in Threads \ {h} : thread'[k] = thread[k]
      /\ gAllocatedBytes' = gAllocatedBytes - thread[h].bytes /\ UNCHANGED tensor
  BY <1>1, CallReturns DEF Given, IsAt
<1>3. LiveBytes' = LiveBytes /\ LiveBytes \in Nat
  BY <1>1, <1>2, HeldTypes DEF LiveBytes, Sizes
<1>4. Asked[h] = thread[h].bytes /\ Asked'[h] = 0
  BY <1>2 DEF Asked, IsCounting
<1>5. h \notin AtTake' /\ h \notin AtMalloc'
  BY <1>2 DEF AtTake, AtMalloc
<1>6. /\ LiveBytes' <= LiveBytes + (IF h \in AtMalloc THEN Asked[h] ELSE 0)
      /\ gAllocatedBytes' = gAllocatedBytes + (LiveBytes' - LiveBytes) + (Asked'[h] - Asked[h])
  BY <1>1, <1>2, <1>3, <1>4
<1> QED
  BY <1>1, <1>2, <1>3, <1>5, <1>6, CountLeaves

\* To begin with nothing is counted and nothing is there.
LEMMA CountStarts == CudaInit => CountInv
<1> SUFFICES ASSUME CudaInit PROVE CountInv
  OBVIOUS
<1>1. (\A t \in TensorNames : Sizes[t] = 0) /\ (\A h \in Threads : Asked[h] = 0) /\ AtTake = {} /\ AtMalloc = {}
  BY DEF CudaInit, Sizes, Asked, AtTake, AtMalloc, IsCounting, CudaIdle
<1>2. LiveBytes = 0 /\ SumOf(Asked, Threads) = 0
  BY <1>1, FiniteNames, SumOfNothing DEF LiveBytes
<1>3. Counted
  BY <1>2 DEF Counted, CudaInit
<1>4. RoomFor({})
  <2>1. AtMalloc \cup {} = {}
    BY <1>1
  <2>2. SumOf(Asked, AtMalloc \cup {}) = 0
    BY <2>1, SumEmpty
  <2>3. HeldBy({}) = 0
    BY <1>2, <2>2 DEF HeldBy
  <2> QED
    BY <2>3, CudaAssumption DEF RoomFor
<1> QED
  BY <1>1, <1>3, <1>4 DEF CountInv

\* Every step keeps the count, and the room.
LEMMA CountKeeps == CudaInv /\ CountInv /\ [CudaNext]_cudaVars => CountInv'
<1> SUFFICES ASSUME CudaInv, CountInv, [CudaNext]_cudaVars PROVE CountInv'
  OBVIOUS
<1>0. CudaInv'
  BY CudaKeeps
<1>1. CASE UNCHANGED <<tensor, thread, gAllocatedBytes>>
  <2>1. Sizes' = Sizes /\ Asked' = Asked /\ AtTake' = AtTake /\ AtMalloc' = AtMalloc
    BY <1>1 DEF Sizes, Asked, IsCounting, AtTake, AtMalloc
  <2>2. LiveBytes' = LiveBytes
    BY <2>1 DEF LiveBytes
  <2>3. \A S : HeldBy(S)' = HeldBy(S)
    BY <2>1, <2>2 DEF HeldBy
  <2>4. Counted'
    BY <1>1, <2>1, <2>2 DEF CountInv, Counted
  <2>5. \A S \in SUBSET AtTake' : RoomFor(S)'
    BY <1>1, <2>1, <2>3 DEF CountInv, RoomFor
  <2> QED
    BY <2>4, <2>5 DEF CountInv
<1>2. ASSUME NEW h \in Threads, CudaCall(h) PROVE CountInv'
  <2>1. ASSUME NEW x \in CudaTensors, NEW bytes \in CudaAsks, NEW s \in {Compute, CopyStream}, Take(h, <<h, x>>, bytes, s)
        PROVE  CountInv'
    <3>1. s \in Streams
      BY DEF Streams
    <3> QED
      BY <1>0, <2>1, <3>1, CountTakes
  <2>2. ASSUME NEW x \in CudaTensors, FreeCuda(h, <<h, x>>) PROVE CountInv'
    BY <1>0, <2>2, CountFrees
  <2>3. ASSUME NEW x \in CudaTensors,
               \/ Launch(h, <<h, x>>) \/ CompleteTransfer(h, <<h, x>>) \/ CompleteTransferSync(h, <<h, x>>)
               \/ \E n \in CudaChunks : TransferStaged(h, <<h, x>>, n)
        PROVE  CountInv'
    BY <1>0, <2>3, CountCallsAside
  <2> QED
    BY <1>2, <2>1, <2>2, <2>3 DEF CudaCall
<1>3. ASSUME NEW h \in Threads, CudaStep(h) PROVE CountInv'
  BY <1>0, <1>3, CountLooks, CountRefused, CountMallocs, CountGives, CountStepsAside DEF CudaStep
<1> QED
  BY <1>1, <1>2, <1>3 DEF CudaNext, DeviceWorks, cudaVars

\* The sums as they are written where they are stated.
IsSizes(g, S) ==
  g = [s \in SUBSET S |-> IF s = {} THEN 0
                          ELSE tensor[CHOOSE x \in s : TRUE].size + g[s \ {CHOOSE x \in s : TRUE}]]
IsBytes(g, S) ==
  g = [s \in SUBSET S |-> IF s = {} THEN 0
                          ELSE thread[CHOOSE x \in s : TRUE].bytes + g[s \ {CHOOSE x \in s : TRUE}]]

\* What the limit compares is what is live.
LEMMA LiveIs ==
  ASSUME CudaTyped
  PROVE  MapThenSumSet(LAMBDA t : tensor[t].size, CudaLive) = LiveBytes
<1> DEFINE iter == CHOOSE g : IsSizes(g, CudaLive)
<1>1. IsFiniteSet(TensorNames) /\ CudaLive \in SUBSET TensorNames /\ IsFiniteSet(CudaLive)
  BY FiniteNames, FS_Subset DEF CudaLive
<1>2. \A x \in CudaLive : Sizes[x] = tensor[x].size
  BY DEF CudaLive, Sizes
<1>3. \A g : IsSizes(g, CudaLive) <=> IsSums(g, Sizes, CudaLive)
  <2> SUFFICES ASSUME NEW g PROVE IsSizes(g, CudaLive) <=> IsSums(g, Sizes, CudaLive)
    OBVIOUS
  <2>1. \A s \in SUBSET CudaLive : s # {} => (CHOOSE x \in s : TRUE) \in s
    BY Zenon
  <2>2. \A s \in SUBSET CudaLive : s # {} => Sizes[CHOOSE x \in s : TRUE] = tensor[CHOOSE x \in s : TRUE].size
    BY <1>2, <2>1
  <2>3. [s \in SUBSET CudaLive |-> IF s = {} THEN 0
             ELSE tensor[CHOOSE x \in s : TRUE].size + g[s \ {CHOOSE x \in s : TRUE}]]
      = [s \in SUBSET CudaLive |-> IF s = {} THEN 0
             ELSE Sizes[CHOOSE x \in s : TRUE] + g[s \ {CHOOSE x \in s : TRUE}]]
    BY <2>2
  <2> QED
    BY <2>3 DEF IsSizes, IsSums
<1>4. \E g : IsSizes(g, CudaLive)
  BY <1>1, <1>3, SumsExist
<1>5. IsSizes(iter, CudaLive)
  BY <1>4, Zenon
<1>6. MapThenSumSet(LAMBDA t : tensor[t].size, CudaLive) = iter[CudaLive]
  BY Zenon DEF MapThenSumSet, MapThenFoldSet, IsSizes
<1> HIDE DEF iter
<1>7. IsSums(iter, Sizes, CudaLive)
  BY <1>3, <1>5
<1>8. PICK g : IsSums(g, Sizes, CudaLive) /\ SumOf(Sizes, CudaLive) = g[CudaLive]
  BY <1>1, SumIs
<1>9. \A t \in TensorNames : Sizes[t] \in Nat
  BY SizeTypes
<1>10. \A t \in CudaLive : Sizes[t] \in Nat
  BY <1>1, <1>9
<1>11. iter[CudaLive] = g[CudaLive]
  <2>1. CudaLive \in SUBSET CudaLive
    OBVIOUS
  <2> QED
    BY <1>1, <1>7, <1>8, <1>10, <2>1, SumsAgree
<1>12. \A t \in TensorNames \ CudaLive : Sizes[t] = 0
  BY DEF CudaLive, Sizes
<1>13. SumOf(Sizes, CudaLive) = SumOf(Sizes, TensorNames)
  BY <1>1, <1>9, <1>12, SumOfRest
<1> QED
  BY <1>6, <1>8, <1>11, <1>13 DEF LiveBytes

\* And what calls have counted.
LEMMA AskedIs ==
  ASSUME CudaTyped
  PROVE  MapThenSumSet(LAMBDA h : thread[h].bytes, {h \in Threads : thread[h].at \in {"take", "malloc", "give"}})
         = SumOf(Asked, Threads)
<1> DEFINE C == {h \in Threads : thread[h].at \in {"take", "malloc", "give"}}
           iter == CHOOSE g : IsBytes(g, C)
<1>1. IsFiniteSet(Threads) /\ C \in SUBSET Threads /\ IsFiniteSet(C)
  BY FiniteNames, FS_Subset
<1>2. \A x \in C : Asked[x] = thread[x].bytes
  BY DEF Asked, IsCounting
<1>12. \A h \in Threads \ C : Asked[h] = 0
  BY DEF Asked, IsCounting
<1>a. MapThenSumSet(LAMBDA h : thread[h].bytes, {h \in Threads : thread[h].at \in {"take", "malloc", "give"}})
      = MapThenSumSet(LAMBDA h : thread[h].bytes, C)
  BY Zenon
<1> HIDE DEF C
<1>3. \A g : IsBytes(g, C) <=> IsSums(g, Asked, C)
  <2> SUFFICES ASSUME NEW g PROVE IsBytes(g, C) <=> IsSums(g, Asked, C)
    OBVIOUS
  <2>1. \A s \in SUBSET C : s # {} => (CHOOSE x \in s : TRUE) \in s
    BY Zenon
  <2>2. \A s \in SUBSET C : s # {} => Asked[CHOOSE x \in s : TRUE] = thread[CHOOSE x \in s : TRUE].bytes
    BY <1>2, <2>1
  <2>3. [s \in SUBSET C |-> IF s = {} THEN 0
             ELSE thread[CHOOSE x \in s : TRUE].bytes + g[s \ {CHOOSE x \in s : TRUE}]]
      = [s \in SUBSET C |-> IF s = {} THEN 0
             ELSE Asked[CHOOSE x \in s : TRUE] + g[s \ {CHOOSE x \in s : TRUE}]]
    BY <2>2
  <2> QED
    BY <2>3 DEF IsBytes, IsSums
<1>4. \E g : IsBytes(g, C)
  BY <1>1, <1>3, SumsExist
<1>5. IsBytes(iter, C)
  BY <1>4, Zenon
<1>6. MapThenSumSet(LAMBDA h : thread[h].bytes, C) = iter[C]
  BY Zenon DEF MapThenSumSet, MapThenFoldSet, IsBytes
<1> HIDE DEF iter
<1>7. IsSums(iter, Asked, C)
  BY <1>3, <1>5
<1>8. PICK g : IsSums(g, Asked, C) /\ SumOf(Asked, C) = g[C]
  BY <1>1, SumIs
<1>9. \A h \in Threads : Asked[h] \in Nat
  BY SizeTypes
<1>10. \A h \in C : Asked[h] \in Nat
  BY <1>1, <1>9
<1>11. iter[C] = g[C]
  <2>1. C \in SUBSET C
    OBVIOUS
  <2> QED
    BY <1>1, <1>7, <1>8, <1>10, <2>1, SumsAgree
<1>13. SumOf(Asked, C) = SumOf(Asked, Threads)
  BY <1>1, <1>9, <1>12, SumOfRest
<1> QED
  BY <1>a, <1>6, <1>8, <1>11, <1>13

\* An event is a tensor's from when its copy is enqueued until the copy is taken, in the copy stream.
\* Only what is on the copy stream has an event of its copy to wait for.
EventsOfCopies ==
  \A t \in TensorNames :
    tensor[t] # NoData /\ tensor[t].copied # NoEvent => tensor[t].stream = CopyStream

\* Every step keeps the events of copies with the copy stream.
LEMMA EventsKept == CudaInv /\ EventsOfCopies /\ [CudaNext]_cudaVars => EventsOfCopies'
<1> SUFFICES ASSUME CudaInv, EventsOfCopies, [CudaNext]_cudaVars PROVE EventsOfCopies'
  OBVIOUS
<1>1. tensor \in [TensorNames -> {NoData} \cup Data]
  BY DEF CudaInv, CudaTyped
<1>2. CASE UNCHANGED tensor
  BY <1>2 DEF EventsOfCopies
<1>3. ASSUME NEW t \in TensorNames, \A u \in TensorNames \ {t} : tensor'[u] = tensor[u],
             tensor'[t] = NoData \/ tensor'[t].stream = CopyStream \/ tensor'[t].copied = NoEvent
      PROVE  EventsOfCopies'
  <2> SUFFICES ASSUME NEW u \in TensorNames, tensor'[u] # NoData, tensor'[u].copied # NoEvent
               PROVE  tensor'[u].stream = CopyStream
    BY DEF EventsOfCopies
  <2>1. CASE u = t
    BY <1>3, <2>1
  <2>2. CASE u # t
    BY <1>3, <2>2 DEF EventsOfCopies
  <2> QED
    BY <2>1, <2>2
<1>4. ASSUME NEW h \in Threads, Malloc(h) PROVE EventsOfCopies'
  <2>1. CallAt(h) /\ thread[h].at = "malloc"
    BY <1>4 DEF CudaInv, Calls, Malloc, IsAt
  <2>2. PICK t \in TensorNames : thread[h].name = t
    BY <2>1 DEF CallAt, TensorNames
  <2>3. PICK b : tensor' = [tensor EXCEPT ![t] = [block |-> b, size |-> thread[h].bytes,
                                                   stream |-> thread[h].stream, copied |-> NoEvent]]
    BY <1>4, <2>2 DEF Malloc
  <2>4. tensor'[t].copied = NoEvent /\ \A u \in TensorNames \ {t} : tensor'[u] = tensor[u]
    BY <1>1, <2>3
  <2> QED
    BY <1>3, <2>4
<1>5. ASSUME NEW h \in Threads, NEW x \in CudaTensors, FreeCuda(h, <<h, x>>) PROVE EventsOfCopies'
  <2>1. PICK t \in TensorNames : t = <<h, x>>
    BY DEF TensorNames
  <2>2. tensor'[t] = NoData /\ \A u \in TensorNames \ {t} : tensor'[u] = tensor[u]
    BY <1>1, <1>5, <2>1 DEF FreeCuda
  <2> QED
    BY <1>3, <2>2
<1>6. ASSUME NEW h \in Threads, StartTransferAsync(h) PROVE EventsOfCopies'
  <2>1. CallAt(h) /\ thread[h].at = "fetch"
    BY <1>6 DEF CudaInv, Calls, StartTransferAsync, IsAt
  <2>2. PICK t \in TensorNames : thread[h].name = t /\ tensor[t] # NoData /\ tensor[t].stream = CopyStream
    BY <2>1 DEF CallAt, TensorNames
  <2>3. tensor' = [tensor EXCEPT ![t].copied = [stream |-> CopyStream, at |-> issued']]
    BY <1>6, <2>2 DEF StartTransferAsync
  <2> DEFINE d == [tensor[t] EXCEPT !.copied = [stream |-> CopyStream, at |-> issued']]
  <2>4. tensor[t] \in Data
    BY <2>2, DataOf DEF CudaInv
  <2>5. d.stream = CopyStream
    BY <2>2, <2>4 DEF Data
  <2>6. tensor'[t] = d /\ \A u \in TensorNames \ {t} : tensor'[u] = tensor[u]
    BY <1>1, <2>3
  <2> HIDE DEF d
  <2> QED
    BY <1>3, <2>5, <2>6
<1>7. ASSUME NEW h \in Threads, NEW x \in CudaTensors,
             CompleteTransfer(h, <<h, x>>) \/ CompleteTransferSync(h, <<h, x>>)
      PROVE  EventsOfCopies'
  <2>1. PICK t \in TensorNames : t = <<h, x>>
    BY DEF TensorNames
  <2> DEFINE d == [tensor[t] EXCEPT !.stream = Compute, !.copied = NoEvent]
  <2>2. tensor[t] # NoData /\ tensor' = [tensor EXCEPT ![t].stream = Compute, ![t].copied = NoEvent]
    BY <1>7, <2>1 DEF CompleteTransfer, CompleteTransferSync, Fetching
  <2>3. tensor[t] \in Data
    BY <2>2, DataOf DEF CudaInv
  <2>4. d.copied = NoEvent
    BY <2>3 DEF Data
  <2>5. tensor'[t] = d /\ \A u \in TensorNames \ {t} : tensor'[u] = tensor[u]
    BY <1>1, <2>2
  <2> HIDE DEF d
  <2> QED
    BY <1>3, <2>4, <2>5
<1>8. ASSUME NEW h \in Threads, CudaCall(h) PROVE EventsOfCopies'
  BY <1>2, <1>5, <1>7, <1>8 DEF CudaCall, Take, Launch, TransferStaged
<1>9. ASSUME NEW h \in Threads, CudaStep(h) PROVE EventsOfCopies'
  BY <1>2, <1>4, <1>6, <1>9
     DEF CudaStep, WithinCudaLimit, CudaRefused, Given, LockStaging, FillBuffer, FillThen, SendBuffer, Copied
<1> QED
  BY <1>2, <1>8, <1>9 DEF CudaNext, DeviceWorks, cudaVars

\* The invariants give the types, the count and the limit.
LEMMA CountedInTypes ==
  ASSUME CudaInv, UploadInv, CountInv, EventsOfCopies
  PROVE  CudaTypeOK /\ CudaLimitHolds
<1>1. CudaTyped /\ LiveBytes \in Nat
  BY HeldTypes DEF CudaInv
<1>2. \A w \in work : w.n \in 1..issued
  BY <1>1, WorkOf DEF CudaTyped
<1>3. \A h \in Threads : staging = h <=> thread[h].at \in {"fill", "send"}
  BY DEF UploadInv, Locked, HasLock
<1>4. \A t \in CudaLive : tensor[t].copied # NoEvent => tensor[t].stream = CopyStream
  BY DEF EventsOfCopies, CudaLive
<1>5. gAllocatedBytes = MapThenSumSet(LAMBDA t : tensor[t].size, CudaLive)
                      + MapThenSumSet(LAMBDA h : thread[h].bytes,
                                      {h \in Threads : thread[h].at \in {"take", "malloc", "give"}})
  <2>1. gAllocatedBytes = LiveBytes + SumOf(Asked, Threads)
    BY DEF CountInv, Counted
  <2>2. MapThenSumSet(LAMBDA t : tensor[t].size, CudaLive) = LiveBytes
    BY <1>1, LiveIs
  <2>3. MapThenSumSet(LAMBDA h : thread[h].bytes, {h \in Threads : thread[h].at \in {"take", "malloc", "give"}})
        = SumOf(Asked, Threads)
    BY <1>1, AskedIs
  <2> QED
    BY <2>1, <2>2, <2>3, Zenon
<1>6. LiveBytes <= CudaLimit
  <2>1. {} \in SUBSET AtTake /\ {} \in SUBSET Threads
    OBVIOUS
  <2>2. HeldBy({}) <= CudaLimit
    BY <2>1 DEF CountInv, RoomFor
  <2>3. HeldBy({}) = LiveBytes + SumOf(Asked, AtMalloc \cup {}) /\ SumOf(Asked, AtMalloc \cup {}) \in Nat
    BY <1>1, <2>1, HeldTypes DEF HeldBy
  <2> QED
    BY <1>1, <2>2, <2>3, CudaAssumption
<1>7. CudaLimitHolds
  <2>1. MapThenSumSet(LAMBDA t : tensor[t].size, CudaLive) = LiveBytes
    BY <1>1, LiveIs
  <2> QED
    BY <1>6, <2>1, Zenon DEF CudaLimitHolds
<1> QED
  BY <1>2, <1>3, <1>4, <1>5, <1>7, Zenon DEF CudaTypeOK

\* Whatever threads interleave, the count is what tensors have and calls have counted, and what
\* tensors have is within the limit.
THEOREM CountsHold == CudaSpec => [](CudaTypeOK /\ CudaLimitHolds)
<1>1. CudaInit => EventsOfCopies
  BY DEF CudaInit, EventsOfCopies
<1>2. CudaInv /\ UploadInv /\ [CudaNext]_cudaVars => UploadInv'
  BY UploadSteps
<1>3. CudaInv /\ UploadInv /\ CountInv /\ EventsOfCopies => CudaTypeOK /\ CudaLimitHolds
  BY CountedInTypes
<1> QED
  BY <1>1, <1>2, <1>3, CudaStarts, CudaKeeps, UploadStarts, CountStarts, CountKeeps, EventsKept, PTL DEF CudaSpec

-----------------------------------------------------------------------------
(* VulkanContext. *)

VkThens  == {"idle", "drain", "upload", "limit", "again", "empty"}
VkPlaces == VkThens \cup {"wait", "create", "last"}
VkCalls  == [at : VkPlaces, then : VkThens, target : Nat, tensor : VkTensors \cup {"none"}, bytes : Nat]

\* Where the call is, or goes on once what it waits for is over.
VkDoing == IF vkCall.at = "wait" THEN vkCall.then ELSE vkCall.at

\* The last batch there is anything in.
LastBatch == IF numRecorded > 0 THEN submittedSerial + 1 ELSE submittedSerial
VkTotal   == SumOf(sizeOf, VkMemories)

\* What types come to, for the steps to work with.
VkTyped ==
  /\ numRecorded \in 0..(CommandsPerBatch - 1) /\ submittedSerial \in Nat
  /\ fenced \in 0..submittedSerial /\ completedSerial \in 0..fenced
  /\ segment \in 0..(Segments - 1) /\ offset \in 0..SegmentBytes
  /\ segmentSerial \in [0..(Segments - 1) -> Nat]
  /\ bufferOf \in [VkTensors -> VkMemories \cup {NoMemory}] /\ cache \in SUBSET VkMemories
  /\ sizeOf \in [VkMemories -> Nat] /\ vkLimit \in Nat
  /\ vkCall \in VkCalls

\* A command that is pending is in a batch that is not over, submitted or being recorded.
CommandKept(c) ==
  /\ c.batch \in Nat /\ c.batch > fenced /\ c.batch <= LastBatch
  /\ c.slots \in SUBSET RingBytes /\ c.buffers \in SUBSET VkMemories
Batched == \A c \in pending : CommandKept(c)

\* No command reads what is left of the segment in use, unless its batch is being waited for.
SlotKept(c, s) ==
  /\ c.batch <= segmentSerial[s[1]]
  /\ s[1] = segment /\ s[2] >= offset => vkCall.at = "wait" /\ c.batch <= vkCall.target
SlotsKept == \A c \in pending : \A s \in c.slots : SlotKept(c, s)
ReadOnce  == \A c, d \in pending : \A s \in c.slots \cap d.slots : c = d
SerialsKept == \A g \in 0..(Segments - 1) : segmentSerial[g] <= LastBatch

\* A memory there is is in the cache, or of one tensor.
Owning ==
  /\ cache \cap Owned = {} /\ (\A m \in VkMemories : sizeOf[m] > 0 <=> m \in cache \cup Owned)
  /\ \A t, u \in HasBuffer : bufferOf[t] = bufferOf[u] => t = u

\* A call waits only for what was submitted.
Waiting == vkCall.at = "wait" => completedSerial < vkCall.target /\ vkCall.target <= submittedSerial
\* A call that empties the cache waits for all there is, and finds nothing left.
Emptying ==
  VkDoing \in {"limit", "again", "empty"} =>
       /\ numRecorded = 0
       /\ vkCall.at = "wait" => vkCall.target = submittedSerial
       /\ vkCall.at # "wait" => pending = {}
\* An upload is into a buffer there is, and an allocation is for a tensor that has none.
Uploads == VkDoing = "upload" => vkCall.tensor \in HasBuffer
Allocating ==
  VkDoing \in {"create", "limit", "again", "last"} => vkCall.tensor \in VkTensors \ HasBuffer /\ vkCall.bytes > 0
\* A buffer that is about to be made has room, whatever was kept when it was asked for.
HasRoom == VkDoing \in {"create", "again", "last"} => vkLimit = 0 \/ VkTotal + vkCall.bytes <= vkLimit

\* The inductive invariant.
VkQueue == Batched /\ SlotsKept /\ ReadOnce /\ SerialsKept
VkOwned == Owning /\ UsedIsHeld
VkCalled == Waiting /\ Emptying /\ Uploads /\ Allocating /\ HasRoom
VkInv == VkTyped /\ VkQueue /\ VkOwned /\ VkCalled

-----------------------------------------------------------------------------
\* A size rounded up is no smaller.
LEMMA Rounding ==
  ASSUME NEW n \in Nat, NEW unit \in Nat \ {0}
  PROVE  RoundedUp(n, unit) \in Nat /\ RoundedUp(n, unit) >= n
<1> DEFINE q == (n + unit - 1) \div unit
           r == (n + unit - 1) % unit
<1>1. q \in Nat /\ r \in 0..(unit - 1) /\ n + unit - 1 = unit * q + r
  OBVIOUS
<1>2. q * unit \in Nat /\ q * unit = unit * q
  BY <1>1
<1>3. RoundedUp(n, unit) = q * unit
  BY DEF RoundedUp
<1> HIDE DEF q, r
<1> QED
  BY <1>1, <1>2, <1>3

\* The less of two numbers is one of them.
LEMMA LessOf ==
  ASSUME NEW a \in Int, NEW b \in Int
  PROVE  Min({a, b}) \in {a, b} /\ Min({a, b}) <= a /\ Min({a, b}) <= b
<1>1. \E x \in {a, b} : \A y \in {a, b} : x <= y
  <2>1. CASE a <= b
    BY <2>1
  <2>2. CASE ~(a <= b)
    BY <2>2
  <2> QED
    BY <2>1, <2>2
<1> DEFINE m == CHOOSE x \in {a, b} : \A y \in {a, b} : x <= y
<1>2. m \in {a, b} /\ \A y \in {a, b} : m <= y
  BY <1>1, Zenon
<1> QED
  BY <1>2 DEF Min

\* And so is the more of two.
LEMMA MoreOf ==
  ASSUME NEW a \in Int, NEW b \in Int
  PROVE  Max({a, b}) \in {a, b} /\ Max({a, b}) >= a /\ Max({a, b}) >= b
<1>1. \E x \in {a, b} : \A y \in {a, b} : x >= y
  <2>1. CASE a >= b
    BY <2>1
  <2>2. CASE ~(a >= b)
    BY <2>2
  <2> QED
    BY <2>1, <2>2
<1> DEFINE m == CHOOSE x \in {a, b} : \A y \in {a, b} : x >= y
<1>2. m \in {a, b} /\ \A y \in {a, b} : m >= y
  BY <1>1, Zenon
<1> QED
  BY <1>2 DEF Max

-----------------------------------------------------------------------------
(* The granule. *)

IsDoubling(f, bytes) ==
  f = [granule \in VkGranule..(VkGranule + bytes) |->
         IF granule * 16 <= bytes THEN f[granule * 2] ELSE granule]

\* The function the loop computes exists: it is over once the granule is past a sixteenth.
LEMMA DoublingExists ==
  ASSUME NEW bytes \in Nat
  PROVE  \E f : IsDoubling(f, bytes)
<1> DEFINE D == VkGranule..(VkGranule + bytes)
           Doubled(f) == [g \in D |-> IF g * 16 <= bytes THEN f[g * 2] ELSE g]
           From(f, n) == \A g \in D : g + n >= VkGranule + bytes => f[g] = Doubled(f)[g]
           Q == {n \in Nat : \E f : From(f, n)}
<1>1. VkGranule \in Nat /\ VkGranule >= 1
  BY VulkanAssumption
<1>2. \A g \in D : g \in Nat /\ (g * 16 <= bytes => g * 2 \in D /\ g * 2 >= g + 1)
  BY <1>1
<1>3. 0 \in Q
  <2> DEFINE z == [g \in D |-> g]
  <2>1. \A g \in D : g + 0 >= VkGranule + bytes => z[g] = Doubled(z)[g]
    BY <1>1
  <2> QED
    BY <2>1
<1>4. ASSUME NEW n \in Nat, n \in Q PROVE n + 1 \in Q
  <2>1. PICK f : From(f, n)
    BY <1>4
  <2>2. From(Doubled(f), n + 1)
    <3> SUFFICES ASSUME NEW g \in D, g + (n + 1) >= VkGranule + bytes
                 PROVE  Doubled(f)[g] = Doubled(Doubled(f))[g]
      OBVIOUS
    <3>1. CASE g * 16 <= bytes
      <4>1. g * 2 \in D /\ g * 2 + n >= VkGranule + bytes
        BY <1>1, <1>2, <3>1
      <4>2. f[g * 2] = Doubled(f)[g * 2]
        BY <2>1, <4>1
      <4> QED
        BY <3>1, <4>1, <4>2
    <3>2. CASE ~(g * 16 <= bytes)
      BY <3>2
    <3> QED
      BY <3>1, <3>2
  <2> HIDE DEF From
  <2> QED
    BY <2>2
<1>5. bytes \in Q
  <2> HIDE DEF Q
  <2> QED
    BY <1>3, <1>4, Counting
<1>6. PICK f : From(f, bytes)
  BY <1>5
<1>7. \A g \in D : f[g] = Doubled(f)[g]
  BY <1>1, <1>6
<1>8. \A g \in D : Doubled(f)[g] = Doubled(Doubled(f))[g]
  <2> SUFFICES ASSUME NEW g \in D PROVE Doubled(f)[g] = Doubled(Doubled(f))[g]
    OBVIOUS
  <2>1. CASE g * 16 <= bytes
    BY <1>2, <1>7, <2>1
  <2>2. CASE ~(g * 16 <= bytes)
    BY <2>2
  <2> QED
    BY <2>1, <2>2
<1>9. Doubled(f) = Doubled(Doubled(f))
  BY <1>8
<1> QED
  BY <1>9 DEF IsDoubling

\* The granule is a number, and not zero.
LEMMA GranuleIs ==
  ASSUME NEW bytes \in Nat
  PROVE  Granule(bytes) \in Nat \ {0}
<1> DEFINE doubled == CHOOSE f : IsDoubling(f, bytes)
           D == VkGranule..(VkGranule + bytes)
           Q == {n \in Nat : \A g \in D : g + n >= VkGranule + bytes => doubled[g] \in D}
<1>1. IsDoubling(doubled, bytes)
  BY DoublingExists, Zenon
<1>2. Granule(bytes) = doubled[VkGranule]
  BY Zenon DEF Granule, IsDoubling
<1> HIDE DEF doubled
<1>3. VkGranule \in Nat /\ VkGranule >= 1
  BY VulkanAssumption
<1>4. \A g \in D : doubled[g] = IF g * 16 <= bytes THEN doubled[g * 2] ELSE g
  BY <1>1 DEF IsDoubling
<1>5. \A g \in D : g \in Nat /\ (g * 16 <= bytes => g * 2 \in D /\ g * 2 >= g + 1)
  BY <1>3
<1>6. 0 \in Q
  <2> SUFFICES ASSUME NEW g \in D, g >= VkGranule + bytes PROVE doubled[g] \in D
    BY <1>3
  <2>1. ~(g * 16 <= bytes)
    BY <1>3
  <2> QED
    BY <1>4, <2>1
<1>7. ASSUME NEW n \in Nat, n \in Q PROVE n + 1 \in Q
  <2> SUFFICES ASSUME NEW g \in D, g + (n + 1) >= VkGranule + bytes PROVE doubled[g] \in D
    OBVIOUS
  <2>1. CASE g * 16 <= bytes
    <3>1. g * 2 \in D /\ g * 2 + n >= VkGranule + bytes
      BY <1>3, <1>5, <2>1
    <3>2. doubled[g * 2] \in D
      BY <1>7, <3>1
    <3> QED
      BY <1>4, <2>1, <3>2
  <2>2. CASE ~(g * 16 <= bytes)
    BY <1>4, <2>2
  <2> QED
    BY <2>1, <2>2
<1>8. bytes \in Q
  <2> HIDE DEF Q
  <2> QED
    BY <1>6, <1>7, Counting
<1>9. VkGranule \in D /\ VkGranule + bytes >= VkGranule + bytes
  BY <1>3
<1>10. doubled[VkGranule] \in D
  BY <1>8, <1>9
<1> QED
  BY <1>2, <1>3, <1>10

\* The size a request is rounded up to is not zero.
LEMMA ClassIs ==
  ASSUME NEW bytes \in VkAsks
  PROVE  SizeClass[bytes] \in Nat \ {0}
<1>1. bytes \in Nat \ {0} /\ Granule(bytes) \in Nat \ {0}
  BY VulkanAssumption, GranuleIs
<1>2. RoundedUp(bytes, Granule(bytes)) \in Nat /\ RoundedUp(bytes, Granule(bytes)) >= bytes
  BY <1>1, Rounding
<1> QED
  BY <1>1, <1>2 DEF SizeClass

-----------------------------------------------------------------------------
\* The constants of the context, and that a memory is not the lack of one.
LEMMA VkConstants ==
  /\ CommandsPerBatch \in Nat /\ CommandsPerBatch >= 1 /\ BatchesInFlight \in Nat /\ BatchesInFlight >= 1
  /\ Segments \in Nat /\ Segments >= 1 /\ SegmentBytes \in Nat /\ SegmentBytes >= 1
  /\ CopyUnit \in Nat \ {0} /\ IsFiniteSet(VkMemories) /\ NoMemory \notin VkMemories
BY VulkanAssumption DEF NoMemory

\* The serials come in their order, and the call is one of those there are.
LEMMA VkTypes ==
  ASSUME VkTyped
  PROVE  /\ numRecorded \in Nat /\ submittedSerial \in Nat /\ fenced \in Nat /\ completedSerial \in Nat
         /\ fenced <= submittedSerial /\ completedSerial <= fenced
         /\ LastBatch \in Nat /\ LastBatch >= submittedSerial /\ LastBatch <= submittedSerial + 1
         /\ vkCall.at \in VkPlaces /\ vkCall.then \in VkThens /\ vkCall.target \in Nat /\ vkCall.bytes \in Nat
BY VkConstants DEF VkTyped, VkCalls, LastBatch

\* A context between calls.
LEMMA IdleVk == VkIdle \in VkCalls /\ VkIdle.at = "idle"
BY DEF VkIdle, VkCalls, VkPlaces, VkThens

\* Submitted, there is no batch being recorded.
LEMMA Submitting ==
  ASSUME VkTyped, Submits
  PROVE  /\ numRecorded' = 0 /\ submittedSerial' \in Nat /\ submittedSerial' = LastBatch /\ LastBatch' = LastBatch
BY DEF VkTyped, Submits, LastBatch

\* A command that is recorded is in the batch after the last submitted.
LEMMA Recording ==
  ASSUME VkTyped, NEW taking, NEW buffers, Records(taking, buffers)
  PROVE  /\ \E c : /\ c.batch = submittedSerial + 1 /\ c.slots = taking /\ c.buffers = buffers
                   /\ pending' = pending \cup {c}
         /\ numRecorded' \in 0..(CommandsPerBatch - 1) /\ submittedSerial' \in Nat
         /\ LastBatch' = submittedSerial + 1 /\ LastBatch' >= LastBatch /\ submittedSerial' >= submittedSerial
<1> DEFINE c == [batch |-> submittedSerial + 1, n |-> numRecorded, slots |-> taking, buffers |-> buffers]
<1>1. c.batch = submittedSerial + 1 /\ c.slots = taking /\ c.buffers = buffers /\ pending' = pending \cup {c}
  BY DEF Records
<1> HIDE DEF c
<1>2. /\ numRecorded' \in 0..(CommandsPerBatch - 1) /\ submittedSerial' \in Nat
      /\ LastBatch' = submittedSerial + 1 /\ LastBatch' >= LastBatch /\ submittedSerial' >= submittedSerial
  BY VkConstants DEF VkTyped, Records, LastBatch
<1> QED
  BY <1>1, <1>2

\* What is waited for before the call goes on is at least what it asked for, and has been submitted.
LEMMA CallWaits ==
  ASSUME completedSerial \in Nat, submittedSerial' \in Nat, NEW target \in Nat, target <= submittedSerial',
         NEW call \in VkCalls, NEW where \in VkThens, WaitsThen(target, call, where)
  PROVE  /\ vkCall' \in VkCalls /\ VkDoing' = where
         /\ vkCall'.at = "wait" => /\ completedSerial < vkCall'.target /\ vkCall'.target <= submittedSerial'
                                   /\ target <= vkCall'.target
         /\ vkCall'.at # "wait" => target <= completedSerial
         /\ where # "idle" => vkCall'.tensor = call.tensor /\ vkCall'.bytes = call.bytes
<1>a. BatchesInFlight \in Nat
  BY VkConstants
<1>b. PICK most : most = Throttled
  OBVIOUS
<1>1. most \in Nat /\ most <= submittedSerial'
  <2>1. PICK all \in Nat : all = submittedSerial'
    OBVIOUS
  <2>2. most = IF all > BatchesInFlight THEN all - BatchesInFlight ELSE 0
    BY <1>b, <2>1 DEF Throttled
  <2>3. most \in Nat /\ most <= all
    BY <1>a, <2>2
  <2> QED
    BY <2>1, <2>3
<1> DEFINE last == Max({target, most})
<1>c. most \in Int /\ target \in Int
  BY <1>1
<1>d. last \in {target, most} /\ last >= target /\ last >= most
  BY <1>c, MoreOf
<1>2. last \in Nat /\ last >= target /\ last <= submittedSerial'
  BY <1>1, <1>d
<1>3. vkCall' = IF last > completedSerial THEN [call EXCEPT !.at = "wait", !.then = where, !.target = last]
                ELSE IF where = "idle" THEN VkIdle ELSE [call EXCEPT !.at = where]
  BY <1>b DEF WaitsThen
<1> HIDE DEF last
<1>4. CASE last > completedSerial
  <2> DEFINE r == [call EXCEPT !.at = "wait", !.then = where, !.target = last]
  <2>1. r \in VkCalls /\ r.at = "wait" /\ r.then = where /\ r.target = last
        /\ r.tensor = call.tensor /\ r.bytes = call.bytes
    BY <1>2 DEF VkCalls, VkPlaces
  <2>2. vkCall' = r
    BY <1>3, <1>4
  <2> HIDE DEF r
  <2> QED
    BY <1>2, <1>4, <2>1, <2>2 DEF VkDoing
<1>5. CASE ~(last > completedSerial) /\ where = "idle"
  BY <1>2, <1>3, <1>5, IdleVk DEF VkDoing
<1>6. CASE ~(last > completedSerial) /\ where # "idle"
  <2> DEFINE r == [call EXCEPT !.at = where]
  <2>1. r \in VkCalls /\ r.at = where /\ r.tensor = call.tensor /\ r.bytes = call.bytes
    BY DEF VkCalls, VkPlaces
  <2>2. vkCall' = r /\ where # "wait"
    BY <1>3, <1>6 DEF VkThens
  <2> HIDE DEF r
  <2> QED
    BY <1>2, <1>6, <2>1, <2>2 DEF VkDoing
<1> QED
  BY <1>4, <1>5, <1>6

-----------------------------------------------------------------------------
(* The queue. *)

\* A call that waits for nothing, and fills nothing of the ring.
LEMMA QueueQuiet ==
  ASSUME VkInv, vkCall.at # "wait", LastBatch' \in Nat, LastBatch' >= LastBatch,
         UNCHANGED <<fenced, ring>>,
         \A c \in pending' : c \in pending \/ (c.slots = {} /\ CommandKept(c)')
  PROVE  VkQueue'
<1>1. LastBatch \in Nat
  BY VkTypes DEF VkInv
<1>2. Batched'
  BY <1>1 DEF VkInv, VkQueue, Batched, CommandKept
<1>3. segmentSerial' = segmentSerial /\ segment' = segment /\ offset' = offset
  BY DEF ring
<1>4. SlotsKept'
  BY <1>3 DEF VkInv, VkQueue, SlotsKept, SlotKept
<1>5. ReadOnce'
  BY DEF VkInv, VkQueue, ReadOnce
<1>6. SerialsKept'
  BY <1>1, <1>3 DEF VkInv, VkQueue, SerialsKept, VkTyped
<1> QED
  BY <1>2, <1>4, <1>5, <1>6 DEF VkQueue

\* Where no memory changes, it is owned as it was.
LEMMA OwnedSame ==
  ASSUME VkInv, UNCHANGED memories, \A c \in pending' : c \in pending \/ \A m \in c.buffers : sizeOf[m] > 0
  PROVE  VkOwned' /\ HasBuffer' = HasBuffer /\ VkTotal' = VkTotal
BY DEF VkInv, VkOwned, memories, Owning, Owned, HasBuffer, UsedIsHeld, VkTotal

\* The device gets on to a batch.
LEMMA FenceKeeps == VkInv /\ Fence => VkInv'
<1> SUFFICES ASSUME VkInv, Fence PROVE VkInv'
  OBVIOUS
<1>1. VkTyped'
  BY VkTypes DEF VkInv, VkTyped, Fence, ring, memories
<1>2. fenced' = fenced + 1 /\ LastBatch' = LastBatch /\ pending' = {c \in pending : c.batch # fenced'}
      /\ UNCHANGED <<ring, memories, vkCall, completedSerial, submittedSerial, numRecorded>>
  BY DEF Fence, LastBatch
<1>3. Batched'
  BY <1>2, VkTypes DEF VkInv, VkQueue, Batched, CommandKept
<1>4. SlotsKept' /\ ReadOnce' /\ SerialsKept'
  BY <1>2 DEF VkInv, VkQueue, SlotsKept, SlotKept, ReadOnce, SerialsKept, ring
<1>5. VkOwned' /\ HasBuffer' = HasBuffer /\ VkTotal' = VkTotal
  BY <1>2, OwnedSame
<1>6. VkCalled'
  BY <1>2, <1>5 DEF VkInv, VkCalled, Waiting, Emptying, Uploads, Allocating, HasRoom, VkDoing, memories
<1> QED
  BY <1>1, <1>3, <1>4, <1>5, <1>6 DEF VkInv, VkQueue

\* Batches whose fences are signalled are retired.
LEMMA RetireKeeps == VkInv /\ Retire => VkInv'
<1> SUFFICES ASSUME VkInv, Retire PROVE VkInv'
  OBVIOUS
<1>1. /\ completedSerial' = completedSerial + 1 /\ fenced > completedSerial /\ vkCall.at = "wait"
      /\ UNCHANGED <<numRecorded, submittedSerial, fenced, pending, ring, memories>>
  BY DEF Retire
<1>2. /\ vkCall' \in VkCalls /\ VkDoing' = VkDoing
      /\ vkCall'.at = "wait" => vkCall' = vkCall /\ completedSerial' < vkCall.target
      /\ vkCall'.at # "wait" => completedSerial' >= vkCall.target
      /\ VkDoing # "idle" => vkCall'.tensor = vkCall.tensor /\ vkCall'.bytes = vkCall.bytes
  <2>1. vkCall \in VkCalls /\ completedSerial' \in Nat /\ vkCall.target \in Nat /\ vkCall.then \in VkThens
    BY <1>1, VkTypes DEF VkInv, VkTyped
  <2>2. CASE completedSerial' < vkCall.target
    BY <1>1, <2>1, <2>2 DEF Retire, VkDoing
  <2>3. CASE ~(completedSerial' < vkCall.target) /\ vkCall.then = "idle"
    BY <1>1, <2>1, <2>3, IdleVk DEF Retire, VkDoing
  <2>4. CASE ~(completedSerial' < vkCall.target) /\ vkCall.then # "idle"
    <3> DEFINE r == [vkCall EXCEPT !.at = vkCall.then]
    <3>1. r \in VkCalls /\ r.at = vkCall.then /\ r.tensor = vkCall.tensor /\ r.bytes = vkCall.bytes
      BY <2>1 DEF VkCalls, VkPlaces
    <3>2. vkCall' = r /\ vkCall.then # "wait"
      BY <2>1, <2>4 DEF Retire, VkThens
    <3> HIDE DEF r
    <3> QED
      BY <1>1, <2>1, <2>4, <3>1, <3>2 DEF VkDoing
  <2> QED
    BY <2>2, <2>3, <2>4
<1>3. VkTyped'
  BY <1>1, <1>2, VkTypes DEF VkInv, VkTyped, ring, memories
<1>4. ASSUME NEW c \in pending, vkCall'.at # "wait" PROVE c.batch > vkCall.target
  BY <1>1, <1>2, <1>4, VkTypes DEF VkInv, VkQueue, Batched, CommandKept
<1>5. LastBatch' = LastBatch /\ segment' = segment /\ offset' = offset /\ segmentSerial' = segmentSerial
  BY <1>1 DEF LastBatch, ring
<1>6. Batched' /\ ReadOnce' /\ SerialsKept'
  BY <1>1, <1>5 DEF VkInv, VkQueue, Batched, CommandKept, ReadOnce, SerialsKept
<1>7. SlotsKept'
  <2> SUFFICES ASSUME NEW c \in pending, NEW s \in c.slots PROVE SlotKept(c, s)'
    BY <1>1 DEF SlotsKept
  <2>1. SlotKept(c, s) /\ c.batch \in Nat /\ vkCall.target \in Nat
    BY VkTypes DEF VkInv, VkQueue, SlotsKept, Batched, CommandKept
  <2>2. CASE vkCall'.at = "wait"
    BY <1>2, <1>5, <2>1, <2>2 DEF SlotKept
  <2>3. CASE vkCall'.at # "wait"
    BY <1>4, <1>5, <2>1, <2>3 DEF SlotKept
  <2> QED
    BY <2>2, <2>3
<1>8. VkOwned' /\ HasBuffer' = HasBuffer /\ VkTotal' = VkTotal
  BY <1>1, OwnedSame
<1>9. Waiting'
  BY <1>1, <1>2 DEF VkInv, VkCalled, Waiting
<1>10. Emptying'
  <2> SUFFICES ASSUME VkDoing \in {"limit", "again", "empty"}
               PROVE  /\ numRecorded = 0 /\ (vkCall'.at = "wait" => vkCall'.target = submittedSerial)
                      /\ (vkCall'.at # "wait" => pending = {})
    BY <1>1, <1>2 DEF Emptying
  <2>1. numRecorded = 0 /\ vkCall.target = submittedSerial
    BY <1>1 DEF VkInv, VkCalled, Emptying
  <2>2. ASSUME vkCall'.at # "wait", NEW c \in pending PROVE FALSE
    <3>1. c.batch > submittedSerial
      BY <1>4, <2>1, <2>2
    <3>2. c.batch <= submittedSerial /\ c.batch \in Nat
      BY <2>1 DEF VkInv, VkQueue, Batched, CommandKept, LastBatch
    <3> QED
      BY <3>1, <3>2, VkTypes DEF VkInv
  <2> QED
    BY <1>2, <2>1, <2>2
<1>11. Uploads' /\ Allocating' /\ HasRoom'
  BY <1>1, <1>2, <1>8 DEF VkInv, VkCalled, Uploads, Allocating, HasRoom, memories
<1> QED
  BY <1>3, <1>6, <1>7, <1>8, <1>9, <1>10, <1>11 DEF VkInv, VkQueue, VkCalled

-----------------------------------------------------------------------------
(* Calls that submit and wait. *)

\* What a call that goes on to where needs of what it carries.
Carries(call, where) ==
  /\ where \in {"limit", "again"} => call.tensor \in VkTensors \ HasBuffer /\ call.bytes > 0
  /\ where = "again" => vkLimit = 0 \/ VkTotal + call.bytes <= vkLimit

\* A call that submits what there is and waits for all of it.
LEMMA SynchronizesKeeps ==
  ASSUME VkInv, vkCall.at # "wait", NEW call \in VkCalls, NEW where \in VkThens \ {"upload"}, Carries(call, where),
         Synchronizes(call, where), UNCHANGED <<completedSerial, fenced, pending, ring, memories>>
  PROVE  VkInv'
<1>1. /\ numRecorded' = 0 /\ submittedSerial' \in Nat /\ submittedSerial' = LastBatch /\ LastBatch' = LastBatch
      /\ LastBatch \in Nat /\ submittedSerial <= submittedSerial'
  BY Submitting, VkTypes DEF VkInv, Synchronizes
<1>2. /\ vkCall' \in VkCalls /\ VkDoing' = where
      /\ vkCall'.at = "wait" => /\ completedSerial < vkCall'.target /\ vkCall'.target <= submittedSerial'
                                /\ submittedSerial' <= vkCall'.target
      /\ vkCall'.at # "wait" => submittedSerial' <= completedSerial
      /\ where # "idle" => vkCall'.tensor = call.tensor /\ vkCall'.bytes = call.bytes
  <2>1. completedSerial \in Nat /\ submittedSerial' \in Nat /\ WaitsThen(submittedSerial', call, where)
    BY <1>1, VkTypes DEF VkInv, Synchronizes
  <2>2. PICK all \in Nat : all = submittedSerial'
    BY <1>1
  <2>3. all <= submittedSerial' /\ WaitsThen(all, call, where)
    BY <2>1, <2>2
  <2>4. /\ vkCall' \in VkCalls /\ VkDoing' = where
        /\ vkCall'.at = "wait" => /\ completedSerial < vkCall'.target /\ vkCall'.target <= submittedSerial'
                                  /\ all <= vkCall'.target
        /\ vkCall'.at # "wait" => all <= completedSerial
        /\ where # "idle" => vkCall'.tensor = call.tensor /\ vkCall'.bytes = call.bytes
    BY <2>1, <2>3, CallWaits
  <2> QED
    BY <2>2, <2>4
<1>3. VkTyped'
  <2>1. numRecorded' \in 0..(CommandsPerBatch - 1)
    BY <1>1, VkConstants
  <2>2. fenced' \in 0..submittedSerial'
    BY <1>1, VkTypes DEF VkInv
  <2> QED
    BY <1>1, <1>2, <2>1, <2>2 DEF VkInv, VkTyped, ring, memories
<1>4. VkQueue'
  BY <1>1, QueueQuiet
<1>5. VkOwned' /\ HasBuffer' = HasBuffer /\ VkTotal' = VkTotal
  BY OwnedSame
<1>6. Waiting'
  BY <1>2 DEF Waiting
<1>7. Emptying'
  <2>1. ASSUME vkCall'.at # "wait", NEW c \in pending PROVE FALSE
    <3>1. c.batch > fenced /\ c.batch <= LastBatch /\ c.batch \in Nat
      BY DEF VkInv, VkQueue, Batched, CommandKept
    <3>2. completedSerial <= fenced /\ completedSerial \in Nat /\ fenced \in Nat
      BY VkTypes DEF VkInv
    <3> QED
      BY <1>1, <1>2, <2>1, <3>1, <3>2
  <2>2. vkCall'.at = "wait" => vkCall'.target = submittedSerial'
    <3>1. vkCall'.target \in Nat
      BY <1>3 DEF VkTyped, VkCalls
    <3> QED
      BY <1>1, <1>2, <3>1
  <2> QED
    BY <1>1, <2>1, <2>2 DEF Emptying
<1>8. Uploads' /\ Allocating' /\ HasRoom'
  BY <1>2, <1>5 DEF Uploads, Allocating, HasRoom, Carries, memories, VkThens
<1> QED
  BY <1>3, <1>4, <1>5, <1>6, <1>7, <1>8 DEF VkInv, VkCalled

\* synchronize, the end of download, what empties the cache and what waits for it.
LEMMA SynchronizeKeeps ==
  ASSUME VkInv, VkSynchronize \/ Drain \/ ReleaseUnused \/ CreateFails
  PROVE  VkInv'
<1>1. vkCall \in VkCalls /\ VkIdle \in VkCalls
  BY IdleVk DEF VkInv, VkTyped
<1>2. ASSUME NEW where \in {"idle", "empty"} PROVE Carries(VkIdle, where) /\ Carries(vkCall, where)
  BY <1>2 DEF Carries
<1>3. CASE VkSynchronize
  BY <1>1, <1>2, <1>3, SynchronizesKeeps DEF VkSynchronize, VkThens
<1>4. CASE Drain
  BY <1>1, <1>2, <1>4, SynchronizesKeeps DEF Drain, VkThens
<1>5. CASE ReleaseUnused
  BY <1>1, <1>2, <1>5, SynchronizesKeeps DEF ReleaseUnused, VkThens
<1>6. CASE CreateFails
  <2>1. VkDoing = "create" /\ vkCall.at = "create"
    BY <1>6 DEF CreateFails, VkDoing
  <2>2. Carries(vkCall, "again")
    BY <2>1 DEF VkInv, VkCalled, Allocating, HasRoom, Carries
  <2> QED
    BY <1>1, <1>6, <2>1, <2>2, SynchronizesKeeps DEF CreateFails, VkThens
<1> QED
  BY <1>3, <1>4, <1>5, <1>6

-----------------------------------------------------------------------------
(* Commands that take nothing from the ring. *)

\* A command that uses buffers and no part of the ring.
LEMMA DispatchKeeps ==
  ASSUME VkInv, vkCall.at = "idle", NEW buffers \in SUBSET Owned, NEW where \in {"idle", "drain"},
         Records({}, buffers), WaitsThen(0, VkIdle, where), UNCHANGED <<completedSerial, fenced, ring, memories>>
  PROVE  VkInv'
<1>1. PICK c : /\ c.batch = submittedSerial + 1 /\ c.slots = {} /\ c.buffers = buffers
               /\ pending' = pending \cup {c}
  BY Recording DEF VkInv
<1>2. /\ numRecorded' \in 0..(CommandsPerBatch - 1) /\ submittedSerial' \in Nat
      /\ LastBatch' = submittedSerial + 1 /\ LastBatch' >= LastBatch /\ submittedSerial' >= submittedSerial
  BY Recording DEF VkInv
<1>3. /\ fenced \in Nat /\ completedSerial \in Nat /\ submittedSerial \in Nat /\ fenced <= submittedSerial
      /\ completedSerial <= fenced
  BY VkTypes DEF VkInv
<1>4. /\ vkCall' \in VkCalls /\ VkDoing' = where
      /\ vkCall'.at = "wait" => completedSerial < vkCall'.target /\ vkCall'.target <= submittedSerial'
  <2>1. 0 <= submittedSerial' /\ where \in VkThens /\ VkIdle \in VkCalls
    BY <1>2, IdleVk DEF VkThens
  <2> QED
    BY <1>2, <1>3, <2>1, CallWaits
<1>5. VkTyped'
  <2>1. fenced' \in 0..submittedSerial'
    BY <1>2, <1>3
  <2> QED
    BY <1>2, <1>4, <2>1 DEF VkInv, VkTyped, ring, memories
<1>6. Owned \subseteq VkMemories /\ \A m \in Owned : sizeOf[m] > 0
  BY DEF VkInv, VkTyped, VkOwned, Owning, Owned
<1>7. CommandKept(c)'
  <2>1. c.batch \in Nat /\ c.batch > fenced /\ c.batch <= LastBatch' /\ fenced' = fenced
    BY <1>1, <1>2, <1>3
  <2> QED
    BY <1>1, <1>6, <2>1 DEF CommandKept
<1>8. VkQueue'
  <2>1. LastBatch' \in Nat
    BY <1>2, <1>3
  <2> QED
    BY <1>1, <1>2, <1>7, <2>1, QueueQuiet
<1>9. VkOwned'
  BY <1>1, <1>6, OwnedSame
<1>10. VkCalled'
  BY <1>4 DEF VkCalled, Waiting, Emptying, Uploads, Allocating, HasRoom
<1> QED
  BY <1>5, <1>8, <1>9, <1>10 DEF VkInv

\* A dispatch, and the copy of a download.
LEMMA CommandsKeep ==
  ASSUME VkInv, \/ \E ts \in SUBSET HasBuffer : VkDispatch(ts)
                \/ \E t \in HasBuffer : Download(t)
  PROVE  VkInv'
<1>1. ASSUME NEW ts \in SUBSET HasBuffer, VkDispatch(ts) PROVE VkInv'
  <2> DEFINE buffers == {bufferOf[t] : t \in ts}
  <2>1. buffers \in SUBSET Owned
    BY DEF HasBuffer, Owned
  <2>2. Records({}, buffers) /\ WaitsThen(0, VkIdle, "idle") /\ vkCall.at = "idle"
        /\ UNCHANGED <<completedSerial, fenced, ring, memories>>
    BY <1>1 DEF VkDispatch, VkFree
  <2> HIDE DEF buffers
  <2> QED
    BY <2>1, <2>2, DispatchKeeps
<1>2. ASSUME NEW t \in HasBuffer, Download(t) PROVE VkInv'
  <2>1. {bufferOf[t]} \in SUBSET Owned
    BY DEF HasBuffer, Owned
  <2>2. Records({}, {bufferOf[t]}) /\ WaitsThen(0, VkIdle, "drain") /\ vkCall.at = "idle"
        /\ UNCHANGED <<completedSerial, fenced, ring, memories>>
    BY <1>2 DEF Download, VkFree
  <2> QED
    BY <2>1, <2>2, DispatchKeeps
<1> QED
  BY <1>1, <1>2

-----------------------------------------------------------------------------
(* The ring. *)

\* The next segment is taken once the batch it was last filled for is over.
LEMMA NextSegmentKeeps == VkInv /\ NextSegment => VkInv'
<1> SUFFICES ASSUME VkInv, NextSegment PROVE VkInv'
  OBVIOUS
<1> DEFINE next == (segment + 1) % Segments
<1>1. next \in 0..(Segments - 1)
  BY VkConstants DEF VkInv, VkTyped
<1>2. /\ vkCall.at = "upload" /\ segment' = next /\ offset' = 0
      /\ IF segmentSerial[next] > submittedSerial THEN Submits
         ELSE numRecorded' = numRecorded /\ submittedSerial' = submittedSerial
      /\ WaitsThen(segmentSerial[next], vkCall, "upload")
      /\ UNCHANGED <<completedSerial, fenced, pending, segmentSerial, memories>>
  BY DEF NextSegment
<1> HIDE DEF next
<1>3. PICK target \in Nat : target = segmentSerial[next]
  BY <1>1 DEF VkInv, VkTyped
<1>4. /\ submittedSerial \in Nat /\ completedSerial \in Nat /\ fenced \in Nat /\ LastBatch \in Nat
      /\ fenced <= submittedSerial /\ completedSerial <= fenced /\ submittedSerial <= LastBatch
  BY VkTypes DEF VkInv
<1>5. target <= LastBatch
  BY <1>1, <1>3 DEF VkInv, VkQueue, SerialsKept
<1>6. /\ numRecorded' \in 0..(CommandsPerBatch - 1) /\ submittedSerial' \in Nat
      /\ submittedSerial' >= submittedSerial /\ submittedSerial' >= target /\ LastBatch' = LastBatch
  <2>1. CASE target > submittedSerial
    <3>1. Submits
      BY <1>2, <1>3, <2>1
    <3>2. numRecorded' = 0 /\ submittedSerial' \in Nat /\ submittedSerial' = LastBatch /\ LastBatch' = LastBatch
      BY <3>1, Submitting DEF VkInv
    <3> QED
      BY <1>4, <1>5, <3>2, VkConstants
  <2>2. CASE ~(target > submittedSerial)
    <3>1. numRecorded' = numRecorded /\ submittedSerial' = submittedSerial
      BY <1>2, <1>3, <2>2
    <3> QED
      BY <1>3, <1>4, <2>2, <3>1 DEF VkInv, VkTyped, LastBatch
  <2> QED
    BY <2>1, <2>2
<1>7. /\ vkCall' \in VkCalls /\ VkDoing' = "upload"
      /\ vkCall'.at = "wait" => /\ completedSerial < vkCall'.target /\ vkCall'.target <= submittedSerial'
                                /\ target <= vkCall'.target
      /\ vkCall'.at # "wait" => target <= completedSerial
      /\ vkCall'.tensor = vkCall.tensor
  <2>1. vkCall \in VkCalls /\ "upload" \in VkThens /\ WaitsThen(target, vkCall, "upload") /\ target <= submittedSerial'
    BY <1>2, <1>3, <1>6 DEF VkInv, VkTyped, VkThens
  <2> QED
    BY <1>4, <1>6, <2>1, CallWaits
<1>8. VkTyped'
  <2>1. fenced' \in 0..submittedSerial' /\ offset' \in 0..SegmentBytes
    BY <1>2, <1>4, <1>6, VkConstants
  <2> QED
    BY <1>1, <1>2, <1>6, <1>7, <2>1 DEF VkInv, VkTyped, memories
<1>9. Batched' /\ ReadOnce' /\ SerialsKept'
  BY <1>2, <1>6 DEF VkInv, VkQueue, Batched, CommandKept, ReadOnce, SerialsKept
<1>10. SlotsKept'
  <2> SUFFICES ASSUME NEW c \in pending, NEW s \in c.slots PROVE SlotKept(c, s)'
    BY <1>2 DEF SlotsKept
  <2>1. c.batch <= segmentSerial[s[1]] /\ c.batch \in Nat /\ c.batch > fenced
    BY DEF VkInv, VkQueue, SlotsKept, SlotKept, Batched, CommandKept
  <2>2. ASSUME s[1] = next PROVE vkCall'.at = "wait" /\ c.batch <= vkCall'.target
    <3>1. c.batch <= target
      BY <1>3, <2>1, <2>2
    <3>2. vkCall'.at = "wait"
      BY <1>4, <1>7, <2>1, <3>1
    <3>3. vkCall'.target \in Nat
      BY <1>7 DEF VkCalls
    <3> QED
      BY <1>7, <2>1, <3>1, <3>2, <3>3
  <2> QED
    BY <1>2, <2>1, <2>2 DEF SlotKept
<1>11. VkOwned' /\ HasBuffer' = HasBuffer
  BY <1>2, OwnedSame
<1>12. VkCalled'
  <2>1. vkCall.tensor \in HasBuffer
    BY <1>2 DEF VkInv, VkCalled, Uploads, VkDoing
  <2> QED
    BY <1>2, <1>7, <1>11, <2>1 DEF VkCalled, Waiting, Emptying, Uploads, Allocating, HasRoom
<1> QED
  BY <1>8, <1>9, <1>10, <1>11, <1>12 DEF VkInv, VkQueue

\* What one chunk fills: within what is left of the segment, and read by nothing.
LEMMA ChunkFills ==
  ASSUME VkInv, UploadChunk
  PROVE  \E taking, c, chunk :
           /\ chunk \in Nat /\ chunk <= vkCall.bytes /\ offset' \in 0..SegmentBytes
           /\ offset' >= offset
           /\ taking \in SUBSET RingBytes
           /\ \A s \in taking : s[1] = segment /\ s[2] >= offset /\ s[2] < offset'
           /\ c.batch = submittedSerial + 1 /\ c.slots = taking /\ c.buffers = {bufferOf[vkCall.tensor]}
           /\ pending' = pending \cup {c}
           /\ WaitsThen(0, [vkCall EXCEPT !.bytes = vkCall.bytes - chunk],
                        IF vkCall.bytes - chunk = 0 THEN "idle" ELSE "upload")
<1>0. /\ SegmentBytes \in Nat /\ offset \in Nat /\ offset < SegmentBytes /\ segment \in 0..(Segments - 1)
      /\ vkCall.bytes \in Nat /\ CopyUnit \in Nat \ {0}
  BY VkConstants, VkTypes DEF VkInv, VkTyped, UploadChunk
<1>1. PICK chunk : chunk = Min({SegmentBytes - offset, vkCall.bytes})
  OBVIOUS
<1>2. chunk \in Nat /\ chunk <= vkCall.bytes /\ chunk <= SegmentBytes - offset
  <2>1. SegmentBytes - offset \in Int /\ SegmentBytes - offset >= 0 /\ vkCall.bytes \in Int
    BY <1>0
  <2>2. chunk \in {SegmentBytes - offset, vkCall.bytes} /\ chunk <= SegmentBytes - offset /\ chunk <= vkCall.bytes
    BY <1>1, <2>1, LessOf
  <2> QED
    BY <1>0, <2>1, <2>2
<1>3. PICK taking : taking = {segment} \X (offset..(offset + chunk - 1))
  OBVIOUS
<1>4. PICK up : up = RoundedUp(offset + chunk, CopyUnit)
  OBVIOUS
<1>5. up \in Nat /\ up >= offset + chunk
  BY <1>0, <1>2, <1>4, Rounding
<1>6. offset' = Min({SegmentBytes, up})
  BY <1>1, <1>4 DEF UploadChunk
<1>7. offset' \in 0..SegmentBytes /\ offset' >= offset + chunk
  <2>1. PICK after : after = Min({SegmentBytes, up})
    OBVIOUS
  <2>a. SegmentBytes \in Int /\ up \in Int
    BY <1>0, <1>5
  <2>b. Min({SegmentBytes, up}) \in {SegmentBytes, up} /\ Min({SegmentBytes, up}) <= SegmentBytes
        /\ Min({SegmentBytes, up}) <= up
    BY <2>a, LessOf
  <2>2. after \in {SegmentBytes, up} /\ after <= SegmentBytes /\ after <= up
    BY <2>1, <2>b
  <2>3. after \in 0..SegmentBytes /\ after >= offset + chunk
    BY <1>0, <1>2, <1>5, <2>2
  <2> QED
    BY <1>6, <2>1, <2>3
<1>8. taking \in SUBSET RingBytes
  BY <1>0, <1>2, <1>3 DEF RingBytes
<1>9. \A s \in taking : s[1] = segment /\ s[2] >= offset /\ s[2] < offset'
  <2> SUFFICES ASSUME NEW s \in taking PROVE s[1] = segment /\ s[2] >= offset /\ s[2] < offset'
    OBVIOUS
  <2>1. s[1] = segment /\ s[2] \in offset..(offset + chunk - 1)
    BY <1>3
  <2>2. PICK after \in Nat : after = offset'
    BY <1>7
  <2>3. after >= offset + chunk
    BY <1>7, <2>2
  <2>4. s[2] >= offset /\ s[2] < after
    BY <1>0, <1>2, <2>1, <2>3
  <2> QED
    BY <2>1, <2>2, <2>4
<1>10. Records(taking, {bufferOf[vkCall.tensor]})
  BY <1>1, <1>3 DEF UploadChunk
<1>11. PICK c : /\ c.batch = submittedSerial + 1 /\ c.slots = taking /\ c.buffers = {bufferOf[vkCall.tensor]}
                /\ pending' = pending \cup {c}
  BY <1>10, Recording DEF VkInv
<1>12. WaitsThen(0, [vkCall EXCEPT !.bytes = vkCall.bytes - chunk],
                 IF vkCall.bytes - chunk = 0 THEN "idle" ELSE "upload")
  BY <1>1 DEF UploadChunk
<1>13. offset' >= offset
  <2>1. PICK after \in Nat : after = offset'
    BY <1>7
  <2>2. after >= offset
    BY <1>0, <1>2, <1>7, <2>1
  <2> QED
    BY <2>1, <2>2
<1> QED
  BY <1>2, <1>7, <1>8, <1>9, <1>11, <1>12, <1>13

\* A chunk of an upload is copied into what is left of the segment, which nothing reads.
LEMMA ChunkKeeps == VkInv /\ UploadChunk => VkInv'
<1> SUFFICES ASSUME VkInv, UploadChunk PROVE VkInv'
  OBVIOUS
<1>1. PICK taking, c, chunk :
           /\ chunk \in Nat /\ chunk <= vkCall.bytes /\ offset' \in 0..SegmentBytes
           /\ offset' >= offset
           /\ taking \in SUBSET RingBytes
           /\ \A s \in taking : s[1] = segment /\ s[2] >= offset /\ s[2] < offset'
           /\ c.batch = submittedSerial + 1 /\ c.slots = taking /\ c.buffers = {bufferOf[vkCall.tensor]}
           /\ pending' = pending \cup {c}
           /\ WaitsThen(0, [vkCall EXCEPT !.bytes = vkCall.bytes - chunk],
                        IF vkCall.bytes - chunk = 0 THEN "idle" ELSE "upload")
  BY ChunkFills
<1>2. /\ vkCall.at = "upload" /\ segmentSerial' = [segmentSerial EXCEPT ![segment] = submittedSerial + 1]
      /\ UNCHANGED <<completedSerial, fenced, segment, memories>>
      /\ \E s, b : Records(s, b)
  BY DEF UploadChunk
<1>3. /\ numRecorded' \in 0..(CommandsPerBatch - 1) /\ submittedSerial' \in Nat
      /\ LastBatch' = submittedSerial + 1 /\ LastBatch' >= LastBatch /\ submittedSerial' >= submittedSerial
  BY <1>2, Recording DEF VkInv
<1>4. /\ submittedSerial \in Nat /\ completedSerial \in Nat /\ fenced \in Nat /\ LastBatch \in Nat
      /\ fenced <= submittedSerial /\ completedSerial <= fenced /\ LastBatch <= submittedSerial + 1
      /\ vkCall.bytes \in Nat /\ vkCall \in VkCalls
  BY VkTypes DEF VkInv, VkTyped
<1>5. PICK where \in {"idle", "upload"} : where = IF vkCall.bytes - chunk = 0 THEN "idle" ELSE "upload"
  OBVIOUS
<1>6. PICK call \in VkCalls : call = [vkCall EXCEPT !.bytes = vkCall.bytes - chunk] /\ call.tensor = vkCall.tensor
  <2>1. PICK left \in Nat : left = vkCall.bytes - chunk
    BY <1>1, <1>4
  <2> DEFINE r == [vkCall EXCEPT !.bytes = left]
  <2>2. r \in VkCalls /\ r.tensor = vkCall.tensor
    BY <1>4, <2>1 DEF VkCalls
  <2>3. r = [vkCall EXCEPT !.bytes = vkCall.bytes - chunk]
    BY <2>1
  <2> HIDE DEF r
  <2> QED
    BY <2>2, <2>3
<1>7. /\ vkCall' \in VkCalls /\ VkDoing' = where
      /\ vkCall'.at = "wait" => completedSerial < vkCall'.target /\ vkCall'.target <= submittedSerial'
      /\ where # "idle" => vkCall'.tensor = vkCall.tensor
  <2>1. 0 <= submittedSerial' /\ where \in VkThens
    BY <1>3 DEF VkThens
  <2>2. WaitsThen(0, call, where)
    BY <1>1, <1>5, <1>6
  <2> QED
    BY <1>3, <1>4, <1>6, <2>1, <2>2, CallWaits
<1>8. segment \in 0..(Segments - 1) /\ segmentSerial \in [0..(Segments - 1) -> Nat] /\ offset \in Nat
  BY VkConstants DEF VkInv, VkTyped
<1>9. VkTyped'
  <2>1. fenced' \in 0..submittedSerial'
    BY <1>2, <1>3, <1>4
  <2>2. segmentSerial' \in [0..(Segments - 1) -> Nat]
    BY <1>2, <1>4, <1>8
  <2> QED
    BY <1>1, <1>2, <1>3, <1>7, <2>1, <2>2 DEF VkInv, VkTyped, memories
<1>10. vkCall.tensor \in HasBuffer
  BY <1>2 DEF VkInv, VkCalled, Uploads, VkDoing
<1>11. bufferOf[vkCall.tensor] \in VkMemories /\ sizeOf[bufferOf[vkCall.tensor]] > 0
  <2>1. bufferOf[vkCall.tensor] \in Owned /\ bufferOf[vkCall.tensor] \in VkMemories
    BY <1>10 DEF HasBuffer, Owned, VkInv, VkTyped
  <2> QED
    BY <2>1 DEF VkInv, VkOwned, Owning
<1>12. CommandKept(c)'
  <2>1. c.batch \in Nat /\ c.batch > fenced /\ c.batch <= LastBatch' /\ fenced' = fenced
    BY <1>1, <1>2, <1>3, <1>4
  <2> QED
    BY <1>1, <1>11, <2>1 DEF CommandKept
<1>13. Batched'
  <2>1. ASSUME NEW d \in pending PROVE CommandKept(d)'
    BY <1>2, <1>3, <1>4 DEF VkInv, VkQueue, Batched, CommandKept
  <2> QED
    BY <1>1, <1>12, <2>1 DEF Batched
<1>14. ASSUME NEW d \in pending, NEW s \in d.slots PROVE ~(s[1] = segment /\ s[2] >= offset)
  BY <1>2 DEF VkInv, VkQueue, SlotsKept, SlotKept
<1>15. SlotsKept'
  <2>1. ASSUME NEW d \in pending, NEW s \in d.slots PROVE SlotKept(d, s)'
    <3>1. /\ d.batch <= segmentSerial[s[1]] /\ d.batch \in Nat /\ d.batch <= LastBatch
          /\ s[1] \in 0..(Segments - 1) /\ s[2] \in Nat
      BY DEF VkInv, VkQueue, SlotsKept, SlotKept, Batched, CommandKept, RingBytes
    <3>2. d.batch <= segmentSerial'[s[1]]
      BY <1>2, <1>4, <1>8, <3>1
    <3>3. ~(s[1] = segment /\ s[2] >= offset')
      <4>1. PICK after \in Nat : after = offset'
        BY <1>1
      <4> QED
        BY <1>1, <1>8, <1>14, <3>1, <4>1
    <3> QED
      BY <1>2, <3>2, <3>3 DEF SlotKept
  <2>2. ASSUME NEW s \in taking PROVE SlotKept(c, s)'
    <3>1. s[1] = segment /\ s[2] < offset' /\ s[2] \in Nat
      BY <1>1 DEF RingBytes
    <3>2. segmentSerial'[segment] = submittedSerial + 1
      BY <1>2, <1>8
    <3>3. c.batch <= segmentSerial'[s[1]]
      BY <1>1, <1>4, <3>1, <3>2
    <3>4. ~(s[2] >= offset')
      <4>1. PICK after \in Nat : after = offset'
        BY <1>1
      <4> QED
        BY <3>1, <4>1
    <3> QED
      BY <3>3, <3>4 DEF SlotKept
  <2> QED
    BY <1>1, <2>1, <2>2 DEF SlotsKept
<1>16. ReadOnce'
  <2> SUFFICES ASSUME NEW a \in pending', NEW b \in pending', NEW s \in a.slots \cap b.slots PROVE a = b
    BY DEF ReadOnce
  <2>1. ASSUME NEW d \in pending, s \in d.slots PROVE s \notin taking
    BY <1>1, <1>14, <2>1
  <2> QED
    BY <1>1, <2>1 DEF VkInv, VkQueue, ReadOnce
<1>17. SerialsKept'
  <2> SUFFICES ASSUME NEW g \in 0..(Segments - 1) PROVE segmentSerial'[g] <= LastBatch'
    BY DEF SerialsKept
  <2>1. segmentSerial[g] <= LastBatch /\ segmentSerial[g] \in Nat
    BY <1>8 DEF VkInv, VkQueue, SerialsKept
  <2>2. segmentSerial'[g] = submittedSerial + 1 \/ segmentSerial'[g] = segmentSerial[g]
    BY <1>2, <1>8
  <2> QED
    BY <1>3, <1>4, <2>1, <2>2
<1>18. VkOwned' /\ HasBuffer' = HasBuffer
  BY <1>1, <1>2, <1>11, OwnedSame
<1>19. VkCalled'
  BY <1>2, <1>7, <1>10, <1>18 DEF VkCalled, Waiting, Emptying, Uploads, Allocating, HasRoom
<1> QED
  BY <1>9, <1>13, <1>15, <1>16, <1>17, <1>18, <1>19 DEF VkInv, VkQueue

-----------------------------------------------------------------------------
(* Memory. *)

\* Neither the queue nor the ring is touched.
LEMMA QueueAside ==
  ASSUME VkInv, vkCall.at # "wait", UNCHANGED <<batches, ring>>
  PROVE  VkQueue'
<1>1. LastBatch' = LastBatch /\ LastBatch \in Nat /\ pending' = pending
  BY VkTypes DEF VkInv, batches, LastBatch
<1>2. fenced' = fenced /\ UNCHANGED ring
  BY DEF batches
<1>3. LastBatch' \in Nat /\ LastBatch' >= LastBatch
  BY <1>1
<1> QED
  BY <1>1, <1>2, <1>3, QueueQuiet

\* What is live and what is cached is all there is.
LEMMA TotalIs ==
  ASSUME VkTyped, Owning
  PROVE  /\ VkTotal \in Nat /\ Allocated \in Nat /\ BytesIn(cache) \in Nat /\ VkTotal = Allocated + BytesIn(cache)
<1> DEFINE both == Owned \cup cache
<1>1. IsFiniteSet(VkMemories) /\ (\A m \in VkMemories : sizeOf[m] \in Nat)
      /\ Owned \in SUBSET VkMemories /\ cache \in SUBSET VkMemories
  BY VkConstants DEF VkTyped, Owned
<1>2. IsFiniteSet(Owned) /\ IsFiniteSet(cache)
  BY <1>1, FS_Subset
<1>3. both \in SUBSET VkMemories /\ \A m \in VkMemories \ both : sizeOf[m] = 0
  BY <1>1 DEF Owning
<1>4. SumOf(sizeOf, both) = VkTotal
  BY <1>1, <1>3, SumOfRest DEF VkTotal
<1>5. SumOf(sizeOf, Owned \cup cache) = SumOf(sizeOf, Owned) + SumOf(sizeOf, cache)
  <2>1. Owned \cap cache = {} /\ \A m \in Owned \cup cache : sizeOf[m] \in Nat
    BY <1>1 DEF Owning
  <2> QED
    BY <1>2, <2>1, SumJoins
<1>6. SumOf(sizeOf, Owned) \in Nat /\ SumOf(sizeOf, cache) \in Nat /\ SumOf(sizeOf, VkMemories) \in Nat
  BY <1>1, SumOfFewer
<1> QED
  BY <1>4, <1>5, <1>6 DEF VkTotal, Allocated, BytesIn, SumOf

\* An emptied cache leaves what tensors have.
LEMMA EmptiedIsOwned ==
  ASSUME VkInv, EmptiesCache, bufferOf' = bufferOf, pending' = {}
  PROVE  /\ VkOwned' /\ HasBuffer' = HasBuffer /\ VkTotal' = Allocated
         /\ sizeOf' \in [VkMemories -> Nat] /\ cache' = {}
<1>1. sizeOf' = [m \in VkMemories |-> IF m \in cache THEN 0 ELSE sizeOf[m]] /\ cache' = {}
      /\ sizeOf \in [VkMemories -> Nat] /\ Owned \in SUBSET VkMemories /\ IsFiniteSet(VkMemories)
  BY VkConstants DEF EmptiesCache, VkInv, VkTyped, Owned
<1>2. sizeOf' \in [VkMemories -> Nat]
  BY <1>1
<1>3. Owned' = Owned /\ HasBuffer' = HasBuffer
  BY DEF Owned, HasBuffer
<1>4. Owning'
  <2>1. \A m \in VkMemories : sizeOf'[m] > 0 <=> m \in Owned
    BY <1>1 DEF VkInv, VkOwned, Owning
  <2> QED
    BY <1>1, <1>3, <2>1 DEF VkInv, VkOwned, Owning, HasBuffer
<1>5. UsedIsHeld'
  BY DEF UsedIsHeld
<1>6. VkTotal' = Allocated
  <2> DEFINE G == sizeOf'
  <2>1. /\ \A m \in VkMemories : G[m] \in Nat
        /\ \A m \in Owned : sizeOf[m] \in Nat /\ sizeOf[m] = G[m]
        /\ \A m \in VkMemories \ Owned : G[m] = 0
    BY <1>1 DEF VkInv, VkOwned, Owning
  <2>2. VkTotal' = SumOf(G, VkMemories)
    BY DEF VkTotal
  <2> HIDE DEF G
  <2>3. SumOf(G, Owned) = SumOf(G, VkMemories)
    BY <1>1, <2>1, SumOfRest
  <2>4. IsFiniteSet(Owned)
    BY <1>1, FS_Subset
  <2>5. SumOf(sizeOf, Owned) = SumOf(G, Owned)
    BY <2>1, <2>4, SumSame
  <2> QED
    BY <2>2, <2>3, <2>5 DEF Allocated, BytesIn, SumOf
<1> QED
  BY <1>1, <1>2, <1>3, <1>4, <1>5, <1>6 DEF VkOwned

\* The cache is emptied, for a limit, after a failure or when asked.
LEMMA EmptyKeeps ==
  ASSUME VkInv, Limit \/ EmptyThenAgain \/ EmptyCache
  PROVE  VkInv'
<1>1. vkCall.at \in {"limit", "again", "empty"} /\ EmptiesCache /\ UNCHANGED <<batches, ring, bufferOf, vkLimit>>
  BY DEF Limit, EmptyThenAgain, EmptyCache
<1>2. pending = {} /\ numRecorded = 0 /\ VkDoing = vkCall.at
  BY <1>1 DEF VkInv, VkCalled, Emptying, VkDoing
<1>3. pending' = {} /\ completedSerial' = completedSerial /\ submittedSerial' = submittedSerial
  BY <1>1, <1>2 DEF batches
<1>4. /\ VkOwned' /\ HasBuffer' = HasBuffer /\ VkTotal' = Allocated
      /\ sizeOf' \in [VkMemories -> Nat] /\ cache' = {}
  BY <1>1, <1>3, EmptiedIsOwned
<1>5. /\ VkTotal \in Nat /\ Allocated \in Nat /\ Allocated <= VkTotal /\ vkLimit \in Nat /\ vkCall \in VkCalls
      /\ vkCall.bytes \in Nat
  <2>1. /\ VkTotal \in Nat /\ Allocated \in Nat /\ BytesIn(cache) \in Nat /\ VkTotal = Allocated + BytesIn(cache)
    BY TotalIs DEF VkInv, VkOwned
  <2> QED
    BY <2>1, VkTypes DEF VkInv, VkTyped
<1>6. \/ vkCall' = VkIdle
      \/ /\ vkCall' \in VkCalls /\ vkCall'.tensor = vkCall.tensor /\ vkCall'.bytes = vkCall.bytes
         /\ vkCall'.at \in {"create", "last"} /\ vkCall.at \in {"limit", "again"}
         /\ vkLimit = 0 \/ Allocated + vkCall.bytes <= vkLimit
  <2>1. CASE EmptyCache
    BY <2>1 DEF EmptyCache
  <2>2. CASE Limit /\ OverLimit(0, vkCall.bytes)
    BY <2>2 DEF Limit
  <2>3. CASE Limit /\ ~OverLimit(0, vkCall.bytes)
    <3> DEFINE r == [vkCall EXCEPT !.at = "create"]
    <3>1. r \in VkCalls /\ r.tensor = vkCall.tensor /\ r.bytes = vkCall.bytes /\ r.at = "create"
      BY <1>5 DEF VkCalls, VkPlaces
    <3>2. vkCall' = r /\ vkCall.at = "limit"
      BY <2>3 DEF Limit
    <3>3. vkLimit = 0 \/ Allocated + vkCall.bytes <= vkLimit
      BY <1>5, <2>3 DEF OverLimit
    <3> HIDE DEF r
    <3> QED
      BY <3>1, <3>2, <3>3
  <2>4. CASE EmptyThenAgain
    <3> DEFINE r == [vkCall EXCEPT !.at = "last"]
    <3>1. r \in VkCalls /\ r.tensor = vkCall.tensor /\ r.bytes = vkCall.bytes /\ r.at = "last"
      BY <1>5 DEF VkCalls, VkPlaces
    <3>2. vkCall' = r /\ vkCall.at = "again"
      BY <2>4 DEF EmptyThenAgain
    <3>3. vkLimit = 0 \/ VkTotal + vkCall.bytes <= vkLimit
      BY <1>2, <3>2 DEF VkInv, VkCalled, HasRoom
    <3>4. vkLimit = 0 \/ Allocated + vkCall.bytes <= vkLimit
      BY <1>5, <3>3
    <3> HIDE DEF r
    <3> QED
      BY <3>1, <3>2, <3>4
  <2> QED
    BY <2>1, <2>2, <2>3, <2>4
<1>7. vkCall' \in VkCalls /\ vkCall'.at # "wait" /\ VkDoing' = vkCall'.at
  BY <1>6, IdleVk DEF VkDoing
<1>8. VkTyped'
  BY <1>1, <1>4, <1>7 DEF VkInv, VkTyped, batches, ring
<1>9. VkQueue'
  BY <1>1, QueueAside
<1>10. VkCalled'
  <2>1. CASE vkCall' = VkIdle
    BY <1>7, <2>1, IdleVk DEF VkCalled, Waiting, Emptying, Uploads, Allocating, HasRoom
  <2>2. CASE vkCall' # VkIdle
    <3>1. vkCall.tensor \in VkTensors \ HasBuffer /\ vkCall.bytes > 0
      BY <1>2, <1>6, <2>2 DEF VkInv, VkCalled, Allocating
    <3> QED
      BY <1>1, <1>4, <1>6, <1>7, <2>2, <3>1 DEF VkCalled, Waiting, Emptying, Uploads, Allocating, HasRoom
  <2> QED
    BY <2>1, <2>2
<1> QED
  BY <1>4, <1>8, <1>9, <1>10 DEF VkInv

\* A buffer the device gives is new, and there was room for it.
LEMMA CreateMakes ==
  ASSUME VkInv, Create
  PROVE  /\ VkInv'
         /\ vkLimit = 0 \/ VkTotal' <= vkLimit
<1>1. PICK m \in VkMemories : /\ sizeOf[m] = 0
                              /\ sizeOf' = [sizeOf EXCEPT ![m] = vkCall.bytes]
                              /\ bufferOf' = [bufferOf EXCEPT ![vkCall.tensor] = m]
  BY DEF Create
<1>2. /\ vkCall.at \in {"create", "last"} /\ vkCall' = VkIdle /\ UNCHANGED <<batches, ring, cache, vkLimit>>
      /\ VkDoing = vkCall.at
  BY DEF Create, VkDoing
<1>3. PICK t \in VkTensors : t = vkCall.tensor /\ t \notin HasBuffer /\ vkCall.bytes > 0
  BY <1>2 DEF VkInv, VkCalled, Allocating
<1>4. PICK bytes \in Nat : bytes = vkCall.bytes /\ bytes > 0
  BY <1>3, VkTypes DEF VkInv
<1>5. /\ sizeOf \in [VkMemories -> Nat] /\ bufferOf \in [VkTensors -> VkMemories \cup {NoMemory}]
      /\ cache \in SUBSET VkMemories /\ vkLimit \in Nat /\ IsFiniteSet(VkMemories) /\ NoMemory \notin VkMemories
  BY VkConstants DEF VkInv, VkTyped
<1>6. /\ sizeOf' \in [VkMemories -> Nat] /\ sizeOf'[m] = bytes /\ (\A k \in VkMemories \ {m} : sizeOf'[k] = sizeOf[k])
      /\ bufferOf' \in [VkTensors -> VkMemories \cup {NoMemory}] /\ bufferOf'[t] = m
      /\ \A u \in VkTensors \ {t} : bufferOf'[u] = bufferOf[u]
  BY <1>1, <1>3, <1>4, <1>5
<1>7. m \notin cache /\ m \notin Owned /\ bufferOf[t] = NoMemory
  BY <1>1, <1>3 DEF VkInv, VkOwned, Owning, HasBuffer
<1>8. Owned' = Owned \cup {m} /\ HasBuffer' = HasBuffer \cup {t}
  BY <1>3, <1>5, <1>6, <1>7 DEF Owned, HasBuffer
<1>9. Owning'
  <2>1. cache' \cap Owned' = {}
    BY <1>2, <1>7, <1>8 DEF VkInv, VkOwned, Owning
  <2>2. \A k \in VkMemories : sizeOf'[k] > 0 <=> k \in cache' \cup Owned'
    BY <1>2, <1>4, <1>6, <1>8 DEF VkInv, VkOwned, Owning
  <2>3. \A u \in HasBuffer : bufferOf[u] # m
    BY <1>7 DEF Owned, HasBuffer
  <2>4. \A u, v \in HasBuffer' : bufferOf'[u] = bufferOf'[v] => u = v
    <3>1. \A u, v \in HasBuffer : bufferOf[u] = bufferOf[v] => u = v
      BY DEF VkInv, VkOwned, Owning
    <3>2. \A u \in HasBuffer : u \in VkTensors \ {t}
      BY <1>3 DEF HasBuffer
    <3> QED
      BY <1>6, <1>8, <2>3, <3>1, <3>2
  <2> QED
    BY <2>1, <2>2, <2>4 DEF Owning
<1>10. UsedIsHeld'
  <2>1. pending' = pending /\ \A c \in pending : \A k \in c.buffers : k \in VkMemories /\ sizeOf[k] > 0
    BY <1>2 DEF batches, VkInv, VkOwned, UsedIsHeld, VkQueue, Batched, CommandKept
  <2> QED
    BY <1>1, <1>6, <2>1 DEF UsedIsHeld
<1>11. VkTyped'
  BY <1>2, <1>6, IdleVk DEF VkInv, VkTyped, batches, ring
<1>12. VkQueue'
  BY <1>2, QueueAside
<1>13. VkCalled'
  BY <1>2, IdleVk DEF VkCalled, Waiting, Emptying, Uploads, Allocating, HasRoom, VkDoing
<1>14. VkTotal' = VkTotal + bytes
  <2> DEFINE G == sizeOf'
  <2>1. (\A k \in VkMemories : sizeOf[k] \in Nat /\ G[k] \in Nat) /\ \A k \in VkMemories \ {m} : sizeOf[k] = G[k]
    BY <1>5, <1>6
  <2>2. G[m] = bytes /\ VkTotal' = SumOf(G, VkMemories)
    BY <1>6 DEF VkTotal
  <2> HIDE DEF G
  <2>3. SumOf(G, VkMemories) = SumOf(sizeOf, VkMemories) - sizeOf[m] + G[m]
    BY <1>5, <2>1, SumChanges
  <2>4. VkTotal \in Nat
    BY TotalIs DEF VkInv, VkOwned
  <2>5. SumOf(G, VkMemories) = VkTotal - 0 + bytes
    BY <1>1, <2>2, <2>3 DEF VkTotal
  <2> QED
    BY <2>2, <2>4, <2>5
<1>15. vkLimit = 0 \/ VkTotal + bytes <= vkLimit
  BY <1>2, <1>4 DEF VkInv, VkCalled, HasRoom
<1> QED
  BY <1>9, <1>10, <1>11, <1>12, <1>13, <1>14, <1>15 DEF VkInv, VkOwned

\* A context between calls owes nothing.
LEMMA IdleCalled ==
  ASSUME vkCall'.at = "idle"
  PROVE  VkCalled'
BY DEF VkCalled, Waiting, Emptying, Uploads, Allocating, HasRoom, VkDoing

\* A buffer goes from the cache to a tensor.
LEMMA CachedKeeps ==
  ASSUME VkInv, NEW t \in VkTensors, NEW bytes \in VkAsks, AllocateCached(t, bytes)
  PROVE  VkInv'
<1>1. PICK m \in cache : bufferOf' = [bufferOf EXCEPT ![t] = m] /\ cache' = cache \ {m}
  BY DEF AllocateCached, BestCached
<1>2. vkCall.at = "idle" /\ bufferOf[t] = NoMemory /\ UNCHANGED <<batches, ring, sizeOf, vkLimit, vkCall>>
  BY DEF AllocateCached
<1>3. /\ bufferOf \in [VkTensors -> VkMemories \cup {NoMemory}] /\ cache \in SUBSET VkMemories
      /\ NoMemory \notin VkMemories /\ m \notin Owned
  BY VkConstants DEF VkInv, VkTyped, VkOwned, Owning
<1>4. /\ bufferOf' \in [VkTensors -> VkMemories \cup {NoMemory}] /\ bufferOf'[t] = m
      /\ \A u \in VkTensors \ {t} : bufferOf'[u] = bufferOf[u]
  BY <1>1, <1>3
<1>5. Owned' = Owned \cup {m} /\ HasBuffer' = HasBuffer \cup {t} /\ t \notin HasBuffer
  BY <1>2, <1>3, <1>4 DEF Owned, HasBuffer
<1>6. Owning'
  <2>1. cache' \cap Owned' = {} /\ cache' \cup Owned' = cache \cup Owned
    BY <1>1, <1>3, <1>5 DEF VkInv, VkOwned, Owning
  <2>2. \A k \in VkMemories : sizeOf'[k] > 0 <=> k \in cache' \cup Owned'
    BY <1>2, <2>1 DEF VkInv, VkOwned, Owning
  <2>3. \A u \in HasBuffer : bufferOf[u] # m /\ u \in VkTensors \ {t}
    BY <1>3, <1>5 DEF Owned, HasBuffer
  <2>4. \A u, v \in HasBuffer : bufferOf[u] = bufferOf[v] => u = v
    BY DEF VkInv, VkOwned, Owning
  <2>5. \A u, v \in HasBuffer' : bufferOf'[u] = bufferOf'[v] => u = v
    BY <1>4, <1>5, <2>3, <2>4
  <2> QED
    BY <2>1, <2>2, <2>5 DEF Owning
<1>7. UsedIsHeld'
  BY <1>2 DEF batches, VkInv, VkOwned, UsedIsHeld
<1>8. VkTyped'
  BY <1>1, <1>2, <1>3, <1>4 DEF VkInv, VkTyped, batches, ring
<1>9. VkQueue' /\ VkCalled'
  BY <1>2, QueueAside, IdleCalled
<1> QED
  BY <1>6, <1>7, <1>8, <1>9 DEF VkInv, VkOwned

\* A buffer goes from a tensor to the cache.
LEMMA FreeVkKeeps ==
  ASSUME VkInv, NEW t \in HasBuffer, FreeVk(t)
  PROVE  VkInv'
<1>1. /\ vkCall.at = "idle" /\ cache' = cache \cup {bufferOf[t]} /\ bufferOf' = [bufferOf EXCEPT ![t] = NoMemory]
      /\ UNCHANGED <<batches, ring, sizeOf, vkLimit, vkCall>>
  BY DEF FreeVk
<1>2. /\ bufferOf \in [VkTensors -> VkMemories \cup {NoMemory}] /\ cache \in SUBSET VkMemories
      /\ NoMemory \notin VkMemories /\ t \in VkTensors
  BY VkConstants DEF VkInv, VkTyped, HasBuffer
<1>3. PICK m \in VkMemories : m = bufferOf[t]
  BY <1>2 DEF HasBuffer
<1>4. /\ bufferOf' \in [VkTensors -> VkMemories \cup {NoMemory}] /\ bufferOf'[t] = NoMemory
      /\ \A u \in VkTensors \ {t} : bufferOf'[u] = bufferOf[u]
  BY <1>1, <1>2
<1>5. HasBuffer' = HasBuffer \ {t}
  BY <1>2, <1>4 DEF HasBuffer
<1>6. \A u, v \in HasBuffer : bufferOf[u] = bufferOf[v] => u = v
  BY DEF VkInv, VkOwned, Owning
<1>7. Owned' = Owned \ {m} /\ m \in Owned
  <2>1. \A u \in VkTensors \ {t} : bufferOf[u] # m
    BY <1>2, <1>3, <1>6 DEF HasBuffer
  <2> QED
    BY <1>2, <1>3, <1>4, <2>1 DEF Owned
<1>8. Owning'
  <2>1. cache' \cap Owned' = {} /\ cache' \cup Owned' = cache \cup Owned
    BY <1>1, <1>3, <1>7 DEF VkInv, VkOwned, Owning
  <2>2. \A k \in VkMemories : sizeOf'[k] > 0 <=> k \in cache' \cup Owned'
    BY <1>1, <2>1 DEF VkInv, VkOwned, Owning
  <2>3. \A u, v \in HasBuffer' : bufferOf'[u] = bufferOf'[v] => u = v
    <3>1. \A u \in HasBuffer' : u \in VkTensors \ {t} /\ u \in HasBuffer
      BY <1>5 DEF HasBuffer
    <3> QED
      BY <1>4, <1>6, <3>1
  <2> QED
    BY <2>1, <2>2, <2>3 DEF Owning
<1>9. UsedIsHeld'
  BY <1>1 DEF batches, VkInv, VkOwned, UsedIsHeld
<1>10. VkTyped'
  BY <1>1, <1>2, <1>3, <1>4 DEF VkInv, VkTyped, batches, ring
<1>11. VkQueue' /\ VkCalled'
  BY <1>1, QueueAside, IdleCalled
<1> QED
  BY <1>8, <1>9, <1>10, <1>11 DEF VkInv, VkOwned

\* No memory is touched: the limit is set, or a call begins or gives up.
LEMMA CallOnlyKeeps ==
  ASSUME VkInv, vkCall.at # "wait", UNCHANGED <<batches, ring, bufferOf, cache, sizeOf>>, vkLimit' \in Nat,
         vkCall' \in VkCalls, VkCalled'
  PROVE  VkInv'
<1>1. VkTyped'
  BY DEF VkInv, VkTyped, batches, ring
<1>2. VkQueue'
  BY QueueAside
<1>3. VkOwned'
  BY DEF VkInv, VkOwned, Owning, Owned, HasBuffer, UsedIsHeld, batches
<1> QED
  BY <1>1, <1>2, <1>3 DEF VkInv

\* Calls that begin with nothing but being there, and a limit that is set.
LEMMA BeginKeeps ==
  ASSUME VkInv, \/ \E t \in HasBuffer, bytes \in VkUploads : Upload(t, bytes)
                \/ CreateFailsAgain
                \/ \E bytes \in VkLimits : SetLimit(bytes)
  PROVE  VkInv'
<1>1. vkLimit \in Nat /\ vkCall \in VkCalls
  BY DEF VkInv, VkTyped
<1>2. ASSUME NEW t \in HasBuffer, NEW bytes \in VkUploads, Upload(t, bytes) PROVE VkInv'
  <2> DEFINE r == [VkIdle EXCEPT !.at = "upload", !.tensor = t, !.bytes = bytes]
  <2>1. bytes \in Nat /\ t \in VkTensors
    BY VulkanAssumption DEF HasBuffer
  <2>2. r \in VkCalls /\ r.at = "upload" /\ r.tensor = t
    BY <2>1, IdleVk DEF VkCalls, VkPlaces, VkThens
  <2>3. vkCall' = r /\ vkCall.at = "idle" /\ UNCHANGED <<batches, ring, bufferOf, cache, sizeOf, vkLimit>>
    BY <1>2 DEF Upload, VkFree, memories
  <2> HIDE DEF r
  <2>4. vkCall'.at = "upload" /\ vkCall'.tensor = t /\ HasBuffer' = HasBuffer
    BY <2>2, <2>3 DEF HasBuffer
  <2>5. VkCalled'
    BY <2>4 DEF VkCalled, Waiting, Emptying, Uploads, Allocating, HasRoom, VkDoing
  <2> QED
    BY <1>1, <2>2, <2>3, <2>5, CallOnlyKeeps
<1>3. CASE CreateFailsAgain
  <2>1. vkCall.at = "last" /\ vkCall' = VkIdle /\ UNCHANGED <<batches, ring, bufferOf, cache, sizeOf, vkLimit>>
    BY <1>3 DEF CreateFailsAgain, memories
  <2>2. VkCalled'
    BY <2>1, IdleVk, IdleCalled
  <2> QED
    BY <1>1, <2>1, <2>2, IdleVk, CallOnlyKeeps
<1>4. ASSUME NEW bytes \in VkLimits, SetLimit(bytes) PROVE VkInv'
  <2>1. bytes \in Nat
    BY VulkanAssumption
  <2>2. vkCall.at = "idle" /\ vkLimit' = bytes /\ vkCall' = vkCall /\ UNCHANGED <<batches, ring, bufferOf, cache, sizeOf>>
    BY <1>4 DEF SetLimit
  <2>3. VkCalled'
    BY <2>2, IdleCalled
  <2> QED
    BY <1>1, <2>1, <2>2, <2>3, CallOnlyKeeps
<1> QED
  BY <1>2, <1>3, <1>4

\* Within the limit with the cache counted, or else everything is waited for.
LEMMA AllocateKeeps ==
  ASSUME VkInv, NEW t \in VkTensors, NEW bytes \in VkAsks, AllocateVk(t, bytes)
  PROVE  VkInv'
<1>1. PICK size \in Nat \ {0} : size = SizeClass[bytes]
  BY ClassIs
<1> DEFINE call == [VkIdle EXCEPT !.tensor = t, !.bytes = size]
<1>2. call \in VkCalls /\ call.tensor = t /\ call.bytes = size /\ call.at = "idle"
  BY IdleVk DEF VkIdle, VkCalls, VkPlaces, VkThens
<1>3. /\ vkCall.at = "idle" /\ t \notin HasBuffer
      /\ IF OverLimit(BytesIn(cache), size)
         THEN Synchronizes(call, "limit")
         ELSE vkCall' = [call EXCEPT !.at = "create"] /\ UNCHANGED <<numRecorded, submittedSerial>>
      /\ UNCHANGED <<completedSerial, fenced, pending, ring, memories>>
  BY <1>1 DEF AllocateVk, HasBuffer
<1>4. t \in VkTensors \ HasBuffer /\ size > 0 /\ size \in Nat
  BY <1>3
<1> HIDE DEF call
<1>5. CASE OverLimit(BytesIn(cache), size)
  <2>1. Synchronizes(call, "limit")
    BY <1>3, <1>5
  <2>2. Carries(call, "limit")
    BY <1>2, <1>4 DEF Carries
  <2>3. "limit" \in VkThens \ {"upload"} /\ vkCall.at # "wait"
    BY <1>3 DEF VkThens
  <2> QED
    BY <1>2, <1>3, <2>1, <2>2, <2>3, SynchronizesKeeps
<1>6. CASE ~OverLimit(BytesIn(cache), size)
  <2> DEFINE r == [call EXCEPT !.at = "create"]
  <2>1. r \in VkCalls /\ r.at = "create" /\ r.tensor = t /\ r.bytes = size
    BY <1>2 DEF VkCalls, VkPlaces
  <2>2. vkCall' = r /\ UNCHANGED <<numRecorded, submittedSerial>>
    BY <1>3, <1>6
  <2> HIDE DEF r
  <2>3. UNCHANGED <<batches, ring, bufferOf, cache, sizeOf, vkLimit>>
    BY <1>3, <2>2 DEF batches, memories
  <2>4. vkLimit \in Nat /\ VkTotal \in Nat /\ Allocated \in Nat /\ BytesIn(cache) \in Nat
        /\ VkTotal = Allocated + BytesIn(cache)
    BY TotalIs DEF VkInv, VkTyped, VkOwned
  <2>5. vkLimit = 0 \/ VkTotal + size <= vkLimit
    BY <1>6, <2>4, <1>4 DEF OverLimit
  <2>6. HasBuffer' = HasBuffer /\ VkTotal' = VkTotal /\ vkLimit' = vkLimit
    BY <2>3 DEF HasBuffer, VkTotal
  <2>7. vkCall'.at = "create" /\ vkCall'.tensor = t /\ vkCall'.bytes = size
    BY <2>1, <2>2
  <2>8. VkCalled'
    BY <1>4, <2>5, <2>6, <2>7 DEF VkCalled, Waiting, Emptying, Uploads, Allocating, HasRoom, VkDoing
  <2> QED
    BY <1>3, <2>1, <2>2, <2>3, <2>4, <2>8, CallOnlyKeeps
<1> QED
  BY <1>5, <1>6

-----------------------------------------------------------------------------
\* The context begins in the invariant.
LEMMA VkStarts == VkInit => VkInv
<1> SUFFICES ASSUME VkInit PROVE VkInv
  OBVIOUS
<1>1. /\ numRecorded = 0 /\ submittedSerial = 0 /\ completedSerial = 0 /\ fenced = 0 /\ pending = {}
      /\ segment = 0 /\ offset = 0 /\ segmentSerial = [s \in 0..(Segments - 1) |-> 0]
      /\ bufferOf = [t \in VkTensors |-> NoMemory] /\ cache = {}
      /\ sizeOf = [m \in VkMemories |-> 0] /\ vkLimit = 0 /\ vkCall = VkIdle
  BY DEF VkInit
<1>2. VkTyped
  BY <1>1, VkConstants, IdleVk DEF VkTyped
<1>3. LastBatch = 0
  BY <1>1 DEF LastBatch
<1>4. VkQueue
  BY <1>1, <1>3 DEF VkQueue, Batched, SlotsKept, ReadOnce, SerialsKept
<1>5. HasBuffer = {} /\ Owned = {}
  BY <1>1 DEF HasBuffer, Owned
<1>6. VkOwned
  BY <1>1, <1>5 DEF VkOwned, Owning, UsedIsHeld
<1>7. VkCalled
  BY <1>1, IdleVk DEF VkCalled, Waiting, Emptying, Uploads, Allocating, HasRoom, VkDoing
<1> QED
  BY <1>2, <1>4, <1>6, <1>7 DEF VkInv

\* And every step keeps it.
LEMMA VkKeeps == VkInv /\ [VkNext]_vkVars => VkInv'
<1> SUFFICES ASSUME VkInv, [VkNext]_vkVars PROVE VkInv'
  OBVIOUS
<1>1. CASE VkNext
  <2>1. CASE Fence \/ Retire \/ VkSynchronize \/ Drain \/ NextSegment \/ UploadChunk
    BY <2>1, FenceKeeps, RetireKeeps, SynchronizeKeeps, NextSegmentKeeps, ChunkKeeps
  <2>2. CASE \E ts \in SUBSET HasBuffer \ {{}} : VkDispatch(ts)
    BY <2>2, CommandsKeep
  <2>3. CASE \E t \in HasBuffer : Download(t) \/ FreeVk(t) \/ \E bytes \in VkUploads : Upload(t, bytes)
    BY <2>3, CommandsKeep, FreeVkKeeps, BeginKeeps
  <2>4. CASE \E t \in VkTensors, bytes \in VkAsks : AllocateCached(t, bytes) \/ AllocateVk(t, bytes)
    BY <2>4, CachedKeeps, AllocateKeeps
  <2>5. CASE Limit \/ Create \/ CreateFails \/ EmptyThenAgain \/ CreateFailsAgain \/ ReleaseUnused \/ EmptyCache
    BY <2>5, EmptyKeeps, CreateMakes, SynchronizeKeeps, BeginKeeps
  <2>6. CASE \E bytes \in VkLimits : SetLimit(bytes)
    BY <2>6, BeginKeeps
  <2> QED
    BY <1>1, <2>1, <2>2, <2>3, <2>4, <2>5, <2>6 DEF VkNext
<1>2. CASE UNCHANGED vkVars
  <2>1. VkTyped' /\ LastBatch' = LastBatch /\ Owned' = Owned /\ HasBuffer' = HasBuffer /\ VkTotal' = VkTotal
    BY <1>2 DEF VkInv, vkVars, VkTyped, batches, ring, memories, LastBatch, Owned, HasBuffer, VkTotal
  <2>2. VkQueue'
    BY <1>2, <2>1 DEF VkInv, vkVars, batches, ring, VkQueue, Batched, CommandKept, SlotsKept, SlotKept, ReadOnce,
       SerialsKept
  <2>3. VkOwned'
    BY <1>2, <2>1 DEF VkInv, vkVars, batches, memories, VkOwned, Owning, UsedIsHeld
  <2>4. VkCalled'
    BY <1>2, <2>1 DEF VkInv, vkVars, batches, memories, VkCalled, Waiting, Emptying, Uploads, Allocating, HasRoom, VkDoing
  <2> QED
    BY <2>1, <2>2, <2>3, <2>4 DEF VkInv
<1> QED
  BY <1>1, <1>2

-----------------------------------------------------------------------------
\* The invariant gives the types.
LEMMA VkTypesHold ==
  ASSUME VkInv
  PROVE  VkTypeOK /\ UsedIsHeld
BY VkTypes DEF VkInv, VkTyped, VkOwned, Owning, VkTypeOK

\* Serials keep their order and a buffer one owner, and none goes back to the device that a command
\* submitted or being recorded is still to use, though what is freed is cached without a wait.
THEOREM HeldUntilDone == VkSpec => [](VkTypeOK /\ UsedIsHeld)
<1>1. VkInv => VkTypeOK /\ UsedIsHeld
  BY VkTypesHold
<1> QED
  BY <1>1, VkStarts, VkKeeps, PTL DEF VkSpec

\* But for the call that makes one, a buffer is not made.
LEMMA OnlyCreateMakes ==
  ASSUME VkInv, [VkNext]_vkVars, ~Create
  PROVE  \A m \in VkMemories : sizeOf[m] = 0 => sizeOf'[m] = 0
<1>1. CASE UNCHANGED sizeOf
  BY <1>1
<1>2. CASE EmptiesCache
  BY <1>2 DEF EmptiesCache
<1>3. UNCHANGED sizeOf \/ EmptiesCache
  <2>1. CASE Fence \/ Retire \/ VkSynchronize \/ Drain \/ NextSegment \/ UploadChunk
    BY <2>1 DEF Fence, Retire, VkSynchronize, Drain, NextSegment, UploadChunk, memories
  <2>2. CASE \E ts \in SUBSET HasBuffer \ {{}} : VkDispatch(ts)
    BY <2>2 DEF VkDispatch, memories
  <2>3. CASE \E t \in HasBuffer : Download(t) \/ FreeVk(t) \/ \E bytes \in VkUploads : Upload(t, bytes)
    BY <2>3 DEF Download, FreeVk, Upload, memories
  <2>4. CASE \E t \in VkTensors, bytes \in VkAsks : AllocateCached(t, bytes) \/ AllocateVk(t, bytes)
    BY <2>4 DEF AllocateCached, AllocateVk, memories
  <2>5. CASE Limit \/ CreateFails \/ EmptyThenAgain \/ CreateFailsAgain \/ ReleaseUnused \/ EmptyCache
    BY <2>5 DEF Limit, CreateFails, EmptyThenAgain, CreateFailsAgain, ReleaseUnused, EmptyCache, memories
  <2>6. CASE \E bytes \in VkLimits : SetLimit(bytes)
    BY <2>6 DEF SetLimit
  <2>7. CASE UNCHANGED vkVars
    BY <2>7 DEF vkVars, memories
  <2> QED
    BY <2>1, <2>2, <2>3, <2>4, <2>5, <2>6, <2>7 DEF VkNext
<1> QED
  BY <1>1, <1>2, <1>3

\* A step that makes a buffer has room for it within the limit.
LEMMA MadeInRoom == VkInv /\ [VkNext]_vkVars => MadeWithinLimit
<1> SUFFICES ASSUME VkInv, [VkNext]_vkVars PROVE MadeWithinLimit
  OBVIOUS
<1>1. CASE ~Create
  BY <1>1, OnlyCreateMakes DEF MadeWithinLimit
<1>2. CASE Create
  <2>1. vkLimit = 0 \/ VkTotal' <= vkLimit
    BY <1>2, CreateMakes
  <2>2. VkTotal' = MapThenSumSet(LAMBDA k : sizeOf'[k], VkMemories)
    BY Zenon DEF VkTotal, SumOf, MapThenSumSet, MapThenFoldSet
  <2>3. vkLimit = 0 \/ MapThenSumSet(LAMBDA k : sizeOf'[k], VkMemories) <= vkLimit
    BY <2>1, <2>2, Zenon
  <2>4. vkLimit > 0 => MapThenSumSet(LAMBDA k : sizeOf'[k], VkMemories) <= vkLimit
    <3>1. vkLimit > 0 => vkLimit # 0
      OBVIOUS
    <3> QED
      BY <2>3, <3>1, Zenon
  <2> QED
    BY <2>4, Zenon DEF MadeWithinLimit
<1> QED
  BY <1>1, <1>2

\* Whatever it waits for, a buffer is made only within the limit, the cache counted.
THEOREM MadeInLimit == VkSpec => [][MadeWithinLimit]_vkVars
<1>1. VkInv /\ [VkNext]_vkVars => [MadeWithinLimit]_vkVars
  BY MadeInRoom
<1> QED
  BY <1>1, VkStarts, VkKeeps, PTL DEF VkSpec

-----------------------------------------------------------------------------
(* The ring, as staging memory. *)

ReadersOf(s) == {c \in pending : s \in c.slots}
RingReads    == [s \in RingBytes |-> Cardinality(ReadersOf(s))]

\* A set of one at most has one or none.
LEMMA OneIsOne ==
  ASSUME NEW R, \A a, b \in R : a = b
  PROVE  Cardinality(R) = (IF R = {} THEN 0 ELSE 1)
<1>1. CASE R = {}
  BY <1>1, FS_EmptySet
<1>2. CASE R # {}
  <2>1. PICK x : x \in R
    BY <1>2
  <2>2. R = {x}
    BY <2>1
  <2> QED
    BY <1>2, <2>2, FS_Singleton
<1> QED
  BY <1>1, <1>2

\* A byte of the ring has one reader at most.
LEMMA RingReadsOnce ==
  ASSUME ReadOnce, NEW s \in RingBytes
  PROVE  RingReads[s] = (IF ReadersOf(s) = {} THEN 0 ELSE 1)
<1>1. \A c, d \in ReadersOf(s) : c = d
  BY DEF ReadOnce, ReadersOf
<1> QED
  BY <1>1, OneIsOne DEF RingReads

\* And after a step.
LEMMA RingReadsOnceNext ==
  ASSUME ReadOnce', NEW s \in RingBytes
  PROVE  RingReads'[s] = (IF ReadersOf(s)' = {} THEN 0 ELSE 1)
<1>1. \A c, d \in ReadersOf(s)' : c = d
  BY DEF ReadOnce, ReadersOf
<1> DEFINE A == ReadersOf(s)'
<1>2. Cardinality(A) = (IF A = {} THEN 0 ELSE 1)
  <2>1. \A c, d \in A : c = d
    BY <1>1
  <2> HIDE DEF A
  <2> QED
    BY <2>1, OneIsOne
<1> QED
  BY <1>2 DEF RingReads

\* The device takes commands away, and a call adds them.
LEMMA CommandsGoOrCome ==
  ASSUME [VkNext]_vkVars
  PROVE  pending' \subseteq pending \/ pending \subseteq pending'
<1>1. CASE Fence
  BY <1>1 DEF Fence
<1>2. CASE Retire \/ VkSynchronize \/ Drain \/ NextSegment
  BY <1>2 DEF Retire, VkSynchronize, Drain, NextSegment
<1>3. CASE UploadChunk
  BY <1>3 DEF UploadChunk, Records
<1>4. CASE \E ts \in SUBSET HasBuffer \ {{}} : VkDispatch(ts)
  BY <1>4 DEF VkDispatch, Records
<1>5. CASE \E t \in HasBuffer : Download(t) \/ FreeVk(t) \/ \E bytes \in VkUploads : Upload(t, bytes)
  BY <1>5 DEF Download, Records, FreeVk, Upload, batches
<1>6. CASE \E t \in VkTensors, bytes \in VkAsks : AllocateCached(t, bytes) \/ AllocateVk(t, bytes)
  BY <1>6 DEF AllocateCached, AllocateVk, batches
<1>7. CASE Limit \/ Create \/ CreateFails \/ EmptyThenAgain \/ CreateFailsAgain \/ ReleaseUnused \/ EmptyCache
  BY <1>7 DEF Limit, Create, CreateFails, EmptyThenAgain, CreateFailsAgain, ReleaseUnused, EmptyCache, batches
<1>8. CASE \E bytes \in VkLimits : SetLimit(bytes)
  BY <1>8 DEF SetLimit, batches
<1>9. CASE UNCHANGED vkVars
  BY <1>9 DEF vkVars, batches
<1> QED
  BY <1>1, <1>2, <1>3, <1>4, <1>5, <1>6, <1>7, <1>8, <1>9 DEF VkNext

\* A step is one of staging memory: bytes nothing reads are filled, or reads end.
LEMMA RingStep == VkInv /\ [VkNext]_vkVars => [VkRing!StagingNext]_RingReads
<1> SUFFICES ASSUME VkInv, [VkNext]_vkVars PROVE VkRing!StagingNext
  OBVIOUS
<1>1. ReadOnce /\ ReadOnce'
  BY VkKeeps DEF VkInv, VkQueue
<1>2. \A s \in RingBytes : RingReads[s] = (IF ReadersOf(s) = {} THEN 0 ELSE 1)
  BY <1>1, RingReadsOnce
<1>3. \A s \in RingBytes : RingReads'[s] = (IF ReadersOf(s)' = {} THEN 0 ELSE 1)
  BY <1>1, RingReadsOnceNext
<1>4. RingReads' \in [RingBytes -> {0, 1}]
  <2>1. RingReads' = [s \in RingBytes |-> RingReads'[s]]
    BY DEF RingReads
  <2> QED
    BY <1>3, <2>1
<1>5. \/ \A s \in RingBytes : RingReads'[s] = RingReads[s] \/ (RingReads[s] = 0 /\ RingReads'[s] = 1)
      \/ \A s \in RingBytes : RingReads'[s] = RingReads[s] \/ (RingReads[s] = 1 /\ RingReads'[s] = 0)
  <2>1. CASE pending \subseteq pending'
    <3>1. \A s \in RingBytes : ReadersOf(s) # {} => ReadersOf(s)' # {}
      BY <2>1 DEF ReadersOf
    <3> QED
      BY <3>1, <1>2, <1>3
  <2>2. CASE pending' \subseteq pending
    <3>1. \A s \in RingBytes : ReadersOf(s)' # {} => ReadersOf(s) # {}
      BY <2>2 DEF ReadersOf
    <3> QED
      BY <3>1, <1>2, <1>3
  <2> QED
    BY <2>1, <2>2, CommandsGoOrCome
<1> QED
  BY <1>4, <1>5 DEF VkRing!StagingNext, VkRing!Fill, VkRing!Read, RingReads, ReadersOf

\* Nothing reads the ring to begin with.
LEMMA RingStarts == VkInit => VkRing!StagingInit
<1> SUFFICES ASSUME VkInit PROVE VkRing!StagingInit
  OBVIOUS
<1>1. \A s \in RingBytes : ReadersOf(s) = {}
  BY DEF VkInit, ReadersOf
<1>2. RingReads = [s \in RingBytes |-> 0]
  BY <1>1, FS_EmptySet DEF RingReads
<1> QED
  BY <1>2 DEF VkRing!StagingInit, RingReads, ReadersOf

\* The readers of each byte of it are those the instance counts.
LEMMA RingIsRead ==
  [VkRing!StagingNext]_RingReads =>
    [VkRing!StagingNext]_[s \in RingBytes |-> Cardinality({c \in pending : s \in c.slots})]
<1> QED
  BY DEF RingReads, ReadersOf

\* A call waits only for what has been submitted.
LEMMA WaitsForWhatIsSent == VkInv => (vkCall.at = "wait" => vkCall.target <= submittedSerial)
<1> QED
  BY DEF VkInv, VkCalled, Waiting

\* The ring is staging memory: a byte of it is written again only once the copy out of it has been
\* made, in a batch submitted or not; and what a call waits for has been submitted.
THEOREM RingIsStaging == VkSpec => VkStaged
<1> QED
  BY RingStarts, RingIsRead, WaitsForWhatIsSent, VkStarts, VkKeeps, RingStep, PTL
     DEF VkSpec, VkStaged, VkRing!StagingSpec

-----------------------------------------------------------------------------
(* A device looked at beside the graphs and the requests (MCWork): a step of one leaves the *)
(* others as they are.                                                                      *)

\* Whatever is looked at, the two devices start in their invariants.
LEMMA WorkStarts == WorkInit => VkInv /\ CudaInv /\ UploadInv /\ CountInv /\ EventsOfCopies
<1> SUFFICES ASSUME WorkInit PROVE VkInv /\ CudaInv /\ UploadInv /\ CountInv /\ EventsOfCopies
  OBVIOUS
<1>1. VkInit /\ CudaInit
  BY DEF WorkInit
<1>2. EventsOfCopies
  BY <1>1 DEF CudaInit, EventsOfCopies
<1> QED
  BY <1>1, <1>2, VkStarts, CudaStarts, UploadStarts, CountStarts

\* Whatever is looked at, the two devices are as they begin.
LEMMA WorkBegins == WorkInit => VkInit /\ CudaInit
<1> QED
  BY DEF WorkInit

\* A step of the whole is one of each device, or leaves it alone.
LEMMA WorkSteps == [WorkNext]_workVars => [VkNext]_vkVars /\ [CudaNext]_cudaVars
<1> QED
  BY DEF WorkNext, workVars

\* And every step keeps them.
LEMMA WorkKeeps ==
  VkInv /\ CudaInv /\ UploadInv /\ CountInv /\ EventsOfCopies /\ [WorkNext]_workVars =>
    VkInv' /\ CudaInv' /\ UploadInv' /\ CountInv' /\ EventsOfCopies'
<1> SUFFICES ASSUME VkInv, CudaInv, UploadInv, CountInv, EventsOfCopies, [WorkNext]_workVars
             PROVE  VkInv' /\ CudaInv' /\ UploadInv' /\ CountInv' /\ EventsOfCopies'
  OBVIOUS
<1>1. [VkNext]_vkVars /\ [CudaNext]_cudaVars
  BY WorkSteps
<1>2. VkInv'
  BY <1>1, VkKeeps
<1>3. CudaInv' /\ CountInv' /\ EventsOfCopies'
  BY <1>1, CudaKeeps, CountKeeps, EventsKept
<1>4. UploadInv'
  BY <1>1, UploadSteps
<1> QED
  BY <1>2, <1>3, <1>4

\* The work on a block of CUDA memory runs in the order it was asked for, from thread to thread and
\* stream to stream (BlocksInOrder).
THEOREM WorkRunsInOrder == WorkSpec => []BlocksInOrder
<1>1. CudaInv => BlocksInOrder
  BY NothingOvertakes
<1> QED
  BY <1>1, WorkStarts, WorkKeeps, PTL DEF WorkSpec

\* Memory has one owner and is counted once, and what goes back to a device is used by nothing it
\* was given, for any tensors, memories, threads and sizes (MemoryIsOwned).
THEOREM MemoryHasOneOwner == WorkSpec => []MemoryIsOwned
<1>1. VkInv /\ CudaInv /\ UploadInv /\ CountInv /\ EventsOfCopies => MemoryIsOwned
  BY VkTypesHold, CountedInTypes DEF MemoryIsOwned
<1> QED
  BY <1>1, WorkStarts, WorkKeeps, PTL DEF WorkSpec

\* Nothing is asked of either device past its limit (LimitsHold).
THEOREM LimitsAreKept == WorkSpec => LimitsHold
<1>1. VkInv /\ [WorkNext]_workVars => [MadeWithinLimit]_workVars
  BY WorkSteps, MadeInRoom
<1>2. CudaInv /\ UploadInv /\ CountInv /\ EventsOfCopies => CudaLimitHolds
  BY CountedInTypes
<1> QED
  BY <1>1, <1>2, WorkStarts, WorkKeeps, PTL DEF WorkSpec, LimitsHold

\* The ring of one device and the two buffers of the other are both staging memory (StagedInTurn).
THEOREM StagingInTurn == WorkSpec => StagedInTurn
<1> QED
  BY RingStarts, RingIsRead, WaitsForWhatIsSent, RingStep, BuffersStart, BuffersRead, BuffersStep,
     WorkStarts, WorkKeeps, WorkSteps, WorkBegins, PTL
     DEF WorkSpec, StagedInTurn, VkStaged, CudaStaged, VkRing!StagingSpec, CudaBuffers!StagingSpec

\* A step of what is beside a graph leaves the graph.
LEMMA WorkLeavesGraphs == [WorkNext]_workVars => [Next]_vars
<1> QED
  BY DEF WorkNext, workVars

\* A device looked at with no weights kept is one of those a graph may find.
LEMMA WorkBeginsGraphs == WorkInit => Init
<1> QED
  BY DEF WorkInit

\* The graphs of a request, whatever the devices do: only what is needed runs and is held, within
\* the device (HeldAsNeeded).
THEOREM WorkHoldsNeeded == WorkSpec => []HeldAsNeeded
<1> QED
  BY WorkBeginsGraphs, WorkLeavesGraphs, IrStarts, IrKeeps, HoldsNeeded, PTL DEF WorkSpec

\* A run of one that ends well draws as an eager pass would (DrawsAsEager).
THEOREM WorkDrawsEagerly == WorkSpec => []DrawsAsEager
<1> QED
  BY WorkBeginsGraphs, WorkLeavesGraphs, IrStarts, IrKeeps, DrewAsEager, PTL DEF WorkSpec

\* The weights kept for them are the most there is room for (KeepsTheMost).
THEOREM WorkKeepsMost == WorkSpec => []KeepsTheMost
<1> QED
  BY WorkBeginsGraphs, WorkLeavesGraphs, IrStarts, IrKeeps, MostAreKept, PTL DEF WorkSpec

\* And keeping them costs no run (FailsAsStreamed).
THEOREM WorkFailsAsStreamed == WorkSpec => FailsAsStreamed
<1> QED
  BY WorkBeginsGraphs, WorkLeavesGraphs, IrStarts, IrKeeps, NoWorseThanStreamed, PTL
     DEF WorkSpec, FailsAsStreamed

\* A step of what is beside a request leaves the request.
LEMMA WorkLeavesRequests == [WorkNext]_workVars => [ReportsNext]_reportVars
<1> QED
  BY DEF WorkNext, workVars

\* None is asked at first.
LEMMA WorkBeginsRequests == WorkInit => ReportsInit
<1> QED
  BY DEF WorkInit

\* A request, whatever the devices do, is stopped soon after it was told to (StopIsNear).
THEOREM WorkStopsNear == WorkSpec => []StopIsNear
<1>1. ReportsInv => StopIsNear
  BY DEF ReportsInv
<1> QED
  BY <1>1, WorkBeginsRequests, WorkLeavesRequests, ReportsInvInit, ReportsInvKeeps, PTL DEF WorkSpec

\* What it makes is walked in the steps that were asked for, or its release has, and drawn from its
\* own seed, whatever was before it (MadeAsAsked).
THEOREM WorkMadeAsAsked == WorkSpec => []MadeAsAsked
<1>1. ReportsInv => MadeAsAsked
  BY DEF ReportsInv, MadeAsAsked
<1> QED
  BY <1>1, WorkBeginsRequests, WorkLeavesRequests, ReportsInvInit, ReportsInvKeeps, PTL DEF WorkSpec

\* And its bar goes forward, and a conversion's to the end, whatever the devices do (BarForwardToFull).
THEOREM WorkBarForward == WorkSpec => BarForwardToFull
<1>1. BarInv => EndsFull
  BY DEF BarInv
<1>2. ReportsInv /\ BarInv /\ [ReportsNext]_reportVars =>
        [answer = "running" => AtMost(bar, bar') \/ FallsBack]_reportVars
  BY BarInvKeeps DEF BarMoves
<1> QED
  BY <1>1, <1>2, WorkBeginsRequests, WorkLeavesRequests, ReportsInvInit, ReportsInvKeeps,
     BarInvInit, BarInvKeeps, PTL
  DEF WorkSpec, BarForwardToFull, EndsFull
=============================================================================
