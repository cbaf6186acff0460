---------------------------- MODULE BlockAllocator ----------------------------
(***************************************************************************)
(* Cutting tensors out of large chunks of device memory:                   *)
(* flint/metal_native/block_allocator.cc.  A chunk is cut into blocks, in  *)
(* use or free; a block is found by best fit and joins its free neighbours *)
(* when it is given back.  The linked list of a chunk is the set of its    *)
(* blocks here, the neighbours of one being where it ends and begins.      *)
(* VramAllocator.tla says when a chunk is asked for and given back.        *)
(***************************************************************************)
EXTENDS Integers, FiniteSets

CONSTANTS
  Alignment,    \* kAlignment: every block and offset is a multiple of it
  Sizes,        \* the sizes, rounded up, of blocks and chunks
  Serials,      \* what may number a batch of work
  MaxChunks     \* a bound: the chunks ever made

ASSUME BlockAssumption ==
  /\ Alignment \in Nat \ {0} /\ MaxChunks \in Nat /\ Serials \subseteq Nat
  /\ Sizes \subseteq {n \in Nat \ {0} : n % Alignment = 0}

VARIABLES
  made,         \* how many chunks there have been, which is what names one
  chunks,       \* _chunks
  blocks        \* the blocks of all of them

blockVars == <<made, chunks, blocks>>

RoundUp(bytes) == ((bytes + Alignment - 1) \div Alignment) * Alignment

Later(a, b) == IF a >= b THEN a ELSE b

InitBlocks == made = 0 /\ chunks = {} /\ blocks = {}

-----------------------------------------------------------------------------
\* A mutation: what is left of a dedicated chunk goes on the list like any other.
FreeEverywhere == {b \in blocks : b.free}

\* _free: what take may cut from. Free bytes of a dedicated chunk are nobody's.
Free == {b \in blocks : b.free /\ ~b.chunk.dedicated}

\* The smallest block of at least size; of those of one size in one chunk the lowest. Chunks of
\* one size are in the order of their addresses, which is any.
BestFit(size) ==
  LET fits == {b \in Free : b.size >= size}
  IN  {b \in fits : \A o \in fits : \/ b.size < o.size
                                    \/ b.size = o.size /\ (b.chunk = o.chunk => b.offset <= o.offset)}

Empty(c) == \E b \in blocks : b.chunk = c /\ b.free /\ b.size = c.size

\* The first block of the smallest empty dedicated chunk there is between size and largest.
DedicatedFit(size, largest) ==
  LET fits == {c \in chunks : c.dedicated /\ Empty(c) /\ c.size >= size /\ c.size <= largest}
  IN  {b \in blocks : b.chunk \in fits /\ \A c \in fits : b.chunk.size <= c.size}

\* Mutations: what is left over begins where the whole did; it is nobody's.
RestOverlaps(b, size) == IF b.size = size THEN {} ELSE {[b EXCEPT !.size = b.size - size]}
RestOmitted(b, size)  == {}

\* What is left over is free, and was used by whatever used the whole.
Rest(b, size) ==
  IF b.size = size THEN {}
  ELSE {[b EXCEPT !.offset = b.offset + size, !.size = b.size - size]}

Taken(b, size) == [b EXCEPT !.size = size, !.free = FALSE]

Cut(b, size) == blocks' = (blocks \ {b}) \cup {Taken(b, size)} \cup Rest(b, size)

Chunk(size, dedicated) == [id |-> made + 1, size |-> size, dedicated |-> dedicated]

WholeOf(c) == [chunk |-> c, offset |-> 0, size |-> c.size, free |-> TRUE, lastUse |-> 0]

\* A chunk is made and a block cut from it: nothing else has room for it, or it was made for it.
CutFromNew(c, size) ==
  /\ made < MaxChunks
  /\ made' = made + 1
  /\ chunks' = chunks \cup {c}
  /\ blocks' = blocks \cup {Taken(WholeOf(c), size)} \cup Rest(WholeOf(c), size)

-----------------------------------------------------------------------------
Freed(b, use) == [b EXCEPT !.free = TRUE, !.lastUse = Later(b.lastUse, use)]

After(b)  == {o \in blocks : o.free /\ o.chunk = b.chunk /\ o.offset = b.offset + b.size}
Before(b) == {o \in blocks : o.free /\ o.chunk = b.chunk /\ b.offset = o.offset + o.size}

\* A mutation: the bytes are joined and not the batches that used them.
AbsorbBytes(into, from) == [into EXCEPT !.size = into.size + from.size]

Absorb(into, from) ==
  [into EXCEPT !.size = into.size + from.size, !.lastUse = Later(into.lastUse, from.lastUse)]

\* A mutation: the block before is not looked at.
WithPrevOmitted(b) == {b}

\* Into whichever neighbour is free, the next one first.
WithNext(b) == IF After(b) = {} THEN {b} ELSE {Absorb(b, o) : o \in After(b)}
WithPrev(b) == IF Before(b) = {} THEN {b} ELSE {Absorb(o, b) : o \in Before(b)}

Covers(b, o) == o.chunk = b.chunk /\ b.offset <= o.offset /\ o.offset < b.offset + b.size

Give(b, use) ==
  /\ ~b.free
  /\ \E next \in WithNext(Freed(b, use)) : \E joined \in WithPrev(next) :
       blocks' = {o \in blocks : ~Covers(joined, o)} \cup {joined}
  /\ UNCHANGED <<made, chunks>>

EmptyChunks == {c \in chunks : Empty(c)}

\* removeChunk, of all of them.
RemoveEmpty ==
  /\ chunks' = chunks \ EmptyChunks
  /\ blocks' = {b \in blocks : b.chunk \notin EmptyChunks}
  /\ UNCHANGED made

-----------------------------------------------------------------------------
\* The allocator on its own: whoever has it takes, gives back and lets go as it likes.
TakeStep(size, b) ==
  /\ b \in BestFit(size) \/ \E largest \in Sizes : b \in DedicatedFit(size, largest)
  /\ Cut(b, size)
  /\ UNCHANGED <<made, chunks>>

AddStep(size, whole, dedicated) ==
  /\ size <= whole
  /\ CutFromNew(Chunk(whole, dedicated), size)

BlockNext ==
  \/ \E size \in Sizes, b \in blocks : TakeStep(size, b)
  \/ \E size, whole \in Sizes, dedicated \in BOOLEAN : AddStep(size, whole, dedicated)
  \/ \E b \in blocks, use \in Serials : Give(b, use)
  \/ RemoveEmpty

BlockSpec == InitBlocks /\ [][BlockNext]_blockVars

-----------------------------------------------------------------------------
Overlap(b, o) == b.offset < o.offset + o.size /\ o.offset < b.offset + b.size

\* No byte of a chunk is in two blocks.
BlocksApart == \A b, o \in blocks : b.chunk = o.chunk /\ b # o => ~Overlap(b, o)

\* A chunk is all blocks: each begins where the chunk does or another ends, and ends where the
\* chunk does or another begins.
NoGaps ==
  \A b \in blocks :
    /\ b.offset = 0 \/ \E o \in blocks : o.chunk = b.chunk /\ b.offset = o.offset + o.size
    /\ b.offset + b.size = b.chunk.size
       \/ \E o \in blocks : o.chunk = b.chunk /\ o.offset = b.offset + b.size

\* No free block ends where another begins: give left nothing unjoined. So a chunk nothing is cut
\* from any more reads as empty, and goes back to the device when its time comes.
FreeIsJoined ==
  \A b, o \in blocks : b.free /\ o.free /\ b.chunk = o.chunk => o.offset # b.offset + b.size

\* A dedicated chunk "holds one block at a time", at its start.
OneInDedicated ==
  \A b \in blocks : ~b.free /\ b.chunk.dedicated => b.offset = 0

\* The blocks are the chunks cut up, whatever was taken, cut, given back and joined before: every
\* byte in one block, what is free of them in as few as it can be, and no two tensors in one chunk
\* that was made for one.
BlocksTile == BlocksApart /\ NoGaps /\ FreeIsJoined /\ OneInDedicated
=============================================================================
