------------------------------ MODULE VramProofs ------------------------------
(***************************************************************************)
(* What holds of VramAllocator for any threads, tensors, sizes and limits. *)
(* All of it rests on one invariant: the mark of some bytes is never older *)
(* than the batch of any command queued that uses them -- in the buffer of *)
(* a tensor, in a block that was given back, joined and cut again, and in  *)
(* the hands of a thread that lets go of a weight -- so that a wait for    *)
(* the mark is a wait for all of them.  To keep it, what each thread has   *)
(* read before it took a lock has to be still true when it has it.         *)
(***************************************************************************)
EXTENDS VramAllocator, Sums

-----------------------------------------------------------------------------
(* The blocks of BlockAllocator: those of a chunk tile it, free ones are joined, and a dedicated   *)
(* chunk holds one at a time. No conjunct is inductive alone: that blocks stay apart when one is   *)
(* given back rests on the neighbours being where the block ends and begins, and that a dedicated  *)
(* chunk is handed out whole on the bounds and on blocks being apart.                              *)

ChunkSet == [id : 1..made, size : Nat \ {0}, dedicated : BOOLEAN]
BlockSet == [chunk : chunks, offset : Nat, size : Nat \ {0}, free : BOOLEAN, lastUse : Nat]

Typed  == made \in Nat /\ chunks \subseteq ChunkSet /\ blocks \subseteq BlockSet
Within == \A b \in blocks : b.offset + b.size <= b.chunk.size

Tiles == Typed /\ Within /\ BlocksApart /\ NoGaps /\ FreeIsJoined

End(b) == b.offset + b.size

Fields(b) ==
  b.chunk \in chunks /\ b.offset \in Nat /\ b.size \in Nat \ {0} /\ b.free \in BOOLEAN /\ b.lastUse \in Nat

-----------------------------------------------------------------------------
\* A block cut in two: the first part in use, the rest free.
LEMMA CutTiles ==
  ASSUME Tiles, NEW b \in blocks, NEW size \in Nat \ {0}, size <= b.size, b.free, Cut(b, size),
         UNCHANGED <<made, chunks>>
  PROVE  Tiles'
<1> DEFINE taken == Taken(b, size)
           rest  == [b EXCEPT !.offset = b.offset + size, !.size = b.size - size]
<1>1. /\ b \in BlockSet /\ b.chunk \in chunks /\ b.offset \in Nat /\ b.size \in Nat \ {0}
      /\ b.lastUse \in Nat /\ b.free \in BOOLEAN
  BY DEF Tiles, Typed, BlockSet
<1>2. taken \in BlockSet /\ taken.chunk = b.chunk /\ taken.offset = b.offset /\ taken.size = size /\ ~taken.free
  BY <1>1 DEF Taken, BlockSet
<1>3. b.size # size => /\ rest \in BlockSet /\ rest.chunk = b.chunk /\ rest.offset = b.offset + size
                       /\ rest.size = b.size - size /\ rest.free
  <2>1. b.offset + size \in Nat /\ (b.size # size => b.size - size \in Nat \ {0})
    BY <1>1
  <2>2. /\ rest.chunk = b.chunk /\ rest.offset = b.offset + size /\ rest.size = b.size - size
        /\ rest.free /\ rest.lastUse = b.lastUse
    BY <1>1 DEF BlockSet
  <2> QED
    BY <1>1, <2>1, <2>2 DEF BlockSet
<1>4. \A o \in blocks' : (o \in blocks /\ o # b) \/ o = taken \/ (o = rest /\ b.size # size)
  BY DEF Cut, Rest
<1>5. /\ taken \in blocks' /\ (b.size # size => rest \in blocks')
      /\ \A o \in blocks : o # b => o \in blocks'
  BY DEF Cut, Rest
<1>6. \A o \in blocks : Fields(o)
  BY DEF Tiles, Typed, BlockSet, Fields
<1>7. Fields(taken) /\ (b.size # size => Fields(rest))
  BY <1>2, <1>3 DEF BlockSet, Fields
<1> HIDE DEF taken, rest
<1>8. Typed'
  BY <1>2, <1>3, <1>4 DEF Tiles, Typed, BlockSet, ChunkSet
<1>9. \A x \in blocks : x # b /\ x.chunk = b.chunk => End(x) <= b.offset \/ End(b) <= x.offset
  BY <1>6 DEF Tiles, BlocksApart, Overlap, End, Fields
<1>10. Within'
  <2> SUFFICES ASSUME NEW p \in blocks' PROVE p.offset + p.size <= p.chunk.size
    BY DEF Within
  <2>1. \A o \in blocks : o.offset + o.size <= o.chunk.size /\ o.chunk.size \in Nat
    BY DEF Tiles, Within, Typed, ChunkSet, BlockSet
  <2> QED
    BY <2>1, <1>2, <1>3, <1>4, <1>6 DEF Fields
<1>11. BlocksApart'
  <2> SUFFICES ASSUME NEW p \in blocks', NEW o \in blocks', p.chunk = o.chunk, p # o
               PROVE  ~Overlap(p, o)
    BY DEF BlocksApart, Overlap
  <2>1. CASE p \in blocks /\ o \in blocks
    BY <2>1 DEF Tiles, BlocksApart
  <2> QED
    BY <2>1, <1>2, <1>3, <1>4, <1>6, <1>7, <1>9 DEF Overlap, End, Fields
<1>12. NoGaps'
  <2> SUFFICES ASSUME NEW p \in blocks'
               PROVE  /\ p.offset = 0 \/ \E o \in blocks' : o.chunk = p.chunk /\ p.offset = o.offset + o.size
                      /\ p.offset + p.size = p.chunk.size
                         \/ \E o \in blocks' : o.chunk = p.chunk /\ o.offset = p.offset + p.size
    BY DEF NoGaps
  <2> DEFINE last == IF b.size = size THEN taken ELSE rest
  <2>1. last \in blocks' /\ last.chunk = b.chunk /\ last.offset + last.size = b.offset + b.size
    BY <1>2, <1>3, <1>5, <1>6, <1>7 DEF Fields
  <2> HIDE DEF last
  <2>2. \A x \in blocks :
          /\ x.offset = 0 \/ \E o \in blocks : o.chunk = x.chunk /\ x.offset = o.offset + o.size
          /\ x.offset + x.size = x.chunk.size
             \/ \E o \in blocks : o.chunk = x.chunk /\ o.offset = x.offset + x.size
    BY DEF Tiles, NoGaps
  <2>3. \A x \in blocks : (x.offset = 0 \/ \E o \in blocks' : o.chunk = x.chunk /\ x.offset = o.offset + o.size)
    BY <2>1, <2>2, <1>5
  <2>4. \A x \in blocks : (x.offset + x.size = x.chunk.size
                         \/ \E o \in blocks' : o.chunk = x.chunk /\ o.offset = x.offset + x.size)
    BY <2>2, <1>2, <1>5
  <2>5. CASE p \in blocks
    BY <2>3, <2>4, <2>5
  <2>6. CASE p = taken
    <3>1. b.size = size => p.offset + p.size = b.offset + b.size
      BY <2>6, <1>2
    <3>2. b.size # size => rest \in blocks' /\ rest.chunk = p.chunk /\ rest.offset = p.offset + p.size
      BY <2>6, <1>2, <1>3, <1>5
    <3> QED
      BY <2>3, <2>4, <2>6, <3>1, <3>2, <1>2
  <2>7. CASE p = rest /\ b.size # size
    <3>1. taken \in blocks' /\ taken.chunk = p.chunk /\ p.offset = taken.offset + taken.size
      BY <2>7, <1>2, <1>3, <1>5
    <3>2. p.offset + p.size = b.offset + b.size /\ p.chunk = b.chunk
      BY <2>7, <1>3, <1>6 DEF Fields
    <3> QED
      BY <2>4, <3>1, <3>2
  <2> QED
    BY <2>5, <2>6, <2>7, <1>4
<1>13. FreeIsJoined'
  <2> SUFFICES ASSUME NEW p \in blocks', NEW o \in blocks', p.free, o.free, p.chunk = o.chunk
               PROVE  o.offset # p.offset + p.size
    BY DEF FreeIsJoined
  <2>1. \A x \in blocks : x.free /\ x.chunk = b.chunk => x.offset # End(b) /\ b.offset # End(x)
    BY DEF Tiles, FreeIsJoined, End
  <2>2. CASE p \in blocks /\ o \in blocks
    BY <2>2 DEF Tiles, FreeIsJoined
  <2> QED
    BY <2>1, <2>2, <1>2, <1>3, <1>4, <1>6, <1>7, <1>9 DEF End, Fields
<1> QED
  BY <1>8, <1>10, <1>11, <1>12, <1>13 DEF Tiles

-----------------------------------------------------------------------------
\* What a block given back becomes: from the start of one old block to the end of another, itself
\* or a free neighbour, and with no free block at either end of it.
LEMMA JoinedRun ==
  ASSUME Tiles, NEW b \in blocks, NEW use \in Nat,
         NEW next \in WithNext(Freed(b, use)), NEW joined \in WithPrev(next)
  PROVE  /\ Fields(joined) /\ joined \in BlockSet /\ joined.free /\ joined.chunk = b.chunk
         /\ \E p, e \in blocks : /\ p.chunk = b.chunk /\ e.chunk = b.chunk
                                 /\ joined.offset = p.offset /\ End(joined) = End(e)
                                 /\ p.offset <= b.offset /\ End(b) <= End(e)
         /\ \A o \in blocks : o.free /\ o.chunk = b.chunk =>
              o.offset # End(joined) /\ End(o) # joined.offset
<1> DEFINE freed == Freed(b, use)
<1>1. \A o \in blocks : Fields(o) /\ o \in BlockSet
  BY DEF Tiles, Typed, BlockSet, Fields
<1>2. \A x, y \in Nat : Later(x, y) \in Nat
  BY DEF Later
<1>3. /\ freed.chunk = b.chunk /\ freed.offset = b.offset /\ freed.size = b.size /\ freed.free
      /\ freed.lastUse \in Nat /\ freed \in BlockSet
  BY <1>1, <1>2 DEF Freed, BlockSet, Fields
<1> HIDE DEF freed
<1>4. \A o, q \in blocks : o.free /\ q.free /\ o.chunk = q.chunk => q.offset # End(o)
  BY DEF Tiles, FreeIsJoined, End
<1>5. /\ next \in BlockSet /\ next.free /\ next.chunk = b.chunk /\ next.offset = b.offset
      /\ \E e \in blocks : e.chunk = b.chunk /\ End(next) = End(e) /\ End(b) <= End(e)
      /\ \A o \in blocks : o.free /\ o.chunk = b.chunk => o.offset # End(next)
  <2>1. CASE After(freed) = {}
    <3>1. next = freed
      BY <2>1 DEF WithNext, freed
    <3>2. \A o \in blocks : o.free /\ o.chunk = b.chunk => o.offset # End(next)
      BY <2>1, <3>1, <1>3 DEF After, End
    <3> QED
      BY <3>1, <3>2, <1>1, <1>3 DEF End, Fields
  <2>2. CASE After(freed) # {}
    <3>1. PICK o \in After(freed) : next = Absorb(freed, o)
      BY <2>2 DEF WithNext, freed
    <3>2. o \in blocks /\ o.free /\ o.chunk = b.chunk /\ o.offset = End(b) /\ Fields(o) /\ Fields(b)
      BY <3>1, <1>1, <1>3 DEF After, End
    <3>3. /\ next.chunk = b.chunk /\ next.offset = b.offset /\ next.size = b.size + o.size
          /\ next.free /\ next \in BlockSet
      <4>1. Later(freed.lastUse, o.lastUse) \in Nat
        BY <3>2, <1>2, <1>3 DEF Fields
      <4>2. b.size + o.size \in Nat \ {0}
        BY <3>2 DEF Fields
      <4> QED
        BY <4>1, <4>2, <3>1, <1>3 DEF Absorb, BlockSet
    <3>4. End(next) = End(o) /\ End(b) <= End(o)
      BY <3>2, <3>3 DEF End, Fields
    <3> QED
      BY <3>2, <3>3, <3>4, <1>4
  <2> QED
    BY <2>1, <2>2
<1>6. Fields(next)
  BY <1>5 DEF BlockSet, Fields
<1>7. PICK e \in blocks : e.chunk = b.chunk /\ End(next) = End(e) /\ End(b) <= End(e)
  BY <1>5
<1>8. CASE Before(next) = {}
  <2>1. joined = next
    BY <1>8 DEF WithPrev
  <2>2. \A o \in blocks : o.free /\ o.chunk = b.chunk => End(o) # joined.offset
    BY <1>8, <2>1, <1>5 DEF Before, End
  <2>3. joined.offset = b.offset /\ End(joined) = End(e) /\ b.offset <= b.offset
    BY <2>1, <1>1, <1>5, <1>7 DEF Fields
  <2> QED
    BY <2>1, <2>2, <2>3, <1>5, <1>6, <1>7
<1>9. CASE Before(next) # {}
  <2>1. PICK o \in Before(next) : joined = Absorb(o, next)
    BY <1>9 DEF WithPrev
  <2>2. o \in blocks /\ o.free /\ o.chunk = b.chunk /\ End(o) = b.offset /\ Fields(o) /\ o \in BlockSet
    BY <2>1, <1>1, <1>5 DEF Before, End
  <2>3. /\ joined.chunk = b.chunk /\ joined.offset = o.offset /\ joined.size = o.size + next.size
        /\ joined.free /\ joined \in BlockSet
    <3>1. Later(o.lastUse, next.lastUse) \in Nat
      BY <2>2, <1>2, <1>6 DEF Fields
    <3>2. o.size + next.size \in Nat \ {0}
      BY <2>2, <1>6 DEF Fields
    <3> QED
      BY <3>1, <3>2, <2>1, <2>2 DEF Absorb, BlockSet
  <2>4. End(joined) = End(next) /\ joined.offset <= b.offset
    BY <2>2, <2>3, <1>5, <1>6 DEF End, Fields
  <2>6. Fields(joined)
    BY <2>3 DEF Fields, BlockSet
  <2>5. \A q \in blocks : q.free /\ q.chunk = b.chunk => End(q) # joined.offset
    BY <2>2, <2>3, <1>4
  <2> QED
    BY <2>2, <2>3, <2>4, <2>5, <2>6, <1>5, <1>7
<1> QED
  BY <1>8, <1>9

\* A block that is given back, joined to its free neighbours, tiles its chunk as they did.
LEMMA GiveTiles ==
  ASSUME Tiles, NEW b \in blocks, NEW use \in Nat, Give(b, use)
  PROVE  Tiles'
<1>0. PICK next \in WithNext(Freed(b, use)) : \E joined \in WithPrev(next) :
        blocks' = {o \in blocks : ~Covers(joined, o)} \cup {joined}
  BY DEF Give
<1>1. PICK joined \in WithPrev(next) : blocks' = {o \in blocks : ~Covers(joined, o)} \cup {joined}
  BY <1>0
<1>2. /\ Fields(joined) /\ joined \in BlockSet /\ joined.free /\ joined.chunk = b.chunk
      /\ \A o \in blocks : o.free /\ o.chunk = b.chunk =>
           o.offset # End(joined) /\ End(o) # joined.offset
  BY JoinedRun
<1>3. PICK p, e \in blocks : /\ p.chunk = b.chunk /\ e.chunk = b.chunk
                            /\ joined.offset = p.offset /\ End(joined) = End(e)
                            /\ p.offset <= b.offset /\ End(b) <= End(e)
  BY JoinedRun
<1>4. \A o \in blocks : Fields(o) /\ o \in BlockSet
  BY DEF Tiles, Typed, BlockSet, Fields
<1>5. UNCHANGED <<made, chunks>>
  BY DEF Give
<1>6. \A x, y \in blocks : x # y /\ x.chunk = y.chunk => End(x) <= y.offset \/ End(y) <= x.offset
  BY <1>4 DEF Tiles, BlocksApart, Overlap, End, Fields
<1>7. \A o \in blocks : \/ o \in blocks'
                        \/ o.chunk = b.chunk /\ joined.offset <= o.offset /\ o.offset < End(joined)
  BY <1>1, <1>2 DEF Covers, End
<1>8. \A o \in blocks' : \/ o = joined
                         \/ o \in blocks /\ (o.chunk = b.chunk => o.offset < joined.offset \/ End(joined) <= o.offset)
  BY <1>1, <1>2, <1>4 DEF Covers, End, Fields
<1>9. \A o \in blocks' : o # joined /\ o.chunk = b.chunk => End(o) <= joined.offset \/ End(joined) <= o.offset
  <2> SUFFICES ASSUME NEW o \in blocks', o # joined, o.chunk = b.chunk, o.offset < joined.offset
               PROVE  End(o) <= joined.offset
    BY <1>8
  <2>1. o \in blocks /\ o # p
    BY <1>3, <1>4, <1>8 DEF Fields
  <2> QED
    BY <2>1, <1>3, <1>4, <1>6 DEF End, Fields
<1>10. Typed'
  BY <1>2, <1>5, <1>8 DEF Tiles, Typed, BlockSet, ChunkSet
<1>11. Within'
  BY <1>2, <1>3, <1>8 DEF Tiles, Within, End
<1>12. BlocksApart'
  <2> SUFFICES ASSUME NEW x \in blocks', NEW y \in blocks', x.chunk = y.chunk, x # y
               PROVE  ~Overlap(x, y)
    BY DEF BlocksApart, Overlap
  <2>1. CASE x \in blocks /\ y \in blocks
    BY <2>1 DEF Tiles, BlocksApart
  <2> QED
    BY <2>1, <1>2, <1>4, <1>8, <1>9 DEF Overlap, End, Fields
<1>13. NoGaps'
  <2>1. \A x \in blocks :
          /\ x.offset = 0 \/ \E o \in blocks : o.chunk = x.chunk /\ x.offset = End(o)
          /\ End(x) = x.chunk.size \/ \E o \in blocks : o.chunk = x.chunk /\ o.offset = End(x)
    BY DEF Tiles, NoGaps, End
  <2>2. joined \in blocks'
    BY <1>1
  <2>3. ASSUME NEW x \in blocks', NEW o \in blocks, o.chunk = x.chunk, x.offset = End(o)
        PROVE  \E q \in blocks' : q.chunk = x.chunk /\ x.offset = End(q)
    <3>1. CASE o \in blocks'
      BY <3>1, <2>3
    <3>2. CASE o \notin blocks'
      <4>1. x.chunk = b.chunk /\ joined.offset <= o.offset /\ o.offset < End(joined)
        BY <3>2, <2>3, <1>7
      <4>2. x # joined
        BY <4>1, <2>3, <1>2, <1>4 DEF End, Fields
      <4>3. End(joined) <= x.offset
        <5>1. Fields(x)
          BY <4>2, <1>4, <1>8
        <5> QED
          BY <5>1, <4>1, <4>2, <2>3, <1>2, <1>4, <1>9 DEF End, Fields
      <4>4. o = e
        BY <4>1, <4>3, <2>3, <1>3, <1>4, <1>6 DEF End, Fields
      <4> QED
        BY <4>1, <4>4, <2>2, <2>3, <1>2, <1>3
    <3> QED
      BY <3>1, <3>2
  <2>4. ASSUME NEW x \in blocks', NEW o \in blocks, o.chunk = x.chunk, o.offset = End(x)
        PROVE  \E q \in blocks' : q.chunk = x.chunk /\ q.offset = End(x)
    <3>1. CASE o \in blocks'
      BY <3>1, <2>4
    <3>2. CASE o \notin blocks'
      <4>1. x.chunk = b.chunk /\ joined.offset <= o.offset /\ o.offset < End(joined)
        BY <3>2, <2>4, <1>7
      <4>2. x # joined
        BY <4>1, <2>4, <1>2, <1>4 DEF End, Fields
      <4>3. End(x) <= joined.offset
        <5>1. x \in blocks
          BY <4>2, <1>8
        <5> QED
          BY <5>1, <4>1, <4>2, <2>4, <1>2, <1>4, <1>9 DEF End, Fields
      <4>4. End(x) = joined.offset
        BY <4>1, <4>3, <2>4, <1>2, <1>4 DEF Fields
      <4> QED
        BY <4>1, <4>4, <2>2, <1>2
    <3> QED
      BY <3>1, <3>2
  <2>5. ASSUME NEW x \in blocks'
        PROVE  /\ x.offset = 0 \/ \E o \in blocks : o.chunk = x.chunk /\ x.offset = End(o)
               /\ End(x) = x.chunk.size \/ \E o \in blocks : o.chunk = x.chunk /\ o.offset = End(x)
    BY <2>1, <2>5, <1>2, <1>3, <1>8
  <2> QED
    BY <2>3, <2>4, <2>5 DEF NoGaps, End
<1>14. FreeIsJoined'
  <2> SUFFICES ASSUME NEW x \in blocks', NEW y \in blocks', x.free, y.free, x.chunk = y.chunk
               PROVE  y.offset # End(x)
    BY DEF FreeIsJoined, End
  <2>1. CASE x \in blocks /\ y \in blocks
    BY <2>1 DEF Tiles, FreeIsJoined, End
  <2>2. CASE x = joined /\ y = joined
    BY <2>2, <1>2 DEF End, Fields
  <2> QED
    BY <2>1, <2>2, <1>2, <1>8
<1> QED
  BY <1>10, <1>11, <1>12, <1>13, <1>14 DEF Tiles

-----------------------------------------------------------------------------
\* A new chunk, with one block cut from it, touches no other chunk's blocks.
LEMMA AddTiles ==
  ASSUME Tiles, NEW size \in Nat \ {0}, NEW whole \in Nat \ {0}, NEW dedicated \in BOOLEAN,
         size <= whole, CutFromNew(Chunk(whole, dedicated), size)
  PROVE  Tiles'
<1> DEFINE c     == Chunk(whole, dedicated)
           taken == Taken(WholeOf(c), size)
           rest  == [WholeOf(c) EXCEPT !.offset = 0 + size, !.size = whole - size]
<1>1. \A o \in blocks : Fields(o) /\ o \in BlockSet
  BY DEF Tiles, Typed, BlockSet, Fields
<1>2. made \in Nat /\ made' = made + 1 /\ chunks \subseteq chunks' /\ c \in chunks'
  BY DEF Tiles, Typed, CutFromNew
<1>3. c = [id |-> made + 1, size |-> whole, dedicated |-> dedicated] /\ c.size = whole /\ c \notin chunks
  BY <1>2 DEF Tiles, Typed, ChunkSet, Chunk
<1>4. chunks' = chunks \cup {c} /\ chunks' \subseteq ChunkSet'
  BY <1>2, <1>3 DEF Tiles, Typed, ChunkSet, CutFromNew
<1> HIDE DEF c
<1>5. /\ taken.chunk = c /\ taken.offset = 0 /\ taken.size = size /\ ~taken.free /\ taken.lastUse = 0
      /\ taken \in BlockSet'
  BY <1>2 DEF Taken, WholeOf, BlockSet
<1>6. whole # size => /\ rest.chunk = c /\ rest.offset = size /\ rest.size = whole - size /\ rest.free
                      /\ rest.lastUse = 0 /\ rest \in BlockSet'
  <2>1. 0 + size = size /\ (whole # size => whole - size \in Nat \ {0})
    OBVIOUS
  <2> QED
    BY <2>1, <1>2, <1>3 DEF WholeOf, BlockSet
<1>7. Rest(WholeOf(c), size) = IF whole = size THEN {} ELSE {rest}
  BY <1>3 DEF Rest, WholeOf
<1> HIDE DEF taken, rest
<1>8. \A o \in blocks' : o \in blocks \/ o = taken \/ (o = rest /\ whole # size)
  BY <1>7 DEF CutFromNew, c, taken
<1>9. blocks \subseteq blocks' /\ taken \in blocks' /\ (whole # size => rest \in blocks')
  BY <1>7 DEF CutFromNew, c, taken
<1>10. \A o \in blocks : o.chunk # c
  BY <1>1, <1>3 DEF Fields
<1>11. Typed'
  <2>1. \A o \in blocks : o \in BlockSet'
    BY <1>1, <1>2 DEF BlockSet
  <2> QED
    BY <2>1, <1>2, <1>4, <1>5, <1>6, <1>8 DEF Typed
<1>12. Within'
  BY <1>3, <1>5, <1>6, <1>8 DEF Tiles, Within
<1>13. BlocksApart'
  <2> SUFFICES ASSUME NEW p \in blocks', NEW o \in blocks', p.chunk = o.chunk, p # o
               PROVE  ~Overlap(p, o)
    BY DEF BlocksApart, Overlap
  <2> QED
    BY <1>5, <1>6, <1>8, <1>10 DEF Tiles, BlocksApart, Overlap
<1>14. NoGaps'
  <2> SUFFICES ASSUME NEW p \in blocks'
               PROVE  /\ p.offset = 0 \/ \E o \in blocks' : o.chunk = p.chunk /\ p.offset = o.offset + o.size
                      /\ p.offset + p.size = p.chunk.size
                         \/ \E o \in blocks' : o.chunk = p.chunk /\ o.offset = p.offset + p.size
    BY DEF NoGaps
  <2>1. CASE p \in blocks
    BY <2>1, <1>9 DEF Tiles, NoGaps
  <2>2. CASE p = taken
    BY <2>2, <1>3, <1>5, <1>6, <1>9
  <2>3. CASE p = rest /\ whole # size
    BY <2>3, <1>3, <1>5, <1>6, <1>9
  <2> QED
    BY <2>1, <2>2, <2>3, <1>8
<1>15. FreeIsJoined'
  <2> SUFFICES ASSUME NEW p \in blocks', NEW o \in blocks', p.free, o.free, p.chunk = o.chunk
               PROVE  o.offset # p.offset + p.size
    BY DEF FreeIsJoined
  <2> QED
    BY <1>5, <1>6, <1>8, <1>10 DEF Tiles, FreeIsJoined
<1> QED
  BY <1>11, <1>12, <1>13, <1>14, <1>15 DEF Tiles

\* A chunk goes with every block of it.
LEMMA RemoveTiles ==
  ASSUME Tiles, RemoveEmpty
  PROVE  Tiles'
<1>1. /\ blocks' \subseteq blocks /\ chunks' \subseteq chunks /\ made' = made
      /\ \A p \in blocks', o \in blocks : o.chunk = p.chunk => o \in blocks'
  BY DEF RemoveEmpty
<1>2. Typed'
  BY <1>1 DEF Tiles, Typed, ChunkSet, BlockSet, RemoveEmpty
<1>3. Within' /\ BlocksApart' /\ FreeIsJoined'
  BY <1>1 DEF Tiles, Within, BlocksApart, Overlap, FreeIsJoined
<1>4. NoGaps'
  BY <1>1 DEF Tiles, NoGaps
<1> QED
  BY <1>2, <1>3, <1>4 DEF Tiles

-----------------------------------------------------------------------------
\* The block of an empty chunk is all of it.
LEMMA EmptyIsWhole ==
  ASSUME Tiles, NEW b \in blocks, Empty(b.chunk)
  PROVE  b.free /\ b.offset = 0 /\ b.size = b.chunk.size
<1>1. \A o \in blocks : Fields(o) /\ o.chunk.size \in Nat /\ End(o) <= o.chunk.size
  BY DEF Tiles, Typed, Within, ChunkSet, BlockSet, Fields, End
<1>2. PICK w \in blocks : w.chunk = b.chunk /\ w.free /\ w.size = b.chunk.size
  BY DEF Empty
<1>3. w.offset = 0
  BY <1>1, <1>2 DEF End, Fields
<1>4. w = b
  <2>1. w # b => ~Overlap(w, b)
    BY <1>2 DEF Tiles, BlocksApart
  <2> QED
    BY <2>1, <1>1, <1>2, <1>3 DEF Overlap, End, Fields
<1> QED
  BY <1>2, <1>3, <1>4

\* Whichever way a block is found to cut from, it is free, it has the room, and all that is before
\* it in a dedicated chunk is nothing.
LEMMA TakenFits ==
  ASSUME Tiles, NEW size, NEW b \in blocks, TakeStep(size, b)
  PROVE  b.free /\ b.size >= size /\ (b.chunk.dedicated => b.offset = 0)
<1>1. CASE b \in BestFit(size)
  BY <1>1 DEF BestFit, Free
<1>2. CASE \E largest \in Sizes : b \in DedicatedFit(size, largest)
  <2>1. Empty(b.chunk) /\ b.chunk.size >= size
    BY <1>2 DEF DedicatedFit
  <2> QED
    BY <2>1, EmptyIsWhole
<1> QED
  BY <1>1, <1>2 DEF TakeStep

-----------------------------------------------------------------------------
\* The blocks tile their chunks at all times.
LEMMA TilesHolds == BlockSpec => []Tiles
<1>1. InitBlocks => Tiles
  BY DEF InitBlocks, Tiles, Typed, Within, BlocksApart, NoGaps, FreeIsJoined
<1>2. Tiles /\ [BlockNext]_blockVars => Tiles'
  <2> SUFFICES ASSUME Tiles, [BlockNext]_blockVars PROVE Tiles'
    OBVIOUS
  <2>1. ASSUME NEW size \in Sizes, NEW b \in blocks, TakeStep(size, b) PROVE Tiles'
    <3>1. size \in Nat \ {0} /\ size <= b.size /\ b.free /\ Cut(b, size) /\ UNCHANGED <<made, chunks>>
      <4>1. size \in Nat \ {0} /\ b.size \in Nat
        BY BlockAssumption DEF Tiles, Typed, BlockSet
      <4> QED
        BY <4>1, <2>1, TakenFits DEF TakeStep
    <3> QED
      BY <3>1, CutTiles
  <2>2. ASSUME NEW size \in Sizes, NEW whole \in Sizes, NEW dedicated \in BOOLEAN,
               AddStep(size, whole, dedicated)
        PROVE  Tiles'
    BY <2>2, AddTiles, BlockAssumption DEF AddStep
  <2>3. ASSUME NEW b \in blocks, NEW use \in Serials, Give(b, use) PROVE Tiles'
    BY <2>3, GiveTiles, BlockAssumption
  <2>4. CASE RemoveEmpty
    BY <2>4, RemoveTiles
  <2>5. CASE UNCHANGED blockVars
    BY <2>5 DEF blockVars, Tiles, Typed, ChunkSet, BlockSet, Within, BlocksApart, Overlap, NoGaps, FreeIsJoined
  <2> QED
    BY <2>1, <2>2, <2>3, <2>4, <2>5 DEF BlockNext
<1> QED
  BY <1>1, <1>2, PTL DEF BlockSpec

\* No byte of a chunk is in two blocks, whatever is taken, given back and let go (takeFrom, give,
\* absorb and removeChunk together).
THEOREM NoByteTwice == BlockSpec => []BlocksApart
BY TilesHolds, PTL DEF Tiles

\* None is in no block: the neighbours give looks for are where the block ends and begins.
THEOREM NoByteLost == BlockSpec => []NoGaps
BY TilesHolds, PTL DEF Tiles

\* No two free blocks touch: give joins one to both its neighbours.
THEOREM FreeBlocksJoin == BlockSpec => []FreeIsJoined
BY TilesHolds, PTL DEF Tiles

\* What is in use of a dedicated chunk begins where the chunk does: take hands one out only when it
\* is empty, and what is left over of one is not on _free.
THEOREM DedicatedHoldsOne == BlockSpec => []OneInDedicated
<1>1. InitBlocks => OneInDedicated
  BY DEF InitBlocks, OneInDedicated
<1>2. Tiles /\ OneInDedicated /\ [BlockNext]_blockVars => OneInDedicated'
  <2> SUFFICES ASSUME Tiles, OneInDedicated, [BlockNext]_blockVars,
                      NEW p \in blocks', ~p.free, p.chunk.dedicated, p \notin blocks
               PROVE  p.offset = 0
    BY DEF OneInDedicated
  <2>1. ASSUME NEW size \in Sizes, NEW b \in blocks, TakeStep(size, b) PROVE p.offset = 0
    <3>1. b \in BlockSet /\ b.free /\ (b.chunk.dedicated => b.offset = 0)
      BY <2>1, TakenFits DEF Tiles, Typed
    <3>2. Taken(b, size).chunk = b.chunk /\ Taken(b, size).offset = b.offset
      BY <3>1 DEF Taken, BlockSet
    <3>3. \A o \in Rest(b, size) : o.free
      BY <3>1 DEF Rest, BlockSet
    <3>4. p = Taken(b, size) \/ p \in Rest(b, size)
      BY <2>1 DEF TakeStep, Cut
    <3> QED
      BY <3>1, <3>2, <3>3, <3>4
  <2>2. ASSUME NEW size \in Sizes, NEW whole \in Sizes, NEW dedicated \in BOOLEAN,
               AddStep(size, whole, dedicated)
        PROVE  p.offset = 0
    <3> DEFINE w == WholeOf(Chunk(whole, dedicated))
    <3>1. Taken(w, size).offset = 0
      BY DEF Taken, WholeOf
    <3>2. \A o \in Rest(w, size) : o.free
      BY DEF Rest, WholeOf
    <3>3. p = Taken(w, size) \/ p \in Rest(w, size)
      BY <2>2 DEF AddStep, CutFromNew
    <3> QED
      BY <3>1, <3>2, <3>3
  <2>3. ASSUME NEW b \in blocks, NEW use \in Serials, Give(b, use) PROVE p.offset = 0
    <3>1. PICK next \in WithNext(Freed(b, use)) : \E joined \in WithPrev(next) :
            blocks' = {o \in blocks : ~Covers(joined, o)} \cup {joined}
      BY <2>3 DEF Give
    <3>2. PICK joined \in WithPrev(next) : blocks' = {o \in blocks : ~Covers(joined, o)} \cup {joined}
      BY <3>1
    <3>3. joined.free
      BY JoinedRun, BlockAssumption
    <3> QED
      BY <3>2, <3>3
  <2>4. CASE RemoveEmpty
    BY <2>4 DEF RemoveEmpty
  <2>5. CASE UNCHANGED blockVars
    BY <2>5 DEF blockVars
  <2> QED
    BY <2>1, <2>2, <2>3, <2>4, <2>5 DEF BlockNext
<1> QED
  BY <1>1, <1>2, TilesHolds, PTL DEF BlockSpec

\* All of it: what the blocks of every chunk promise whoever allocates from them.
THEOREM BlocksAlwaysTile == BlockSpec => []BlocksTile
BY NoByteTwice, NoByteLost, FreeBlocksJoin, DedicatedHoldsOne, PTL DEF BlocksTile

-----------------------------------------------------------------------------
\* Where every block begins and ends on a multiple of kAlignment.
Aligned == \A b \in blocks : b.size % Alignment = 0 /\ b.offset % Alignment = 0

\* A number of units and another are one, and so is what one has more than the other.
LEMMA UnitsAdd ==
  ASSUME NEW i \in Nat, NEW j \in Nat, i % Alignment = 0, j % Alignment = 0
  PROVE  (i + j) % Alignment = 0 /\ (j <= i => (i - j) % Alignment = 0)
<1>1. PICK a \in Nat \ {0} : a = Alignment
  BY BlockAssumption
<1>2. ASSUME NEW n \in Nat, n % a = 0 PROVE \E k \in Nat : n = a * k
  <2>1. n \div a \in Nat /\ n = a * (n \div a) + (n % a)
    BY <1>1
  <2>2. n = a * (n \div a)
    BY <1>1, <1>2, <2>1
  <2> QED
    BY <2>1, <2>2
<1>3. ASSUME NEW k \in Int PROVE (a * k) % a = 0
  BY <1>3
<1>4. PICK p \in Nat : i = a * p
  BY <1>1, <1>2
<1>5. PICK q \in Nat : j = a * q
  BY <1>1, <1>2
<1>6. i + j = a * (p + q) /\ i - j = a * (p - q)
  BY <1>4, <1>5
<1>7. p + q \in Int /\ p - q \in Int
  OBVIOUS
<1> QED
  BY <1>1, <1>3, <1>6, <1>7

\* Blocks are cut, joined and let go of at units.
LEMMA AlignedKept ==
  ASSUME Tiles, Aligned, [BlockNext]_blockVars
  PROVE  Aligned'
<1>1. \A s \in Sizes : s \in Nat \ {0} /\ s % Alignment = 0
  BY BlockAssumption
<1>2. \A b \in blocks : Fields(b) /\ b.size % Alignment = 0 /\ b.offset % Alignment = 0
  BY DEF Tiles, Typed, BlockSet, Fields, Aligned
<1>3. 0 % Alignment = 0
  BY BlockAssumption
<1>4. ASSUME NEW size \in Sizes, NEW b \in blocks, TakeStep(size, b) PROVE Aligned'
  <2> DEFINE taken == Taken(b, size)
             rest  == [b EXCEPT !.offset = b.offset + size, !.size = b.size - size]
  <2>1. b.size >= size
    BY <1>4, TakenFits
  <2>2. blocks' \subseteq blocks \cup {taken, rest}
    BY <1>4 DEF TakeStep, Cut, Rest
  <2>3. taken.size = size /\ taken.offset = b.offset /\ rest.size = b.size - size /\ rest.offset = b.offset + size
    BY DEF Taken, Tiles, Typed, BlockSet
  <2>4. (b.size - size) % Alignment = 0 /\ (b.offset + size) % Alignment = 0
    BY <1>1, <1>2, <2>1, UnitsAdd DEF Fields
  <2> HIDE DEF taken, rest
  <2> QED
    BY <1>1, <1>2, <2>2, <2>3, <2>4 DEF Aligned
<1>5. ASSUME NEW size \in Sizes, NEW whole \in Sizes, NEW dedicated \in BOOLEAN,
             AddStep(size, whole, dedicated)
      PROVE  Aligned'
  <2> DEFINE c     == Chunk(whole, dedicated)
             taken == Taken(WholeOf(c), size)
             rest  == [WholeOf(c) EXCEPT !.offset = 0 + size, !.size = whole - size]
  <2>1. size <= whole
    BY <1>5 DEF AddStep
  <2>2. blocks' \subseteq blocks \cup {taken, rest}
    BY <1>5 DEF AddStep, CutFromNew, Rest, WholeOf, Chunk
  <2>3. taken.size = size /\ taken.offset = 0 /\ rest.size = whole - size /\ rest.offset = 0 + size
    BY DEF Taken, WholeOf
  <2>4. (whole - size) % Alignment = 0 /\ (0 + size) % Alignment = 0
    BY <1>1, <1>3, <2>1, UnitsAdd
  <2> HIDE DEF taken, rest
  <2> QED
    BY <1>1, <1>2, <1>3, <2>2, <2>3, <2>4 DEF Aligned
<1>6. ASSUME NEW b \in blocks, NEW use \in Serials, Give(b, use) PROVE Aligned'
  <2>1. PICK next \in WithNext(Freed(b, use)) : \E joined \in WithPrev(next) :
          blocks' = {o \in blocks : ~Covers(joined, o)} \cup {joined}
    BY <1>6 DEF Give
  <2>2. PICK joined \in WithPrev(next) : blocks' = {o \in blocks : ~Covers(joined, o)} \cup {joined}
    BY <2>1
  <2>3. Fields(joined) /\ \E p, e \in blocks : /\ joined.offset = p.offset /\ End(joined) = End(e)
                                               /\ p.offset <= b.offset /\ End(b) <= End(e)
    BY JoinedRun, BlockAssumption
  <2>4. PICK p \in blocks, e \in blocks : /\ joined.offset = p.offset /\ End(joined) = End(e)
                                         /\ p.offset <= b.offset /\ End(b) <= End(e)
    BY <2>3
  <2>5. End(e) \in Nat /\ End(e) % Alignment = 0
    BY <1>2, UnitsAdd DEF End, Fields
  <2>6. p.offset <= End(e) /\ joined.size = End(e) - p.offset
    BY <1>2, <2>3, <2>4 DEF End, Fields
  <2>7. joined.size % Alignment = 0
    BY <1>2, <2>5, <2>6, UnitsAdd DEF Fields
  <2> QED
    BY <1>2, <2>2, <2>4, <2>7 DEF Aligned
<1>7. CASE RemoveEmpty
  BY <1>7 DEF RemoveEmpty, Aligned
<1>8. CASE UNCHANGED blockVars
  BY <1>8 DEF blockVars, Aligned
<1> QED
  BY <1>4, <1>5, <1>6, <1>7, <1>8 DEF BlockNext

\* Every block begins and ends on a unit, however it was cut and joined.
LEMMA AlignedHolds == BlockSpec => []Aligned
<1>1. InitBlocks => Aligned
  BY DEF InitBlocks, Aligned
<1> QED
  BY <1>1, AlignedKept, TilesHolds, PTL DEF BlockSpec

-----------------------------------------------------------------------------
(* The allocator over them. *)

\* What the buffer of a tensor may be.
MemorySet == [id : Nat \cup Tensors, size : Nat, dedicated : BOOLEAN]
BufferSet ==
  [memory : MemorySet, offset : Nat, size : Nat \ {0}, lastUse : Nat, type : {"kCached", "kWeight"}]

\* What a release of the empty chunks may be on the way to, and where an allocation is under way.
Releases == {"room", "budget", "new", "again", "done"}
Asking   == {"limit", "room", "large", "budget", "new", "again"}

\* What a thread keeps between the steps of its call.
HostSet ==
  [at : Places, then : Releases \cup {"idle", "copy", "letGo"}, tensor : Tensors \cup {NoTensor},
   buffer : BufferSet \cup {NoBuffer}, kind : {"kCached", "kWeight"},
   size : Nat, needed : Nat, chunk : Nat, target : Nat]

-----------------------------------------------------------------------------
\* Batches are counted in the order they are committed, run and seen to end.
StreamOK ==
  /\ recorded \in Nat /\ submitted \in Nat /\ executed \in Nat /\ completed \in Nat
  /\ completed <= executed /\ executed <= submitted /\ submitted <= MaxBatches
  /\ recorded > 0 => submitted < MaxBatches
  /\ finished \subseteq 1..executed

\* What is used is used by a batch that has not been run.
UsesOK ==
  \A u \in uses :
    /\ u.batch \in Nat /\ executed < u.batch /\ u.batch <= Recording
    /\ u.batch = Recording => recorded > 0
    /\ u.run.offset \in Nat /\ u.run.size \in Nat \ {0}
    /\ u.run.memory \in weights => u.run.offset = 0

\* The blocks tile their chunks, and no mark is of a batch yet to be begun.
BlocksOK ==
  /\ Tiles
  /\ \A c \in chunks : c.size \in Sizes
  /\ \A b \in blocks : b.lastUse <= Recording

\* The buffer is the block, which is in use.
OnBlock(q, b) == ~b.free /\ b.chunk = q.memory /\ b.offset = q.offset /\ b.size = q.size

\* Each live tensor has a block in use or a weight of its own, and no two have one.
BuffersOK ==
  /\ weights \subseteq MemorySet /\ \A w \in weights : w.id \in Tensors
  /\ buffers \in [Tensors -> BufferSet \cup {NoBuffer}]
  /\ \A t \in Live :
       /\ buffers[t].lastUse <= Recording
       /\ buffers[t].type = "kCached" => \E b \in blocks : OnBlock(buffers[t], b)
       /\ buffers[t].type = "kWeight" => /\ buffers[t].memory \in weights /\ buffers[t].memory.id = t
                                         /\ buffers[t].offset = 0
  /\ \A t, o \in Live :
       buffers[t].memory = buffers[o].memory /\ buffers[t].offset = buffers[o].offset => t = o

\* A command's run has a byte of the block.
OnBytes(r, b) == r.memory = b.chunk /\ r.offset < End(b) /\ b.offset < r.offset + r.size

\* No mark is older than the last use of its bytes: of a free block's, and of a live tensor's.
UsedBefore ==
  /\ \A u \in uses, b \in blocks : b.free /\ OnBytes(u.run, b) => u.batch <= b.lastUse
  /\ \A u \in uses, t \in Live : SameBytes(u.run, buffers[t]) => u.batch <= buffers[t].lastUse

\* Thread h is in an allocation, or waits for the device on behalf of one.
Wants(h) ==
  \/ host[h].at \in Asking
  \/ host[h].at \in {"enter", "wait", "empty"} /\ host[h].then \in Asking

\* Thread h is to destroy the memory of a weight.
LetsGo(h) == host[h].then = "letGo" /\ host[h].at \in {"enter", "wait", "letGo"}

\* Where a thread has the lock of the allocator.
HasHeap(h) ==
  \/ host[h].at \in Asking \cup {"empty", "letGo"}
  \/ host[h].at \in {"enter", "wait"} /\ host[h].then \in Releases \cup {"letGo"}

\* Where a thread is says which locks it has and what for; a tensor that is copied stays alive.
HostOK(h) ==
  /\ host[h] \in HostSet
  /\ host[h].at \in {"wait", "copy"} => turn = h
  /\ HasHeap(h) => heap = h
  /\ host[h].at = "copy" => host[h].then = "copy"
  /\ host[h].at = "letGo" => host[h].then = "letGo"
  /\ host[h].at = "empty" => host[h].then \in Releases
  /\ host[h].then = "copy" /\ host[h].at \in {"enter", "wait", "copy"} => host[h].tensor \in Live

\* An allocation's tensor has no memory yet, and its sizes are ones the blocks are cut to.
WantOK(h) ==
  Wants(h) =>
    /\ host[h].tensor \in Tensors /\ buffers[host[h].tensor] = NoBuffer
    /\ host[h].size \in Nat \ {0}
    /\ host[h].kind = "kCached" =>
         /\ {host[h].size, host[h].needed, host[h].chunk} \subseteq Sizes
         /\ host[h].size <= host[h].needed /\ host[h].needed <= host[h].chunk

\* A weight that is let go of is no tensor's any more, and its mark is still true.
LetGoOK(h) ==
  LetsGo(h) =>
    /\ host[h].buffer \in BufferSet /\ host[h].buffer.memory \in weights
    /\ \A t \in Live : buffers[t].memory # host[h].buffer.memory
    /\ \A u \in uses : u.run.memory = host[h].buffer.memory => u.batch <= host[h].buffer.lastUse

\* What the wait of a thread is for.
Concerns(h, u) ==
  \/ host[h].then = "copy" /\ SameBytes(u.run, buffers[host[h].tensor])
  \/ host[h].then = "letGo" /\ u.run.memory = host[h].buffer.memory
  \/ host[h].then \in Releases

\* A wait is for the last batch it concerns, and once it is over none is queued.
WaitOK(h) ==
  /\ host[h].at = "wait" => \A u \in uses : Concerns(h, u) => u.batch <= host[h].target
  /\ host[h].at \in {"copy", "letGo"} => \A u \in uses : ~Concerns(h, u)
  /\ host[h].at = "empty" => \A u \in uses : \E t \in Live : buffers[t].memory = u.run.memory

HostsOK == \A h \in Hosts : HostOK(h) /\ WantOK(h) /\ LetGoOK(h) /\ WaitOK(h)

\* The inductive invariant.
IInv ==
  /\ StreamOK /\ UsesOK /\ BlocksOK /\ BuffersOK /\ UsedBefore /\ InFlightIsHeld
  /\ DOMAIN host = Hosts /\ HostsOK
-----------------------------------------------------------------------------
\* A tensor with a buffer is a live one.
LEMMA ABufferIsNotNone == \A x \in BufferSet : x # NoBuffer
<1> SUFFICES ASSUME NEW x \in BufferSet, x = NoBuffer PROVE FALSE
  OBVIOUS
<1>1. "offset" \in DOMAIN x
  BY DEF BufferSet
<1>2. DOMAIN NoBuffer = {"memory"}
  BY DEF NoBuffer
<1> QED
  BY <1>1, <1>2

\* What the invariant says of a live tensor's buffer, taken apart.
LEMMA LiveBuffer ==
  ASSUME BuffersOK, NEW t \in Live
  PROVE  /\ t \in Tensors /\ buffers[t] \in BufferSet
         /\ buffers[t].offset \in Nat /\ buffers[t].size \in Nat \ {0} /\ buffers[t].lastUse \in Nat
         /\ buffers[t].type \in {"kCached", "kWeight"}
<1>1. t \in Tensors /\ buffers[t] # NoBuffer
  BY DEF Live
<1>2. buffers[t] \in BufferSet
  BY <1>1 DEF BuffersOK
<1> QED
  BY <1>1, <1>2 DEF BufferSet

\* Chunks are named by numbers and weights by their tensor.
LEMMA ChunksAreNoWeights ==
  ASSUME BlocksOK, BuffersOK
  PROVE  /\ \A c \in chunks, w \in weights : c # w
         /\ \A w \in weights : w.id \in Tensors
         /\ \A c \in chunks : c.id \in Nat /\ c.id <= made
<1>1. \A w \in weights : w.id \in Tensors
  BY DEF BuffersOK
<1>2. \A c \in chunks : c.id \in Nat /\ c.id <= made
  BY DEF BlocksOK, Tiles, Typed, ChunkSet
<1> QED
  BY <1>1, <1>2, WithinBlocks

\* A live tensor's bytes are a block in use, or a weight that is its own.
LEMMA WhereItIs ==
  ASSUME BuffersOK, NEW t \in Live
  PROVE  \/ buffers[t].type = "kCached" /\ \E b \in blocks : OnBlock(buffers[t], b)
         \/ /\ buffers[t].type = "kWeight" /\ buffers[t].memory \in weights
            /\ buffers[t].memory.id = t /\ buffers[t].offset = 0
BY LiveBuffer DEF BuffersOK

\* A byte of a free block is no live tensor's.
LEMMA FreeIsNobodys ==
  ASSUME BlocksOK, BuffersOK, NEW t \in Live, NEW b \in blocks, b.free
  PROVE  ~OnBytes(buffers[t], b)
<1> SUFFICES ASSUME OnBytes(buffers[t], b) PROVE FALSE
  OBVIOUS
<1>1. b.chunk \in chunks /\ buffers[t].memory = b.chunk
  BY DEF BlocksOK, Tiles, Typed, BlockSet, OnBytes
<1>2. PICK o \in blocks : OnBlock(buffers[t], o)
  BY <1>1, WhereItIs, ChunksAreNoWeights
<1>3. o # b /\ o.chunk = b.chunk /\ ~Overlap(b, o)
  BY <1>1, <1>2 DEF OnBlock, BlocksOK, Tiles, BlocksApart
<1> QED
  BY <1>2, <1>3 DEF OnBlock, OnBytes, Overlap, End

\* No two live tensors have a byte of one another.
LEMMA LiveApart ==
  ASSUME BlocksOK, BuffersOK, NEW t \in Live, NEW o \in Live, t # o
  PROVE  ~SameBytes(buffers[t], buffers[o])
<1> SUFFICES ASSUME SameBytes(buffers[t], buffers[o]) PROVE FALSE
  OBVIOUS
<1>1. buffers[t].memory = buffers[o].memory
  BY DEF SameBytes
<1>2. CASE buffers[t].memory \in weights
  <2>1. \A b \in blocks : b.chunk \in chunks
    BY DEF BlocksOK, Tiles, Typed, BlockSet
  <2>2. buffers[t].memory.id = t /\ buffers[o].memory.id = o
    BY <1>1, <1>2, <2>1, WhereItIs, ChunksAreNoWeights DEF OnBlock
  <2> QED
    BY <2>2, <1>1
<1>3. CASE buffers[t].memory \notin weights
  <2>1. PICK b \in blocks : OnBlock(buffers[t], b)
    BY <1>3, WhereItIs
  <2>2. PICK c \in blocks : OnBlock(buffers[o], c)
    BY <1>1, <1>3, WhereItIs
  <2>3. b = c
    <3>1. b # c => ~Overlap(b, c)
      BY <2>1, <2>2, <1>1 DEF OnBlock, BlocksOK, Tiles, BlocksApart
    <3> QED
      BY <3>1, <2>1, <2>2 DEF OnBlock, Overlap, SameBytes
  <2> QED
    BY <2>1, <2>2, <2>3, <1>1 DEF OnBlock, BuffersOK
<1> QED
  BY <1>2, <1>3

-----------------------------------------------------------------------------
\* A step of one thread's own: the locks it may take or leave, and what it is at.
LEMMA HostMoves ==
  ASSUME IInv, NEW h \in Hosts, UNCHANGED <<memory, stream, device>>,
         DOMAIN host' = Hosts, \A g \in Hosts \ {h} : host'[g] = host[g],
         turn' = turn \/ turn \in {h, NoHost}, heap' = heap \/ heap \in {h, NoHost},
         HostOK(h)', WantOK(h)', LetGoOK(h)', WaitOK(h)'
  PROVE  IInv'
<1>1. /\ made' = made /\ chunks' = chunks /\ blocks' = blocks /\ buffers' = buffers
      /\ weights' = weights /\ recorded' = recorded /\ submitted' = submitted
      /\ finished' = finished /\ completed' = completed /\ executed' = executed /\ uses' = uses
  BY DEF memory, stream, device
<1>2. StreamOK'
  BY <1>1 DEF IInv, StreamOK
<1>3. UsesOK'
  BY <1>1 DEF IInv, UsesOK, Recording
<1>4. BlocksOK'
  BY <1>1 DEF IInv, BlocksOK, Tiles, Typed, ChunkSet, BlockSet, Within, BlocksApart, Overlap, NoGaps,
              FreeIsJoined, Recording
<1>5. BuffersOK' /\ Live' = Live
  BY <1>1 DEF IInv, BuffersOK, Live, OnBlock, Recording
<1>6. UsedBefore'
  BY <1>1, <1>5 DEF IInv, UsedBefore, OnBytes, SameBytes, End
<1>7. InFlightIsHeld'
  BY <1>1 DEF IInv, InFlightIsHeld
<1>8. ASSUME NEW g \in Hosts, g # h PROVE HostOK(g)' /\ WantOK(g)' /\ LetGoOK(g)' /\ WaitOK(g)'
  <2>1. host'[g] = host[g]
    BY <1>8
  <2>2. HostOK(g) /\ WantOK(g) /\ LetGoOK(g) /\ WaitOK(g)
    BY DEF IInv, HostsOK
  <2>3. HostOK(g)'
    BY <2>1, <2>2, <1>5, <1>8, WithinBlocks DEF HostOK, HasHeap
  <2>4. WantOK(g)'
    BY <2>1, <2>2, <1>1 DEF WantOK, Wants
  <2>5. LetGoOK(g)'
    BY <2>1, <2>2, <1>1, <1>5 DEF LetGoOK, LetsGo
  <2>6. WaitOK(g)'
    BY <2>1, <2>2, <1>1, <1>5 DEF WaitOK, Concerns, SameBytes
  <2> QED
    BY <2>3, <2>4, <2>5, <2>6
<1> QED
  BY <1>2, <1>3, <1>4, <1>5, <1>6, <1>7, <1>8 DEF IInv, HostsOK

-----------------------------------------------------------------------------
\* What a thread's own fields are, from where it is.
LEMMA HostFields ==
  ASSUME IInv, NEW h \in Hosts
  PROVE  /\ HostOK(h) /\ WantOK(h) /\ LetGoOK(h) /\ WaitOK(h)
         /\ host[h] \in HostSet /\ DOMAIN host = Hosts
BY DEF IInv, HostsOK, HostOK

\* Where every thread begins and ends.
LEMMA IdleIsAHost == Idle \in HostSet
BY DEF Idle, HostSet, Places, Releases

\* A thread that goes back to idle is bound by nothing.
LEMMA GoesIdle ==
  ASSUME IInv, NEW h \in Hosts, UNCHANGED <<memory, stream, device>>, host' = [host EXCEPT ![h] = Idle],
         turn' = turn \/ turn \in {h, NoHost}, heap' = heap \/ heap \in {h, NoHost}
  PROVE  IInv'
<1>1. host'[h] = Idle /\ DOMAIN host' = Hosts /\ \A g \in Hosts \ {h} : host'[g] = host[g]
  BY HostFields
<1>2. HostOK(h)' /\ WantOK(h)' /\ LetGoOK(h)' /\ WaitOK(h)'
  BY <1>1, IdleIsAHost
     DEF Idle, HostOK, HasHeap, WantOK, Wants, LetGoOK, LetsGo, WaitOK, Releases, Asking
<1> QED
  BY <1>1, <1>2, HostMoves

\* upload, download and synchronize, up to the stream's lock.
LEMMA EntersKeep ==
  ASSUME IInv, NEW h \in Hosts, (\E t \in Live : HostCopy(h, t)) \/ Synchronize(h)
  PROVE  IInv'
<1>1. ASSUME NEW t \in Live, HostCopy(h, t) PROVE IInv'
  <2>1. /\ host[h].at = "idle" /\ DOMAIN host' = Hosts /\ \A g \in Hosts \ {h} : host'[g] = host[g]
        /\ host'[h] = [Idle EXCEPT !.at = "enter", !.then = "copy", !.tensor = t]
        /\ UNCHANGED <<memory, stream, device>> /\ turn' = turn /\ heap' = heap
    BY <1>1, HostFields DEF HostCopy
  <2>2. t \in Tensors /\ buffers' = buffers /\ Live' = Live
    BY <2>1 DEF Live, memory
  <2>3. host'[h] \in HostSet /\ host'[h].at = "enter" /\ host'[h].then = "copy" /\ host'[h].tensor = t
    BY <2>1, <2>2, IdleIsAHost DEF HostSet, Idle, Places
  <2>4. HostOK(h)' /\ WantOK(h)' /\ LetGoOK(h)' /\ WaitOK(h)'
    BY <2>2, <2>3 DEF HostOK, HasHeap, WantOK, Wants, LetGoOK, LetsGo, WaitOK, Releases, Asking
  <2> QED
    BY <2>1, <2>4, HostMoves
<1>2. CASE Synchronize(h)
  <2>1. /\ host[h].at = "idle" /\ DOMAIN host' = Hosts /\ \A g \in Hosts \ {h} : host'[g] = host[g]
        /\ host'[h] = [Idle EXCEPT !.at = "enter"]
        /\ UNCHANGED <<memory, stream, device>> /\ turn' = turn /\ heap' = heap
    BY <1>2, HostFields DEF Synchronize
  <2>3. host'[h] \in HostSet /\ host'[h].at = "enter" /\ host'[h].then = "idle"
    BY <2>1, IdleIsAHost DEF HostSet, Idle, Places
  <2>4. HostOK(h)' /\ WantOK(h)' /\ LetGoOK(h)' /\ WaitOK(h)'
    BY <2>3 DEF HostOK, HasHeap, WantOK, Wants, LetGoOK, LetsGo, WaitOK, Releases, Asking
  <2> QED
    BY <2>1, <2>4, HostMoves
<1> QED
  BY <1>1, <1>2

\* A wait that is over: everything it was for has been run.
LEMMA WaitedKeeps ==
  ASSUME IInv, NEW h \in Hosts, Waited(h)
  PROVE  IInv'
<1>1. /\ host[h].at = "wait" /\ Reached(host[h].target) /\ UNCHANGED <<memory, stream, device, heap>>
      /\ turn = h /\ host[h] \in HostSet
      /\ turn' = IF host[h].then = "copy" THEN h ELSE NoHost
      /\ DOMAIN host' = Hosts /\ \A g \in Hosts \ {h} : host'[g] = host[g]
      /\ host'[h] = CASE host[h].then = "idle" -> Idle
                      [] host[h].then \in {"copy", "letGo"} -> [host[h] EXCEPT !.at = host[h].then]
                      [] OTHER -> [host[h] EXCEPT !.at = "empty"]
  BY HostFields DEF Waited, HostOK
<1>2. \A u \in uses : ~Concerns(h, u)
  <2> SUFFICES ASSUME NEW u \in uses, Concerns(h, u) PROVE FALSE
    OBVIOUS
  <2>1. u.batch <= host[h].target
    BY <1>1, HostFields DEF WaitOK
  <2>2. u.batch \in Nat /\ executed < u.batch /\ executed \in Nat /\ completed \in Nat /\ completed <= executed
    BY DEF IInv, UsesOK, StreamOK
  <2>3. host[h].target \in Nat
    BY <1>1 DEF HostSet
  <2> QED
    BY <1>1, <2>1, <2>2, <2>3 DEF Reached
<1>3. buffers' = buffers /\ Live' = Live /\ uses' = uses /\ heap' = heap /\ weights' = weights
  BY <1>1 DEF Live, memory, device
<1>4. CASE host[h].then = "idle"
  <2>1. host'[h] = Idle
    BY <1>1, <1>4
  <2>2. HostOK(h)' /\ WantOK(h)' /\ LetGoOK(h)' /\ WaitOK(h)'
    BY <2>1, IdleIsAHost DEF Idle, HostOK, HasHeap, WantOK, Wants, LetGoOK, LetsGo, WaitOK, Releases, Asking
  <2> QED
    BY <2>2, <1>1, HostMoves
<1>5. CASE host[h].then \in {"copy", "letGo"}
  <2>1. host'[h] = [host[h] EXCEPT !.at = host[h].then]
    BY <1>1, <1>5
  <2>2. /\ host'[h] \in HostSet /\ host'[h].at = host[h].then /\ host'[h].then = host[h].then
        /\ host'[h].tensor = host[h].tensor /\ host'[h].buffer = host[h].buffer
    BY <2>1, <1>1, <1>5 DEF HostSet, Places
  <2>3. HostOK(h)'
    BY <2>2, <1>1, <1>3, <1>5, HostFields DEF HostOK, HasHeap, Asking, Releases
  <2>4. WantOK(h)' /\ LetGoOK(h)'
    BY <2>2, <1>1, <1>3, <1>5, HostFields DEF WantOK, Wants, LetGoOK, LetsGo, Asking, Releases
  <2>5. WaitOK(h)'
    BY <2>2, <1>2, <1>3, <1>5 DEF WaitOK, Concerns, SameBytes
  <2> QED
    BY <2>3, <2>4, <2>5, <1>1, HostMoves
<1>6. CASE host[h].then \in Releases
  <2>1. host'[h] = [host[h] EXCEPT !.at = "empty"]
    BY <1>1, <1>6 DEF Releases
  <2>2. /\ host'[h] \in HostSet /\ host'[h].at = "empty" /\ host'[h].then = host[h].then
        /\ host'[h].tensor = host[h].tensor /\ host'[h].kind = host[h].kind /\ host'[h].size = host[h].size
        /\ host'[h].needed = host[h].needed /\ host'[h].chunk = host[h].chunk
    BY <2>1, <1>1 DEF HostSet, Places
  <2>3. HostOK(h)'
    BY <2>2, <1>1, <1>3, <1>6, HostFields DEF HostOK, HasHeap, Asking, Releases
  <2>4. WantOK(h)' /\ LetGoOK(h)'
    BY <2>2, <1>1, <1>3, <1>6, HostFields DEF WantOK, Wants, LetGoOK, LetsGo, Asking, Releases
  <2>5. WaitOK(h)'
    BY <2>2, <1>2, <1>3, <1>6 DEF WaitOK, Concerns
  <2> QED
    BY <2>3, <2>4, <2>5, <1>1, HostMoves
<1> QED
  BY <1>1, <1>4, <1>5, <1>6 DEF HostSet

\* What ends a call with nothing done: a copy that is made, a wait that throws, no room, no memory.
LEMMA EndsKeep ==
  ASSUME IInv, NEW h \in Hosts, CopyEnds(h) \/ WaitThrows(h) \/ NoRoom(h) \/ NewFailsAgain(h)
  PROVE  IInv'
<1>1. HostOK(h)
  BY HostFields
<1>2. CASE CopyEnds(h)
  BY <1>1, <1>2, GoesIdle DEF CopyEnds, HostOK
<1>3. CASE WaitThrows(h)
  BY <1>1, <1>3, GoesIdle DEF WaitThrows, HostOK
<1>4. CASE NoRoom(h)
  BY <1>1, <1>4, GoesIdle DEF NoRoom, HostOK, HasHeap, Asking
<1>5. CASE NewFailsAgain(h)
  BY <1>1, <1>5, GoesIdle DEF NewFailsAgain, HostOK, HasHeap, Asking
<1> QED
  BY <1>2, <1>3, <1>4, <1>5

-----------------------------------------------------------------------------
\* What is rounded up to a unit is no less than it was.
LEMMA RoundToCovers ==
  ASSUME NEW n \in Nat \ {0}, NEW unit \in Nat \ {0}
  PROVE  RoundTo(n, unit) \in Nat /\ n <= RoundTo(n, unit)
<1> DEFINE q == (n + unit - 1) \div unit
           r == (n + unit - 1) % unit
<1>1. q \in Nat /\ r \in 0..(unit - 1) /\ n + unit - 1 = unit * q + r
  OBVIOUS
<1>2. RoundTo(n, unit) = unit * q
  BY <1>1 DEF RoundTo
<1>3. unit * q \in Nat
  BY <1>1
<1> HIDE DEF q, r
<1> QED
  BY <1>1, <1>2, <1>3

\* A size asked for, rounded up, and what it is cut from.
LEMMA AskedSizes ==
  ASSUME NEW bytes \in Asks
  PROVE  /\ RoundUp(bytes) \in Sizes /\ RoundUp(bytes) \in Nat \ {0}
         /\ RoundTo(RoundUp(bytes), Granule) \in Sizes
         /\ RoundUp(bytes) <= RoundTo(RoundUp(bytes), Granule)
         /\ RoundTo(RoundUp(bytes), Page) \in Nat
<1>1. RoundUp(bytes) \in Sizes /\ RoundTo(RoundUp(bytes), Granule) \in Sizes
  BY WithinBlocks
<1>2. RoundUp(bytes) \in Nat \ {0}
  BY <1>1, BlockAssumption
<1>3. Granule \in Nat \ {0} /\ Page \in Nat \ {0}
  BY VramAssumption
<1> QED
  BY <1>1, <1>2, <1>3, RoundToCovers

\* From one step of an allocation to the next, the empty chunks let go of on the way or not.
LEMMA AskGoesOn ==
  ASSUME IInv, NEW h \in Hosts, UNCHANGED <<memory, stream, device, heap, turn>>, Wants(h),
         NEW x \in HostSet, host' = [host EXCEPT ![h] = x],
         x.at \in Asking \/ (x.at = "enter" /\ x.then \in Asking),
         x.tensor = host[h].tensor, x.kind = host[h].kind, x.size = host[h].size,
         x.needed = host[h].needed,
         x.kind = "kCached" => x.chunk \in Sizes /\ x.needed <= x.chunk,
         host[h].at # "wait"
  PROVE  IInv'
<1>1. host'[h] = x /\ DOMAIN host' = Hosts /\ \A g \in Hosts \ {h} : host'[g] = host[g]
  BY HostFields
<1>2. UNCHANGED <<memory, stream, device>> /\ buffers' = buffers /\ turn' = turn /\ heap' = heap
  BY DEF memory
<1>3. heap = h
  <2>1. host[h].then \in Asking => host[h].then \in Releases
    BY HostFields DEF HostSet, Asking, Releases
  <2> QED
    BY <2>1, HostFields DEF HostOK, HasHeap, Wants
<1>4. HostOK(h)'
  BY <1>1, <1>2, <1>3 DEF HostOK, HasHeap, Asking, Releases
<1>5. WantOK(h)'
  BY <1>1, <1>2, HostFields DEF WantOK, Wants
<1>6. LetGoOK(h)' /\ WaitOK(h)'
  BY <1>1 DEF LetGoOK, LetsGo, WaitOK, Asking
<1> QED
  BY <1>1, <1>2, <1>4, <1>5, <1>6, HostMoves

\* The steps of an allocation before it has its memory.
LEMMA AskStepsKeep ==
  ASSUME IInv, NEW h \in Hosts,
         WithinLimit(h) \/ Room(h) \/ Large(h) \/ PastBudget(h) \/ NewFails(h)
  PROVE  IInv'
<1> DEFINE On(place)   == [host[h] EXCEPT !.at = place]
           Back(place) == [host[h] EXCEPT !.at = "enter", !.then = place]
<1>1. host[h] \in HostSet /\ WantOK(h)
  BY HostFields
<1>2. host[h].at \in Asking => /\ Wants(h) /\ host[h].at # "wait"
                               /\ host[h].kind = "kCached" => /\ host[h].chunk \in Sizes
                                                              /\ host[h].needed <= host[h].chunk
                                                              /\ host[h].needed \in Sizes
  BY <1>1 DEF Wants, WantOK, Asking
<1>3. \A place \in Asking :
        /\ On(place) \in HostSet /\ On(place).at = place /\ On(place).tensor = host[h].tensor
        /\ On(place).kind = host[h].kind /\ On(place).size = host[h].size
        /\ On(place).needed = host[h].needed /\ On(place).chunk = host[h].chunk
  BY <1>1 DEF HostSet, Asking, Places
<1>4. \A place \in Asking \ {"limit", "large"} :
        /\ Back(place) \in HostSet /\ Back(place).at = "enter" /\ Back(place).then = place
        /\ Back(place).tensor = host[h].tensor /\ Back(place).kind = host[h].kind
        /\ Back(place).size = host[h].size /\ Back(place).needed = host[h].needed
        /\ Back(place).chunk = host[h].chunk
  BY <1>1 DEF HostSet, Asking, Places, Releases
<1>5. ASSUME NEW place \in Asking \ {"limit", "large"}, host[h].at \in Asking,
             UNCHANGED <<memory, stream, device, heap, turn>>,
             ReleasesThen(h, place) \/ GoesOn(h, place)
      PROVE  IInv'
  <2>1. CASE ReleasesThen(h, place)
    <3>1. host' = [host EXCEPT ![h] = Back(place)]
      BY <2>1 DEF ReleasesThen
    <3> HIDE DEF Back
    <3> QED
      BY <3>1, <1>2, <1>4, <1>5, AskGoesOn
  <2>2. CASE GoesOn(h, place)
    <3>1. host' = [host EXCEPT ![h] = On(place)]
      BY <2>2 DEF GoesOn
    <3> HIDE DEF On
    <3> QED
      BY <3>1, <1>2, <1>3, <1>5, AskGoesOn
  <2> QED
    BY <1>5, <2>1, <2>2
<1>6. CASE WithinLimit(h)
  BY <1>5, <1>6 DEF WithinLimit, Asking
<1>7. CASE Large(h)
  BY <1>5, <1>7 DEF Large, Asking
<1>8. CASE PastBudget(h)
  BY <1>5, <1>8 DEF PastBudget, Asking
<1>9. CASE NewFails(h)
  BY <1>5, <1>9 DEF NewFails, Asking
<1>10. CASE Room(h)
  <2> DEFINE c == IF memoryLimit > 0 /\ host[h].chunk > RoomFor(h) THEN host[h].needed ELSE host[h].chunk
             x == [host[h] EXCEPT !.at = "large", !.chunk = c]
  <2>1. host[h].at \in Asking /\ UNCHANGED <<memory, stream, device, heap, turn>>
    BY <1>10 DEF Room, Asking
  <2>2. host' = [host EXCEPT ![h] = x]
    BY <1>10 DEF Room
  <2>3. c \in Nat /\ (host[h].kind = "kCached" => c \in Sizes /\ host[h].needed <= c)
    <3>1. host[h].needed \in Nat /\ host[h].chunk \in Nat
      BY <1>1 DEF HostSet
    <3> QED
      BY <2>1, <3>1, <1>2
  <2> HIDE DEF c
  <2>4. /\ x \in HostSet /\ x.at = "large" /\ x.tensor = host[h].tensor /\ x.kind = host[h].kind
        /\ x.size = host[h].size /\ x.needed = host[h].needed /\ x.chunk = c
    BY <1>1, <2>3 DEF HostSet, Places
  <2> HIDE DEF x
  <2>5. x.at \in Asking
    BY <2>4 DEF Asking
  <2> QED
    BY <2>1, <2>2, <2>3, <2>4, <2>5, <1>2, AskGoesOn
<1> QED
  BY <1>6, <1>7, <1>8, <1>9, <1>10

\* The calls that take the allocator's lock: nothing free was large enough, or a weight is asked
\* for, or everything unused is to go back.
LEMMA AsksKeep ==
  ASSUME IInv, NEW h \in Hosts, NEW t \in Tensors, NEW bytes \in Asks,
         AllocateNew(h, t, bytes) \/ AllocateWeight(h, t, bytes)
  PROVE  IInv'
<1> DEFINE x == host'[h]
<1>1. /\ heap = NoHost /\ heap' = h /\ turn' = turn /\ UNCHANGED <<memory, stream, device>>
      /\ buffers[t] = NoBuffer /\ DOMAIN host' = Hosts /\ \A g \in Hosts \ {h} : host'[g] = host[g]
  BY HostFields DEF AllocateNew, AllocateWeight
<1>2. /\ x \in HostSet /\ x.at = "limit" /\ x.tensor = t /\ x.size \in Nat \ {0} /\ x.then = "idle"
      /\ x.kind = "kCached" => /\ {x.size, x.needed, x.chunk} \subseteq Sizes
                                /\ x.size <= x.needed /\ x.needed <= x.chunk
  <2>1. CASE AllocateNew(h, t, bytes)
    <3> DEFINE needed == RoundTo(RoundUp(bytes), Granule)
               chunk  == IF needed > ChunkSize THEN needed ELSE ChunkSize
    <3>1. x = [Asked(t, "kCached", bytes) EXCEPT !.at = "limit", !.needed = needed, !.chunk = chunk]
      BY <2>1, HostFields DEF AllocateNew
    <3>2. needed \in Sizes /\ needed \in Nat /\ RoundUp(bytes) <= needed
      BY AskedSizes, BlockAssumption
    <3>3. chunk \in Sizes /\ chunk \in Nat /\ needed <= chunk
      BY <3>2, WithinBlocks, BlockAssumption
    <3> HIDE DEF needed, chunk
    <3>4. x = [at |-> "limit", then |-> "idle", tensor |-> t, buffer |-> NoBuffer, kind |-> "kCached",
               size |-> RoundUp(bytes), needed |-> needed, chunk |-> chunk, target |-> 0]
      BY <3>1 DEF Asked, Idle
    <3> HIDE DEF x
    <3> QED
      BY <3>2, <3>3, <3>4, AskedSizes DEF HostSet, Places
  <2>2. CASE AllocateWeight(h, t, bytes)
    <3> DEFINE pages == RoundTo(RoundUp(bytes), Page)
    <3>1. x = [Asked(t, "kWeight", bytes) EXCEPT !.at = "limit", !.needed = pages, !.chunk = pages]
      BY <2>2, HostFields DEF AllocateWeight
    <3>2. pages \in Nat
      BY AskedSizes
    <3> HIDE DEF pages
    <3>3. x = [at |-> "limit", then |-> "idle", tensor |-> t, buffer |-> NoBuffer, kind |-> "kWeight",
               size |-> RoundUp(bytes), needed |-> pages, chunk |-> pages, target |-> 0]
      BY <3>1 DEF Asked, Idle
    <3> HIDE DEF x
    <3> QED
      BY <3>2, <3>3, AskedSizes DEF HostSet, Places
  <2> QED
    BY <2>1, <2>2
<1>3. buffers' = buffers
  BY <1>1 DEF memory
<1>4. HostOK(h)'
  BY <1>1, <1>2 DEF HostOK, HasHeap
<1>5. WantOK(h)' /\ LetGoOK(h)' /\ WaitOK(h)'
  BY <1>1, <1>2, <1>3 DEF WantOK, LetGoOK, LetsGo, WaitOK
<1> QED
  BY <1>1, <1>4, <1>5, HostMoves

\* releaseUnusedMemory, up to its wait.
LEMMA ReleaseUnusedKeeps ==
  ASSUME IInv, NEW h \in Hosts, ReleaseUnusedMemory(h)
  PROVE  IInv'
<1>1. /\ heap = NoHost /\ heap' = h /\ turn' = turn /\ UNCHANGED <<memory, stream, device>>
      /\ DOMAIN host' = Hosts /\ \A g \in Hosts \ {h} : host'[g] = host[g]
      /\ host'[h] = [Idle EXCEPT !.at = "enter", !.then = "done"]
  BY HostFields DEF ReleaseUnusedMemory
<1>2. host'[h] \in HostSet /\ host'[h].at = "enter" /\ host'[h].then = "done"
  BY <1>1, IdleIsAHost DEF Idle, HostSet, Places, Releases
<1>3. HostOK(h)' /\ WantOK(h)' /\ LetGoOK(h)' /\ WaitOK(h)'
  BY <1>1, <1>2 DEF HostOK, HasHeap, WantOK, Wants, LetGoOK, LetsGo, WaitOK, Asking, Releases
<1> QED
  BY <1>1, <1>3, HostMoves

-----------------------------------------------------------------------------
\* A set of numbers that is not empty has a least.
LEMMA LeastOf ==
  ASSUME NEW T, T \subseteq Nat, T # {}
  PROVE  \E x \in T : \A y \in T : x <= y
<1> DEFINE R == OpToRel(<, Nat)
<1>1. IsWellFoundedOn(R, Nat)
  BY NatLessThanWellFounded
<1>2. \A x, y \in Nat : x < y => <<x, y>> \in R
  BY DEF OpToRel
<1> HIDE DEF R
<1>3. PICK x \in T : \A y \in T : <<y, x>> \notin R
  BY <1>1, WFMin
<1>4. \A y \in T : ~(y < x)
  BY <1>2, <1>3
<1> QED
  BY <1>4

\* How far the handlers say the device has come is never further than it has, and stops before the
\* first that has not been called.
LEMMA AdvancedIsRun ==
  ASSUME StreamOK, NEW done, done \subseteq 1..executed
  PROVE  Advanced(done) \in completed..executed /\ Advanced(done) + 1 \notin done
<1> DEFINE T == {m \in completed..submitted : m + 1 \notin done}
           P(m) == (\A i \in completed+1..m : i \in done) /\ m + 1 \notin done
<1>1. /\ completed \in Nat /\ executed \in Nat /\ submitted \in Nat
      /\ completed <= executed /\ executed <= submitted
  BY DEF StreamOK
<1>2. submitted \in T
  BY <1>1
<1>3. PICK n \in T : \A m \in T : n <= m
  <2>1. T \subseteq Nat /\ T # {}
    BY <1>1, <1>2
  <2> HIDE DEF T
  <2> QED
    BY <2>1, LeastOf
<1>4. \A i \in completed+1..n : i \in done
  <2> SUFFICES ASSUME NEW i \in completed+1..n, i \notin done PROVE FALSE
    OBVIOUS
  <2>1. i - 1 \in completed..submitted /\ (i - 1) + 1 = i
    BY <1>1, <1>3
  <2>2. i - 1 \in T
    BY <2>1
  <2> QED
    BY <2>2, <1>1, <1>3
<1>5. \E m \in completed..submitted : P(m)
  BY <1>3, <1>4
<1>6. Advanced(done) \in completed..submitted /\ P(Advanced(done))
  BY <1>5 DEF Advanced
<1> DEFINE a == Advanced(done)
<1> HIDE DEF a
<1>7. a \in completed..submitted /\ a + 1 \notin done /\ \A i \in completed+1..a : i \in done
  BY <1>6 DEF a
<1>8. a <= executed
  <2>1. CASE a = completed
    BY <2>1, <1>1
  <2>2. CASE a # completed
    <3>1. a \in done
      BY <2>2, <1>1, <1>7
    <3> QED
      BY <3>1
  <2> QED
    BY <2>1, <2>2
<1> QED
  BY <1>1, <1>7, <1>8 DEF a

\* Fewer uses are left to wait for.
LEMMA DeviceKeeps == IInv /\ DeviceRuns => IInv'
<1> SUFFICES ASSUME IInv, DeviceRuns PROVE IInv'
  OBVIOUS
<1>1. /\ made' = made /\ chunks' = chunks /\ blocks' = blocks /\ buffers' = buffers
      /\ weights' = weights /\ heap' = heap /\ turn' = turn /\ host' = host
  BY DEF DeviceRuns, memory
<1>2. /\ recorded' = recorded /\ submitted' = submitted /\ uses' \subseteq uses
      /\ StreamOK' /\ UsesOK'
  <2>1. CASE Execute
    <3>1. /\ recorded' = recorded /\ submitted' = submitted /\ completed' = completed
          /\ finished' = finished /\ executed < submitted /\ executed' = executed + 1
          /\ uses' = {u \in uses : u.batch # executed'}
      BY <2>1 DEF Execute, stream
    <3>2. StreamOK'
      <4>1. finished' \subseteq 1..executed'
        BY <3>1 DEF IInv, StreamOK
      <4> QED
        BY <3>1, <4>1 DEF IInv, StreamOK
    <3>3. UsesOK'
      <4> SUFFICES ASSUME NEW u \in uses' PROVE /\ u.batch \in Nat /\ executed' < u.batch /\ u.batch <= Recording'
                                                /\ u.batch = Recording' => recorded' > 0
                                                /\ u.run.offset \in Nat /\ u.run.size \in Nat \ {0}
                                                /\ u.run.memory \in weights' => u.run.offset = 0
        BY DEF UsesOK
      <4>1. u \in uses /\ u.batch # executed + 1
        BY <3>1
      <4> QED
        BY <3>1, <4>1, <1>1 DEF IInv, UsesOK, StreamOK, Recording
    <3> QED
      BY <3>1, <3>2, <3>3
  <2>2. ASSUME NEW n \in 1..submitted, Completed(n)
        PROVE  recorded' = recorded /\ submitted' = submitted /\ uses' \subseteq uses /\ StreamOK' /\ UsesOK'
    <3>1. /\ recorded' = recorded /\ submitted' = submitted /\ executed' = executed /\ uses' = uses
          /\ completed' = Advanced(finished \cup {n}) /\ finished' \subseteq finished \cup {n}
          /\ n <= executed
      BY <2>2 DEF Completed
    <3>2. finished \cup {n} \subseteq 1..executed
      BY <3>1 DEF IInv, StreamOK
    <3>3. completed' \in completed..executed
      BY <3>1, <3>2, AdvancedIsRun DEF IInv
    <3>4. StreamOK'
      BY <3>1, <3>2, <3>3 DEF IInv, StreamOK
    <3> QED
      BY <3>1, <3>4, <1>1 DEF IInv, UsesOK, Recording
  <2> QED
    BY <2>1, <2>2 DEF DeviceRuns, DeviceStep
<1>3. BlocksOK'
  BY <1>1, <1>2 DEF IInv, BlocksOK, Tiles, Typed, ChunkSet, BlockSet, Within, BlocksApart, Overlap, NoGaps,
              FreeIsJoined, Recording
<1>4. BuffersOK' /\ Live' = Live
  BY <1>1, <1>2 DEF IInv, BuffersOK, Live, OnBlock, Recording
<1>5. UsedBefore'
  BY <1>1, <1>2, <1>4 DEF IInv, UsedBefore, OnBytes, SameBytes, End
<1>6. InFlightIsHeld'
  BY <1>1, <1>2 DEF IInv, InFlightIsHeld
<1>7. ASSUME NEW g \in Hosts PROVE HostOK(g)' /\ WantOK(g)' /\ LetGoOK(g)' /\ WaitOK(g)'
  <2>1. HostOK(g) /\ WantOK(g) /\ LetGoOK(g) /\ WaitOK(g)
    BY DEF IInv, HostsOK
  <2>2. HostOK(g)' /\ WantOK(g)'
    BY <2>1, <1>1, <1>4 DEF HostOK, HasHeap, WantOK, Wants
  <2>3. LetGoOK(g)'
    BY <2>1, <1>1, <1>2, <1>4 DEF LetGoOK, LetsGo
  <2>4. WaitOK(g)'
    BY <2>1, <1>1, <1>2, <1>4 DEF WaitOK, Concerns, SameBytes
  <2> QED
    BY <2>2, <2>3, <2>4
<1> QED
  BY <1>1, <1>2, <1>3, <1>4, <1>5, <1>6, <1>7 DEF IInv, HostsOK

\* The lock of the stream is taken, and what is being encoded committed if it is waited for.
LEMMA EnterKeeps ==
  ASSUME IInv, NEW h \in Hosts, Enter(h)
  PROVE  IInv'
<1> DEFINE last == LastUse(h)
           x == [host[h] EXCEPT !.at = "wait", !.target = IF last > submitted THEN submitted' ELSE last]
<1>1. /\ host[h].at = "enter" /\ turn = NoHost /\ turn' = h /\ heap' = heap
      /\ made' = made /\ chunks' = chunks /\ blocks' = blocks /\ buffers' = buffers
      /\ weights' = weights /\ finished' = finished /\ completed' = completed
      /\ executed' = executed /\ uses' = uses
      /\ host' = [host EXCEPT ![h] = x]
      /\ IF last > submitted THEN Submit ELSE UNCHANGED <<recorded, submitted>>
  BY DEF Enter, memory, device
<1>2. host[h] \in HostSet /\ HostOK(h) /\ WantOK(h) /\ LetGoOK(h) /\ DOMAIN host = Hosts
  BY HostFields
<1>3. last \in Nat
  <2>1. CASE host[h].then = "copy"
    <3>1. host[h].tensor \in Live
      BY <2>1, <1>1, <1>2 DEF HostOK
    <3> QED
      BY <2>1, <3>1, LiveBuffer DEF LastUse, IInv
  <2>2. CASE host[h].then = "letGo"
    <3>1. host[h].buffer \in BufferSet
      BY <2>2, <1>1, <1>2 DEF LetGoOK, LetsGo
    <3> QED
      BY <2>2, <3>1 DEF LastUse, BufferSet
  <2>3. CASE host[h].then \notin {"copy", "letGo"}
    BY <2>3 DEF LastUse, Recording, IInv, StreamOK
  <2> QED
    BY <2>1, <2>2, <2>3
<1>4. /\ StreamOK' /\ UsesOK' /\ submitted' \in Nat /\ submitted <= submitted'
      /\ last > submitted => \A u \in uses : u.batch <= submitted'
  <2>1. CASE last > submitted /\ recorded > 0
    <3>1. submitted' = submitted + 1 /\ recorded' = 0
      BY <2>1, <1>1 DEF Submit
    <3>2. submitted \in Nat /\ submitted < MaxBatches /\ MaxBatches \in Nat
      BY <2>1, StreamAssumption DEF IInv, StreamOK
    <3>3. StreamOK'
      BY <3>1, <3>2, <1>1 DEF IInv, StreamOK
    <3>4. \A u \in uses : u.batch \in Nat /\ u.batch <= submitted + 1
      BY DEF IInv, UsesOK, Recording
    <3>5. UsesOK'
      BY <3>1, <3>2, <3>4, <1>1 DEF IInv, UsesOK, Recording
    <3> QED
      BY <3>1, <3>2, <3>3, <3>4, <3>5
  <2>2. CASE ~(last > submitted /\ recorded > 0)
    <3>1. submitted' = submitted /\ recorded' = recorded
      BY <2>2, <1>1 DEF Submit, IInv, StreamOK
    <3>2. last > submitted => \A u \in uses : u.batch <= submitted
      BY <2>2 DEF IInv, UsesOK, StreamOK, Recording
    <3> QED
      BY <3>1, <3>2, <1>1 DEF IInv, StreamOK, UsesOK, Recording
  <2> QED
    BY <2>1, <2>2
<1>5. BlocksOK'
  <2>1. Tiles'
    BY <1>1 DEF IInv, BlocksOK, Tiles, Typed, ChunkSet, BlockSet, Within, BlocksApart, Overlap, NoGaps,
                FreeIsJoined
  <2>2. ASSUME NEW b \in blocks PROVE b.lastUse <= submitted' + 1
    <3>1. b.lastUse \in Nat /\ b.lastUse <= submitted + 1
      BY DEF IInv, BlocksOK, Tiles, Typed, BlockSet, Recording
    <3> QED
      BY <3>1, <1>4 DEF IInv, StreamOK
  <2> QED
    BY <2>1, <2>2, <1>1 DEF IInv, BlocksOK, Recording
<1>6. Live' = Live /\ BuffersOK'
  <2>1. Live' = Live
    BY <1>1 DEF Live
  <2>2. \A t \in Live : buffers[t].lastUse <= Recording'
    <3> SUFFICES ASSUME NEW t \in Live PROVE buffers[t].lastUse <= submitted' + 1
      BY DEF Recording
    <3> QED
      BY LiveBuffer, <1>4 DEF IInv, BuffersOK, Recording, StreamOK
  <2> QED
    BY <2>1, <2>2, <1>1 DEF IInv, BuffersOK, OnBlock
<1>7. UsedBefore' /\ InFlightIsHeld'
  BY <1>1, <1>6 DEF IInv, UsedBefore, OnBytes, SameBytes, End, InFlightIsHeld
<1>8. ASSUME NEW g \in Hosts, g # h PROVE HostOK(g)' /\ WantOK(g)' /\ LetGoOK(g)' /\ WaitOK(g)'
  <2>1. host'[g] = host[g]
    BY <1>1, <1>2, <1>8
  <2>2. HostOK(g) /\ WantOK(g) /\ LetGoOK(g) /\ WaitOK(g)
    BY DEF IInv, HostsOK
  <2>3. HostOK(g)'
    BY <2>1, <2>2, <1>1, <1>6, <1>8, WithinBlocks DEF HostOK, HasHeap
  <2>4. WantOK(g)' /\ LetGoOK(g)'
    BY <2>1, <2>2, <1>1, <1>6 DEF WantOK, Wants, LetGoOK, LetsGo
  <2>5. WaitOK(g)'
    BY <2>1, <2>2, <1>1, <1>6 DEF WaitOK, Concerns, SameBytes
  <2> QED
    BY <2>3, <2>4, <2>5
<1>9. /\ host'[h] = x /\ x \in HostSet /\ x.at = "wait" /\ x.then = host[h].then
      /\ x.tensor = host[h].tensor /\ x.buffer = host[h].buffer /\ x.kind = host[h].kind
      /\ x.size = host[h].size /\ x.needed = host[h].needed /\ x.chunk = host[h].chunk
      /\ x.target = IF last > submitted THEN submitted' ELSE last
  BY <1>1, <1>2, <1>3, <1>4 DEF HostSet, Places
<1> HIDE DEF x
<1>10. HostOK(h)' /\ WantOK(h)' /\ LetGoOK(h)'
  BY <1>1, <1>2, <1>6, <1>9 DEF HostOK, HasHeap, Asking, WantOK, Wants, LetGoOK, LetsGo
<1>11. WaitOK(h)'
  <2> SUFFICES ASSUME NEW u \in uses, Concerns(h, u)' PROVE u.batch <= x.target
    BY <1>1, <1>9 DEF WaitOK
  <2>1. CASE last > submitted
    BY <2>1, <1>4, <1>9
  <2>2. CASE ~(last > submitted)
    <3>1. x.target = last
      BY <2>2, <1>9
    <3>2. CASE host[h].then = "copy"
      <4>1. host[h].tensor \in Live /\ SameBytes(u.run, buffers[host[h].tensor])
        BY <3>2, <1>1, <1>2, <1>9 DEF HostOK, Concerns, SameBytes, Releases
      <4> QED
        BY <3>1, <3>2, <4>1 DEF LastUse, IInv, UsedBefore
    <3>3. CASE host[h].then = "letGo"
      BY <3>1, <3>3, <1>1, <1>2, <1>9 DEF Concerns, LastUse, LetGoOK, LetsGo, Releases
    <3>4. CASE host[h].then \in Releases
      BY <2>2, <3>4 DEF LastUse, Releases, Recording, IInv, StreamOK
    <3> QED
      BY <3>2, <3>3, <3>4, <1>9 DEF Concerns
  <2> QED
    BY <2>1, <2>2
<1> QED
  BY <1>1, <1>2, <1>4, <1>5, <1>6, <1>7, <1>8, <1>10, <1>11 DEF IInv, HostsOK

\* How far back submit waits for the device.
LEMMA ThrottleIsANumber == \A n \in Nat : Throttle(n) \in Nat
BY StreamAssumption DEF Throttle

\* A command is encoded: every buffer it uses is marked with its batch, so what it will read and
\* write is no later than the mark of its bytes.
LEMMA DispatchKeeps ==
  ASSUME IInv, NEW h \in Hosts, NEW args \in SUBSET Live, Dispatch(h, args)
  PROVE  IInv'
<1> DEFINE New == {[batch |-> Recording, run |-> r] : r \in {Run(buffers[t]) : t \in args}}
<1>1. /\ host[h].at = "idle" /\ turn = NoHost /\ heap' = heap /\ submitted < MaxBatches
      /\ made' = made /\ chunks' = chunks /\ blocks' = blocks /\ weights' = weights
      /\ finished' = finished /\ completed' = completed /\ executed' = executed
      /\ uses' = uses \cup New
      /\ IF recorded + 1 >= PerBatch
         THEN submitted' = submitted + 1 /\ recorded' = 0
         ELSE submitted' = submitted /\ recorded' = recorded + 1
      /\ buffers' = [t \in Tensors |-> IF t \in args THEN [buffers[t] EXCEPT !.lastUse = Recording]
                                       ELSE buffers[t]]
  BY DEF Dispatch, Encode
<1>2. /\ submitted \in Nat /\ recorded \in Nat /\ MaxBatches \in Nat /\ Recording = submitted + 1
      /\ executed \in Nat /\ executed <= submitted /\ submitted <= submitted'
      /\ submitted' \in Nat /\ Recording' = submitted' + 1 /\ Recording <= Recording'
  BY <1>1, StreamAssumption DEF IInv, StreamOK, Recording
<1>3. StreamOK'
  BY <1>1, <1>2 DEF IInv, StreamOK
<1>4. \A u \in New : \E t \in args : /\ u.batch = Recording /\ u.run = Run(buffers[t])
                                    /\ t \in Live /\ u.run.memory = buffers[t].memory
  BY DEF Run
<1> HIDE DEF New
<1>5. \A t \in Live : /\ t \in Tensors /\ buffers[t] \in BufferSet /\ buffers[t] # NoBuffer
                      /\ buffers[t].offset \in Nat /\ buffers[t].size \in Nat \ {0}
                      /\ buffers[t].lastUse \in Nat /\ buffers[t].lastUse <= Recording
  BY LiveBuffer DEF IInv, Live, BuffersOK
<1>6. \A t \in Live : /\ buffers'[t] \in BufferSet /\ buffers'[t].memory = buffers[t].memory
                      /\ buffers'[t].offset = buffers[t].offset /\ buffers'[t].size = buffers[t].size
                      /\ buffers'[t].type = buffers[t].type
                      /\ buffers'[t].lastUse = IF t \in args THEN Recording ELSE buffers[t].lastUse
  <2> SUFFICES ASSUME NEW t \in Live PROVE
                      /\ buffers'[t] \in BufferSet /\ buffers'[t].memory = buffers[t].memory
                      /\ buffers'[t].offset = buffers[t].offset /\ buffers'[t].size = buffers[t].size
                      /\ buffers'[t].type = buffers[t].type
                      /\ buffers'[t].lastUse = IF t \in args THEN Recording ELSE buffers[t].lastUse
    OBVIOUS
  <2>1. buffers'[t] = IF t \in args THEN [buffers[t] EXCEPT !.lastUse = Recording] ELSE buffers[t]
    BY <1>1, <1>5
  <2>2. Recording \in Nat /\ buffers[t] \in BufferSet
    BY <1>2, <1>5
  <2> QED
    BY <2>1, <2>2 DEF BufferSet
<1>7. Live' = Live /\ \A t \in Tensors \ Live : buffers'[t] = NoBuffer
  <2>1. \A t \in Tensors \ Live : buffers'[t] = NoBuffer
    BY <1>1 DEF Live
  <2>2. \A t \in Live : buffers'[t] # NoBuffer /\ t \in Tensors
    BY <1>5, <1>6, ABufferIsNotNone
  <2>3. Live' = {t \in Tensors : buffers'[t] # NoBuffer}
    BY DEF Live
  <2>4. Live \subseteq Tensors
    BY DEF Live
  <2> QED
    BY <2>1, <2>2, <2>3, <2>4
<1>8. \A t \in Live : \/ \E b \in blocks : OnBlock(buffers[t], b) /\ b.chunk \in chunks
                      \/ buffers[t].memory \in weights /\ buffers[t].offset = 0
  BY WhereItIs DEF IInv, BlocksOK, Tiles, Typed, BlockSet
<1>9. UsesOK'
  <2>1. ASSUME NEW u \in uses
        PROVE  /\ u.batch \in Nat /\ executed' < u.batch /\ u.batch <= Recording'
               /\ u.batch = Recording' => recorded' > 0
               /\ u.run.offset \in Nat /\ u.run.size \in Nat \ {0}
               /\ u.run.memory \in weights' => u.run.offset = 0
    <3>1. /\ u.batch \in Nat /\ executed < u.batch /\ u.batch <= Recording
          /\ u.batch = Recording => recorded > 0
          /\ u.run.offset \in Nat /\ u.run.size \in Nat \ {0}
          /\ u.run.memory \in weights => u.run.offset = 0
      BY DEF IInv, UsesOK
    <3> QED
      BY <3>1, <1>1, <1>2
  <2>2. ASSUME NEW u \in New
        PROVE  /\ u.batch \in Nat /\ executed' < u.batch /\ u.batch <= Recording'
               /\ u.batch = Recording' => recorded' > 0
               /\ u.run.offset \in Nat /\ u.run.size \in Nat \ {0}
               /\ u.run.memory \in weights' => u.run.offset = 0
    <3>1. PICK t \in args : u.batch = Recording /\ u.run = Run(buffers[t])
      BY <1>4
    <3>2. /\ u.run.memory = buffers[t].memory /\ u.run.offset = buffers[t].offset
          /\ u.run.size = buffers[t].size
      BY <3>1 DEF Run
    <3>3. u.run.memory \in weights => u.run.offset = 0
      BY <3>2, <1>8, ChunksAreNoWeights DEF IInv, OnBlock
    <3> QED
      BY <3>1, <3>2, <3>3, <1>1, <1>2, <1>5
  <2> QED
    BY <2>1, <2>2, <1>1 DEF UsesOK
<1>10. BlocksOK'
  <2>1. Tiles'
    BY <1>1 DEF IInv, BlocksOK, Tiles, Typed, ChunkSet, BlockSet, Within, BlocksApart, Overlap, NoGaps,
                FreeIsJoined
  <2>2. ASSUME NEW b \in blocks PROVE b.lastUse <= Recording'
    <3>1. b.lastUse \in Nat /\ b.lastUse <= Recording
      BY DEF IInv, BlocksOK, Tiles, Typed, BlockSet
    <3> QED
      BY <3>1, <1>2
  <2> QED
    BY <2>1, <2>2, <1>1 DEF IInv, BlocksOK
<1>11. BuffersOK'
  <2>1. buffers' \in [Tensors -> BufferSet \cup {NoBuffer}]
    BY <1>1, <1>6, <1>7
  <2>2. \A t \in Live : buffers'[t].lastUse <= Recording'
    BY <1>2, <1>5, <1>6
  <2>3. \A t \in Live : /\ buffers'[t].type = "kCached" => \E b \in blocks : OnBlock(buffers'[t], b)
                        /\ buffers'[t].type = "kWeight" =>
                             buffers'[t].memory \in weights /\ buffers'[t].memory.id = t /\ buffers'[t].offset = 0
    BY <1>6 DEF IInv, BuffersOK, OnBlock
  <2>4. \A t, o \in Live :
          buffers'[t].memory = buffers'[o].memory /\ buffers'[t].offset = buffers'[o].offset => t = o
    BY <1>6 DEF IInv, BuffersOK
  <2>5. weights' \subseteq MemorySet /\ \A w \in weights' : w.id \in Tensors
    BY <1>1 DEF IInv, BuffersOK
  <2>6. ASSUME NEW t \in Live', buffers'[t].type = "kCached"
        PROVE  \E b \in blocks' : OnBlock(buffers'[t], b)
    BY <2>3, <2>6, <1>1, <1>7
  <2>7. \A t \in Live' : /\ buffers'[t].lastUse <= Recording'
                         /\ buffers'[t].type = "kWeight" => /\ buffers'[t].memory \in weights'
                                                            /\ buffers'[t].memory.id = t
                                                            /\ buffers'[t].offset = 0
    BY <2>2, <2>3, <1>1, <1>7
  <2>8. \A t, o \in Live' :
          buffers'[t].memory = buffers'[o].memory /\ buffers'[t].offset = buffers'[o].offset => t = o
    BY <2>4, <1>7
  <2>9. \A t \in Live' : buffers'[t].type = "kCached" => \E b \in blocks' : OnBlock(buffers[t], b)'
    BY <2>6 DEF OnBlock
  <2> QED
    BY <2>1, <2>5, <2>7, <2>8, <2>9 DEF BuffersOK
<1>12. UsedBefore'
  <2>1. ASSUME NEW u \in uses', NEW b \in blocks, b.free, OnBytes(u.run, b) PROVE u.batch <= b.lastUse
    <3>1. CASE u \in uses
      BY <3>1, <2>1 DEF IInv, UsedBefore
    <3>2. CASE u \in New
      <4>1. PICK t \in args : u.run = Run(buffers[t])
        BY <3>2, <1>4
      <4>2. OnBytes(buffers[t], b)
        BY <4>1, <2>1 DEF OnBytes, Run
      <4> QED
        BY <4>2, <2>1, FreeIsNobodys DEF IInv
    <3> QED
      BY <3>1, <3>2, <1>1
  <2>2. ASSUME NEW u \in uses', NEW o \in Live, SameBytes(u.run, buffers'[o])
        PROVE  u.batch <= buffers'[o].lastUse
    <3>1. SameBytes(u.run, buffers[o])
      BY <2>2, <1>6 DEF SameBytes
    <3>2. CASE u \in uses
      <4>1. u.batch <= buffers[o].lastUse /\ u.batch <= Recording
        BY <3>1, <3>2 DEF IInv, UsedBefore, UsesOK
      <4> QED
        BY <4>1, <1>6
    <3>3. CASE u \in New
      <4>1. PICK t \in args : u.batch = Recording /\ u.run = Run(buffers[t])
        BY <3>3, <1>4
      <4>2. SameBytes(buffers[t], buffers[o])
        BY <4>1, <3>1 DEF SameBytes, Run
      <4>3. t = o
        BY <4>2, LiveApart DEF IInv
      <4> QED
        BY <4>1, <4>3, <1>2, <1>6
    <3> QED
      BY <3>2, <3>3, <1>1
  <2> QED
    BY <2>1, <2>2, <1>1, <1>7 DEF UsedBefore, OnBytes, SameBytes, End
<1>13. InFlightIsHeld'
  <2>1. ASSUME NEW u \in New PROVE u.run.memory \in chunks \cup weights
    <3>1. PICK t \in args : u.run = Run(buffers[t])
      BY <1>4
    <3> QED
      BY <3>1, <1>8 DEF Run, OnBlock
  <2> QED
    BY <2>1, <1>1 DEF IInv, InFlightIsHeld
<1>14. ASSUME NEW g \in Hosts, host'[g] = host[g]
       PROVE  HostOK(g)' /\ WantOK(g)' /\ LetGoOK(g)' /\ WaitOK(g)'
  <2>1. HostOK(g) /\ WantOK(g) /\ LetGoOK(g) /\ WaitOK(g)
    BY DEF IInv, HostsOK
  <2>2. host[g].at \notin {"wait", "copy"}
    BY <2>1, <1>1, WithinBlocks DEF HostOK
  <2>3. HostOK(g)'
    BY <2>1, <2>2, <1>1, <1>7, <1>14 DEF HostOK, HasHeap
  <2>4. WantOK(g)'
    <3>1. Wants(g) => host[g].tensor \in Tensors \ Live
      BY <2>1 DEF WantOK, Live
    <3> QED
      BY <2>1, <3>1, <1>7, <1>14 DEF WantOK, Wants
  <2>5. LetGoOK(g)'
    <3> SUFFICES ASSUME LetsGo(g)
                 PROVE  /\ host[g].buffer \in BufferSet /\ host[g].buffer.memory \in weights
                        /\ \A t \in Live : buffers'[t].memory # host[g].buffer.memory
                        /\ \A u \in uses' : u.run.memory = host[g].buffer.memory =>
                             u.batch <= host[g].buffer.lastUse
      BY <1>1, <1>7, <1>14 DEF LetGoOK, LetsGo
    <3>1. \A u \in New : u.run.memory # host[g].buffer.memory
      BY <2>1, <1>4 DEF LetGoOK
    <3> QED
      BY <2>1, <3>1, <1>1, <1>6 DEF LetGoOK
  <2>6. WaitOK(g)'
    <3>1. host[g].at = "letGo" => \A u \in uses' : ~Concerns(g, u)'
      <4> SUFFICES ASSUME host[g].at = "letGo", NEW u \in uses' PROVE ~Concerns(g, u)'
        OBVIOUS
      <4>1. host[g].then = "letGo" /\ LetsGo(g)
        BY <2>1 DEF HostOK, LetsGo
      <4>2. u.run.memory # host[g].buffer.memory
        <5>1. u \in uses => ~Concerns(g, u)
          BY <2>1 DEF WaitOK
        <5>2. u \in New => u.run.memory # host[g].buffer.memory
          BY <2>1, <4>1, <1>4 DEF LetGoOK
        <5> QED
          BY <5>1, <5>2, <4>1, <1>1 DEF Concerns
      <4> QED
        BY <4>1, <4>2, <1>14 DEF Concerns, Releases
    <3>2. host[g].at = "empty" => \A u \in uses' : \E t \in Live : buffers'[t].memory = u.run.memory
      <4> SUFFICES ASSUME host[g].at = "empty", NEW u \in uses'
                   PROVE  \E t \in Live : buffers'[t].memory = u.run.memory
        OBVIOUS
      <4>1. \E t \in Live : buffers[t].memory = u.run.memory
        <5>1. CASE u \in uses
          BY <5>1, <2>1 DEF WaitOK
        <5>2. CASE u \in New
          BY <5>2, <1>4
        <5> QED
          BY <5>1, <5>2, <1>1
      <4> QED
        BY <4>1, <1>6
    <3> QED
      BY <2>2, <3>1, <3>2, <1>1, <1>7, <1>14 DEF WaitOK
  <2> QED
    BY <2>3, <2>4, <2>5, <2>6
<1>15. DOMAIN host' = Hosts /\ HostsOK'
  <2>1. CASE submitted' = submitted
    <3>1. host' = host /\ turn' = turn
      BY <2>1 DEF Dispatch
    <3> QED
      BY <3>1, <1>14, HostFields DEF HostsOK
  <2>2. CASE submitted' # submitted
    <3> DEFINE x == [Idle EXCEPT !.at = "wait", !.target = Throttle(submitted')]
    <3>1. host' = [host EXCEPT ![h] = x] /\ turn' = h
      BY <2>2 DEF Dispatch
    <3>2. Throttle(submitted') \in Nat
      <4>1. submitted' \in Nat
        BY <1>2
      <4> QED
        BY <4>1, ThrottleIsANumber
    <3>3. x \in HostSet /\ x.at = "wait" /\ x.then = "idle"
      BY <3>2, IdleIsAHost DEF Idle, HostSet, Places
    <3> HIDE DEF x
    <3>4. host'[h] = x /\ DOMAIN host' = Hosts /\ \A g \in Hosts \ {h} : host'[g] = host[g]
      BY <3>1, HostFields
    <3>5. HostOK(h)' /\ WantOK(h)' /\ LetGoOK(h)' /\ WaitOK(h)'
      BY <3>1, <3>3, <3>4
         DEF HostOK, HasHeap, WantOK, Wants, LetGoOK, LetsGo, WaitOK, Concerns, Asking, Releases
    <3>6. ASSUME NEW g \in Hosts, g # h PROVE HostOK(g)' /\ WantOK(g)' /\ LetGoOK(g)' /\ WaitOK(g)'
      <4>1. host'[g] = host[g]
        BY <3>4, <3>6
      <4> QED
        BY <4>1, <1>14
    <3> QED
      BY <3>4, <3>5, <3>6 DEF HostsOK
  <2> QED
    BY <2>1, <2>2
<1> QED
  BY <1>3, <1>9, <1>10, <1>11, <1>12, <1>13, <1>15 DEF IInv

-----------------------------------------------------------------------------
\* The tensor t gains or loses its memory: a thread that has nothing to do with it goes on.
LEMMA OthersGoOn ==
  ASSUME IInv, NEW g \in Hosts, NEW t \in Tensors,
         Wants(g) \/ (host[g].then = "copy" /\ host[g].at \in {"enter", "wait", "copy"}) => host[g].tensor # t,
         host'[g] = host[g], turn' = turn, uses' = uses,
         heap' = heap \/ heap # g,
         buffers' \in [Tensors -> BufferSet \cup {NoBuffer}],
         \A o \in Tensors \ {t} : buffers'[o] = buffers[o],
         LetsGo(g) => host[g].buffer.memory \in weights',
         buffers'[t] # NoBuffer => buffers'[t].memory \notin weights,
         host[g].at = "empty" => buffers[t] = NoBuffer
  PROVE  HostOK(g)' /\ WantOK(g)' /\ LetGoOK(g)' /\ WaitOK(g)'
<1>1. HostOK(g) /\ WantOK(g) /\ LetGoOK(g) /\ WaitOK(g) /\ NoTensor \notin Tensors
  BY WithinBlocks DEF IInv, HostsOK
<1>2. /\ \A o \in Tensors \ {t} : o \in Live <=> o \in Live'
      /\ \A o \in Live \ {t} : o \in Live' /\ buffers'[o] = buffers[o]
      /\ Live' \subseteq Tensors /\ Live \subseteq Tensors
  BY DEF Live
<1>3. HostOK(g)'
  BY <1>1, <1>2 DEF HostOK, HasHeap
<1>4. WantOK(g)'
  BY <1>1 DEF WantOK, Wants
<1>5. LetGoOK(g)'
  BY <1>1, <1>2 DEF LetGoOK, LetsGo, Live
<1>6. WaitOK(g)'
  <2>1. host[g].at \in {"wait", "copy", "letGo"} => \A u \in uses : Concerns(g, u)' => Concerns(g, u)
    <3>1. host[g].then = "copy" /\ host[g].at \in {"wait", "copy", "letGo"} =>
            buffers'[host[g].tensor] = buffers[host[g].tensor]
      BY <1>1, <1>2 DEF HostOK
    <3>2. host'[g].then = host[g].then /\ host'[g].tensor = host[g].tensor /\ host'[g].buffer = host[g].buffer
      OBVIOUS
    <3> QED
      BY <3>1, <3>2 DEF Concerns, SameBytes
  <2>2. host[g].at = "empty" => \A u \in uses : \E o \in Live' : buffers'[o].memory = u.run.memory
    BY <1>1, <1>2 DEF WaitOK, Live
  <2> QED
    BY <1>1, <2>1, <2>2 DEF WaitOK
<1> QED
  BY <1>3, <1>4, <1>5, <1>6

\* What a tensor gets of a block that is free, or of a new chunk that is all free: bytes nothing
\* queued uses but what the block says.
LEMMA TakingKeeps ==
  ASSUME IInv, NEW t \in Tensors, buffers[t] = NoBuffer,
         NEW b, b.chunk \in chunks', b.offset \in Nat, b.size \in Nat \ {0}, b.lastUse \in Nat,
         b.lastUse <= Recording,
         NEW size \in Nat \ {0}, size <= b.size,
         \A u \in uses : OnBytes(u.run, b) => u.batch <= b.lastUse,
         \A o \in Live : buffers[o].memory # b.chunk \/ buffers[o].offset # b.offset,
         \A o \in blocks : ~o.free => o \in blocks',
         Taken(b, size) \in blocks',
         \A o \in blocks' : o.free =>
           \/ o \in blocks
           \/ /\ o.chunk = b.chunk /\ o.lastUse = b.lastUse /\ o.offset \in Nat /\ o.size \in Nat
              /\ b.offset <= o.offset /\ End(o) <= End(b),
         \A o \in blocks' : o.lastUse <= Recording,
         Taken(b, size).chunk = b.chunk, Taken(b, size).offset = b.offset,
         Taken(b, size).size = size, Taken(b, size).lastUse = b.lastUse, ~Taken(b, size).free,
         Tiles', chunks \subseteq chunks', \A c \in chunks' : c.size \in Sizes,
         \A c \in chunks' : c.id \in Nat,
         buffers' = [buffers EXCEPT ![t] = BufferOn(Taken(b, size))],
         UNCHANGED <<weights, stream, device>>
  PROVE  /\ StreamOK' /\ UsesOK' /\ BlocksOK' /\ BuffersOK' /\ UsedBefore' /\ InFlightIsHeld'
         /\ buffers' \in [Tensors -> BufferSet \cup {NoBuffer}]
         /\ \A o \in Tensors \ {t} : buffers'[o] = buffers[o]
         /\ buffers'[t].memory \notin weights
<1> DEFINE new == BufferOn(Taken(b, size))
<1>1. /\ recorded' = recorded /\ submitted' = submitted /\ completed' = completed
      /\ finished' = finished /\ executed' = executed /\ uses' = uses /\ weights' = weights
      /\ Recording' = Recording
  BY DEF stream, device, Recording
<1>2. b.chunk \in MemorySet
  BY DEF Tiles, Typed, ChunkSet, MemorySet
<1>3. /\ new.memory = b.chunk /\ new.offset = b.offset /\ new.size = size
      /\ new.lastUse = b.lastUse /\ new.type = "kCached" /\ new \in BufferSet
  BY <1>2 DEF BufferOn, BufferSet
<1> HIDE DEF new
<1>4. buffers \in [Tensors -> BufferSet \cup {NoBuffer}]
  BY DEF IInv, BuffersOK
<1>5. /\ buffers' \in [Tensors -> BufferSet \cup {NoBuffer}]
      /\ \A o \in Tensors \ {t} : buffers'[o] = buffers[o]
      /\ buffers'[t] = new
  BY <1>3, <1>4 DEF new
<1>6. Live' = Live \cup {t} /\ t \notin Live
  <2>1. new # NoBuffer
    BY <1>3, ABufferIsNotNone
  <2> QED
    BY <2>1, <1>5 DEF Live
<1>7. b.chunk \notin weights
  BY WithinBlocks DEF IInv, BuffersOK
<1>8. StreamOK'
  BY <1>1 DEF IInv, StreamOK
<1>9. UsesOK'
  BY <1>1 DEF IInv, UsesOK
<1>10. BlocksOK'
  BY <1>1 DEF BlocksOK
<1>11. \A o \in Live : buffers'[o] = buffers[o] /\ o \in Tensors /\ o # t
  BY <1>5, <1>6 DEF Live
<1>12. BuffersOK'
  <2>1. ASSUME NEW o \in Live', buffers'[o].type = "kCached" PROVE \E c \in blocks' : OnBlock(buffers'[o], c)
    <3>1. CASE o = t
      BY <3>1, <1>3, <1>5 DEF OnBlock
    <3>2. CASE o # t
      <4>1. o \in Live /\ buffers'[o] = buffers[o]
        BY <3>2, <1>6, <1>11
      <4>2. PICK c \in blocks : OnBlock(buffers[o], c)
        BY <2>1, <4>1 DEF IInv, BuffersOK
      <4> QED
        BY <4>1, <4>2 DEF OnBlock
    <3> QED
      BY <3>1, <3>2
  <2>2. \A o \in Live' : /\ buffers'[o].lastUse <= Recording'
                         /\ buffers'[o].type = "kWeight" => /\ buffers'[o].memory \in weights'
                                                            /\ buffers'[o].memory.id = o
                                                            /\ buffers'[o].offset = 0
    BY <1>1, <1>3, <1>5, <1>6, <1>11 DEF IInv, BuffersOK
  <2>3. \A o, q \in Live' :
          buffers'[o].memory = buffers'[q].memory /\ buffers'[o].offset = buffers'[q].offset => o = q
    <3>1. \A o, q \in Live :
            buffers[o].memory = buffers[q].memory /\ buffers[o].offset = buffers[q].offset => o = q
      BY DEF IInv, BuffersOK
    <3> QED
      BY <3>1, <1>3, <1>5, <1>6, <1>11
  <2>4. weights' \subseteq MemorySet /\ \A w \in weights' : w.id \in Tensors
    BY <1>1 DEF IInv, BuffersOK
  <2>5. \A o \in Live' : buffers'[o].type = "kCached" => \E c \in blocks' : OnBlock(buffers[o], c)'
    BY <2>1 DEF OnBlock
  <2> QED
    BY <2>2, <2>3, <2>4, <2>5, <1>5 DEF BuffersOK
<1>13. UsedBefore'
  <2>1. ASSUME NEW u \in uses, NEW o \in blocks', o.free, OnBytes(u.run, o) PROVE u.batch <= o.lastUse
    <3>1. CASE o \in blocks
      BY <3>1, <2>1 DEF IInv, UsedBefore
    <3>2. CASE o \notin blocks
      <4>1. OnBytes(u.run, b)
        <5>1. u.run.offset \in Nat /\ u.run.size \in Nat
          BY DEF IInv, UsesOK
        <5> QED
          BY <5>1, <3>2, <2>1 DEF OnBytes, End
      <4> QED
        BY <4>1, <3>2, <2>1
    <3> QED
      BY <3>1, <3>2
  <2>2. ASSUME NEW u \in uses, NEW o \in Live', SameBytes(u.run, buffers'[o])
        PROVE  u.batch <= buffers'[o].lastUse
    <3>1. CASE o = t
      <4>1. OnBytes(u.run, b)
        <5>1. u.run.offset \in Nat /\ u.run.size \in Nat
          BY DEF IInv, UsesOK
        <5> QED
          BY <5>1, <3>1, <2>2, <1>3, <1>5 DEF OnBytes, SameBytes, End
      <4> QED
        BY <4>1, <3>1, <1>3, <1>5
    <3>2. CASE o # t
      <4>1. o \in Live /\ buffers'[o] = buffers[o]
        BY <3>2, <1>6, <1>11
      <4> QED
        BY <4>1, <2>2 DEF IInv, UsedBefore
    <3> QED
      BY <3>1, <3>2
  <2> QED
    BY <2>1, <2>2, <1>1 DEF UsedBefore, OnBytes, SameBytes, End
<1>14. InFlightIsHeld'
  BY <1>1 DEF IInv, InFlightIsHeld
<1> QED
  BY <1>3, <1>5, <1>7, <1>8, <1>9, <1>10, <1>12, <1>13, <1>14

-----------------------------------------------------------------------------
\* What allocate finds of what there is is what the blocks' own take would find: the smallest
\* dedicated chunk there is between two sizes is the smallest there is up to its own.
LEMMA FoundIsTaken ==
  ASSUME IInv, NEW bytes \in Asks, NEW b \in FromWhatThereIs(RoundUp(bytes)),
         Cut(b, RoundUp(bytes)), UNCHANGED <<made, chunks>>
  PROVE  b \in blocks /\ TakeStep(RoundUp(bytes), b)
<1> DEFINE size == RoundUp(bytes)
<1> HIDE DEF size
<1>1. CASE b \in BestFit(size)
  BY <1>1 DEF TakeStep, BestFit, Free, size
<1>2. CASE b \in DedicatedFit(size, LargestFor(size))
  <2>1. /\ b \in blocks /\ b.chunk \in chunks /\ b.chunk.dedicated /\ Empty(b.chunk)
        /\ b.chunk.size >= size /\ b.chunk.size <= LargestFor(size)
    BY <1>2 DEF DedicatedFit
  <2>2. \A c \in chunks : c.size \in Nat
    BY DEF IInv, BlocksOK, Tiles, Typed, ChunkSet
  <2>3. b.chunk.size \in Sizes
    BY <2>1 DEF IInv, BlocksOK
  <2>4. size \in Nat /\ LargestFor(size) \in Nat
    BY AskedSizes DEF LargestFor, size
  <2>5. b \in DedicatedFit(size, b.chunk.size)
    <3>1. \A c \in chunks : c.dedicated /\ Empty(c) /\ c.size >= size /\ c.size <= b.chunk.size =>
            b.chunk.size <= c.size
      <4> SUFFICES ASSUME NEW c \in chunks, c.dedicated, Empty(c), c.size >= size, c.size <= b.chunk.size
                   PROVE  b.chunk.size <= c.size
        OBVIOUS
      <4>1. c.size <= LargestFor(size)
        BY <2>1, <2>2, <2>4
      <4> QED
        BY <4>1, <1>2 DEF DedicatedFit
    <3>2. b.chunk.size <= b.chunk.size
      BY <2>1, <2>2
    <3> QED
      BY <3>1, <3>2, <2>1 DEF DedicatedFit
  <2> QED
    BY <2>1, <2>3, <2>5 DEF TakeStep, size
<1> QED
  BY <1>1, <1>2 DEF FromWhatThereIs, size

\* What take keeps of the block it hands out.
LEMMA TakenFields ==
  ASSUME NEW b, b.chunk \in chunks, b.offset \in Nat, b.size \in Nat \ {0}, b.lastUse \in Nat,
         b.free \in BOOLEAN, b \in BlockSet, NEW size \in Nat \ {0}
  PROVE  /\ Taken(b, size).chunk = b.chunk /\ Taken(b, size).offset = b.offset
         /\ Taken(b, size).size = size /\ Taken(b, size).lastUse = b.lastUse /\ ~Taken(b, size).free
         /\ \A o \in Rest(b, size) :
              size < b.size \/ size > b.size => 
                /\ o.chunk = b.chunk /\ o.lastUse = b.lastUse /\ o.free = b.free
                /\ o.offset = b.offset + size /\ o.size = b.size - size
         /\ size = b.size => Rest(b, size) = {}
BY DEF Taken, Rest, BlockSet

\* A free block is found and cut: its first part is the tensor's from now on.
LEMMA AllocateKeeps ==
  ASSUME IInv, NEW h \in Hosts, NEW t \in Tensors, NEW bytes \in Asks, Allocate(h, t, bytes)
  PROVE  IInv'
<1> DEFINE size == RoundUp(bytes)
<1>1. PICK b \in FromWhatThereIs(size) :
        Cut(b, size) /\ buffers' = [buffers EXCEPT ![t] = BufferOn(Taken(b, size))]
  BY DEF Allocate
<1>2. /\ buffers[t] = NoBuffer /\ \A g \in Hosts : host[g].tensor # t
      /\ heap = NoHost /\ heap' = heap /\ turn' = turn /\ host' = host
      /\ UNCHANGED <<made, chunks, weights, stream, device>>
  BY DEF Allocate
<1>3. size \in Nat \ {0} /\ size \in Sizes
  BY AskedSizes
<1>4. b \in blocks /\ TakeStep(size, b)
  BY <1>1, <1>2, FoundIsTaken
<1> HIDE DEF size
<1>5. Fields(b) /\ b \in BlockSet /\ Tiles
  BY <1>4 DEF IInv, BlocksOK, Tiles, Typed, BlockSet, Fields
<1>6. b.free /\ size <= b.size
  BY <1>3, <1>4, <1>5, TakenFits DEF Fields
<1>7. Tiles'
  BY <1>1, <1>2, <1>3, <1>4, <1>5, <1>6, CutTiles
<1>8. /\ Taken(b, size).chunk = b.chunk /\ Taken(b, size).offset = b.offset
      /\ Taken(b, size).size = size /\ Taken(b, size).lastUse = b.lastUse /\ ~Taken(b, size).free
      /\ \A o \in Rest(b, size) : /\ o.chunk = b.chunk /\ o.lastUse = b.lastUse
                                  /\ o.offset = b.offset + size /\ o.size = b.size - size
  BY <1>3, <1>5, TakenFields DEF Fields
<1>9. blocks' = (blocks \ {b}) \cup {Taken(b, size)} \cup Rest(b, size)
  BY <1>1 DEF Cut
<1>10. b.lastUse <= Recording /\ \A o \in blocks : o.lastUse <= Recording
  BY <1>4 DEF IInv, BlocksOK
<1>11. \A u \in uses : OnBytes(u.run, b) => u.batch <= b.lastUse
  BY <1>4, <1>6 DEF IInv, UsedBefore
<1>12. \A o \in Live : buffers[o].memory # b.chunk \/ buffers[o].offset # b.offset
  <2> SUFFICES ASSUME NEW o \in Live, buffers[o].memory = b.chunk, buffers[o].offset = b.offset PROVE FALSE
    OBVIOUS
  <2>1. OnBytes(buffers[o], b)
    BY <1>5, LiveBuffer DEF OnBytes, End, IInv, Fields
  <2> QED
    BY <2>1, <1>4, <1>6, FreeIsNobodys DEF IInv
<1>13. \A o \in blocks : ~o.free => o \in blocks'
  BY <1>6, <1>9
<1>14. \A o \in blocks' : o.free =>
         \/ o \in blocks
         \/ /\ o.chunk = b.chunk /\ o.lastUse = b.lastUse /\ o.offset \in Nat /\ o.size \in Nat
            /\ b.offset <= o.offset /\ End(o) <= End(b)
  BY <1>3, <1>5, <1>6, <1>8, <1>9 DEF Fields, End
<1>15. \A o \in blocks' : o.lastUse <= Recording
  BY <1>8, <1>9, <1>10
<1>16. \A c \in chunks : c.size \in Sizes /\ c.id \in Nat
  BY DEF IInv, BlocksOK, Tiles, Typed, ChunkSet
<1>17. Taken(b, size) \in blocks' /\ chunks' = chunks
  BY <1>2, <1>9
<1>18. /\ StreamOK' /\ UsesOK' /\ BlocksOK' /\ BuffersOK' /\ UsedBefore' /\ InFlightIsHeld'
       /\ buffers' \in [Tensors -> BufferSet \cup {NoBuffer}]
       /\ \A o \in Tensors \ {t} : buffers'[o] = buffers[o]
       /\ buffers'[t].memory \notin weights
  BY <1>1, <1>2, <1>3, <1>5, <1>6, <1>7, <1>8, <1>10, <1>11, <1>12, <1>13, <1>14, <1>15, <1>16, <1>17,
     TakingKeeps DEF Fields
<1>19. ASSUME NEW g \in Hosts PROVE HostOK(g)' /\ WantOK(g)' /\ LetGoOK(g)' /\ WaitOK(g)'
  <2>1. LetsGo(g) => host[g].buffer.memory \in weights'
    BY <1>2 DEF IInv, HostsOK, LetGoOK
  <2>2. uses' = uses
    BY <1>2 DEF device
  <2> QED
    BY <2>1, <2>2, <1>2, <1>18, OthersGoOn
<1> QED
  BY <1>2, <1>18, <1>19, HostFields DEF IInv, HostsOK

\* A chunk is made and cut: what was queued before it is of other chunks.
LEMMA MakeChunkKeeps ==
  ASSUME IInv, NEW h \in Hosts, MakeChunk(h)
  PROVE  IInv'
<1> DEFINE c    == Chunk(host[h].chunk, Dedicated(h))
           b    == WholeOf(c)
           size == host[h].size
           t    == host[h].tensor
<1>1. /\ host[h].at \in {"new", "again"} /\ host[h].kind = "kCached" /\ CutFromNew(c, size)
      /\ buffers' = [buffers EXCEPT ![t] = BufferOn(Taken(b, size))]
      /\ heap' = NoHost /\ turn' = turn /\ host' = [host EXCEPT ![h] = Idle]
      /\ UNCHANGED <<weights, stream, device>>
  BY DEF MakeChunk
<1>2. Wants(h) /\ HostOK(h) /\ WantOK(h)
  BY <1>1, HostFields DEF Wants, Asking
<1>3. /\ t \in Tensors /\ buffers[t] = NoBuffer /\ size \in Nat \ {0} /\ host[h].chunk \in Nat \ {0}
      /\ host[h].chunk \in Sizes /\ size <= host[h].chunk /\ heap = h
  <2>1. /\ t \in Tensors /\ buffers[t] = NoBuffer /\ size \in Nat \ {0}
        /\ {size, host[h].needed, host[h].chunk} \subseteq Sizes
        /\ size <= host[h].needed /\ host[h].needed <= host[h].chunk
    BY <1>1, <1>2 DEF WantOK
  <2>2. size \in Nat /\ host[h].needed \in Nat /\ host[h].chunk \in Nat \ {0}
    BY <2>1, BlockAssumption
  <2>3. heap = h
    BY <1>1, <1>2 DEF HostOK, HasHeap, Asking
  <2> QED
    BY <2>1, <2>2, <2>3
<1>4. Dedicated(h) \in BOOLEAN
  BY <1>1 DEF Dedicated
<1>5. Tiles /\ made \in Nat /\ blocks \subseteq BlockSet /\ chunks \subseteq ChunkSet
  BY DEF IInv, BlocksOK, Tiles, Typed
<1>6. Tiles'
  BY <1>1, <1>3, <1>4, <1>5, AddTiles
<1>7. c.id = made + 1 /\ c.size = host[h].chunk /\ c.dedicated \in BOOLEAN
  BY <1>4 DEF Chunk
<1> HIDE DEF c
<1>8. /\ b.chunk = c /\ b.offset = 0 /\ b.size = host[h].chunk /\ b.free /\ b.lastUse = 0
  BY <1>7 DEF WholeOf
<1>9. /\ Taken(b, size).chunk = c /\ Taken(b, size).offset = 0 /\ Taken(b, size).size = size
      /\ Taken(b, size).lastUse = 0 /\ ~Taken(b, size).free
      /\ \A o \in Rest(b, size) : /\ o.chunk = c /\ o.lastUse = 0 /\ o.offset = 0 + size
                                  /\ o.size = host[h].chunk - size
  BY <1>7 DEF Taken, Rest, WholeOf
<1>10. /\ made' = made + 1 /\ chunks' = chunks \cup {c}
       /\ blocks' = blocks \cup {Taken(b, size)} \cup Rest(b, size)
  BY <1>1 DEF CutFromNew
<1> HIDE DEF b, size
<1>11. c \notin chunks /\ c \notin weights
  BY <1>5, <1>7, ChunksAreNoWeights, WithinBlocks DEF IInv
<1>12. \A u \in uses : ~OnBytes(u.run, b)
  BY <1>8, <1>11 DEF OnBytes, IInv, InFlightIsHeld
<1>13. \A o \in Live : buffers[o].memory # c
  <2> SUFFICES ASSUME NEW o \in Live PROVE buffers[o].memory \in chunks \cup weights
    BY <1>11
  <2>1. \A d \in blocks : d.chunk \in chunks
    BY <1>5 DEF BlockSet
  <2> QED
    BY <2>1, WhereItIs DEF IInv, OnBlock
<1>14. Recording \in Nat /\ \A o \in blocks : o.lastUse <= Recording
  BY DEF IInv, BlocksOK, StreamOK, Recording
<1>15. \A o \in blocks' : /\ o.lastUse <= Recording
                          /\ o \in blocks \/ o = Taken(b, size)
                             \/ /\ o.chunk = b.chunk /\ o.lastUse = b.lastUse /\ o.offset \in Nat
                                /\ o.size \in Nat /\ b.offset <= o.offset /\ End(o) <= End(b)
  <2>1. \A o \in Rest(b, size) : /\ o.offset = size /\ o.size \in Nat /\ End(o) <= End(b)
                                 /\ b.offset <= o.offset
    BY <1>3, <1>8, <1>9 DEF End, size
  <2> QED
    BY <2>1, <1>3, <1>8, <1>9, <1>10, <1>14 DEF size
<1>16. \A d \in chunks' : d.size \in Sizes /\ d.id \in Nat
  BY <1>3, <1>5, <1>7, <1>10 DEF IInv, BlocksOK, ChunkSet
<1>17. /\ StreamOK' /\ UsesOK' /\ BlocksOK' /\ BuffersOK' /\ UsedBefore' /\ InFlightIsHeld'
       /\ buffers' \in [Tensors -> BufferSet \cup {NoBuffer}]
       /\ \A o \in Tensors \ {t} : buffers'[o] = buffers[o]
       /\ buffers'[t].memory \notin weights
  <2>1. b.chunk \in chunks' /\ b.offset \in Nat /\ b.size \in Nat \ {0} /\ b.lastUse \in Nat /\ b.lastUse <= Recording
    BY <1>3, <1>8, <1>10, <1>14
  <2>2. size \in Nat \ {0} /\ size <= b.size
    BY <1>3, <1>8 DEF size
  <2>3. \A u \in uses : OnBytes(u.run, b) => u.batch <= b.lastUse
    BY <1>12
  <2>4. \A o \in Live : buffers[o].memory # b.chunk \/ buffers[o].offset # b.offset
    BY <1>8, <1>13
  <2>5. (\A o \in blocks : ~o.free => o \in blocks') /\ Taken(b, size) \in blocks' /\ chunks \subseteq chunks'
    BY <1>10
  <2>6. \A o \in blocks' : o.free =>
          \/ o \in blocks
          \/ /\ o.chunk = b.chunk /\ o.lastUse = b.lastUse /\ o.offset \in Nat /\ o.size \in Nat
             /\ b.offset <= o.offset /\ End(o) <= End(b)
    BY <1>9, <1>15
  <2>7. \A o \in blocks' : o.lastUse <= Recording
    BY <1>15
  <2>8. /\ Taken(b, size).chunk = b.chunk /\ Taken(b, size).offset = b.offset
        /\ Taken(b, size).size = size /\ Taken(b, size).lastUse = b.lastUse /\ ~Taken(b, size).free
    BY <1>8, <1>9
  <2>9. buffers' = [buffers EXCEPT ![t] = BufferOn(Taken(b, size))] /\ UNCHANGED <<weights, stream, device>>
    BY <1>1 DEF b, size
  <2> HIDE DEF t
  <2>10. t \in Tensors /\ buffers[t] = NoBuffer
    BY <1>3 DEF t
  <2>11. \A d \in chunks' : d.size \in Sizes
    BY <1>16
  <2>12. \A d \in chunks' : d.id \in Nat
    BY <1>16
  <2> QED
    BY <1>6, <2>1, <2>2, <2>3, <2>4, <2>5, <2>6, <2>7, <2>8, <2>9, <2>10, <2>11, <2>12, TakingKeeps
<1>18. ASSUME NEW g \in Hosts PROVE HostOK(g)' /\ WantOK(g)' /\ LetGoOK(g)' /\ WaitOK(g)'
  <2>1. CASE g = h
    <3>1. host'[g] = Idle
      BY <2>1, <1>1, HostFields
    <3> QED
      BY <3>1, IdleIsAHost
         DEF Idle, HostOK, HasHeap, WantOK, Wants, LetGoOK, LetsGo, WaitOK, Releases, Asking
  <2>2. CASE g # h
    <3>1. host'[g] = host[g] /\ uses' = uses /\ weights' = weights /\ HostOK(g) /\ LetGoOK(g) /\ WantOK(g)
      BY <2>2, <1>1, HostFields DEF device
    <3>2. ~HasHeap(g) /\ heap' # g
      BY <2>2, <3>1, <1>1, <1>3, WithinBlocks DEF HostOK
    <3>3. Wants(g) \/ (host[g].then = "copy" /\ host[g].at \in {"enter", "wait", "copy"}) => host[g].tensor # t
      <4>1. Wants(g) => HasHeap(g)
        BY HostFields DEF Wants, HasHeap, HostSet, Asking, Releases
      <4>2. \A o \in Live : buffers[o] # NoBuffer
        BY DEF Live
      <4> QED
        BY <4>1, <4>2, <3>1, <3>2, <1>3 DEF HostOK
    <3>4. LetsGo(g) => host[g].buffer.memory \in weights'
      BY <3>1 DEF LetGoOK
    <3>5. host[g].at # "empty"
      BY <3>2 DEF HasHeap
    <3> HIDE DEF t
    <3> QED
      BY <2>2, <3>1, <3>3, <3>4, <3>5, <1>1, <1>3, <1>17, OthersGoOn
  <2> QED
    BY <2>1, <2>2
<1>19. DOMAIN host' = Hosts
  BY <1>1, HostFields
<1> QED
  BY <1>17, <1>18, <1>19 DEF IInv, HostsOK

-----------------------------------------------------------------------------
\* What a block given back becomes is no earlier than what any byte of it was used by.
LEMMA GiveUses ==
  ASSUME Tiles, NEW b \in blocks, NEW use \in Nat, Give(b, use), NEW last \in Nat, use <= last,
         \A o \in blocks : o.lastUse <= last
  PROVE  /\ \A o \in blocks : ~o.free /\ o # b => o \in blocks'
         /\ \A o \in blocks' : o.lastUse <= last
         /\ \E joined \in blocks' :
              /\ blocks' \subseteq blocks \cup {joined} /\ joined.free /\ joined.chunk = b.chunk
              /\ \A n \in Nat, k \in Nat \ {0} : n < End(joined) /\ joined.offset < n + k =>
                   \E o \in blocks : /\ o.chunk = b.chunk /\ n < End(o) /\ o.offset < n + k
                                     /\ (o = b /\ use <= joined.lastUse) \/ (o.free /\ o.lastUse <= joined.lastUse)
<1> DEFINE freed == Freed(b, use)
<1>1. PICK next \in WithNext(freed) : \E joined \in WithPrev(next) :
        blocks' = {o \in blocks : ~Covers(joined, o)} \cup {joined}
  BY DEF Give
<1>2. PICK joined \in WithPrev(next) : blocks' = {o \in blocks : ~Covers(joined, o)} \cup {joined}
  BY <1>1
<1>3. \A o \in blocks : Fields(o) /\ o \in BlockSet
  BY DEF Tiles, Typed, BlockSet, Fields
<1>4. joined.free /\ joined.chunk = b.chunk /\ Fields(joined) /\ ~b.free
  BY JoinedRun DEF Give
<1>5. \A x, y \in Nat : Later(x, y) \in Nat /\ x <= Later(x, y) /\ y <= Later(x, y)
                        /\ (x <= last /\ y <= last => Later(x, y) <= last)
  BY DEF Later
<1>6. /\ freed.chunk = b.chunk /\ freed.offset = b.offset /\ freed.size = b.size /\ freed.free
      /\ freed.lastUse \in Nat /\ use <= freed.lastUse /\ freed.lastUse <= last /\ freed \in BlockSet
  <2>1. freed.lastUse = Later(b.lastUse, use)
    BY <1>3 DEF Freed, BlockSet
  <2>2. b.lastUse \in Nat /\ b.lastUse <= last
    BY <1>3 DEF Fields
  <2>3. /\ freed.chunk = b.chunk /\ freed.offset = b.offset /\ freed.size = b.size /\ freed.free
        /\ freed.lastUse \in Nat => freed \in BlockSet
    BY <1>3 DEF Freed, BlockSet
  <2> HIDE DEF freed
  <2> QED
    BY <2>1, <2>2, <2>3, <1>5
<1> HIDE DEF freed
\* What runs from start to end of next, and of joined, is one of the old blocks.
<1>7. /\ next \in BlockSet /\ next.chunk = b.chunk /\ next.offset = b.offset /\ next.size \in Nat
      /\ use <= next.lastUse /\ next.lastUse <= last /\ next.lastUse \in Nat
      /\ \/ next.size = b.size
         \/ \E o \in blocks : /\ o.free /\ o.chunk = b.chunk /\ o.offset = End(b)
                              /\ next.size = b.size + o.size /\ o.lastUse <= next.lastUse
  <2>1. CASE After(freed) = {}
    BY <2>1, <1>3, <1>6 DEF WithNext, Fields
  <2>2. CASE After(freed) # {}
    <3>1. PICK o \in After(freed) : next = Absorb(freed, o)
      BY <2>2 DEF WithNext
    <3>2. o \in blocks /\ o.free /\ o.chunk = b.chunk /\ o.offset = End(b) /\ Fields(o) /\ Fields(b)
          /\ o.lastUse <= last
      BY <3>1, <1>3, <1>6 DEF After, End
    <3>3. /\ next.chunk = b.chunk /\ next.offset = b.offset /\ next.size = b.size + o.size
          /\ next.lastUse = Later(freed.lastUse, o.lastUse)
          /\ next.size \in Nat \ {0} /\ next.lastUse \in Nat => next \in BlockSet
      BY <3>1, <1>6 DEF Absorb, BlockSet
    <3>4. /\ o.lastUse \in Nat /\ next.lastUse \in Nat /\ freed.lastUse <= next.lastUse
          /\ o.lastUse <= next.lastUse /\ next.lastUse <= last
      <4>1. o.lastUse \in Nat /\ freed.lastUse \in Nat /\ o.lastUse <= last /\ freed.lastUse <= last
        BY <3>2, <1>6 DEF Fields
      <4> QED
        BY <4>1, <3>3, <1>5
    <3>5. use <= next.lastUse /\ b.size + o.size \in Nat \ {0}
      BY <3>2, <3>4, <1>6 DEF Fields
    <3> QED
      BY <3>2, <3>3, <3>4, <3>5
  <2> QED
    BY <2>1, <2>2
<1>8. /\ use <= joined.lastUse /\ next.lastUse <= joined.lastUse /\ joined.lastUse <= last
      /\ \/ joined.offset = b.offset /\ joined.size = next.size
         \/ \E o \in blocks : /\ o.free /\ o.chunk = b.chunk /\ End(o) = b.offset
                              /\ joined.offset = o.offset /\ joined.size = o.size + next.size
                              /\ o.lastUse <= joined.lastUse
  <2>1. CASE Before(next) = {}
    BY <2>1, <1>7 DEF WithPrev
  <2>2. CASE Before(next) # {}
    <3>1. PICK o \in Before(next) : joined = Absorb(o, next)
      BY <2>2 DEF WithPrev
    <3>2. o \in blocks /\ o.free /\ o.chunk = b.chunk /\ End(o) = b.offset /\ Fields(o) /\ o \in BlockSet
          /\ o.lastUse <= last
      BY <3>1, <1>3, <1>7 DEF Before, End
    <3>3. /\ joined.offset = o.offset /\ joined.size = o.size + next.size
          /\ joined.lastUse = Later(o.lastUse, next.lastUse)
      BY <3>1, <3>2 DEF Absorb, BlockSet
    <3>4. /\ next.lastUse <= joined.lastUse /\ o.lastUse <= joined.lastUse /\ joined.lastUse <= last
          /\ joined.lastUse \in Nat
      BY <3>2, <3>3, <1>5, <1>7 DEF Fields
    <3>5. use <= joined.lastUse
      BY <3>4, <1>7
    <3> QED
      BY <3>2, <3>3, <3>4, <3>5
  <2> QED
    BY <2>1, <2>2
<1>9. ASSUME NEW n \in Nat, NEW k \in Nat \ {0}, n < End(joined), joined.offset < n + k
      PROVE  \E o \in blocks : /\ o.chunk = b.chunk /\ n < End(o) /\ o.offset < n + k
                               /\ (o = b /\ use <= joined.lastUse) \/ (o.free /\ o.lastUse <= joined.lastUse)
  <2>1. Fields(b) /\ joined.size \in Nat /\ joined.offset \in Nat /\ joined.lastUse \in Nat
    BY <1>3, <1>4 DEF Fields
  <2>2. CASE n < b.offset
    <3>1. PICK o \in blocks : /\ o.free /\ o.chunk = b.chunk /\ End(o) = b.offset
                              /\ joined.offset = o.offset /\ o.lastUse <= joined.lastUse
          \/ n + k > b.offset
      BY <2>1, <2>2, <1>8, <1>9 DEF Fields
    <3>2. CASE n + k > b.offset
      <4>1. b.chunk = b.chunk /\ n < End(b) /\ b.offset < n + k
        BY <3>2, <2>1, <2>2 DEF End, Fields
      <4>2. use <= joined.lastUse
        BY <1>8
      <4> QED
        BY <4>1, <4>2
    <3>3. CASE ~(n + k > b.offset)
      BY <3>1, <3>3, <2>2, <1>9
    <3> QED
      BY <3>2, <3>3
  <2>3. CASE b.offset <= n /\ n < End(b)
    <3>1. b.chunk = b.chunk /\ n < End(b) /\ b.offset < n + k
      BY <2>1, <2>3 DEF End, Fields
    <3>2. use <= joined.lastUse
      BY <1>8
    <3> QED
      BY <3>1, <3>2
  <2>4. CASE End(b) <= n
    <3>1. End(joined) = b.offset + next.size
      <4>1. CASE joined.offset = b.offset /\ joined.size = next.size
        BY <4>1 DEF End
      <4>2. ASSUME NEW o \in blocks, End(o) = b.offset, joined.offset = o.offset, joined.size = o.size + next.size
            PROVE  End(joined) = b.offset + next.size
        BY <4>2, <1>3, <1>7 DEF End, Fields
      <4> QED
        BY <4>1, <4>2, <1>8
    <3>2. next.size # b.size
      BY <3>1, <2>1, <2>4, <1>9 DEF End, Fields
    <3>3. PICK o \in blocks : /\ o.free /\ o.chunk = b.chunk /\ o.offset = End(b)
                              /\ next.size = b.size + o.size /\ o.lastUse <= next.lastUse
      BY <3>2, <1>7
    <3>4. Fields(o)
      BY <1>3
    <3>5. n < End(o) /\ o.offset < n + k /\ o.lastUse <= joined.lastUse
      BY <3>1, <3>3, <3>4, <2>1, <2>4, <1>7, <1>8, <1>9 DEF End, Fields
    <3> QED
      BY <3>3, <3>5
  <2> QED
    BY <2>1, <2>2, <2>3, <2>4 DEF Fields, End
<1>10. ASSUME NEW o \in blocks, ~o.free, o # b PROVE o \in blocks'
  <2> SUFFICES ASSUME Covers(joined, o) PROVE FALSE
    BY <1>2
  <2>1. /\ o.chunk = b.chunk /\ joined.offset <= o.offset /\ o.offset < End(joined)
        /\ Fields(o) /\ Fields(b) /\ Fields(joined)
    BY <1>3, <1>4 DEF Covers, End
  <2>2. PICK q \in blocks : /\ q.chunk = b.chunk /\ o.offset < End(q) /\ q.offset < o.offset + 1
                            /\ q = b \/ q.free
    <3>1. o.offset \in Nat /\ 1 \in Nat \ {0} /\ o.offset < End(joined) /\ joined.offset < o.offset + 1
      BY <2>1 DEF Fields
    <3> QED
      BY <3>1, <1>9
  <2>3. q # o /\ Fields(q)
    BY <2>2, <1>3, <1>10
  <2>4. Overlap(q, o)
    BY <2>1, <2>2, <2>3 DEF Overlap, End, Fields
  <2> QED
    BY <2>1, <2>2, <2>3, <2>4 DEF Tiles, BlocksApart
<1>11. joined \in blocks' /\ blocks' \subseteq blocks \cup {joined}
  BY <1>2
<1>12. \A o \in blocks' : o.lastUse <= last
  BY <1>8, <1>11
<1> QED
  BY <1>4, <1>9, <1>10, <1>11, <1>12

\* A cached buffer's bytes go back with the mark of what last used them.
LEMMA FreeCachedKeeps ==
  ASSUME IInv, NEW h \in Hosts, NEW t \in Live, FreeCached(h, t)
  PROVE  IInv'
<1> DEFINE use == buffers[t].lastUse
<1>1. PICK b \in blocks : /\ b.chunk = buffers[t].memory /\ b.offset = buffers[t].offset /\ ~b.free
                          /\ Give(b, use)
  BY DEF FreeCached
<1>2. /\ heap = NoHost /\ heap' = heap /\ turn' = turn /\ host' = host /\ host[h].at = "idle"
      /\ \A g \in Hosts \ {h} : host[g].tensor # t
      /\ buffers' = [buffers EXCEPT ![t] = NoBuffer] /\ UNCHANGED <<weights, stream, device>>
  BY DEF FreeCached, Mine
<1>3. /\ t \in Tensors /\ use \in Nat /\ use <= Recording /\ buffers[t] \in BufferSet
      /\ buffers[t].offset \in Nat /\ buffers[t].size \in Nat \ {0}
  BY LiveBuffer DEF IInv, BuffersOK
<1>4. Tiles /\ Fields(b) /\ Recording \in Nat /\ \A o \in blocks : o.lastUse <= Recording
  BY DEF IInv, BlocksOK, Tiles, Typed, BlockSet, Fields, StreamOK, Recording
<1>5. Tiles'
  BY <1>1, <1>3, <1>4, GiveTiles
<1>6. /\ made' = made /\ chunks' = chunks /\ weights' = weights /\ uses' = uses /\ recorded' = recorded
      /\ submitted' = submitted /\ completed' = completed /\ finished' = finished
      /\ executed' = executed /\ Recording' = Recording
  BY <1>1, <1>2 DEF Give, stream, device, Recording
<1>7. OnBlock(buffers[t], b)
  <2>1. PICK o \in blocks : OnBlock(buffers[t], o)
    <3>1. b.chunk \in chunks
      BY <1>4 DEF Fields
    <3> QED
      BY <3>1, <1>1, WhereItIs, ChunksAreNoWeights DEF IInv
  <2>2. o.chunk = b.chunk /\ o.offset = b.offset /\ Fields(o)
    BY <2>1, <1>1, <1>4 DEF OnBlock, Tiles, Typed, BlockSet, Fields
  <2>3. o = b
    BY <2>2, <1>4 DEF Tiles, BlocksApart, Overlap, Fields
  <2> QED
    BY <2>1, <2>3
<1>8. /\ \A o \in blocks : ~o.free /\ o # b => o \in blocks'
      /\ \A o \in blocks' : o.lastUse <= Recording
      /\ \E joined \in blocks' :
           /\ blocks' \subseteq blocks \cup {joined} /\ joined.free /\ joined.chunk = b.chunk
           /\ \A n \in Nat, k \in Nat \ {0} : n < End(joined) /\ joined.offset < n + k =>
                \E o \in blocks : /\ o.chunk = b.chunk /\ n < End(o) /\ o.offset < n + k
                                  /\ (o = b /\ use <= joined.lastUse) \/ (o.free /\ o.lastUse <= joined.lastUse)
  <2>1. Tiles /\ b \in blocks /\ use \in Nat /\ Give(b, use) /\ Recording \in Nat /\ use <= Recording
        /\ \A o \in blocks : o.lastUse <= Recording
    BY <1>1, <1>3, <1>4
  <2> HIDE DEF use
  <2> DEFINE last == Recording
  <2>2. last \in Nat /\ use <= last /\ \A o \in blocks : o.lastUse <= last
    BY <2>1
  <2> HIDE DEF last
  <2>3. /\ \A o \in blocks : ~o.free /\ o # b => o \in blocks'
        /\ \A o \in blocks' : o.lastUse <= last
        /\ \E joined \in blocks' :
             /\ blocks' \subseteq blocks \cup {joined} /\ joined.free /\ joined.chunk = b.chunk
             /\ \A n \in Nat, k \in Nat \ {0} : n < End(joined) /\ joined.offset < n + k =>
                  \E o \in blocks : /\ o.chunk = b.chunk /\ n < End(o) /\ o.offset < n + k
                                    /\ (o = b /\ use <= joined.lastUse) \/ (o.free /\ o.lastUse <= joined.lastUse)
    BY <2>1, <2>2, GiveUses
  <2> QED
    BY <2>3 DEF last
<1>9. PICK joined \in blocks' :
           /\ blocks' \subseteq blocks \cup {joined} /\ joined.free /\ joined.chunk = b.chunk
           /\ \A n \in Nat, k \in Nat \ {0} : n < End(joined) /\ joined.offset < n + k =>
                \E o \in blocks : /\ o.chunk = b.chunk /\ n < End(o) /\ o.offset < n + k
                                  /\ (o = b /\ use <= joined.lastUse) \/ (o.free /\ o.lastUse <= joined.lastUse)
  BY <1>8
<1>10. /\ buffers' \in [Tensors -> BufferSet \cup {NoBuffer}]
       /\ \A o \in Tensors \ {t} : buffers'[o] = buffers[o]
       /\ buffers'[t] = NoBuffer
  BY <1>2, <1>3 DEF IInv, BuffersOK
<1>11. Live' = Live \ {t} /\ Live \subseteq Tensors /\ \A o \in Live' : buffers'[o] = buffers[o]
  BY <1>10 DEF Live
<1>12. StreamOK' /\ UsesOK'
  BY <1>6 DEF IInv, StreamOK, UsesOK
<1>13. BlocksOK'
  BY <1>5, <1>6, <1>8 DEF IInv, BlocksOK
<1>14. BuffersOK'
  <2>1. ASSUME NEW o \in Live', buffers'[o].type = "kCached" PROVE \E c \in blocks' : OnBlock(buffers'[o], c)
    <3>1. o \in Live /\ buffers'[o] = buffers[o] /\ o # t
      BY <1>11
    <3>2. PICK c \in blocks : OnBlock(buffers[o], c)
      BY <2>1, <3>1 DEF IInv, BuffersOK
    <3>3. c # b
      BY <3>1, <3>2, <1>7 DEF OnBlock, IInv, BuffersOK
    <3> QED
      BY <3>1, <3>2, <3>3, <1>8 DEF OnBlock
  <2>2. \A o \in Live' : buffers'[o].type = "kCached" => \E c \in blocks' : OnBlock(buffers[o], c)'
    BY <2>1 DEF OnBlock
  <2>3. \A o \in Live' : /\ buffers'[o].lastUse <= Recording'
                         /\ buffers'[o].type = "kWeight" => /\ buffers'[o].memory \in weights'
                                                            /\ buffers'[o].memory.id = o
                                                            /\ buffers'[o].offset = 0
    BY <1>6, <1>11 DEF IInv, BuffersOK
  <2>4. \A o, q \in Live' :
          buffers'[o].memory = buffers'[q].memory /\ buffers'[o].offset = buffers'[q].offset => o = q
    BY <1>11 DEF IInv, BuffersOK
  <2>5. weights' \subseteq MemorySet /\ \A w \in weights' : w.id \in Tensors
    BY <1>6 DEF IInv, BuffersOK
  <2> QED
    BY <2>2, <2>3, <2>4, <2>5, <1>10 DEF BuffersOK
<1>15. UsedBefore'
  <2>1. ASSUME NEW u \in uses, NEW o \in blocks', o.free, OnBytes(u.run, o) PROVE u.batch <= o.lastUse
    <3>1. CASE o \in blocks
      BY <3>1, <2>1 DEF IInv, UsedBefore
    <3>2. CASE o \notin blocks
      <4>1. o = joined
        BY <3>2, <1>9
      <4>2. /\ u.run.offset \in Nat /\ u.run.size \in Nat \ {0} /\ u.batch \in Nat
            /\ u.run.memory = b.chunk
        BY <2>1, <4>1, <1>9 DEF IInv, UsesOK, OnBytes
      <4>3. PICK q \in blocks :
              /\ q.chunk = b.chunk /\ u.run.offset < End(q) /\ q.offset < u.run.offset + u.run.size
              /\ (q = b /\ use <= joined.lastUse) \/ (q.free /\ q.lastUse <= joined.lastUse)
        BY <2>1, <4>1, <4>2, <1>9 DEF OnBytes
      <4>4. joined.lastUse \in Nat
        BY <1>5 DEF Tiles, Typed, BlockSet
      <4>5. CASE q = b /\ use <= joined.lastUse
        <5>1. SameBytes(u.run, buffers[t])
          BY <4>2, <4>3, <4>5, <1>7 DEF SameBytes, OnBlock, End
        <5>2. u.batch <= use
          BY <5>1 DEF IInv, UsedBefore
        <5> QED
          BY <5>2, <4>1, <4>2, <4>4, <4>5, <1>3
      <4>6. CASE q.free /\ q.lastUse <= joined.lastUse
        <5>1. OnBytes(u.run, q)
          BY <4>2, <4>3 DEF OnBytes
        <5>2. u.batch <= q.lastUse /\ q.lastUse \in Nat
          BY <5>1, <4>6, <1>4 DEF IInv, UsedBefore, Tiles, Typed, BlockSet
        <5> QED
          BY <5>2, <4>1, <4>2, <4>4, <4>6
      <4> QED
        BY <4>3, <4>5, <4>6
    <3> QED
      BY <3>1, <3>2
  <2>2. \A u \in uses, o \in Live' : SameBytes(u.run, buffers'[o]) => u.batch <= buffers'[o].lastUse
    BY <1>11 DEF IInv, UsedBefore
  <2> QED
    BY <2>1, <2>2, <1>6 DEF UsedBefore, OnBytes, SameBytes, End
<1>16. InFlightIsHeld'
  BY <1>6 DEF IInv, InFlightIsHeld
<1>17. ASSUME NEW g \in Hosts PROVE HostOK(g)' /\ WantOK(g)' /\ LetGoOK(g)' /\ WaitOK(g)'
  <2>1. HostOK(g) /\ LetGoOK(g) /\ ~HasHeap(g)
    BY <1>2, HostFields, WithinBlocks DEF HostOK
  <2>2. Wants(g) \/ (host[g].then = "copy" /\ host[g].at \in {"enter", "wait", "copy"}) => host[g].tensor # t
    BY <1>2 DEF Wants, Asking
  <2>3. LetsGo(g) => host[g].buffer.memory \in weights'
    BY <2>1, <1>6 DEF LetGoOK
  <2>4. host[g].at # "empty"
    BY <2>1 DEF HasHeap
  <2> QED
    BY <2>2, <2>3, <2>4, <1>2, <1>3, <1>6, <1>10, OthersGoOn
<1> QED
  BY <1>2, <1>12, <1>13, <1>14, <1>15, <1>16, <1>17, HostFields DEF IInv, HostsOK

-----------------------------------------------------------------------------
\* The memory of a weight is its own: nothing queued is of it yet.
LEMMA MakeWeightKeeps ==
  ASSUME IInv, NEW h \in Hosts, MakeWeight(h)
  PROVE  IInv'
<1>0. PICK excess \in 0..Excess :
        MakeWeight(h)!(excess)
  BY DEF MakeWeight
<1> DEFINE t   == host[h].tensor
           mem == [id |-> t, size |-> host[h].chunk + excess, dedicated |-> FALSE]
           new == [WeightOn(mem) EXCEPT !.size = host[h].size]
<1>1. /\ host[h].at \in {"new", "again"} /\ host[h].kind = "kWeight" /\ mem \notin weights
      /\ weights' = weights \cup {mem} /\ buffers' = [buffers EXCEPT ![t] = new]
      /\ heap' = NoHost /\ turn' = turn /\ host' = [host EXCEPT ![h] = Idle]
      /\ UNCHANGED <<made, chunks, blocks, stream, device>>
  BY <1>0
<1>2. Wants(h) /\ HostOK(h) /\ WantOK(h) /\ host[h] \in HostSet
  BY <1>1, HostFields DEF Wants, Asking
<1>3. /\ t \in Tensors /\ buffers[t] = NoBuffer /\ host[h].size \in Nat \ {0} /\ host[h].chunk \in Nat /\ heap = h
  BY <1>1, <1>2 DEF WantOK, HostOK, HasHeap, Asking, HostSet
<1>4. /\ mem \in MemorySet /\ mem.id = t
      /\ new = [memory |-> mem, offset |-> 0, size |-> host[h].size, lastUse |-> 0, type |-> "kWeight"]
  <2>1. mem \in MemorySet /\ mem.id = t
    BY <1>3, VramAssumption DEF MemorySet
  <2> HIDE DEF mem
  <2>2. new = [memory |-> mem, offset |-> 0, size |-> host[h].size, lastUse |-> 0, type |-> "kWeight"]
    BY DEF WeightOn
  <2> QED
    BY <2>1, <2>2
<1> HIDE DEF mem, new, t
<1>5. /\ new \in BufferSet /\ new.memory = mem /\ new.offset = 0 /\ new.lastUse = 0
      /\ new.type = "kWeight"
  BY <1>3, <1>4 DEF BufferSet
<1>6. /\ recorded' = recorded /\ submitted' = submitted /\ completed' = completed
      /\ finished' = finished /\ executed' = executed /\ uses' = uses /\ made' = made
      /\ chunks' = chunks /\ blocks' = blocks /\ Recording' = Recording
  BY <1>1 DEF stream, device, Recording
<1>7. /\ buffers' \in [Tensors -> BufferSet \cup {NoBuffer}]
      /\ \A o \in Tensors \ {t} : buffers'[o] = buffers[o]
      /\ buffers'[t] = new
  BY <1>1, <1>3, <1>5 DEF IInv, BuffersOK
<1>8. Live' = Live \cup {t} /\ t \notin Live /\ \A o \in Live : buffers'[o] = buffers[o] /\ o \in Tensors
  BY <1>3, <1>5, <1>7, ABufferIsNotNone DEF Live
<1>9. mem \notin chunks /\ \A c \in blocks : c.chunk \in chunks
  BY <1>3, <1>4, ChunksAreNoWeights, WithinBlocks DEF IInv, BlocksOK, Tiles, Typed, BlockSet
<1>10. \A u \in uses : u.run.memory # mem
  BY <1>1, <1>9 DEF IInv, InFlightIsHeld
<1>11. \A o \in Live : buffers[o].memory # mem
  BY <1>1, <1>9, WhereItIs DEF IInv, OnBlock
<1>12. StreamOK' /\ UsesOK' /\ BlocksOK'
  <2>1. StreamOK'
    BY <1>6 DEF IInv, StreamOK
  <2>2. UsesOK'
    BY <1>1, <1>6, <1>10 DEF IInv, UsesOK
  <2>3. BlocksOK'
    BY <1>6 DEF IInv, BlocksOK, Tiles, Typed, ChunkSet, BlockSet, Within, BlocksApart, Overlap, NoGaps,
                FreeIsJoined
  <2> QED
    BY <2>1, <2>2, <2>3
<1>13. BuffersOK'
  <2>1. \A o \in Live' : buffers'[o].type = "kCached" => \E c \in blocks' : OnBlock(buffers[o], c)'
    <3> SUFFICES ASSUME NEW o \in Live', buffers'[o].type = "kCached"
                 PROVE  \E c \in blocks : OnBlock(buffers'[o], c)
      BY <1>6 DEF OnBlock
    <3>1. o \in Live
      BY <1>5, <1>7, <1>8
    <3> QED
      BY <3>1, <1>8 DEF IInv, BuffersOK
  <2>2. \A o \in Live' : /\ buffers'[o].lastUse <= Recording'
                         /\ buffers'[o].type = "kWeight" => /\ buffers'[o].memory \in weights'
                                                            /\ buffers'[o].memory.id = o
                                                            /\ buffers'[o].offset = 0
    <3>1. Recording \in Nat
      BY DEF IInv, StreamOK, Recording
    <3> QED
      BY <3>1, <1>1, <1>4, <1>5, <1>6, <1>7, <1>8 DEF IInv, BuffersOK
  <2>3. \A o, q \in Live' :
          buffers'[o].memory = buffers'[q].memory /\ buffers'[o].offset = buffers'[q].offset => o = q
    BY <1>5, <1>7, <1>8, <1>11 DEF IInv, BuffersOK
  <2>4. weights' \subseteq MemorySet /\ \A w \in weights' : w.id \in Tensors
    BY <1>1, <1>3, <1>4 DEF IInv, BuffersOK
  <2> QED
    BY <2>1, <2>2, <2>3, <2>4, <1>7 DEF BuffersOK
<1>14. UsedBefore'
  <2>1. \A u \in uses, o \in Live' : SameBytes(u.run, buffers'[o]) => u.batch <= buffers'[o].lastUse
    BY <1>5, <1>7, <1>8, <1>10 DEF IInv, UsedBefore, SameBytes
  <2> QED
    BY <2>1, <1>6 DEF IInv, UsedBefore, OnBytes, SameBytes, End
<1>15. InFlightIsHeld'
  BY <1>1, <1>6 DEF IInv, InFlightIsHeld
<1>16. ASSUME NEW g \in Hosts PROVE HostOK(g)' /\ WantOK(g)' /\ LetGoOK(g)' /\ WaitOK(g)'
  <2>1. CASE g = h
    <3>1. host'[g] = Idle
      BY <2>1, <1>1, HostFields
    <3> QED
      BY <3>1, IdleIsAHost
         DEF Idle, HostOK, HasHeap, WantOK, Wants, LetGoOK, LetsGo, WaitOK, Releases, Asking
  <2>2. CASE g # h
    <3>1. host'[g] = host[g] /\ HostOK(g) /\ LetGoOK(g) /\ WantOK(g)
      BY <2>2, <1>1, HostFields
    <3>2. ~HasHeap(g)
      BY <2>2, <3>1, <1>3 DEF HostOK
    <3>3. Wants(g) \/ (host[g].then = "copy" /\ host[g].at \in {"enter", "wait", "copy"}) => host[g].tensor # t
      <4>1. Wants(g) => HasHeap(g)
        BY HostFields DEF Wants, HasHeap, HostSet, Asking, Releases
      <4> QED
        BY <4>1, <3>1, <3>2, <1>8 DEF HostOK
    <3>4. LetsGo(g) => host[g].buffer.memory \in weights'
      BY <3>1, <1>1 DEF LetGoOK
    <3>5. host[g].at # "empty"
      BY <3>2 DEF HasHeap
    <3>6. buffers'[t].memory \notin weights
      BY <1>1, <1>5, <1>7
    <3> QED
      BY <2>2, <3>1, <3>3, <3>4, <3>5, <3>6, <1>1, <1>3, <1>6, <1>7, OthersGoOn
  <2> QED
    BY <2>1, <2>2
<1>17. DOMAIN host' = Hosts
  BY <1>1, HostFields
<1> QED
  BY <1>12, <1>13, <1>14, <1>15, <1>16, <1>17 DEF IInv, HostsOK

LettingGo(t, b) == [Idle EXCEPT !.at = "enter", !.then = "letGo", !.tensor = t, !.buffer = b]

\* What a thread keeps that destroys a weight's buffer.
LEMMA LettingGoIsAHost ==
  ASSUME NEW t \in Tensors, NEW b \in BufferSet
  PROVE  /\ LettingGo(t, b) \in HostSet
         /\ LettingGo(t, b).at = "enter" /\ LettingGo(t, b).then = "letGo"
         /\ LettingGo(t, b).tensor = t /\ LettingGo(t, b).buffer = b
<1>1. LettingGo(t, b) =
        [at |-> "enter", then |-> "letGo", tensor |-> t, buffer |-> b, kind |-> "kCached",
         size |-> 0, needed |-> 0, chunk |-> 0, target |-> 0]
  <2> SUFFICES ASSUME NEW x, x = LettingGo(t, b)
               PROVE  x = [at |-> "enter", then |-> "letGo", tensor |-> t, buffer |-> b,
                           kind |-> "kCached", size |-> 0, needed |-> 0, chunk |-> 0, target |-> 0]
    OBVIOUS
  <2> QED
    BY DEF LettingGo, Idle
<1>2. [at |-> "enter", then |-> "letGo", tensor |-> t, buffer |-> b, kind |-> "kCached",
       size |-> 0, needed |-> 0, chunk |-> 0, target |-> 0] \in HostSet
  BY DEF HostSet, Places
<1> QED
  BY <1>1, <1>2

\* A weight is destroyed: its memory is held by the call that lets go of it.
LEMMA FreeWeightKeeps ==
  ASSUME IInv, NEW h \in Hosts, NEW t \in Live, FreeWeight(h, t)
  PROVE  IInv'
<1> DEFINE x == LettingGo(t, buffers[t])
<1>1. /\ host[h].at = "idle" /\ heap = NoHost /\ heap' = h /\ turn' = turn
      /\ buffers[t].type = "kWeight" /\ \A g \in Hosts \ {h} : host[g].tensor # t
      /\ host' = [host EXCEPT ![h] = x] /\ buffers' = [buffers EXCEPT ![t] = NoBuffer]
      /\ UNCHANGED <<made, chunks, blocks, weights, stream, device>>
  BY DEF FreeWeight, Mine, LettingGo
<1>2. /\ t \in Tensors /\ buffers[t] \in BufferSet /\ buffers[t].memory \in weights
      /\ buffers[t].memory.id = t /\ buffers[t].offset = 0 /\ buffers[t].size \in Nat \ {0}
  BY <1>1, LiveBuffer DEF IInv, BuffersOK
<1>3. /\ x \in HostSet /\ x.at = "enter" /\ x.then = "letGo" /\ x.tensor = t /\ x.buffer = buffers[t]
  BY <1>2, LettingGoIsAHost
<1> HIDE DEF x
<1>4. /\ recorded' = recorded /\ submitted' = submitted /\ completed' = completed
      /\ finished' = finished /\ executed' = executed /\ uses' = uses /\ made' = made
      /\ chunks' = chunks /\ blocks' = blocks /\ weights' = weights /\ Recording' = Recording
  BY <1>1 DEF stream, device, Recording
<1>5. /\ buffers' \in [Tensors -> BufferSet \cup {NoBuffer}]
      /\ \A o \in Tensors \ {t} : buffers'[o] = buffers[o]
      /\ buffers'[t] = NoBuffer
  BY <1>1, <1>2 DEF IInv, BuffersOK
<1>6. Live' = Live \ {t} /\ Live \subseteq Tensors /\ \A o \in Live' : buffers'[o] = buffers[o]
  BY <1>5 DEF Live
<1>7. StreamOK' /\ UsesOK' /\ BlocksOK' /\ InFlightIsHeld'
  <2>1. StreamOK' /\ UsesOK' /\ InFlightIsHeld'
    BY <1>4 DEF IInv, StreamOK, UsesOK, InFlightIsHeld
  <2>2. BlocksOK'
    BY <1>4 DEF IInv, BlocksOK, Tiles, Typed, ChunkSet, BlockSet, Within, BlocksApart, Overlap, NoGaps,
                FreeIsJoined
  <2> QED
    BY <2>1, <2>2
<1>8. BuffersOK'
  <2>1. \A o \in Live' : buffers'[o].type = "kCached" => \E c \in blocks' : OnBlock(buffers[o], c)'
    BY <1>4, <1>6 DEF IInv, BuffersOK, OnBlock
  <2>2. \A o \in Live' : /\ buffers'[o].lastUse <= Recording'
                         /\ buffers'[o].type = "kWeight" => /\ buffers'[o].memory \in weights'
                                                            /\ buffers'[o].memory.id = o
                                                            /\ buffers'[o].offset = 0
    BY <1>4, <1>6 DEF IInv, BuffersOK
  <2>3. \A o, q \in Live' :
          buffers'[o].memory = buffers'[q].memory /\ buffers'[o].offset = buffers'[q].offset => o = q
    BY <1>6 DEF IInv, BuffersOK
  <2>4. weights' \subseteq MemorySet /\ \A w \in weights' : w.id \in Tensors
    BY <1>4 DEF IInv, BuffersOK
  <2> QED
    BY <2>1, <2>2, <2>3, <2>4, <1>5 DEF BuffersOK
<1>9. UsedBefore'
  <2>1. \A u \in uses, o \in Live' : SameBytes(u.run, buffers'[o]) => u.batch <= buffers'[o].lastUse
    BY <1>6 DEF IInv, UsedBefore
  <2> QED
    BY <2>1, <1>4 DEF IInv, UsedBefore, OnBytes, SameBytes, End
<1>10. ASSUME NEW g \in Hosts PROVE HostOK(g)' /\ WantOK(g)' /\ LetGoOK(g)' /\ WaitOK(g)'
  <2>1. CASE g = h
    <3>1. host'[g] = x
      BY <2>1, <1>1, HostFields
    <3>2. \A o \in Live' : buffers'[o].memory # buffers[t].memory
      <4> SUFFICES ASSUME NEW o \in Live, o # t, buffers[o].memory = buffers[t].memory PROVE FALSE
        BY <1>6
      <4>1. buffers[o].memory \notin chunks
        BY <1>2, ChunksAreNoWeights DEF IInv
      <4>2. buffers[o].memory.id = o
        BY <4>1, WhereItIs DEF IInv, OnBlock, BlocksOK, Tiles, Typed, BlockSet
      <4> QED
        BY <4>2, <1>2
    <3>3. ASSUME NEW u \in uses, u.run.memory = buffers[t].memory PROVE u.batch <= buffers[t].lastUse
      <4>1. u.run.offset = 0 /\ u.run.size \in Nat \ {0}
        BY <3>3, <1>2 DEF IInv, UsesOK
      <4>2. SameBytes(u.run, buffers[t])
        BY <4>1, <3>3, <1>2 DEF SameBytes
      <4> QED
        BY <4>2 DEF IInv, UsedBefore
    <3>4. LetGoOK(g)'
      BY <3>1, <3>2, <3>3, <1>2, <1>3, <1>4 DEF LetGoOK, LetsGo
    <3>5. HostOK(g)' /\ WantOK(g)' /\ WaitOK(g)'
      BY <2>1, <3>1, <1>1, <1>3 DEF HostOK, HasHeap, WantOK, Wants, WaitOK, Asking, Releases
    <3> QED
      BY <3>4, <3>5
  <2>2. CASE g # h
    <3>1. host'[g] = host[g] /\ HostOK(g) /\ LetGoOK(g) /\ host[g].tensor # t
      BY <2>2, <1>1, HostFields
    <3>2. ~HasHeap(g) /\ heap # g
      BY <3>1, <1>1, WithinBlocks DEF HostOK
    <3>3. LetsGo(g) => host[g].buffer.memory \in weights'
      BY <3>1, <1>4 DEF LetGoOK
    <3>4. host[g].at # "empty"
      BY <3>2 DEF HasHeap
    <3> QED
      BY <3>1, <3>2, <3>3, <3>4, <1>1, <1>2, <1>4, <1>5, OthersGoOn
  <2> QED
    BY <2>1, <2>2
<1>11. DOMAIN host' = Hosts
  BY <1>1, HostFields
<1> QED
  BY <1>7, <1>8, <1>9, <1>10, <1>11 DEF IInv, HostsOK

\* The memory of a weight goes back: what used it has been run, and no tensor has it.
LEMMA LetGoKeeps ==
  ASSUME IInv, NEW h \in Hosts, LetGo(h)
  PROVE  IInv'
<1> DEFINE mem == host[h].buffer.memory
<1>1. /\ host[h].at = "letGo" /\ weights' = weights \ {mem} /\ heap' = NoHost /\ turn' = turn
      /\ host' = [host EXCEPT ![h] = Idle] /\ buffers' = buffers
      /\ UNCHANGED <<made, chunks, blocks, stream, device>>
  BY DEF LetGo
<1>2. host[h].then = "letGo" /\ LetsGo(h) /\ heap = h
  BY <1>1, HostFields DEF HostOK, HasHeap, LetsGo
<1>3. \A t \in Live : buffers[t].memory # mem
  BY <1>2, HostFields DEF LetGoOK
<1>4. \A u \in uses : u.run.memory # mem
  BY <1>1, <1>2, HostFields DEF WaitOK, Concerns
<1> HIDE DEF mem
<1>5. /\ recorded' = recorded /\ submitted' = submitted /\ completed' = completed
      /\ finished' = finished /\ executed' = executed /\ uses' = uses /\ made' = made
      /\ chunks' = chunks /\ blocks' = blocks /\ Recording' = Recording /\ Live' = Live
  BY <1>1 DEF stream, device, Recording, Live
<1>6. StreamOK' /\ UsesOK' /\ InFlightIsHeld'
  BY <1>1, <1>4, <1>5 DEF IInv, StreamOK, UsesOK, InFlightIsHeld
<1>7. BlocksOK'
  BY <1>5 DEF IInv, BlocksOK, Tiles, Typed, ChunkSet, BlockSet, Within, BlocksApart, Overlap, NoGaps,
              FreeIsJoined
<1>8. BuffersOK'
  <2>1. \A t \in Live : buffers[t].type = "kWeight" => buffers[t].memory \in weights'
    BY <1>1, <1>3 DEF IInv, BuffersOK
  <2> QED
    BY <2>1, <1>1, <1>5 DEF IInv, BuffersOK, OnBlock
<1>9. UsedBefore'
  BY <1>1, <1>5 DEF IInv, UsedBefore, OnBytes, SameBytes, End
<1>10. ASSUME NEW g \in Hosts PROVE HostOK(g)' /\ WantOK(g)' /\ LetGoOK(g)' /\ WaitOK(g)'
  <2>1. CASE g = h
    <3>1. host'[g] = Idle
      BY <2>1, <1>1, HostFields
    <3> QED
      BY <3>1, IdleIsAHost
         DEF Idle, HostOK, HasHeap, WantOK, Wants, LetGoOK, LetsGo, WaitOK, Releases, Asking
  <2>2. CASE g # h
    <3>1. host'[g] = host[g] /\ HostOK(g) /\ WantOK(g) /\ WaitOK(g)
      BY <2>2, <1>1, HostFields
    <3>2. ~HasHeap(g)
      BY <2>2, <3>1, <1>2 DEF HostOK
    <3>3. HostOK(g)'
      BY <3>1, <3>2, <1>1, <1>5 DEF HostOK, HasHeap
    <3>4. WantOK(g)'
      BY <3>1, <1>1 DEF WantOK, Wants
    <3>5. LetGoOK(g)'
      BY <3>1, <3>2 DEF LetGoOK, LetsGo, HasHeap
    <3>6. WaitOK(g)'
      BY <3>1, <1>1, <1>5 DEF WaitOK, Concerns, SameBytes
    <3> QED
      BY <3>3, <3>4, <3>5, <3>6
  <2> QED
    BY <2>1, <2>2
<1>11. DOMAIN host' = Hosts
  BY <1>1, HostFields
<1> QED
  BY <1>6, <1>7, <1>8, <1>9, <1>10, <1>11 DEF IInv, HostsOK

\* The empty chunks go back: what is queued by then is of live tensors, and none is in one.
LEMMA ReleaseEmptyKeeps ==
  ASSUME IInv, NEW h \in Hosts, ReleaseEmpty(h)
  PROVE  IInv'
<1>1. /\ host[h].at = "empty" /\ RemoveEmpty /\ turn' = turn /\ weights' = weights /\ buffers' = buffers
      /\ UNCHANGED <<stream, device>>
      /\ IF host[h].then = "done"
         THEN host' = [host EXCEPT ![h] = Idle] /\ heap' = NoHost
         ELSE GoesOn(h, host[h].then) /\ heap' = heap
  BY DEF ReleaseEmpty
<1>2. /\ HostOK(h) /\ WantOK(h) /\ WaitOK(h) /\ host[h] \in HostSet /\ DOMAIN host = Hosts
      /\ heap = h /\ host[h].then \in Releases
  BY <1>1, HostFields DEF HostOK, HasHeap
<1>3. /\ recorded' = recorded /\ submitted' = submitted /\ completed' = completed
      /\ finished' = finished /\ executed' = executed /\ uses' = uses
      /\ Recording' = Recording /\ Live' = Live
  BY <1>1 DEF stream, device, Recording, Live
<1>4. /\ made' = made /\ chunks' = chunks \ EmptyChunks
      /\ blocks' = {b \in blocks : b.chunk \notin EmptyChunks}
  BY <1>1 DEF RemoveEmpty
<1>5. ASSUME NEW b \in blocks, ~b.free PROVE b \in blocks' /\ b.chunk \in chunks'
  <2>1. ~Empty(b.chunk) /\ b.chunk \in chunks
    BY <1>5, EmptyIsWhole DEF IInv, BlocksOK, Tiles, Typed, BlockSet
  <2> QED
    BY <2>1, <1>4 DEF EmptyChunks
<1>6. StreamOK' /\ UsesOK'
  BY <1>1, <1>3 DEF IInv, StreamOK, UsesOK
<1>7. BlocksOK'
  <2>1. Tiles'
    BY <1>1, RemoveTiles DEF IInv, BlocksOK
  <2> QED
    BY <2>1, <1>3, <1>4 DEF IInv, BlocksOK
<1>8. BuffersOK'
  <2>1. \A t \in Live : buffers[t].type = "kCached" => \E b \in blocks' : OnBlock(buffers[t], b)
    BY <1>5 DEF IInv, BuffersOK, OnBlock
  <2> QED
    BY <2>1, <1>1, <1>3 DEF IInv, BuffersOK, OnBlock
<1>9. UsedBefore'
  BY <1>1, <1>3, <1>4 DEF IInv, UsedBefore, OnBytes, SameBytes, End
<1>10. InFlightIsHeld'
  <2> SUFFICES ASSUME NEW u \in uses PROVE u.run.memory \in chunks' \cup weights
    BY <1>1, <1>3 DEF InFlightIsHeld
  <2>1. PICK t \in Live : buffers[t].memory = u.run.memory
    BY <1>1, <1>2 DEF WaitOK
  <2>2. CASE \E b \in blocks : OnBlock(buffers[t], b)
    BY <2>1, <2>2, <1>5 DEF OnBlock
  <2>3. CASE buffers[t].memory \in weights
    BY <2>1, <2>3
  <2> QED
    BY <2>2, <2>3, WhereItIs DEF IInv
<1>11. ASSUME NEW g \in Hosts PROVE HostOK(g)' /\ WantOK(g)' /\ LetGoOK(g)' /\ WaitOK(g)'
  <2>1. CASE g = h /\ host[h].then = "done"
    <3>1. host'[g] = Idle
      BY <2>1, <1>1, <1>2
    <3> QED
      BY <3>1, IdleIsAHost
         DEF Idle, HostOK, HasHeap, WantOK, Wants, LetGoOK, LetsGo, WaitOK, Releases, Asking
  <2>2. CASE g = h /\ host[h].then # "done"
    <3>1. /\ heap' = heap
          /\ host' = [host EXCEPT ![h] = [host[h] EXCEPT !.at = host[h].then]]
      BY <2>2, <1>1 DEF GoesOn
    <3>2. /\ host'[g] \in HostSet /\ host'[g].at = host[h].then /\ host'[g].then = host[h].then
          /\ host'[g].tensor = host[h].tensor /\ host'[g].kind = host[h].kind
          /\ host'[g].size = host[h].size /\ host'[g].needed = host[h].needed
          /\ host'[g].chunk = host[h].chunk
      BY <2>2, <3>1, <1>2 DEF HostSet, Places, Releases
    <3>3. host[h].then \in Asking
      BY <2>2, <1>2 DEF Asking, Releases
    <3>4. WantOK(g)'
      BY <3>2, <3>3, <1>1, <1>2 DEF WantOK, Wants
    <3>5. HostOK(g)' /\ LetGoOK(g)' /\ WaitOK(g)'
      BY <2>2, <3>1, <3>2, <3>3, <1>2 DEF HostOK, HasHeap, LetGoOK, LetsGo, WaitOK, Asking
    <3> QED
      BY <3>4, <3>5
  <2>3. CASE g # h
    <3>1. host'[g] = host[g] /\ HostOK(g) /\ WantOK(g) /\ WaitOK(g) /\ LetGoOK(g)
      BY <2>3, <1>1, <1>2, HostFields DEF GoesOn
    <3>2. ~HasHeap(g)
      BY <2>3, <3>1, <1>2 DEF HostOK
    <3>3. HostOK(g)'
      BY <3>1, <3>2, <1>1, <1>3 DEF HostOK, HasHeap
    <3>4. WantOK(g)'
      BY <3>1, <1>1 DEF WantOK, Wants
    <3>5. LetGoOK(g)'
      BY <3>1, <1>1, <1>3 DEF LetGoOK, LetsGo
    <3>6. WaitOK(g)'
      BY <3>1, <1>1, <1>3 DEF WaitOK, Concerns, SameBytes
    <3> QED
      BY <3>3, <3>4, <3>5, <3>6
  <2> QED
    BY <2>1, <2>2, <2>3
<1>12. DOMAIN host' = Hosts
  BY <1>1, <1>2 DEF GoesOn
<1> QED
  BY <1>6, <1>7, <1>8, <1>9, <1>10, <1>11, <1>12 DEF IInv, HostsOK

\* The limit is a number that is read by the calls that come after.
LEMMA NothingMoves ==
  ASSUME IInv, UNCHANGED <<made, chunks, blocks, buffers, weights, stream, device, heap, turn, host>>
  PROVE  IInv'
<1>1. /\ made' = made /\ chunks' = chunks /\ blocks' = blocks /\ buffers' = buffers
      /\ weights' = weights /\ recorded' = recorded /\ submitted' = submitted
      /\ finished' = finished /\ completed' = completed /\ executed' = executed /\ uses' = uses
      /\ heap' = heap /\ turn' = turn /\ host' = host /\ Recording' = Recording /\ Live' = Live
  BY DEF stream, device, Recording, Live
<1>2. StreamOK' /\ UsesOK' /\ InFlightIsHeld'
  BY <1>1 DEF IInv, StreamOK, UsesOK, InFlightIsHeld
<1>3. BlocksOK'
  BY <1>1 DEF IInv, BlocksOK, Tiles, Typed, ChunkSet, BlockSet, Within, BlocksApart, Overlap, NoGaps,
              FreeIsJoined
<1>4. BuffersOK' /\ UsedBefore'
  BY <1>1 DEF IInv, BuffersOK, OnBlock, UsedBefore, OnBytes, SameBytes, End
<1>5. ASSUME NEW g \in Hosts PROVE HostOK(g)' /\ WantOK(g)' /\ LetGoOK(g)' /\ WaitOK(g)'
  <2>1. HostOK(g) /\ WantOK(g) /\ LetGoOK(g) /\ WaitOK(g)
    BY HostFields
  <2>2. HostOK(g)' /\ WantOK(g)' /\ LetGoOK(g)'
    BY <2>1, <1>1 DEF HostOK, HasHeap, WantOK, Wants, LetGoOK, LetsGo
  <2>3. WaitOK(g)'
    BY <2>1, <1>1 DEF WaitOK, Concerns, SameBytes
  <2> QED
    BY <2>2, <2>3
<1> QED
  BY <1>1, <1>2, <1>3, <1>4, <1>5 DEF IInv, HostsOK

-----------------------------------------------------------------------------
\* Nothing is allocated or queued at first.
LEMMA InvariantBegins == Init => IInv
<1> SUFFICES ASSUME Init PROVE IInv
  OBVIOUS
<1>1. /\ made = 0 /\ chunks = {} /\ blocks = {} /\ weights = {} /\ uses = {}
      /\ recorded = 0 /\ submitted = 0 /\ finished = {} /\ completed = 0 /\ executed = 0
      /\ buffers = [t \in Tensors |-> NoBuffer] /\ host = [h \in Hosts |-> Idle]
  BY DEF Init, InitBlocks, InitStream
<1>2. Live = {}
  BY <1>1 DEF Live
<1>3. StreamOK /\ UsesOK /\ UsedBefore /\ InFlightIsHeld
  BY <1>1, <1>2, StreamAssumption DEF StreamOK, UsesOK, UsedBefore, InFlightIsHeld
<1>4. BlocksOK
  BY <1>1 DEF BlocksOK, Tiles, Typed, Within, BlocksApart, NoGaps, FreeIsJoined
<1>5. BuffersOK
  BY <1>1, <1>2 DEF BuffersOK
<1>6. HostsOK
  <2> SUFFICES ASSUME NEW h \in Hosts PROVE HostOK(h) /\ WantOK(h) /\ LetGoOK(h) /\ WaitOK(h)
    BY DEF HostsOK
  <2>1. host[h] = Idle
    BY <1>1
  <2> QED
    BY <2>1, IdleIsAHost DEF Idle, HostOK, HasHeap, WantOK, Wants, LetGoOK, LetsGo, WaitOK, Asking, Releases
<1> QED
  BY <1>1, <1>3, <1>4, <1>5, <1>6 DEF IInv

\* And every step keeps it, by the lemma of each.
LEMMA InvariantKept == IInv /\ [Next]_vars => IInv'
<1> SUFFICES ASSUME IInv, [Next]_vars PROVE IInv'
  OBVIOUS
<1>1. CASE UNCHANGED vars
  BY <1>1, NothingMoves DEF vars, memory
<1>2. CASE DeviceRuns
  BY <1>2, DeviceKeeps
<1>3. ASSUME NEW h \in Hosts, Call(h) PROVE IInv'
  <2>1. ASSUME NEW args \in SUBSET Live, Dispatch(h, args) PROVE IInv'
    BY <2>1, DispatchKeeps
  <2>2. ASSUME (\E t \in Live : HostCopy(h, t)) \/ Synchronize(h) PROVE IInv'
    BY <2>2, EntersKeep
  <2>3. ASSUME NEW t \in Tensors, NEW bytes \in Asks, Allocate(h, t, bytes) PROVE IInv'
    BY <2>3, AllocateKeeps
  <2>4. ASSUME NEW t \in Tensors, NEW bytes \in Asks, AllocateNew(h, t, bytes) \/ AllocateWeight(h, t, bytes)
        PROVE  IInv'
    BY <2>4, AsksKeep
  <2>5. ASSUME NEW t \in Live, FreeCached(h, t) PROVE IInv'
    BY <2>5, FreeCachedKeeps
  <2>6. ASSUME NEW t \in Live, FreeWeight(h, t) PROVE IInv'
    BY <2>6, FreeWeightKeeps
  <2>7. CASE ReleaseUnusedMemory(h)
    BY <2>7, ReleaseUnusedKeeps
  <2>8. ASSUME NEW bytes \in Limits, SetMemoryLimit(h, bytes) PROVE IInv'
    BY <2>8, NothingMoves DEF SetMemoryLimit
  <2> QED
    BY <1>3, <2>1, <2>2, <2>3, <2>4, <2>5, <2>6, <2>7, <2>8 DEF Call
<1>4. ASSUME NEW h \in Hosts, Step(h) PROVE IInv'
  <2>1. CASE Enter(h)
    BY <2>1, EnterKeeps
  <2>2. CASE Waited(h)
    BY <2>2, WaitedKeeps
  <2>3. CASE CopyEnds(h) \/ WaitThrows(h) \/ NoRoom(h) \/ NewFailsAgain(h)
    BY <2>3, EndsKeep
  <2>4. CASE WithinLimit(h) \/ Room(h) \/ Large(h) \/ PastBudget(h) \/ NewFails(h)
    BY <2>4, AskStepsKeep
  <2>5. CASE ReleaseEmpty(h)
    BY <2>5, ReleaseEmptyKeeps
  <2>6. CASE MakeChunk(h)
    BY <2>6, MakeChunkKeeps
  <2>7. CASE MakeWeight(h)
    BY <2>7, MakeWeightKeeps
  <2>8. CASE LetGo(h)
    BY <2>8, LetGoKeeps
  <2> QED
    BY <1>4, <2>1, <2>2, <2>3, <2>4, <2>5, <2>6, <2>7, <2>8 DEF Step
<1> QED
  BY <1>1, <1>2, <1>3, <1>4 DEF Next

\* The marks are true: whatever the device has yet to run is of memory the process holds, and no
\* later than the batch its bytes say they were last used by, in whatever thread's hands they are.
THEOREM MarksAreTrue == Spec => []IInv
BY InvariantBegins, InvariantKept, PTL DEF Spec

\* Memory goes back to the device "only once the device is done with it", for any threads, tensors,
\* sizes, limit and failures (synchronizeAndReleaseEmptyChunks and free, over waitFor).
THEOREM HeldInFlight == Spec => []InFlightIsHeld
BY MarksAreTrue, PTL DEF IInv

\* A thread that copies to or from a tensor is alone with its bytes, though they may have been
\* other tensors' whose work was still queued when they were freed (upload and download).
THEOREM CopiesAlone == Spec => []HostAlone
<1>1. IInv => HostAlone
  BY DEF IInv, HostsOK, HostOK, WaitOK, Concerns, HostAlone
<1> QED
  BY <1>1, MarksAreTrue, PTL

-----------------------------------------------------------------------------
\* What a call does to the blocks is what the allocator on its own may do, or nothing.
LEMMA StepsOfTheBlocks == IInv /\ [Next]_vars => [BlockNext]_blockVars
<1> SUFFICES ASSUME IInv, [Next]_vars PROVE BlockNext \/ UNCHANGED blockVars
  OBVIOUS
<1>1. CASE UNCHANGED vars
  BY <1>1 DEF vars, memory, blockVars
<1>2. CASE DeviceRuns
  BY <1>2 DEF DeviceRuns, memory, blockVars
<1>3. ASSUME NEW h \in Hosts, Call(h) PROVE BlockNext \/ UNCHANGED blockVars
  <2>1. ASSUME NEW t \in Tensors, NEW bytes \in Asks, Allocate(h, t, bytes) PROVE BlockNext
    <3>1. UNCHANGED <<made, chunks>>
      BY <2>1 DEF Allocate
    <3>2. PICK b \in FromWhatThereIs(RoundUp(bytes)) : Cut(b, RoundUp(bytes))
      BY <2>1 DEF Allocate
    <3>3. b \in blocks /\ TakeStep(RoundUp(bytes), b)
      BY <3>1, <3>2, FoundIsTaken
    <3>4. RoundUp(bytes) \in Sizes
      BY AskedSizes
    <3> QED
      BY <3>3, <3>4 DEF BlockNext
  <2>2. ASSUME NEW t \in Live, FreeCached(h, t) PROVE BlockNext
    <3>1. PICK b \in blocks : Give(b, buffers[t].lastUse)
      BY <2>2 DEF FreeCached
    <3>2. buffers[t].lastUse \in Nat /\ buffers[t].lastUse <= submitted + 1
      BY LiveBuffer DEF IInv, BuffersOK, Recording
    <3>3. buffers[t].lastUse \in 0..MaxBatches+1
      BY <3>2, StreamAssumption DEF IInv, StreamOK
    <3> QED
      BY <3>1, <3>3, WithinBlocks DEF BlockNext
  <2>3. ASSUME \/ \E args \in SUBSET Live : Dispatch(h, args)
               \/ \E t \in Live : HostCopy(h, t) \/ FreeWeight(h, t)
               \/ \E t \in Tensors, bytes \in Asks : AllocateNew(h, t, bytes) \/ AllocateWeight(h, t, bytes)
               \/ \E bytes \in Limits : SetMemoryLimit(h, bytes)
               \/ Synchronize(h) \/ ReleaseUnusedMemory(h)
        PROVE  UNCHANGED blockVars
    BY <2>3
       DEF Dispatch, HostCopy, FreeWeight, AllocateNew, AllocateWeight, SetMemoryLimit, Synchronize,
           ReleaseUnusedMemory, memory, blockVars
  <2> QED
    BY <1>3, <2>1, <2>2, <2>3 DEF Call
<1>4. ASSUME NEW h \in Hosts, Step(h) PROVE BlockNext \/ UNCHANGED blockVars
  <2>1. CASE ReleaseEmpty(h)
    BY <2>1 DEF ReleaseEmpty, BlockNext
  <2>2. CASE MakeChunk(h)
    <3> DEFINE whole == host[h].chunk
               size  == host[h].size
    <3>1. CutFromNew(Chunk(whole, Dedicated(h)), size) /\ host[h].kind = "kCached" /\ Wants(h)
      BY <2>2 DEF MakeChunk, Wants, Asking
    <3>2. {size, host[h].needed, whole} \subseteq Sizes /\ size <= host[h].needed /\ host[h].needed <= whole
      BY <3>1, HostFields DEF WantOK
    <3>3. size \in Sizes /\ whole \in Sizes /\ size <= whole
      <4>1. ASSUME NEW i \in Nat, NEW j \in Nat, NEW k \in Nat, i <= j, j <= k PROVE i <= k
        BY <4>1
      <4>2. {size, host[h].needed, whole} \subseteq Nat
        BY <3>2, BlockAssumption
      <4> HIDE DEF size, whole
      <4> QED
        BY <3>2, <4>1, <4>2
    <3>4. Dedicated(h) \in BOOLEAN
      BY DEF Dedicated
    <3>5. AddStep(size, whole, Dedicated(h))
      BY <3>1, <3>3 DEF AddStep
    <3> HIDE DEF size, whole
    <3> QED
      BY <3>3, <3>4, <3>5 DEF BlockNext
  <2>3. ASSUME \/ Enter(h) \/ Waited(h) \/ CopyEnds(h) \/ WaitThrows(h) \/ WithinLimit(h) \/ Room(h)
               \/ NoRoom(h) \/ Large(h) \/ PastBudget(h) \/ MakeWeight(h) \/ NewFails(h)
               \/ NewFailsAgain(h) \/ LetGo(h)
        PROVE  UNCHANGED blockVars
    BY <2>3
       DEF Enter, Waited, CopyEnds, WaitThrows, WithinLimit, Room, NoRoom, Large, PastBudget, MakeWeight,
           NewFails, NewFailsAgain, LetGo, memory, blockVars
  <2> QED
    BY <1>4, <2>1, <2>2, <2>3 DEF Step
<1> QED
  BY <1>1, <1>2, <1>3, <1>4 DEF Next

\* The memory of the tensors keeps to the promises of the blocks: whatever the threads do, the
\* allocator is asked for sizes it cuts, and given what is in use with marks that are batches.
THEOREM ImplementsBlocks == Spec => BlockSpec
<1>1. Init => InitBlocks
  BY DEF Init
<1> QED
  BY <1>1, StepsOfTheBlocks, MarksAreTrue, PTL DEF Spec, BlockSpec

\* So every byte of every chunk is in one block at all times, free neighbours are one, and a chunk
\* made for one tensor holds one, under the limit, the budget and the failures of the device too.
THEOREM TilesUnderLimit == Spec => []BlocksTile
BY ImplementsBlocks, BlocksAlwaysTile, PTL

-----------------------------------------------------------------------------
\* Thread h has been through Room: its chunk is one there is room for.
HasRoom(h) ==
  \/ host[h].at \in {"large", "budget", "new", "again"}
  \/ host[h].at \in {"enter", "wait", "empty"} /\ host[h].then \in {"budget", "new", "again"}

\* What there is room for there still is, and of a chunk that is to be asked for.
RoomOK(h) == HasRoom(h) /\ memoryLimit > 0 => Held + host[h].chunk <= memoryLimit

\* What is counted of the weights is what the device has given for them.
Counted ==
  /\ IsFiniteSet(chunks) /\ IsFiniteSet(weights)
  /\ weightBytes = Bytes(weights) /\ memoryLimit \in Limits \cup {0}
  /\ DOMAIN host = Hosts /\ \A h \in Hosts : RoomOK(h)

-----------------------------------------------------------------------------
\* The function Bytes is computed by.
IsBytesOf(g, S) ==
  g = [s \in SUBSET S |-> IF s = {} THEN 0
                          ELSE (CHOOSE x \in s : TRUE).size + g[s \ {CHOOSE x \in s : TRUE}]]

\* And what it computes is the sum of the sizes.
LEMMA BytesAre ==
  ASSUME NEW S, IsFiniteSet(S), NEW F, \A m \in S : F[m] = m.size /\ F[m] \in Nat
  PROVE  Bytes(S) = SumOf(F, S)
<1> DEFINE iter == CHOOSE g : IsBytesOf(g, S)
<1>1. ASSUME NEW g PROVE IsBytesOf(g, S) <=> IsSums(g, F, S)
  <2>1. \A s \in SUBSET S : s # {} => (CHOOSE x \in s : TRUE) \in s
    BY Zenon
  <2>2. \A s \in SUBSET S : s # {} => F[CHOOSE x \in s : TRUE] = (CHOOSE x \in s : TRUE).size
    BY <2>1
  <2>3. [s \in SUBSET S |-> IF s = {} THEN 0
             ELSE (CHOOSE x \in s : TRUE).size + g[s \ {CHOOSE x \in s : TRUE}]]
      = [s \in SUBSET S |-> IF s = {} THEN 0
             ELSE F[CHOOSE x \in s : TRUE] + g[s \ {CHOOSE x \in s : TRUE}]]
    BY <2>2
  <2> QED
    BY <2>3 DEF IsBytesOf, IsSums
<1>2. \E g : IsBytesOf(g, S)
  BY <1>1, SumsExist
<1>3. IsBytesOf(iter, S)
  BY <1>2, Zenon
<1>4. Bytes(S) = iter[S]
  BY Zenon DEF Bytes, MapThenSumSet, MapThenFoldSet, IsBytesOf
<1> HIDE DEF iter
<1>5. IsSums(iter, F, S)
  BY <1>1, <1>3
<1>6. PICK g : IsSums(g, F, S) /\ SumOf(F, S) = g[S]
  BY SumIs
<1>7. iter[S] = g[S]
  <2>1. S \in SUBSET S
    OBVIOUS
  <2> QED
    BY <2>1, <1>5, <1>6, SumsAgree
<1> QED
  BY <1>4, <1>6, <1>7

\* A part of some memory is no larger than it, and without one of them it is smaller by that one.
LEMMA BytesCount ==
  ASSUME NEW S, IsFiniteSet(S), \A m \in S : m.size \in Nat
  PROVE  /\ Bytes(S) \in Nat
         /\ \A T \in SUBSET S : IsFiniteSet(T) /\ Bytes(T) \in Nat /\ Bytes(T) <= Bytes(S)
         /\ \A x \in S : Bytes(S \ {x}) = Bytes(S) - x.size
<1> DEFINE F == [m \in S |-> m.size]
<1>1. \A m \in S : F[m] = m.size /\ F[m] \in Nat
  OBVIOUS
<1> HIDE DEF F
<1>2. ASSUME NEW T \in SUBSET S
      PROVE IsFiniteSet(T) /\ Bytes(T) = SumOf(F, T) /\ SumOf(F, T) \in Nat /\ SumOf(F, T) <= SumOf(F, S)
  <2>1. IsFiniteSet(T) /\ \A m \in T : F[m] = m.size /\ F[m] \in Nat
    BY <1>1, FS_Subset
  <2>2. Bytes(T) = SumOf(F, T)
    BY <2>1, BytesAre
  <2> QED
    BY <2>1, <2>2, <1>1, SumOfFewer
<1>3. S \in SUBSET S
  OBVIOUS
<1>4. ASSUME NEW x \in S PROVE Bytes(S \ {x}) = Bytes(S) - x.size
  <2>1. SumOf(F, S) = F[x] + SumOf(F, S \ {x})
    BY <1>1, SumTakes
  <2>2. S \ {x} \in SUBSET S
    OBVIOUS
  <2>3. Bytes(S \ {x}) = SumOf(F, S \ {x}) /\ Bytes(S) = SumOf(F, S) /\ SumOf(F, S \ {x}) \in Nat
    BY <1>2, <1>3, <2>2
  <2> QED
    BY <1>1, <2>1, <2>3
<1> QED
  BY <1>2, <1>3, <1>4

\* With one more it is larger by that one.
LEMMA BytesAdd ==
  ASSUME NEW S, IsFiniteSet(S), NEW x, x \notin S, \A m \in S \cup {x} : m.size \in Nat
  PROVE  IsFiniteSet(S \cup {x}) /\ Bytes(S \cup {x}) = Bytes(S) + x.size
<1>1. IsFiniteSet(S \cup {x}) /\ (S \cup {x}) \ {x} = S /\ x \in S \cup {x}
  BY FS_AddElement
<1>2. Bytes((S \cup {x}) \ {x}) = Bytes(S \cup {x}) - x.size /\ Bytes(S \cup {x}) \in Nat
  BY <1>1, BytesCount
<1>3. Bytes(S) = Bytes(S \cup {x}) - x.size
  BY <1>1, <1>2
<1>4. x.size \in Nat
  OBVIOUS
<1> QED
  BY <1>1, <1>2, <1>3, <1>4

-----------------------------------------------------------------------------
\* What there is has a size, and the limit counts all of it.
LEMMA HeldIs ==
  ASSUME IInv, Counted
  PROVE  /\ \A m \in chunks \cup weights : m.size \in Nat
         /\ Bytes(chunks) \in Nat /\ Bytes(weights) \in Nat /\ weightBytes \in Nat
         /\ DeviceBytes = Held /\ Held \in Nat /\ memoryLimit \in Nat
<1>1. \A m \in chunks \cup weights : m.size \in Nat
  BY DEF IInv, BlocksOK, Tiles, Typed, ChunkSet, BuffersOK, MemorySet
<1>2. Bytes(chunks) \in Nat /\ Bytes(weights) \in Nat
  BY <1>1, BytesCount DEF Counted
<1> QED
  BY <1>1, <1>2, VramAssumption DEF Counted, DeviceBytes, Held

\* A thread that has room has the lock, and no other thread has.
LEMMA RoomIsLocked ==
  ASSUME IInv, NEW h \in Hosts, HasRoom(h)
  PROVE  heap = h
BY HostFields DEF HasRoom, HostOK, HasHeap, Asking, Releases

\* A step that asks for nothing: what there is room for there still is.
LEMMA RoomStays ==
  ASSUME IInv, Counted, NEW h \in Hosts, DOMAIN host' = Hosts, \A g \in Hosts \ {h} : host'[g] = host[g],
         chunks' \subseteq chunks, weights' = weights, weightBytes' = weightBytes,
         memoryLimit' = memoryLimit,
         HasRoom(h)' => host'[h].chunk = host[h].chunk /\ HasRoom(h)
  PROVE  Counted'
<1>1. Bytes(chunks') \in Nat /\ Bytes(chunks') <= Bytes(chunks) /\ IsFiniteSet(chunks')
  BY HeldIs, BytesCount DEF Counted
<1>2. Bytes(weights') = Bytes(weights) /\ IsFiniteSet(weights')
  BY DEF Counted
<1>3. ASSUME NEW g \in Hosts, HasRoom(g)', memoryLimit' > 0 PROVE Bytes(chunks') + weightBytes' + host'[g].chunk <= memoryLimit'
  <2>1. host'[g].chunk = host[g].chunk /\ HasRoom(g)
    <3>1. CASE g = h
      BY <3>1, <1>3
    <3>2. CASE g # h
      BY <3>2, <1>3 DEF HasRoom
    <3> QED
      BY <3>1, <3>2
  <2>2. Bytes(chunks) + weightBytes + host[g].chunk <= memoryLimit
    BY <1>3, <2>1 DEF Counted, RoomOK, Held
  <2>3. host[g].chunk \in Nat
    BY HostFields DEF HostSet
  <2>4. ASSUME NEW a \in Nat, NEW b \in Nat, NEW w \in Nat, NEW c \in Nat, NEW l \in Nat, b <= a, a + w + c <= l
        PROVE  b + w + c <= l
    BY <2>4
  <2>5. Bytes(chunks') + weightBytes + host[g].chunk <= memoryLimit
    BY <1>1, <2>2, <2>3, <2>4, HeldIs
  <2> QED
    BY <2>1, <2>5
<1> QED
  BY <1>1, <1>2, <1>3 DEF Counted, RoomOK, Held

\* A thread that is done leaves no room kept, when nobody else has the lock.
LEMMA NobodyHasRoom ==
  ASSUME IInv, NEW h \in Hosts, heap = h \/ heap = NoHost, host' = [host EXCEPT ![h] = Idle]
  PROVE  DOMAIN host' = Hosts /\ \A g \in Hosts : ~HasRoom(g)'
<1>1. DOMAIN host' = Hosts /\ host'[h] = Idle /\ \A g \in Hosts \ {h} : host'[g] = host[g]
  BY HostFields
<1>2. ~HasRoom(h)'
  BY <1>1 DEF HasRoom, Idle
<1>3. ASSUME NEW g \in Hosts, g # h PROVE ~HasRoom(g)'
  <2>1. ~HasRoom(g)
    BY <1>3, RoomIsLocked, WithinBlocks
  <2> QED
    BY <2>1, <1>1, <1>3 DEF HasRoom
<1> QED
  BY <1>1, <1>2, <1>3

\* The same, of what the thread is at afterwards.
LEMMA RoomGoesOn ==
  ASSUME IInv, Counted, NEW h \in Hosts, NEW x, host' = [host EXCEPT ![h] = x],
         chunks' \subseteq chunks, weights' = weights, weightBytes' = weightBytes,
         memoryLimit' = memoryLimit,
         \/ x.at \notin {"large", "budget", "new", "again", "enter", "wait", "empty"}
         \/ x.at \in {"enter", "wait", "empty"} /\ x.then \notin {"budget", "new", "again"}
         \/ HasRoom(h) /\ x.chunk = host[h].chunk
  PROVE  Counted'
<1>1. DOMAIN host' = Hosts /\ host'[h] = x /\ \A g \in Hosts \ {h} : host'[g] = host[g]
  BY HostFields
<1>2. HasRoom(h)' => host'[h].chunk = host[h].chunk /\ HasRoom(h)
  BY <1>1 DEF HasRoom
<1> QED
  BY <1>1, <1>2, RoomStays

\* A call that begins has room for nothing yet.
LEMMA CallsCount ==
  ASSUME IInv, Counted, NEW h \in Hosts, Call(h)
  PROVE  Counted' /\ chunks' = chunks /\ weights' = weights
<1>1. ASSUME host' = host, chunks' = chunks, weights' = weights, weightBytes' = weightBytes,
             memoryLimit' = memoryLimit
      PROVE  Counted'
  BY <1>1, RoomStays, HostFields DEF HasRoom
<1>2. ASSUME NEW x, host' = [host EXCEPT ![h] = x], chunks' = chunks, weights' = weights,
             weightBytes' = weightBytes, memoryLimit' = memoryLimit,
             \/ x.at = "limit"
             \/ x.at \in {"enter", "wait"} /\ x.then \in {"idle", "copy", "letGo", "done"}
      PROVE  Counted'
  BY <1>2, RoomGoesOn
<1>3. ASSUME NEW args \in SUBSET Live, Dispatch(h, args) PROVE Counted' /\ chunks' = chunks /\ weights' = weights
  <2>1. /\ chunks' = chunks /\ weights' = weights /\ weightBytes' = weightBytes /\ memoryLimit' = memoryLimit
    BY <1>3 DEF Dispatch
  <2>2. CASE host' = host
    BY <2>1, <2>2, <1>1
  <2>3. CASE host' # host
    <3> DEFINE x == [Idle EXCEPT !.at = "wait", !.target = Throttle(submitted')]
    <3>1. host' = [host EXCEPT ![h] = x]
      BY <1>3, <2>3 DEF Dispatch
    <3>2. x.at = "wait" /\ x.then = "idle"
      BY DEF Idle
    <3> HIDE DEF x
    <3> QED
      BY <2>1, <3>1, <3>2, <1>2
  <2> QED
    BY <2>1, <2>2, <2>3
<1>4. ASSUME NEW t \in Live, HostCopy(h, t) PROVE Counted' /\ chunks' = chunks /\ weights' = weights
  <2> DEFINE x == [Idle EXCEPT !.at = "enter", !.then = "copy", !.tensor = t]
  <2>1. /\ host' = [host EXCEPT ![h] = x]
        /\ chunks' = chunks /\ weights' = weights /\ weightBytes' = weightBytes /\ memoryLimit' = memoryLimit
    BY <1>4 DEF HostCopy, memory
  <2>2. x.at = "enter" /\ x.then = "copy"
    BY DEF Idle
  <2> HIDE DEF x
  <2> QED
    BY <2>1, <2>2, <1>2
<1>5. CASE Synchronize(h)
  <2> DEFINE x == [Idle EXCEPT !.at = "enter"]
  <2>1. /\ host' = [host EXCEPT ![h] = x]
        /\ chunks' = chunks /\ weights' = weights /\ weightBytes' = weightBytes /\ memoryLimit' = memoryLimit
    BY <1>5 DEF Synchronize, memory
  <2>2. x.at = "enter" /\ x.then = "idle"
    BY DEF Idle
  <2> HIDE DEF x
  <2> QED
    BY <2>1, <2>2, <1>2
<1>6. ASSUME NEW t \in Tensors, NEW bytes \in Asks, Allocate(h, t, bytes)
      PROVE  Counted' /\ chunks' = chunks /\ weights' = weights
  BY <1>6, <1>1 DEF Allocate
<1>7. ASSUME NEW t \in Tensors, NEW bytes \in Asks, AllocateNew(h, t, bytes)
      PROVE  Counted' /\ chunks' = chunks /\ weights' = weights
  <2> DEFINE needed == RoundTo(RoundUp(bytes), Granule)
             chunk  == IF needed > ChunkSize THEN needed ELSE ChunkSize
             x == [Asked(t, "kCached", bytes) EXCEPT !.at = "limit", !.needed = needed, !.chunk = chunk]
  <2>1. /\ host' = [host EXCEPT ![h] = x]
        /\ chunks' = chunks /\ weights' = weights /\ weightBytes' = weightBytes /\ memoryLimit' = memoryLimit
    BY <1>7 DEF AllocateNew, memory
  <2> HIDE DEF needed, chunk
  <2>2. x.at = "limit"
    BY DEF Asked, Idle
  <2> HIDE DEF x
  <2> QED
    BY <2>1, <2>2, <1>2
<1>8. ASSUME NEW t \in Tensors, NEW bytes \in Asks, AllocateWeight(h, t, bytes)
      PROVE  Counted' /\ chunks' = chunks /\ weights' = weights
  <2> DEFINE pages == RoundTo(RoundUp(bytes), Page)
             x == [Asked(t, "kWeight", bytes) EXCEPT !.at = "limit", !.needed = pages, !.chunk = pages]
  <2>1. /\ host' = [host EXCEPT ![h] = x]
        /\ chunks' = chunks /\ weights' = weights /\ weightBytes' = weightBytes /\ memoryLimit' = memoryLimit
    BY <1>8 DEF AllocateWeight, memory
  <2> HIDE DEF pages
  <2>2. x.at = "limit"
    BY DEF Asked, Idle
  <2> HIDE DEF x
  <2> QED
    BY <2>1, <2>2, <1>2
<1>9. ASSUME NEW t \in Live, FreeCached(h, t) PROVE Counted' /\ chunks' = chunks /\ weights' = weights
  BY <1>9, <1>1 DEF FreeCached, Give
<1>10. ASSUME NEW t \in Live, FreeWeight(h, t) PROVE Counted' /\ chunks' = chunks /\ weights' = weights
  <2> DEFINE x == [Idle EXCEPT !.at = "enter", !.then = "letGo", !.tensor = t, !.buffer = buffers[t]]
  <2>1. /\ host' = [host EXCEPT ![h] = x]
        /\ chunks' = chunks /\ weights' = weights /\ weightBytes' = weightBytes /\ memoryLimit' = memoryLimit
    BY <1>10 DEF FreeWeight
  <2>2. x.at = "enter" /\ x.then = "letGo"
    BY DEF Idle
  <2> HIDE DEF x
  <2> QED
    BY <2>1, <2>2, <1>2
<1>11. CASE ReleaseUnusedMemory(h)
  <2> DEFINE x == [Idle EXCEPT !.at = "enter", !.then = "done"]
  <2>1. /\ host' = [host EXCEPT ![h] = x]
        /\ chunks' = chunks /\ weights' = weights /\ weightBytes' = weightBytes /\ memoryLimit' = memoryLimit
    BY <1>11 DEF ReleaseUnusedMemory, memory
  <2>2. x.at = "enter" /\ x.then = "done"
    BY DEF Idle
  <2> HIDE DEF x
  <2> QED
    BY <2>1, <2>2, <1>2
<1>12. ASSUME NEW bytes \in Limits, SetMemoryLimit(h, bytes)
       PROVE  Counted' /\ chunks' = chunks /\ weights' = weights
  <2>1. /\ heap = NoHost /\ memoryLimit' = bytes /\ host' = host
        /\ chunks' = chunks /\ weights' = weights /\ weightBytes' = weightBytes
    BY <1>12 DEF SetMemoryLimit
  <2>2. \A g \in Hosts : ~HasRoom(g)'
    BY <2>1, RoomIsLocked, WithinBlocks DEF HasRoom
  <2> QED
    BY <2>1, <2>2 DEF Counted, RoomOK
<1> QED
  BY <1>3, <1>4, <1>5, <1>6, <1>7, <1>8, <1>9, <1>10, <1>11, <1>12 DEF Call

\* What Room leaves as the chunk is what there is room for.
LEMMA RoomIsThere ==
  ASSUME IInv, Counted, NEW h \in Hosts, memoryLimit > 0, NEW n \in Nat, n <= RoomFor(h)
  PROVE  Held + n <= memoryLimit
<1> DEFINE left == memoryLimit - Held
<1>1. Held \in Nat /\ memoryLimit \in Nat
  BY HeldIs
<1>2. left \in Int
  BY <1>1
<1>3. ASSUME NEW l \in Int, NEW g \in Nat \ {0} PROVE (l \div g) * g \in Int /\ (l \div g) * g <= l
  BY <1>3
<1>4. (left \div Granule) * Granule \in Int /\ (left \div Granule) * Granule <= left
  BY <1>2, <1>3, VramAssumption
<1>5. RoomFor(h) \in Int /\ RoomFor(h) <= left
  BY <1>2, <1>4 DEF RoomFor
<1>6. n <= left
  BY <1>2, <1>5
<1> QED
  BY <1>1, <1>6

\* An allocation goes on, with the room it has or has yet to see to.
LEMMA AsksCount ==
  ASSUME IInv, Counted, NEW h \in Hosts,
         \/ Enter(h) \/ Waited(h) \/ CopyEnds(h) \/ WaitThrows(h) \/ WithinLimit(h) \/ Room(h) \/ NoRoom(h)
         \/ Large(h) \/ PastBudget(h) \/ NewFails(h) \/ NewFailsAgain(h)
  PROVE  Counted' /\ chunks' = chunks /\ weights' = weights
<1>1. /\ chunks' = chunks /\ weights' = weights /\ weightBytes' = weightBytes /\ memoryLimit' = memoryLimit
  BY DEF Enter, Waited, CopyEnds, WaitThrows, WithinLimit, Room, NoRoom, Large, PastBudget, NewFails,
         NewFailsAgain, memory
<1>2. host[h] \in HostSet /\ HostOK(h)
  BY HostFields
<1>3. ASSUME host' = [host EXCEPT ![h] = Idle] PROVE Counted'
  <2>1. Idle.at = "idle"
    BY DEF Idle
  <2> QED
    BY <1>1, <1>3, <2>1, RoomGoesOn
<1>4. ASSUME NEW place, host[h].at = "limit" => place = "room",
             host[h].at = "limit" \/ host[h].at \in {"large", "budget", "new", "again"},
             ReleasesThen(h, place) \/ GoesOn(h, place)
      PROVE  Counted'
  <2> DEFINE x == [host[h] EXCEPT !.at = "enter", !.then = place]
             y == [host[h] EXCEPT !.at = place]
  <2>1. host' = [host EXCEPT ![h] = x] \/ host' = [host EXCEPT ![h] = y]
    BY <1>4 DEF ReleasesThen, GoesOn
  <2>2. /\ x.at = "enter" /\ x.then = place /\ x.chunk = host[h].chunk
        /\ y.at = place /\ y.chunk = host[h].chunk
    BY <1>2 DEF HostSet
  <2> HIDE DEF x, y
  <2>3. place = "room" \/ HasRoom(h)
    BY <1>4 DEF HasRoom
  <2>4. CASE host' = [host EXCEPT ![h] = x]
    BY <1>1, <2>2, <2>3, <2>4, RoomGoesOn
  <2>5. CASE host' = [host EXCEPT ![h] = y]
    BY <1>1, <2>2, <2>3, <2>5, RoomGoesOn
  <2> QED
    BY <2>1, <2>4, <2>5
<1>5. CASE Enter(h)
  <2> DEFINE n == IF LastUse(h) > submitted THEN submitted' ELSE LastUse(h)
             x == [host[h] EXCEPT !.at = "wait", !.target = n]
  <2>1. host' = [host EXCEPT ![h] = x] /\ host[h].at = "enter"
    BY <1>5 DEF Enter
  <2>2. x.at = "wait" /\ x.then = host[h].then /\ x.chunk = host[h].chunk
    BY <1>2 DEF HostSet
  <2> HIDE DEF x
  <2> QED
    BY <1>1, <2>1, <2>2, RoomGoesOn DEF HasRoom
<1>6. CASE Waited(h)
  <2> DEFINE x == [host[h] EXCEPT !.at = host[h].then]
             y == [host[h] EXCEPT !.at = "empty"]
  <2>1. /\ host[h].at = "wait"
        /\ \/ host' = [host EXCEPT ![h] = Idle]
           \/ host[h].then \in {"copy", "letGo"} /\ host' = [host EXCEPT ![h] = x]
           \/ host' = [host EXCEPT ![h] = y]
    BY <1>6 DEF Waited
  <2>2. /\ x.at = host[h].then
        /\ y.at = "empty" /\ y.then = host[h].then /\ y.chunk = host[h].chunk
    BY <1>2 DEF HostSet
  <2> HIDE DEF x, y
  <2>3. CASE host[h].then \in {"copy", "letGo"} /\ host' = [host EXCEPT ![h] = x]
    BY <1>1, <2>2, <2>3, RoomGoesOn
  <2>4. CASE host' = [host EXCEPT ![h] = y]
    BY <1>1, <2>1, <2>2, <2>4, RoomGoesOn DEF HasRoom
  <2> QED
    BY <1>1, <2>1, <1>3, <2>3, <2>4
<1>7. CASE CopyEnds(h) \/ WaitThrows(h) \/ NoRoom(h) \/ NewFailsAgain(h)
  BY <1>1, <1>3, <1>7 DEF CopyEnds, WaitThrows, NoRoom, NewFailsAgain
<1>8. CASE WithinLimit(h)
  BY <1>1, <1>4, <1>8 DEF WithinLimit
<1>9. CASE Large(h)
  BY <1>1, <1>4, <1>9 DEF Large
<1>10. CASE PastBudget(h)
  BY <1>1, <1>4, <1>10 DEF PastBudget
<1>11. CASE NewFails(h)
  BY <1>1, <1>4, <1>11 DEF NewFails
<1>12. CASE Room(h)
  <2> DEFINE c == IF memoryLimit > 0 /\ host[h].chunk > RoomFor(h) THEN host[h].needed ELSE host[h].chunk
             x == [host[h] EXCEPT !.at = "large", !.chunk = c]
  <2>1. host' = [host EXCEPT ![h] = x] /\ (memoryLimit > 0 => host[h].needed <= RoomFor(h)) /\ host[h].at = "room"
    BY <1>12 DEF Room
  <2>2. host[h].needed \in Nat /\ host[h].chunk \in Nat
    BY <1>2 DEF HostSet
  <2>3. c \in Nat
    BY <2>2
  <2>4. RoomFor(h) \in Int
    <3>1. Held \in Nat /\ memoryLimit \in Nat
      BY HeldIs
    <3> QED
      BY <3>1, VramAssumption DEF RoomFor
  <2>5. memoryLimit > 0 => c <= RoomFor(h)
    BY <2>1, <2>2, <2>4
  <2>6. memoryLimit > 0 => Held + c <= memoryLimit
    BY <2>3, <2>5, RoomIsThere
  <2> HIDE DEF c
  <2>7. x.chunk = c
    BY <1>2 DEF HostSet
  <2> HIDE DEF x
  <2>8. DOMAIN host' = Hosts /\ host'[h] = x /\ \A g \in Hosts \ {h} : host'[g] = host[g]
    BY <2>1, HostFields
  <2>9. heap = h
    BY <1>2, <2>1 DEF HostOK, HasHeap, Asking
  <2>10. ASSUME NEW g \in Hosts, g # h PROVE ~HasRoom(g)'
    <3>1. ~HasRoom(g)
      BY <2>9, <2>10, RoomIsLocked
    <3> QED
      BY <3>1, <2>8, <2>10 DEF HasRoom
  <2>11. \A g \in Hosts : RoomOK(g)'
    BY <1>1, <2>6, <2>7, <2>8, <2>10 DEF RoomOK, Held
  <2> QED
    BY <1>1, <2>8, <2>11 DEF Counted
<1> QED
  BY <1>1, <1>5, <1>6, <1>7, <1>8, <1>9, <1>10, <1>11, <1>12

\* The empty chunks go back: there is only more room.
LEMMA ReleaseCounts ==
  ASSUME IInv, Counted, NEW h \in Hosts, ReleaseEmpty(h)
  PROVE  Counted' /\ chunks' \subseteq chunks /\ weights' = weights
<1>1. /\ host[h].at = "empty" /\ weights' = weights /\ weightBytes' = weightBytes
      /\ memoryLimit' = memoryLimit /\ chunks' \subseteq chunks
      /\ host' = [host EXCEPT ![h] = Idle] \/ GoesOn(h, host[h].then)
  BY DEF ReleaseEmpty, RemoveEmpty
<1>2. CASE host' = [host EXCEPT ![h] = Idle]
  <2>1. Idle.at = "idle"
    BY DEF Idle
  <2> QED
    BY <1>1, <1>2, <2>1, RoomGoesOn
<1>3. CASE GoesOn(h, host[h].then)
  <2> DEFINE x == [host[h] EXCEPT !.at = host[h].then]
  <2>1. host' = [host EXCEPT ![h] = x]
    BY <1>3 DEF GoesOn
  <2>2. x.at = host[h].then /\ x.chunk = host[h].chunk /\ host[h].then \in Releases
    BY <1>1, HostFields DEF HostSet, HostOK
  <2> HIDE DEF x
  <2>3. host[h].then \in {"room", "done"} \/ HasRoom(h)
    BY <1>1, <2>2 DEF HasRoom, Releases
  <2> QED
    BY <1>1, <2>1, <2>2, <2>3, RoomGoesOn
<1> QED
  BY <1>1, <1>2, <1>3

\* A chunk is made where there is room for it, and counted.
LEMMA ChunkCounts ==
  ASSUME IInv, Counted, NEW h \in Hosts, MakeChunk(h)
  PROVE  Counted' /\ (memoryLimit > 0 => DeviceBytes' <= memoryLimit)
<1> DEFINE c == Chunk(host[h].chunk, Dedicated(h))
<1>1. /\ host[h].at \in {"new", "again"} /\ chunks' = chunks \cup {c} /\ weights' = weights
      /\ weightBytes' = weightBytes /\ memoryLimit' = memoryLimit
      /\ host' = [host EXCEPT ![h] = Idle]
  BY DEF MakeChunk, CutFromNew
<1>2. host[h].chunk \in Nat /\ HasRoom(h) /\ heap = h
  BY <1>1, HostFields, RoomIsLocked DEF HostSet, HasRoom
<1>3. c.size = host[h].chunk /\ c.id = made + 1 /\ made \in Nat
  BY DEF Chunk, IInv, BlocksOK, Tiles, Typed
<1>4. c \notin chunks
  BY <1>3, ChunksAreNoWeights DEF IInv
<1> HIDE DEF c
<1>5. \A m \in chunks \cup {c} : m.size \in Nat
  BY <1>2, <1>3, HeldIs
<1>6. IsFiniteSet(chunks') /\ Bytes(chunks') = Bytes(chunks) + host[h].chunk
  BY <1>1, <1>3, <1>4, <1>5, BytesAdd DEF Counted
<1>7. Counted'
  BY <1>1, <1>2, <1>6, NobodyHasRoom DEF Counted, RoomOK
<1>8. ASSUME memoryLimit > 0 PROVE DeviceBytes' <= memoryLimit
  <2>1. Bytes(chunks) + weightBytes + host[h].chunk <= memoryLimit
    BY <1>2, <1>8 DEF Counted, RoomOK, Held
  <2>2. DeviceBytes' = (Bytes(chunks) + host[h].chunk) + weightBytes
    BY <1>1, <1>6 DEF DeviceBytes, Counted
  <2> QED
    BY <2>1, <2>2, <1>2, HeldIs
<1> QED
  BY <1>7, <1>8

\* And so is a weight's buffer.
LEMMA WeightCounts ==
  ASSUME IInv, Counted, NEW h \in Hosts, MakeWeight(h)
  PROVE  Counted' /\ (memoryLimit > 0 => DeviceBytes' <= memoryLimit + Unasked)
<1>0. PICK excess \in 0..Excess :
        MakeWeight(h)!(excess)
  BY DEF MakeWeight
<1> DEFINE mem == [id |-> host[h].tensor, size |-> host[h].chunk + excess, dedicated |-> FALSE]
<1>1. /\ host[h].at \in {"new", "again"} /\ chunks' = chunks /\ weights' = weights \cup {mem}
      /\ weightBytes' = weightBytes + mem.size /\ memoryLimit' = memoryLimit /\ mem \notin weights
      /\ host' = [host EXCEPT ![h] = Idle]
  BY <1>0
<1>2. host[h].chunk \in Nat /\ HasRoom(h) /\ heap = h
  BY <1>1, HostFields, RoomIsLocked DEF HostSet, HasRoom
<1>3. mem.size = host[h].chunk + excess /\ excess \in Nat /\ excess <= Excess
  BY VramAssumption
<1> HIDE DEF mem
<1>4. \A m \in weights \cup {mem} : m.size \in Nat
  BY <1>2, <1>3, HeldIs
<1>5. IsFiniteSet(weights') /\ Bytes(weights') = Bytes(weights) + mem.size
  BY <1>1, <1>3, <1>4, BytesAdd DEF Counted
<1>6. Counted'
  BY <1>1, <1>2, <1>3, <1>5, NobodyHasRoom DEF Counted, RoomOK
<1>7. ASSUME memoryLimit > 0 PROVE DeviceBytes' <= memoryLimit + Unasked
  <2>1. Bytes(chunks) + weightBytes + host[h].chunk <= memoryLimit /\ weightBytes = Bytes(weights)
    BY <1>2, <1>7 DEF Counted, RoomOK, Held
  <2>2. DeviceBytes' = Bytes(chunks) + (Bytes(weights) + (host[h].chunk + excess))
    BY <1>1, <1>3, <1>5 DEF DeviceBytes
  <2>3. Unasked = Excess
    BY <1>1 DEF Unasked
  <2>4. memoryLimit \in Nat /\ Excess \in Nat
    BY HeldIs, VramAssumption
  <2> QED
    BY <2>1, <2>2, <2>3, <2>4, <1>2, <1>3, HeldIs
<1> QED
  BY <1>6, <1>7

\* A weight that is let go of is counted no more.
LEMMA LetGoCounts ==
  ASSUME IInv, Counted, NEW h \in Hosts, LetGo(h)
  PROVE  Counted' /\ chunks' = chunks /\ weights' \subseteq weights
<1> DEFINE mem == host[h].buffer.memory
<1>1. /\ host[h].at = "letGo" /\ chunks' = chunks /\ weights' = weights \ {mem}
      /\ weightBytes' = weightBytes - mem.size /\ memoryLimit' = memoryLimit
      /\ host' = [host EXCEPT ![h] = Idle]
  BY DEF LetGo
<1>2. mem \in weights /\ heap = h
  BY <1>1, HostFields DEF LetGoOK, LetsGo, HostOK, HasHeap
<1> HIDE DEF mem
<1>3. Bytes(weights \ {mem}) = Bytes(weights) - mem.size /\ IsFiniteSet(weights \ {mem})
  BY <1>2, HeldIs, BytesCount DEF Counted
<1> QED
  BY <1>1, <1>2, <1>3, NobodyHasRoom DEF Counted, RoomOK

\* Nothing is allocated at first.
LEMMA CountBegins == Init => Counted
<1> SUFFICES ASSUME Init PROVE Counted
  OBVIOUS
<1>1. /\ chunks = {} /\ weights = {} /\ weightBytes = 0 /\ memoryLimit = 0
      /\ host = [h \in Hosts |-> Idle]
  BY DEF Init, InitBlocks
<1>2. IsFiniteSet({})
  BY FS_EmptySet
<1>3. Bytes({}) = 0
  <2> DEFINE F == [m \in {} |-> 0]
  <2>1. Bytes({}) = SumOf(F, {})
    BY <1>2, BytesAre
  <2> HIDE DEF F
  <2> QED
    BY <2>1, SumEmpty
<1>4. \A h \in Hosts : ~HasRoom(h)
  BY <1>1 DEF HasRoom, Idle
<1> QED
  BY <1>1, <1>2, <1>3, <1>4 DEF Counted, RoomOK

\* Every step keeps the count, and asks for no more than there is room for.
LEMMA CountKept ==
  ASSUME IInv, Counted, [Next]_vars
  PROVE  Counted' /\ (Grows /\ memoryLimit > 0 => DeviceBytes' <= memoryLimit + Unasked)
<1>1. ASSUME UNCHANGED <<memory, host>> PROVE Counted' /\ ~Grows
  <2>1. /\ chunks' = chunks /\ weights' = weights /\ weightBytes' = weightBytes
        /\ memoryLimit' = memoryLimit /\ host' = host
    BY <1>1 DEF memory
  <2> QED
    BY <2>1 DEF Counted, RoomOK, HasRoom, Held, Grows
<1>2. CASE UNCHANGED vars
  BY <1>1, <1>2 DEF vars
<1>3. CASE DeviceRuns
  BY <1>1, <1>3 DEF DeviceRuns
<1>4. ASSUME NEW h \in Hosts, Call(h) PROVE Counted' /\ ~Grows
  BY <1>4, CallsCount DEF Grows
<1>5. ASSUME NEW h \in Hosts, Step(h)
      PROVE  Counted' /\ (Grows /\ memoryLimit > 0 => DeviceBytes' <= memoryLimit + Unasked)
  <2>1. CASE MakeChunk(h)
    <3>1. Unasked = 0 /\ memoryLimit \in Nat
      BY <2>1, HeldIs DEF MakeChunk, Unasked
    <3>2. memoryLimit + Unasked = memoryLimit
      BY <3>1
    <3>3. Counted' /\ (memoryLimit > 0 => DeviceBytes' <= memoryLimit)
      BY <2>1, ChunkCounts
    <3> QED
      BY <3>2, <3>3
  <2>2. CASE MakeWeight(h)
    BY <2>2, WeightCounts
  <2>3. CASE ReleaseEmpty(h)
    BY <2>3, ReleaseCounts DEF Grows
  <2>4. CASE LetGo(h)
    BY <2>4, LetGoCounts DEF Grows
  <2>5. CASE \/ Enter(h) \/ Waited(h) \/ CopyEnds(h) \/ WaitThrows(h) \/ WithinLimit(h) \/ Room(h) \/ NoRoom(h)
             \/ Large(h) \/ PastBudget(h) \/ NewFails(h) \/ NewFailsAgain(h)
    BY <2>5, AsksCount DEF Grows
  <2> QED
    BY <1>5, <2>1, <2>2, <2>3, <2>4, <2>5 DEF Step
<1> QED
  BY <1>2, <1>3, <1>4, <1>5 DEF Next

\* The limit holds from the next allocation on, for any threads, tensors, sizes, limits and failures
\* (allocate, allocateWeight, over synchronizeAndReleaseEmptyChunks).
THEOREM LimitIsKept == Spec => LimitHolds
<1>1. IInv /\ Counted /\ [Next]_vars => Counted'
  BY CountKept
<1>2. IInv /\ Counted /\ [Next]_vars =>
        [Grows /\ memoryLimit > 0 => DeviceBytes' <= memoryLimit + Unasked]_vars
  BY CountKept
<1> QED
  BY <1>1, <1>2, CountBegins, MarksAreTrue, PTL DEF Spec, LimitHolds

-----------------------------------------------------------------------------
\* Each lock is held by a thread that is where it needs it.
LockOK(h) ==
  /\ turn = h => host[h].at \in {"wait", "copy"}
  /\ heap = h => HasHeap(h)

LocksOK == DOMAIN host = Hosts /\ \A h \in Hosts : LockOK(h)

\* A batch that is full is not being encoded any more; the handlers that were called early are of
\* batches after one whose handler was not.
BatchesOK == recorded \in 0..(PerBatch - 1) /\ finished \subseteq completed+2..executed

-----------------------------------------------------------------------------
\* A step of one thread: the others keep the locks they have.
LEMMA LocksStay ==
  ASSUME LocksOK, NEW h \in Hosts, NEW x, host' = [host EXCEPT ![h] = x],
         turn' \in {turn, h, NoHost}, heap' \in {heap, h, NoHost},
         turn' = h => x.at \in {"wait", "copy"},
         heap' = h => \/ x.at \in Asking \cup {"empty", "letGo"}
                      \/ x.at \in {"enter", "wait"} /\ x.then \in Releases \cup {"letGo"}
  PROVE  LocksOK'
<1>1. DOMAIN host' = Hosts /\ host'[h] = x /\ \A g \in Hosts \ {h} : host'[g] = host[g]
  BY DEF LocksOK
<1>2. LockOK(h)'
  BY <1>1 DEF LockOK, HasHeap
<1>3. ASSUME NEW g \in Hosts, g # h PROVE LockOK(g)'
  <2>1. LockOK(g) /\ host'[g] = host[g] /\ (turn' = g => turn = g) /\ (heap' = g => heap = g)
    BY <1>1, <1>3, WithinBlocks DEF LocksOK
  <2> QED
    BY <2>1 DEF LockOK, HasHeap
<1> QED
  BY <1>1, <1>2, <1>3 DEF LocksOK

\* Where every thread begins and ends it has no lock.
LEMMA LocksGoBack ==
  ASSUME LocksOK, NEW h \in Hosts, host' = [host EXCEPT ![h] = Idle],
         turn' \in {turn, NoHost}, heap' \in {heap, NoHost}, turn' # h, heap' # h
  PROVE  LocksOK'
BY LocksStay

\* A call that begins has no lock but the one it takes.
LEMMA CallsLock ==
  ASSUME LocksOK, NEW h \in Hosts, Call(h)
  PROVE  LocksOK'
<1>1. host[h].at = "idle" => turn # h /\ heap # h
  BY DEF LocksOK, LockOK, HasHeap, Asking
<1>2. ASSUME host' = host, turn' = turn, heap' = heap PROVE LocksOK'
  BY <1>2 DEF LocksOK, LockOK, HasHeap
<1>3. ASSUME NEW args \in SUBSET Live, Dispatch(h, args) PROVE LocksOK'
  <2>1. CASE UNCHANGED <<host, turn>>
    BY <1>3, <2>1, <1>2 DEF Dispatch
  <2>2. CASE ~UNCHANGED <<host, turn>>
    <3> DEFINE x == [Idle EXCEPT !.at = "wait", !.target = Throttle(submitted')]
    <3>1. host' = [host EXCEPT ![h] = x] /\ turn' = h /\ heap' = heap /\ host[h].at = "idle"
      BY <1>3, <2>2 DEF Dispatch
    <3>2. x.at = "wait"
      BY DEF Idle
    <3> HIDE DEF x
    <3> QED
      BY <1>1, <3>1, <3>2, LocksStay
  <2> QED
    BY <2>1, <2>2
<1>4. ASSUME NEW t \in Live, HostCopy(h, t) PROVE LocksOK'
  <2> DEFINE x == [Idle EXCEPT !.at = "enter", !.then = "copy", !.tensor = t]
  <2>1. host' = [host EXCEPT ![h] = x] /\ turn' = turn /\ heap' = heap /\ host[h].at = "idle"
    BY <1>4 DEF HostCopy
  <2> HIDE DEF x
  <2> QED
    BY <1>1, <2>1, LocksStay
<1>5. CASE Synchronize(h)
  <2> DEFINE x == [Idle EXCEPT !.at = "enter"]
  <2>1. host' = [host EXCEPT ![h] = x] /\ turn' = turn /\ heap' = heap /\ host[h].at = "idle"
    BY <1>5 DEF Synchronize
  <2> HIDE DEF x
  <2> QED
    BY <1>1, <2>1, LocksStay
<1>6. ASSUME NEW t \in Tensors, NEW bytes \in Asks, Allocate(h, t, bytes) PROVE LocksOK'
  BY <1>6, <1>2 DEF Allocate
<1>7. ASSUME NEW t \in Tensors, NEW bytes \in Asks, AllocateNew(h, t, bytes) PROVE LocksOK'
  <2> DEFINE needed == RoundTo(RoundUp(bytes), Granule)
             chunk  == IF needed > ChunkSize THEN needed ELSE ChunkSize
             x == [Asked(t, "kCached", bytes) EXCEPT !.at = "limit", !.needed = needed, !.chunk = chunk]
  <2>1. host' = [host EXCEPT ![h] = x] /\ turn' = turn /\ heap' = h /\ host[h].at = "idle"
    BY <1>7 DEF AllocateNew
  <2> HIDE DEF needed, chunk
  <2>2. x.at = "limit"
    BY DEF Asked, Idle
  <2> HIDE DEF x
  <2> QED
    BY <1>1, <2>1, <2>2, LocksStay DEF Asking
<1>8. ASSUME NEW t \in Tensors, NEW bytes \in Asks, AllocateWeight(h, t, bytes) PROVE LocksOK'
  <2> DEFINE pages == RoundTo(RoundUp(bytes), Page)
             x == [Asked(t, "kWeight", bytes) EXCEPT !.at = "limit", !.needed = pages, !.chunk = pages]
  <2>1. host' = [host EXCEPT ![h] = x] /\ turn' = turn /\ heap' = h /\ host[h].at = "idle"
    BY <1>8 DEF AllocateWeight
  <2> HIDE DEF pages
  <2>2. x.at = "limit"
    BY DEF Asked, Idle
  <2> HIDE DEF x
  <2> QED
    BY <1>1, <2>1, <2>2, LocksStay DEF Asking
<1>9. ASSUME NEW t \in Live, FreeCached(h, t) PROVE LocksOK'
  BY <1>9, <1>2 DEF FreeCached
<1>10. ASSUME NEW t \in Live, FreeWeight(h, t) PROVE LocksOK'
  <2> DEFINE x == [Idle EXCEPT !.at = "enter", !.then = "letGo", !.tensor = t, !.buffer = buffers[t]]
  <2>1. host' = [host EXCEPT ![h] = x] /\ turn' = turn /\ heap' = h /\ host[h].at = "idle"
    BY <1>10 DEF FreeWeight
  <2>2. x.at = "enter" /\ x.then = "letGo"
    BY DEF Idle
  <2> HIDE DEF x
  <2> QED
    BY <1>1, <2>1, <2>2, LocksStay
<1>11. CASE ReleaseUnusedMemory(h)
  <2> DEFINE x == [Idle EXCEPT !.at = "enter", !.then = "done"]
  <2>1. host' = [host EXCEPT ![h] = x] /\ turn' = turn /\ heap' = h /\ host[h].at = "idle"
    BY <1>11 DEF ReleaseUnusedMemory
  <2>2. x.at = "enter" /\ x.then = "done"
    BY DEF Idle
  <2> HIDE DEF x
  <2> QED
    BY <1>1, <2>1, <2>2, LocksStay DEF Releases
<1>12. ASSUME NEW bytes \in Limits, SetMemoryLimit(h, bytes) PROVE LocksOK'
  BY <1>12, <1>2 DEF SetMemoryLimit
<1> QED
  BY <1>3, <1>4, <1>5, <1>6, <1>7, <1>8, <1>9, <1>10, <1>11, <1>12 DEF Call

\* A step of a call keeps the lock as long as it is in need of it, and gives it back where it ends.
LEMMA StepsLock ==
  ASSUME IInv, LocksOK, NEW h \in Hosts, Step(h)
  PROVE  LocksOK'
<1>1. host[h] \in HostSet /\ HostOK(h) /\ LockOK(h)
  BY HostFields DEF LocksOK
<1>2. CASE Enter(h)
  <2> DEFINE n == IF LastUse(h) > submitted THEN submitted' ELSE LastUse(h)
             x == [host[h] EXCEPT !.at = "wait", !.target = n]
  <2>1. host' = [host EXCEPT ![h] = x] /\ host[h].at = "enter" /\ turn' = h /\ heap' = heap
    BY <1>2 DEF Enter, memory
  <2>2. x.at = "wait" /\ x.then = host[h].then
    BY <1>1 DEF HostSet
  <2> HIDE DEF x
  <2> QED
    BY <1>1, <2>1, <2>2, LocksStay DEF LockOK, HasHeap, Asking
<1>3. CASE Waited(h)
  <2> DEFINE x == [host[h] EXCEPT !.at = host[h].then]
             y == [host[h] EXCEPT !.at = "empty"]
  <2>1. /\ host[h].at = "wait" /\ heap' = heap /\ turn' = IF host[h].then = "copy" THEN h ELSE NoHost
        /\ \/ host[h].then = "idle" /\ host' = [host EXCEPT ![h] = Idle]
           \/ host[h].then \in {"copy", "letGo"} /\ host' = [host EXCEPT ![h] = x]
           \/ host[h].then \in Releases /\ host' = [host EXCEPT ![h] = y]
    BY <1>1, <1>3 DEF Waited, HostSet
  <2>2. x.at = host[h].then /\ y.at = "empty"
    BY <1>1 DEF HostSet
  <2> HIDE DEF x, y
  <2>3. NoHost # h
    BY WithinBlocks
  <2>4. CASE host[h].then = "idle" /\ host' = [host EXCEPT ![h] = Idle]
    <3>1. heap # h
      BY <1>1, <2>1, <2>4 DEF LockOK, HasHeap, Asking, Releases
    <3> QED
      BY <2>1, <2>3, <2>4, <3>1, LocksGoBack
  <2>5. CASE host[h].then \in {"copy", "letGo"} /\ host' = [host EXCEPT ![h] = x]
    BY <1>1, <2>1, <2>2, <2>3, <2>5, LocksStay DEF LockOK, HasHeap, Asking, Releases
  <2>6. CASE host[h].then \in Releases /\ host' = [host EXCEPT ![h] = y]
    BY <1>1, <2>1, <2>2, <2>3, <2>6, LocksStay DEF Releases
  <2> QED
    BY <2>1, <2>4, <2>5, <2>6
<1>4. CASE CopyEnds(h) \/ WaitThrows(h)
  <2>1. /\ host' = [host EXCEPT ![h] = Idle] /\ turn' = NoHost /\ heap' \in {heap, NoHost} /\ heap' # h
    BY <1>1, <1>4, WithinBlocks DEF CopyEnds, WaitThrows, LockOK, HasHeap, Asking
  <2> QED
    BY <2>1, LocksGoBack, WithinBlocks
<1>5. CASE NoRoom(h) \/ NewFailsAgain(h) \/ MakeChunk(h) \/ MakeWeight(h) \/ LetGo(h)
  <2>1. /\ host' = [host EXCEPT ![h] = Idle] /\ turn' = turn /\ heap' = NoHost /\ turn # h
    BY <1>1, <1>5 DEF NoRoom, NewFailsAgain, MakeChunk, MakeWeight, LetGo, LockOK
  <2> QED
    BY <2>1, LocksGoBack, WithinBlocks
<1>6. ASSUME NEW place \in Asking \ {"limit"}, host[h].at \in Asking \cup {"empty"},
             (ReleasesThen(h, place) /\ place # "large") \/ GoesOn(h, place), turn' = turn, heap' = heap
      PROVE  LocksOK'
  <2> DEFINE x == [host[h] EXCEPT !.at = "enter", !.then = place]
             y == [host[h] EXCEPT !.at = place]
  <2>1. (host' = [host EXCEPT ![h] = x] /\ place # "large") \/ host' = [host EXCEPT ![h] = y]
    BY <1>6 DEF ReleasesThen, GoesOn
  <2>2. x.at = "enter" /\ x.then = place /\ y.at = place
    BY <1>1 DEF HostSet
  <2> HIDE DEF x, y
  <2>3. turn' # h
    BY <1>1, <1>6 DEF LockOK, Asking
  <2>4. CASE host' = [host EXCEPT ![h] = x] /\ place # "large"
    BY <1>6, <2>2, <2>3, <2>4, LocksStay DEF Asking, Releases
  <2>5. CASE host' = [host EXCEPT ![h] = y]
    BY <1>6, <2>2, <2>3, <2>5, LocksStay DEF Asking
  <2> QED
    BY <2>1, <2>4, <2>5
<1>7. CASE WithinLimit(h)
  BY <1>6, <1>7 DEF WithinLimit, Asking
<1>8. CASE Large(h)
  BY <1>6, <1>8 DEF Large, Asking
<1>9. CASE PastBudget(h)
  BY <1>6, <1>9 DEF PastBudget, Asking
<1>10. CASE NewFails(h)
  BY <1>6, <1>10 DEF NewFails, Asking
<1>11. CASE Room(h)
  <2> DEFINE c == IF memoryLimit > 0 /\ host[h].chunk > RoomFor(h) THEN host[h].needed ELSE host[h].chunk
             x == [host[h] EXCEPT !.at = "large", !.chunk = c]
  <2>1. host' = [host EXCEPT ![h] = x] /\ host[h].at = "room" /\ turn' = turn /\ heap' = heap
    BY <1>11 DEF Room
  <2> HIDE DEF c
  <2>2. x.at = "large"
    BY <1>1 DEF HostSet
  <2> HIDE DEF x
  <2>3. turn' # h
    BY <1>1, <2>1 DEF LockOK
  <2> QED
    BY <2>1, <2>2, <2>3, LocksStay DEF Asking
<1>12. CASE ReleaseEmpty(h)
  <2>1. host[h].at = "empty" /\ turn' = turn /\ turn # h /\ host[h].then \in Releases
    BY <1>1, <1>12 DEF ReleaseEmpty, LockOK, HostOK
  <2>2. CASE host[h].then = "done"
    <3>1. host' = [host EXCEPT ![h] = Idle] /\ heap' = NoHost
      BY <1>12, <2>2 DEF ReleaseEmpty
    <3> QED
      BY <2>1, <3>1, LocksGoBack, WithinBlocks
  <2>3. CASE host[h].then # "done"
    <3>1. GoesOn(h, host[h].then) /\ heap' = heap /\ host[h].then \in Asking \ {"limit"}
      BY <1>12, <2>1, <2>3 DEF ReleaseEmpty, Releases, Asking
    <3> QED
      BY <1>6, <2>1, <3>1
  <2> QED
    BY <2>2, <2>3
<1> QED
  BY <1>2, <1>3, <1>4, <1>5, <1>7, <1>8, <1>9, <1>10, <1>11, <1>12 DEF Step

-----------------------------------------------------------------------------
\* Batches begin empty, and end in order.
LEMMA BatchesKept ==
  ASSUME IInv, BatchesOK, [Next]_vars
  PROVE  BatchesOK'
<1>1. /\ recorded \in 0..(PerBatch - 1) /\ PerBatch \in Nat \ {0} /\ finished \subseteq completed+2..executed
      /\ completed \in Nat /\ executed \in Nat /\ submitted \in Nat
  BY StreamAssumption DEF BatchesOK, IInv, StreamOK
<1>2. ASSUME recorded' = recorded \/ recorded' = 0 \/ (recorded' = recorded + 1 /\ ~(recorded + 1 >= PerBatch)),
             finished' = finished, completed' = completed, executed' = executed
      PROVE  BatchesOK'
  BY <1>1, <1>2 DEF BatchesOK
<1>3. CASE UNCHANGED <<stream, device>>
  BY <1>2, <1>3 DEF stream, device
<1>4. CASE Execute
  <2>1. recorded' = recorded /\ finished' = finished /\ completed' = completed /\ executed' = executed + 1
    BY <1>4 DEF Execute, stream
  <2> QED
    BY <1>1, <2>1 DEF BatchesOK
<1>5. ASSUME NEW n \in 1..submitted, Completed(n) PROVE BatchesOK'
  <2> DEFINE done == finished \cup {n}
  <2>1. /\ recorded' = recorded /\ executed' = executed /\ n <= executed
        /\ completed' = Advanced(done) /\ finished' = {i \in done : i > completed'}
    BY <1>5 DEF Completed
  <2>2. done \subseteq 1..executed
    BY <2>1 DEF IInv, StreamOK
  <2> DEFINE a == Advanced(done)
  <2>3. a \in completed..executed /\ a + 1 \notin done
    BY <2>2, AdvancedIsRun DEF IInv
  <2> HIDE DEF done, a
  <2>4. completed' = a /\ a \in Nat
    BY <1>1, <2>1, <2>3 DEF a
  <2>5. finished' \subseteq a+2..executed
    <3> SUFFICES ASSUME NEW i \in done, i > a PROVE i \in a+2..executed
      BY <2>1, <2>4
    <3>1. i \in 1..executed /\ i # a + 1
      BY <2>2, <2>3
    <3> QED
      BY <1>1, <2>4, <3>1
  <2> QED
    BY <1>1, <2>1, <2>4, <2>5 DEF BatchesOK
<1>6. CASE UNCHANGED vars
  BY <1>3, <1>6 DEF vars
<1>7. CASE DeviceRuns
  BY <1>4, <1>5, <1>7 DEF DeviceRuns, DeviceStep
<1>8. ASSUME NEW h \in Hosts, Call(h) PROVE BatchesOK'
  <2>1. ASSUME NEW args \in SUBSET Live, Dispatch(h, args) PROVE BatchesOK'
    BY <2>1, <1>2 DEF Dispatch, Encode
  <2>2. ASSUME \/ \E t \in Live : HostCopy(h, t) \/ FreeCached(h, t) \/ FreeWeight(h, t)
               \/ \E t \in Tensors, bytes \in Asks :
                    Allocate(h, t, bytes) \/ AllocateNew(h, t, bytes) \/ AllocateWeight(h, t, bytes)
               \/ \E bytes \in Limits : SetMemoryLimit(h, bytes)
               \/ Synchronize(h) \/ ReleaseUnusedMemory(h)
        PROVE  UNCHANGED <<stream, device>>
    BY <2>2
       DEF HostCopy, FreeCached, FreeWeight, Allocate, AllocateNew, AllocateWeight, SetMemoryLimit,
           Synchronize, ReleaseUnusedMemory
  <2> QED
    BY <1>3, <1>8, <2>1, <2>2 DEF Call
<1>9. ASSUME NEW h \in Hosts, Step(h) PROVE BatchesOK'
  <2>1. CASE Enter(h)
    BY <2>1, <1>2 DEF Enter, Submit, device
  <2>2. CASE \/ Waited(h) \/ CopyEnds(h) \/ WaitThrows(h) \/ WithinLimit(h) \/ Room(h) \/ NoRoom(h)
             \/ Large(h) \/ PastBudget(h) \/ ReleaseEmpty(h) \/ MakeChunk(h) \/ MakeWeight(h)
             \/ NewFails(h) \/ NewFailsAgain(h) \/ LetGo(h)
    BY <2>2, <1>3
       DEF Waited, CopyEnds, WaitThrows, WithinLimit, Room, NoRoom, Large, PastBudget, ReleaseEmpty,
           MakeChunk, MakeWeight, NewFails, NewFailsAgain, LetGo
  <2> QED
    BY <1>9, <2>1, <2>2 DEF Step
<1> QED
  BY <1>6, <1>7, <1>8, <1>9 DEF Next

\* No thread has a lock at first, and nothing is encoded.
LEMMA LocksBegin == Init => LocksOK /\ BatchesOK
<1> SUFFICES ASSUME Init PROVE LocksOK /\ BatchesOK
  OBVIOUS
<1>1. /\ turn = NoHost /\ heap = NoHost /\ host = [h \in Hosts |-> Idle]
      /\ recorded = 0 /\ finished = {}
  BY DEF Init, InitStream
<1> QED
  BY <1>1, WithinBlocks, StreamAssumption DEF LocksOK, LockOK, BatchesOK

\* Whatever a step is of, the locks are with those who need them.
LEMMA LocksKept ==
  ASSUME IInv, LocksOK, [Next]_vars
  PROVE  LocksOK'
<1>1. ASSUME UNCHANGED <<heap, turn, host>> PROVE LocksOK'
  BY <1>1 DEF LocksOK, LockOK, HasHeap
<1>2. CASE UNCHANGED vars
  BY <1>1, <1>2 DEF vars
<1>3. CASE DeviceRuns
  BY <1>1, <1>3 DEF DeviceRuns
<1> QED
  BY <1>2, <1>3, CallsLock, StepsLock DEF Next

\* The parts together are the type invariant.
LEMMA TypesFollow ==
  ASSUME IInv, Counted, LocksOK, BatchesOK, Aligned
  PROVE  TypeOK
<1>1. recorded \in 0..(PerBatch - 1) /\ submitted \in 0..MaxBatches
  BY DEF BatchesOK, IInv, StreamOK
<1>2. completed \in 0..executed /\ executed \in 0..submitted /\ finished \subseteq completed+2..executed
  BY DEF BatchesOK, IInv, StreamOK
<1>3. \A b \in blocks : b.chunk \in chunks /\ b.size % Alignment = 0 /\ b.offset % Alignment = 0
  BY DEF Aligned, IInv, BlocksOK, Tiles, Typed, BlockSet
<1>4. \A t \in Live : buffers[t].memory \in chunks \cup weights /\ buffers[t].lastUse <= Recording
  BY <1>3, WhereItIs DEF IInv, BuffersOK, OnBlock
<1>5. ASSUME NEW h \in Hosts
      PROVE  /\ host[h].at \in Places
             /\ turn = h <=> host[h].at \in {"wait", "copy"}
             /\ host[h].at \in {"limit", "room", "large", "budget", "empty", "new", "again", "letGo"} => heap = h
             /\ heap = h => host[h].at \notin {"idle", "copy"}
  <2>1. HostOK(h) /\ host[h] \in HostSet /\ LockOK(h)
    BY HostFields DEF LocksOK
  <2> QED
    BY <2>1 DEF HostOK, HostSet, HasHeap, Asking, LockOK
<1>6. weightBytes \in Nat /\ memoryLimit \in Limits \cup {0}
  BY HeldIs DEF Counted
<1> QED
  BY <1>1, <1>2, <1>3, <1>4, <1>5, <1>6 DEF TypeOK

\* Counts keep their ranges, blocks their units, and each lock is with the thread that needs it, for
\* any threads, tensors and sizes.
THEOREM VramTyping == Spec => []TypeOK
<1>1. IInv /\ Counted /\ [Next]_vars => Counted'
  BY CountKept
<1>2. IInv /\ LocksOK /\ [Next]_vars => LocksOK'
  BY LocksKept
<1>3. IInv /\ BatchesOK /\ [Next]_vars => BatchesOK'
  BY BatchesKept
<1>4. IInv /\ Counted /\ LocksOK /\ BatchesOK /\ Aligned => TypeOK
  BY TypesFollow
<1> QED
  BY <1>1, <1>2, <1>3, <1>4, CountBegins, LocksBegin, MarksAreTrue, ImplementsBlocks, AlignedHolds, PTL DEF Spec
=============================================================================
