-------------------------------- MODULE IrProofs -------------------------------
(***************************************************************************)
(* What holds of Ir and Weights for any weights, package, device and       *)
(* graph: the smallest weights are the most that fit; a compilation runs   *)
(* what is needed, in order, each reader finding what it reads and nothing *)
(* held past its last one; a run stays within the device, draws as an      *)
(* eager pass would, and fails for memory only where it would have with no *)
(* weight kept.                                                            *)
(***************************************************************************)
EXTENDS Ir, Sums

-----------------------------------------------------------------------------
(* What every state is like. *)

Kinds == {"input", "draw", "load", "view", "add"}

\* An operation reads what was written before it, as its kind has it.
OpOK(v) ==
  \/ nodes[v] \in {Op("input", 0, <<>>), Op("draw", 0, <<>>)}
  \/ \E n \in Names : nodes[v] = Op("load", n, <<>>)
  \/ \E u \in 1..(v - 1) : nodes[v] = Op("view", 0, <<u>>)
  \/ \E u, w \in 1..(v - 1) : nodes[v] = Op("add", 0, <<u, w>>)

\* Written in order, one load to a weight.
GraphOK ==
  /\ nodes \in Seq([kind : Kinds, weight : Nat, operands : Seq(Nat)])
  /\ \A v \in Values : OpOK(v)
  /\ \A u, v \in Values : u # v /\ nodes[u].kind = "load" /\ nodes[v].kind = "load"
                            => nodes[u].weight # nodes[v].weight
  /\ outputs \in SUBSET Values

Insts == [inst : {"run", "free"}, value : Nat]

\* The values the instructions before the p-th ran, and those they freed.
RunBy(s, p)   == {v \in Values : \E i \in 1..(p - 1) : s[i] = Run(v)}
FreedBy(s, p) == {v \in Values : \E i \in 1..(p - 1) : s[i] = Free(v)}
\* What instructions before the p-th leave held.
HeldBefore(s, p) == RunBy(s, p) \ FreedBy(s, p)

\* What is read at v or later, or put out, of what is before it: what is left held there.
ReadLater(v) == {u \in Live : u < v /\ (u \in outputs \/ \E w \in Live : w >= v /\ u \in Operands(w))}

\* An instruction that runs a value: all before it that has to run did, and what is held is what
\* is still read.
RunOK(s, p) ==
  /\ s[p].value \in Live
  /\ HeldBefore(s, p) = ReadLater(s[p].value)
  /\ RunBy(s, p) = {u \in Live : u < s[p].value}
  /\ s[p].value \notin FreedBy(s, p)

\* So every one that runs something, and at the end the outputs are what is left.
CodeRight(s) == \A p \in DOMAIN s : s[p].value \in Values /\ (s[p].inst = "run" => RunOK(s, p))

CodeOK(s) ==
  /\ s \in Seq(Insts) /\ CodeRight(s)
  /\ RunBy(s, Len(s) + 1) = Live /\ HeldBefore(s, Len(s) + 1) = outputs

\* The draws that ran, and the order they are drawn in.
DrawsBefore(p) == {v \in RunBy(insts, p) : nodes[v].kind = "draw"}
Ascends(s) == \A i, j \in DOMAIN s : i < j => s[i] < s[j]
DrawnOK(d, p) == d \in Seq(Nat) /\ Range(d) = DrawsBefore(p) /\ Ascends(d)

\* The storage a value is over, by whose it is.
SlotOK(o, st) ==
  \/ nodes[o].kind = "input" /\ st = FromCaller
  \/ nodes[o].kind = "load"  /\ st \in {Made(o), Copy(nodes[o].weight)}
  \/ nodes[o].kind \notin {"input", "load"} /\ st = Made(o)

Outcomes == {"none", "refused", "running", "full", "failed", "done"}

\* Slots hold what the instructions that ran left held, while a run is on, and nothing between runs.
RunsOK ==
  /\ ip \in 0..(Len(insts) + 1) /\ outcome \in Outcomes
  /\ Building  => slots = <<>> /\ ip = 0 /\ outcome = "none"
  /\ ~Building => CodeOK(insts) /\ DOMAIN slots = Values
  /\ ip > 0 => /\ outcome = "running" /\ {v \in Values : slots[v] # None} = HeldBefore(insts, ip)
               /\ DrawnOK(drawn, ip)
  /\ ip = 0 => outcome # "running" /\ \A v \in DOMAIN slots : slots[v] = None
  /\ outcome = "done" => DrawnOK(drawn, Len(insts) + 1)

\* Values of one owner, held together, are over one storage.
SlotsOK ==
  /\ \A v \in DOMAIN slots : slots[v] # None => SlotOK(Owner(v), slots[v])
  /\ \A u, v \in DOMAIN slots : slots[u] # None /\ slots[v] # None /\ Owner(u) = Owner(v)
                                  => slots[u] = slots[v]

WeightsOK == taken \in 0..Capacity /\ kept \in SUBSET Names /\ allowed \in Nat

IrInv == WeightsOK /\ GraphOK /\ RunsOK /\ SlotsOK /\ Used <= Room

-----------------------------------------------------------------------------
(* The smallest weights. *)

\* The weights up to one.
NoLater(n) == {m \in Names : m = n \/ Before(m, n)}

\* Weights are numbered, and there are finitely many of them.
LEMMA NamesAre ==
  /\ Names = 1..Len(BytesOf) /\ IsFiniteSet(Names) /\ \A n \in Names : n \in Nat /\ BytesOf[n] \in Nat
  /\ \A X \in SUBSET Names : Bytes(X) = SumOf(BytesOf, X) /\ IsFiniteSet(X) /\ Bytes(X) \in Nat
<1>1. Names = 1..Len(BytesOf) /\ Len(BytesOf) \in Nat /\ \A n \in Names : BytesOf[n] \in Nat
  BY WeightsAssumption DEF Names
<1>2. IsFiniteSet(Names)
  BY <1>1, FS_Interval
<1>3. ASSUME NEW X \in SUBSET Names
      PROVE Bytes(X) = SumOf(BytesOf, X) /\ IsFiniteSet(X) /\ Bytes(X) \in Nat
  <2>1. IsFiniteSet(X)
    BY <1>2, FS_Subset
  <2>2. Bytes(X) = SumOf(BytesOf, X)
    BY Zenon DEF Bytes, SumOf
  <2>3. \A n \in X : BytesOf[n] \in Nat
    BY <1>1
  <2> QED
    BY <2>1, <2>2, <2>3, SumTakes
<1> QED
  BY <1>1, <1>2, <1>3

\* The order of sizes has one way round for any two weights.
LEMMA BeforeOrders ==
  /\ \A m, n \in Names : m = n \/ Before(m, n) \/ Before(n, m)
  /\ \A m, n \in Names : Before(m, n) => ~Before(n, m) /\ m # n /\ BytesOf[m] <= BytesOf[n]
  /\ \A l, m, n \in Names : Before(l, m) /\ Before(m, n) => Before(l, n)
BY NamesAre DEF Before

\* Among some weights one is the smallest.
LEMMA FirstOf ==
  ASSUME NEW X \in SUBSET Names, X # {}
  PROVE  \E n \in X : \A m \in X : m = n \/ Before(n, m)
<1> DEFINE Q == {T \in SUBSET X : T = {} \/ \E n \in T : \A m \in T : m = n \/ Before(n, m)}
<1>1. {} \in Q
  OBVIOUS
<1>2. ASSUME NEW T \in SUBSET X, NEW x \in X \ T, T \in Q PROVE T \cup {x} \in Q
  <2>1. CASE T = {}
    BY <2>1
  <2>2. CASE \E n \in T : \A m \in T : m = n \/ Before(n, m)
    <3>1. PICK n \in T : \A m \in T : m = n \/ Before(n, m)
      BY <2>2
    <3>2. CASE Before(x, n)
      <4>1. \A m \in T \cup {x} : m = x \/ Before(x, m)
        BY <3>1, <3>2, BeforeOrders
      <4> QED
        BY <4>1
    <3>3. CASE Before(n, x)
      BY <3>1, <3>3
    <3>4. Before(x, n) \/ Before(n, x)
      BY BeforeOrders
    <3> QED
      BY <3>2, <3>3, <3>4
  <2> QED
    BY <1>2, <2>1, <2>2
<1>3. IsFiniteSet(X)
  BY NamesAre
<1> HIDE DEF Q
<1>4. X \in Q
  BY <1>1, <1>2, <1>3, Growing
<1> QED
  BY <1>4 DEF Q

\* A sum of numbers none of which is over b, and one of numbers none of which is under it.
LEMMA SumBetween ==
  ASSUME NEW S, IsFiniteSet(S), NEW F, \A x \in S : F[x] \in Nat, NEW b \in Nat
  PROVE  /\ SumOf(F, S) \in Nat /\ Cardinality(S) \in Nat
         /\ (\A x \in S : F[x] <= b) => SumOf(F, S) <= b * Cardinality(S)
         /\ (\A x \in S : b <= F[x]) => b * Cardinality(S) <= SumOf(F, S)
<1> DEFINE Q == {T \in SUBSET S : /\ (\A x \in S : F[x] <= b) => SumOf(F, T) <= b * Cardinality(T)
                                  /\ (\A x \in S : b <= F[x]) => b * Cardinality(T) <= SumOf(F, T)}
<1>1. {} \in Q
  BY SumEmpty, FS_EmptySet
<1>2. ASSUME NEW T \in SUBSET S, NEW x \in S \ T, T \in Q PROVE T \cup {x} \in Q
  <2>1. IsFiniteSet(T) /\ x \notin T /\ \A y \in T \cup {x} : F[y] \in Nat
    BY FS_Subset
  <2>2. SumOf(F, T \cup {x}) = SumOf(F, T) + F[x] /\ SumOf(F, T) \in Nat /\ F[x] \in Nat
    BY <2>1, SumAdds, SumTakes
  <2>3. Cardinality(T \cup {x}) = Cardinality(T) + 1 /\ Cardinality(T) \in Nat
    BY <2>1, FS_AddElement, FS_CardinalityType
  <2> DEFINE c == Cardinality(T)
             s == SumOf(F, T)
  <2>4. b * (c + 1) = b * c + b /\ b * c \in Nat
    BY <2>3
  <2> QED
    BY <1>2, <2>2, <2>3, <2>4
<1> HIDE DEF Q
<1>3. S \in Q
  BY <1>1, <1>2, Growing
<1> QED
  BY <1>3, SumTakes, FS_CardinalityType DEF Q

\* The smallest are all before the first that is left, and with it are too many bytes.
LEMMA SmallestAre ==
  ASSUME NEW budget \in Int, SmallestWithin(budget) # Names
  PROVE  \E n \in Names : /\ NoLater(n) = SmallestWithin(budget) \cup {n} /\ n \notin SmallestWithin(budget)
                          /\ Bytes(NoLater(n)) > budget
<1> DEFINE S == SmallestWithin(budget)
<1>1. S \in SUBSET Names /\ \A n \in Names : n \in S <=> Bytes(NoLater(n)) <= budget
  BY DEF SmallestWithin, NoLater
<1> HIDE DEF S
<1>2. PICK n \in Names \ S : \A m \in Names \ S : m = n \/ Before(n, m)
  <2>1. Names \ S # {} /\ Names \ S \in SUBSET Names
    BY <1>1 DEF S
  <2> QED
    BY <2>1, FirstOf
<1>3. \A m \in Names : NoLater(m) \in SUBSET Names /\ Bytes(NoLater(m)) \in Nat
  BY NamesAre DEF NoLater
<1>4. Bytes(NoLater(n)) > budget
  BY <1>1, <1>2, <1>3
<1>5. ASSUME NEW m \in Names, Before(m, n) PROVE m \in S
  BY <1>2, <1>5, BeforeOrders
<1>6. ASSUME NEW m \in S PROVE Before(m, n)
  <2> SUFFICES ASSUME Before(n, m) PROVE FALSE
    BY <1>1, <1>2, BeforeOrders
  <2>1. NoLater(n) \in SUBSET NoLater(m)
    BY <1>1, BeforeOrders DEF NoLater
  <2>2. Bytes(NoLater(n)) <= Bytes(NoLater(m))
    <3>1. IsFiniteSet(NoLater(m)) /\ Bytes(NoLater(m)) = SumOf(BytesOf, NoLater(m))
          /\ Bytes(NoLater(n)) = SumOf(BytesOf, NoLater(n)) /\ \A y \in NoLater(m) : BytesOf[y] \in Nat
      BY <1>1, <1>3, NamesAre
    <3> QED
      BY <2>1, <3>1, SumOfFewer
  <2>3. Bytes(NoLater(m)) <= budget
    BY <1>1
  <2> QED
    BY <1>1, <1>3, <1>4, <2>2, <2>3
<1>7. NoLater(n) = S \cup {n}
  BY <1>1, <1>5, <1>6 DEF NoLater
<1> QED
  BY <1>2, <1>4, <1>7 DEF S

\* Whatever is allowed, no choice within it is of more weights.
LEMMA SmallestAreMost ==
  ASSUME NEW budget \in Int, NEW X \in SUBSET Names, Bytes(X) <= budget
  PROVE  Cardinality(X) <= Cardinality(SmallestWithin(budget))
<1> DEFINE S == SmallestWithin(budget)
<1>1. S \in SUBSET Names /\ IsFiniteSet(S) /\ IsFiniteSet(X)
  BY NamesAre DEF SmallestWithin
<1>2. Cardinality(S) \in Nat /\ Cardinality(X) \in Nat /\ Bytes(X) \in Nat
  BY <1>1, FS_CardinalityType, NamesAre
<1>3. CASE S = Names
  BY <1>1, <1>3, FS_Subset
<1>4. CASE S # Names
  <2>1. PICK n \in Names : NoLater(n) = S \cup {n} /\ n \notin S /\ Bytes(NoLater(n)) > budget
    BY <1>4, SmallestAre
  <2> SUFFICES ASSUME Cardinality(X) > Cardinality(S) PROVE FALSE
    BY <1>2
  <2> HIDE DEF S
  <2> DEFINE U == NoLater(n)
             b == BytesOf[n]
  <2>2. U \in SUBSET Names /\ IsFiniteSet(U) /\ Bytes(U) \in Nat /\ b \in Nat
    BY NamesAre DEF NoLater
  <2>3. Cardinality(U) = Cardinality(S) + 1
    BY <1>1, <2>1, FS_AddElement
  <2>4. (\A x \in X \ U : b <= BytesOf[x]) /\ (\A x \in U \ X : BytesOf[x] <= b)
    BY BeforeOrders, NamesAre DEF NoLater
  <2> HIDE DEF U, b
  <2>5. /\ IsFiniteSet(X \ U) /\ IsFiniteSet(U \ X) /\ IsFiniteSet(X \cap U)
        /\ Cardinality(X \ U) = Cardinality(X) - Cardinality(X \cap U)
        /\ Cardinality(U \ X) = Cardinality(U) - Cardinality(X \cap U)
    <3>1. U \cap X = X \cap U
      OBVIOUS
    <3>2. Cardinality(U \ X) = Cardinality(U) - Cardinality(U \cap X)
      BY <2>2, <1>1, FS_Difference
    <3>3. Cardinality(X \ U) = Cardinality(X) - Cardinality(X \cap U)
      BY <2>2, <1>1, FS_Difference
    <3> QED
      BY <1>1, <2>2, <3>1, <3>2, <3>3, FS_Difference, FS_Intersection
  <2>6. Cardinality(U \ X) <= Cardinality(X \ U) /\ Cardinality(U \ X) \in Nat /\ Cardinality(X \ U) \in Nat
    BY <1>2, <2>3, <2>5, FS_CardinalityType
  <2>7. \A y \in Names : BytesOf[y] \in Nat
    BY NamesAre
  <2>8. SumOf(BytesOf, U \ X) <= b * Cardinality(U \ X) /\ SumOf(BytesOf, U \ X) \in Nat
    <3>1. \A y \in U \ X : BytesOf[y] \in Nat
      BY <2>2, <2>7
    <3> QED
      BY <2>2, <2>4, <2>5, <3>1, SumBetween
  <2>9. b * Cardinality(X \ U) <= SumOf(BytesOf, X \ U) /\ SumOf(BytesOf, X \ U) \in Nat
    <3>1. \A y \in X \ U : BytesOf[y] \in Nat
      BY <2>7
    <3> QED
      BY <2>2, <2>4, <2>5, <3>1, SumBetween
  <2>10. SumOf(BytesOf, U \ X) <= SumOf(BytesOf, X \ U)
    <3> DEFINE c == Cardinality(U \ X)
               d == Cardinality(X \ U)
    <3>1. c \in Nat /\ d \in Nat /\ c <= d
      BY <2>6
    <3> HIDE DEF c, d
    <3>2. b * c <= b * d /\ b * c \in Nat /\ b * d \in Nat
      BY <2>2, <3>1
    <3> QED
      BY <2>8, <2>9, <3>2 DEF c, d
  <2>11. Bytes(X) = SumOf(BytesOf, X \cap U) + SumOf(BytesOf, X \ U)
    <3>1. X = (X \cap U) \cup (X \ U) /\ (X \cap U) \cap (X \ U) = {}
          /\ \A y \in (X \cap U) \cup (X \ U) : BytesOf[y] \in Nat
      BY <2>7
    <3>2. SumOf(BytesOf, (X \cap U) \cup (X \ U)) = SumOf(BytesOf, X \cap U) + SumOf(BytesOf, X \ U)
      BY <2>5, <3>1, SumJoins
    <3> QED
      BY <3>1, <3>2, NamesAre
  <2>12. Bytes(U) = SumOf(BytesOf, X \cap U) + SumOf(BytesOf, U \ X)
    <3>1. U = (X \cap U) \cup (U \ X) /\ (X \cap U) \cap (U \ X) = {}
          /\ \A y \in (X \cap U) \cup (U \ X) : BytesOf[y] \in Nat
      BY <2>2, <2>7
    <3>2. SumOf(BytesOf, (X \cap U) \cup (U \ X)) = SumOf(BytesOf, X \cap U) + SumOf(BytesOf, U \ X)
      BY <2>5, <3>1, SumJoins
    <3> QED
      BY <2>2, <3>1, <3>2, NamesAre
  <2>13. SumOf(BytesOf, X \cap U) \in Nat
    BY <2>5, <2>7, SumTakes
  <2> QED
    BY <1>2, <2>1, <2>2, <2>8, <2>9, <2>10, <2>11, <2>12, <2>13 DEF U
<1> QED
  BY <1>3, <1>4

\* What holds of the last, and with each of the one before it, holds of all.
LEMMA Downward ==
  ASSUME NEW N \in Nat, NEW Q, N + 1 \in Q, \A v \in 1..N : v + 1 \in Q => v \in Q
  PROVE  \A v \in 1..(N + 1) : v \in Q
<1> DEFINE R == {n \in Nat : n <= N => N + 1 - n \in Q}
<1>1. 0 \in R
  OBVIOUS
<1>2. ASSUME NEW n \in Nat, n \in R PROVE n + 1 \in R
  <2> SUFFICES ASSUME n + 1 <= N PROVE N + 1 - (n + 1) \in Q
    OBVIOUS
  <2>1. N + 1 - n \in Q /\ N - n \in 1..N /\ (N - n) + 1 = N + 1 - n /\ N + 1 - (n + 1) = N - n
    BY <1>2
  <2> QED
    BY <2>1
<1> HIDE DEF R
<1>3. \A n \in Nat : n \in R
  BY <1>1, <1>2, Counting
<1>4. ASSUME NEW v \in 1..(N + 1) PROVE v \in Q
  <2>1. N + 1 - v \in Nat /\ N + 1 - v <= N /\ N + 1 - (N + 1 - v) = v
    BY <1>4
  <2> QED
    BY <1>3, <2>1 DEF R
<1> QED
  BY <1>4

-----------------------------------------------------------------------------
(* The graph. *)

\* What an operation reads was written before it, and what a run starts from reads nothing.
LEMMA OpReads ==
  ASSUME GraphOK, NEW v \in Values
  PROVE  /\ Len(nodes) \in Nat /\ v \in 1..Len(nodes) /\ nodes[v].operands \in Seq(1..(v - 1))
         /\ Operands(v) \in SUBSET (1..(v - 1)) /\ Operands(v) \in SUBSET Values
         /\ IsRoot(v) => Operands(v) = {}
         /\ nodes[v].kind \in Kinds
         /\ nodes[v].kind = "load" => nodes[v].weight \in Names /\ nodes[v].operands = <<>>
         /\ nodes[v].kind = "view" =>
              /\ nodes[v].operands[1] \in 1..(v - 1) /\ nodes[v].operands = <<nodes[v].operands[1]>>
<1> DEFINE R == [kind : Kinds, weight : Nat, operands : Seq(Nat)]
<1>1. Len(nodes) \in Nat /\ v \in 1..Len(nodes) /\ nodes[v] \in R /\ Values = 1..Len(nodes)
  <2>1. nodes \in Seq(R) /\ v \in 1..Len(nodes) /\ Values = 1..Len(nodes)
    BY Zenon DEF GraphOK, Values
  <2> HIDE DEF R
  <2> QED
    BY <2>1
<1>2. OpOK(v)
  BY DEF GraphOK
<1>3. v \in Nat /\ v >= 1
  BY <1>1
<1>4. CASE nodes[v] \in {Op("input", 0, <<>>), Op("draw", 0, <<>>)}
  <2>1. nodes[v].operands = <<>> /\ nodes[v].kind \in {"input", "draw"}
    BY <1>4 DEF Op
  <2> QED
    BY <1>1, <1>3, <2>1 DEF Operands, Range, Kinds
<1>5. CASE \E n \in Names : nodes[v] = Op("load", n, <<>>)
  <2>1. nodes[v].operands = <<>> /\ nodes[v].kind = "load" /\ nodes[v].weight \in Names
    BY <1>5 DEF Op
  <2> QED
    BY <1>1, <1>3, <2>1 DEF Operands, Range, Kinds
<1>6. CASE \E u \in 1..(v - 1) : nodes[v] = Op("view", 0, <<u>>)
  <2>1. PICK u \in 1..(v - 1) : nodes[v].operands = <<u>> /\ nodes[v].kind = "view"
    BY <1>6 DEF Op
  <2>2. <<u>> \in Seq(1..(v - 1)) /\ <<u>>[1] = u
    OBVIOUS
  <2>3. Operands(v) \in SUBSET (1..(v - 1)) /\ Operands(v) \in SUBSET Values
    BY <1>1, <1>3, <2>1, <2>2 DEF Operands, Range
  <2> QED
    BY <1>1, <2>1, <2>2, <2>3 DEF IsRoot, Kinds
<1>7. CASE \E u, w \in 1..(v - 1) : nodes[v] = Op("add", 0, <<u, w>>)
  <2>1. PICK u \in 1..(v - 1), w \in 1..(v - 1) : nodes[v].operands = <<u, w>> /\ nodes[v].kind = "add"
    BY <1>7 DEF Op
  <2>2. <<u, w>> \in Seq(1..(v - 1)) /\ <<u, w>>[1] = u /\ <<u, w>>[2] = w /\ DOMAIN <<u, w>> = {1, 2}
    OBVIOUS
  <2>3. Operands(v) \in SUBSET (1..(v - 1)) /\ Operands(v) \in SUBSET Values
    BY <1>1, <1>3, <2>1, <2>2 DEF Operands, Range
  <2> QED
    BY <1>1, <2>1, <2>2, <2>3 DEF IsRoot, Kinds
<1> QED
  BY <1>2, <1>4, <1>5, <1>6, <1>7 DEF OpOK

\* There are so many values.
LEMMA GraphSize ==
  ASSUME GraphOK
  PROVE  /\ Len(nodes) \in Nat /\ Values = 1..Len(nodes) /\ outputs \in SUBSET Values
         /\ IsFiniteSet(Values)
<1> DEFINE R == [kind : Kinds, weight : Nat, operands : Seq(Nat)]
<1>1. nodes \in Seq(R) /\ Values = 1..Len(nodes) /\ outputs \in SUBSET Values
  BY Zenon DEF GraphOK, Values
<1> HIDE DEF R
<1>2. Len(nodes) \in Nat
  BY <1>1
<1> QED
  BY <1>1, <1>2, FS_Interval

\* The pass from the back, as a function.
IsBack(g) ==
  g = [v \in 1..(Len(nodes) + 1) |->
        IF v > Len(nodes) THEN outputs
        ELSE g[v + 1] \cup (IF v \in g[v + 1] \/ IsRoot(v) THEN {v} \cup Operands(v) ELSE {})]

\* There is one: made right from the back, one value more at a time.
LEMMA BackExists ==
  ASSUME GraphOK
  PROVE  \E g : IsBack(g)
<1> DEFINE N == Len(nodes)
           Before1(s, v) == s \cup (IF v \in s \/ IsRoot(v) THEN {v} \cup Operands(v) ELSE {})
           Pass(g) == [v \in 1..(N + 1) |-> IF v > N THEN outputs ELSE Before1(g[v + 1], v)]
           Right(g, k) == \A v \in 1..(N + 1) : v >= k => g[v] = Pass(g)[v]
           Q == {k \in 1..(N + 1) : \E g : Right(g, k)}
<1>1. N \in Nat
  BY GraphSize
<1> HIDE DEF N, Before1
<1>2. N + 1 \in Q
  <2> DEFINE z == [v \in 1..(N + 1) |-> outputs]
  <2>1. Right(z, N + 1)
    BY <1>1
  <2> QED
    BY <1>1, <2>1
<1>3. ASSUME NEW k \in 1..N, k + 1 \in Q PROVE k \in Q
  <2>1. PICK g : Right(g, k + 1)
    BY <1>3
  <2>2. Right(Pass(g), k)
    <3> SUFFICES ASSUME NEW v \in 1..(N + 1), v >= k PROVE Pass(g)[v] = Pass(Pass(g))[v]
      OBVIOUS
    <3>1. CASE v > N
      BY <3>1
    <3>2. CASE ~(v > N)
      <4>1. v + 1 \in 1..(N + 1) /\ v + 1 >= k + 1
        BY <1>1, <3>2
      <4>2. g[v + 1] = Pass(g)[v + 1]
        BY <2>1, <4>1
      <4> QED
        BY <3>2, <4>1, <4>2
    <3> QED
      BY <3>1, <3>2
  <2>3. k \in 1..(N + 1)
    BY <1>1
  <2> HIDE DEF Right
  <2> QED
    BY <2>2, <2>3
<1>4. 1 \in Q
  <2> HIDE DEF Q
  <2>1. \A v \in 1..(N + 1) : v \in Q
    BY <1>1, <1>2, <1>3, Downward
  <2> QED
    BY <1>1, <2>1
<1>5. PICK g : Right(g, 1)
  BY <1>4
<1>6. IsBack(Pass(g))
  <2>1. \A v \in 1..(N + 1) : Pass(g)[v] = Pass(Pass(g))[v]
    <3> SUFFICES ASSUME NEW v \in 1..(N + 1) PROVE Pass(g)[v] = Pass(Pass(g))[v]
      OBVIOUS
    <3>1. CASE v > N
      BY <3>1
    <3>2. CASE ~(v > N)
      <4>1. v + 1 \in 1..(N + 1) /\ v + 1 >= 1
        BY <1>1, <3>2
      <4>2. g[v + 1] = Pass(g)[v + 1]
        BY <1>5, <4>1
      <4> QED
        BY <3>2, <4>1, <4>2
    <3> QED
      BY <3>1, <3>2
  <2>2. Pass(g) = Pass(Pass(g))
    BY <2>1
  <2> QED
    BY <2>2 DEF IsBack, N, Before1
<1> QED
  BY <1>6

\* What is live is wanted or read by what is live, and whatever has those two is no less.
LEMMA LiveIsClosed ==
  ASSUME GraphOK
  PROVE  /\ Live \in SUBSET Values /\ outputs \in SUBSET Live
         /\ \A v \in Values : IsRoot(v) => v \in Live
         /\ \A v \in Live : Operands(v) \in SUBSET Live
         /\ \A s \in SUBSET Values :
              /\ outputs \in SUBSET s
              /\ \A v \in Values : IsRoot(v) => v \in s
              /\ \A v \in s : Operands(v) \in SUBSET s
              => Live \in SUBSET s
<1> DEFINE N == Len(nodes)
           g == CHOOSE f : IsBack(f)
<1>1. IsBack(g)
  BY BackExists, Zenon
<1>2. Live = g[1]
  BY Zenon DEF Live, IsBack
<1> HIDE DEF g
<1>3. N \in Nat /\ Values = 1..N /\ outputs \in SUBSET Values
  BY GraphSize
<1>4. \A v \in Values : Operands(v) \in SUBSET (1..(v - 1))
  BY OpReads
<1>5. /\ g[N + 1] = outputs
      /\ \A v \in 1..N : /\ v + 1 \in 1..(N + 1)
                         /\ g[v] = g[v + 1] \cup
                                     (IF v \in g[v + 1] \/ IsRoot(v) THEN {v} \cup Operands(v) ELSE {})
  BY <1>1, <1>3 DEF IsBack
<1> HIDE DEF N
<1>6. \A u \in 1..(N + 1) : \A v \in u..(N + 1) : g[v] \in SUBSET g[u] /\ \A x \in g[u] \ g[v] : x < v
  <2> DEFINE P(u) == \A v \in u..(N + 1) : g[v] \in SUBSET g[u] /\ \A x \in g[u] \ g[v] : x < v
             Q == {u \in 1..(N + 1) : P(u)}
  <2>1. N + 1 \in Q
    BY <1>3
  <2>2. ASSUME NEW u \in 1..N, u + 1 \in Q PROVE u \in Q
    <3> SUFFICES ASSUME NEW v \in u..(N + 1)
                 PROVE  g[v] \in SUBSET g[u] /\ \A x \in g[u] \ g[v] : x < v
      <4>1. u \in 1..(N + 1)
        BY <1>3
      <4> QED
        BY <4>1
    <3>1. CASE v = u
      BY <3>1
    <3>2. CASE v # u
      <4>1. v \in (u + 1)..(N + 1) /\ v > u
        BY <1>3, <3>2
      <4>2. g[v] \in SUBSET g[u + 1] /\ \A x \in g[u + 1] \ g[v] : x < v
        BY <2>2, <4>1
      <4>3. g[u + 1] \in SUBSET g[u] /\ \A x \in g[u] \ g[u + 1] : x = u \/ x \in Operands(u)
        BY <1>5
      <4>4. \A x \in g[u] \ g[u + 1] : x < v
        BY <1>3, <1>4, <4>1, <4>3
      <4> QED
        BY <4>2, <4>3, <4>4
    <3> QED
      BY <3>1, <3>2
  <2>3. \A u \in 1..(N + 1) : u \in Q
    <3> HIDE DEF Q
    <3> QED
      BY <1>3, <2>1, <2>2, Downward
  <2> QED
    BY <2>3
<1>7. ASSUME NEW u \in 1..(N + 1) PROVE g[u] \in SUBSET g[1]
  <2>1. 1 \in 1..(N + 1) /\ u \in 1..(N + 1) /\ u \in (1)..(N + 1)
    BY <1>3
  <2> QED
    BY <1>6, <2>1
<1>8. \A v \in Values : v \in g[1] => v \in g[v]
  <2> SUFFICES ASSUME NEW v \in Values, v \in g[1], v \notin g[v] PROVE FALSE
    OBVIOUS
  <2>1. 1 \in 1..(N + 1) /\ v \in 1..(N + 1)
    BY <1>3
  <2>2. v < v
    BY <1>6, <2>1
  <2> QED
    BY <1>3, <2>2
<1>9. \A s \in SUBSET Values :
        /\ outputs \in SUBSET s
        /\ \A v \in Values : IsRoot(v) => v \in s
        /\ \A v \in s : Operands(v) \in SUBSET s
        => g[1] \in SUBSET s
  <2> SUFFICES ASSUME NEW s \in SUBSET Values, outputs \in SUBSET s,
                      \A v \in Values : IsRoot(v) => v \in s, \A v \in s : Operands(v) \in SUBSET s
               PROVE  g[1] \in SUBSET s
    OBVIOUS
  <2> DEFINE Q == {u \in 1..(N + 1) : g[u] \in SUBSET s}
  <2>1. N + 1 \in Q
    <3>1. N + 1 \in 1..(N + 1)
      BY <1>3
    <3>2. g[N + 1] \in SUBSET s
      BY <1>5
    <3> QED
      BY <3>1, <3>2
  <2>2. ASSUME NEW u \in 1..N, u + 1 \in Q PROVE u \in Q
    <3>1. u \in g[u + 1] \/ IsRoot(u) => u \in s
      BY <1>3, <2>2
    <3> QED
      BY <1>3, <1>5, <2>2, <3>1
  <2>3. \A u \in 1..(N + 1) : u \in Q
    <3> HIDE DEF Q
    <3> QED
      BY <1>3, <2>1, <2>2, Downward
  <2> QED
    BY <1>3, <2>3
<1>10. g[1] \in SUBSET Values
  <2>1. \A v \in Values : Operands(v) \in SUBSET Values
    BY OpReads
  <2> QED
    BY <1>3, <1>9, <2>1
<1>11. outputs \in SUBSET g[1]
  <2>1. N + 1 \in 1..(N + 1)
    BY <1>3
  <2> QED
    BY <1>5, <1>7, <2>1
<1>12. ASSUME NEW v \in Values, IsRoot(v) PROVE v \in g[1]
  <2>1. v \in g[v] /\ v \in 1..(N + 1)
    BY <1>3, <1>5, <1>12
  <2> QED
    BY <1>7, <2>1
<1>13. ASSUME NEW v \in g[1] PROVE Operands(v) \in SUBSET g[1]
  <2>1. v \in Values /\ v \in 1..N /\ v \in 1..(N + 1) /\ v \in g[v]
    BY <1>3, <1>8, <1>10
  <2>2. v \notin Operands(v)
    BY <1>3, <1>4, <2>1
  <2>3. v \in g[v + 1] \/ IsRoot(v)
    BY <1>5, <2>1, <2>2
  <2>4. Operands(v) \in SUBSET g[v]
    BY <1>5, <2>1, <2>3
  <2> QED
    BY <1>7, <2>1, <2>4
<1> QED
  BY <1>2, <1>9, <1>10, <1>11, <1>12, <1>13

\* The pass from the back finds what is needed, and nothing else.
LEMMA LiveNeeded ==
  ASSUME GraphOK
  PROVE  Live = Needed
<1>1. ASSUME NEW v \in Live PROVE v \in Needed
  <2>1. v \in Values
    BY LiveIsClosed
  <2>2. \A s \in SUBSET Values : outputs \cup {u \in Values : IsRoot(u)} \subseteq s
                                 /\ (\A u \in s : Operands(u) \subseteq s) => v \in s
    BY LiveIsClosed
  <2> QED
    BY <2>1, <2>2 DEF Needed
<1>2. ASSUME NEW v \in Needed PROVE v \in Live
  <2>1. Live \in SUBSET Values /\ outputs \cup {u \in Values : IsRoot(u)} \subseteq Live
        /\ \A u \in Live : Operands(u) \subseteq Live
    BY LiveIsClosed
  <2> QED
    BY <2>1 DEF Needed
<1> QED
  BY <1>1, <1>2

-----------------------------------------------------------------------------
(* Reads. *)

TimesRead(v) ==
  [r \in Values |-> Cardinality({i \in DOMAIN nodes[r].operands : nodes[r].operands[i] = v})]

\* What is counted of the reads of a value is a sum; one reader may be taken out of it; and it is
\* nothing only where nobody reads it.
LEMMA ReadsAre ==
  ASSUME GraphOK, NEW v \in Values, NEW R \in SUBSET Values
  PROVE  /\ ReadsOf(v, R) \in Nat
         /\ \A r \in R : TimesRead(v)[r] \in Nat /\ (TimesRead(v)[r] > 0 <=> v \in Operands(r))
         /\ \A r \in R : ReadsOf(v, R) = TimesRead(v)[r] + ReadsOf(v, R \ {r})
         /\ ReadsOf(v, R) > 0 <=> \E r \in R : v \in Operands(r)
<1> DEFINE F == TimesRead(v)
<1>1. ASSUME NEW r \in Values PROVE F[r] \in Nat /\ (F[r] > 0 <=> v \in Operands(r))
  <2> DEFINE ops == nodes[r].operands
             I == {i \in DOMAIN ops : ops[i] = v}
  <2>1. ops \in Seq(1..(r - 1))
    BY OpReads
  <2>2. Len(ops) \in Nat /\ DOMAIN ops = 1..Len(ops)
    BY <2>1
  <2>3. IsFiniteSet(I) /\ Cardinality(I) \in Nat
    <3>1. IsFiniteSet(DOMAIN ops) /\ I \in SUBSET (DOMAIN ops)
      BY <2>2, FS_Interval
    <3> HIDE DEF I, ops
    <3> QED
      BY <3>1, FS_Subset, FS_CardinalityType
  <2>4. Cardinality(I) = 0 <=> I = {}
    BY <2>3, FS_EmptySet
  <2>5. I # {} <=> v \in Operands(r)
    BY DEF Operands, Range
  <2>6. F[r] = Cardinality(I)
    BY DEF TimesRead
  <2> HIDE DEF I, F
  <2> QED
    BY <2>3, <2>4, <2>5, <2>6
<1>2. ASSUME NEW S \in SUBSET Values PROVE IsFiniteSet(S) /\ ReadsOf(v, S) = SumOf(F, S)
  <2>1. IsFiniteSet(S)
    BY GraphSize, FS_Subset
  <2> DEFINE P(g) == g = [s \in SUBSET S |->
                            IF s = {} THEN 0
                            ELSE Cardinality({i \in DOMAIN nodes[CHOOSE x \in s : TRUE].operands :
                                                nodes[CHOOSE x \in s : TRUE].operands[i] = v})
                                   + g[s \ {CHOOSE x \in s : TRUE}]]
             g == CHOOSE f : P(f)
  <2>2. \A f : P(f) <=> IsSums(f, F, S)
    <3> SUFFICES ASSUME NEW f PROVE P(f) <=> IsSums(f, F, S)
      OBVIOUS
    <3>1. ASSUME NEW s \in SUBSET S, s # {}
          PROVE  F[CHOOSE x \in s : TRUE]
                   = Cardinality({i \in DOMAIN nodes[CHOOSE x \in s : TRUE].operands :
                                    nodes[CHOOSE x \in s : TRUE].operands[i] = v})
      <4>1. (CHOOSE x \in s : TRUE) \in s
        BY <3>1, Zenon
      <4> DEFINE c == CHOOSE x \in s : TRUE
      <4>2. c \in Values
        BY <4>1
      <4> HIDE DEF c
      <4>3. F[c] = Cardinality({i \in DOMAIN nodes[c].operands : nodes[c].operands[i] = v})
        BY <4>2 DEF TimesRead
      <4> QED
        BY <4>3 DEF c
    <3> DEFINE G(s) == IF s = {} THEN 0
                       ELSE Cardinality({i \in DOMAIN nodes[CHOOSE x \in s : TRUE].operands :
                                           nodes[CHOOSE x \in s : TRUE].operands[i] = v})
                              + f[s \ {CHOOSE x \in s : TRUE}]
               H(s) == IF s = {} THEN 0
                       ELSE F[CHOOSE x \in s : TRUE] + f[s \ {CHOOSE x \in s : TRUE}]
    <3>2. \A s \in SUBSET S : G(s) = H(s)
      <4> SUFFICES ASSUME NEW s \in SUBSET S PROVE G(s) = H(s)
        OBVIOUS
      <4> HIDE DEF F
      <4> QED
        BY <3>1
    <3> HIDE DEF G, H
    <3>3. [s \in SUBSET S |-> G(s)] = [s \in SUBSET S |-> H(s)]
      BY <3>2
    <3>4. P(f) <=> f = [s \in SUBSET S |-> G(s)]
      BY Zenon DEF G
    <3>5. IsSums(f, F, S) <=> f = [s \in SUBSET S |-> H(s)]
      BY Zenon DEF IsSums, H
    <3> QED
      BY <3>3, <3>4, <3>5
  <2>3. \E f : IsSums(f, F, S)
    BY <2>1, SumsExist
  <2>4. P(g)
    <3> HIDE DEF P
    <3>1. \E f : P(f)
      BY <2>2, <2>3
    <3> QED
      BY <3>1, Zenon
  <2>5. ReadsOf(v, S) = g[S]
    BY Zenon DEF ReadsOf, MapThenSumSet, MapThenFoldSet
  <2> HIDE DEF g, P
  <2>6. PICK h : IsSums(h, F, S) /\ SumOf(F, S) = h[S]
    BY <2>1, SumIs
  <2>7. IsSums(g, F, S) /\ S \in SUBSET S /\ \A x \in S : F[x] \in Nat
    BY <2>2, <2>4, <1>1
  <2> HIDE DEF F
  <2>8. g[S] = h[S]
    BY <2>1, <2>6, <2>7, SumsAgree
  <2> QED
    BY <2>1, <2>5, <2>6, <2>8
<1> HIDE DEF F
<1>3. ReadsOf(v, R) \in Nat /\ \A r \in R : ReadsOf(v, R) = F[r] + ReadsOf(v, R \ {r})
  <2>1. \A r \in R : F[r] \in Nat
    BY <1>1
  <2>2. IsFiniteSet(R) /\ ReadsOf(v, R) = SumOf(F, R)
    BY <1>2
  <2>3. \A r \in R : ReadsOf(v, R \ {r}) = SumOf(F, R \ {r})
    BY <1>2
  <2> QED
    BY <2>1, <2>2, <2>3, SumTakes
<1>4. ASSUME NEW r \in R, v \in Operands(r) PROVE ReadsOf(v, R) > 0
  <2>1. ReadsOf(v, R \ {r}) \in Nat
    <3>1. IsFiniteSet(R \ {r}) /\ ReadsOf(v, R \ {r}) = SumOf(F, R \ {r})
          /\ \A x \in R \ {r} : F[x] \in Nat
      BY <1>1, <1>2
    <3> QED
      BY <3>1, SumTakes
  <2>2. F[r] \in Nat /\ F[r] > 0 /\ ReadsOf(v, R) = F[r] + ReadsOf(v, R \ {r})
    BY <1>1, <1>3, <1>4
  <2> QED
    BY <2>1, <2>2
<1>5. ASSUME \A r \in R : v \notin Operands(r) PROVE ReadsOf(v, R) = 0
  <2>1. \A r \in R : F[r] = 0
    BY <1>1, <1>5
  <2> QED
    BY <1>2, <2>1, SumOfNothing
<1> QED
  BY <1>1, <1>3, <1>4, <1>5 DEF F

-----------------------------------------------------------------------------
(* What FoldLeft comes to. *)

Codes == [insts : Seq(Insts), remaining : [Values -> Int]]

\* What is folded, and by what: C says which is taken last.
Foldable(S, R, base, Do, C) ==
  /\ IsFiniteSet(S) /\ base \in R /\ Do \in [S \X R -> R]
  /\ \A s \in SUBSET S : s # {} => C[s] \in s

Folds(g, S, R, base, Do, C) ==
  /\ g \in [SUBSET S -> R]
  /\ \A s \in SUBSET S : g[s] = IF s = {} THEN base ELSE Do[<<C[s], g[s \ {C[s]}]>>]

\* A fold of a function that keeps to a set is a function of the subsets folded over.
LEMMA FoldsExist ==
  ASSUME NEW S, NEW R, NEW base, NEW Do, NEW C, Foldable(S, R, base, Do, C)
  PROVE  \E g : Folds(g, S, R, base, Do, C)
<1> USE DEF Foldable
<1> DEFINE Then(g) == [s \in SUBSET S |-> IF s = {} THEN base ELSE Do[<<C[s], g[s \ {C[s]}]>>]]
           Upto(g, n) == \A s \in SUBSET S : Cardinality(s) <= n => g[s] = Then(g)[s]
           Q == {n \in Nat : \E g \in [SUBSET S -> R] : Upto(g, n)}
<1>1. \A s \in SUBSET S : /\ IsFiniteSet(s) /\ Cardinality(s) \in Nat
                          /\ s # {} => /\ s \ {C[s]} \in SUBSET S /\ C[s] \in S
                                       /\ Cardinality(s \ {C[s]}) = Cardinality(s) - 1
  <2> SUFFICES ASSUME NEW s \in SUBSET S
               PROVE  /\ IsFiniteSet(s) /\ Cardinality(s) \in Nat
                      /\ s # {} => /\ s \ {C[s]} \in SUBSET S /\ C[s] \in S
                                   /\ Cardinality(s \ {C[s]}) = Cardinality(s) - 1
    OBVIOUS
  <2>1. IsFiniteSet(s) /\ Cardinality(s) \in Nat
    BY FS_Subset, FS_CardinalityType
  <2>2. s # {} => C[s] \in s
    OBVIOUS
  <2> QED
    BY <2>1, <2>2, FS_RemoveElement
<1>2. \A s \in SUBSET S : Cardinality(s) <= 0 => s = {}
  <2> SUFFICES ASSUME NEW s \in SUBSET S, Cardinality(s) <= 0 PROVE s = {}
    OBVIOUS
  <2>1. Cardinality(s) \in Nat /\ IsFiniteSet(s)
    BY <1>1
  <2>2. Cardinality(s) = 0
    BY <2>1
  <2> QED
    BY <2>1, <2>2, FS_EmptySet
<1>3. ASSUME NEW g \in [SUBSET S -> R] PROVE Then(g) \in [SUBSET S -> R]
  <2>1. ASSUME NEW s \in SUBSET S, s # {} PROVE Do[<<C[s], g[s \ {C[s]}]>>] \in R
    <3>1. g[s \ {C[s]}] \in R /\ C[s] \in S
      BY <1>1, <1>3, <2>1
    <3> QED
      BY <3>1
  <2> QED
    BY <2>1
<1>4. 0 \in Q
  <2> DEFINE z == [s \in SUBSET S |-> base]
  <2>1. Upto(z, 0) /\ z \in [SUBSET S -> R]
    BY <1>2
  <2> HIDE DEF Upto, z
  <2> QED
    BY <2>1
<1>5. ASSUME NEW n \in Nat, n \in Q PROVE n + 1 \in Q
  <2>1. PICK g \in [SUBSET S -> R] : Upto(g, n)
    BY <1>5
  <2>2. Upto(Then(g), n + 1)
    <3> SUFFICES ASSUME NEW s \in SUBSET S, Cardinality(s) <= n + 1
                 PROVE  Then(g)[s] = Then(Then(g))[s]
      OBVIOUS
    <3>1. CASE s = {}
      BY <3>1
    <3>2. CASE s # {}
      <4> DEFINE u == s \ {C[s]}
      <4>1. u \in SUBSET S /\ Cardinality(u) <= n
        <5>1. Cardinality(u) = Cardinality(s) - 1 /\ u \in SUBSET S /\ Cardinality(s) \in Nat
          BY <1>1, <3>2
        <5> HIDE DEF u
        <5> QED
          BY <5>1
      <4>2. g[u] = Then(g)[u]
        BY <2>1, <4>1
      <4> QED
        BY <3>2, <4>1, <4>2
    <3> QED
      BY <3>1, <3>2
  <2>3. Then(g) \in [SUBSET S -> R]
    BY <1>3
  <2> DEFINE h == Then(g)
  <2>4. h \in [SUBSET S -> R] /\ Upto(h, n + 1)
    BY <2>2, <2>3
  <2> HIDE DEF Upto, h
  <2> QED
    BY <2>4
<1>6. \A n \in Nat : n \in Q
  <2> HIDE DEF Q
  <2> QED
    BY <1>4, <1>5, Counting
<1>7. PICK g \in [SUBSET S -> R] : Upto(g, Cardinality(S))
  BY <1>1, <1>6
<1>8. \A s \in SUBSET S : g[s] = Then(g)[s]
  BY <1>7, FS_Subset
<1> QED
  BY <1>8 DEF Folds

\* The largest of some numbers is one of them; of the first ones, the last.
LEMMA Largests ==
  ASSUME NEW n \in Nat
  PROVE  /\ \A s \in SUBSET (1..n) : s # {} => Max(s) \in s
         /\ \A i \in 1..n : Max(1..i) = i /\ 1..i # {} /\ (1..i) \ {i} = 1..(i - 1)
<1> DEFINE Q == {s \in SUBSET (1..n) : s = {} \/ \E x \in s : \A y \in s : x >= y}
<1>1. ASSUME NEW s \in SUBSET (1..n), s # {} PROVE \E x \in s : \A y \in s : x >= y
  <2> DEFINE P == {T \in SUBSET s : T = {} \/ \E x \in T : \A y \in T : x >= y}
  <2>1. {} \in P
    OBVIOUS
  <2>2. ASSUME NEW T \in SUBSET s, NEW x \in s \ T, T \in P PROVE T \cup {x} \in P
    <3>1. CASE T = {}
      BY <3>1
    <3>2. CASE T # {}
      <4>1. PICK z \in T : \A y \in T : z >= y
        BY <2>2, <3>2
      <4>2. z \in Nat /\ x \in Nat /\ \A y \in T : y \in Nat
        OBVIOUS
      <4>3. CASE x >= z
        <5>1. \A y \in T \cup {x} : x >= y
          BY <4>1, <4>2, <4>3
        <5> QED
          BY <5>1
      <4>4. CASE ~(x >= z)
        <5>1. \A y \in T \cup {x} : z >= y
          BY <4>1, <4>2, <4>4
        <5> QED
          BY <5>1
      <4> QED
        BY <4>3, <4>4
    <3> QED
      BY <3>1, <3>2
  <2>3. IsFiniteSet(s)
    <3>1. IsFiniteSet(1..n)
      BY FS_Interval
    <3> QED
      BY <3>1, FS_Subset
  <2> HIDE DEF P
  <2>4. s \in P
    BY <2>1, <2>2, <2>3, Growing
  <2> QED
    BY <1>1, <2>4 DEF P
<1>2. ASSUME NEW s \in SUBSET (1..n), s # {} PROVE Max(s) \in s /\ \A y \in s : Max(s) >= y
  BY <1>1, <1>2, Zenon DEF Max
<1>3. ASSUME NEW i \in 1..n PROVE Max(1..i) = i /\ 1..i # {} /\ (1..i) \ {i} = 1..(i - 1)
  <2>1. 1..i \in SUBSET (1..n) /\ i \in 1..i /\ 1..i # {}
    OBVIOUS
  <2>2. Max(1..i) \in 1..i /\ Max(1..i) >= i
    BY <1>2, <2>1
  <2>3. Max(1..i) = i
    BY <2>2
  <2> QED
    BY <2>1, <2>3
<1> QED
  BY <1>2, <1>3

\* The operands of a value, taken one after another.
LEMMA TakenFolds ==
  ASSUME GraphOK, NEW ran \in Codes, NEW seq \in Seq(Values),
         \A code \in Codes : \A u \in Values : Taken(code, u) \in Codes
  PROVE  \E h \in [0..Len(seq) -> Codes] :
           /\ h[0] = ran /\ FoldLeft(Taken, ran, seq) = h[Len(seq)]
           /\ \A i \in 1..Len(seq) : h[i] = Taken(h[i - 1], seq[i])
<1> DEFINE n == Len(seq)
           D == DOMAIN seq
           C == [s \in SUBSET D |-> Max(s)]
           Do == [x \in D \X Codes |-> Taken(x[2], seq[x[1]])]
           P(f) == f = [s \in SUBSET D |-> IF s = {} THEN ran ELSE Taken(f[s \ {Max(s)}], seq[Max(s)])]
           g == CHOOSE f : P(f)
<1>1. n \in Nat /\ D = 1..n /\ \A i \in D : seq[i] \in Values
  OBVIOUS
<1>2. IsFiniteSet(D) /\ \A s \in SUBSET D : s # {} => Max(s) \in s
  <2>1. IsFiniteSet(D)
    BY <1>1, FS_Interval
  <2>2. \A s \in SUBSET (1..n) : s # {} => Max(s) \in s
    BY <1>1, Largests
  <2> QED
    BY <1>1, <2>1, <2>2
<1>3. \E f \in [SUBSET D -> Codes] : P(f)
  <2>1. Do \in [D \X Codes -> Codes]
    BY <1>1
  <2>2. \A s \in SUBSET D : s # {} => C[s] \in s
    BY <1>2
  <2> HIDE DEF Do, C, D
  <2>3. PICK f : Folds(f, D, Codes, ran, Do, C)
    <3>1. Foldable(D, Codes, ran, Do, C)
      BY <1>2, <2>1, <2>2 DEF Foldable
    <3> QED
      BY <3>1, FoldsExist
  <2>4. ASSUME NEW s \in SUBSET D
        PROVE  f[s] = IF s = {} THEN ran ELSE Taken(f[s \ {Max(s)}], seq[Max(s)])
    <3>1. CASE s = {}
      BY <2>3, <3>1 DEF Folds
    <3>2. CASE s # {}
      <4> DEFINE m == Max(s)
      <4>1. C[s] = m /\ m \in s
        BY <1>2, <3>2 DEF C
      <4> HIDE DEF m
      <4>2. f[s \ {m}] \in Codes /\ m \in D /\ s \ {m} \in SUBSET D
        BY <2>3, <4>1 DEF Folds
      <4>3. Do[<<m, f[s \ {m}]>>] = Taken(f[s \ {m}], seq[m])
        BY <4>2 DEF Do
      <4>4. f[s] = Do[<<m, f[s \ {m}]>>]
        BY <2>3, <3>2, <4>1 DEF Folds
      <4> QED
        BY <3>2, <4>3, <4>4 DEF m
    <3> QED
      BY <3>1, <3>2
  <2>5. P(f) /\ f \in [SUBSET D -> Codes]
    BY <2>3, <2>4 DEF Folds
  <2> HIDE DEF P
  <2> QED
    BY <2>5
<1>4. P(g)
  <2> HIDE DEF P
  <2>1. \E f : P(f)
    BY <1>3
  <2> QED
    BY <2>1, Zenon
<1>5. FoldLeft(Taken, ran, seq) = g[D]
  BY Zenon DEF FoldLeft, MapThenFoldSet
<1> HIDE DEF g
<1>6. g[{}] = ran /\ \A s \in SUBSET D : s # {} => g[s] = Taken(g[s \ {Max(s)}], seq[Max(s)])
  BY <1>4
<1> HIDE DEF P, D
<1> DEFINE h == [i \in 0..n |-> g[1..i]]
<1>7. h[0] = ran
  <2>1. 1..0 = {} /\ 0 \in 0..n
    BY <1>1
  <2> QED
    BY <1>6, <2>1
<1>8. ASSUME NEW i \in 1..n PROVE h[i] = Taken(h[i - 1], seq[i])
  <2>1. 1..i \in SUBSET D /\ i \in 0..n /\ i - 1 \in 0..n
    BY <1>1
  <2>2. Max(1..i) = i /\ 1..i # {} /\ (1..i) \ {i} = 1..(i - 1)
    BY <1>1, Largests
  <2>3. g[1..i] = Taken(g[(1..i) \ {Max(1..i)}], seq[Max(1..i)])
    BY <1>6, <2>1, <2>2
  <2>4. g[1..i] = Taken(g[1..(i - 1)], seq[i])
    BY <2>2, <2>3
  <2> QED
    BY <2>1, <2>4
<1>9. h[n] = g[D]
  BY <1>1
<1> HIDE DEF h
<1>10. \A i \in 0..n : h[i] \in Codes
  <2> DEFINE Q == {i \in Nat : i <= n => h[i] \in Codes}
  <2>1. 0 \in Q
    BY <1>7
  <2>2. ASSUME NEW i \in Nat, i \in Q PROVE i + 1 \in Q
    <3> SUFFICES ASSUME i + 1 <= n PROVE h[i + 1] \in Codes
      OBVIOUS
    <3>1. h[i] \in Codes /\ i + 1 \in 1..n /\ (i + 1) - 1 = i
      BY <1>1, <2>2
    <3>2. h[i + 1] = Taken(h[i], seq[i + 1]) /\ seq[i + 1] \in Values
      BY <1>1, <1>8, <3>1
    <3> QED
      BY <3>1, <3>2
  <2> HIDE DEF Q
  <2>3. \A i \in Nat : i \in Q
    BY <2>1, <2>2, Counting
  <2> QED
    BY <1>1, <2>3 DEF Q
<1>11. h = [i \in 0..n |-> h[i]]
  BY DEF h
<1>12. h \in [0..n -> Codes]
  BY <1>10, <1>11
<1> QED
  BY <1>5, <1>7, <1>8, <1>9, <1>12

\* The values of a graph, emitted one after another.
LEMMA EmittedFolds ==
  ASSUME GraphOK, NEW base \in Codes,
         \A code \in Codes : \A v \in Values : Emitted(code, v) \in Codes
  PROVE  \E h \in [0..Len(nodes) -> Codes] :
           /\ h[0] = base /\ FoldLeft(Emitted, base, [v \in Values |-> v]) = h[Len(nodes)]
           /\ \A v \in 1..Len(nodes) : h[v] = Emitted(h[v - 1], v)
<1> DEFINE n == Len(nodes)
           seq == [v \in Values |-> v]
           D == DOMAIN seq
           C == [s \in SUBSET D |-> Max(s)]
           Do == [x \in D \X Codes |-> Emitted(x[2], seq[x[1]])]
           P(f) == f = [s \in SUBSET D |-> IF s = {} THEN base ELSE Emitted(f[s \ {Max(s)}], seq[Max(s)])]
           g == CHOOSE f : P(f)
<1>1. n \in Nat /\ D = 1..n /\ D = Values /\ \A i \in D : seq[i] = i /\ seq[i] \in Values
  BY GraphSize
<1> HIDE DEF seq
<1>2. IsFiniteSet(D) /\ \A s \in SUBSET D : s # {} => Max(s) \in s
  <2>1. IsFiniteSet(D)
    BY <1>1, FS_Interval
  <2>2. \A s \in SUBSET (1..n) : s # {} => Max(s) \in s
    BY <1>1, Largests
  <2> QED
    BY <1>1, <2>1, <2>2
<1>3. \E f \in [SUBSET D -> Codes] : P(f)
  <2>1. Do \in [D \X Codes -> Codes]
    BY <1>1
  <2>2. \A s \in SUBSET D : s # {} => C[s] \in s
    BY <1>2
  <2> HIDE DEF Do, C, D
  <2>3. PICK f : Folds(f, D, Codes, base, Do, C)
    <3>1. Foldable(D, Codes, base, Do, C)
      BY <1>2, <2>1, <2>2 DEF Foldable
    <3> QED
      BY <3>1, FoldsExist
  <2>4. ASSUME NEW s \in SUBSET D
        PROVE  f[s] = IF s = {} THEN base ELSE Emitted(f[s \ {Max(s)}], seq[Max(s)])
    <3>1. CASE s = {}
      BY <2>3, <3>1 DEF Folds
    <3>2. CASE s # {}
      <4> DEFINE m == Max(s)
      <4>1. C[s] = m /\ m \in s
        BY <1>2, <3>2 DEF C
      <4> HIDE DEF m
      <4>2. f[s \ {m}] \in Codes /\ m \in D /\ s \ {m} \in SUBSET D
        BY <2>3, <4>1 DEF Folds
      <4>3. Do[<<m, f[s \ {m}]>>] = Emitted(f[s \ {m}], seq[m])
        BY <4>2 DEF Do
      <4>4. f[s] = Do[<<m, f[s \ {m}]>>]
        BY <2>3, <3>2, <4>1 DEF Folds
      <4> QED
        BY <3>2, <4>3, <4>4 DEF m
    <3> QED
      BY <3>1, <3>2
  <2>5. P(f) /\ f \in [SUBSET D -> Codes]
    BY <2>3, <2>4 DEF Folds
  <2> HIDE DEF P
  <2> QED
    BY <2>5
<1>4. P(g)
  <2> HIDE DEF P
  <2>1. \E f : P(f)
    BY <1>3
  <2> QED
    BY <2>1, Zenon
<1>5. FoldLeft(Emitted, base, seq) = g[D]
  BY Zenon DEF FoldLeft, MapThenFoldSet
<1> HIDE DEF g
<1>6. g[{}] = base /\ \A s \in SUBSET D : s # {} => g[s] = Emitted(g[s \ {Max(s)}], seq[Max(s)])
  BY <1>4
<1> HIDE DEF P, D
<1> DEFINE h == [i \in 0..n |-> g[1..i]]
<1>7. h[0] = base
  <2>1. 1..0 = {} /\ 0 \in 0..n
    BY <1>1
  <2> QED
    BY <1>6, <2>1
<1>8. ASSUME NEW i \in 1..n PROVE h[i] = Emitted(h[i - 1], i)
  <2>1. 1..i \in SUBSET D /\ i \in 0..n /\ i - 1 \in 0..n /\ seq[i] = i
    BY <1>1
  <2>2. Max(1..i) = i /\ 1..i # {} /\ (1..i) \ {i} = 1..(i - 1)
    BY <1>1, Largests
  <2>3. g[1..i] = Emitted(g[(1..i) \ {Max(1..i)}], seq[Max(1..i)])
    BY <1>6, <2>1, <2>2
  <2>4. g[1..i] = Emitted(g[1..(i - 1)], i)
    BY <2>1, <2>2, <2>3
  <2> QED
    BY <2>1, <2>4
<1>9. h[n] = g[D]
  BY <1>1
<1> HIDE DEF h
<1>10. \A i \in 0..n : h[i] \in Codes
  <2> DEFINE Q == {i \in Nat : i <= n => h[i] \in Codes}
  <2>1. 0 \in Q
    BY <1>7
  <2>2. ASSUME NEW i \in Nat, i \in Q PROVE i + 1 \in Q
    <3> SUFFICES ASSUME i + 1 <= n PROVE h[i + 1] \in Codes
      OBVIOUS
    <3>1. h[i] \in Codes /\ i + 1 \in 1..n /\ (i + 1) - 1 = i /\ i + 1 \in Values
      BY <1>1, <2>2
    <3>2. h[i + 1] = Emitted(h[i], i + 1)
      BY <1>8, <3>1
    <3> QED
      BY <3>1, <3>2
  <2> HIDE DEF Q
  <2>3. \A i \in Nat : i \in Q
    BY <2>1, <2>2, Counting
  <2> QED
    BY <1>1, <2>3 DEF Q
<1>11. h = [i \in 0..n |-> h[i]]
  BY DEF h
<1>12. h \in [0..n -> Codes]
  BY <1>10, <1>11
<1> QED
  BY <1>5, <1>7, <1>8, <1>9, <1>12 DEF seq

-----------------------------------------------------------------------------
(* Instructions. *)

\* t is s with x at its end.
Appended(s, x, t) ==
  /\ t \in Seq(Insts) /\ Len(s) \in Nat /\ Len(t) = Len(s) + 1 /\ t[Len(s) + 1] = x
  /\ DOMAIN s = 1..Len(s) /\ DOMAIN t = 1..(Len(s) + 1)
  /\ \A p \in 1..Len(s) : t[p] = s[p]
  /\ \A p \in 1..(Len(s) + 1) : /\ RunBy(t, p) = RunBy(s, p) /\ FreedBy(t, p) = FreedBy(s, p)
                                /\ HeldBefore(t, p) = HeldBefore(s, p)
  /\ RunBy(t, Len(t) + 1) = RunBy(s, Len(s) + 1) \cup {v \in Values : x = Run(v)}
  /\ FreedBy(t, Len(t) + 1) = FreedBy(s, Len(s) + 1) \cup {v \in Values : x = Free(v)}

\* One instruction more leaves those before it as they are.
LEMMA Appends ==
  ASSUME NEW s \in Seq(Insts), NEW x \in Insts
  PROVE  Appended(s, x, Append(s, x))
<1> DEFINE t == Append(s, x)
<1> DEFINE I == Insts
<1>1. s \in Seq(I) /\ x \in I /\ t = Append(s, x)
  OBVIOUS
<1> HIDE DEF I, t
<1>2. /\ t \in Seq(I) /\ Len(s) \in Nat /\ Len(t) = Len(s) + 1 /\ t[Len(s) + 1] = x
      /\ DOMAIN s = 1..Len(s) /\ DOMAIN t = 1..(Len(s) + 1) /\ \A p \in 1..Len(s) : t[p] = s[p]
  BY <1>1
<1>3. ASSUME NEW p \in 1..(Len(s) + 1)
      PROVE  /\ RunBy(t, p) = RunBy(s, p) /\ FreedBy(t, p) = FreedBy(s, p)
             /\ HeldBefore(t, p) = HeldBefore(s, p)
  <2>1. \A i \in 1..(p - 1) : t[i] = s[i]
    BY <1>2
  <2> QED
    BY <2>1 DEF RunBy, FreedBy, HeldBefore
<1>4. 1..((Len(t) + 1) - 1) = 1..((Len(s) + 1) - 1) \cup {Len(s) + 1}
  BY <1>2
<1>5. \A i \in 1..((Len(s) + 1) - 1) : t[i] = s[i]
  BY <1>2
<1>6. RunBy(t, Len(t) + 1) = RunBy(s, Len(s) + 1) \cup {v \in Values : x = Run(v)}
  BY <1>2, <1>4, <1>5 DEF RunBy
<1>7. FreedBy(t, Len(t) + 1) = FreedBy(s, Len(s) + 1) \cup {v \in Values : x = Free(v)}
  BY <1>2, <1>4, <1>5 DEF FreedBy
<1> QED
  BY <1>2, <1>3, <1>6, <1>7 DEF I, Appended, t

\* Code that is right stays so where a value is run at its turn.
LEMMA RunAppended ==
  ASSUME GraphOK, NEW s \in Seq(Insts), CodeRight(s), NEW v \in Live,
         HeldBefore(s, Len(s) + 1) = ReadLater(v), RunBy(s, Len(s) + 1) = {u \in Live : u < v},
         v \notin FreedBy(s, Len(s) + 1), NEW t, t = Append(s, Run(v))
  PROVE  /\ t \in Seq(Insts) /\ CodeRight(t) /\ RunBy(t, Len(t) + 1) = {u \in Live : u <= v}
         /\ HeldBefore(t, Len(t) + 1) = ReadLater(v) \cup {v}
         /\ FreedBy(t, Len(t) + 1) = FreedBy(s, Len(s) + 1)
<1>1. v \in Values /\ v \in Nat /\ \A u \in Live : u \in Nat /\ u \in Values
  BY LiveIsClosed, GraphSize
<1> DEFINE x == Run(v)
<1>2. x \in Insts /\ x.inst = "run" /\ x.value = v
  BY <1>1 DEF Insts, Run
<1>3. {u \in Values : x = Run(u)} = {v} /\ {u \in Values : x = Free(u)} = {}
  BY <1>1 DEF Run, Free
<1> HIDE DEF x
<1>4. t = Append(s, x)
  BY DEF x
<1>5. Appended(s, x, t)
  BY <1>2, <1>4, Appends
<1>6. RunBy(t, Len(t) + 1) = {u \in Live : u <= v}
  <2>1. RunBy(t, Len(t) + 1) = {u \in Live : u < v} \cup {v}
    BY <1>3, <1>5 DEF Appended
  <2>2. \A u \in Live : u <= v <=> (u < v \/ u = v)
    BY <1>1
  <2> QED
    BY <2>1, <2>2
<1>7. FreedBy(t, Len(t) + 1) = FreedBy(s, Len(s) + 1)
  BY <1>3, <1>5 DEF Appended
<1>8. HeldBefore(t, Len(t) + 1) = ReadLater(v) \cup {v}
  <2>1. HeldBefore(s, Len(s) + 1) = RunBy(s, Len(s) + 1) \ FreedBy(s, Len(s) + 1)
    BY DEF HeldBefore
  <2>2. RunBy(t, Len(t) + 1) = RunBy(s, Len(s) + 1) \cup {v}
    BY <1>3, <1>5 DEF Appended
  <2> QED
    BY <1>7, <2>1, <2>2 DEF HeldBefore
<1>9. ASSUME NEW p \in DOMAIN t
      PROVE  t[p].value \in Values /\ (t[p].inst = "run" => RunOK(t, p))
  <2>1. CASE p \in 1..Len(s)
    <3>1. t[p] = s[p] /\ p \in DOMAIN s /\ p \in 1..(Len(s) + 1)
      BY <1>5, <2>1 DEF Appended
    <3>2. s[p].value \in Values /\ (s[p].inst = "run" => RunOK(s, p))
      BY <3>1 DEF CodeRight
    <3> QED
      BY <1>5, <3>1, <3>2 DEF RunOK, Appended
  <2>2. CASE p = Len(s) + 1
    <3>1. p \in 1..(Len(s) + 1)
      BY <1>5, <2>2 DEF Appended
    <3>2. t[p].value = v /\ HeldBefore(t, p) = ReadLater(v) /\ RunBy(t, p) = {u \in Live : u < v}
          /\ v \notin FreedBy(t, p)
      BY <1>2, <1>5, <2>2, <3>1 DEF Appended
    <3> QED
      BY <1>1, <3>2 DEF RunOK
  <2> QED
    BY <1>5, <2>1, <2>2 DEF Appended
<1> QED
  BY <1>5, <1>6, <1>7, <1>8, <1>9 DEF CodeRight, Appended

\* And where a value is freed.
LEMMA FreeAppended ==
  ASSUME GraphOK, NEW s \in Seq(Insts), CodeRight(s), NEW u \in Values, NEW t, t = Append(s, Free(u))
  PROVE  /\ t \in Seq(Insts) /\ CodeRight(t) /\ RunBy(t, Len(t) + 1) = RunBy(s, Len(s) + 1)
         /\ HeldBefore(t, Len(t) + 1) = HeldBefore(s, Len(s) + 1) \ {u}
         /\ FreedBy(t, Len(t) + 1) = FreedBy(s, Len(s) + 1) \cup {u}
<1>1. u \in Nat
  BY GraphSize
<1> DEFINE x == Free(u)
<1>2. x \in Insts /\ x.inst = "free" /\ x.value = u
  BY <1>1 DEF Insts, Free
<1>3. {w \in Values : x = Run(w)} = {} /\ {w \in Values : x = Free(w)} = {u}
  BY <1>1 DEF Run, Free
<1> HIDE DEF x
<1>4. t = Append(s, x)
  BY DEF x
<1>5. Appended(s, x, t)
  BY <1>2, <1>4, Appends
<1>6. /\ RunBy(t, Len(t) + 1) = RunBy(s, Len(s) + 1)
      /\ FreedBy(t, Len(t) + 1) = FreedBy(s, Len(s) + 1) \cup {u}
  BY <1>3, <1>5 DEF Appended
<1>7. HeldBefore(t, Len(t) + 1) = HeldBefore(s, Len(s) + 1) \ {u}
  BY <1>6 DEF HeldBefore
<1>8. ASSUME NEW p \in DOMAIN t
      PROVE  t[p].value \in Values /\ (t[p].inst = "run" => RunOK(t, p))
  <2>1. CASE p \in 1..Len(s)
    <3>1. t[p] = s[p] /\ p \in DOMAIN s /\ p \in 1..(Len(s) + 1)
      BY <1>5, <2>1 DEF Appended
    <3>2. s[p].value \in Values /\ (s[p].inst = "run" => RunOK(s, p))
      BY <3>1 DEF CodeRight
    <3> QED
      BY <1>5, <3>1, <3>2 DEF RunOK, Appended
  <2>2. CASE p = Len(s) + 1
    BY <1>2, <1>5, <2>2 DEF Appended
  <2> QED
    BY <1>5, <2>1, <2>2 DEF Appended
<1> QED
  BY <1>5, <1>6, <1>7, <1>8 DEF CodeRight, Appended

-----------------------------------------------------------------------------
(* A node emitted. *)

\* How often u is among the first i operands of v.
ReadTo(v, i, u) == Cardinality({j \in 1..i : nodes[v].operands[j] = u})
IsOutput(u)     == IF u \in outputs THEN 1 ELSE 0
Later(k)        == {w \in Live : w > k}

\* Counted operand by operand, all of them are the reads of v.
LEMMA ReadsCount ==
  ASSUME GraphOK, NEW v \in Values, NEW u \in Values
  PROVE  /\ Len(nodes[v].operands) \in Nat /\ nodes[v].operands \in Seq(Values)
         /\ ReadTo(v, 0, u) = 0
         /\ \A i \in 0..Len(nodes[v].operands) : ReadTo(v, i, u) \in Nat
         /\ \A i \in 0..(Len(nodes[v].operands) - 1) :
              ReadTo(v, i + 1, u) = ReadTo(v, i, u) + (IF nodes[v].operands[i + 1] = u THEN 1 ELSE 0)
         /\ \A i \in 0..Len(nodes[v].operands) : ReadTo(v, i, u) <= TimesRead(u)[v]
         /\ ReadTo(v, Len(nodes[v].operands), u) = TimesRead(u)[v]
<1> DEFINE ops == nodes[v].operands
           n == Len(ops)
           J(i) == {j \in 1..i : ops[j] = u}
<1>1. ops \in Seq(1..(v - 1)) /\ 1..(v - 1) \in SUBSET Values
  BY OpReads, GraphSize
<1>2. n \in Nat /\ DOMAIN ops = 1..n /\ ops \in Seq(Values)
  <2> DEFINE S == 1..(v - 1)
  <2>1. ops \in Seq(S) /\ S \in SUBSET Values
    BY <1>1
  <2> HIDE DEF S, ops
  <2> QED
    BY <2>1
<1> HIDE DEF ops, n
<1>3. ASSUME NEW i \in 0..n PROVE IsFiniteSet(J(i)) /\ Cardinality(J(i)) \in Nat
  <2>1. IsFiniteSet(1..i) /\ J(i) \in SUBSET (1..i)
    BY <1>2, FS_Interval
  <2> HIDE DEF J
  <2> QED
    BY <2>1, FS_Subset, FS_CardinalityType
<1>4. ASSUME NEW i \in 0..(n - 1)
      PROVE  Cardinality(J(i + 1)) = Cardinality(J(i)) + (IF ops[i + 1] = u THEN 1 ELSE 0)
  <2>0. i \in 0..n /\ i \in Nat
    BY <1>2
  <2>1. CASE ops[i + 1] = u
    <3>1. J(i + 1) = J(i) \cup {i + 1} /\ i + 1 \notin J(i)
      BY <2>0, <2>1
    <3> HIDE DEF J
    <3> QED
      BY <1>3, <2>0, <2>1, <3>1, FS_AddElement
  <2>2. CASE ops[i + 1] # u
    <3>1. J(i + 1) = J(i)
      BY <2>0, <2>2
    <3> HIDE DEF J
    <3> QED
      BY <1>3, <2>0, <2>2, <3>1
  <2> QED
    BY <2>1, <2>2
<1>5. Cardinality(J(0)) = 0
  <2>1. J(0) = {}
    OBVIOUS
  <2> QED
    BY <2>1, FS_EmptySet
<1>6. Cardinality(J(n)) = TimesRead(u)[v]
  BY <1>2 DEF TimesRead, ops
<1>7. ASSUME NEW i \in 0..n PROVE Cardinality(J(i)) <= Cardinality(J(n))
  <2>1. J(i) \in SUBSET J(n) /\ n \in 0..n
    BY <1>2
  <2> HIDE DEF J
  <2> QED
    BY <1>3, <2>1, FS_Subset
<1>8. \A i : ReadTo(v, i, u) = Cardinality(J(i))
  BY DEF ReadTo, ops
<1> HIDE DEF J
<1> QED
  BY <1>2, <1>3, <1>4, <1>5, <1>6, <1>7, <1>8 DEF ops, n

\* A read taken off the count keeps the code's types.
LEMMA TakenTypes ==
  ASSUME GraphOK, NEW code \in Codes, NEW u \in Values
  PROVE  /\ Taken(code, u) \in Codes
         /\ Taken(code, u).remaining = [code.remaining EXCEPT ![u] = @ - 1]
         /\ Taken(code, u).insts = IF code.remaining[u] = 1 THEN Append(code.insts, Free(u)) ELSE code.insts
<1>1. u \in Nat
  BY GraphSize
<1>2. Free(u) \in Insts
  BY <1>1 DEF Free, Insts
<1>3. code.insts \in Seq(Insts) /\ code.remaining \in [Values -> Int]
  BY DEF Codes
<1>4. Append(code.insts, Free(u)) \in Seq(Insts)
  BY <1>2, <1>3, Appends DEF Appended
<1>5. [code.remaining EXCEPT ![u] = @ - 1] \in [Values -> Int]
  BY <1>3
<1> QED
  BY <1>3, <1>4, <1>5 DEF Taken, Codes

\* Between two operands of v: its code, what is left to read, and what is held.
TakenTo(code, v, i) ==
  /\ code \in Codes /\ CodeRight(code.insts)
  /\ RunBy(code.insts, Len(code.insts) + 1) = {u \in Live : u <= v}
  /\ \A u \in FreedBy(code.insts, Len(code.insts) + 1) : u < v
  /\ \A u \in Live : code.remaining[u] = ReadsOf(u, Later(v - 1)) + IsOutput(u) - ReadTo(v, i, u)
  /\ HeldBefore(code.insts, Len(code.insts) + 1) =
       {u \in Live : u < v /\ code.remaining[u] > 0} \cup {v}

\* Between two nodes.
EmittedTo(code, k) ==
  /\ code \in Codes /\ CodeRight(code.insts)
  /\ RunBy(code.insts, Len(code.insts) + 1) = {u \in Live : u <= k}
  /\ \A u \in FreedBy(code.insts, Len(code.insts) + 1) : u <= k
  /\ \A u \in Live : code.remaining[u] = ReadsOf(u, Later(k)) + IsOutput(u)
  /\ HeldBefore(code.insts, Len(code.insts) + 1) = {u \in Live : u <= k /\ code.remaining[u] > 0}

\* Each operand in turn.
LEMMA TakesOne ==
  ASSUME GraphOK, NEW v \in Live, NEW i \in 0..(Len(nodes[v].operands) - 1), NEW code, TakenTo(code, v, i)
  PROVE  TakenTo(Taken(code, nodes[v].operands[i + 1]), v, i + 1)
<1> DEFINE a == nodes[v].operands[i + 1]
           next == Taken(code, a)
<1>1. v \in Values /\ v \in Nat /\ \A u \in Live : u \in Values /\ u \in Nat
  BY LiveIsClosed, GraphSize
<1>2. Len(nodes[v].operands) \in Nat /\ nodes[v].operands \in Seq(Values)
  BY <1>1, ReadsCount
<1>3. a \in Operands(v) /\ i + 1 \in 1..Len(nodes[v].operands) /\ i \in 0..Len(nodes[v].operands)
      /\ i + 1 \in 0..Len(nodes[v].operands)
  BY <1>2 DEF Operands, Range
<1> HIDE DEF a
<1>4. a \in Values /\ a \in Nat /\ a \in Live /\ a < v
  BY <1>1, <1>3, OpReads, LiveIsClosed
<1>5. \A u \in Live : /\ ReadTo(v, i, u) \in Nat
                      /\ ReadTo(v, i + 1, u) = ReadTo(v, i, u) + (IF a = u THEN 1 ELSE 0)
                      /\ ReadTo(v, i + 1, u) <= TimesRead(u)[v]
  BY <1>1, <1>3, ReadsCount DEF a
<1> DEFINE R == Later(v - 1)
<1>6. v \in R /\ R \in SUBSET Values
  <2>1. v > v - 1
    BY <1>1
  <2> QED
    BY <1>1, <2>1 DEF Later
<1> HIDE DEF R
<1>7. \A u \in Live : ReadsOf(u, R) \in Nat /\ TimesRead(u)[v] \in Nat /\ TimesRead(u)[v] <= ReadsOf(u, R)
  <2> SUFFICES ASSUME NEW u \in Live
               PROVE  ReadsOf(u, R) \in Nat /\ TimesRead(u)[v] \in Nat /\ TimesRead(u)[v] <= ReadsOf(u, R)
    OBVIOUS
  <2>1. u \in Values /\ R \ {v} \in SUBSET Values
    BY <1>1, <1>6
  <2>2. ReadsOf(u, R) \in Nat /\ TimesRead(u)[v] \in Nat
        /\ ReadsOf(u, R) = TimesRead(u)[v] + ReadsOf(u, R \ {v})
    <3>1. /\ ReadsOf(u, R) \in Nat /\ \A r \in R : TimesRead(u)[r] \in Nat
          /\ \A r \in R : ReadsOf(u, R) = TimesRead(u)[r] + ReadsOf(u, R \ {r})
      BY <1>6, <2>1, ReadsAre
    <3> QED
      BY <1>6, <3>1
  <2>3. ReadsOf(u, R \ {v}) \in Nat
    BY <2>1, ReadsAre
  <2> QED
    BY <2>2, <2>3
<1>8. /\ code \in Codes /\ code.insts \in Seq(Insts) /\ CodeRight(code.insts)
      /\ code.remaining \in [Values -> Int]
  BY DEF TakenTo, Codes
<1>9. /\ next \in Codes /\ next.remaining = [code.remaining EXCEPT ![a] = @ - 1]
      /\ next.insts = IF code.remaining[a] = 1 THEN Append(code.insts, Free(a)) ELSE code.insts
  BY <1>4, <1>8, TakenTypes
<1> HIDE DEF next
<1>10. \A u \in Live : code.remaining[u] = ReadsOf(u, R) + IsOutput(u) - ReadTo(v, i, u)
  BY DEF TakenTo, R
<1>11. \A u \in Live : next.remaining[u] = IF u = a THEN code.remaining[a] - 1 ELSE code.remaining[u]
  BY <1>1, <1>8, <1>9
<1>12. \A u \in Live : IsOutput(u) \in {0, 1}
  BY DEF IsOutput
<1>13. \A u \in Live : next.remaining[u] = ReadsOf(u, R) + IsOutput(u) - ReadTo(v, i + 1, u)
  <2> SUFFICES ASSUME NEW u \in Live
               PROVE  next.remaining[u] = ReadsOf(u, R) + IsOutput(u) - ReadTo(v, i + 1, u)
    OBVIOUS
  <2> QED
    BY <1>5, <1>7, <1>10, <1>11, <1>12
<1>14. code.remaining[a] >= 1 /\ code.remaining[a] \in Int
  <2> DEFINE x == ReadsOf(a, R)
             y == ReadTo(v, i, a)
             z == TimesRead(a)[v]
             o == IsOutput(a)
  <2>1. x \in Nat /\ z \in Nat /\ z <= x
    BY <1>4, <1>7
  <2>2. y \in Nat /\ y + 1 <= z
    BY <1>4, <1>5
  <2>3. o \in {0, 1} /\ code.remaining[a] = x + o - y
    BY <1>4, <1>10, <1>12
  <2> HIDE DEF x, y, z, o
  <2> QED
    BY <2>1, <2>2, <2>3
<1>15. /\ RunBy(code.insts, Len(code.insts) + 1) = {u \in Live : u <= v}
       /\ \A u \in FreedBy(code.insts, Len(code.insts) + 1) : u < v
       /\ HeldBefore(code.insts, Len(code.insts) + 1) =
            {u \in Live : u < v /\ code.remaining[u] > 0} \cup {v}
  BY DEF TakenTo
<1>16. CASE code.remaining[a] = 1
  <2>1. next.insts = Append(code.insts, Free(a))
    BY <1>9, <1>16
  <2>2. /\ CodeRight(next.insts)
        /\ RunBy(next.insts, Len(next.insts) + 1) = RunBy(code.insts, Len(code.insts) + 1)
        /\ HeldBefore(next.insts, Len(next.insts) + 1) = HeldBefore(code.insts, Len(code.insts) + 1) \ {a}
        /\ FreedBy(next.insts, Len(next.insts) + 1) = FreedBy(code.insts, Len(code.insts) + 1) \cup {a}
    BY <1>4, <1>8, <2>1, FreeAppended
  <2>3. next.remaining[a] = 0 /\ \A u \in Live \ {a} : next.remaining[u] = code.remaining[u]
    BY <1>4, <1>11, <1>16
  <2>4. {u \in Live : u < v /\ code.remaining[u] > 0} \ {a} = {u \in Live : u < v /\ next.remaining[u] > 0}
    BY <2>3
  <2>5. HeldBefore(next.insts, Len(next.insts) + 1) = {u \in Live : u < v /\ next.remaining[u] > 0} \cup {v}
    BY <1>1, <1>4, <1>15, <2>2, <2>4
  <2>6. \A u \in FreedBy(next.insts, Len(next.insts) + 1) : u < v
    BY <1>4, <1>15, <2>2
  <2> QED
    BY <1>9, <1>13, <1>15, <2>2, <2>5, <2>6 DEF TakenTo, next, a, R
<1>17. CASE code.remaining[a] # 1
  <2>1. next.insts = code.insts
    BY <1>9, <1>17
  <2>2. next.remaining[a] > 0 /\ code.remaining[a] > 0
        /\ \A u \in Live \ {a} : next.remaining[u] = code.remaining[u]
    BY <1>4, <1>11, <1>14, <1>17
  <2>3. {u \in Live : u < v /\ code.remaining[u] > 0} = {u \in Live : u < v /\ next.remaining[u] > 0}
    BY <2>2
  <2> QED
    BY <1>8, <1>9, <1>13, <1>15, <2>1, <2>3 DEF TakenTo, next, a, R
<1> QED
  BY <1>16, <1>17

\* A node run, before its operands are taken.
RanOf(code, v)  == [code EXCEPT !.insts = Append(@, Run(v))]
ReadOf(code, v) == FoldLeft(Taken, RanOf(code, v), nodes[v].operands)

\* What emitting a node comes to.
LEMMA EmittedIs ==
  ASSUME GraphOK, NEW code \in Codes, NEW v \in Values
  PROVE  /\ RanOf(code, v) \in Codes
         /\ RanOf(code, v).insts = Append(code.insts, Run(v)) /\ RanOf(code, v).remaining = code.remaining
         /\ ReadOf(code, v) \in Codes
         /\ \E h \in [0..Len(nodes[v].operands) -> Codes] :
              /\ h[0] = RanOf(code, v) /\ ReadOf(code, v) = h[Len(nodes[v].operands)]
              /\ \A i \in 1..Len(nodes[v].operands) : h[i] = Taken(h[i - 1], nodes[v].operands[i])
         /\ Emitted(code, v) = IF v \notin Live THEN code
                               ELSE IF ReadOf(code, v).remaining[v] = 0
                               THEN [ReadOf(code, v) EXCEPT !.insts = Append(@, Free(v))]
                               ELSE ReadOf(code, v)
         /\ Emitted(code, v) \in Codes
<1> DEFINE ran  == RanOf(code, v)
           ops  == nodes[v].operands
           read == ReadOf(code, v)
<1>1. code.insts \in Seq(Insts) /\ code.remaining \in [Values -> Int] /\ v \in Nat
  BY GraphSize DEF Codes
<1>2. Run(v) \in Insts /\ Free(v) \in Insts
  BY <1>1 DEF Run, Free, Insts
<1>3. Append(code.insts, Run(v)) \in Seq(Insts)
  BY <1>1, <1>2, Appends DEF Appended
<1>4. ran \in Codes /\ ran.insts = Append(code.insts, Run(v)) /\ ran.remaining = code.remaining
  BY <1>1, <1>3 DEF RanOf, Codes
<1>5. ops \in Seq(Values) /\ Len(ops) \in Nat
  BY ReadsCount
<1>6. \A c \in Codes : \A u \in Values : Taken(c, u) \in Codes
  BY TakenTypes
<1>7. PICK h \in [0..Len(ops) -> Codes] :
        /\ h[0] = ran /\ FoldLeft(Taken, ran, ops) = h[Len(ops)]
        /\ \A i \in 1..Len(ops) : h[i] = Taken(h[i - 1], ops[i])
  <2> HIDE DEF ran, ops
  <2> QED
    BY <1>4, <1>5, <1>6, TakenFolds
<1>8. read = h[Len(ops)] /\ read \in Codes
  <2>1. Len(ops) \in 0..Len(ops)
    BY <1>5
  <2>2. read = h[Len(ops)]
    BY <1>7 DEF ReadOf
  <2> QED
    BY <1>7, <2>1, <2>2
<1>9. Emitted(code, v) = IF v \notin Live THEN code
                         ELSE IF read.remaining[v] = 0
                         THEN [read EXCEPT !.insts = Append(@, Free(v))] ELSE read
  BY Zenon DEF Emitted, ReadOf, RanOf
<1>10. [read EXCEPT !.insts = Append(@, Free(v))] \in Codes
  <2>1. read.insts \in Seq(Insts) /\ read.remaining \in [Values -> Int]
    BY <1>8 DEF Codes
  <2>2. Append(read.insts, Free(v)) \in Seq(Insts)
    BY <1>2, <2>1, Appends DEF Appended
  <2> HIDE DEF read
  <2> QED
    BY <1>8, <2>1, <2>2 DEF Codes
<1>11. Emitted(code, v) \in Codes
  <2> HIDE DEF read
  <2> QED
    BY <1>8, <1>9, <1>10
<1> QED
  BY <1>4, <1>7, <1>8, <1>9, <1>11

\* Operand after operand, to the last.
LEMMA TakesAll ==
  ASSUME GraphOK, NEW code \in Codes, NEW v \in Live, v \in Values, TakenTo(RanOf(code, v), v, 0)
  PROVE  TakenTo(ReadOf(code, v), v, Len(nodes[v].operands))
<1> DEFINE ops == nodes[v].operands
           n   == Len(ops)
<1>1. n \in Nat
  BY ReadsCount
<1>2. PICK h \in [0..n -> Codes] :
        /\ h[0] = RanOf(code, v) /\ ReadOf(code, v) = h[n]
        /\ \A i \in 1..n : h[i] = Taken(h[i - 1], ops[i])
  BY EmittedIs
<1> DEFINE Q == {i \in Nat : i <= n => TakenTo(h[i], v, i)}
<1>3. 0 \in Q
  BY <1>2
<1>4. ASSUME NEW i \in Nat, i \in Q PROVE i + 1 \in Q
  <2> SUFFICES ASSUME i + 1 <= n PROVE TakenTo(h[i + 1], v, i + 1)
    OBVIOUS
  <2>1. TakenTo(h[i], v, i) /\ i \in 0..(n - 1) /\ i + 1 \in 1..n /\ (i + 1) - 1 = i
    BY <1>1, <1>4
  <2>2. h[i + 1] = Taken(h[i], ops[i + 1])
    BY <1>2, <2>1
  <2>3. TakenTo(Taken(h[i], ops[i + 1]), v, i + 1)
    BY <2>1, TakesOne
  <2> QED
    BY <2>2, <2>3
<1> HIDE DEF Q
<1>5. \A i \in Nat : i \in Q
  BY <1>3, <1>4, Counting
<1>6. TakenTo(h[n], v, n)
  BY <1>1, <1>5 DEF Q
<1> QED
  BY <1>2, <1>6

\* What is read later of a value is what is read by the next node and by those after it.
LEMMA LaterReads ==
  ASSUME GraphOK, NEW u \in Values, NEW v \in Values
  PROVE  /\ ReadsOf(u, Later(v)) \in Nat /\ ReadsOf(u, Later(v - 1)) \in Nat
         /\ v \in Live => ReadsOf(u, Later(v - 1)) = TimesRead(u)[v] + ReadsOf(u, Later(v))
         /\ v \in Live => TimesRead(u)[v] \in Nat
         /\ v \notin Live => Later(v - 1) = Later(v)
         /\ ReadsOf(u, Later(v - 1)) > 0 <=> \E w \in Live : w >= v /\ u \in Operands(w)
<1>1. v \in Nat /\ \A w \in Live : w \in Nat /\ w \in Values
  BY LiveIsClosed, GraphSize
<1>2. \A w \in Live : w > v - 1 <=> w = v \/ w > v
  BY <1>1
<1>3. \A w \in Live : w > v - 1 <=> w >= v
  BY <1>1
<1> DEFINE R == Later(v - 1)
           S == Later(v)
<1>4. R \in SUBSET Values /\ S \in SUBSET Values
  BY <1>1 DEF Later
<1>5. v \in Live => v \in R /\ R \ {v} = S
  <2>1. ~(v > v)
    BY <1>1
  <2>2. v \in Live => v \in R
    BY <1>2 DEF Later
  <2>3. \A w \in Live : w \in R \ {v} <=> w \in S
    BY <1>2, <2>1 DEF Later
  <2> QED
    BY <2>2, <2>3 DEF Later
<1>6. v \notin Live => R = S
  BY <1>2 DEF Later
<1>7. (\E w \in R : u \in Operands(w)) <=> \E w \in Live : w >= v /\ u \in Operands(w)
  BY <1>3 DEF Later
<1> HIDE DEF R, S
<1>8. ReadsOf(u, S) \in Nat
  BY <1>4, ReadsAre
<1>9. /\ ReadsOf(u, R) \in Nat /\ ReadsOf(u, R) > 0 <=> \E w \in R : u \in Operands(w)
      /\ \A r \in R : TimesRead(u)[r] \in Nat
      /\ \A r \in R : ReadsOf(u, R) = TimesRead(u)[r] + ReadsOf(u, R \ {r})
  BY <1>4, ReadsAre
<1>10. v \in Live => /\ TimesRead(u)[v] \in Nat
                     /\ ReadsOf(u, R) = TimesRead(u)[v] + ReadsOf(u, S)
  BY <1>5, <1>9
<1> QED
  BY <1>6, <1>7, <1>8, <1>9, <1>10 DEF R, S

\* Each node in turn.
LEMMA EmitsOne ==
  ASSUME GraphOK, NEW v \in Values, NEW code, EmittedTo(code, v - 1)
  PROVE  EmittedTo(Emitted(code, v), v)
<1>1. v \in Nat /\ \A u \in Live : u \in Values /\ u \in Nat
  BY LiveIsClosed, GraphSize
<1>2. /\ code \in Codes /\ code.insts \in Seq(Insts) /\ code.remaining \in [Values -> Int]
      /\ CodeRight(code.insts)
  BY DEF EmittedTo, Codes
<1>3. \A u \in Live : u <= v - 1 <=> u < v
  BY <1>1
<1>4. /\ RunBy(code.insts, Len(code.insts) + 1) = {u \in Live : u < v}
      /\ HeldBefore(code.insts, Len(code.insts) + 1) = {u \in Live : u < v /\ code.remaining[u] > 0}
  BY <1>3 DEF EmittedTo
<1>5. \A u \in Live : code.remaining[u] = ReadsOf(u, Later(v - 1)) + IsOutput(u)
  BY DEF EmittedTo
<1>6. \A u \in FreedBy(code.insts, Len(code.insts) + 1) : u <= v - 1 /\ u \in Nat
  BY GraphSize DEF EmittedTo, FreedBy
<1>7. \A u \in Live : IsOutput(u) \in Nat /\ (IsOutput(u) > 0 <=> u \in outputs)
  BY DEF IsOutput
<1>8. CASE v \notin Live
  <2>1. Emitted(code, v) = code
    BY <1>2, <1>8, EmittedIs
  <2>2. Later(v - 1) = Later(v)
    BY <1>8, LaterReads
  <2>3. \A u \in Live : u <= v <=> u < v
    BY <1>1, <1>8
  <2>4. \A u \in FreedBy(code.insts, Len(code.insts) + 1) : u <= v
    BY <1>1, <1>6
  <2> QED
    BY <1>2, <1>4, <1>5, <2>1, <2>2, <2>3, <2>4 DEF EmittedTo
<1>9. CASE v \in Live
  <2> DEFINE ran  == RanOf(code, v)
             read == ReadOf(code, v)
             n    == Len(nodes[v].operands)
  <2>1. /\ ran \in Codes /\ ran.insts = Append(code.insts, Run(v)) /\ ran.remaining = code.remaining
        /\ read \in Codes
        /\ Emitted(code, v) = IF v \notin Live THEN code
                              ELSE IF read.remaining[v] = 0
                              THEN [read EXCEPT !.insts = Append(@, Free(v))] ELSE read
        /\ Emitted(code, v) \in Codes
    BY <1>2, EmittedIs
  <2>2. {u \in Live : u < v /\ code.remaining[u] > 0} = ReadLater(v)
    <3>1. \A u \in Live : ReadsOf(u, Later(v - 1)) \in Nat
            /\ (ReadsOf(u, Later(v - 1)) > 0 <=> \E w \in Live : w >= v /\ u \in Operands(w))
      BY <1>1, LaterReads
    <3>2. \A u \in Live :
            code.remaining[u] > 0 <=> u \in outputs \/ \E w \in Live : w >= v /\ u \in Operands(w)
      <4> SUFFICES ASSUME NEW u \in Live
                   PROVE  code.remaining[u] > 0
                            <=> u \in outputs \/ \E w \in Live : w >= v /\ u \in Operands(w)
        OBVIOUS
      <4> DEFINE x == ReadsOf(u, Later(v - 1))
                 o == IsOutput(u)
      <4>1. x \in Nat /\ o \in Nat /\ (x > 0 <=> \E w \in Live : w >= v /\ u \in Operands(w))
            /\ (o > 0 <=> u \in outputs) /\ code.remaining[u] = x + o
        BY <1>5, <1>7, <3>1
      <4> HIDE DEF x, o
      <4>2. x + o > 0 <=> x > 0 \/ o > 0
        BY <4>1
      <4> QED
        BY <4>1, <4>2
    <3> QED
      BY <3>2 DEF ReadLater
  <2>3. v \notin FreedBy(code.insts, Len(code.insts) + 1)
    BY <1>1, <1>6
  <2>4. /\ CodeRight(ran.insts) /\ RunBy(ran.insts, Len(ran.insts) + 1) = {u \in Live : u <= v}
        /\ HeldBefore(ran.insts, Len(ran.insts) + 1) = ReadLater(v) \cup {v}
        /\ FreedBy(ran.insts, Len(ran.insts) + 1) = FreedBy(code.insts, Len(code.insts) + 1)
    <3> HIDE DEF ran
    <3> QED
      BY <1>2, <1>4, <1>9, <2>1, <2>2, <2>3, RunAppended
  <2>5. TakenTo(ran, v, 0)
    <3>1. \A u \in Live : ReadTo(v, 0, u) = 0 /\ code.remaining[u] \in Int
      BY <1>1, <1>2, ReadsCount
    <3>2. \A u \in Live : ran.remaining[u] = ReadsOf(u, Later(v - 1)) + IsOutput(u) - ReadTo(v, 0, u)
      <4> SUFFICES ASSUME NEW u \in Live
                   PROVE  ran.remaining[u] = ReadsOf(u, Later(v - 1)) + IsOutput(u) - ReadTo(v, 0, u)
        OBVIOUS
      <4>1. ReadsOf(u, Later(v - 1)) \in Nat /\ IsOutput(u) \in Nat
        BY <1>1, <1>7, LaterReads
      <4>2. ran.remaining[u] = ReadsOf(u, Later(v - 1)) + IsOutput(u)
        BY <1>5, <2>1
      <4> HIDE DEF ran
      <4> QED
        BY <3>1, <4>1, <4>2
    <3>3. \A u \in FreedBy(ran.insts, Len(ran.insts) + 1) : u < v
      BY <1>1, <1>6, <2>4
    <3>4. HeldBefore(ran.insts, Len(ran.insts) + 1) = {u \in Live : u < v /\ ran.remaining[u] > 0} \cup {v}
      BY <2>1, <2>2, <2>4
    <3> HIDE DEF ran
    <3> QED
      BY <2>1, <2>4, <3>2, <3>3, <3>4 DEF TakenTo
  <2>6. TakenTo(read, v, n)
    BY <1>2, <1>9, <2>5, TakesAll
  <2> HIDE DEF ran, read
  <2>7. /\ CodeRight(read.insts) /\ RunBy(read.insts, Len(read.insts) + 1) = {u \in Live : u <= v}
        /\ \A u \in FreedBy(read.insts, Len(read.insts) + 1) : u < v
        /\ HeldBefore(read.insts, Len(read.insts) + 1) =
             {u \in Live : u < v /\ read.remaining[u] > 0} \cup {v}
        /\ read.insts \in Seq(Insts) /\ read.remaining \in [Values -> Int]
    BY <2>1, <2>6 DEF TakenTo, Codes
  <2>8. \A u \in Live : read.remaining[u] = ReadsOf(u, Later(v)) + IsOutput(u)
    <3> SUFFICES ASSUME NEW u \in Live PROVE read.remaining[u] = ReadsOf(u, Later(v)) + IsOutput(u)
      OBVIOUS
    <3>1. read.remaining[u] = ReadsOf(u, Later(v - 1)) + IsOutput(u) - ReadTo(v, n, u)
      BY <2>6 DEF TakenTo
    <3>2. ReadTo(v, n, u) = TimesRead(u)[v]
      BY <1>1, ReadsCount
    <3>3. TimesRead(u)[v] \in Nat /\ ReadsOf(u, Later(v)) \in Nat
          /\ ReadsOf(u, Later(v - 1)) = TimesRead(u)[v] + ReadsOf(u, Later(v))
      BY <1>1, <1>9, LaterReads
    <3>4. IsOutput(u) \in Nat
      BY <1>7
    <3> QED
      BY <3>1, <3>2, <3>3, <3>4
  <2>9. \A u \in Live : u <= v <=> (u < v \/ u = v)
    BY <1>1
  <2>10. read.remaining[v] \in Int /\ read.remaining[v] >= 0
    <3>1. read.remaining[v] = ReadsOf(v, Later(v)) + IsOutput(v)
      BY <1>9, <2>8
    <3>2. ReadsOf(v, Later(v)) \in Nat /\ IsOutput(v) \in Nat
      BY <1>7, <1>9, LaterReads
    <3> QED
      BY <3>1, <3>2
  <2>11. CASE read.remaining[v] = 0
    <3> DEFINE last == [read EXCEPT !.insts = Append(@, Free(v))]
    <3>1. Emitted(code, v) = last
      BY <1>9, <2>1, <2>11
    <3>2. last.insts = Append(read.insts, Free(v)) /\ last.remaining = read.remaining
      BY <2>1 DEF Codes
    <3> HIDE DEF last
    <3>3. /\ CodeRight(last.insts)
          /\ RunBy(last.insts, Len(last.insts) + 1) = RunBy(read.insts, Len(read.insts) + 1)
          /\ HeldBefore(last.insts, Len(last.insts) + 1) = HeldBefore(read.insts, Len(read.insts) + 1) \ {v}
          /\ FreedBy(last.insts, Len(last.insts) + 1) = FreedBy(read.insts, Len(read.insts) + 1) \cup {v}
      BY <2>7, <3>2, FreeAppended
    <3>4. HeldBefore(last.insts, Len(last.insts) + 1) = {u \in Live : u <= v /\ last.remaining[u] > 0}
      <4>1. \A u \in Live : (u < v => u # v) /\ (u = v => ~(last.remaining[u] > 0))
        BY <1>1, <2>11, <3>2
      <4> QED
        BY <2>7, <2>9, <3>2, <3>3, <4>1
    <3>5. \A u \in FreedBy(last.insts, Len(last.insts) + 1) : u <= v
      <4>1. \A u \in FreedBy(read.insts, Len(read.insts) + 1) : u \in Nat /\ u < v
        BY <2>7, GraphSize DEF FreedBy
      <4> QED
        BY <1>1, <3>3, <4>1
    <3> QED
      BY <2>1, <2>7, <2>8, <3>1, <3>2, <3>3, <3>4, <3>5 DEF EmittedTo
  <2>12. CASE read.remaining[v] # 0
    <3>1. Emitted(code, v) = read
      BY <1>9, <2>1, <2>12
    <3>2. read.remaining[v] > 0
      BY <2>10, <2>12
    <3>3. HeldBefore(read.insts, Len(read.insts) + 1) = {u \in Live : u <= v /\ read.remaining[u] > 0}
      BY <1>9, <2>7, <2>9, <3>2
    <3>4. \A u \in FreedBy(read.insts, Len(read.insts) + 1) : u <= v
      <4>1. \A u \in FreedBy(read.insts, Len(read.insts) + 1) : u \in Nat /\ u < v
        BY <2>7, GraphSize DEF FreedBy
      <4> QED
        BY <1>1, <4>1
    <3> QED
      BY <2>1, <2>7, <2>8, <3>1, <3>3, <3>4 DEF EmittedTo
  <2> QED
    BY <2>11, <2>12
<1> QED
  BY <1>8, <1>9

\* What is compiled runs what is live, each in its turn with what it reads held, and frees what is
\* read no more.
LEMMA CompiledRight ==
  ASSUME GraphOK
  PROVE  CodeOK(FoldLeft(Emitted, [insts |-> <<>>, remaining |-> Remaining], [v \in Values |-> v]).insts)
<1> DEFINE base == [insts |-> <<>>, remaining |-> Remaining]
           n == Len(nodes)
<1>1. n \in Nat /\ Values = 1..n /\ \A u \in Live : u \in Values /\ u \in Nat
  BY LiveIsClosed, GraphSize
<1>2. Live = Later(0)
  BY <1>1 DEF Later
<1>3. \A u \in Values : ReadsOf(u, Live) \in Nat
  BY LiveIsClosed, ReadsAre
<1>4. base \in Codes /\ base.insts = <<>> /\ <<>> \in Seq(Insts) /\ Len(<<>>) = 0
      /\ \A u \in Values : base.remaining[u] = ReadsOf(u, Live) + IsOutput(u)
  <2>1. Remaining \in [Values -> Int] /\ \A u \in Values : Remaining[u] = ReadsOf(u, Live) + IsOutput(u)
    BY <1>3 DEF Remaining, IsOutput
  <2> QED
    BY <2>1 DEF Codes
<1>5. EmittedTo(base, 0)
  <2>1. RunBy(<<>>, 0 + 1) = {} /\ FreedBy(<<>>, 0 + 1) = {} /\ HeldBefore(<<>>, 0 + 1) = {}
    BY DEF RunBy, FreedBy, HeldBefore
  <2>2. \A u \in Live : ~(u <= 0)
    BY <1>1
  <2>3. CodeRight(<<>>)
    BY DEF CodeRight
  <2>4. \A u \in Live : base.remaining[u] = ReadsOf(u, Later(0)) + IsOutput(u)
    BY <1>1, <1>2, <1>4
  <2> HIDE DEF base
  <2> QED
    BY <1>4, <2>1, <2>2, <2>3, <2>4 DEF EmittedTo
<1>6. \A code \in Codes : \A v \in Values : Emitted(code, v) \in Codes
  BY EmittedIs
<1> HIDE DEF base
<1>7. PICK h \in [0..n -> Codes] :
        /\ h[0] = base /\ FoldLeft(Emitted, base, [v \in Values |-> v]) = h[n]
        /\ \A v \in 1..n : h[v] = Emitted(h[v - 1], v)
  BY <1>4, <1>6, EmittedFolds
<1> DEFINE Q == {i \in Nat : i <= n => EmittedTo(h[i], i)}
<1>8. 0 \in Q
  BY <1>5, <1>7
<1>9. ASSUME NEW i \in Nat, i \in Q PROVE i + 1 \in Q
  <2> SUFFICES ASSUME i + 1 <= n PROVE EmittedTo(h[i + 1], i + 1)
    OBVIOUS
  <2>1. EmittedTo(h[i], i) /\ i + 1 \in 1..n /\ (i + 1) - 1 = i /\ i + 1 \in Values
    BY <1>1, <1>9
  <2>2. h[i + 1] = Emitted(h[i], i + 1)
    BY <1>7, <2>1
  <2>3. EmittedTo(Emitted(h[i], i + 1), i + 1)
    BY <2>1, EmitsOne
  <2> QED
    BY <2>2, <2>3
<1> HIDE DEF Q
<1>10. \A i \in Nat : i \in Q
  BY <1>8, <1>9, Counting
<1>11. EmittedTo(h[n], n)
  BY <1>1, <1>10 DEF Q
<1> DEFINE s == h[n].insts
<1>12. s \in Seq(Insts) /\ CodeRight(s) /\ RunBy(s, Len(s) + 1) = {u \in Live : u <= n}
       /\ HeldBefore(s, Len(s) + 1) = {u \in Live : u <= n /\ h[n].remaining[u] > 0}
       /\ \A u \in Live : h[n].remaining[u] = ReadsOf(u, Later(n)) + IsOutput(u)
  BY <1>11 DEF EmittedTo, Codes
<1>13. Later(n) = {} /\ {u \in Live : u <= n} = Live
  BY <1>1 DEF Later
<1>14. \A u \in Live : ReadsOf(u, {}) = 0
  <2> SUFFICES ASSUME NEW u \in Live PROVE ReadsOf(u, {}) = 0
    OBVIOUS
  <2>1. u \in Values /\ {} \in SUBSET Values
    BY <1>1
  <2>2. ReadsOf(u, {}) \in Nat /\ ReadsOf(u, {}) > 0 <=> \E r \in {} : u \in Operands(r)
    BY <2>1, ReadsAre
  <2> QED
    BY <2>2
<1>15. {u \in Live : u <= n /\ h[n].remaining[u] > 0} = outputs
  <2>1. \A u \in Live : h[n].remaining[u] > 0 <=> u \in outputs
    BY <1>12, <1>13, <1>14 DEF IsOutput
  <2> QED
    BY <1>1, <2>1, LiveIsClosed
<1>16. CodeOK(s)
  <2> HIDE DEF s
  <2> QED
    BY <1>12, <1>13, <1>15 DEF CodeOK
<1> QED
  BY <1>7, <1>16 DEF base

-----------------------------------------------------------------------------
(* Whose storage a value is over. *)

IsOwners(g) ==
  g = [u \in Values |-> IF nodes[u].kind = "view" THEN g[nodes[u].operands[1]] ELSE u]

\* There is a function Owner defines: made right from the front, one value more at a time.
LEMMA OwnersExist ==
  ASSUME GraphOK
  PROVE  \E g : IsOwners(g)
<1> DEFINE N == Len(nodes)
           Of(g) == [u \in Values |-> IF nodes[u].kind = "view" THEN g[nodes[u].operands[1]] ELSE u]
           Right(g, k) == \A u \in Values : u <= k => g[u] = Of(g)[u]
           Q == {k \in Nat : \E g : Right(g, k)}
<1>1. N \in Nat /\ Values = 1..N
  BY GraphSize
<1>2. \A u \in Values : nodes[u].kind = "view" => nodes[u].operands[1] \in 1..(u - 1)
                                                   /\ nodes[u].operands[1] \in Values
  <2> SUFFICES ASSUME NEW u \in Values, nodes[u].kind = "view"
               PROVE  nodes[u].operands[1] \in 1..(u - 1) /\ nodes[u].operands[1] \in Values
    OBVIOUS
  <2>1. nodes[u].operands[1] \in 1..(u - 1)
    BY OpReads
  <2> QED
    BY <1>1, <2>1
<1>3. 0 \in Q
  <2> DEFINE z == [u \in Values |-> u]
  <2>1. \A u \in Values : ~(u <= 0)
    BY <1>1
  <2>2. Right(z, 0)
    BY <2>1
  <2> QED
    BY <2>2
<1>4. ASSUME NEW k \in Nat, k \in Q PROVE k + 1 \in Q
  <2>1. PICK g : Right(g, k)
    BY <1>4
  <2>2. Right(Of(g), k + 1)
    <3> SUFFICES ASSUME NEW u \in Values, u <= k + 1 PROVE Of(g)[u] = Of(Of(g))[u]
      OBVIOUS
    <3>1. CASE nodes[u].kind = "view"
      <4> DEFINE w == nodes[u].operands[1]
      <4>1. w \in Values /\ w \in 1..(u - 1) /\ u \in Nat
        BY <1>1, <1>2, <3>1
      <4>2. w <= k
        BY <4>1
      <4>3. g[w] = Of(g)[w]
        BY <2>1, <4>1, <4>2
      <4> QED
        BY <3>1, <4>3
    <3>2. CASE nodes[u].kind # "view"
      BY <3>2
    <3> QED
      BY <3>1, <3>2
  <2> HIDE DEF Right
  <2> QED
    BY <2>2
<1>5. N \in Q
  <2> HIDE DEF Q
  <2>1. \A k \in Nat : k \in Q
    BY <1>3, <1>4, Counting
  <2> QED
    BY <1>1, <2>1
<1>6. PICK g : Right(g, N)
  BY <1>5
<1>7. \A u \in Values : g[u] = Of(g)[u]
  BY <1>1, <1>6
<1>8. \A u \in Values : Of(g)[u] = Of(Of(g))[u]
  <2> SUFFICES ASSUME NEW u \in Values PROVE Of(g)[u] = Of(Of(g))[u]
    OBVIOUS
  <2>1. CASE nodes[u].kind = "view"
    <3> DEFINE w == nodes[u].operands[1]
    <3>1. w \in Values
      BY <1>2, <2>1
    <3>2. g[w] = Of(g)[w]
      BY <1>7, <3>1
    <3> QED
      BY <2>1, <3>2
  <2>2. CASE nodes[u].kind # "view"
    BY <2>2
  <2> QED
    BY <2>1, <2>2
<1>9. IsOwners(Of(g))
  BY <1>8 DEF IsOwners
<1> QED
  BY <1>9

\* A view is over what its operand is over; anything else is over its own.
LEMMA OwnerIs ==
  ASSUME GraphOK, NEW v \in Values
  PROVE  Owner(v) = IF nodes[v].kind = "view" THEN Owner(nodes[v].operands[1]) ELSE v
<1> DEFINE g == CHOOSE f : IsOwners(f)
<1>1. IsOwners(g)
  BY OwnersExist, Zenon
<1>2. \A u : Owner(u) = g[u]
  BY Zenon DEF Owner, IsOwners
<1> HIDE DEF g
<1>3. g[v] = IF nodes[v].kind = "view" THEN g[nodes[v].operands[1]] ELSE v
  BY <1>1 DEF IsOwners
<1> QED
  BY <1>2, <1>3

\* The owner is no later than the value, and no view.
LEMMA OwnerBefore ==
  ASSUME GraphOK, NEW v \in Values
  PROVE  Owner(v) \in Values /\ Owner(v) <= v /\ nodes[Owner(v)].kind # "view"
<1> DEFINE Good(u) == Owner(u) \in Values /\ Owner(u) <= u /\ nodes[Owner(u)].kind # "view"
           Q == {k \in Nat : \A u \in Values : u <= k => Good(u)}
<1>1. Values = 1..Len(nodes) /\ Len(nodes) \in Nat
  BY GraphSize
<1>2. 0 \in Q
  BY <1>1
<1>3. ASSUME NEW k \in Nat, k \in Q PROVE k + 1 \in Q
  <2> SUFFICES ASSUME NEW u \in Values, u <= k + 1 PROVE Good(u)
    OBVIOUS
  <2>1. u \in Nat /\ \A w \in Values : w \in Nat /\ (w <= k => Good(w))
    BY <1>1, <1>3
  <2>2. CASE nodes[u].kind = "view"
    <3> DEFINE w == nodes[u].operands[1]
    <3>1. w \in 1..(u - 1)
      BY <2>2, OpReads
    <3>2. w \in Values /\ w < u
      BY <1>1, <3>1
    <3>3. Owner(u) = Owner(w)
      BY <2>2, OwnerIs
    <3> HIDE DEF w
    <3>4. w <= k /\ w \in Nat
      BY <2>1, <3>2
    <3>5. Good(w)
      BY <2>1, <3>2, <3>4
    <3>6. Owner(w) \in Nat
      BY <2>1, <3>5
    <3> QED
      BY <2>1, <3>2, <3>3, <3>4, <3>5, <3>6
  <2>3. CASE nodes[u].kind # "view"
    <3>1. Owner(u) = u
      BY <2>3, OwnerIs
    <3> QED
      BY <2>1, <2>3, <3>1
  <2> QED
    BY <2>2, <2>3
<1> HIDE DEF Q
<1>4. \A k \in Nat : k \in Q
  BY <1>2, <1>3, Counting
<1>5. v \in Nat
  BY <1>1
<1>6. v \in Q
  BY <1>4, <1>5
<1> QED
  BY <1>5, <1>6 DEF Q

-----------------------------------------------------------------------------
(* Bytes held. *)

Storages == {Made(v) : v \in Values} \cup {Copy(n) : n \in Names} \cup {FromCaller}
Copies   == {Copy(n) : n \in kept}
\* Size, as a function.
SizeFn   == [st \in Storages |->
               IF st[1] = "caller" THEN 0 ELSE IF st[1] = "kept" THEN BytesOf[st[2]]
               ELSE IF nodes[st[2]].kind = "load" THEN BytesOf[nodes[st[2]].weight] ELSE 1]

\* The sum of what is the same, whatever it is called.
LEMMA SizesAre ==
  ASSUME NEW S, IsFiniteSet(S), NEW F, \A st \in S : F[st] = Size(st) /\ F[st] \in Nat
  PROVE  SizeOf(S) = SumOf(F, S)
<1> DEFINE P(f) == f = [s \in SUBSET S |->
                          IF s = {} THEN 0
                          ELSE Size(CHOOSE x \in s : TRUE) + f[s \ {CHOOSE x \in s : TRUE}]]
           g == CHOOSE f : P(f)
<1>1. \A f : P(f) <=> IsSums(f, F, S)
  <2> SUFFICES ASSUME NEW f PROVE P(f) <=> IsSums(f, F, S)
    OBVIOUS
  <2> DEFINE G(s) == IF s = {} THEN 0 ELSE Size(CHOOSE x \in s : TRUE) + f[s \ {CHOOSE x \in s : TRUE}]
             H(s) == IF s = {} THEN 0 ELSE F[CHOOSE x \in s : TRUE] + f[s \ {CHOOSE x \in s : TRUE}]
  <2>1. \A s \in SUBSET S : G(s) = H(s)
    <3> SUFFICES ASSUME NEW s \in SUBSET S PROVE G(s) = H(s)
      OBVIOUS
    <3>1. CASE s = {}
      BY <3>1
    <3>2. CASE s # {}
      <4>1. (CHOOSE x \in s : TRUE) \in s
        BY <3>2, Zenon
      <4>2. F[CHOOSE x \in s : TRUE] = Size(CHOOSE x \in s : TRUE)
        BY <4>1
      <4> QED
        BY <3>2, <4>2
    <3> QED
      BY <3>1, <3>2
  <2> HIDE DEF G, H
  <2>2. [s \in SUBSET S |-> G(s)] = [s \in SUBSET S |-> H(s)]
    BY <2>1
  <2>3. P(f) <=> f = [s \in SUBSET S |-> G(s)]
    BY Zenon DEF G
  <2>4. IsSums(f, F, S) <=> f = [s \in SUBSET S |-> H(s)]
    BY Zenon DEF IsSums, H
  <2> QED
    BY <2>2, <2>3, <2>4
<1>2. P(g)
  <2> HIDE DEF P
  <2>1. \E f : IsSums(f, F, S)
    BY SumsExist
  <2>2. \E f : P(f)
    BY <1>1, <2>1
  <2> QED
    BY <2>2, Zenon
<1>3. SizeOf(S) = g[S]
  BY Zenon DEF SizeOf, MapThenSumSet, MapThenFoldSet
<1> HIDE DEF g, P
<1>4. IsSums(g, F, S) /\ S \in SUBSET S
  BY <1>1, <1>2
<1>5. PICK h : IsSums(h, F, S) /\ SumOf(F, S) = h[S]
  BY SumIs
<1>6. g[S] = h[S]
  BY <1>4, <1>5, SumsAgree
<1> QED
  BY <1>3, <1>5, <1>6

\* A storage has a size, and there are finitely many of them.
LEMMA StoragesAre ==
  ASSUME GraphOK, WeightsOK
  PROVE  /\ IsFiniteSet(Storages) /\ \A st \in Storages : SizeFn[st] = Size(st) /\ SizeFn[st] \in Nat
         /\ Copies \in SUBSET Storages /\ None \notin Storages
         /\ \A n \in Names : Size(Copy(n)) = BytesOf[n]
         /\ \A v \in Values : Size(Made(v)) = IF nodes[v].kind = "load" THEN BytesOf[nodes[v].weight] ELSE 1
         /\ Size(FromCaller) = 0
<1>1. \A n \in Names : Size(Copy(n)) = BytesOf[n]
  BY DEF Size, Copy
<1>2. \A v \in Values : Size(Made(v)) = IF nodes[v].kind = "load" THEN BytesOf[nodes[v].weight] ELSE 1
  BY DEF Size, Made
<1>3. Size(FromCaller) = 0
  BY DEF Size, FromCaller
<1>4. \A v \in Values : nodes[v].kind = "load" => nodes[v].weight \in Names
  BY OpReads
<1>5. \A st \in Storages : SizeFn[st] = Size(st) /\ Size(st) \in Nat
  <2> SUFFICES ASSUME NEW st \in Storages PROVE SizeFn[st] = Size(st) /\ Size(st) \in Nat
    OBVIOUS
  <2>1. SizeFn[st] = Size(st)
    BY DEF SizeFn, Size
  <2>2. CASE \E v \in Values : st = Made(v)
    BY <1>2, <1>4, <2>1, <2>2, NamesAre
  <2>3. CASE \E n \in Names : st = Copy(n)
    BY <1>1, <2>1, <2>3, NamesAre
  <2>4. CASE st = FromCaller
    BY <1>3, <2>1, <2>4
  <2> QED
    BY <2>2, <2>3, <2>4 DEF Storages
<1>6. IsFiniteSet({Made(v) : v \in Values})
  <2> DEFINE m == [v \in Values |-> Made(v)]
             z == [v \in Values |-> 0]
             F == [st \in {Made(v) : v \in Values} |-> 0]
  <2>1. CarriesOver(m, F, z, Values)
    BY DEF CarriesOver, Made
  <2>2. ImageOf(m, Values) = {Made(v) : v \in Values}
    BY DEF ImageOf
  <2> HIDE DEF m, z, F
  <2>3. IsFiniteSet(Values)
    BY GraphSize
  <2>4. IsFiniteSet(ImageOf(m, Values))
    BY <2>1, <2>3, SumOfImage
  <2> QED
    BY <2>2, <2>4
<1>7. IsFiniteSet({Copy(n) : n \in Names})
  <2> DEFINE m == [n \in Names |-> Copy(n)]
             z == [n \in Names |-> 0]
             F == [st \in {Copy(n) : n \in Names} |-> 0]
  <2>1. CarriesOver(m, F, z, Names)
    BY DEF CarriesOver, Copy
  <2>2. ImageOf(m, Names) = {Copy(n) : n \in Names}
    BY DEF ImageOf
  <2> HIDE DEF m, z, F
  <2>3. IsFiniteSet(Names)
    BY NamesAre
  <2>4. IsFiniteSet(ImageOf(m, Names))
    BY <2>1, <2>3, SumOfImage
  <2> QED
    BY <2>2, <2>4
<1>8. IsFiniteSet(Storages)
  BY <1>6, <1>7, FS_Union, FS_Singleton DEF Storages
<1>9. Copies \in SUBSET Storages
  BY DEF Copies, Storages, WeightsOK
<1>10. None \notin Storages
  BY DEF Storages, None, Made, Copy, FromCaller
<1> QED
  BY <1>1, <1>2, <1>3, <1>5, <1>8, <1>9, <1>10

\* What is used is a sum, and is no more where less is held.
LEMMA UsedIs ==
  ASSUME GraphOK, WeightsOK, NEW H \in SUBSET Storages
  PROVE  /\ SizeOf(H) = SumOf(SizeFn, H) /\ SizeOf(H) \in Nat
         /\ \A T \in SUBSET H : SizeOf(T) \in Nat /\ SizeOf(T) <= SizeOf(H)
         /\ \A st \in Storages \ H : SizeOf(H \cup {st}) = SizeOf(H) + Size(st)
<1>1. IsFiniteSet(Storages) /\ \A st \in Storages : SizeFn[st] = Size(st) /\ SizeFn[st] \in Nat
  BY StoragesAre
<1>2. ASSUME NEW T \in SUBSET Storages
      PROVE  IsFiniteSet(T) /\ SizeOf(T) = SumOf(SizeFn, T) /\ SizeOf(T) \in Nat
  <2>1. IsFiniteSet(T)
    BY <1>1, FS_Subset
  <2>2. \A st \in T : SizeFn[st] = Size(st) /\ SizeFn[st] \in Nat
    BY <1>1
  <2>3. SizeOf(T) = SumOf(SizeFn, T)
    BY <2>1, <2>2, SizesAre
  <2> QED
    BY <2>1, <2>2, <2>3, SumTakes
<1>3. ASSUME NEW T \in SUBSET H PROVE SizeOf(T) \in Nat /\ SizeOf(T) <= SizeOf(H)
  <2>1. \A st \in H : SizeFn[st] \in Nat
    BY <1>1
  <2>2. T \in SUBSET Storages
    OBVIOUS
  <2>3. SumOf(SizeFn, T) <= SumOf(SizeFn, H)
    BY <1>2, <2>1, SumOfFewer
  <2> QED
    BY <1>2, <2>2, <2>3
<1>4. ASSUME NEW st \in Storages \ H PROVE SizeOf(H \cup {st}) = SizeOf(H) + Size(st)
  <2>1. H \cup {st} \in SUBSET Storages /\ st \notin H /\ \A x \in H \cup {st} : SizeFn[x] \in Nat
    BY <1>1
  <2>2. SumOf(SizeFn, H \cup {st}) = SumOf(SizeFn, H) + SizeFn[st]
    BY <1>2, <2>1, SumAdds
  <2>3. SizeFn[st] = Size(st)
    BY <1>1
  <2> QED
    BY <1>2, <2>1, <2>2, <2>3
<1> QED
  BY <1>2, <1>3, <1>4

\* With no run going on, only the weights kept are there.
LEMMA UsedIdle ==
  ASSUME WeightsOK, \A v \in DOMAIN slots : slots[v] = None
  PROVE  Used = Bytes(kept)
<1>1. Held = {}
  BY DEF Held, Range
<1>2. Held \cup {Copy(n) : n \in kept} = Copies
  BY <1>1 DEF Copies
<1> DEFINE m == [n \in kept |-> Copy(n)]
           F == [st \in Copies |-> Size(st)]
<1>3. \A n \in kept : n \in Names /\ BytesOf[n] \in Nat
  BY NamesAre DEF WeightsOK
<1>4. \A x, y \in kept : m[x] = m[y] => x = y
  BY DEF Copy
<1>5. \A n \in kept : F[m[n]] = BytesOf[n]
  BY DEF Copies, Size, Copy
<1>6. ImageOf(m, kept) = Copies
  BY DEF Copies, ImageOf
<1>7. kept \in SUBSET Names /\ IsFiniteSet(kept) /\ Bytes(kept) = SumOf(BytesOf, kept)
  BY NamesAre DEF WeightsOK
<1>8. \A st \in Copies : F[st] = Size(st) /\ F[st] \in Nat
  BY <1>3 DEF Copies, Size, Copy
<1> HIDE DEF m, F
<1>11. CarriesOver(m, F, BytesOf, kept)
  BY <1>3, <1>4, <1>5 DEF CarriesOver
<1>9. IsFiniteSet(ImageOf(m, kept)) /\ SumOf(F, ImageOf(m, kept)) = SumOf(BytesOf, kept)
  BY <1>7, <1>11, SumOfImage
<1>10. SizeOf(Copies) = SumOf(F, Copies)
  BY <1>6, <1>8, <1>9, SizesAre
<1> QED
  BY <1>2, <1>6, <1>7, <1>9, <1>10 DEF Used

-----------------------------------------------------------------------------
(* The storages a run holds. *)

\* What is held is storages of this graph, by whose values they are.
LEMMA HeldAre ==
  ASSUME GraphOK, WeightsOK, RunsOK, SlotsOK
  PROVE  Held \in SUBSET Storages /\ DOMAIN slots \in SUBSET Values
<1>1. DOMAIN slots \in SUBSET Values
  BY DEF RunsOK
<1>2. ASSUME NEW v \in DOMAIN slots, slots[v] # None PROVE slots[v] \in Storages
  <2> DEFINE o == Owner(v)
  <2>1. o \in Values
    BY <1>1, OwnerBefore
  <2>2. SlotOK(o, slots[v])
    BY <1>2 DEF SlotsOK
  <2>3. nodes[o].kind = "load" => nodes[o].weight \in Names
    BY <2>1, OpReads
  <2> HIDE DEF o
  <2> QED
    BY <2>1, <2>2, <2>3 DEF SlotOK, Storages
<1> QED
  BY <1>1, <1>2 DEF Held, Range

\* What is used is the sum of what there is.
LEMMA UsedSum ==
  GraphOK /\ WeightsOK /\ RunsOK /\ SlotsOK =>
    Held \cup Copies \in SUBSET Storages /\ Used = SumOf(SizeFn, Held \cup Copies)
<1> SUFFICES ASSUME GraphOK, WeightsOK, RunsOK, SlotsOK
             PROVE  Held \cup Copies \in SUBSET Storages /\ Used = SumOf(SizeFn, Held \cup Copies)
  OBVIOUS
<1>1. Held \cup Copies \in SUBSET Storages
  BY HeldAre, StoragesAre
<1>2. SizeOf(Held \cup Copies) = SumOf(SizeFn, Held \cup Copies)
  BY <1>1, UsedIs
<1> QED
  BY <1>1, <1>2 DEF Used, Copies

\* With nothing held, what is used is the weights.
LEMMA UsedOfWeights ==
  WeightsOK /\ (\A v \in DOMAIN slots : slots[v] = None) => Used = Bytes(kept)
  BY UsedIdle

\* No more is used where there is no more.
LEMMA UsedLess ==
  ASSUME GraphOK, WeightsOK, RunsOK, SlotsOK, Used <= Room,
         GraphOK', WeightsOK', RunsOK', SlotsOK', taken' = taken, Storages' = Storages, SizeFn' = SizeFn,
         (Held \cup Copies)' \in SUBSET (Held \cup Copies)
  PROVE  Used' <= Room'
<1> DEFINE H == Held \cup Copies
           L == (Held \cup Copies)'
           u == Used'
<1>1. H \in SUBSET Storages /\ Used = SumOf(SizeFn, H)
  BY UsedSum
<1>10. (GraphOK /\ WeightsOK /\ RunsOK /\ SlotsOK =>
          Held \cup Copies \in SUBSET Storages /\ Used = SumOf(SizeFn, Held \cup Copies))'
  BY UsedSum, PTL
<1>2. u = SumOf(SizeFn', L)
  BY <1>10
<1>3. IsFiniteSet(H) /\ \A st \in H : SizeFn[st] \in Nat
  BY <1>1, StoragesAre, FS_Subset
<1>4. L \in SUBSET H
  OBVIOUS
<1>5. Room' = Room
  BY DEF Room
<1>6. u = SumOf(SizeFn, L)
  BY <1>2
<1> HIDE DEF H, L, u
<1>7. SumOf(SizeFn, L) \in Nat /\ SumOf(SizeFn, H) \in Nat /\ SumOf(SizeFn, L) <= SumOf(SizeFn, H)
  BY <1>3, <1>4, SumOfFewer
<1>8. Room \in Int
  BY WeightsAssumption DEF Room, WeightsOK
<1>9. u <= Room
  BY <1>1, <1>6, <1>7, <1>8
<1> QED
  BY <1>5, <1>9 DEF u

-----------------------------------------------------------------------------
(* What a step that leaves the graph leaves of what is said of it. *)

\* The graph as it was: what is said of it is the same, whose storage each value is over included.
LEMMA GraphStays ==
  ASSUME nodes' = nodes, outputs' = outputs
  PROVE  /\ Values' = Values /\ Live' = Live /\ Needed' = Needed
         /\ \A v \in Values : Owner(v)' = Owner(v)
         /\ Storages' = Storages /\ SizeFn' = SizeFn
         /\ GraphOK => GraphOK'
<1>1. Values' = Values
  BY DEF Values
<1>2. Live' = Live
  BY DEF Live, IsRoot, Operands, Range
<1>3. Needed' = Needed
  BY DEF Needed, Values, IsRoot, Operands, Range
<1>4. \A v \in Values : Owner(v)' = Owner(v)
  BY DEF Owner, Values
<1>5. Storages' = Storages
  BY <1>1 DEF Storages
<1>6. SizeFn' = SizeFn
  BY <1>5 DEF SizeFn
<1>7. GraphOK => GraphOK'
  BY <1>1 DEF GraphOK, OpOK
<1> QED
  BY <1>1, <1>2, <1>3, <1>4, <1>5, <1>6, <1>7

\* What is said of instructions is said of them still.
LEMMA CodeStays ==
  ASSUME nodes' = nodes, outputs' = outputs, NEW s, insts' = s
  PROVE  /\ CodeOK(s) => CodeOK(insts)'
         /\ HeldBefore(insts, ip)' = HeldBefore(s, ip')
         /\ DrawsBefore(ip)' = {v \in RunBy(s, ip') : nodes[v].kind = "draw"}
<1>1. Values' = Values /\ Live' = Live
  BY GraphStays
<1>2. CodeOK(s) => CodeOK(insts)'
  <2> SUFFICES ASSUME CodeOK(s) PROVE CodeOK(insts)'
    OBVIOUS
  <2>1. \A p : RunBy(insts, p)' = RunBy(s, p)
    BY <1>1 DEF RunBy
  <2>2. \A p : FreedBy(insts, p)' = FreedBy(s, p)
    BY <1>1 DEF FreedBy
  <2>3. \A p : HeldBefore(insts, p)' = HeldBefore(s, p)
    BY <2>1, <2>2 DEF HeldBefore
  <2>4. \A v : ReadLater(v)' = ReadLater(v)
    BY <1>1 DEF ReadLater, Operands, Range
  <2>5. ASSUME NEW p \in DOMAIN s PROVE s[p].value \in Values /\ (s[p].inst = "run" => RunOK(insts, p)')
    <3>1. s[p].value \in Values /\ (s[p].inst = "run" => RunOK(s, p))
      BY DEF CodeOK, CodeRight
    <3>2. RunOK(s, p) => RunOK(insts, p)'
      BY <1>1, <2>1, <2>2, <2>3, <2>4 DEF RunOK
    <3> QED
      BY <3>1, <3>2
  <2>6. CodeRight(insts)'
    BY <1>1, <2>5 DEF CodeRight
  <2> QED
    BY <1>1, <2>1, <2>3, <2>6 DEF CodeOK
<1>3. HeldBefore(insts, ip)' = HeldBefore(s, ip')
  BY <1>1 DEF HeldBefore, RunBy, FreedBy
<1>4. DrawsBefore(ip)' = {v \in RunBy(s, ip') : nodes[v].kind = "draw"}
  BY <1>1 DEF DrawsBefore, RunBy
<1> QED
  BY <1>2, <1>3, <1>4

-----------------------------------------------------------------------------
(* One instruction. *)

\* What an instruction adds to what those before it did.
LEMMA OneMore ==
  ASSUME NEW s \in Seq(Insts), NEW p \in DOMAIN s
  PROVE  /\ p \in Nat /\ p >= 1 /\ p <= Len(s) /\ Len(s) \in Nat
         /\ s[p] = [inst |-> s[p].inst, value |-> s[p].value] /\ s[p].inst \in {"run", "free"}
         /\ RunBy(s, p + 1) = RunBy(s, p) \cup {v \in Values : s[p] = Run(v)}
         /\ FreedBy(s, p + 1) = FreedBy(s, p) \cup {v \in Values : s[p] = Free(v)}
<1>1. p \in Nat /\ p >= 1 /\ p <= Len(s) /\ Len(s) \in Nat
  OBVIOUS
<1>2. s[p] \in Insts
  OBVIOUS
<1>3. s[p] = [inst |-> s[p].inst, value |-> s[p].value] /\ s[p].inst \in {"run", "free"}
  BY <1>2 DEF Insts
<1>4. 1..((p + 1) - 1) = (1..(p - 1)) \cup {p}
  BY <1>1
<1>5. RunBy(s, p + 1) = RunBy(s, p) \cup {v \in Values : s[p] = Run(v)}
  BY <1>4 DEF RunBy
<1>6. FreedBy(s, p + 1) = FreedBy(s, p) \cup {v \in Values : s[p] = Free(v)}
  BY <1>4 DEF FreedBy
<1> QED
  BY <1>1, <1>3, <1>5, <1>6

\* A run under way, at an instruction of its own.
LEMMA Running ==
  ASSUME GraphOK, RunsOK, ip > 0
  PROVE  /\ ip \in Nat /\ Len(insts) \in Nat /\ ip <= Len(insts) + 1 /\ outcome = "running"
         /\ CodeOK(insts) /\ insts \in Seq(Insts) /\ DOMAIN slots = Values /\ ~Building
         /\ {v \in Values : slots[v] # None} = HeldBefore(insts, ip) /\ DrawnOK(drawn, ip)
<1>1. ~Building
  BY DEF RunsOK
<1>2. CodeOK(insts) /\ insts \in Seq(Insts)
  BY <1>1 DEF RunsOK, CodeOK
<1>3. Len(insts) \in Nat
  BY <1>2
<1> QED
  BY <1>1, <1>2, <1>3 DEF RunsOK

\* An instruction that runs a node: what it reads is held, what it makes is not yet.
LEMMA AtRun ==
  ASSUME GraphOK, RunsOK, At("run")
  PROVE  /\ ip > 0 /\ ip \in DOMAIN insts /\ ip + 1 \in 0..(Len(insts) + 1)
         /\ Value \in Live /\ Value \in Values
         /\ HeldBefore(insts, ip) = ReadLater(Value)
         /\ slots[Value] = None /\ \A u \in Values : slots[u] # None => u < Value
         /\ \A u \in Operands(Value) : u \in Values /\ slots[u] # None
         /\ HeldBefore(insts, ip + 1) = HeldBefore(insts, ip) \cup {Value}
         /\ DrawsBefore(ip + 1) = DrawsBefore(ip) \cup (IF nodes[Value].kind = "draw" THEN {Value} ELSE {})
         /\ \A u \in DrawsBefore(ip) : u < Value
<1> DEFINE v == Value
<1>1. ip \in Nat
  BY GraphSize DEF At, RunsOK
<1>2. ip > 0 /\ ip \in DOMAIN insts /\ insts \in Seq(Insts) /\ insts[ip].inst = "run"
  <2>1. insts # <<>>
    BY DEF At
  <2>2. insts \in Seq(Insts)
    BY <2>1 DEF RunsOK, Building, CodeOK
  <2> QED
    BY <1>1, <2>2 DEF At
<1>3. CodeOK(insts) /\ DOMAIN slots = Values /\ {u \in Values : slots[u] # None} = HeldBefore(insts, ip)
  BY <1>2, Running
<1>4. v \in Values /\ RunOK(insts, ip)
  BY <1>2, <1>3 DEF CodeOK, CodeRight, Value
<1>5. /\ v \in Live /\ HeldBefore(insts, ip) = ReadLater(v) /\ RunBy(insts, ip) = {u \in Live : u < v}
      /\ v \notin FreedBy(insts, ip)
  BY <1>4 DEF RunOK, Value
<1>6. /\ insts[ip] = Run(v) /\ ip <= Len(insts) /\ Len(insts) \in Nat
      /\ RunBy(insts, ip + 1) = RunBy(insts, ip) \cup {u \in Values : insts[ip] = Run(u)}
      /\ FreedBy(insts, ip + 1) = FreedBy(insts, ip) \cup {u \in Values : insts[ip] = Free(u)}
  BY <1>2, OneMore DEF Run, Value
<1> HIDE DEF v
<1>7. {u \in Values : insts[ip] = Run(u)} = {v} /\ {u \in Values : insts[ip] = Free(u)} = {}
  BY <1>4, <1>6 DEF Run, Free
<1>8. RunBy(insts, ip + 1) = RunBy(insts, ip) \cup {v} /\ FreedBy(insts, ip + 1) = FreedBy(insts, ip)
  BY <1>6, <1>7
<1>9. HeldBefore(insts, ip + 1) = HeldBefore(insts, ip) \cup {v}
  BY <1>5, <1>8 DEF HeldBefore
<1>10. v \in Nat /\ \A u \in Values : u \in Nat
  BY <1>4, GraphSize
<1>11. \A u \in Values : slots[u] # None => u < v
  BY <1>3, <1>5 DEF ReadLater
<1>12. slots[v] = None
  BY <1>4, <1>10, <1>11
<1>13. \A u \in Operands(v) : u \in Values /\ slots[u] # None
  <2> SUFFICES ASSUME NEW u \in Operands(v) PROVE u \in Values /\ slots[u] # None
    OBVIOUS
  <2>1. u \in 1..(v - 1) /\ u \in Values /\ u \in Live
    BY <1>4, <1>5, OpReads, LiveIsClosed
  <2>2. u < v /\ v >= v
    BY <1>10, <2>1
  <2>3. u \in ReadLater(v)
    BY <1>5, <2>1, <2>2 DEF ReadLater
  <2> QED
    BY <1>3, <1>5, <2>1, <2>3
<1>14. DrawsBefore(ip + 1) = DrawsBefore(ip) \cup (IF nodes[v].kind = "draw" THEN {v} ELSE {})
  BY <1>8 DEF DrawsBefore
<1>15. \A u \in DrawsBefore(ip) : u < v
  BY <1>5 DEF DrawsBefore
<1>16. ip + 1 \in 0..(Len(insts) + 1)
  BY <1>1, <1>6
<1> QED
  BY <1>2, <1>4, <1>5, <1>9, <1>11, <1>12, <1>13, <1>14, <1>15, <1>16 DEF v

\* An instruction that frees a value.
LEMMA AtFree ==
  ASSUME GraphOK, RunsOK, At("free")
  PROVE  /\ ip > 0 /\ ip \in DOMAIN insts /\ ip + 1 \in 0..(Len(insts) + 1) /\ Value \in Values
         /\ HeldBefore(insts, ip + 1) = HeldBefore(insts, ip) \ {Value}
         /\ DrawsBefore(ip + 1) = DrawsBefore(ip)
<1> DEFINE v == Value
<1>1. ip \in Nat
  BY GraphSize DEF At, RunsOK
<1>2. ip > 0 /\ ip \in DOMAIN insts /\ insts \in Seq(Insts) /\ insts[ip].inst = "free"
  <2>1. insts # <<>>
    BY DEF At
  <2>2. insts \in Seq(Insts)
    BY <2>1 DEF RunsOK, Building, CodeOK
  <2> QED
    BY <1>1, <2>2 DEF At
<1>3. CodeOK(insts)
  BY <1>2, Running
<1>4. v \in Values
  BY <1>2, <1>3 DEF CodeOK, CodeRight, Value
<1>6. /\ insts[ip] = Free(v) /\ ip <= Len(insts) /\ Len(insts) \in Nat
      /\ RunBy(insts, ip + 1) = RunBy(insts, ip) \cup {u \in Values : insts[ip] = Run(u)}
      /\ FreedBy(insts, ip + 1) = FreedBy(insts, ip) \cup {u \in Values : insts[ip] = Free(u)}
  BY <1>2, OneMore DEF Free, Value
<1> HIDE DEF v
<1>7. {u \in Values : insts[ip] = Free(u)} = {v} /\ {u \in Values : insts[ip] = Run(u)} = {}
  BY <1>4, <1>6 DEF Run, Free
<1>8. RunBy(insts, ip + 1) = RunBy(insts, ip) /\ FreedBy(insts, ip + 1) = FreedBy(insts, ip) \cup {v}
  BY <1>6, <1>7
<1>9. HeldBefore(insts, ip + 1) = HeldBefore(insts, ip) \ {v}
  BY <1>8 DEF HeldBefore
<1>10. DrawsBefore(ip + 1) = DrawsBefore(ip)
  BY <1>8 DEF DrawsBefore
<1>11. ip + 1 \in 0..(Len(insts) + 1)
  BY <1>1, <1>6
<1> QED
  BY <1>2, <1>4, <1>9, <1>10, <1>11 DEF v

\* What a node's result is over: a storage it is right for, and that of all else it is shared with.
LEMMA ResultIs ==
  ASSUME GraphOK, WeightsOK, RunsOK, SlotsOK, At("run")
  PROVE  /\ SlotOK(Owner(Value), Result) /\ Result \in Storages /\ Result # None
         /\ \A u \in Values : slots[u] # None /\ Owner(u) = Owner(Value) => slots[u] = Result
<1> DEFINE v == Value
           k == nodes[v].kind
<1>1. /\ v \in Values /\ (\A u \in Values : slots[u] # None => u < v)
      /\ \A u \in Operands(v) : u \in Values /\ slots[u] # None
  BY AtRun
<1>2. DOMAIN slots = Values
  BY AtRun, Running
<1>3. Owner(v) = IF k = "view" THEN Owner(nodes[v].operands[1]) ELSE v
  BY <1>1, OwnerIs
<1>4. /\ SlotOK(Owner(v), Result)
      /\ \A u \in Values : slots[u] # None /\ Owner(u) = Owner(v) => slots[u] = Result
  <2>1. CASE k = "view"
    <3> DEFINE w == nodes[v].operands[1]
    <3>1. nodes[v].operands = <<w>>
      BY <1>1, <2>1, OpReads
    <3>2. w \in Operands(v)
      BY <3>1 DEF Operands, Range
    <3>3. Result = slots[w]
      BY <2>1 DEF Result, Node
    <3>4. slots[w] # None /\ Owner(v) = Owner(w) /\ w \in Values
      BY <1>1, <1>3, <2>1, <3>2
    <3> HIDE DEF w, v
    <3> QED
      BY <1>2, <3>3, <3>4 DEF SlotsOK
  <2>2. CASE k # "view"
    <3>1. Owner(v) = v /\ \A u \in Values : slots[u] # None => Owner(u) # v
      <4>1. \A u \in Values : Owner(u) \in Values /\ Owner(u) <= u
        BY OwnerBefore
      <4>2. \A u \in Values : u \in Nat
        BY GraphSize
      <4> HIDE DEF v
      <4>3. \A u \in Values : slots[u] # None => Owner(u) # v
        BY <1>1, <4>1, <4>2
      <4> QED
        BY <1>3, <2>2, <4>3
    <3>2. SlotOK(v, Result)
      BY <2>2 DEF SlotOK, Result, Node
    <3> QED
      BY <3>1, <3>2
  <2> QED
    BY <2>1, <2>2
<1>5. Owner(v) \in Values
  BY <1>1, OwnerBefore
<1>6. nodes[Owner(v)].kind = "load" => nodes[Owner(v)].weight \in Names
  BY <1>5, OpReads
<1>7. Result \in Storages
  BY <1>4, <1>5, <1>6 DEF SlotOK, Storages
<1>8. Result # None
  BY <1>7, StoragesAre
<1> QED
  BY <1>4, <1>7, <1>8

\* One draw more, later than all before it.
LEMMA OneMoreDraw ==
  ASSUME NEW d \in Seq(Nat), Ascends(d), NEW v \in Nat, \A u \in Range(d) : u < v
  PROVE  Append(d, v) \in Seq(Nat) /\ Range(Append(d, v)) = Range(d) \cup {v} /\ Ascends(Append(d, v))
<1> DEFINE t == Append(d, v)
<1>1. /\ t \in Seq(Nat) /\ DOMAIN t = 1..(Len(d) + 1) /\ DOMAIN d = 1..Len(d) /\ Len(d) \in Nat
      /\ t[Len(d) + 1] = v /\ \A i \in 1..Len(d) : t[i] = d[i]
  OBVIOUS
<1> HIDE DEF t
<1>2. Range(t) = Range(d) \cup {v}
  <2>1. \A i \in DOMAIN t : i \in DOMAIN d \/ i = Len(d) + 1
    BY <1>1
  <2>2. Len(d) + 1 \in DOMAIN t /\ \A i \in DOMAIN d : i \in DOMAIN t
    BY <1>1
  <2> QED
    BY <1>1, <2>1, <2>2 DEF Range
<1>3. Ascends(t)
  <2> SUFFICES ASSUME NEW i \in DOMAIN t, NEW j \in DOMAIN t, i < j PROVE t[i] < t[j]
    BY DEF Ascends
  <2>1. i \in DOMAIN d
    BY <1>1
  <2>2. d[i] \in Range(d) /\ t[i] = d[i]
    BY <1>1, <2>1 DEF Range
  <2>3. CASE j = Len(d) + 1
    BY <1>1, <2>2, <2>3
  <2>4. CASE j # Len(d) + 1
    <3>1. j \in DOMAIN d /\ t[j] = d[j]
      BY <1>1, <2>4
    <3> QED
      BY <2>1, <2>2, <3>1 DEF Ascends
  <2> QED
    BY <2>3, <2>4
<1> QED
  BY <1>1, <1>2, <1>3 DEF t

-----------------------------------------------------------------------------
(* Init. *)

\* What is moved to the device fits there.
LEMMA MovedFits ==
  ASSUME NEW chosen \in SUBSET Names, taken \in 0..Capacity
  PROVE  Moved(chosen) \in SUBSET chosen /\ Bytes(Moved(chosen)) <= Capacity - taken
<1> DEFINE M == Moved(chosen)
           Q == {X \in SUBSET M : X = {} \/ \E n \in X : \A m \in X : PlaceOf(m) <= PlaceOf(n)}
<1>1. M \in SUBSET chosen /\ M \in SUBSET Names
  BY DEF Moved
<1>2. \A n \in Names : PlaceOf(n) \in Nat
  <2> SUFFICES ASSUME NEW n \in Names PROVE PlaceOf(n) \in Nat
    OBVIOUS
  <2>1. \E i \in DOMAIN Package : Package[i] = n
    BY WeightsAssumption
  <2>2. PlaceOf(n) \in DOMAIN Package
    BY <2>1, Zenon DEF PlaceOf
  <2> QED
    BY <2>2, WeightsAssumption
<1>3. \A n \in M : Bytes({m \in chosen : PlaceOf(m) <= PlaceOf(n)}) <= Capacity - taken
  BY DEF Moved
<1> HIDE DEF M
<1>4. {} \in Q
  OBVIOUS
<1>5. ASSUME NEW T \in SUBSET M, NEW x \in M \ T, T \in Q PROVE T \cup {x} \in Q
  <2>1. \A m \in T \cup {x} : PlaceOf(m) \in Nat
    BY <1>1, <1>2
  <2>2. CASE T = {}
    BY <2>1, <2>2
  <2>3. CASE T # {}
    <3>1. PICK n \in T : \A m \in T : PlaceOf(m) <= PlaceOf(n)
      BY <1>5, <2>3
    <3>2. CASE PlaceOf(x) <= PlaceOf(n)
      BY <3>1, <3>2
    <3>3. CASE ~(PlaceOf(x) <= PlaceOf(n))
      <4>1. \A m \in T \cup {x} : PlaceOf(m) <= PlaceOf(x)
        BY <2>1, <3>1, <3>3
      <4> QED
        BY <4>1
    <3> QED
      BY <3>2, <3>3
  <2> QED
    BY <2>2, <2>3
<1>6. IsFiniteSet(M) /\ Bytes(M) = SumOf(BytesOf, M)
  BY <1>1, NamesAre
<1> HIDE DEF Q
<1>7. M \in Q
  BY <1>4, <1>5, <1>6, Growing
<1>8. CASE M = {}
  <2>1. Bytes(M) = 0
    BY <1>6, <1>8, SumEmpty
  <2> QED
    BY <1>1, <2>1, WeightsAssumption DEF M
<1>9. CASE M # {}
  <2>1. PICK n \in M : \A m \in M : PlaceOf(m) <= PlaceOf(n)
    BY <1>7, <1>9 DEF Q
  <2> DEFINE X == {m \in chosen : PlaceOf(m) <= PlaceOf(n)}
  <2>2. M \in SUBSET X /\ X \in SUBSET Names /\ Bytes(X) <= Capacity - taken
    BY <1>1, <1>3, <2>1
  <2> HIDE DEF X
  <2>3. IsFiniteSet(X) /\ Bytes(X) = SumOf(BytesOf, X) /\ \A y \in X : BytesOf[y] \in Nat
    BY <2>2, NamesAre
  <2>4. SumOf(BytesOf, M) \in Nat /\ SumOf(BytesOf, X) \in Nat /\ SumOf(BytesOf, M) <= SumOf(BytesOf, X)
    BY <2>2, <2>3, SumOfFewer
  <2>5. Capacity - taken \in Int
    BY WeightsAssumption
  <2> QED
    BY <1>1, <1>6, <2>2, <2>3, <2>4, <2>5 DEF M
<1> QED
  BY <1>8, <1>9

\* Nothing is written yet, and what was moved to the device fits there.
LEMMA IrStarts == Init => IrInv
<1> SUFFICES ASSUME Init PROVE IrInv
  OBVIOUS
<1>1. nodes = <<>> /\ outputs = {} /\ insts = <<>> /\ slots = <<>> /\ ip = 0 /\ outcome = "none"
  BY DEF Init
<1>2. taken \in 0..Capacity
  BY WeightsAssumption DEF Init, InitWeights
<1>3. PICK ask \in Asks : allowed = Lesser(ask, Share) /\ kept = Moved(SmallestWithin(allowed))
  BY DEF Init, InitWeights
<1>4. allowed \in Nat
  BY <1>3, WeightsAssumption DEF Lesser
<1>5. SmallestWithin(allowed) \in SUBSET Names
  BY DEF SmallestWithin
<1>6. kept \in SUBSET Names /\ Bytes(kept) <= Capacity - taken
  <2>1. Moved(SmallestWithin(allowed)) \in SUBSET SmallestWithin(allowed)
        /\ Bytes(Moved(SmallestWithin(allowed))) <= Capacity - taken
    BY <1>2, <1>5, MovedFits
  <2> QED
    BY <1>3, <1>5, <2>1
<1>7. WeightsOK
  BY <1>2, <1>4, <1>6 DEF WeightsOK
<1>8. Values = {} /\ Len(nodes) = 0
  BY <1>1 DEF Values
<1>9. GraphOK
  BY <1>1, <1>8 DEF GraphOK
<1>10. RunsOK
  BY <1>1, <1>8 DEF RunsOK, Outcomes, Building
<1>11. SlotsOK
  BY <1>1 DEF SlotsOK
<1>12. Used = Bytes(kept)
  BY <1>1, <1>7, UsedOfWeights
<1> QED
  BY <1>6, <1>7, <1>9, <1>10, <1>11, <1>12 DEF IrInv, Room

-----------------------------------------------------------------------------
(* Writing. *)

\* An operation added to the graph, over what is there.
LEMMA PushKeeps ==
  ASSUME IrInv, NEW op, Push(op), op \in [kind : Kinds, weight : Nat, operands : Seq(Nat)],
         \/ op \in {Op("input", 0, <<>>), Op("draw", 0, <<>>)}
         \/ \E n \in Names : op = Op("load", n, <<>>)
         \/ \E u \in Values : op = Op("view", 0, <<u>>)
         \/ \E u, w \in Values : op = Op("add", 0, <<u, w>>),
         op.kind = "load" => \A v \in Values : nodes[v].weight # op.weight
  PROVE  IrInv'
<1> DEFINE N == Len(nodes)
<1>1. GraphOK /\ RunsOK /\ WeightsOK
  BY DEF IrInv
<1>2. N \in Nat /\ Values = 1..N /\ Building
  BY <1>1, GraphSize DEF Push
<1> DEFINE R == [kind : Kinds, weight : Nat, operands : Seq(Nat)]
<1>3. nodes \in Seq(R) /\ op \in R
  BY <1>1 DEF GraphOK
<1> HIDE DEF R
<1>4. /\ nodes' \in Seq(R) /\ Len(nodes') = N + 1 /\ nodes'[N + 1] = op
      /\ \A v \in Values : nodes'[v] = nodes[v]
  BY <1>2, <1>3 DEF Push
<1>5. Values' = 1..(N + 1) /\ Values' = Values \cup {N + 1} /\ N + 1 \notin Values /\ outputs' = outputs
  BY <1>2, <1>4 DEF Push, Values
<1>6. \A v \in Values' : OpOK(v)'
  <2>1. ASSUME NEW v \in Values PROVE OpOK(v)'
    <3>1. OpOK(v) /\ nodes'[v] = nodes[v]
      BY <1>1, <1>4 DEF GraphOK
    <3> QED
      BY <3>1 DEF OpOK
  <2>2. PICK k : k = N + 1
    OBVIOUS
  <2>3. OpOK(k)'
    <3>1. nodes'[k] = op /\ k - 1 = N
      BY <1>2, <1>4, <2>2
    <3> HIDE DEF N
    <3>2. \/ op \in {Op("input", 0, <<>>), Op("draw", 0, <<>>)}
          \/ \E n \in Names : op = Op("load", n, <<>>)
          \/ \E u \in 1..(k - 1) : op = Op("view", 0, <<u>>)
          \/ \E u, w \in 1..(k - 1) : op = Op("add", 0, <<u, w>>)
      BY <1>2, <3>1
    <3> QED
      BY <3>1, <3>2 DEF OpOK
  <2>4. \A v \in Values' : v \in Values \/ v = k
    BY <1>5, <2>2
  <2> QED
    BY <2>1, <2>3, <2>4
<1>7. \A u, v \in Values' : u # v /\ nodes'[u].kind = "load" /\ nodes'[v].kind = "load"
                             => nodes'[u].weight # nodes'[v].weight
  <2>1. \A u, v \in Values : u # v /\ nodes[u].kind = "load" /\ nodes[v].kind = "load"
                             => nodes[u].weight # nodes[v].weight
    BY <1>1 DEF GraphOK
  <2> HIDE DEF N
  <2> QED
    BY <1>4, <1>5, <2>1
<1>8. GraphOK'
  BY <1>1, <1>4, <1>5, <1>6, <1>7 DEF GraphOK, R
<1>9. WeightsOK' /\ Room' = Room /\ kept' = kept
  BY <1>1 DEF WeightsOK, weights, Push, Room
<1>10. slots' = <<>> /\ ip' = 0 /\ outcome' = "none" /\ insts' = <<>>
  BY <1>1, <1>2 DEF RunsOK, Push, Building
<1>11. RunsOK'
  BY <1>10 DEF RunsOK, Building, Outcomes
<1>12. SlotsOK'
  BY <1>10 DEF SlotsOK
<1>13. \A v \in DOMAIN slots : slots[v] = None
  BY <1>1, <1>2 DEF RunsOK
<1>14. Used = Bytes(kept)
  BY <1>1, <1>13, UsedOfWeights
<1>15. (WeightsOK /\ (\A v \in DOMAIN slots : slots[v] = None) => Used = Bytes(kept))'
  BY UsedOfWeights, PTL
<1>16. Used' = Bytes(kept')
  BY <1>9, <1>10, <1>15
<1>17. Used' <= Room'
  BY <1>9, <1>14, <1>16 DEF IrInv
<1> QED
  BY <1>8, <1>9, <1>11, <1>12, <1>17 DEF IrInv

\* Each operation is one a node may be.
LEMMA WriteKeeps ==
  ASSUME IrInv, Write
  PROVE  IrInv'
<1> DEFINE R == [kind : Kinds, weight : Nat, operands : Seq(Nat)]
<1>1. GraphOK /\ RunsOK /\ WeightsOK /\ SlotsOK
  BY DEF IrInv
<1>2. \A v \in Values : v \in Nat
  BY <1>1, GraphSize
<1>3. CASE Input
  <2>1. Op("input", 0, <<>>) \in R
    BY DEF Op, Kinds
  <2> QED
    BY <1>3, <2>1, PushKeeps DEF Input, Op
<1>4. CASE Draw
  <2>1. Op("draw", 0, <<>>) \in R
    BY DEF Op, Kinds
  <2> QED
    BY <1>4, <2>1, PushKeeps DEF Draw, Op
<1>5. ASSUME NEW n \in Names, Load(n) PROVE IrInv'
  <2>1. n \in Nat
    BY NamesAre
  <2>2. Op("load", n, <<>>) \in R
    BY <2>1 DEF Op, Kinds
  <2>3. \A v \in Values : nodes[v].weight # Op("load", n, <<>>).weight
    BY <1>5 DEF Load, Op
  <2> QED
    BY <1>5, <2>2, <2>3, PushKeeps DEF Load
<1>6. ASSUME NEW v \in Values, View(v) PROVE IrInv'
  <2>1. Op("view", 0, <<v>>) \in R /\ Op("view", 0, <<v>>).kind # "load"
    BY <1>2 DEF Op, Kinds
  <2> QED
    BY <1>6, <2>1, PushKeeps DEF View
<1>7. ASSUME NEW v \in Values, NEW u \in Values, Add(u, v) PROVE IrInv'
  <2>1. Op("add", 0, <<u, v>>) \in R /\ Op("add", 0, <<u, v>>).kind # "load"
    BY <1>2 DEF Op, Kinds
  <2> QED
    BY <1>7, <2>1, PushKeeps DEF Add
<1>9. (WeightsOK /\ (\A v \in DOMAIN slots : slots[v] = None) => Used = Bytes(kept))'
  BY UsedOfWeights, PTL
<1>8. ASSUME NEW v \in Values, Output(v) PROVE IrInv'
  <2>1. /\ Building /\ outputs' = outputs \cup {v} /\ nodes' = nodes /\ taken' = taken /\ allowed' = allowed
        /\ kept' = kept /\ insts' = insts /\ slots' = slots /\ ip' = ip /\ drawn' = drawn
        /\ outcome' = outcome
    BY <1>8 DEF Output, weights
  <2>2. slots = <<>> /\ ip = 0 /\ outcome = "none" /\ insts = <<>>
    BY <1>1, <2>1 DEF RunsOK, Building
  <2>3. Values' = Values
    BY <2>1 DEF Values
  <2>4. GraphOK'
    BY <1>1, <2>1, <2>3 DEF GraphOK, OpOK
  <2>5. WeightsOK' /\ Room' = Room
    BY <1>1, <2>1 DEF WeightsOK, Room
  <2>6. RunsOK' /\ SlotsOK'
    BY <2>1, <2>2 DEF RunsOK, SlotsOK, Building, Outcomes
  <2>7. Used = Bytes(kept)
    BY <1>1, <2>2, UsedOfWeights
  <2>9. Used' = Bytes(kept')
    BY <1>9, <2>1, <2>2, <2>5
  <2>10. Used' <= Room'
    BY <2>1, <2>5, <2>7, <2>9 DEF IrInv
  <2> QED
    BY <2>4, <2>5, <2>6, <2>10 DEF IrInv
<1> QED
  BY <1>3, <1>4, <1>5, <1>6, <1>7, <1>8 DEF Write

-----------------------------------------------------------------------------
(* Compiling and running: the graph is as it was. *)

\* A step that leaves the graph, and holds no more.
LEMMA NoMore ==
  ASSUME IrInv, nodes' = nodes, outputs' = outputs, taken' = taken, WeightsOK', RunsOK', SlotsOK',
         (Held \cup Copies)' \in SUBSET (Held \cup Copies)
  PROVE  IrInv'
<1>1. GraphOK /\ WeightsOK /\ RunsOK /\ SlotsOK /\ Used <= Room
  BY DEF IrInv
<1>2. GraphOK' /\ Storages' = Storages /\ SizeFn' = SizeFn
  BY <1>1, GraphStays
<1>3. Used' <= Room'
  BY <1>1, <1>2, UsedLess
<1> QED
  BY <1>2, <1>3 DEF IrInv

\* Nothing is held when every slot is empty.
LEMMA NoneHeld ==
  ASSUME \A v \in DOMAIN slots' : slots'[v] = None
  PROVE  Held' = {} /\ SlotsOK'
<1> QED
  BY DEF Held, Range, SlotsOK, None

\* A compilation of the graph written, which nothing has run yet.
LEMMA CompileKeeps ==
  ASSUME IrInv, Compile
  PROVE  IrInv'
<1> DEFINE s == FoldLeft(Emitted, [insts |-> <<>>, remaining |-> Remaining], [v \in Values |-> v]).insts
<1>1. GraphOK /\ WeightsOK /\ RunsOK /\ SlotsOK
  BY DEF IrInv
<1>2. CodeOK(s)
  BY <1>1, CompiledRight
<1>3. /\ Building /\ Live # {} /\ insts' = s /\ slots' = [v \in Values |-> None]
      /\ taken' = taken /\ allowed' = allowed /\ kept' = kept /\ nodes' = nodes /\ outputs' = outputs
      /\ ip' = ip /\ drawn' = drawn /\ outcome' = outcome
  BY DEF Compile, weights, graph
<1> HIDE DEF s
<1>4. s # <<>>
  <2>1. RunBy(s, Len(s) + 1) = Live /\ s \in Seq(Insts)
    BY <1>2 DEF CodeOK
  <2>2. PICK i \in 1..((Len(s) + 1) - 1) : TRUE
    BY <1>3, <2>1 DEF RunBy
  <2> QED
    BY <2>1, <2>2
<1>5. Values' = Values /\ CodeOK(insts)'
  BY <1>2, <1>3, GraphStays, CodeStays
<1>6. ip = 0 /\ outcome = "none"
  BY <1>1, <1>3 DEF RunsOK
<1>7. Len(s) \in Nat
  BY <1>2 DEF CodeOK
<1>8. RunsOK'
  <2>1. ~Building' /\ insts' = s /\ DOMAIN slots' = Values'
    BY <1>3, <1>4, <1>5 DEF Building
  <2>2. \A v \in DOMAIN slots' : slots'[v] = None
    BY <1>3
  <2>3. ip' = 0 /\ outcome' = "none" /\ ip' \in 0..(Len(insts') + 1)
    BY <1>3, <1>6, <1>7
  <2> QED
    BY <1>5, <2>1, <2>2, <2>3 DEF RunsOK, Outcomes
<1>9. Held' = {} /\ SlotsOK'
  BY <1>3, NoneHeld
<1>10. WeightsOK' /\ Copies' = Copies
  BY <1>1, <1>3 DEF WeightsOK, Copies
<1> QED
  BY <1>3, <1>8, <1>9, <1>10, NoMore

\* No instruction yet: nothing ran.
LEMMA AtFirst ==
  ASSUME NEW s
  PROVE  RunBy(s, 1) = {} /\ HeldBefore(s, 1) = {}
<1>1. 1..(1 - 1) = {}
  OBVIOUS
<1> QED
  BY <1>1 DEF RunBy, HeldBefore

\* A run begun or refused, with nothing held.
LEMMA StartKeeps ==
  ASSUME IrInv, NEW given, Start(given)
  PROVE  IrInv'
<1>1. GraphOK /\ WeightsOK /\ RunsOK /\ SlotsOK
  BY DEF IrInv
<1>2. /\ ~Building /\ ip = 0 /\ drawn' = <<>> /\ taken' = taken /\ allowed' = allowed /\ kept' = kept
      /\ nodes' = nodes /\ outputs' = outputs /\ insts' = insts /\ slots' = slots
      /\ (ip' = 1 /\ outcome' = "running") \/ (ip' = 0 /\ outcome' = "refused")
  BY DEF Start, weights, graph
<1>3. CodeOK(insts) /\ DOMAIN slots = Values /\ \A v \in DOMAIN slots : slots[v] = None
  BY <1>1, <1>2 DEF RunsOK
<1>4. Values' = Values /\ CodeOK(insts)' /\ HeldBefore(insts, ip)' = HeldBefore(insts, ip')
      /\ DrawsBefore(ip)' = {v \in RunBy(insts, ip') : nodes[v].kind = "draw"}
  BY <1>2, <1>3, GraphStays, CodeStays
<1>5. Len(insts) \in Nat
  BY <1>3 DEF CodeOK
<1>6. ~Building' /\ DOMAIN slots' = Values' /\ ip' \in 0..(Len(insts') + 1) /\ outcome' \in Outcomes
  BY <1>2, <1>3, <1>4, <1>5 DEF Building, Outcomes
<1>7. RunsOK'
  <2>1. CASE ip' = 1 /\ outcome' = "running"
    <3>1. HeldBefore(insts, ip)' = {} /\ DrawsBefore(ip)' = {}
      BY <1>4, <2>1, AtFirst
    <3>2. {v \in Values : slots[v] # None}' = {}
      BY <1>2, <1>3, <1>4
    <3>3. DrawnOK(drawn, ip)'
      BY <1>2, <3>1 DEF DrawnOK, Range, Ascends
    <3> QED
      BY <1>4, <1>6, <2>1, <3>1, <3>2, <3>3 DEF RunsOK
  <2>2. CASE ip' = 0 /\ outcome' = "refused"
    BY <1>2, <1>3, <1>4, <1>6, <2>2 DEF RunsOK
  <2> QED
    BY <1>2, <2>1, <2>2
<1>8. SlotsOK' /\ Held' = {}
  BY <1>2, <1>3, NoneHeld
<1>9. WeightsOK' /\ Copies' = Copies
  BY <1>1, <1>2 DEF WeightsOK, Copies
<1> QED
  BY <1>2, <1>7, <1>8, <1>9, NoMore

\* A run that ends: well only past its last instruction.
LEMMA EndsKeeps ==
  ASSUME IrInv, ip > 0, NEW how \in {"full", "failed", "done"}, Ends(how),
         how = "done" => ip = Len(insts) + 1
  PROVE  IrInv'
<1>1. GraphOK /\ WeightsOK /\ RunsOK /\ SlotsOK
  BY DEF IrInv
<1>2. /\ outcome' = how /\ ip' = 0 /\ slots' = [v \in Values |-> None] /\ drawn' = drawn
      /\ taken' = taken /\ allowed' = allowed /\ kept' = kept
      /\ nodes' = nodes /\ outputs' = outputs /\ insts' = insts
  BY DEF Ends, weights, graph
<1>3. ~Building /\ CodeOK(insts) /\ Len(insts) \in Nat /\ DrawnOK(drawn, ip)
  BY <1>1, Running
<1>4. Values' = Values /\ CodeOK(insts)'
  BY <1>2, <1>3, GraphStays, CodeStays
<1>5. how = "done" => DrawnOK(drawn, Len(insts) + 1)'
  <2> SUFFICES ASSUME how = "done" PROVE DrawnOK(drawn, Len(insts) + 1)'
    OBVIOUS
  <2> DEFINE p == Len(insts) + 1
  <2>1. DrawnOK(drawn, p)
    BY <1>3
  <2>2. DrawsBefore(p)' = DrawsBefore(p)
    BY <1>2, <1>4 DEF DrawsBefore, RunBy
  <2> HIDE DEF p
  <2>3. drawn \in Seq(Nat) /\ Range(drawn) = DrawsBefore(p) /\ Ascends(drawn)
    BY <2>1 DEF DrawnOK
  <2>4. DrawnOK(drawn, p)'
    BY <1>2, <2>2, <2>3 DEF DrawnOK, Range, Ascends
  <2> QED
    BY <2>4 DEF p
<1>6. RunsOK'
  <2>1. ~Building' /\ DOMAIN slots' = Values' /\ \A v \in DOMAIN slots' : slots'[v] = None
    BY <1>2, <1>3, <1>4 DEF Building
  <2>2. /\ ip' = 0 /\ ip' \in 0..(Len(insts') + 1)
        /\ outcome' = how /\ outcome' # "running" /\ outcome' \in Outcomes
    BY <1>2, <1>3 DEF Outcomes
  <2> QED
    BY <1>4, <1>5, <2>1, <2>2 DEF RunsOK
<1>7. SlotsOK' /\ Held' = {}
  BY <1>2, NoneHeld
<1>8. WeightsOK' /\ Copies' = Copies
  BY <1>1, <1>2 DEF WeightsOK, Copies
<1> QED
  BY <1>2, <1>6, <1>7, <1>8, NoMore

\* A weight let go of.
LEMMA MakeRoomKeeps ==
  ASSUME IrInv, MakeRoom
  PROVE  IrInv'
<1>1. GraphOK /\ WeightsOK /\ RunsOK /\ SlotsOK
  BY DEF IrInv
<1>2. /\ kept' \in SUBSET kept /\ taken' = taken /\ allowed' = allowed
      /\ nodes' = nodes /\ outputs' = outputs /\ insts' = insts /\ slots' = slots /\ ip' = ip
      /\ drawn' = drawn /\ outcome' = outcome /\ At("run")
  BY DEF MakeRoom, EvictOne, graph
<1>3. ip > 0
  BY <1>1, <1>2, AtRun
<1>4. /\ ip \in Nat /\ Len(insts) \in Nat /\ ip <= Len(insts) + 1 /\ outcome = "running" /\ CodeOK(insts)
      /\ DOMAIN slots = Values /\ ~Building /\ {v \in Values : slots[v] # None} = HeldBefore(insts, ip)
      /\ DrawnOK(drawn, ip)
  BY <1>1, <1>3, Running
<1>5. Values' = Values /\ CodeOK(insts)' /\ HeldBefore(insts, ip)' = HeldBefore(insts, ip)
      /\ DrawsBefore(ip)' = DrawsBefore(ip) /\ \A v \in Values : Owner(v)' = Owner(v)
  BY <1>2, <1>4, GraphStays, CodeStays DEF DrawsBefore
<1>6. DrawnOK(drawn, ip)'
  BY <1>2, <1>4, <1>5 DEF DrawnOK, Range, Ascends
<1>7. RunsOK'
  BY <1>2, <1>3, <1>4, <1>5, <1>6 DEF RunsOK, Building, Outcomes
<1>8. SlotsOK'
  <2>1. DOMAIN slots' = Values /\ DOMAIN slots = Values /\ slots' = slots
    BY <1>2, <1>4
  <2>2. \A o, st : SlotOK(o, st)' <=> SlotOK(o, st)
    BY <1>2 DEF SlotOK
  <2> QED
    BY <1>1, <1>5, <2>1, <2>2 DEF SlotsOK
<1>9. WeightsOK' /\ Copies' \in SUBSET Copies /\ Held' = Held
  BY <1>1, <1>2 DEF WeightsOK, Copies, Held
<1> QED
  BY <1>2, <1>7, <1>8, <1>9, NoMore

\* A step that leaves the graph, and holds nothing but what there is room for.
LEMMA FitsStill ==
  ASSUME IrInv, nodes' = nodes, outputs' = outputs, taken' = taken, WeightsOK', RunsOK', SlotsOK',
         NEW T \in SUBSET Storages, (Held \cup Copies)' \in SUBSET T, SizeOf(T) <= Room
  PROVE  IrInv'
<1> DEFINE L == (Held \cup Copies)'
           u == Used'
<1>1. GraphOK /\ WeightsOK /\ RunsOK /\ SlotsOK
  BY DEF IrInv
<1>2. GraphOK' /\ SizeFn' = SizeFn /\ Room' = Room
  BY <1>1, GraphStays DEF Room
<1>3. (GraphOK /\ WeightsOK /\ RunsOK /\ SlotsOK =>
         Held \cup Copies \in SUBSET Storages /\ Used = SumOf(SizeFn, Held \cup Copies))'
  BY UsedSum, PTL
<1>4. u = SumOf(SizeFn, L)
  BY <1>2, <1>3
<1>5. IsFiniteSet(T) /\ \A st \in T : SizeFn[st] \in Nat
  BY <1>1, StoragesAre, FS_Subset
<1>6. SizeOf(T) = SumOf(SizeFn, T)
  BY <1>1, UsedIs
<1>7. L \in SUBSET T
  OBVIOUS
<1> HIDE DEF L, u
<1>8. SumOf(SizeFn, L) \in Nat /\ SumOf(SizeFn, T) \in Nat /\ SumOf(SizeFn, L) <= SumOf(SizeFn, T)
  BY <1>5, <1>7, SumOfFewer
<1>9. Room \in Int
  BY <1>1, WeightsAssumption DEF Room, WeightsOK
<1>10. u <= Room
  BY <1>4, <1>6, <1>8, <1>9
<1>11. Used' <= Room'
  BY <1>2, <1>10 DEF u
<1> QED
  BY <1>2, <1>11 DEF IrInv

\* A node run.
LEMMA ExecuteKeeps ==
  ASSUME IrInv, Execute
  PROVE  IrInv'
<1> DEFINE v == Value
           res == Result
           H == Held \cup Copies
<1>1. GraphOK /\ WeightsOK /\ RunsOK /\ SlotsOK /\ Used <= Room
  BY DEF IrInv
<1>2. /\ At("run") /\ Fits /\ slots' = [slots EXCEPT ![v] = res]
      /\ drawn' = (IF nodes[v].kind = "draw" THEN Append(drawn, v) ELSE drawn)
      /\ ip' = ip + 1 /\ taken' = taken /\ allowed' = allowed /\ kept' = kept
      /\ nodes' = nodes /\ outputs' = outputs /\ insts' = insts /\ outcome' = outcome
  BY DEF Execute, weights, graph, Node
<1>3. /\ ip > 0 /\ ip + 1 \in 0..(Len(insts) + 1) /\ v \in Values /\ slots[v] = None
      /\ HeldBefore(insts, ip + 1) = HeldBefore(insts, ip) \cup {v}
      /\ DrawsBefore(ip + 1) = DrawsBefore(ip) \cup (IF nodes[v].kind = "draw" THEN {v} ELSE {})
      /\ \A u \in DrawsBefore(ip) : u < v
  BY <1>1, <1>2, AtRun
<1>4. /\ ip \in Nat /\ Len(insts) \in Nat /\ outcome = "running" /\ CodeOK(insts)
      /\ DOMAIN slots = Values /\ ~Building /\ {u \in Values : slots[u] # None} = HeldBefore(insts, ip)
      /\ DrawnOK(drawn, ip)
  BY <1>1, <1>3, Running
<1>5. /\ SlotOK(Owner(v), res) /\ res \in Storages /\ res # None
      /\ \A u \in Values : slots[u] # None /\ Owner(u) = Owner(v) => slots[u] = res
  BY <1>1, <1>2, ResultIs
<1>6. Result \in H \/ Used + Size(Result) <= Room
  BY <1>2 DEF Fits, Copies
<1>7. v \in Nat
  BY <1>1, <1>3, GraphSize
<1> HIDE DEF v, res
<1>8. /\ Values' = Values /\ CodeOK(insts)' /\ HeldBefore(insts, ip)' = HeldBefore(insts, ip + 1)
      /\ DrawsBefore(ip)' = DrawsBefore(ip + 1) /\ \A u \in Values : Owner(u)' = Owner(u)
  BY <1>2, <1>4, GraphStays, CodeStays DEF DrawsBefore
<1>9. DrawnOK(drawn, ip)'
  <2>1. drawn \in Seq(Nat) /\ Range(drawn) = DrawsBefore(ip) /\ Ascends(drawn)
    BY <1>4 DEF DrawnOK
  <2>2. CASE nodes[v].kind = "draw"
    <3>1. drawn' = Append(drawn, v)
      BY <1>2, <2>2
    <3>2. drawn' \in Seq(Nat) /\ Range(drawn') = Range(drawn) \cup {v} /\ Ascends(drawn')
      BY <1>3, <1>7, <2>1, <3>1, OneMoreDraw
    <3>3. Range(drawn') = DrawsBefore(ip)'
      BY <1>3, <1>8, <2>1, <2>2, <3>2
    <3> QED
      BY <3>2, <3>3 DEF DrawnOK, Range, Ascends
  <2>3. CASE nodes[v].kind # "draw"
    <3>1. drawn' = drawn /\ DrawsBefore(ip)' = DrawsBefore(ip)
      BY <1>2, <1>3, <1>8, <2>3
    <3> QED
      BY <2>1, <3>1 DEF DrawnOK, Range, Ascends
  <2> QED
    BY <2>2, <2>3
<1>10. /\ DOMAIN slots' = Values /\ slots'[v] = res
       /\ \A u \in Values : u # v => slots'[u] = slots[u]
  BY <1>2, <1>3, <1>4
<1>11. {u \in Values : slots[u] # None}' = HeldBefore(insts, ip)'
  BY <1>3, <1>4, <1>5, <1>8, <1>10
<1>12. RunsOK'
  <2>1. ip' > 0 /\ ip' # 0 /\ ip' \in 0..(Len(insts') + 1) /\ outcome' = "running" /\ outcome' \in Outcomes
    BY <1>2, <1>3, <1>4 DEF Outcomes
  <2>2. ~Building' /\ DOMAIN slots' = Values'
    BY <1>2, <1>4, <1>8, <1>10 DEF Building
  <2> QED
    BY <1>8, <1>9, <1>11, <2>1, <2>2 DEF RunsOK
<1>13. SlotsOK'
  <2>1. \A o, st : SlotOK(o, st)' <=> SlotOK(o, st)
    BY <1>2 DEF SlotOK
  <2>2. \A u \in Values : slots'[u] # None => SlotOK(Owner(u), slots'[u])
    BY <1>1, <1>4, <1>5, <1>10 DEF SlotsOK
  <2>3. \A u, w \in Values : slots'[u] # None /\ slots'[w] # None /\ Owner(u) = Owner(w)
                               => slots'[u] = slots'[w]
    <3> SUFFICES ASSUME NEW u \in Values, NEW w \in Values, slots'[u] # None, slots'[w] # None,
                        Owner(u) = Owner(w)
                 PROVE  slots'[u] = slots'[w]
      OBVIOUS
    <3>1. CASE u # v /\ w # v
      BY <1>1, <1>4, <1>10, <3>1 DEF SlotsOK
    <3>2. CASE u = v
      BY <1>5, <1>10, <3>2
    <3>3. CASE w = v
      BY <1>5, <1>10, <3>3
    <3> QED
      BY <3>1, <3>2, <3>3
  <2>4. \A u \in DOMAIN slots' : slots'[u] # None => SlotOK(Owner(u), slots[u])'
    BY <1>8, <1>10, <2>1, <2>2
  <2> QED
    BY <1>8, <1>10, <2>3, <2>4 DEF SlotsOK
<1>14. WeightsOK' /\ Copies' = Copies
  BY <1>1, <1>2 DEF WeightsOK, Copies
<1>15. Held' \in SUBSET (Held \cup {res})
  BY <1>4, <1>10 DEF Held, Range
<1>16. H \in SUBSET Storages /\ SizeOf(H) = Used
  BY <1>1, HeldAre, StoragesAre DEF Used, Copies
<1>17. CASE res \in H
  <2>1. (Held \cup Copies)' \in SUBSET H
    BY <1>14, <1>15, <1>17
  <2> QED
    BY <1>1, <1>2, <1>12, <1>13, <1>14, <1>16, <2>1, FitsStill
<1>18. CASE res \notin H
  <2> DEFINE T == H \cup {res}
  <2>1. (Held \cup Copies)' \in SUBSET T /\ T \in SUBSET Storages
    BY <1>5, <1>14, <1>15, <1>16
  <2>2. res \in Storages \ H
    BY <1>5, <1>18
  <2> HIDE DEF H
  <2>3. SizeOf(T) = SizeOf(H) + Size(res)
    BY <1>1, <1>16, <2>2, UsedIs
  <2>4. SizeOf(T) <= Room
    BY <1>6, <1>16, <1>18, <2>3 DEF res
  <2> HIDE DEF T
  <2> QED
    BY <1>1, <1>2, <1>12, <1>13, <1>14, <2>1, <2>4, FitsStill
<1> QED
  BY <1>17, <1>18

\* A value freed.
LEMMA FreeValueKeeps ==
  ASSUME IrInv, FreeValue
  PROVE  IrInv'
<1> DEFINE v == Value
<1>1. GraphOK /\ WeightsOK /\ RunsOK /\ SlotsOK /\ Used <= Room
  BY DEF IrInv
<1>2. /\ At("free") /\ slots' = [slots EXCEPT ![v] = None] /\ drawn' = drawn
      /\ ip' = ip + 1 /\ taken' = taken /\ allowed' = allowed /\ kept' = kept
      /\ nodes' = nodes /\ outputs' = outputs /\ insts' = insts /\ outcome' = outcome
  BY DEF FreeValue, weights, graph
<1>3. /\ ip > 0 /\ ip + 1 \in 0..(Len(insts) + 1) /\ v \in Values
      /\ HeldBefore(insts, ip + 1) = HeldBefore(insts, ip) \ {v} /\ DrawsBefore(ip + 1) = DrawsBefore(ip)
  BY <1>1, <1>2, AtFree
<1>4. /\ ip \in Nat /\ Len(insts) \in Nat /\ outcome = "running" /\ CodeOK(insts)
      /\ DOMAIN slots = Values /\ ~Building /\ {u \in Values : slots[u] # None} = HeldBefore(insts, ip)
      /\ DrawnOK(drawn, ip)
  BY <1>1, <1>3, Running
<1> HIDE DEF v
<1>5. /\ Values' = Values /\ CodeOK(insts)' /\ HeldBefore(insts, ip)' = HeldBefore(insts, ip + 1)
      /\ DrawsBefore(ip)' = DrawsBefore(ip + 1) /\ \A u \in Values : Owner(u)' = Owner(u)
  BY <1>2, <1>4, GraphStays, CodeStays DEF DrawsBefore
<1>6. DrawnOK(drawn, ip)'
  BY <1>2, <1>3, <1>4, <1>5 DEF DrawnOK, Range, Ascends
<1>7. /\ DOMAIN slots' = Values /\ slots'[v] = None
      /\ \A u \in Values : u # v => slots'[u] = slots[u]
  BY <1>2, <1>3, <1>4
<1>8. {u \in Values : slots[u] # None}' = HeldBefore(insts, ip)'
  BY <1>3, <1>4, <1>5, <1>7
<1>9. RunsOK'
  <2>1. ip' > 0 /\ ip' # 0 /\ ip' \in 0..(Len(insts') + 1) /\ outcome' = "running" /\ outcome' \in Outcomes
    BY <1>2, <1>3, <1>4 DEF Outcomes
  <2>2. ~Building' /\ DOMAIN slots' = Values'
    BY <1>2, <1>4, <1>5, <1>7 DEF Building
  <2> QED
    BY <1>5, <1>6, <1>8, <2>1, <2>2 DEF RunsOK
<1>10. SlotsOK'
  <2>1. \A o, st : SlotOK(o, st)' <=> SlotOK(o, st)
    BY <1>2 DEF SlotOK
  <2>2. \A u \in Values : slots'[u] # None => slots'[u] = slots[u]
    BY <1>7
  <2>3. \A u \in Values : slots'[u] # None => SlotOK(Owner(u), slots'[u])
    BY <1>1, <1>4, <2>2 DEF SlotsOK
  <2>4. \A u, w \in Values : slots'[u] # None /\ slots'[w] # None /\ Owner(u) = Owner(w)
                               => slots'[u] = slots'[w]
    BY <1>1, <1>4, <2>2 DEF SlotsOK
  <2>5. \A u \in DOMAIN slots' : slots'[u] # None => SlotOK(Owner(u), slots[u])'
    BY <1>5, <1>7, <2>1, <2>3
  <2> QED
    BY <1>5, <1>7, <2>4, <2>5 DEF SlotsOK
<1>11. WeightsOK' /\ Copies' = Copies
  BY <1>1, <1>2 DEF WeightsOK, Copies
<1>12. Held' \in SUBSET Held
  BY <1>4, <1>7 DEF Held, Range
<1> QED
  BY <1>2, <1>9, <1>10, <1>11, <1>12, NoMore

\* Every step keeps all of it.
LEMMA IrKeeps == IrInv /\ [Next]_vars => IrInv'
<1> SUFFICES ASSUME IrInv, [Next]_vars PROVE IrInv'
  OBVIOUS
<1>1. GraphOK /\ RunsOK /\ WeightsOK /\ SlotsOK
  BY DEF IrInv
<1>2. CASE Write
  BY <1>2, WriteKeeps
<1>3. CASE Compile
  BY <1>3, CompileKeeps
<1>4. ASSUME NEW given \in SUBSET {"x", "y"}, Start(given) PROVE IrInv'
  BY <1>4, StartKeeps
<1>5. CASE Execute
  BY <1>5, ExecuteKeeps
<1>6. CASE MakeRoom
  BY <1>6, MakeRoomKeeps
<1>7. CASE GivesUp \/ Fails
  <2>1. At("run") /\ (Ends("full") \/ Ends("failed"))
    BY <1>7 DEF GivesUp, Fails
  <2>2. ip > 0
    BY <1>1, <2>1, AtRun
  <2> QED
    BY <2>1, <2>2, EndsKeeps
<1>8. CASE FreeValue
  BY <1>8, FreeValueKeeps
<1>9. CASE Finish
  <2>1. ip = Len(insts) + 1 /\ Ends("done") /\ ~Building
    BY <1>9 DEF Finish
  <2>2. Len(insts) \in Nat
    BY <1>1, <2>1 DEF RunsOK, CodeOK
  <2> QED
    BY <2>1, <2>2, EndsKeeps
<1>10. CASE UNCHANGED vars
  <2>1. /\ nodes' = nodes /\ outputs' = outputs /\ taken' = taken /\ allowed' = allowed /\ kept' = kept
        /\ insts' = insts /\ slots' = slots /\ ip' = ip /\ drawn' = drawn /\ outcome' = outcome
    BY <1>10 DEF vars, weights, graph
  <2>2. Values' = Values /\ \A v \in Values : Owner(v)' = Owner(v)
    BY <2>1, GraphStays
  <2>3. \A o, st : SlotOK(o, st)' <=> SlotOK(o, st)
    BY <2>1 DEF SlotOK
  <2>4. DOMAIN slots \in SUBSET Values
    BY <1>1, HeldAre
  <2>5. SlotsOK'
    BY <1>1, <2>1, <2>2, <2>3, <2>4 DEF SlotsOK
  <2>6. WeightsOK' /\ (Held \cup Copies)' = Held \cup Copies
    BY <1>1, <2>1 DEF WeightsOK, Held, Copies
  <2>7. CodeOK(insts) => CodeOK(insts)'
    BY <2>1, CodeStays DEF DrawsBefore
  <2>8. HeldBefore(insts, ip)' = HeldBefore(insts, ip) /\ DrawsBefore(ip)' = DrawsBefore(ip)
        /\ DrawsBefore(Len(insts) + 1)' = DrawsBefore(Len(insts) + 1)
    BY <2>1, <2>2 DEF DrawsBefore, HeldBefore, RunBy, FreedBy
  <2>9. DrawnOK(drawn, ip)' <=> DrawnOK(drawn, ip)
    BY <2>1, <2>8 DEF DrawnOK
  <2>10. DrawnOK(drawn, Len(insts) + 1)' <=> DrawnOK(drawn, Len(insts) + 1)
    BY <2>1, <2>8 DEF DrawnOK
  <2>11. RunsOK'
    BY <1>1, <2>1, <2>2, <2>7, <2>8, <2>9, <2>10 DEF RunsOK, Building
  <2> QED
    BY <2>1, <2>5, <2>6, <2>11, NoMore
<1> QED
  BY <1>2, <1>3, <1>4, <1>5, <1>6, <1>7, <1>8, <1>9, <1>10 DEF Next, Step

-----------------------------------------------------------------------------
(* What is promised. *)

\* The weights chosen are the most that fit.
LEMMA MostAreKept == IrInv => KeepsTheMost
<1> SUFFICES ASSUME IrInv, NEW names \in SUBSET Names, Bytes(names) <= allowed
             PROVE  Cardinality(names) <= Cardinality(SmallestWithin(allowed))
  BY DEF KeepsTheMost
<1>1. allowed \in Int
  BY DEF IrInv, WeightsOK
<1> QED
  BY <1>1, SmallestAreMost

\* What is held is what is needed, and there is room for it.
LEMMA HoldsNeeded == IrInv => HeldAsNeeded
<1> SUFFICES ASSUME IrInv PROVE HeldAsNeeded
  OBVIOUS
<1>1. GraphOK /\ RunsOK /\ Used <= Room
  BY DEF IrInv
<1>2. Live = Needed
  BY <1>1, LiveNeeded
<1>3. ASSUME At("run") PROVE Value \in Needed /\ {v \in Values : slots[v] # None} = HeldFor(Value)
  <2>1. ip > 0 /\ Value \in Live /\ HeldBefore(insts, ip) = ReadLater(Value)
    BY <1>1, <1>3, AtRun
  <2>2. {v \in Values : slots[v] # None} = HeldBefore(insts, ip)
    BY <1>1, <2>1, Running
  <2>3. ReadLater(Value) = HeldFor(Value)
    BY <1>2 DEF ReadLater, HeldFor
  <2> QED
    BY <1>2, <2>1, <2>2, <2>3
<1>4. ASSUME ip > Len(insts), ip > 0 PROVE \A v \in outputs : slots[v] # None
  <2>1. /\ ip \in Nat /\ Len(insts) \in Nat /\ ip <= Len(insts) + 1 /\ CodeOK(insts)
        /\ {v \in Values : slots[v] # None} = HeldBefore(insts, ip)
    BY <1>1, <1>4, Running
  <2>2. ip = Len(insts) + 1
    BY <1>4, <2>1
  <2>3. HeldBefore(insts, ip) = outputs
    BY <2>1, <2>2 DEF CodeOK
  <2> QED
    BY <2>1, <2>3
<1> QED
  BY <1>1, <1>3, <1>4 DEF HeldAsNeeded

\* A run that ended well drew what an eager pass draws.
LEMMA DrewAsEager == IrInv => DrawsAsEager
<1> SUFFICES ASSUME IrInv, outcome = "done"
             PROVE  /\ Range(drawn) = {v \in Values : nodes[v].kind = "draw"}
                    /\ \A i, j \in DOMAIN drawn : i < j => drawn[i] < drawn[j]
  BY DEF DrawsAsEager
<1>1. GraphOK /\ RunsOK
  BY DEF IrInv
<1>2. ~Building /\ CodeOK(insts) /\ DrawnOK(drawn, Len(insts) + 1)
  BY <1>1 DEF RunsOK
<1>3. DrawsBefore(Len(insts) + 1) = {v \in Live : nodes[v].kind = "draw"}
  BY <1>2 DEF DrawsBefore, CodeOK
<1>4. {v \in Live : nodes[v].kind = "draw"} = {v \in Values : nodes[v].kind = "draw"}
  BY <1>1, LiveIsClosed DEF IsRoot
<1> QED
  BY <1>2, <1>3, <1>4 DEF DrawnOK, Ascends

\* With no weight kept, what is held is as much as the same run would hold had there never been one.
LEMMA StreamedIs ==
  ASSUME GraphOK, WeightsOK, RunsOK, SlotsOK, ip > 0
  PROVE  /\ SizeOf(Held) \in Nat
         /\ SizeOf(Held) = SizeOf({Made(Owner(u)) : u \in {w \in {v \in Values : slots[v] # None} :
                                                             nodes[Owner(w)].kind # "input"}})
<1> DEFINE W == {w \in {v \in Values : slots[v] # None} : nodes[Owner(w)].kind # "input"}
           O == {Owner(u) : u \in W}
           M == {Made(Owner(u)) : u \in W}
           a == [o \in O |-> Made(o)]
           b == [o \in O |-> slots[CHOOSE u \in W : Owner(u) = o]]
           G == [o \in O |-> SizeFn[Made(o)]]
<1>1. DOMAIN slots = Values /\ IsFiniteSet(Values)
  BY GraphSize, Running
<1>2. /\ IsFiniteSet(Storages) /\ \A st \in Storages : SizeFn[st] = Size(st) /\ SizeFn[st] \in Nat
      /\ \A n \in Names : Size(Copy(n)) = BytesOf[n]
      /\ \A v \in Values : Size(Made(v)) = IF nodes[v].kind = "load" THEN BytesOf[nodes[v].weight] ELSE 1
      /\ Size(FromCaller) = 0
  BY StoragesAre
<1>3. \A u \in Values : Owner(u) \in Values
  BY OwnerBefore
<1>4. O \in SUBSET Values /\ IsFiniteSet(O)
  <2>1. O \in SUBSET Values
    BY <1>3
  <2> QED
    BY <1>1, <2>1, FS_Subset
<1>5. M \in SUBSET Storages
  BY <1>3 DEF Storages
<1>6. Held \in SUBSET Storages
  BY HeldAre
<1>7. \A o \in O : \E u \in W : Owner(u) = o /\ b[o] = slots[u]
  <2> SUFFICES ASSUME NEW o \in O PROVE \E u \in W : Owner(u) = o /\ b[o] = slots[u]
    OBVIOUS
  <2>1. \E u \in W : Owner(u) = o
    OBVIOUS
  <2> DEFINE c == CHOOSE u \in W : Owner(u) = o
  <2> HIDE DEF W
  <2>2. c \in W /\ Owner(c) = o
    BY <2>1, Zenon
  <2>3. b[o] = slots[c]
    OBVIOUS
  <2> HIDE DEF c, b
  <2> QED
    BY <2>2, <2>3
<1>8. \A u \in W : b[Owner(u)] = slots[u]
  <2> SUFFICES ASSUME NEW u \in W PROVE b[Owner(u)] = slots[u]
    OBVIOUS
  <2>1. Owner(u) \in O
    OBVIOUS
  <2> HIDE DEF b
  <2>2. PICK w \in W : Owner(w) = Owner(u) /\ b[Owner(u)] = slots[w]
    BY <1>7, <2>1
  <2>3. slots[w] # None /\ slots[u] # None /\ u \in Values /\ w \in Values
    OBVIOUS
  <2>4. slots[w] = slots[u]
    BY <1>1, <2>2, <2>3 DEF SlotsOK
  <2> QED
    BY <2>2, <2>4
<1>9. \A o \in O : \/ b[o] = Made(o)
                   \/ nodes[o].kind = "load" /\ b[o] = Copy(nodes[o].weight) /\ nodes[o].weight \in Names
  <2> SUFFICES ASSUME NEW o \in O
               PROVE  \/ b[o] = Made(o)
                      \/ nodes[o].kind = "load" /\ b[o] = Copy(nodes[o].weight) /\ nodes[o].weight \in Names
    OBVIOUS
  <2> HIDE DEF b
  <2>1. PICK u \in W : Owner(u) = o /\ b[o] = slots[u]
    BY <1>7
  <2>2. u \in Values /\ slots[u] # None /\ nodes[o].kind # "input"
    BY <2>1
  <2>3. SlotOK(o, slots[u])
    BY <1>1, <2>1, <2>2 DEF SlotsOK
  <2>4. nodes[o].kind = "load" => nodes[o].weight \in Names
    BY <1>4, OpReads
  <2> QED
    BY <2>1, <2>2, <2>3, <2>4 DEF SlotOK
<1> HIDE DEF b
<1>10. CarriesOver(a, SizeFn, G, O)
  <2>1. \A x, y \in O : a[x] = a[y] => x = y
    BY DEF Made
  <2>2. \A x \in O : Made(x) \in Storages
    BY <1>4 DEF Storages
  <2> QED
    BY <1>2, <2>1, <2>2 DEF CarriesOver
<1>11. CarriesOver(b, SizeFn, G, O)
  <2>1. ASSUME NEW x \in O, NEW y \in O, b[x] = b[y] PROVE x = y
    <3>1. (\A m, n : Made(m) = Made(n) => m = n) /\ (\A m, n : Copy(m) = Copy(n) => m = n)
          /\ \A m, n : Made(m) # Copy(n)
      BY DEF Made, Copy
    <3>2. \/ b[x] = Made(x)
          \/ nodes[x].kind = "load" /\ b[x] = Copy(nodes[x].weight)
      BY <1>9
    <3>3. \/ b[y] = Made(y)
          \/ nodes[y].kind = "load" /\ b[y] = Copy(nodes[y].weight)
      BY <1>9
    <3>4. x \in Values /\ y \in Values
      BY <1>4
    <3>5. nodes[x].kind = "load" /\ nodes[y].kind = "load" /\ nodes[x].weight = nodes[y].weight => x = y
      BY <3>4 DEF GraphOK
    <3> QED
      BY <2>1, <3>1, <3>2, <3>3, <3>5, Zenon
  <2>2. ASSUME NEW x \in O PROVE G[x] \in Nat /\ SizeFn[b[x]] = G[x]
    <3>1. Made(x) \in Storages /\ x \in Values
      BY <1>4 DEF Storages
    <3>2. G[x] = SizeFn[Made(x)] /\ G[x] \in Nat
      BY <1>2, <3>1
    <3> HIDE DEF G
    <3>3. CASE nodes[x].kind = "load" /\ b[x] = Copy(nodes[x].weight) /\ nodes[x].weight \in Names
      <4>1. Copy(nodes[x].weight) \in Storages
        BY <3>3 DEF Storages
      <4> QED
        BY <1>2, <3>1, <3>2, <3>3, <4>1
    <3>4. CASE b[x] = Made(x)
      BY <3>2, <3>4
    <3> QED
      BY <1>9, <3>2, <3>3, <3>4
  <2> QED
    BY <2>1, <2>2 DEF CarriesOver
<1>12. ImageOf(a, O) = M
  BY DEF ImageOf
<1>13. ImageOf(b, O) \in SUBSET Held /\ Held \in SUBSET (ImageOf(b, O) \cup {FromCaller})
  <2>1. \A o \in O : b[o] \in Held
    <3> SUFFICES ASSUME NEW o \in O PROVE b[o] \in Held
      OBVIOUS
    <3>1. PICK u \in W : b[o] = slots[u]
      BY <1>7
    <3>2. u \in Values /\ slots[u] # None
      OBVIOUS
    <3> QED
      BY <1>1, <3>1, <3>2 DEF Held, Range
  <2>2. ASSUME NEW st \in Held PROVE st \in ImageOf(b, O) \cup {FromCaller}
    <3>1. PICK u \in Values : st = slots[u] /\ slots[u] # None
      BY <1>1 DEF Held, Range
    <3>2. CASE nodes[Owner(u)].kind = "input"
      <4>1. SlotOK(Owner(u), slots[u])
        BY <1>1, <3>1 DEF SlotsOK
      <4> QED
        BY <3>1, <3>2, <4>1 DEF SlotOK
    <3>3. CASE nodes[Owner(u)].kind # "input"
      <4>1. u \in W /\ Owner(u) \in O
        BY <3>1, <3>3
      <4>2. b[Owner(u)] = st
        BY <1>8, <3>1, <4>1
      <4> QED
        BY <4>1, <4>2 DEF ImageOf
    <3> QED
      BY <3>2, <3>3
  <2> QED
    BY <2>1, <2>2 DEF ImageOf
<1> DEFINE B == ImageOf(b, O)
<1> HIDE DEF W, M, a, G
<1>14. SumOf(SizeFn, M) = SumOf(G, O)
  <2> HIDE DEF O
  <2>1. SumOf(SizeFn, ImageOf(a, O)) = SumOf(G, O)
    BY <1>4, <1>10, SumOfImage
  <2> QED
    BY <1>12, <2>1
<1>15. SumOf(SizeFn, B) = SumOf(G, O)
  <2> HIDE DEF O
  <2> QED
    BY <1>4, <1>11, SumOfImage
<1> HIDE DEF B, O
<1>16. SizeOf(M) = SizeOf(B) /\ B \in SUBSET Storages
  <2>1. B \in SUBSET Storages
    BY <1>6, <1>13 DEF B
  <2>2. SizeOf(M) = SumOf(SizeFn, M) /\ SizeOf(B) = SumOf(SizeFn, B)
    BY <1>5, <2>1, UsedIs
  <2> QED
    BY <1>14, <1>15, <2>1, <2>2
<1>17. SizeOf(Held) = SizeOf(B) /\ SizeOf(Held) \in Nat
  <2>1. SizeOf(B) \in Nat /\ SizeOf(Held) \in Nat
    BY <1>6, <1>16, UsedIs
  <2>2. CASE Held = B
    BY <2>1, <2>2
  <2>3. CASE Held # B
    <3>1. Held = B \cup {FromCaller} /\ FromCaller \notin B
      BY <1>13, <2>3 DEF B
    <3>2. FromCaller \in Storages \ B
      BY <3>1 DEF Storages
    <3>3. SizeOf(B \cup {FromCaller}) = SizeOf(B) + Size(FromCaller)
      BY <1>16, <3>2, UsedIs
    <3> QED
      BY <1>2, <2>1, <3>1, <3>3
  <2> QED
    BY <2>2, <2>3
<1> QED
  BY <1>16, <1>17 DEF M, W

\* A run gives up for memory only where it would have with every weight left on the host.
LEMMA GivesUpAsStreamed ==
  ASSUME IrInv, GivesUp
  PROVE  SizeOf({Made(Owner(u)) : u \in {w \in HeldFor(Value) : nodes[Owner(w)].kind # "input"}})
           + Size(Made(Value)) > Room
<1>1. GraphOK /\ WeightsOK /\ RunsOK /\ SlotsOK /\ Used <= Room
  BY DEF IrInv
<1>2. At("run") /\ ~Fits /\ kept = {}
  BY DEF GivesUp
<1>3. ip > 0 /\ Value \in Values
  BY <1>1, <1>2, AtRun
<1>4. {v \in Values : slots[v] # None} = HeldFor(Value)
  BY <1>2, HoldsNeeded DEF HeldAsNeeded
<1>5. /\ SizeOf(Held) \in Nat
      /\ SizeOf(Held) = SizeOf({Made(Owner(u)) : u \in {w \in HeldFor(Value) :
                                                          nodes[Owner(w)].kind # "input"}})
  <2>1. /\ SizeOf(Held) \in Nat
        /\ SizeOf(Held) = SizeOf({Made(Owner(u)) : u \in {w \in {v \in Values : slots[v] # None} :
                                                             nodes[Owner(w)].kind # "input"}})
    BY <1>1, <1>3, StreamedIs
  <2> QED
    BY <1>4, <2>1
<1>6. Used = SizeOf(Held)
  <2>1. Held \cup {Copy(n) : n \in kept} = Held
    BY <1>2
  <2> QED
    BY <2>1 DEF Used
<1>7. Result \notin Held /\ Result \notin {Copy(n) : n \in kept} /\ ~(Used + Size(Result) <= Room)
  BY <1>2 DEF Fits
<1>8. Room \in Int
  BY <1>1, WeightsAssumption DEF Room, WeightsOK
<1>9. Size(Result) \in Nat /\ Size(Made(Value)) \in Nat
  <2>1. Result \in Storages /\ Made(Value) \in Storages
    BY <1>1, <1>2, <1>3, ResultIs DEF Storages
  <2>2. \A st \in Storages : SizeFn[st] = Size(st) /\ SizeFn[st] \in Nat
    BY <1>1, StoragesAre
  <2> QED
    BY <2>1, <2>2
<1>10. Size(Result) <= Size(Made(Value))
  <2>1. CASE nodes[Value].kind = "input"
    <3>1. Result = FromCaller
      BY <2>1 DEF Result, Node
    <3>2. Size(FromCaller) = 0
      BY <1>1, StoragesAre
    <3> QED
      BY <1>9, <3>1, <3>2
  <2>2. CASE nodes[Value].kind = "view"
    <3> DEFINE w == nodes[Value].operands[1]
    <3>1. nodes[Value].operands = <<w>>
      BY <1>1, <1>3, <2>2, OpReads
    <3>2. w \in Operands(Value)
      BY <3>1 DEF Operands, Range
    <3>3. Result = slots[w] /\ w \in Values /\ slots[w] # None
      BY <1>1, <1>2, <2>2, <3>2, AtRun DEF Result, Node
    <3>4. DOMAIN slots = Values
      BY <1>1, <1>3, Running
    <3> HIDE DEF w
    <3>5. Result \in Held
      BY <3>3, <3>4 DEF Held, Range
    <3> QED
      BY <1>7, <3>5
  <2>3. CASE nodes[Value].kind \notin {"input", "view"}
    <3>1. Result = Made(Value)
      BY <1>2, <2>3 DEF Result, Node
    <3> QED
      BY <1>9, <3>1
  <2> QED
    BY <2>1, <2>2, <2>3
<1> DEFINE x == SizeOf({Made(Owner(u)) : u \in {w \in HeldFor(Value) : nodes[Owner(w)].kind # "input"}})
           y == Size(Made(Value))
           z == Size(Result)
<1>11. x \in Nat /\ x = Used /\ y \in Nat /\ z \in Nat /\ z <= y /\ ~(Used + z <= Room) /\ Room \in Int
  BY <1>5, <1>6, <1>7, <1>8, <1>9, <1>10
<1> HIDE DEF x, y, z
<1>12. x + y > Room
  BY <1>11
<1> QED
  BY <1>12 DEF x, y

\* The property a step must have.
LEMMA NoWorseThanStreamed ==
  IrInv /\ [Next]_vars =>
    [outcome' = "full" /\ ip > 0 =>
       SizeOf({Made(Owner(u)) : u \in {w \in HeldFor(Value) : nodes[Owner(w)].kind # "input"}})
         + Size(Made(Value)) > Room]_vars
<1> SUFFICES ASSUME IrInv, [Next]_vars, outcome' = "full", ip > 0
             PROVE  SizeOf({Made(Owner(u)) : u \in {w \in HeldFor(Value) : nodes[Owner(w)].kind # "input"}})
                      + Size(Made(Value)) > Room
  OBVIOUS
<1>1. outcome = "running"
  BY Running DEF IrInv
<1>2. GivesUp
  <2>1. outcome' # outcome
    BY <1>1
  <2>2. ~(UNCHANGED vars)
    BY <2>1 DEF vars
  <2>3. ~Write
    BY <2>1 DEF Write, Input, Draw, Load, View, Add, Push, Output
  <2>4. ~Compile /\ ~Execute /\ ~MakeRoom /\ ~FreeValue
    BY <2>1 DEF Compile, Execute, MakeRoom, FreeValue
  <2>5. \A given \in SUBSET {"x", "y"} : ~Start(given)
    BY DEF Start
  <2>6. ~Fails /\ ~Finish
    BY DEF Fails, Finish, Ends
  <2> QED
    BY <2>2, <2>3, <2>4, <2>5, <2>6 DEF Next, Step
<1> QED
  BY <1>2, GivesUpAsStreamed

\* The inductive invariant: graph, compilation, slots, weights and what they use of the device.
THEOREM GraphsHold == Spec => []IrInv
<1> QED
  BY IrStarts, IrKeeps, PTL DEF Spec

\* Only what is needed runs, it finds what it reads, and nothing is held longer (HeldAsNeeded).
THEOREM HoldsWhatIsNeeded == Spec => []HeldAsNeeded
<1> QED
  BY IrStarts, IrKeeps, HoldsNeeded, PTL DEF Spec

\* A run that ends well drew every draw once and in order, those tried again included (DrawsAsEager).
THEOREM DrawsEagerly == Spec => []DrawsAsEager
<1> QED
  BY IrStarts, IrKeeps, DrewAsEager, PTL DEF Spec

\* No choice of weights within the budget is more of them than the smallest (KeepsTheMost).
THEOREM MostIsKept == Spec => []KeepsTheMost
<1> QED
  BY IrStarts, IrKeeps, MostAreKept, PTL DEF Spec

\* A run fails for memory only where it would have with every weight on the host (FailsAsStreamed).
THEOREM WeightsCostNoRun == Spec => FailsAsStreamed
<1> QED
  BY IrStarts, IrKeeps, NoWorseThanStreamed, PTL DEF Spec, FailsAsStreamed
=============================================================================
