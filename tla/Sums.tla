--------------------------------- MODULE Sums ---------------------------------
(***************************************************************************)
(* What MapThenSumSet adds up to, whatever order it takes the elements in: *)
(* the lemmas the proofs about counted bytes rest on.                      *)
(***************************************************************************)
EXTENDS Integers, FiniteSets, FiniteSetsExt, FiniteSetTheorems, WellFoundedInduction, TLAPS

SumOf(F, S) == MapThenSumSet(LAMBDA x : F[x], S)

\* The function MapThenFoldSet defines: what is left once an element is taken, for every subset.
IsSums(g, F, S) ==
  g = [s \in SUBSET S |-> IF s = {} THEN 0
                          ELSE F[CHOOSE x \in s : TRUE] + g[s \ {CHOOSE x \in s : TRUE}]]

-----------------------------------------------------------------------------
(* Induction, over a set of numbers and over a set of sets. *)

\* What holds of 0 and of each next number holds of all.
LEMMA Counting ==
  ASSUME NEW Q, 0 \in Q, \A n \in Nat : n \in Q => n + 1 \in Q
  PROVE  \A n \in Nat : n \in Q
<1> SUFFICES ASSUME NEW m \in Nat, m \notin Q PROVE FALSE
  OBVIOUS
<1> DEFINE T == Nat \ Q
<1>1. T \subseteq Nat /\ T # {}
  OBVIOUS
<1> HIDE DEF T
<1>2. PICK n \in T : \A k \in T : ~(<<k, n>> \in OpToRel(<, Nat))
  BY <1>1, WFMin, NatLessThanWellFounded
<1>3. n \in Nat /\ n \notin Q /\ n # 0
  BY <1>1, <1>2 DEF T
<1>4. n - 1 \in Nat /\ (n - 1) + 1 = n /\ n - 1 < n
  BY <1>3
<1>5. n - 1 \in T
  BY <1>3, <1>4 DEF T
<1>6. <<n - 1, n>> \in OpToRel(<, Nat)
  BY <1>3, <1>4 DEF OpToRel
<1> QED
  BY <1>2, <1>5, <1>6

\* What holds of the empty set, and with each element more, holds of a finite set.
LEMMA Growing ==
  ASSUME NEW S, IsFiniteSet(S), NEW Q, {} \in Q,
         \A T \in SUBSET S : \A x \in S \ T : T \in Q => T \cup {x} \in Q
  PROVE  S \in Q
<1> DEFINE R == {n \in Nat : \A T \in SUBSET S : Cardinality(T) = n => T \in Q}
<1>1. \A T \in SUBSET S : IsFiniteSet(T) /\ Cardinality(T) \in Nat
  BY FS_Subset, FS_CardinalityType
<1>2. 0 \in R
  BY <1>1, FS_EmptySet
<1>3. ASSUME NEW n \in Nat, n \in R PROVE n + 1 \in R
  <2> SUFFICES ASSUME NEW T \in SUBSET S, Cardinality(T) = n + 1 PROVE T \in Q
    OBVIOUS
  <2> HIDE DEF R
  <2>1. T # {}
    <3>1. Cardinality({}) = 0 /\ n + 1 # 0
      BY FS_EmptySet
    <3> QED
      BY <3>1
  <2>2. PICK x : x \in T
    BY <2>1
  <2>3. Cardinality(T \ {x}) = n /\ T \ {x} \in SUBSET S
    <3>1. IsFiniteSet(T)
      BY <1>1
    <3>2. Cardinality(T \ {x}) = Cardinality(T) - 1
      BY <2>2, <3>1, FS_RemoveElement
    <3> QED
      BY <3>2
  <2>4. T \ {x} \in Q
    BY <1>3, <2>3 DEF R
  <2>5. T = (T \ {x}) \cup {x} /\ x \in S \ (T \ {x})
    BY <2>2
  <2> QED
    BY <2>3, <2>4, <2>5
<1>4. \A n \in Nat : n \in R
  <2> HIDE DEF R
  <2> QED
    BY <1>2, <1>3, Counting
<1> QED
  BY <1>1, <1>4

-----------------------------------------------------------------------------
(* The function there is. *)

\* There is such a function: made right for the sets of one element more at a time.
LEMMA SumsExist ==
  ASSUME NEW S, IsFiniteSet(S), NEW F
  PROVE  \E g : IsSums(g, F, S)
<1> DEFINE C(s)    == CHOOSE x \in s : TRUE
           Next(g) == [s \in SUBSET S |-> IF s = {} THEN 0 ELSE F[C(s)] + g[s \ {C(s)}]]
           Upto(g, n) == \A s \in SUBSET S : Cardinality(s) <= n => g[s] = Next(g)[s]
           Q == {n \in Nat : \E g : Upto(g, n)}
<1>1. \A s \in SUBSET S : /\ IsFiniteSet(s) /\ Cardinality(s) \in Nat
                          /\ s # {} => /\ s \ {C(s)} \in SUBSET S
                                       /\ Cardinality(s \ {C(s)}) = Cardinality(s) - 1
  <2> SUFFICES ASSUME NEW s \in SUBSET S
               PROVE  /\ IsFiniteSet(s) /\ Cardinality(s) \in Nat
                      /\ s # {} => /\ s \ {C(s)} \in SUBSET S
                                   /\ Cardinality(s \ {C(s)}) = Cardinality(s) - 1
    OBVIOUS
  <2>1. IsFiniteSet(s) /\ Cardinality(s) \in Nat
    BY FS_Subset, FS_CardinalityType
  <2>2. s # {} => C(s) \in s
    BY Zenon
  <2> HIDE DEF C
  <2> QED
    BY <2>1, <2>2, FS_RemoveElement
<1> HIDE DEF C
<1>2. 0 \in Q
  <2> DEFINE z == [s \in SUBSET S |-> 0]
  <2>1. \A s \in SUBSET S : Cardinality(s) <= 0 => s = {}
    <3> SUFFICES ASSUME NEW s \in SUBSET S, Cardinality(s) <= 0 PROVE s = {}
      OBVIOUS
    <3>1. Cardinality(s) \in Nat /\ IsFiniteSet(s)
      BY <1>1
    <3>2. Cardinality(s) = 0
      BY <3>1
    <3> QED
      BY <3>1, <3>2, FS_EmptySet
  <2>2. Upto(z, 0)
    BY <2>1
  <2> QED
    BY <2>2
<1>3. ASSUME NEW n \in Nat, n \in Q PROVE n + 1 \in Q
  <2>1. PICK g : Upto(g, n)
    BY <1>3
  <2>2. Upto(Next(g), n + 1)
    <3> SUFFICES ASSUME NEW s \in SUBSET S, Cardinality(s) <= n + 1
                 PROVE  Next(g)[s] = Next(Next(g))[s]
      OBVIOUS
    <3>1. CASE s = {}
      BY <3>1
    <3>2. CASE s # {}
      <4> DEFINE u == s \ {C(s)}
      <4>1. u \in SUBSET S /\ Cardinality(u) <= n
        BY <1>1, <3>2
      <4>2. g[u] = Next(g)[u]
        BY <2>1, <4>1
      <4> QED
        BY <3>2, <4>1, <4>2
    <3> QED
      BY <3>1, <3>2
  <2> HIDE DEF Upto
  <2> QED
    BY <2>2
<1>4. \A n \in Nat : n \in Q
  <2> HIDE DEF Q
  <2> QED
    BY <1>2, <1>3, Counting
<1>5. PICK g : Upto(g, Cardinality(S))
  BY <1>1, <1>4
<1>6. \A s \in SUBSET S : g[s] = Next(g)[s]
  BY <1>5, FS_Subset
<1>7. IsSums(Next(g), F, S)
  <2>1. \A s \in SUBSET S : Next(g)[s] = Next(Next(g))[s]
    <3> SUFFICES ASSUME NEW s \in SUBSET S PROVE Next(g)[s] = Next(Next(g))[s]
      OBVIOUS
    <3>1. CASE s = {}
      BY <3>1
    <3>2. CASE s # {}
      <4> DEFINE u == s \ {C(s)}
      <4>1. u \in SUBSET S
        BY <1>1, <3>2
      <4>2. g[u] = Next(g)[u]
        BY <1>6, <4>1
      <4> QED
        BY <3>2, <4>1, <4>2
    <3> QED
      BY <3>1, <3>2
  <2>2. Next(g) = Next(Next(g))
    BY <2>1
  <2> QED
    BY <2>2 DEF IsSums, C
<1> QED
  BY <1>7

\* What it gives does not depend on which element is taken first.
LEMMA SumsAdd ==
  ASSUME NEW S, IsFiniteSet(S), NEW F, \A x \in S : F[x] \in Nat, NEW g, IsSums(g, F, S)
  PROVE  /\ g[{}] = 0
         /\ \A T \in SUBSET S : g[T] \in Nat /\ \A x \in T : g[T] = F[x] + g[T \ {x}]
<1> DEFINE C(s) == CHOOSE x \in s : TRUE
           Adds(T) == g[T] \in Nat /\ \A x \in T : g[T] = F[x] + g[T \ {x}]
           Q == {n \in Nat : \A T \in SUBSET S : Cardinality(T) <= n => Adds(T)}
<1>1. \A T \in SUBSET S : IsFiniteSet(T) /\ Cardinality(T) \in Nat
  BY FS_Subset, FS_CardinalityType
<1>2. g[{}] = 0
  BY DEF IsSums
<1>3. \A T \in SUBSET S : T # {} => C(T) \in T /\ g[T] = F[C(T)] + g[T \ {C(T)}]
  <2> SUFFICES ASSUME NEW T \in SUBSET S, T # {} PROVE C(T) \in T /\ g[T] = F[C(T)] + g[T \ {C(T)}]
    OBVIOUS
  <2>1. C(T) \in T
    BY Zenon
  <2>2. g[T] = F[C(T)] + g[T \ {C(T)}]
    BY DEF IsSums
  <2> QED
    BY <2>1, <2>2
<1> HIDE DEF C
<1>4. 0 \in Q
  <2> SUFFICES ASSUME NEW T \in SUBSET S, Cardinality(T) <= 0 PROVE Adds(T)
    OBVIOUS
  <2>1. T = {}
    <3>1. Cardinality(T) \in Nat /\ IsFiniteSet(T)
      BY <1>1
    <3>2. Cardinality(T) = 0
      BY <3>1
    <3> QED
      BY <3>1, <3>2, FS_EmptySet
  <2> QED
    BY <2>1, <1>2
<1>5. ASSUME NEW n \in Nat, n \in Q PROVE n + 1 \in Q
  <2>1. \A U \in SUBSET S : Cardinality(U) <= n => Adds(U)
    BY <1>5
  <2> SUFFICES ASSUME NEW T \in SUBSET S, Cardinality(T) = n + 1 PROVE Adds(T)
    <3>1. \A T \in SUBSET S : Cardinality(T) \in Nat
      BY <1>1
    <3> HIDE DEF Adds
    <3>2. \A T \in SUBSET S : Cardinality(T) <= n + 1 => Cardinality(T) <= n \/ Cardinality(T) = n + 1
      BY <3>1
    <3> QED
      BY <2>1, <3>2
  <2> HIDE DEF Q, Adds
  <2>2. \A x \in T : T \ {x} \in SUBSET S /\ Cardinality(T \ {x}) = n
    <3> SUFFICES ASSUME NEW x \in T PROVE Cardinality(T \ {x}) = n
      OBVIOUS
    <3>1. IsFiniteSet(T)
      BY <1>1
    <3>2. Cardinality(T \ {x}) = Cardinality(T) - 1
      BY <3>1, FS_RemoveElement
    <3> QED
      BY <3>2
  <2>3. T # {}
    <3>1. Cardinality({}) = 0 /\ n + 1 # 0
      BY FS_EmptySet
    <3> QED
      BY <3>1
  <2> DEFINE c == C(T)
  <2>4. c \in T /\ g[T] = F[c] + g[T \ {c}] /\ F[c] \in Nat
    BY <1>3, <2>3
  <2> HIDE DEF c
  <2>5. Adds(T \ {c})
    BY <2>1, <2>2, <2>4
  <2>6. g[T] \in Nat
    BY <2>4, <2>5 DEF Adds
  <2>7. ASSUME NEW x \in T PROVE g[T] = F[x] + g[T \ {x}]
    <3>1. CASE x = c
      BY <3>1, <2>4
    <3>2. CASE x # c
      <4>1. Adds(T \ {x})
        BY <2>1, <2>2
      <4>2. g[T \ {c}] = F[x] + g[(T \ {c}) \ {x}]
        BY <2>5, <3>2 DEF Adds
      <4>3. g[T \ {x}] = F[c] + g[(T \ {x}) \ {c}]
        BY <2>4, <4>1, <3>2 DEF Adds
      <4> DEFINE a == g[(T \ {x}) \ {c}]
      <4>4. (T \ {c}) \ {x} = (T \ {x}) \ {c}
        OBVIOUS
      <4>5. a \in Nat
        <5>1. IsFiniteSet(T \ {x}) /\ T \ {x} \in SUBSET S
          BY <1>1, <2>2
        <5>2. Cardinality((T \ {x}) \ {c}) = n - 1
          BY <5>1, <2>2, <2>4, <3>2, FS_RemoveElement
        <5>3. Adds((T \ {x}) \ {c})
          BY <5>1, <5>2, <2>1
        <5> QED
          BY <5>3 DEF Adds
      <4>6. F[x] \in Nat
        OBVIOUS
      <4> HIDE DEF a
      <4>7. g[T \ {c}] = F[x] + a /\ g[T \ {x}] = F[c] + a
        BY <4>2, <4>3, <4>4 DEF a
      <4> QED
        BY <2>4, <4>5, <4>6, <4>7
    <3> QED
      BY <3>1, <3>2
  <2> QED
    BY <2>6, <2>7 DEF Adds
<1>6. \A n \in Nat : n \in Q
  <2> HIDE DEF Q
  <2> QED
    BY <1>4, <1>5, Counting
<1>7. \A T \in SUBSET S : Adds(T)
  BY <1>1, <1>6
<1> QED
  BY <1>2, <1>7

\* Two that give every element the same number give their sets the same sum.
LEMMA SumsAgree ==
  ASSUME NEW S, IsFiniteSet(S), NEW F, \A x \in S : F[x] \in Nat, NEW g, IsSums(g, F, S),
         NEW R, IsFiniteSet(R), NEW G, \A x \in R : G[x] \in Nat, NEW h, IsSums(h, G, R),
         NEW T \in SUBSET S, T \in SUBSET R, \A x \in T : F[x] = G[x]
  PROVE  g[T] = h[T]
<1> DEFINE Q == {U \in SUBSET T : g[U] = h[U]}
<1>1. g[{}] = 0 /\ \A U \in SUBSET S : \A x \in U : g[U] = F[x] + g[U \ {x}]
  BY SumsAdd
<1>2. h[{}] = 0 /\ \A U \in SUBSET R : \A x \in U : h[U] = G[x] + h[U \ {x}]
  BY SumsAdd
<1>3. {} \in Q
  BY <1>1, <1>2
<1>4. ASSUME NEW U \in SUBSET T, NEW x \in T \ U, U \in Q PROVE U \cup {x} \in Q
  <2>1. (U \cup {x}) \ {x} = U /\ U \cup {x} \in SUBSET T
    OBVIOUS
  <2>2. g[U \cup {x}] = F[x] + g[U] /\ h[U \cup {x}] = G[x] + h[U]
    BY <1>1, <1>2, <2>1
  <2> QED
    BY <1>4, <2>1, <2>2
<1>5. IsFiniteSet(T)
  BY FS_Subset
<1> HIDE DEF Q
<1>6. T \in Q
  BY <1>3, <1>4, <1>5, Growing
<1> QED
  BY <1>6 DEF Q

-----------------------------------------------------------------------------
(* Sums. *)

\* What MapThenSumSet gives is what any such function gives.
LEMMA SumIs ==
  ASSUME NEW S, IsFiniteSet(S), NEW F
  PROVE  \E g : IsSums(g, F, S) /\ SumOf(F, S) = g[S]
<1> DEFINE iter == CHOOSE g : IsSums(g, F, S)
<1>1. \E g : IsSums(g, F, S)
  BY SumsExist
<1>2. IsSums(iter, F, S)
  BY <1>1, Zenon
<1>3. SumOf(F, S) = iter[S]
  BY Zenon DEF SumOf, MapThenSumSet, MapThenFoldSet, IsSums
<1> QED
  BY <1>2, <1>3

\* Nothing adds up to nothing.
LEMMA SumEmpty ==
  ASSUME NEW F
  PROVE  SumOf(F, {}) = 0
<1>1. PICK g : IsSums(g, F, {}) /\ SumOf(F, {}) = g[{}]
  BY SumIs, FS_EmptySet
<1> QED
  BY <1>1 DEF IsSums

\* What is the same of every element has the same sum.
LEMMA SumSame ==
  ASSUME NEW S, IsFiniteSet(S), NEW F, NEW G, \A x \in S : F[x] \in Nat /\ F[x] = G[x]
  PROVE  SumOf(F, S) = SumOf(G, S)
<1>1. PICK g : IsSums(g, F, S) /\ SumOf(F, S) = g[S]
  BY SumIs
<1>2. PICK h : IsSums(h, G, S) /\ SumOf(G, S) = h[S]
  BY SumIs
<1>3. \A x \in S : G[x] \in Nat
  OBVIOUS
<1>4. g[S] = h[S]
  BY <1>1, <1>2, <1>3, SumsAgree
<1> QED
  BY <1>1, <1>2, <1>4

\* A sum is a number, and any element may be taken out of it first.
LEMMA SumTakes ==
  ASSUME NEW S, IsFiniteSet(S), NEW F, \A y \in S : F[y] \in Nat
  PROVE  /\ SumOf(F, S) \in Nat
         /\ \A x \in S : SumOf(F, S) = F[x] + SumOf(F, S \ {x})
<1>1. PICK g : IsSums(g, F, S) /\ SumOf(F, S) = g[S]
  BY SumIs
<1>2. g[S] \in Nat /\ \A x \in S : g[S] = F[x] + g[S \ {x}]
  BY <1>1, SumsAdd
<1>3. ASSUME NEW x \in S PROVE SumOf(F, S \ {x}) = g[S \ {x}]
  <2>1. IsFiniteSet(S \ {x})
    BY FS_RemoveElement
  <2>2. PICK h : IsSums(h, F, S \ {x}) /\ SumOf(F, S \ {x}) = h[S \ {x}]
    BY <2>1, SumIs
  <2>3. S \ {x} \in SUBSET S /\ S \ {x} \in SUBSET (S \ {x}) /\ \A y \in S \ {x} : F[y] \in Nat
    OBVIOUS
  <2>4. g[S \ {x}] = h[S \ {x}]
    BY <1>1, <2>1, <2>2, <2>3, SumsAgree
  <2> QED
    BY <2>2, <2>4
<1> QED
  BY <1>1, <1>2, <1>3

\* One element more is its number more.
LEMMA SumAdds ==
  ASSUME NEW S, IsFiniteSet(S), NEW x, x \notin S, NEW F, \A y \in S \cup {x} : F[y] \in Nat
  PROVE  SumOf(F, S \cup {x}) = SumOf(F, S) + F[x]
<1>1. IsFiniteSet(S \cup {x}) /\ (S \cup {x}) \ {x} = S
  BY FS_AddElement
<1>2. SumOf(F, S \cup {x}) = F[x] + SumOf(F, (S \cup {x}) \ {x}) /\ SumOf(F, S) \in Nat
  BY <1>1, SumTakes
<1>3. F[x] \in Nat
  OBVIOUS
<1>4. SumOf(F, (S \cup {x}) \ {x}) = SumOf(F, S)
  BY <1>1
<1> QED
  BY <1>2, <1>3, <1>4

\* Two sets apart add up together.
LEMMA SumJoins ==
  ASSUME NEW S, IsFiniteSet(S), NEW T, IsFiniteSet(T), S \cap T = {},
         NEW F, \A y \in S \cup T : F[y] \in Nat
  PROVE  SumOf(F, S \cup T) = SumOf(F, S) + SumOf(F, T)
<1> DEFINE Q == {U \in SUBSET T : SumOf(F, S \cup U) = SumOf(F, S) + SumOf(F, U)}
<1>1. SumOf(F, S) \in Nat
  BY SumTakes
<1>2. {} \in Q
  <2>1. S \cup {} = S
    OBVIOUS
  <2> QED
    BY <2>1, <1>1, SumEmpty
<1>3. ASSUME NEW U \in SUBSET T, NEW x \in T \ U, U \in Q PROVE U \cup {x} \in Q
  <2>1. IsFiniteSet(U) /\ IsFiniteSet(S \cup U) /\ U \cup {x} \in SUBSET T
    BY FS_Subset, FS_Union
  <2>2. x \notin S \cup U /\ S \cup (U \cup {x}) = (S \cup U) \cup {x}
        /\ (\A y \in (S \cup U) \cup {x} : F[y] \in Nat) /\ (\A y \in U \cup {x} : F[y] \in Nat)
    OBVIOUS
  <2>3. SumOf(F, (S \cup U) \cup {x}) = SumOf(F, S \cup U) + F[x]
    BY <2>1, <2>2, SumAdds
  <2>4. SumOf(F, U \cup {x}) = SumOf(F, U) + F[x] /\ SumOf(F, U) \in Nat
    BY <2>1, <2>2, SumAdds, SumTakes
  <2>5. SumOf(F, S \cup U) = SumOf(F, S) + SumOf(F, U) /\ F[x] \in Nat
    BY <1>3
  <2>6. SumOf(F, S \cup (U \cup {x})) = SumOf(F, S) + SumOf(F, U \cup {x})
    <3>1. SumOf(F, S \cup (U \cup {x})) = SumOf(F, (S \cup U) \cup {x})
      BY <2>2
    <3> QED
      BY <1>1, <2>3, <2>4, <2>5, <3>1
  <2> QED
    BY <2>1, <2>6
<1> HIDE DEF Q
<1>4. T \in Q
  BY <1>2, <1>3, Growing
<1> QED
  BY <1>4 DEF Q

\* Of fewer there is no more.
LEMMA SumOfFewer ==
  ASSUME NEW S, IsFiniteSet(S), NEW T \in SUBSET S, NEW F, \A y \in S : F[y] \in Nat
  PROVE  SumOf(F, T) \in Nat /\ SumOf(F, S) \in Nat /\ SumOf(F, T) <= SumOf(F, S)
<1>1. IsFiniteSet(T) /\ IsFiniteSet(S \ T) /\ T \cup (S \ T) = S /\ T \cap (S \ T) = {}
  BY FS_Subset
<1>2. SumOf(F, T) \in Nat /\ SumOf(F, S \ T) \in Nat /\ SumOf(F, S) \in Nat
  BY <1>1, SumTakes
<1>3. SumOf(F, T \cup (S \ T)) = SumOf(F, T) + SumOf(F, S \ T)
  BY <1>1, SumJoins
<1> QED
  BY <1>1, <1>2, <1>3

\* Where one element changes, the sum changes by as much.
LEMMA SumChanges ==
  ASSUME NEW S, IsFiniteSet(S), NEW x \in S, NEW F, NEW G,
         \A y \in S : F[y] \in Nat /\ G[y] \in Nat, \A y \in S \ {x} : F[y] = G[y]
  PROVE  SumOf(G, S) = SumOf(F, S) - F[x] + G[x]
<1>1. IsFiniteSet(S \ {x})
  BY FS_RemoveElement
<1>2. SumOf(F, S \ {x}) = SumOf(G, S \ {x}) /\ SumOf(F, S \ {x}) \in Nat
  BY <1>1, SumSame, SumTakes
<1>3. SumOf(F, S) = F[x] + SumOf(F, S \ {x}) /\ SumOf(G, S) = G[x] + SumOf(G, S \ {x})
  BY SumTakes
<1> QED
  BY <1>2, <1>3

\* Zeros add up to zero.
LEMMA SumOfNothing ==
  ASSUME NEW S, IsFiniteSet(S), NEW F, \A y \in S : F[y] = 0
  PROVE  SumOf(F, S) = 0
<1> DEFINE Q == {U \in SUBSET S : SumOf(F, U) = 0}
<1>1. {} \in Q
  BY SumEmpty
<1>2. ASSUME NEW U \in SUBSET S, NEW x \in S \ U, U \in Q PROVE U \cup {x} \in Q
  <2>1. IsFiniteSet(U) /\ x \notin U /\ \A y \in U \cup {x} : F[y] \in Nat
    BY FS_Subset
  <2>2. SumOf(F, U \cup {x}) = SumOf(F, U) + F[x]
    BY <2>1, SumAdds
  <2> QED
    BY <1>2, <2>2
<1> HIDE DEF Q
<1>3. S \in Q
  BY <1>1, <1>2, Growing
<1> QED
  BY <1>3 DEF Q

\* What is zero may be left out.
LEMMA SumOfRest ==
  ASSUME NEW S, IsFiniteSet(S), NEW T \in SUBSET S, NEW F,
         \A y \in S : F[y] \in Nat, \A y \in S \ T : F[y] = 0
  PROVE  SumOf(F, T) = SumOf(F, S)
<1>1. IsFiniteSet(T) /\ IsFiniteSet(S \ T) /\ T \cup (S \ T) = S /\ T \cap (S \ T) = {}
  BY FS_Subset
<1>2. SumOf(F, S \ T) = 0 /\ SumOf(F, T) \in Nat
  BY <1>1, SumOfNothing, SumTakes
<1>3. SumOf(F, T \cup (S \ T)) = SumOf(F, T) + SumOf(F, S \ T)
  BY <1>1, SumJoins
<1>4. SumOf(F, T \cup (S \ T)) = SumOf(F, S)
  BY <1>1
<1> QED
  BY <1>2, <1>3, <1>4

\* Two ways to change one summand, or none.
LEMMA SumMoves ==
  ASSUME NEW S, IsFiniteSet(S), NEW x, NEW F, NEW G,
         \A y \in S : F[y] \in Nat /\ G[y] \in Nat, \A y \in S \ {x} : F[y] = G[y]
  PROVE  \A T \in SUBSET S :
           /\ SumOf(F, T) \in Nat /\ SumOf(G, T) \in Nat
           /\ x \in T    => SumOf(G, T) = SumOf(F, T) - F[x] + G[x]
           /\ x \notin T => SumOf(G, T) = SumOf(F, T)
<1> SUFFICES ASSUME NEW T \in SUBSET S
             PROVE  /\ SumOf(F, T) \in Nat /\ SumOf(G, T) \in Nat
                    /\ x \in T    => SumOf(G, T) = SumOf(F, T) - F[x] + G[x]
                    /\ x \notin T => SumOf(G, T) = SumOf(F, T)
  OBVIOUS
<1>1. IsFiniteSet(T)
  BY FS_Subset
<1>2. SumOf(F, T) \in Nat /\ SumOf(G, T) \in Nat
  BY <1>1, SumTakes
<1>3. ASSUME x \in T PROVE SumOf(G, T) = SumOf(F, T) - F[x] + G[x]
  BY <1>1, <1>3, SumChanges
<1>4. ASSUME x \notin T PROVE SumOf(G, T) = SumOf(F, T)
  <2>1. \A y \in T : F[y] \in Nat /\ F[y] = G[y]
    BY <1>4
  <2> QED
    BY <1>1, <2>1, SumSame
<1> QED
  BY <1>2, <1>3, <1>4

\* A map that keeps things apart and gives each the number it has where it goes.
CarriesOver(m, F, G, S) ==
  /\ \A x, y \in S : m[x] = m[y] => x = y
  /\ \A x \in S : G[x] \in Nat /\ F[m[x]] = G[x]
ImageOf(m, S) == {m[x] : x \in S}

\* An image under such a map is finite, and its sum is the sum of what it is of.
LEMMA SumOfImage ==
  ASSUME NEW S, IsFiniteSet(S), NEW m, NEW F, NEW G, CarriesOver(m, F, G, S)
  PROVE  IsFiniteSet(ImageOf(m, S)) /\ SumOf(F, ImageOf(m, S)) = SumOf(G, S)
<1> DEFINE Good(T) == IsFiniteSet(ImageOf(m, T)) /\ SumOf(F, ImageOf(m, T)) = SumOf(G, T)
           Q == {T \in SUBSET S : Good(T)}
<1>1. {} \in Q
  <2>1. ImageOf(m, {}) = {}
    BY DEF ImageOf
  <2> QED
    BY <2>1, FS_EmptySet, SumEmpty
<1>2. ASSUME NEW T \in SUBSET S, NEW x \in S \ T, T \in Q PROVE T \cup {x} \in Q
  <2> DEFINE A == ImageOf(m, T)
             a == m[x]
  <2>1. ImageOf(m, T \cup {x}) = A \cup {a} /\ a \notin A
    BY DEF ImageOf, CarriesOver
  <2>2. IsFiniteSet(T) /\ IsFiniteSet(A) /\ SumOf(F, A) = SumOf(G, T)
    BY <1>2, FS_Subset
  <2>3. (\A y \in A \cup {a} : F[y] \in Nat) /\ (\A y \in T \cup {x} : G[y] \in Nat) /\ F[a] = G[x]
    BY DEF ImageOf, CarriesOver
  <2> HIDE DEF A, a, Q
  <2>4. IsFiniteSet(A \cup {a})
    BY <2>2, FS_AddElement
  <2>5. SumOf(F, A \cup {a}) = SumOf(F, A) + F[a]
    BY <2>1, <2>2, <2>3, SumAdds
  <2>6. SumOf(G, T \cup {x}) = SumOf(G, T) + G[x]
    BY <2>2, <2>3, SumAdds
  <2>7. Good(T \cup {x})
    BY <2>1, <2>2, <2>3, <2>4, <2>5, <2>6
  <2> QED
    BY <2>7 DEF Q
<1> HIDE DEF Q
<1>3. S \in Q
  BY <1>1, <1>2, Growing
<1> QED
  BY <1>3 DEF Q
=============================================================================
