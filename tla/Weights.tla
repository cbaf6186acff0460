-------------------------------- MODULE Weights --------------------------------
(***************************************************************************)
(* Where a model's weights are: waifu/src/flint/weights.rs.  All of them   *)
(* on the host, and of the smallest a copy on the device, let go of one    *)
(* at a time when a run finds the device full.  Ir.tla has the runs.       *)
(***************************************************************************)
EXTENDS Integers, Sequences, FiniteSets, FiniteSetsExt

CONSTANTS
  BytesOf,     \* of each weight, numbered in the order of their names
  Package,     \* the weights in the order the package lies in
  Capacity,    \* what the device's allocator may hold
  Share,       \* DEVICE_SHARE of it, less what it holds already
  Elsewhere,   \* what others may have taken of the device, which no budget counts
  Asks         \* device_weight_bytes: what a caller may allow the weights on the device

Names == DOMAIN BytesOf

ASSUME WeightsAssumption ==
  /\ BytesOf \in Seq(Nat \ {0}) /\ Package \in Seq(Names)
  /\ \A n \in Names : \E i \in DOMAIN Package : Package[i] = n
  /\ Capacity \in Nat /\ Share \in 0..Capacity /\ Elsewhere \subseteq 0..Capacity /\ Asks \subseteq Nat

VARIABLES
  taken,       \* what others have of the device
  allowed,     \* what there was room for when the package was read
  kept         \* device_tensors

weights == <<taken, allowed, kept>>

Bytes(names) == MapThenSumSet(LAMBDA n : BytesOf[n], names)
Lesser(a, b) == IF a <= b THEN a ELSE b

\* The order of sizes, and of names among weights of one size.
Before(m, n) == BytesOf[m] < BytesOf[n] \/ (BytesOf[m] = BytesOf[n] /\ m < n)

\* A mutation: the largest first.
LargestWithin(budget) == {n \in Names : Bytes({m \in Names : m = n \/ Before(n, m)}) <= budget}

\* The smallest first, for as long as the next fits.
SmallestWithin(budget) == {n \in Names : Bytes({m \in Names : m = n \/ Before(m, n)}) <= budget}

PlaceOf(n) == CHOOSE i \in DOMAIN Package : Package[i] = n

\* A mutation: what the device has free is not asked about again.
MovedAll(chosen) == chosen

\* Moved in the order of the package, up to the first the device has no memory for.
Moved(chosen) ==
  {n \in chosen : Bytes({m \in chosen : PlaceOf(m) <= PlaceOf(n)}) <= Capacity - taken}

\* A model read with ask bytes of its weights on the device: keep_the_smallest_on_device.
InitWeights ==
  /\ taken \in Elsewhere
  /\ \E ask \in Asks :
       /\ allowed = Lesser(ask, Share)
       /\ kept = Moved(SmallestWithin(allowed))

\* The one that goes first when the device runs out: the largest, of those the last by name.
Largest(names) == CHOOSE n \in names : \A m \in names : m = n \/ Before(m, n)

\* A mutation: the handle given out is dropped, and the one in device_tensors stays.
EvictOneNotTaken == kept # {} /\ kept' = kept /\ UNCHANGED <<taken, allowed>>

\* evict_one, answering Some.
EvictOne == kept # {} /\ kept' = kept \ {Largest(kept)} /\ UNCHANGED <<taken, allowed>>

-----------------------------------------------------------------------------
\* No choice of weights within what is allowed is more of them than the smallest, which is why
\* the smallest are the ones: every weight kept is a copy across the bus saved in every run.
KeepsTheMost ==
  \A names \in SUBSET Names :
    Bytes(names) <= allowed => Cardinality(names) <= Cardinality(SmallestWithin(allowed))
=============================================================================
