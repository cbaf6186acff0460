---------------------------------- MODULE Ir ----------------------------------
(***************************************************************************)
(* A graph written node by node, compiled to instructions and run: the     *)
(* waifu/src/flint files graph.rs, op.rs and ir.rs.  A compilation drops   *)
(* what nothing needs and frees each value after its last reader; a run    *)
(* that finds the device full lets weights go, one at a time, and tries    *)
(* the instruction again.                                                  *)
(***************************************************************************)
EXTENDS Weights, SequencesExt

CONSTANTS
  MaxNodes,    \* a bound: the nodes of the graph
  MaxRuns,     \* a bound: the runs of its compilation
  MayFail      \* whether an instruction may fail for a reason other than memory

ASSUME IrAssumption == {MaxNodes, MaxRuns} \subseteq Nat /\ MayFail \in BOOLEAN

VARIABLES
  nodes, outputs,     \* the graph: its operations in order, and the values it is for
  insts,              \* its compilation
  slots,              \* of each value: the storage its tensor is over, or None
  ip,                 \* the instruction a run is at, 0 between runs
  drawn,              \* the values the generator has moved on for, in this run
  outcome, runs       \* how the last run ended, and how many there were

graph == <<nodes, outputs>>
vars  == <<weights, graph, insts, slots, ip, drawn, outcome, runs>>

Values == 1..Len(nodes)

\* An operation: what it is, the weight a load names, and the values it reads, one read twice
\* named twice. A draw stands for Rand and Randn, a view for all that share their input's
\* storage, add for all that make a tensor of their own.
Op(kind, weight, operands) == [kind |-> kind, weight |-> weight, operands |-> operands]

\* A storage: the one of a tensor a run made, of the device's copy of a weight, of the caller's.
None       == <<"none", 0>>
Made(v)    == <<"made", v>>
Copy(n)    == <<"kept", n>>
FromCaller == <<"caller", 0>>

Init ==
  /\ InitWeights
  /\ nodes = <<>> /\ outputs = {} /\ insts = <<>> /\ slots = <<>>
  /\ ip = 0 /\ drawn = <<>> /\ outcome = "none" /\ runs = 0

-----------------------------------------------------------------------------
(* Writing the graph. *)

Building == insts = <<>>

Push(op) ==
  /\ Building /\ Len(nodes) < MaxNodes
  /\ nodes' = Append(nodes, op)
  /\ UNCHANGED <<weights, outputs, insts, slots, ip, drawn, outcome, runs>>

Input == Push(Op("input", 0, <<>>))
Draw  == Push(Op("draw", 0, <<>>))
\* One node per weight, however many times it is asked for.
Load(n) == (\A v \in Values : nodes[v].weight # n) /\ Push(Op("load", n, <<>>))
View(v) == Push(Op("view", 0, <<v>>))
Add(u, v) == Push(Op("add", 0, <<u, v>>))

Output(v) ==
  /\ Building /\ outputs' = outputs \cup {v}
  /\ UNCHANGED <<weights, nodes, insts, slots, ip, drawn, outcome, runs>>

-----------------------------------------------------------------------------
(* Compiling it. *)

Operands(v) == Range(nodes[v].operands)
IsRoot(v)   == nodes[v].kind \in {"input", "draw"}

\* One pass from the back.
Live ==
  LET back[v \in 1..(Len(nodes) + 1)] ==
        IF v > Len(nodes) THEN outputs
        ELSE back[v + 1] \cup
               (IF v \in back[v + 1] \/ IsRoot(v) THEN {v} \cup Operands(v) ELSE {})
  IN back[1]

ReadsOf(v, readers) ==
  MapThenSumSet(LAMBDA r : Cardinality({i \in DOMAIN nodes[r].operands : nodes[r].operands[i] = v}),
                readers)

\* A mutation: a reader that is never run keeps its operand, as Graph::use_counts would have it.
RemainingOfAll == [v \in Values |-> ReadsOf(v, Values) + (IF v \in outputs THEN 1 ELSE 0)]

\* remaining_reads: an output has one more, which is never taken back.
Remaining == [v \in Values |-> ReadsOf(v, Live) + (IF v \in outputs THEN 1 ELSE 0)]

Run(v)  == [inst |-> "run", value |-> v]
Free(v) == [inst |-> "free", value |-> v]

\* A mutation: an operand is freed wherever it is read.
TakenAlways(code, v) ==
  [insts |-> Append(code.insts, Free(v)), remaining |-> [code.remaining EXCEPT ![v] = @ - 1]]

\* A read taken off the count; the last one frees.
Taken(code, v) ==
  [insts |-> IF code.remaining[v] = 1 THEN Append(code.insts, Free(v)) ELSE code.insts,
   remaining |-> [code.remaining EXCEPT ![v] = @ - 1]]

\* A node, its operands read for the last time, and itself where it ran for its effect.
Emitted(code, v) ==
  LET ran  == [code EXCEPT !.insts = Append(@, Run(v))]
      read == FoldLeft(Taken, ran, nodes[v].operands)
  IN IF v \notin Live THEN code
     ELSE IF read.remaining[v] = 0 THEN [read EXCEPT !.insts = Append(@, Free(v))]
     ELSE read

Compile ==
  /\ Building /\ Live # {}
  /\ insts' = FoldLeft(Emitted, [insts |-> <<>>, remaining |-> Remaining], [v \in Values |-> v]).insts
  /\ slots' = [v \in Values |-> None]
  /\ UNCHANGED <<weights, graph, ip, drawn, outcome, runs>>

-----------------------------------------------------------------------------
(* Running it. *)

Held   == Range(slots) \ {None}
Size(storage) ==
  CASE storage[1] = "caller" -> 0
    [] storage[1] = "kept"   -> BytesOf[storage[2]]
    [] OTHER -> IF nodes[storage[2]].kind = "load" THEN BytesOf[nodes[storage[2]].weight] ELSE 1
SizeOf(storages) == MapThenSumSet(Size, storages)
Used   == SizeOf(Held \cup {Copy(n) : n \in kept})
Room   == Capacity - taken

Inputs == {v \in Values : nodes[v].kind = "input"}

\* The names the caller gives, where "x" is what every input of the graph is called.
Start(given) ==
  /\ ~Building /\ ip = 0 /\ runs < MaxRuns
  /\ runs' = runs + 1
  /\ drawn' = <<>>
  /\ IF given = (IF Inputs = {} THEN {} ELSE {"x"})
     THEN ip' = 1 /\ outcome' = "running"
     ELSE ip' = 0 /\ outcome' = "refused"
  /\ UNCHANGED <<weights, graph, insts, slots>>

At(inst) == /\ ip \in DOMAIN insts /\ insts[ip].inst = inst
Value    == insts[ip].value
Node     == nodes[Value]

\* The storage an instruction's result is over.
Result ==
  CASE Node.kind = "input" -> FromCaller
    [] Node.kind = "view"  -> slots[Node.operands[1]]
    [] Node.kind = "load"  -> IF Node.weight \in kept THEN Copy(Node.weight) ELSE Made(Value)
    [] OTHER -> Made(Value)

Fits == Result \in Held \/ Result \in {Copy(n) : n \in kept} \/ Used + Size(Result) <= Room

\* A draw has its output before it moves the generator on.
Execute ==
  /\ At("run") /\ Fits
  /\ slots' = [slots EXCEPT ![Value] = Result]
  /\ drawn' = IF Node.kind = "draw" THEN Append(drawn, Value) ELSE drawn
  /\ ip' = ip + 1
  /\ UNCHANGED <<weights, graph, insts, outcome, runs>>

\* A mutation: the generator is moved on first.
MakeRoomDrawn ==
  /\ At("run") /\ ~Fits /\ EvictOne
  /\ drawn' = IF Node.kind = "draw" THEN Append(drawn, Value) ELSE drawn
  /\ UNCHANGED <<graph, insts, slots, ip, outcome, runs>>

\* Out of memory: a weight is let go of and the instruction is tried again.
MakeRoom ==
  /\ At("run") /\ ~Fits /\ EvictOne
  /\ UNCHANGED <<graph, insts, slots, ip, drawn, outcome, runs>>

\* The slots go with the run.
Ends(how) ==
  /\ outcome' = how /\ ip' = 0
  /\ slots' = [v \in Values |-> None]
  /\ UNCHANGED <<weights, graph, insts, drawn, runs>>

\* A mutation: the last weight is not let go of.
GivesUpEarly == At("run") /\ ~Fits /\ Cardinality(kept) <= 1 /\ Ends("full")

\* Nothing is left to let go of.
GivesUp == At("run") /\ ~Fits /\ kept = {} /\ Ends("full")

Fails == MayFail /\ At("run") /\ Fits /\ Ends("failed")

FreeValue ==
  /\ At("free")
  /\ slots' = [slots EXCEPT ![Value] = None]
  /\ ip' = ip + 1
  /\ UNCHANGED <<weights, graph, insts, drawn, outcome, runs>>

Finish == ip = Len(insts) + 1 /\ ~Building /\ Ends("done")

Write ==
  \/ Input \/ Draw \/ \E n \in Names : Load(n)
  \/ \E v \in Values : View(v) \/ Output(v) \/ \E u \in Values : Add(u, v)

Step == Execute \/ MakeRoom \/ GivesUp \/ FreeValue \/ Finish

Next == Write \/ Compile \/ (\E given \in SUBSET {"x", "y"} : Start(given)) \/ Step \/ Fails

Spec == Init /\ [][Next]_vars
\* A run is one call on one thread, which goes on until it returns.
FairSpec == Spec /\ WF_vars(Step)

-----------------------------------------------------------------------------
(* What a compilation and its runs promise. *)

\* What has to run, by what it is for and not by a pass: every draw, every input, the outputs,
\* and whatever one of these is made from.
Needed ==
  LET Closed(s) == \A v \in s : Operands(v) \subseteq s
      Wanted    == outputs \cup {v \in Values : IsRoot(v)}
  IN {v \in Values : \A s \in SUBSET Values : Wanted \subseteq s /\ Closed(s) => v \in s}

\* What a run at the node v has reason to hold.
HeldFor(v) ==
  {u \in Needed : u < v /\ (u \in outputs \/ \E w \in Needed : w >= v /\ u \in Operands(w))}

\* Only what is needed runs; an instruction finds every value it reads and the run at its end every
\* output, so that neither expect of ir.rs is ever reached; and a value is let go of as soon as
\* nothing left to run reads it, whoever else the graph has reading it. With the weights kept it is
\* never more than the device has, whatever the budget thought that was.
HeldAsNeeded ==
  /\ Used <= Room
  /\ At("run") => Value \in Needed /\ {v \in Values : slots[v] # None} = HeldFor(Value)
  /\ ip > Len(insts) /\ ip > 0 => \A v \in outputs : slots[v] # None

\* A run that ends well moved the generator on as an eager pass over the graph would: for every
\* draw, those nothing reads and those tried again included, once each and in order.
DrawsAsEager ==
  outcome = "done" =>
    /\ Range(drawn) = {v \in Values : nodes[v].kind = "draw"}
    /\ \A i, j \in DOMAIN drawn : i < j => drawn[i] < drawn[j]

\* Keeping weights on the device never costs a run: it fails for memory only where the same
\* run with every weight left on the host would have too.
Owner(v) == LET of[u \in Values] == IF nodes[u].kind = "view" THEN of[nodes[u].operands[1]] ELSE u
            IN of[v]
FailsAsStreamed ==
  [][outcome' = "full" /\ ip > 0 =>
       SizeOf({Made(Owner(u)) : u \in {w \in HeldFor(Value) : nodes[Owner(w)].kind # "input"}})
         + Size(Made(Value)) > Room]_vars

\* A run ends, however often it finds the device full.
RunsEnd == ip > 0 ~> ip = 0
=============================================================================
