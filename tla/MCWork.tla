-------------------------------- MODULE MCWork --------------------------------
(* What the engine's thread does of a request, on small instances, one at a time: what it       *)
(* reports, draws and stops at (Reports), the graphs it runs over the weights it keeps (Ir), and *)
(* the memory and copies of a device under them (VulkanContext, CudaStreams).                    *)
EXTENDS Ir, Reports, VulkanContext, CudaStreams

VARIABLE side

workVars == <<vars, reportVars, vkVars, cudaVars, side>>

\* Where graphs are not looked at, the device and its weights are as they are without any kept.
WorkInit ==
  /\ Init /\ ReportsInit /\ VkInit /\ CudaInit
  /\ side \in {"graph", "request", "vulkan", "cuda"}
  /\ side # "graph" => taken = 0 /\ allowed = 0

WorkNext ==
  \/ side = "graph"   /\ Next        /\ UNCHANGED <<reportVars, vkVars, cudaVars, side>>
  \/ side = "request" /\ ReportsNext /\ UNCHANGED <<vars, vkVars, cudaVars, side>>
  \/ side = "vulkan"  /\ VkNext      /\ UNCHANGED <<vars, reportVars, cudaVars, side>>
  \/ side = "cuda"    /\ CudaNext    /\ UNCHANGED <<vars, reportVars, vkVars, side>>

WorkSpec == WorkInit /\ [][WorkNext]_workVars /\ WF_vars(Step)

-----------------------------------------------------------------------------
(* Every graph over two weights that differ. *)

MCBytesOf == <<2, 1>>
MCPackage == <<1, 2>>

-----------------------------------------------------------------------------
(* Every small request. *)

MCRatios    == {<<1, 2>>, <<1, 1>>, <<2, 1>>}
MCStrengths == {<<0, 1>>, <<1, 4>>, <<1, 2>>, <<4, 5>>, <<1, 1>>}

\* A picture from noise, from a picture, and with pictures; and of a release with a schedule of its
\* own, whatever steps it is asked for.
MCDraws ==
       [kind : {"draw"}, model : {"sdxl"}, steps : 0..2, fixed : {0}, pictures : {0},
        from : {TRUE}, strength : MCStrengths]
  \cup [kind : {"draw"}, model : {"sdxl", "krea2", "anima"}, steps : 0..2, fixed : {0},
        pictures : {0, 1}, from : {FALSE}, strength : {<<4, 5>>}]
  \cup {r \in [kind : {"draw"}, model : {"qwen", "krea2"}, steps : 0..2, fixed : {0, 2},
                pictures : 0..3, from : BOOLEAN, strength : {<<4, 5>>}] :
         r.fixed > 0 => r.model = "qwen"}

\* Of steps that are taken and of those that are just too few or too many, in a pass and in the depth.
MCLayers == {r \in [kind : {"layers"}, steps : {0, 1, 2, 6}, dsteps : {0, 1, 2, 6, 7}, frames : {2},
                    slots : 2..3, head : BOOLEAN, given : {"good", "odd", "empty"}] :
               (r.steps \notin {1, 2} \/ r.given # "good") => r.dsteps = 1}

\* And one whose middle piece, or pieces, turn out to be empty.
MCPieces == [expects : 1..2, says : 0..2, cut : {FALSE}] \cup [expects : {1}, says : 1..2, cut : {TRUE}]
MCEmpties == {[i \in 1..n |-> [expects |-> 1, says |-> IF i \in {1, n} THEN 1 ELSE 0, cut |-> FALSE]] :
                n \in 3..4}
MCReadings == [kind : {"speak"}, model : {"tones", "indextts", "cosyvoice"},
               pieces : BoundedSeq(MCPieces, 2) \cup MCEmpties, streaming : BOOLEAN]

MCConversions == [kind : {"convert"}, steps : 1..2, style : BOOLEAN,
                  windows : UNION {[1..n -> {"said", "silent"}] : n \in 0..3}]

MCRequests == MCDraws \cup MCLayers \cup MCReadings \cup MCConversions

-----------------------------------------------------------------------------
\* What a request makes is walked in the steps that were asked for, and drawn from its own seed.
MadeAsAsked == StepsAsAsked /\ DrawsAsSeeded

\* Memory has one owner and is counted once, by whichever call has it; and what goes back to the
\* device is used by nothing it was given.
MemoryIsOwned == VkTypeOK /\ CudaTypeOK /\ UsedIsHeld

\* What is asked of the device stays within its limit, whatever the cache keeps, and whatever
\* another thread has counted between the look at the limit and the asking.
LimitsHold == [][MadeWithinLimit /\ CudaLimitHolds']_workVars

\* Staging memory, a ring or two buffers, is filled again only once every copy out of it is over;
\* and the copies a call waits for have been submitted.
StagedInTurn == VkStaged /\ CudaStaged
=============================================================================
