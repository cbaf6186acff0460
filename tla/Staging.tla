------------------------------- MODULE Staging -------------------------------
(***************************************************************************)
(* What an upload through memory of the host's promises, whichever backend *)
(* makes it: a slot is filled only once the device has read what was in it *)
(* before.  flint/vulkan/context.cc keeps it with a ring of segments,      *)
(* flint/cuda/staged_upload.cc with two buffers and their events.          *)
(***************************************************************************)
EXTENDS Integers

CONSTANT Slots    \* the places there are: what one write fills, or a byte of it

VARIABLE reads    \* of each, the copies out of it the device has yet to make

StagingInit == reads = [s \in Slots |-> 0]

Fill == \A s \in Slots : reads'[s] = reads[s] \/ (reads[s] = 0 /\ reads'[s] = 1)

Read == \A s \in Slots : reads'[s] = reads[s] \/ (reads[s] = 1 /\ reads'[s] = 0)

StagingNext == reads' \in [Slots -> {0, 1}] /\ (Fill \/ Read)

StagingSpec == StagingInit /\ [][StagingNext]_reads
=============================================================================
