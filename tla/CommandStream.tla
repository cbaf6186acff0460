----------------------------- MODULE CommandStream -----------------------------
(***************************************************************************)
(* The work asked of a Metal device, in the order it was asked for:        *)
(* flint/metal_native/command_stream.cc.  Commands are encoded into a      *)
(* batch, a batch is committed once it is full or somebody needs it, and   *)
(* the device runs the batches in order.  How far it has come is what the  *)
(* completion handlers say, on threads of Metal's, in any order.           *)
(* VramAllocator.tla has the threads that encode, copy and wait.           *)
(***************************************************************************)
EXTENDS Integers, FiniteSets

CONSTANTS
  PerBatch,      \* kCommandsPerBatch
  InFlight,      \* kMaxBatchesInFlight
  MaxBatches,    \* a bound: the batches ever committed, the one being encoded left out
  MayFail        \* whether the device fails a batch

ASSUME StreamAssumption ==
  /\ PerBatch \in Nat \ {0} /\ InFlight \in Nat /\ MaxBatches \in Nat /\ MayFail \in BOOLEAN

VARIABLES
  recorded,      \* _numRecorded: commands in the batch being encoded
  submitted,     \* _submittedSerial
  finished,      \* _finished: batches whose handler was called after one's whose was not
  completed,     \* _completedSerial
  failed,        \* _error is not empty
  executed,      \* the device: the batches it has run, in order
  broken,        \* the device: those of them it failed
  uses           \* what the commands it has not run yet read and write: [batch, run]

stream == <<recorded, submitted, finished, completed, failed>>
device == <<executed, broken, uses>>

InitStream ==
  /\ recorded = 0 /\ submitted = 0 /\ finished = {} /\ completed = 0 /\ failed = FALSE
  /\ executed = 0 /\ broken = {} /\ uses = {}

\* The batch being encoded, which is the next to be committed.
Recording == submitted + 1

Submit ==
  /\ submitted' = IF recorded > 0 THEN submitted + 1 ELSE submitted
  /\ recorded' = 0

\* A command that uses these runs of memory; the batch it fills is committed.
Encode(runs) ==
  /\ submitted < MaxBatches
  /\ uses' = uses \cup {[batch |-> Recording, run |-> r] : r \in runs}
  /\ IF recorded + 1 >= PerBatch
     THEN submitted' = submitted + 1 /\ recorded' = 0
     ELSE submitted' = submitted /\ recorded' = recorded + 1

\* The batch a full one makes room for: with more than InFlight of them committed the host waits.
Throttle(serial) == IF serial > InFlight THEN serial - InFlight ELSE 0

\* Waiting for serial returns, or throws: nothing after a failed batch can be trusted.
Reached(serial) == serial = 0 \/ (completed >= serial /\ ~failed)
Throws(serial)  == serial > 0 /\ failed

-----------------------------------------------------------------------------
\* One queue: the batches run and finish in the order they were committed.
Execute ==
  /\ executed < submitted
  /\ executed' = executed + 1
  /\ uses' = {u \in uses : u.batch # executed'}
  /\ \/ broken' = broken
     \/ MayFail /\ broken' = broken \cup {executed'}
  /\ UNCHANGED stream

\* _completedSerial is everything up to the first that has not finished.
Advanced(done) ==
  CHOOSE n \in completed..submitted : (\A i \in completed+1..n : i \in done) /\ n + 1 \notin done

\* A mutation: a handler called out of turn is not remembered.
CompletedForgets(n) ==
  /\ n <= executed /\ n > completed /\ n \notin finished
  /\ failed' = (failed \/ n \in broken)
  /\ completed' = IF n = completed + 1 THEN n ELSE completed
  /\ finished' = finished \cup {n}
  /\ UNCHANGED <<recorded, submitted, executed, broken, uses>>

\* The completion handler of batch n.
Completed(n) ==
  /\ n <= executed /\ n > completed /\ n \notin finished
  /\ failed' = (failed \/ n \in broken)
  /\ completed' = Advanced(finished \cup {n})
  /\ finished' = {i \in finished \cup {n} : i > completed'}
  /\ UNCHANGED <<recorded, submitted, executed, broken, uses>>

DeviceStep == Execute \/ \E n \in 1..submitted : Completed(n)
=============================================================================
