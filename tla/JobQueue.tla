------------------------------ MODULE JobQueue ------------------------------
(***************************************************************************)
(* What the engine of waifu/src/engine.rs promises whoever submits to it:  *)
(* jobs are taken one at a time in the order they were put in, each ends   *)
(* exactly once, and one that somebody asked to stop while it waited ends  *)
(* as cancelled without being run.  Threads, locks and flags are Engine's. *)
(***************************************************************************)
EXTENDS Integers, Sequences

CONSTANT Jobs       \* the numbers jobs may have; 0 is none of them

VARIABLES waiting,  \* the jobs not yet taken, oldest first
          asked,    \* those of them somebody has asked to stop
          active,   \* the job taken, 0 when there is none
          doomed,   \* it had been asked to stop before it was taken
          ended     \* how each job ended, in the order they ended

queueVars == <<waiting, asked, active, doomed, ended>>

Waiting == {waiting[i] : i \in 1..Len(waiting)}
Over    == {ended[i].job : i \in 1..Len(ended)}

QueueInit == waiting = <<>> /\ asked = {} /\ active = 0 /\ doomed = FALSE /\ ended = <<>>

\* cancel_all may already have seen a job that is not on the queue yet.
Put(j) ==
  /\ j \notin Waiting \cup Over /\ j # active
  /\ waiting' = Append(waiting, j)
  /\ asked' \in {asked, asked \cup {j}}
  /\ UNCHANGED <<active, doomed, ended>>

AskToStop(js) ==
  /\ asked' = asked \cup js
  /\ UNCHANGED <<waiting, active, doomed, ended>>

Begin ==
  /\ active = 0 /\ waiting # <<>>
  /\ active' = Head(waiting) /\ waiting' = Tail(waiting)
  /\ doomed' = (Head(waiting) \in asked)
  /\ asked' = asked \ {Head(waiting)}
  /\ ended' = ended

End(outcome) ==
  /\ active # 0
  /\ doomed => outcome = "Cancelled"
  /\ ended' = Append(ended, [job |-> active, outcome |-> outcome])
  /\ active' = 0 /\ doomed' = FALSE
  /\ UNCHANGED <<waiting, asked>>

QueueStep == Begin \/ \E outcome \in {"Done", "Cancelled", "Failed"} : End(outcome)

QueueNext == \/ \E j \in Jobs : Put(j)
             \/ \E js \in SUBSET Waiting : AskToStop(js)
             \/ QueueStep

QueueSteps == QueueInit /\ [][QueueNext]_queueVars

\* Whatever was put in is got to, and ends.
QueueSpec == QueueSteps /\ WF_queueVars(QueueStep)
=============================================================================
