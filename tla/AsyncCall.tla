------------------------------- MODULE AsyncCall -------------------------------
(***************************************************************************)
(* One call of the app into the library and back: call() and Ticket of     *)
(* waifu-app/swiftui/Sources/WaifuKit/WaifuKit.swift, the gate of          *)
(* waifu/src/c_api.rs, and of the engine what such a call sees of it: that *)
(* its job is run or skipped, reports, and ends once (Engine is its        *)
(* specification).  Three sides take their steps in any order: the thread  *)
(* that makes the call, the thread that runs the job, and whoever cancels. *)
(* What either says to the app runs later, in order, on the main queue.    *)
(***************************************************************************)
EXTENDS Naturals, Sequences

CONSTANTS
  AppModels,    \* the models
  MaxReports    \* a bound: the reports of one job

VARIABLES
  call,         \* the call that is being made: whose, of what, how far, and Ticket's cancelled
  libraryJob,   \* its job in the library: where it is, whether it was told to stop, how it ended
  held,         \* the model the engine has
  mainQueue     \* what is to run on the main actor

callVars == <<call, libraryJob, held, mainQueue>>

NoModel == "none"
NoCall  == [at |-> "idle", of |-> 0, kind |-> "none", model |-> NoModel, cancelled |-> FALSE]
NoJob   == [at |-> "none", told |-> FALSE, reports |-> 0, ending |-> "none"]

InitCall == call = NoCall /\ libraryJob = NoJob /\ held = NoModel /\ mainQueue = <<>>

Report(c)          == [what |-> "report", of |-> c.of, kind |-> c.kind, model |-> c.model]
Resumption(c, how) == [what |-> "resume", of |-> c.of, kind |-> c.kind, model |-> c.model, ending |-> how]

\* A task that was cancelled before runs onCancel at once, before the call is made.
Calling(j, kind, model, cancelled) ==
  call' = [at |-> "submit", of |-> j, kind |-> kind, model |-> model, cancelled |-> cancelled]

-----------------------------------------------------------------------------
(* The thread that calls. *)

\* The job is in the library's queue, and the gate is shut.
Submitted ==
  /\ call.at = "submit"
  /\ call' = [call EXCEPT !.at = "gate"]
  /\ libraryJob' = [NoJob EXCEPT !.at = "queued"]
  /\ UNCHANGED <<held, mainQueue>>

\* 0: nothing will ever be called.
RefusedAtTheDoor ==
  /\ call.at = "submit" /\ call.kind # "unload"
  /\ call' = NoCall /\ libraryJob' = NoJob
  /\ mainQueue' = Append(mainQueue, Resumption(call, "failed"))
  /\ UNCHANGED held

GateOpens ==
  /\ call.at = "gate"
  /\ call' = [call EXCEPT !.at = "back"]
  /\ UNCHANGED <<libraryJob, held, mainQueue>>

Tell == [libraryJob EXCEPT !.told = libraryJob.at # "over"]

\* A mutation: a cancel from before the id was known is not looked for.
GivenForgets ==
  /\ call.at = "back"
  /\ call' = [call EXCEPT !.at = "given"]
  /\ UNCHANGED <<libraryJob, held, mainQueue>>

\* Ticket.given: a cancel that came before the id goes to the library now.
Given ==
  /\ call.at = "back"
  /\ call' = [call EXCEPT !.at = "given"]
  /\ libraryJob' = IF call.cancelled THEN Tell ELSE libraryJob
  /\ UNCHANGED <<held, mainQueue>>

\* Ticket.cancelNow.
CancelNow ==
  /\ call' = [call EXCEPT !.cancelled = TRUE]
  /\ libraryJob' = IF call.at = "given" THEN Tell ELSE libraryJob

\* A mutation: the one that waits goes before what was said meanwhile.
ResumesFirst ==
  /\ call.at = "given" /\ libraryJob.at = "over"
  /\ call.kind = "fetch" => libraryJob.ending # "done"
  /\ mainQueue' = <<Resumption(call, libraryJob.ending)>> \o mainQueue
  /\ call' = NoCall /\ libraryJob' = NoJob
  /\ UNCHANGED held

\* The continuation is resumed, and the call has come back: the task that awaits it goes on.
Resumes ==
  /\ call.at = "given" /\ libraryJob.at = "over"
  /\ call.kind = "fetch" => libraryJob.ending # "done"
  /\ mainQueue' = Append(mainQueue, Resumption(call, libraryJob.ending))
  /\ call' = NoCall /\ libraryJob' = NoJob
  /\ UNCHANGED held

\* Engine.load goes on from its fetch without the main actor.
FetchedThenLoads ==
  /\ call.at = "given" /\ libraryJob.at = "over" /\ call.kind = "fetch" /\ libraryJob.ending = "done"
  /\ call' = [call EXCEPT !.at = "submit", !.kind = "load"]
  /\ libraryJob' = NoJob
  /\ UNCHANGED <<held, mainQueue>>

-----------------------------------------------------------------------------
(* The thread that runs the job: the engine's, or the fetch's. *)

Ends(ending) == libraryJob' = [libraryJob EXCEPT !.at = "over", !.ending = ending]

\* A callback waits at the gate.
GateIsOpen == call.at \in {"back", "given"}

\* A job told to stop while it waits is not run; a load lets go of the model before, first.
JobStarts ==
  /\ libraryJob.at = "queued" /\ ~libraryJob.told
  /\ libraryJob' = [libraryJob EXCEPT !.at = "running"]
  /\ held' = IF call.kind \in {"load", "unload"} THEN NoModel ELSE held
  /\ UNCHANGED <<call, mainQueue>>

JobSkipped ==
  /\ libraryJob.at = "queued" /\ libraryJob.told /\ GateIsOpen
  /\ Ends("cancelled")
  /\ UNCHANGED <<call, held, mainQueue>>

JobReports ==
  /\ libraryJob.at = "running" /\ call.kind # "unload" /\ GateIsOpen
  /\ libraryJob.reports < MaxReports
  /\ libraryJob' = [libraryJob EXCEPT !.reports = @ + 1]
  /\ mainQueue' = Append(mainQueue, Report(call))
  /\ UNCHANGED <<call, held>>

\* A load and an unload run to their end; a fetch and a request may look at the stop, or not.
JobEnds ==
  /\ libraryJob.at = "running" /\ GateIsOpen
  /\ \/ Ends("done") /\ held' = IF call.kind = "load" THEN call.model ELSE held
     \/ call.kind # "unload" /\ Ends("failed") /\ held' = held
     \/ call.kind \in {"fetch", "run"} /\ libraryJob.told /\ Ends("cancelled") /\ held' = held
  /\ UNCHANGED <<call, mainQueue>>

CallerSteps  == Submitted \/ RefusedAtTheDoor \/ GateOpens \/ Given \/ Resumes \/ FetchedThenLoads
LibrarySteps == JobStarts \/ JobSkipped \/ JobReports \/ JobEnds

\* A cancel that comes before the library has given its id stops the job all the same.
CancelIsNotLost ==
  call.at = "given" /\ call.cancelled => libraryJob.told \/ libraryJob.at = "over"
=============================================================================
