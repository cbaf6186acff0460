---------------------------------- MODULE App ----------------------------------
(***************************************************************************)
(* A window of the app over the engine, waifu-app/swiftui/Sources/Waifu:   *)
(* Session.swift, which lists jobs, runs them one after another and stops  *)
(* them, and Launcher.swift, which brings the model a job is of onto the   *)
(* engine.  Both live on the main actor: what they do between two awaits   *)
(* is one step, and everything else may happen while they wait.            *)
(***************************************************************************)
EXTENDS AsyncCall

CONSTANTS
  MaxAppJobs,   \* a bound: the jobs ever started, each of which waits for the one before
  Placements    \* where a model may be put: a device and its limit

VARIABLES
  jobs,         \* of each job: its status, its model and where that goes
  task,         \* of each job's task: where it is, and whether it was cancelled
  state,        \* the launcher's state
  engine        \* enginePlacement, or NoEngine

appVars == <<callVars, jobs, task, state, engine>>

ASSUME AppAssumption == MaxAppJobs \in Nat

AppJobs == 1 .. MaxAppJobs

NoEngine == "none"
Idle     == [at |-> "idle"]
Failed   == [at |-> "failed"]
Ready(model, placement) == [at |-> "ready", model |-> model, placement |-> placement]
Loading(model)          == [at |-> "loading", model |-> model, line |-> NoModel]

AppInit ==
  /\ InitCall
  /\ jobs = [j \in AppJobs |-> [status |-> "none", model |-> NoModel, placement |-> NoEngine]]
  /\ task = [j \in AppJobs |-> [at |-> "none", cancelled |-> FALSE]]
  /\ state = Idle /\ engine = NoEngine

-----------------------------------------------------------------------------
(* Session. *)

IsGoing(j) == jobs[j].status \in {"queued", "running"}

\* ended and heard leave a job that has ended as it is.
Ended(j, status) == jobs' = [jobs EXCEPT ![j].status = IF IsGoing(j) THEN status ELSE @]
TaskAt(j, where) == task' = [task EXCEPT ![j].at = where]

\* generate: only when nothing is going. What ended may still have a task that has not.
Start(j, model, placement) ==
  /\ \A k \in AppJobs : ~IsGoing(k)
  /\ \A k \in AppJobs : jobs[k].status = "none" <=> k >= j
  /\ jobs' = [jobs EXCEPT ![j] = [status |-> "queued", model |-> model, placement |-> placement]]
  /\ TaskAt(j, "previous")
  /\ UNCHANGED <<callVars, state, engine>>

\* The task before has come to its end.
ItsTurn(j) ==
  /\ task[j].at = "previous"
  /\ j > 1 => task[j - 1].at = "over"

TaskBegins(j) ==
  /\ ItsTurn(j)
  /\ IF task[j].cancelled
     THEN Ended(j, "cancelled") /\ TaskAt(j, "over")
     ELSE Ended(j, "running") /\ TaskAt(j, "ensure")
  /\ UNCHANGED <<callVars, state, engine>>

\* A mutation: one that runs is called cancelled at once too.
StopEndsAtOnce(j) ==
  /\ IsGoing(j)
  /\ task' = [task EXCEPT ![j].cancelled = TRUE]
  /\ Ended(j, "cancelled")
  /\ IF call.of = j THEN CancelNow ELSE UNCHANGED <<call, libraryJob>>
  /\ UNCHANGED <<held, mainQueue, state, engine>>

\* stop: a job still waiting is out of line at once, one that runs when its task hears of it.
Stop(j) ==
  /\ IsGoing(j)
  /\ task' = [task EXCEPT ![j].cancelled = TRUE]
  /\ IF jobs[j].status = "queued" THEN Ended(j, "cancelled") ELSE jobs' = jobs
  /\ IF call.of = j THEN CancelNow ELSE UNCHANGED <<call, libraryJob>>
  /\ UNCHANGED <<held, mainQueue, state, engine>>

-----------------------------------------------------------------------------
(* Launcher. *)

Has(j) == state = Ready(jobs[j].model, jobs[j].placement)

TaskCalls(j, where, kind) ==
  /\ TaskAt(j, where)
  /\ Calling(j, kind, jobs[j].model, task[j].cancelled)
  /\ libraryJob' = NoJob

\* A mutation: where the model is put is not compared.
EnsureHasItElsewhere(j) ==
  /\ task[j].at = "ensure"
  /\ state.at = "ready" /\ state.model = jobs[j].model
  /\ TaskCalls(j, "run", "run")
  /\ UNCHANGED <<held, mainQueue, jobs, state, engine>>

\* ensure, for a model that is loaded.
EnsureHasIt(j) ==
  /\ task[j].at = "ensure" /\ Has(j)
  /\ TaskCalls(j, "run", "run")
  /\ UNCHANGED <<held, mainQueue, jobs, state, engine>>

\* The one there goes first, and then load.
EnsureUnloads(j) ==
  /\ task[j].at = "ensure" /\ ~Has(j)
  /\ state.at = "ready" /\ state.placement = jobs[j].placement
  /\ state' = Loading(jobs[j].model)
  /\ TaskCalls(j, "unload", "unload")
  /\ UNCHANGED <<held, mainQueue, jobs, engine>>

EnsureLoads(j) ==
  /\ task[j].at = "ensure" /\ ~Has(j)
  /\ ~(state.at = "ready" /\ state.placement = jobs[j].placement)
  /\ TaskAt(j, "load")
  /\ UNCHANGED <<callVars, jobs, state, engine>>

\* load and engine(on:): the engine there is, or a new one, the old one and its model freed before.
Load(j) ==
  /\ task[j].at = "load"
  /\ engine' = jobs[j].placement
  /\ held' = IF engine = engine' THEN held ELSE NoModel
  /\ state' = Loading(jobs[j].model)
  /\ \E kind \in {"fetch", "load"} : TaskCalls(j, "loading", kind)
  /\ UNCHANGED <<mainQueue, jobs>>

NoEngineToBeHad(j) ==
  /\ task[j].at = "load" /\ engine # jobs[j].placement
  /\ engine' = NoEngine /\ held' = NoModel
  /\ state' = Failed
  /\ Ended(j, "failed") /\ TaskAt(j, "over")
  /\ UNCHANGED <<call, libraryJob, mainQueue>>

-----------------------------------------------------------------------------
(* What runs on the main actor when its turn comes. *)

Turn == mainQueue # <<>> /\ mainQueue' = Tail(mainQueue)
Upon == Head(mainQueue)

\* A report of a load goes into the line of whatever load there is, one of a request to its job.
LoadReported ==
  /\ Turn /\ Upon.what = "report" /\ Upon.kind \in {"fetch", "load"}
  /\ state' = IF state.at = "loading" THEN [state EXCEPT !.line = Upon.model] ELSE state
  /\ UNCHANGED <<call, libraryJob, held, jobs, task, engine>>

Heard ==
  /\ Turn /\ Upon.what = "report" /\ Upon.kind = "run"
  /\ Ended(Upon.of, "running")
  /\ UNCHANGED <<call, libraryJob, held, task, state, engine>>

Resumed(kinds, endings) ==
  Turn /\ Upon.what = "resume" /\ Upon.kind \in kinds /\ Upon.ending \in endings

\* nil, for an unload that was cancelled, is not told from done.
Unloaded ==
  /\ Resumed({"unload"}, {"done", "cancelled"})
  /\ state' = Idle
  /\ TaskAt(Upon.of, "load")
  /\ UNCHANGED <<call, libraryJob, held, jobs, engine>>

Loaded ==
  /\ Resumed({"load"}, {"done"})
  /\ state' = Ready(Upon.model, jobs[Upon.of].placement)
  /\ TaskCalls(Upon.of, "run", "run")
  /\ UNCHANGED <<held, jobs, engine>>

\* A mutation: it is taken for loaded.
LoadCancelledIsReady ==
  /\ Resumed({"fetch", "load"}, {"cancelled"})
  /\ state' = Ready(Upon.model, jobs[Upon.of].placement)
  /\ Ended(Upon.of, "cancelled") /\ TaskAt(Upon.of, "over")
  /\ UNCHANGED <<call, libraryJob, held, engine>>

LoadCancelled ==
  /\ Resumed({"fetch", "load"}, {"cancelled"})
  /\ state' = Idle
  /\ Ended(Upon.of, "cancelled") /\ TaskAt(Upon.of, "over")
  /\ UNCHANGED <<call, libraryJob, held, engine>>

LoadFailed ==
  /\ Resumed({"fetch", "load"}, {"failed"})
  /\ state' = Failed
  /\ Ended(Upon.of, "failed") /\ TaskAt(Upon.of, "over")
  /\ UNCHANGED <<call, libraryJob, held, engine>>

\* What comes of a run is kept only if the task was not cancelled, and called cancelled otherwise.
ComesOf(j) ==
  IF task[j].cancelled THEN Ended(j, "cancelled") /\ TaskAt(j, "over")
                       ELSE jobs' = jobs /\ TaskAt(j, "keep")

\* A picture or a sound is made a file at once, and nothing comes of one that cannot be; layers are
\* made files off the main actor, which goes on meanwhile.
Ran ==
  /\ Resumed({"run"}, {"done"})
  /\ \/ ComesOf(Upon.of)
     \/ Ended(Upon.of, "cancelled") /\ TaskAt(Upon.of, "over")
     \/ jobs' = jobs /\ TaskAt(Upon.of, "export")
  /\ UNCHANGED <<call, libraryJob, held, state, engine>>

Exported(j) ==
  /\ task[j].at = "export"
  /\ ComesOf(j)
  /\ UNCHANGED <<callVars, state, engine>>

\* A mutation: nothing is written of a job that made nothing.
NotRunSilent ==
  /\ Resumed({"run"}, {"cancelled", "failed"})
  /\ TaskAt(Upon.of, "over")
  /\ UNCHANGED <<call, libraryJob, held, jobs, state, engine>>

NotRun ==
  /\ Resumed({"run"}, {"cancelled", "failed"})
  /\ Ended(Upon.of, Upon.ending) /\ TaskAt(Upon.of, "over")
  /\ UNCHANGED <<call, libraryJob, held, state, engine>>

\* keep: done once its files are written, whatever was asked of the task meanwhile.
Kept(j) ==
  /\ task[j].at = "keep"
  /\ jobs' = [jobs EXCEPT ![j].status = "done"]
  /\ TaskAt(j, "over")
  /\ UNCHANGED <<callVars, state, engine>>

-----------------------------------------------------------------------------
MainTurn == LoadReported \/ Heard \/ Unloaded \/ Loaded \/ LoadCancelled \/ LoadFailed \/ Ran \/ NotRun

TaskStep(j) ==
  \/ TaskBegins(j) \/ EnsureHasIt(j) \/ EnsureUnloads(j) \/ EnsureLoads(j) \/ Load(j)
  \/ NoEngineToBeHad(j) \/ Exported(j) \/ Kept(j)

LibraryTurn == (CallerSteps \/ LibrarySteps) /\ UNCHANGED <<jobs, task, state, engine>>

AppNext ==
  \/ \E j \in AppJobs : \/ TaskStep(j) \/ Stop(j)
                        \/ \E m \in AppModels, p \in Placements : Start(j, m, p)
  \/ MainTurn \/ LibraryTurn

\* The main actor runs what is on its queue, and the library's threads go on.
AppFairness ==
  /\ WF_appVars(MainTurn) /\ WF_appVars(LibraryTurn)
  /\ \A j \in AppJobs : WF_appVars(TaskStep(j))

AppSpec == AppInit /\ [][AppNext]_appVars /\ AppFairness

-----------------------------------------------------------------------------
\* A job is run by the model it was asked of, where it was asked for: between the launcher's word
\* that it is loaded and the engine lie a call, a cancel and another job's load.
DrawnByItsModel ==
  libraryJob.at = "running" /\ call.kind = "run" =>
    held = call.model /\ engine = jobs[call.of].placement

\* What has ended stays as it ended, whatever is heard of it late and whenever its task hears.
EndedStays ==
  [][\A j \in AppJobs : jobs[j].status \in {"done", "failed", "cancelled"} => jobs'[j] = jobs[j]]_appVars

\* "line is how far along" the load is of the model it stands beside, though each report of one is
\* a task of its own that runs later.
LineIsItsModels == state.at = "loading" => state.line \in {NoModel, state.model}

\* Every job comes to an end, stopped or not, and whatever becomes of its model. One goes at a
\* time, and the next is started only by hand.
JobsEnd == (\E j \in AppJobs : IsGoing(j)) ~> \A j \in AppJobs : ~IsGoing(j)
=============================================================================
