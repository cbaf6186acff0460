---------------------------- MODULE ProgramsProofs ----------------------------
(***************************************************************************)
(* What holds of the programs over the library: of a window of the app for *)
(* any number of jobs, models, placements and reports; of the drawing      *)
(* screen for any devices; of the list of models for any models,           *)
(* repositories and folders; and of the three where they are looked at     *)
(* together.                                                               *)
(***************************************************************************)
EXTENDS MCPrograms, TLAPS

-----------------------------------------------------------------------------
(* A window of the app (App). *)

Kinds   == {"unload", "fetch", "load", "run"}
Working == {"ensure", "unload", "load", "loading", "run", "export", "keep"}
Models  == AppModels \cup {NoModel}
Places  == Placements \cup {NoEngine}

Messages ==
  [what : {"report"}, of : AppJobs, kind : Kinds, model : Models]
    \cup [what : {"resume"}, of : AppJobs, kind : Kinds, model : Models,
          ending : {"done", "cancelled", "failed"}]

States ==
  {Idle, Failed} \cup [at : {"ready"}, model : Models, placement : Places]
    \cup [at : {"loading"}, model : Models, line : Models]

Statuses == {"none", "queued", "running", "done", "failed", "cancelled"}

JobRecords == [status : Statuses, model : Models, placement : Places]

TaskRecords == [at : {"none", "previous", "over"} \cup Working, cancelled : BOOLEAN]

CallRecords ==
  [at : {"submit", "gate", "back", "given"}, of : AppJobs, kind : Kinds, model : Models,
   cancelled : BOOLEAN]

LibraryJobs ==
  [at : {"none", "queued", "running", "over"}, told : BOOLEAN, reports : Nat,
   ending : {"none", "done", "cancelled", "failed"}]

AppTyped ==
  /\ jobs \in [AppJobs -> JobRecords]
  /\ task \in [AppJobs -> TaskRecords]
  /\ state \in States
  /\ call \in {NoCall} \cup CallRecords
  /\ libraryJob \in LibraryJobs
  /\ mainQueue \in Seq(Messages)

-----------------------------------------------------------------------------
\* Before a task that is past its wait, all are over.
TasksInTurn ==
  \A i, j \in AppJobs : i < j /\ task[j].at \notin {"none", "previous"} => task[i].at = "over"

\* What the list shows of a job is what its task has come to.
ShownAsItIs ==
  \A j \in AppJobs :
    /\ jobs[j].status = "none" <=> task[j].at = "none"
    /\ jobs[j].status = "queued" => task[j].at = "previous"
    /\ task[j].at = "previous" /\ ~task[j].cancelled => jobs[j].status = "queued"
    /\ task[j].at \in Working => jobs[j].status = "running"

\* The task a call was made by, or a message is for, waits for it, and the launcher and the engine
\* are as it left them.
Awaited(x) ==
  /\ task[x.of].at = IF x.kind \in {"fetch", "load"} THEN "loading" ELSE x.kind
  /\ x.model = jobs[x.of].model
  /\ engine = jobs[x.of].placement
  /\ IF x.kind = "run" THEN held = x.model ELSE state.at = "loading" /\ state.model = x.model

CallIsAwaited ==
  /\ call.at # "idle" => Awaited(call)
  /\ call.at \in {"idle", "submit"} => libraryJob.at = "none"
  /\ libraryJob.at = "over" => libraryJob.ending # "none"
  /\ libraryJob.at = "over" /\ libraryJob.ending = "done" /\ call.kind = "load" => held = call.model

MessagesAreAwaited ==
  \A n \in 1 .. Len(mainQueue) :
    LET x == mainQueue[n] IN
    /\ Awaited(x)
    /\ x.what = "resume" =>
         /\ n = Len(mainQueue) /\ call.at = "idle"
         /\ x.kind = "load" /\ x.ending = "done" => held = x.model

\* What the launcher says is loaded is what the engine holds.
ReadyIsThere == state.at = "ready" => held = state.model /\ engine = state.placement

Agreed ==
  /\ AppTyped /\ TasksInTurn /\ ShownAsItIs
  /\ CallIsAwaited /\ MessagesAreAwaited
  /\ ReadyIsThere /\ CancelIsNotLost /\ LineIsItsModels

-----------------------------------------------------------------------------
\* Taking the first of a queue moves the others up; one put behind it is its last.
LEMMA TailOf ==
  ASSUME NEW S, NEW q \in Seq(S), q # <<>>
  PROVE  /\ Head(q) = q[1] /\ q[1] \in S /\ Tail(q) \in Seq(S)
         /\ Len(q) \in Nat /\ Len(q) >= 1 /\ Len(Tail(q)) = Len(q) - 1
         /\ \A n \in 1 .. Len(Tail(q)) : Tail(q)[n] = q[n + 1] /\ n + 1 \in 1 .. Len(q)
  OBVIOUS

\* What is added to a queue comes last, behind all that was there.
LEMMA AppendTo ==
  ASSUME NEW S, NEW q \in Seq(S), NEW e \in S
  PROVE  /\ Append(q, e) \in Seq(S) /\ Len(q) \in Nat /\ Len(Append(q, e)) = Len(q) + 1
         /\ Append(q, e)[Len(q) + 1] = e
         /\ \A n \in 1 .. Len(q) : Append(q, e)[n] = q[n] /\ q[n] \in S
  OBVIOUS

\* One task works at a time.
LEMMA OneWorks ==
  ASSUME AppTyped, TasksInTurn, NEW i \in AppJobs, NEW j \in AppJobs,
         task[i].at \in Working, task[j].at \in Working
  PROVE  i = j
<1>1. i \in Nat /\ j \in Nat
  BY AppAssumption DEF AppJobs
<1>2. ~(i < j) /\ ~(j < i)
  BY DEF TasksInTurn, Working
<1> QED
  BY <1>1, <1>2

\* A task whose turn has come has none working beside it.
LEMMA TurnIsAlone ==
  ASSUME AppTyped, TasksInTurn, NEW j \in AppJobs, ItsTurn(j)
  PROVE  /\ \A i \in AppJobs : task[i].at \notin Working
         /\ \A i \in AppJobs : i < j => task[i].at = "over"
<1>1. j \in Nat /\ j >= 1 /\ \A i \in AppJobs : i \in Nat /\ i >= 1
  BY AppAssumption DEF AppJobs
<1>2. j > 1 => j - 1 \in AppJobs /\ task[j - 1].at = "over"
  BY <1>1, AppAssumption DEF AppJobs, ItsTurn
<1>3. ASSUME NEW i \in AppJobs, i < j PROVE task[i].at = "over"
  <2>1. j > 1 /\ (i = j - 1 \/ i < j - 1)
    BY <1>1, <1>3
  <2> QED
    BY <1>2, <2>1 DEF TasksInTurn
<1>4. ASSUME NEW i \in AppJobs PROVE task[i].at \notin Working
  <2>1. i < j \/ i = j \/ j < i
    BY <1>1
  <2>2. j < i => task[i].at \in {"none", "previous"}
    BY DEF ItsTurn, TasksInTurn
  <2> QED
    BY <1>3, <2>1, <2>2 DEF ItsTurn, Working
<1> QED
  BY <1>3, <1>4

\* Where no task waits for the library, no call is being made and nothing is left to be handled.
LEMMA NobodyWaits ==
  ASSUME Agreed, \A i \in AppJobs : task[i].at \notin {"unload", "loading", "run"}
  PROVE  call = NoCall /\ mainQueue = <<>> /\ libraryJob.at = "none"
<1> USE DEF Agreed, AppTyped
<1>1. call.at = "idle"
  <2> SUFFICES ASSUME call.at # "idle" PROVE FALSE
    OBVIOUS
  <2>1. call.of \in AppJobs /\ call.kind \in Kinds
    BY DEF NoCall, CallRecords
  <2> QED
    BY <2>1 DEF CallIsAwaited, Awaited, Kinds
<1>2. mainQueue = <<>>
  <2> SUFFICES ASSUME mainQueue # <<>> PROVE FALSE
    OBVIOUS
  <2>1. 1 \in 1 .. Len(mainQueue) /\ mainQueue[1] \in Messages
    BY TailOf
  <2>2. mainQueue[1].of \in AppJobs /\ mainQueue[1].kind \in Kinds
    BY <2>1 DEF Messages
  <2>3. Awaited(mainQueue[1])
    BY <2>1 DEF MessagesAreAwaited
  <2> QED
    BY <2>2, <2>3 DEF Awaited, Kinds
<1> QED
  BY <1>1, <1>2 DEF CallIsAwaited, NoCall, CallRecords

\* So it is for a task that begins, or that works and does not wait itself.
LEMMA AloneAtWork ==
  ASSUME Agreed, NEW j \in AppJobs, ItsTurn(j) \/ task[j].at \in {"ensure", "load", "export", "keep"}
  PROVE  call = NoCall /\ mainQueue = <<>> /\ libraryJob.at = "none"
<1>1. ASSUME NEW i \in AppJobs PROVE task[i].at \notin {"unload", "loading", "run"}
  BY OneWorks, TurnIsAlone DEF Agreed, Working
<1> QED
  BY <1>1, NobodyWaits

\* A call that is being made is one of the calls there are.
LEMMA CallBeingMade == ASSUME AppTyped, call.at # "idle" PROVE call \in CallRecords
  BY DEF AppTyped, NoCall

\* Writing a ending or a place keeps the types.
LEMMA StatusWritten ==
  ASSUME NEW f \in [AppJobs -> JobRecords], NEW j \in AppJobs, NEW ending \in Statuses
  PROVE  [f EXCEPT ![j].status = ending] \in [AppJobs -> JobRecords]
<1>1. [f[j] EXCEPT !.status = ending] \in JobRecords
  BY DEF JobRecords
<1> QED
  BY <1>1

\* And so does writing where a task is.
LEMMA PlaceWritten ==
  ASSUME NEW f \in [AppJobs -> TaskRecords], NEW j \in AppJobs,
         NEW where \in {"none", "previous", "over"} \cup Working
  PROVE  [f EXCEPT ![j].at = where] \in [AppJobs -> TaskRecords]
<1>1. [f[j] EXCEPT !.at = where] \in TaskRecords
  BY DEF TaskRecords
<1> QED
  BY <1>1

-----------------------------------------------------------------------------
\* A working task that goes on works, and is shown as running.
LEMMA GoesOn ==
  ASSUME AppTyped, TasksInTurn, ShownAsItIs, NEW j \in AppJobs, task[j].at \in Working,
         NEW where \in Working, TaskAt(j, where), jobs' = jobs
  PROVE  /\ task' \in [AppJobs -> TaskRecords]
         /\ TasksInTurn' /\ ShownAsItIs'
  BY DEF AppTyped, JobRecords, TaskRecords, TasksInTurn, ShownAsItIs, TaskAt, Working

\* One that comes to its end is over, and shown as it ended.
LEMMA ComesToItsEnd ==
  ASSUME AppTyped, TasksInTurn, ShownAsItIs, NEW j \in AppJobs, task[j].at \in Working,
         NEW ending \in {"done", "failed", "cancelled"}, TaskAt(j, "over"),
         Ended(j, ending) \/ jobs' = [jobs EXCEPT ![j].status = ending]
  PROVE  /\ task' \in [AppJobs -> TaskRecords]
         /\ jobs' \in [AppJobs -> JobRecords]
         /\ jobs' = [jobs EXCEPT ![j].status = ending]
         /\ TasksInTurn' /\ ShownAsItIs'
<1>1. jobs[j].status = "running"
  BY DEF ShownAsItIs
<1>2. jobs' = [jobs EXCEPT ![j].status = ending]
  BY <1>1 DEF Ended, IsGoing
<1>3. task' \in [AppJobs -> TaskRecords] /\ jobs' \in [AppJobs -> JobRecords]
  BY <1>2, StatusWritten, PlaceWritten DEF AppTyped, TaskAt, Statuses
<1> QED
  BY <1>1, <1>2, <1>3 DEF AppTyped, JobRecords, TaskRecords, TasksInTurn, ShownAsItIs, TaskAt, Working

\* With no call and nothing to be handled there is nothing to be awaited.
LEMMA AllQuiet ==
  ASSUME call' = NoCall, mainQueue' = <<>>, libraryJob'.at = "none"
  PROVE  /\ mainQueue' \in Seq(Messages) /\ call' \in {NoCall} \cup CallRecords
         /\ CallIsAwaited' /\ MessagesAreAwaited' /\ CancelIsNotLost'
  BY DEF CallIsAwaited, MessagesAreAwaited, CancelIsNotLost, NoCall

\* A call that has just been made is awaited, with nothing else to be handled.
LEMMA CallBegins ==
  ASSUME AppTyped, NEW j \in AppJobs, NEW kind \in Kinds, NEW where,
         TaskCalls(j, where, kind), mainQueue' = <<>>, jobs' = jobs,
         where = IF kind \in {"fetch", "load"} THEN "loading" ELSE kind,
         engine' = jobs[j].placement,
         IF kind = "run" THEN held' = jobs[j].model
                         ELSE state'.at = "loading" /\ state'.model = jobs[j].model
  PROVE  /\ call' \in CallRecords
         /\ libraryJob' \in LibraryJobs
         /\ mainQueue' \in Seq(Messages)
         /\ CallIsAwaited' /\ MessagesAreAwaited' /\ CancelIsNotLost'
<1>1. jobs[j] \in JobRecords /\ task[j].cancelled \in BOOLEAN
  BY DEF AppTyped, JobRecords, TaskRecords
<1>2. task'[j].at = where
  BY DEF AppTyped, JobRecords, TaskRecords, TaskCalls, TaskAt
<1>3. call' = [at |-> "submit", of |-> j, kind |-> kind, model |-> jobs[j].model,
               cancelled |-> task[j].cancelled] /\ libraryJob' = NoJob
  BY DEF TaskCalls, Calling
<1>4. Awaited(call)'
  BY <1>2, <1>3 DEF Awaited
<1> QED
  BY <1>1, <1>3, <1>4
  DEF CallIsAwaited, MessagesAreAwaited, CancelIsNotLost, NoJob, JobRecords, CallRecords, LibraryJobs

-----------------------------------------------------------------------------
\* What a task does between two awaits.
LEMMA TaskStepAgrees == ASSUME Agreed, NEW j \in AppJobs, TaskStep(j) PROVE Agreed'
<1>1. jobs[j] \in JobRecords /\ task[j].cancelled \in BOOLEAN
  BY DEF Agreed, AppTyped, JobRecords, TaskRecords
<1>2. call = NoCall /\ mainQueue = <<>> /\ libraryJob.at = "none"
  BY AloneAtWork DEF TaskStep, TaskBegins, EnsureHasIt, EnsureUnloads, EnsureLoads, Load,
                     NoEngineToBeHad, Exported, Kept
<1>3. CASE TaskBegins(j)
  <2>1. TasksInTurn'
    <3>1. task[j].at = "previous" /\ \A i \in AppJobs : i < j => task[i].at = "over"
      BY <1>3, TurnIsAlone DEF Agreed, TaskBegins, ItsTurn
    <3>2. \A i \in AppJobs : j < i => task[i].at \in {"none", "previous"}
      BY <3>1 DEF Agreed, TasksInTurn
    <3>3. \A i \in AppJobs : i # j => task'[i] = task[i]
      BY <1>3 DEF Agreed, AppTyped, JobRecords, TaskRecords, TaskBegins, TaskAt
    <3> QED
      BY <3>1, <3>2, <3>3, AppAssumption DEF TasksInTurn, Agreed, AppJobs
  <2>2. ShownAsItIs'
    <3>1. \A i \in AppJobs \ {j} : task'[i] = task[i] /\ jobs'[i] = jobs[i]
      BY <1>3 DEF Agreed, AppTyped, TaskBegins, TaskAt, Ended
    <3>2. jobs[j].status # "none" /\ (~task[j].cancelled => jobs[j].status = "queued")
      BY <1>3 DEF Agreed, ShownAsItIs, TaskBegins, ItsTurn
    <3>3. \/ task'[j].at = "over" /\ jobs'[j].status \notin {"none", "queued"}
          \/ task'[j].at = "ensure" /\ jobs'[j].status = "running"
      <4>1. CASE task[j].cancelled
        BY <1>3, <3>2, <4>1 DEF Agreed, AppTyped, JobRecords, TaskRecords, TaskBegins, TaskAt, Ended,
                                IsGoing
      <4>2. CASE ~task[j].cancelled
        BY <1>3, <3>2, <4>2 DEF Agreed, AppTyped, JobRecords, TaskRecords, TaskBegins, TaskAt, Ended,
                                IsGoing
      <4> QED
        BY <4>1, <4>2
    <3> QED
      BY <3>1, <3>3 DEF Agreed, ShownAsItIs, Working
  <2>3. /\ task' \in [AppJobs -> TaskRecords]
        /\ jobs' \in [AppJobs -> JobRecords]
    <3>1. jobs' = jobs \/ \E ending \in Statuses : jobs' = [jobs EXCEPT ![j].status = ending]
      BY <1>1, <1>3 DEF TaskBegins, Ended, JobRecords, Statuses
    <3>2. PICK where \in {"over", "ensure"} : task' = [task EXCEPT ![j].at = where]
      BY <1>3 DEF TaskBegins, TaskAt
    <3>3. jobs' \in [AppJobs -> JobRecords]
      BY <3>1, StatusWritten DEF Agreed, AppTyped
    <3>4. task' \in [AppJobs -> TaskRecords]
      <4>1. where \in {"none", "previous", "over"} \cup Working
        BY <3>2 DEF Working
      <4> QED
        BY <3>2, <4>1, PlaceWritten DEF Agreed, AppTyped
    <3> QED
      BY <3>3, <3>4
  <2> QED
    BY <1>2, <1>3, <2>1, <2>2, <2>3, AllQuiet
    DEF Agreed, AppTyped, ReadyIsThere, LineIsItsModels, TaskBegins, callVars
<1>4. CASE EnsureHasIt(j)
  <2>1. held = jobs[j].model /\ engine = jobs[j].placement
    BY <1>4 DEF Agreed, ReadyIsThere, EnsureHasIt, Has, Ready
  <2>2. /\ task' \in [AppJobs -> TaskRecords]
        /\ TasksInTurn' /\ ShownAsItIs'
    BY <1>4, GoesOn DEF Agreed, EnsureHasIt, TaskCalls, Working
  <2> QED
    BY <1>2, <1>4, <2>1, <2>2, CallBegins
    DEF Agreed, AppTyped, EnsureHasIt, ReadyIsThere, LineIsItsModels, Kinds
<1>5. CASE EnsureUnloads(j)
  <2>1. engine = jobs[j].placement
    BY <1>5 DEF Agreed, ReadyIsThere, EnsureUnloads
  <2>2. /\ task' \in [AppJobs -> TaskRecords]
        /\ TasksInTurn' /\ ShownAsItIs'
    BY <1>5, GoesOn DEF Agreed, EnsureUnloads, TaskCalls, Working
  <2>3. state' = [at |-> "loading", model |-> jobs[j].model, line |-> NoModel]
    BY <1>5 DEF EnsureUnloads, Loading
  <2>4. state' \in States /\ ReadyIsThere' /\ LineIsItsModels'
    BY <1>1, <2>3 DEF JobRecords, States, Models, ReadyIsThere, LineIsItsModels
  <2> QED
    BY <1>2, <1>5, <2>1, <2>2, <2>3, <2>4, CallBegins DEF Agreed, AppTyped, EnsureUnloads, Kinds
<1>6. CASE EnsureLoads(j)
  <2>1. /\ task' \in [AppJobs -> TaskRecords]
        /\ TasksInTurn' /\ ShownAsItIs'
    BY <1>6, GoesOn DEF Agreed, EnsureLoads, Working
  <2> QED
    BY <1>2, <1>6, <2>1, AllQuiet
    DEF Agreed, AppTyped, ReadyIsThere, LineIsItsModels, EnsureLoads, callVars
<1>7. CASE Load(j)
  <2>1. PICK kind \in {"fetch", "load"} : TaskCalls(j, "loading", kind)
    BY <1>7 DEF Load
  <2>2. /\ task' \in [AppJobs -> TaskRecords]
        /\ TasksInTurn' /\ ShownAsItIs'
    BY <1>7, <2>1, GoesOn DEF Agreed, Load, TaskCalls, Working
  <2>3. state' = [at |-> "loading", model |-> jobs[j].model, line |-> NoModel]
    BY <1>7 DEF Load, Loading
  <2>4. state' \in States /\ ReadyIsThere' /\ LineIsItsModels'
    BY <1>1, <2>3 DEF JobRecords, States, Models, ReadyIsThere, LineIsItsModels
  <2> QED
    BY <1>2, <1>7, <2>1, <2>2, <2>3, <2>4, CallBegins DEF Agreed, AppTyped, Load, Kinds
<1>8. CASE NoEngineToBeHad(j)
  <2>1. /\ task' \in [AppJobs -> TaskRecords]
        /\ jobs' \in [AppJobs -> JobRecords]
        /\ TasksInTurn' /\ ShownAsItIs'
    BY <1>8, ComesToItsEnd DEF Agreed, NoEngineToBeHad, Working
  <2> QED
    BY <1>2, <1>8, <2>1, AllQuiet
    DEF Agreed, AppTyped, ReadyIsThere, LineIsItsModels, NoEngineToBeHad, States, Failed
<1>9. CASE Kept(j)
  <2>1. /\ task' \in [AppJobs -> TaskRecords]
        /\ jobs' \in [AppJobs -> JobRecords]
        /\ TasksInTurn' /\ ShownAsItIs'
    BY <1>9, ComesToItsEnd DEF Agreed, Kept, Working
  <2> QED
    BY <1>2, <1>9, <2>1, AllQuiet
    DEF Agreed, AppTyped, ReadyIsThere, LineIsItsModels, Kept, callVars
<1>10. CASE Exported(j)
  <2>1. /\ task' \in [AppJobs -> TaskRecords]
        /\ jobs' \in [AppJobs -> JobRecords]
        /\ TasksInTurn' /\ ShownAsItIs'
    <3>1. CASE task[j].cancelled
      BY <1>10, <3>1, ComesToItsEnd DEF Agreed, Exported, ComesOf, Working
    <3>2. CASE ~task[j].cancelled
      <4>1. task[j].at \in Working /\ "keep" \in Working
        BY <1>10 DEF Exported, Working
      <4>2. jobs' = jobs /\ TaskAt(j, "keep") /\ AppTyped
        BY <1>10, <3>2 DEF Agreed, Exported, ComesOf
      <4> QED
        BY <4>1, <4>2, GoesOn DEF Agreed, AppTyped
    <3> QED
      BY <3>1, <3>2
  <2> QED
    BY <1>2, <1>10, <2>1, AllQuiet
    DEF Agreed, AppTyped, ReadyIsThere, LineIsItsModels, Exported, callVars
<1> QED
  BY <1>3, <1>4, <1>5, <1>6, <1>7, <1>8, <1>9, <1>10 DEF TaskStep

-----------------------------------------------------------------------------
\* The window: a job is started, or stopped.
LEMMA StartAgrees ==
  ASSUME Agreed, NEW j \in AppJobs, NEW m \in AppModels, NEW p \in Placements, Start(j, m, p)
  PROVE  Agreed'
<1> USE DEF Agreed, AppTyped
<1>1. task[j].at = "none" /\ task'[j].at = "previous" /\ jobs'[j].status = "queued"
  BY DEF Start, TaskAt, ShownAsItIs, AppJobs
<1>2. \A i \in AppJobs \ {j} : task'[i] = task[i] /\ jobs'[i] = jobs[i]
  BY DEF Start, TaskAt
<1>3. task' \in [AppJobs -> TaskRecords] /\ jobs' \in [AppJobs -> JobRecords]
  <2>1. task' \in [AppJobs -> TaskRecords]
    BY PlaceWritten DEF Start, TaskAt
  <2>2. [status |-> "queued", model |-> m, placement |-> p] \in JobRecords
    BY DEF JobRecords, Statuses, Models, Places
  <2> QED
    BY <2>1, <2>2 DEF Start
<1>4. TasksInTurn'
  BY <1>1, <1>2 DEF TasksInTurn
<1>5. ShownAsItIs'
  BY <1>1, <1>2 DEF ShownAsItIs, Working
<1>6. CallIsAwaited'
  <2>1. call.at # "idle" => call.of \in AppJobs /\ call.of # j
    BY <1>1 DEF CallIsAwaited, Awaited, NoCall, CallRecords, Kinds
  <2> QED
    BY <1>2, <2>1 DEF Start, callVars, CallIsAwaited, Awaited
<1>7. MessagesAreAwaited'
  <2>1. ASSUME NEW n \in 1 .. Len(mainQueue)
        PROVE  mainQueue[n].of \in AppJobs /\ mainQueue[n].of # j
    <3>1. mainQueue[n] \in Messages /\ Awaited(mainQueue[n])
      BY DEF MessagesAreAwaited
    <3> QED
      BY <1>1, <3>1 DEF Awaited, Messages, Kinds
  <2> QED
    BY <1>2, <2>1 DEF Start, callVars, MessagesAreAwaited, Awaited
<1> QED
  BY <1>3, <1>4, <1>5, <1>6, <1>7 DEF Start, callVars, ReadyIsThere, CancelIsNotLost, LineIsItsModels

\* A stop that is asked for of a job.
LEMMA StopAgrees == ASSUME Agreed, NEW j \in AppJobs, Stop(j) PROVE Agreed'
<1> USE DEF Agreed, AppTyped
<1>1. \A i \in AppJobs : task'[i].at = task[i].at
  BY DEF Stop, TaskRecords
<1>2. \A i \in AppJobs : jobs'[i].model = jobs[i].model /\ jobs'[i].placement = jobs[i].placement
  BY DEF Stop, Ended, JobRecords
<1>3. task' \in [AppJobs -> TaskRecords]
  <2>1. [task[j] EXCEPT !.cancelled = TRUE] \in TaskRecords
    BY DEF TaskRecords
  <2> QED
    BY <2>1 DEF Stop
<1>4. jobs' \in [AppJobs -> JobRecords]
  <2>1. jobs' = jobs \/ jobs' = [jobs EXCEPT ![j].status = "cancelled"]
    BY DEF Stop, Ended
  <2>2. [jobs EXCEPT ![j].status = "cancelled"] \in [AppJobs -> JobRecords]
    BY StatusWritten DEF Statuses
  <2> QED
    BY <2>1, <2>2
<1>5. TasksInTurn'
  BY <1>1 DEF TasksInTurn
<1>6. ShownAsItIs'
  <2>1. \A i \in AppJobs \ {j} : task'[i] = task[i] /\ jobs'[i] = jobs[i]
    BY DEF Stop, Ended
  <2>2. task'[j].cancelled
    BY DEF Stop, TaskRecords
  <2>3. jobs[j].status = "queued" => jobs'[j].status = "cancelled"
    BY DEF Stop, Ended, IsGoing, JobRecords
  <2>4. jobs[j].status # "queued" => jobs' = jobs
    BY DEF Stop
  <2> QED
    BY <1>1, <2>1, <2>2, <2>3, <2>4 DEF ShownAsItIs, Working
<1>7. /\ call'.at = call.at /\ call'.of = call.of /\ call'.kind = call.kind /\ call'.model = call.model
      /\ libraryJob'.at = libraryJob.at /\ libraryJob'.ending = libraryJob.ending
  BY DEF Stop, CancelNow, Tell, NoCall, CallRecords, LibraryJobs
<1>8. call.at = "idle" => call' = call
  BY DEF Stop, NoCall, AppJobs, CallRecords
<1>9. call' \in {NoCall} \cup CallRecords /\ libraryJob' \in LibraryJobs
  <2>1. call.at # "idle" => [call EXCEPT !.cancelled = TRUE] \in CallRecords
    BY CallBeingMade DEF CallRecords
  <2>2. Tell \in LibraryJobs
    BY DEF Tell, LibraryJobs
  <2>3. CASE call.of = j
    <3>1. call.at # "idle"
      BY <2>3 DEF NoCall, AppJobs, CallRecords
    <3> QED
      BY <2>1, <2>2, <2>3, <3>1 DEF Stop, CancelNow
  <2>4. CASE call.of # j
    BY <2>4 DEF Stop
  <2> QED
    BY <2>3, <2>4
<1>10. CallIsAwaited'
  <2>1. call.at # "idle" => call.of \in AppJobs
    BY DEF NoCall, CallRecords
  <2> QED
    BY <1>1, <1>2, <1>7, <2>1 DEF Stop, CallIsAwaited, Awaited
<1>11. MessagesAreAwaited'
  <2>1. \A n \in 1 .. Len(mainQueue) : mainQueue[n].of \in AppJobs
    BY DEF Messages
  <2> QED
    BY <1>1, <1>2, <1>7, <2>1 DEF Stop, MessagesAreAwaited, Awaited
<1>12. CancelIsNotLost'
  BY DEF Stop, CancelNow, Tell, CancelIsNotLost, CallRecords, LibraryJobs, NoCall
<1> QED
  BY <1>3, <1>4, <1>5, <1>6, <1>9, <1>10, <1>11, <1>12 DEF Stop, ReadyIsThere, LineIsItsModels

-----------------------------------------------------------------------------
\* The main queue: what is left behind one that is handled, and a resumption has nothing behind it.
LEMMA NextTurn ==
  ASSUME Agreed, Turn
  PROVE  /\ Upon \in Messages /\ Awaited(Upon) /\ mainQueue' \in Seq(Messages)
         /\ \A n \in 1 .. Len(mainQueue') : /\ n + 1 \in 1 .. Len(mainQueue)
                                            /\ mainQueue'[n] = mainQueue[n + 1]
                                            /\ n + 1 = Len(mainQueue) <=> n = Len(mainQueue')
<1> USE DEF Agreed, AppTyped
<1>1. mainQueue # <<>> /\ mainQueue' = Tail(mainQueue)
  BY DEF Turn
<1>2. Len(mainQueue) >= 1 /\ Upon = mainQueue[1] /\ Upon \in Messages /\ mainQueue' \in Seq(Messages)
  BY <1>1, TailOf DEF Upon
<1>3. Awaited(Upon)
  BY <1>1, <1>2, TailOf DEF MessagesAreAwaited
<1>4. Len(mainQueue') = Len(mainQueue) - 1 /\ Len(mainQueue) \in Nat
  BY <1>1, TailOf
<1>5. \A n \in 1 .. Len(mainQueue') : n + 1 \in 1 .. Len(mainQueue) /\ mainQueue'[n] = mainQueue[n + 1]
  BY <1>1, TailOf
<1>6. \A n \in 1 .. Len(mainQueue') : n + 1 = Len(mainQueue) <=> n = Len(mainQueue')
  BY <1>4
<1> QED
  BY <1>2, <1>3, <1>5, <1>6

\* A task goes on where its call is over: nobody else is in a call, or waits for one.
LEMMA ResumedAlone ==
  ASSUME Agreed, Turn, Upon.what = "resume"
  PROVE  /\ call = NoCall /\ libraryJob.at = "none" /\ mainQueue' = <<>>
         /\ Upon.of \in AppJobs /\ Upon.kind \in Kinds /\ Awaited(Upon)
         /\ Upon.kind = "load" /\ Upon.ending = "done" => held = Upon.model
         /\ Upon.ending \in {"done", "cancelled", "failed"} /\ task[Upon.of].at \in Working
<1> USE DEF Agreed, AppTyped
<1>1. mainQueue # <<>> /\ mainQueue' = Tail(mainQueue) /\ Upon = mainQueue[1] /\ 1 \in 1 .. Len(mainQueue)
  BY TailOf DEF Turn, Upon
<1>2. /\ Len(mainQueue) = 1 /\ call.at = "idle"
      /\ Upon.kind = "load" /\ Upon.ending = "done" => held = Upon.model
  BY <1>1 DEF MessagesAreAwaited
<1>3. mainQueue' = <<>>
  BY <1>1, <1>2, TailOf
<1>4. Upon \in Messages /\ Awaited(Upon)
  BY NextTurn
<1>5. Upon.of \in AppJobs /\ Upon.kind \in Kinds /\ Upon.ending \in {"done", "cancelled", "failed"}
  BY <1>4 DEF Messages
<1> QED
  BY <1>2, <1>3, <1>4, <1>5 DEF CallIsAwaited, NoCall, CallRecords, Awaited, Kinds, Working

\* A turn of the main thread.
LEMMA MainTurnAgrees == ASSUME Agreed, MainTurn PROVE Agreed'
<1> USE DEF Agreed, AppTyped
<1>1. ASSUME LoadReported PROVE Agreed'
  <2>1. Upon.kind \in {"fetch", "load"} /\ Upon \in Messages /\ Awaited(Upon)
    BY <1>1, NextTurn DEF LoadReported
  <2>2. state.at = "loading" /\ state.model = Upon.model
    BY <2>1 DEF Awaited
  <2>3. state \in [at : {"loading"}, model : Models, line : Models]
    BY <2>2 DEF States, Idle, Failed
  <2>4. state' = [at |-> "loading", model |-> state.model, line |-> Upon.model] /\ Upon.model \in Models
    BY <1>1, <2>1, <2>2, <2>3 DEF LoadReported, Messages
  <2>5. MessagesAreAwaited' /\ CallIsAwaited'
    BY <1>1, <2>2, <2>4, NextTurn DEF LoadReported, MessagesAreAwaited, CallIsAwaited, Awaited
  <2> QED
    BY <1>1, <2>2, <2>3, <2>4, <2>5, NextTurn
    DEF LoadReported, States, TasksInTurn, ShownAsItIs, ReadyIsThere, CancelIsNotLost, LineIsItsModels
<1>2. ASSUME Heard PROVE Agreed'
  <2>1. Upon.of \in AppJobs /\ task[Upon.of].at = "run"
    BY <1>2, NextTurn DEF Heard, Awaited, Messages
  <2>2. jobs[Upon.of].status = "running"
    BY <2>1 DEF ShownAsItIs, Working
  <2>3. jobs' = jobs
    BY <1>2, <2>1, <2>2 DEF Heard, Ended, JobRecords
  <2>4. MessagesAreAwaited' /\ CallIsAwaited'
    BY <1>2, <2>3, NextTurn DEF Heard, MessagesAreAwaited, CallIsAwaited, Awaited
  <2> QED
    BY <1>2, <2>3, <2>4, NextTurn
    DEF Heard, TasksInTurn, ShownAsItIs, ReadyIsThere, CancelIsNotLost, LineIsItsModels
<1>3. ASSUME Unloaded PROVE Agreed'
  <2>1. Turn /\ Upon.what = "resume"
    BY <1>3 DEF Unloaded, Resumed
  <2>2. task' \in [AppJobs -> TaskRecords] /\ TasksInTurn' /\ ShownAsItIs'
    BY <1>3, <2>1, ResumedAlone, GoesOn DEF Unloaded, Working
  <2>3. call' = NoCall /\ mainQueue' = <<>> /\ libraryJob' = libraryJob /\ libraryJob.at = "none"
    BY <1>3, <2>1, ResumedAlone DEF Unloaded
  <2>4. state' \in States /\ ReadyIsThere' /\ LineIsItsModels' /\ jobs' = jobs
    BY <1>3 DEF Unloaded, States, Idle, ReadyIsThere, LineIsItsModels
  <2> QED
    BY <2>2, <2>3, <2>4, AllQuiet
<1>4. ASSUME Loaded PROVE Agreed'
  <2>1. Turn /\ Upon.what = "resume" /\ Upon.kind = "load" /\ Upon.ending = "done"
    BY <1>4 DEF Loaded, Resumed
  <2>2. /\ Upon.of \in AppJobs /\ held = Upon.model /\ Upon.model = jobs[Upon.of].model
        /\ engine = jobs[Upon.of].placement /\ mainQueue' = <<>>
    BY <2>1, ResumedAlone DEF Awaited
  <2>3. task' \in [AppJobs -> TaskRecords] /\ TasksInTurn' /\ ShownAsItIs'
    BY <1>4, <2>1, ResumedAlone, GoesOn DEF Loaded, TaskCalls, Working
  <2>4. state' \in States /\ ReadyIsThere' /\ LineIsItsModels'
    <3>1. jobs[Upon.of].model \in Models /\ jobs[Upon.of].placement \in Places
      BY <2>2 DEF JobRecords
    <3>2. state' = [at |-> "ready", model |-> Upon.model, placement |-> jobs[Upon.of].placement]
      BY <1>4 DEF Loaded, Ready
    <3> QED
      BY <1>4, <2>2, <3>1, <3>2 DEF Loaded, States, ReadyIsThere, LineIsItsModels
  <2> QED
    BY <1>4, <2>2, <2>3, <2>4, CallBegins DEF Loaded, Kinds
<1>5. ASSUME LoadCancelled \/ LoadFailed \/ NotRun PROVE Agreed'
  <2>1. Turn /\ Upon.what = "resume"
    BY <1>5 DEF LoadCancelled, LoadFailed, NotRun, Resumed
  <2>2. /\ task' \in [AppJobs -> TaskRecords] /\ jobs' \in [AppJobs -> JobRecords]
        /\ TasksInTurn' /\ ShownAsItIs'
    BY <1>5, <2>1, ResumedAlone, ComesToItsEnd DEF LoadCancelled, LoadFailed, NotRun, Resumed
  <2>3. state' \in States /\ ReadyIsThere' /\ LineIsItsModels'
    BY <1>5 DEF LoadCancelled, LoadFailed, NotRun, States, Idle, Failed, ReadyIsThere, LineIsItsModels
  <2>4. call' = NoCall /\ mainQueue' = <<>> /\ libraryJob' = libraryJob /\ libraryJob.at = "none"
    BY <1>5, <2>1, ResumedAlone DEF LoadCancelled, LoadFailed, NotRun
  <2> QED
    BY <2>2, <2>3, <2>4, AllQuiet
<1>6. ASSUME Ran PROVE Agreed'
  <2>1. Turn /\ Upon.what = "resume"
    BY <1>6 DEF Ran, Resumed
  <2>2. /\ task' \in [AppJobs -> TaskRecords] /\ jobs' \in [AppJobs -> JobRecords]
        /\ TasksInTurn' /\ ShownAsItIs'
    <3>1. CASE Ended(Upon.of, "cancelled") /\ TaskAt(Upon.of, "over")
      BY <2>1, <3>1, ResumedAlone, ComesToItsEnd
    <3>2. ASSUME NEW where \in {"export", "keep"}, jobs' = jobs, TaskAt(Upon.of, where)
          PROVE  /\ task' \in [AppJobs -> TaskRecords] /\ jobs' \in [AppJobs -> JobRecords]
                 /\ TasksInTurn' /\ ShownAsItIs'
      BY <2>1, <3>2, ResumedAlone, GoesOn DEF Working
    <3> QED
      BY <1>6, <3>1, <3>2 DEF Ran, ComesOf
  <2>3. call' = NoCall /\ mainQueue' = <<>> /\ libraryJob' = libraryJob /\ libraryJob.at = "none"
    BY <1>6, <2>1, ResumedAlone DEF Ran
  <2>4. state' \in States /\ ReadyIsThere' /\ LineIsItsModels'
    BY <1>6 DEF Ran, ReadyIsThere, LineIsItsModels
  <2> QED
    BY <2>2, <2>3, <2>4, AllQuiet
<1> QED
  BY <1>1, <1>2, <1>3, <1>4, <1>5, <1>6 DEF MainTurn

-----------------------------------------------------------------------------
\* The library's side, and the call that goes to it and comes back.
LEMMA LibraryTurnAgrees == ASSUME Agreed, LibraryTurn PROVE Agreed'
<1> USE DEF Agreed, AppTyped
<1>1. UNCHANGED <<jobs, task, state, engine>>
  BY DEF LibraryTurn
<1>2. TasksInTurn' /\ ShownAsItIs' /\ LineIsItsModels'
  BY <1>1 DEF TasksInTurn, ShownAsItIs, LineIsItsModels
<1>3. call.at # "idle" /\ call \in CallRecords /\ Awaited(call) /\ task[call.of].at \in Working
  <2>1. call.at # "idle"
    BY DEF LibraryTurn, CallerSteps, LibrarySteps, Submitted, RefusedAtTheDoor, GateOpens, Given,
           Resumes, FetchedThenLoads, JobStarts, JobSkipped, JobReports, JobEnds, CallIsAwaited, GateIsOpen
  <2> QED
    BY <2>1, CallBeingMade DEF CallIsAwaited, Awaited, CallRecords, Kinds, Working
<1>4. \A n \in 1 .. Len(mainQueue) : /\ mainQueue[n].what # "resume" /\ mainQueue[n].of = call.of
                                     /\ mainQueue[n].kind = "run" <=> call.kind = "run"
                                     /\ Awaited(mainQueue[n])
  <2> SUFFICES ASSUME NEW n \in 1 .. Len(mainQueue)
               PROVE  /\ mainQueue[n].what # "resume" /\ mainQueue[n].of = call.of
                      /\ mainQueue[n].kind = "run" <=> call.kind = "run"
                      /\ Awaited(mainQueue[n])
    OBVIOUS
  <2>1. Awaited(mainQueue[n]) /\ mainQueue[n].what # "resume" /\ mainQueue[n] \in Messages
    BY <1>3 DEF MessagesAreAwaited
  <2>2. mainQueue[n].of \in AppJobs /\ mainQueue[n].kind \in Kinds
    BY <2>1 DEF Messages
  <2>3. call.of \in AppJobs /\ call.kind \in Kinds
    BY <1>3 DEF CallRecords
  <2>4. task[mainQueue[n].of].at \in Working
    BY <2>1, <2>2 DEF Awaited, Kinds, Working
  <2>5. mainQueue[n].of = call.of
    BY <1>3, <2>2, <2>3, <2>4, OneWorks
  <2> QED
    BY <1>3, <2>1, <2>2, <2>3, <2>5 DEF Awaited, Kinds
\* Whatever the engine comes to hold, no request is waiting for it.
<1>5. ASSUME mainQueue' = mainQueue, held' = held \/ call.kind # "run" PROVE MessagesAreAwaited'
  BY <1>1, <1>4, <1>5 DEF MessagesAreAwaited, Awaited
<1>6. ASSUME held' = held \/ call.kind \in {"load", "unload"} PROVE ReadyIsThere'
  BY <1>1, <1>3, <1>6 DEF ReadyIsThere, Awaited
\* Where something is put behind the others.
<1>7. ASSUME NEW e \in Messages, mainQueue' = Append(mainQueue, e), held' = held, Awaited(e),
             e.what = "resume" => call'.at = "idle",
             e.what = "resume" /\ e.kind = "load" /\ e.ending = "done" => held = e.model
      PROVE  mainQueue' \in Seq(Messages) /\ MessagesAreAwaited'
  <2>1. mainQueue' \in Seq(Messages) /\ Len(mainQueue') = Len(mainQueue) + 1 /\ Len(mainQueue) \in Nat
    BY <1>7, AppendTo
  <2>2. ASSUME NEW n \in 1 .. Len(mainQueue') PROVE n \in 1 .. Len(mainQueue) \/ n = Len(mainQueue')
    BY <2>1
  <2>3. /\ mainQueue'[Len(mainQueue')] = e
        /\ \A n \in 1 .. Len(mainQueue) : mainQueue'[n] = mainQueue[n]
    BY <1>7, <2>1, AppendTo
  <2>4. \A n \in 1 .. Len(mainQueue) : Awaited(mainQueue[n])' /\ mainQueue'[n].what # "resume"
    BY <1>1, <1>4, <1>7, <2>3 DEF Awaited
  <2>5. Awaited(e)'
    BY <1>1, <1>7 DEF Awaited
  <2> QED
    BY <1>7, <2>1, <2>2, <2>3, <2>4, <2>5 DEF MessagesAreAwaited
<1>8. ASSUME Submitted \/ GateOpens \/ Given \/ FetchedThenLoads PROVE Agreed'
  <2>1. call' \in CallRecords /\ libraryJob' \in LibraryJobs
    <3>1. call' \in CallRecords
      BY <1>3, <1>8 DEF Submitted, GateOpens, Given, FetchedThenLoads, CallRecords, Kinds
    <3>2. libraryJob' \in LibraryJobs
      <4>1. NoJob \in LibraryJobs /\ Tell \in LibraryJobs /\ [NoJob EXCEPT !.at = "queued"] \in LibraryJobs
        BY DEF NoJob, Tell, LibraryJobs
      <4> QED
        BY <1>8, <4>1 DEF Submitted, GateOpens, Given, FetchedThenLoads
    <3> QED
      BY <3>1, <3>2
  <2>2. held' = held /\ mainQueue' = mainQueue
    BY <1>8 DEF Submitted, GateOpens, Given, FetchedThenLoads
  <2>3. CallIsAwaited'
    <3>1. /\ call'.of = call.of /\ call'.model = call.model
          /\ call'.kind = call.kind \/ (call.kind = "fetch" /\ call'.kind = "load")
      BY <1>3, <1>8 DEF Submitted, GateOpens, Given, FetchedThenLoads, CallRecords
    <3>2. Awaited(call)'
      BY <1>1, <1>3, <2>2, <3>1 DEF Awaited
    <3>3. call'.at \in {"idle", "submit"} => libraryJob'.at = "none"
      BY <1>3, <1>8 DEF Submitted, GateOpens, Given, FetchedThenLoads, CallRecords, NoJob
    <3>4. libraryJob'.at = "over" => /\ libraryJob.at = "over" /\ libraryJob.ending = libraryJob'.ending
                                     /\ call'.kind = call.kind
      BY <1>3, <1>8 DEF Submitted, GateOpens, Given, FetchedThenLoads, Tell, CallRecords, LibraryJobs, NoJob
    <3> QED
      BY <2>2, <3>1, <3>2, <3>3, <3>4 DEF CallIsAwaited
  <2>4. CancelIsNotLost'
    <3>1. Submitted \/ GateOpens \/ FetchedThenLoads => call'.at # "given"
      BY <1>3 DEF Submitted, GateOpens, FetchedThenLoads, CallRecords
    <3>2. Given => CancelIsNotLost'
      BY <1>3 DEF Given, Tell, CallRecords, LibraryJobs, CancelIsNotLost
    <3> QED
      BY <1>8, <3>1, <3>2 DEF CancelIsNotLost
  <2> QED
    BY <1>1, <1>2, <1>5, <1>6, <2>1, <2>2, <2>3, <2>4
<1>9. ASSUME RefusedAtTheDoor \/ Resumes PROVE Agreed'
  <2>1. PICK how \in {"done", "cancelled", "failed"} :
           /\ mainQueue' = Append(mainQueue, Resumption(call, how))
           /\ call.kind = "load" /\ how = "done" => held = call.model
    <3>1. RefusedAtTheDoor => mainQueue' = Append(mainQueue, Resumption(call, "failed"))
      BY DEF RefusedAtTheDoor
    <3>2. Resumes => /\ mainQueue' = Append(mainQueue, Resumption(call, libraryJob.ending))
                     /\ libraryJob.at = "over" /\ libraryJob.ending \in {"done", "cancelled", "failed"}
      BY DEF Resumes, CallIsAwaited, LibraryJobs
    <3> QED
      BY <1>9, <3>1, <3>2 DEF CallIsAwaited
  <2>2. call' = NoCall /\ libraryJob' = NoJob /\ held' = held
    BY <1>9 DEF RefusedAtTheDoor, Resumes
  <2>3. Resumption(call, how) \in Messages /\ Awaited(Resumption(call, how))
    BY <1>3, <2>1 DEF Resumption, Messages, Awaited, CallRecords
  <2>4. mainQueue' \in Seq(Messages) /\ MessagesAreAwaited'
    BY <1>7, <2>1, <2>2, <2>3 DEF Resumption, NoCall
  <2>5. CallIsAwaited' /\ CancelIsNotLost' /\ libraryJob' \in LibraryJobs
    BY <2>2 DEF CallIsAwaited, CancelIsNotLost, NoCall, NoJob, LibraryJobs
  <2> QED
    BY <1>1, <1>2, <1>6, <2>2, <2>4, <2>5
<1>10. ASSUME JobStarts \/ JobSkipped \/ JobEnds PROVE Agreed'
  <2>1. call' = call /\ mainQueue' = mainQueue /\ libraryJob' \in LibraryJobs
    BY <1>10 DEF JobStarts, JobSkipped, JobEnds, Ends, LibraryJobs
  <2>2. held' = held \/ call.kind \in {"load", "unload"}
    BY <1>10 DEF JobStarts, JobSkipped, JobEnds
  <2>3. libraryJob.at # "none" /\ libraryJob'.at \in {"running", "over"}
    BY <1>10 DEF JobStarts, JobSkipped, JobEnds, Ends, LibraryJobs
  <2>4. libraryJob'.at = "over" /\ libraryJob'.ending = "done" /\ call.kind = "load" => held' = call.model
    BY <1>10, <2>3 DEF JobStarts, JobSkipped, JobEnds, Ends, LibraryJobs
  <2>5. Awaited(call)'
    BY <1>1, <1>3, <2>1, <2>2 DEF Awaited
  <2>6. CallIsAwaited'
    <3>1. libraryJob'.at = "over" => libraryJob'.ending # "none"
      BY <1>10 DEF JobStarts, JobSkipped, JobEnds, Ends, LibraryJobs
    <3> QED
      BY <2>1, <2>3, <2>4, <2>5, <3>1 DEF CallIsAwaited
  <2>7. CancelIsNotLost'
    BY <1>10, <2>1 DEF JobStarts, JobSkipped, JobEnds, Ends, LibraryJobs, CancelIsNotLost
  <2> QED
    BY <1>1, <1>2, <1>5, <1>6, <2>1, <2>2, <2>6, <2>7
<1>11. ASSUME JobReports PROVE Agreed'
  <2>1. /\ call' = call /\ held' = held /\ libraryJob' \in LibraryJobs
        /\ libraryJob'.at = libraryJob.at /\ libraryJob'.told = libraryJob.told
        /\ libraryJob'.ending = libraryJob.ending /\ mainQueue' = Append(mainQueue, Report(call))
    BY <1>11 DEF JobReports, LibraryJobs
  <2>2. Report(call) \in Messages /\ Awaited(Report(call))
    BY <1>3 DEF Report, Messages, Awaited, CallRecords
  <2>3. mainQueue' \in Seq(Messages) /\ MessagesAreAwaited'
    BY <1>7, <2>1, <2>2 DEF Report
  <2>4. CallIsAwaited' /\ CancelIsNotLost'
    BY <1>1, <2>1 DEF CallIsAwaited, Awaited, CancelIsNotLost
  <2> QED
    BY <1>1, <1>2, <1>6, <2>1, <2>3, <2>4
<1> QED
  BY <1>8, <1>9, <1>10, <1>11 DEF LibraryTurn, CallerSteps, LibrarySteps

-----------------------------------------------------------------------------
\* They agree to begin with.
LEMMA AppStarts == AppInit => Agreed
<1> SUFFICES ASSUME AppInit PROVE Agreed
  OBVIOUS
<1>1. AppTyped
  BY DEF AppInit, InitCall, AppTyped, JobRecords, TaskRecords, Statuses, Models, Places, States,
         LibraryJobs, NoJob
<1> QED
  BY <1>1 DEF AppInit, InitCall, Agreed, TasksInTurn, ShownAsItIs, Working, CallIsAwaited,
              MessagesAreAwaited, ReadyIsThere, CancelIsNotLost, LineIsItsModels, NoCall, NoJob, Idle

\* And after every step.
LEMMA AppKeeps == Agreed /\ [AppNext]_appVars => Agreed'
<1>1. ASSUME Agreed, UNCHANGED appVars PROVE Agreed'
  BY <1>1 DEF appVars, callVars, Agreed, AppTyped, TasksInTurn, ShownAsItIs, CallIsAwaited,
              MessagesAreAwaited, Awaited, ReadyIsThere, CancelIsNotLost, LineIsItsModels
<1> QED
  BY <1>1, TaskStepAgrees, StopAgrees, StartAgrees, MainTurnAgrees, LibraryTurnAgrees DEF AppNext

\* The window, the launcher, the call and the library agree at every step: who waits for what, on
\* which engine, and which model that holds.
THEOREM AllAgree == AppSpec => []Agreed
<1> QED
  BY AppStarts, AppKeeps, PTL DEF AppSpec

\* A job that runs is run by its model where it was asked for: while its call is made, the task that
\* awaits it is the only one at work, and what the launcher said of the engine still holds.
THEOREM RunByItsModel == AppSpec => []DrawnByItsModel
<1>1. Agreed => DrawnByItsModel
  BY DEF Agreed, CallIsAwaited, Awaited, DrawnByItsModel
<1> QED
  BY <1>1, AllAgree, PTL

\* A cancel that comes before the library has given its id stops the job all the same.
THEOREM CancelReachesTheJob == AppSpec => []CancelIsNotLost
  BY AllAgree, PTL DEF Agreed

\* The line beside a load is of the model that is loaded: a report that is still to be handled keeps
\* its task waiting, and so keeps any other load from beginning.
THEOREM LineBesideItsModel == AppSpec => []LineIsItsModels
  BY AllAgree, PTL DEF Agreed

\* What has ended stays as it ended: a job that has is not the one any message or any step is for.
THEOREM EndedForGood == AppSpec => EndedStays
<1>1. Agreed /\ [AppNext]_appVars =>
        [\A j \in AppJobs : jobs[j].status \in {"done", "failed", "cancelled"} => jobs'[j] = jobs[j]]_appVars
  <2> SUFFICES ASSUME Agreed, AppNext, NEW j \in AppJobs,
                      jobs[j].status \in {"done", "failed", "cancelled"}
               PROVE  jobs'[j] = jobs[j]
    OBVIOUS
  <2> USE DEF Agreed, AppTyped
  <2>1. ~IsGoing(j) /\ jobs[j].status # "none" /\ task[j].at \notin {"export", "keep"}
    BY DEF IsGoing, ShownAsItIs, Working
  <2>2. ASSUME NEW k \in AppJobs, NEW ending \in Statuses, Ended(k, ending) PROVE jobs'[j] = jobs[j]
    BY <2>1, <2>2 DEF Ended, JobRecords
  <2>3. ASSUME NEW k \in AppJobs, TaskStep(k) \/ Stop(k) PROVE jobs'[j] = jobs[j]
    BY <2>1, <2>2, <2>3 DEF TaskStep, TaskBegins, EnsureHasIt, EnsureUnloads, EnsureLoads, Load,
                            NoEngineToBeHad, Exported, ComesOf, Kept, Stop, Statuses
  <2>4. ASSUME NEW k \in AppJobs, NEW m \in AppModels, NEW p \in Placements, Start(k, m, p)
        PROVE  jobs'[j] = jobs[j]
    <3>1. jobs[k].status = "none"
      BY <2>4, AppAssumption DEF Start, AppJobs
    <3> QED
      BY <2>1, <2>4, <3>1 DEF Start
  <2>5. ASSUME MainTurn PROVE jobs'[j] = jobs[j]
    <3>1. Upon \in Messages
      BY <2>5, NextTurn DEF MainTurn, LoadReported, Heard, Unloaded, Loaded, LoadCancelled, LoadFailed,
                            Ran, ComesOf, NotRun, Resumed
    <3>2. Upon.of \in AppJobs
      BY <3>1 DEF Messages
    <3> QED
      BY <2>2, <2>5, <3>1, <3>2 DEF MainTurn, LoadReported, Heard, Unloaded, Loaded, LoadCancelled,
                LoadFailed, Ran, ComesOf, NotRun, Resumed, Statuses
  <2>6. LibraryTurn => jobs' = jobs
    BY DEF LibraryTurn
  <2> QED
    BY <2>3, <2>4, <2>5, <2>6 DEF AppNext
<1> QED
  BY <1>1, AllAgree, PTL DEF AppSpec, EndedStays

-----------------------------------------------------------------------------
(* The drawing screen (DrawScreen). *)

DrawTyped ==
  /\ painter \in [at : {"waiting", "reading", "drawing", "gone"}, on : Devices \cup {None},
                  told : BOOLEAN]
  /\ loaded \in BOOLEAN /\ pending \in BOOLEAN /\ runtime \in Devices \cup {None}

AskOf(a)  == [ask |-> a, on |-> runtime]
PainterIdle      == painter.at \in {"waiting", "gone"}
NoneAsked == moving = None /\ pending = FALSE

Endings(a) == IF a = "read" THEN {"ready", "failed"} ELSE {"done", "stopped", "failed"}

\* Where the one thing that was asked for is: with the loop, on the way, with the painter, or on
\* the way back.
WithTheLoop(a) ==
  /\ requests = <<>> /\ updates = <<>> /\ PainterIdle
  /\ IF a = "read" THEN moving = runtime /\ pending = FALSE /\ runtime # None
                   ELSE moving = None /\ pending = TRUE

OnItsWay(a) ==
  NoneAsked /\ requests = <<AskOf(a)>> /\ updates = <<>> /\ painter.at = "waiting"

WithThePainter(a) ==
  /\ NoneAsked /\ requests = <<>> /\ updates = <<>>
  /\ painter.at = (IF a = "read" THEN "reading" ELSE "drawing")
  /\ a = "read" => painter.on = runtime

ComingBack(a) ==
  /\ NoneAsked /\ requests = <<>> /\ PainterIdle
  /\ \E w \in Endings(a) :
       /\ updates = <<[what |-> w, of |-> a]>>
       /\ w = "ready" /\ painter.at # "gone" => onDevice = runtime

Somewhere(a) == WithTheLoop(a) \/ OnItsWay(a) \/ WithThePainter(a) \/ ComingBack(a)

Nowhere == NoneAsked /\ requests = <<>> /\ updates = <<>> /\ PainterIdle

ShownIsAsked ==
  \/ status = "ready"   /\ Nowhere
  \/ status = "reading" /\ loaded = FALSE /\ Somewhere("read")
  \/ status = "running" /\ loaded = TRUE  /\ Somewhere("draw")

\* The inductive invariant. A list of devices is up only over an idle screen, nothing was asked for
\* before it opened, and the painter goes only once the loop is left.
DrawInv ==
  /\ DrawTyped /\ ShownIsAsked
  /\ box = "picking" => status = "ready"
  /\ turn = "closed" => status = "ready" /\ loaded = FALSE /\ box = None
  /\ painter.at = "gone" => turn \in {"joining", "over"}
  /\ loaded /\ painter.at # "gone" => onDevice = runtime

-----------------------------------------------------------------------------
(* Sequences of at most one thing. *)

\* What the operators of a sequence make of one thing and of none.
LEMMA OneOrNone ==
  ASSUME NEW x
  PROVE  /\ <<>> \o <<x>> = <<x>> /\ <<x>> \o <<>> = <<x>> /\ <<>> \o <<>> = <<>>
         /\ Append(<<>>, x) = <<x>> /\ Head(<<x>>) = x /\ Tail(<<x>>) = <<>> /\ <<x>> # <<>>
OBVIOUS

-----------------------------------------------------------------------------
(* The invariant is inductive. *)

\* Before the screen is opened nothing is asked for.
LEMMA StartsReady == DrawInit => DrawInv
<1> SUFFICES ASSUME DrawInit PROVE DrawInv
  OBVIOUS
<1>1. DrawTyped
  BY DEF DrawInit, DrawTyped, None
<1>2. ShownIsAsked
  BY DEF DrawInit, ShownIsAsked, Nowhere, NoneAsked, PainterIdle
<1>3. painter.at = "waiting" /\ loaded = FALSE
  BY DEF DrawInit
<1> QED
  BY <1>1, <1>2, <1>3 DEF DrawInit, DrawInv, None

\* Every step hands what is outstanding on, or answers it.
LEMMA StepsKeep == DrawInv /\ [DrawNext]_drawVars => DrawInv'
<1> SUFFICES ASSUME DrawInv, [DrawNext]_drawVars PROVE DrawInv'
  OBVIOUS
<1> USE DrawAssumption, OneOrNone
       DEF None, DrawInv, DrawTyped, ShownIsAsked, Somewhere, Nowhere, WithTheLoop, OnItsWay,
           WithThePainter, ComingBack, NoneAsked, PainterIdle, Endings, AskOf
<1>1. CASE \E d \in Devices : Opens(d)
  BY <1>1 DEF Opens, ReadOnto, between, behind
<1>2. CASE Asks
  <2>1. painter.at # "gone"
    BY <1>2 DEF Asks
  <2>2. CASE moving = None /\ pending = FALSE
    <3>1. requests = <<>> \/ requests = <<AskOf("read")>> \/ requests = <<AskOf("draw")>>
      BY <2>2
    <3>2. requests' = requests
      BY <1>2, <2>2, <3>1 DEF Asks
    <3> QED
      BY <1>2, <2>1, <2>2, <3>2 DEF Asks, behind
  <2>3. CASE status = "reading" /\ WithTheLoop("read")
    <3>1. requests' = <<[ask |-> "read", on |-> runtime]>>
      BY <1>2, <2>3 DEF Asks
    <3> QED
      BY <1>2, <2>1, <2>3, <3>1 DEF Asks, behind
  <2>4. CASE status = "running" /\ WithTheLoop("draw")
    <3>1. requests' = <<[ask |-> "draw", on |-> runtime]>>
      BY <1>2, <2>4 DEF Asks
    <3> QED
      BY <1>2, <2>1, <2>4, <3>1 DEF Asks, behind
  <2> QED
    BY <2>2, <2>3, <2>4
<1>3. CASE Leaves
  BY <1>3 DEF Leaves, shown, between, behind
<1>4. CASE Joined
  BY <1>4 DEF Joined, shown, between, behind
<1>5. CASE Hears
  <2>1. painter.at # "gone"
    BY <1>5 DEF Hears
  <2>2. CASE status = "reading" /\ ComingBack("read")
    <3>1. PICK w \in {"ready", "failed"} :
            updates = <<[what |-> w, of |-> "read"]>> /\ (w = "ready" => onDevice = runtime)
      BY <2>1, <2>2
    <3>2. updates' = <<>> /\ Head(updates).what = w
      BY <1>5, <3>1 DEF Hears
    <3> QED
      BY <1>5, <2>1, <2>2, <3>1, <3>2 DEF Hears, behind
  <2>3. CASE status = "running" /\ ComingBack("draw")
    <3>1. PICK w \in {"done", "stopped", "failed"} : updates = <<[what |-> w, of |-> "draw"]>>
      BY <2>3
    <3>2. updates' = <<>> /\ Head(updates).what = w
      BY <1>5, <3>1 DEF Hears
    <3> QED
      BY <1>5, <2>1, <2>3, <3>1, <3>2 DEF Hears, behind
  <2>4. updates # <<>>
    BY <1>5 DEF Hears
  <2> QED
    BY <2>2, <2>3, <2>4
<1>6. CASE HeardAll
  BY <1>6 DEF HeardAll, shown, between, behind
<1>7. CASE Nothing
  BY <1>7 DEF Nothing, Key, onCursor, between, behind
<1>8. CASE ControlC
  BY <1>8 DEF ControlC, Quits, Key, between, behind
<1>9. CASE Leave
  BY <1>9 DEF Leave, Quits, Key, between, behind
<1>10. CASE Closes
  BY <1>10 DEF Closes, Key, onBox, between, behind
<1>11. CASE \E d \in Devices : Picks(d)
  BY <1>11 DEF Picks, ReadOnto, Key, between, behind
<1>12. CASE \E by \in {-1, 1} : StepFocus(by) \/ MoveRow(by) \/ MoveAlong(by)
  BY <1>12 DEF StepFocus, MoveRow, MoveAlong, Walking, Key, onCursor, between, behind
<1>13. CASE Enters \/ DoneIn
  BY <1>13 DEF Enters, DoneIn, Walking, Key, onCursor, between, behind
<1>14. CASE Types
  BY <1>14 DEF Types, Key, between, behind
<1>15. CASE Opened
  BY <1>15 DEF Opened, Elsewhere, Key, onBox, between, behind
<1>16. CASE PicksADevice
  BY <1>16 DEF PicksADevice, Elsewhere, Key, onBox, between, behind
<1>17. CASE Starts
  BY <1>17 DEF Starts, Elsewhere, Key, between, behind
<1>18. CASE EscapeStops
  BY <1>18 DEF EscapeStops, Elsewhere, Key, between, behind
<1>19. CASE EscapeAsks
  BY <1>19 DEF EscapeAsks, Elsewhere, Key, onBox, between, behind
<1>20. CASE TakesRead
  <2>1. status = "reading" /\ OnItsWay("read")
    BY <1>20 DEF TakesRead, Takes
  <2>2. requests' = <<>> /\ Head(requests).on = runtime
    BY <1>20, <2>1 DEF TakesRead, Takes
  <2> QED
    BY <1>20, <2>1, <2>2 DEF TakesRead, aside, shown
<1>21. CASE Read
  BY <1>21 DEF Read, Says, aside, shown
<1>22. CASE TakesDraw
  <2>1. status = "running" /\ OnItsWay("draw")
    BY <1>22 DEF TakesDraw, Takes
  <2>2. requests' = <<>>
    BY <1>22, <2>1 DEF TakesDraw, Takes
  <2> QED
    BY <1>22, <2>1, <2>2 DEF TakesDraw, aside, shown
<1>23. CASE DrawRefused
  <2>1. status = "running" /\ OnItsWay("draw")
    BY <1>23 DEF DrawRefused, Takes
  <2>2. requests' = <<>> /\ updates' = <<[what |-> "failed", of |-> "draw"]>>
    BY <1>23, <2>1 DEF DrawRefused, Takes, Says
  <2> QED
    BY <1>23, <2>1, <2>2 DEF DrawRefused, aside, shown, behind
<1>24. CASE LooksAtCancel
  BY <1>24 DEF LooksAtCancel, aside, shown, between
<1>25. CASE Drawn
  BY <1>25 DEF Drawn, Says, aside, shown
<1>26. CASE PainterEnds
  BY <1>26 DEF PainterEnds, aside, shown, between
<1>27. CASE RunEnds
  BY <1>27 DEF RunEnds, aside, shown, between
<1>28. CASE RunStops
  BY <1>28 DEF RunStops, aside, shown, between
<1>29. CASE UNCHANGED drawVars
  BY <1>29 DEF drawVars, shown, between, behind
<1> QED
    BY <1>1, <1>2, <1>3, <1>4, <1>5, <1>6, <1>7, <1>8, <1>9, <1>10, <1>11, <1>12, <1>13, <1>14,
     <1>15, <1>16, <1>17, <1>18, <1>19, <1>20, <1>21, <1>22, <1>23, <1>24, <1>25, <1>26, <1>27,
     <1>28, <1>29 DEF DrawNext, ScreenSteps, Pressed, PainterSteps

-----------------------------------------------------------------------------
(* What follows from it. *)

\* The kinds of a sequence of at most one thing.
LEMMA AsksOf ==
  /\ [n \in DOMAIN <<>> |-> <<>>[n].ask] = <<>> /\ [n \in DOMAIN <<>> |-> <<>>[n].of] = <<>>
  /\ \A r : [n \in DOMAIN <<r>> |-> <<r>>[n].ask] = <<r.ask>>
  /\ \A r : [n \in DOMAIN <<r>> |-> <<r>>[n].of] = <<r.of>>
OBVIOUS

\* What the invariant says, as what is outstanding.
LEMMA ShownIsOutstanding == DrawInv => OneAsked
<1> SUFFICES ASSUME DrawInv PROVE OneAsked
  OBVIOUS
<1> DEFINE Loop == (IF moving # None THEN <<"read">> ELSE <<>>)
                     \o (IF pending THEN <<"draw">> ELSE <<>>)
           Sent == [n \in DOMAIN requests |-> requests[n].ask]
           Back == [n \in DOMAIN updates |-> updates[n].of]
           Here == CASE painter.at = "reading" -> <<"read">> [] painter.at = "drawing" -> <<"draw">>
                     [] OTHER -> <<>>
<1>1. Outstanding = Loop \o Sent \o Here \o Back
  BY DEF Outstanding
<1>2. requests = <<>> => Sent = <<>>
  BY AsksOf
<1>3. updates = <<>> => Back = <<>>
  BY AsksOf
<1>4. NoneAsked => Loop = <<>>
  BY OneOrNone DEF NoneAsked
<1>5. PainterIdle => Here = <<>>
  BY DEF PainterIdle
<1> HIDE DEF Sent, Back, Here, Loop
<1>6. CASE status = "ready"
  BY <1>1, <1>2, <1>3, <1>4, <1>5, <1>6, OneOrNone DEF DrawInv, ShownIsAsked, Nowhere, OneAsked
<1>7. ASSUME NEW a \in {"read", "draw"}, Somewhere(a) PROVE Outstanding = <<a>>
  <2>1. CASE WithTheLoop(a)
    <3>1. Loop = <<a>>
      BY <2>1, OneOrNone DEF Loop, WithTheLoop
    <3> QED
      BY <1>1, <1>2, <1>3, <1>5, <2>1, <3>1, OneOrNone DEF WithTheLoop
  <2>2. CASE OnItsWay(a)
    <3>1. Sent = <<a>>
      BY <2>2, AsksOf DEF Sent, OnItsWay, AskOf
    <3> QED
      BY <1>1, <1>3, <1>4, <1>5, <2>2, <3>1, OneOrNone DEF OnItsWay, PainterIdle
  <2>3. CASE WithThePainter(a)
    <3>1. Here = <<a>>
      BY <2>3 DEF Here, WithThePainter
    <3> QED
      BY <1>1, <1>2, <1>3, <1>4, <2>3, <3>1, OneOrNone DEF WithThePainter
  <2>4. CASE ComingBack(a)
    <3>1. Back = <<a>>
      BY <2>4, AsksOf DEF Back, ComingBack
    <3> QED
      BY <1>1, <1>2, <1>4, <1>5, <2>4, <3>1, OneOrNone DEF ComingBack
  <2> QED
    BY <1>7, <2>1, <2>2, <2>3, <2>4 DEF Somewhere
<1>8. CASE status = "reading"
  BY <1>7, <1>8 DEF DrawInv, ShownIsAsked, OneAsked
<1>9. CASE status = "running"
  BY <1>7, <1>9 DEF DrawInv, ShownIsAsked, OneAsked
<1> QED
  BY <1>6, <1>8, <1>9 DEF DrawInv, ShownIsAsked

\* A draw is only asked for of a model that is there.
LEMMA ShownWhereDrawn == DrawInv => DrawnWhereShown
BY DEF DrawInv, ShownIsAsked, Nowhere, PainterIdle, Somewhere, WithTheLoop, OnItsWay, WithThePainter,
       ComingBack, DrawnWhereShown

\* The invariant, in every state of the screen.
THEOREM ScreenIsTrue == DrawSpec => []DrawInv
<1> QED
  BY StartsReady, StepsKeep, PTL DEF DrawSpec

\* One thing is asked for at a time, and the screen shows which, on any devices (OneAsked): between
\* a key of draw.rs and its answer, through two channels and a thread.
THEOREM OneAtATime == DrawSpec => []OneAsked
<1> QED
  BY ScreenIsTrue, ShownIsOutstanding, PTL

\* A picture is drawn on the device the screen names, on any devices (DrawnWhereShown).
THEOREM DrawnWhereNamed == DrawSpec => []DrawnWhereShown
<1> QED
  BY ScreenIsTrue, ShownWhereDrawn, PTL

-----------------------------------------------------------------------------
(* The list of models (ModelList). *)

ListTyped ==
  /\ disk \in [Folders -> [Published -> {"none", "part", "all"}]]
  /\ config \in Folders \cup {"silent", "odd", "unreadable"}
  /\ environment \in Folders \cup {Nobody}
  /\ rows \in [Published -> [cached : BOOLEAN, bytes : BOOLEAN]]
  /\ spoilt \in BOOLEAN
  /\ fetching \in Published \cup {Nobody}
  /\ relay \in [at : {"none", "starts", "listens", "over"}, told : BOOLEAN]

\* There is a fetch for as long as the screen waits for one, with no box over it; and its end is
\* told once it is over.
FetchInTurn ==
  /\ fetching # Nobody => over.box = "none"
  /\ fetching = Nobody =>
       relay.at \in {"none", "over"} /\ fetch \notin {"going", "done"} /\ word = "none"
  /\ relay.at \in {"none", "starts", "listens"} => word = "none"
  /\ relay.at # "listens" => fetch # "going"
  /\ word = "done" => fetch = "done"
  /\ word \in {"stopped", "failed"} => fetch # "done"
  /\ relay.at \in {"none", "starts"} => fetch # "done"
  /\ word \in {"none", "done", "stopped", "failed"}

\* What a row says is whole is whole, wherever a deletion has not failed half way.
RowsAreTrue ==
  \A m \in Published :
    rows[m].cached => ~CannotTell /\ (disk[Folder(config)][m] = "all" \/ spoilt)

\* What has been fetched is whole in the folder that is still the one to look in.
FetchedIsWhole ==
  fetch = "done" /\ fetching # Nobody => ~CannotTell /\ disk[Folder(config)][fetching] = "all"

\* Nothing is pressed any more once the screen is over.
PickedIsOver == picked \in Published => listTurn = "over"

\* The inductive invariant.
ListInv == ListTyped /\ FetchInTurn /\ RowsAreTrue /\ FetchedIsWhole /\ PickedIsOver /\ HandedOnIsWhole

-----------------------------------------------------------------------------
\* Where it can be told, models are kept in a folder.
LEMMA FolderIsOne == ListTyped /\ ~CannotTell => Folder(config) \in Folders
BY ListAssumption DEF ListTyped, CannotTell, Unsaid, Folder

\* The rows, read again, are as the disk and the configuration are.
LEMMA ReadAgainIsTrue ==
  ASSUME ReadTheCacheAgain, environment' = environment
  PROVE  RowsAreTrue'
BY DEF ReadTheCacheAgain, Listed, RowsAreTrue, CannotTell, Unsaid, Folder

\* And of their types.
LEMMA ReadAgainIsTyped ==
  ASSUME ReadTheCacheAgain
  PROVE  rows' \in [Published -> [cached : BOOLEAN, bytes : BOOLEAN]] /\ spoilt' \in BOOLEAN
BY DEF ReadTheCacheAgain, Listed

\* Before the list is opened no row says anything.
LEMMA StartsUnread == ListInit => ListInv
<1> SUFFICES ASSUME ListInit PROVE ListInv
  OBVIOUS
<1>1. ListTyped
  BY DEF ListInit, ListTyped
<1>2. FetchInTurn /\ FetchedIsWhole
  BY DEF ListInit, FetchInTurn, FetchedIsWhole
<1>3. RowsAreTrue
  BY DEF ListInit, RowsAreTrue
<1>4. PickedIsOver /\ HandedOnIsWhole
  BY ListAssumption DEF ListInit, PickedIsOver, HandedOnIsWhole
<1> QED
  BY <1>1, <1>2, <1>3, <1>4 DEF ListInv

-----------------------------------------------------------------------------
(* Each part of the invariant, step by step. *)

\* The screens, the relays and the thread of a fetch keep their types.
LEMMA TypesKeep == ListInv /\ [ListNext]_listVars => ListTyped'
<1> SUFFICES ASSUME ListInv, [ListNext]_listVars PROVE ListTyped'
  OBVIOUS
<1> USE ListAssumption, ReadAgainIsTyped, FolderIsOne DEF ListInv, ListTyped
<1>1. CASE ListOpens
  BY <1>1 DEF ListOpens, ReadTheCacheAgain, threads, places
<1>2. CASE Listens
  BY <1>2 DEF Listens, threads, places
<1>3. CASE HearsDone
  BY <1>3 DEF HearsDone, ComesBack, threads, places
<1>4. CASE HearsNot
  BY <1>4 DEF HearsNot, ReadTheCacheAgain, places
<1>5. CASE NoKey
  BY <1>5 DEF NoKey, Pressing, threads, places
<1>6. CASE Leaving
  BY <1>6 DEF Leaving, ComesBack, threads, places
<1>7. CASE EscapeStopsFetch
  BY <1>7 DEF EscapeStopsFetch, Pressing, threads, places
<1>8. CASE AsksToDelete \/ AsksForAFolder \/ AsksForAFile \/ AsksToProceed
  BY <1>8
     DEF AsksToDelete, AsksForAFolder, AsksForAFile, AsksToProceed, AsksOver, Asking, NoBox,
         Pressing, threads, places
<1>9. CASE Refused
  BY <1>9 DEF Refused, Shuts, Pressing, threads, places
<1>10. CASE \E m \in Published : HandsOn(m)
  BY <1>10 DEF HandsOn, Wanted, NoBox, Shuts, ComesBack, threads, places
<1>11. CASE \E m \in Published : StartFetching(m)
  <2>1. PICK m \in Published : StartFetching(m)
    BY <1>11
  <2>2. relay' \in [at : {"none", "starts", "listens", "over"}, told : BOOLEAN]
    BY <2>1 DEF StartFetching
  <2>3. fetching' \in Published /\ UNCHANGED <<disk, config, environment, rows, spoilt>>
    BY <2>1 DEF StartFetching, places
  <2> QED
    BY <2>2, <2>3
<1>12. CASE \E m \in Published : Deletes(m)
  <2>1. PICK m \in Published : Deletes(m)
    BY <1>12
  <2>2. disk' \in [Folders -> [Published -> {"none", "part", "all"}]]
    BY <2>1 DEF Deletes
  <2> QED
    BY <2>1, <2>2 DEF Deletes, Pressing, threads
<1>13. CASE \E m \in Published : DeletesPart(m)
  <2>1. PICK m \in Published : DeletesPart(m)
    BY <1>13
  <2>2. Folder(config) \in Folders
    BY <2>1 DEF DeletesPart
  <2>3. PICK n \in Published : disk' = [disk EXCEPT ![Folder(config)][n] = "part"]
    BY <2>1 DEF DeletesPart, SameDirectory
  <2>4. disk' \in [Folders -> [Published -> {"none", "part", "all"}]]
    BY <2>2, <2>3
  <2> QED
    BY <2>1, <2>4 DEF DeletesPart, Pressing, threads
<1>14. CASE PicksAFile
  BY <1>14 DEF PicksAFile, Shuts, ComesBack, threads, places
<1>15. CASE \E c \in Folders \cup {"silent"} : FolderGiven(c)
  BY <1>15 DEF FolderGiven, Written, ReadTheCacheAgain, Shuts, Pressing, threads
<1>16. CASE RelayStarts
  BY <1>16 DEF RelayStarts, atHand
<1>17. CASE RelayHears
  BY <1>17 DEF RelayHears, atHand
<1>18. CASE RelayTells
  BY <1>18 DEF RelayTells, atHand
<1>19. CASE FetchComes
  BY <1>19 DEF FetchComes, Comes, atHand, threads
<1>20. CASE FetchDone
  BY <1>20 DEF FetchDone, Comes, atHand
<1>21. CASE FetchFails
  BY <1>21 DEF FetchFails, atHand
<1>22. CASE FetchStops
  BY <1>22 DEF FetchStops, atHand
<1>23. CASE UNCHANGED listVars
  BY <1>23 DEF listVars
<1> QED
    BY <1>1, <1>2, <1>3, <1>4, <1>5, <1>6, <1>7, <1>8, <1>9, <1>10, <1>11, <1>12, <1>13, <1>14,
     <1>15, <1>16, <1>17, <1>18, <1>19, <1>20, <1>21, <1>22, <1>23
     DEF ListNext, Screens, Choosing, Relays

\* One fetch at a time, through every step.
LEMMA TurnsKeep == ListInv /\ [ListNext]_listVars => FetchInTurn'
<1> SUFFICES ASSUME ListInv, [ListNext]_listVars PROVE FetchInTurn'
  OBVIOUS
<1> USE ListAssumption DEF ListInv, ListTyped, FetchInTurn
<1>1. CASE ListOpens
  BY <1>1 DEF ListOpens, ReadTheCacheAgain, threads, places
<1>2. CASE Listens
  BY <1>2 DEF Listens, threads, places
<1>3. CASE HearsDone
  BY <1>3 DEF HearsDone, ComesBack, threads, places
<1>4. CASE HearsNot
  BY <1>4 DEF HearsNot, ReadTheCacheAgain, places
<1>5. CASE NoKey
  BY <1>5 DEF NoKey, Pressing, threads, places
<1>6. CASE Leaving
  BY <1>6 DEF Leaving, ComesBack, threads, places
<1>7. CASE EscapeStopsFetch
  BY <1>7 DEF EscapeStopsFetch, Pressing, threads, places
<1>8. CASE AsksToDelete \/ AsksForAFolder \/ AsksForAFile \/ AsksToProceed
  BY <1>8
     DEF AsksToDelete, AsksForAFolder, AsksForAFile, AsksToProceed, AsksOver, Asking, NoBox,
         Pressing, threads, places
<1>9. CASE Refused
  BY <1>9 DEF Refused, Shuts, Pressing, threads, places
<1>10. CASE \E m \in Published : HandsOn(m)
  <2>1. PICK m \in Published : HandsOn(m)
    BY <1>10
  <2>2. over'.box = "none" /\ UNCHANGED <<fetching, relay, fetch, word>>
    BY <2>1 DEF HandsOn, Shuts, threads
  <2> QED
    BY <2>2
<1>11. CASE \E m \in Published : StartFetching(m)
  <2>1. PICK m \in Published : StartFetching(m)
    BY <1>11
  <2>2. CASE over = [box |-> "proceed", of |-> m]
    <3>1. over.box # "none"
      BY <2>2
    <3>2. fetching = Nobody
      BY <3>1
    <3> QED
      BY <2>1, <3>2 DEF StartFetching, Shuts
  <2>3. CASE fetching = Nobody
    BY <2>1, <2>3 DEF StartFetching, Shuts
  <2> QED
    BY <2>1, <2>2, <2>3 DEF StartFetching, Wanted, NoBox
<1>12. CASE \E m \in Published : Deletes(m)
  <2>1. PICK m \in Published : Deletes(m)
    BY <1>12
  <2>2. over'.box = "none" /\ UNCHANGED <<fetching, relay, fetch, word>>
    BY <2>1 DEF Deletes, Shuts, threads
  <2> QED
    BY <2>2
<1>13. CASE \E m \in Published : DeletesPart(m)
  <2>1. PICK m \in Published : DeletesPart(m)
    BY <1>13
  <2>2. over'.box = "none" /\ UNCHANGED <<fetching, relay, fetch, word>>
    BY <2>1 DEF DeletesPart, Shuts, threads
  <2> QED
    BY <2>2
<1>14. CASE PicksAFile
  BY <1>14 DEF PicksAFile, Shuts, ComesBack, threads, places
<1>15. CASE \E c \in Folders \cup {"silent"} : FolderGiven(c)
  BY <1>15 DEF FolderGiven, Written, ReadTheCacheAgain, Shuts, Pressing, threads
<1>16. CASE RelayStarts
  BY <1>16 DEF RelayStarts, atHand
<1>17. CASE RelayHears
  BY <1>17 DEF RelayHears, atHand
<1>18. CASE RelayTells
  BY <1>18 DEF RelayTells, atHand
<1>19. CASE FetchComes
  BY <1>19 DEF FetchComes, Comes, atHand, threads
<1>20. CASE FetchDone
  BY <1>20 DEF FetchDone, Comes, atHand
<1>21. CASE FetchFails
  BY <1>21 DEF FetchFails, atHand
<1>22. CASE FetchStops
  BY <1>22 DEF FetchStops, atHand
<1>23. CASE UNCHANGED listVars
  BY <1>23 DEF listVars
<1> QED
    BY <1>1, <1>2, <1>3, <1>4, <1>5, <1>6, <1>7, <1>8, <1>9, <1>10, <1>11, <1>12, <1>13, <1>14,
     <1>15, <1>16, <1>17, <1>18, <1>19, <1>20, <1>21, <1>22, <1>23
     DEF ListNext, Screens, Choosing, Relays

\* What the rows say is true, through every step.
LEMMA RowsKeep == ListInv /\ [ListNext]_listVars => RowsAreTrue'
<1> SUFFICES ASSUME ListInv, [ListNext]_listVars PROVE RowsAreTrue'
  OBVIOUS
<1> USE ReadAgainIsTrue, FolderIsOne DEF ListInv, RowsAreTrue, CannotTell, Unsaid, Folder
<1>1. CASE ListOpens
  BY <1>1 DEF ListOpens, ReadTheCacheAgain, threads, places
<1>2. CASE Listens
  BY <1>2 DEF Listens, threads, places
<1>3. CASE HearsDone
  BY <1>3 DEF HearsDone, ComesBack, threads, places
<1>4. CASE HearsNot
  BY <1>4 DEF HearsNot, ReadTheCacheAgain, places
<1>5. CASE NoKey
  BY <1>5 DEF NoKey, Pressing, threads, places
<1>6. CASE Leaving
  BY <1>6 DEF Leaving, ComesBack, threads, places
<1>7. CASE EscapeStopsFetch
  BY <1>7 DEF EscapeStopsFetch, Pressing, threads, places
<1>8. CASE AsksToDelete \/ AsksForAFolder \/ AsksForAFile \/ AsksToProceed
  BY <1>8
     DEF AsksToDelete, AsksForAFolder, AsksForAFile, AsksToProceed, AsksOver, Asking, NoBox,
         Pressing, threads, places
<1>9. CASE Refused
  BY <1>9 DEF Refused, Shuts, Pressing, threads, places
<1>10. CASE \E m \in Published : HandsOn(m)
  BY <1>10 DEF HandsOn, Wanted, NoBox, Shuts, ComesBack, threads, places
<1>11. CASE \E m \in Published : StartFetching(m)
  BY <1>11 DEF StartFetching, Wanted, NoBox, Shuts, Pressing, places
<1>12. CASE \E m \in Published : Deletes(m)
  BY <1>12 DEF Deletes, ReadTheCacheAgain, Shuts, Pressing, threads
<1>13. CASE \E m \in Published : DeletesPart(m)
  BY <1>13 DEF DeletesPart, Shuts, Pressing, threads
<1>14. CASE PicksAFile
  BY <1>14 DEF PicksAFile, Shuts, ComesBack, threads, places
<1>15. CASE \E c \in Folders \cup {"silent"} : FolderGiven(c)
  BY <1>15 DEF FolderGiven, Written, ReadTheCacheAgain, Shuts, Pressing, threads
<1>16. CASE RelayStarts
  BY <1>16 DEF RelayStarts, atHand
<1>17. CASE RelayHears
  BY <1>17 DEF RelayHears, atHand
<1>18. CASE RelayTells
  BY <1>18 DEF RelayTells, atHand
<1>19. CASE FetchComes
  BY <1>19 DEF FetchComes, Comes, atHand, threads
<1>20. CASE FetchDone
  BY <1>20 DEF FetchDone, Comes, atHand
<1>21. CASE FetchFails
  BY <1>21 DEF FetchFails, atHand
<1>22. CASE FetchStops
  BY <1>22 DEF FetchStops, atHand
<1>23. CASE UNCHANGED listVars
  BY <1>23 DEF listVars
<1> QED
    BY <1>1, <1>2, <1>3, <1>4, <1>5, <1>6, <1>7, <1>8, <1>9, <1>10, <1>11, <1>12, <1>13, <1>14,
     <1>15, <1>16, <1>17, <1>18, <1>19, <1>20, <1>21, <1>22, <1>23
     DEF ListNext, Screens, Choosing, Relays

\* What has been fetched stays whole, through every step.
LEMMA FetchedKeep == ListInv /\ [ListNext]_listVars => FetchedIsWhole'
<1> SUFFICES ASSUME ListInv, [ListNext]_listVars PROVE FetchedIsWhole'
  OBVIOUS
<1> USE ListAssumption, FolderIsOne
       DEF ListInv, FetchInTurn, FetchedIsWhole, CannotTell, Unsaid, Folder
<1>1. CASE ListOpens
  BY <1>1 DEF ListOpens, ReadTheCacheAgain, threads, places
<1>2. CASE Listens
  BY <1>2 DEF Listens, threads, places
<1>3. CASE HearsDone
  BY <1>3 DEF HearsDone, ComesBack, threads, places
<1>4. CASE HearsNot
  BY <1>4 DEF HearsNot, ReadTheCacheAgain, places
<1>5. CASE NoKey
  BY <1>5 DEF NoKey, Pressing, threads, places
<1>6. CASE Leaving
  BY <1>6 DEF Leaving, ComesBack, threads, places
<1>7. CASE EscapeStopsFetch
  BY <1>7 DEF EscapeStopsFetch, Pressing, threads, places
<1>8. CASE AsksToDelete \/ AsksForAFolder \/ AsksForAFile \/ AsksToProceed
  BY <1>8
     DEF AsksToDelete, AsksForAFolder, AsksForAFile, AsksToProceed, AsksOver, Asking, NoBox,
         Pressing, threads, places
<1>9. CASE Refused
  BY <1>9 DEF Refused, Shuts, Pressing, threads, places
<1>10. CASE \E m \in Published : HandsOn(m)
  BY <1>10 DEF HandsOn, Wanted, NoBox, Shuts, ComesBack, threads, places
<1>11. CASE \E m \in Published : StartFetching(m)
  BY <1>11 DEF StartFetching, Wanted, NoBox, Shuts, Pressing, places
<1>12. CASE \E m \in Published : Deletes(m)
  <2>1. PICK m \in Published : Deletes(m)
    BY <1>12
  <2>2. fetching' = Nobody
    BY <2>1 DEF FetchInTurn, Deletes, Pressing
  <2> QED
    BY <2>2
<1>13. CASE \E m \in Published : DeletesPart(m)
  <2>1. PICK m \in Published : DeletesPart(m)
    BY <1>13
  <2>2. fetching' = Nobody
    BY <2>1 DEF FetchInTurn, DeletesPart, Pressing
  <2> QED
    BY <2>2
<1>14. CASE PicksAFile
  BY <1>14 DEF PicksAFile, Shuts, ComesBack, threads, places
<1>15. CASE \E c \in Folders \cup {"silent"} : FolderGiven(c)
  BY <1>15 DEF FolderGiven, Written, ReadTheCacheAgain, Shuts, Pressing, threads
<1>16. CASE RelayStarts
  BY <1>16 DEF RelayStarts, atHand
<1>17. CASE RelayHears
  BY <1>17 DEF RelayHears, atHand
<1>18. CASE RelayTells
  BY <1>18 DEF RelayTells, atHand
<1>19. CASE FetchComes
  BY <1>19 DEF FetchComes, Comes, atHand, threads
<1>20. CASE FetchDone
  <2>1. fetching \in Published /\ ~CannotTell
    BY <1>20 DEF FetchDone, ListTyped
  <2>2. disk'[Folder(config)][fetching] = "all"
    BY <1>20, <2>1 DEF FetchDone, Comes, ListTyped
  <2> QED
    BY <1>20, <2>1, <2>2 DEF FetchDone, atHand
<1>21. CASE FetchFails
  BY <1>21 DEF FetchFails, atHand
<1>22. CASE FetchStops
  BY <1>22 DEF FetchStops, atHand
<1>23. CASE UNCHANGED listVars
  BY <1>23 DEF listVars
<1> QED
    BY <1>1, <1>2, <1>3, <1>4, <1>5, <1>6, <1>7, <1>8, <1>9, <1>10, <1>11, <1>12, <1>13, <1>14,
     <1>15, <1>16, <1>17, <1>18, <1>19, <1>20, <1>21, <1>22, <1>23
     DEF ListNext, Screens, Choosing, Relays

\* What is picked and handed on is whole, through every step.
LEMMA PickedKeep == ListInv /\ [ListNext]_listVars => PickedIsOver' /\ HandedOnIsWhole'
<1> SUFFICES ASSUME ListInv, [ListNext]_listVars PROVE PickedIsOver' /\ HandedOnIsWhole'
  OBVIOUS
<1> USE ListAssumption, FolderIsOne
       DEF ListInv, PickedIsOver, HandedOnIsWhole, CannotTell, Unsaid, Folder
<1>1. CASE ListOpens
  BY <1>1 DEF ListOpens, ReadTheCacheAgain, threads, places
<1>2. CASE Listens
  BY <1>2 DEF Listens, threads, places
<1>3. CASE HearsDone
  <2>1. fetch = "done" /\ picked' = fetching /\ listTurn' = "over"
    BY <1>3 DEF HearsDone, ComesBack, FetchInTurn
  <2>2. ~CannotTell /\ disk[Folder(config)][fetching] = "all"
    BY <1>3, <2>1 DEF HearsDone, FetchedIsWhole
  <2> QED
    BY <1>3, <2>1, <2>2 DEF HearsDone, places
<1>4. CASE HearsNot
  BY <1>4 DEF HearsNot, ReadTheCacheAgain, places
<1>5. CASE NoKey
  BY <1>5 DEF NoKey, Pressing, threads, places
<1>6. CASE Leaving
  BY <1>6 DEF Leaving, ComesBack, threads, places
<1>7. CASE EscapeStopsFetch
  BY <1>7 DEF EscapeStopsFetch, Pressing, threads, places
<1>8. CASE AsksToDelete \/ AsksForAFolder \/ AsksForAFile \/ AsksToProceed
  BY <1>8
     DEF AsksToDelete, AsksForAFolder, AsksForAFile, AsksToProceed, AsksOver, Asking, NoBox,
         Pressing, threads, places
<1>9. CASE Refused
  BY <1>9 DEF Refused, Shuts, Pressing, threads, places
<1>10. CASE \E m \in Published : HandsOn(m)
  <2>1. PICK m \in Published : HandsOn(m)
    BY <1>10
  <2>2. ~CannotTell /\ (disk[Folder(config)][m] = "all" \/ spoilt)
    BY <2>1 DEF HandsOn, RowsAreTrue
  <2> QED
    BY <2>1, <2>2 DEF HandsOn, ComesBack, places
<1>11. CASE \E m \in Published : StartFetching(m)
  BY <1>11 DEF StartFetching, Wanted, NoBox, Shuts, Pressing, places
<1>12. CASE \E m \in Published : Deletes(m)
  BY <1>12 DEF Deletes, ReadTheCacheAgain, Shuts, Pressing, threads
<1>13. CASE \E m \in Published : DeletesPart(m)
  BY <1>13 DEF DeletesPart, Shuts, Pressing, threads
<1>14. CASE PicksAFile
  BY <1>14 DEF PicksAFile, Shuts, ComesBack, threads, places
<1>15. CASE \E c \in Folders \cup {"silent"} : FolderGiven(c)
  BY <1>15 DEF FolderGiven, Written, ReadTheCacheAgain, Shuts, Pressing, threads
<1>16. CASE RelayStarts
  BY <1>16 DEF RelayStarts, atHand
<1>17. CASE RelayHears
  BY <1>17 DEF RelayHears, atHand
<1>18. CASE RelayTells
  BY <1>18 DEF RelayTells, atHand
<1>19. CASE FetchComes
  <2>1. fetching \in Published /\ ~CannotTell
    BY <1>19 DEF FetchComes, ListTyped, FetchInTurn
  <2>2. \A m \in Published :
          disk[Folder(config)][m] = "all" => disk'[Folder(config)][m] = "all"
    BY <1>19, <2>1 DEF FetchComes, Comes, ListTyped
  <2> QED
    BY <1>19, <2>2 DEF FetchComes, atHand, threads
<1>20. CASE FetchDone
  <2>1. fetching \in Published /\ ~CannotTell
    BY <1>20 DEF FetchDone, ListTyped, FetchInTurn
  <2>2. \A m \in Published :
          disk[Folder(config)][m] = "all" => disk'[Folder(config)][m] = "all"
    BY <1>20, <2>1 DEF FetchDone, Comes, ListTyped
  <2> QED
    BY <1>20, <2>2 DEF FetchDone, atHand, threads
<1>21. CASE FetchFails
  BY <1>21 DEF FetchFails, atHand
<1>22. CASE FetchStops
  BY <1>22 DEF FetchStops, atHand
<1>23. CASE UNCHANGED listVars
  BY <1>23 DEF listVars
<1> QED
    BY <1>1, <1>2, <1>3, <1>4, <1>5, <1>6, <1>7, <1>8, <1>9, <1>10, <1>11, <1>12, <1>13, <1>14,
     <1>15, <1>16, <1>17, <1>18, <1>19, <1>20, <1>21, <1>22, <1>23
     DEF ListNext, Screens, Choosing, Relays

\* Every step of the list keeps the invariant.
LEMMA ListKeeps == ListInv /\ [ListNext]_listVars => ListInv'
<1> QED
  BY TypesKeep, TurnsKeep, RowsKeep, FetchedKeep, PickedKeep DEF ListInv

\* What the list hands on is whole and where it will be looked for, but for what a deletion that
\* failed half way took of it, for any models, repositories and folders (HandedOnIsWhole).
THEOREM HandsOnWholeModels == ListSpec => []HandedOnIsWhole
<1>1. ListInv => HandedOnIsWhole
  BY DEF ListInv
<1> QED
  BY StartsUnread, ListKeeps, <1>1, PTL DEF ListSpec

-----------------------------------------------------------------------------
(* The three looked at together (MCPrograms): a step of one leaves the others as they are. *)

\* Whichever is looked at, what its run checks of it holds, and of the others as they begin.
THEOREM ProgramsAgree ==
  ProgramsSpec => /\ [](DrawnByItsModel /\ CancelIsNotLost /\ LineIsItsModels)
                  /\ [](OneAsked /\ DrawnWhereShown /\ HandedOnIsWhole)
<1> DEFINE Inv == Agreed /\ DrawInv /\ ListInv
<1>1. ProgramsInit => Inv
  BY AppStarts, StartsReady, StartsUnread DEF ProgramsInit
<1>2. Inv /\ [ProgramsNext]_programVars => Inv'
  <2>1. Inv /\ [ProgramsNext]_programVars => [AppNext]_appVars /\ [DrawNext]_drawVars /\ [ListNext]_listVars
    BY DEF ProgramsNext, programVars
  <2> QED
    BY <2>1, AppKeeps, StepsKeep, ListKeeps
<1>3. Inv => DrawnByItsModel /\ CancelIsNotLost /\ LineIsItsModels
  BY DEF Agreed, CallIsAwaited, Awaited, DrawnByItsModel
<1>4. Inv => OneAsked /\ DrawnWhereShown /\ HandedOnIsWhole
  BY ShownIsOutstanding, ShownWhereDrawn DEF ListInv
<1> QED
  BY <1>1, <1>2, <1>3, <1>4, PTL DEF ProgramsSpec
=============================================================================
