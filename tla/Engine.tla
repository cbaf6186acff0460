------------------------------- MODULE Engine -------------------------------
(***************************************************************************)
(* The engine of waifu/src/engine.rs: one thread that runs jobs in the     *)
(* order they were submitted, and the calls other threads make on it --    *)
(* submit, cancel, cancel_all and drop -- each a series of atomic steps,   *)
(* one per lock the source takes.                                          *)
(***************************************************************************)
EXTENDS Integers, Sequences, FiniteSets

CONSTANTS Callers,     \* the threads that call the engine
          MaxJobs,     \* a bound: how many jobs are ever submitted
          MaxReports,  \* a bound: how many times one job reports and looks at stop
          Works,       \* what callers may submit, a subset of AllWorks
          MayPanic     \* whether an on_complete may panic on the engine's thread

Kinds == {"Image", "Voice", "CosyVoice", "Layers"}

\* "tones" is the stand-in voice and "missing" a path where no manifest is.
AllWorks == [op : {"load"}, model : Kinds \cup {"tones", "missing"}]
       \cup [op : {"unload", "draw", "speak", "convert", "layers"}, model : {"none"}]

ASSUME EngineAssumption == /\ MaxJobs \in Nat
                           /\ MaxReports \in Nat
                           /\ Works \subseteq AllWorks
                           /\ MayPanic \in BOOLEAN

Jobs     == 1..MaxJobs
NoJob    == 0    \* None, where a job number may be absent
Quit     == 0    \* Command::Quit, where a job number stands for Command::Job
Outcomes == {"Done", "Cancelled", "Failed"}

\* What must be loaded for a request not to end as NotLoaded.
Serving(op) == CASE op = "draw"    -> {"Image"}
                 [] op = "speak"   -> {"Voice", "CosyVoice"}
                 [] op = "convert" -> {"CosyVoice"}
                 [] op = "layers"  -> {"Layers"}
                 [] OTHER          -> {}

VARIABLES
  next, open, cancelled, running, stop,   \* Shared
  queue,      \* the channel
  work,       \* what each job is
  pc, held,   \* where each caller is in its call, and the jobs that call is about
  dropping,   \* Drop has begun: it has the engine to itself
  wpc, job, reports, result,              \* where the engine's thread is
  loaded,     \* what the thread has read
  log,        \* history: the completions, in the order on_complete was called
  asked       \* history: the jobs somebody has asked to stop

shared  == <<next, open, cancelled, running, stop>>
caller  == <<pc, held, dropping>>
thread  == <<wpc, job, reports, result, loaded>>
history == <<log, asked>>
vars == <<shared, queue, work, caller, thread, history>>

Idle == \A c \in Callers : pc[c] = "idle"
Ended == {log[i].job : i \in 1..Len(log)}
Completion(j, outcome) == [job |-> j, outcome |-> outcome]

-----------------------------------------------------------------------------
Init ==
  /\ next = 1 /\ open = {} /\ cancelled = {} /\ running = NoJob /\ stop = FALSE
  /\ queue = <<>>
  /\ work = [j \in Jobs |-> [op |-> "unload", model |-> "none"]]
  /\ pc = [c \in Callers |-> "idle"] /\ held = [c \in Callers |-> {}] /\ dropping = FALSE
  /\ wpc = "recv" /\ job = NoJob /\ reports = 0 /\ result = "Done"
  /\ loaded = "Nothing"
  /\ log = <<>> /\ asked = {}

-----------------------------------------------------------------------------
(* submit: a number, then into open, then onto the channel. *)

Submit(c, w) ==
  /\ pc[c] = "idle" /\ ~dropping /\ next <= MaxJobs
  /\ next' = next + 1
  /\ work' = [work EXCEPT ![next] = w]
  /\ held' = [held EXCEPT ![c] = {next}]
  /\ pc' = [pc EXCEPT ![c] = "open"]
  /\ UNCHANGED <<open, cancelled, running, stop, queue, dropping, thread, history>>

\* A mutation: next is read again in place of what fetch_add returned.
SubmitOpenRereads(c) ==
  /\ pc[c] = "open"
  /\ open' = open \cup {next}
  /\ pc' = [pc EXCEPT ![c] = "send"]
  /\ UNCHANGED <<next, cancelled, running, stop, queue, work, held, dropping, thread, history>>

SubmitOpen(c) ==
  /\ pc[c] = "open"
  /\ open' = open \cup held[c]
  /\ pc' = [pc EXCEPT ![c] = "send"]
  /\ UNCHANGED <<next, cancelled, running, stop, queue, work, held, dropping, thread, history>>

SubmitSend(c) ==
  /\ pc[c] = "send" /\ wpc # "dead"
  /\ \E j \in held[c] : queue' = Append(queue, j)
  /\ pc' = [pc EXCEPT ![c] = "idle"]
  /\ held' = [held EXCEPT ![c] = {}]
  /\ UNCHANGED <<shared, work, dropping, thread, history>>

\* A mutation: what send returns is not looked at.
SubmitRefusedSilent(c) ==
  /\ pc[c] = "send" /\ wpc = "dead"
  /\ open' = open \ held[c]
  /\ pc' = [pc EXCEPT ![c] = "idle"] /\ held' = [held EXCEPT ![c] = {}]
  /\ UNCHANGED <<next, cancelled, running, stop, queue, work, dropping, thread, history>>

\* The thread died, and the receiver with it: SendError hands the work back.
SubmitRefused(c) ==
  /\ pc[c] = "send" /\ wpc = "dead"
  /\ open' = open \ held[c]
  /\ pc' = [pc EXCEPT ![c] = "end"]
  /\ UNCHANGED <<next, cancelled, running, stop, queue, work, held, dropping, thread, history>>

\* work.cancel() on the caller's own thread.
SubmitEnd(c) ==
  /\ pc[c] = "end"
  /\ \E j \in held[c] : log' = Append(log, Completion(j, "Cancelled"))
  /\ pc' = [pc EXCEPT ![c] = "idle"]
  /\ held' = [held EXCEPT ![c] = {}]
  /\ UNCHANGED <<shared, queue, work, dropping, thread, asked>>

-----------------------------------------------------------------------------
(* cancel and cancel_all: mark in cancelled, look at running, raise stop. The lock on running
   is let go before stop is stored. *)

\* A job that is not open is not looked at further.
Cancel(c, j) ==
  /\ pc[c] = "idle" /\ ~dropping /\ j \in open
  /\ held' = [held EXCEPT ![c] = {j}]
  /\ asked' = asked \cup {j}
  /\ pc' = [pc EXCEPT ![c] = "mark"]
  /\ UNCHANGED <<shared, queue, work, dropping, thread, log>>

CancelMark(c) ==
  /\ pc[c] = "mark"
  /\ cancelled' = cancelled \cup held[c]
  /\ pc' = [pc EXCEPT ![c] = "look"]
  /\ UNCHANGED <<next, open, running, stop, queue, work, held, dropping, thread, history>>

\* Drop goes on to send Quit; any other call returns.
Return(c) ==
  /\ pc' = [pc EXCEPT ![c] = IF dropping THEN "quit" ELSE "idle"]
  /\ held' = [held EXCEPT ![c] = {}]

CancelLook(c) ==
  /\ pc[c] = "look"
  /\ IF running \in held[c]
     THEN pc' = [pc EXCEPT ![c] = "raise"] /\ held' = held
     ELSE Return(c)
  /\ UNCHANGED <<shared, queue, work, dropping, thread, history>>

CancelRaise(c) ==
  /\ pc[c] = "raise"
  /\ stop' = TRUE
  /\ Return(c)
  /\ UNCHANGED <<next, open, cancelled, running, queue, work, dropping, thread, history>>

CancelAll(c) ==
  /\ pc[c] = "idle" /\ ~dropping
  /\ held' = [held EXCEPT ![c] = open]
  /\ asked' = asked \cup open
  /\ pc' = [pc EXCEPT ![c] = "markAll"]
  /\ UNCHANGED <<shared, queue, work, dropping, thread, log>>

CancelAllMark(c) ==
  /\ pc[c] = "markAll"
  /\ cancelled' = cancelled \cup held[c]
  /\ asked' = asked \cup open
  /\ pc' = [pc EXCEPT ![c] = "lookAll"]
  /\ UNCHANGED <<next, open, running, stop, queue, work, held, dropping, thread, log>>

CancelAllLook(c) ==
  /\ pc[c] = "lookAll"
  /\ IF running # NoJob
     THEN pc' = [pc EXCEPT ![c] = "raiseAll"] /\ held' = held
     ELSE Return(c)
  /\ asked' = asked \cup open
  /\ UNCHANGED <<shared, queue, work, dropping, thread, log>>

CancelAllRaise(c) ==
  /\ pc[c] = "raiseAll"
  /\ stop' = TRUE
  /\ Return(c)
  /\ asked' = asked \cup open
  /\ UNCHANGED <<next, open, cancelled, running, queue, work, dropping, thread, log>>

-----------------------------------------------------------------------------
(* Drop has &mut self: no other call is in progress, and none starts after it. *)

Drop(c) ==
  /\ Idle /\ ~dropping
  /\ dropping' = TRUE
  /\ held' = [held EXCEPT ![c] = open]
  /\ asked' = asked \cup open
  /\ pc' = [pc EXCEPT ![c] = "markAll"]
  /\ UNCHANGED <<shared, queue, work, thread, log>>

\* A mutation: Quit is never sent.
DropQuitOmitted(c) ==
  /\ pc[c] = "quit"
  /\ pc' = [pc EXCEPT ![c] = "join"]
  /\ UNCHANGED <<shared, queue, work, held, dropping, thread, history>>

DropQuit(c) ==
  /\ pc[c] = "quit"
  /\ queue' = IF wpc = "dead" THEN queue ELSE Append(queue, Quit)
  /\ pc' = [pc EXCEPT ![c] = "join"]
  /\ UNCHANGED <<shared, work, held, dropping, thread, history>>

DropJoin(c) ==
  /\ pc[c] = "join" /\ wpc \in {"exited", "dead"}
  /\ pc' = [pc EXCEPT ![c] = "freed"]
  /\ UNCHANGED <<shared, queue, work, held, dropping, thread, history>>

-----------------------------------------------------------------------------
(* work: the thread's loop. *)

\* A mutation: the mark is taken off without being looked at.
TakeJobUnchecked ==
  /\ wpc = "recv" /\ queue # <<>> /\ Head(queue) # Quit
  /\ queue' = Tail(queue) /\ job' = Head(queue) /\ wpc' = "clear"
  /\ cancelled' = cancelled \ {Head(queue)}
  /\ UNCHANGED <<next, open, running, stop, work, caller, reports, result, loaded, history>>

\* recv, and cancelled.remove of what it took.
TakeJob ==
  /\ wpc = "recv" /\ queue # <<>> /\ Head(queue) # Quit
  /\ queue' = Tail(queue)
  /\ job' = Head(queue)
  /\ wpc' = IF Head(queue) \in cancelled THEN "skip" ELSE "clear"
  /\ cancelled' = cancelled \ {Head(queue)}
  /\ UNCHANGED <<next, open, running, stop, work, caller, reports, result, loaded, history>>

TakeQuit ==
  /\ wpc = "recv" /\ queue # <<>> /\ Head(queue) = Quit
  /\ queue' = Tail(queue)
  /\ wpc' = "exited"
  /\ loaded' = "Nothing"
  /\ UNCHANGED <<shared, work, caller, job, reports, result, history>>

Skip ==
  /\ wpc = "skip"
  /\ open' = open \ {job}
  /\ wpc' = "skipEnd"
  /\ UNCHANGED <<next, cancelled, running, stop, queue, work, caller, job, reports, result, loaded, history>>

\* A mutation: no completion for a skipped job.
SkipEndSilent ==
  /\ wpc = "skipEnd"
  /\ job' = NoJob /\ wpc' = "recv"
  /\ UNCHANGED <<shared, queue, work, caller, reports, result, loaded, history>>

SkipEnd ==
  /\ wpc = "skipEnd"
  /\ log' = Append(log, Completion(job, "Cancelled"))
  /\ job' = NoJob /\ wpc' = "recv"
  /\ UNCHANGED <<shared, queue, work, caller, reports, result, loaded, asked>>

Clear ==
  /\ wpc = "clear"
  /\ stop' = FALSE
  /\ wpc' = "claim"
  /\ UNCHANGED <<next, open, cancelled, running, queue, work, caller, job, reports, result, loaded, history>>

Claim ==
  /\ wpc = "claim"
  /\ running' = job
  /\ wpc' = "recheck"
  /\ UNCHANGED <<next, open, cancelled, stop, queue, work, caller, job, reports, result, loaded, history>>

\* A mutation: the second look at cancelled left out.
RecheckOmitted ==
  /\ wpc = "recheck"
  /\ wpc' = "run"
  /\ UNCHANGED <<shared, queue, work, caller, job, reports, result, loaded, history>>

\* A cancel can land between TakeJob and Claim; it is honoured here.
Recheck ==
  /\ wpc = "recheck"
  /\ wpc' = IF job \in cancelled THEN "raise" ELSE "run"
  /\ UNCHANGED <<shared, queue, work, caller, job, reports, result, loaded, history>>

RecheckRaise ==
  /\ wpc = "raise"
  /\ stop' = TRUE
  /\ wpc' = "run"
  /\ UNCHANGED <<next, open, cancelled, running, queue, work, caller, job, reports, result, loaded, history>>

-----------------------------------------------------------------------------
(* Worker::run, by what the job is. *)

Ends(outcome) ==
  /\ result' = outcome
  /\ reports' = 0
  /\ wpc' = "deliver"
  /\ UNCHANGED <<shared, queue, work, caller, job, history>>

\* A mutation: the model before it is let go of only once the next has been read.
RunLoadKeepsOld ==
  /\ wpc = "run" /\ work[job].op = "load"
  /\ LET model == work[job].model
     IN  \/ model = "tones"   /\ loaded' = "Voice" /\ Ends("Done")
         \/ model \in Kinds   /\ loaded' = model /\ Ends("Done")
         \/ model # "tones"   /\ loaded' = loaded /\ Ends("Failed")

\* The model before it is let go of first, and stop is never looked at. Reading it may fail, or
\* panic.
RunLoad ==
  /\ wpc = "run" /\ work[job].op = "load"
  /\ LET model == work[job].model
     IN  \/ model = "tones"   /\ loaded' = "Voice" /\ Ends("Done")
         \/ model \in Kinds   /\ loaded' = model /\ Ends("Done")
         \/ model # "tones"   /\ loaded' = "Nothing" /\ Ends("Failed")

RunUnload ==
  /\ wpc = "run" /\ work[job].op = "unload"
  /\ loaded' = "Nothing"
  /\ Ends("Done")

IsRequest == work[job].op \notin {"load", "unload"}

RunNotLoaded ==
  /\ wpc = "run" /\ IsRequest /\ loaded \notin Serving(work[job].op)
  /\ loaded' = loaded
  /\ Ends("Failed")

\* A progress report, and the look at stop after it.
RunReport ==
  /\ wpc = "run" /\ IsRequest /\ loaded \in Serving(work[job].op)
  /\ ~stop /\ reports < MaxReports
  /\ reports' = reports + 1
  /\ UNCHANGED <<shared, queue, work, caller, wpc, job, result, loaded, history>>

RunStopped ==
  /\ wpc = "run" /\ IsRequest /\ loaded \in Serving(work[job].op)
  /\ stop
  /\ loaded' = loaded
  /\ Ends("Cancelled")

\* Finished without another look at stop, or failed or panicked at any point.
RunFinished ==
  /\ wpc = "run" /\ IsRequest /\ loaded \in Serving(work[job].op)
  /\ loaded' = loaded
  /\ \E outcome \in {"Done", "Failed"} : Ends(outcome)

Deliver ==
  /\ wpc = "deliver"
  /\ log' = Append(log, Completion(job, result))
  /\ wpc' = "unclaim"
  /\ UNCHANGED <<shared, queue, work, caller, job, reports, result, loaded, asked>>

\* on_complete is called outside guarded(): its panic unwinds the thread, the receiver is
\* dropped with every command on the channel, and what Shared holds stays as it was.
DeliverPanics ==
  /\ MayPanic /\ wpc \in {"deliver", "skipEnd"}
  /\ log' = Append(log, Completion(job, IF wpc = "deliver" THEN result ELSE "Cancelled"))
  /\ wpc' = "dead"
  /\ queue' = <<>>
  /\ job' = NoJob /\ loaded' = "Nothing"
  /\ UNCHANGED <<shared, work, caller, reports, result, asked>>

Unclaim ==
  /\ wpc = "unclaim"
  /\ running' = NoJob
  /\ wpc' = "forget"
  /\ UNCHANGED <<next, open, cancelled, stop, queue, work, caller, job, reports, result, loaded, history>>

Forget ==
  /\ wpc = "forget"
  /\ cancelled' = cancelled \ {job}
  /\ wpc' = "close"
  /\ UNCHANGED <<next, open, running, stop, queue, work, caller, job, reports, result, loaded, history>>

\* A mutation: the job stays in open.
CloseOmitted ==
  /\ wpc = "close"
  /\ job' = NoJob /\ wpc' = "recv"
  /\ UNCHANGED <<shared, queue, work, caller, reports, result, loaded, history>>

Close ==
  /\ wpc = "close"
  /\ open' = open \ {job}
  /\ job' = NoJob /\ wpc' = "recv"
  /\ UNCHANGED <<next, cancelled, running, stop, queue, work, caller, reports, result, loaded, history>>

-----------------------------------------------------------------------------
CallStep(c) ==
  \/ SubmitOpen(c) \/ SubmitSend(c) \/ SubmitRefused(c) \/ SubmitEnd(c)
  \/ CancelMark(c) \/ CancelLook(c) \/ CancelRaise(c)
  \/ CancelAllMark(c) \/ CancelAllLook(c) \/ CancelAllRaise(c)
  \/ DropQuit(c) \/ DropJoin(c)

Call(c) ==
  \/ \E w \in Works : Submit(c, w)
  \/ \E j \in Jobs : Cancel(c, j)
  \/ CancelAll(c)
  \/ Drop(c)

Work ==
  \/ TakeJob \/ TakeQuit \/ Skip \/ SkipEnd
  \/ Clear \/ Claim \/ Recheck \/ RecheckRaise
  \/ RunLoad \/ RunUnload \/ RunNotLoaded \/ RunReport \/ RunStopped \/ RunFinished
  \/ Deliver \/ DeliverPanics \/ Unclaim \/ Forget \/ Close

Next == Work \/ \E c \in Callers : Call(c) \/ CallStep(c)

Spec == Init /\ [][Next]_vars

\* The scheduler runs the engine's thread and finishes a call that has begun; nobody has to
\* make one.
FairSpec == Spec /\ WF_vars(Work) /\ \A c \in Callers : WF_vars(CallStep(c))

-----------------------------------------------------------------------------
\* What the caller is doing and where the thread is, each with what it then holds.
CallerStates == {"idle", "open", "send", "end", "mark", "look", "raise",
                 "markAll", "lookAll", "raiseAll", "quit", "join", "freed"}
ThreadStates == {"recv", "skip", "skipEnd", "clear", "claim", "recheck", "raise", "run",
                 "deliver", "unclaim", "forget", "close", "exited", "dead"}

\* The thread has taken a job and has not said how it ended.
Busy == {"skip", "skipEnd", "clear", "claim", "recheck", "raise", "run", "deliver"}

\* Every variable keeps its type: the fields of Shared, the channel, the calls, the thread.
TypeOK ==
  /\ next \in 1..(MaxJobs + 1)
  /\ open \subseteq Jobs /\ cancelled \subseteq Jobs /\ asked \subseteq Jobs
  /\ running \in Jobs \cup {NoJob} /\ stop \in BOOLEAN
  /\ queue \in Seq(Jobs \cup {Quit})
  /\ work \in [Jobs -> AllWorks]
  /\ pc \in [Callers -> CallerStates] /\ held \in [Callers -> SUBSET Jobs]
  /\ dropping \in BOOLEAN
  /\ wpc \in ThreadStates /\ job \in Jobs \cup {NoJob}
  /\ reports \in 0..MaxReports /\ result \in Outcomes
  /\ loaded \in Kinds \cup {"Nothing"}
  /\ log \in Seq([job : Jobs, outcome : Outcomes])

\* A request to stop is never lost in the thread's hand-over: once the cancel that named the
\* job on the thread has returned, stop stands until that job is over -- wherever in TakeJob,
\* Clear, Claim and Recheck the cancel landed.
AskedIsStopped ==
  wpc = "run" /\ job \in cancelled =>
     \/ stop
     \/ \E c \in Callers : job \in held[c] /\ pc[c] \in {"look", "lookAll", "raise", "raiseAll"}

\* Every job in open is somewhere it will be ended from: on the channel, on its way to it, or
\* on the thread. With an on_complete that panics this is what breaks.
NoJobLost ==
  \A j \in open : \/ \E i \in 1..Len(queue) : queue[i] = j
                  \/ \E c \in Callers : pc[c] = "send" /\ j \in held[c]
                  \/ j = job

\* Somebody will end the job, or has: its submitter, a thread that still takes from the channel, or
\* the thread that is on it.
InCare(j) == \/ \E c \in Callers : pc[c] \in {"open", "send", "end"} /\ j \in held[c]
             \/ wpc \notin {"exited", "dead"} /\ \E i \in 1..Len(queue) : queue[i] = j
             \/ wpc \in Busy /\ j = job
             \/ j \in Ended

\* "A job it never sees still has to be ended": no step leaves a job to nobody, neither one
\* that finds the thread gone, nor a Quit that something is behind. The code does not keep this of a
\* thread that dies of a completion, which takes what is on the channel with it; and of nothing else.
OnlyDeathLoses ==
  [][\A j \in 1..(next - 1) :
       InCare(j) => \/ InCare(j)'
                    \/ wpc # "dead" /\ wpc' = "dead" /\ \E i \in 1..Len(queue) : queue[i] = j]_vars

\* "Every one of them still gets its completion": when Drop has joined the thread every job
\* that was ever numbered has ended.
DropEndsAll == (\E c \in Callers : pc[c] = "freed") => Ended = 1..(next - 1)

\* A request is answered by the model that the last load or unload before it left: a load that
\* failed, or an unload, leaves none, and one that was cancelled in the queue changes nothing.
ServedByLastLoad ==
  \A i \in 1..Len(log) :
    LET op == work[log[i].job].op
        changes == {k \in 1..(i - 1) : /\ work[log[k].job].op \in {"load", "unload"}
                                       /\ log[k].outcome # "Cancelled"}
        last == CHOOSE k \in changes : \A m \in changes : m <= k
        model == work[log[last].job].model
    IN  op \notin {"load", "unload"} /\ log[i].outcome = "Done" =>
          /\ changes # {}
          /\ work[log[last].job].op = "load" /\ log[last].outcome = "Done"
          /\ (IF model = "tones" THEN "Voice" ELSE model) \in Serving(op)

\* "Stops job": a job ends as Cancelled only if somebody asked for that. The code does not keep
\* this: stop may be stored for a job that has just made way for another.
OnlyAskedAreCancelled ==
  \A i \in 1..Len(log) : log[i].outcome = "Cancelled" => log[i].job \in asked

\* The engine is the queue JobQueue describes: the calls are linearised where the channel takes
\* a job and where cancelled takes a mark, the thread where it takes a job and where it calls
\* on_complete.
QueuedJobs(q) == IF q # <<>> /\ q[Len(q)] = Quit THEN Len(q) - 1 ELSE Len(q)
Queued(q)     == SubSeq(q, 1, QueuedJobs(q))

Promised == INSTANCE JobQueue WITH
  waiting <- Queued(queue),
  asked   <- {j \in cancelled : \E i \in 1..Len(queue) : queue[i] = j},
  active  <- IF wpc \in Busy THEN job ELSE 0,
  doomed  <- wpc \in {"skip", "skipEnd"},
  ended   <- log

\* Jobs run in the order they were submitted, one at a time; one asked to stop while it waits
\* ends as cancelled and is not run; each of them ends.
IsJobQueue == Promised!QueueSpec

\* Drop returns: the thread it joins finishes what it is on, skips the rest and quits.
DropReturns == dropping ~> (\E c \in Callers : pc[c] = "freed")
=============================================================================
