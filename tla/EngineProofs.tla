---------------------------- MODULE EngineProofs ----------------------------
(***************************************************************************)
(* What holds of Engine for any number of callers and jobs; and, where     *)
(* completions do not panic, that it takes the steps of JobQueue and no    *)
(* others.                                                                 *)
(***************************************************************************)
EXTENDS Engine, TLAPS, SequenceTheorems

Claimed  == {"recheck", "raise", "run", "deliver", "unclaim"}
HasJob   == Busy \cup {"unclaim", "forget", "close"}
Stopping == {"look", "lookAll", "raise", "raiseAll"}

\* Where the thread is says what running and job are.
ThreadHolds ==
  /\ wpc \in Claimed => running = job
  /\ wpc \in HasJob => job \in Jobs
  /\ wpc \notin HasJob => job = NoJob

-----------------------------------------------------------------------------
\* What a channel or a history holds stays in its set when one is put behind it.
LEMMA AppendInSeq == ASSUME NEW S, NEW s \in Seq(S), NEW e \in S PROVE Append(s, e) \in Seq(S)
  OBVIOUS

\* What is in a channel or a history is of its set.
LEMMA ItemInSeq == ASSUME NEW S, NEW s \in Seq(S) PROVE \A i \in 1..Len(s) : s[i] \in S
  OBVIOUS

\* What is taken from a channel is of its set, and what is left is a channel.
LEMMA TailInSeq ==
  ASSUME NEW S, NEW s \in Seq(S), s # <<>>
  PROVE  Head(s) \in S /\ Tail(s) \in Seq(S)
  OBVIOUS

\* The fields of Shared, the channel, the calls and the thread keep their types, and running
\* and job agree with where the thread is.
Typed == TypeOK /\ ThreadHolds

\* Every step keeps them, for any callers, works and number of jobs.
THEOREM Typing == Spec => []Typed
<1>1. Init => Typed
  <2> SUFFICES ASSUME Init PROVE Typed
    OBVIOUS
  <2>1. work \in [Jobs -> AllWorks]
    BY DEF Init, AllWorks
  <2>2. queue \in Seq(Jobs \cup {Quit}) /\ log \in Seq([job : Jobs, outcome : Outcomes])
    BY DEF Init
  <2>3. next \in 1..(MaxJobs + 1) /\ reports \in 0..MaxReports
    BY EngineAssumption DEF Init
  <2>4. QED
    BY <2>1, <2>2, <2>3
    DEF Init, Typed, TypeOK, ThreadHolds, HasJob, Busy, Claimed, NoJob, Outcomes,
        CallerStates, ThreadStates
<1>2. Typed /\ [Next]_vars => Typed'
  <2> SUFFICES ASSUME Typed, [Next]_vars PROVE Typed'
    OBVIOUS
  <2> USE EngineAssumption DEF Typed, TypeOK, ThreadHolds, shared, caller, thread, history
  <2>1. ASSUME NEW c \in Callers, NEW w \in Works, Submit(c, w) PROVE Typed'
    BY <2>1 DEF Submit, Jobs, CallerStates
  <2>2. ASSUME NEW c \in Callers, NEW j \in Jobs, Cancel(c, j) PROVE Typed'
    BY <2>2 DEF Cancel, CallerStates
  <2>3. ASSUME NEW c \in Callers, CancelAll(c) \/ Drop(c) PROVE Typed'
    BY <2>3 DEF CancelAll, Drop, CallerStates
  <2>4. ASSUME NEW c \in Callers, SubmitOpen(c) \/ SubmitRefused(c) PROVE Typed'
    BY <2>4 DEF SubmitOpen, SubmitRefused, CallerStates
  <2>5. ASSUME NEW c \in Callers, SubmitSend(c) PROVE Typed'
    BY <2>5, AppendInSeq DEF SubmitSend, CallerStates
  <2>6. ASSUME NEW c \in Callers, SubmitEnd(c) PROVE Typed'
    BY <2>6, AppendInSeq DEF SubmitEnd, CallerStates, Completion, Outcomes
  <2>7. ASSUME NEW c \in Callers, CancelMark(c) \/ CancelLook(c) \/ CancelRaise(c) PROVE Typed'
    BY <2>7 DEF CancelMark, CancelLook, CancelRaise, Return, CallerStates
  <2>8. ASSUME NEW c \in Callers, CancelAllMark(c) \/ CancelAllLook(c) \/ CancelAllRaise(c)
        PROVE Typed'
    BY <2>8 DEF CancelAllMark, CancelAllLook, CancelAllRaise, Return, CallerStates
  <2>9. ASSUME NEW c \in Callers, DropQuit(c) \/ DropJoin(c) PROVE Typed'
    <3>1. Append(queue, Quit) \in Seq(Jobs \cup {Quit})
      BY AppendInSeq
    <3>2. QED
      BY <2>9, <3>1 DEF DropQuit, DropJoin, CallerStates
  <2>10. ASSUME TakeJob \/ TakeQuit PROVE Typed'
    <3>1. Head(queue) \in Jobs \cup {Quit} /\ Tail(queue) \in Seq(Jobs \cup {Quit})
      BY <2>10, TailInSeq DEF TakeJob, TakeQuit
    <3>2. QED
      BY <2>10, <3>1 DEF TakeJob, TakeQuit, ThreadStates, HasJob, Busy, Claimed
  <2>11. ASSUME Skip \/ Clear \/ Claim \/ Recheck \/ RecheckRaise \/ Unclaim \/ Forget \/ Close
         PROVE Typed'
    BY <2>11 DEF Skip, Clear, Claim, Recheck, RecheckRaise, Unclaim, Forget, Close, ThreadStates,
                 HasJob, Busy, Claimed
  <2>12. ASSUME SkipEnd \/ Deliver \/ DeliverPanics PROVE Typed'
    <3>1. job \in Jobs
      BY <2>12 DEF SkipEnd, Deliver, DeliverPanics, HasJob, Busy
    <3>2. \A o \in Outcomes : Completion(job, o) \in [job : Jobs, outcome : Outcomes]
      BY <3>1 DEF Completion
    <3>3. log' \in Seq([job : Jobs, outcome : Outcomes])
      <4>1. \E o \in Outcomes : log' = Append(log, Completion(job, o))
        BY <2>12 DEF SkipEnd, Deliver, DeliverPanics, Outcomes
      <4>2. QED
        BY <3>2, <4>1, AppendInSeq
    <3>4. queue' \in Seq(Jobs \cup {Quit})
      <4>1. queue' = queue \/ queue' = <<>>
        BY <2>12 DEF SkipEnd, Deliver, DeliverPanics
      <4>2. <<>> \in Seq(Jobs \cup {Quit}) /\ queue \in Seq(Jobs \cup {Quit})
        OBVIOUS
      <4>3. QED
        BY <4>1, <4>2
    <3>5. QED
      BY <2>12, <3>1, <3>3, <3>4 DEF SkipEnd, Deliver, DeliverPanics, ThreadStates, HasJob, Busy, Claimed
  <2>13. ASSUME RunLoad \/ RunUnload \/ RunNotLoaded \/ RunReport \/ RunStopped \/ RunFinished
         PROVE Typed'
    BY <2>13 DEF RunLoad, RunUnload, RunNotLoaded, RunReport, RunStopped, RunFinished, Ends,
                 Outcomes, ThreadStates, Kinds, HasJob, Busy, Claimed
  <2>14. CASE UNCHANGED vars
    BY <2>14 DEF vars
  <2> QED
    BY <2>1, <2>2, <2>3, <2>4, <2>5, <2>6, <2>7, <2>8, <2>9, <2>10, <2>11, <2>12, <2>13, <2>14
    DEF Next, Call, CallStep, Work
<1> QED
  BY <1>1, <1>2, PTL DEF Spec

\* The types alone.
THEOREM TypesHold == Spec => []TypeOK
  BY Typing, PTL DEF Typed

-----------------------------------------------------------------------------
\* AskedIsStopped holds of every step that can disturb it: the thread reaches "run" with the job
\* marked only by raising stop itself, and a mark made later is made by a call that has still to
\* look at running, which is the job.
THEOREM StopIsHonoured == Spec => []AskedIsStopped
<1>1. Init => AskedIsStopped
  BY DEF Init, AskedIsStopped
<1>2. Typed /\ AskedIsStopped /\ [Next]_vars => AskedIsStopped'
  <2> SUFFICES ASSUME Typed, AskedIsStopped, [Next]_vars, wpc' = "run", (job \in cancelled)'
               PROVE  stop' \/ \E c \in Callers : /\ job' \in held'[c]
                                                  /\ pc'[c] \in Stopping
    BY DEF AskedIsStopped, Stopping
  <2> USE DEF Typed, TypeOK, ThreadHolds, shared, caller, thread, history
  \* What the inductive hypothesis gives wherever the thread was already running the job.
  <2> DEFINE Heard == stop \/ \E c \in Callers : job \in held[c] /\ pc[c] \in Stopping
  <2>1. wpc = "run" /\ job \in cancelled => Heard
    BY DEF AskedIsStopped, Stopping
  <2>2. wpc = "run" => running = job /\ job \in Jobs /\ job # NoJob
    BY DEF Claimed, HasJob, Busy, Jobs, NoJob
  <2>3. ASSUME NEW c \in Callers, pc[c] \notin Stopping,
               UNCHANGED <<cancelled, stop, wpc, job>>,
               \A d \in Callers \ {c} : pc'[d] = pc[d] /\ held'[d] = held[d]
        PROVE  Heard'
    BY <2>1, <2>3
  <2>4. ASSUME NEW c \in Callers, Call(c) PROVE Heard'
    <3>1. pc[c] = "idle"
      BY <2>4 DEF Call, Submit, Cancel, CancelAll, Drop, Idle
    <3>2. UNCHANGED <<cancelled, stop, wpc, job>>
      BY <2>4 DEF Call, Submit, Cancel, CancelAll, Drop
    <3>3. \A d \in Callers \ {c} : pc'[d] = pc[d] /\ held'[d] = held[d]
      BY <2>4 DEF Call, Submit, Cancel, CancelAll, Drop
    <3>4. QED
      BY <2>3, <3>1, <3>2, <3>3 DEF Stopping
  <2>5. ASSUME NEW c \in Callers,
               \/ SubmitOpen(c) \/ SubmitSend(c) \/ SubmitRefused(c) \/ SubmitEnd(c)
               \/ DropQuit(c) \/ DropJoin(c)
        PROVE  Heard'
    <3> USE DEF SubmitOpen, SubmitSend, SubmitRefused, SubmitEnd, DropQuit, DropJoin
    <3>1. pc[c] \notin Stopping
      BY <2>5 DEF Stopping
    <3>2. UNCHANGED <<cancelled, stop, wpc, job>>
      BY <2>5
    <3>3. \A d \in Callers \ {c} : pc'[d] = pc[d] /\ held'[d] = held[d]
      BY <2>5
    <3>4. QED
      BY <2>3, <3>1, <3>2, <3>3
  \* A mark: either the job was marked before, or this call has marked it and goes on to look.
  <2>6. ASSUME NEW c \in Callers, CancelMark(c) \/ CancelAllMark(c) PROVE Heard'
    <3> USE <2>6 DEF CancelMark, CancelAllMark
    <3>1. wpc = "run" /\ job' = job /\ stop' = stop /\ held' = held
      OBVIOUS
    <3>2. CASE job \in held[c]
      BY <3>1, <3>2 DEF Stopping
    <3>3. CASE job \notin held[c]
      <4>1. job \in cancelled
        BY <3>1, <3>3
      <4>2. \A d \in Callers : pc[d] \in Stopping => pc'[d] \in Stopping
        BY DEF Stopping
      <4>3. QED
        BY <2>1, <3>1, <4>1, <4>2
    <3>4. QED
      BY <3>2, <3>3
  \* A look that finds the job goes on to raise stop; one that does not was not about it.
  <2>7. ASSUME NEW c \in Callers, CancelLook(c) \/ CancelAllLook(c) PROVE Heard'
    <3> USE <2>7 DEF CancelLook, CancelAllLook, Return
    <3>1. UNCHANGED <<cancelled, stop, wpc, job, running>>
      OBVIOUS
    <3>2. job \in held[c] => pc'[c] \in Stopping /\ held' = held
      BY <2>2, <3>1 DEF Stopping
    <3>3. \A d \in Callers \ {c} : pc'[d] = pc[d] /\ held'[d] = held[d]
      OBVIOUS
    <3>4. QED
      BY <2>1, <3>1, <3>2, <3>3
  <2>8. ASSUME NEW c \in Callers, CancelRaise(c) \/ CancelAllRaise(c) PROVE Heard'
    BY <2>8 DEF CancelRaise, CancelAllRaise
  \* The thread comes to "run" unmarked, or with stop raised, or was there already.
  <2>9. ASSUME Work PROVE Heard'
    <3>1. CASE Recheck
      BY <3>1 DEF Recheck
    <3>2. CASE RecheckRaise
      BY <3>2 DEF RecheckRaise
    <3>3. CASE RunReport
      <4>1. UNCHANGED <<cancelled, stop, wpc, job, pc, held>>
        BY <3>3 DEF RunReport
      <4>2. QED
        BY <2>1, <4>1
    <3>4. QED
      BY <2>9, <3>1, <3>2, <3>3
      DEF Work, TakeJob, TakeQuit, Skip, SkipEnd, Clear, Claim, RunLoad, RunUnload, RunNotLoaded,
          RunStopped, RunFinished, Ends, Deliver, DeliverPanics, Unclaim, Forget, Close
  <2>10. CASE UNCHANGED vars
    BY <2>1, <2>10 DEF vars
  <2> QED
    BY <2>4, <2>5, <2>6, <2>7, <2>8, <2>9, <2>10 DEF Next, CallStep
<1> QED
  BY <1>1, <1>2, Typing, PTL DEF Spec
-----------------------------------------------------------------------------
\* A job has one holder at a time: the caller that is submitting it, the channel, the thread, or
\* the history of those that ended.
Unsent(c) == pc[c] \in {"open", "send", "end"}
Sent(j)   == \E i \in 1..Len(queue) : queue[i] = j

CallerHolds ==
  /\ \A c \in Callers : Unsent(c) => \E j \in Jobs : held[c] = {j}
  /\ \A c \in Callers : Unsent(c) =>
       \A j \in held[c] : j < next /\ ~Sent(j) /\ j # job /\ j \notin Ended
  /\ \A c, d \in Callers : Unsent(c) /\ Unsent(d) /\ c # d => held[c] \cap held[d] = {}

ChannelHolds ==
  \A i \in 1..Len(queue) : queue[i] # Quit =>
    /\ queue[i] < next /\ queue[i] # job /\ queue[i] \notin Ended
    /\ \A k \in 1..Len(queue) : queue[k] = queue[i] => k = i

HistoryHolds ==
  /\ job < next
  /\ wpc \in Busy => job \notin Ended
  /\ \A j \in Ended : j < next
  /\ \A i, k \in 1..Len(log) : log[i].job = log[k].job => i = k

OneHolder == CallerHolds /\ ChannelHolds /\ HistoryHolds

\* Only jobs end.
LEMMA EndedAreJobs == ASSUME TypeOK PROVE Ended \subseteq Jobs
<1>1. \A i \in 1..Len(log) : log[i] \in [job : Jobs, outcome : Outcomes]
  BY ItemInSeq DEF TypeOK
<1>2. QED
  BY <1>1 DEF Ended

\* What one more completion makes of the history.
LEMMA EndedAppend ==
  ASSUME TypeOK, NEW j \in Jobs, NEW o \in Outcomes, log' = Append(log, Completion(j, o))
  PROVE  /\ Ended' = Ended \cup {j}
         /\ j \notin Ended /\ (\A i, k \in 1..Len(log) : log[i].job = log[k].job => i = k)
              => \A i, k \in 1..Len(log') : log'[i].job = log'[k].job => i = k
<1>1. /\ Len(log') = Len(log) + 1 /\ Len(log) \in Nat
      /\ \A i \in 1..Len(log) : log'[i] = log[i]
      /\ log'[Len(log) + 1].job = j
  BY DEF TypeOK, Completion
<1>2. Ended' = {log'[i].job : i \in 1..Len(log')}
  BY DEF Ended
<1>3. QED
  BY <1>1, <1>2 DEF Ended

\* What steps that neither number, send, take nor end a job leave as it was.
LEMMA HolderStands ==
  ASSUME OneHolder, TypeOK, UNCHANGED <<next, queue, log>>, job' = job \/ job' = NoJob,
         wpc' \in Busy => wpc \in Busy /\ job' = job,
         \A c \in Callers : Unsent(c)' => Unsent(c) /\ held'[c] = held[c]
  PROVE  OneHolder'
<1>1. Ended' = Ended /\ \A j : Sent(j)' <=> Sent(j)
  BY DEF Ended, Sent
<1>2. CallerHolds'
  <2>1. \A c \in Callers : Unsent(c)' => \A j \in held[c] : j # NoJob
    BY DEF OneHolder, CallerHolds, NoJob, Jobs
  <2>2. QED
    BY <1>1, <2>1 DEF OneHolder, CallerHolds
<1>3. ChannelHolds'
  BY <1>1 DEF OneHolder, ChannelHolds, NoJob, Quit
<1>4. HistoryHolds'
  BY <1>1 DEF OneHolder, HistoryHolds, NoJob, TypeOK
<1>5. QED
  BY <1>2, <1>3, <1>4 DEF OneHolder

\* The same for a step that only puts something behind the channel.
LEMMA SentAppend ==
  ASSUME TypeOK, NEW e \in Jobs \cup {Quit}, queue' = Append(queue, e)
  PROVE  /\ Len(queue') = Len(queue) + 1 /\ Len(queue) \in Nat
         /\ \A i \in 1..Len(queue) : queue'[i] = queue[i]
         /\ queue'[Len(queue) + 1] = e
         /\ \A j : Sent(j)' <=> Sent(j) \/ j = e
<1>1. /\ Len(queue') = Len(queue) + 1 /\ Len(queue) \in Nat
      /\ \A i \in 1..Len(queue) : queue'[i] = queue[i]
      /\ queue'[Len(queue) + 1] = e
  BY DEF TypeOK
<1>2. QED
  BY <1>1 DEF Sent

\* Taking the first from the channel leaves the others in their order.
LEMMA SentTail ==
  ASSUME TypeOK, queue # <<>>, queue' = Tail(queue)
  PROVE  /\ Len(queue') = Len(queue) - 1 /\ Len(queue) \in Nat
         /\ \A i \in 1..Len(queue') : queue'[i] = queue[i + 1]
         /\ Head(queue) = queue[1] /\ 1 \in 1..Len(queue)
         /\ \A j : Sent(j)' => Sent(j)
<1>1. /\ Len(queue') = Len(queue) - 1 /\ Len(queue) \in Nat
      /\ \A i \in 1..Len(queue') : queue'[i] = queue[i + 1]
      /\ Head(queue) = queue[1] /\ 1 \in 1..Len(queue)
  BY DEF TypeOK
<1>2. QED
  BY <1>1 DEF Sent

\* Nobody holds a job that another holds, whatever any of them does.
THEOREM HolderInvariant == Spec => []OneHolder
<1>1. Init => OneHolder
  BY DEF Init, OneHolder, CallerHolds, ChannelHolds, HistoryHolds, Unsent, Ended, NoJob, Busy
<1>2. Typed /\ OneHolder /\ [Next]_vars => OneHolder'
  <2> SUFFICES ASSUME Typed, OneHolder, [Next]_vars PROVE OneHolder'
    OBVIOUS
  <2> USE DEF shared, caller, thread, history
  <2>0. TypeOK /\ ThreadHolds
    BY DEF Typed
  <2>1. ASSUME NEW c \in Callers, NEW w \in Works, Submit(c, w) PROVE OneHolder'
    <3>1. /\ next \in Jobs /\ next' = next + 1 /\ Ended' = Ended /\ \A j : Sent(j)' <=> Sent(j)
          /\ UNCHANGED <<queue, log, job, wpc>>
      BY <2>0, <2>1 DEF Submit, TypeOK, Jobs, Ended, Sent
    <3>2. ~Sent(next) /\ next # job /\ next \notin Ended
      <4>1. next # Quit /\ next \in Nat
        BY <3>1 DEF Jobs, Quit
      <4>2. ~Sent(next)
        BY <4>1 DEF OneHolder, ChannelHolds, Sent
      <4>3. QED
        BY <4>1, <4>2 DEF OneHolder, HistoryHolds
    <3>3. /\ Unsent(c)' /\ held'[c] = {next}
          /\ \A d \in Callers \ {c} : held'[d] = held[d] /\ (Unsent(d)' <=> Unsent(d))
      BY <2>0, <2>1 DEF Submit, TypeOK, Unsent
    <3>4. \A d \in Callers \ {c} : Unsent(d) => next \notin held[d]
      BY <3>1 DEF OneHolder, CallerHolds, Jobs
    <3>5. CallerHolds'
      BY <3>1, <3>2, <3>3, <3>4 DEF OneHolder, CallerHolds, Jobs
    <3>6. ChannelHolds'
      <4>1. \A i \in 1..Len(queue) : queue[i] \in Int
        BY <2>0 DEF TypeOK, Jobs, Quit
      <4>2. QED
        BY <3>1, <4>1 DEF OneHolder, ChannelHolds, Jobs
    <3>7. HistoryHolds'
      <4>1. job \in Int /\ Ended \subseteq Int
        BY <2>0, EndedAreJobs DEF TypeOK, Jobs, NoJob
      <4>2. QED
        BY <3>1, <4>1 DEF OneHolder, HistoryHolds, Jobs
    <3>8. QED
      BY <3>5, <3>6, <3>7 DEF OneHolder
  <2>2. ASSUME NEW c \in Callers, SubmitSend(c) PROVE OneHolder'
    <3>1. PICK j \in Jobs : held[c] = {j}
      BY <2>2 DEF SubmitSend, Unsent, OneHolder, CallerHolds
    <3>2. queue' = Append(queue, j) /\ UNCHANGED <<next, job, wpc, log>>
      BY <2>2, <3>1 DEF SubmitSend
    <3>3. j < next /\ ~Sent(j) /\ j # job /\ j \notin Ended /\ j # Quit
      BY <2>2, <3>1 DEF SubmitSend, Unsent, OneHolder, CallerHolds, Jobs, Quit
    <3>4. Ended' = Ended
      BY <3>2 DEF Ended
    <3>5. \A d \in Callers : Unsent(d)' => /\ Unsent(d) /\ held'[d] = held[d] /\ d # c
                                           /\ j \notin held[d]
      BY <2>0, <2>2, <3>1 DEF SubmitSend, TypeOK, Unsent, OneHolder, CallerHolds
    <3>6. CallerHolds'
      BY <2>0, <3>2, <3>4, <3>5, SentAppend DEF OneHolder, CallerHolds
    <3>7. ChannelHolds'
      BY <2>0, <3>2, <3>3, <3>4, SentAppend DEF OneHolder, ChannelHolds, Sent
    <3>8. HistoryHolds'
      BY <3>2, <3>4 DEF OneHolder, HistoryHolds
    <3>9. QED
      BY <3>6, <3>7, <3>8 DEF OneHolder
  <2>3. ASSUME NEW c \in Callers, SubmitEnd(c) PROVE OneHolder'
    <3>1. PICK j \in Jobs : held[c] = {j}
      BY <2>3 DEF SubmitEnd, Unsent, OneHolder, CallerHolds
    <3>2. /\ log' = Append(log, Completion(j, "Cancelled")) /\ "Cancelled" \in Outcomes
          /\ UNCHANGED <<next, queue, job, wpc>>
      BY <2>3, <3>1 DEF SubmitEnd, Outcomes
    <3>3. j < next /\ ~Sent(j) /\ j # job /\ j \notin Ended
      BY <2>3, <3>1 DEF SubmitEnd, Unsent, OneHolder, CallerHolds
    <3>4. Ended' = Ended \cup {j} /\ \A i : Sent(i)' <=> Sent(i)
      BY <2>0, <3>2, EndedAppend DEF Sent
    <3>5. \A d \in Callers : Unsent(d)' => /\ Unsent(d) /\ held'[d] = held[d] /\ d # c
                                           /\ j \notin held[d]
      BY <2>0, <2>3, <3>1 DEF SubmitEnd, TypeOK, Unsent, OneHolder, CallerHolds
    <3>6. CallerHolds'
      BY <3>2, <3>4, <3>5 DEF OneHolder, CallerHolds
    <3>7. ChannelHolds'
      BY <3>2, <3>3, <3>4 DEF OneHolder, ChannelHolds, Sent
    <3>8. HistoryHolds'
      BY <2>0, <3>2, <3>3, <3>4, EndedAppend DEF OneHolder, HistoryHolds
    <3>9. QED
      BY <3>6, <3>7, <3>8 DEF OneHolder
  <2>4. ASSUME NEW c \in Callers, DropQuit(c), wpc # "dead" PROVE OneHolder'
    <3>1. queue' = Append(queue, Quit) /\ UNCHANGED <<next, job, wpc, log, held>>
      BY <2>4 DEF DropQuit
    <3>2. Ended' = Ended /\ \A d \in Callers : Unsent(d)' => Unsent(d)
      BY <2>0, <2>4, <3>1 DEF DropQuit, TypeOK, Unsent, Ended
    <3>3. CallerHolds'
      BY <2>0, <3>1, <3>2, SentAppend DEF OneHolder, CallerHolds, Jobs, Quit
    <3>4. ChannelHolds'
      BY <2>0, <3>1, <3>2, SentAppend DEF OneHolder, ChannelHolds
    <3>5. HistoryHolds'
      BY <3>1, <3>2 DEF OneHolder, HistoryHolds
    <3>6. QED
      BY <3>3, <3>4, <3>5 DEF OneHolder
  <2>5. ASSUME TakeJob PROVE OneHolder'
    <3>1. /\ queue # <<>> /\ queue' = Tail(queue) /\ job' = Head(queue) /\ job' # Quit
          /\ UNCHANGED <<next, pc, held, log>>
      BY <2>5 DEF TakeJob
    <3>2. Ended' = Ended /\ \A d \in Callers : Unsent(d)' <=> Unsent(d)
      BY <3>1 DEF Ended, Unsent
    <3>3. /\ job' = queue[1] /\ 1 \in 1..Len(queue) /\ Sent(job')
          /\ job' < next /\ job' \notin Ended
      BY <2>0, <3>1, SentTail DEF OneHolder, ChannelHolds, Sent
    <3>4. CallerHolds'
      BY <2>0, <3>1, <3>2, <3>3, SentTail DEF OneHolder, CallerHolds
    <3>5. ChannelHolds'
      <4>1. \A i \in 1..Len(queue') : i + 1 \in 1..Len(queue) /\ i + 1 # 1
        BY <2>0, <3>1, SentTail
      <4>2. QED
        BY <2>0, <3>1, <3>2, <3>3, <4>1, SentTail DEF OneHolder, ChannelHolds
    <3>6. HistoryHolds'
      BY <3>1, <3>2, <3>3 DEF OneHolder, HistoryHolds
    <3>7. QED
      BY <3>4, <3>5, <3>6 DEF OneHolder
  <2>6. ASSUME TakeQuit PROVE OneHolder'
    <3>1. /\ queue # <<>> /\ queue' = Tail(queue) /\ wpc' \notin Busy
          /\ UNCHANGED <<next, job, pc, held, log>>
      BY <2>6 DEF TakeQuit, Busy
    <3>2. Ended' = Ended /\ \A d \in Callers : Unsent(d)' <=> Unsent(d)
      BY <3>1 DEF Ended, Unsent
    <3>3. CallerHolds'
      BY <2>0, <3>1, <3>2, SentTail DEF OneHolder, CallerHolds
    <3>4. ChannelHolds'
      <4>1. \A i \in 1..Len(queue') : i + 1 \in 1..Len(queue)
        BY <2>0, <3>1, SentTail
      <4>2. QED
        BY <2>0, <3>1, <3>2, <4>1, SentTail DEF OneHolder, ChannelHolds
    <3>5. HistoryHolds'
      BY <3>1, <3>2 DEF OneHolder, HistoryHolds
    <3>6. QED
      BY <3>3, <3>4, <3>5 DEF OneHolder
  \* The three steps of the thread that call on_complete: the job is over, and nobody holds it.
  <2>7. ASSUME SkipEnd \/ Deliver \/ DeliverPanics PROVE OneHolder'
    <3>1. job \in Jobs /\ wpc \in Busy
      BY <2>0, <2>7 DEF SkipEnd, Deliver, DeliverPanics, ThreadHolds, HasJob, Busy
    <3>2. PICK o \in Outcomes : log' = Append(log, Completion(job, o))
      BY <2>0, <2>7 DEF SkipEnd, Deliver, DeliverPanics, TypeOK, Outcomes
    <3>3. /\ UNCHANGED <<next, pc, held>> /\ job' \in {job, NoJob} /\ wpc' \notin Busy
          /\ queue' = queue \/ queue' = <<>>
      BY <2>7 DEF SkipEnd, Deliver, DeliverPanics, Busy
    <3>4. Ended' = Ended \cup {job} /\ job \notin Ended
      BY <2>0, <3>1, <3>2, EndedAppend DEF OneHolder, HistoryHolds
    <3>5. /\ \A i : Sent(i)' => Sent(i)
          /\ \A d \in Callers : Unsent(d)' <=> Unsent(d)
      BY <3>3 DEF Sent, Unsent
    <3>6. CallerHolds'
      <4>1. \A d \in Callers : Unsent(d) => NoJob \notin held[d]
        BY DEF OneHolder, CallerHolds, NoJob, Jobs
      <4>2. QED
        BY <3>3, <3>4, <3>5, <4>1 DEF OneHolder, CallerHolds
    <3>7. ChannelHolds'
      BY <3>3, <3>4 DEF OneHolder, ChannelHolds, NoJob, Quit
    <3>8. HistoryHolds'
      BY <2>0, <3>1, <3>2, <3>3, <3>4, EndedAppend DEF OneHolder, HistoryHolds, NoJob, TypeOK
    <3>9. QED
      BY <3>6, <3>7, <3>8 DEF OneHolder
  <2>8. ASSUME NEW c \in Callers,
               \/ \E j \in Jobs : Cancel(c, j)
               \/ CancelAll(c) \/ Drop(c) \/ SubmitOpen(c) \/ SubmitRefused(c)
               \/ CancelMark(c) \/ CancelLook(c) \/ CancelRaise(c)
               \/ CancelAllMark(c) \/ CancelAllLook(c) \/ CancelAllRaise(c)
               \/ (DropQuit(c) /\ wpc = "dead") \/ DropJoin(c)
        PROVE  OneHolder'
    <3> USE DEF Cancel, CancelAll, Drop, SubmitOpen, SubmitRefused, CancelMark, CancelLook,
                CancelRaise, CancelAllMark, CancelAllLook, CancelAllRaise, DropQuit, DropJoin, Return
    <3>1. UNCHANGED <<next, queue, log, job, wpc>>
      BY <2>8
    <3>2. \A d \in Callers : Unsent(d)' => Unsent(d) /\ held'[d] = held[d]
      BY <2>0, <2>8 DEF TypeOK, Unsent
    <3>3. QED
      BY <2>0, <3>1, <3>2, HolderStands
  <2>9. ASSUME \/ Skip \/ Clear \/ Claim \/ Recheck \/ RecheckRaise \/ RunLoad \/ RunUnload
               \/ RunNotLoaded \/ RunReport \/ RunStopped \/ RunFinished
               \/ Unclaim \/ Forget \/ Close
        PROVE  OneHolder'
    <3> USE DEF Skip, Clear, Claim, Recheck, RecheckRaise, RunLoad, RunUnload, RunNotLoaded,
                RunReport, RunStopped, RunFinished, Unclaim, Forget, Close, Ends
    <3>1. UNCHANGED <<next, queue, log, pc, held>> /\ (job' = job \/ job' = NoJob)
      BY <2>9
    <3>2. wpc' \in Busy => wpc \in Busy /\ job' = job
      BY <2>9 DEF Busy
    <3>3. \A d \in Callers : Unsent(d)' => Unsent(d) /\ held'[d] = held[d]
      BY <3>1 DEF Unsent
    <3>4. QED
      BY <2>0, <3>1, <3>2, <3>3, HolderStands
  <2>10. CASE UNCHANGED vars
    <3>1. UNCHANGED <<next, queue, log, pc, held, job, wpc>>
      BY <2>10 DEF vars
    <3>2. QED
      BY <2>0, <3>1, HolderStands DEF Unsent
  <2> QED
    BY <2>1, <2>2, <2>3, <2>4, <2>5, <2>6, <2>7, <2>8, <2>9, <2>10
    DEF Next, Call, CallStep, Work
<1> QED
  BY <1>1, <1>2, Typing, PTL DEF Spec

\* What is open is on its way, as long as no on_complete panics: the thread leaves open before it
\* calls on_complete of a job it skips, and after it for one it ran.
Accounted == NoJobLost /\ (wpc = "skipEnd" => job \notin open) /\ wpc # "dead"

\* Every job that is open is on its way to its end, where completions do not panic.
THEOREM NothingLost == ASSUME MayPanic = FALSE PROVE Spec => []NoJobLost
<1>1. Init => Accounted
  BY DEF Init, Accounted, NoJobLost
<1>2. Typed /\ OneHolder /\ Accounted /\ [Next]_vars => Accounted'
  <2> SUFFICES ASSUME Typed, OneHolder, Accounted, [Next]_vars PROVE Accounted'
    OBVIOUS
  <2> USE DEF shared, caller, thread, history
  <2>0. TypeOK /\ ThreadHolds /\ (\A i : Sent(i) <=> \E k \in 1..Len(queue) : queue[k] = i)
    BY DEF Typed, Sent
  \* A step that only takes from open, and leaves the holders alone.
  <2>1. ASSUME open' \subseteq open, UNCHANGED <<queue, job>>, wpc' # "dead",
               wpc' = "skipEnd" => wpc = "skipEnd" \/ job \notin open',
               \A c \in Callers : pc[c] = "send" => pc'[c] = "send" /\ held'[c] = held[c]
        PROVE  Accounted'
    BY <2>1 DEF Accounted, NoJobLost
  <2>2. ASSUME NEW c \in Callers, Call(c) PROVE Accounted'
    <3>1. UNCHANGED <<open, queue, job, wpc>> /\ pc[c] = "idle"
      BY <2>2 DEF Call, Submit, Cancel, CancelAll, Drop, Idle
    <3>2. \A d \in Callers \ {c} : pc'[d] = pc[d] /\ held'[d] = held[d]
      BY <2>0, <2>2 DEF Call, Submit, Cancel, CancelAll, Drop, TypeOK
    <3>3. QED
      BY <2>1, <3>1, <3>2 DEF Accounted
  <2>3. ASSUME NEW c \in Callers, SubmitOpen(c) PROVE Accounted'
    <3>1. /\ open' = open \cup held[c] /\ pc[c] = "open" /\ pc'[c] = "send"
          /\ UNCHANGED <<queue, job, wpc, held>>
          /\ \A d \in Callers \ {c} : pc'[d] = pc[d]
      BY <2>0, <2>3 DEF SubmitOpen, TypeOK
    <3>2. job \notin held[c]
      BY <3>1 DEF OneHolder, CallerHolds, Unsent
    <3>3. QED
      BY <3>1, <3>2 DEF Accounted, NoJobLost
  <2>4. ASSUME NEW c \in Callers, SubmitSend(c) PROVE Accounted'
    <3>1. PICK j \in Jobs : held[c] = {j}
      BY <2>4 DEF SubmitSend, Unsent, OneHolder, CallerHolds
    <3>2. queue' = Append(queue, j) /\ UNCHANGED <<open, job, wpc>>
      BY <2>4, <3>1 DEF SubmitSend
    <3>3. \A d \in Callers \ {c} : pc'[d] = pc[d] /\ held'[d] = held[d]
      BY <2>0, <2>4 DEF SubmitSend, TypeOK
    <3>4. \A i \in open : Sent(i)' \/ (\E d \in Callers : pc'[d] = "send" /\ i \in held'[d]) \/ i = job
      BY <2>0, <3>1, <3>2, <3>3, SentAppend DEF Accounted, NoJobLost
    <3>5. QED
      BY <3>2, <3>4 DEF Accounted, NoJobLost, Sent
  <2>5. ASSUME NEW c \in Callers, DropQuit(c) PROVE Accounted'
    <3>1. queue' = Append(queue, Quit) /\ UNCHANGED <<open, job, wpc, held>>
      BY <2>5 DEF DropQuit, Accounted
    <3>2. \A d \in Callers : pc[d] = "send" => pc'[d] = "send"
      BY <2>0, <2>5 DEF DropQuit, TypeOK
    <3>3. \A i : Sent(i) => Sent(i)'
      BY <2>0, <3>1, SentAppend
    <3>4. QED
      BY <3>1, <3>2, <3>3 DEF Accounted, NoJobLost, Sent
  <2>6. ASSUME NEW c \in Callers,
               \/ SubmitEnd(c) \/ CancelMark(c) \/ CancelLook(c) \/ CancelRaise(c)
               \/ CancelAllMark(c) \/ CancelAllLook(c) \/ CancelAllRaise(c) \/ DropJoin(c)
        PROVE  Accounted'
    <3> USE DEF SubmitEnd, CancelMark, CancelLook, CancelRaise, CancelAllMark, CancelAllLook,
                CancelAllRaise, DropJoin, Return
    <3>1. UNCHANGED <<open, queue, job, wpc>>
      BY <2>6
    <3>2. \A d \in Callers : pc[d] = "send" => pc'[d] = "send" /\ held'[d] = held[d]
      BY <2>0, <2>6 DEF TypeOK
    <3>3. QED
      BY <2>1, <3>1, <3>2 DEF Accounted
  <2>7. ASSUME TakeJob \/ TakeQuit PROVE Accounted'
    <3>1. /\ queue # <<>> /\ queue' = Tail(queue) /\ wpc' # "dead" /\ wpc' # "skipEnd"
          /\ UNCHANGED <<open, pc, held>> /\ job = NoJob
      BY <2>0, <2>7 DEF TakeJob, TakeQuit, ThreadHolds, HasJob, Busy
    <3>2. queue[1] \in Jobs => job' = queue[1]
      BY <2>0, <2>7, <3>1, SentTail DEF TakeJob, TakeQuit, Jobs, Quit
    <3>3. \A i \in Jobs : Sent(i) => Sent(i)' \/ i = job'
      <4>1. \A k \in 1..Len(queue) : k = 1 \/ (k - 1 \in 1..Len(queue') /\ queue'[k - 1] = queue[k])
        BY <2>0, <3>1, SentTail
      <4>2. QED
        BY <3>2, <4>1 DEF Sent
    <3>4. open \subseteq Jobs /\ NoJob \notin Jobs
      BY <2>0 DEF TypeOK, Jobs, NoJob
    <3>5. QED
      BY <2>0, <3>1, <3>3, <3>4 DEF Accounted, NoJobLost, Sent
  <2>8. ASSUME SkipEnd \/ Close PROVE Accounted'
    BY <2>8 DEF SkipEnd, Close, Accounted, NoJobLost
  <2>9. ASSUME \/ Skip \/ Clear \/ Claim \/ Recheck \/ RecheckRaise \/ RunLoad \/ RunUnload
               \/ RunNotLoaded \/ RunReport \/ RunStopped \/ RunFinished
               \/ Deliver \/ Unclaim \/ Forget
        PROVE  Accounted'
    <3> USE DEF Skip, Clear, Claim, Recheck, RecheckRaise, RunLoad, RunUnload, RunNotLoaded,
                RunReport, RunStopped, RunFinished, Deliver, Unclaim, Forget, Ends
    <3>1. open' \subseteq open /\ UNCHANGED <<queue, job, pc, held>> /\ wpc' # "dead"
      BY <2>9 DEF Accounted
    <3>2. wpc' = "skipEnd" => job \notin open'
      BY <2>9 DEF Accounted
    <3>3. QED
      BY <2>1, <3>1, <3>2
  <2>10. ~DeliverPanics /\ \A c \in Callers : ~SubmitRefused(c)
    BY DEF SubmitRefused, DeliverPanics, Accounted
  <2>11. CASE UNCHANGED vars
    BY <2>1, <2>11 DEF vars, Accounted
  <2> QED
    BY <2>2, <2>3, <2>4, <2>5, <2>6, <2>7, <2>8, <2>9, <2>10, <2>11
    DEF Next, CallStep, Work
<1>3. Accounted => NoJobLost
  BY DEF Accounted
<1> QED
  BY <1>1, <1>2, <1>3, Typing, HolderInvariant, PTL DEF Spec

-----------------------------------------------------------------------------
(* The queue the engine implements. *)


\* Once Drop has begun there is one call, it submits nothing, and Quit is behind every job.
QuitBehind ==
  /\ dropping =>
       /\ \A c, d \in Callers : pc[c] # "idle" /\ pc[d] # "idle" => c = d
       /\ \A c \in Callers : ~Unsent(c)
  /\ \A c \in Callers : pc[c] \in {"quit", "join", "freed"} => dropping
  /\ Sent(Quit) => dropping /\ \A c \in Callers : pc[c] \in {"idle", "join", "freed"}
  /\ wpc = "exited" => dropping
  /\ \A i \in 1..Len(queue) : queue[i] = Quit => i = Len(queue)

\* The same of a thread that lives.
QuitIsLast == QuitBehind /\ wpc # "dead" /\ \A c \in Callers : pc[c] # "end"

\* Drop sends Quit once, when no other call is in progress, and nothing is put behind it: the
\* thread leaves no job on the channel when it returns.
THEOREM NothingBehindQuit == Spec => []QuitBehind
<1>1. Init => QuitBehind
  BY DEF Init, QuitBehind, Sent, Unsent
<1>2. Typed /\ QuitBehind /\ [Next]_vars => QuitBehind'
  <2> SUFFICES ASSUME Typed, QuitBehind, [Next]_vars PROVE QuitBehind'
    OBVIOUS
  <2> USE DEF shared, caller, thread, history
  <2>0. TypeOK /\ ThreadHolds
    BY DEF Typed
  <2>1. ASSUME NEW c \in Callers,
               \/ \E w \in Works : Submit(c, w)
               \/ \E j \in Jobs : Cancel(c, j)
               \/ CancelAll(c)
        PROVE  QuitBehind'
    <3>1. ~dropping /\ ~Sent(Quit) /\ UNCHANGED <<dropping, queue, wpc>>
      BY <2>1 DEF Submit, Cancel, CancelAll, QuitBehind
    <3>2. /\ pc'[c] \in {"open", "mark", "markAll"}
          /\ \A d \in Callers \ {c} : pc'[d] = pc[d]
      BY <2>0, <2>1 DEF Submit, Cancel, CancelAll, TypeOK
    <3> QED
      BY <3>1, <3>2 DEF QuitBehind, Sent, Unsent
  <2>2. ASSUME NEW c \in Callers, Drop(c) PROVE QuitBehind'
    BY <2>0, <2>2 DEF Drop, Idle, QuitBehind, Sent, Unsent, TypeOK
  <2>3. ASSUME NEW c \in Callers, SubmitOpen(c) \/ SubmitRefused(c) \/ SubmitEnd(c) PROVE QuitBehind'
    BY <2>0, <2>3 DEF SubmitOpen, SubmitRefused, SubmitEnd, QuitBehind, Sent, Unsent, TypeOK
  <2>4. ASSUME NEW c \in Callers, SubmitSend(c) PROVE QuitBehind'
    <3>1. PICK j \in Jobs : queue' = Append(queue, j)
      BY <2>0, <2>4 DEF SubmitSend, TypeOK
    <3>2. ~dropping /\ ~Sent(Quit) /\ j # Quit
      BY <2>4 DEF SubmitSend, QuitBehind, Unsent, Jobs, Quit
    <3>3. \A i \in 1..Len(queue') : queue'[i] # Quit
      BY <2>0, <3>1, <3>2, SentAppend DEF Sent
    <3>4. /\ dropping' = dropping /\ wpc' = wpc /\ pc'[c] = "idle"
          /\ \A d \in Callers \ {c} : pc'[d] = pc[d]
      BY <2>0, <2>4 DEF SubmitSend, TypeOK
    <3> QED
      BY <3>2, <3>3, <3>4 DEF QuitBehind, Sent, Unsent
  <2>5. ASSUME NEW c \in Callers,
               \/ CancelMark(c) \/ CancelLook(c) \/ CancelRaise(c)
               \/ CancelAllMark(c) \/ CancelAllLook(c) \/ CancelAllRaise(c)
        PROVE  QuitBehind'
    <3>1. /\ UNCHANGED <<dropping, queue, wpc>> /\ \A d \in Callers \ {c} : pc'[d] = pc[d]
          /\ pc[c] \in {"mark", "look", "raise", "markAll", "lookAll", "raiseAll"}
          /\ pc'[c] \in {"look", "raise", "lookAll", "raiseAll"} \cup (IF dropping THEN {"quit"} ELSE {"idle"})
      BY <2>0, <2>5 DEF CancelMark, CancelLook, CancelRaise, CancelAllMark, CancelAllLook, CancelAllRaise,
                        Return, TypeOK
    <3>2. ~Sent(Quit)
      BY <3>1 DEF QuitBehind
    <3> QED
      BY <3>1, <3>2 DEF QuitBehind, Sent, Unsent
  <2>6. ASSUME NEW c \in Callers, DropQuit(c) PROVE QuitBehind'
    <3>1. queue' \in {queue, Append(queue, Quit)} /\ dropping' = dropping /\ wpc' = wpc
      BY <2>6 DEF DropQuit
    <3>2. dropping /\ ~Sent(Quit) /\ \A d \in Callers \ {c} : pc[d] = "idle"
      BY <2>6 DEF DropQuit, QuitBehind
    <3>3. \A i \in 1..Len(queue') : queue'[i] = Quit => i = Len(queue')
      BY <2>0, <3>1, <3>2, SentAppend DEF Sent
    <3>4. pc'[c] = "join" /\ \A d \in Callers \ {c} : pc'[d] = "idle"
      BY <2>0, <2>6, <3>2 DEF DropQuit, TypeOK
    <3> QED
      BY <3>1, <3>2, <3>3, <3>4 DEF QuitBehind, Unsent
  <2>7. ASSUME NEW c \in Callers, DropJoin(c) PROVE QuitBehind'
    <3>1. /\ UNCHANGED <<dropping, queue, wpc>> /\ pc[c] = "join" /\ pc'[c] = "freed"
          /\ \A d \in Callers \ {c} : pc'[d] = pc[d]
      BY <2>0, <2>7 DEF DropJoin, TypeOK
    <3> QED
      BY <3>1 DEF QuitBehind, Sent, Unsent
  <2>8. ASSUME TakeJob \/ TakeQuit PROVE QuitBehind'
    <3>1. queue # <<>> /\ queue' = Tail(queue) /\ UNCHANGED <<pc, dropping>>
      BY <2>8 DEF TakeJob, TakeQuit
    <3>4. wpc' = "exited" => dropping
      <4>1. CASE TakeQuit
        BY <2>0, <3>1, <4>1, SentTail DEF TakeQuit, QuitBehind, Sent
      <4> QED
        BY <2>8, <4>1 DEF TakeJob
    <3>2. \A i \in 1..Len(queue') : queue'[i] = Quit => i = Len(queue')
      <4>1. Len(queue) \in Nat /\ Len(queue') = Len(queue) - 1
        BY <2>0, <3>1, SentTail, LenProperties DEF TypeOK
      <4>2. ASSUME NEW i \in 1..Len(queue'), queue'[i] = Quit PROVE i = Len(queue')
        <5>1. i + 1 \in 1..Len(queue) /\ queue[i + 1] = Quit
          BY <2>0, <3>1, <4>2, SentTail
        <5>2. i + 1 = Len(queue)
          BY <5>1 DEF QuitBehind
        <5> QED
          BY <4>1, <5>2
      <4> QED
        BY <4>2
    <3>3. Sent(Quit)' => Sent(Quit)
      BY <2>0, <3>1, SentTail
    <3> QED
      BY <3>1, <3>2, <3>3, <3>4 DEF QuitBehind, Unsent
  <2>9. ASSUME \/ Skip \/ SkipEnd \/ Clear \/ Claim \/ Recheck \/ RecheckRaise \/ RunLoad \/ RunUnload
               \/ RunNotLoaded \/ RunReport \/ RunStopped \/ RunFinished
               \/ Deliver \/ Unclaim \/ Forget \/ Close
        PROVE  QuitBehind'
    <3>1. UNCHANGED <<queue, pc, dropping>> /\ wpc' # "exited"
      BY <2>9 DEF Skip, SkipEnd, Clear, Claim, Recheck, RecheckRaise, RunLoad, RunUnload, RunNotLoaded,
                  RunReport, RunStopped, RunFinished, Ends, Deliver, Unclaim, Forget, Close
    <3> QED
      BY <3>1 DEF QuitBehind, Sent, Unsent
  <2>10. CASE DeliverPanics
    BY <2>10 DEF DeliverPanics, QuitBehind, Sent, Unsent
  <2>11. CASE UNCHANGED vars
    BY <2>11 DEF vars, QuitBehind, Sent, Unsent
  <2> QED
    BY <2>1, <2>2, <2>3, <2>4, <2>5, <2>6, <2>7, <2>8, <2>9, <2>10, <2>11
    DEF Next, Call, CallStep, Work
<1> QED
  BY <1>1, <1>2, Typing, PTL DEF Spec

\* Where completions do not panic the thread lives, and ends the jobs itself.
THEOREM LivesToQuit == ASSUME MayPanic = FALSE PROVE Spec => []QuitIsLast
<1>1. Init => QuitIsLast
  BY DEF Init, QuitIsLast, QuitBehind, Sent, Unsent
<1>2. Typed /\ QuitBehind' /\ QuitIsLast /\ [Next]_vars => QuitIsLast'
  <2> SUFFICES ASSUME Typed, QuitBehind', QuitIsLast, [Next]_vars PROVE QuitIsLast'
    OBVIOUS
  <2> USE DEF shared, caller, thread, history
  <2>1. wpc' # "dead"
    BY DEF QuitIsLast, Next, Work, Call, CallStep, Submit, Cancel, CancelAll, Drop, SubmitOpen, SubmitSend,
           SubmitRefused, SubmitEnd, CancelMark, CancelLook, CancelRaise, CancelAllMark, CancelAllLook,
           CancelAllRaise, DropQuit, DropJoin, TakeJob, TakeQuit, Skip, SkipEnd, Clear, Claim, Recheck,
           RecheckRaise, RunLoad, RunUnload, RunNotLoaded, RunReport, RunStopped, RunFinished, Ends, Deliver,
           DeliverPanics, Unclaim, Forget, Close, vars
  <2>2. \A c \in Callers : pc'[c] # "end"
    BY DEF QuitIsLast, Typed, TypeOK, Next, Work, Call, CallStep, Submit, Cancel, CancelAll, Drop, SubmitOpen,
           SubmitSend, SubmitRefused, SubmitEnd, CancelMark, CancelLook, CancelRaise, CancelAllMark,
           CancelAllLook, CancelAllRaise, Return, DropQuit, DropJoin, TakeJob, TakeQuit, Skip, SkipEnd, Clear,
           Claim, Recheck, RecheckRaise, RunLoad, RunUnload, RunNotLoaded, RunReport, RunStopped, RunFinished,
           Ends, Deliver, DeliverPanics, Unclaim, Forget, Close, vars
  <2> QED
    BY <2>1, <2>2 DEF QuitIsLast
<1> QED
  BY <1>1, <1>2, Typing, NothingBehindQuit, PTL DEF Spec

-----------------------------------------------------------------------------
(* What a dying thread takes with it. *)

\* A job that has ended, or is held as it was, stays in care.
LEMMA CareStands ==
  ASSUME NEW j \in Jobs, InCare(j), Ended \subseteq Ended',
         \A c \in Callers : Unsent(c) /\ j \in held[c] => Unsent(c)' /\ held'[c] = held[c],
         \/ ~Sent(j)
         \/ Sent(j)' /\ wpc' \notin {"exited", "dead"}
         \/ wpc \in {"exited", "dead"},
         wpc \in Busy => wpc' \in Busy /\ job' = job
  PROVE  InCare(j)'
  BY DEF InCare, Unsent, Sent

\* Whatever callers do, and wherever a completion panics: a job that is numbered is ended, or its
\* submitter, the channel of a living thread or the thread has it, until a thread dies with the job
\* on its channel.
THEOREM DeathAloneLoses == Spec => OnlyDeathLoses
<1>1. Typed /\ OneHolder /\ QuitBehind /\ [Next]_vars
      => [\A j \in 1..(next - 1) :
            InCare(j) => \/ InCare(j)'
                         \/ wpc # "dead" /\ wpc' = "dead" /\ \E i \in 1..Len(queue) : queue[i] = j]_vars
  <2> SUFFICES ASSUME Typed, OneHolder, QuitBehind, Next, NEW j \in 1..(next - 1), InCare(j),
                      ~(wpc # "dead" /\ wpc' = "dead" /\ Sent(j))
               PROVE  InCare(j)'
    BY DEF Sent
  <2> USE DEF shared, caller, thread, history
  <2>0. TypeOK /\ ThreadHolds /\ j \in Jobs /\ j # next /\ j # Quit
    <3>1. TypeOK /\ ThreadHolds
      BY DEF Typed
    <3>2. next \in 1..(MaxJobs + 1) /\ MaxJobs \in Nat
      BY <3>1, EngineAssumption DEF TypeOK
    <3> QED
      BY <3>1, <3>2 DEF Jobs, Quit
  <2>1. ASSUME NEW c \in Callers,
               \/ \E w \in Works : Submit(c, w)
               \/ \E i \in Jobs : Cancel(c, i)
               \/ CancelAll(c) \/ Drop(c) \/ CancelMark(c) \/ CancelLook(c) \/ CancelRaise(c)
               \/ CancelAllMark(c) \/ CancelAllLook(c) \/ CancelAllRaise(c) \/ DropJoin(c)
               \/ SubmitOpen(c) \/ SubmitRefused(c)
        PROVE  InCare(j)'
    <3> USE DEF Submit, Cancel, CancelAll, Drop, SubmitOpen, SubmitRefused, CancelMark, CancelLook,
                CancelRaise, CancelAllMark, CancelAllLook, CancelAllRaise, DropJoin, Return
    <3>1. UNCHANGED <<queue, log, job, wpc>>
      BY <2>1
    <3>2. \A d \in Callers : Unsent(d) => Unsent(d)' /\ held'[d] = held[d]
      BY <2>0, <2>1 DEF TypeOK, Unsent, Idle
    <3>3. Ended' = Ended /\ (Sent(j)' <=> Sent(j))
      BY <3>1 DEF Ended, Sent
    <3> QED
      BY <2>0, <3>1, <3>2, <3>3, CareStands
  <2>2. ASSUME NEW c \in Callers, SubmitSend(c) PROVE InCare(j)'
    <3>1. PICK i \in Jobs : held[c] = {i} /\ queue' = Append(queue, i)
      BY <2>2 DEF SubmitSend, Unsent, OneHolder, CallerHolds
    <3>2. wpc \notin {"exited", "dead"} /\ UNCHANGED <<wpc, job, log>>
      BY <2>2 DEF SubmitSend, QuitBehind, Unsent
    <3>3. \A d \in Callers \ {c} : Unsent(d) => Unsent(d)' /\ held'[d] = held[d]
      BY <2>0, <2>2 DEF SubmitSend, TypeOK, Unsent
    <3>4. (Sent(j) \/ j = i) => Sent(j)'
      BY <2>0, <3>1, SentAppend
    <3>5. CASE j = i
      BY <3>2, <3>4, <3>5 DEF InCare, Sent
    <3>6. CASE j # i
      <4>1. Ended' = Ended
        BY <3>2 DEF Ended
      <4> QED
        BY <2>0, <3>1, <3>2, <3>3, <3>4, <3>6, <4>1, CareStands
    <3> QED
      BY <3>5, <3>6
  <2>3. ASSUME NEW c \in Callers, SubmitEnd(c) PROVE InCare(j)'
    <3>1. PICK i \in Jobs : held[c] = {i} /\ log' = Append(log, Completion(i, "Cancelled"))
      BY <2>3 DEF SubmitEnd, Unsent, OneHolder, CallerHolds
    <3>2. Ended' = Ended \cup {i} /\ UNCHANGED <<wpc, job, queue>>
      BY <2>0, <2>3, <3>1, EndedAppend DEF SubmitEnd, Outcomes
    <3>3. \A d \in Callers \ {c} : Unsent(d) => Unsent(d)' /\ held'[d] = held[d]
      BY <2>0, <2>3 DEF SubmitEnd, TypeOK, Unsent
    <3>4. Sent(j)' <=> Sent(j)
      BY <3>2 DEF Sent
    <3>5. CASE j = i
      BY <3>2, <3>5 DEF InCare
    <3>6. CASE j # i
      BY <2>0, <3>1, <3>2, <3>3, <3>4, <3>6, CareStands
    <3> QED
      BY <3>5, <3>6
  <2>4. ASSUME NEW c \in Callers, DropQuit(c) PROVE InCare(j)'
    <3>1. queue' \in {queue, Append(queue, Quit)} /\ UNCHANGED <<wpc, job, log, held>>
      BY <2>4 DEF DropQuit
    <3>2. \A d \in Callers : Unsent(d) => Unsent(d)'
      BY <2>0, <2>4 DEF DropQuit, TypeOK, Unsent
    <3>3. Ended' = Ended /\ (Sent(j) => Sent(j)')
      BY <2>0, <3>1, SentAppend DEF Ended, Sent
    <3> QED
      BY <2>0, <3>1, <3>2, <3>3, CareStands
  <2>5. ASSUME TakeJob PROVE InCare(j)'
    <3>1. /\ wpc = "recv" /\ queue # <<>> /\ queue' = Tail(queue) /\ job' = Head(queue)
          /\ wpc' \in {"skip", "clear"} /\ UNCHANGED <<pc, held, log>>
      BY <2>5 DEF TakeJob
    <3>2. Ended' = Ended /\ \A d \in Callers : Unsent(d)' <=> Unsent(d)
      BY <3>1 DEF Ended, Unsent
    <3>3. CASE j = Head(queue)
      BY <3>1, <3>3 DEF InCare, Busy
    <3>4. CASE j # Head(queue)
      <4>1. Sent(j) => Sent(j)'
        <5> SUFFICES ASSUME NEW i \in 1..Len(queue), queue[i] = j PROVE Sent(j)'
          BY DEF Sent
        <5>1. i # 1 /\ Len(queue') = Len(queue) - 1 /\ Len(queue) \in Nat
              /\ \A k \in 1..Len(queue') : queue'[k] = queue[k + 1]
          BY <2>0, <3>1, <3>4, SentTail
        <5>2. i - 1 \in 1..Len(queue') /\ queue'[i - 1] = j
          BY <5>1
        <5> QED
          BY <5>2 DEF Sent
      <4> QED
        BY <2>0, <3>1, <3>2, <4>1, CareStands DEF Busy
    <3> QED
      BY <3>3, <3>4
  <2>6. ASSUME TakeQuit PROVE InCare(j)'
    <3>1. /\ wpc = "recv" /\ queue # <<>> /\ queue[1] = Quit /\ 1 \in 1..Len(queue)
          /\ UNCHANGED <<pc, held, log>>
      BY <2>0, <2>6 DEF TakeQuit, TypeOK
    <3>2. ~Sent(j)
      <4>1. Len(queue) = 1
        BY <3>1 DEF QuitBehind
      <4>2. \A i \in 1..Len(queue) : queue[i] = Quit
        BY <3>1, <4>1
      <4> QED
        BY <2>0, <4>2 DEF Sent
    <3>3. Ended' = Ended /\ wpc \notin Busy
      BY <3>1 DEF Ended, Busy
    <3> QED
      BY <3>1, <3>2, <3>3 DEF InCare, Sent
  <2>7. ASSUME SkipEnd \/ Deliver \/ DeliverPanics PROVE InCare(j)'
    <3>1. job \in Jobs /\ wpc \in Busy /\ wpc # "dead"
      BY <2>0, <2>7 DEF SkipEnd, Deliver, DeliverPanics, ThreadHolds, HasJob, Busy
    <3>2. PICK o \in Outcomes : log' = Append(log, Completion(job, o))
      BY <2>0, <2>7 DEF SkipEnd, Deliver, DeliverPanics, TypeOK, Outcomes
    <3>3. /\ UNCHANGED <<pc, held>> /\ wpc' \in {"recv", "unclaim", "dead"}
          /\ wpc' # "dead" => queue' = queue
      BY <2>7 DEF SkipEnd, Deliver, DeliverPanics
    <3>4. Ended' = Ended \cup {job}
      BY <2>0, <3>1, <3>2, EndedAppend
    <3>5. Sent(j) => Sent(j)' /\ wpc' \notin {"exited", "dead"}
      BY <3>1, <3>3 DEF Sent
    <3> QED
      BY <3>3, <3>4, <3>5 DEF InCare, Sent
  <2>8. ASSUME \/ Skip \/ Clear \/ Claim \/ Recheck \/ RecheckRaise \/ RunLoad \/ RunUnload
               \/ RunNotLoaded \/ RunReport \/ RunStopped \/ RunFinished
        PROVE  InCare(j)'
    <3> USE DEF Skip, Clear, Claim, Recheck, RecheckRaise, RunLoad, RunUnload, RunNotLoaded,
                RunReport, RunStopped, RunFinished, Ends
    <3>1. UNCHANGED <<queue, log, pc, held, job>> /\ wpc' \in Busy
      BY <2>8 DEF Busy
    <3>2. Ended' = Ended /\ (Sent(j)' <=> Sent(j)) /\ \A d \in Callers : Unsent(d)' <=> Unsent(d)
      BY <3>1 DEF Ended, Sent, Unsent
    <3> QED
      BY <2>0, <3>1, <3>2, CareStands DEF Busy
  <2>9. ASSUME Unclaim \/ Forget \/ Close PROVE InCare(j)'
    <3>1. UNCHANGED <<queue, log, pc, held>> /\ wpc \notin Busy /\ wpc' \in {"recv", "forget", "close"}
      BY <2>9 DEF Unclaim, Forget, Close, Busy
    <3>2. Ended' = Ended /\ (Sent(j)' <=> Sent(j)) /\ \A d \in Callers : Unsent(d)' <=> Unsent(d)
      BY <3>1 DEF Ended, Sent, Unsent
    <3> QED
      BY <2>0, <3>1, <3>2, CareStands
  <2> QED
    BY <2>1, <2>2, <2>3, <2>4, <2>5, <2>6, <2>7, <2>8, <2>9 DEF Next, Call, CallStep, Work
<1> QED
  BY <1>1, Typing, HolderInvariant, NothingBehindQuit, PTL DEF Spec, OnlyDeathLoses

-----------------------------------------------------------------------------
\* Of a channel that has Quit behind every job the queue shows the jobs.
LEMMA QueuedAreJobs ==
  ASSUME NEW q \in Seq(Jobs \cup {Quit}), \A i \in 1..Len(q) : q[i] = Quit => i = Len(q)
  PROVE  /\ Len(q) \in Nat /\ QueuedJobs(q) \in 0..Len(q)
         /\ Queued(q) \in Seq(Jobs) /\ Len(Queued(q)) = QueuedJobs(q)
         /\ \A i \in 1..QueuedJobs(q) : i \in 1..Len(q) /\ Queued(q)[i] = q[i] /\ q[i] \in Jobs
         /\ \A i \in 1..Len(q) : q[i] # Quit => i \in 1..QueuedJobs(q)
         /\ (\A i \in 1..Len(q) : q[i] # Quit) => Queued(q) = q
<1>1. Len(q) \in Nat /\ (q # <<>> => Len(q) \in 1..Len(q))
  BY LenProperties, EmptySeq
<1>2. QueuedJobs(q) \in 0..Len(q)
  BY <1>1 DEF QueuedJobs
<1>3. ASSUME NEW i \in 1..QueuedJobs(q) PROVE i \in 1..Len(q) /\ q[i] \in Jobs
  <2>1. i \in 1..Len(q) /\ q[i] \in Jobs \cup {Quit}
    BY <1>1, <1>2, ElementOfSeq
  <2>2. q[i] = Quit => FALSE
    BY <1>1, <2>1 DEF QueuedJobs
  <2> QED
    BY <2>1, <2>2
<1>4. /\ Queued(q) \in Seq(Jobs) /\ Len(Queued(q)) = QueuedJobs(q)
      /\ \A i \in 1..QueuedJobs(q) : Queued(q)[i] = q[i]
  BY <1>2, <1>3, SubSeqProperties DEF Queued
<1>5. \A i \in 1..Len(q) : q[i] # Quit => i \in 1..QueuedJobs(q)
  BY <1>1 DEF QueuedJobs
<1>6. (\A i \in 1..Len(q) : q[i] # Quit) => QueuedJobs(q) = Len(q)
  BY <1>1 DEF QueuedJobs
<1>7. QueuedJobs(q) = Len(q) => Queued(q) = q
  BY SubSeqFull DEF Queued
<1> QED
  BY <1>1, <1>2, <1>3, <1>4, <1>5, <1>6, <1>7

\* What waits in the queue is what is on the channel, Quit aside.
LEMMA QueuedAreSent ==
  ASSUME TypeOK, QuitIsLast
  PROVE  Promised!Waiting = {j \in Jobs : Sent(j)}
<1>1. Promised!Waiting = {Queued(queue)[i] : i \in 1..Len(Queued(queue))}
  BY DEF Promised!Waiting
<1>2. \A j \in Jobs : j # Quit
  BY DEF Jobs, Quit
<1>3. queue \in Seq(Jobs \cup {Quit}) /\ \A i \in 1..Len(queue) : queue[i] = Quit => i = Len(queue)
  BY DEF TypeOK, QuitIsLast, QuitBehind, Unsent
<1> QED
  BY <1>1, <1>2, <1>3, QueuedAreJobs DEF Sent

\* A step that puts in nothing, takes nothing out and ends nothing, and changes no mark of a job that
\* waits, is none of the queue's.
LEMMA NotTheQueues ==
  ASSUME TypeOK, UNCHANGED <<queue, log>>, \A j \in Jobs : Sent(j) => (j \in cancelled' <=> j \in cancelled),
         TypeOK', wpc' \in Busy <=> wpc \in Busy, wpc \in Busy => job' = job,
         wpc' \in {"skip", "skipEnd"} <=> wpc \in {"skip", "skipEnd"}
  PROVE  UNCHANGED Promised!queueVars
<1>1. {j \in cancelled : \E i \in 1..Len(queue) : queue[i] = j}'
        = {j \in cancelled : \E i \in 1..Len(queue) : queue[i] = j}
  BY DEF Sent, TypeOK
<1> QED
  BY <1>1 DEF Promised!queueVars

\* Marking jobs as cancelled is asking those of them that wait to stop.
LEMMA MarksAreAsked ==
  ASSUME TypeOK, QuitIsLast, NEW c \in Callers, CancelMark(c) \/ CancelAllMark(c)
  PROVE  \E js \in SUBSET Promised!Waiting : Promised!AskToStop(js)
<1>1. held[c] \subseteq Jobs
  BY DEF TypeOK
<1>2. PICK js \in SUBSET Promised!Waiting : js = {j \in held[c] : Sent(j)}
  BY <1>1, QueuedAreSent
<1>3. /\ UNCHANGED <<queue, log, job, wpc>> /\ cancelled' = cancelled \cup held[c]
  BY DEF CancelMark, CancelAllMark, shared, thread, history
<1>4. {j \in cancelled : \E i \in 1..Len(queue) : queue[i] = j}'
        = {j \in cancelled : \E i \in 1..Len(queue) : queue[i] = j} \cup js
  BY <1>2, <1>3 DEF Sent
<1>5. Promised!AskToStop(js)
  BY <1>3, <1>4 DEF Promised!AskToStop
<1> QED
  BY <1>5

\* Sending a job is putting it in the queue.
LEMMA SendIsPut ==
  ASSUME Typed, TypeOK', OneHolder, QuitIsLast, QuitIsLast', NEW c \in Callers, SubmitSend(c)
  PROVE  \E j \in Jobs : Promised!Put(j)
<1>1. PICK j \in Jobs : held[c] = {j}
  BY DEF SubmitSend, Unsent, OneHolder, CallerHolds
<1>2. queue' = Append(queue, j) /\ UNCHANGED <<cancelled, job, wpc, log>>
  BY <1>1 DEF SubmitSend, shared, thread, history
<1>3. ~Sent(j) /\ j # job /\ j \notin Ended /\ j # Quit /\ TypeOK
  BY <1>1 DEF SubmitSend, Unsent, OneHolder, CallerHolds, Jobs, Quit, Typed
<1>4. ~Sent(Quit) /\ ~Sent(Quit)'
  <2>1. ~Sent(Quit)
    BY DEF SubmitSend, QuitIsLast, QuitBehind, Unsent
  <2> QED
    BY <1>2, <1>3, <2>1, SentAppend
<1>5. Queued(queue) = queue /\ Queued(queue') = queue'
  <2>1. queue \in Seq(Jobs \cup {Quit}) /\ \A i \in 1..Len(queue) : queue[i] # Quit
    BY <1>3, <1>4 DEF TypeOK, Sent
  <2>2. queue' \in Seq(Jobs \cup {Quit}) /\ \A i \in 1..Len(queue') : queue'[i] # Quit
    BY <1>4 DEF TypeOK, Sent
  <2> QED
    BY <2>1, <2>2, QueuedAreJobs
<1>6. j \notin Promised!Waiting \cup Promised!Over
  BY <1>3, QueuedAreSent DEF Promised!Over, Ended
<1>7. {k \in cancelled : \E i \in 1..Len(queue) : queue[i] = k}'
        \in {{k \in cancelled : \E i \in 1..Len(queue) : queue[i] = k},
            {k \in cancelled : \E i \in 1..Len(queue) : queue[i] = k} \cup {j}}
  <2>1. \A k : Sent(k)' <=> Sent(k) \/ k = j
    BY <1>2, <1>3, SentAppend
  <2>2. CASE j \in cancelled
    BY <1>2, <2>1, <2>2 DEF Sent
  <2>3. CASE j \notin cancelled
    BY <1>2, <2>1, <2>3 DEF Sent
  <2> QED
    BY <2>2, <2>3
<1>8. j # (IF wpc \in Busy THEN job ELSE 0)
  BY <1>3 DEF Quit
<1> QED
  BY <1>2, <1>5, <1>6, <1>7, <1>8 DEF Promised!Put

\* Taking a job is beginning it, doomed where it was marked.
LEMMA TakeIsBegin ==
  ASSUME Typed, TypeOK', OneHolder, QuitIsLast, QuitIsLast', TakeJob
  PROVE  Promised!Begin
<1>0. TypeOK /\ ThreadHolds
  BY DEF Typed
<1>1. /\ queue # <<>> /\ queue' = Tail(queue) /\ job' = Head(queue) /\ Head(queue) # Quit
      /\ log' = log /\ cancelled' = cancelled \ {Head(queue)} /\ wpc = "recv"
      /\ wpc' = IF Head(queue) \in cancelled THEN "skip" ELSE "clear"
  BY DEF TakeJob, history
<1>2. Head(queue) = queue[1] /\ 1 \in 1..Len(queue) /\ Len(queue') = Len(queue) - 1 /\ Len(queue) \in Nat
  BY <1>0, <1>1, SentTail
<1>3. /\ queue \in Seq(Jobs \cup {Quit}) /\ \A i \in 1..Len(queue) : queue[i] = Quit => i = Len(queue)
      /\ queue' \in Seq(Jobs \cup {Quit}) /\ \A i \in 1..Len(queue') : queue'[i] = Quit => i = Len(queue')
  BY <1>0 DEF TypeOK, QuitIsLast, QuitBehind, Unsent
<1>4. QueuedJobs(queue') = QueuedJobs(queue) - 1 /\ 1 \in 1..QueuedJobs(queue)
  <2>1. queue' # <<>> => Len(queue') \in 1..Len(queue') /\ queue'[Len(queue')] = queue[Len(queue)]
    <3>1. queue' # <<>> => Len(queue') \in 1..Len(queue')
      BY <1>2, <1>3, LenProperties, EmptySeq
    <3>2. \A i \in 1..Len(queue') : queue'[i] = queue[i + 1]
      BY <1>0, <1>1, SentTail
    <3>3. queue' # <<>> => queue'[Len(queue')] = queue[Len(queue') + 1]
      BY <3>1, <3>2
    <3> QED
      BY <1>2, <3>1, <3>3
  <2>2. queue' = <<>> => Len(queue) = 1
    BY <1>2, EmptySeq
  <2>3. 1 \in 1..QueuedJobs(queue)
    BY <1>1, <1>2, <1>3, QueuedAreJobs
  <2> QED
    BY <1>1, <1>2, <2>1, <2>2, <2>3 DEF QueuedJobs
<1>5. Queued(queue) # <<>> /\ Head(Queued(queue)) = queue[1] /\ Queued(queue') = Tail(Queued(queue))
  <2> DEFINE n == QueuedJobs(queue) - 1
             s == Queued(queue)
             t == Queued(queue')
  <2>1. /\ s \in Seq(Jobs) /\ Len(s) = n + 1 /\ n \in Nat
        /\ \A i \in 1..(n + 1) : i \in 1..Len(queue) /\ s[i] = queue[i]
    BY <1>3, <1>4, QueuedAreJobs
  <2>2. /\ t \in Seq(Jobs) /\ Len(t) = n
        /\ \A i \in 1..n : i \in 1..Len(queue') /\ t[i] = queue'[i]
    BY <1>3, <1>4, QueuedAreJobs
  <2> HIDE DEF n, s, t
  <2>3. s # <<>>
    BY <2>1, EmptySeq
  <2>4. Tail(s) \in Seq(Jobs) /\ Len(Tail(s)) = n /\ \A i \in 1..n : Tail(s)[i] = s[i + 1]
    BY <2>1, <2>3, HeadTailProperties
  <2>5. ASSUME NEW i \in 1..n PROVE t[i] = Tail(s)[i]
    <3>1. i \in 1..Len(queue') /\ i + 1 \in 1..(n + 1)
      BY <2>1, <2>2
    <3>2. queue'[i] = queue[i + 1]
      BY <1>0, <1>1, <3>1, SentTail
    <3> QED
      BY <2>1, <2>2, <2>4, <3>1, <3>2
  <2>6. t = Tail(s)
    BY <2>2, <2>4, <2>5, SeqEqual
  <2>7. Head(s) = queue[1]
    BY <2>1, <2>3
  <2> QED
    BY <2>3, <2>6, <2>7 DEF s, t
<1>6. {j \in cancelled : \E i \in 1..Len(queue) : queue[i] = j}'
        = {j \in cancelled : \E i \in 1..Len(queue) : queue[i] = j} \ {Head(Queued(queue))}
  <2>1. \A k \in 1..Len(queue) : k = 1 \/ (k - 1 \in 1..Len(queue') /\ queue'[k - 1] = queue[k])
    BY <1>0, <1>1, SentTail
  <2>2. \A j : Sent(j)' => Sent(j)
    BY <1>0, <1>1, SentTail
  <2>3. \A j : Sent(j) /\ j # queue[1] => Sent(j)'
    BY <2>1 DEF Sent
  <2>4. cancelled' = cancelled \ {queue[1]} /\ Head(Queued(queue)) = queue[1]
    BY <1>1, <1>2, <1>5
  <2>5. {j \in cancelled : Sent(j)}' = {j \in cancelled : Sent(j)} \ {Head(Queued(queue))}
    BY <2>2, <2>3, <2>4
  <2> QED
    BY <2>5 DEF Sent
<1>7. Head(Queued(queue)) \in {j \in cancelled : \E i \in 1..Len(queue) : queue[i] = j} <=> Head(queue) \in cancelled
  BY <1>2, <1>5
<1> QED
  BY <1>1, <1>2, <1>5, <1>6, <1>7 DEF Promised!Begin, Busy

\* Calling on_complete is ending what was begun.
LEMMA CompletionIsEnd ==
  ASSUME Typed, TypeOK', SkipEnd \/ Deliver
  PROVE  \E outcome \in {"Done", "Cancelled", "Failed"} : Promised!End(outcome)
<1>1. job \in Jobs /\ job # 0 /\ wpc \in Busy /\ wpc' \notin Busy /\ result \in Outcomes
  BY DEF SkipEnd, Deliver, Typed, ThreadHolds, HasJob, Busy, Jobs, TypeOK
<1>2. UNCHANGED <<queue, cancelled>>
  BY DEF SkipEnd, Deliver, shared
<1>3. CASE SkipEnd
  <2>1. Promised!End("Cancelled")
    BY <1>1, <1>2, <1>3 DEF SkipEnd, Promised!End, Completion
  <2> QED
    BY <2>1
<1>4. CASE Deliver
  <2>1. Promised!End(result)
    BY <1>1, <1>2, <1>4 DEF Deliver, Promised!End, Completion
  <2> QED
    BY <1>1, <2>1 DEF Outcomes
<1> QED
  BY <1>3, <1>4
-----------------------------------------------------------------------------
\* The safety half of IsJobQueue: whatever callers and thread do, in whatever order, is a step of
\* the queue or none. TakeJob is Begin, SkipEnd and Deliver are End, a send is Put, the mark of
\* cancel and cancel_all is AskToStop, and nothing else can be told from outside.
THEOREM StepsOfAQueue == ASSUME MayPanic = FALSE PROVE Spec => Promised!QueueSteps
<1>1. Init => Promised!QueueInit
  <2> SUFFICES ASSUME Init PROVE Promised!QueueInit
    OBVIOUS
  <2>1. queue = <<>> /\ queue \in Seq(Jobs \cup {Quit}) /\ \A i \in 1..Len(queue) : queue[i] # Quit
    BY DEF Init
  <2>2. Queued(queue) = <<>>
    BY <2>1, QueuedAreJobs
  <2> QED
    BY <2>2 DEF Init, Promised!QueueInit, Busy
<1>2. Typed /\ Typed' /\ OneHolder /\ QuitIsLast /\ QuitIsLast' /\ [Next]_vars
        => [Promised!QueueNext]_(Promised!queueVars)
  <2> SUFFICES ASSUME Typed, Typed', OneHolder, QuitIsLast, QuitIsLast', [Next]_vars
               PROVE  Promised!QueueNext \/ UNCHANGED Promised!queueVars
    OBVIOUS
  <2>0. TypeOK /\ ThreadHolds /\ TypeOK' /\ ThreadHolds'
    BY DEF Typed
  <2> USE DEF shared, caller, thread, history
  <2>1. ASSUME NEW c \in Callers,
               \/ \E w \in Works : Submit(c, w)
               \/ \E j \in Jobs : Cancel(c, j)
               \/ CancelAll(c) \/ Drop(c)
               \/ SubmitOpen(c) \/ CancelLook(c) \/ CancelRaise(c)
               \/ CancelAllLook(c) \/ CancelAllRaise(c) \/ DropJoin(c)
        PROVE  UNCHANGED Promised!queueVars
    <3>1. UNCHANGED <<queue, log, cancelled, wpc, job>>
      BY <2>1 DEF Submit, Cancel, CancelAll, Drop, SubmitOpen, CancelLook, CancelRaise,
                  CancelAllLook, CancelAllRaise, DropJoin
    <3> QED
      BY <2>0, <3>1, NotTheQueues
  <2>2. ASSUME NEW c \in Callers, SubmitSend(c) PROVE Promised!QueueNext
    <3>1. PICK j \in Jobs : Promised!Put(j)
      BY <2>0, <2>2, SendIsPut
    <3> QED
      BY <3>1 DEF Promised!QueueNext
  <2>3. ASSUME NEW c \in Callers, CancelMark(c) \/ CancelAllMark(c) PROVE Promised!QueueNext
    <3>1. PICK js \in SUBSET Promised!Waiting : Promised!AskToStop(js)
      BY <2>0, <2>3, MarksAreAsked
    <3> QED
      BY <3>1 DEF Promised!QueueNext
  \* The receiver outlives the callers, so nothing is handed back to them.
  <2>4. ASSUME NEW c \in Callers PROVE ~SubmitRefused(c) /\ ~SubmitEnd(c) /\ ~DeliverPanics
    BY DEF SubmitRefused, SubmitEnd, DeliverPanics, QuitIsLast, QuitBehind, Unsent
  \* Quit is not one of the jobs the queue shows, behind them or in front.
  <2>5. ASSUME NEW c \in Callers, DropQuit(c) PROVE UNCHANGED Promised!queueVars
    <3>1. /\ queue' = Append(queue, Quit) /\ UNCHANGED <<log, cancelled, wpc, job>> /\ ~Sent(Quit)
      BY <2>5 DEF DropQuit, QuitIsLast, QuitBehind, Unsent
    <3>2. /\ Len(queue') = Len(queue) + 1 /\ Len(queue) \in Nat
          /\ \A i \in 1..Len(queue) : queue'[i] = queue[i]
          /\ queue'[Len(queue) + 1] = Quit
          /\ \A j : Sent(j)' <=> Sent(j) \/ j = Quit
      BY <2>0, <3>1, SentAppend
    <3> DEFINE s == Queued(queue)
               t == Queued(queue')
    <3>3. /\ queue \in Seq(Jobs \cup {Quit}) /\ \A i \in 1..Len(queue) : queue[i] # Quit
          /\ queue' \in Seq(Jobs \cup {Quit}) /\ \A i \in 1..Len(queue') : queue'[i] = Quit => i = Len(queue')
      BY <2>0, <3>1 DEF TypeOK, QuitIsLast, QuitBehind, Unsent, Sent
    <3>4. QueuedJobs(queue) = Len(queue) /\ QueuedJobs(queue') = Len(queue)
      <4>1. queue' # <<>>
        BY <3>2, <3>3, EmptySeq
      <4> QED
        BY <3>2, <3>3, <4>1, EmptySeq DEF QueuedJobs
    <3>5. /\ s \in Seq(Jobs) /\ Len(s) = Len(queue) /\ \A i \in 1..Len(queue) : s[i] = queue[i]
      BY <3>3, <3>4, QueuedAreJobs
    <3>6. /\ t \in Seq(Jobs) /\ Len(t) = Len(queue) /\ \A i \in 1..Len(queue) : t[i] = queue'[i]
      BY <3>3, <3>4, QueuedAreJobs
    <3> HIDE DEF s, t
    <3>7. t = s
      BY <3>2, <3>5, <3>6, SeqEqual
    <3>8. \A j \in Jobs : Sent(j)' <=> Sent(j)
      BY <3>2 DEF Jobs, Quit
    <3>9. {j \in cancelled : Sent(j)}' = {j \in cancelled : Sent(j)}
      BY <2>0, <3>1, <3>8 DEF TypeOK
    <3> QED
      BY <3>1, <3>7, <3>9 DEF Promised!queueVars, s, t, Sent
  <2>6. ASSUME TakeQuit PROVE UNCHANGED Promised!queueVars
    <3>1. /\ queue # <<>> /\ Head(queue) = Quit /\ queue' = Tail(queue)
          /\ UNCHANGED <<log, cancelled, job>> /\ wpc = "recv" /\ wpc' = "exited"
      BY <2>6 DEF TakeQuit
    <3>2. Len(queue') = Len(queue) - 1 /\ Head(queue) = queue[1] /\ 1 \in 1..Len(queue) /\ Len(queue) \in Nat
      BY <2>0, <3>1, SentTail
    <3>3. Len(queue) = 1 /\ Len(queue') = 0
      <4>1. queue[1] = Quit
        BY <3>1, <3>2
      <4>2. 1 = Len(queue)
        BY <3>2, <4>1 DEF QuitIsLast, QuitBehind, Unsent
      <4>3. \A n \in Nat : n = 1 => n - 1 = 0
        OBVIOUS
      <4> QED
        BY <3>2, <4>2, <4>3
    <3>4. /\ queue \in Seq(Jobs \cup {Quit}) /\ \A i \in 1..Len(queue) : queue[i] = Quit => i = Len(queue)
          /\ queue' \in Seq(Jobs \cup {Quit}) /\ \A i \in 1..Len(queue') : queue'[i] = Quit => i = Len(queue')
      BY <2>0 DEF TypeOK, QuitIsLast, QuitBehind, Unsent
    <3>5. QueuedJobs(queue) = 0 /\ QueuedJobs(queue') = 0
      BY <3>1, <3>2, <3>3, <3>4, QueuedAreJobs DEF QueuedJobs
    <3>6. Queued(queue) = <<>> /\ Queued(queue') = <<>>
      BY <3>4, <3>5, QueuedAreJobs, EmptySeq
    <3>7. \A j \in Jobs : ~Sent(j) /\ ~Sent(j)'
      BY <3>1, <3>2, <3>3 DEF Sent, Jobs, Quit
    <3>8. {j \in cancelled : Sent(j)}' = {} /\ {j \in cancelled : Sent(j)} = {}
      BY <2>0, <3>7 DEF TypeOK
    <3> QED
      BY <3>1, <3>6, <3>8 DEF Promised!queueVars, Busy, Sent
  <2>7. ASSUME TakeJob PROVE Promised!QueueNext
    BY <2>0, <2>7, TakeIsBegin DEF Promised!QueueNext, Promised!QueueStep
  <2>8. ASSUME SkipEnd \/ Deliver PROVE Promised!QueueNext
    <3>1. PICK outcome \in {"Done", "Cancelled", "Failed"} : Promised!End(outcome)
      BY <2>0, <2>8, CompletionIsEnd
    <3> QED
      BY <3>1 DEF Promised!QueueNext, Promised!QueueStep
  <2>9. ASSUME \/ Skip \/ Clear \/ Claim \/ Recheck \/ RecheckRaise \/ RunLoad \/ RunUnload
               \/ RunNotLoaded \/ RunReport \/ RunStopped \/ RunFinished \/ Unclaim
        PROVE  UNCHANGED Promised!queueVars
    <3>1. UNCHANGED <<queue, log, cancelled, job>>
      BY <2>9 DEF Skip, Clear, Claim, Recheck, RecheckRaise, RunLoad, RunUnload, RunNotLoaded,
                  RunReport, RunStopped, RunFinished, Ends, Unclaim
    <3>2. /\ wpc' \in Busy <=> wpc \in Busy
          /\ wpc' \in {"skip", "skipEnd"} <=> wpc \in {"skip", "skipEnd"}
      BY <2>9 DEF Skip, Clear, Claim, Recheck, RecheckRaise, RunLoad, RunUnload, RunNotLoaded,
                  RunReport, RunStopped, RunFinished, Ends, Unclaim, Busy
    <3> QED
      BY <2>0, <3>1, <3>2, NotTheQueues
  \* The job that is forgotten is the thread's, and so not on the channel.
  <2>10. ASSUME Forget \/ Close PROVE UNCHANGED Promised!queueVars
    <3>1. /\ UNCHANGED <<queue, log>> /\ cancelled' \in {cancelled, cancelled \ {job}}
          /\ wpc \notin Busy /\ wpc' \notin Busy
          /\ wpc \notin {"skip", "skipEnd"} /\ wpc' \notin {"skip", "skipEnd"}
      BY <2>10 DEF Forget, Close, Busy
    <3>2. \A j \in Jobs : Sent(j) => j # job
      BY DEF Sent, OneHolder, ChannelHolds, Jobs, Quit
    <3> QED
      BY <2>0, <3>1, <3>2, NotTheQueues
  <2>11. CASE UNCHANGED vars
    BY <2>0, <2>11, NotTheQueues DEF vars
  <2>12. CASE Work
    BY <2>4, <2>6, <2>7, <2>8, <2>9, <2>10, <2>12 DEF Work, DeliverPanics
  <2>13. ASSUME NEW c \in Callers, Call(c) PROVE UNCHANGED Promised!queueVars
    BY <2>1, <2>13 DEF Call
  <2>14. ASSUME NEW c \in Callers, CallStep(c) PROVE Promised!QueueNext \/ UNCHANGED Promised!queueVars
    <3> HIDE DEF shared, caller, thread, history
    <3> QED
      BY <2>1, <2>2, <2>3, <2>4, <2>5, <2>14 DEF CallStep
  <2> QED
    BY <2>11, <2>12, <2>13, <2>14 DEF Next
<1> QED
  BY <1>1, <1>2, Typing, HolderInvariant, LivesToQuit, PTL DEF Spec, Promised!QueueSteps

-----------------------------------------------------------------------------
(* Drop. *)

\* A job that has a number is with its submitter, on the channel, on the thread or over.
Numbered ==
  \A j \in Jobs : j < next => \/ \E c \in Callers : Unsent(c) /\ j \in held[c]
                              \/ Sent(j)
                              \/ wpc \in Busy /\ j = job
                              \/ j \in Ended

\* The thread returns with nothing left on the channel and nobody to put something there.
Gone ==
  /\ wpc = "exited" => queue = <<>> /\ dropping /\ \A c \in Callers : pc[c] \in {"idle", "join", "freed"}
  /\ \A c \in Callers : pc[c] = "freed" => wpc = "exited"

\* A job keeps its place where none is numbered, sent, taken or ended.
LEMMA NumberStands ==
  ASSUME TypeOK, Numbered, UNCHANGED <<next, queue, log>>,
         wpc \in Busy => wpc' \in Busy /\ job' = job,
         \A c \in Callers : Unsent(c) => Unsent(c)' /\ held'[c] = held[c]
  PROVE  Numbered'
<1>1. Ended' = Ended /\ \A j : Sent(j)' <=> Sent(j)
  BY DEF Ended, Sent
<1> QED
  BY <1>1 DEF Numbered

\* Every step keeps the jobs that have numbers accounted for.
LEMMA StepNumbered ==
  ASSUME MayPanic = FALSE, Typed, Typed', OneHolder, QuitIsLast, Numbered, [Next]_vars
  PROVE  Numbered'
<1> USE DEF shared, caller, thread, history
<1>0. TypeOK /\ ThreadHolds /\ TypeOK'
  BY DEF Typed
<1>1. ASSUME NEW c \in Callers, NEW w \in Works, Submit(c, w) PROVE Numbered'
  <2>1. /\ next' = next + 1 /\ next \in Nat /\ UNCHANGED <<queue, log, wpc, job>>
        /\ Unsent(c)' /\ held'[c] = {next} /\ ~Unsent(c)
        /\ \A d \in Callers \ {c} : pc'[d] = pc[d] /\ held'[d] = held[d]
    BY <1>0, <1>1 DEF Submit, TypeOK, Unsent
  <2>2. Ended' = Ended /\ (\A j : Sent(j)' <=> Sent(j)) /\ \A d \in Callers \ {c} : Unsent(d)' <=> Unsent(d)
    BY <2>1 DEF Ended, Sent, Unsent
  <2>3. \A j \in Jobs : j < next' => j < next \/ j = next
    BY <2>1 DEF Jobs
  <2> QED
    BY <2>1, <2>2, <2>3 DEF Numbered
<1>2. ASSUME NEW c \in Callers, SubmitSend(c) PROVE Numbered'
  <2>1. PICK j \in Jobs : held[c] = {j}
    BY <1>2 DEF SubmitSend, Unsent, OneHolder, CallerHolds
  <2>2. queue' = Append(queue, j) /\ UNCHANGED <<next, job, wpc, log>>
    BY <1>2, <2>1 DEF SubmitSend
  <2>3. \A d \in Callers \ {c} : pc'[d] = pc[d] /\ held'[d] = held[d]
    BY <1>0, <1>2 DEF SubmitSend, TypeOK
  <2>4. (\A i : Sent(i)' <=> Sent(i) \/ i = j) /\ Ended' = Ended
    BY <1>0, <2>2, SentAppend DEF Ended
  <2>5. \A d \in Callers \ {c} : Unsent(d)' <=> Unsent(d)
    BY <2>3 DEF Unsent
  <2> QED
    BY <2>1, <2>2, <2>3, <2>4, <2>5 DEF Numbered
<1>3. ASSUME NEW c \in Callers, DropQuit(c) PROVE Numbered'
  <2>1. queue' = Append(queue, Quit) /\ UNCHANGED <<next, job, wpc, log, held>> /\ pc[c] = "quit"
    BY <1>3 DEF DropQuit, QuitIsLast, QuitBehind, Unsent
  <2>2. \A d \in Callers : Unsent(d) => Unsent(d)'
    BY <1>0, <1>3 DEF DropQuit, TypeOK, Unsent
  <2>3. (\A i : Sent(i) => Sent(i)') /\ Ended' = Ended
    BY <1>0, <2>1, SentAppend DEF Ended
  <2> QED
    BY <2>1, <2>2, <2>3 DEF Numbered
<1>4. ASSUME TakeJob \/ TakeQuit PROVE Numbered'
  <2>1. /\ queue # <<>> /\ queue' = Tail(queue) /\ UNCHANGED <<next, log, pc, held>> /\ wpc = "recv"
        /\ TakeJob => job' = Head(queue) /\ wpc' \in Busy
        /\ TakeQuit => Head(queue) = Quit
    BY <1>4 DEF TakeJob, TakeQuit, Busy
  <2>2. \A k \in 1..Len(queue) : k = 1 \/ (k - 1 \in 1..Len(queue') /\ queue'[k - 1] = queue[k])
    BY <1>0, <2>1, SentTail
  <2>3. Head(queue) = queue[1]
    BY <1>0, <2>1, SentTail
  <2>4. \A j : Sent(j) => Sent(j)' \/ j = Head(queue)
    BY <2>2, <2>3 DEF Sent
  <2>5. Ended' = Ended /\ \A d \in Callers : Unsent(d)' <=> Unsent(d)
    BY <2>1 DEF Ended, Unsent
  <2>6. wpc \notin Busy /\ \A j \in Jobs : j # Quit
    BY <2>1 DEF Busy, Jobs, Quit
  <2> QED
    BY <1>4, <2>1, <2>4, <2>5, <2>6 DEF Numbered
<1>5. ASSUME SkipEnd \/ Deliver PROVE Numbered'
  <2>1. job \in Jobs /\ UNCHANGED <<next, queue, pc, held>>
    BY <1>0, <1>5 DEF SkipEnd, Deliver, ThreadHolds, HasJob, Busy
  <2>2. PICK o \in Outcomes : log' = Append(log, Completion(job, o))
    BY <1>0, <1>5 DEF SkipEnd, Deliver, TypeOK, Outcomes
  <2>3. Ended' = Ended \cup {job}
    BY <1>0, <2>1, <2>2, EndedAppend
  <2>4. (\A j : Sent(j)' <=> Sent(j)) /\ \A d \in Callers : Unsent(d)' <=> Unsent(d)
    BY <2>1 DEF Sent, Unsent
  <2> QED
    BY <2>1, <2>3, <2>4 DEF Numbered
\* The receiver outlives the callers, so nothing is handed back to them.
<1>6. ASSUME NEW c \in Callers PROVE ~SubmitRefused(c) /\ ~SubmitEnd(c) /\ ~DeliverPanics
  BY DEF SubmitRefused, SubmitEnd, DeliverPanics, QuitIsLast, QuitBehind, Unsent
<1>7. ASSUME NEW c \in Callers,
             \/ \E j \in Jobs : Cancel(c, j)
             \/ CancelAll(c) \/ Drop(c) \/ SubmitOpen(c)
             \/ CancelMark(c) \/ CancelLook(c) \/ CancelRaise(c)
             \/ CancelAllMark(c) \/ CancelAllLook(c) \/ CancelAllRaise(c) \/ DropJoin(c)
      PROVE  Numbered'
  <2> USE DEF Cancel, CancelAll, Drop, Idle, SubmitOpen, CancelMark, CancelLook,
              CancelRaise, CancelAllMark, CancelAllLook, CancelAllRaise, DropJoin, Return
  <2>1. UNCHANGED <<next, queue, log, job, wpc>>
    BY <1>7
  <2>2. \A d \in Callers : Unsent(d) => Unsent(d)' /\ held'[d] = held[d]
    BY <1>0, <1>7 DEF TypeOK, Unsent
  <2> QED
    BY <1>0, <2>1, <2>2, NumberStands
<1>8. ASSUME \/ Skip \/ Clear \/ Claim \/ Recheck \/ RecheckRaise \/ RunLoad \/ RunUnload
             \/ RunNotLoaded \/ RunReport \/ RunStopped \/ RunFinished
             \/ Unclaim \/ Forget \/ Close \/ UNCHANGED vars
      PROVE  Numbered'
  <2> USE DEF Skip, Clear, Claim, Recheck, RecheckRaise, RunLoad, RunUnload, RunNotLoaded,
              RunReport, RunStopped, RunFinished, Unclaim, Forget, Close, Ends, vars
  <2>1. UNCHANGED <<next, queue, log, pc, held>>
    BY <1>8
  <2>2. wpc \in Busy => wpc' \in Busy /\ job' = job
    BY <1>8 DEF Busy
  <2>3. \A d \in Callers : Unsent(d) => Unsent(d)' /\ held'[d] = held[d]
    BY <2>1 DEF Unsent
  <2> QED
    BY <1>0, <2>1, <2>2, <2>3, NumberStands
<1>9. CASE Work
  BY <1>4, <1>5, <1>8, <1>9 DEF Work, DeliverPanics
<1>10. ASSUME NEW c \in Callers, Call(c) PROVE Numbered'
  BY <1>1, <1>7, <1>10 DEF Call
<1>11. ASSUME NEW c \in Callers, CallStep(c) PROVE Numbered'
  <2> HIDE DEF shared, caller, thread, history
  <2> QED
    BY <1>2, <1>3, <1>6, <1>7, <1>11 DEF CallStep
<1> QED
  BY <1>8, <1>9, <1>10, <1>11 DEF Next

\* The thread exits once, and what it leaves then stays as it is.
LEMMA StepGone ==
  ASSUME MayPanic = FALSE, Typed, QuitIsLast, QuitIsLast', Gone, [Next]_vars
  PROVE  Gone'
<1> USE DEF shared, caller, thread, history
<1>0. TypeOK
  BY DEF Typed
<1>1. CASE wpc = "exited"
  <2>1. queue = <<>> /\ dropping /\ \A c \in Callers : pc[c] \in {"idle", "join", "freed"}
    BY <1>1 DEF Gone
  <2>2. ~Work
    BY <1>1 DEF Work, TakeJob, TakeQuit, Skip, SkipEnd, Clear, Claim, Recheck, RecheckRaise, RunLoad, RunUnload,
       RunNotLoaded, RunReport, RunStopped, RunFinished, Deliver, DeliverPanics, Unclaim, Forget, Close
  <2>3. \A c \in Callers : ~Call(c)
    BY <2>1 DEF Call, Submit, Cancel, CancelAll, Drop
  <2>4. ASSUME NEW c \in Callers, CallStep(c) PROVE DropJoin(c)
    <3>1. pc[c] \in {"idle", "join", "freed"}
      BY <2>1
    <3> QED
      BY <2>4, <3>1 DEF CallStep, SubmitOpen, SubmitSend, SubmitRefused, SubmitEnd, CancelMark, CancelLook,
         CancelRaise, CancelAllMark, CancelAllLook, CancelAllRaise, DropQuit
  <2>5. CASE \E c \in Callers : DropJoin(c)
    BY <1>0, <1>1, <2>1, <2>5 DEF DropJoin, Gone, TypeOK
  <2>6. CASE UNCHANGED vars
    BY <1>1, <2>1, <2>6 DEF vars, Gone
  <2> QED
    BY <2>2, <2>3, <2>4, <2>5, <2>6 DEF Next
<1>2. CASE wpc # "exited" /\ TakeQuit
  <2>1. queue # <<>> /\ Head(queue) = Quit /\ queue' = Tail(queue) /\ UNCHANGED <<pc, dropping>> /\ wpc' = "exited"
    BY <1>2 DEF TakeQuit
  <2>2. Len(queue') = Len(queue) - 1 /\ Head(queue) = queue[1] /\ 1 \in 1..Len(queue) /\ Len(queue) \in Nat
    BY <1>0, <2>1, SentTail
  <2>3. 1 = Len(queue) /\ Sent(Quit)
    BY <2>1, <2>2 DEF QuitIsLast, QuitBehind, Unsent, Sent
  <2>4. Len(queue') = 0
    <3>1. \A n \in Nat : n = 1 => n - 1 = 0
      OBVIOUS
    <3> QED
      BY <2>2, <2>3, <3>1
  <2>5. Tail(queue) \in Seq(Jobs \cup {Quit})
    BY <1>0, <2>1, TailInSeq DEF TypeOK
  <2>6. queue' = <<>>
    BY <2>1, <2>4, <2>5, EmptySeq
  <2> QED
    BY <2>1, <2>3, <2>6 DEF Gone, QuitIsLast, QuitBehind, Unsent
<1>3. CASE wpc # "exited" /\ ~TakeQuit
  <2>1. wpc' # "exited"
    BY <1>3 DEF Next, Work, TakeJob, Skip, SkipEnd, Clear, Claim, Recheck, RecheckRaise, RunLoad, RunUnload,
       RunNotLoaded, RunReport, RunStopped, RunFinished, Ends, Deliver, DeliverPanics, Unclaim, Forget, Close,
       Call, Submit, Cancel, CancelAll, Drop, CallStep, SubmitOpen, SubmitSend, SubmitRefused, SubmitEnd,
       CancelMark, CancelLook, CancelRaise, CancelAllMark, CancelAllLook, CancelAllRaise, DropQuit, DropJoin, vars
  <2>2. \A c \in Callers : pc[c] # "freed" /\ ~DropJoin(c)
    BY <1>3 DEF Gone, DropJoin, QuitIsLast, QuitBehind, Unsent
  <2>3. \A c \in Callers : pc'[c] # "freed"
    <3>1. CASE Work \/ UNCHANGED vars
      BY <2>2, <3>1 DEF vars, Work, TakeJob, TakeQuit, Skip, SkipEnd, Clear, Claim, Recheck, RecheckRaise, RunLoad,
         RunUnload, RunNotLoaded, RunReport, RunStopped, RunFinished, Ends, Deliver, DeliverPanics, Unclaim,
         Forget, Close
    <3>2. ASSUME NEW c \in Callers, Call(c) \/ CallStep(c) PROVE \A d \in Callers : pc'[d] # "freed"
      BY <1>0, <2>2, <3>2 DEF TypeOK, Call, Submit, Cancel, CancelAll, Drop, CallStep, SubmitOpen, SubmitSend,
         SubmitRefused, SubmitEnd, CancelMark, CancelLook, CancelRaise, CancelAllMark, CancelAllLook,
         CancelAllRaise, DropQuit, Return
    <3> QED
      BY <3>1, <3>2 DEF Next
  <2> QED
    BY <2>1, <2>3 DEF Gone
<1> QED
  BY <1>1, <1>2, <1>3

\* When Drop has joined the thread, every job that was ever numbered has had its completion, the
\* ones still on the channel when it began included: the thread takes Quit only behind all of them.
THEOREM DropCompletesAll == ASSUME MayPanic = FALSE PROVE Spec => []DropEndsAll
<1>1. Init => Numbered /\ Gone
  BY DEF Init, Numbered, Gone, Jobs
<1>2. Typed /\ Typed' /\ OneHolder /\ QuitIsLast /\ QuitIsLast' /\ Numbered /\ Gone /\ [Next]_vars
        => Numbered' /\ Gone'
  BY StepNumbered, StepGone
<1>3. Typed /\ OneHolder /\ Numbered /\ Gone => DropEndsAll
  <2> SUFFICES ASSUME Typed, OneHolder, Numbered, Gone, NEW c \in Callers, pc[c] = "freed"
               PROVE  Ended = 1..(next - 1)
    BY DEF DropEndsAll
  <2>0. TypeOK
    BY DEF Typed
  <2>1. wpc = "exited" /\ queue = <<>> /\ \A d \in Callers : ~Unsent(d)
    BY DEF Gone, Unsent
  <2>2. wpc \notin Busy /\ \A j : ~Sent(j)
    BY <2>1 DEF Busy, Sent
  <2>3. next \in Nat /\ next - 1 <= MaxJobs
    BY <2>0, EngineAssumption DEF TypeOK
  <2>4. \A j \in 1..(next - 1) : j \in Jobs /\ j < next
    BY <2>3, EngineAssumption DEF Jobs
  <2>5. \A j \in Ended : j \in Jobs /\ j < next
    BY <2>0, EndedAreJobs DEF OneHolder, HistoryHolds
  <2>6. \A j \in Jobs : j < next => j \in 1..(next - 1)
    BY <2>3 DEF Jobs
  <2> QED
    BY <2>1, <2>2, <2>4, <2>5, <2>6 DEF Numbered
<1> QED
  BY <1>1, <1>2, <1>3, Typing, HolderInvariant, LivesToQuit, PTL DEF Spec

-----------------------------------------------------------------------------
(* What a request is answered by. *)

Changes == {"load", "unload"}

\* Of the history: a completion that changed what is loaded, the last one before i, and a model read.
Changed(k)   == work[log[k].job].op \in Changes /\ log[k].outcome # "Cancelled"
Latest(k, i) == k \in 1..(i - 1) /\ Changed(k) /\ \A m \in 1..(i - 1) : Changed(m) => m <= k
HasRead(k)   == work[log[k].job].op = "load" /\ log[k].outcome = "Done"
ReadBy(j)    == IF work[j].model = "tones" THEN "Voice" ELSE work[j].model

ServedAt(i) ==
  work[log[i].job].op \notin Changes /\ log[i].outcome = "Done" =>
    \E k \in 1..(i - 1) : Latest(k, i) /\ HasRead(k) /\ ReadBy(log[k].job) \in Serving(work[log[i].job].op)

\* What is loaded was read by the last change there was.
LoadedIsLatest ==
  loaded # "Nothing" => \E k \in 1..Len(log) : /\ Latest(k, Len(log) + 1) /\ HasRead(k)
                                               /\ loaded = ReadBy(log[k].job)

\* A change that is over and not yet told of has left its own model, or none; a request that is
\* over was served by what is loaded.
Told ==
  IF wpc = "deliver" /\ work[job].op \in Changes
  THEN result # "Cancelled" /\ (loaded # "Nothing" => /\ work[job].op = "load" /\ result = "Done"
                                                      /\ loaded = ReadBy(job))
  ELSE /\ LoadedIsLatest
       /\ wpc = "deliver" /\ result = "Done" => loaded \in Serving(work[job].op)

Served == Told /\ \A i \in 1..Len(log) : ServedAt(i)

\* No request is answered by nothing.
LEMMA NothingServesNot == \A op : "Nothing" \notin Serving(op)
<1> SUFFICES ASSUME NEW op PROVE "Nothing" \notin Serving(op)
  OBVIOUS
<1>1. CASE op = "draw"
  BY <1>1 DEF Serving
<1>2. CASE op = "speak"
  BY <1>2 DEF Serving
<1>3. CASE op = "convert"
  BY <1>3 DEF Serving
<1>4. CASE op = "layers"
  BY <1>4 DEF Serving
<1>5. CASE op \notin {"draw", "speak", "convert", "layers"}
  BY <1>5 DEF Serving
<1> QED
  BY <1>1, <1>2, <1>3, <1>4, <1>5

\* The history up to a place tells the same of what came before it, whatever is put behind.
LEMMA HistoryStands ==
  ASSUME NEW n \in Nat, \A k \in 1..n : log'[k] = log[k] /\ work'[log[k].job] = work[log[k].job]
  PROVE  /\ \A k \in 1..n : /\ Changed(k)' <=> Changed(k)
                            /\ HasRead(k)' <=> HasRead(k)
                            /\ ReadBy(log[k].job)' = ReadBy(log[k].job)
         /\ \A k \in 1..n : Latest(k, n + 1)' <=> Latest(k, n + 1)
         /\ \A i \in 1..n : ServedAt(i)' <=> ServedAt(i)
<1>1. \A k \in 1..n : (Changed(k)' <=> Changed(k)) /\ (HasRead(k)' <=> HasRead(k))
  BY DEF Changed, HasRead
<1>2. \A k \in 1..n : ReadBy(log[k].job)' = ReadBy(log[k].job)
  BY DEF ReadBy
<1>3. \A i \in 1..(n + 1) : \A k \in 1..(i - 1) : Latest(k, i)' <=> Latest(k, i)
  BY <1>1 DEF Latest
<1>4. ASSUME NEW i \in 1..n PROVE ServedAt(i)' <=> ServedAt(i)
  <2>1. work[log[i].job]' = work[log[i].job] /\ log[i]' = log[i]
    OBVIOUS
  <2>2. i \in 1..(n + 1) /\ \A k \in 1..(i - 1) : k \in 1..n
    OBVIOUS
  <2>3. \A k \in 1..(i - 1) : /\ Latest(k, i)' <=> Latest(k, i)
                              /\ HasRead(k)' <=> HasRead(k)
                              /\ ReadBy(log[k].job)' = ReadBy(log[k].job)
    BY <1>1, <1>2, <1>3, <2>2
  <2> QED
    BY <2>1, <2>3 DEF ServedAt, Serving
<1>5. \A k \in 1..n : Latest(k, n + 1)' <=> Latest(k, n + 1)
  BY <1>3
<1> QED
  BY <1>1, <1>2, <1>4, <1>5

\* A completion is put behind the history, which otherwise stays.
LEMMA LogAppend ==
  ASSUME TypeOK, NEW j \in Jobs, NEW o \in Outcomes, log' = Append(log, Completion(j, o)), work' = work
  PROVE  /\ Len(log) \in Nat /\ Len(log') = Len(log) + 1
         /\ log'[Len(log) + 1].job = j /\ log'[Len(log) + 1].outcome = o
         /\ \A k \in 1..Len(log) : log'[k] = log[k] /\ work'[log[k].job] = work[log[k].job]
  BY DEF TypeOK, Completion

\* Nothing of what is loaded, told or over changes.
LEMMA ServedStands ==
  ASSUME TypeOK, Served, UNCHANGED <<log, loaded>>,
         \A k \in 1..Len(log) : work'[log[k].job] = work[log[k].job],
         \/ wpc # "deliver" /\ wpc' # "deliver"
         \/ UNCHANGED <<wpc, job, result>> /\ work'[job] = work[job]
  PROVE  Served'
<1>1. Len(log) \in Nat
  BY DEF TypeOK
<1>2. /\ \A k \in 1..Len(log) : HasRead(k)' <=> HasRead(k)
      /\ \A k \in 1..Len(log) : ReadBy(log[k].job)' = ReadBy(log[k].job)
      /\ \A k \in 1..Len(log) : Latest(k, Len(log) + 1)' <=> Latest(k, Len(log) + 1)
      /\ \A i \in 1..Len(log) : ServedAt(i)' <=> ServedAt(i)
  BY <1>1, HistoryStands
<1>3. LoadedIsLatest => LoadedIsLatest'
  BY <1>2 DEF LoadedIsLatest
<1>4. CASE wpc # "deliver" /\ wpc' # "deliver"
  BY <1>2, <1>3, <1>4 DEF Served, Told
<1>5. CASE UNCHANGED <<wpc, job, result>> /\ work'[job] = work[job]
  <2>1. ReadBy(job)' = ReadBy(job) /\ Serving(work[job].op)' = Serving(work[job].op)
    BY <1>5 DEF ReadBy, Serving
  <2> QED
    BY <1>2, <1>3, <1>5, <2>1 DEF Served, Told
<1> QED
  BY <1>4, <1>5

\* A completion that changes nothing leaves the latest change the latest.
LEMMA LatestStands ==
  ASSUME TypeOK, NEW j \in Jobs, NEW o \in Outcomes, log' = Append(log, Completion(j, o)), work' = work,
         LoadedIsLatest, loaded' = loaded, o = "Cancelled" \/ work[j].op \notin Changes,
         NEW n \in Nat, n = Len(log)
  PROVE  LoadedIsLatest'
<1>1. /\ n \in Nat /\ Len(log') = n + 1
      /\ log'[n + 1].job = j /\ log'[n + 1].outcome = o
      /\ \A k \in 1..n : log'[k] = log[k] /\ work'[log[k].job] = work[log[k].job]
  BY LogAppend
<1>2. ~Changed(n + 1)'
  BY <1>1 DEF Changed
<1>3. SUFFICES ASSUME loaded # "Nothing" PROVE LoadedIsLatest'
  BY DEF LoadedIsLatest
<1>4. PICK k \in 1..n : Latest(k, n + 1) /\ HasRead(k) /\ loaded = ReadBy(log[k].job)
  BY <1>3 DEF LoadedIsLatest
<1>5. /\ Latest(k, n + 1)' /\ HasRead(k)' /\ ReadBy(log[k].job)' = ReadBy(log[k].job)
      /\ log'[k] = log[k]
  BY <1>1, <1>4, HistoryStands
<1>6. Latest(k, n + 2)'
  <2>1. \A m \in 1..(n + 1) : m \in 1..n \/ m = n + 1
    BY <1>1
  <2>2. /\ k \in 1..n /\ Changed(k)' /\ \A m \in 1..n : Changed(m)' => m <= k
    BY <1>1, <1>5 DEF Latest
  <2>3. (n + 2) - 1 = n + 1 /\ k \in 1..(n + 1)
    BY <1>1, <2>2
  <2>4. \A m \in 1..(n + 1) : Changed(m)' => m <= k
    BY <1>2, <2>1, <2>2
  <2> QED
    BY <2>2, <2>3, <2>4 DEF Latest
<1>7. k \in 1..Len(log') /\ Len(log') + 1 = n + 2
  BY <1>1
<1> QED
  BY <1>4, <1>5, <1>6, <1>7 DEF LoadedIsLatest

\* What a completion behind the history says of it, where it answers no request.
LEMMA ServedBehind ==
  ASSUME TypeOK, Served, NEW j \in Jobs, NEW o \in Outcomes, log' = Append(log, Completion(j, o)), work' = work,
         o # "Done" \/ work[j].op \in Changes
  PROVE  \A i \in 1..Len(log') : ServedAt(i)'
<1> PICK n \in Nat : n = Len(log)
  BY DEF TypeOK
<1>1. /\ Len(log') = n + 1 /\ log'[n + 1].job = j /\ log'[n + 1].outcome = o
      /\ \A k \in 1..n : log'[k] = log[k] /\ work'[log[k].job] = work[log[k].job]
  BY LogAppend
<1>2. \A i \in 1..n : ServedAt(i)'
  BY <1>1, HistoryStands DEF Served
<1>3. ServedAt(n + 1)'
  BY <1>1 DEF ServedAt
<1>4. \A i \in 1..(n + 1) : i \in 1..n \/ i = n + 1
  OBVIOUS
<1> QED
  BY <1>1, <1>2, <1>3, <1>4

\* A job that is skipped or handed back changes nothing and answers nothing.
LEMMA CancelledServed ==
  ASSUME TypeOK, Served, NEW j \in Jobs, log' = Append(log, Completion(j, "Cancelled")), work' = work,
         loaded' = loaded,
         \/ wpc # "deliver" /\ wpc' # "deliver"
         \/ UNCHANGED <<wpc, job, result>>
  PROVE  Served'
<1> PICK n \in Nat : n = Len(log)
  BY DEF TypeOK
<1>1. "Cancelled" \in Outcomes
  BY DEF Outcomes
<1>2. \A i \in 1..Len(log') : ServedAt(i)'
  BY <1>1, ServedBehind
<1>3. LoadedIsLatest => LoadedIsLatest'
  BY <1>1, LatestStands
<1>4. CASE wpc # "deliver" /\ wpc' # "deliver"
  BY <1>2, <1>3, <1>4 DEF Served, Told
<1>5. CASE UNCHANGED <<wpc, job, result>>
  <2>1. ReadBy(job)' = ReadBy(job) /\ Serving(work[job].op)' = Serving(work[job].op)
    BY <1>5 DEF ReadBy, Serving
  <2> QED
    BY <1>2, <1>3, <1>5, <2>1 DEF Served, Told
<1> QED
  BY <1>4, <1>5

\* A change that is over is the latest there is; a request was served by what the latest left.
LEMMA ToldServed ==
  ASSUME TypeOK, Served, wpc = "deliver", job \in Jobs, log' = Append(log, Completion(job, result)),
         work' = work, wpc' # "deliver", loaded' = loaded \/ loaded' = "Nothing"
  PROVE  Served'
<1> PICK n \in Nat : n = Len(log)
  BY DEF TypeOK
<1> PICK j \in Jobs : j = job
  OBVIOUS
<1> PICK o \in Outcomes : o = result
  BY DEF TypeOK
<1>1. /\ Len(log') = n + 1 /\ log'[n + 1].job = j /\ log'[n + 1].outcome = o
      /\ \A k \in 1..n : log'[k] = log[k] /\ work'[log[k].job] = work[log[k].job]
  BY LogAppend
<1>2. CASE work[job].op \in Changes
  <2>1. \A i \in 1..Len(log') : ServedAt(i)'
    BY <1>2, ServedBehind
  <2>2. ASSUME loaded' # "Nothing" PROVE LoadedIsLatest'
    <3>1. o = "Done" /\ work[j].op = "load" /\ loaded' = ReadBy(j)
      BY <1>2, <2>2 DEF Served, Told
    <3>2. Changed(n + 1)' /\ HasRead(n + 1)' /\ ReadBy(j)' = ReadBy(j)
      BY <1>1, <3>1 DEF Changed, HasRead, ReadBy, Changes
    <3>3. (n + 2) - 1 = n + 1 /\ n + 1 \in 1..(n + 1) /\ \A m \in 1..(n + 1) : m <= n + 1
      OBVIOUS
    <3>4. Latest(n + 1, n + 2)'
      BY <3>2, <3>3 DEF Latest
    <3>5. Len(log') + 1 = n + 2
      BY <1>1
    <3> QED
      BY <1>1, <3>1, <3>2, <3>3, <3>4, <3>5 DEF LoadedIsLatest
  <2>3. LoadedIsLatest'
    BY <2>2 DEF LoadedIsLatest
  <2> QED
    BY <2>1, <2>3 DEF Served, Told
<1>3. CASE work[job].op \notin Changes
  <2>1. LoadedIsLatest /\ (o = "Done" => loaded \in Serving(work[j].op))
    BY <1>3 DEF Served, Told
  <2>2. LoadedIsLatest'
    <3>1. CASE loaded' = loaded
      BY <1>3, <2>1, <3>1, LatestStands
    <3>2. CASE loaded' = "Nothing"
      BY <3>2 DEF LoadedIsLatest
    <3> QED
      BY <3>1, <3>2
  <2>3. CASE o # "Done"
    <3>1. \A i \in 1..Len(log') : ServedAt(i)'
      BY <2>3, ServedBehind
    <3> QED
      BY <2>2, <3>1 DEF Served, Told
  <2>4. CASE o = "Done"
    <3>1. loaded \in Serving(work[j].op) /\ loaded # "Nothing"
      BY <2>1, <2>4, NothingServesNot
    <3>2. PICK k \in 1..n : Latest(k, n + 1) /\ HasRead(k) /\ loaded = ReadBy(log[k].job)
      BY <2>1, <3>1 DEF LoadedIsLatest
    <3>3. /\ Latest(k, n + 1)' /\ HasRead(k)' /\ ReadBy(log[k].job)' = ReadBy(log[k].job) /\ log'[k] = log[k]
      BY <1>1, <3>2, HistoryStands
    <3>4. Serving(work[log[n + 1].job].op)' = Serving(work[j].op)
      BY <1>1 DEF Serving
    <3>5. k \in 1..((n + 1) - 1)
      BY <3>2
    <3>6. ReadBy(log[k].job)' \in Serving(work[log[n + 1].job].op)'
      BY <3>1, <3>2, <3>3, <3>4
    <3>7. ServedAt(n + 1)'
      BY <3>3, <3>5, <3>6 DEF ServedAt
    <3>8. \A i \in 1..n : ServedAt(i)'
      BY <1>1, HistoryStands DEF Served
    <3>9. \A i \in 1..(n + 1) : i \in 1..n \/ i = n + 1
      OBVIOUS
    <3> QED
      BY <1>1, <2>2, <3>7, <3>8, <3>9 DEF Served, Told
  <2> QED
    BY <2>3, <2>4
<1> QED
  BY <1>2, <1>3

\* What a job leaves loaded is what will be told of it.
LEMMA RunServed ==
  ASSUME TypeOK, Served, wpc = "run",
         RunLoad \/ RunUnload \/ RunNotLoaded \/ RunStopped \/ RunFinished
  PROVE  Served'
<1>1. UNCHANGED <<log, work, job>> /\ wpc' = "deliver" /\ LoadedIsLatest
  BY DEF RunLoad, RunUnload, RunNotLoaded, RunStopped, RunFinished, Ends, history, Served, Told
<1>2. \A i \in 1..Len(log) : ServedAt(i)' <=> ServedAt(i)
  <2> PICK n \in Nat : n = Len(log)
    BY DEF TypeOK
  <2>1. \A k \in 1..n : log'[k] = log[k] /\ work'[log[k].job] = work[log[k].job]
    BY <1>1
  <2> QED
    BY <2>1, HistoryStands
<1>3. CASE RunLoad \/ RunUnload
  <2>1. work[job].op \in Changes
    BY <1>3 DEF RunLoad, RunUnload, Changes
  <2>2. result' # "Cancelled" /\ (loaded' # "Nothing" => /\ work[job].op = "load" /\ result' = "Done"
                                                          /\ loaded' = ReadBy(job))
    BY <1>3 DEF RunLoad, RunUnload, Ends, ReadBy, Kinds
  <2>3. ReadBy(job)' = ReadBy(job)
    BY <1>1 DEF ReadBy
  <2> QED
    BY <1>1, <1>2, <2>1, <2>2, <2>3 DEF Served, Told
<1>4. CASE RunNotLoaded \/ RunStopped \/ RunFinished
  <2>1. work[job].op \notin Changes /\ loaded' = loaded
    BY <1>4 DEF RunNotLoaded, RunStopped, RunFinished, IsRequest, Changes
  <2>2. result' = "Done" => loaded \in Serving(work[job].op)
    BY <1>4 DEF RunNotLoaded, RunStopped, RunFinished, Ends
  <2>3. LoadedIsLatest'
    <3> PICK n \in Nat : n = Len(log)
      BY DEF TypeOK
    <3>1. \A k \in 1..n : log'[k] = log[k] /\ work'[log[k].job] = work[log[k].job]
      BY <1>1
    <3>2. /\ \A k \in 1..n : HasRead(k)' <=> HasRead(k)
          /\ \A k \in 1..n : ReadBy(log[k].job)' = ReadBy(log[k].job)
          /\ \A k \in 1..n : Latest(k, n + 1)' <=> Latest(k, n + 1)
      BY <3>1, HistoryStands
    <3> QED
      BY <1>1, <2>1, <3>2 DEF LoadedIsLatest
  <2>4. Serving(work[job].op)' = Serving(work[job].op)
    BY <1>1 DEF Serving
  <2> QED
    BY <1>1, <1>2, <2>1, <2>2, <2>3, <2>4 DEF Served, Told
<1> QED
  BY <1>3, <1>4

\* Every step keeps the history and what is loaded in agreement.
LEMMA StepServed ==
  ASSUME Typed, OneHolder, Served, [Next]_vars
  PROVE  Served'
<1> USE DEF shared, caller, thread, history
<1>0. TypeOK /\ ThreadHolds /\ (wpc \in Busy => job \in Jobs)
  BY DEF Typed, ThreadHolds, HasJob
\* A number that is given out is of no job that is over or on the thread.
<1>1. ASSUME NEW c \in Callers, NEW w \in Works, Submit(c, w) PROVE Served'
  <2>1. work' = [work EXCEPT ![next] = w] /\ UNCHANGED <<log, loaded, wpc, job, result>>
    BY <1>1 DEF Submit
  <2>2. next # job /\ next \in Nat
    BY <1>0, <1>1 DEF OneHolder, HistoryHolds, Submit, TypeOK, Jobs, NoJob
  <2>3. ASSUME NEW k \in 1..Len(log) PROVE log[k].job # next /\ log[k].job \in Jobs
    <3>1. log[k].job \in Ended
      BY DEF Ended
    <3>2. log[k].job < next /\ log[k].job \in Jobs
      BY <1>0, <3>1, EndedAreJobs DEF OneHolder, HistoryHolds
    <3> QED
      BY <2>2, <3>2 DEF Jobs
  <2>4. \A k \in 1..Len(log) : work'[log[k].job] = work[log[k].job]
    BY <1>0, <2>1, <2>3 DEF TypeOK
  <2>5. CASE wpc = "deliver"
    <3>1. work'[job] = work[job]
      BY <1>0, <2>1, <2>2, <2>5 DEF TypeOK, Busy
    <3> QED
      BY <1>0, <2>1, <2>4, <3>1, ServedStands
  <2>6. CASE wpc # "deliver"
    BY <1>0, <2>1, <2>4, <2>6, ServedStands
  <2> QED
    BY <2>5, <2>6
<1>2. ASSUME UNCHANGED <<log, loaded, work, result>>,
             UNCHANGED <<wpc, job>> \/ {wpc, wpc'} \subseteq ThreadStates \ {"deliver"}
      PROVE  Served'
  BY <1>0, <1>2, ServedStands
<1>3. ASSUME NEW c \in Callers, \/ CallStep(c) /\ ~SubmitEnd(c)
             \/ (\E j \in Jobs : Cancel(c, j)) \/ CancelAll(c) \/ Drop(c)
      PROVE  Served'
  <2>1. UNCHANGED <<log, loaded, work, result, wpc, job>>
    BY <1>3 DEF CallStep, Cancel, CancelAll, Drop, SubmitOpen, SubmitSend, SubmitRefused, CancelMark, CancelLook,
       CancelRaise, CancelAllMark, CancelAllLook, CancelAllRaise, DropQuit, DropJoin
  <2> QED
    BY <1>2, <2>1
<1>4. ASSUME NEW c \in Callers, SubmitEnd(c) PROVE Served'
  <2>1. PICK j \in Jobs : log' = Append(log, Completion(j, "Cancelled"))
    BY <1>0, <1>4 DEF SubmitEnd, TypeOK
  <2>2. UNCHANGED <<loaded, work, wpc, job, result>>
    BY <1>4 DEF SubmitEnd
  <2> QED
    BY <1>0, <2>1, <2>2, CancelledServed
<1>5. CASE \/ TakeJob \/ Skip \/ Clear \/ Claim \/ Recheck \/ RecheckRaise \/ RunReport
           \/ Unclaim \/ Forget \/ Close
  <2>1. UNCHANGED <<log, loaded, work, result>> /\ {wpc, wpc'} \subseteq ThreadStates \ {"deliver"}
    BY <1>5 DEF TakeJob, Skip, Clear, Claim, Recheck, RecheckRaise, RunReport, Unclaim, Forget, Close, ThreadStates
  <2> QED
    BY <1>2, <2>1
<1>6. CASE TakeQuit
  <2>1. UNCHANGED <<log, work>> /\ loaded' = "Nothing" /\ wpc' = "exited"
    BY <1>6 DEF TakeQuit
  <2> PICK n \in Nat : n = Len(log)
    BY <1>0 DEF TypeOK
  <2>2. \A k \in 1..n : log'[k] = log[k] /\ work'[log[k].job] = work[log[k].job]
    BY <2>1
  <2>3. \A i \in 1..n : ServedAt(i)'
    BY <2>2, HistoryStands DEF Served
  <2> QED
    BY <2>1, <2>3 DEF Served, Told, LoadedIsLatest
<1>7. CASE SkipEnd
  BY <1>0, <1>7, CancelledServed DEF SkipEnd, Busy
<1>8. CASE RunLoad \/ RunUnload \/ RunNotLoaded \/ RunStopped \/ RunFinished
  BY <1>0, <1>8, RunServed DEF RunLoad, RunUnload, RunNotLoaded, RunStopped, RunFinished
<1>9. CASE Deliver
  BY <1>0, <1>9, ToldServed DEF Deliver, Busy
<1>10. CASE DeliverPanics
  <2>1. CASE wpc = "deliver"
    BY <1>0, <1>10, <2>1, ToldServed DEF DeliverPanics, Busy
  <2>2. CASE wpc = "skipEnd"
    <3>1. log' = Append(log, Completion(job, "Cancelled")) /\ work' = work /\ loaded' = "Nothing" /\ wpc' = "dead"
      BY <1>10, <2>2 DEF DeliverPanics
    <3>2. job \in Jobs /\ "Cancelled" \in Outcomes
      BY <1>0, <2>2 DEF Busy, Outcomes
    <3>3. \A i \in 1..Len(log') : ServedAt(i)'
      BY <1>0, <3>1, <3>2, ServedBehind
    <3> QED
      BY <3>1, <3>3 DEF Served, Told, LoadedIsLatest
  <2> QED
    BY <1>10, <2>1, <2>2 DEF DeliverPanics
<1>11. CASE UNCHANGED vars
  BY <1>2, <1>11 DEF vars
<1>12. CASE Work
  BY <1>5, <1>6, <1>7, <1>8, <1>9, <1>10, <1>12 DEF Work
<1>13. ASSUME NEW c \in Callers, Call(c) PROVE Served'
  BY <1>1, <1>3, <1>13 DEF Call
<1>14. ASSUME NEW c \in Callers, CallStep(c) PROVE Served'
  BY <1>3, <1>4, <1>14
<1> QED
  BY <1>11, <1>12, <1>13, <1>14 DEF Next

\* A request is answered by the model the last load or unload before it left, for any order of
\* loads, requests and cancels: one cancelled in the queue changes nothing, one that failed leaves
\* nothing, and a thread that dies answers nothing more.
THEOREM AnsweredByLastLoad == Spec => []ServedByLastLoad
<1>1. Init => Served
  BY DEF Init, Served, Told, LoadedIsLatest
<1>2. Typed /\ OneHolder /\ Served /\ [Next]_vars => Served'
  BY StepServed
<1>3. Typed /\ Served => ServedByLastLoad
  <2> SUFFICES ASSUME Typed, Served, NEW i \in 1..Len(log) PROVE ServedByLastLoad!(i)
    BY DEF ServedByLastLoad
  <2> DEFINE op == work[log[i].job].op
             changes == {k \in 1..(i - 1) : /\ work[log[k].job].op \in {"load", "unload"}
                                            /\ log[k].outcome # "Cancelled"}
             last == CHOOSE k \in changes : \A m \in changes : m <= k
             model == work[log[last].job].model
  <2>1. ASSUME op \notin {"load", "unload"}, log[i].outcome = "Done"
        PROVE  /\ changes # {}
               /\ work[log[last].job].op = "load" /\ log[last].outcome = "Done"
               /\ (IF model = "tones" THEN "Voice" ELSE model) \in Serving(op)
    <3>1. PICK k \in 1..(i - 1) : Latest(k, i) /\ HasRead(k) /\ ReadBy(log[k].job) \in Serving(op)
      BY <2>1 DEF Served, ServedAt, Changes
    <3>2. k \in changes /\ \A m \in changes : m <= k
      BY <3>1 DEF Latest, Changed, Changes
    <3>3. last \in changes /\ \A m \in changes : m <= last
      <4>1. \E x : x \in changes /\ \A m \in changes : m <= x
        BY <3>2
      <4> HIDE DEF changes
      <4> QED
        BY <4>1, Zenon
    <3>4. last = k
      <4>0. changes \subseteq Int
        OBVIOUS
      <4> HIDE DEF last, changes
      <4>1. last <= k /\ k <= last /\ last \in Int /\ k \in Int
        BY <3>2, <3>3, <4>0
      <4> QED
        BY <4>1
    <3> HIDE DEF last
    <3> QED
      BY <3>1, <3>2, <3>4 DEF HasRead, ReadBy
  <2> QED
    BY <2>1 DEF ServedByLastLoad
<1> QED
  BY <1>1, <1>2, <1>3, Typing, HolderInvariant, PTL DEF Spec
=============================================================================
