-------------------------------- MODULE Fetch --------------------------------
(***************************************************************************)
(* Fetching published models into the cache: waifu-modelmanager/src/hub.rs *)
(* -- fetch and download, the two ways a file comes down (Hugging Face     *)
(* through a staging directory, ModelScope through a .part that is         *)
(* resumed), the stop they ask for, and remove.  One repository directory, *)
(* which several published models may share.  A fetcher is a fetch on a    *)
(* thread of a process of its own, which may be killed.                    *)
(***************************************************************************)
EXTENDS Integers, Sequences, FiniteSets

CONSTANTS
  Fetchers,     \* the processes that fetch, one fetch at a time each
  Models,       \* the published models of the repository
  FilesOf,      \* of each: its manifest, then the files the manifest names
  Size,         \* of each file: how many blocks it is, a block being what one read returns
  Mirrors,      \* of "HuggingFace" and "ModelScope", those the machine may settle on
  OneOverHttp,  \* a bound: over HTTP no two fetches are under way at once
  Attempts,     \* a bound: the staging directories there may be at once
  MayRemove,    \* whether somebody removes a model
  MayBeKilled,  \* whether a process is killed
  Unreliable    \* whether the network and the server ever fail, or answer out of order

Files == UNION {{FilesOf[m][i] : i \in 1..Len(FilesOf[m])} : m \in Models}

ASSUME FetchAssumption ==
  /\ \A m \in Models : FilesOf[m] \in Seq(Files) /\ Len(FilesOf[m]) >= 2
  /\ Size \in [Files -> Nat \ {0}]
  /\ Mirrors \subseteq {"HuggingFace", "ModelScope"}
  /\ {OneOverHttp, MayRemove, MayBeKilled, Unreliable} \subseteq BOOLEAN

\* What a file holds is a sequence of blocks, each the number of the block of the published file
\* it is, 0 where nothing was written. Absent is no file at all.
Whole(f) == [i \in 1..Size[f] |-> i]
Absent   == <<-1>>
Length(content) == IF content = Absent THEN 0 ELSE Len(content)

\* Writing block b at the place pos blocks into the file.
WrittenAt(content, pos, b) ==
  [i \in 1..(IF Len(content) > pos THEN Len(content) ELSE pos + 1) |->
     IF i = pos + 1 THEN b ELSE IF i <= Len(content) THEN content[i] ELSE 0]

NoModel == "none"
\* How the end of a body is known: by a length sent before it, by its chunks, or by the connection's
\* closing, and then not at all where that comes early.
Bounds  == {"length", "chunks", "closing"}
NoReply == [from |-> 0, says |-> -1, partial |-> FALSE, ends |-> "closing"]

VARIABLES
  mirror,                    \* where the machine fetches from, settled once
  dest, part,                \* the files under their own name and as .part
  pc, model, index,          \* where a fetch is: its step, its model, which of the files
  stopping,                  \* its stop was raised
  outcome,                   \* how its last fetch ended
  have, reply,               \* over HTTP: bytes already here, and what the server answered
  handle, pos, body, done,   \* the open .part: where its file is now, the place written next,
                             \* the block read next, and the count the check is made on
  staged,                    \* of each attempt: what is in its staging directory
  attempt,                   \* of each attempt: its download's thread and who waits for it
  removing                   \* the model being removed

disk     == <<dest, part>>
transfer == <<have, reply, handle, pos, body, done>>
hub      == <<staged, attempt>>
vars == <<mirror, disk, pc, model, index, stopping, outcome, transfer, hub, removing>>

File(p) == FilesOf[model[p]][index[p]]
Free    == [thread |-> "none", owner |-> "none", file |-> "none", waits |-> "nobody"]

Init ==
  /\ mirror \in Mirrors
  /\ dest = [f \in Files |-> Absent] /\ part = [f \in Files |-> Absent]
  /\ pc = [p \in Fetchers |-> "idle"] /\ model = [p \in Fetchers |-> NoModel]
  /\ index = [p \in Fetchers |-> 1] /\ stopping = [p \in Fetchers |-> FALSE]
  /\ outcome = [p \in Fetchers |-> "none"]
  /\ have = [p \in Fetchers |-> 0] /\ reply = [p \in Fetchers |-> NoReply]
  /\ handle = [p \in Fetchers |-> "closed"] /\ pos = [p \in Fetchers |-> 0]
  /\ body = [p \in Fetchers |-> 0] /\ done = [p \in Fetchers |-> 0]
  /\ staged = [a \in Attempts |-> "none"] /\ attempt = [a \in Attempts |-> Free]
  /\ removing = NoModel

-----------------------------------------------------------------------------
(* How a fetch ends, and how it goes on to its next file. *)

\* What the transfer was about is forgotten with it, its handle among handles closed.
Closed(p, handles) ==
  /\ have' = [have EXCEPT ![p] = 0] /\ reply' = [reply EXCEPT ![p] = NoReply]
  /\ handle' = [handles EXCEPT ![p] = "closed"] /\ pos' = [pos EXCEPT ![p] = 0]
  /\ body' = [body EXCEPT ![p] = 0] /\ done' = [done EXCEPT ![p] = 0]

EndsAmong(p, how, handles) ==
  /\ pc' = [pc EXCEPT ![p] = "idle"]
  /\ outcome' = [outcome EXCEPT ![p] = how]
  /\ index' = [index EXCEPT ![p] = 1]
  /\ stopping' = [stopping EXCEPT ![p] = FALSE]
  /\ model' = model
  /\ Closed(p, handles)

Ends(p, how) == EndsAmong(p, how, handle)

Goes(p, where) ==
  /\ pc' = [pc EXCEPT ![p] = where]
  /\ UNCHANGED <<model, index, stopping, outcome>>

\* After the manifest comes reading it, after the last file nothing.
NextFile(p, handles) ==
  \/ /\ index[p] = 1
     /\ Goes(p, "read") /\ Closed(p, handles)
  \/ /\ index[p] > 1 /\ index[p] < Len(FilesOf[model[p]])
     /\ pc' = [pc EXCEPT ![p] = "next"] /\ index' = [index EXCEPT ![p] = @ + 1]
     /\ UNCHANGED <<model, stopping, outcome>> /\ Closed(p, handles)
  \/ /\ index[p] = Len(FilesOf[model[p]])
     /\ EndsAmong(p, "Done", handles)

-----------------------------------------------------------------------------
(* fetch and download. *)

Unused == {a \in Attempts : staged[a] = "none" /\ attempt[a] = Free}

\* Attempts is a bound: a fetch from Hugging Face begins where one is left for it.
Fetch(p, m) ==
  /\ pc[p] = "idle"
  /\ IF mirror = "HuggingFace"
     THEN Cardinality(Unused) > Cardinality({q \in Fetchers : pc[q] # "idle"})
     ELSE OneOverHttp => \A q \in Fetchers : pc[q] = "idle"
  /\ pc' = [pc EXCEPT ![p] = "begin"]
  /\ model' = [model EXCEPT ![p] = m]
  /\ outcome' = [outcome EXCEPT ![p] = "none"]
  /\ UNCHANGED <<disk, index, stopping, transfer, hub, removing, mirror>>

\* Raised from whichever thread the button was pressed on.
Stop(p) ==
  /\ pc[p] # "idle" /\ ~stopping[p]
  /\ stopping' = [stopping EXCEPT ![p] = TRUE]
  /\ UNCHANGED <<disk, pc, model, index, outcome, transfer, hub, removing, mirror>>

\* The look at stop before anything is made, and the one before each file.
Begin(p) ==
  /\ pc[p] = "begin" /\ ~stopping[p]
  /\ Goes(p, "next")
  /\ UNCHANGED <<disk, transfer, hub, removing, mirror>>

TakeStop(p) ==
  /\ pc[p] \in {"begin", "next"} /\ stopping[p]
  /\ Ends(p, "Stopped")
  /\ UNCHANGED <<disk, hub, removing, mirror>>

\* A mutation: a file that is here ends the fetch in place of its download.
AlreadyHereEnds(p) ==
  /\ pc[p] = "next" /\ ~stopping[p] /\ dest[File(p)] # Absent
  /\ Ends(p, "Done")
  /\ UNCHANGED <<disk, hub, removing, mirror>>

AlreadyHere(p) ==
  /\ pc[p] = "next" /\ ~stopping[p] /\ dest[File(p)] # Absent
  /\ NextFile(p, handle)
  /\ UNCHANGED <<disk, hub, removing, mirror>>

StartDownload(p) ==
  /\ pc[p] = "next" /\ ~stopping[p] /\ dest[File(p)] = Absent
  /\ Goes(p, IF mirror = "ModelScope" THEN "measure" ELSE "spawn")
  /\ UNCHANGED <<disk, transfer, hub, removing, mirror>>

\* files_named_by: a manifest that is gone, or is not the one that was published, is an error.
ReadManifest(p) ==
  /\ pc[p] = "read"
  /\ \/ /\ dest[File(p)] = Whole(File(p))
        /\ pc' = [pc EXCEPT ![p] = "next"] /\ index' = [index EXCEPT ![p] = 2]
        /\ UNCHANGED <<model, stopping, outcome, transfer>>
     \/ /\ dest[File(p)] # Whole(File(p))
        /\ Ends(p, "Failed")
  /\ UNCHANGED <<disk, hub, removing, mirror>>

-----------------------------------------------------------------------------
(* download_over_http. *)

Measure(p) ==
  /\ pc[p] = "measure"
  /\ have' = [have EXCEPT ![p] = Length(part[File(p)])]
  /\ Goes(p, "request")
  /\ UNCHANGED <<disk, reply, handle, pos, body, done, hub, removing, mirror>>

\* What a server answers one that has n blocks of f: from is where the body really starts, says
\* what Content-Range begins with (-1 for none), partial is 206, ends how the body's end is known.
\* ModelScope answers 200 with a Content-Range.
Whole200(n, f)  == [from : {0}, says : {-1}, partial : {FALSE}, ends : Bounds]
Ranged(n, f)    == [from : {n}, says : {n}, partial : BOOLEAN, ends : Bounds]
              \cup [from : {n}, says : {-1}, partial : {TRUE}, ends : Bounds]
Elsewhere(n, f) == {r \in [from : 0..(Size[f] - 1), says : 0..(Size[f] - 1), partial : BOOLEAN,
                           ends : Bounds] : r.says = r.from /\ r.from # n}

\* A range is asked for where something is here. One that starts at or past the end cannot be
\* answered with a body: the server refuses it (416).
Answers(n, f) ==
  IF n = 0 THEN Whole200(n, f)
  ELSE (IF n < Size[f] THEN Ranged(n, f) ELSE {})
       \cup (IF Unreliable THEN Whole200(n, f) \cup Elsewhere(n, f) ELSE {})

Request(p) ==
  /\ pc[p] = "request"
  /\ \E r \in Answers(have[p], File(p)) :
       \/ /\ r.says \in {-1, have[p]}
          /\ reply' = [reply EXCEPT ![p] = r]
          /\ Goes(p, "open")
          /\ UNCHANGED <<have, handle, pos, body, done>>
       \/ /\ r.says \notin {-1, have[p]}
          /\ Ends(p, "Failed")
  /\ UNCHANGED <<disk, hub, removing, mirror>>

RequestFails(p) ==
  /\ pc[p] = "request" /\ (Unreliable \/ Answers(have[p], File(p)) = {})
  /\ Ends(p, "Failed")
  /\ UNCHANGED <<disk, hub, removing, mirror>>

\* A mutation: the status is believed and not the header.
ResumingByStatus(p) == have[p] > 0 /\ reply[p].partial

Resuming(p) == have[p] > 0 /\ (reply[p].says = have[p] \/ reply[p].partial)

\* Opened for writing and set to the end, as long as that now is; or created, which empties it.
\* done counts from what was here when it was measured.
OpenPart(p) ==
  /\ pc[p] = "open"
  /\ Resuming(p) => part[File(p)] # Absent
  /\ part' = IF Resuming(p) THEN part ELSE [part EXCEPT ![File(p)] = <<>>]
  /\ pos' = [pos EXCEPT ![p] = IF Resuming(p) THEN Length(part[File(p)]) ELSE 0]
  /\ done' = [done EXCEPT ![p] = IF Resuming(p) THEN have[p] ELSE 0]
  /\ body' = [body EXCEPT ![p] = reply[p].from]
  /\ handle' = [handle EXCEPT ![p] = "part"]
  /\ Goes(p, "copy")
  /\ UNCHANGED <<dest, have, reply, hub, removing, mirror>>

OpenFails(p) ==
  /\ pc[p] = "open" /\ Resuming(p) /\ part[File(p)] = Absent
  /\ Ends(p, "Failed")
  /\ UNCHANGED <<disk, hub, removing, mirror>>

\* One read and the write of it, to the file that was opened, wherever it has been renamed to,
\* and the look at stop after the write.
Copy(p) ==
  /\ pc[p] = "copy" /\ body[p] < Size[File(p)]
  /\ LET write(files) == [files EXCEPT ![File(p)] = WrittenAt(@, pos[p], body[p] + 1)]
     IN  /\ part' = IF handle[p] = "part" THEN write(part) ELSE part
         /\ dest' = IF handle[p] = "dest" THEN write(dest) ELSE dest
  /\ IF stopping[p]
     THEN Ends(p, "Stopped")
     ELSE /\ pos' = [pos EXCEPT ![p] = @ + 1] /\ body' = [body EXCEPT ![p] = @ + 1]
          /\ done' = [done EXCEPT ![p] = @ + 1]
          /\ UNCHANGED <<pc, model, index, stopping, outcome, have, reply, handle>>
  /\ UNCHANGED <<hub, removing, mirror>>

CopyFails(p) ==
  /\ pc[p] = "copy" /\ Unreliable
  /\ Ends(p, "Failed")
  /\ UNCHANGED <<disk, hub, removing, mirror>>

\* The end of the body, or what reads as one: but for a chunked body, which says where it ends, it
\* may come early without an error.
CopyEnds(p) ==
  /\ pc[p] = "copy"
  /\ body[p] = Size[File(p)] \/ (Unreliable /\ reply[p].ends # "chunks")
  /\ Goes(p, "check")
  /\ UNCHANGED <<disk, transfer, hub, removing, mirror>>

Total(p) == (Size[File(p)] - reply[p].from) + (IF Resuming(p) THEN have[p] ELSE 0)

\* Only a length that was sent is held against what came.
CheckLength(p) ==
  /\ pc[p] = "check"
  /\ \/ /\ reply[p].ends = "length" => done[p] = Total(p)
        /\ Goes(p, "rename") /\ UNCHANGED transfer
     \/ /\ reply[p].ends = "length" /\ done[p] # Total(p)
        /\ Ends(p, "Failed")
  /\ UNCHANGED <<disk, hub, removing, mirror>>

Writing == {"copy", "check", "rename"}

\* Whoever else has either file open goes on writing to it under its new name, or under none.
Rename(p) ==
  /\ pc[p] = "rename" /\ part[File(p)] # Absent
  /\ dest' = [dest EXCEPT ![File(p)] = part[File(p)]]
  /\ part' = [part EXCEPT ![File(p)] = Absent]
  /\ NextFile(p, [q \in Fetchers |-> IF pc[q] \notin Writing \/ File(q) # File(p) THEN handle[q]
                                     ELSE IF handle[q] = "part" THEN "dest" ELSE "gone"])
  /\ UNCHANGED <<hub, removing, mirror>>

RenameFails(p) ==
  /\ pc[p] = "rename" /\ part[File(p)] = Absent
  /\ Ends(p, "Failed")
  /\ UNCHANGED <<disk, hub, removing, mirror>>

-----------------------------------------------------------------------------
(* download_from_hugging_face: a thread of the client's own brings the file down into a staging
   directory of this attempt's own, and this one waits for it. *)

Spawn(p) ==
  /\ pc[p] = "spawn"
  /\ \E a \in Unused :
       /\ staged' = [staged EXCEPT ![a] = "partly"]
       /\ attempt' = [attempt EXCEPT ![a] = [thread |-> "running", owner |-> p, file |-> File(p),
                                             waits |-> "fetch"]]
  /\ Goes(p, "wait")
  /\ UNCHANGED <<disk, transfer, removing, mirror>>

\* The client's thread ends: well, whether or not somebody removed its directory, or badly.
Arrive(a) ==
  /\ attempt[a].thread = "running"
  /\ attempt' = [attempt EXCEPT ![a].thread = "ok"]
  /\ staged' = [staged EXCEPT ![a] = IF @ = "partly" THEN "whole" ELSE @]
  /\ UNCHANGED <<disk, pc, model, index, stopping, outcome, transfer, removing, mirror>>

DownloadFails(a) ==
  /\ attempt[a].thread = "running" /\ Unreliable
  /\ attempt' = [attempt EXCEPT ![a].thread = "failed"]
  /\ UNCHANGED <<disk, pc, model, index, stopping, outcome, transfer, staged, removing, mirror>>

Awaited(p, a) == attempt[a].owner = p /\ attempt[a].waits = "fetch"

\* A mutation: stop is looked at once the download has ended.
WaitStopLate(p, a) ==
  /\ pc[p] = "wait" /\ stopping[p] /\ Awaited(p, a) /\ attempt[a].thread # "running"
  /\ attempt' = [attempt EXCEPT ![a].waits = "abandon"]
  /\ Ends(p, "Stopped")
  /\ UNCHANGED <<disk, staged, removing, mirror>>

\* Asked on a clock while the download runs: abandon hands it to a thread that waits.
WaitStop(p, a) ==
  /\ pc[p] = "wait" /\ stopping[p] /\ Awaited(p, a)
  /\ attempt' = [attempt EXCEPT ![a].waits = "abandon"]
  /\ Ends(p, "Stopped")
  /\ UNCHANGED <<disk, staged, removing, mirror>>

WaitJoin(p, a) ==
  /\ pc[p] = "wait" /\ Awaited(p, a) /\ attempt[a].thread = "ok"
  /\ Goes(p, "place")
  /\ UNCHANGED <<disk, transfer, hub, removing, mirror>>

\* The error goes up through ?, past the sweep.
WaitFails(p, a) ==
  /\ pc[p] = "wait" /\ Awaited(p, a) /\ attempt[a].thread = "failed"
  /\ attempt' = [attempt EXCEPT ![a] = Free]
  /\ Ends(p, "Failed")
  /\ UNCHANGED <<disk, staged, removing, mirror>>

Place(p, a) ==
  /\ pc[p] = "place" /\ Awaited(p, a)
  /\ \/ /\ staged[a] = "whole"
        /\ dest' = [dest EXCEPT ![File(p)] = Whole(File(p))]
        /\ staged' = [staged EXCEPT ![a] = "empty"]
        /\ Goes(p, "sweep")
        /\ UNCHANGED <<transfer, attempt>>
     \/ /\ staged[a] # "whole"
        /\ attempt' = [attempt EXCEPT ![a] = Free]
        /\ Ends(p, "Failed")
        /\ UNCHANGED <<dest, staged>>
  /\ UNCHANGED <<part, removing, mirror>>

Sweep(p, a) ==
  /\ pc[p] = "sweep" /\ Awaited(p, a)
  /\ staged' = [staged EXCEPT ![a] = "none"]
  /\ attempt' = [attempt EXCEPT ![a] = Free]
  /\ NextFile(p, handle)
  /\ UNCHANGED <<disk, removing, mirror>>

\* A mutation: what is there is put in its place however the download ended.
AbandonedLandsUnchecked(a) ==
  /\ attempt[a].waits = "abandon" /\ attempt[a].thread \in {"ok", "failed"}
  /\ IF staged[a] \in {"partly", "whole"}
     THEN /\ dest' = [dest EXCEPT ![attempt[a].file] =
                        IF staged[a] = "whole" THEN Whole(attempt[a].file) ELSE <<0>>]
          /\ staged' = [staged EXCEPT ![a] = "empty"]
     ELSE UNCHANGED <<dest, staged>>
  /\ attempt' = [attempt EXCEPT ![a].waits = "sweep"]
  /\ UNCHANGED <<part, pc, model, index, stopping, outcome, transfer, removing, mirror>>

\* abandon's thread: what arrived is put in its place, and the directory goes either way.
AbandonedLands(a) ==
  /\ attempt[a].waits = "abandon" /\ attempt[a].thread \in {"ok", "failed"}
  /\ IF attempt[a].thread = "ok" /\ staged[a] = "whole"
     THEN /\ dest' = [dest EXCEPT ![attempt[a].file] = Whole(attempt[a].file)]
          /\ staged' = [staged EXCEPT ![a] = "empty"]
     ELSE UNCHANGED <<dest, staged>>
  /\ attempt' = [attempt EXCEPT ![a].waits = "sweep"]
  /\ UNCHANGED <<part, pc, model, index, stopping, outcome, transfer, removing, mirror>>

AbandonedSweeps(a) ==
  /\ attempt[a].waits = "sweep"
  /\ staged' = [staged EXCEPT ![a] = "none"]
  /\ attempt' = [attempt EXCEPT ![a] = Free]
  /\ UNCHANGED <<disk, pc, model, index, stopping, outcome, transfer, removing, mirror>>

-----------------------------------------------------------------------------
\* The process is killed: its threads go, and what it had written stays.
Killed(p) ==
  /\ MayBeKilled
  /\ pc[p] # "idle" \/ \E a \in Attempts : attempt[a].owner = p
  /\ attempt' = [a \in Attempts |-> IF attempt[a].owner = p THEN [Free EXCEPT !.thread = "killed"]
                                    ELSE attempt[a]]
  /\ Ends(p, "Killed")
  /\ UNCHANGED <<disk, staged, removing, mirror>>

(* remove: the directory, one entry at a time. *)

Remove(m) ==
  /\ MayRemove /\ removing = NoModel
  /\ removing' = m
  /\ UNCHANGED <<disk, pc, model, index, stopping, outcome, transfer, hub, mirror>>

\* Whoever has the file open goes on writing to nothing.
Unlinked(f, name) ==
  handle' = [q \in Fetchers |-> IF pc[q] \in Writing /\ File(q) = f /\ handle[q] = name
                                THEN "gone" ELSE handle[q]]

RemoveEntry ==
  /\ removing # NoModel
  /\ \/ \E f \in Files : /\ dest[f] # Absent
                         /\ dest' = [dest EXCEPT ![f] = Absent]
                         /\ Unlinked(f, "dest")
                         /\ UNCHANGED <<part, staged>>
     \/ \E f \in Files : /\ part[f] # Absent
                         /\ part' = [part EXCEPT ![f] = Absent]
                         /\ Unlinked(f, "part")
                         /\ UNCHANGED <<dest, staged>>
     \/ \E a \in Attempts : /\ staged[a] # "none"
                            /\ staged' = [staged EXCEPT ![a] = "none"]
                            /\ UNCHANGED <<disk, handle>>
  /\ UNCHANGED <<pc, model, index, stopping, outcome, have, reply, pos, body, done, attempt, removing, mirror>>

\* Nothing is left; or something could not be deleted.
RemoveEnds ==
  /\ removing # NoModel
  /\ removing' = NoModel
  /\ UNCHANGED <<disk, pc, model, index, stopping, outcome, transfer, hub, mirror>>

-----------------------------------------------------------------------------
\* What the fetch's own thread does, the client's thread left out.
FetchStep(p) ==
  \/ Begin(p) \/ TakeStop(p) \/ AlreadyHere(p) \/ StartDownload(p) \/ ReadManifest(p)
  \/ Measure(p) \/ Request(p) \/ RequestFails(p) \/ OpenPart(p) \/ OpenFails(p)
  \/ Copy(p) \/ CopyFails(p) \/ CopyEnds(p) \/ CheckLength(p) \/ Rename(p) \/ RenameFails(p)
  \/ Spawn(p)
  \/ \E a \in Attempts : \/ WaitStop(p, a) \/ WaitJoin(p, a) \/ WaitFails(p, a)
                         \/ Place(p, a) \/ Sweep(p, a)

Client(a) == Arrive(a) \/ DownloadFails(a)

Next ==
  \/ \E p \in Fetchers : \/ \E m \in Models : Fetch(p, m)
                         \/ Stop(p) \/ FetchStep(p) \/ Killed(p)
  \/ \E a \in Attempts : Client(a) \/ AbandonedLands(a) \/ AbandonedSweeps(a)
  \/ \E m \in Models : Remove(m)
  \/ RemoveEntry \/ RemoveEnds

Spec == Init /\ [][Next]_vars

\* A fetch's thread runs and its reads come back, with bytes or without. Nothing is assumed of
\* the Hugging Face client, whose download may hang.
FairSpec == Spec /\ \A p \in Fetchers : WF_vars(FetchStep(p))

-----------------------------------------------------------------------------
\* A body that only the closing of the connection ends was cut short: nothing tells, and what came
\* of the file is put under its name. It is the file's first blocks, in order.
CutUnseen(f) ==
  \E p \in Fetchers :
    /\ pc[p] = "rename" /\ File(p) = f
    /\ reply[p].ends = "closing" /\ body[p] < Size[f]
    /\ dest'[f] = SubSeq(Whole(f), 1, body[p])

\* "Neither writes to destination until it holds a whole file": what comes to be under a file's own
\* name is the whole of what was published, whatever answered, stopped, failed or was killed on the
\* way. The code does not keep this where CutUnseen; and then what is there has no hole and nothing of
\* another place.
WholeOrNothing ==
  [][\A f \in Files : dest'[f] \in {dest[f], Absent, Whole(f)} \/ CutUnseen(f)]_vars

Cached(m) == \A i \in 1..Len(FilesOf[m]) : dest[FilesOf[m][i]] # Absent

\* A fetch that ended well has left a model that reads as cached, where nobody removes one.
DoneIsCached == \A p \in Fetchers : outcome[p] = "Done" => Cached(model[p])

\* What is under a file's own name stays there until somebody removes it: no other fetch, stop,
\* abandoned download or kill takes it back.
ArrivedStays == [][\A f \in Files : dest[f] = Whole(f) /\ removing = NoModel => dest'[f] = dest[f]]_vars

\* "What has come down is kept, and fetching it again carries on from there": with a network and
\* a server that always answer, no fetch fails. The code does not keep this where what came down
\* is all of the file.
StoppedCarriesOn == \A p \in Fetchers : outcome[p] # "Failed"

\* "The whole directory the model was fetched into, which is its own and holds nothing else": while
\* no fetch goes on, removing one model makes no other incomplete. The code does not keep this
\* where two are published from one repository.
RemovesItsOwn ==
  [][\A m \in Models :
       Cached(m) /\ (\A p \in Fetchers : pc[p] = "idle") => Cached(m)' \/ removing = m]_vars

\* A stop ends the fetch, whatever the download it is waiting for does.
StopEnds == \A p \in Fetchers : stopping[p] ~> pc[p] = "idle"
=============================================================================
