----------------------------- MODULE FetchProofs -----------------------------
(***************************************************************************)
(* What holds of Fetch for any processes, models, files and sizes of them. *)
(***************************************************************************)
EXTENDS Fetch, TLAPS

\* What is published, and what of it may be here.
Upto(n) == [i \in 1..n |-> i]

OverHttp == {"measure", "request", "open", "copy", "check", "rename"}
OverHub  == {"spawn", "wait", "place", "sweep"}
Steps    == {"idle", "begin", "next", "read"} \cup OverHttp \cup OverHub

Handles  == {"closed", "part", "dest", "gone"}
Replies  == [from : Nat, says : Int, partial : BOOLEAN, ends : Bounds]

\* What a file holds and what a fetch keeps; one under way is of a file that is.
TypedDisk == mirror \in Mirrors /\ dest \in [Files -> Seq(Int)] /\ part \in [Files -> Seq(Int)]

TypedPlaces ==
  /\ pc \in [Fetchers -> Steps] /\ stopping \in [Fetchers -> BOOLEAN]
  /\ outcome \in [Fetchers -> {"none", "Done", "Stopped", "Failed", "Killed"}]
  /\ index \in [Fetchers -> Nat \ {0}] /\ model \in [Fetchers -> Models \cup {NoModel}]
  /\ \A p \in Fetchers :
       /\ pc[p] = "idle" => index[p] = 1
       /\ pc[p] # "idle" => model[p] \in Models /\ index[p] <= Len(FilesOf[model[p]])
       /\ pc[p] = "read" => index[p] = 1

TypedTransfer ==
  /\ have \in [Fetchers -> Nat] /\ reply \in [Fetchers -> Replies]
  /\ handle \in [Fetchers -> Handles]
  /\ pos \in [Fetchers -> Nat] /\ body \in [Fetchers -> Nat] /\ done \in [Fetchers -> Nat]

Typed == TypedDisk /\ TypedPlaces /\ TypedTransfer

\* A fetch that ended well left every file of its model, and one under way leaves those it is past,
\* from the one being swept for on.
Behind(p, i) == i < index[p] \/ (i = index[p] /\ pc[p] \in {"read", "sweep"})

FetchedBy(p) ==
  /\ pc[p] # "idle" => \A i \in 1..Len(FilesOf[model[p]]) :
                         Behind(p, i) => dest[FilesOf[model[p]][i]] # Absent
  /\ outcome[p] = "Done" => pc[p] = "idle" /\ model[p] \in Models /\ Cached(model[p])

Fetched == removing = NoModel /\ \A p \in Fetchers : FetchedBy(p)

\* Over HTTP no two fetches are under way, and each mirror has steps of its own.
Alone ==
  \A p \in Fetchers :
    /\ pc[p] \in OverHttp => mirror = "ModelScope"
    /\ pc[p] \in OverHub => mirror = "HuggingFace"
    /\ mirror = "ModelScope" /\ pc[p] # "idle" => \A q \in Fetchers : pc[q] # "idle" => q = p

\* Over HTTP nothing is left running behind a stop, to put a file in its place later.
NoneLeft == mirror = "ModelScope" => attempt \in [Attempts -> {Free, [Free EXCEPT !.thread = "killed"]}]

\* A .part holds the first blocks of its file.
Exact == \A f \in Files : part[f] = Absent \/ \E n \in 0..Size[f] : part[f] = Upto(n)

\* A transfer is of a file that is not there. What was measured is there or was removed; what the
\* server sends goes on where the file ends; and what is renamed is the whole file, unless the
\* connection's closing was all that told where it ends.
Sound(p) ==
  /\ pc[p] \in OverHttp => dest[File(p)] = Absent
  /\ pc[p] \in {"request", "open"} => have[p] <= Size[File(p)] /\ part[File(p)] \in {Absent, Upto(have[p])}
  /\ pc[p] \in {"open"} \cup Writing => reply[p].from = (IF Resuming(p) THEN have[p] ELSE 0)
  /\ pc[p] \in Writing =>
       /\ pos[p] = body[p] /\ done[p] = body[p] /\ body[p] <= Size[File(p)]
       /\ \/ handle[p] = "part" /\ part[File(p)] = Upto(body[p])
          \/ handle[p] = "gone" /\ part[File(p)] = Absent
  /\ pc[p] = "check" /\ reply[p].ends = "chunks" => body[p] = Size[File(p)]
  /\ pc[p] = "rename" /\ reply[p].ends # "closing" => body[p] = Size[File(p)]

Exactly == Alone /\ NoneLeft /\ Exact /\ \A p \in Fetchers : Sound(p)

-----------------------------------------------------------------------------
\* A sequence is a function from its positions.
LEMMA FunctionIsSeq == ASSUME NEW S, NEW n \in Nat, NEW s \in [1..n -> S] PROVE s \in Seq(S) /\ Len(s) = n
  OBVIOUS

\* The first n blocks of what is published, none of them or all, are not the absence of a file.
LEMMA UptoIsThere ==
  ASSUME NEW n \in Nat
  PROVE  Upto(n) \in Seq(Int) /\ Len(Upto(n)) = n /\ Upto(n) # Absent
<1>1. Upto(n) \in Seq(Int) /\ Len(Upto(n)) = n
  BY FunctionIsSeq DEF Upto
<1>2. CASE n = 1
  <2>1. Upto(n)[1] = 1
    BY <1>2 DEF Upto
  <2>2. Absent[1] = -1
    BY DEF Absent
  <2> QED
    BY <1>1, <2>1, <2>2
<1>3. CASE n # 1
  <2>1. Len(Absent) = 1
    BY DEF Absent
  <2> QED
    BY <1>1, <1>3, <2>1
<1> QED
  BY <1>1, <1>2, <1>3

\* A published file has a block at least.
LEMMA SizeOfFile == \A f \in Files : Size[f] \in Nat \ {0}
  BY FetchAssumption

\* The whole of a file is its first Size blocks, and is not the absence of it.
LEMMA WholeIsThere ==
  ASSUME NEW f \in Files
  PROVE  Whole(f) = Upto(Size[f]) /\ Whole(f) \in Seq(Int) /\ Whole(f) # Absent
  BY SizeOfFile, UptoIsThere DEF Whole, Upto

\* The file a fetch is about.
LEMMA FileIsOne ==
  ASSUME NEW p \in Fetchers, model[p] \in Models, index[p] \in 1..Len(FilesOf[model[p]])
  PROVE  File(p) \in Files /\ Size[File(p)] \in Nat \ {0}
<1>1. File(p) \in Files
  BY DEF File, Files
<1> QED
  BY <1>1, SizeOfFile

\* What is written is a file, whatever it was before.
LEMMA WrittenIsThere ==
  ASSUME NEW content \in Seq(Int), NEW at \in Nat, NEW b \in Nat
  PROVE  WrittenAt(content, at, b + 1) \in Seq(Int) /\ WrittenAt(content, at, b + 1) # Absent
<1> DEFINE n == IF Len(content) > at THEN Len(content) ELSE at + 1
           w == WrittenAt(content, at, b + 1)
<1>1. n \in Nat /\ at + 1 \in 1..n
  OBVIOUS
<1>2. w \in [1..n -> Int] /\ w[at + 1] = b + 1
  BY <1>1 DEF WrittenAt
<1>3. w \in Seq(Int) /\ Len(w) = n
  BY <1>1, <1>2, FunctionIsSeq
<1> HIDE DEF n, w
<1>4. ASSUME w = Absent PROVE FALSE
  <2>1. Len(Absent) = 1 /\ Absent[1] = -1
    BY DEF Absent
  <2>2. n = 1
    BY <1>3, <1>4, <2>1
  <2>3. at + 1 = 1
    BY <1>1, <2>2
  <2>4. b + 1 = -1
    BY <1>2, <1>4, <2>1, <2>3
  <2> QED
    BY <2>4
<1>5. w \in Seq(Int) /\ w # Absent
  BY <1>3, <1>4
<1> QED
  BY <1>5 DEF w

\* What is measured of a .part, or of none, is a number of blocks.
LEMMA LengthIsNat == ASSUME NEW c \in Seq(Int) PROVE Length(c) \in Nat
  BY DEF Length

\* What a server may answer is of the type a fetch keeps.
LEMMA AnswersAreReplies ==
  ASSUME NEW n \in Nat, NEW f \in Files, NEW r \in Answers(n, f)
  PROVE  r \in Replies
<1>1. CASE r \in Whole200(n, f)
  <2> PICK k \in Bounds : r = [from |-> 0, says |-> -1, partial |-> FALSE, ends |-> k]
    BY <1>1 DEF Whole200
  <2> QED
    BY DEF Replies
<1>2. CASE r \in Ranged(n, f)
  <2>1. r = [from |-> r.from, says |-> r.says, partial |-> r.partial, ends |-> r.ends]
    BY <1>2 DEF Ranged
  <2>2. r.from = n /\ r.says \in {n, -1} /\ r.partial \in BOOLEAN /\ r.ends \in Bounds
    BY <1>2 DEF Ranged
  <2>3. r.from \in Nat /\ r.says \in Int
    BY <2>2
  <2> QED
    BY <2>1, <2>2, <2>3 DEF Replies
<1>3. CASE r \in Elsewhere(n, f)
  BY <1>3, SizeOfFile DEF Elsewhere, Replies
<1> QED
  BY <1>1, <1>2, <1>3 DEF Answers

-----------------------------------------------------------------------------
(* Types. *)

\* A transfer forgotten is one that never began.
LEMMA ClosedTyped ==
  ASSUME TypedTransfer, NEW p \in Fetchers, NEW handles \in [Fetchers -> Handles], Closed(p, handles)
  PROVE  TypedTransfer'
<1>1. NoReply \in Replies
  BY DEF NoReply, Replies, Bounds
<1> QED
  BY <1>1 DEF TypedTransfer, Closed, Handles

\* Ending a fetch keeps the types, whatever becomes of the other handles.
LEMMA EndsTyped ==
  ASSUME TypedPlaces, TypedTransfer, NEW p \in Fetchers, NEW handles \in [Fetchers -> Handles],
         NEW how \in {"Done", "Stopped", "Failed", "Killed"}, EndsAmong(p, how, handles)
  PROVE  TypedPlaces' /\ TypedTransfer'
<1>1. TypedTransfer'
  BY ClosedTyped DEF EndsAmong
<1>2. TypedPlaces'
  BY DEF EndsAmong, TypedPlaces, Steps
<1> QED
  BY <1>1, <1>2

\* The same where no other handle changes.
LEMMA EndTyped ==
  ASSUME TypedPlaces, TypedTransfer, NEW p \in Fetchers,
         NEW how \in {"Done", "Stopped", "Failed", "Killed"}, Ends(p, how)
  PROVE  TypedPlaces' /\ TypedTransfer'
<1>1. handle \in [Fetchers -> Handles]
  BY DEF TypedTransfer
<1> QED
  BY <1>1, EndsTyped DEF Ends

\* Going on to another step of the same file keeps the types.
LEMMA GoesTyped ==
  ASSUME TypedPlaces, NEW p \in Fetchers, pc[p] # "idle",
         NEW where \in Steps \ {"idle", "read"}, Goes(p, where)
  PROVE  TypedPlaces'
  BY DEF Goes, TypedPlaces

\* Going on to the next file stays within the files the manifest names.
LEMMA NextFileTyped ==
  ASSUME TypedPlaces, TypedTransfer, NEW p \in Fetchers, pc[p] # "idle",
         NEW handles \in [Fetchers -> Handles], NextFile(p, handles)
  PROVE  TypedPlaces' /\ TypedTransfer'
<1>1. CASE index[p] = 1 /\ Goes(p, "read") /\ Closed(p, handles)
  <2>1. TypedTransfer'
    BY <1>1, ClosedTyped
  <2> QED
    BY <1>1, <2>1 DEF Goes, TypedPlaces, Steps
<1>2. CASE /\ index[p] > 1 /\ index[p] < Len(FilesOf[model[p]])
           /\ pc' = [pc EXCEPT ![p] = "next"] /\ index' = [index EXCEPT ![p] = @ + 1]
           /\ UNCHANGED <<model, stopping, outcome>> /\ Closed(p, handles)
  <2>1. TypedTransfer'
    BY <1>2, ClosedTyped
  <2>2. model[p] \in Models /\ index[p] \in Nat \ {0}
    BY DEF TypedPlaces
  <2>3. Len(FilesOf[model[p]]) \in Nat
    BY <2>2, FetchAssumption
  <2>4. index[p] + 1 \in Nat \ {0} /\ index[p] + 1 <= Len(FilesOf[model[p]])
    BY <1>2, <2>2, <2>3
  <2> QED
    BY <1>2, <2>1, <2>4 DEF TypedPlaces, Steps
<1>3. CASE EndsAmong(p, "Done", handles)
  BY <1>3, EndsTyped
<1> QED
  BY <1>1, <1>2, <1>3 DEF NextFile

\* What a fetch is about, for as long as it is under way.
LEMMA AboutAFile ==
  ASSUME TypedPlaces, NEW p \in Fetchers, pc[p] # "idle"
  PROVE  /\ model[p] \in Models /\ index[p] \in 1..Len(FilesOf[model[p]])
         /\ File(p) \in Files /\ Size[File(p)] \in Nat \ {0}
<1>1. model[p] \in Models /\ index[p] \in Nat \ {0} /\ index[p] <= Len(FilesOf[model[p]])
  BY DEF TypedPlaces
<1>2. Len(FilesOf[model[p]]) \in Nat
  BY <1>1, FetchAssumption
<1>3. index[p] \in 1..Len(FilesOf[model[p]])
  BY <1>1, <1>2
<1> QED
  BY <1>1, <1>3, FileIsOne

\* The types hold before any fetch.
LEMMA StartTyped == Init => Typed
<1> SUFFICES ASSUME Init PROVE Typed
  OBVIOUS
<1>1. Absent \in Seq(Int) /\ NoReply \in Replies
  BY DEF Absent, NoReply, Replies, Bounds
<1> QED
  BY <1>1 DEF Init, Typed, TypedDisk, TypedPlaces, TypedTransfer, Steps, Handles

\* A fetch begins with its manifest, of a model that is published.
LEMMA FetchTyped ==
  ASSUME Typed, NEW p \in Fetchers, NEW m \in Models, Fetch(p, m)
  PROVE  Typed'
<1>1. Len(FilesOf[m]) \in Nat /\ Len(FilesOf[m]) >= 2
  BY FetchAssumption
<1>2. TypedPlaces'
  BY <1>1 DEF Typed, TypedPlaces, Fetch, Steps
<1>3. TypedDisk' /\ TypedTransfer'
  BY DEF Typed, TypedDisk, TypedTransfer, Fetch, disk, transfer
<1> QED
  BY <1>2, <1>3 DEF Typed

\* The steps that touch no file.
LEMMA PlainTyped ==
  ASSUME Typed, NEW p \in Fetchers, UNCHANGED <<dest, part, mirror>>,
         \/ Stop(p) \/ Begin(p) \/ TakeStop(p) \/ AlreadyHere(p) \/ StartDownload(p) \/ ReadManifest(p)
         \/ RequestFails(p) \/ OpenFails(p) \/ CopyFails(p) \/ CopyEnds(p) \/ CheckLength(p)
         \/ RenameFails(p) \/ Spawn(p) \/ Killed(p)
  PROVE  Typed'
<1> TypedPlaces /\ TypedTransfer /\ handle \in [Fetchers -> Handles]
  BY DEF Typed, TypedTransfer
<1>0. TypedDisk'
  BY DEF Typed, TypedDisk
<1>1. CASE Stop(p)
  <2>1. TypedPlaces'
    BY <1>1 DEF Stop, TypedPlaces
  <2> QED
    BY <1>0, <1>1, <2>1 DEF Typed, TypedTransfer, Stop, transfer
<1>2. CASE /\ pc[p] # "idle" /\ UNCHANGED transfer
           /\ \E where \in Steps \ {"idle", "read"} : Goes(p, where)
  <2>1. TypedPlaces'
    BY <1>2, GoesTyped
  <2> QED
    BY <1>0, <1>2, <2>1 DEF Typed, TypedTransfer, transfer
<1>3. CASE \E how \in {"Done", "Stopped", "Failed", "Killed"} : Ends(p, how)
  BY <1>0, <1>3, EndTyped DEF Typed
<1>4. CASE pc[p] # "idle" /\ NextFile(p, handle)
  BY <1>0, <1>4, NextFileTyped DEF Typed
<1>5. CASE ReadManifest(p) /\ dest[File(p)] = Whole(File(p)) /\ UNCHANGED transfer
           /\ pc' = [pc EXCEPT ![p] = "next"] /\ index' = [index EXCEPT ![p] = 2]
           /\ UNCHANGED <<model, stopping, outcome>>
  <2>1. pc[p] = "read" /\ model[p] \in Models
    BY <1>5 DEF ReadManifest, TypedPlaces
  <2>2. Len(FilesOf[model[p]]) \in Nat /\ Len(FilesOf[model[p]]) >= 2
    BY <2>1, FetchAssumption
  <2>3. TypedPlaces'
    BY <1>5, <2>1, <2>2 DEF TypedPlaces, Steps
  <2> QED
    BY <1>0, <1>5, <2>3 DEF Typed, TypedTransfer, transfer
<1>6. CASE Begin(p) \/ StartDownload(p) \/ CopyEnds(p) \/ Spawn(p)
  <2>1. pc[p] # "idle" /\ UNCHANGED transfer
    BY <1>6 DEF Begin, StartDownload, CopyEnds, Spawn
  <2>2. \E where \in {"next", "measure", "spawn", "check", "wait"} : Goes(p, where)
    BY <1>6 DEF Begin, StartDownload, CopyEnds, Spawn
  <2> QED
    BY <1>2, <2>1, <2>2 DEF Steps, OverHttp, OverHub
<1>7. CASE TakeStop(p) \/ RequestFails(p) \/ OpenFails(p) \/ CopyFails(p) \/ RenameFails(p) \/ Killed(p)
  BY <1>3, <1>7 DEF TakeStop, RequestFails, OpenFails, CopyFails, RenameFails, Killed
<1>8. CASE AlreadyHere(p)
  BY <1>4, <1>8 DEF AlreadyHere
<1>9. CASE ReadManifest(p)
  BY <1>3, <1>5, <1>9 DEF ReadManifest
<1>10. CASE CheckLength(p)
  <2>1. pc[p] # "idle" /\ ("rename" \in Steps \ {"idle", "read"})
    BY <1>10 DEF CheckLength, Steps, OverHttp
  <2> QED
    BY <1>2, <1>3, <1>10, <2>1 DEF CheckLength
<1> QED
  BY <1>1, <1>6, <1>7, <1>8, <1>9, <1>10

\* Measuring what is here keeps the types.
LEMMA MeasureTyped ==
  ASSUME Typed, NEW p \in Fetchers, Measure(p)
  PROVE  Typed'
<1>1. pc[p] # "idle" /\ TypedPlaces /\ "request" \in Steps \ {"idle", "read"} /\ Goes(p, "request")
  BY DEF Measure, Typed, Steps, OverHttp
<1>2. TypedPlaces'
  BY <1>1, GoesTyped
<1>3. Length(part[File(p)]) \in Nat
  BY <1>1, AboutAFile, LengthIsNat DEF Typed, TypedDisk
<1>4. TypedDisk' /\ TypedTransfer'
  BY <1>3 DEF Measure, Typed, TypedDisk, TypedTransfer, disk
<1> QED
  BY <1>2, <1>4 DEF Typed

\* A request keeps the types, whatever the server answers.
LEMMA RequestTyped ==
  ASSUME Typed, NEW p \in Fetchers, Request(p)
  PROVE  Typed'
<1>1. pc[p] # "idle" /\ TypedPlaces /\ TypedTransfer /\ "open" \in Steps \ {"idle", "read"}
  BY DEF Request, Typed, Steps, OverHttp
<1>2. TypedDisk'
  BY DEF Request, Typed, TypedDisk, disk
<1>3. have[p] \in Nat /\ File(p) \in Files
  BY <1>1, AboutAFile DEF TypedTransfer
<1>4. CASE Ends(p, "Failed")
  BY <1>1, <1>2, <1>4, EndTyped DEF Typed
<1>5. ASSUME NEW r \in Answers(have[p], File(p)), reply' = [reply EXCEPT ![p] = r], Goes(p, "open"),
             UNCHANGED <<have, handle, pos, body, done>>
      PROVE  Typed'
  <2>1. TypedPlaces'
    BY <1>1, <1>5, GoesTyped
  <2>2. r \in Replies
    BY <1>3, AnswersAreReplies
  <2>3. TypedTransfer'
    BY <1>1, <1>5, <2>2 DEF TypedTransfer
  <2> QED
    BY <1>2, <2>1, <2>3 DEF Typed
<1> QED
  BY <1>4, <1>5 DEF Request

\* Opening the .part keeps the types.
LEMMA OpenTyped ==
  ASSUME Typed, NEW p \in Fetchers, OpenPart(p)
  PROVE  Typed'
<1>1. pc[p] # "idle" /\ TypedPlaces /\ "copy" \in Steps \ {"idle", "read"} /\ Goes(p, "copy")
  BY DEF OpenPart, Typed, Steps, OverHttp
<1>2. TypedPlaces'
  BY <1>1, GoesTyped
<1>3. Length(part[File(p)]) \in Nat /\ File(p) \in Files
  BY <1>1, AboutAFile, LengthIsNat DEF Typed, TypedDisk
<1>4. reply[p].from \in Nat /\ have[p] \in Nat
  BY DEF Typed, TypedTransfer, Replies
<1>5. <<>> \in Seq(Int)
  OBVIOUS
<1>6. TypedDisk'
  BY <1>3, <1>5 DEF OpenPart, Typed, TypedDisk
<1>7. TypedTransfer'
  BY <1>3, <1>4 DEF OpenPart, Typed, TypedTransfer, Handles
<1> QED
  BY <1>2, <1>6, <1>7 DEF Typed

\* Writing a block keeps the types, whichever file the handle is of by now.
LEMMA CopyTyped ==
  ASSUME Typed, NEW p \in Fetchers, Copy(p)
  PROVE  Typed'
<1>1. pc[p] # "idle" /\ TypedPlaces /\ TypedTransfer
  BY DEF Copy, Typed
<1>2. File(p) \in Files /\ pos[p] \in Nat /\ body[p] \in Nat /\ done[p] \in Nat
  BY <1>1, AboutAFile DEF TypedTransfer
<1>3. ASSUME NEW content \in Seq(Int) PROVE WrittenAt(content, pos[p], body[p] + 1) \in Seq(Int)
  BY <1>2, <1>3, WrittenIsThere
<1>4. TypedDisk'
  BY <1>2, <1>3 DEF Copy, Typed, TypedDisk
<1>5. TypedPlaces' /\ TypedTransfer'
  <2>1. CASE Ends(p, "Stopped")
    BY <1>1, <2>1, EndTyped
  <2>2. CASE /\ pos' = [pos EXCEPT ![p] = @ + 1] /\ body' = [body EXCEPT ![p] = @ + 1]
             /\ done' = [done EXCEPT ![p] = @ + 1]
             /\ UNCHANGED <<pc, model, index, stopping, outcome, have, reply, handle>>
    <3>1. TypedPlaces'
      BY <1>1, <2>2 DEF TypedPlaces
    <3>2. TypedTransfer'
      BY <1>1, <1>2, <2>2 DEF TypedTransfer
    <3> QED
      BY <3>1, <3>2
  <2> QED
    BY <2>1, <2>2 DEF Copy
<1> QED
  BY <1>4, <1>5 DEF Typed

\* Renaming the .part keeps the types, its other writers being handed on.
LEMMA RenameTyped ==
  ASSUME Typed, NEW p \in Fetchers, Rename(p)
  PROVE  Typed'
<1>1. pc[p] # "idle" /\ TypedPlaces /\ TypedTransfer
  BY DEF Rename, Typed
<1>2. TypedDisk'
  <2>1. File(p) \in Files /\ Absent \in Seq(Int)
    BY <1>1, AboutAFile DEF Absent
  <2> QED
    BY <2>1 DEF Rename, Typed, TypedDisk
<1> DEFINE handles == [q \in Fetchers |-> IF pc[q] \notin Writing \/ File(q) # File(p) THEN handle[q]
                                          ELSE IF handle[q] = "part" THEN "dest" ELSE "gone"]
<1>3. handles \in [Fetchers -> Handles]
  BY <1>1 DEF TypedTransfer, Handles
<1>4. NextFile(p, handles)
  BY DEF Rename
<1> HIDE DEF handles
<1> QED
  BY <1>1, <1>2, <1>3, <1>4, NextFileTyped DEF Typed

\* The steps of a fetch through the client keep the types.
LEMMA HubTyped ==
  ASSUME Typed, NEW p \in Fetchers, NEW a \in Attempts,
         WaitStop(p, a) \/ WaitJoin(p, a) \/ WaitFails(p, a) \/ Place(p, a) \/ Sweep(p, a)
  PROVE  Typed'
<1>1. pc[p] # "idle" /\ TypedPlaces /\ TypedTransfer /\ {"place", "sweep"} \subseteq Steps \ {"idle", "read"}
  BY DEF WaitStop, WaitJoin, WaitFails, Place, Sweep, Typed, Steps, OverHub
<1>2. File(p) \in Files /\ handle \in [Fetchers -> Handles]
  BY <1>1, AboutAFile DEF TypedTransfer
<1>3. TypedDisk'
  BY <1>2, WholeIsThere DEF WaitStop, WaitJoin, WaitFails, Place, Sweep, Typed, TypedDisk, disk
<1>4. CASE \E how \in {"Stopped", "Failed"} : Ends(p, how)
  BY <1>1, <1>3, <1>4, EndTyped DEF Typed
<1>5. CASE \E where \in {"place", "sweep"} : Goes(p, where) /\ UNCHANGED transfer
  <2>1. TypedPlaces'
    BY <1>1, <1>5, GoesTyped
  <2> QED
    BY <1>3, <1>5, <2>1 DEF Typed, TypedTransfer, transfer
<1>6. CASE NextFile(p, handle)
  BY <1>1, <1>2, <1>3, <1>6, NextFileTyped DEF Typed
<1> QED
  BY <1>4, <1>5, <1>6 DEF WaitStop, WaitJoin, WaitFails, Place, Sweep

\* What the client, an abandoned download's thread and a removal do to the files.
LEMMA OthersTyped ==
  ASSUME Typed,
         \/ \E a \in Attempts : Client(a) \/ AbandonedLands(a) \/ AbandonedSweeps(a)
         \/ \E m \in Models : Remove(m)
         \/ RemoveEntry \/ RemoveEnds \/ UNCHANGED vars
  PROVE  Typed'
<1>1. TypedPlaces'
  BY DEF Typed, TypedPlaces, Client, Arrive, DownloadFails, AbandonedLands, AbandonedSweeps, Remove,
         RemoveEntry, RemoveEnds, vars
<1>2. TypedTransfer'
  BY DEF Typed, TypedTransfer, transfer, Client, Arrive, DownloadFails, AbandonedLands, AbandonedSweeps,
         Remove, RemoveEntry, RemoveEnds, Unlinked, Handles, vars
<1>3. TypedDisk'
  <2>1. Absent \in Seq(Int)
    BY DEF Absent
  <2>2. CASE \E a \in Attempts : AbandonedLands(a)
    <3>1. PICK a \in Attempts : AbandonedLands(a)
      BY <2>2
    <3> DEFINE f == attempt[a].file
    <3>2. dest' = dest \/ dest' = [dest EXCEPT ![f] = Whole(f)]
      BY <3>1 DEF AbandonedLands
    <3>3. part' = part /\ mirror' = mirror
      BY <3>1 DEF AbandonedLands
    <3> HIDE DEF f
    <3>4. dest' \in [Files -> Seq(Int)]
      BY <3>2, WholeIsThere DEF Typed, TypedDisk
    <3> QED
      BY <3>3, <3>4 DEF Typed, TypedDisk
  <2>3. CASE RemoveEntry
    BY <2>1, <2>3 DEF RemoveEntry, Typed, TypedDisk, disk
  <2>4. CASE ~RemoveEntry /\ ~\E a \in Attempts : AbandonedLands(a)
    BY <2>4 DEF Typed, TypedDisk, disk, vars, Client, Arrive, DownloadFails, AbandonedSweeps, Remove,
                RemoveEnds
  <2> QED
    BY <2>2, <2>3, <2>4
<1> QED
  BY <1>1, <1>2, <1>3 DEF Typed

\* Every step keeps the types.
LEMMA StepTyped == Typed /\ [Next]_vars => Typed'
<1> SUFFICES ASSUME Typed, [Next]_vars PROVE Typed'
  OBVIOUS
<1>1. CASE \E p \in Fetchers, m \in Models : Fetch(p, m)
  BY <1>1, FetchTyped
<1>2. ASSUME NEW p \in Fetchers, Stop(p) \/ FetchStep(p) \/ Killed(p)
      PROVE  Typed'
  <2>1. CASE Measure(p) \/ Request(p) \/ OpenPart(p) \/ Copy(p) \/ Rename(p)
    BY <2>1, MeasureTyped, RequestTyped, OpenTyped, CopyTyped, RenameTyped
  <2>2. CASE \E a \in Attempts : \/ WaitStop(p, a) \/ WaitJoin(p, a) \/ WaitFails(p, a)
                                 \/ Place(p, a) \/ Sweep(p, a)
    BY <2>2, HubTyped
  <2>3. CASE \/ Stop(p) \/ Begin(p) \/ TakeStop(p) \/ AlreadyHere(p) \/ StartDownload(p) \/ ReadManifest(p)
             \/ RequestFails(p) \/ OpenFails(p) \/ CopyFails(p) \/ CopyEnds(p) \/ CheckLength(p)
             \/ RenameFails(p) \/ Spawn(p) \/ Killed(p)
    <3>1. UNCHANGED <<dest, part, mirror>>
      BY <2>3 DEF Stop, Begin, TakeStop, AlreadyHere, StartDownload, ReadManifest, RequestFails, OpenFails,
                  CopyFails, CopyEnds, CheckLength, RenameFails, Spawn, Killed, disk
    <3> QED
      BY <2>3, <3>1, PlainTyped
  <2> QED
    BY <1>2, <2>1, <2>2, <2>3 DEF FetchStep
<1>3. CASE \/ \E a \in Attempts : Client(a) \/ AbandonedLands(a) \/ AbandonedSweeps(a)
           \/ \E m \in Models : Remove(m)
           \/ RemoveEntry \/ RemoveEnds \/ UNCHANGED vars
  BY <1>3, OthersTyped
<1> QED
  BY <1>1, <1>2, <1>3 DEF Next

\* A fetch under way is always of a file of a published model, and what is on the disk is files.
THEOREM Typing == Spec => []Typed
<1>1. Init => Typed
  BY StartTyped
<1>2. Typed /\ [Next]_vars => Typed'
  BY StepTyped
<1> QED
  BY <1>1, <1>2, PTL DEF Spec

-----------------------------------------------------------------------------
(* A fetch that ended well has left its model. *)

\* A step of one fetch, and what it leaves alone of the others.
StepOf(p) == (\E m \in Models : Fetch(p, m)) \/ Stop(p) \/ FetchStep(p) \/ Killed(p)

\* A step of one fetch leaves where the others are and what they transfer as it was.
LEMMA OneAtATime ==
  ASSUME Typed, NEW p \in Fetchers, StepOf(p), NEW q \in Fetchers, q # p
  PROVE  /\ pc'[q] = pc[q] /\ index'[q] = index[q] /\ model'[q] = model[q] /\ outcome'[q] = outcome[q]
         /\ have'[q] = have[q] /\ reply'[q] = reply[q]
         /\ pos'[q] = pos[q] /\ body'[q] = body[q] /\ done'[q] = done[q]
<1> USE DEF Typed, TypedPlaces, TypedTransfer, transfer
<1>1. ASSUME NEW how, NEW handles, EndsAmong(p, how, handles)
      PROVE  /\ pc'[q] = pc[q] /\ index'[q] = index[q] /\ model'[q] = model[q] /\ outcome'[q] = outcome[q]
             /\ have'[q] = have[q] /\ reply'[q] = reply[q]
             /\ pos'[q] = pos[q] /\ body'[q] = body[q] /\ done'[q] = done[q]
  BY <1>1 DEF EndsAmong, Closed
<1>2. ASSUME NEW handles, NextFile(p, handles)
      PROVE  /\ pc'[q] = pc[q] /\ index'[q] = index[q] /\ model'[q] = model[q] /\ outcome'[q] = outcome[q]
             /\ have'[q] = have[q] /\ reply'[q] = reply[q]
             /\ pos'[q] = pos[q] /\ body'[q] = body[q] /\ done'[q] = done[q]
  BY <1>1, <1>2 DEF NextFile, Goes, Closed
<1>3. CASE \E how : Ends(p, how)
  BY <1>1, <1>3 DEF Ends
<1>4. CASE \E handles : NextFile(p, handles)
  BY <1>2, <1>4
<1>5. CASE (\E m \in Models : Fetch(p, m)) \/ Stop(p)
  BY <1>5 DEF Fetch, Stop
<1>6. CASE \E where : Goes(p, where) /\ UNCHANGED transfer
  BY <1>6 DEF Goes
<1>7. CASE Begin(p) \/ StartDownload(p) \/ CopyEnds(p) \/ Spawn(p)
  BY <1>6, <1>7 DEF Begin, StartDownload, CopyEnds, Spawn
<1>8. CASE TakeStop(p) \/ RequestFails(p) \/ OpenFails(p) \/ CopyFails(p) \/ RenameFails(p) \/ Killed(p)
  BY <1>3, <1>8 DEF TakeStop, RequestFails, OpenFails, CopyFails, RenameFails, Killed
<1>9. CASE AlreadyHere(p) \/ Rename(p)
  BY <1>4, <1>9 DEF AlreadyHere, Rename
<1>10. CASE ReadManifest(p)
  BY <1>3, <1>10 DEF ReadManifest
<1>11. CASE CheckLength(p)
  BY <1>3, <1>6, <1>11 DEF CheckLength
<1>12. CASE Measure(p) \/ OpenPart(p)
  BY <1>12 DEF Measure, OpenPart, Goes
<1>13. CASE Request(p)
  <2>1. CASE Ends(p, "Failed")
    BY <1>3, <2>1
  <2>2. CASE ~Ends(p, "Failed")
    BY <1>13, <2>2 DEF Request, Goes
  <2> QED
    BY <2>1, <2>2
<1>14. CASE Copy(p)
  <2>1. CASE Ends(p, "Stopped")
    BY <1>3, <2>1
  <2>2. CASE /\ pos' = [pos EXCEPT ![p] = @ + 1] /\ body' = [body EXCEPT ![p] = @ + 1]
             /\ done' = [done EXCEPT ![p] = @ + 1]
             /\ UNCHANGED <<pc, model, index, stopping, outcome, have, reply, handle>>
    BY <2>2
  <2> QED
    BY <1>14, <2>1, <2>2 DEF Copy
<1>15. ASSUME NEW a \in Attempts,
              WaitStop(p, a) \/ WaitJoin(p, a) \/ WaitFails(p, a) \/ Place(p, a) \/ Sweep(p, a)
       PROVE  /\ pc'[q] = pc[q] /\ index'[q] = index[q] /\ model'[q] = model[q] /\ outcome'[q] = outcome[q]
              /\ have'[q] = have[q] /\ reply'[q] = reply[q]
              /\ pos'[q] = pos[q] /\ body'[q] = body[q] /\ done'[q] = done[q]
  BY <1>3, <1>4, <1>6, <1>15 DEF WaitStop, WaitJoin, WaitFails, Place, Sweep
<1> QED
  BY <1>5, <1>7, <1>8, <1>9, <1>10, <1>11, <1>12, <1>13, <1>14, <1>15 DEF StepOf, FetchStep

\* Where nothing is being removed, a file that is there stays.
LEMMA FilesStay ==
  ASSUME Typed, removing = NoModel, [Next]_vars, NEW f \in Files, dest[f] # Absent
  PROVE  dest'[f] # Absent
<1>1. CASE \E p \in Fetchers : Copy(p)
  <2>1. PICK p \in Fetchers : Copy(p)
    BY <1>1
  <2>2. pos[p] \in Nat /\ body[p] \in Nat /\ dest[f] \in Seq(Int)
    BY DEF Typed, TypedTransfer, TypedDisk
  <2>3. WrittenAt(dest[f], pos[p], body[p] + 1) # Absent
    BY <2>2, WrittenIsThere
  <2>4. dest' = [dest EXCEPT ![File(p)] = WrittenAt(@, pos[p], body[p] + 1)] \/ dest' = dest
    BY <2>1 DEF Copy
  <2> QED
    BY <2>3, <2>4 DEF Typed, TypedDisk
<1>2. CASE \E p \in Fetchers : Rename(p)
  BY <1>2 DEF Rename, Typed, TypedDisk
<1>3. CASE \E p \in Fetchers, a \in Attempts : Place(p, a)
  BY <1>3, WholeIsThere DEF Place, Typed, TypedDisk
<1>4. CASE \E a \in Attempts : AbandonedLands(a)
  <2>1. PICK a \in Attempts : AbandonedLands(a)
    BY <1>4
  <2> DEFINE g == attempt[a].file
  <2>2. dest' = dest \/ dest' = [dest EXCEPT ![g] = Whole(g)]
    BY <2>1 DEF AbandonedLands
  <2> HIDE DEF g
  <2> QED
    BY <2>2, WholeIsThere DEF Typed, TypedDisk
<1>5. CASE dest' = dest
  BY <1>5
<1> QED
  BY <1>1, <1>2, <1>3, <1>4, <1>5 DEF Next, FetchStep, Client, Fetch, Stop, Begin, TakeStop, AlreadyHere,
     StartDownload, ReadManifest, Measure, Request, RequestFails, OpenPart, OpenFails, CopyFails, CopyEnds,
     CheckLength, RenameFails, Spawn, WaitStop, WaitJoin, WaitFails, Sweep, Killed, Arrive, DownloadFails,
     AbandonedSweeps, Remove, RemoveEntry, RemoveEnds, disk, vars

\* What a fetch has behind it stays behind it where only files come.
LEMMA StaysFetched ==
  ASSUME Typed, NEW q \in Fetchers, FetchedBy(q), \A f \in Files : dest[f] # Absent => dest'[f] # Absent,
         pc'[q] = pc[q], index'[q] = index[q], model'[q] = model[q], outcome'[q] = outcome[q]
  PROVE  FetchedBy(q)'
<1>1. \A m \in Models : \A i \in 1..Len(FilesOf[m]) : FilesOf[m][i] \in Files
  BY DEF Files
<1>2. pc[q] # "idle" => model[q] \in Models
  BY DEF Typed, TypedPlaces
<1> QED
  BY <1>1, <1>2 DEF FetchedBy, Behind, Cached

\* Once its file is there, a fetch goes on to the next, or ends well with every file there.
LEMMA NextFileFetched ==
  ASSUME Typed, NEW p \in Fetchers, pc[p] # "idle", FetchedBy(p), NEW handles, NextFile(p, handles),
         \A f \in Files : dest[f] # Absent => dest'[f] # Absent, dest'[File(p)] # Absent
  PROVE  FetchedBy(p)'
<1>1. model[p] \in Models /\ index[p] \in 1..Len(FilesOf[model[p]])
  BY AboutAFile DEF Typed
<1>2. Len(FilesOf[model[p]]) \in Nat /\ index[p] \in Nat
  BY <1>1, FetchAssumption
<1>3. \A i \in 1..Len(FilesOf[model[p]]) : FilesOf[model[p]][i] \in Files
  BY <1>1 DEF Files
<1>4. \A i \in 1..Len(FilesOf[model[p]]) : i <= index[p] => dest'[FilesOf[model[p]][i]] # Absent
  <2> SUFFICES ASSUME NEW i \in 1..Len(FilesOf[model[p]]), i <= index[p]
               PROVE  dest'[FilesOf[model[p]][i]] # Absent
    OBVIOUS
  <2>1. CASE i = index[p]
    BY <2>1 DEF File
  <2>2. CASE i < index[p]
    BY <1>3, <2>2 DEF FetchedBy, Behind
  <2> QED
    BY <1>2, <2>1, <2>2
<1>5. CASE index[p] = 1 /\ Goes(p, "read")
  BY <1>1, <1>2, <1>4, <1>5 DEF Goes, FetchedBy, Behind, Typed, TypedPlaces
<1>6. CASE /\ index[p] > 1 /\ index[p] < Len(FilesOf[model[p]])
           /\ pc' = [pc EXCEPT ![p] = "next"] /\ index' = [index EXCEPT ![p] = @ + 1]
           /\ UNCHANGED <<model, stopping, outcome>>
  <2>1. index'[p] = index[p] + 1 /\ pc'[p] = "next" /\ model' = model /\ outcome' = outcome
    BY <1>6 DEF Typed, TypedPlaces
  <2>2. \A i \in 1..Len(FilesOf[model[p]]) : i < index'[p] => i <= index[p]
    BY <1>2, <2>1
  <2> QED
    BY <1>4, <2>1, <2>2 DEF FetchedBy, Behind
<1>7. CASE index[p] = Len(FilesOf[model[p]]) /\ EndsAmong(p, "Done", handles)
  <2>1. pc'[p] = "idle" /\ model' = model
    BY <1>7 DEF EndsAmong, Typed, TypedPlaces
  <2>2. Cached(model[p])'
    BY <1>2, <1>4, <1>7, <2>1 DEF Cached
  <2> QED
    BY <1>1, <2>1, <2>2 DEF FetchedBy
<1> QED
  BY <1>5, <1>6, <1>7 DEF NextFile

\* A fetch that ends otherwise claims nothing; one that goes on claims what it did.
LEMMA EndsFetched ==
  ASSUME Typed, NEW p \in Fetchers, NEW how \in {"Stopped", "Failed", "Killed"}, Ends(p, how)
  PROVE  FetchedBy(p)'
  BY DEF Ends, EndsAmong, FetchedBy, Typed, TypedPlaces

\* Going on within a file adds nothing to what is behind, a file that has come down aside.
LEMMA GoesFetched ==
  ASSUME Typed, NEW p \in Fetchers, FetchedBy(p), \A f \in Files : dest[f] # Absent => dest'[f] # Absent,
         pc[p] # "idle", NEW where, where # "idle", Goes(p, where),
         where \in {"read", "sweep"} => dest'[File(p)] # Absent
  PROVE  FetchedBy(p)'
<1>1. model[p] \in Models /\ \A i \in 1..Len(FilesOf[model[p]]) : FilesOf[model[p]][i] \in Files
  BY AboutAFile DEF Typed, Files
<1>2. pc'[p] = where /\ index' = index /\ model' = model /\ outcome' = outcome
  BY DEF Goes, Typed, TypedPlaces
<1> QED
  BY <1>1, <1>2 DEF FetchedBy, Behind, File

\* Every step keeps what a fetch has behind it, where nobody removes a model.
LEMMA StepFetched == MayRemove = FALSE /\ Typed /\ Fetched /\ [Next]_vars => Fetched'
<1> SUFFICES ASSUME MayRemove = FALSE, Typed, Fetched, [Next]_vars PROVE Fetched'
  OBVIOUS
<1>1. removing' = NoModel
  <2>1. ASSUME NEW p \in Fetchers, StepOf(p)
        PROVE  removing' = removing
    BY <2>1 DEF StepOf, FetchStep, Fetch, Stop, Begin, TakeStop, AlreadyHere, StartDownload, ReadManifest,
       Measure, Request, RequestFails, OpenPart, OpenFails, Copy, CopyFails, CopyEnds, CheckLength, Rename,
       RenameFails, Spawn, WaitStop, WaitJoin, WaitFails, Place, Sweep, Killed
  <2>2. CASE \E a \in Attempts : Client(a) \/ AbandonedLands(a) \/ AbandonedSweeps(a)
    BY <2>2 DEF Client, Arrive, DownloadFails, AbandonedLands, AbandonedSweeps, Fetched
  <2>3. CASE UNCHANGED vars
    BY <2>3 DEF vars, Fetched
  <2>4. ~(\E m \in Models : Remove(m)) /\ ~RemoveEntry /\ ~RemoveEnds
    BY DEF Remove, RemoveEntry, RemoveEnds, Fetched
  <2> QED
    BY <2>1, <2>2, <2>3, <2>4 DEF Next, StepOf, Fetched
<1>2. \A f \in Files : dest[f] # Absent => dest'[f] # Absent
  BY FilesStay DEF Fetched
<1>3. ASSUME NEW p \in Fetchers, StepOf(p)
      PROVE  FetchedBy(p)'
  <2>1. FetchedBy(p)
    BY DEF Fetched
  <2>2. CASE \E how \in {"Stopped", "Failed", "Killed"} : Ends(p, how)
    BY <2>2, EndsFetched
  <2>3. CASE \E m \in Models : Fetch(p, m)
    <3>1. pc'[p] # "idle" /\ outcome'[p] # "Done" /\ pc'[p] = "begin" /\ index'[p] = 1
      BY <2>3 DEF Fetch, Typed, TypedPlaces
    <3> QED
      BY <3>1 DEF FetchedBy, Behind
  <2>4. CASE Stop(p)
    BY <1>2, <2>1, <2>4, StaysFetched DEF Stop
  <2>5. CASE Begin(p) \/ StartDownload(p) \/ CopyEnds(p) \/ Spawn(p) \/ Measure(p) \/ OpenPart(p)
    <3>1. pc[p] # "idle"
      BY <2>5 DEF Begin, StartDownload, CopyEnds, Spawn, Measure, OpenPart
    <3>2. \E where \in {"next", "measure", "spawn", "check", "wait", "request", "copy"} : Goes(p, where)
      BY <2>5 DEF Begin, StartDownload, CopyEnds, Spawn, Measure, OpenPart
    <3> QED
      BY <1>2, <2>1, <3>1, <3>2, GoesFetched
  <2>6. CASE TakeStop(p) \/ RequestFails(p) \/ OpenFails(p) \/ CopyFails(p) \/ RenameFails(p) \/ Killed(p)
    BY <2>2, <2>6 DEF TakeStop, RequestFails, OpenFails, CopyFails, RenameFails, Killed
  <2>7. CASE AlreadyHere(p)
    BY <1>2, <2>1, <2>7, AboutAFile, NextFileFetched DEF AlreadyHere, Typed
  <2>8. CASE ReadManifest(p)
    <3>1. CASE /\ pc[p] = "read" /\ pc' = [pc EXCEPT ![p] = "next"] /\ index' = [index EXCEPT ![p] = 2]
               /\ UNCHANGED <<model, stopping, outcome>>
      <4>1. pc'[p] = "next" /\ index'[p] = 2 /\ model' = model /\ outcome' = outcome /\ index[p] = 1
        BY <3>1 DEF Typed, TypedPlaces
      <4>2. model[p] \in Models /\ \A i \in 1..Len(FilesOf[model[p]]) : FilesOf[model[p]][i] \in Files
        BY <3>1, AboutAFile DEF Typed, Files
      <4>3. \A i \in 1..Len(FilesOf[model[p]]) : i < 2 => i = 1
        OBVIOUS
      <4> QED
        BY <1>2, <2>1, <3>1, <4>1, <4>2, <4>3 DEF FetchedBy, Behind
    <3> QED
      BY <2>2, <2>8, <3>1 DEF ReadManifest
  <2>9. CASE Request(p)
    <3>1. CASE Goes(p, "open")
      BY <1>2, <2>1, <2>9, <3>1, GoesFetched DEF Request
    <3> QED
      BY <2>2, <2>9, <3>1 DEF Request
  <2>10. CASE CheckLength(p)
    <3>1. CASE Goes(p, "rename")
      BY <1>2, <2>1, <2>10, <3>1, GoesFetched DEF CheckLength
    <3> QED
      BY <2>2, <2>10, <3>1 DEF CheckLength
  <2>11. CASE Copy(p)
    <3>1. CASE UNCHANGED <<pc, model, index, stopping, outcome, have, reply, handle>>
      BY <1>2, <2>1, <3>1, StaysFetched
    <3> QED
      BY <2>2, <2>11, <3>1 DEF Copy
  <2>12. CASE Rename(p)
    <3>1. pc[p] # "idle" /\ part[File(p)] # Absent /\ dest' = [dest EXCEPT ![File(p)] = part[File(p)]]
      BY <2>12 DEF Rename
    <3>2. dest'[File(p)] # Absent
      BY <3>1, AboutAFile DEF Typed, TypedDisk
    <3>3. \E handles : NextFile(p, handles)
      BY <2>12 DEF Rename
    <3> QED
      BY <1>2, <2>1, <3>1, <3>2, <3>3, NextFileFetched
  <2>13. ASSUME NEW a \in Attempts, WaitStop(p, a) \/ WaitJoin(p, a) \/ WaitFails(p, a)
         PROVE  FetchedBy(p)'
    BY <1>2, <2>1, <2>2, <2>13, GoesFetched DEF WaitStop, WaitJoin, WaitFails
  <2>14. ASSUME NEW a \in Attempts, Place(p, a)
         PROVE  FetchedBy(p)'
    <3>1. CASE dest' = [dest EXCEPT ![File(p)] = Whole(File(p))] /\ Goes(p, "sweep")
      <4>1. pc[p] # "idle" /\ File(p) \in Files
        BY <2>14, AboutAFile DEF Place, Typed
      <4>2. dest'[File(p)] # Absent
        BY <3>1, <4>1, WholeIsThere DEF Typed, TypedDisk
      <4> QED
        BY <1>2, <2>1, <3>1, <4>1, <4>2, GoesFetched
    <3> QED
      BY <2>2, <2>14, <3>1 DEF Place
  <2>15. ASSUME NEW a \in Attempts, Sweep(p, a)
         PROVE  FetchedBy(p)'
    <3>1. pc[p] = "sweep" /\ NextFile(p, handle) /\ dest' = dest
      BY <2>15 DEF Sweep, disk
    <3>2. dest[File(p)] # Absent
      BY <2>1, <3>1, AboutAFile DEF FetchedBy, Behind, File, Typed
    <3> QED
      BY <1>2, <2>1, <3>1, <3>2, NextFileFetched
  <2> QED
    BY <1>3, <2>3, <2>4, <2>5, <2>6, <2>7, <2>8, <2>9, <2>10, <2>11, <2>12, <2>13, <2>14, <2>15
       DEF StepOf, FetchStep
<1>4. ASSUME NEW p \in Fetchers, StepOf(p), NEW q \in Fetchers
      PROVE  FetchedBy(q)'
  <2>1. CASE q = p
    BY <1>3, <1>4, <2>1
  <2>2. CASE q # p
    BY <1>2, <1>4, <2>2, OneAtATime, StaysFetched DEF Fetched
  <2> QED
    BY <2>1, <2>2
<1>5. ASSUME UNCHANGED <<pc, index, model, outcome>>, NEW q \in Fetchers
      PROVE  FetchedBy(q)'
  BY <1>2, <1>5, StaysFetched DEF Fetched
<1>6. (\E p \in Fetchers : StepOf(p)) \/ UNCHANGED <<pc, index, model, outcome>>
  BY DEF Next, StepOf, Client, Arrive, DownloadFails, AbandonedLands, AbandonedSweeps, Remove, RemoveEntry,
         RemoveEnds, vars
<1> QED
  BY <1>1, <1>4, <1>5, <1>6 DEF Fetched

\* Whatever other fetches, stops, kills and failures do, and even where two fetches share one
\* .part: where nobody removes a model, a fetch that ended well has left every file of its own.
THEOREM DoneLeavesAllOfIt == ASSUME MayRemove = FALSE PROVE Spec => []DoneIsCached
<1>1. Init => Fetched
  BY DEF Init, Fetched, FetchedBy
<1>2. Typed /\ Fetched /\ [Next]_vars => Fetched'
  BY StepFetched
<1>3. Fetched => DoneIsCached
  BY DEF Fetched, FetchedBy, DoneIsCached
<1> QED
  BY <1>1, <1>2, <1>3, Typing, PTL DEF Spec

-----------------------------------------------------------------------------
(* What is under a file's own name is all of it. *)

\* Writing the next block where the first n end makes them the first n + 1.
LEMMA NextBlock ==
  ASSUME NEW n \in Nat
  PROVE  WrittenAt(Upto(n), n, n + 1) = Upto(n + 1)
<1>1. Len(Upto(n)) = n
  BY UptoIsThere
<1>2. WrittenAt(Upto(n), n, n + 1) = [i \in 1..(n + 1) |-> IF i = n + 1 THEN n + 1
                                                            ELSE IF i <= n THEN Upto(n)[i] ELSE 0]
  BY <1>1 DEF WrittenAt
<1>3. \A i \in 1..(n + 1) : (IF i = n + 1 THEN n + 1 ELSE IF i <= n THEN Upto(n)[i] ELSE 0) = i
  BY DEF Upto
<1> QED
  BY <1>2, <1>3 DEF Upto

\* What the server sends goes on where what is here ends, or it is the whole file.
LEMMA AnswersGoOn ==
  ASSUME NEW n \in Nat, NEW f \in Files, NEW r \in Answers(n, f), r.says \in {-1, n}
  PROVE  r.from = (IF n > 0 /\ (r.says = n \/ r.partial) THEN n ELSE 0)
<1>1. CASE r \in Whole200(n, f)
  <2> PICK k \in Bounds : r = [from |-> 0, says |-> -1, partial |-> FALSE, ends |-> k]
    BY <1>1 DEF Whole200
  <2> QED
    BY DEF Whole200
<1>2. CASE r \in Ranged(n, f) /\ n # 0
  <2>1. r.from = n /\ (r.says = n \/ r.partial)
    BY <1>2 DEF Ranged
  <2> QED
    BY <1>2, <2>1
<1>3. CASE r \in Elsewhere(n, f)
  <2>1. r.says \in Nat /\ r.says = r.from /\ r.from # n
    BY <1>3, SizeOfFile DEF Elsewhere
  <2> QED
    BY <2>1
<1> QED
  BY <1>1, <1>2, <1>3 DEF Answers

\* Nothing is claimed of a fetch that is not at a transfer.
LEMMA AwaySound ==
  ASSUME NEW p \in Fetchers, pc'[p] \notin OverHttp
  PROVE  Sound(p)'
  BY DEF Sound, Writing, OverHttp

\* What is claimed of a transfer stays where nothing of it and no .part changes, and no file comes.
LEMMA StaysSound ==
  ASSUME NEW q \in Fetchers, Sound(q), part' = part,
         pc[q] \in OverHttp => dest'[File(q)] \in {dest[File(q)], Absent},
         pc'[q] = pc[q], index'[q] = index[q], model'[q] = model[q], have'[q] = have[q],
         reply'[q] = reply[q], handle'[q] = handle[q], pos'[q] = pos[q], body'[q] = body[q], done'[q] = done[q]
  PROVE  Sound(q)'
<1>1. File(q)' = File(q) /\ (Resuming(q)' <=> Resuming(q))
  BY DEF File, Resuming
<1>2. pc'[q] \in OverHttp => dest'[File(q)] = Absent
  BY DEF Sound
<1> QED
  BY <1>1, <1>2 DEF Sound

\* What is measured is what is here.
LEMMA MeasureSound ==
  ASSUME Typed, Exactly, NEW p \in Fetchers, Measure(p)
  PROVE  Sound(p)' /\ UNCHANGED <<dest, part>>
<1>1. File(p) \in Files /\ Size[File(p)] \in Nat
  BY AboutAFile DEF Typed, Measure
<1>2. pc'[p] = "request" /\ part' = part /\ dest' = dest /\ have'[p] = Length(part[File(p)])
  BY DEF Measure, Goes, Typed, TypedPlaces, TypedTransfer, disk
<1>3. File(p)' = File(p)
  BY DEF Measure, Goes, File
<1>4. have'[p] <= Size[File(p)] /\ part[File(p)] \in {Absent, Upto(have'[p])}
  <2>1. CASE part[File(p)] = Absent
    BY <1>1, <1>2, <2>1 DEF Length
  <2>2. CASE part[File(p)] # Absent
    <3>1. PICK n \in 0..Size[File(p)] : part[File(p)] = Upto(n)
      BY <1>1, <2>2 DEF Exactly, Exact
    <3>2. Length(part[File(p)]) = n
      BY <1>1, <2>2, <3>1, UptoIsThere DEF Length
    <3> QED
      BY <1>1, <1>2, <3>1, <3>2
  <2> QED
    BY <2>1, <2>2
<1>5. dest[File(p)] = Absent
  BY DEF Exactly, Sound, Measure, OverHttp
<1> QED
  BY <1>2, <1>3, <1>4, <1>5 DEF Sound, Writing, OverHttp

\* An answer that is accepted goes on from what is here, or begins again.
LEMMA RequestSound ==
  ASSUME Typed, Exactly, NEW p \in Fetchers, Request(p)
  PROVE  Sound(p)' /\ UNCHANGED <<dest, part>>
<1>1. File(p) \in Files /\ have[p] \in Nat /\ Size[File(p)] \in Nat /\ UNCHANGED <<dest, part>>
  BY AboutAFile DEF Typed, TypedTransfer, Request, disk
<1>2. CASE Ends(p, "Failed")
  <2>1. pc'[p] = "idle"
    BY <1>2 DEF Ends, EndsAmong, Typed, TypedPlaces
  <2> QED
    BY <1>1, <2>1, AwaySound DEF OverHttp
<1>3. ASSUME NEW r \in Answers(have[p], File(p)), r.says \in {-1, have[p]},
             reply' = [reply EXCEPT ![p] = r], Goes(p, "open"), UNCHANGED <<have, handle, pos, body, done>>
      PROVE  Sound(p)'
  <2>1. pc'[p] = "open" /\ reply'[p] = r /\ have'[p] = have[p]
    BY <1>3 DEF Goes, Typed, TypedPlaces, TypedTransfer
  <2>2. File(p)' = File(p)
    BY <1>3 DEF Goes, File
  <2>3. r.from = (IF have[p] > 0 /\ (r.says = have[p] \/ r.partial) THEN have[p] ELSE 0)
    BY <1>1, <1>3, AnswersGoOn
  <2>4. reply'[p].from = (IF Resuming(p)' THEN have'[p] ELSE 0)
    BY <2>1, <2>3 DEF Resuming
  <2>5. have[p] <= Size[File(p)] /\ part[File(p)] \in {Absent, Upto(have[p])} /\ dest[File(p)] = Absent
    BY DEF Request, Exactly, Sound, OverHttp
  <2> QED
    BY <1>1, <2>1, <2>2, <2>4, <2>5 DEF Sound, Writing, OverHttp
<1> QED
  BY <1>1, <1>2, <1>3 DEF Request

\* The .part is opened where the answer goes on, or emptied where it begins again.
LEMMA OpenSound ==
  ASSUME Typed, Exactly, NEW p \in Fetchers, OpenPart(p)
  PROVE  Sound(p)' /\ Exact'
<1> DEFINE f == File(p)
<1>1. f \in Files /\ have[p] \in Nat /\ Size[f] \in Nat
  BY AboutAFile DEF Typed, TypedTransfer, OpenPart
<1>2. /\ have[p] <= Size[f] /\ part[f] \in {Absent, Upto(have[p])}
      /\ reply[p].from = (IF Resuming(p) THEN have[p] ELSE 0) /\ dest[f] = Absent
  BY DEF OpenPart, Exactly, Sound, OverHttp
<1>3. /\ pc'[p] = "copy" /\ have'[p] = have[p] /\ reply'[p] = reply[p] /\ handle'[p] = "part"
      /\ pos'[p] = (IF Resuming(p) THEN Length(part[f]) ELSE 0)
      /\ done'[p] = (IF Resuming(p) THEN have[p] ELSE 0) /\ body'[p] = reply[p].from
  BY DEF OpenPart, Goes, Typed, TypedPlaces, TypedTransfer
<1>4. File(p)' = f /\ (Resuming(p)' <=> Resuming(p))
  BY DEF OpenPart, Goes, File, Resuming
<1>5. CASE Resuming(p)
  <2>1. part' = part /\ dest' = dest /\ part[f] = Upto(have[p]) /\ part[f] # Absent
    BY <1>2, <1>5 DEF OpenPart
  <2>2. Length(part[f]) = have[p]
    BY <1>1, <2>1, UptoIsThere DEF Length
  <2>3. Sound(p)'
    BY <1>2, <1>3, <1>4, <1>5, <2>1, <2>2 DEF Sound, Writing, OverHttp
  <2> QED
    BY <2>1, <2>3 DEF Exactly, Exact
<1>6. CASE ~Resuming(p)
  <2>1. part' = [part EXCEPT ![f] = <<>>] /\ dest' = dest
    BY <1>6 DEF OpenPart
  <2>2. <<>> = Upto(0) /\ 0 \in 0..Size[f]
    BY <1>1 DEF Upto
  <2>3. part'[f] = Upto(0)
    BY <1>1, <2>1, <2>2 DEF Typed, TypedDisk
  <2>4. Sound(p)'
    BY <1>1, <1>2, <1>3, <1>4, <1>6, <2>1, <2>3 DEF Sound, Writing, OverHttp
  <2> HIDE DEF f
  <2>5. Exact'
    BY <1>1, <2>1, <2>2, <2>3 DEF Exactly, Exact, Typed, TypedDisk
  <2> QED
    BY <2>4, <2>5
<1> QED
  BY <1>5, <1>6

\* A block is written after the ones before it, or to nothing.
LEMMA CopySound ==
  ASSUME Typed, Exactly, NEW p \in Fetchers, Copy(p)
  PROVE  Sound(p)' /\ Exact'
<1> DEFINE f == File(p)
           n == body[p]
<1>1. f \in Files /\ n \in Nat /\ Size[f] \in Nat /\ n < Size[f] /\ pc[p] = "copy"
  BY AboutAFile DEF Typed, TypedTransfer, Copy
<1>2. /\ pos[p] = n /\ done[p] = n
      /\ \/ handle[p] = "part" /\ part[f] = Upto(n)
         \/ handle[p] = "gone" /\ part[f] = Absent
      /\ reply[p].from = (IF Resuming(p) THEN have[p] ELSE 0) /\ dest[f] = Absent
  BY <1>1 DEF Exactly, Sound, Writing, OverHttp
<1>3. dest' = dest
  BY <1>2 DEF Copy
<1>4. /\ handle[p] = "part" => part' = [part EXCEPT ![f] = WrittenAt(part[f], n, n + 1)]
      /\ handle[p] = "gone" => part' = part
  BY <1>2 DEF Copy
<1>5. /\ handle[p] = "part" => part'[f] = Upto(n + 1) /\ part' = [part EXCEPT ![f] = Upto(n + 1)]
      /\ handle[p] = "gone" => part'[f] = Absent
  BY <1>1, <1>2, <1>4, NextBlock DEF Typed, TypedDisk
<1>6. Exact'
  <2> HIDE DEF f, n
  <2>1. n + 1 \in 0..Size[f]
    BY <1>1
  <2>2. CASE handle[p] = "part"
    BY <1>1, <1>3, <1>5, <2>1, <2>2 DEF Exactly, Exact, Typed, TypedDisk
  <2>3. CASE handle[p] = "gone"
    BY <1>3, <1>4, <2>3 DEF Exactly, Exact
  <2> QED
    BY <1>2, <2>2, <2>3
<1>7. CASE Ends(p, "Stopped")
  <2>1. pc'[p] = "idle"
    BY <1>7 DEF Ends, EndsAmong, Typed, TypedPlaces
  <2> QED
    BY <1>6, <2>1, AwaySound DEF OverHttp
<1>8. CASE /\ pos' = [pos EXCEPT ![p] = @ + 1] /\ body' = [body EXCEPT ![p] = @ + 1]
           /\ done' = [done EXCEPT ![p] = @ + 1]
           /\ UNCHANGED <<pc, model, index, stopping, outcome, have, reply, handle>>
  <2>1. pos'[p] = n + 1 /\ body'[p] = n + 1 /\ done'[p] = n + 1
    BY <1>2, <1>8 DEF Typed, TypedTransfer
  <2>2. File(p)' = f /\ (Resuming(p)' <=> Resuming(p))
    BY <1>8 DEF File, Resuming
  <2>3. pc'[p] = "copy" /\ handle'[p] = handle[p] /\ reply'[p] = reply[p] /\ have'[p] = have[p]
    BY <1>1, <1>8
  <2>4. n + 1 <= Size[f]
    BY <1>1
  <2> HIDE DEF f, n
  <2>5. Sound(p)'
    BY <1>2, <1>3, <1>5, <2>1, <2>2, <2>3, <2>4 DEF Sound, Writing, OverHttp
  <2> QED
    BY <1>6, <2>5
<1> QED
  BY <1>7, <1>8 DEF Copy

\* A chunked body ends with its last block.
LEMMA CopyEndsSound ==
  ASSUME Typed, Exactly, NEW p \in Fetchers, CopyEnds(p)
  PROVE  Sound(p)'
<1>1. pc[p] = "copy" /\ pc'[p] = "check" /\ UNCHANGED <<model, index, transfer, part, dest>>
  BY DEF CopyEnds, Goes, Typed, TypedPlaces, disk
<1>2. File(p)' = File(p) /\ (Resuming(p)' <=> Resuming(p))
  BY <1>1 DEF File, Resuming, transfer
<1>3. reply[p].ends = "chunks" => body[p] = Size[File(p)]
  BY DEF CopyEnds
<1> QED
  BY <1>1, <1>2, <1>3 DEF Exactly, Sound, Writing, transfer, OverHttp

\* Where a length was sent, the check lets only the whole file through.
LEMMA CheckSound ==
  ASSUME Typed, Exactly, NEW p \in Fetchers, CheckLength(p)
  PROVE  Sound(p)'
<1>1. CASE Ends(p, "Failed")
  <2>1. pc'[p] = "idle"
    BY <1>1 DEF Ends, EndsAmong, Typed, TypedPlaces
  <2> QED
    BY <2>1, AwaySound DEF OverHttp
<1>2. CASE (reply[p].ends = "length" => done[p] = Total(p)) /\ Goes(p, "rename") /\ UNCHANGED transfer
  <2>1. pc[p] = "check" /\ pc'[p] = "rename" /\ UNCHANGED <<model, index, transfer, part, dest>>
    BY <1>2 DEF CheckLength, Goes, Typed, TypedPlaces, disk
  <2>2. File(p)' = File(p) /\ (Resuming(p)' <=> Resuming(p))
    BY <2>1 DEF File, Resuming, transfer
  <2>3. Size[File(p)] \in Nat /\ have[p] \in Nat /\ body[p] \in Nat
    BY <2>1, AboutAFile DEF Typed, TypedTransfer
  <2>4. /\ reply[p].from = (IF Resuming(p) THEN have[p] ELSE 0) /\ done[p] = body[p]
        /\ reply[p].ends = "chunks" => body[p] = Size[File(p)]
        /\ reply[p].ends \in Bounds
    BY <2>1 DEF Exactly, Sound, Writing, Typed, TypedTransfer, Replies
  <2>5. Total(p) = Size[File(p)]
    BY <2>3, <2>4 DEF Total
  <2>6. reply[p].ends # "closing" => body[p] = Size[File(p)]
    BY <1>2, <2>4, <2>5 DEF Bounds
  <2> QED
    BY <2>1, <2>2, <2>6 DEF Exactly, Sound, Writing, transfer, OverHttp
<1> QED
  BY <1>1, <1>2 DEF CheckLength

\* Going on to the next file leaves the transfer.
LEMMA NextFileAway ==
  ASSUME Typed, NEW p \in Fetchers, NEW handles, NextFile(p, handles)
  PROVE  pc'[p] \in {"read", "next", "idle"}
  BY DEF NextFile, Goes, EndsAmong, Typed, TypedPlaces

\* What is renamed is the first blocks of a file that is not there: all of them, or those of a body
\* that only the closing of the connection ended.
LEMMA RenamePlaces ==
  ASSUME Typed, Exactly, NEW p \in Fetchers, Rename(p)
  PROVE  /\ File(p) \in Files /\ dest[File(p)] = Absent /\ dest' = [dest EXCEPT ![File(p)] = Upto(body[p])]
         /\ Upto(body[p]) = Whole(File(p)) \/ CutUnseen(File(p))
<1> DEFINE f == File(p)
<1>1. f \in Files /\ Size[f] \in Nat /\ pc[p] = "rename" /\ part[f] # Absent /\ body[p] \in Nat
  BY AboutAFile DEF Typed, TypedTransfer, Rename
<1>2. /\ dest[f] = Absent /\ part[f] = Upto(body[p]) /\ body[p] <= Size[f]
      /\ reply[p].ends # "closing" => body[p] = Size[f]
  BY <1>1 DEF Exactly, Sound, Writing, OverHttp
<1>3. dest' = [dest EXCEPT ![f] = Upto(body[p])]
  BY <1>2 DEF Rename
<1>4. CASE body[p] = Size[f]
  BY <1>1, <1>2, <1>3, <1>4, WholeIsThere
<1>5. CASE body[p] # Size[f]
  <2>1. body[p] < Size[f] /\ reply[p].ends = "closing"
    BY <1>1, <1>2, <1>5
  <2>2. SubSeq(Whole(f), 1, body[p]) = Upto(body[p])
    BY <1>1, <2>1 DEF Whole, Upto
  <2>3. dest'[f] = Upto(body[p])
    BY <1>1, <1>3 DEF Typed, TypedDisk
  <2>4. CutUnseen(f)
    BY <1>1, <2>1, <2>2, <2>3 DEF CutUnseen
  <2> QED
    BY <1>1, <1>2, <1>3, <2>4
<1> QED
  BY <1>4, <1>5

\* A fetch whose file is in its place leaves its transfer, and the .part is gone.
LEMMA RenameSound ==
  ASSUME Typed, Exactly, NEW p \in Fetchers, Rename(p)
  PROVE  Sound(p)' /\ Exact'
<1>1. pc'[p] \in {"read", "next", "idle"}
  BY NextFileAway DEF Rename
<1>2. File(p) \in Files /\ part' = [part EXCEPT ![File(p)] = Absent]
  BY RenamePlaces DEF Rename
<1>3. Exact'
  BY <1>2 DEF Exactly, Exact, Typed, TypedDisk
<1> QED
  BY <1>1, <1>3, AwaySound DEF OverHttp

\* A fetch begins over HTTP where none is under way, and comes to a mirror's steps from "next".
LEMMA StepAlone ==
  ASSUME OneOverHttp = TRUE, Typed, Alone, NEW p \in Fetchers, StepOf(p)
  PROVE  Alone'
<1>1. mirror' = mirror
  BY DEF StepOf, FetchStep, Fetch, Stop, Begin, TakeStop, AlreadyHere, StartDownload, ReadManifest, Measure,
     Request, RequestFails, OpenPart, OpenFails, Copy, CopyFails, CopyEnds, CheckLength, Rename, RenameFails,
     Spawn, WaitStop, WaitJoin, WaitFails, Place, Sweep, Killed
<1>2. \A q \in Fetchers \ {p} : pc'[q] = pc[q]
  BY OneAtATime
<1>3. mirror \in {"HuggingFace", "ModelScope"}
  BY FetchAssumption DEF Typed, TypedDisk
<1>4. CASE \E m \in Models : Fetch(p, m)
  <2>1. pc'[p] = "begin" /\ (mirror = "ModelScope" => \A q \in Fetchers : pc[q] = "idle")
    BY <1>4 DEF Fetch, Typed, TypedPlaces
  <2> QED
    BY <1>1, <1>2, <2>1 DEF Alone, OverHttp, OverHub
<1>5. CASE pc'[p] \in {"idle", "begin", "next", "read"} /\ pc[p] # "idle"
  BY <1>1, <1>2, <1>5 DEF Alone, OverHttp, OverHub
<1>6. CASE pc'[p] = "idle"
  BY <1>1, <1>2, <1>6 DEF Alone, OverHttp, OverHub
<1>7. CASE pc[p] \in OverHttp /\ pc'[p] \in OverHttp
  BY <1>1, <1>2, <1>7 DEF Alone, OverHttp, OverHub
<1>8. CASE pc[p] \in OverHub /\ pc'[p] \in OverHub
  BY <1>1, <1>2, <1>8 DEF Alone, OverHttp, OverHub
<1>9. CASE pc'[p] = pc[p]
  BY <1>1, <1>2, <1>9 DEF Alone
<1>10. ASSUME NEW how, Ends(p, how) PROVE pc'[p] = "idle"
  BY <1>10 DEF Ends, EndsAmong, Typed, TypedPlaces
<1>11. ASSUME NEW where, Goes(p, where) PROVE pc'[p] = where
  BY <1>11 DEF Goes, Typed, TypedPlaces
<1>12. ASSUME NEW handles, NextFile(p, handles) PROVE pc'[p] \in {"read", "next", "idle"}
  BY <1>12, NextFileAway
<1>13. CASE StartDownload(p)
  <2>1. pc[p] = "next" /\ pc'[p] = (IF mirror = "ModelScope" THEN "measure" ELSE "spawn")
    BY <1>11, <1>13 DEF StartDownload
  <2> QED
    BY <1>1, <1>2, <1>3, <2>1 DEF Alone, OverHttp, OverHub
<1>14. CASE Stop(p)
  BY <1>9, <1>14 DEF Stop
<1>15. CASE Begin(p) \/ TakeStop(p) \/ AlreadyHere(p)
  BY <1>5, <1>10, <1>11, <1>12, <1>15 DEF Begin, TakeStop, AlreadyHere
<1>16. CASE ReadManifest(p)
  BY <1>5, <1>10, <1>16 DEF ReadManifest, Typed, TypedPlaces
<1>17. CASE RequestFails(p) \/ OpenFails(p) \/ CopyFails(p) \/ RenameFails(p) \/ Killed(p)
  BY <1>6, <1>10, <1>17 DEF RequestFails, OpenFails, CopyFails, RenameFails, Killed
<1>18. CASE Measure(p) \/ OpenPart(p) \/ CopyEnds(p)
  BY <1>7, <1>11, <1>18 DEF Measure, OpenPart, CopyEnds, OverHttp
<1>19. CASE Request(p) \/ CheckLength(p)
  BY <1>6, <1>7, <1>10, <1>11, <1>19 DEF Request, CheckLength, OverHttp
<1>20. CASE Copy(p)
  BY <1>6, <1>9, <1>10, <1>20 DEF Copy
<1>21. CASE Rename(p)
  BY <1>5, <1>12, <1>21 DEF Rename
<1>22. CASE Spawn(p)
  BY <1>8, <1>11, <1>22 DEF Spawn, OverHub
<1>23. ASSUME NEW a \in Attempts,
              WaitStop(p, a) \/ WaitJoin(p, a) \/ WaitFails(p, a) \/ Place(p, a) \/ Sweep(p, a)
       PROVE  Alone'
  BY <1>5, <1>6, <1>8, <1>10, <1>11, <1>12, <1>23
     DEF WaitStop, WaitJoin, WaitFails, Place, Sweep, OverHub
<1> QED
  BY <1>4, <1>13, <1>14, <1>15, <1>16, <1>17, <1>18, <1>19, <1>20, <1>21, <1>22, <1>23 DEF StepOf, FetchStep

\* A step of a fetch: it goes on soundly, and the files stay exact.
LEMMA StepSound ==
  ASSUME Typed, Exactly, NEW p \in Fetchers, StepOf(p)
  PROVE  Sound(p)' /\ Exact'
<1>1. ASSUME NEW how, Ends(p, how) PROVE Sound(p)'
  <2>1. pc'[p] = "idle"
    BY <1>1 DEF Ends, EndsAmong, Typed, TypedPlaces
  <2> QED
    BY <2>1, AwaySound DEF OverHttp
<1>2. ASSUME NEW where \in {"next", "wait", "place", "sweep"}, Goes(p, where) PROVE Sound(p)'
  <2>1. pc'[p] = where
    BY <1>2 DEF Goes, Typed, TypedPlaces
  <2> QED
    BY <2>1, AwaySound DEF OverHttp
<1>3. ASSUME NEW handles, NextFile(p, handles) PROVE Sound(p)'
  <2>1. pc'[p] \in {"read", "next", "idle"}
    BY <1>3, NextFileAway
  <2> QED
    BY <2>1, AwaySound DEF OverHttp
<1>4. ASSUME part' = part PROVE Exact'
  BY <1>4 DEF Exactly, Exact
<1>5. CASE \E m \in Models : Fetch(p, m)
  <2>1. pc'[p] = "begin" /\ UNCHANGED <<dest, part>>
    BY <1>5 DEF Fetch, Typed, TypedPlaces, disk
  <2> QED
    BY <1>4, <2>1, AwaySound DEF OverHttp
<1>6. CASE Stop(p)
  <2>1. Sound(p)'
    BY <1>6, StaysSound DEF Stop, Exactly, transfer, disk
  <2> QED
    BY <1>4, <1>6, <2>1 DEF Stop, disk
<1>7. CASE Begin(p) \/ TakeStop(p) \/ AlreadyHere(p)
  BY <1>1, <1>2, <1>3, <1>4, <1>7 DEF Begin, TakeStop, AlreadyHere, disk
<1>15. CASE StartDownload(p)
  <2>1. pc'[p] \in {"measure", "spawn"} /\ File(p)' = File(p) /\ dest' = dest /\ dest[File(p)] = Absent
    BY <1>15 DEF StartDownload, Goes, Typed, TypedPlaces, File, disk
  <2>2. Sound(p)'
    BY <2>1 DEF Sound, Writing
  <2> QED
    BY <1>4, <1>15, <2>2 DEF StartDownload, disk
<1>8. CASE ReadManifest(p)
  <2>1. pc'[p] \in {"next", "idle"}
    BY <1>8 DEF ReadManifest, Ends, EndsAmong, Typed, TypedPlaces
  <2> QED
    BY <1>4, <1>8, <2>1, AwaySound DEF ReadManifest, disk, OverHttp
<1>9. CASE RequestFails(p) \/ OpenFails(p) \/ CopyFails(p) \/ RenameFails(p) \/ Killed(p) \/ Spawn(p)
  BY <1>1, <1>2, <1>4, <1>9 DEF RequestFails, OpenFails, CopyFails, RenameFails, Killed, Spawn, disk
<1>10. CASE Measure(p) \/ Request(p)
  BY <1>4, <1>10, MeasureSound, RequestSound
<1>11. CASE OpenPart(p) \/ Copy(p) \/ Rename(p)
  BY <1>11, OpenSound, CopySound, RenameSound
<1>12. CASE CopyEnds(p) \/ CheckLength(p)
  BY <1>4, <1>12, CopyEndsSound, CheckSound DEF CopyEnds, CheckLength, disk
<1>13. ASSUME NEW a \in Attempts, WaitStop(p, a) \/ WaitJoin(p, a) \/ WaitFails(p, a) \/ Sweep(p, a)
       PROVE  Sound(p)' /\ Exact'
  BY <1>1, <1>2, <1>3, <1>4, <1>13 DEF WaitStop, WaitJoin, WaitFails, Sweep, disk
<1>14. ASSUME NEW a \in Attempts, Place(p, a)
       PROVE  Sound(p)' /\ Exact'
  <2>1. Sound(p)'
    BY <1>1, <1>2, <1>14 DEF Place
  <2>2. part' = part
    BY <1>14 DEF Place
  <2>3. Exact'
    BY <2>2 DEF Exactly, Exact
  <2> QED
    BY <2>1, <2>3
<1> QED
  BY <1>5, <1>6, <1>7, <1>15, <1>8, <1>9, <1>10, <1>11, <1>12, <1>13, <1>14 DEF StepOf, FetchStep

\* Another fetch is over HTTP only while this one can do nothing to it: it is killed.
LEMMA OthersSound ==
  ASSUME OneOverHttp = TRUE, Typed, Exactly, NEW p \in Fetchers, StepOf(p), NEW q \in Fetchers, q # p
  PROVE  Sound(q)'
<1>1. /\ pc'[q] = pc[q] /\ index'[q] = index[q] /\ model'[q] = model[q] /\ have'[q] = have[q]
      /\ reply'[q] = reply[q] /\ pos'[q] = pos[q] /\ body'[q] = body[q] /\ done'[q] = done[q]
  BY OneAtATime
<1>2. CASE pc[q] \notin OverHttp
  BY <1>1, <1>2, AwaySound DEF OverHttp
<1>3. CASE pc[q] \in OverHttp
  <2>1. mirror = "ModelScope" /\ pc[p] = "idle" /\ pc[q] # "idle"
    BY <1>3 DEF Exactly, Alone, OverHttp
  <2>2. ~\E m \in Models : Fetch(p, m)
    BY <2>1 DEF Fetch
  <2>3. Killed(p)
    BY <2>1, <2>2 DEF StepOf, FetchStep, Stop, Begin, TakeStop, AlreadyHere, StartDownload, ReadManifest,
       Measure, Request, RequestFails, OpenPart, OpenFails, Copy, CopyFails, CopyEnds, CheckLength, Rename,
       RenameFails, Spawn, WaitStop, WaitJoin, WaitFails, Place, Sweep
  <2>4. handle'[q] = handle[q] /\ part' = part /\ dest' = dest
    BY <2>3 DEF Killed, Ends, EndsAmong, Closed, disk, Typed, TypedTransfer
  <2> QED
    BY <1>1, <2>4, StaysSound DEF Exactly
<1> QED
  BY <1>2, <1>3

\* A removal takes the .part from whoever writes to it, who goes on writing to nothing.
LEMMA RemovalExact ==
  ASSUME Typed, Exactly, RemoveEntry
  PROVE  Exactly'
<1>1. UNCHANGED <<mirror, pc, model, index, have, reply, pos, body, done>>
  BY DEF RemoveEntry
<1>2. Alone' /\ NoneLeft'
  BY <1>1 DEF Exactly, Alone, NoneLeft, RemoveEntry
<1>3. ASSUME NEW q \in Fetchers
      PROVE  File(q)' = File(q) /\ (Resuming(q)' <=> Resuming(q)) /\ Sound(q)
  BY <1>1 DEF File, Resuming, Exactly
<1>4. CASE UNCHANGED <<disk, handle>>
  <2>1. \A q \in Fetchers : Sound(q)'
    BY <1>1, <1>3, <1>4, StaysSound DEF disk
  <2>2. Exact'
    BY <1>4 DEF Exactly, Exact, disk
  <2> QED
    BY <1>2, <2>1, <2>2 DEF Exactly
<1>5. ASSUME NEW f \in Files, dest' = [dest EXCEPT ![f] = Absent], part' = part, Unlinked(f, "dest")
      PROVE  Exactly'
  <2>1. \A q \in Fetchers : pc[q] \in Writing => handle[q] # "dest"
    BY <1>3 DEF Sound
  <2>2. \A q \in Fetchers : handle'[q] = handle[q]
    BY <1>5, <2>1 DEF Unlinked
  <2>5. \A q \in Fetchers : pc[q] \in OverHttp => dest'[File(q)] \in {dest[File(q)], Absent}
    BY <1>5, AboutAFile DEF Typed, TypedDisk, OverHttp
  <2>3. \A q \in Fetchers : Sound(q)'
    BY <1>1, <1>3, <1>5, <2>2, <2>5, StaysSound
  <2>4. Exact'
    BY <1>5 DEF Exactly, Exact
  <2> QED
    BY <1>2, <2>3, <2>4 DEF Exactly
<1>6. ASSUME NEW f \in Files, part' = [part EXCEPT ![f] = Absent], dest' = dest, Unlinked(f, "part")
      PROVE  Exactly'
  <2>1. Exact'
    BY <1>6 DEF Exactly, Exact, Typed, TypedDisk
  <2>2. ASSUME NEW q \in Fetchers
        PROVE  Sound(q)'
    <3>1. CASE pc[q] \notin OverHttp
      BY <1>1, <3>1, AwaySound DEF OverHttp
    <3>2. CASE pc[q] \in OverHttp /\ File(q) # f
      <4>1. pc[q] \in Writing => handle'[q] = handle[q]
        BY <1>6, <3>2 DEF Unlinked
      <4>2. part'[File(q)] = part[File(q)]
        BY <1>6, <3>2, AboutAFile DEF Typed, TypedDisk, OverHttp
      <4>3. pc'[q] \in OverHttp => dest'[File(q)'] = Absent
        BY <1>1, <1>3, <1>6 DEF Sound
      <4> QED
        BY <1>1, <1>3, <4>1, <4>2, <4>3 DEF Sound
    <3>3. CASE pc[q] \in OverHttp /\ File(q) = f
      <4>1. pc[q] \in Writing => handle'[q] = "gone"
        BY <1>3, <1>6, <3>3 DEF Unlinked, Sound
      <4>2. part'[File(q)] = Absent
        BY <1>6, <3>3 DEF Typed, TypedDisk
      <4>3. pc'[q] \in OverHttp => dest'[File(q)'] = Absent
        BY <1>1, <1>3, <1>6 DEF Sound
      <4> QED
        BY <1>1, <1>3, <4>1, <4>2, <4>3 DEF Sound
    <3> QED
      BY <3>1, <3>2, <3>3
  <2> QED
    BY <1>2, <2>1, <2>2 DEF Exactly
<1> QED
  BY <1>4, <1>5, <1>6 DEF RemoveEntry, disk

\* Over HTTP no download is handed to a thread of its own.
LEMMA StepNoneLeft == Typed /\ Alone /\ NoneLeft /\ [Next]_vars => NoneLeft'
<1> SUFFICES ASSUME Typed, Alone, NoneLeft, [Next]_vars, mirror' = "ModelScope"
             PROVE  attempt' \in [Attempts -> {Free, [Free EXCEPT !.thread = "killed"]}]
  BY DEF NoneLeft
<1>1. mirror = "ModelScope"
  <2>1. ASSUME NEW p \in Fetchers, StepOf(p) PROVE mirror' = mirror
    BY <2>1 DEF StepOf, FetchStep, Fetch, Stop, Begin, TakeStop, AlreadyHere, StartDownload, ReadManifest,
       Measure, Request, RequestFails, OpenPart, OpenFails, Copy, CopyFails, CopyEnds, CheckLength, Rename,
       RenameFails, Spawn, WaitStop, WaitJoin, WaitFails, Place, Sweep, Killed
  <2>2. CASE ~\E p \in Fetchers : StepOf(p)
    BY <2>2 DEF Next, StepOf, Client, Arrive, DownloadFails, AbandonedLands, AbandonedSweeps, Remove,
       RemoveEntry, RemoveEnds, vars
  <2> QED
    BY <2>1, <2>2
<1>2. /\ attempt \in [Attempts -> {Free, [Free EXCEPT !.thread = "killed"]}]
      /\ \A p \in Fetchers : pc[p] \notin OverHub
  BY <1>1 DEF NoneLeft, Alone
<1>3. \A a \in Attempts : attempt[a].thread \in {"none", "killed"} /\ attempt[a].waits = "nobody"
  BY <1>2 DEF Free
<1>4. CASE \E p \in Fetchers : Killed(p)
  BY <1>2, <1>4 DEF Killed
<1>5. CASE attempt' = attempt
  BY <1>2, <1>5
<1>6. CASE ~(\E p \in Fetchers : Killed(p))
  <2>1. ~\E a \in Attempts : Client(a) \/ AbandonedLands(a) \/ AbandonedSweeps(a)
    BY <1>3 DEF Client, Arrive, DownloadFails, AbandonedLands, AbandonedSweeps
  <2>2. \A p \in Fetchers : /\ ~Spawn(p)
                            /\ ~\E a \in Attempts : \/ WaitStop(p, a) \/ WaitJoin(p, a) \/ WaitFails(p, a)
                                                     \/ Place(p, a) \/ Sweep(p, a)
    BY <1>2 DEF Spawn, WaitStop, WaitJoin, WaitFails, Place, Sweep, OverHub
  <2>3. attempt' = attempt
    BY <1>6, <2>1, <2>2 DEF Next, FetchStep, Fetch, Stop, Begin, TakeStop, AlreadyHere, StartDownload,
       ReadManifest, Measure, Request, RequestFails, OpenPart, OpenFails, Copy, CopyFails, CopyEnds,
       CheckLength, Rename, RenameFails, Remove, RemoveEntry, RemoveEnds, hub, vars
  <2> QED
    BY <1>5, <2>3
<1> QED
  BY <1>4, <1>6

\* Every step keeps the transfers sound, over HTTP one fetch at a time.
LEMMA StepExactly == OneOverHttp = TRUE /\ Typed /\ Exactly /\ [Next]_vars => Exactly'
<1> SUFFICES ASSUME OneOverHttp = TRUE, Typed, Exactly, [Next]_vars PROVE Exactly'
  OBVIOUS
<1>5. NoneLeft'
  BY StepNoneLeft DEF Exactly
<1>1. ASSUME NEW p \in Fetchers, StepOf(p)
      PROVE  Exactly'
  <2>1. Alone'
    BY <1>1, StepAlone DEF Exactly
  <2>2. Sound(p)' /\ Exact'
    BY <1>1, StepSound
  <2>3. \A q \in Fetchers : q # p => Sound(q)'
    BY <1>1, OthersSound
  <2> QED
    BY <1>5, <2>1, <2>2, <2>3 DEF Exactly
<1>2. ASSUME UNCHANGED <<mirror, part, pc, model, index, transfer>>,
             \A q \in Fetchers : pc[q] \in OverHttp => dest' = dest
      PROVE  Exactly'
  <2>1. Alone'
    BY <1>2 DEF Exactly, Alone
  <2>2. \A q \in Fetchers : Sound(q)'
    BY <1>2, StaysSound DEF Exactly, transfer
  <2>3. Exact'
    BY <1>2 DEF Exactly, Exact
  <2> QED
    BY <1>5, <2>1, <2>2, <2>3 DEF Exactly
<1>3. CASE \E a \in Attempts : AbandonedLands(a)
  <2>1. PICK a \in Attempts : AbandonedLands(a)
    BY <1>3
  <2>2. UNCHANGED <<mirror, part, pc, model, index, transfer>>
    BY <2>1 DEF AbandonedLands
  <2>3. \A q \in Fetchers : pc[q] \notin OverHttp
    BY <2>1 DEF AbandonedLands, Exactly, Alone, NoneLeft, Free
  <2> QED
    BY <1>2, <2>2, <2>3
<1>4. CASE \/ \E a \in Attempts : Client(a) \/ AbandonedSweeps(a)
           \/ \E m \in Models : Remove(m)
           \/ RemoveEnds \/ UNCHANGED vars
  <2>1. UNCHANGED <<mirror, part, dest, pc, model, index, transfer>>
    BY <1>4 DEF Client, Arrive, DownloadFails, AbandonedSweeps, Remove, RemoveEnds, vars, disk
  <2> QED
    BY <1>2, <2>1
<1> QED
  BY <1>1, <1>3, <1>4, RemovalExact DEF Next, StepOf

\* What a step puts under a file's own name.
LEMMA Placed ==
  ASSUME Typed, Exactly, [Next]_vars, NEW f \in Files
  PROVE  dest'[f] \in {dest[f], Absent, Whole(f)} \/ (dest[f] = Absent /\ CutUnseen(f))
<1>1. CASE \E p \in Fetchers : Copy(p)
  <2>1. PICK p \in Fetchers : Copy(p)
    BY <1>1
  <2>2. handle[p] # "dest"
    BY <2>1 DEF Copy, Exactly, Sound, Writing
  <2> QED
    BY <2>1, <2>2 DEF Copy
<1>2. ASSUME NEW p \in Fetchers, Rename(p)
      PROVE  dest'[f] \in {dest[f], Absent, Whole(f)} \/ (dest[f] = Absent /\ CutUnseen(f))
  BY <1>2, RenamePlaces DEF Typed, TypedDisk
<1>3. CASE \E p \in Fetchers, a \in Attempts : Place(p, a)
  BY <1>3 DEF Place, Typed, TypedDisk
<1>4. CASE \E a \in Attempts : AbandonedLands(a)
  <2>1. PICK a \in Attempts : AbandonedLands(a)
    BY <1>4
  <2> DEFINE g == attempt[a].file
  <2>2. dest' = dest \/ dest' = [dest EXCEPT ![g] = Whole(g)]
    BY <2>1 DEF AbandonedLands
  <2> HIDE DEF g
  <2> QED
    BY <2>2 DEF Typed, TypedDisk
<1>5. CASE RemoveEntry
  BY <1>5 DEF RemoveEntry, disk, Typed, TypedDisk
<1>6. CASE dest' = dest
  BY <1>6
<1> QED
  BY <1>1, <1>2, <1>3, <1>4, <1>5, <1>6 DEF Next, FetchStep, Client, Fetch, Stop, Begin, TakeStop, AlreadyHere,
     StartDownload, ReadManifest, Measure, Request, RequestFails, OpenPart, OpenFails, CopyFails, CopyEnds,
     CheckLength, RenameFails, Spawn, WaitStop, WaitJoin, WaitFails, Sweep, Killed, Arrive, DownloadFails,
     AbandonedSweeps, Remove, RemoveEnds, disk, vars

\* The files are exact before any fetch.
LEMMA StartExactly == Init => Exactly
<1> SUFFICES ASSUME Init PROVE Exactly
  OBVIOUS
<1> QED
  BY DEF Init, Exactly, Alone, NoneLeft, Exact, Sound, Writing, OverHttp, OverHub

\* With any processes, stops, kills, failures and removals, from either mirror, and over HTTP one
\* fetch at a time: whatever the server answers and wherever a body breaks off, what comes to be under
\* a file's own name is all of it; but for a body that only the closing of the connection ends, which
\* when cut short leaves the file's first blocks there.
THEOREM WholeUnderItsName == ASSUME OneOverHttp = TRUE PROVE Spec => WholeOrNothing
<1>1. Init => Exactly
  BY StartExactly
<1>2. Typed /\ Exactly /\ [Next]_vars => Exactly'
  BY StepExactly
<1>3. Typed /\ Exactly /\ [Next]_vars
      => [\A f \in Files : dest'[f] \in {dest[f], Absent, Whole(f)} \/ CutUnseen(f)]_vars
  BY Placed
<1> QED
  BY <1>1, <1>2, <1>3, Typing, PTL DEF Spec, WholeOrNothing

\* And what is there whole stays as it is until somebody removes it.
THEOREM WhatArrivedStays == ASSUME OneOverHttp = TRUE PROVE Spec => ArrivedStays
<1>1. Init => Exactly
  BY StartExactly
<1>2. Typed /\ Exactly /\ [Next]_vars => Exactly'
  BY StepExactly
<1>3. Typed /\ Exactly /\ [Next]_vars
      => [\A f \in Files : dest[f] = Whole(f) /\ removing = NoModel => dest'[f] = dest[f]]_vars
  <2> SUFFICES ASSUME Typed, Exactly, [Next]_vars, NEW f \in Files, dest[f] = Whole(f), removing = NoModel
               PROVE  dest'[f] = dest[f]
    OBVIOUS
  <2>1. dest'[f] # Absent /\ dest[f] # Absent
    BY FilesStay, WholeIsThere
  <2> QED
    BY <2>1, Placed
<1> QED
  BY <1>1, <1>2, <1>3, Typing, PTL DEF Spec, ArrivedStays
=============================================================================
