------------------------------ MODULE ModelList ------------------------------
(***************************************************************************)
(* The first screen of the terminal program, waifu-cli/src/tui/models.rs:  *)
(* which model, where models are kept, and the fetch before the next       *)
(* screen.  Three threads have a hand in a fetch: the screen, one that     *)
(* passes words between (start_fetching), and the model manager's, of      *)
(* which Fetch is the specification.  The cursor is left out, since it     *)
(* goes to any row, and so is what is said of a failure.                   *)
(***************************************************************************)
EXTENDS Integers

CONSTANTS
  Published,    \* the models of the list
  RepoOf,       \* the repository of each, and so its directory
  Explicit,     \* those marked not for all audiences
  Folders,      \* where models may be kept
  Default,      \* where they are when nobody says
  DiskFails     \* whether fetches, deletions and the settings file fail

Nobody == "nobody"

ASSUME ListAssumption ==
  /\ Published \cap {Nobody, "quit", "a file"} = {}
  /\ Folders \cap {Nobody, "silent", "odd", "unreadable"} = {}
  /\ DOMAIN RepoOf = Published /\ Explicit \subseteq Published
  /\ Default \in Folders /\ DiskFails \in BOOLEAN

VARIABLES
  disk,         \* in each folder, whether none, part or all of each model is there
  config,       \* config.toml: a folder, "silent", "odd" with one that is no string, "unreadable"
  environment,  \* WAIFU_CACHE: a folder or Nobody
  rows,         \* what the rows say: whether a model is cached, and whether any of it is there
  over,         \* the box over the list, and the model it asks about
  fetching,     \* the model the screen waits for
  listTurn,     \* choose: not there yet, it listens, takes a key, or has come back
  picked,       \* what it has come back with
  stop,         \* the flag of the fetch
  relay,        \* the thread between, and whether it has passed the stop on
  fetch,        \* the model manager's
  word,         \* the ending the screen has not read yet
  spoilt        \* whether a deletion failed half way since the rows were read

listVars == <<disk, config, environment, rows, over, fetching, listTurn, picked, stop, relay,
              fetch, word, spoilt>>

\* model_directory: the environment, the settings file, and the default.
Unsaid(c)  == environment = Nobody /\ c \in {"odd", "unreadable"}
CannotTell == Unsaid(config)
Folder(c)  == IF environment # Nobody THEN environment ELSE IF c = "silent" THEN Default ELSE c

SameDirectory(m) == {n \in Published : RepoOf[n] = RepoOf[m]}

\* catalog: is_cached_in and cached_bytes_in, which is of everything in the directory.
Listed(d, c) ==
  [m \in Published |->
     IF Unsaid(c) THEN [cached |-> FALSE, bytes |-> FALSE]
     ELSE [cached |-> d[Folder(c)][m] = "all",
           bytes  |-> \E n \in SameDirectory(m) : d[Folder(c)][n] # "none"]]

ListInit ==
  /\ disk \in [Folders -> [Published -> {"none", "part", "all"}]]
  /\ config \in Folders \cup {"silent", "odd", "unreadable"}
  /\ environment \in Folders \cup {Nobody}
  /\ rows = [m \in Published |-> [cached |-> FALSE, bytes |-> FALSE]] /\ spoilt = FALSE
  /\ over = [box |-> "none", of |-> Nobody] /\ fetching = Nobody
  /\ listTurn = "closed" /\ picked = Nobody
  /\ stop = FALSE /\ relay = [at |-> "none", told |-> FALSE]
  /\ fetch = "none" /\ word = "none"

-----------------------------------------------------------------------------
(* The screen. *)

places  == <<disk, config, environment>>
threads == <<relay, fetch, word>>

ReadTheCacheAgain == rows' = Listed(disk', config') /\ spoilt' = FALSE

\* choose and entries.
ListOpens ==
  /\ listTurn = "closed" /\ listTurn' = "listens"
  /\ UNCHANGED places /\ ReadTheCacheAgain
  /\ UNCHANGED <<over, fetching, picked, stop, threads>>

ComesBack(with) == picked' = with /\ listTurn' = "over"

\* Between two frames: nothing to hear, or how the fetch ended.
Listens ==
  /\ listTurn = "listens" /\ (fetching = Nobody \/ word = "none")
  /\ listTurn' = "keys"
  /\ UNCHANGED <<places, rows, over, fetching, picked, stop, threads, spoilt>>

HearsDone ==
  /\ listTurn = "listens" /\ fetching # Nobody /\ word = "done"
  /\ ComesBack(fetching)
  /\ UNCHANGED <<places, rows, over, fetching, stop, threads, spoilt>>

HearsNot ==
  /\ listTurn = "listens" /\ fetching # Nobody /\ word \in {"stopped", "failed"}
  /\ listTurn' = "keys" /\ fetching' = Nobody /\ word' = "none"
  /\ UNCHANGED places /\ ReadTheCacheAgain
  /\ UNCHANGED <<over, picked, stop, relay, fetch>>

Pressing == listTurn = "keys" /\ listTurn' = "listens" /\ UNCHANGED picked
NoBox    == over.box = "none" /\ fetching = Nobody
Shuts    == over' = [box |-> "none", of |-> Nobody]
Asking(what, m) == over' = [box |-> what, of |-> m]

\* No key, or one that stays where it is: while a fetch goes on, all but two.
NoKey ==
  /\ Pressing
  /\ UNCHANGED <<places, rows, over, fetching, stop, threads, spoilt>>

Leaving ==
  /\ listTurn = "keys" /\ ComesBack("quit")
  /\ stop' = (stop \/ fetching # Nobody)
  /\ UNCHANGED <<places, rows, over, fetching, threads, spoilt>>

EscapeStopsFetch ==
  /\ Pressing /\ fetching # Nobody
  /\ stop' = TRUE
  /\ UNCHANGED <<places, rows, over, fetching, threads, spoilt>>

AsksOver(what, m) ==
  /\ Pressing /\ NoBox
  /\ Asking(what, m)
  /\ UNCHANGED <<places, rows, fetching, stop, threads, spoilt>>

AsksToDelete == \E m \in Published : rows[m].bytes /\ AsksOver("delete", m)

\* Refused where the environment says, which would win over what is typed.
AsksForAFolder == environment = Nobody /\ AsksOver("folder", Nobody)
AsksForAFile   == AsksOver("file", Nobody)
AsksToProceed  == \E m \in Explicit : AsksOver("proceed", m)

Refused ==
  /\ Pressing /\ over.box # "none"
  /\ Shuts
  /\ UNCHANGED <<places, rows, fetching, stop, threads, spoilt>>

\* A model that was asked for and, where it has to be, agreed to: handed on, or fetched.
Wanted(m) ==
  \/ NoBox /\ m \notin Explicit
  \/ over = [box |-> "proceed", of |-> m]

HandsOn(m) ==
  /\ listTurn = "keys" /\ Wanted(m) /\ rows[m].cached
  /\ Shuts /\ ComesBack(m)
  /\ UNCHANGED <<places, rows, fetching, stop, threads, spoilt>>

\* start_fetching.
StartFetching(m) ==
  /\ Pressing /\ Wanted(m) /\ ~rows[m].cached
  /\ Shuts /\ fetching' = m
  /\ stop' = FALSE /\ relay' = [at |-> "starts", told |-> FALSE] /\ fetch' = "none"
  /\ UNCHANGED <<places, rows, word, spoilt>>

PicksAFile ==
  /\ listTurn = "keys" /\ over.box = "file"
  /\ Shuts /\ ComesBack("a file")
  /\ UNCHANGED <<places, rows, fetching, stop, threads, spoilt>>

\* A mutation: only the row that was deleted is read again.
DeletesReadsOne(m) ==
  /\ Pressing /\ over = [box |-> "delete", of |-> m] /\ ~CannotTell
  /\ Shuts
  /\ disk' = [disk EXCEPT ![Folder(config)] =
                [n \in Published |-> IF n \in SameDirectory(m) THEN "none" ELSE @[n]]]
  /\ rows' = [rows EXCEPT ![m] = Listed(disk', config)[m]] /\ spoilt' = FALSE
  /\ UNCHANGED <<config, environment, fetching, stop, threads>>

\* remove: the directory goes with all that is in it, and the rows are read again.
Deletes(m) ==
  /\ Pressing /\ over = [box |-> "delete", of |-> m] /\ ~CannotTell
  /\ Shuts
  /\ disk' = [disk EXCEPT ![Folder(config)] =
                [n \in Published |-> IF n \in SameDirectory(m) THEN "none" ELSE @[n]]]
  /\ UNCHANGED <<config, environment>> /\ ReadTheCacheAgain
  /\ UNCHANGED <<fetching, stop, threads>>

\* Some of it is gone by the time it fails, and the rows stay as they are.
DeletesPart(m) ==
  /\ DiskFails
  /\ Pressing /\ over = [box |-> "delete", of |-> m] /\ ~CannotTell
  /\ Shuts
  /\ \E n \in SameDirectory(m) :
       /\ disk[Folder(config)][n] # "none"
       /\ disk' = [disk EXCEPT ![Folder(config)][n] = "part"]
  /\ spoilt' = TRUE
  /\ UNCHANGED <<config, environment, rows, fetching, stop, threads>>

\* set_model_dir: a file that is not TOML is read before it is written, and so stays; a write that
\* fails may leave nothing, or part of it.
Written(c) ==
  IF config = "unreadable" THEN {config}
  ELSE {c} \cup (IF DiskFails THEN {config, "silent", "unreadable"} ELSE {})

\* A mutation: the rows are read again only where that failed.
FolderGivenUnread(c) ==
  /\ Pressing /\ over.box = "folder"
  /\ Shuts
  /\ config' \in Written(c)
  /\ UNCHANGED <<disk, environment, fetching, stop, threads>>
  /\ IF config' = c THEN UNCHANGED <<rows, spoilt>> ELSE ReadTheCacheAgain

\* change_directory: what was typed, or the default for nothing.
FolderGiven(c) ==
  /\ Pressing /\ over.box = "folder"
  /\ Shuts
  /\ config' \in Written(c)
  /\ UNCHANGED <<disk, environment>> /\ ReadTheCacheAgain
  /\ UNCHANGED <<fetching, stop, threads>>

Choosing ==
  \/ NoKey \/ Leaving \/ EscapeStopsFetch
  \/ AsksToDelete \/ AsksForAFolder \/ AsksForAFile \/ AsksToProceed \/ Refused
  \/ \E m \in Published : HandsOn(m) \/ StartFetching(m) \/ Deletes(m) \/ DeletesPart(m)
  \/ PicksAFile
  \/ \E c \in Folders \cup {"silent"} : FolderGiven(c)

-----------------------------------------------------------------------------
(* The thread between, and the model manager's. *)

atHand == <<config, environment, rows, over, fetching, listTurn, picked, stop, spoilt>>

RelayStarts ==
  /\ relay.at = "starts"
  /\ \/ relay' = [relay EXCEPT !.at = "listens"] /\ fetch' = "going" /\ word' = word
     \/ DiskFails /\ relay' = [relay EXCEPT !.at = "over"] /\ fetch' = fetch /\ word' = "failed"
  /\ UNCHANGED <<disk, atHand>>

RelayHears ==
  /\ relay.at = "listens" /\ fetch \in {"done", "stopped", "failed"}
  /\ relay' = [relay EXCEPT !.at = "over"] /\ word' = fetch
  /\ UNCHANGED <<disk, atHand, fetch>>

\* A mutation: it is looked for only once the fetch has begun to come down.
RelayTellsOnNews ==
  /\ relay.at = "listens" /\ ~relay.told /\ stop
  /\ ~CannotTell /\ disk[Folder(config)][fetching] # "none"
  /\ relay' = [relay EXCEPT !.told = TRUE]
  /\ UNCHANGED <<disk, atHand, fetch, word>>

\* After a word that is no ending, or a tick without one.
RelayTells ==
  /\ relay.at = "listens" /\ ~relay.told /\ stop
  /\ relay' = [relay EXCEPT !.told = TRUE]
  /\ UNCHANGED <<disk, atHand, fetch, word>>

Comes(much) == disk' = [disk EXCEPT ![Folder(config)][fetching] = much]

FetchComes ==
  /\ fetch = "going" /\ ~CannotTell /\ disk[Folder(config)][fetching] = "none"
  /\ Comes("part")
  /\ UNCHANGED <<atHand, threads>>

FetchDone ==
  /\ fetch = "going" /\ ~CannotTell
  /\ fetch' = "done" /\ Comes("all")
  /\ UNCHANGED <<atHand, relay, word>>

FetchFails ==
  /\ fetch = "going" /\ (DiskFails \/ CannotTell)
  /\ fetch' = "failed"
  /\ UNCHANGED <<disk, atHand, relay, word>>

FetchStops ==
  /\ fetch = "going" /\ relay.told
  /\ fetch' = "stopped"
  /\ UNCHANGED <<disk, atHand, relay, word>>

-----------------------------------------------------------------------------
Screens == Listens \/ HearsDone \/ HearsNot \/ Choosing
Relays  == RelayStarts \/ RelayHears \/ RelayTells

ListNext == ListOpens \/ Screens \/ Relays \/ FetchComes \/ FetchDone \/ FetchFails \/ FetchStops

\* The screen and the thread between wake every tick, and a fetch that is told stops.
ListFairness == WF_listVars(Screens) /\ WF_listVars(Relays) /\ WF_listVars(FetchStops)

ListSpec == ListInit /\ [][ListNext]_listVars /\ ListFairness

-----------------------------------------------------------------------------
\* "The next screen does not come up until it is all here": what is handed on is whole in the
\* folder it will be looked for in, but for what a deletion that failed half way took of it.
HandedOnIsWhole ==
  picked \in Published => ~CannotTell /\ (disk[Folder(config)][picked] = "all" \/ spoilt)

\* A stop that was asked for brings the list back, or the next screen if all had come, whatever
\* of the three threads it was asked ahead of.
StopsAFetch == (fetching # Nobody /\ stop) ~> (fetching = Nobody \/ listTurn = "over")
=============================================================================
