------------------------------ MODULE MCPrograms ------------------------------
(* The programs over the library, on small instances, one at a time: a window of the app (App), *)
(* and the two screens of the terminal program (ModelList and DrawScreen).                      *)
EXTENDS App, DrawScreen, ModelList, TLC

VARIABLE side

programVars == <<appVars, drawVars, listVars, side>>

\* One is looked at, and the others are as they are before they begin. The list has one model at
\* most in the second folder, and nobody names the default one, nor both names another.
ProgramsInit ==
  /\ AppInit /\ DrawInit /\ ListInit
  /\ side \in {"window", "drawing", "list"}
  /\ side # "drawing" => guided /\ prompt
  /\ disk["there"]["m2"] = "none"
  /\ config # "here" /\ (environment = Nobody \/ (environment = "there" /\ config = "silent"))
  /\ side # "list" =>
       config = "silent" /\ environment = Nobody /\ \A f \in Folders, m \in Published : disk[f][m] = "none"

\* The first job is of one model in one place: which of them is only a matter of names.
FirstJob == jobs[1].status # "none" => jobs[1].model = "m" /\ jobs[1].placement = "metal"

ProgramsNext ==
  \/ side = "window"  /\ AppNext  /\ FirstJob' /\ UNCHANGED <<drawVars, listVars, side>>
  \/ side = "drawing" /\ DrawNext /\ UNCHANGED <<appVars, listVars, side>>
  \/ side = "list"    /\ ListNext /\ UNCHANGED <<appVars, drawVars, side>>

ProgramsSpec ==
  /\ ProgramsInit /\ [][ProgramsNext]_programVars
  /\ AppFairness /\ DrawFairness /\ ListFairness

-----------------------------------------------------------------------------
(* Two models of one repository, one of them marked. *)

MCRepoOf == "m1" :> "repo" @@ "m2" :> "repo"

\* What is asked to stop, on either screen of the terminal program, stops.
StopsAreTaken == StopsARun /\ StopsAFetch
=============================================================================
