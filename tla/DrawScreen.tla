------------------------------ MODULE DrawScreen ------------------------------
(***************************************************************************)
(* The drawing screen of the terminal program, waifu-cli/src/tui/draw.rs:  *)
(* the loop that asks, reads a key and hears (run), the thread that owns   *)
(* the engine (paint), two channels between them, and the flag a stop is   *)
(* asked by.  What the boxes hold is left out but for whether there is a   *)
(* prompt, and so are reports, which move the bar and nothing else.        *)
(***************************************************************************)
EXTENDS Integers, Sequences, FiniteSetsExt

CONSTANTS
  Devices,    \* where this machine can put a model
  MayFail     \* whether reads, runs and the terminal fail

None == "none"

ASSUME DrawAssumption == None \notin Devices /\ MayFail \in BOOLEAN

VARIABLES
  guided,     \* whether the model takes guidance, which decides the boxes
  cursor,     \* the field it is in, the column up and down aim for, and whether keys go into it
  box,        \* the box on top of the screen, which has the keys while it is up
  prompt,     \* whether there is a prompt to draw
  status, loaded, runtime,  \* what the screen shows: what is going on, and on which device
  moving, pending,          \* what the loop is about to ask: a device to read onto, a draw
  quit, turn,               \* the loop
  requests, updates,        \* the channels to the painter and back
  cancel,                   \* the flag
  painter,    \* where paint is, the device it reads onto, and asked_to_stop
  onDevice,   \* the device its engine and model are on, or None
  run         \* the run on the engine, until the painter has heard its end

shown    == <<guided, cursor, box, prompt, status, loaded, runtime, moving, pending, quit>>
between  == <<requests, updates>>
behind   == <<painter, onDevice, run>>
drawVars == <<shown, turn, between, cancel, behind>>

DrawInit ==
  /\ guided \in BOOLEAN /\ prompt \in BOOLEAN
  /\ cursor = [at |-> "Prompt", column |-> 1, editing |-> FALSE]
  /\ box = None /\ status = "ready" /\ loaded = FALSE /\ runtime = None
  /\ moving = None /\ pending = FALSE /\ quit = FALSE /\ turn = "closed"
  /\ requests = <<>> /\ updates = <<>> /\ cancel = FALSE
  /\ painter = [at |-> "waiting", on |-> None, told |-> FALSE] /\ onDevice = None /\ run = None

-----------------------------------------------------------------------------
(* The boxes, in the order tab walks them and row by row. *)

Texts == IF guided THEN <<"Prompt", "Negative">> ELSE <<"Prompt">>
Panel ==
  IF guided THEN <<"Steps", "Guidance", "Size", "Seed", "Device">>
            ELSE <<"Steps", "Size", "Seed", "Device">>

Order == Texts \o Panel \o <<"Generate">>

Half == (Len(Panel) + Len(Texts) - 1) \div Len(Texts)
Rows ==
  [r \in 1 .. Len(Panel) + 1 |->
     IF r > Len(Panel) THEN <<"Generate">> ELSE <<Texts[1 + (r - 1) \div Half], Panel[r]>>]

TakesText(field) == field \in {"Prompt", "Negative"}

\* A box of text is beside several rows, and counts as on the first of them.
RowOf(field)    == Min({r \in DOMAIN Rows : \E c \in DOMAIN Rows[r] : Rows[r][c] = field})
ColumnOf(field) == CHOOSE c \in DOMAIN Rows[RowOf(field)] : Rows[RowOf(field)][c] = field

Aimed(r) == Rows[r][IF cursor.column \in DOMAIN Rows[r] THEN cursor.column ELSE 1]

Along(by) ==
  LET row == Rows[RowOf(cursor.at)]
      c   == ColumnOf(cursor.at) + by
  IN  IF c \in DOMAIN row THEN row[c] ELSE cursor.at

-----------------------------------------------------------------------------
(* The loop: what is asked of the painter, a key, and all there is to hear. *)

ReadOnto(device) ==
  runtime' = device /\ loaded' = FALSE /\ moving' = device /\ status' = "reading"

\* draw: the painter is there, and the first read is asked for before the first frame.
Opens(device) ==
  /\ turn = "closed" /\ turn' = "asks"
  /\ ReadOnto(device)
  /\ UNCHANGED <<guided, cursor, box, prompt, pending, quit, between, cancel, behind>>

Asks ==
  /\ turn = "asks" /\ ~quit /\ turn' = "key"
  /\ requests' = requests
       \o (IF moving # None THEN <<[ask |-> "read", on |-> moving]>> ELSE <<>>)
       \o (IF pending THEN <<[ask |-> "draw", on |-> runtime]>> ELSE <<>>)
  /\ moving' = None /\ pending' = FALSE
  /\ UNCHANGED <<guided, cursor, box, prompt, status, loaded, runtime, quit, updates, cancel, behind>>

\* The loop is left, on a quit or an error of the terminal's: the run is asked to stop, the channel
\* closed, and the painter waited for.
Leaves ==
  /\ \/ turn = "asks" /\ quit
     \/ turn = "key" /\ MayFail
  /\ turn' = "joining" /\ cancel' = TRUE
  /\ UNCHANGED <<shown, between, behind>>

Joined ==
  /\ turn = "joining" /\ painter.at = "gone"
  /\ turn' = "over"
  /\ UNCHANGED <<shown, between, cancel, behind>>

Key == turn = "key" /\ turn' = "hears" /\ UNCHANGED <<guided, between, behind>>

\* update: a failure is a read's where one is going on, whatever it was of.
Hears ==
  /\ turn = "hears" /\ updates # <<>> /\ updates' = Tail(updates)
  /\ loaded' = (loaded \/ Head(updates).what = "ready")
  /\ status' = "ready"
  /\ UNCHANGED <<guided, cursor, box, prompt, runtime, moving, pending, quit, turn, requests, cancel, behind>>

HeardAll ==
  /\ turn = "hears" /\ updates = <<>>
  /\ turn' = "asks"
  /\ UNCHANGED <<shown, between, cancel, behind>>

-----------------------------------------------------------------------------
(* The keys. *)

onCursor == <<box, prompt, status, loaded, runtime, moving, pending, quit, cancel>>
onBox    == <<cursor, prompt, status, loaded, runtime, moving, pending, quit, cancel>>

\* None was pressed, or one that is refused, or that stays in the box it is in.
Nothing == Key /\ UNCHANGED <<cursor, onCursor>>

Quits == quit' = TRUE /\ cancel' = TRUE /\ UNCHANGED <<cursor, box, prompt, status, loaded, runtime, moving, pending>>

ControlC == Key /\ Quits

Leave == Key /\ box = "leaving" /\ Quits

\* No to the question, a value given or not, and a device not picked.
Closes == Key /\ box # None /\ box' = None /\ UNCHANGED onBox

Picks(device) ==
  /\ Key /\ box = "picking" /\ box' = None
  /\ IF device = runtime /\ loaded
     THEN UNCHANGED <<runtime, loaded, moving, status>>
     ELSE ReadOnto(device)
  /\ UNCHANGED <<cursor, prompt, pending, quit, cancel>>

Walking == Key /\ box = None /\ UNCHANGED onCursor

To(field) == cursor' = [at |-> field, column |-> ColumnOf(field), editing |-> FALSE]

\* step_focus: tab and back, in a box of text or not.
StepFocus(by) ==
  /\ Walking
  /\ LET at == CHOOSE n \in DOMAIN Order : Order[n] = cursor.at
     IN  cursor' = [cursor EXCEPT !.at = Order[1 + ((at - 1 + by) % Len(Order))], !.editing = FALSE]

\* move_row, which passes over rows of the box it is in. In a box of text, down its last line.
MoveRow(by) ==
  /\ Walking /\ (cursor.editing => by > 0)
  /\ LET others == {r \in DOMAIN Rows : (r - RowOf(cursor.at)) * by > 0 /\ Aimed(r) # cursor.at}
         next   == IF by > 0 THEN Min(others) ELSE Max(others)
     IN  cursor' = [cursor EXCEPT !.at = IF others = {} THEN @ ELSE Aimed(next), !.editing = FALSE]

\* Left and right, and in a box of text over either end of it, where there is a box to go to.
MoveAlong(by) ==
  /\ Walking
  /\ cursor.editing => Along(by) # cursor.at
  /\ To(Along(by))

Enters == Walking /\ TakesText(cursor.at) /\ ~cursor.editing /\ cursor' = [cursor EXCEPT !.editing = TRUE]
DoneIn == Walking /\ cursor.editing /\ cursor' = [cursor EXCEPT !.editing = FALSE]

\* edit: what is typed may leave a prompt of spaces, or none; typing over a box goes into it.
Types ==
  /\ Key /\ box = None /\ TakesText(cursor.at)
  /\ cursor' = [cursor EXCEPT !.editing = TRUE]
  /\ \/ cursor.at = "Prompt" /\ prompt' \in (IF cursor.editing THEN BOOLEAN ELSE {prompt, TRUE})
     \/ UNCHANGED prompt
  /\ UNCHANGED <<box, status, loaded, runtime, moving, pending, quit, cancel>>

Elsewhere == Key /\ box = None /\ ~cursor.editing

\* enter and open_value, on a field that has a box for its value.
Opened ==
  /\ Elsewhere /\ cursor.at \in {"Steps", "Guidance", "Size", "Seed"}
  /\ box' = "asking"
  /\ UNCHANGED onBox

\* A mutation: the list is opened while a picture is drawn.
PicksADeviceAnyhow ==
  /\ Elsewhere /\ cursor.at = "Device"
  /\ status # "reading"
  /\ box' = "picking"
  /\ UNCHANGED onBox

PicksADevice ==
  /\ Elsewhere /\ cursor.at = "Device"
  /\ status = "ready"
  /\ box' = "picking"
  /\ UNCHANGED onBox

\* start.
Starts ==
  /\ Elsewhere /\ cursor.at = "Generate"
  /\ status = "ready" /\ loaded /\ prompt
  /\ status' = "running" /\ pending' = TRUE
  /\ UNCHANGED <<cursor, box, prompt, loaded, runtime, moving, quit, cancel>>

\* Escape stops a run, and asks before leaving an idle screen.
EscapeStops ==
  /\ Elsewhere /\ status = "running"
  /\ cancel' = TRUE
  /\ UNCHANGED <<cursor, box, prompt, status, loaded, runtime, moving, pending, quit>>

EscapeAsks ==
  /\ Elsewhere /\ status # "running"
  /\ box' = "leaving"
  /\ UNCHANGED onBox

Pressed ==
  \/ Nothing \/ ControlC \/ Leave \/ Closes \/ \E d \in Devices : Picks(d)
  \/ \E by \in {-1, 1} : StepFocus(by) \/ MoveRow(by) \/ MoveAlong(by)
  \/ Enters \/ DoneIn \/ Types
  \/ Opened \/ PicksADevice \/ Starts \/ EscapeStops \/ EscapeAsks

-----------------------------------------------------------------------------
(* The painter. *)

aside == <<shown, turn>>

\* `of` is what an end is of, which the screen is not told.
Says(what, of) == updates' = Append(updates, [what |-> what, of |-> of])

Takes(ask) ==
  /\ painter.at = "waiting" /\ requests # <<>> /\ Head(requests).ask = ask
  /\ requests' = Tail(requests)

\* The model there is goes first.
TakesRead ==
  /\ Takes("read")
  /\ onDevice' = None
  /\ painter' = [at |-> "reading", on |-> Head(requests).on, told |-> FALSE]
  /\ UNCHANGED <<aside, updates, cancel, run>>

\* A mutation: the engine of a read that failed is kept.
ReadIsKept ==
  /\ painter.at = "reading"
  /\ painter' = [painter EXCEPT !.at = "waiting"]
  /\ \/ onDevice' = painter.on /\ Says("ready", "read")
     \/ MayFail /\ onDevice' = onDevice /\ Says("ready", "read")
  /\ UNCHANGED <<aside, requests, cancel, run>>

Read ==
  /\ painter.at = "reading"
  /\ painter' = [painter EXCEPT !.at = "waiting"]
  /\ \/ onDevice' = painter.on /\ Says("ready", "read")
     \/ MayFail /\ onDevice' = onDevice /\ Says("failed", "read")
  /\ UNCHANGED <<aside, requests, cancel, run>>

\* A stop asked for before is taken for one of the run before.
TakesDraw ==
  /\ Takes("draw") /\ onDevice # None
  /\ cancel' = FALSE
  /\ painter' = [painter EXCEPT !.at = "drawing", !.told = FALSE]
  /\ run' = "going"
  /\ UNCHANGED <<aside, updates, onDevice>>

\* There is no model, or the engine refuses.
DrawRefused ==
  /\ Takes("draw")
  /\ IF onDevice = None THEN cancel' = cancel ELSE MayFail /\ cancel' = FALSE
  /\ Says("failed", "draw")
  /\ UNCHANGED <<aside, behind>>

\* A mutation: it is not looked at while there is no news.
LooksAtCancelLate ==
  /\ painter.at = "drawing" /\ ~painter.told /\ cancel /\ run \notin {"going", "told"}
  /\ painter' = [painter EXCEPT !.told = TRUE]
  /\ UNCHANGED <<aside, between, cancel, onDevice, run>>

\* wait_for_the_picture: between two pieces of news, or after waiting for one.
LooksAtCancel ==
  /\ painter.at = "drawing" /\ ~painter.told /\ cancel
  /\ painter' = [painter EXCEPT !.told = TRUE]
  /\ run' = IF run = "going" THEN "told" ELSE run
  /\ UNCHANGED <<aside, between, cancel, onDevice>>

\* A mutation: a picture that could not be kept is not told of.
DrawnSilent ==
  /\ painter.at = "drawing" /\ run \in {"done", "cancelled", "failed"}
  /\ painter' = [painter EXCEPT !.at = "waiting"] /\ run' = None
  /\ \/ run = "done"      /\ Says("done", "draw")
     \/ run = "cancelled" /\ Says("stopped", "draw")
     \/ run = "failed"    /\ Says("failed", "draw")
     \/ run = "done"      /\ UNCHANGED updates
  /\ UNCHANGED <<aside, requests, cancel, onDevice>>

\* The end is heard, and a picture kept in a file, which may fail too.
Drawn ==
  /\ painter.at = "drawing" /\ run \in {"done", "cancelled", "failed"}
  /\ painter' = [painter EXCEPT !.at = "waiting"] /\ run' = None
  /\ \/ run = "done"      /\ Says("done", "draw")
     \/ run = "cancelled" /\ Says("stopped", "draw")
     \/ (run = "failed" \/ (MayFail /\ run = "done")) /\ Says("failed", "draw")
  /\ UNCHANGED <<aside, requests, cancel, onDevice>>

\* The channel is closed and empty: the engine is freed.
PainterEnds ==
  /\ painter.at = "waiting" /\ requests = <<>> /\ turn = "joining"
  /\ painter' = [painter EXCEPT !.at = "gone"] /\ onDevice' = None
  /\ UNCHANGED <<aside, between, cancel, run>>

\* The engine (Engine is its specification): a run ends once, and as cancelled only if it was told.
RunEnds ==
  /\ run \in {"going", "told"}
  /\ run' \in {"done"} \cup (IF MayFail THEN {"failed"} ELSE {})
  /\ UNCHANGED <<aside, between, cancel, painter, onDevice>>

RunStops ==
  /\ run = "told" /\ run' = "cancelled"
  /\ UNCHANGED <<aside, between, cancel, painter, onDevice>>

-----------------------------------------------------------------------------
PainterSteps == TakesRead \/ Read \/ TakesDraw \/ DrawRefused \/ LooksAtCancel \/ Drawn \/ PainterEnds

ScreenSteps == Asks \/ Leaves \/ Joined \/ Hears \/ HeardAll \/ Pressed

DrawNext ==
  \/ \E d \in Devices : Opens(d)
  \/ ScreenSteps \/ PainterSteps \/ RunEnds \/ RunStops

\* The loop comes round and the painter goes on. A run stops once it is told; that it ends by
\* itself is not counted on, since nobody waits for it.
DrawFairness ==
  WF_drawVars(ScreenSteps) /\ WF_drawVars(PainterSteps) /\ WF_drawVars(RunStops)

DrawSpec == DrawInit /\ [][DrawNext]_drawVars /\ DrawFairness

-----------------------------------------------------------------------------
\* What the screen shows is going on is what there is between a key and its answer, whichever of
\* the loop, the channels and the painter has it: one read, one draw, or nothing.
Outstanding ==
  (IF moving # None THEN <<"read">> ELSE <<>>) \o (IF pending THEN <<"draw">> ELSE <<>>)
    \o [n \in DOMAIN requests |-> requests[n].ask]
    \o (CASE painter.at = "reading" -> <<"read">> [] painter.at = "drawing" -> <<"draw">> [] OTHER -> <<>>)
    \o [n \in DOMAIN updates |-> updates[n].of]

OneAsked ==
  Outstanding = CASE status = "ready"   -> <<>>
                  [] status = "reading" -> <<"read">>
                  [] status = "running" -> <<"draw">>

\* A picture is drawn on the device the heading names, on a model that was read there: reads that
\* fail and devices that are picked in between leave no other.
DrawnWhereShown ==
  /\ loaded /\ painter.at # "gone" => onDevice = runtime
  /\ painter.at = "drawing" => loaded

\* A stop that the painter has not cleared ends the run; and leaving comes to its end, but for a
\* run that is behind no stop.
StopsARun ==
  (turn = "joining" \/ (cancel /\ painter.at = "drawing")) ~>
    \/ turn = "over"
    \/ turn # "joining" /\ painter.at # "drawing"
    \/ painter.at = "drawing" /\ ~cancel

\* "The wait is bounded by the step the run is on -- `cancel` is already set, so it stops at the
\* next one".
WaitIsAStep == turn = "joining" /\ painter.at = "drawing" => cancel \/ painter.told
=============================================================================
