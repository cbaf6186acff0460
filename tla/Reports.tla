-------------------------------- MODULE Reports --------------------------------
(***************************************************************************)
(* A request on the engine's thread: draw, layers, speak and convert of    *)
(* waifu/src/engine.rs, over the run the model makes of it (Pipelines) and *)
(* the bar its reports move (Progress).  Somebody may ask it to stop at    *)
(* any time.  The generators, and how long a vocoder took, are what one    *)
(* request leaves the next.                                                *)
(***************************************************************************)
EXTENDS Pipelines

CONSTANTS
  Requests,     \* what is asked: a record, of a kind below
  Ratios,       \* what a vocoder takes, as multiples of all before it
  Ticks,        \* a bound: how finely the clock is read while it does
  LibraryFails  \* whether the tensor library fails

\* What may be asked. Qwen-Image alone has releases with a schedule of their own; a strength is
\* clamped to what is between none and all, and the steps of a conversion to one and more.
AsksToDraw(r) ==
  /\ r.kind = "draw" /\ r.model \in {"sdxl", "krea2", "anima", "qwen"}
  /\ {r.steps, r.fixed, r.pictures} \subseteq Nat
  /\ r.fixed > 0 => r.model = "qwen"
  /\ r.from \in BOOLEAN
  /\ r.strength \in Nat \X (Nat \ {0}) /\ r.strength[1] <= r.strength[2]
AsksForLayers(r) ==
  /\ r.kind = "layers" /\ {r.steps, r.dsteps, r.frames, r.slots} \subseteq Nat
  /\ r.head \in BOOLEAN /\ r.given \in {"good", "odd", "empty"}
AsksToSpeak(r) ==
  /\ r.kind = "speak" /\ r.model \in {"tones", "indextts", "cosyvoice"}
  /\ r.pieces \in Seq([expects : Nat, says : Nat, cut : BOOLEAN]) /\ r.streaming \in BOOLEAN
AsksToConvert(r) ==
  /\ r.kind = "convert" /\ r.steps \in Nat \ {0} /\ r.style \in BOOLEAN
  /\ r.windows \in Seq({"said", "silent"})


\* What is measured of a vocoder is between a twentieth of what was before it and twenty times that.
IsRatio(some) ==
  some \in Nat \X (Nat \ {0}) /\ some[2] <= 20 * some[1] /\ some[1] <= 20 * some[2]

ASSUME ReportsAssumption ==
  /\ \A r \in Requests : AsksToDraw(r) \/ AsksForLayers(r) \/ AsksToSpeak(r) \/ AsksToConvert(r)
  /\ Ratios # {}
  /\ \A some \in Ratios : IsRatio(some)
  /\ Ticks \in Nat \ {0} /\ LibraryFails \in BOOLEAN

VARIABLES
  request, todo,     \* what is being answered, and what is left of its run
  stop,              \* it has been asked to stop
  doing, bar, clock, \* what the worker is busy with, how far along, and the vocoder's time so far
  ratio,             \* vocoder_ratio: what the last whole reading measured
  gens,              \* of each generator: whether this run seeded it, and its draws since
  answer,            \* how the last request ended
  draws, late, walked  \* history: the draws of this run, its work since it was asked to stop,
                       \* and the steps it walked

report  == <<doing, bar, clock>>
history == <<draws, late, walked>>
reportVars == <<request, todo, stop, report, ratio, gens, answer, history>>

Idle == answer # "running"
Left == [seeded |-> FALSE, n |-> 0]
Nobody == [kind |-> "none"]
Empty  == [is |-> "nothing"]

ReportsInit ==
  /\ request = Nobody /\ todo = <<>> /\ stop = FALSE
  /\ doing = Empty /\ bar = Nothing /\ clock = 0 /\ ratio = <<1, 1>>
  /\ gens = [g \in {"host", "device"} |-> Left]
  /\ answer = "none" /\ draws = {} /\ late = 0 /\ walked = 0

-----------------------------------------------------------------------------
(* What is asked of which model. *)

\* What the model cannot be given, said before anything runs.
Refused(r) ==
  CASE r.kind = "draw"    -> \/ r.pictures > (IF r.model = "qwen" THEN MaxPictures ELSE 0)
                             \/ r.from /\ r.model # "sdxl"
    [] r.kind = "convert" -> r.style
    [] OTHER -> FALSE

\* ImageModel's dispatch.
Picture(r) ==
  CASE r.model = "sdxl" /\ r.from  -> SdxlFromImage(r.steps, r.strength)
    [] r.model = "sdxl" /\ ~r.from -> Sdxl(r.steps)
    [] r.model = "krea2" -> Krea2(r.steps)
    [] r.model = "anima" -> Anima(r.steps)
    [] r.model = "qwen" /\ r.pictures > 0 -> QwenWithPictures(r.steps, r.fixed, r.pictures)
    [] r.model = "qwen" /\ r.pictures = 0 -> QwenImage(r.steps, r.fixed)

Speech(r) ==
  CASE r.model = "tones"     -> AsOnePart(Tones(Total(Says(r.pieces))), r.streaming)
    [] r.model = "indextts"  -> AsOnePart(IndexTts(r.pieces), r.streaming)
    [] r.model = "cosyvoice" -> CosyVoice(r.pieces, r.streaming)

\* All but the layers tell of a beginning of their own.
Script(r) ==
  IF Refused(r) THEN Fail
  ELSE CASE r.kind = "draw"    -> Tell(Encoding) \o Picture(r)
         [] r.kind = "layers"  -> Decompose(r)
         [] r.kind = "speak"   -> Tell(Reading) \o Speech(r)
         [] r.kind = "convert" -> Tell([at |-> "Listening"]) \o Convert(r)

Doing(r) ==
  CASE r.kind = "draw"    -> [is |-> "drawing", step |-> Encoding, steps |-> r.steps]
    [] r.kind = "layers"  -> [is |-> "layering", step |-> Encoding, steps |-> r.steps,
                              dsteps |-> r.dsteps]
    [] r.kind = "speak"   -> NewSay(ratio, r.streaming)
    [] r.kind = "convert" -> NewConvert(r.style)

\* The generators are where the requests before left them.
Ask(r) ==
  /\ answer = "none"
  /\ request' = r /\ todo' = Script(r) /\ doing' = Doing(r)
  /\ answer' = "running"
  /\ UNCHANGED <<stop, bar, clock, ratio, gens, history>>

\* The answer is given, and the thread waits for another request.
Answered ==
  /\ answer \in {"done", "cancelled", "failed"}
  /\ request' = Nobody /\ todo' = <<>> /\ stop' = FALSE
  /\ doing' = Empty /\ bar' = Nothing /\ clock' = 0
  /\ gens' = [g \in DOMAIN gens |-> Left]
  /\ answer' = "none" /\ draws' = {} /\ late' = 0 /\ walked' = 0
  /\ UNCHANGED ratio

Stop ==
  /\ ~Idle /\ ~stop
  /\ stop' = TRUE
  /\ UNCHANGED <<request, todo, report, ratio, gens, answer, history>>

-----------------------------------------------------------------------------
(* The run. *)

Due(what) == ~Idle /\ todo # <<>> /\ Head(todo).do = what

AnswerEnds(how) == answer' = how /\ todo' = <<>>
Goes      == answer' = answer /\ todo' = Tail(todo)

\* Reporter.tell, of what the report makes of doing. Where it comes from a vocoder, some of the
\* time that should take has gone by since the first one.
TellOf(step) ==
  /\ doing' = Told(doing, step)
  /\ IF doing'.is = "speaking" /\ doing.sounding
     THEN clock' \in clock..Ticks
     ELSE UNCHANGED clock
  /\ bar' = Fraction(doing', <<clock', Ticks>>)

Tells ==
  /\ Due("tell") /\ Goes
  /\ TellOf(Head(todo).step)
  /\ UNCHANGED <<request, stop, ratio, gens, history>>

Looks ==
  /\ Due("look")
  /\ TellOf(Head(todo).step)
  /\ \/ stop /\ AnswerEnds("cancelled")
     \/ ~stop /\ Goes
  /\ UNCHANGED <<request, stop, ratio, gens, history>>

\* on_audio, and a look.
Hands ==
  /\ Due("hand")
  /\ \/ stop /\ AnswerEnds("cancelled")
     \/ ~stop /\ Goes
  /\ UNCHANGED <<request, stop, report, ratio, gens, history>>

Seeds ==
  /\ Due("seed") /\ Goes
  /\ gens' = [gens EXCEPT ![Head(todo).gen] = [seeded |-> TRUE, n |-> 0]]
  /\ UNCHANGED <<request, stop, report, ratio, history>>

Draws ==
  /\ Due("draw") /\ Goes
  /\ LET gen == Head(todo).gen
     IN  /\ draws' = draws \cup {[on |-> Head(todo).on, from |-> gens[gen]]}
         /\ gens' = [gens EXCEPT ![gen].n = @ + 1]
  /\ UNCHANGED <<request, stop, report, ratio, late, walked>>

Works ==
  /\ Due("work") /\ Goes
  /\ late' = IF stop THEN late + 1 ELSE late
  /\ walked' = IF Head(todo).what = "step" THEN walked + 1 ELSE walked
  /\ UNCHANGED <<request, stop, report, ratio, gens, draws>>

\* The tensor library fails, or the model refuses what it was given.
RunFails ==
  /\ \/ Due("fail")
     \/ LibraryFails /\ Due("work")
  /\ AnswerEnds("failed")
  /\ UNCHANGED <<request, stop, report, ratio, gens, history>>

\* A reading that is not streamed measures its vocoder, where it had one.
Finishes ==
  /\ ~Idle /\ todo = <<>> /\ AnswerEnds("done")
  /\ IF doing.is = "speaking" /\ doing.sounding /\ ~doing.streaming
     THEN ratio' \in Ratios
     ELSE UNCHANGED ratio
  /\ UNCHANGED <<request, stop, report, gens, history>>

Runs == Answered \/ Tells \/ Looks \/ Hands \/ Seeds \/ Draws \/ Works \/ RunFails \/ Finishes
ReportsNext == Stop \/ Runs \/ \E r \in Requests : Ask(r)
ReportsSpec == ReportsInit /\ [][ReportsNext]_reportVars

-----------------------------------------------------------------------------
\* Where a release walks more steps than it was asked for, what its bar comes to at the decode is
\* what was asked for: less than it had come to.
FallsBack ==
  /\ request.kind = "draw" /\ Schedule(request.steps, request.fixed) > Larger(request.steps, 1)
  /\ doing'.step.at = "Decoding"

\* A bar is "never back": it only moves forward, whatever the model, the length of what it says against
\* the estimate of it, the pieces that turn out empty and the vocoder's time; but for the decode of a
\* release that walked more than it was asked for. And a conversion's "ends full", where its last
\* window is not silence; where it is, no report says that its steps are over.
BarForwardToFull ==
  /\ [][answer = "running" => AtMost(bar, bar') \/ FallsBack]_reportVars
  /\ [](answer = "done" /\ request.kind = "convert" =>
          \/ request.windows = <<>> \/ Last(request.windows) = "silent"
          \/ AtMost(Full, bar))

\* "num_steps" is the steps that run, from noise and from a picture at any strength but one: at none
\* the code walks no step at all, where generation.rs says "num_steps is that, either way". And a
\* release with a schedule of its own walks that.
StepsAsAsked ==
  answer = "done" /\ request.kind = "draw" =>
    walked = IF request.from /\ request.strength[1] = 0 THEN 0
             ELSE Schedule(request.steps, request.fixed)

\* Which of its generator's draws, counted from the seed, a thing is: what a request says alone, and
\* not how it is streamed. Empty or not, a piece has drawn the token that stopped it, unless it was cut.
PieceDraws(r, i) == r.pieces[i].says + (IF r.pieces[i].cut THEN 0 ELSE 1)
TokenDraws(r, n)  == Total([i \in 1..n |-> PieceDraws(r, i)])
SoundedBefore(r, i) ==
  IF r.kind = "convert" THEN Cardinality({k \in 1..(i - 1) : r.windows[k] # "silent"})
                        ELSE Cardinality({k \in 1..(i - 1) : r.pieces[k].says > 0})
DrawPlace(r, on) ==
  CASE on[1] = "latent"  -> 0
    [] on[1] = "initial" -> on[2] * (r.steps + 1)
    [] on[1] = "fresh"   -> on[2] * (r.steps + 1) + on[3]
    [] on[1] = "depth"   -> (IF r.head THEN 2 ELSE 1) * (r.steps + 1)
    [] on[1] = "token" /\ r.model = "tones" -> on[3] - 1
    [] on[1] = "token" /\ r.model # "tones" -> TokenDraws(r, on[2] - 1) + on[3] - 1
    [] on[1] = "noise" /\ r.kind = "speak" /\ r.model = "indextts" ->
         TokenDraws(r, Len(r.pieces)) + SoundedBefore(r, on[2])
    [] OTHER -> SoundedBefore(r, on[2])

\* "The samples are the same": what is drawn is of this request's seed, at a place that is the
\* request's own, whatever was drawn, stopped or failed before it and whether or not it is
\* handed over as it is made.
DrawsAsSeeded == \A d \in draws : d.from = [seeded |-> TRUE, n |-> DrawPlace(request, d.on)]

\* What nothing is reported between: the pictures a prompt is shown, the one a picture starts from,
\* and the pieces of a reading that turn out to have no tokens, each of them read before it does.
Unreported(r) ==
  CASE r.kind = "draw" -> r.pictures + (IF r.from THEN 1 ELSE 0)
    [] r.kind = "speak" /\ r.model # "tones" ->
         Cardinality({i \in DOMAIN r.pieces : r.pieces[i].says = 0})
    [] OTHER -> 0

\* A stop is looked at before much more is done: two steps of work, whatever the model, and what of
\* the request nothing is reported between.
StopIsNear == late <= 2 + Unreported(request)
=============================================================================
