------------------------------- MODULE Pipelines -------------------------------
(***************************************************************************)
(* What a run of each model does that somebody outside can tell, in order: *)
(* the reports it makes and the looks at the stop that come with them, the *)
(* numbers it draws and from which generator, and the work between.  A run *)
(* is a sequence of these, one operator for each of the functions that     *)
(* make it up: pipeline.rs of sdxl, anima, krea2 and qwen_image, mod.rs of *)
(* see_through, indextts and cosyvoice3, and speech.rs, under waifu/src.   *)
(***************************************************************************)
EXTENDS Progress, SequencesExt

CONSTANTS
  Trained,       \* the timesteps a model was trained at, which a schedule has no more steps than
  MaxPictures    \* the pictures a prompt of Qwen-Image may name

ASSUME PipelinesAssumption == {Trained, MaxPictures} \subseteq Nat

\* What a run does. look reports and stops where it is told to, tell only reports.
Look(step)    == <<[do |-> "look", step |-> step]>>
Tell(step)    == <<[do |-> "tell", step |-> step]>>
Seed(gen)     == <<[do |-> "seed", gen |-> gen]>>
DrawOn(gen, on) == <<[do |-> "draw", gen |-> gen, on |-> on]>>
Work(what)    == <<[do |-> "work", what |-> what]>>
Hand          == <<[do |-> "hand"]>>    \* a part of the sound to whoever listens, and a look
Fail          == <<[do |-> "fail"]>>

Each(n, Part(_)) == FlattenSeq([i \in 1..n |-> Part(i)])
Where(ok, rest)  == IF ok THEN rest ELSE Fail
Total(counts)    == FoldSeq(+, 0, counts)

-----------------------------------------------------------------------------
(* Pictures. *)

Encoding == [at |-> "Encoding"]
Latent   == DrawOn("device", <<"latent">>)
Decode   == Look([at |-> "Decoding"]) \o Work("decode")

\* Both prompts at once.
ReadPrompts == Look(Encoding) \o Work("prompt")

\* A mutation: what a report answers is not looked at.
WalkDeaf(steps) ==
  Each(steps, LAMBDA k : Work("step") \o Tell([at |-> "Step", done |-> k, total |-> steps]))

Walk(steps) ==
  Each(steps, LAMBDA k : Work("step") \o Look([at |-> "Step", done |-> k, total |-> steps]))

\* The tail of a schedule: from start, of the whole of it.
WalkTail(schedule) == Walk(schedule.whole - schedule.start)

\* EulerSampler::new, and from_image for a strength of so many parts of so many. No steps at all
\* are walked at none; else the schedule is long enough for the steps to be its tail.
Euler(steps) == [ok |-> steps \in 1..Trained, whole |-> steps, start |-> 0]

\* A mutation: the strength cuts the steps that were asked for.
FromImageCut(steps, strength) ==
  [Euler(steps) EXCEPT !.start = steps - (steps * strength[1]) \div strength[2]]

FromImage(steps, strength) ==
  IF strength[1] = 0 THEN [Euler(steps) EXCEPT !.start = steps]
  ELSE LET whole == (steps * strength[2]) \div strength[1]
       IN  [ok |-> whole \in 1..Trained, whole |-> whole, start |-> Larger(whole - steps, 0)]

Sdxl(steps) ==
  Seed("device") \o Latent \o ReadPrompts
    \o Where(Euler(steps).ok, WalkTail(Euler(steps)) \o Decode)

\* The prompts are read before the seed is set, the picture encoded after it.
SdxlFromImage(steps, strength) ==
  ReadPrompts \o Seed("device") \o Work("picture")
    \o LET schedule == FromImage(steps, strength)
       IN  Where(schedule.ok, Latent \o WalkTail(schedule) \o Decode)

\* FlowSampler::new is before the draw.
Krea2(steps) ==
  Seed("device") \o Where(steps >= 1, Latent \o ReadPrompts \o Walk(steps) \o Decode)

Anima(steps) ==
  Seed("device") \o Where(steps >= 1, Latent \o ReadPrompts \o Walk(steps) \o Decode)

\* A release may fix its schedule, and then that is walked whatever was asked for.
Schedule(steps, fixed) == IF fixed > 0 THEN fixed ELSE steps
Noise == Seed("device") \o Latent

QwenImage(steps, fixed) ==
  Noise \o Where(Schedule(steps, fixed) >= 1,
                 ReadPrompts \o Walk(Schedule(steps, fixed)) \o Decode)

\* The pictures are seen once, for both prompts.
QwenWithPictures(steps, fixed, pictures) ==
  Noise \o Where(Schedule(steps, fixed) >= 1,
                 Look(Encoding) \o Each(pictures, LAMBDA i : Work("picture")) \o Work("prompt")
                   \o Walk(Schedule(steps, fixed)) \o Decode)

-----------------------------------------------------------------------------
(* The layers of a picture. *)

\* DpmSolverSde::new is after the picture is encoded, and takes fewer steps than it was trained at.
Pass(pass, steps, frames) ==
  Look([at |-> "Encoding", pass |-> pass]) \o Work("picture")
    \o Where(steps \in 1..(Trained - 1),
         DrawOn("device", <<"initial", pass>>)
           \o Each(steps, LAMBDA k : Work("step") \o DrawOn("device", <<"fresh", pass, k>>)
                \o Look([at |-> "Layers", pass |-> pass, done |-> k, total |-> steps]))
           \o Each(frames, LAMBDA f : Look([at |-> "Decoding", pass |-> pass, done |-> f - 1,
                                            total |-> frames]) \o Work("layer")))

\* DdimVelocity::new is after the slots are encoded, and takes as many.
Depth(dsteps, slots) ==
  Each(slots, LAMBDA s : Look([at |-> "DepthEncoding", done |-> s - 1, total |-> slots])
                           \o Work("slot"))
    \o Where(dsteps \in 1..Trained,
         DrawOn("device", <<"depth">>)
           \o Each(dsteps, LAMBDA k :
                Work("step") \o Look([at |-> "Depth", done |-> k, total |-> dsteps]))
           \o Each(slots - 1, LAMBDA s : Look([at |-> "DepthDecoding", done |-> s - 1,
                                               total |-> slots - 1]) \o Work("slot")))

\* The head is drawn again where the body's pass found one. A picture may be empty, or a square it is
\* to be drawn in odd: no whole number of what the models divide it by.
Decompose(r) ==
  Where(r.given # "empty",
    Seed("device")
      \o Where(r.given # "odd",
           Pass(0, r.steps, r.frames)
             \o (IF r.head THEN Pass(1, r.steps, r.frames) ELSE <<>>)
             \o Depth(r.dsteps, r.slots)
             \o Look([at |-> "Assembling"]) \o Work("assemble")))

-----------------------------------------------------------------------------
(* Voices. A piece is what is said at once: how many tokens it is expected to be, how many it is, *)
(* and whether it is cut, ended by the most that it may be and not by a token that stops it.      *)

Reading  == [at |-> "Reading"]
Sounding == [at |-> "Sounding"]
Says(pieces)    == [i \in DOMAIN pieces |-> pieces[i].says]
Expects(pieces) == Total([i \in DOMAIN pieces |-> pieces[i].expects])
SaidBefore(pieces, i) == Total(SubSeq(Says(pieces), 1, i - 1))

\* The estimate grows where more is said.
SayingOf(pieces, i, j) ==
  LET done == SaidBefore(pieces, i) + j
  IN  Look([at |-> "Saying", done |-> done, expected |-> Larger(Expects(pieces), done)])

\* Tokens from a generator: a call of its sampler for each, and one for the token that stops it.
Tokens(gen, pieces, i) ==
  Work("prefill")
    \o Each(pieces[i].says, LAMBDA j : DrawOn(gen, <<"token", i, j>>) \o SayingOf(pieces, i, j)
                                         \o Work("token"))
    \o IF pieces[i].cut THEN <<>> ELSE DrawOn(gen, <<"token", i, pieces[i].says + 1>>)

Sound(i) == Work("sound") \o DrawOn("device", <<"noise", i>>)

\* Every segment said, then every one sounded; the tokens and the noise are of one generator.
IndexTts(pieces) ==
  Look(Reading) \o Work("hear") \o Seed("device") \o Look(Reading)
    \o Where(pieces # <<>>,
             Each(Len(pieces), LAMBDA i : Tokens("device", pieces, i))
               \o Look(Sounding)
               \o Each(Len(pieces), LAMBDA i :
                    IF pieces[i].says = 0 THEN <<>> ELSE Sound(i) \o Look(Sounding)))

\* A mutation: the tokens are of the generator the noise is of.
SayFromDevice(pieces, i) == Tokens("device", pieces, i)

\* A piece that turns out to be empty has been read, and has drawn the token that stops it.
Say(pieces, i) == Tokens("host", pieces, i)

\* A streaming reading sounds each piece once it is said and hands it over.
CosyVoice(pieces, streaming) ==
  Look(Reading) \o Work("hear") \o Look(Reading) \o Seed("host") \o Seed("device")
    \o Where(pieces # <<>>,
         IF streaming
         THEN Each(Len(pieces), LAMBDA i : Say(pieces, i)
                \o IF pieces[i].says = 0 THEN <<>> ELSE Look(Sounding) \o Sound(i) \o Hand)
         ELSE Each(Len(pieces), LAMBDA i : Say(pieces, i))
                \o Look(Sounding)
                \o Each(Len(pieces), LAMBDA i :
                     IF pieces[i].says = 0 THEN <<>> ELSE Sound(i) \o Look(Sounding)))

\* A stand-in: a note per letter, its pitch moved by the host's generator.
Tones(notes) ==
  Look(Reading) \o Seed("host")
    \o Each(notes, LAMBDA n : DrawOn("host", <<"token", 1, n>>)
                                \o Look([at |-> "Saying", done |-> n, expected |-> notes]))
    \o Look(Sounding)

\* A voice with nothing smaller to offer makes all of it and hands it over as one part.
AsOnePart(reading, streaming) == IF streaming THEN reading \o Hand ELSE reading

\* A window of a conversion. One too short to hold a token is kept as silence.
Window(r, i) ==
  LET windows == Len(r.windows)
      drawing(k) == Look([at |-> "Drawing", done |-> k * r.steps, total |-> windows * r.steps])
  IN  drawing(i - 1) \o Work("listen")
        \o IF r.windows[i] = "silent" THEN <<>>
           ELSE Work("flow") \o drawing(i)
                  \o Look([at |-> "Sounding", done |-> i - 1, total |-> windows])
                  \o Work("sound") \o DrawOn("device", <<"noise", i>>)

\* A mutation: nothing is said once the last window is sounded.
ConvertUntold(r) ==
  Look([at |-> "Listening"]) \o Work("hear") \o Seed("device")
    \o Each(Len(r.windows), LAMBDA i : Window(r, i))

Convert(r) ==
  Look([at |-> "Listening"]) \o Work("hear") \o Seed("device")
    \o Each(Len(r.windows), LAMBDA i : Window(r, i))
    \o Look([at |-> "Sounding", done |-> Len(r.windows), total |-> Len(r.windows)])
=============================================================================
