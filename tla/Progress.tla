------------------------------- MODULE Progress -------------------------------
(***************************************************************************)
(* How far along a run is, as a bar shows it: waifu/src/progress.rs.  A    *)
(* fraction is a pair of a numerator and a denominator, so that two of     *)
(* them are compared exactly.                                              *)
(***************************************************************************)
EXTENDS Integers

\* ENCODING, DECODING, HELD, SAYING and DRAWING.
EncodingWeight == 1
DecodingWeight == 3
Withheld == <<99, 100>>
Saying   == <<2, 5>>
Drawing  == <<9, 20>>

Nothing == <<0, 1>>
Full    == <<1, 1>>
AtMost(a, b)    == a[1] * b[2] <= b[1] * a[2]
LesserOf(a, b)  == IF AtMost(a, b) THEN a ELSE b
Plus(a, b)      == <<a[1] * b[2] + b[1] * a[2], a[2] * b[2]>>
Times(a, b)     == <<a[1] * b[1], a[2] * b[2]>>
Less(a, b)      == <<a[1] * b[2] - b[1] * a[2], a[2] * b[2]>>
Larger(m, n)    == IF m >= n THEN m ELSE n
Smaller(m, n)   == IF m <= n THEN m ELSE n

-----------------------------------------------------------------------------
(* A picture, and the layers of one. *)

\* All of a walk of so many steps, with the encoding before it and the decoding after.
AllOf(steps) == EncodingWeight + Larger(steps, 1) + DecodingWeight

Drawn(step, steps) ==
  CASE step.at = "Encoding" -> Nothing
    [] step.at = "Step"     -> <<EncodingWeight + step.done, AllOf(step.total)>>
    [] step.at = "Decoding" -> <<EncodingWeight + Larger(steps, 1), AllOf(steps)>>

\* Two passes and the depth, and one more for the document.
Layered(step, steps, dsteps) ==
  LET pass == AllOf(steps)
      all  == 2 * pass + AllOf(dsteps) + 1
      past(base, weight) ==   \* so far, and the share done of a part of such a weight
        <<base * Larger(step.total, 1) + weight * step.done, Larger(step.total, 1) * all>>
  IN  CASE step.at = "Encoding" -> <<step.pass * pass, all>>
        [] step.at = "Layers"   -> <<step.pass * pass + EncodingWeight + step.done, all>>
        [] step.at = "Decoding" ->
             past(step.pass * pass + EncodingWeight + Larger(steps, 1), DecodingWeight)
        [] step.at = "DepthEncoding" -> past(2 * pass, EncodingWeight)
        [] step.at = "Depth"    -> <<2 * pass + EncodingWeight + step.done, all>>
        [] step.at = "DepthDecoding" ->
             past(2 * pass + EncodingWeight + Larger(dsteps, 1), DecodingWeight)
        [] step.at = "Assembling" -> <<2 * pass + AllOf(dsteps), all>>

-----------------------------------------------------------------------------
(* A reading. *)

NewSay(ratio, streaming) ==
  [is |-> "speaking", step |-> [at |-> "Reading"], expected |-> 0, sounding |-> FALSE,
   ratio |-> ratio, streaming |-> streaming, said |-> 0]

ToldSay(say, step) ==
  CASE step.at = "Reading"  -> [say EXCEPT !.step = step]
    [] step.at = "Saying"   -> [say EXCEPT !.step = step, !.expected = step.expected,
                                           !.said = Larger(@, step.done)]
    [] step.at = "Sounding" -> [say EXCEPT !.step = step, !.sounding = TRUE]

\* A mutation: a streaming reading has its vocoder's share as any other.
SpokenInTurns(say, elapsed) ==
  LET tokens   == <<say.ratio[2], say.ratio[1] + say.ratio[2]>>
      expected == Larger(say.expected, 1)
      share    == <<Smaller(say.said, expected), expected>>
  IN  CASE say.step.at = "Reading"  -> Nothing
        [] say.step.at = "Saying"   -> Times(tokens, share)
        [] say.step.at = "Sounding" ->
             LesserOf(Plus(tokens, Times(Less(Full, tokens), LesserOf(elapsed, Full))), Withheld)

\* elapsed is the time since the vocoder began, as a share of how long it should take.
Spoken(say, elapsed) ==
  LET tokens   == <<say.ratio[2], say.ratio[1] + say.ratio[2]>>
      expected == Larger(say.expected, 1)
  IN  CASE say.step.at = "Reading" -> Nothing
        [] say.step.at # "Reading" /\ say.streaming ->
             LesserOf(<<Smaller(say.said, expected), expected>>, Withheld)
        [] say.step.at = "Saying" /\ ~say.streaming ->
             Times(tokens, <<Smaller(say.step.done, expected), expected>>)
        [] say.step.at = "Sounding" /\ ~say.streaming ->
             LesserOf(Plus(tokens, Times(Less(Full, tokens), LesserOf(elapsed, Full))), Withheld)

-----------------------------------------------------------------------------
(* A conversion: the latest of each count it reports. *)

NewConvert(style) ==
  [is |-> "converting", step |-> [at |-> "Listening"], style |-> style,
   said |-> <<0, 0>>, drawn |-> <<0, 0>>, sounded |-> <<0, 0>>]

Heard(convert, step) ==
  CASE step.at = "Listening" -> [convert EXCEPT !.step = step]
    [] step.at = "Saying"    -> [convert EXCEPT !.step = step, !.said = <<step.done, step.expected>>]
    [] step.at = "Drawing"   -> [convert EXCEPT !.step = step, !.drawn = <<step.done, step.total>>]
    [] step.at = "Sounding"  -> [convert EXCEPT !.step = step, !.sounded = <<step.done, step.total>>]

Converted(convert) ==
  LET share(count) == IF count[2] > 0 THEN LesserOf(count, Full) ELSE Nothing
      sound == Plus(Times(Drawing, share(convert.drawn)),
                    Times(Less(Full, Drawing), share(convert.sounded)))
  IN  IF convert.style
      THEN Plus(Times(Saying, share(convert.said)), Times(Less(Full, Saying), sound))
      ELSE sound

-----------------------------------------------------------------------------
\* What a report makes of what the worker is doing, and how far along that is.
Told(doing, step) ==
  CASE doing.is \in {"drawing", "layering"} -> [doing EXCEPT !.step = step]
    [] doing.is = "speaking"   -> ToldSay(doing, step)
    [] doing.is = "converting" -> Heard(doing, step)

Fraction(doing, elapsed) ==
  CASE doing.is = "drawing"    -> Drawn(doing.step, doing.steps)
    [] doing.is = "layering"   -> Layered(doing.step, doing.steps, doing.dsteps)
    [] doing.is = "speaking"   -> Spoken(doing, elapsed)
    [] doing.is = "converting" -> Converted(doing)
=============================================================================
