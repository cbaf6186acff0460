------------------------------ MODULE MCEngine ------------------------------
(* Engine on small instances: which work the callers may submit. *)
EXTENDS Engine, TLC

Load(model) == [op |-> "load", model |-> model]
Ask(op)     == [op |-> op, model |-> "none"]

\* One model and one request: enough to see what stopping does to a load and to a request.
MCOneModel == {Load("Image"), Ask("draw")}

\* As above with a load that cannot succeed, and an unload.
MCTwoModels == {Load("Image"), Load("missing"), Ask("unload"), Ask("draw")}

\* A load that succeeds, one that fails after it, and a request for what the first one left.
MCQueue == {Load("tones"), Load("missing"), Ask("speak")}

MCSymmetry == Permutations(Callers)
=============================================================================
