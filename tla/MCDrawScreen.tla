----------------------------- MODULE MCDrawScreen -----------------------------
(* DrawScreen by itself. *)
EXTENDS DrawScreen
=============================================================================
