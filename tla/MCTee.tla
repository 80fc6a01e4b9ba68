------------------------------- MODULE MCTee -------------------------------
(* Two chunks, so that a branch may be one ahead of the other; the stream has  *)
(* as many reads as the two branches can cause.                                *)
EXTENDS Tee
CONSTANTS c1, c2

MCChunks == {c1, c2}
=============================================================================
