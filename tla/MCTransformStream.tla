------------------------- MODULE MCTransformStream -------------------------
(* Two chunks, so that one may wait behind the other, and two outputs.         *)
EXTENDS TransformStream
CONSTANTS c1, c2, o1, o2

MCChunks == {c1, c2}
MCOutputs == {o1, o2}
=============================================================================
