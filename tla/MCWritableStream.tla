-------------------------- MODULE MCWritableStream --------------------------
(* Three chunks: one in flight, one queued and one being written; sizes below, *)
(* at and above what the high water mark leaves.                               *)
EXTENDS WritableStream
CONSTANTS c1, c2, c3

MCChunks == {c1, c2, c3}
=============================================================================
