---------------------------- MODULE MCByteStream ----------------------------
(* Views of one and of two elements, of one and of two bytes each: reads end   *)
(* within a chunk, at its end and within an element.                           *)
EXTENDS ByteStream

MCViews == {[size |-> 2, element |-> 1], [size |-> 2, element |-> 2],
            [size |-> 4, element |-> 2]}
=============================================================================
