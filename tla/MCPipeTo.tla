------------------------------ MODULE MCPipeTo ------------------------------
(* Two chunks: one may be in flight or queued while the other is read.  An end *)
(* of the pipe looks at one option only.                                       *)
EXTENDS PipeTo
CONSTANTS c1, c2

MCChunks == {c1, c2}

MCOptions == {options \in OptionSets :
    Cardinality({name \in DOMAIN options : options[name]}) <= 1}
=============================================================================
