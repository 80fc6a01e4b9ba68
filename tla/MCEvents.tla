------------------------------ MODULE MCEvents ------------------------------
EXTENDS Events, TLC
CONSTANTS f, g, e1, e2

MCCallbacks == {f, g}
MCEventObjects == {e1, e2}
MCSymmetry == Permutations(MCCallbacks) \cup Permutations(MCEventObjects)
=============================================================================
