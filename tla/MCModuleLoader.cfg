\* The imports end.
CONSTANTS
    u1 = u1  u2 = u2  u3 = u3
    i1 = i1  i2 = i2
    URLs <- MCURLs
    Graphs <- MCGraphs
    Imports <- MCImports
    MaxFaults = 1
SPECIFICATION Spec
INVARIANTS NeverUnlinked EvaluatesInstantiated OutcomeMatchesGraph
PROPERTY ImportsSettle
CHECK_DEADLOCK FALSE
