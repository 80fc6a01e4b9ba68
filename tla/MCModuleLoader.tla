--------------------------- MODULE MCModuleLoader ---------------------------
(* Two imports of any of three modules, at most one of them faulty, in graphs *)
(* that overlap, contain each other, are cyclic, or have a cycle at the root,  *)
(* at the end or as a whole.                                                   *)
EXTENDS ModuleLoader
CONSTANTS u1, u2, u3, i1, i2

MCURLs == {u1, u2, u3}
MCImports == {i1, i2}

Requests(a, b, c) == [u \in MCURLs |-> CASE u = u1 -> a [] u = u2 -> b [] u = u3 -> c]

Chain == Requests({u2}, {u3}, {})
Fork == Requests({u2, u3}, {}, {})
Join == Requests({u3}, {u3}, {})
Triangle == Requests({u2, u3}, {u3}, {})
RootCycle == Requests({u2}, {u1, u3}, {})
LeafCycle == Requests({u2}, {u3}, {u2})
Cycle == Requests({u2}, {u3}, {u1})
SelfRequest == Requests({u1, u2}, {u3}, {})

MCGraphs == {Chain, Fork, Join, Triangle, RootCycle, LeafCycle, Cycle, SelfRequest}
=============================================================================
