-------------------------- MODULE ModuleLoaderProofs --------------------------
(***************************************************************************)
(* Proofs about ModuleLoader for every set of modules, every set of graphs *)
(* and any number of imports and faults.                                   *)
(***************************************************************************)
EXTENDS ModuleLoader, TLAPS

-----------------------------------------------------------------------------
(* Reachability, without induction: Reach(u, f) is the intersection of the    *)
(* sets that hold u and are closed under f.                                   *)

\* A module reaches itself and what its modules request.
LEMMA ReachContains ==
    ASSUME NEW u \in URLs, NEW f \in [URLs -> SUBSET URLs]
    PROVE  /\ u \in Reach(u, f)
           /\ \A v \in Reach(u, f) : f[v] \subseteq Reach(u, f)
BY DEF Reach

\* Reach(u, f) is the least such set.
LEMMA ReachLeast ==
    ASSUME NEW u \in URLs, NEW f \in [URLs -> SUBSET URLs],
           NEW S \in SUBSET URLs, u \in S, \A w \in S : f[w] \subseteq S
    PROVE  Reach(u, f) \subseteq S
BY DEF Reach

LEMMA RequestsType ==
    ASSUME TypeOK
    PROVE  requests \in [URLs -> SUBSET URLs]
BY ModuleLoaderAssumption DEF TypeOK

\* A graph contains its root, what its modules request and their graphs.
LEMMA GraphFacts ==
    ASSUME TypeOK, NEW u \in URLs
    PROVE  /\ u \in Graph(u)
           /\ Graph(u) \subseteq URLs
           /\ \A v \in Graph(u) : requests[v] \subseteq Graph(u)
           /\ \A v \in Graph(u) : Graph(v) \subseteq Graph(u)
           /\ \A d \in requests[u] : Graph(d) \subseteq Graph(u)
<1>1. requests \in [URLs -> SUBSET URLs]
  BY RequestsType
<1>2. /\ u \in Graph(u) /\ Graph(u) \subseteq URLs
      /\ \A v \in Graph(u) : requests[v] \subseteq Graph(u)
  <2>1. Graph(u) \subseteq URLs
    BY DEF Graph, Reach
  <2> QED
    BY <1>1, <2>1, ReachContains DEF Graph
<1>3. ASSUME NEW v \in Graph(u) PROVE Graph(v) \subseteq Graph(u)
  <2>1. v \in URLs
    BY <1>2, <1>3
  <2> QED
    BY <1>1, <1>2, <1>3, <2>1, ReachLeast DEF Graph
<1>4. \A d \in requests[u] : d \in Graph(u)
  BY <1>2
<1> QED
  BY <1>2, <1>3, <1>4

\* A set of modules closed under requests contains the graph of each of them.
LEMMA ClosedContainsGraph ==
    ASSUME TypeOK, NEW S \in SUBSET URLs, \A w \in S : requests[w] \subseteq S,
           NEW u \in S
    PROVE  Graph(u) \subseteq S
BY RequestsType, ReachLeast DEF Graph

-----------------------------------------------------------------------------
(* The invariant.                                                             *)

Faulty(u) == \E v \in Graph(u) : fault[v] # "none"
Missing(u) == \E v \in Graph(u) : fault[v] = "missing"
Done(u) == status[u] # "uninstantiated"

\* What has settled so far did so for what is in the files.
Promises ==
    \A u \in URLs :
        /\ linked[u] = "fulfilled" => \A d \in requests[u] : Fulfilled(u, d)
        /\ linked[u] = "rejected" => Faulty(u)
        /\ modulePromise[u] # "none" => fault[u] # "unresolvable"
        /\ modulePromise[u] = "fulfilled" => fault[u] # "unreadable"
        /\ modulePromise[u] = "rejected" => fault[u] # "none"
        /\ \A d \in URLs : request[u][d] = "rejected" => fault[d] # "none"

\* A linked module keeps its cache until V8 no longer needs it, or for ever
\* lacks a name.
Caches ==
    \A u \in URLs :
        linked[u] \in {"pending", "fulfilled"} => cached[u] \/ Done(u) \/ Missing(u)

\* Instantiated modules are closed under requests and sound but for throwing.
Instantiations ==
    \A u \in URLs : Done(u) =>
        /\ fault[u] \in {"none", "throws"}
        /\ \A d \in requests[u] : Done(d)

Evaluations ==
    \A u \in URLs :
        /\ status[u] = "evaluated" =>
              /\ fault[u] = "none"
              /\ \A d \in requests[u] : status[d] = "evaluated"
        /\ status[u] = "errored" => Faulty(u)

\* Jobs are marked as instantiated, or failed, for a reason.
Marks ==
    \A u \in URLs :
        /\ own[u] = "fulfilled" \/ instantiated[u] = "resolved" => Done(u)
        /\ own[u] = "rejected" => Faulty(u)

Outcomes ==
    \A i \in Imports :
        /\ import[i] = "resolved" => Done(target[i])
        /\ import[i] = "rejected" => Faulty(target[i])
        /\ import[i] = "fulfilled" => status[target[i]] = "evaluated"

LInv ==
    /\ TypeOK
    /\ Promises
    /\ Caches
    /\ Instantiations
    /\ Evaluations
    /\ Marks
    /\ Outcomes

-----------------------------------------------------------------------------
(* What the invariant implies.                                                *)

\* A graph whose visited part is linked has been visited as a whole.
LEMMA LinkedGraph ==
    ASSUME TypeOK, NEW u \in URLs, GraphLinked(u)
    PROVE  \A v \in Graph(u) : linked[v] = "fulfilled"
<1> DEFINE f == [v \in URLs |-> IF linked[v] = "fulfilled" THEN requests[v] ELSE {}]
<1>1. requests \in [URLs -> SUBSET URLs] /\ f \in [URLs -> SUBSET URLs]
  BY RequestsType
<1>2. Visited(u) = Reach(u, f) /\ Visited(u) \in SUBSET URLs
  BY DEF Visited, Reach
<1>3. u \in Visited(u) /\ \A v \in Visited(u) : f[v] \subseteq Visited(u)
  BY <1>1, <1>2, ReachContains
<1>4. \A v \in Visited(u) : v \in URLs /\ linked[v] = "fulfilled" /\ f[v] = requests[v]
  BY <1>2 DEF GraphLinked
<1>5. Graph(u) \subseteq Visited(u)
  BY <1>2, <1>3, <1>4, ClosedContainsGraph
<1> QED
  BY <1>4, <1>5

\* What has been visited is part of the graph.
LEMMA VisitedInGraph ==
    ASSUME TypeOK, NEW u \in URLs
    PROVE  Visited(u) \subseteq Graph(u)
<1> DEFINE f == [v \in URLs |-> IF linked[v] = "fulfilled" THEN requests[v] ELSE {}]
<1>1. requests \in [URLs -> SUBSET URLs] /\ f \in [URLs -> SUBSET URLs]
  BY RequestsType
<1>2. \A v \in Graph(u) : v \in URLs /\ f[v] \subseteq Graph(u)
  BY GraphFacts
<1>3. u \in Graph(u) /\ Graph(u) \in SUBSET URLs
  BY GraphFacts
<1>4. Reach(u, f) \subseteq Graph(u)
  BY <1>1, <1>2, <1>3, ReachLeast
<1> QED
  BY <1>4 DEF Visited

LEMMA NeverUnlinkedAt ==
    ASSUME LInv, NEW u \in URLs, GraphLinked(u)
    PROVE  AllResolve(u) \/ Missing(u)
<1> SUFFICES ASSUME ~Missing(u),
                    NEW v \in Uninstantiated(u), NEW d \in requests[v]
             PROVE  cached[v] /\ Fulfilled(v, d)
  BY DEF AllResolve
<1>1. v \in URLs /\ v \in Graph(u) /\ ~Done(v) /\ Graph(v) \subseteq Graph(u)
  BY GraphFacts DEF LInv, Uninstantiated, Done
<1>2. linked[v] = "fulfilled"
  BY <1>1, LinkedGraph DEF LInv
<1>3. ~Missing(v)
  BY <1>1 DEF Missing
<1> QED
  BY <1>1, <1>2, <1>3 DEF LInv, Promises, Caches

\* A module that is instantiated has its whole graph instantiated.
LEMMA DoneGraph ==
    ASSUME LInv, NEW u \in URLs, Done(u)
    PROVE  \A v \in Graph(u) : v \in URLs /\ Done(v) /\ fault[v] \in {"none", "throws"}
<1> DEFINE S == {v \in URLs : Done(v)}
<1>1. \A w \in S : requests[w] \subseteq S
  BY RequestsType DEF LInv, Instantiations
<1>2. Graph(u) \subseteq S
  BY <1>1, ClosedContainsGraph DEF LInv
<1> QED
  BY <1>2 DEF LInv, Instantiations

LEMMA EvaluatedGraph ==
    ASSUME LInv, NEW u \in URLs, status[u] = "evaluated"
    PROVE  \A v \in Graph(u) : status[v] = "evaluated" /\ fault[v] = "none"
<1> DEFINE S == {v \in URLs : status[v] = "evaluated"}
<1>1. \A w \in S : requests[w] \subseteq S
  BY RequestsType DEF LInv, Evaluations
<1>2. Graph(u) \subseteq S
  BY <1>1, ClosedContainsGraph DEF LInv
<1> QED
  BY <1>2 DEF LInv, Evaluations

\* The files and thus the graphs stay what they are.
LEMMA GraphsStay ==
    ASSUME UNCHANGED files
    PROVE  /\ requests' = requests /\ fault' = fault
           /\ \A u \in URLs : /\ Graph(u)' = Graph(u)
                              /\ Faulty(u)' = Faulty(u)
                              /\ Missing(u)' = Missing(u)
BY DEF files, Graph, Reach, Faulty, Missing

-----------------------------------------------------------------------------
(* The invariant is inductive: one lemma per action.                          *)

LEMMA InitLInv == Init => LInv
<1> SUFFICES ASSUME Init PROVE LInv
  OBVIOUS
<1>1. TypeOK
  BY DEF Init, TypeOK, Promise
<1> QED
  BY <1>1
     DEF Init, LInv, Promises, Caches, Instantiations, Evaluations, Marks,
         Outcomes, Done

\* What an action that leaves V8's modules and the jobs' marks alone preserves.
LEMMA ModulesStay ==
    ASSUME LInv, UNCHANGED files, UNCHANGED modules
    PROVE  Instantiations' /\ Evaluations' /\ Marks'
BY GraphsStay
   DEF LInv, modules, Instantiations, Evaluations, Marks, Done

\* And one that leaves the imports alone, except for their place.
LEMMA JobsStay ==
    ASSUME LInv, UNCHANGED files, UNCHANGED <<linked, request, cached, status>>,
           UNCHANGED modulePromise
    PROVE  Promises' /\ Caches'
BY GraphsStay
   DEF LInv, Promises, Caches, Fulfilled, Done

LEMMA StartImportLInv ==
    ASSUME LInv, NEW i \in Imports, StartImport(i)
    PROVE  LInv'
<1>1. /\ UNCHANGED files /\ UNCHANGED modules /\ UNCHANGED jobs
      /\ import' = [import EXCEPT ![i] = "resolving"] /\ target' = target
  BY DEF StartImport
<1>2. TypeOK'
  BY <1>1, GraphsStay DEF LInv, TypeOK, jobs, modules
<1>3. Outcomes'
  BY <1>1, GraphsStay DEF LInv, TypeOK, Outcomes, modules, Done
<1> QED
  BY <1>1, <1>2, <1>3, ModulesStay, JobsStay DEF LInv, jobs, modules

\* Looking up a job of a URL that can be resolved.
LEMMA LookUpKeeps ==
    ASSUME LInv, NEW u \in URLs, fault[u] # "unresolvable", LookUpJob(u),
           UNCHANGED files
    PROVE  /\ modulePromise' \in [URLs -> Promise]
           /\ modulePromise'[u] # "none"
           /\ \A v \in URLs :
                 /\ modulePromise[v] # "none" => modulePromise'[v] = modulePromise[v]
                 /\ modulePromise'[v] # "none" => fault[v] # "unresolvable"
                 /\ modulePromise'[v] = "fulfilled" => modulePromise[v] = "fulfilled"
                 /\ modulePromise'[v] = "rejected" => modulePromise[v] = "rejected"
BY DEF LInv, TypeOK, Promise, Promises, LookUpJob

LEMMA ImportResolvedLInv ==
    ASSUME LInv, NEW i \in Imports, ImportResolved(i)
    PROVE  LInv'
<1>1. /\ UNCHANGED files /\ UNCHANGED modules /\ UNCHANGED <<linked, request>>
      /\ target' = target /\ target[i] \in URLs
  BY DEF ImportResolved, LInv, TypeOK
<1>2. CASE /\ fault[target[i]] = "unresolvable"
           /\ import' = [import EXCEPT ![i] = "rejected"]
           /\ UNCHANGED modulePromise
  <2>1. TypeOK'
    BY <1>1, <1>2, GraphsStay DEF LInv, TypeOK, modules
  <2>2. Faulty(target[i])
    BY <1>1, <1>2, GraphFacts DEF LInv, Faulty
  <2>3. Outcomes'
    BY <1>1, <1>2, <2>2, GraphsStay DEF LInv, TypeOK, Outcomes, modules, Done
  <2> QED
    BY <1>1, <1>2, <2>1, <2>3, ModulesStay, JobsStay DEF LInv, modules
<1>3. CASE /\ fault[target[i]] # "unresolvable"
           /\ import' = [import EXCEPT ![i] = "job"]
           /\ LookUpJob(target[i])
  <2>1. TypeOK'
    BY <1>1, <1>3, GraphsStay, LookUpKeeps DEF LInv, TypeOK, modules
  <2>2. Promises'
    BY <1>1, <1>3, GraphsStay, LookUpKeeps, RequestsType DEF LInv, TypeOK, Promises, Fulfilled
  <2>3. Caches'
    BY <1>1, GraphsStay DEF LInv, Caches, modules, Done
  <2>4. Outcomes'
    BY <1>1, <1>3, GraphsStay DEF LInv, TypeOK, Outcomes, modules, Done
  <2> QED
    BY <1>1, <2>1, <2>2, <2>3, <2>4, ModulesStay DEF LInv
<1> QED
  BY <1>2, <1>3 DEF ImportResolved

LEMMA RunLInv ==
    ASSUME LInv, NEW i \in Imports, Run(i)
    PROVE  LInv'
<1>1. /\ UNCHANGED files /\ UNCHANGED jobs /\ UNCHANGED <<cached, status>>
      /\ target' = target /\ target[i] \in URLs
      /\ import' = [import EXCEPT ![i] =
                       IF instantiated[target[i]] = "resolved" THEN "resolved" ELSE "own"]
  BY DEF Run, LInv, TypeOK
<1>2. TypeOK'
  <2>1. /\ instantiated' \in [URLs -> {"undefined", "own", "resolved"}]
        /\ own' \in [URLs -> Promise]
    <3>1. \/ /\ instantiated' = [instantiated EXCEPT ![target[i]] = "own"]
             /\ own' = [own EXCEPT ![target[i]] = "pending"]
          \/ UNCHANGED <<instantiated, own>>
      BY DEF Run
    <3>2. /\ instantiated \in [URLs -> {"undefined", "own", "resolved"}]
          /\ own \in [URLs -> Promise]
          /\ "pending" \in Promise
      BY DEF LInv, TypeOK, Promise
    <3> QED
      BY <1>1, <3>1, <3>2
  <2>2. import' \in [Imports -> {"idle", "resolving", "job", "own", "resolved",
                                "fulfilled", "rejected"}]
    BY <1>1 DEF LInv, TypeOK
  <2> QED
    BY <1>1, <2>1, <2>2, GraphsStay DEF LInv, TypeOK, jobs
<1>3. Marks'
  BY <1>1, GraphsStay DEF LInv, TypeOK, Marks, Run, Done
<1>4. Outcomes'
  BY <1>1, GraphsStay DEF LInv, TypeOK, Outcomes, Marks, Done
<1>5. Instantiations' /\ Evaluations'
  BY <1>1, GraphsStay DEF LInv, Instantiations, Evaluations, Done
<1> QED
  BY <1>1, <1>2, <1>3, <1>4, <1>5, JobsStay DEF LInv, jobs

\* The actions of jobs that leave the imports alone.
LEMMA ImportsStay ==
    ASSUME LInv, UNCHANGED files, UNCHANGED imports,
           \A u \in URLs : /\ Done(u) => Done(u)'
                           /\ status[u] = "evaluated" => status'[u] = "evaluated"
    PROVE  Outcomes'
BY GraphsStay DEF LInv, TypeOK, Outcomes, imports

LEMMA TranslateLInv ==
    ASSUME LInv, NEW u \in URLs, Translate(u)
    PROVE  LInv'
<1>1. /\ UNCHANGED files /\ UNCHANGED modules /\ UNCHANGED <<linked, request>>
      /\ UNCHANGED imports
      /\ modulePromise[u] = "pending"
      /\ modulePromise' = [modulePromise EXCEPT ![u] =
                              IF fault[u] = "unreadable" THEN "rejected" ELSE "fulfilled"]
  BY DEF Translate
<1>2. TypeOK'
  BY <1>1, GraphsStay DEF LInv, TypeOK, Promise, modules, imports
<1>3. Promises'
  BY <1>1, GraphsStay, RequestsType DEF LInv, TypeOK, Promises, Fulfilled
<1>4. Caches' /\ Outcomes'
  BY <1>1, GraphsStay, ImportsStay DEF LInv, Caches, modules, Done
<1> QED
  BY <1>1, <1>2, <1>3, <1>4, ModulesStay DEF LInv

LEMMA LinkLInv ==
    ASSUME LInv, NEW u \in URLs, Link(u)
    PROVE  LInv'
<1>1. /\ UNCHANGED files /\ UNCHANGED imports
      /\ UNCHANGED <<modulePromise, instantiated, own, status>>
      /\ modulePromise[u] = "fulfilled" /\ linked[u] = "none"
      /\ linked' = [linked EXCEPT ![u] = "pending"]
      /\ request' = [request EXCEPT ![u] =
                        [d \in URLs |-> IF d \in requests[u] THEN "resolving" ELSE "none"]]
      /\ cached' = [cached EXCEPT ![u] = TRUE]
  BY DEF Link
<1>2. TypeOK'
  BY <1>1, GraphsStay DEF LInv, TypeOK, Promise, imports
<1>3. Promises'
  BY <1>1, GraphsStay, RequestsType DEF LInv, TypeOK, Promises, Fulfilled
<1>4. Caches'
  BY <1>1, GraphsStay DEF LInv, TypeOK, Caches, Done
<1>5. Instantiations' /\ Evaluations' /\ Marks' /\ Outcomes'
  BY <1>1, GraphsStay, ImportsStay
     DEF LInv, Instantiations, Evaluations, Marks, Done
<1> QED
  BY <1>2, <1>3, <1>4, <1>5 DEF LInv

LEMMA RequestResolvedLInv ==
    ASSUME LInv, NEW u \in URLs, NEW d \in URLs, RequestResolved(u, d)
    PROVE  LInv'
<1>1. /\ UNCHANGED files /\ UNCHANGED imports /\ UNCHANGED modules
      /\ linked' = linked /\ request[u][d] = "resolving"
  BY DEF RequestResolved
<1>2. Caches' /\ Outcomes'
  BY <1>1, GraphsStay, ImportsStay DEF LInv, Caches, modules, Done
<1>3. CASE /\ fault[d] = "unresolvable"
           /\ request' = [request EXCEPT ![u][d] = "rejected"]
           /\ UNCHANGED modulePromise
  <2>1. TypeOK'
    BY <1>1, <1>3, GraphsStay DEF LInv, TypeOK, modules, imports
  <2>2. Promises'
    BY <1>1, <1>3, GraphsStay, RequestsType DEF LInv, TypeOK, Promises, Fulfilled
  <2> QED
    BY <1>1, <1>2, <2>1, <2>2, ModulesStay DEF LInv
<1>4. CASE /\ fault[d] # "unresolvable"
           /\ request' = [request EXCEPT ![u][d] = "job"]
           /\ LookUpJob(d)
  <2>1. TypeOK'
    BY <1>1, <1>4, GraphsStay, LookUpKeeps DEF LInv, TypeOK, modules, imports
  <2>2. Promises'
    BY <1>1, <1>4, GraphsStay, LookUpKeeps, RequestsType DEF LInv, TypeOK, Promises, Fulfilled
  <2> QED
    BY <1>1, <1>2, <2>1, <2>2, ModulesStay DEF LInv
<1> QED
  BY <1>3, <1>4 DEF RequestResolved

LEMMA LinkedSettlesLInv ==
    ASSUME LInv, NEW u \in URLs, LinkedSettles(u)
    PROVE  LInv'
<1>1. /\ UNCHANGED files /\ UNCHANGED imports /\ UNCHANGED modules
      /\ UNCHANGED <<modulePromise, request>>
  BY DEF LinkedSettles
<1>2. CASE linked' = [linked EXCEPT ![u] = "rejected"] /\ Faulty(u)
  <2>1. TypeOK'
    BY <1>1, <1>2, GraphsStay DEF LInv, TypeOK, Promise, modules, imports
  <2>2. Promises'
    BY <1>1, <1>2, GraphsStay DEF LInv, TypeOK, Promises, Fulfilled
  <2>3. Caches'
    BY <1>1, <1>2, GraphsStay DEF LInv, TypeOK, Caches, modules, Done
  <2> QED
    BY <1>1, <2>1, <2>2, <2>3, GraphsStay, ModulesStay, ImportsStay DEF LInv, modules, Done
<1>3. CASE /\ linked[u] = "pending"
           /\ \A d \in requests[u] : Fulfilled(u, d)
           /\ linked' = [linked EXCEPT ![u] = "fulfilled"]
  <2>1. TypeOK'
    BY <1>1, <1>3, GraphsStay DEF LInv, TypeOK, Promise, modules, imports
  <2>2. Promises'
    BY <1>1, <1>3, GraphsStay DEF LInv, TypeOK, Promises, Fulfilled
  <2>3. Caches'
    BY <1>1, <1>3, GraphsStay DEF LInv, TypeOK, Caches, modules, Done
  <2> QED
    BY <1>1, <2>1, <2>2, <2>3, GraphsStay, ModulesStay, ImportsStay DEF LInv, modules, Done
<1>4. \/ modulePromise[u] = "rejected"
      \/ \E d \in requests[u] : Rejected(u, d)
      => Faulty(u)
  <2>1. modulePromise[u] = "rejected" => Faulty(u)
    BY GraphFacts DEF LInv, Promises, Faulty
  <2>2. ASSUME NEW d \in requests[u], Rejected(u, d) PROVE Faulty(u)
    <3>1. d \in URLs /\ d \in Graph(u)
      BY GraphFacts, RequestsType DEF LInv
    <3>2. fault[d] # "none"
      BY <2>2, <3>1 DEF Rejected, LInv, Promises
    <3> QED
      BY <3>1, <3>2 DEF Faulty
  <2> QED
    BY <2>1, <2>2
<1> QED
  BY <1>2, <1>3, <1>4 DEF LinkedSettles

LEMMA GraphFailsLInv ==
    ASSUME LInv, NEW u \in URLs, GraphFails(u)
    PROVE  LInv'
<1>1. /\ UNCHANGED files /\ UNCHANGED imports /\ UNCHANGED jobs
      /\ UNCHANGED <<cached, instantiated, status>>
      /\ own' = [own EXCEPT ![u] = "rejected"]
  BY DEF GraphFails
<1>2. PICK v \in Visited(u) : linked[v] = "rejected"
  BY DEF GraphFails
<1>3. Faulty(u)
  <2>1. v \in Graph(u) /\ v \in URLs /\ Graph(v) \subseteq Graph(u)
    BY VisitedInGraph, GraphFacts DEF LInv
  <2>2. Faulty(v)
    BY <1>2, <2>1 DEF LInv, Promises
  <2> QED
    BY <2>1, <2>2 DEF Faulty
<1>4. TypeOK'
  BY <1>1, GraphsStay DEF LInv, TypeOK, Promise, jobs, imports
<1>5. Marks'
  BY <1>1, <1>3, GraphsStay DEF LInv, TypeOK, Marks, Done
<1>6. Instantiations' /\ Evaluations' /\ Outcomes'
  BY <1>1, GraphsStay, ImportsStay DEF LInv, Instantiations, Evaluations, Done
<1> QED
  BY <1>1, <1>4, <1>5, <1>6, JobsStay DEF LInv, jobs

\* A job of a linked graph: its module was read.
LEMMA LinkedSound ==
    ASSUME LInv, NEW u \in URLs, GraphLinked(u)
    PROVE  \A v \in Graph(u) : fault[v] \in {"none", "missing", "throws"}
<1> SUFFICES ASSUME NEW v \in Graph(u)
             PROVE  fault[v] \in {"none", "missing", "throws"}
  OBVIOUS
<1>1. v \in URLs /\ linked[v] = "fulfilled"
  BY GraphFacts, LinkedGraph DEF LInv
<1>2. modulePromise[v] = "fulfilled"
  BY <1>1 DEF LInv, TypeOK
<1> QED
  BY <1>1, <1>2 DEF LInv, TypeOK, Faults, Promises

LEMMA InstantiateLInv ==
    ASSUME LInv, NEW u \in URLs, Instantiate(u)
    PROVE  LInv'
<1>1. /\ UNCHANGED files /\ UNCHANGED imports /\ UNCHANGED jobs
      /\ GraphLinked(u)
      /\ cached' = [cached EXCEPT ![u] = FALSE]
  BY DEF Instantiate
<1>2. AllResolve(u) \/ Missing(u)
  BY <1>1, NeverUnlinkedAt
<1>3. Promises'
  BY <1>1, GraphsStay DEF LInv, Promises, Fulfilled, jobs
<1>4. /\ u \in Graph(u) /\ Graph(u) \subseteq URLs
      /\ \A v \in Graph(u) : requests[v] \subseteq Graph(u)
  BY GraphFacts DEF LInv
<1>5. CASE /\ InstantiationSucceeds(u)
           /\ status' = [v \in URLs |-> IF v \in Uninstantiated(u) THEN "instantiated"
                                        ELSE status[v]]
           /\ own' = [own EXCEPT ![u] = "fulfilled"]
           /\ instantiated' = [v \in URLs |-> IF v \in Graph(u) THEN "resolved"
                                              ELSE instantiated[v]]
  <2>1. /\ \A v \in URLs : Done(v)' <=> Done(v) \/ v \in Graph(u)
        /\ \A v \in URLs : Done(v) => status'[v] = status[v]
        /\ \A v \in URLs : ~Done(v) => status'[v] \in {"uninstantiated", "instantiated"}
    BY <1>4, <1>5 DEF LInv, TypeOK, Uninstantiated, Done
  <2>2. TypeOK'
    BY <1>1, <1>5, GraphsStay DEF LInv, TypeOK, Promise, jobs, imports
  <2>3. \A v \in Graph(u) : fault[v] \in {"none", "throws"}
    <3> SUFFICES ASSUME NEW v \in Graph(u) PROVE fault[v] \in {"none", "throws"}
      OBVIOUS
    <3>1. CASE Done(v)
      BY <1>4, <3>1 DEF LInv, Instantiations
    <3>2. CASE ~Done(v)
      BY <1>1, <1>5, <3>2, LinkedSound DEF InstantiationSucceeds, Uninstantiated, Done
    <3> QED
      BY <3>1, <3>2
  <2>4. Instantiations'
    BY <1>1, <1>4, <2>1, <2>3, GraphsStay, RequestsType DEF LInv, Instantiations
  <2>5. Evaluations'
    BY <1>1, <2>1, GraphsStay, RequestsType DEF LInv, Evaluations, Done
  <2>6. Marks'
    BY <1>1, <1>4, <1>5, <2>1, GraphsStay DEF LInv, TypeOK, Marks
  <2>7. Caches'
    BY <1>1, <1>4, <2>1, GraphsStay DEF LInv, TypeOK, Caches, jobs
  <2>8. Outcomes'
    BY <1>1, <2>1, GraphsStay, ImportsStay DEF Done
  <2> QED
    BY <1>3, <2>2, <2>4, <2>5, <2>6, <2>7, <2>8 DEF LInv
<1>6. CASE /\ ~InstantiationSucceeds(u)
           /\ \E done \in SUBSET {v \in Uninstantiated(u) : fault[v] # "missing"} :
                 /\ Complete(done)
                 /\ done # {} => AllResolve(u)
                 /\ status' = [v \in URLs |-> IF v \in done THEN "instantiated"
                                              ELSE status[v]]
           /\ own' = [own EXCEPT ![u] = "rejected"]
           /\ UNCHANGED instantiated
  <2>1. PICK done \in SUBSET {v \in Uninstantiated(u) : fault[v] # "missing"} :
             /\ Complete(done)
             /\ status' = [v \in URLs |-> IF v \in done THEN "instantiated"
                                          ELSE status[v]]
    BY <1>6
  <2>2. Missing(u) /\ Faulty(u)
    BY <1>2, <1>6 DEF InstantiationSucceeds, Missing, Faulty, Uninstantiated
  <2>3. /\ \A v \in URLs : Done(v)' <=> Done(v) \/ v \in done
        /\ \A v \in URLs : Done(v) => status'[v] = status[v]
        /\ \A v \in URLs : ~Done(v) => status'[v] \in {"uninstantiated", "instantiated"}
    BY <1>4, <2>1 DEF LInv, TypeOK, Uninstantiated, Done
  <2>4. TypeOK'
    BY <1>1, <1>6, <2>1, GraphsStay DEF LInv, TypeOK, Promise, jobs, imports
  <2>5. \A v \in done : fault[v] \in {"none", "throws"}
    BY <1>1, <2>1, LinkedSound DEF Uninstantiated
  <2>6. \A v \in done : \A d \in requests[v] : d \in done \/ Done(d)
    BY <2>1 DEF Complete, Done
  <2>7. Instantiations'
    BY <1>1, <2>3, <2>5, <2>6, GraphsStay, RequestsType DEF LInv, Instantiations
  <2>8. Evaluations'
    BY <1>1, <2>3, GraphsStay, RequestsType DEF LInv, Evaluations, Done
  <2>9. Marks'
    BY <1>1, <1>6, <2>2, <2>3, GraphsStay DEF LInv, TypeOK, Marks
  <2>10. Caches'
    BY <1>1, <2>2, <2>3, GraphsStay DEF LInv, TypeOK, Caches, jobs
  <2>11. Outcomes'
    BY <1>1, <2>3, GraphsStay, ImportsStay DEF Done
  <2> QED
    BY <1>3, <2>4, <2>7, <2>8, <2>9, <2>10, <2>11 DEF LInv
<1> QED
  BY <1>5, <1>6 DEF Instantiate

\* An import that is about to evaluate: its graph is instantiated.
LEMMA EvaluatesAt ==
    ASSUME LInv, NEW i \in Imports,
           \/ import[i] = "resolved"
           \/ import[i] = "own" /\ own[target[i]] = "fulfilled"
    PROVE  target[i] \in URLs /\ Done(target[i])
BY DEF LInv, TypeOK, Outcomes, Marks

LEMMA EvaluateLInv ==
    ASSUME LInv, NEW i \in Imports, Evaluate(i)
    PROVE  LInv'
<1> DEFINE u == target[i]
           graph == Graph(u)
           doomed == {v \in graph : \E w \in Graph(v) : Throws(w)}
<1>1. /\ UNCHANGED files /\ UNCHANGED jobs
      /\ UNCHANGED <<target, cached, instantiated, own>>
  BY DEF Evaluate
<1>2. u \in URLs /\ Done(u)
  BY EvaluatesAt DEF Evaluate
<1>3. /\ u \in graph /\ graph \subseteq URLs
      /\ \A v \in graph : requests[v] \subseteq graph
      /\ \A v \in graph : Graph(v) \subseteq graph
      /\ \A v \in graph : v \in Graph(v)
  BY <1>2, GraphFacts DEF LInv
<1>4. \A v \in graph : Done(v) /\ fault[v] \in {"none", "throws"}
  BY <1>2, DoneGraph
<1>5. \A v \in graph \ doomed : fault[v] = "none"
  BY <1>3, <1>4 DEF Throws
<1>6. \A v \in doomed : Faulty(v)
  <2> SUFFICES ASSUME NEW v \in graph, NEW w \in Graph(v), Throws(w)
               PROVE  Faulty(v)
    OBVIOUS
  <2>1. v \in URLs /\ w \in URLs /\ Graph(w) \subseteq Graph(v)
    BY <1>3, GraphFacts DEF LInv
  <2>2. CASE fault[w] = "throws"
    BY <2>2 DEF Faulty
  <2>3. CASE status[w] = "errored"
    BY <2>1, <2>3 DEF LInv, Evaluations, Faulty
  <2> QED
    BY <2>2, <2>3 DEF Throws
<1>7. \A v \in graph : status[v] = "evaluated" => v \notin doomed
  <2> SUFFICES ASSUME NEW v \in graph, status[v] = "evaluated",
                      NEW w \in Graph(v)
               PROVE  ~Throws(w)
    OBVIOUS
  <2> QED
    BY <1>3, EvaluatedGraph DEF Throws
<1>8. ASSUME NEW entered \in SUBSET doomed, NEW done \in SUBSET (graph \ doomed),
             \A v \in done : requests[v] \subseteq done,
             status' = [v \in URLs |-> IF v \in entered THEN "errored"
                                      ELSE IF v \in done THEN "evaluated" ELSE status[v]]
      PROVE  /\ status' \in [URLs -> {"uninstantiated", "instantiated", "evaluated",
                                      "errored"}]
             /\ \A v \in URLs : Done(v)' <=> Done(v)
             /\ \A v \in URLs : status[v] = "evaluated" => status'[v] = "evaluated"
             /\ Evaluations' /\ Instantiations' /\ Marks' /\ Promises' /\ Caches'
  <2>1. status' \in [URLs -> {"uninstantiated", "instantiated", "evaluated", "errored"}]
    BY <1>8 DEF LInv, TypeOK
  <2>2. \A v \in URLs : Done(v)' <=> Done(v)
    BY <1>3, <1>4, <1>8 DEF Done
  <2>3. \A v \in URLs : status[v] = "evaluated" => status'[v] = "evaluated"
    BY <1>3, <1>7, <1>8
  <2>4. ASSUME NEW v \in URLs, status'[v] = "evaluated"
        PROVE  /\ fault[v] = "none"
               /\ \A d \in requests[v] : status'[d] = "evaluated"
    <3>1. CASE v \in done
      BY <1>3, <1>5, <1>8, <3>1
    <3>2. CASE v \notin done
      <4>1. status[v] = "evaluated"
        BY <1>8, <2>4, <3>2
      <4> QED
        BY <2>3, <2>4, <4>1, RequestsType DEF LInv, Evaluations
    <3> QED
      BY <3>1, <3>2
  <2>5. ASSUME NEW v \in URLs, status'[v] = "errored"
        PROVE  Faulty(v)
    BY <1>6, <1>8, <2>5 DEF LInv, Evaluations
  <2>6. Evaluations'
    BY <1>1, <2>4, <2>5, GraphsStay DEF Evaluations
  <2>7. Instantiations' /\ Marks'
    BY <1>1, <2>2, GraphsStay, RequestsType DEF LInv, Instantiations, Marks
  <2>8. Promises' /\ Caches'
    BY <1>1, <2>2, GraphsStay DEF LInv, Promises, Caches, Fulfilled, jobs
  <2> QED
    BY <2>1, <2>2, <2>3, <2>6, <2>7, <2>8
<1>9. CASE /\ doomed = {}
           /\ status' = [v \in URLs |-> IF v \in graph THEN "evaluated" ELSE status[v]]
           /\ import' = [import EXCEPT ![i] = "fulfilled"]
  <2>1. /\ \A v \in graph : requests[v] \subseteq graph
        /\ graph \in SUBSET (graph \ doomed) /\ {} \in SUBSET doomed
        /\ status' = [v \in URLs |-> IF v \in {} THEN "errored"
                                     ELSE IF v \in graph THEN "evaluated" ELSE status[v]]
    BY <1>3, <1>9
  <2>2. /\ status' \in [URLs -> {"uninstantiated", "instantiated", "evaluated", "errored"}]
        /\ \A v \in URLs : Done(v)' <=> Done(v)
        /\ \A v \in URLs : status[v] = "evaluated" => status'[v] = "evaluated"
        /\ Evaluations' /\ Instantiations' /\ Marks' /\ Promises' /\ Caches'
    BY <1>8, <2>1
  <2>3. TypeOK'
    BY <1>1, <1>9, <2>2, GraphsStay DEF LInv, TypeOK, jobs
  <2>4. status'[u] = "evaluated"
    BY <1>2, <1>3, <1>9
  <2>5. Outcomes'
    BY <1>1, <1>9, <2>2, <2>4, GraphsStay DEF LInv, TypeOK, Outcomes
  <2> QED
    BY <2>2, <2>3, <2>5 DEF LInv
<1>10. CASE /\ doomed # {}
            /\ \E entered \in SUBSET doomed, done \in SUBSET (graph \ doomed) :
                  /\ u \in entered
                  /\ \A v \in done : requests[v] \subseteq done
                  /\ status' = [v \in URLs |->
                        IF v \in entered THEN "errored"
                        ELSE IF v \in done THEN "evaluated" ELSE status[v]]
            /\ import' = [import EXCEPT ![i] = "rejected"]
  <2>1. PICK entered \in SUBSET doomed, done \in SUBSET (graph \ doomed) :
                  /\ u \in entered
                  /\ \A v \in done : requests[v] \subseteq done
                  /\ status' = [v \in URLs |->
                        IF v \in entered THEN "errored"
                        ELSE IF v \in done THEN "evaluated" ELSE status[v]]
    BY <1>10
  <2>2. /\ status' \in [URLs -> {"uninstantiated", "instantiated", "evaluated", "errored"}]
        /\ \A v \in URLs : Done(v)' <=> Done(v)
        /\ \A v \in URLs : status[v] = "evaluated" => status'[v] = "evaluated"
        /\ Evaluations' /\ Instantiations' /\ Marks' /\ Promises' /\ Caches'
    BY <1>8, <2>1
  <2>3. TypeOK'
    BY <1>1, <1>10, <2>2, GraphsStay DEF LInv, TypeOK, jobs
  <2>4. Faulty(u)
    BY <1>6, <2>1
  <2>5. Outcomes'
    BY <1>1, <1>10, <2>2, <2>4, GraphsStay DEF LInv, TypeOK, Outcomes
  <2> QED
    BY <2>2, <2>3, <2>5 DEF LInv
<1> QED
  BY <1>9, <1>10 DEF Evaluate

LEMMA InstantiationFailedLInv ==
    ASSUME LInv, NEW i \in Imports, InstantiationFailed(i)
    PROVE  LInv'
<1>1. /\ UNCHANGED files /\ UNCHANGED modules /\ UNCHANGED jobs
      /\ import' = [import EXCEPT ![i] = "rejected"] /\ target' = target
      /\ own[target[i]] = "rejected" /\ target[i] \in URLs
  BY DEF InstantiationFailed, LInv, TypeOK
<1>2. TypeOK'
  BY <1>1, GraphsStay DEF LInv, TypeOK, jobs, modules
<1>3. Outcomes'
  BY <1>1, GraphsStay DEF LInv, TypeOK, Outcomes, Marks, modules, Done
<1> QED
  BY <1>1, <1>2, <1>3, ModulesStay, JobsStay DEF LInv, jobs, modules

LEMMA NextLInv == LInv /\ [Next]_vars => LInv'
<1> SUFFICES ASSUME LInv, [Next]_vars PROVE LInv'
  OBVIOUS
<1>1. CASE \E i \in Imports : StartImport(i) \/ Continue(i)
  BY <1>1, StartImportLInv, ImportResolvedLInv, RunLInv, EvaluateLInv,
     InstantiationFailedLInv DEF Continue
<1>2. CASE \E u \in URLs : Job(u)
  BY <1>2, TranslateLInv, LinkLInv, RequestResolvedLInv, LinkedSettlesLInv,
     GraphFailsLInv, InstantiateLInv DEF Job
<1>3. CASE UNCHANGED vars
  <2>1. /\ UNCHANGED files /\ UNCHANGED imports /\ UNCHANGED jobs /\ UNCHANGED modules
    BY <1>3 DEF vars
  <2>2. TypeOK' /\ Outcomes'
    BY <2>1, GraphsStay DEF LInv, TypeOK, Outcomes, imports, jobs, modules, Done
  <2> QED
    BY <2>1, <2>2, ModulesStay, JobsStay DEF LInv, jobs, modules
<1> QED
  BY <1>1, <1>2, <1>3 DEF Next

-----------------------------------------------------------------------------

\* Type correctness of the loader's state, and the order of a job's stages.
THEOREM LoaderTypeCorrect == Spec => []TypeOK
<1>1. LInv => TypeOK
  BY DEF LInv
<1> QED
  BY <1>1, InitLInv, NextLInv, PTL DEF Spec, SafeSpec

\* module.instantiate() finds every request of the graph resolved
\* (ModuleWrap::ResolveCallback), for any graph and any concurrent imports.
THEOREM NeverUnlinkedCorrect == Spec => []NeverUnlinked
<1>1. LInv => NeverUnlinked
  BY NeverUnlinkedAt DEF NeverUnlinked, Missing
<1> QED
  BY <1>1, InitLInv, NextLInv, PTL DEF Spec, SafeSpec

\* evaluate() is called only on a module whose whole graph is instantiated.
THEOREM EvaluatesInstantiatedCorrect == Spec => []EvaluatesInstantiated
<1>1. LInv => EvaluatesInstantiated
  BY EvaluatesAt, DoneGraph DEF EvaluatesInstantiated, Done
<1> QED
  BY <1>1, InitLInv, NextLInv, PTL DEF Spec, SafeSpec

\* The outcome of an import depends on the files of its graph alone.
THEOREM OutcomeCorrect == Spec => []OutcomeMatchesGraph
<1>1. ASSUME LInv PROVE OutcomeMatchesGraph
  <2> SUFFICES ASSUME NEW i \in Imports
               PROVE  /\ import[i] = "rejected" => Faulty(target[i])
                      /\ import[i] = "fulfilled" =>
                            \A v \in Graph(target[i]) :
                                fault[v] = "none" /\ status[v] = "evaluated"
    BY DEF OutcomeMatchesGraph, Faulty
  <2>1. target[i] \in URLs
    BY <1>1 DEF LInv, TypeOK
  <2> QED
    BY <1>1, <2>1, EvaluatedGraph DEF LInv, Outcomes
<1> QED
  BY <1>1, InitLInv, NextLInv, PTL DEF Spec, SafeSpec
=============================================================================
