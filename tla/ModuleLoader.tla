---------------------------- MODULE ModuleLoader ----------------------------
(***************************************************************************)
(* The ES module loader: Loader and ModuleJob (loader.js, module_job.js)   *)
(* on ModuleWrap (zero_module_wrap.cc) and V8's modules.  Several imports  *)
(* of overlapping, possibly cyclic graphs are under way at once; each part *)
(* of an async function between two awaits is one action, and the order of *)
(* the reactions to promises is left open.                                 *)
(*                                                                         *)
(* The files do not change while they are loaded: what a module requests,  *)
(* and what is wrong with it, is fixed.                                    *)
(***************************************************************************)
EXTENDS FiniteSets, Naturals

CONSTANTS
    URLs,       \* what specifiers resolve to
    Graphs,     \* the functions from URLs to sets of URLs that `requests' may be
    Imports,    \* the calls of import()
    MaxFaults   \* bound: how many modules have something wrong with them

ASSUME ModuleLoaderAssumption ==
    /\ IsFiniteSet(URLs)
    /\ Graphs \subseteq [URLs -> SUBSET URLs]
    /\ MaxFaults \in Nat

(* "unresolvable": no such file, or no translator for its format              *)
(* "unreadable": the file cannot be read, or does not compile                 *)
(* "missing": it imports a name that is not exported                          *)
(* "throws": its evaluation throws                                            *)
Faults == {"none", "unresolvable", "unreadable", "missing", "throws"}

VARIABLES
    requests,       \* the URLs each module requests
    fault,
    target,         \* the URL of each import()
    import,         \* where each import() is
    modulePromise,  \* of the job the module map has for a URL
    linked,         \* the promise of the job's graph-independent part
    request,        \* what ModuleWrap::Link got for each request of a module
    cached,         \* resolve_cache_ holds those promises
    instantiated,   \* the job's field: undefined, its own promise or another
    own,            \* the promise of its _instantiate
    status          \* of V8's module

files == <<requests, fault>>
imports == <<target, import>>
jobs == <<modulePromise, linked, request>>
modules == <<cached, instantiated, own, status>>
vars == <<files, imports, jobs, modules>>

Promise == {"none", "pending", "fulfilled", "rejected"}

\* A job is linked after its module was read, and requests come with linking.
TypeOK ==
    /\ requests \in Graphs
    /\ fault \in [URLs -> Faults]
    /\ target \in [Imports -> URLs]
    /\ import \in [Imports -> {"idle", "resolving", "job", "own", "resolved",
                               "fulfilled", "rejected"}]
    /\ modulePromise \in [URLs -> Promise]
    /\ linked \in [URLs -> Promise]
    /\ request \in [URLs -> [URLs -> {"none", "resolving", "job", "rejected"}]]
    /\ cached \in [URLs -> BOOLEAN]
    /\ instantiated \in [URLs -> {"undefined", "own", "resolved"}]
    /\ own \in [URLs -> Promise]
    /\ status \in [URLs -> {"uninstantiated", "instantiated", "evaluated", "errored"}]
    /\ \A u \in URLs :
          /\ linked[u] \in {"pending", "fulfilled"} => modulePromise[u] = "fulfilled"
          /\ \A d \in URLs : request[u][d] = "job" => modulePromise[d] # "none"

Init ==
    /\ requests \in Graphs
    /\ fault \in {f \in [URLs -> Faults] :
                    Cardinality({u \in URLs : f[u] # "none"}) <= MaxFaults}
    /\ target \in [Imports -> URLs]
    /\ import = [i \in Imports |-> "idle"]
    /\ modulePromise = [u \in URLs |-> "none"]
    /\ linked = [u \in URLs |-> "none"]
    /\ request = [u \in URLs |-> [d \in URLs |-> "none"]]
    /\ cached = [u \in URLs |-> FALSE]
    /\ instantiated = [u \in URLs |-> "undefined"]
    /\ own = [u \in URLs |-> "none"]
    /\ status = [u \in URLs |-> "uninstantiated"]

\* What can be reached from u along the edges of f.
Reach(u, f) ==
    {v \in URLs : \A S \in SUBSET URLs :
        u \in S /\ (\A w \in S : f[w] \subseteq S) => v \in S}

Graph(u) == Reach(u, requests)

-----------------------------------------------------------------------------
(* Loader.                                                                    *)

\* import(): its resolve begins.
StartImport(i) ==
    /\ import[i] = "idle"
    /\ import' = [import EXCEPT ![i] = "resolving"]
    /\ UNCHANGED <<files, target, jobs, modules>>

\* A mutant: every caller makes a job.
OverwriteJob(u) == modulePromise' = [modulePromise EXCEPT ![u] = "pending"]

\* The end of getModuleJob: the job of the module map, or a new one, whose
\* translation begins.
LookUpJob(u) ==
    modulePromise' = [modulePromise EXCEPT ![u] = IF @ = "none" THEN "pending" ELSE @]

ImportResolved(i) ==
    /\ import[i] = "resolving"
    /\ LET u == target[i]
       IN  \/ /\ fault[u] = "unresolvable"
              /\ import' = [import EXCEPT ![i] = "rejected"]
              /\ UNCHANGED modulePromise
           \/ /\ fault[u] # "unresolvable"
              /\ import' = [import EXCEPT ![i] = "job"]
              /\ LookUpJob(u)
    /\ UNCHANGED <<files, target, linked, request, modules>>

\* job.run() up to `await this.instantiated': _instantiate begins if nobody
\* has called it or instantiated the module as part of a larger graph.
Run(i) ==
    /\ import[i] = "job"
    /\ LET u == target[i]
       IN  IF instantiated[u] = "undefined"
           THEN /\ instantiated' = [instantiated EXCEPT ![u] = "own"]
                /\ own' = [own EXCEPT ![u] = "pending"]
           ELSE UNCHANGED <<instantiated, own>>
    /\ import' = [import EXCEPT ![i] =
                     IF instantiated[target[i]] = "resolved" THEN "resolved" ELSE "own"]
    /\ UNCHANGED <<files, target, jobs, cached, status>>

-----------------------------------------------------------------------------
(* ModuleJob: reading and linking.                                            *)

\* The translator's promise settles.
Translate(u) ==
    /\ modulePromise[u] = "pending"
    /\ modulePromise' = [modulePromise EXCEPT ![u] =
                            IF fault[u] = "unreadable" THEN "rejected" ELSE "fulfilled"]
    /\ UNCHANGED <<files, imports, linked, request, modules>>

\* The job goes on with its module: ModuleWrap::Link calls the resolver for
\* every request, which begins to resolve it.
Link(u) ==
    /\ modulePromise[u] = "fulfilled"
    /\ linked[u] = "none"
    /\ linked' = [linked EXCEPT ![u] = "pending"]
    /\ request' = [request EXCEPT ![u] =
                      [d \in URLs |-> IF d \in requests[u] THEN "resolving" ELSE "none"]]
    /\ cached' = [cached EXCEPT ![u] = TRUE]
    /\ UNCHANGED <<files, imports, modulePromise, instantiated, own, status>>

RequestResolved(u, d) ==
    /\ request[u][d] = "resolving"
    /\ \/ /\ fault[d] = "unresolvable"
          /\ request' = [request EXCEPT ![u][d] = "rejected"]
          /\ UNCHANGED modulePromise
       \/ /\ fault[d] # "unresolvable"
          /\ request' = [request EXCEPT ![u][d] = "job"]
          /\ LookUpJob(d)
    /\ UNCHANGED <<files, imports, linked, modules>>

\* A mutant: the promise for a request is the job's `linked'.
FulfilledOnceLinked(u, d) == request[u][d] = "job" /\ linked[d] = "fulfilled"

\* The promise that Link got for a request follows the job's modulePromise.
Fulfilled(u, d) == request[u][d] = "job" /\ modulePromise[d] = "fulfilled"

Rejected(u, d) ==
    \/ request[u][d] = "rejected"
    \/ request[u][d] = "job" /\ modulePromise[d] = "rejected"

\* `linked' settles, in a job whose module was not read or when the promises
\* for its requests do.
LinkedSettles(u) ==
    /\ \/ /\ modulePromise[u] = "rejected" /\ linked[u] = "none"
          /\ linked' = [linked EXCEPT ![u] = "rejected"]
       \/ /\ linked[u] = "pending"
          /\ \E d \in requests[u] : Rejected(u, d)
          /\ linked' = [linked EXCEPT ![u] = "rejected"]
       \/ /\ linked[u] = "pending"
          /\ \A d \in requests[u] : Fulfilled(u, d)
          /\ linked' = [linked EXCEPT ![u] = "fulfilled"]
    /\ UNCHANGED <<files, imports, modulePromise, request, modules>>

-----------------------------------------------------------------------------
(* ModuleJob: instantiation.                                                  *)

\* What addJobsToDependencyGraph has visited: it goes on from linked jobs.
Visited(u) ==
    Reach(u, [v \in URLs |-> IF linked[v] = "fulfilled" THEN requests[v] ELSE {}])

\* A mutant: the graph is not followed further than the root's requests.
RequestsLinked(u) == \A v \in {u} \cup requests[u] : linked[v] = "fulfilled"

GraphLinked(u) == \A v \in Visited(u) : linked[v] = "fulfilled"

\* A job of the graph could not be linked: module.instantiate() is not called.
GraphFails(u) ==
    /\ own[u] = "pending"
    /\ \E v \in Visited(u) : linked[v] = "rejected"
    /\ own' = [own EXCEPT ![u] = "rejected"]
    /\ UNCHANGED <<files, imports, jobs, cached, instantiated, status>>

Uninstantiated(u) == {v \in Graph(u) : status[v] = "uninstantiated"}

\* ResolveCallback, which V8 calls for each request of each module of the
\* graph that is not instantiated, finds a fulfilled promise in its cache.
AllResolve(u) ==
    \A v \in Uninstantiated(u) : \A d \in requests[v] : cached[v] /\ Fulfilled(v, d)

InstantiationSucceeds(u) ==
    /\ AllResolve(u)
    /\ \A v \in Uninstantiated(u) : fault[v] # "missing"

\* A set of modules that includes the requests of each, as far as not done.
Complete(S) ==
    \A v \in S : \A d \in requests[v] : d \in S \/ status[d] # "uninstantiated"

\* A mutant: the jobs are marked in a finally block.
MarkAlways(u) ==
    /\ own[u] = "pending"
    /\ GraphLinked(u)
    /\ cached' = [cached EXCEPT ![u] = FALSE]
    /\ status' = IF InstantiationSucceeds(u)
                 THEN [v \in URLs |-> IF v \in Uninstantiated(u) THEN "instantiated"
                                      ELSE status[v]]
                 ELSE status
    /\ own' = [own EXCEPT ![u] = IF InstantiationSucceeds(u) THEN "fulfilled" ELSE "rejected"]
    /\ instantiated' = [v \in URLs |-> IF v \in Graph(u) THEN "resolved" ELSE instantiated[v]]
    /\ UNCHANGED <<files, imports, jobs>>

\* module.instantiate(), and what follows it.  When V8 fails because a name
\* is missing, parts of the graph that are complete may be instantiated.  The
\* root's resolve_cache_ is cleared in either case.
Instantiate(u) ==
    /\ own[u] = "pending"
    /\ GraphLinked(u)
    /\ cached' = [cached EXCEPT ![u] = FALSE]
    /\ \/ /\ InstantiationSucceeds(u)
          /\ status' = [v \in URLs |-> IF v \in Uninstantiated(u) THEN "instantiated"
                                       ELSE status[v]]
          /\ own' = [own EXCEPT ![u] = "fulfilled"]
          /\ instantiated' = [v \in URLs |-> IF v \in Graph(u) THEN "resolved"
                                             ELSE instantiated[v]]
       \/ /\ ~InstantiationSucceeds(u)
          /\ \E done \in SUBSET {v \in Uninstantiated(u) : fault[v] # "missing"} :
                /\ Complete(done)
                /\ done # {} => AllResolve(u)
                /\ status' = [v \in URLs |-> IF v \in done THEN "instantiated"
                                             ELSE status[v]]
          /\ own' = [own EXCEPT ![u] = "rejected"]
          /\ UNCHANGED instantiated
    /\ UNCHANGED <<files, imports, jobs>>

-----------------------------------------------------------------------------
(* Evaluation.                                                                *)

Throws(v) == fault[v] = "throws" \/ status[v] = "errored"

\* The end of run(), and of import(), once the promise it awaits is fulfilled.
\* When a module throws, those that V8 had entered are errored with it.
Evaluate(i) ==
    /\ \/ import[i] = "resolved"
       \/ import[i] = "own" /\ own[target[i]] = "fulfilled"
    /\ LET graph == Graph(target[i])
           doomed == {v \in graph : \E w \in Graph(v) : Throws(w)}
       IN  \/ /\ doomed = {}
              /\ status' = [v \in URLs |-> IF v \in graph THEN "evaluated" ELSE status[v]]
              /\ import' = [import EXCEPT ![i] = "fulfilled"]
           \/ /\ doomed # {}
              /\ \E entered \in SUBSET doomed, done \in SUBSET (graph \ doomed) :
                    /\ target[i] \in entered
                    /\ \A v \in done : requests[v] \subseteq done
                    /\ status' = [v \in URLs |->
                          IF v \in entered THEN "errored"
                          ELSE IF v \in done THEN "evaluated" ELSE status[v]]
              /\ import' = [import EXCEPT ![i] = "rejected"]
    /\ UNCHANGED <<files, target, jobs, cached, instantiated, own>>

InstantiationFailed(i) ==
    /\ import[i] = "own" /\ own[target[i]] = "rejected"
    /\ import' = [import EXCEPT ![i] = "rejected"]
    /\ UNCHANGED <<files, target, jobs, modules>>

-----------------------------------------------------------------------------

Job(u) ==
    \/ Translate(u)
    \/ Link(u)
    \/ \E d \in URLs : RequestResolved(u, d)
    \/ LinkedSettles(u)
    \/ GraphFails(u)
    \/ Instantiate(u)

Continue(i) ==
    \/ ImportResolved(i)
    \/ Run(i)
    \/ Evaluate(i)
    \/ InstantiationFailed(i)

Next ==
    \/ \E i \in Imports : StartImport(i) \/ Continue(i)
    \/ \E u \in URLs : Job(u)

(* File operations end and promise reactions run; nobody has to import.       *)
Fairness == WF_vars((\E i \in Imports : Continue(i)) \/ (\E u \in URLs : Job(u)))

SafeSpec == Init /\ [][Next]_vars

Spec == SafeSpec /\ Fairness

-----------------------------------------------------------------------------
(* Correctness.                                                               *)

\* When module.instantiate() is called no request is unresolved anywhere in the
\* graph, whichever imports built it and whatever another one has instantiated
\* and cleared the cache of: ResolveCallback throws a linking error only in a
\* graph whose instantiation had failed before.
NeverUnlinked ==
    \A u \in URLs :
        own[u] = "pending" /\ GraphLinked(u) =>
            \/ AllResolve(u)
            \/ \E v \in Graph(u) : fault[v] = "missing"

\* V8 ends the process when evaluate() is called on a module that is not
\* instantiated: never, although a job may be marked as instantiated by another
\* job's success while an import awaits the promise it had before.
EvaluatesInstantiated ==
    \A i \in Imports :
        \/ import[i] = "resolved"
        \/ import[i] = "own" /\ own[target[i]] = "fulfilled"
        => \A v \in Graph(target[i]) : status[v] # "uninstantiated"

\* Whether an import succeeds depends on the files alone, not on what other
\* imports did before or meanwhile: it fails only if something is wrong with a
\* module of its graph, and when it succeeds its whole graph is evaluated.
OutcomeMatchesGraph ==
    \A i \in Imports :
        LET graph == Graph(target[i])
        IN  /\ import[i] = "rejected" => \E v \in graph : fault[v] # "none"
            /\ import[i] = "fulfilled" =>
                  \A v \in graph : fault[v] = "none" /\ status[v] = "evaluated"

\* Every import settles: modules that request each other do not wait for each
\* other's links.
ImportsSettle ==
    \A i \in Imports :
        import[i] = "resolving" ~> import[i] \in {"fulfilled", "rejected"}
=============================================================================
