# Zero, verified: TLA+ models and proofs

Zero is a JavaScript runtime: V8 and libuv, a small C++ layer (`src/src`) and a standard
library in JavaScript (`src/lib`). This directory holds TLA+ modules for the parts of it
whose correctness depends on order and interleaving, the TLC configurations that check
them, and proofs.

    tlc -config MCTaskQueue.cfg MCTaskQueue      # check one configuration
    tlapm PlatformProofs.tla                     # check the proofs of a module

## 1. Inventory

Three kinds of concurrency meet in this program. The C++ platform has real threads (four
workers, the main thread). The event loop interleaves callbacks of timers, sockets and
file requests on the main thread. And the JavaScript library runs user code (handlers,
listeners, `size()`, sinks, sources, transformers) in the middle of its own operations,
and goes on after promises at moments it does not choose.

| Component | State | Operations | Interacts with | What makes it hard | Correct when |
|---|---|---|---|---|---|
| Worker task queue, worker threads (`zero_platform.cc`, `zero_mutex.h`) | `task_queue_`, `outstanding_tasks_`, `stopped_`, the waiters of two condition variables | `Push`, `BlockingPop`, `NotifyOfCompletion`, `BlockingDrain`, `Stop`, thread start and join | V8 posts to it, the event loop drains it | threads, one signal per push, spurious wakeups, tasks that post tasks | no wakeup, drain or task is lost; first in, first out; a drain returns exactly when all is done; shutdown returns |
| Platform and event loop (`zero_platform.cc`, `zero.cc`) | two foreground queues, scheduled delayed tasks, the async handle, libuv's handles, microtasks | `PostTask`, `PostDelayedTask`, `FlushForegroundTasksInternal`, `DrainTasks`, `main()`'s loop | task queue, libuv, JavaScript | pushes by workers between the parts of a flush; work of either kind makes work of the other | no foreground task is forgotten; `DrainTasks` returns, and with nothing left |
| Timers (`timers.js`, `zero_timer.cc`) | one sorted queue, one uv timer | `setTimeout`, `setInterval`, `clear*`, the callback | event loop, user handlers | handlers change the array the callback is walking with `forEach` | cleared timers never run, timeouts run once, none is forgotten or starves |
| WritableStream (`streams/writable.js`, `helpers.js`) | state, queue, write requests, close and abort requests, writer promises, backpressure | writer and controller methods, reactions to the sink | sink, user `size()`, pipes | queue and requests are advanced apart; errors while the sink is busy; re-entrancy | the sink's protocol, backpressure is truthful, every promise settles, the code's assertions |
| ReadableStream, readers (`streams/readable.js`) | state, queue, pending reads, pull flags | reader and controller methods, reactions to the source | source, user `size()` | pull again, reads pending at close and error, keys of the requests | reads are answered in order, each once, and no request for more is forgotten |
| tee() (the same) | two branches, who was cancelled, `closedOrErrored` | the branches' pull and cancel algorithms | ReadableStream three times | results that arrive when a branch is gone | the branches get the same chunks, neither makes the other wait |
| pipeTo() (the same) | `shuttingDown`, `currentWrite` | the loop, four ways to end, finalize | ReadableStream, WritableStream | ending with a read or a write under way | order is kept, nothing is lost, it settles |
| Byte streams (the same) | queue of chunks with offsets, pull-into descriptors, two kinds of readers | `enqueue`, `respond`, `respondWithNewView`, reads with and without a view | source | chunks, views and elements divide each other | each byte once and in order |
| TransformStream, strategies (`streams/transform.js`, `queuing_strategy.js`) | two streams, backpressure change promise | `transform`, `flush`, both sides' algorithms | both streams | backpressure handshake between two queues | no deadlock between the sides |
| Module loader (`loader.js`, `loader/`, `zero_module_wrap.cc`) | module map, jobs, resolve caches, V8's module status | `import`, resolve, link, instantiate, evaluate | file system, V8, AsyncQueue | concurrent imports of overlapping cyclic graphs, failures that stick | one job per URL, evaluated once, after its whole graph is linked |
| AsyncQueue (`util.js`) | concurrency, pending operations | `run` | loader | limit and hand-over of slots | never above its limit, none waits for ever |
| Events (`events.js`) | listener lists, event flags | add, remove, dispatch, stop | user listeners, process | listeners that change the list or dispatch again | each listener in turn, `once` once, removed listeners do not run |
| File system (`file_system.js`, `zero_fs.cc`) | descriptors, requests in flight | open, read, write, close, finaliser | libuv's thread pool, loader | a request racing close, a finaliser after close | no descriptor is used or closed after close |
| Start-up, process events (`zero.js`, `zero.cc`) | bindings, callbacks | load, exit handler, rejection callback | all | synchronous dispatch of rejection events | handlers run once |
| Fetch, WebSocket, TCP | parser state, sockets | connect, read, write | libuv | unfinished in this commit | not stated |
| Inspector | session, message callback | connect, dispatch | V8 | none: synchronous | not stated |
| URL (`url.js`, `url/parser.js`, `url/encode_sets.js`) | the record of a URL; within a parse its state, index, buffer and three flags | `basicURLParse`, the constructor, `href`, the setters | the loader resolves specifiers with it | 21 states that hand characters to each other, two that go back in the text, records built from other records, setters that start in the middle | a parse ends; a record has what its readers take for granted; what is written is read back as what it was |
| Encoding, MIME, inspect, console, REPL, TTY, FFI, crypto, performance, blob, object wrapping | little or none | pure functions and wrappers | - | string algorithms, I/O | out of the scope of these models |

Every place at which one of these components can go wrong in a way that a unit test
would hardly reach is listed in `PROJECT.json` under `hazards`, with the properties that
would notice.

## 2. Plan

The modules, in order of what depends on them and of how hard they are to test. Those
marked ✓ are here.

1. ✓ `TaskPool` - what a worker pool promises, without threads (abstract).
2. ✓ `TaskQueue` - the queue and its threads; implements `TaskPool`.
3. ✓ `Platform` - the event loop around `TaskQueue`, a composition.
4. ✓ `Timers` - the timer queue and its one uv timer.
5. ✓ `WritableStream` - with its sink and a re-entrant program.
6. ✓ `ModuleLoader` - concurrent imports over cyclic graphs with faulty modules.
7. ✓ `Channel` - what a readable stream promises to its two ends (abstract).
8. ✓ `ReadableStream` - default controller and reader; implements `Channel`.
9. ✓ `Tee` - two more `ReadableStream`s on top of one, a composition.
10. ✓ `PipeTo` - composes `ReadableStream` and `WritableStream`.
11. ✓ `TransformStream` - composes the two the other way round, with a backpressure
    handshake between them.
12. ✓ `ByteStream` - the byte controller, BYOB requests and both readers.
13. ✓ `Events` - dispatch over listeners that change; with proofs.
14. ✓ `URLParser` - the parser's state machine - and `URL`, the objects around it.
15. ✓ Proofs: `PlatformProofs` (with those about `TaskQueue`), `ModuleLoaderProofs`,
    `EventsTimersProofs` (of two components that each walk a list from which entries are
    removed meanwhile, with the lemmas about such removals shared), `WritableStreamProofs`,
    `ReadableStreamProofs`, `TeeProofs`, `TransformStreamProofs`, `URLProofs`.

Left, in this order: the tear-down of the platform (`UnregisterIsolate` and the flush in
the destructor of the per-isolate data), which needs what V8 may still do then; proofs
of the properties of `PipeTo` from what is proved of the two streams it is made of, as
`TeeProofs` and `TransformStreamProofs` do it; and proofs about `ByteStream`.

No module that is proved about declares a RECURSIVE operator.

## 3. The modules and the code

**TaskPool** is abstract: tasks are submitted, started in that order and finished; a
drain starts, and returns when nothing is pending or running; a closed pool starts
nothing.

**TaskQueue** has one variable for each member of the C++ class, the place of each
worker in `WorkerThreadMain` with its local variable `task`, and the place of the main
thread in `BlockingDrain` or `Shutdown`. A method holds `lock_` from its first statement
to its return or to a wait, so each such section is one action; waiting gives the lock
back and puts the thread in a set of sleepers, from which `Signal` takes one,
`Broadcast` all, and a spurious wakeup any. `Pop` and `PopAll` are called on the
foreground queues only and are part of `Platform`. The main thread posts when it is
outside the queue, a worker from a running task.

**Platform** EXTENDS `TaskQueue` and adds the main thread's program counter: in
JavaScript, in `uv_run`, in the three parts of `FlushForegroundTasksInternal`, in
`DrainTasks`, in the tail of `main()`'s loop. Control returns from JavaScript and from a
flush to the place that called them, kept in `jsBack` and `flushBack`. A worker's
`PostTask` is two steps, push and `uv_async_send`, because the main thread may flush in
between; the main thread's own is one. libuv is external and modelled by what the code
uses of it: an iteration serves any handle that is ready, `uv_run` returns when no
referenced handle is active, the async handle and the timers of delayed tasks are
unreferenced.

**Timers** keeps every time relative to the present, so that a tick of the clock lowers
all of them and the state space stays finite. libuv's cached time is a variable of its
own: the uv timer is armed relative to it, and the queue relative to
`performance.now()`. The walk of `forEach` over the live array is modelled as the
language defines it: the length is taken at the start, indexes that no longer exist are
skipped, an item that a removal moves into a visited index is passed over.
`nestingLevel` is left out: it only feeds the clamp at `timers.js:86`, which reads
`this.timeout` before it is set and never applies.

**WritableStream** has one variable, the record of the slots of the stream, its
controller and its current writer. The abstract operations of the source are functions
from records to records, so that calls nest as in the code, and each call of the API and
each reaction to a promise of the sink is an action. Because its operations are
functions, other modules use the same module, under an instance, for the streams they
compose. `size()` is user code in the middle
of `write()`: the call is split there, and any other call may come in between. An
assertion of the source does not stop the model, it adds its name to `failed`. The
history field `accepted` has the writes that were not refused, in their order.

**ModuleLoader** has an action for each part of an async function between two awaits: of
`import()`, of `getModuleJob`, of a job's `linked` promise, of its `_instantiate`. The
order in which reactions to promises run is left open, so what holds does not depend on
it. What modules request and what is wrong with them (unresolvable, unreadable, a
missing export, throwing) is chosen at the start and fixed. A job's `instantiated` field
may hold its own promise or the resolved one that another job's success put there; an
import keeps awaiting the one it read. V8 is external: instantiation asks
`ResolveCallback` for each request of each module not yet instantiated, and when it
fails may leave complete parts of the graph instantiated; evaluation marks the modules
it had entered when one throws. `Reach` defines the graph of a module as the least set
closed under requests, which needs no recursion.

**Channel** is abstract: chunks are sent, reads received in order, a read that finds
nothing waits; a channel is closed when nothing is left, cancelled or failed. A chunk that
no read waits for is sent in two halves; a read that begins to wait between them is not
given that chunk, so the order of reads and chunks is promised only where there is none.
Its lossy form is what remains of that in a program whose read requests cannot be settled.

**ReadableStream** is built like `WritableStream`: one record for stream, controller and
reader, functions for the abstract operations, an action for each call and each
reaction, `enqueue()` split at `size()`. A read stands for its request; `answers` is
what its promise became. The history fields `idle` and `owing` tell whether the source
ended a `pull()` without having done anything since it was pulled: reads may then wait
for ever, and that is the source's affair. The history field `readInSize` tells whether a
read began to wait inside `size()`.

**Tee** EXTENDS `ReadableStream` for the stream that is read and has two instances of
its operations for the branches, whose common source is `pullAlgorithm`. What the branch
operations call of it (a read, a cancel) is part of the same action; what it leaves to
promises is a reaction.

**PipeTo** has an instance of each stream and a record for the locals of `pipeTo()`:
`shuttingDown`, `currentWrite`, what the loop awaits and what a shutdown awaits.
Promises of the pipe settle in an order that decides what is still written, so its
reactions are kept in a queue of jobs. The ticks that the wait for writes takes to follow
the promise it returned to itself are not counted: nothing looks at it in between.

**TransformStream** has an instance of each stream and a record for its own slots. The
backpressure change promise is represented by who waits for it: a `pull()` for its
start, a `write()` of the sink for its end. The default transformer acts in the step
that calls it, the user's is free to call the controller at any time. What the readable
side's `size()` makes of each chunk the default transformer passes on, a size or a
failure, is chosen at the start (`sizes`); the writable side's `size()` returns or fails
in the middle of `write()`, and the history field `sizeFailed` tells that a failure
errored that side.

**ByteStream** is a record like that of `ReadableStream` with the queue of byte chunks
and the pull-into descriptors. A byte is the number it was produced as. An element of a
view of two bytes makes descriptors end within an element. An exception in the middle of
an operation (from a missing key, from an assertion) stops what follows, and the field
`threw` carries it to the caller that catches it.

**Events** has the list of one type of one target and the stack of nested dispatches,
each with its copy of the list. A listener is user code: while one runs, everything a
program may call may come, other dispatches included.

**URLParser** is one call of `basicURLParse`: the loop's variables are the code's, each
case of its switch is an action, and `break`, `continue` and `return` are operators that
say which character is looked at next in which state. A text is a sequence of characters,
escaping is what the code does of it (section 4). **URL** EXTENDS it with the object: the
constructor's two calls, what the setters allow, the state in which each has the parser
start, and `serializeURL`. `call` names the call that runs; a call that failed throws and
leaves the object as it was.

## 4. Disagreements with the code

*Keys.* The objects that hold the pending promises of `write()`, `close()` and `abort()`
are created with the keys `_resolve`, `_reject`, `_reason` and `_wasAlreadyErroring`
(`writable.js:196-201, 219-222, 590-593`) and read through the private symbols
`kResolve`, `kReject`, `kReason` and `kWasAlreadyErroring` (`writable.js:269, 283, 302,
308, 318, 347, 395` and the like). What is read is `undefined`, so calling it throws
inside a reaction, which then stops half-way. Read requests have the same fault
(`readable.js:502-505, 518-521`): only `ReadableStreamClose` settles them by the keys
they have; fulfilling or failing one throws, and an `enqueue()` that meets a waiting read
loses the chunk and errors the stream. The field `keysMatch` of a stream's record is
FALSE for this code: the missing settlements and every statement skipped by the exception
are in the models. The configuration `MCWritableStreamAbort` states what the comment at
`writable.js:671-672` says of `abort()`, and TLC refutes it.

TRUE describes the same code with the keys made to agree. It is a hypothesis, not this
commit. The constant `RequestKeysMatch` is the set of values a run looks at; properties
that say `keysMatch` hold of the hypothesis only, and say that nothing else is wrong with
the algorithm within the bounds.

*Backpressure.* `transform.js:410` calls it an invariant, enforced by the promises
returned by `start()` and `pull()`, that backpressure is on when the readable side pulls,
and asserts it at 411; 331 asserts the counterpart. Both fail. With this code's keys a
chunk that is enqueued for a waiting read before `start()` has settled throws, the `catch`
of `enqueue()` turns backpressure off (188), and the pull that follows `start()` fails the
assertion and leaves `kPulling` set for ever. With keys that agree, a transformer that
enqueues in the same task in which reads empty a full queue makes 331 fail.
`TransformAssertionsHold` says that no other assertion does; that the two may fail is seen
by taking `{"enqueue", "pull"} \cap transform.failed = {}` for an invariant of
`MCTransformStream`.

*URL.* What `URLParser` says as the code does, where its author may have meant something
else:

- `isDefaultSchemePort` starts as true and is never made false (`parser.js:486, 850`), so
  `href` never writes a port (`url.js:483`): `url.href = url.href` loses the port that
  `url.port`, `url.host` and `url.origin` still showed (`HrefStable` says that of a special
  URL nothing else is lost, but for the three kinds it names).
- An escaped character becomes a NUL, because `hex` is indexed with the character and not
  with its number (144).
- After `x:/` the character that decides that a path follows is passed over (638-644 ends
  with `break`): `x:/ab` has the path `b`.
- The address 0 is a number and falsy: `href` leaves it out (`url.js:469`), and a drive
  letter does not clear it (`parser.js:1001`).
- The setters of user name and password start in AUTHORITY, which needs an `@` to set
  either, so without one in the value they set the empty text; the setter of the protocol
  starts with a blank record that is not special, so a special scheme is turned into an
  empty one (541); the setter of search leaves the record's query empty (`url.js:743`).

Met on the way, and named where the properties have to except it:

- A `read()` inside `size()` is passed over by the chunk that is being enqueued:
  `enqueue()` looked for waiting reads before it called `size()` (`readable.js:1078-1092`),
  so the chunk is queued behind a read that waits (`readable.js:691`). A later `read()`
  takes it from the queue; the one that waits gets a chunk that is enqueued later, and if
  the source closes first it waits until somebody reads the queued one. The channel's two
  halves of sending say this (`ChannelSpec`), and `ReadsSettle` that such a read is not
  forgotten when the stream ends.
- A `size()` of the writable strategy that throws or returns no size errors the writable
  side without a call of the sink (`writable.js:686, 820-829, 836-840`): the readable side
  of a transform stream is not told and stays open to `enqueue()` (`EndsTogether` excepts
  it).
- A writer acquired while the sink's `abort()` runs starts with a rejected closed
  promise, and the assertion at `writable.js:997` that it is pending fails when `abort()`
  settles (`AssertionsHold`; keys agreeing).
- An empty chunk is queued by the byte controller but adds nothing to its total size, so
  the next `enqueue()` while a read waits fails the assertion at `readable.js:1797`; and a
  descriptor that a default read brought stays when a chunk answered the read, and is
  answered to whoever reads next, against the comment at 1617-1619
  (`ByteAssertionsHold`).
- `respondWithNewView()` throws for a descriptor that is partly filled.
- A pipe that shuts down may still start a read, though `readable.js:156` says that
  shutdown must stop all activity; `NothingLost` shows that nothing is lost by it. The
  result of the last write is not looked at, so with `preventClose` a pipe may be
  fulfilled although that write failed (`NothingLost`).
- `rethrowAssertionErrorRejection`, which ends the pipe's promise chains, is not defined
  anywhere; passed to `catch` it is `undefined`, which passes rejections on.
- `abort()` of the writable side of a transform stream does not reach the transformer
  while a write waits for backpressure to end, which takes somebody who reads or cancels
  (`EndsTogether` starts at the end of the abort for this reason).

## 5. The runs

| Run | Configuration | Bounds | Shows |
|---|---|---|---|
| `task_queue` | `MCTaskQueue.cfg` | 3 workers, 4 tasks | `NoLostWakeup`; `PoolSpec`: it implements the abstract pool with its liveness; `ShutdownReturns` |
| `platform` | `MCPlatform.cfg` | 2 workers, 2 worker tasks, 2 foreground tasks, 1 handle | `NoForgottenTask`, `DrainIsComplete`, `ForegroundTasksRun`, `DrainReturns` |
| `timers` | `Timers.cfg` | 3 timers, timeouts of 1 and 2 ms, lag up to 2 ms | `Armed`, `StartsOnlyLive`, `NoStarvation` |
| `writable` | `MCWritableStream.cfg` | 3 chunks, sizes 0 and 1 and one that is no number, high water mark 1, both kinds of keys | queue and requests correspond, backpressure is truthful, `SinkProtocol`, `AssertionsHold`; keys agreeing: `NothingForgotten`, `RequestsSettle` |
| `writable_abort` | `MCWritableStreamAbort.cfg` | the same, the code's keys | TLC finds a writer whose closed promise stays pending after `abort()` (section 4) |
| `module_loader` | `MCModuleLoader.cfg` | 2 imports, 8 graphs of 3 modules, at most 1 faulty | `NeverUnlinked`, `EvaluatesInstantiated`, `OutcomeMatchesGraph`, `ImportsSettle` |
| `readable` | `MCTee.cfg` | 2 chunks; 6 reads, at most 3 of them by a program that has not called `tee()`; 2 and 1 of the branches; both keys, `tee()` where they agree | `ChannelSpec`: the stream implements the channel; `ReadsSettle`; `BranchesAgree`, `BranchAssertionsHold`, `BranchReadsSettle` |
| `pipe` | `MCPipeTo.cfg` | 2 chunks, sizes 0 and 1, at most one of the three options, both keys | `NothingLost`, `EndsInOrder`, `PipeSettles` |
| `transform` | `MCTransformStream.cfg` | 2 chunks, 2 outputs, 3 reads, both transformers, both keys; sizes 0 and 1 of the readable side, 1 of the writable one, and either `size()` may fail | `PassesOn`, `BackpressureAgrees`, `EndsTogether`, `TransformAssertionsHold`, `WritesSettle` |
| `byte_stream` | `MCByteStream.cfg` | 4 bytes, chunks of 0, 1 and 3, views of one and two elements, 3 reads, automatic buffers or none, both keys | `BytesInOrder`, `ByteAssertionsHold`, `ByteReadsSettle` |
| `events` | `MCEvents.cfg` | 3 registrations of 2 callbacks, 3 dispatches of 2 events | `EachInTurn` |
| `url` | `MCURL.cfg` | 6 letters, 3 schemes; every text of up to 4 characters after `h://`, `f:` and `x:`, of up to 3 against each of 6 bases, and some 40 longer ones; 3 URLs assigned to, once each | `Advances`, `ResultsWhole`, `HrefStable` |

Why the bounds are enough. Three workers allow one busy, one signalled and one asleep,
the smallest case in which a signal can reach the wrong thread; four tasks keep the
queue longer than the workers can empty at once. The proofs of section 6 lift those
invariants to any number. In `Platform` two foreground tasks allow one in the batch and
one pushed behind it, and two worker tasks allow one that posts another during a drain.
Three timers allow one being visited, one moved into its place and one inserted by a
handler; the two timeouts make expiries equal and different; a lag of 2 lets an interval
be due twice in a pass. Three chunks allow one in flight, one queued and one inside
`size()`; sizes 0 and 1 with a high water mark of 1 give queues below, at and above it.
Three modules give graphs that are shared, contained in each other and cyclic at the
root, at the end and as a whole; two imports are the fewest that can interfere. A
second chunk is the first that can overtake or be left behind, with one read more than
chunks to meet the end; in a transform stream one chunk waits for backpressure while
another waits behind it, and a third read finds a queue emptied twice. Four bytes are a
chunk of three and one more, so that views of two and of four bytes end within a chunk,
at its end and beyond it. Three dispatches nest twice; three listeners are one that runs,
one behind it to remove and one that is added. Four characters after the scheme are
enough to reach each case of the parser from each other that hands over to it, with an
empty and a non-empty buffer; the longer texts are there for what takes more: ports,
addresses, escaped dots, two `@`. `ResultsWhole` and `Advances` are proved for all texts;
`HrefStable` is checked on these only.

Each bound is a constant: `Sizes` and `WritableSizes` (what `size()` returns, besides
failing), `MaxTimers`, `MaxLag`, `MaxFaults`, `MaxReads`, `StreamReads`,
`BranchReads`, `SlowReads` (the second branch), `ReadsLeft` (a guard: the branches are
used while the stream has two reads left), `TeeKeysMatch` (`tee()` is looked at where the
keys agree), `MaxBytes`, `MaxRegistrations`, `MaxDispatches`, the sets of tasks (a
`unique_ptr` is posted once) and of chunks (each written or enqueued once), and
`URLTexts`, `RelativeTexts`, `BaseTexts`, `EditedTexts` and `Values` (the texts of
`MCURL`), and `MCOptions` (the options of a pipe are looked at where the stream ends that
each is about, one at a time). Bounds that are guards: one empty chunk in a byte stream;
the user's transformer enqueues its outputs in a fixed order; the streams of `PipeTo` and
`TransformStream` and the branches of `Tee` have a `size()` that calls nothing, and the
branches are not read or canceled inside the `size()` of the stream; `tee()` is
called of a stream that was not read before; after a
pipe's end nobody calls anything; the reader and the writer of a transform stream are not
released; a URL object is assigned to once, its `href` only to itself. `MCEvents` uses
symmetry in callbacks and in events; it checks no liveness.

Deadlock is not checked: each of these systems may stop, because V8 need not post, the
process ends, every timer fires, a stream is closed. What has to go on is stated as
liveness.

Fairness. `TaskQueue`: every worker and the main thread inside the queue are scheduled,
tasks return; nothing obliges anybody to post, drain or stop, and no spurious wakeup is
owed. `Platform`: the same, JavaScript returns, and the async handle is served with
strong fairness because an iteration of libuv's loop polls every descriptor that is
ready, so that other handles that keep firing cannot hide it; no handle and no timer is
obliged to fire. `Timers`: time passes, the loop iterates, handlers return.
The streams: `size()` returns, the promises of sinks, sources and transformers settle,
and reactions to settled promises run; without that no stream can promise progress. It is
stated once per module as `[]<>~ReactionsLeft \/ []<><<Reactions>>_vars`: whenever there
are reactions left some of them keep being run. Nobody has to call anything: where a
property needs that somebody reads or that the source enqueues, it says so as an
exception. `ModuleLoader`: file operations end and promise reactions
run; nobody has to import.

Each property has a mutant in the module it is about: an operator that changes one
definition the way a plausible bug would (`NoSignal`, `DrainQueueOnly`,
`LiveHandlers`, `EndWithoutUpdate`, `ProcessWriteDequeues`, ...). The specifications
never use them. Substituted for the definition they change, they break the property that
`PROJECT.json` names.

## 6. What is proved

`PlatformProofs` holds, of `TaskQueue` and of `Platform`, for every finite set of workers
and every set of tasks and handles; the only assumption is `TaskQueueAssumption` (workers
are finite, `NoTask` is not a task). `ModuleLoaderProofs` holds for every set of modules,
every set of graphs over them, and any number of imports and faults; from
`ModuleLoaderAssumption` it uses that graphs map modules to sets of modules.
`EventsTimersProofs` holds for every set of callbacks and of events and any number of
listeners and nested dispatches (`EventsAssumption` says only that the two bounds are
natural numbers), and for any timeouts of a millisecond or more, any number of timers and
any lag (`TimersAssumption`). `WritableStreamProofs`, `ReadableStreamProofs` and
`TeeProofs` hold for any chunks, sizes, high water mark and number of reads, and for both
kinds of keys (`WritableStreamAssumption` and `ReadableStreamAssumption` say only that
the values that stand for no chunk are no chunks, and that numbers are natural);
`TransformStreamProofs` in the same way for any sizes and marks of both sides and for the
default and the user's transformer (`TransformStreamAssumption`).
`URLProofs` holds for any texts, any letters and any special schemes with any ports;
`SchemesAssumption` says that "file:" is special and the empty text no special scheme,
`LettersAssumption` and `NoneAssumption` that undefined is no letter and null no state.

*TaskQueue.* None of the invariants is inductive alone: that `outstanding_tasks_` is a
natural number needs that it counts the queued tasks and the busy workers, since a
completion lowers it; and that no drain is lost needs both. So `QInv`, the conjunction
of `TypeOK`, `Accounting`, `NoLostWakeup` and `NoLostDrain`, is shown to hold initially
and to be preserved, action by action (`PushQInv`, `PopQInv`, ...), with small lemmas
about how one worker's move changes the sets of workers at each place and their
cardinalities. `NoLostWakeup` is the interesting part: while somebody sleeps the queue
is no longer than the number of workers on their way to test it. That is stronger than
"not all sleep", and it is what makes one signal per push enough. `OnePlace` is
preserved given `QInv`. `ImplementsPool` shows that every step of the queue is a step of
`TaskPool`'s safety specification or a stutter: sleeping, waking and testing stutter.

*Platform.* `PInv` adds to `QInv` the link between the two program counters of the main
thread (`MainPlace`), that a drain which flushes finds no worker busy (`Quiet`), and
that a flush which ran something says so (`BatchWorks`): without those,
`DrainIsComplete` does not follow from what `DrainTasks` tests. Every step is one of the
queue's, one of the main thread's alone, or one of the senders' (`PlatformSteps`), and
`ComposesTaskQueue` concludes that all theorems about `SafeSpec` of `TaskQueue` hold
inside the event loop.

*ModuleLoader.* That a request is never unresolved when V8 asks for it follows from a
simple fact about `linked` and a subtle one about caches (`Caches`): a linked module has
its cache until V8 no longer needs it, except where a name is missing. `LinkedGraph`
shows that a visited part which is linked throughout is the whole graph, cycles
included, because it is closed under requests; `ReachLeast` then does what an induction
on paths would do. Instantiated modules are closed under requests (`Instantiations`), so
what an import evaluates is instantiated as a whole, whichever promise it awaited
(`Marks`). `OutcomeCorrect` is the sum of it: every rejection, from a request up to an
import, carries a fault in the graph (`Promises`, `Marks`, `Evaluations`, `Outcomes`),
and what is evaluated is sound and closed.

*Events.* Of `EachInTurn`, the state part `InTurn` is not inductive: that a listener which
was in the copy and is neither called nor in the list now cannot come back needs that new
listeners get new places (`ListKnown`, `ListDistinct`: removing a listener once removes
it), and that a `once` listener cannot be met again needs that calling one takes it out of
the list for good (`SpentGone`). The walk of an outer dispatch changes nothing while an
inner one runs, so the frames below the innermost keep their part of it (`StackInTurn`).
Their conjunction with `EventsTypeOK` is `DispatchInvariant`; it is preserved action by
action, with lemmas about what `RemoveAt` leaves of a sequence without repetitions. The
action part, that a call is of a listener which is in the list and was not spent, follows
from it for `CallListener`, the only step that calls (`CallListed`, `OthersCallNothing`).

*Timers.* `Armed` alone is not inductive: clearing the head leaves the uv timer as it is,
which is early enough only because the next head expires no sooner, so the invariant says
that the queue is sorted (`SortedQueue`), and with it what keeps it sorted: the place where
`insert` puts a timer (`InitialPlaces`). That a timer is started at most once and never
after it was cleared needs that it is in the queue once (`OneOfEach`), and that what is in
the queue is live (`Live`). None of it depends on where `forEach` stands, so the proof
holds for handlers that set and clear any timers while the callback walks the queue.

*WritableStream.* `WritableInvariant` says what is in flight in each state of the stream
(`CallsMarked`: a call of the sink that runs is marked, `abort()` runs only when the stream
is errored), that the log has nothing twice and nothing after `close()` or `abort()`, that
its chunks begin the sequence of the accepted ones and, while the stream can write, the
waiting requests are the rest of it (`InLine`), that
a chunk is asked for its size, then waits, then is logged (`ChunksOnce`), that a pending
promise is held by what will settle it (`PromisesHeld`), that queue and requests agree place
by place (`Matches`), and that an erroring stream waits for something. An operation like
`FinishErroring` is called in the middle of others, where not all of it holds; so each has a
lemma with the part it needs (`MayFinish`, `MayAdvance`) that gives back all of it, and the
actions only put these together. What concerns the writer, its two promises and the
backpressure signal is beside the invariant (`Same`), so acquiring, releasing and updating
them preserve it at once. `QueueMatchesRequestsCorrect` turns the places into the
concatenation the property states.

`Told` is the second invariant, of what the first leaves open. `Honest` says that a
writable stream has no stored error, that the closed promise of a writer is pending until
the stream has ended, and that no assertion has failed but the one that section 4 names,
after such an `abort()`. While the stream is open, backpressure is what the queue says it
is and the ready promise is pending exactly while there is backpressure (`ReadyAgrees`).
`Told` needs the first invariant: that the assertions before a write or a close hold is a
matter of what is marked (`CallsMarked`) and of the head of the queue (`MayAdvance`). It
does not hold in the middle of an operation, since a chunk is queued before backpressure
is updated, so the lemmas say what each operation leaves of it and what the update that
follows restores. `ReadyTellsBackpressureCorrect` and `AssertionsHoldCorrect` are read
off it.

*ReadableStream.* `StreamImplementsChannel` shows that every action of a stream is one of
the channel's or changes nothing the channel has. A chunk goes to a read that waits, and
may be queued only if no read waited when its sending began; `size()` runs between the
two, and may read, release the reader, cancel, close and error. So `ChannelInvariant` says
that a read waits only while the queue is empty and no `size()` is running, unless one
began to wait inside `size()`, that reads are made in order, and that what is held or was
given was offered and is not the chunk that is being sized. Lemmas about each operation
say what the channel sees of it.

`ReadableInvariantHolds` adds what a user of a stream counts on and the channel does not
see. `Sound`: no assertion has failed, which needs that a pull is asked for again only
while one runs and that none runs before `start()` has settled, and that the closed
promise of a reader is pending while the stream is readable. `InTurn`, where the keys
agree: those that are pending are those that wait, in the order they were made, a read is
rejected only by a stream that has failed, and as long as none began to wait inside
`size()` reads are served in their order too. Each operation has a
lemma that says whether the stream stays open by it (`GoesOn`) or may end (`Becomes`),
and `Onward` says that a stream which has failed answers nothing else. `ReadKeeps` and
`ReadableStep` are what a composition needs.

What the readers got is a fold over the answers of any number of reads (`Chosen`). That two
such sequences choose the same (`PickedAgree`), that a chunk after all the others is the
last one chosen (`ChosenOneMore`), and so on, is proved with the least index at which it
could fail, which needs no induction rule. With them the order lemmas (`EnqueueOrder`,
`ReadOrder`, `SourceOrder`) say what each operation does to what a stream has
delivered and still holds (`Content`); `TeeProofs` cites them for the branches.

*Tee.* `TeeProofs` uses `ReadableStreamProofs` twice: for the stream, which it extends,
and, as the instance `BP` with a high water mark of 1, for each branch. What the two
instances define is shown to be the same (`SamePull`, `SameEnds`, ...). The branches'
controllers are used by the tee without the public checks, so the question is whether
`closedOrErrored` and `canceled` say early enough that one can not be used.
`TeeInvariant` answers it: a branch can be used, or was canceled, or both were ended by
the tee, or the stream is `Dead`: it has failed, and so has every read that is waited
for. The last case is the subtle one: a failed pull errors a branch while the tee does
not know yet, and only the order of the answers (`InTurn`) says that no chunk comes after
it. The operations are followed through the middle of an action, where an exception may
be passing (`OpenBranchSound`, `GiveSound`); where the keys do not agree assertions may
fail, and the invariant keeps only types and the stream's own part.

`OrderInvariant` is the second invariant, of what the branches hold where the keys agree:
before `tee()` nothing has happened to them (`Unteed`), after it they are `Ordered`. The
chunks passed on so far (`PassedBy`) are the answers of the reads that `pullAlgorithm` no
longer waits for. `StreamOrder` says that these reads came before those it waits for, that
`closedOrErrored` is not said before both branches are at their end, and that only both
branches together cancel the stream; `Asked`, that a branch waits for one read at most and
only while it is being pulled; `Holds`, that what a branch delivered begins what was passed
on, that with its queue it is all of it unless the branch was canceled or failed, and that
the branch may be at its end only when the stream is closed and nothing is on its way
(`Drained`). An answer's reaction does two things that hold together only at its end: the
read is forgotten, so that its chunk counts as passed on, and the chunk is put into both
branches, one after the other, either of which may be pulled by it and read the stream
again. `Due` says that the answer is next, and `OrderLeft` what a call does to one branch
while the other still has to get the chunk. `BranchesAgreeCorrect` is read off it.

*TransformStream.* `TransformStreamProofs` has the two stream proof modules as the
instances `RP` and `WP`, one for each side, and shows that what they define is what the
model's instances define (the lemmas `Same...`), so that each side's invariants need not
be proved again: it is enough that each call the transform makes is one the side's lemmas
speak of. `TransformInvariant` has four parts. `Sides`: each side satisfies its own
invariants, and no assertion has failed but those section 4 names. `Tied`: both sides
start together; a promise of a sink method is unsettled exactly while the writable side
waits for that method (`CallsRun`); the transform keeps its algorithms as long as the sink
may be called (`Kept`); and which side has ended says what the other may still be, with
`sizeFailed` for the one end that the other side is not told of (`EndsKnown`).
`PullsKnown`: the promise of the last `pull()` is where the backpressure flag says, and
one that waits is one the readable side asked for - the handshake between the two queues.
`Unblocked`: a write the default transformer let through finds no backpressure. A sink
method, a pull or a cancel changes both sides, one after the other, and an exception may
leave in the middle; so a step is followed on the record of the three variables and of
whether an exception is passing, `Moves` says what the controller, the source and the
program may do to it, `Ran` and `Writes` what a sink method may, and the action's own
lemma puts these together. `EndsTogetherCorrect`, `TransformAssertionsHoldCorrect` and
`BackpressureAgreesCorrect` are read off it: the assertions of the handshake hold not
because each is tested before, but because of where the last pull's promise must be. What
`QueueTotalSize` computes is a fold over a queue of any length; the facts needed of it are
proved with the least length at which they could fail (`LeastNumber`), which needs no
induction rule.

*URL.* `URLInvariant` says what the record has in each state of the parser: a special URL
has a host by the time it has a path, unless it is a file's; credentials are there before
the host only where the parser cannot end well without one; what a relative reference
takes from a base is there because the base is whole (`BaseOK`); a path may be empty where
the next character adds to it. `PlaceOK` adds where the parser may be in the text: only in
the states of `LastStates` may it have passed the end. The states fall into a few kinds,
with one lemma each that says what is needed to arrive there (`UnlocatedKept`,
`RelativeKept`, `FileKept`, `AuthorityKept`, `InPathKept`, `AfterPathKept`), and each case
of the parser has one that puts these together. The lemmas about texts and hosts that they
rest on: a stripped text is a text (`StrippedTyped`); a path without its leading empty
segments is a path and not empty (`UnpaddedTyped`); what PATH adds is one
(`PathWithSegmentTyped`); a text that is not empty is not parsed to an empty host
(`HostNotEmpty`). `ResultsAreWhole` reads the property off the invariant.
`ParserAdvances` needs of it the index within the text: each state is left for one of a
lower rank only, so that a step back in the text is paid for by the rank, which counts for
more than the whole text (`LeftDecreases`).

Only model-checked: all liveness (`ShutdownReturns`, the fairness part of `PoolSpec`,
`ForegroundTasksRun`, `DrainReturns`, `NoStarvation`, `RequestsSettle`, `ImportsSettle`,
`ReadsSettle`, `BranchReadsSettle`, `PipeSettles`, `WritesSettle`, `ByteReadsSettle`),
which TLAPS does not reach; the invariants of `PipeTo` (`NothingLost`, `EndsInOrder`) and
of the byte streams (`BytesInOrder`, `ByteAssertionsHold`), which no proof was begun of;
`PassesOn` of the transform stream, which compares what was written with what was read
through two queues (the lemmas about `Chosen` are what it needs of the readable side); and
`HrefStable`, which compares what two passes over a text yield.

## 7. Not modelled, and why

- The tear-down of the platform after `main()`'s loop (section 2).
- The file system: each operation is one request whose promise the native callback
  settles, with no state between requests but the descriptor. What is wrong there is found
  by reading: `readFile` and `writeFile` leave the handle open when the request fails
  (`file_system.js:248`).
- `AsyncQueue` only bounds how many `stat()` calls of `resolve` run at once, and
  `ModuleLoader` lets `resolve` take any time.
- Listeners of the event that `zero.cc:151` and `zero.js` dispatch synchronously when a
  promise is rejected without a handler could call the stream in the middle of an
  operation. The stream modules assume that they do not.
- `write()` called from inside `size()` of another `write()`, and `enqueue()` of a chunk
  whose size is needed inside `size()` of another.
- `start()` of a transformer while it runs, detached buffers, `pipeThrough()`,
  `preventDefault()`, the event path (always empty here) and the option `passive`
  (dropped at `events.js:193`).
- Durations of delayed tasks (`zero_platform.cc:200` rounds them to seconds) and the
  values of clocks: the models let such timers fire at any time.
- How `resolve` probes file names (through `AsyncQueue`), `data:` URLs, the dynamic
  modules of built-ins (`resolve` never returns their format) and files that change
  while they are loaded: `ModuleLoader` takes the outcome of resolving and reading a URL
  as fixed.
- Brand checks, getters and argument conversions of the stream classes: they change no
  state.
- Of URLs: the search parameters (a list that has no say in parsing), blob and data URLs,
  the inside of an IPv6 address (`IPv6Texts` are those `parseIPv6Host` accepts), characters
  from DEL on, tabs and line ends, and capital letters, which the parser makes small.
- `ZeroPlatform::Shutdown` is not called by the program; only `TaskQueue` models it.
- Fetch, WebSocket and TCP are unfinished in this commit; console, REPL, TTY, inspect,
  encoding and MIME are formatting and string tables; FFI, crypto, performance and
  blob wrap libraries and keep no state that interacts; object wrapping depends on V8's
  collector.
