# Verification of Common Core PoC

One TypeScript interface, `ApplicationApi` (`getInfo`, `transform`, `dispose`),
stands in front of two backends that run the same C++ core: in the browser a
Dedicated Worker with WASM, in the native applications Tauri with an FFI. This
directory holds TLA+ models of the program's control logic, the TLC
configurations that check them, and proofs for TLAPS.

## 1. Inventory

| Component | State it keeps | Operations | Correct when |
|---|---|---|---|
| RequestState (`packages/backends/request-state.ts`) | lifecycle, saved failure, next id, map of open requests with timers | register, resolve/reject one, failAll, timeout, dispose, classify a reply id | each promise settles once with the one cause; timers and entries agree; at most 8 open |
| BrowserBackend (`backends/browser/index.ts`) | RequestState, map of reply handlers, worker and its listeners | factory, getInfo, transform, dispose, message / error / messageerror events | implements ApplicationApi whatever the worker sends |
| Core worker (`backends/browser/core.worker.ts`) | state, WASM module, serial queue, heap | message handler, init, getInfo, transform | one reply per request, in order; no leak and no double free |
| TauriBackend (`backends/tauri/index.ts`) | RequestState, data plane | factory with plane selection, getInfo, transform, dispose | implements ApplicationApi; falls back only when asked to |
| Transports (`backends/transport/*`) | serial queue, pending replies, batch entries | send, batch, probe, port messages | a reply reaches the request it answers |
| Demo UI (`apps/demo/ui.ts`) | generation, held backend, UI state, busy | boot, run, self-test, dispose, reinit | an older generation never shows; no instance is forgotten |
| Wire format and ring (`api/wire*.ts`, `core_wire.h`, `ffi/src/wire.rs`) | ring head and tail | encode, decode, scan, ring write/consume | the three languages agree; the ring never loses or invents bytes |
| Validation (`api/validation.ts`, `commands.rs`) | none | request, result, runtime information | both sides accept and refuse alike |
| C++ core, FFI, batch endpoint (`core.cpp`, `ffi/src/lib.rs`, `batch.rs`, `scheme.rs`) | the reply so far | saturating transform, checksum, batch of frames | saturated results; each frame answered or the batch refused |
| Device lab (`scripts/lab*.mjs`) | lease directories, run records, child processes | acquire / release a lease, run, step, preview, cancel | one run per device; nothing is left running unnamed; no unearned "passed" |

**How they interact.** The UI calls one backend instance and compares a
generation number after every await. A backend registers each request in
RequestState, sends it (postMessage, invoke, fetch or a MessagePort) and races
the reply against the guard promise that RequestState rejects on a timeout, a
fatal failure or dispose. The worker answers through a serial queue. On a binary
plane a request is a frame: the page validates and encodes it, the host decodes,
calculates and answers frame by frame, and the page checks what comes back. Runs
of the lab meet through files alone: lease directories and `run.json`.

**What is hard.** Replies, timers, error events, dispose and clicks may come in
any order; replies may be repeated, late or damaged; each step of a transform
may fail; instances follow each other while work of the older ones is still
under way; devices are shared between processes that may die. `PROJECT.json`
lists the hazards, each at its line, with the properties that cover it.

## 2. Modules

**Granularity.** JavaScript runs one turn of the event loop (a macrotask and
the microtasks it causes) to its end. An action is one such turn: a user's call
up to its first wait, or an event up to the promises it settles. In the worker
only `handleInit` waits for the outside, so only there an action ends inside a
handler; the steps of a transform are separate actions because each C call may
fail, and messages are not received between them.

* **RequestState** - the class, one action per method. `outcome[id]` is what the
  promise of request `id` was settled with. `Settle` is the loop that clears
  timers and rejects. Constants: `MaxPending` (8 in the code), `MaxSafeId`
  (2^53 - 1). It is not run by itself: the actions of both backends are built from
  its own, and `RSInv` is checked where the worker's messages decide what is called.
* **ApplicationApi** - the abstract specification: a phase, a cause, the factory
  promise and one promise per call; no ids, timers or messages.
* **WorkerContract** - what the page may expect of the worker: the replies it may
  give to each request in each of its phases, and how it fails without a reply.
* **BrowserBackend** - extends RequestState with the map of reply handlers, the
  two message queues and a worker that answers as WorkerContract allows (`Answers`).
  `LinkFault` repeats a reply, raises an error event or damages a reply: it becomes
  unreadable, or any of its id, its method and its data change, also to the id of
  another open request. `from` in a reply is not in the message; it tells the
  properties whose answer it is. It implements ApplicationApi (`ImplementsApi`).
* **CoreWorker** - the worker in detail: the queue, the check of the URLs and the two
  awaits of init, every `_malloc` and `_free`, traps, malformed messages and uncaught
  errors. The heap is the set of allocated blocks. It implements WorkerContract
  (`ImplementsContract`), so that the two sides of the link are checked against one
  description. Its names carry `Worker` (`WorkerSpec`, `WorkerInv`) where DemoUi has
  the same, so that one module can speak of both.
* **TauriBackend** - extends RequestState with the data plane, how the native
  side dealt with each request (`native`) and what of it the plane delivers
  (`ArrivesAs`).
* **SharedPort** - backends that follow each other on the one `window.corebin` of
  an Android page. The class of the transport has no way to leave the port, so a
  reply reaches every transport ever created, and the serial queue of an ended
  backend goes on posting. `quiet` remembers whether anything older was queued or
  posted when a backend was created. `from` in a request and `answer` exist only
  in the model: the reply on the wire has the number and nothing else.
* **DeviceLease** - the lease directory of one device and the processes that acquire
  and release it, one call on the file system per action, with a process killed or a
  lease expired at any point. `rmSync` of the directory is two: the unlinking of its
  files and the removal of the directory, which fails or starts over when another run
  has written meanwhile (`Empty`, `Rmdir`); `writeJsonAtomic` is three (`Make`, `Write`,
  `Rename`). `raced` remembers whether two runs changed the directory at the same
  time, `outstayed` who lost an expired lease while at work.
* **LabRun** - runs of the lab over DeviceLease: the steps with their child processes
  and timeouts, the previews, `run.json` as every `save()` leaves it, a process that
  cancels, and runners killed at any point while their children live on. `spawn()` and
  the `save()` of the pid are two actions, with cancels and kills between them. A
  child may exit with any code, whether it was told to end or not, or ignore the
  SIGTERM; the verdict goes by timeout and exit code, as in the code. A run that a
  cancel does not tell goes on and overwrites the file. The order of steps, leases and
  previews within a profile is free, within its try, catch and finally.
  `unnamed` are the living processes that no file has named yet, `spoiled` the runs
  in which something has gone wrong; both serve the properties alone.
* **DemoUi** - the page over instances that may break at any time.
* **BatchingBridge** - `entries` (promises) and the batcher's `chunks` and `bytes`,
  the flush timer, the serial queue (`tasks`, and `sending` for the task whose
  send is awaited). A task starts in a microtask after the one that queued it, so
  its start is an action of its own and submits, timers and close come between.
  A frame is named by its submission; `SequenceOf` is its number on the wire and
  need not be unique. What a transport replies is `Replies`.
* **ByteQueue** - what the ring promises: a queue of bytes with a limit.
* **WireRing** - the ring as its region holds it: two cursors and the data bytes,
  which may be anything at first and are never cleaned. One action per method;
  `asked` and `returned` are the last call, for the refinement; `view` is what a
  reader has borrowed through `readableSpans`. Its names carry `Ring` (`RingSpec`,
  `RingNext`) where BatchingBridge has the same, so that one module can speak of both.
* **WireFormat** - frames as sequences of bytes, and every decoder and encoder of
  the three languages as the list of its checks in their order. `Base` is the
  number of values of a byte.
* **CoreTransform** - the calculation at bounded width, the safe wrapper, the
  validations of the page (JavaScript values) and of the host (their JSON). `IsRequest`
  says what an argument of `transform()` can be at all.
* **DataPlane** - one send through all of these: collected calls, the transport that
  is chosen for the page, from what it asks for and what the page and the native side
  offer (`FastPlane` is `createFastTauriTransport`, `BridgePlane` is
  `createBridgeTransport` with `selectTransportKind`), the loop of `process_batch`,
  the planes' ways with a failure, and what the page makes of the reply: a bundle is
  rejected as a whole when the reply is not made of frames, and otherwise call by call
  (`Found`, `CodeOf`). One byte may
  be changed, cut or added on either way, the host may run out of memory, a WebView
  may drop bodies.

The proofs are in modules of their own, section 5: **RequestStateProofs**,
**BrowserBackendProofs** and **TauriBackendProofs** (which extend it),
**SharedPortProofs**, **BatchAndRingProofs** (BatchingBridge and WireRing),
**LabRunProofs** (LabRun and the lease under it), **DataPlaneProofs** (WireFormat,
CoreTransform and DataPlane) and **PageProofs** (the contract of ApplicationApi,
DemoUi and CoreWorker).

The invariant `Inv` (`RSInv` in RequestState, `WorkerInv` in CoreWorker) of a module
is its type invariant together with its named parts, such as `TimersMatchPending` in
RequestState or `ButtonsTruthful` in DemoUi; each part is commented where it is
defined.

Each `MC...` module instantiates one of these for TLC. Operators with a
comment `Mutant` are faulty variants of the definition below them; they are
used by no specification and serve to show that a property can fail.

## 3. Runs

| Run | Question | Bounds |
|---|---|---|
| `browser_backend` | refinement of the contract, invariant of RequestState, agreement of the two maps, late / repeated / damaged replies: whose answer is told, and what ends the backend | 3 calls and init (one id too many), 2 open, 1 fault |
| `core_worker` | replies complete and in order, heap clean, refinement of WorkerContract | 4 messages, 1 malformed message or uncaught error |
| `demo_ui` | generations, instances, busy, buttons | 3 instances, 8 generations |
| `tauri` | plane selection, refinement of the contract on every plane, failures have a cause, liveness | 3 calls, 2 open, all options, port and scheme there or not |
| `batching_bridge` | alignment of the lists, nobody lost, sent twice or told twice, replies matched, liveness | 4 submissions, two with one number, one that fills 4 bytes with a full batch; limits of 4 bytes and 3 frames; at most 2 tasks queued when flushNow is called |
| `wire_ring` | refinement of ByteQueue, borrowed views | 4 data bytes of 2 values, every frame of up to 4 bytes (one more than fits) |
| `data_plane` | right answers, planes and languages agree | bytes of 4 values, 2 values per call, 2 calls per bundle, 1 damaged byte in up to 56, bytes of six other clients |
| `shared_port` | may backends that follow each other disturb each other | 3 backends with 2 transforms each |
| `lab_run` | leases, files and processes of runs that are cancelled and killed | 2 runs for one device; `MaxWork` = 4 profiles, steps, cancels and runs elsewhere together |
| `tauri_dispose`, `demo_ui_creation`, `shared_port_old_reply` | disagreements with `docs/plan/04-contracts.md`, section 4 | as above |

The bounds let every limit be reached: the open requests and the ids run out,
each failure happens with and without others open, a task and a setup of up to
three generations overlap. Two open requests are enough for "this one ends, the
other does not" and "all end together".

Three backends on the port are one with an older and a younger neighbour, and two
transforms are one request posted and one still in the queue.

With bytes of four values an int32 has eight bits and a length two bytes that
matter: products saturate at both ends, checksums wrap, the first request id is the
last before the sequence number wraps, and each field of a frame takes legal and
illegal values when a byte of it is changed. Nothing in the decoders depends on the
number of values but the fields' ranges; `DataPlaneProofs` does not fix it.

One run that is followed as a whole (`Working`) and one of which only the lease is
seen are enough for what the properties compare: a runner with its own cancel, and a
lease with another run. `MaxWork` counts what may be repeated: four allow, for
instance, a profile with two steps and a cancel while the other run waits, a profile
with a step, a preview and another step, or two profiles with a preview each and a
cancel that meets either. `LabRunProofs` has none of these bounds.

In the ring every pair of cursors occurs, with each frame length wrapping and not
wrapping. In the bridge both limits trigger, a full batch overtakes a queued
flush, and close comes with batches queued and under way.

**Deadlock** is not checked where the system may stop (all calls made, the
instance disposed). It is checked for the ring and the bridge, where it says
little: a read and flushNow are nearly always possible.

**Fairness.** RequestState and the backends rely on the host's timers alone
(`WF` of each timer's callback): nothing obliges a worker or the native side to
answer. `TauriBackend` adds that the probe of the scheme ends, which its own
timer of three seconds guarantees. `CoreWorker` assumes that its turns are run
and that import and factory settle; `DemoUi` that factories and requests settle,
which is what the backends are shown to do. No fairness is put on clicks.
`BatchingBridge` assumes that timers fire and that the microtask queue runs; a
transport need not settle its promise (the bridge has no timer for it), so
`EverySubmitSettles` is stated for transports that settle each send. A kept
frame without flush interval waits until somebody calls flushNow or close, as
the comment on `flushIntervalMs` says; the property asks for an interval or a
close.

`LabRun` assumes that a runner goes on unless it is killed, and nothing of its child
processes, of cancel or of timeouts. `CancelledRunEnds` is therefore stated for
processes that do exit some time.

A full batch becomes a task at once, a flush takes its frames when it starts:
younger frames may be sent before older ones that a queued full batch holds.
Replies are matched by number, so nothing depends on that order.

## 4. Disagreements found

* `tauri_dispose`: over the scheme and port planes a transform open at dispose is
  rejected with TRANSPORT_ERROR, not DISPOSED (`tauri/index.ts:335`; contract
  line 110).
* `demo_ui_creation`: reinit is not disabled while a backend is created
  (`ui.ts:62`; contract line 134). The surplus instances are disposed later, as
  `NoInstanceForgotten` shows.
* `shared_port_old_reply`: a reply to a disposed backend resolves a transform of
  the new one, if the numbers agree and the length fits, and ends it otherwise
  (`transport-android.ts:81`; contract line 133). It takes a transform that is
  still under way when the page is initialised again; on a quiet port it cannot
  happen, as `QuietPortIsOwn` shows. The demo page asks for `auto`
  (`tauri/index.ts:421`), which takes the port whenever Android has one.

More, which the checked runs leave out or state as exceptions:

* Two lab runs that ask for a device at the same time may both get it: a directory
  without `lease.json` is taken for one left behind and removed
  (`lab.mjs:362-367`), and so is the directory that a faster run has made after both
  judged the same dead lease. `HolderIsAlone` excepts this; without its condition
  TLC finds two holders. `releaseLease` reads the lease and then removes the
  directory (`lab.mjs:376-378`), which an acquisition that comes between can meet in
  the same way.
* A malformed message that reaches the worker while init awaits its module fails the
  worker and throws (`core.worker.ts:317-324`), and the end of init sets it ready all
  the same (`core.worker.ts:152`), where the contract (line 152) lets it fail. The
  page has terminated the worker at the error event by then, and sends no such
  message. `ImplementsContract` counts the worker as uninitialized until init ends.
* A reply of the same method whose id was changed to that of another open request is
  taken for that one's answer: the check of the contract (line 146) compares version,
  id, method and payload, and a reply carries no more. `OkMeansExecuted` shows that
  nothing less makes another call succeed.
* The lease is written before `save()` and the `try` whose `finally` releases it
  (`lab.mjs:755-757`): should that `save()` throw, the lease stays until somebody
  finds its process gone. Failures of the disk are not modelled.

* Over the Android port OUT_OF_MEMORY of one request arrives as an empty message
  and ends the backend (`CorebinPort.kt:127`; contract line 105). The comment in
  `android.rs` accepts the loss of the code as unreachable in regular operation.
  `FailureHasCause` excepts the port.
* A failure of the host loses its code on the port (an empty message) and where the
  frames of a bundle are translated to invokes, because what an invoke rejects with is
  no `Error` (`batching.ts:147`). The backend then reports TRANSPORT_ERROR, the bridge
  an error without code. On JSON and scheme OUT_OF_MEMORY arrives as such.
  `PlanesAgree` states which is which.
* The C header reader looks at the reserved word before the length, the others
  after it; the TypeScript encoder looks at the flags before the count, the others
  after it. Accepted are the same frames (`DecodersAgree`, `FramesAgree`,
  `EncodersAgree`), only the code of a frame with both faults differs.
* `TauriInvokeTransport` ignores a payload of a getInfo request, which the native
  endpoint refuses as INVALID_ARGUMENT.
* `cancel` does not tell the runner (`lab.mjs:918`): it goes on with the next step, and
  "cancelled" stands in `run.json` until its next `save()`; a result written between
  the reading and the writing of a cancel is overwritten in turn. The docs
  (`13-automated-validation-lab.md:67`) say that cancel stops process and service,
  which `CancelFindsAll` supports, with two exceptions: between `spawn()` and the
  `save()` in `onStart` (`lab.mjs:407-414`, `600`) a step is in no record, and until it
  has answered neither is a preview (`lab.mjs:705-715`). A cancel in these moments
  misses the process, and what a runner killed in them leaves behind stays unnamed.
* Nobody sends more than SIGTERM. A step that ignores it is waited for without limit,
  also after its timeout (`lab.mjs:415-446`); a preview is told to end and not waited
  for. A step counts by its exit code (`lab.mjs:613`): one that takes the SIGTERM of a
  cancel and exits with 0 has passed, and so may its run. `PassedIsEarned` says no more
  than that nothing went wrong by that measure.
* A step that outlives its killed runner goes on using the device while the lease,
  which names the runner's process, counts as free.
* A getInfo reply with `ok: true` and no data would give the caller a TypeError,
  leave the request open and end the backend only when its timer fires
  (`browser/index.ts:297`; contract line 108). The worker always sends the data;
  `BrokenPayloads` in `MCBrowserBackend.cfg` can add `"noData"` to see it.

## 5. Proofs

`RequestStateProofs` proves, for every `MaxPending` and `MaxSafeId` that are
positive integers, the invariant `RSInv` and the action properties `SettledOnce`,
`OneCause` and `TimeoutIsReal`.

`RSInv` is inductive. It is the conjunction of the type invariant and
`TimersMatchPending`, `WaitingIsPending`, `PendingBounded` and `OverMeansQuiet`; they
support each other. That a timer leaves no other timer behind needs
`TimersMatchPending`; that settling an entry settles a waiting promise needs
`WaitingIsPending`; that nothing is registered in a failed backend needs
`OverMeansQuiet`, because `ensureCanSend` refuses through the saved failure. The
lemmas follow the methods: `SendAllowed` (what a passed `ensureCanSend` means),
`EndKeepsInvariant` (everything ends at once, used for failAll, timers and dispose),
`AnswerKeepsInvariant` (one entry is settled), `FewerPending` and `PendingFinite`
(counting). `StepSettlesOnce` carries `SettledOnce`.

`PageProofs` proves of the contract alone that nobody waits for an instance that has
ended and that an answer never changes. Both backends are proved to implement the
contract, so they have these properties too (the native one with the exception that
`tauri_dispose` shows).

`BrowserBackendProofs` proves, for any calls, limits, ids and faults of the link,
whose answer a call is told (`OkMeansExecuted`), what the backend may fail for
(`FailureHasReason`), the agreement of its books (`Inv`) and the refinement of the
contract (`ImplementsApi`). It extends `RequestStateProofs`, because each step is one
of RequestState, or none (`StepUsesRequestState`), so `RSInv` need not be proved
again. `Kept` says that what is on the link is well formed, that an id belongs to one
call only (`CallersHaveIds`) and that the factory's promise and the life of the
instance go with request 1 (`FactorySeesOutcome`, `PhaseMatches`). `Recorded` is the
inductive invariant of the first two properties: a reply on the link that says ok
carries an answer of the core and has the id of the request it answers, or is noted in
`misled`; and every event that would end the backend has its reason noted. The turns
that end everything (fatal events, timers, dispose, used-up ids) are one operator,
`EndsAll`: each is shown to be an instance of it, and what it keeps is proved once.

`Inv` and `ImplementsApi` have one hypothesis, `NoReplyWithoutData`: no answer to
getInfo lacks its data. It states which replies of a damaged link are considered (the
constant `BrokenPayloads`), and it is needed: with such a reply the caller is told a
TypeError while its request stays open (section 4), which the contract does not know.
The worker always sends the data. `Kept`, `Recorded` and what follows from them hold
without it.

`TauriBackendProofs` proves, without any hypothesis, `Inv` (with `FailureHasCause`),
`NoSilentFallback` and `ImplementsApi`, for any calls, limits and options. The
inductive invariant `Kept` adds three agreements: the ids of the calls with the open
requests (`CallersHaveIds`), the step which the factory has reached with its promise,
its request and the state (`InitMatches`; while the plane is looked for, nothing is
open and no timer runs), and the queue of the port with what is unanswered
(`QueueMatches`). `FailureHasCause` needs the last one, since a cause must be noted
under the id whose answer ends the backend, and stays noted (`CausesStay`). The
refinement is a case on the steps; the only one that is no step of the contract is
`BinaryDispose`.

`PageProofs` proves of DemoUi, for every number of instances, `Inv`,
`NoInstanceForgotten` and `StaleChangesNothing`. None is inductive. `PageInv` says to
which generation and instance every setup and task belongs: a generation is used by
one setup or one task, a setup waits for its factory exactly while its instance is
being created, and a setup of an older generation whose instance was made finds it
ended. From that an answered getInfo is always current (`InfoIsCurrent`): after it the
comparison in setupBackend (`ui.ts:96`) never fails, and nothing stale shows.
The busy flag is proved as "some task is current" and turned into the count that `Inv`
states by `BusyCounts`.

It proves of CoreWorker, for any number of messages and errors, `WorkerInv`,
`RepliesInOrder` and `ImplementsContract`. `HeapClean` compares the heap with nothing
and so says little while a transform runs; the inductive `WorkerIInv` says what the heap
holds at each stage of a handler: while the module is kept, exactly what is listed to
be freed (`HeapKnown`), and during the allocations the first blocks of the request, in
order (`Stage`), so that the next block is new and none is listed twice (`EachOnce`).
The order of replies is an invariant beside it, carried by `StepKeepsOrder` with facts
on the ids of a list that grows at its end and shrinks at its head (`IdsOfAppend`,
`IdsOfTail`). The refinement is a case on the steps (`WorkerSimulates`): those that post
are answers the phase allows (`PostIsAnswer`), the others leave phase and replies alone
or break the worker.

`SharedPortProofs` proves, for any number of backends and of calls, `Inv` and
`QuietPortIsOwn`. `Inv` is inductive: every former backend is
disposed (`OneAfterTheOther`), only created ones queue and post
(`TrafficIsOfCreated`), and nothing older is queued or posted before a backend that
found the port quiet (`QuietLasts`), because a disposed backend takes on no call.
Whoever follows such a backend finds it disposed, and a disposed one changes no
more. The lemma `Traffic` says once what a step can do to queues and port.

`BatchAndRingProofs` proves for every capacity, every set of bytes and every set of
frames that the cursors stay in the data area, that a write never lands under
a borrowed view, and that the ring implements `ByteQueue` with one byte less than
its capacity. The type invariant is inductive. The refinement rests on facts
about `Spans`, the unread bytes: it has `Used` bytes and its i-th byte is the one
at offset (tail + i - 1) modulo the capacity, in one span or in two; from that,
`Store` and `Advance` append a frame and `Advance` of the tail removes a prefix.

It proves for all submissions, sizes and limits `Inv` (the lists agree, a waiting
caller is held somewhere, no frame is sent twice), `BatcherBounded`, `OwnReply`,
`SettledOnce` and `RejectedIsNotSent`. `Inv` is not inductive: a reply settles one
list and its promises must be in no other. The invariant `IInv` therefore says that a
caller waits exactly while it is kept, queued or under way and is in only one of these
(`Held`), that no two tasks share a promise (`TasksApart`) and that what was sent is
neither new nor in a list still to be sent (`Fresh`). `FlushesEmpty` is a second
invariant: a queued flush carries nothing, so that its start moves the kept list and
loses none. The lemmas `TaskAdded`, `TaskTaken` and `BatchSent` describe the three
sequence operations once; the proof of each action then is a case on where the
submission is. `BatcherBounded` is proved too: the byte count is that of the frames
kept, stated without a sum over a list as the existence of the offsets at which
`flush()` copies them into its buffer, each frame where the one before it ends and the
last one ending with the buffer; a frame that is kept adds one offset. `OwnReply`
rests on the agreement of the lists: the reply at a place is that of the entry at this
place.

`LabRunProofs` proves of DeviceLease, for any number of runs, `Inv`, `HolderIsAlone` and
`FailsOnlyInRace`. `Inv`, with the claim that ended runs leave no lease, is inductive
as it stands and needs no condition. Exclusion does not follow from itself: an
acquisition must have known, when it decided to take the directory, that nobody
holds the device. `AloneInv` says that, as long as no two runs have changed the
directory at the same time, only one is at it, that whoever holds the device then has
outstayed its lease, and what the directory looks like between the calls of an
acquisition, so that none of them throws.

It proves of LabRun, for any number of runs, profiles and steps, that the lab uses the
device as DeviceLease allows (`LabImplementsLease`), so that exclusion holds of its
runs too, and `LabInv`, `PassedIsEarned` and `CancelFindsAll`. These need to know how
the parts of a run go together, run by run: `Placed` says which phases of the runner
go with which states of child, preview, lease and file, `Named` what the file names as
long as no cancel has been at work, `Marked` that what went wrong stands among the
statuses as one that did not pass, or will when the step under way ends or the
exception is caught, unless the runner is dead or has ended. A step of one run touches
nothing of another (`OthersSame`).

`DataPlaneProofs` proves the four invariants of DataPlane for every even width of a
byte from four values on, all limits of the wire format, any inputs, any bytes of other
clients, any number of calls in a bundle and of changed, lost and added bytes.
`PlaneAssumption` is what it asks of the constants of DataPlane: an input is something
that JavaScript can pass to `transform()`; the bytes of others are bytes; the first
number is a natural number; and a bundle has no more calls than there are sequence
numbers, which the batcher's limit of frames (64 by default) keeps far below 2^16.

* *Verdicts.* A function of the code that refuses is the list of its checks, and its
  verdict the first that holds, so it is "OK" when none holds, in whatever order
  (`NoCheckHolds`, `FirstRefusal`, from the least element of a set of numbers). Two
  languages are compared by the checks in which they differ: a check that another
  implies can be left out (`ImpliedCheck`), two can be swapped (`SwappedChecks`). This
  gives `FramesAgree`, `RequestsAgree`, `ResponsesAgree` and `EncodersAgree`, of which
  the first also says that a frame that is found is not empty and ends in the buffer.
* *Validation* (`ValidationsAreAlike`). JSON makes null of what is no number, 0 of minus
  zero, and drops undefined fields. `RequestCarried` says what each of these does to
  the checks of the host; what passed on the page is carried unchanged
  (`NumbersArrive`), and what did not is refused by the same check, unless a field is
  undefined and so missing (`ShapesAlike`).
* *Bytes.* `Holds(b, o, t)` says that the bytes `t` are in `b` at `o`. A number that was
  written is held exactly where it is read (`NumberHeld`), because the digits of a
  number are unique (`TwoDigits`). From that, a frame holds exactly what its header and
  payload say (`HeaderHeld`, `RequestHeld`, `ResponseHeld`, `InfoHeld`): what was
  encoded is decoded, and what is taken is the encoding of what it says. The second is
  the greater part of `DecodersAlike`.
* *Recursion.* The provers have no induction over data, but a set of naturals has a
  least element (`MinIsLeast`, from the well-foundedness of `<`), so what a recursive
  function computes can be shown by assuming a least argument at which it is wrong.
  This way the checksum is the sum modulo 2^32 (`ChecksumIsSum`), and a scan succeeds
  exactly when there is a *row* (`RowScanned`, `ScannedRow`): offsets from the first
  to the end of the buffer, at each of which a frame fits and each where the one
  before ends. A buffer has one row at most (`RowsAlike`), and a frame behind a row
  makes a longer one (`RowJoined`).
* *The plane.* None of the properties is inductive. `PlaneInv` follows a batch through
  the places of the program: while it is collected and not damaged, its row is made of
  the frames of the calls, in order (`Held`); what `Send` has decided about the plane,
  the bytes that arrive and the caller stays so (`Sent`); of the host, the frames up
  to `off` are a row of the input and what it has written is a row of right answers to
  them (`Hosted`); the same of the whole input when the reply is on its way
  (`Replied`); and the caller has been told this (`Ended`). Damage leaves of all these
  only what needs no row. That the n-th answer is the n-th call's needs that the batch
  has one row only, and the matching of replies by number needs that no number comes
  twice in a bundle (`Unrepeated`, from the bound on the calls). That nobody of a
  broken batch is answered is shown caller by caller.

`DecodersAgree` and `ValidationsAgree` also follow from lemmas about their functions
(`AllDecodedAlike`, `AllEncodedAlike`, `ShapesAlike`, `NumbersArrive`), which are
stated for every buffer and every argument, whether a run reaches it or not.

Every safety property that a passing run checks is proved. **Only model-checked:**
liveness (`EveryCallAnswered`, `EverySubmitSettles`, `CancelledRunEnds`,
`EveryRequestAnswered`, `EveryWaitEnds`), because fairness and ENABLED are out of the
prover's reach.

## 6. Not modelled, and the plan

1. Proofs: the steps of the liveness arguments that are safety (for each wait, what can
   end it and that it stays possible).
2. How the native side arms the Android port (`CorebinPort.kt`), and the timers of
   the scheme's fetch; both are seen through their outcome.
3. `PortTransport` (`transport/port.ts`, kind `worker-message`), which a page without
   hooks gets when it brings a port of its own: DataPlane counts it as one without a
   transport.
4. The profiles of the lab: which steps follow which, and which targets are chosen.
   LabRun lets them come in any order. `resume` starts a new run with old options and
   keeps no state.

What the models simplify, beside the bounds of section 3:

* Numbers have the width of `Base` where they saturate, wrap or are cut, but sums and
  lengths inside the decoders are unbounded: an overflow of a u32 in a length cannot
  show. The checks of a request and of a response that are the same text in the three
  languages are one operator (`RequestChecks`, `ResponseChecks`); of C, the codes beyond
  the header are compared on OK only. The NULL checks of `core.cpp:25-35`, which the
  wrapper cannot reach, are left out.
* JSON numbers are integers: that `as_int32` (`commands.rs:78`) also takes 1.0 and -0.0
  as floats is not reached.
* `BatchingBridge.Replies` has frames of the own batch only; a frame with any other
  number is one that is never looked up.
* `SharedPort.Create` follows a dispose, as in `ui.ts:206-222`; instances that overlap
  are in DemoUi.
* Checks that cannot fail are dropped: the generation after an answered getInfo
  (`ui.ts:96`, by `InfoIsCurrent`), the non-integer argument of `WireRing.consume`.
* A call on the file system fails for what other runs did, not for a full disk or want
  of rights; reading a lease and asking for its process is one action, and so is the
  unlinking of all files of a directory.

Left out altogether: build, packaging and verification scripts (`doctor`, `verify-*`,
`build-*`: they drive other programs one after the other and compare what these
print), texts and layout of the page, performance measurements
(`self-test/bench-runner.ts`).
