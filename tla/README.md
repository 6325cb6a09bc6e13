# Verification of photospider-daemon

TLA+ models of the daemon's concurrent core, TLC configurations that check
them on small instances, and TLAPS proofs that hold for every instance. The
reference is the source; paths below are relative to the repository's root.

## The system

`photospiderd` is a local daemon. Clients talk to it over a Unix socket in
length-prefixed frames. A connection handler decodes a frame into a `Request`,
calls `Service::dispatch`, and writes the encoded `Response`.

| Part | Source | Role |
|---|---|---|
| Service | `src/lib/orchestration/service.cpp` | Session map, capacity reservations, method switch, exception fence |
| JobRegistry | same file | retained records, FIFO queue, fixed workers, publication, close settlement, stop |
| Server | `src/lib/server/server.cpp` | accept loop, one thread per connection, reaping, stop and join |
| Unix listener | `src/lib/ipc/unix_socket.cpp` | bind, same-user check, removal of exactly the node it created |
| Frames | `src/lib/ipc/frame.cpp` | exact reads and writes over partial transfers |
| Codec | `src/lib/ipc/codec.cpp` | message layout, bounds, validation, correlation recovery |
| Client | `src/lib/ipc/client.cpp` | request ids, correlation, disconnect on failure |
| Process | `apps/photospiderd/main.cpp` | options, signal mask, signal-driven stop |
| Kernel | external library | `Compiler`, `ExecutionContext`, `CancellationSource` |

The Server owns the Service and joins every handler before it destroys it, so
the registry's `stop` never overlaps a dispatch. `Service` on its own takes that
as the guard of its `Stop`. `System` puts the two together and has no such guard;
`ServiceIsUsedAsSpecified` shows that the join provides it.

## Modules

| Module | Content |
|---|---|
| `JobRegistry` | records, queue, workers, every publication path |
| `Service` | Session map and dispatch over `JobRegistry`; the properties |
| `MCService` | symmetry for the runs of `Service` |
| `JobContract` | what a client is promised, with no threads or queues |
| `ServiceRefinement`, `MCServiceRefinement` | mapping of `Service` onto `JobContract` |
| `ServiceInvariant` | the inductive invariant of `Service` |
| `ServiceLifecycleProofs`, `ServiceExecutionProofs` | proofs about `Service`: Sessions and retention; ownership and the refinement |
| `Server` | accept loop, handler threads, reaping, stop, join, destruction |
| `Daemon` | `Server` inside `main`: signal waiter and mask; the properties |
| `MCDaemon` | symmetry for the runs of `Daemon` |
| `System` | `Daemon` around `Service`; their composition |
| `DaemonStepProofs`, `DaemonProofs` | the inductive invariant of `Daemon` and the proofs about `Daemon` and `System` |
| `FrameStream` | one `read_frame`, fed any part of a frame; recovered correlation |
| `Exchange` | a `Client` and its connections' handlers over such streams; the properties |
| `CallContract` | what a call promises: executed at most once, and truthful failures |
| `ExchangeRowProofs`, `ExchangeStepProofs`, `ExchangeProofs` | the inductive invariant of `Exchange` and its proofs, each over the one before |
| `Codec` | `Encoder`, `Decoder` and the layout of every message |
| `SocketNode` | listener set-up and node removal by several daemons on one path |
| `MCSocketNode` | symmetry for the run of `SocketNode` |
| `SocketNodeProofs` | its inductive invariant and proofs |

### How state and actions correspond to the code

* One action is one critical section of `mutex_`, of one `JobRecord::mutex`, or
  of `lifecycle_mutex` followed by `sessions_mutex`. A kernel call made with no
  lock held is an action of its own.
* `lifecycle_mutex` is a variable, because `submit` keeps it while it takes the
  registry mutex. The other sections that need it are enabled while it is free.
* Condition variables are sets of sleeping threads: `ready_` and, per record,
  `terminal_changed`. Waits may wake spuriously.
* A record outlives its map entry through `shared_ptr`, so record fields are
  functions over all ids and `jobs_` is the set of retained ids.
* `queue_` is a set. An id is drawn and pushed in one section, so the FIFO front
  is the smallest queued id.
* Ids wrap: `JobIdSpan` and `SessionIdSpan` stand for 2^64, and zero means
  exhausted. An id of another daemon instance is `NoId`, which no map contains.
* Every allocation that can throw on a publication or response path is a choice,
  enabled by `AllocationMayFail`.
* The kernel may return success, a failure or Cancelled, may throw, or may never
  return. `compile` takes no token, so it never reports Cancelled.

Left out of these two modules: `daemon.info`, which only reads counters; the
rollback of a registry whose worker threads could not all be started, which runs
the same `stop` over empty containers; and the diagnostic allocation of the
"left queued state unexpectedly" branch, which `QueueInv` shows unreachable.

Server and Daemon:

* `pc` is one function over all threads: `Main` (which runs `Server::run` and the
  destructors), `Waiter` (`SignalStopWaiter`) and one thread per connection.
* One action is one atomic operation, one section of `connections_mutex`, or one
  call that may block. `stop` is five steps, because its callers overlap: the
  exchange, taking the listener, its shutdown, its close, and the sweep.
* Descriptors are numbers that the process reuses, lowest free number first.
  `file` says what is behind each of them, and `shut` which open files were shut.
* A frame, a request and the answer to it are choices; so is whether a dispatch
  accepted a shutdown. Every allocation or thread start that can throw is one.
* `Interrupted` marks an accept failure that only a stop explains, so that a
  property can tell it from a genuine one. The code has a single FatalFailure.
* A signal that arrives between the last `sigpending` and the mask change is
  recorded in `missed`: no program can absorb it.

FrameStream and Exchange:

* A byte is a position in the frame of a message, so a stream can hold the tail
  of one frame before the head of another. A whole header declares its payload's
  length; any other header bytes declare any length.
* A reader is what `read_frame` has: the declared size, zero while the header is
  incomplete, and the bytes so far. It never asks for bytes beyond its frame.
* The client's mutex covers a whole call, so one `cpc` is enough for all threads.
  `connect` opens its stream before it takes the mutex.
* Recv and send move any part, fail, or end anywhere; EINTR is not a step. An
  allocation that fails inside a call leaves it by an exception (`Throw`).
* A misaligned payload is assumed not to decode as a response. On the server, two
  requests mixed under one good header may decode, as a request nobody made.
* Call numbers are not in the code; they tell apart requests with equal ids. The
  method part of the correlation is left out: an id is used once per connection.

System:

* A connection's thread is the handler of its dispatches. Reading a request
  begins one in `Service`, and its critical sections interleave with the server.
* `shutdown_after_write` is the field of the response. `serve_connection` sees it
  with the response, not when `dispatch` raises the admission fence.
* The registry stops, joins and clears its workers after `~Impl`, on `Main`, and
  `main` waits for that.

Codec:

* Each `encode_` and `decode_` function is a table: a row per field with its width,
  bounds, checks and, for a count that is decoded, its `CountContract`. The two
  sides are written separately, from the two functions.
* A field's value is a length, a count or a tag, and whether its contents pass the
  checks made on them. Sizes are in real bytes and bounds are the code's.
* One behaviour is one payload: encoded, then decoded whole, cut or extended; or
  written by another encoder, decoded, and encoded again.
* Adjacent numbers with the same treatment are one row: transfers, active counts
  and maxima. `Value`s given to the encoder have one to eight axes, and an element
  type outside the decoder's range counts as bad contents.

SocketNode:

* One action is one system call. `parent` is the directory that the parent path
  names, `entry` the node under the leaf name in each directory.
* An inode number is free again once no entry and no bound socket holds it.
  Generations are not in the code; they tell apart nodes with equal numbers.
* Every call may fail. `inconclusive` collects the daemons whose `remove` met a
  call that did: the node stays then, and the guard does not try again.
* `raced` collects the daemons for which a look at the path went stale before it
  was used: the entry removed between `bind` and its capture, or between the
  last `fstatat` and `unlinkat`; the parent exchanged and put back in set-up.

What the model shows about the code, without being a disagreement with it:

* One handler record more than the connection bound can be retained, because a
  handler may give its slot back just after the reaper passed it over. The
  vector then grows past what the constructor reserved.
* An exception thrown by accept, or by the refusal of a connection over the
  bound, leaves `run` with no stop and no join; the destructor does both.
* A client that never reads the acknowledgement of its shutdown keeps its handler
  in the write, and the server up.
* `encode_value` leaves the payload of a facet to the frame bound, `decode_value`
  stops at 64 KiB: a result with a longer facet is sent and cannot be read.
  `RoundTrip` holds for everything else.
* The count contracts are exact: one byte more in an entry or a suffix refuses a
  valid message. Only `kDaemonMethodsContract` has slack, as no method name is
  empty.
* After an uncertain failure a call may still be executed, once.
* A node can be left behind by a daemon that did not crash: when the parent path
  was exchanged, when a call of `remove` failed, and when the bound node could not
  be verified. No daemon can start on the path until someone removes it.
* A daemon can unlink its successor's node in three cases, all of which need a
  removal of its own node by another process, or an exchange of the parent: the
  two windows of `raced`, and a reused inode number. `stop` closes the listener
  before `remove` runs, which is what frees the number.

## Runs

| Run | Instance | Checks |
|---|---|---|
| `service_ownership` | 2 handlers, 2 workers, 2 records, 1 Session, all methods but status and shutdown | `TypeOK`, `NoWorkOutlivesItsSession`, `NoRecordOutlivesItsSession`, `OneOwner`, `StopReachesEveryExecution`, `WorkersLeaveSettledRecords`, `CancellationDecides`, `PublishedIsFinal` |
| `service_sessions` | 3 handlers, 1 worker, 2 Session ids, 2 slots, shutdown | `CapacityRespected`, `NeverTerminates`, `FreshIdentity` |
| `service_liveness` | 2 handlers, 1 worker, 2 Sessions, fairness | `BlockedOnlyByOwnWork`, `AdmittedWorkFinishes`, `StopCompletes` |
| `service_contract` | 2 handlers, 2 workers, all methods but result and shutdown, no allocation failure | `ImplementsContract` |
| `service_status_snapshot` | 2 handlers, 1 worker | a disagreement, see Findings |
| `daemon_admission` | 3 connections, bound 1, SIGTERM and SIGUSR1 | `TypeOK`, `InventoryIsLive`, `HandlersBounded`, `FailureIsGenuine`, `EarlySignalsAreAbsorbed` |
| `daemon_shutdown` | 2 connections, bound 2, no signal, fairness | `NobodyWaitsAfterStop`, `NothingOutlivesTheServer`, `AcceptedShutdownStops`, `StopComesDown` |
| `system` | 1 connection, 1 worker, 1 Session, 1 record, fairness | `ServiceIsUsedAsSpecified`, `ShutdownEndsTheProcess` |
| `exchange_calls` | 1 connection, 3 calls, 4-byte frames, fairness | `TypeOK`, `AnswersMatch`, `DefiniteFailuresDidNothing`, `FailuresDropTheConnection`, `CallsReturn`, `CallsKeepTheirContract` |
| `exchange_framing` | the same, no fairness | a disagreement, see Findings |
| `socket_node` | 2 daemons, 2 directories, 2 inode numbers, 3 nodes | `TypeOK`, `ServingNodeStays`, `NoResidue`, `RemovesOnlyItsNode` |
| `codec` | all layouts, 3 unusual fields, 2 more entries, 15 payload sizes | `RoundTrip`, `OnlyWholePayloads`, `DecodesOnlyEncodings`, `ClaimsWithinThePayload` |

`CallsKeepTheirContract` and `ServiceIsUsedAsSpecified` are refinements.
`client.hpp:14` says that the client "performs no automatic retry"; the first says
what follows from it: no request is executed twice, a call that answered was
executed, and one that failed definitely is never executed, then or later.

Bounds. The ids of an instance run out during each run, so exhaustion is
reached. Two handlers are enough for a submit, cancel, read or release to race a
close; the Session run has three, so two creates can compete for the last slot
while a close is in progress. Two workers are enough for two of them to compete
for one record. `job.status` changes nothing but its
response, so it is in the contract run, where it has to be a stutter, and in the run
of its finding, and not in the largest one. Symmetry in handlers and workers is used in safety runs only.
Three connections over a bound of one let a handler, a finished but unreaped one
and a refused one coexist, and a number be reused. Two concurrent handlers, the
waiter and `Main` can all be inside `stop` at once. `daemon_shutdown` sends no
signal; its waiter stops the server through the failure of `sigwait`. With a
foreign SIGUSR1 (442 477 states) it held once, and `service_liveness` with a second
record (1.2 million states); both take too long to keep.
One connection is what the liveness of `System` can be checked with. Its run has
no allocation failure and no signal. `ServiceIsUsedAsSpecified` is also proved, for
any number of connections.
Two header and two payload bytes, one of them the correlation, let every cut of a
frame occur. The request buffer is half a frame, so sends block; the response
buffer is a whole one, so an answer can be left behind by a call that threw. Three
calls use up the ids of the connection. All its properties also held once with
two connections and two calls (3.4 million states), which is too large to keep.
In `Codec` three fields at once may be off their smallest good value, each at an
edge of either side's bound; the payload sizes of the other encoder are those of
small messages of each layout and sizes near them. No property needs a payload
that is filled with entries: a contract is tight at its smallest message.
Two daemons and three nodes let a node be removed, replaced and its number
reused. Calls,
connections and nodes are bounded and daemons exit, so behaviours of
`Exchange` and `SocketNode` end: deadlock is not checked there.

Fairness. Each worker step except the kernel call is weakly fair. Handler steps
are strongly fair, because a section that needs `lifecycle_mutex` is disabled
whenever another thread holds it; this says that the mutex does not starve a
waiter for ever. Nothing is assumed of `Execute`, of clients, of spurious
wake-ups or of `Stop`, so the liveness properties say what holds when a kernel
execution hangs. In `Daemon` every step of a thread that does not wait for a
peer is weakly fair. A read, a write or an accept is fair only on a stream or a
listener that was shut down, when the kernel makes the call return. Peers,
dispatch, signals and the failure of `sigwait` have no fairness. In `Exchange`
a step is weakly fair only when the stream forces it: bytes or room are there, the
other end is closed, or the length is out of bounds. Spontaneous errors, calls,
connects and dispatch are not forced. `System` has the fairness of its parts, and
that of `Service` takes the place of any assumption on dispatch. `SocketNode` and
`Codec` have safety properties only.

## Findings

`service_status_snapshot`: `protocol.hpp:75-76` says that `outcome` "carries the
final failure category for Failed or Cancelled". The code sets `state` to
Cancelled before it allocates the Cancelled outcome (`service.cpp` 718, 754,
775). If that allocation throws, the record mutex is released with Cancelled and
a success outcome, until the exception fence locks it again. A `job.status` in
between copies the pair into its response. It does not reach the client:
`validate_job_status` makes `encode_response` fail, and the client gets a protocol
failure and a closed connection for a job that was cancelled. The same
window is why the contract is checked without
allocation failure: when the kernel reported Cancelled on its own account, the
fence then publishes Failed over the half-published Cancelled.

`exchange_framing`: `client.cpp:23-24` says that the mutex makes sure that
"correlation state and stream framing cannot interleave", and
`docs/codebase-structure/IPC-Protocol-v3.md:93-95` that the client "invalidates
its connection on transport or response-codec failure". `call` resets the
descriptor on a returned failure. `std::bad_alloc` from inside `read_frame` or
`write_frame` passes it by, so the next call meets bytes of the previous exchange.
`AnswersMatch` still holds then, because ids are not reused, but a call after
such an exception may be refused or wait for bytes that never come: hence `threw`
in `FailuresDropTheConnection` and `CallsReturn`.

## Proofs

Assumed of the constants, and evaluated by each run: `RegistryAssumption` and
`ServiceAssumption` (id spans above one, positive bounds, finitely many handlers,
at least one worker, known methods); `ServerAssumption` and `DaemonAssumption`
(finitely many connections, a positive bound, threads and files told apart);
`SocketNodeAssumption` (finitely many daemons, a directory, `None` told apart);
`FrameAssumption` and `ExchangeAssumption` (frames with a header and a payload
that begins with its correlation, payloads within the bound, at least one
connection, call and id, buffers of at least a byte).
The theorems hold for every such value, with no fairness.

| Theorem | Statement |
|---|---|
| `LifecycleInvariant` | `Spec => []LifecycleInv` |
| `TypeCorrect` | `Spec => []TypeOK` |
| `WorkEndsWithItsSession` | `Spec => []NoWorkOutlivesItsSession` |
| `RecordsEndWithTheirSession` | `Spec => []NoRecordOutlivesItsSession` |
| `IdsAreNeverReused` | `Spec => FreshIdentity` |
| `CapacityIsRespected` | `Spec => []CapacityRespected` |
| `TerminateIsUnreachable` | `Spec => []NeverTerminates` |
| `ExecutionInvariant` | `Spec => []ExecutionInv` |
| `UnfinishedWorkHasOneOwner` | `Spec => []OneOwner` |
| `NoHalfPublishedRecord` | `Spec => []WorkersLeaveSettledRecords` |
| `StopCancelsRunningWork` | `Spec => []StopReachesEveryExecution` |
| `AcceptedCancellationDecides` | `Spec => CancellationDecides` |
| `TerminalSnapshotsAreFinal` | `Spec => PublishedIsFinal` |
| `ContractInvariant` | `Spec => []ContractInv` |
| `ServiceImplementsContract` | `~AllocationMayFail => (Spec => ImplementsContract)` |
| `NodeInvariant` | `Spec => []NodeInv` |
| `NodeTypeCorrect` | `Spec => []TypeOK` |
| `NobodyUnlinksAServingNode` | `Spec => []ServingNodeStays` |
| `GuardLeavesNoResidue` | `Spec => []NoResidue` |
| `UnlinksOnlyItsNode` | `Spec => RemovesOnlyItsNode` |
| `DaemonInvariant` | `Spec => []DaemonInv` |
| `DaemonTypeCorrect` | `Spec => []TypeOK` |
| `InventoryHoldsServingStreams` | `Spec => []InventoryIsLive` |
| `StopInterruptsEveryWait` | `Spec => []NobodyWaitsAfterStop` |
| `HandlersAreBounded` | `Spec => []HandlersBounded` |
| `StopIsNotAFailure` | `Spec => []FailureIsGenuine` |
| `NothingIsLeftBehind` | `Spec => []NothingOutlivesTheServer` |
| `EarlySignalsCannotKill` | `Spec => []EarlySignalsAreAbsorbed` |
| `SystemRunsTheDaemon` | `SystemSpec => Spec` of `Daemon` |
| `ServerUsesServiceAsSpecified` | `SystemSpec => ServiceIsUsedAsSpecified` |
| `ExchangeInvariance` | `Spec => []ExchangeInv` |
| `ExchangeTypeCorrect` | `Spec => []TypeOK` |
| `AnswersAreMatched` | `Spec => []AnswersMatch` |
| `DefiniteFailuresAreTrue` | `Spec => []DefiniteFailuresDidNothing` |
| `ExchangesStayApart` | `Spec => []FailuresDropTheConnection` |
| `CallsAreKept` | `Spec => CallsKeepTheirContract` |

The first fifteen are about `Service`, the next five about `SocketNode`, the next
eight about `Daemon`, two about `System` and the last six about `Exchange`. TLC checked each inductive invariant on the runs' instances before
it was proved.

Service. An unfinished record of a Session being closed is in no container, so the
invariant must say whose hands it is in. `LifecycleInv` joins `TypeOK` with:

* `ControlInv`: where a thread is says what it holds;
* `SessionInv`: `submit` holds the lifecycle lock exactly while it publishes, to
  an open Session, and each closing Session has one closer;
* `IdentityInv`: whatever is referred to was admitted, and counters are ahead of
  every id in use;
* `QueueInv`: what is queued is retained, Queued and held by no worker;
* `RetentionInv`: an unfinished record is retained, or detached by the one
  handler closing its Session.

Capacity is inductive over it: a reservation belongs to one create, which turns it
into a Session or gives it back, and that also keeps the counter away from the
values at which the code terminates. `ExecutionInv` adds who owns a record:
`SettlerInv` (a detached record has one closing handler), `HolderInv` (a popped
one has one worker, whose place in `execute` says how far its publication is),
`OwnerInv` (an unfinished one is in one of the three places) and `FieldInv` (the
terminal fields are empty before the end and complete after it). Without the
stage of publication in `HolderInv`, neither action property would follow: the
fence of a worker whose allocation failed writes to a record that is already
terminal.

Refinement. The theorem shows that every step of `Service` is a step of
`JobContract` or a stutter under the mapping of `ServiceRefinement`.
`ContractInv` adds that a record not yet admitted carries nothing, and that a
record a worker holds is unfinished. The second needs that allocations succeed,
and so does the theorem; see Findings.

SocketNode. `NodeInv` says where each daemon's node is in terms of generations,
which the code does not have: given once (`GenerationInv`), unchanged between the
last look and the unlink unless `raced` notes it (`LookInv`), in the captured
directory while nothing was disturbed (`UndisturbedInv`), and guarded as long as
the parent path stays, until a call of the removal fails (`StayingInv`). The
number that was captured is then that of the daemon's own node, so that a removal
whose calls succeed cannot take a mismatch for its result.

Daemon. `DaemonInv` joins `TypeOK` and `InventoryIsLive` with:

* `ListenerInv`: one thread takes the listener and closes it, after the flag;
* `FileInv`: a descriptor number stands for the one stream its owner has open;
* `IncomingInv`: what `run` has accepted and not handed over, and why accept failed;
* `RecordInv`: every live handler has one record until it is joined, and no two
  records are for one thread;
* `OrderInv`: waiter, stop and destruction come in this order;
* `SlotInv`: the slots are counted exactly, and when there is one record too
  many the reaper still has a finished one ahead of it;
* `InterruptInv`: a waiting handler was interrupted, or a thread that raised
  the flag has yet to sweep;
* `SignalInv`: what is pending when the mask is restored came after the last look.

`InventoryIsLive` alone is not inductive, because erasing a number removes every
stream that has it: `FileInv` says there is one. The bound on records is not
either: a record is added on the strength of a slot, and slots are given back
before records are reaped.

System. A step of `System` is one of `Daemon` when the service's variables are
left out, so `SystemRunsTheDaemon` carries the theorems about `Daemon` over. To be
a step of `Service` as well, the stop of the registry must find no dispatch in
progress, which `System` does not ask for. `DispatchInv` says that a connection is
a busy handler of `Service` exactly while its thread is in the dispatch of
`serve_connection`; with the records and the order of `DaemonInv`, no such thread
is left when the members are destroyed. `ServerUsesServiceAsSpecified` follows,
and with it the theorems about `Service` hold in the daemon.

Exchange. What is on its way in one direction is in three places: read but not yet
used, in the stream, and not yet written. The invariant speaks of the one row of
bytes they form, which a transfer of any part leaves as it is. `ExchangeInv` joins
`TypeOK` and `AnswersMatch` with:

* `CallInv`, `HandlerInv`, `FreshInv`: where each side is says what it holds;
* `MessageInv`: a request on its way was asked for, a response was executed, a
  failure ends its connection, and no id that is still to be drawn is on a message;
* `CurrentInv`: nothing is mistaken for the request in progress, whose bytes are
  consecutive and the last;
* `OnceInv`: the last byte of a request is in one place, and gone when it is
  executed, so no request is executed twice;
* `SettledInv`: a call that ended with no doubt is not on its way any more, except
  to a handler that gave up;
* `RefusalInv`: once the request in progress is executed, its answer comes before
  any sentinel, so the client cannot take an executed request for a refused one;
* `ChainInv`: answers follow each other, whole unless the handler gave up;
* `ApartInv`: as long as no call threw, both ends are in step.

Half a frame in a stream is what makes the last four necessary: without them a
reader could begin in the middle of an answer. `CallsAreKept` adds that the
verdict on a call, once given, is never changed.

Only model-checked:

* liveness (`service_liveness`, `AcceptedShutdownStops`, `StopComesDown`,
  `ShutdownEndsTheProcess`, `CallsReturn`): outside the prover's reach;
* `Codec`: its properties are inductions over layouts and payloads, and the
  induction theorems cannot be instantiated here.

## Not modelled

Path syntax and option parsing are straight-line conversion of words to bounds
and stay out. Of the codec, what UTF-8 accepts, what `Value::create` accepts and the
bits of numbers stay out: contents pass a check or do not. The client's typed
wrappers add nothing to `call` but the choice of fields. In the server,
the validation of the configuration is left out; in the process, the failures of
`sigpending`, `sigismember` and `pthread_kill`.
Test-runtime hooks are compiled into the test build only.
