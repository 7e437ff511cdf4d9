# Verification of ez_router

ez_router is a daemon for embedded boards.  It opens the ports listed in
`config.json` (serial lines, TCP and Unix sockets, UDP, USB), forwards what one
port receives to other ports along configured routes, and keeps a registry of
subprocesses that connect to its control socket.  This directory holds TLA+
models of the daemon under `src/routerd`, the TLC configurations that check
them, and TLAPS proofs.

## 1. The system

Four threads run (`ez_router.c`): the reactor, the dispatcher, the IPC thread
and main.

| Component | State | Operations | Interacts with |
|---|---|---|---|
| event queue (`event_queue.c`) | ring, head, tail, drop counter; mutex, two condition variables | `queue_push` (waits at most 100 ms, then drops), `queue_pop` | reactor pushes, dispatcher pops |
| reactor (`reactor.c`) | epoll set, `g_port_table`, heap-allocated ports of accepted clients | accept, read, close and free, route, `reactor_add_port` | queue; shares `g_port_table` with the dispatcher, without a lock |
| dispatcher (`ez_router.c`, `router_core.c`, `port_manager.c`) | locals only | `port_find`, `port_send` | reads `g_port_table` and the ports it points to; writes to descriptors |
| control connection (`ipc_server.c`, `proto_codec.c`, `proto_dispatcher.c`) | receive buffer of the one client being served | reassemble frames, REGISTER, HEARTBEAT, ACK | registry |
| registry (`registry.c`) | 32 slots under a mutex | register, unregister, heartbeat, iterate | IPC thread, main thread |
| heartbeat check (`supervisor.c`) | none | once a second: copy the registry, report stale entries | registry |
| start (`config_store.c`, `port_manager.c`, `main`) | `g_config` | load, load plugins, open every port, add it to the reactor; save (exported, without a caller) | everything starts from it |
| plugins (`plugin_loader.c`, `plugins/filter.c`) | `g_handlers`, filled by the constructors of the libraries | register, look up; the handlers change a chunk in place | called by the reactor, for each route |
| child table (`supervisor.c`) | 32 records under a mutex | init, spawn | the kernel reaps the children |
| run state (`run_state.c`) | `g_running` | SIGTERM clears it | every loop of every thread reads it |
| logging (`log.c`) | level | print | not modelled |

What is hard here: two threads walk a table that has no lock, while entries are
freed and descriptors and heap blocks are reused at once; a condition variable
protocol with a timeout on one side; batches of epoll events that hold pointers
which earlier events of the batch may invalidate; a byte stream cut anywhere;
a clock read before the data it is compared with; full tables, full queues, no
descriptors left; peers that vanish at any moment; one buffer that every route's handler
changes; a slot chosen under a mutex and used under the next one; a flag that
threads read only between calls that may block for ever.

What makes each part correct: the queue is a bounded FIFO whose push always
returns; the port table never goes stale; pending events stay valid; the reactor
always comes back to `epoll_wait`; what is delivered is delivered in order, once,
to the configured port; the decoder stays on frame boundaries; the registry has
exactly the live connection; no false heartbeat alarm; exactly the opened ports
are served, and routes get the handlers of the file; handlers stay inside the
buffer, and bytes arrive in order; no child runs unknown to the supervisor; after
SIGTERM every thread comes to rest.  `PROJECT.json` lists the hazards line by line.

## 2. Modules

| Module | Models | Checked by | Proofs |
|---|---|---|---|
| `BoundedFifo` | what the event queue promises (abstract) | through `EventQueue` and `Forwarder` | |
| `EventQueue` | `event_queue.c`, one action per stretch of code under the mutex | `MCShutdown` | `EventQueueProofs` |
| `Shutdown` | `run_state.c`, the loops and blocking calls of the four threads, the joins; extends `EventQueue` | `MCShutdown` | `ShutdownProofs` |
| `Forwarder` | `reactor.c`, `router_core.c`, `port_find`, `port_send`, dispatcher loop; uses `BoundedFifo` as its queue | `MCForwarder` | `ForwarderProofs` |
| `RoutePipeline` | the bytes of one source port: `read`, the handlers, the message, `write` | `MCRoutePipeline` | `RoutePipelineProofs` |
| `Registry` | `registry.c`, one action per call | `MCRegistry` | `RegistryProofs` |
| `ControlPlane` | `ipc_server.c`, `proto_codec.c`, `proto_dispatcher.c`, heartbeat check; composes `Registry` | `MCControlPlane` | `ControlPlaneProofs` |
| `Supervisor` | `supervisor_init`, `supervisor_spawn`, from any number of threads | `MCSupervisor` | `SupervisorProofs` |
| `Startup` | `load_config`, `plugin_load`, `ports_open_all`, main's loop, `save_config` | `MCStartup` | `StartupProofs` |

Definitions whose name has a suffix after an underscore and whose comment says
"variant" are deliberately wrong versions of the definition that follows them;
no specification uses them.  Each property is known to fail for one of them
(`PROJECT.json`, "mutants").

**EventQueue.**  Variables carry the names of the C statics.  Everything shared
is accessed under `lock`, so the code between taking and giving up the mutex is
one action.  `push_pc` and `pop_pc` say where each thread is: about to lock,
waiting, woken (by a signal or spuriously), timed out, outside.  Time is the
single fact `deadline`: whether the absolute deadline of the current push has
passed.  A timed wait that ends with `ETIMEDOUT` is followed by a drop without a
look at the ring, as in the code.

**Shutdown.**  Each thread is at one of its blocking calls or at its loop
condition; where the condition is read right after a blocking call, both are one
step, because `g_running` never becomes 1 again.  The reactor pushes up to
`BatchPushes` messages per batch through the real steps of `EventQueue`, and the
dispatcher pops them.  The handler is installed with `signal`, so `accept`,
`recv` and the condition waits are restarted after it; `epoll_wait` returns
`EINTR` in the thread that ran the handler, which may be any.  The signal may
come before the threads have looked at the flag for the first time.

**Forwarder.**  `mem` maps addresses to `port_def_t`s: static ones for the
configuration, heap blocks that `calloc` may return again after `free`.  `fdt`
is the descriptor table; a new descriptor is the lowest free one.  The build
uses no optimisation, so each thread's accesses happen in program order; actions
are cut wherever the other thread can tell: `CloseFd`, `ClearEntry`, `FreePort`
for a disconnect; `AcceptClient` (block zeroed) and `AddClient` (block filled,
table and epoll updated) for an accept; `Scan`, `Match`, `Send`, `WriteOk` for a
delivery.  Reads of a freed or reused block return what is there.  A write to a
socket whose peer has gone, an accepted client or the far end of a configured
`tcp_client`, is lost or raises SIGPIPE.  `free()` of a static address aborts the
process.  The IPC thread appears as another user of
descriptor numbers.

**Registry.**  Parsing happens before the mutex is taken and yields the
device id cut to its field (`Trunc`), so that two different long ids can collide.

**ControlPlane.**  A byte of a stream is a pair of frame number and offset, so
the model knows whether the decoder looks at a real header.  `recv` returns any
non-empty prefix that fits.  The ACK echoes `seq`, the number in the
header decoded last, and is written or lost after the retries.
The time stored by a heartbeat is read before the mutex is taken, and the
check's `now_ms` before the entries are copied; ages are `uint64_t`
subtractions, modulo `MODULUS`.

**Supervisor.**  `Call` reads `g_inited` without the mutex; `Pick` and `Record`
are the two critical sections of `supervisor_spawn`, `Fork` lies between them,
and `Kill` after the second.  SIGCHLD is ignored, so a child that has ended is
gone at once and `Fork` may return its pid again.  Names and times are left out.
In this program main calls `supervisor_init` before it starts a thread, and
`supervisor_spawn` has callers only in the tests, one at a time.  The module lets
any number of threads call both, which is what the mutex and the second search
(`supervisor.c:85-99`) are there for: its properties are those of a later use.

**RoutePipeline.**  A byte knows where it comes from: the k-th byte the source
sent, the same in upper case, the mark of `uart_to_usb`, the terminator of the
reactor, or what the stack held.  `ReadData` and `ReadEnds` are the two outcomes
of `read`: any part of a stream, a whole datagram, the end, an error.  A handler
is a function of the buffer and the length to a buffer and a result, which is
clamped to the size of the message; besides the two of `filter.c` there are one that rejects, one that returns nothing, and one
that breaks the contract of `plugin_loader.h`.  `RouteOne` is one turn of the
loop over the routes, with `queue_push`.  A write to a socket takes all, to a
`tty` any part, to UDP nothing, and any write may fail.

**Startup.**  A file is its three arrays.  `Parsed` reads an array up to the size
of its table, `LoadPlugin` is main's loop over `plugin_load`, whose libraries
register their handlers when they are loaded for the first time (`Registered`),
and `GetHandler` is the lookup of the reactor.  `ParsePort` and `SavePort` translate the two halves of
`config_store.c` for one port, `OpenPort` and `AddPort` the loops of
`ports_open_all` and `main`.  Failures of `connect` and `bind` that the code
ignores count as opened.  Nothing in this program calls `save_config`; `SaveConfig`
and `SaveFails` are a call at any time after the start, the second one with the
file emptied by `fopen` and a write that fails unnoticed.  With every port opened, its final state is the initial
state of `Forwarder`: port *k* on descriptor *k* in entry *k*.

## 3. Runs that pass

| Run | Bounds | Shows |
|---|---|---|
| `shutdown` | ring of 3 slots, 2 messages, 2 pushes in a batch, 1 drop | `LifeTypeOK`; `NoLostWakeup`; `ImplementsFifo` (refinement of `BoundedFifo`); `PushReturns`, `QueueServed`, `Settles`, `StopsOnTraffic` (liveness) |
| `forwarder_table` | 3 connections, 5 descriptors, 4 entries, batches of 2 | `TableCoherent`, `PendingEventsValid`, `LeakOnlyWhenFull` |
| `forwarder_delivery` | 1 connection, 2 chunks, queue of 2, two routes from one source, one with a plugin and to UDP, one back to a client | `TypeOK`, `OrderPreserved`, `LeakOnlyWhenFull`; `ReactorResponsive`, `DisconnectNoticed` (liveness) |
| `registry` | 2 slots, 3 descriptors, 4 ids of which 2 collide | `TypeOK`, `UniqueEntries`, `EntryKeepsIdentity` |
| `control` | 2 clients one after the other on the same descriptor, 2 frames together, every kind and cut, header 2, payload up to 2 bytes, 3 clock values, timeout 1, arithmetic modulo 16 | `TypeOK`, `DecoderAligned`, `BufferNeverStuck`, `RegistryFollowsConnection`, `AcksArePaired`, `NoFalseAlarm`; `ServedClientAnswered`, `WaitingClientServed` (liveness) |
| `startup` | files with more ports, plugins and routes than fit, three libraries that share handlers and one that cannot be loaded, in every order and number, 4 handler entries for up to 7 handlers, 2 free descriptors | `TypeOK`, `OpenedPortsServed`, `HandlersResolve`, `SavedConfigReloads` |
| `supervisor` | 3 threads, 2 slots, 4 pids | `TypeOK`, `NoOrphans`, `KilledOnlyWhenFull`, `RecordsAreKept` |
| `pipeline` | 4 bytes, buffer and message of 3, queue of 2, three kinds of source, 19 lists of two or three routes | `TypeOK`, `BufferKept`, `NoJunk`, `BytesInOrder` |

Why the bounds are enough to be interesting.  A ring of three slots wraps, is
full and is empty, and a batch of two pushes fills it; the proofs cover every
size.  In `forwarder_table` three
connections compete for two spare descriptors and one spare table entry, so
descriptors, blocks and entries are reused, `accept` fails, and a client is
accepted with a full table; a batch of two is enough for one event to invalidate
the other.  In `forwarder_delivery` two chunks, each for up to two routes, fill
the queue of two, and drops happen at any fill level; the control connection
competes for the descriptors.  In `control` the buffer holds exactly the largest
frame, so every cut and a full buffer occur.  The clock passes the
timeout of a stored heartbeat, so alarms are raised, and heartbeats are stored
between the check's look at the clock and its copy.  In `startup` two libraries that
provide the same handler fit into the handler table together, and all three do not.  In `supervisor` three threads can
choose the same of two slots, and the third finds the table full after its fork;
four pids are enough for one to come back.  In `pipeline` a read fills the buffer
up to the free byte, `uart_to_usb` fills that one too, up to three times on the
same chunk, and four bytes are at least two chunks.  Bounds are named constants
(`MaxDrops`, `BatchPushes`, `MaxData`, `MaxFrames`, `MaxTime`, `MaxBytes`,
`NFds`, `NHeap`).  Symmetry is used only in `forwarder_table`, over connections,
and `supervisor`, over threads, for safety properties.

Deadlock is checked for `Registry` and `Startup`.  In the others the system may
really stop: peers fall silent after a bounded number of steps and the threads
then wait, the process may die (`Forwarder`) or end (`Shutdown`), and pids may run
out (`Supervisor`).  What must nevertheless happen is stated as liveness.

## 4. Runs that find a disagreement

Each checks one sentence of the repository's comments or documents that the code
does not live up to.  The quotations are in `PROJECT.json`, "findings".

| Run | Property | What happens |
|---|---|---|
| `forwarder_misdelivery` | `DeliveredToDst` | the descriptor `port_send` has read is closed and reused before `write` |
| `forwarder_killed` | `KeepsRunning` | writing to a client that has gone raises SIGPIPE |
| `shutdown_hangs` | `StopEndsDaemon` | after SIGTERM the reactor ends, nobody wakes the dispatcher in `queue_pop`, and main waits in `pthread_join`; this happens with traffic on every port and every client (`BusySpec`) |
| `pipeline_raw` | `RawRouteUnchanged` | a route without a handler carries what the handler of the route before it left in the buffer |

Other disagreements were met while translating the code.  The models contain
them, and no run is spent on them:

* A push that timed out is dropped even when the dispatcher made room before the
  mutex was taken again (`event_queue.c:45`); `event_queue.h:13` says the queue
  stayed full all the time.  `Drop` of `BoundedFifo` is enabled at any fill level.
* The reactor frees a port which the dispatcher has just found in the table
  (`reactor.c:147`), although `port_manager.c:369-370` leaves `close()` to the
  reactor to avoid racing.
* A client accepted while the table is full gets no entry, and the clean-up, which
  looks for it there, never frees its port (`reactor.c:248`, `reactor.c:140`);
  `RPD.md:111` marks the freeing done.  `LeakOnlyWhenFull` names the case as its one
  exception, and `forwarder_table` reaches it.
* `proto_dispatch` and `handle_client` ignore a lost ACK (`proto_dispatcher.c:107`);
  `proto_dispatcher.h:17` announces a disconnect.
* `save_config` looks at the result of neither `fopen` nor `fwrite`
  (`config_store.c:380-382`) and always returns 0.  A failed `fopen` crashes the
  daemon with the file as it was; a failed write leaves an empty file, `SaveFails`.
* `save_config` has no case for ipc ports (`config_store.c:350`, against line
  288): such a port comes back as a `tty` without a path.  `SavedConfigReloads`
  leaves them out.
* `port_find` skips listening ports, so `port_send` never gets a `tcp_server` port
  and the broadcast promised in `port_manager.c:345-352` is unreachable: only the
  first client in the table gets the message.
* A `tcp_client` of `config.json` has the type of an accepted client, so when its
  connection ends `free` gets an address inside `g_config` (`reactor.c:145`,
  although line 144 wants only dynamic clients freed).  `FreeAborts` is this step;
  `forwarder_table`, which has such a port, takes it.
* An idle client keeps all others waiting (`ipc_server.c:132`), while
  `proto_dispatcher.c:5` promises an ACK for every REGISTER.
  `WaitingClientServed` therefore assumes that the client being served leaves.
* `port_send` writes nothing to a UDP port and returns 0 (`port_manager.c:418`).
* A short write to a `tty` is not reported and not repeated (`port_manager.c:392`).
* An empty UDP datagram closes the port as a "disconnected client"
  (`reactor.c:133-134`).
* `supervisor_child_count` counts ended children too, since no record is ever
  removed; `supervisor.h:70` says active children.  And the pid given to `kill`
  (`supervisor.c:99`) may already belong to another process, because SIGCHLD is
  ignored.
* A `tty` port without its sub-object skips `fd = -1` (`config_store.c:119`, 171)
  and puts descriptor 0 into the table.  `OpenedPortsServed` leaves it out.

## 5. Fairness

* `Shutdown` (`LifeFairSpec`): a thread that is not inside a blocking call gets the
  processor, and the mutex when it needs it (each of `InPush` and `InPop` stays
  enabled until it happens: the mutex is held only within a step), the deadline
  passes, `sleep` returns.  Nothing is assumed of ports, clients and the handler:
  `epoll_wait`, `accept`, `recv` and a write may last for ever, and no spurious
  wakeup is assumed.  `StopsOnTraffic` names what it needs beyond that
  (`PortTraffic`, `IpcTraffic`), and `StopEndsDaemon` is refuted under all of it.
* `Forwarder`: weak fairness of the reactor thread as a whole.  It covers
  `Push`, which is justified by `PushReturns`.  Nothing is assumed of the
  dispatcher and of the peers.
* `ControlPlane`: weak fairness of the IPC thread; no promise to a client depends on
  main.  Clients may be silent for ever.  `WaitingClientServed` names what it needs
  beyond that: no client that is being served stays connected for ever.

## 6. Proofs

`EventQueueProofs` proves for every `QSIZE >= 2`, every set of messages and every
bound on drops:

* `TypeCorrect`: `Spec => []TypeOK`;
* `WakeupsAreNotLost`: `Spec => []NoLostWakeup`;
* `QueueImplementsFifo`: `Spec => ImplementsFifo`.

The inductive invariant is `IInv`: the type invariant; `ThreadsHold` (a thread
holds a message exactly while it is inside the operation, and a push in progress
still has room in the drop counter, without which the counter could leave its
type); `SlotsWritten` (every slot between head and tail holds a message, without
which the ring's contents could not be a sequence of messages); and
`NoLostWakeup`.  The refinement maps the ring to `Contents`, the messages from
head to tail.  `CountFacts` relates the modulo arithmetic of the code to the
length of that sequence; `EnqueueFacts` and `DequeueFacts` say what a push and a
pop do to it; `EnqueueAccepts` and `DequeueTakes` conclude that these steps are
the abstract `Accept` and `Take`.  All other steps are `Offer`, `Drop`, `Finish`
or stutter.

`RegistryProofs` proves for every number of slots, every set of descriptors and
every function `Trunc`: `TypeCorrect`, `EntriesAreUnique` (`UniqueEntries`) and
`IdentityIsKept` (`EntryKeepsIdentity`).  Uniqueness needs only the type of
the table beside it: `Admits` looks at all slots before one is filled.

`ShutdownProofs`: `LifeImplementsQueue` shows that the daemon with its signals
and joins takes only steps of `EventQueue` (`LifeSpec => Spec`), so that its
theorems carry over: `LifeKeepsWakeups` (`NoLostWakeup`), `LifeImplementsFifo`
(`ImplementsFifo`) and `LifeTypeCorrect` (`LifeTypeOK`).

`SupervisorProofs` proves for every table size and every set of threads and pids
all properties of the run: `TypeCorrect`, `ChildrenAreKnown` (`NoOrphans`),
`KilledForRoom` (`KilledOnlyWhenFull`) and `RecordsStay` (`RecordsAreKept`).  The
strengthening is `InitFirst` (nobody gets past the initialisation before it has
happened, so that its `memset` clears an empty table) and `Carried` (a caller in
the second critical section has a slot and a pid).

`RoutePipelineProofs` proves for every size of buffer, message and queue and every
list of routes: `TypeCorrect` (with it, that no message outgrows `event_msg_t`),
`HandlersStayInside` (`BufferKept`) and `MessagesAreClean` (`NoJunk`).  The invariant adds `Filled`: the first `len`
bytes of the buffer were read or written.  `HandleFacts` says what each handler
does to a buffer filled in this way; it holds again for the next route because
the reactor passes the length that was read, not the one a handler returned.

`KeepsOrder` (`BytesInOrder`) needs a second invariant, `OInv`.  `Line` puts
everything on its way to a destination into one order (what it has got, then the
queue) and says that the positions of the source's bytes grow along it; `Fresh`
that the buffer holds bytes in order, newer than all that was pushed to the
destinations of the routes still to come; `Apart` that these routes have different
destinations.  Its hypothesis is `RoutesApart`: no source has two routes to one
destination.  With two the destination would rightly get the chunk twice.

`ForwarderProofs` proves every safety property of the two passing `forwarder`
runs, for every configuration, table, batch and queue size and any number of
descriptors, heap blocks, connections and chunks:

* `TypeCorrect` (`TypeOK`), `NeverStale` (`TableCoherent`), `EventsStayValid`
  (`PendingEventsValid`) from `IInv`.  None of the three is inductive: a table
  entry is right only because `interest` is, and that only because a descriptor
  leaves the epoll set before its number can be given out again.  `IInv` therefore ties the
  structures together: `Polls` (what epoll watches is an allocated port with this
  descriptor, opened for the file the descriptor refers to), `Opened` (no file has
  two descriptors), `ClientPorts`, `Entries`, `Pending` (the ports in `evs[]` are
  polled and all different) and `Locals` (what the half-done accept or disconnect
  has reached).  All but the types holds while the process lives; `TableCoherent`
  is stated for a living process, since a SIGPIPE may end it between `close` and
  the clearing of the entry.
* `LeaksOnlyWhenFull` (`LeakOnlyWhenFull`) has no hypothesis: a full table is the
  exception the property itself names.  `HeldFacts` uses `Entries` to say that a used
  entry is one that still works or the one being taken down; `KnownStep` follows
  the entry of a client through every step of the reactor.
* `InOrder` (`OrderPreserved`) adds `Line` (messages written, the one the dispatcher
  has, those queued, the one being pushed, oldest first), `Numbered` (a message
  is of a chunk that was read, and of an older one than the chunk being routed if
  a route to its destination is left) and `OneSource` (the routes left are of one
  source).  Its hypothesis is `RoutesDiffer`: no route stands twice in
  `config.json`.

The hypothesis holds in `MCForwarderDelivery.cfg`, where TLC checks the same
property and where the inductive invariants were checked before they were proved.

`ControlPlaneProofs` proves every safety property of the run `control`, for any
number of clients, slots and frames, every header and payload size and every cut
of the streams: `TypeCorrect`, `AlwaysAligned` (`DecoderAligned`), `NeverStuck`
(`BufferNeverStuck`), `FollowsConnection` (`RegistryFollowsConnection`), `Paired`
(`AcksArePaired`) and `NeverFalse` (`NoFalseAlarm`).  The core is `Cut`: the bytes in
the receive buffer followed by those in the socket are whole frames, from the
first one not dispatched to the last one sent.  `CutSend` and `CutConsume` say that
sending a frame and the `memmove` keep it; receiving any prefix moves bytes from
one to the other.  `Registered` and `Acks` say slot by slot and ACK by ACK where
they come from, and `Echoed` that the `seq` in hand is that of the frame dispatched
last.  `NeverFalse` is about the arithmetic modulo `MODULUS`: a heartbeat later than
`now_ms` gives a huge unsigned age, and only the guard of the check keeps it from
being reported.  `RegistryUsed` proves `Spec => Reg!Spec`: the IPC thread and the
check take only steps of `Registry`, with times and descriptors it allows, so the
theorems of `RegistryProofs` hold in the composed system.

`StartupProofs` proves every property of the run `startup`, for every file, every
table size, every set of plugins, every number of descriptors and any number of
restarts: `TypeCorrect`, `PortsServed` (`OpenedPortsServed`), `FirstProvides`
(`HandlersResolve`) and `Reloads` (`SavedConfigReloads`).  `Owned` says that ports
and descriptors refer to each other, `Added` what the loop over
`reactor_add_port` has done so far (with it, `EPOLL_CTL_ADD` can fail for standard
input only, and the table never overflows, because `ports_open_all` opened no more
than `MAX_PORTS` ports).  `Origins` and `Complete` describe `g_handlers` in the middle of
main's loop: entries of earlier plugins come first, what the first n plugins
provide is all there if it fits, and a plugin has entries only if those before it
are complete.  The theorem covers a table that is full: then such a handler is missing, but a
later plugin never takes its place.  `FileIsSaved` connects the file with what was saved.

The assumptions are the named `ASSUME`s of the modules, which TLC evaluates in
every run, and the two hypotheses above (`RoutesApart`, `RoutesDiffer`).  What the
assumptions say of data is only its shape (ports, routes and files are records of
strings); besides, sizes are natural numbers and not 0 where the code would divide
by them or wait for ever, what `read` returns fits into a message
(`MessageAssumption`: `MAX_DATA` is `sizeof(buf)`), the ports of `config.json` fit
into the table, and `calloc` finds a block.
`Min` of a set of numbers occurs wherever the code takes the first that fits; that
it exists (`LeastNat`) comes from the library's theorem that `<` on `Nat` is
well-founded.  `tlapm` does not know that a string literal is in `STRING`;
`FileTypes` of `Startup` names the literals for that reason.

Only model-checked: the liveness properties (`PushReturns`, `QueueServed`,
`Settles`, `StopsOnTraffic`, `ReactorResponsive`, `DisconnectNoticed`,
`ServedClientAnswered`, `WaitingClientServed`).  Three things are outside the
prover's reach and stay with TLC: liveness under fairness and `ENABLED`; induction
over data (so `HandlersResolve` counts what the plugins provide with
`Cardinality` instead of a sum over a set, and `BytesInOrder` is stated by
positions instead of filtered sequences); and modules that use `RECURSIVE`
operators (there is none here).

## 7. How to run

    tlc -config MCShutdown.cfg MCShutdown
    tlc -config MCForwarderTable.cfg MCForwarder
    tlapm EventQueueProofs.tla

and so on; `PROJECT.json`, "runs", names module and configuration of every run.
The longest, `control`, takes two to three minutes.

## 8. Not modelled, and plan

Left out for good:

* logging, `config_print`, `plugin_list_handlers`: output only;
* termios settings, byte order and packing of headers, the cutting of long
  strings to their fields in `config_store.c` and `plugin_loader.c`;
* the vendored cJSON: what it returns is an input;
* `port_map.c`, `router_link.c` and the unused functions of `reactor.c` and
  `port_manager.c`: nothing calls them, or their bodies are commented out;
* the SDK and the examples: they speak an older protocol, whose frames are
  refused (the frame with a wrong magic in `control`), and one example uses names
  the SDK does not have.

Planned:

1. The seam between the models: that the final state of `Startup`, with every
   port opened, satisfies what `Forwarder` starts from, as a theorem.
2. The safety half of the liveness properties, for example that a thread that waits is
   always one somebody can wake.
