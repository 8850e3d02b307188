# TLA+ models of JHRPC

JHRPC is a small C++ RPC framework on Boost.Asio: a client, a server with its
network layer and thread pool, and service discovery over ZooKeeper. This
directory models it, checks the models with TLC and proves their safety
properties with TLAPS.

* [The system and what models it](#the-system-and-what-models-it)
* [How the modules correspond to the code](#how-the-modules-correspond-to-the-code)
* [Runs](#runs), [bounds](#bounds) and [fairness](#fairness)
* [Where the code and its documentation
  disagree](#where-the-code-and-its-documentation-disagree)
* [Proofs](#proofs), and what is [only model-checked](#only-model-checked)
* [Not modelled](#not-modelled)

Paths are relative to `src/src` unless they begin with `md/`, `readme.md` or
`include/`, which are relative to `src`.

## The system and what models it

A client (`RpcClient`) opens one TCP connection and multiplexes calls over it:
any thread calls `call()`, which registers a promise under a sequence number and
queues a frame; one io thread writes frames, reads responses and satisfies
promises. On the server, `MessageCycle` runs the `io_context`: it accepts
connections, hands each to the `ConnectionManager`, and lets `Connection` read
frames. `RpcServer` gives each request to the `ThreadPool` (or handles it on the
loop thread), where `ServiceManager::dispatch` finds the service, and the answer
goes back through `Connection::send` from whichever thread has it.
`server_main.cpp` ties server, pool and signals together; `client_main.cpp` is a
client with an interactive and a stress mode. `NodeManager` finds servers with
`ServiceRegistry`, which waits for one operation of `zk_client` at a time, and
chooses one with `LoadBalancer`; the programs shipped do not yet join them to the
client. Around this are the two wire formats, serializer, compression and
encryption, configuration, logging and the pool singleton.

| Part | Source | Module | Proved |
|---|---|---|---|
| Thread pool | `thread_pool/thread_pool.*` | `ThreadPool`, `Executor` | `ThreadPoolProofs` |
| Client | `core/rpc_client.*` | `RpcClient` | `RpcClientProofs` |
| Server connection | `network/connection.*` | `Connection` | `NetworkProofs` |
| Connection manager | `network/connection_manager.*` | in `Connection`, `MessageCycle` | with them |
| Accept loop, stop | `network/message_cycle.*` | `MessageCycle` | `NetworkProofs` |
| Server process | `server_main.cpp` | `Boot`, `ServerMain` | `NetworkProofs` |
| Request handling | `core/rpc_service.*` | `RpcServer` | `ClientMainProofs` |
| Services | `service/service_manager.*` | `ServiceManager` | `ClientMainProofs` |
| Client program | `client_main.cpp` | `Boot`, `ClientMain` | `ClientMainProofs` |
| Pool singleton, logger | `thread_pool/thread_pool_singleton.*`, `load_config/log_init.*` | `Globals` | `LibraryProofs` |
| Configuration | `load_config/load_config.*` | `Boot` | `LibraryProofs` |
| ZooKeeper client | `include/zk_client/zk_client.hpp` | `ZkClient` | `NodeManagerProofs` |
| Registry | `registry/service_registry.*` | `ServiceRegistry` | `NodeManagerProofs` |
| Node manager | `registry/node_manager.*` | `NodeManager` | `NodeManagerProofs` |
| Load balancer | `conn_balancer/*` | `LoadBalancer` | `LoadBalancerProofs` |
| Wire formats | `protocol/*`, `include/zk_client/zk_proto.hpp` | `Wire` | `WireProofs` |
| Payload layers | `serializer/*`, `compress_data/*`, `encrypt/*` | `Payload` | `LibraryProofs` |

The modules compose by extension, along the calls in the code:

    ServiceManager <- RpcServer <- ClientMain        requests, from call to answer
    MessageCycle   <- ServerMain                     the event loop in its process
    ZkClient <- ServiceRegistry <- NodeManager -> LoadBalancer
    Wire, Payload, Globals, Boot <- Library          one run for independent parts
    Executor <= ThreadPool                           refinement, by INSTANCE

Each of `RpcClient`, `Connection` and `ThreadPool` is by itself: what the modules
above see of them is what their properties say (one answer in order, tasks run
once, a call registered after the read loop has ended is not rejected).

The configurations instantiate the specifications directly: the constants are
bounds and sets of model values. Definitions called `Fault_*` are wrong versions
of the definition that follows them. They are no part of a specification; each
shows a mistake that one of the properties would catch.

## How the modules correspond to the code

Variables ending in `_` are the members of the same name. A completion handler of
the `io_context` is one action: what it touches outside the mutexes belongs to the
io thread. Functions that run on other threads are split where another thread can
come between.

**ThreadPool.** `tasks_`, `stop_`, `pending_count_`, `active_tasks_` and
`completed_` are members; `mux_` is its holder. `wpc` is the position of each
worker in `worker_loop`, one action for each statement outside the mutex
(`WorkerPop` ... `WorkerNotifyDrain`), since drains and other workers run between
them. A critical section is one action, except that `drain()` holds `mux_` between
testing its predicate and waiting: the predicate reads `active_tasks_`, which
workers change without `mux_`. Spurious wakeups are actions. A running task may
call `enqueue`, also while the destructor runs. Each task is submitted at most
once, each drainer drains once. `Executor` is the pool as its user sees it: tasks
are accepted, executed once, the executor closes, and goes away when all are
executed. The mapping takes the tasks that have run for `executed`, and the
progress of the destructor for `phase`.

**RpcClient.** `call()` is four actions (`Draw`, `Register`, `EnqueueWrite`,
`CallerWrite`): `next_seq_id_++` is atomic but outside `pending_mux_`, so calls may
register in another order than they drew their numbers. `disconnect()` is two: between
closing the socket and stopping `ios_`, handlers run. `outcome` and `settles` are what
became of each future and how often. The sequence number is modulo `SeqMod`, which
stands for 2^32. The peer (`Answer`), the delivery of a failed write (`MayHaveArrived`)
and the socket are external: a write may fail at any time and its frame may have
arrived; a read may fail at any time; answers come in any order, each once. A second
`connect()` over a joinable `io_thread_` terminates the process, so it has no step.

**Connection.** Request *n* is the *n*-th frame read, and its answer is frame *n*.
`send()` is three actions (test of `closed_`, the critical section, `do_write`), each
possibly on another thread than the rest of the connection. `close()` is split at its
exchange of `closed_`, and so are the error branches of the handlers: `CloseOnError`
sets `closed_`, `Remove` calls `on_close_`, and closers run between the two. A closer is
a thread in `MessageCycle::stop()`: after `close_all()` it stops the `io_context`
(`CloserStops`), and no handler begins any more. The peer may go away (`PeerLost`) or
stop reading (`PeerStalls`). The connection is destroyed (`Destroy`) when the manager,
the handlers, the tasks and the closers have let go of it; this is what `shared_ptr`
does.

**MessageCycle.** `conns` gives each connection's place: in the manager, in the
snapshot of one `close_all()`, or closed. `stop()` is one action per statement
and is called by the owner, repeatedly, or by the handler of the signal set on
the loop thread. `async` says whether the loop runs in `worker_`, `unix` whether
`run()` registers the signal set. `Listen` is one step: a `stop()` in its middle
either makes a later call throw (`ListenThrows`) or is like one just after it.
`accepting = "doomed"` is an `async_accept` on a closed acceptor, which can only
fail.

**ServerMain** extends `MessageCycle` with the main thread, `g_running`,
`RpcServer::running_`, the destructors and the disposition of SIGINT: main
installs its handler, on Unix the signal set of `run()` replaces it. `mpc =
"embedded"` is another program that owns a `MessageCycle` and stops it whenever it
likes, blocking or in the background.

**ServiceManager, RpcServer.** A client has one request outstanding, so a task is
named by its client and goes through phases: `arriving` (the frame was read),
`queued` (in the pool), `begun`, `found` (`get_service` has returned), `replying`,
`answered`, or `thrown` (an exception that is no `runtime_error`, lost in the
future of the pool task). `link` is the network between client and server and `conns`
what the server has of it: each side learns by itself, and later, that a connection is
broken. The loop thread sets `closed_` (`conn_error`) before it removes the entry
(`remove`); `server.stop()` takes its snapshot (`stop`), closes one connection after the
other (`close`) and stops the loop (`stop_ios`), while workers go on. `process_request`
is split at the look-up, because `register_service` and `unregister_service` can come
between it and the handler.
The code of an error is found in its text, as in the code. `seen` is a history
variable: what was registered under the service's name since the call. The pool is
declared before the server in `server_main.cpp` and destroyed after it, so queued
tasks run on a destroyed server; what `Stats` then reads is undefined: 0 stands for
any number, and the process may end.

**ClientMain** adds the programs: `connect`, the three calls that the interactive
mode begins with, the loop of `Ping` calls, and what each loop counts. A client in
`Users` is some other program, which sends anything, including a body that does not
parse. A connection in `Fragile` may break by itself (`Lose`). When the read loop finds out
it rejects the call outstanding (`ReadLoopEnds`); a call made after that (`fate` is
`"late"`) is answered only if its write fails (`WriteFails`).

**ZkClient, ServiceRegistry.** An operation has a kind, a phase (where its chain of
handlers is) and an xid. `Poll` is one `poll_one()` of the loop in which the
registry waits. `guarded` says whether the program keeps a work guard on the
`io_context`; without one it stops when its last handler returns. The ZooKeeper
server is external: two directory levels with service nodes below, other sessions
that come and go, and this session, which expires because the client sends no
pings. Each registry function is the operation it starts (`call`) and the value
that it makes of the result (`ret`), including the failure of `connect()` and
`remove()` that is reported as success (see the observations below).

**NodeManager, LoadBalancer.** `refresh_nodes` is a listing followed by one
`get_data` per node, with other sessions changing the tree in between; `seen` is
the history of what the tree held meanwhile and `cut` says that an operation
failed. A strategy is its name and, for round robin, `counter_`. A random number is
any number of its range. `user = "balancer"` is a program that uses a
`LoadBalancer` by itself.

**Wire.** A message is a sequence of fields, written by one `write_*` step each and
read by one `read_*` step each. A byte is a digit of base `B`, so integers keep
their width in digits, and a 16-bit length overflows at `B`^2. The base is even, so that
half of the numbers of a signed type are negative; the lengths that the ZooKeeper
client reads are signed, those of the RPC protocol are not. The other end of
the ZooKeeper messages is external: the server reads requests and writes responses
in the order of ZooKeeper's own format, Jute.

**Payload.** A string is a term; compressing and encrypting wrap it, and only the
inverse with the same key and IV unwraps it. The calls into OpenSSL are steps that
may fail, because the question is whether the context is released on every path. The
strings that are allocated between those calls may fail as well (`NoMemory`).

**Globals.** `call_once` with several threads, of which any may throw; a logger is
assigned before level and pattern are set, and the initializer may also throw between
the two or when it registers the logger (`ConfigureThrows`). The pool is made in one step.

**Boot.** The command line is a sequence of arguments, each an option, a number or some
other text. As in the loops of both programs, an option takes the next argument for its
value, whatever it is (`Takes`), so `--config --port 9000` names a file `--port`. Then
the configuration file (missing, malformed, or any set of sections, one of them possibly
of the wrong type, the server's section with any of its keys), logger, pool and
registration. Numbers are cut to 16 bits, those of the command line and those of the file.

## Runs

Each run checks exactly the properties that its `.cfg` names.

| Run (`.cfg`) | States | Safety | Liveness |
|---|---|---|---|
| `pool` (`ThreadPool`) | 85,284 | `TasksConserved`, `CountersExact`, `NoLostWakeup`, `DrainLeavesNothingQueued`; `KeepsPromise`: the pool implements `Executor` | with its liveness: accepted tasks run, the destructor returns |
| `client` (`RpcClient`) | 207,521 | `SingleWriter`, `WireFifo`, `SettledOnce`, `NoOrphan`, `ResponseMatches`, `RejectSettlesAll` | `FramesWritten`, `CallsSettle` |
| `connection` (`Connection`) | 87,084 | `SingleWriter`, `WireFifo`, `ClosedOnce`, `NoStaleEntry` | `QueuedIsSent`, `Reclaimed` |
| `main` (`ServerMain`) | 11,410 | `StaysUp`, `ExitClosesAll` | `LoopEnds`, `CtrlCStopsWindows` |
| `system` (`ClientMain`) | 2,171,094 | `AnswerExplained`, `TallyTrue`, `Answered` | |
| `discovery` (`NodeManager`) | 207,863 | `PendingExact`, `RefreshExplained`, `CacheInSync`, `RegisteredStays`, `StrictRotation`, `WeightedShare` | `CallsReturn` |
| `library` (`Library`) | 181,388 | `RoundTrip`, `ReadsInBounds`, `ContextReleased`, `Recovers`, `GotUsable`, `StartsAsTold` | `GetsReturn` |

What they show, in short:

* *pool*: no task is lost or run twice, whatever workers, submitters, drains and
  the destructor do between one another's statements; no wakeup of a worker is
  lost; `drain()` leaves nothing queued that was submitted before it.
* *client*: one write at a time and in order; a promise is satisfied once, by
  whichever of response, failed write, read error, displaced entry and destructor
  comes first; a response goes to its own call, or, once
  `next_seq_id_` has gone round, to another one of the same number, but never away from
  a call that still waits for it.
* *connection*: the same for the answers of many threads; of the ways in which a
  connection can be closed, one takes effect; a closed connection is in the manager only
  while the io thread is about to remove it, and is destroyed in the end, unless the
  `io_context` is stopped first or a peer that does not read holds up its last write.
* *main*: the loop ends only if stopped, and then it does; an orderly exit leaves no
  connection open, even one accepted while `stop()` ran.
* *system*: an answer agrees with some state of the registrations between call and
  answer, or with the handler's own text; the loops of `client_main.cpp` count each call
  once, as failed only for a reason; when
  nothing is left to run, nobody waits for an answer, with two exceptions, which
  the property names.
* *discovery*: a refreshed list is made of what ZooKeeper held while it was made;
  registrations last as long as the session; selection is fair.
* *library*: what is read is what was written, for every kind of message and within
  the limits that the property names; payload layers can be undone, and their contexts
  are released unless an allocation fails; the globals are made once, and again only
  after an initializer threw; the programs start with the port, the sections and the
  workers that arguments and file say, as the two loops read them.

### Bounds

| Run | Bounds | Why they are enough |
|---|---|---|
| `pool` | 2 workers, 1 client, 1 drainer, 3 tasks | a lost wakeup needs a worker that sleeps and one that runs; the third task is queued while two run, or submitted by one that runs |
| `client` | 3 calls, 2 numbers, 1 connect | a race for `writing_` needs a holder and two contenders; one call more than there are numbers displaces an entry |
| `connection` | 3 requests, 2 closers | the same, and `close_all()` racing itself |
| `main` | 3 connections, 2 presses of Ctrl+C, both platforms, blocking and in the background | a connection before, in and after the snapshot of `close_all()`; the second press meets the disposition that the first has left |
| `system` | `client_main.cpp` in either mode and another client, 1 worker, 3 registrations, 1 `Ping` in the loop; the connection of the program may break, that of the other client only by the end of the server | a second client fills the only worker while a service is replaced under the first; the interactive mode makes 4 calls, before, at and after the loss |
| `discovery` | 2 nodes, of which others have registered none, one or both; 3 operations after each other, 1 change that happens by itself (another instance, a loss, the end of the session); lists of up to 3 nodes with weights up to 2, 4 picks | a refresh is a listing and two reads, with the change before, between or after them; a registration, a listing and a read fit as well; 4 picks go past one round of 3 |
| `library` | bytes of base 4, strings of 0, 2 and 17 bytes; up to 3 layers on a serializer; 3 threads and 4 uses; ports modulo 8; command lines of up to 3 arguments of all kinds, and of up to 5 of `--port`, `--config` and a number, with each kind of file, or no arguments and any set of sections, wrong section and keys | 17 is longer than two digits of base 4 can say, as 65,536 is than two bytes; one thread initializes, one waits, one comes late; an option that swallows another which has a value takes 3 arguments, a chain of them 5 |

For the safety properties that are proved, the proofs remove the bounds. Deadlock is
checked for the pool, whose behaviour ends in a stuttering final step; the other
systems really may stop (the peer is gone, the process has ended, the operations
that the bound allows are used up), and their configurations say so.

### Fairness

Fairness is assumed only of steps that the code takes by itself.

* *Threads run.* A worker, a caller between its steps, a closer, a stopper or main
  takes its next step in the end. The workers and drainers of the pool compete for
  `mux_` with threads that may come back for it again and again; that they are not
  passed over for ever is strong fairness, which the mutexes of the platforms
  provide in practice and the standard does not demand. Elsewhere weak fairness
  is enough.
* *Operations end.* A started write, resolve or connect completes, well or badly (in
  `Connection`, a write to a peer that has stopped reading only when the socket breaks
  or is closed); a read on a closed or broken socket fails. This is Asio's promise. A
  read on a healthy connection need not complete.
* *The peer answers* what it was sent (only `CallsSettle` needs this), and ZooKeeper
  executes what it received (`CallsReturn`); the connection to it may break.
* *The polling loop* of the registry runs what is ready.
* Nobody is obliged to submit, call, connect, drain, disconnect, register, stop or
  press Ctrl+C.

`Answered` is stated without fairness, as an invariant: if neither the server nor a
read loop can take a step of its own, nobody waits. A request has finitely many
steps, so with fair scheduling that state is reached. It has two halves.
`NobodyForgotten` says the same with the guards of those steps (`Going`) in place of
`ENABLED`, and is proved; that one of the guards enables one of the steps is left to TLC.

## Where the code and its documentation disagree

These runs are expected to be violated. Each states what a comment or document says.

| Run (`.cfg`) | Property | What TLC finds |
|---|---|---|
| `pool_drain_hangs` (`ThreadPoolDrainReturns`) | `DrainReturns` (`thread_pool/thread_pool.h:33`) | the last worker decrements and notifies between `drain()`'s test and its wait: it sleeps for ever |
| `client_reconnect` (`RpcClientReconnect`) | `ConnectSettles` (`core/rpc_client.h:30`) | after `disconnect()` the `io_context` stays stopped: the future of a second `connect()` is never satisfied |
| `cycle_stop_race` (`MessageCycleStopRace`) | `StopDisconnects` (`md/network.md:179`) | a connection is accepted after the snapshot of `close_all()`: `stop()` returns with it open |
| `main_unix` (`ServerMainUnix`) | `CtrlCStops` (`readme.md:323`) | the signal set replaces main's handler, `g_running` stays true, main never ends |
| `registry_hangs` (`NodeManagerHangs`) | `CallsReturn` (`registry/service_registry.cpp:20`) | without a work guard the `io_context` stops once `connect()` has completed, nothing restarts it, and the next call polls for ever |

`registry_hangs` rests on Boost.Asio's contract and its scheduler for Unix; it is not
claimed for the completion ports of Windows. The run `discovery` has the work guard.

Smaller observations, made while modelling and without a run of their own:

* `drain()` can also return early: a worker that has popped a task and not yet
  counted itself active is not waited for (`thread_pool.cpp:46-48`, `thread_pool.h:33`).
  `DrainLeavesNothingQueued` states what does hold.
* `pending_count()` includes the tasks that are running (`md/thread_pool.md:77` says
  those waiting); `CountersExact` says what it counts.
* A call has no timeout (`md/rpc_protocol.md:127`), and `disconnect()` leaves the
  futures of pending calls waiting until the destructor.
* `result<void>::make_error` leaves `has_err_` false, so a failed `connect()` or
  `remove()` of the ZooKeeper client is reported as success
  (`md/service_registry.md:79`).
* `select_node()` still throws when the list is empty after its refresh
  (`md/node_manager.md:125` says that the refresh avoids it); `RefreshExplained` says
  when that can be.
* Pool tasks outlive the server that they refer to (`server_main.cpp`); see `RpcServer`.
* After `run_async()` on Unix the signal handler's `stop()` joins its own thread, which
  throws (`StopJoin`); `RpcServer::is_running()` stays true when a signal has ended
  the loop.
* The error code of a reply is found by searching its text, so a handler's own
  message can pass for a missing service; `AnswerExplained` allows for it.
* `ThreadPoolSingleton::instance()` after `shutdown()` dereferences a null pointer, and
  `get_logger()` during another thread's `init_logger` gives a logger without level and
  pattern; `GotUsable` names both. `init_logger` that throws after the assignment leaves
  `g_logger` set and the flag fresh, so that a later `init_logger` makes a second one.
* An allocation that fails in `aes_encrypt` or `aes_decrypt` (`encrypt.cpp:63`, `:87`,
  `:135`) leaks the cipher context; `ContextReleased` names it.
* An option whose value was forgotten takes the next option for its value
  (`client_main.cpp:104-111`, `server_main.cpp:68-71`); a `port` in the file is cut to 16
  bits like one on the command line. `StartsAsTold` says what comes of it.
* A closed connection whose last write a peer holds up by not reading is kept, with its
  socket, until the peer goes away; `Reclaimed` names it.
* Lengths of names and of error messages are truncated to 16 bits without an error;
  `RoundTrip` is conditional on it.
* `md/core.md:195-196` gives error codes other than those of `error_code.h`;
  `md/conn_balancer.md:60` calls `counter_` atomic, and it is a plain `uint64_t`.
* Several ZooKeeper operations at a time would share the reads of one socket. The
  registry never starts a second one, and the model has one.

## Proofs

Eight modules, each extending the module or modules that it is about. Every theorem
below is `Spec => []P`, or an action property or a refinement, for a specification of
that module, without fairness, and holds for all values of the constants that satisfy
the named assumptions; TLC evaluates the assumptions in the runs. TLC has checked
the inductive invariants as well, on the instances of the runs, where it can evaluate
them (not `Layered`, which speaks of any history), and the properties below that no run
lists. Zenon is the prover of a leaf that names none; `SMTT(60)` is named where
arithmetic, sequences or records need the SMT solver.

| Module | Assumptions | Theorems (property) |
|---|---|---|
| `ThreadPoolProofs` | `PoolAssumption`: finite, non-empty set of workers, none of them a client | `PoolTypes`, `PoolConserves` (`TasksConserved`), `PoolCounts` (`CountersExact`), `PoolWakes` (`NoLostWakeup`), `PoolDrains` (`DrainLeavesNothingQueued`), `PoolImplementsExecutor`, `PoolNotUsedAfter` (`NoUseAfterJoin`) |
| `RpcClientProofs` | `ClientAssumption`: at least one call, one connect, one number | `ClientTypes`, `ClientSingleWriter`, `ClientFifo`, `ClientSettledOnce`, `ClientNoOrphan`, `ClientResponseMatches`, `ClientRejectsAll`, `ClientResultsFinal` (`ResultsFinal`), `ClientNotUsedAfter` (`NoUseAfterDestroy`), `ClientDestructorSettles` (`DestroyedSettlesAll`) |
| `NetworkProofs` | `ConnectionAssumption`: at least one request; any closers | `ConnectionSingleWriter`, `ConnectionFifo`, `ConnectionClosedOnce`, `ConnectionNoStaleEntry`, `ConnectionNotUsedAfter` (`NoUseAfterDestroy`) |
| `NetworkProofs` | `CycleAssumption`: at least one connection; any platforms and modes | `CycleSafe`, `CycleStopLeavesOne` (`StopLeavesOne`), `MainUsesCycle`, `MainAccepts`, `MainStaysUp` (`StaysUp`), `MainJoins`, `MainClosesAll` (`ExitClosesAll`) |
| `ClientMainProofs` | `RegsAssumption`, `ServerAssumption`, `PingsAssumption`: finite set of clients, at least one worker, two registrations | `AnswersExplained` (`AnswerExplained`), `TalliesTrue` (`TallyTrue`), `CallsRemembered` (`NobodyForgotten`) |
| `NodeManagerProofs` | `ZkAssumption`: finitely many nodes, and the path that is none is not one of them | `ZkPendingExact` (`PendingExact`), `ManagerCacheInSync` (`CacheInSync`), `RegistrationStays` (`RegisteredStays`), `RefreshIsExplained` (`RefreshExplained`), `DiscoveryInvariant` |
| `LoadBalancerProofs` | `LbAssumption`: weights are natural numbers | `RoundRobinRotates`, `ManagerRotates` (`StrictRotation`), `WeightsAreShares`, `ManagerShares` (`WeightedShare`) |
| `WireProofs` | `WireAssumption`: an even base of at least 4; string lengths that a signed 32-bit number can say | `MessagesRoundTrip` (`RoundTrip`), `MessagesInBounds` (`ReadsInBounds`) |
| `LibraryProofs` | `PayAssumption`, `BootAssumption`: a bound on the layers, at least one port | `LayersRecover` (`Recovers`), `LayersRelease` (`ContextReleased`), `GlobalsUsable` (`GotUsable`), `ProgramsStart` (`StartsAsTold`), `LibrarySafe` |

*Thread pool.* `IInv` joins the five properties with `Lifecycle`: `stop_` is set
exactly when the destructor has begun, a worker has exited only from a stopped pool
with an empty queue, the destructor has returned only when all workers have exited,
and a drainer is owed only accepted tasks. Nothing else rules out that a task is
queued where every worker has exited (`NoLostWakeup`), or that a drainer is owed a
task that is submitted only later (`DrainLeavesNothingQueued`). `CountersExact` rests
on lemmas on what one worker's step does to the number of workers at a set of places.
`PoolImplementsExecutor` is the safety half of the refinement: each step of the pool
is a step of `Executor` or leaves its variables unchanged; the end of the destructor
is `Finish`, because by `IInv` every accepted task has run. `PoolNotUsedAfter` needs
`Leaving`: after the destructor has begun no outside thread is inside the pool, and a
worker is inside `enqueue` only while it is inside a task, so not when it has exited.

*Client.* `IInv` adds three things to the properties. `Entries`: an entry of `pending_`
is the promise of a call that drew that number and waits, and a call has a future
exactly when it has registered. `Numbers`: the numbers count backwards modulo `SeqMod`
from `next_seq_id_`, so two calls with the same one are at least `SeqMod` apart; this is
the distance in `ResponseMatches`. That a response never leaves a waiting call for
another follows from `NoOrphan`: there is one entry for a number, and the waiting call
has it. `Drawn`: only calls that have registered are queued, written, processed or
answered, and an answer carries the number of its call. By `Entries` only calls that
wait are registered, so whatever settles a registered promise changes no result that a
caller may have read (`ClientResultsFinal`). `Ended` is about the end of the client: a
`disconnect()` that has returned has stopped `ios_`, and nothing starts it again, so
after the destructor no handler runs and, `pending_` being emptied by it, nobody waits.

*Connection.* `IInv` adds `Holders`: at most one closer is past taking the connection
out of the manager, and then the manager does not hold it; an io thread on its way to
`on_close_` has set `closed_`, and nobody has called it before; `on_close_` called or the
read loop stopped implies `closed_`; a request
not yet read has no answer. Without the first, `ClosedOnce` is not inductive (two
closers could be about to exchange and a third could have won). For
`ConnectionNotUsedAfter` the references are followed (`Released`): a task, a handler or
a snapshot gets its reference from somebody who has one, so a connection to which
nobody refers stays so.

*Server process.* `CInv` is the invariant of the event loop alone (`CycleSafe`). It
adds `Cycle`: between `start_listen()` and `run()` an accept is pending; a loop that
runs with `running_` cleared, and a stopped `io_context`, are the work of a `stop()`;
only a stopper about to close them has connections in its snapshot. The loop returns
only when it has no work or was stopped, and an accept is always pending, so by
`Cycle` somebody has stopped it. `MainInv` adds `Process`, whose last part is the reason
for `ExitClosesAll`: the destructor's `stop()` comes after the join, so nothing enters
the map that it has emptied. `MainTakesCycleSteps` carries the results over: every
step of the process is a step of the loop or leaves it alone, so the process
implements the specification of the loop (`MainUsesCycle`). `CycleStopLeavesOne` is the
true half of what `cycle_stop_race` refutes: `stop()` closes the acceptor before it
takes its snapshot, so afterwards one accept that had completed can still be delivered,
and no other (`LeftOver`). It is about a loop in the background, which listens before it
can be stopped; a blocking loop may begin to listen during a `stop()`.

*System.* `IInv` says what the server has of each connection, given the state of the
network and of the server (`Wires`), what the connection and the client's position imply
about the task at the server (`Flow`), that a queued client is queued once (`Queue`),
that a request before its look-up has seen what is registered now (`Looks`), and that it
is the call to which the script has come (`Scripted`). `AnswerExplained` then follows
step by step from the look-up. For `TallyTrue`, `Counted` relates the two counters to
the calls that have returned; a bad answer to a `Ping` needs `PingService` to be missing
at the look-up, hence once unregistered (`Ponged`), and a call that was rejected or
could not be written is one on a connection that is lost. One lemma for each action
shows that it keeps the parts that it can disturb; `TaskMoves` and `ClientStep` carry
over the rest. `CallsRemembered` follows from `AllServed`: a task that is queued is in
the pool's queue, one that was looked up has a service to run, a client that waits on an
intact connection has a task or an answer on its way, and one that waits after its read
loop has ended made its call later. What remains is a full pool with waiting tasks: then
some worker is inside a task, and that task can go on.

*Discovery.* `Operation` relates the phase of the operation outstanding to its kind
and says that its promise waits; `Synced` extends `CacheInSync` from the idle manager
to every state outside a refresh, since a selection runs between the two. The two
properties about ZooKeeper's tree need to know where a call is on its way. `Wired`
says that: the blocked function has asked for the operation that is outstanding or has
its result (`Calling`), a request is on its way exactly while the operation waits for
a reply, with its xid, kind and node (`Requests`), and the tree's two directories come
before its nodes (`Tree`). `Registration` then follows a `register_node` from the
create at the server (`Created`: the node is there, with the address asked for and
owned by this session) to the answer, and `RefreshState` follows a refresh through its
two halves. In `Listing`, the children that are on their way were the children at some
moment since the refresh began, which `seen` remembers; in `LookingUp`, the list built
so far is explained, the names still to be looked up are distinct and not yet in it,
and a reply on its way has an address the node had meanwhile. A step of anybody else
only adds to `seen` (`Grows`), so what was explained stays so.

*Balancer.* `Rotating` says more than `StrictRotation`: there is a start `s` and a
number `q` of rounds such that every node was picked `q` times, and those that lie
between `s` and the counter, around the list, once more. It is the start that survives
`add_node` and `remove_node`, which leave the counter in the middle of a round.
`WeightedShare` rests on a lemma on the recursive sum of the weights: the numbers that
choose a node are an interval as long as its weight. A recursive function is the
choice of a function that satisfies its equation, so it has to be shown that there is
one: the module proves, from the well-foundedness of the naturals, that a set which
contains 0 and with a number the next one contains them all (`InductionUpTo`), and
applies that to the set of lengths for which a sum exists. `LbSpec` is a program that
uses the balancer by itself, `ManagerRotates` and `ManagerShares` are about the one
that a node manager refreshes.

*Wire.* At the bottom is arithmetic: after `k` of the `w` digits of `v`, the reader's
accumulator is `v` divided by `B`^(`w`-`k`), less the multiple of `B`^`k` that was
lost in the width, so after the last digit it is `v` modulo `B`^`w` (`NumberBack`),
and the bytes of a field give the field again (`ItemBack`). `Power` and the accumulator
are recursive functions; that they exist is shown as for the balancer. Then
two sequences are related to what is sent. `Cut`: there are offsets at which the
buffer divides into the bytes of the fields. `Script`: what the reader is going to
read, with vectors and the record chosen by the opcode unfolded, is what is left of
the fields that were written, for each of the messages (`ScriptStep`; this is where
the two ends have to agree on the order of the fields). `WireInv` says that the first
`m` fields have been read, that the offset is the end of the `m`-th and the script is
the rest, if the names fit. If they do not, only the bounds remain: `deserialize` has
compared each length with the rest of the body before it reads (`InBounds`).

*Payload.* `Layered`: there is a history of texts, one per layer that is on, each made
from the one before by its layer, and the text is the last of them. Undoing a layer
goes back in that history. It has no bound on the number of layers, and none on their
order: compressing or encrypting twice is covered too.

*Start.* `ProgramsStart` is about any start, with a command line of any length together
with any file, where the run varies one of them at a time (`Restricted` says that its
starts are among them). What is an option and what the value of one is stated without
the loop, by the parity of a run of arguments that would each take the next
(`OptionAt`); `NextOption` shows that the loop goes from one option to the next.
`ArgsRead` and `SectionsRead` say what has been read at each place; `PortTold` follows the
last `--port` to the port. `LibraryParts` carries the
results over to `Library`.

*Globals.* `Flag`: one thread is in the initializer, only while the flag is running,
and before it assigns every object made is one whose initializer threw; a flag that is
done has an object behind it unless that was shut down.

### Only model-checked

* All liveness, the liveness half of the refinement, and the half of `Answered` that is
  about `ENABLED`: beyond this prover.

## Not modelled

* `create_socket` (`network/`): called by nothing but a test. Generated protobuf code;
  protobuf, zstd, OpenSSL and spdlog themselves.
* `crc32_checksum` (called by a test) and `drive_io_context` (by nothing).
  `print_config`, `compress_info`, `error_code_str`, the texts of `zk_error_str` other
  than the one that is compared, and the latency figures of the stress mode: they only
  format.
* Contents of frames in `RpcClient` and `Connection`: a frame is the number of its call
  or request, and a frame that does not parse is a read failure. `Wire` has the
  contents.
* Data races on Asio objects: `socket_` and `acceptor_` are used from two threads
  without a strand; the models make each use atomic.
* Several calls outstanding per client in `RpcServer` and `ClientMain`: both programs
  wait for each answer. `RpcClient` and `Connection` have several.
* The backlog of the acceptor in `ClientMain`: a connect succeeds while the server is up
  and is accepted at once; `MessageCycle` has accepting. The handlers that a stopped
  `io_context` still holds are destroyed with it; `Connection` ends at the stop.
* Several ZooKeeper operations outstanding, and watches: the registry uses neither.
