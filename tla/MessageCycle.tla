----------------------------- MODULE MessageCycle -----------------------------
(***************************************************************************)
(* rpc::MessageCycle (src/network/message_cycle.cpp) with its              *)
(* ConnectionManager (connection_manager.cpp): accepting connections on    *)
(* the loop thread while other threads call stop().                        *)
(*                                                                         *)
(* The loop thread runs start_listen() and run(), or (Async) is worker_,   *)
(* started by run_async().  A completion handler is one action of it;      *)
(* stop() is one action per statement, because it runs on another thread,  *)
(* or inside the handler of the signal set.  A connection is what the      *)
(* manager sees of it; module Connection has its inside.                   *)
(***************************************************************************)
EXTENDS Naturals

CONSTANTS
  Asyncs,    \* may the loop run in worker_?  a set of Booleans
  Unixes,    \* may run() register the signal set?  a set of Booleans
  MaxConns   \* bound on the connections accepted

ASSUME CycleAssumption ==
  Asyncs \subseteq BOOLEAN /\ Unixes \subseteq BOOLEAN /\ MaxConns \in Nat \ {0}

Ids == 1 .. MaxConns

\* Threads that may be inside stop(): the owner, and the loop's signal handler.
Stoppers == {"owner", "signal"}

VARIABLES
  async, unix, \* how this instance is used and built
  running_,    \* member of MessageCycle
  acceptor,    \* acceptor_: "unopened", "open", "closed"
  accepting,   \* the async_accept: "none", "armed", "doomed" (can only fail)
  next_id_,    \* of the ConnectionManager
  conns,       \* each connection: "none", "managed" (in conns_), in the close_all()
               \* snapshot of a stopper, or "closed"
  loop,        \* the loop thread: "new", "listening", "running", "returned", "threw"
  iosStopped,  \* ios_.stop() was called
  signals,     \* the signal set: "off", "waiting", "raised", "handled"
  stpc         \* of each stopper: "idle", "done", or what in stop() comes next

config    == <<async, unix>>
conn      == <<next_id_, conns>>
cycleVars == <<config, running_, acceptor, accepting, conn, loop, iosStopped, signals, stpc>>

\* The types, and that the manager has given out exactly the ids below next_id_.
CycleTypeOK ==
  /\ async \in BOOLEAN /\ unix \in BOOLEAN /\ running_ \in BOOLEAN /\ iosStopped \in BOOLEAN
  /\ acceptor \in {"unopened", "open", "closed"}
  /\ accepting \in {"none", "armed", "doomed"}
  /\ next_id_ \in 1 .. MaxConns + 1
  /\ conns \in [Ids -> {"none", "managed", "closed"} \cup Stoppers]
  /\ \A i \in Ids : i < next_id_ <=> conns[i] # "none"
  /\ loop \in {"new", "listening", "running", "returned", "threw"}
  /\ signals \in {"off", "waiting", "raised", "handled"}
  /\ stpc \in [Stoppers -> {"idle", "acceptor", "take", "close", "ios", "join", "done"}]

CycleInit ==
  /\ async \in Asyncs /\ unix \in Unixes
  /\ running_ = FALSE /\ iosStopped = FALSE
  /\ acceptor = "unopened" /\ accepting = "none"
  /\ next_id_ = 1 /\ conns = [i \in Ids |-> "none"]
  /\ loop = "new" /\ signals = "off"
  /\ stpc = [t \in Stoppers |-> "idle"]

-------------------------------------------------------------------------------
(* The loop thread *)

\* start_listen.
Listen ==
  /\ loop = "new"
  /\ loop' = "listening"
  /\ acceptor' = "open"
  /\ accepting' = "armed"
  /\ UNCHANGED <<config, running_, conn, iosStopped, signals, stpc>>

\* The port cannot be bound.
ListenThrows ==
  /\ loop = "new"
  /\ loop' = "threw"
  /\ UNCHANGED <<config, running_, acceptor, accepting, conn, iosStopped, signals, stpc>>

\* run(), up to the call of ios_.run().
Run ==
  /\ loop = "listening"
  /\ loop' = "running"
  /\ running_' = TRUE
  /\ signals' = IF unix THEN "waiting" ELSE "off"
  /\ UNCHANGED <<config, acceptor, accepting, conn, iosStopped, stpc>>

\* The loop thread may pick the next handler.
Dispatching == loop = "running" /\ ~iosStopped /\ stpc["signal"] = "idle"

\* What accepting is after do_accept().
Armed == IF acceptor = "closed" THEN "doomed" ELSE "armed"

\* A connection is accepted (perhaps just before the acceptor was closed), given
\* the next id, added to the manager and read from; then the next one is awaited.
Accept ==
  /\ Dispatching
  /\ accepting = "armed" /\ next_id_ <= MaxConns
  /\ conns' = [conns EXCEPT ![next_id_] = "managed"]
  /\ next_id_' = next_id_ + 1
  /\ accepting' = IF running_ THEN Armed ELSE "none"
  /\ UNCHANGED <<config, running_, acceptor, loop, iosStopped, signals, stpc>>

\* async_accept fails; then accepting goes on as next says.
AcceptFailsWith(next) ==
  /\ Dispatching
  /\ accepting # "none"
  /\ accepting' = next
  /\ UNCHANGED <<config, running_, acceptor, conn, loop, iosStopped, signals, stpc>>

\* Fault: an error ends accepting.
Fault_AcceptErrorEnds == AcceptFailsWith("none")

AcceptFails == AcceptFailsWith(IF running_ THEN Armed ELSE "none")

\* A connection ends by a read or write error: close_cb removes it.
ConnEnds(i) ==
  /\ Dispatching
  /\ conns[i] \in {"managed"} \cup Stoppers
  /\ conns' = [conns EXCEPT ![i] = "closed"]
  /\ UNCHANGED <<config, running_, acceptor, accepting, next_id_, loop, iosStopped,
                 signals, stpc>>

\* SIGINT or SIGTERM while the signal set is registered.
Raise ==
  /\ signals = "waiting"
  /\ signals' = "raised"
  /\ UNCHANGED <<config, running_, acceptor, accepting, conn, loop, iosStopped, stpc>>

\* Nothing keeps ios_.run() going.
NoWork ==
  /\ accepting = "none" /\ signals \notin {"waiting", "raised"}
  /\ \A i \in Ids : conns[i] \in {"none", "closed"}

\* ios_.run() and run() return; the signal set is destroyed.
RunReturns ==
  /\ loop = "running" /\ stpc["signal"] \in {"idle", "done"}
  /\ iosStopped \/ NoWork
  /\ loop' = "returned"
  /\ signals' = "off"
  /\ UNCHANGED <<config, running_, acceptor, accepting, conn, iosStopped, stpc>>

-------------------------------------------------------------------------------
(* stop() *)

\* Stopper t is before statement from, and will be before statement to.  (An
\* exception that leaves the loop thread has ended the process.)
At(t, from, to) ==
  /\ loop # "threw"
  /\ stpc[t] \in from
  /\ stpc' = [stpc EXCEPT ![t] = to]

\* running_ = false.  (In an async cycle the owner has called run_async before.)
StopFlag(t) ==
  /\ At(t, {"idle", "done"}, "acceptor")
  /\ t = "owner" => (async => loop # "new") /\ UNCHANGED signals
  /\ t = "signal" => Dispatching /\ signals = "raised" /\ signals' = "handled"
  /\ running_' = FALSE
  /\ UNCHANGED <<config, acceptor, accepting, conn, loop, iosStopped>>

\* acceptor_.close(); an accept that has completed is still delivered.
StopAcceptor(t) ==
  /\ At(t, {"acceptor"}, "take")
  /\ acceptor' = IF acceptor = "open" THEN "closed" ELSE acceptor
  /\ UNCHANGED <<config, running_, accepting, conn, loop, iosStopped, signals>>

\* The first half of close_all(): empty the map, under its lock.
StopTake(t) ==
  /\ At(t, {"take"}, "close")
  /\ conns' = [i \in Ids |-> IF conns[i] = "managed" THEN t ELSE conns[i]]
  /\ UNCHANGED <<config, running_, acceptor, accepting, next_id_, loop, iosStopped, signals>>

\* The second half: close what was taken.
StopClose(t) ==
  /\ At(t, {"close"}, "ios")
  /\ conns' = [i \in Ids |-> IF conns[i] = t THEN "closed" ELSE conns[i]]
  /\ UNCHANGED <<config, running_, acceptor, accepting, next_id_, loop, iosStopped, signals>>

\* ios_.stop(), or not.
StopIosWith(t, stopped) ==
  /\ At(t, {"ios"}, "join")
  /\ iosStopped' = stopped
  /\ UNCHANGED <<config, running_, acceptor, accepting, conn, loop, signals>>

\* Fault: the io_context is left to run out of work.
Fault_StopIosMissing(t) == StopIosWith(t, iosStopped)

StopIos(t) == StopIosWith(t, TRUE)

\* worker_.join(); on worker_ itself it throws.
StopJoin(t) ==
  /\ At(t, {"join"}, "done")
  /\ IF async /\ t = "signal" THEN loop' = "threw"
     ELSE (async => loop = "returned") /\ UNCHANGED loop
  /\ UNCHANGED <<config, running_, acceptor, accepting, conn, iosStopped, signals>>

Stop(t) == StopAcceptor(t) \/ StopTake(t) \/ StopClose(t) \/ StopIos(t) \/ StopJoin(t)

-------------------------------------------------------------------------------
Start == Listen \/ ListenThrows \/ Run
Ending == RunReturns \/ StopFlag("signal")
Handlers == Accept \/ AcceptFails \/ \E i \in Ids : ConnEnds(i)

CycleNext ==
  \/ Start \/ Handlers \/ Raise \/ Ending
  \/ StopFlag("owner")
  \/ \E t \in Stoppers : Stop(t)

CycleSpec == CycleInit /\ [][CycleNext]_cycleVars

-------------------------------------------------------------------------------
(* Properties *)

\* network.md:330, an async_accept is always pending: as long as nobody stops
\* the cycle, every accept, good or bad, is followed by another.
AcceptPending == loop = "running" /\ running_ => accepting # "none"

\* So the loop ends only if somebody has called stop().
StaysUp == loop = "returned" => \E t \in Stoppers : stpc[t] # "idle"

\* network.md:179, stop() disconnects all connections.
StopDisconnects == stpc["owner"] = "done" => \A i \in Ids : conns[i] # "managed"

\* What is left of that promise in a cycle that runs in the background: a stop() that
\* is past its snapshot leaves at most the one connection whose accept had completed
\* when the acceptor was closed.
StopLeavesOne ==
  async => \A t \in Stoppers : stpc[t] \in {"close", "ios", "join", "done"} =>
    \A i, j \in Ids : conns[i] = "managed" /\ conns[j] = "managed" => i = j
===============================================================================
