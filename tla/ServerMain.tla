------------------------------ MODULE ServerMain ------------------------------
(***************************************************************************)
(* The server process (src/server_main.cpp) around RpcServer::start and    *)
(* stop (src/core/rpc_service.cpp): the main thread waits for g_running to *)
(* be cleared, stops the server, joins server_thread and destroys the      *)
(* server, while the loop of MessageCycle runs on server_thread.           *)
(*                                                                         *)
(* SIGINT has one disposition per process: main installs signal_handler;   *)
(* on Unix the signal set of run() replaces it and resets it to the        *)
(* default when run() returns; on Windows its delivery resets it.          *)
(***************************************************************************)
EXTENDS MessageCycle

CONSTANT MaxPresses \* bound on how often Ctrl+C is pressed

VARIABLES
  g_running,      \* of server_main.cpp
  server_running, \* running_ of RpcServer
  sigint,         \* the disposition of SIGINT: "main", "asio", "default"
  presses,        \* how often Ctrl+C was pressed
  mpc             \* main: "waiting", "stopping", "dtor" (in the stop() of
                  \* ~RpcServer), "exited", "killed"; or "embedded": another
                  \* program uses the MessageCycle, in any way

mainVars == <<g_running, server_running, presses, mpc>>
allVars  == <<cycleVars, mainVars, sigint>>

MainInit ==
  /\ CycleInit
  /\ g_running = TRUE /\ server_running = FALSE
  /\ sigint = "main" /\ presses = 0
  /\ mpc = "embedded" \/ (mpc = "waiting" /\ ~async)

Alive == mpc \notin {"exited", "killed", "embedded"} /\ loop # "threw"

-------------------------------------------------------------------------------
(* server_thread *)

\* RpcServer::start up to cycle_.run().
ServerStart ==
  /\ Alive
  /\ Listen \/ ListenThrows
  /\ server_running' = TRUE
  /\ UNCHANGED <<g_running, presses, mpc, sigint>>

ServerRun ==
  /\ Alive
  /\ Run
  /\ sigint' = IF unix THEN "asio" ELSE sigint
  /\ UNCHANGED mainVars

ServerHandlers ==
  /\ Alive
  /\ Handlers \/ StopFlag("signal") \/ Stop("signal")
  /\ UNCHANGED <<mainVars, sigint>>

ServerReturns ==
  /\ Alive
  /\ RunReturns
  /\ sigint' = IF unix THEN "default" ELSE sigint
  /\ UNCHANGED mainVars

-------------------------------------------------------------------------------
(* Ctrl+C *)

Press == Alive /\ presses < MaxPresses /\ presses' = presses + 1 /\ UNCHANGED server_running

\* signal_handler runs.
PressMain ==
  /\ Press /\ sigint = "main"
  /\ g_running' = FALSE
  /\ sigint' = IF unix THEN "main" ELSE "default"
  /\ UNCHANGED <<cycleVars, mpc>>

\* The signal set takes it; its one async_wait serves the first.
PressAsio ==
  /\ Press /\ sigint = "asio"
  /\ Raise \/ (signals # "waiting" /\ UNCHANGED cycleVars)
  /\ UNCHANGED <<g_running, mpc, sigint>>

PressDefault ==
  /\ Press /\ sigint = "default"
  /\ mpc' = "killed"
  /\ UNCHANGED <<cycleVars, g_running, sigint>>

-------------------------------------------------------------------------------
(* The main thread *)

\* The waiting loop ends: server.stop() begins.
MainStop ==
  /\ Alive /\ mpc = "waiting" /\ ~g_running
  /\ mpc' = "stopping"
  /\ server_running' = FALSE
  /\ StopFlag("owner")
  /\ UNCHANGED <<g_running, presses, sigint>>

\* The rest of stop(), called by main or by the destructor.
MainInStop ==
  /\ Alive
  /\ Stop("owner")
  /\ UNCHANGED <<mainVars, sigint>>

\* Fault: the destructor does not stop the server.
Fault_MainJoin ==
  /\ Alive /\ mpc = "stopping" /\ stpc["owner"] = "done" /\ loop = "returned"
  /\ mpc' = "dtor"
  /\ UNCHANGED <<cycleVars, server_running, g_running, presses, sigint>>

\* After stop(): join, and begin to destroy the server, which stops it once more.
MainJoin ==
  /\ Alive /\ mpc = "stopping" /\ stpc["owner"] = "done" /\ loop = "returned"
  /\ mpc' = "dtor"
  /\ server_running' = FALSE
  /\ StopFlag("owner")
  /\ UNCHANGED <<g_running, presses, sigint>>

MainExit ==
  /\ Alive /\ mpc = "dtor" /\ stpc["owner"] = "done"
  /\ mpc' = "exited"
  /\ UNCHANGED <<cycleVars, g_running, server_running, presses, sigint>>

-------------------------------------------------------------------------------
ServerThread == ServerStart \/ ServerRun \/ ServerHandlers \/ ServerReturns
Main == MainStop \/ MainInStop \/ MainJoin \/ MainExit

\* Step, in a program of its own.
Embedded(Step) == mpc = "embedded" /\ Step /\ UNCHANGED <<mainVars, sigint>>

MainNext ==
  ServerThread \/ PressMain \/ PressAsio \/ PressDefault \/ Main \/ Embedded(CycleNext)

MainSpec == MainInit /\ [][MainNext]_allVars

\* Threads run; server_thread gets through with what it does not wait for.  Nobody
\* need connect, hang up, signal, press Ctrl+C or call stop().
MainFairSpec ==
  /\ MainSpec
  /\ WF_allVars(Main)
  /\ WF_allVars(ServerStart) /\ WF_allVars(ServerRun) /\ WF_allVars(ServerReturns)
  /\ WF_allVars(Embedded(Start)) /\ WF_allVars(Embedded(Ending))
  /\ \A t \in Stoppers : WF_allVars(Embedded(Stop(t)))
  /\ WF_allVars(Alive /\ (StopFlag("signal") \/ Stop("signal")) /\ UNCHANGED <<mainVars, sigint>>)

-------------------------------------------------------------------------------
(* Properties *)

\* The server and its io_context are destroyed only after server_thread has left
\* them, whenever Ctrl+C comes.
JoinedBeforeDestroyed == mpc \in {"dtor", "exited"} => loop = "returned"

\* At exit every connection is closed, also one that was accepted while stop()
\* was running: the stop() of the destructor finds it.
ExitClosesAll == mpc = "exited" => \A i \in Ids : conns[i] \in {"none", "closed"}

\* Whoever calls stop(), and at whatever moment of start_listen() and run(), the
\* loop thread ends, unless a second Ctrl+C ends the process before.
LoopEnds ==
  (\E t \in Stoppers : stpc[t] # "idle")
    ~> (loop \in {"returned", "threw"} \/ mpc = "killed")

\* readme.md:323, Ctrl+C shuts the server down.
CtrlCStops ==
  presses > 0 ~> (mpc \in {"exited", "killed"} \/ loop = "threw")

\* So it does where run() registers no signal set (Windows), at whatever moment of
\* starting or accepting it is pressed.
CtrlCStopsWindows ==
  (presses > 0 /\ ~unix) ~> (mpc \in {"exited", "killed"} \/ loop = "threw")
===============================================================================
