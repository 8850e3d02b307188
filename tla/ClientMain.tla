------------------------------ MODULE ClientMain ------------------------------
(***************************************************************************)
(* The client program (src/client_main.cpp), in its two modes, and other   *)
(* programs that use RpcClient one call at a time, against one server.     *)
(* Module RpcClient has the inside of connect(), call() and disconnect();  *)
(* of it, these programs see that a call registered after its read loop    *)
(* has ended is answered only if its write fails.                          *)
(***************************************************************************)
EXTENDS RpcServer

CONSTANTS
  Users,    \* the clients that run another program than client_main.cpp
  Fragile,  \* the clients whose connection may break by itself
  Pings     \* how many Ping calls the loops make (100 in the code)

ASSUME PingsAssumption == Pings \in Nat /\ Users \subseteq Clients

VARIABLES
  prog,          \* of each client: "stress", "interactive" or "user"
  cpc,           \* "start", "idle", "waiting", "done", "failed" (exit code 1)
  made,          \* how many calls it has made
  success, fail, \* its local variables
  fate           \* of the call it waits for: "none", "sent", "lost" (on a broken connection),
                 \* "late" (registered after the read loop had ended)

cliVars == <<prog, cpc, made, success, fail, fate>>
vars    == <<srvVars, cliVars>>

Init ==
  /\ SrvInit
  /\ prog \in [Clients -> {"stress", "interactive", "user"}]
  /\ \A c \in Clients : prog[c] = "user" <=> c \in Users
  /\ cpc = [c \in Clients |-> "start"]
  /\ made = [c \in Clients |-> 0]
  /\ success = [c \in Clients |-> 0] /\ fail = [c \in Clients |-> 0]
  /\ fate = [c \in Clients |-> "none"]

-------------------------------------------------------------------------------
\* The three calls that main makes before its loop.
Opening == <<Request("PingService", "Ping"), Request("PingService", "Stats"),
             Request("NonExistentService", "Foo")>>

Before(c) == IF prog[c] = "interactive" THEN Len(Opening) ELSE 0
Total(c)  == Before(c) + Pings

\* What call k of the program may be.
Script(c, k) ==
  IF prog[c] = "user" THEN Requests
  ELSE {IF k <= Before(c) THEN Opening[k] ELSE Request("PingService", "Ping")}

\* connect() and the wait for its future, which succeeds while the server listens.
Connect(c) ==
  /\ cpc[c] = "start" /\ server = "up"
  /\ cpc' = [cpc EXCEPT ![c] = "idle"]
  /\ conns' = [conns EXCEPT ![c] = "open"] /\ link' = [link EXCEPT ![c] = "up"]
  /\ UNCHANGED <<smVars, pooled, tasks_, task, server, seen, removed, prog, made, success, fail, fate>>

ConnectFails(c) ==
  /\ cpc[c] = "start"
  /\ cpc' = [cpc EXCEPT ![c] = "failed"]
  /\ UNCHANGED <<srvVars, prog, made, success, fail, fate>>

\* The connection breaks; neither side knows yet.
Lose(c) ==
  /\ link[c] = "up" /\ c \in Fragile
  /\ link' = [link EXCEPT ![c] = "lost"]
  /\ UNCHANGED <<smVars, pooled, tasks_, task, conns, server, seen, removed, cliVars>>

\* call() and the wait for its future.  On a broken connection the request does not
\* reach the server, where the task of the one before may still run.
Call(c) ==
  /\ cpc[c] = "idle" /\ made[c] < Total(c)
  /\ made' = [made EXCEPT ![c] = @ + 1]
  /\ cpc' = [cpc EXCEPT ![c] = "waiting"]
  /\ fate' = [fate EXCEPT ![c] = IF link[c] = "up" THEN "sent"
                                 ELSE IF link[c] = "lost" THEN "lost" ELSE "late"]
  /\ \/ /\ link[c] = "up"
        /\ \E r \in Script(c, made[c] + 1) :
             /\ task' = [task EXCEPT ![c] = [NoTask EXCEPT !.req = r, !.phase = "arriving"]]
             /\ seen' = [seen EXCEPT ![c] = {Registered(r.service)}]
     \/ link[c] # "up" /\ UNCHANGED <<task, seen>>
  /\ UNCHANGED <<smVars, pooled, tasks_, conns, link, server, removed, prog, success, fail>>

\* The future is satisfied; of the calls that counted says, success or fail goes up.
GetsWith(c, good, counted) ==
  /\ cpc[c] = "waiting"
  /\ cpc' = [cpc EXCEPT ![c] = "idle"]
  /\ IF counted
     THEN /\ success' = [success EXCEPT ![c] = IF good THEN @ + 1 ELSE @]
          /\ fail' = [fail EXCEPT ![c] = IF good THEN @ ELSE @ + 1]
     ELSE UNCHANGED <<success, fail>>
  /\ fate' = [fate EXCEPT ![c] = "none"]
  /\ UNCHANGED <<smVars, pooled, tasks_, conns, server, removed, prog, made>>

\* Fault: the calls before the loop are counted as well.
Fault_Gets(c, good) == GetsWith(c, good, prog[c] # "user")

\* The loops count what they get.
Gets(c, good) == GetsWith(c, good, prog[c] # "user" /\ made[c] > Before(c))

Good(reply) == reply.code = "OK" /\ reply.result = "pong"

\* The read loop has the response, which may arrive ahead of the end of the connection.
Receive(c) ==
  /\ Phase(c, "answered") /\ fate[c] = "sent"
  /\ Gets(c, Good(task[c].reply))
  /\ task' = [task EXCEPT ![c] = NoTask] /\ seen' = [seen EXCEPT ![c] = {}]
  /\ UNCHANGED link

Closed == Good(Reply("CONNECTION_CLOSED", "none"))

\* The read loop fails on a broken connection and ends: reject_all_pending.  An answer
\* that was on its way is lost.
ReadLoopEnds(c) ==
  /\ link[c] = "lost" /\ cpc[c] \in {"idle", "waiting"}
  /\ link' = [link EXCEPT ![c] = "ended"]
  /\ \/ Gets(c, Closed)
     \/ cpc[c] = "idle" /\ UNCHANGED <<smVars, pooled, tasks_, conns, server, removed, cliVars>>
  /\ IF Phase(c, "answered")
     THEN task' = [task EXCEPT ![c] = NoTask] /\ seen' = [seen EXCEPT ![c] = {}]
     ELSE UNCHANGED <<task, seen>>

\* The write of the request fails.
WriteFails(c) ==
  /\ link[c] # "up"
  /\ Gets(c, Closed)
  /\ \/ /\ fate[c] = "sent" /\ Phase(c, "arriving")
        /\ task' = [task EXCEPT ![c] = NoTask] /\ seen' = [seen EXCEPT ![c] = {}]
     \/ fate[c] # "sent" /\ UNCHANGED <<task, seen>>
  /\ UNCHANGED link

\* disconnect(), and the end of the program.
Finish(c) ==
  /\ cpc[c] = "idle" /\ made[c] = Total(c)
  /\ cpc' = [cpc EXCEPT ![c] = "done"]
  /\ link' = [link EXCEPT ![c] = IF @ = "up" THEN "left" ELSE @]
  /\ UNCHANGED <<smVars, pooled, tasks_, task, conns, server, seen, removed, prog, made, success, fail, fate>>

-------------------------------------------------------------------------------
Server == (Serve \/ Ends) /\ UNCHANGED cliVars
Admin  == (\E n \in Changing : Registry(n)) /\ UNCHANGED cliVars
Client(c) ==
  \/ Connect(c) \/ ConnectFails(c) \/ Call(c) \/ Receive(c) \/ ReadLoopEnds(c) \/ WriteFails(c)
  \/ Finish(c)

Next == Server \/ Admin \/ \E c \in Clients : Client(c) \/ Lose(c)

Spec == Init /\ [][Next]_vars

\* What the loop thread, the workers and the read loops of the clients do of
\* themselves.
Goes ==
  \/ Serve /\ UNCHANGED cliVars
  \/ \E c \in Clients : Receive(c) \/ ReadLoopEnds(c)

-------------------------------------------------------------------------------
(* Properties *)

\* The answer of dispatch() is true of the time between the call and the answer,
\* however often the service was replaced meanwhile: an object that handled the
\* call was registered then, a service was reported missing only if it was missing
\* then, and a method only if the service has none of the name, or the handler's own
\* text says so (rpc_service.cpp:92, 94).  And a client that is sent the Stats of
\* PingService is among the connections counted, unless the server is being stopped.
AnswerExplained ==
  \A c \in Clients : task[c].phase \in {"replying", "answered"} =>
    LET t == task[c]
    IN /\ t.object # NoService => t.object \in seen[c]
       /\ t.reply.code = "SERVICE_NOT_FOUND" =>
            NoService \in seen[c] \/ t.reply.result = "service_not_found"
       /\ t.reply.code = "METHOD_NOT_FOUND" =>
            t.req.method \notin methods(t.req.service) \/ t.reply.result = "method_not_found"
       /\ (t.phase = "answered" /\ t.req.method = "Stats" /\ t.reply.code = "OK") =>
            t.reply.result >= 1 \/ server # "up"

\* The loops count each of their calls once, and none as failed unless PingService
\* was unregistered, the server stopped or the connection was lost.
TallyTrue ==
  \A c \in Clients \ Users :
    /\ fail[c] > 0 => removed \/ server # "up" \/ link[c] \in {"lost", "ended"}
    /\ cpc[c] = "done" => success[c] + fail[c] = Pings

\* The same, by their guards: a worker and a task for it, a request for the loop
\* thread, a connection to remove, a request that is being served, a future that can
\* be satisfied, a broken connection.
Going ==
  \/ Alive /\ tasks_ # <<>> /\ Cardinality(Running) < Workers
  \/ \E c \in Clients :
       \/ LoopFree /\ Phase(c, "arriving")
       \/ Alive /\ conns[c] = "removing"
       \/ Alive /\ Phase(c, "begun") /\ task[c].req.type \in {"REQUEST", "HEARTBEAT", "GARBLED"}
       \/ Alive /\ Phase(c, "found") /\ task[c].req.service \in Names
       \/ Alive /\ Phase(c, "replying")
       \/ cpc[c] = "waiting" /\ fate[c] = "sent" /\ Phase(c, "answered")
       \/ link[c] = "lost" /\ cpc[c] \in {"idle", "waiting"}

\* A call is answered, also when the pool is full, the connection breaks or the
\* server stops meanwhile: when the server and the read loops have nothing left to
\* do (they cannot go on for ever, a request having finitely many steps), nobody
\* waits, except after an exception that is not a runtime_error, and for a call made
\* on a connection whose read loop had ended before.
NobodyForgotten ==
  Going \/ \A c \in Clients : cpc[c] = "waiting" => fate[c] = "late" \/ Phase(c, "thrown")

\* Nobody is forgotten, and where Going says that there is something to do, the
\* actions of the server or of a read loop can do it.
Answered == NobodyForgotten /\ (Going => ENABLED Goes)
===============================================================================
