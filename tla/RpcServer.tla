------------------------------- MODULE RpcServer -------------------------------
(***************************************************************************)
(* rpc::RpcServer (src/core/rpc_service.cpp): from a request that the loop *)
(* has read to the response given to its connection, on the loop thread or *)
(* in a pool task, and what the end of server_main.cpp does to them.       *)
(*                                                                         *)
(* A client has one request outstanding (both programs wait for each       *)
(* answer), so a task is named by its client.  Modules Connection and      *)
(* MessageCycle have the inside of reading, sending and stopping.          *)
(***************************************************************************)
EXTENDS ServiceManager

CONSTANTS
  Clients, \* the connected programs
  Workers  \* how many tasks the pool runs at a time

ASSUME ServerAssumption == Workers \in Nat \ {0} /\ IsFiniteSet(Clients)

Request(service, method) == [type |-> "REQUEST", service |-> service, method |-> method]

\* What a client may send: calls, a type that is not REQUEST, and a body that does
\* not parse.
Requests ==
  {Request("PingService", m) : m \in {"Ping", "Stats", "Foo"}}
  \cup {Request("UserService", "Work"), Request("NonExistentService", "Foo")}
  \cup [type : {"HEARTBEAT", "GARBLED"}, service : {"none"}, method : {"none"}]

Reply(code, result) == [code |-> code, result |-> result]
NoReply == Reply("none", "none")
NoTask  == [phase |-> "none", object |-> NoService, reply |-> NoReply,
            req |-> Request("none", "none")]

VARIABLES
  pooled,  \* set_thread_pool was given a pool
  tasks_,  \* the queue of the pool
  task,    \* of each client: its phase ("none", "arriving", "queued", "begun",
           \* "found", "replying", "answered", "thrown"), request,
           \* service object and reply
  conns,   \* its connection: "none", "open", "removing" (closed_ is set, the entry in the
           \* manager is still there), "taken" (no entry, in the snapshot of close_all()
           \* and not closed), "closed"
  link,    \* the network between: "none", "up", "lost" (broken or closed by the server),
           \* "ended" (and the read loop of the client has ended), "left" (by the client)
  server,  \* "up", "closing" (in close_all()), "stopping", "destroyed", "crashed"
  seen,    \* history: the objects its service had since the call; after the
           \* look-up, of these only the one it gave
  removed  \* history: PingService was unregistered once

srvVars == <<smVars, pooled, tasks_, task, conns, link, server, seen, removed>>

SrvInit ==
  /\ SmInit
  /\ pooled \in BOOLEAN
  /\ tasks_ = <<>> /\ server = "up"
  /\ task = [c \in Clients |-> NoTask]
  /\ conns = [c \in Clients |-> "none"] /\ link = [c \in Clients |-> "none"]
  /\ seen = [c \in Clients |-> {}]
  /\ removed = FALSE

-------------------------------------------------------------------------------
\* For the history: what is registered under a name now.
Registered(name) == IF name \in Names THEN services_[name] ELSE NoService

Phase(c, p) == task[c].phase = p
Running == {c \in Clients : task[c].phase \in {"begun", "found", "replying"}}

\* The process runs.  A pool task may go on after the server is destroyed: the
\* pool is declared before the server, so its destructor comes later.
Alive == server # "crashed"

\* The loop thread may begin a handler: ios_ is not stopped, and it is not inside a
\* request nor on its way to remove a connection.
LoopFree ==
  /\ server \in {"up", "closing"}
  /\ pooled \/ Running = {}
  /\ \A c \in Clients : conns[c] # "removing"

\* on_message: give the request to the pool, or begin with it on the loop thread,
\* which does nothing else until it is answered.
on_message(c) ==
  /\ LoopFree /\ Phase(c, "arriving")
  /\ IF pooled THEN task' = [task EXCEPT ![c].phase = "queued"] /\ tasks_' = Append(tasks_, c)
     ELSE task' = [task EXCEPT ![c].phase = "begun"] /\ UNCHANGED tasks_
  /\ UNCHANGED <<smVars, pooled, conns, link, server, seen, removed>>

\* Reading from or writing to a broken connection fails: a request that was not read
\* is lost, and closed_ set, unless close() has.
conn_error(c) ==
  /\ LoopFree /\ link[c] # "up" /\ conns[c] \in {"open", "taken"}
  /\ conns' = [conns EXCEPT ![c] = IF @ = "open" THEN "removing" ELSE "closed"]
  /\ IF Phase(c, "arriving")
     THEN task' = [task EXCEPT ![c] = NoTask] /\ seen' = [seen EXCEPT ![c] = {}]
     ELSE UNCHANGED <<task, seen>>
  /\ UNCHANGED <<smVars, pooled, tasks_, link, server, removed>>

\* on_close_ takes it out of the manager.
remove(c) ==
  /\ Alive /\ conns[c] = "removing"
  /\ conns' = [conns EXCEPT ![c] = "closed"]
  /\ UNCHANGED <<smVars, pooled, tasks_, task, link, server, seen, removed>>

\* A worker takes the task at the head of the queue.
take ==
  /\ Alive /\ tasks_ # <<>> /\ Cardinality(Running) < Workers
  /\ task' = [task EXCEPT ![Head(tasks_)].phase = "begun"]
  /\ tasks_' = Tail(tasks_)
  /\ UNCHANGED <<smVars, pooled, conns, link, server, seen, removed>>

\* The code for the text of a runtime_error.
code_of(text) ==
  IF text = "service_not_found" THEN "SERVICE_NOT_FOUND"
  ELSE IF text = "method_not_found" THEN "METHOD_NOT_FOUND" ELSE "INTERNAL_ERROR"

Replies(c, reply) == task' = [task EXCEPT ![c].phase = "replying", ![c].reply = reply]

\* process_request up to the look-up of the service by dispatch().
process_request(c) ==
  /\ Alive /\ Phase(c, "begun")
  /\ LET r == task[c].req
     IN \/ r.type = "HEARTBEAT" /\ Replies(c, Reply("INTERNAL_ERROR", "none"))
        \/ r.type = "GARBLED" /\ Replies(c, Reply("DESERIALIZE_ERROR", "none"))
        \/ /\ r.type = "REQUEST" /\ get_service(r.service) = NoService
           /\ Replies(c, Reply(code_of("service_not_found"), "none"))
        \/ /\ r.type = "REQUEST" /\ get_service(r.service) # NoService
           /\ task' = [task EXCEPT ![c].phase = "found", ![c].object = get_service(r.service)]
  /\ seen' = [seen EXCEPT ![c] = @ \cap {get_service(task[c].req.service)}]
  /\ UNCHANGED <<smVars, pooled, tasks_, conns, link, server, removed>>

Calls(c, service) ==
  /\ Alive /\ Phase(c, "found") /\ task[c].req.service = service
  /\ UNCHANGED <<smVars, pooled, tasks_, seen>>

\* The rest of dispatch(): the object does not have the method.
no_method(c) ==
  /\ \E s \in Names : Calls(c, s) /\ task[c].req.method \notin methods(s)
  /\ Replies(c, Reply(code_of("method_not_found"), "none"))
  /\ UNCHANGED <<conns, link, server, removed>>

ping(c) ==
  /\ Calls(c, "PingService") /\ task[c].req.method = "Ping"
  /\ Replies(c, Reply("OK", "pong"))
  /\ UNCHANGED <<conns, link, server, removed>>

connection_count == Cardinality({d \in Clients : conns[d] \in {"open", "removing"}})

\* The counter refers to the server: undefined once that is destroyed, so the
\* number is arbitrary or the process ends.
stats(c) ==
  /\ Calls(c, "PingService") /\ task[c].req.method = "Stats"
  /\ UNCHANGED <<conns, link, removed>>
  /\ \/ server # "destroyed" /\ Replies(c, Reply("OK", connection_count)) /\ UNCHANGED server
     \/ server = "destroyed" /\ Replies(c, Reply("OK", 0)) /\ UNCHANGED server
     \/ server = "destroyed" /\ server' = "crashed" /\ UNCHANGED task

\* handle() of the added service returns, or throws a runtime_error.
work(c) ==
  /\ Calls(c, "UserService") /\ task[c].req.method = "Work"
  /\ \/ Replies(c, Reply("OK", "worked"))
     \/ \E text \in {"service_not_found", "method_not_found", "other"} : Replies(c, Reply(code_of(text), text))
  /\ UNCHANGED <<conns, link, server, removed>>

\* What the connections are when the server has closed its side of those in C.
Cut(C) == [c \in Clients |-> IF c \in C /\ link[c] = "up" THEN "lost" ELSE link[c]]

\* It throws something else: lost in the future of the pool task, and the end of
\* the process on the loop thread.
work_throws(c) ==
  /\ Calls(c, "UserService") /\ task[c].req.method = "Work"
  /\ task' = [task EXCEPT ![c].phase = "thrown"]
  /\ IF pooled THEN UNCHANGED <<conns, link, server>>
     ELSE /\ server' = "crashed" /\ link' = Cut(Clients)
          /\ conns' = [d \in Clients |-> IF conns[d] = "none" THEN "none" ELSE "closed"]
  /\ UNCHANGED removed

\* The reply of c goes to its connection if sent, and is dropped otherwise, as it is
\* when nobody reads at the other end.
SendIf(c, sent) ==
  /\ Alive /\ Phase(c, "replying")
  /\ IF sent /\ link[c] \in {"up", "lost"} THEN task' = [task EXCEPT ![c].phase = "answered"] /\ UNCHANGED seen
     ELSE task' = [task EXCEPT ![c] = NoTask] /\ seen' = [seen EXCEPT ![c] = {}]
  /\ UNCHANGED <<smVars, pooled, tasks_, conns, link, server, removed>>

\* send() finds closed_ not set.
Sendable(c) == conns[c] \in {"open", "taken"}

\* Fault: a reply other than OK is not sent.
Fault_send_response(c) == SendIf(c, Sendable(c) /\ task[c].reply.code = "OK")

send_response(c) == SendIf(c, Sendable(c))

-------------------------------------------------------------------------------
(* The end of server_main.cpp *)

\* server.stop(), up to the snapshot of close_all(), which empties the manager.
stop ==
  /\ server = "up" /\ server' = "closing"
  /\ conns' = [c \in Clients |-> IF conns[c] = "open" THEN "taken"
                                  ELSE IF conns[c] = "removing" THEN "closed" ELSE conns[c]]
  /\ UNCHANGED <<smVars, pooled, tasks_, task, link, seen, removed>>

\* close_all() closes the connections of its snapshot, one after the other.
close(c) ==
  /\ server = "closing" /\ conns[c] = "taken"
  /\ conns' = [conns EXCEPT ![c] = "closed"] /\ link' = Cut({c})
  /\ UNCHANGED <<smVars, pooled, tasks_, task, server, seen, removed>>

\* ios_.stop()
stop_ios ==
  /\ server = "closing" /\ \A c \in Clients : conns[c] # "taken"
  /\ server' = "stopping"
  /\ UNCHANGED <<smVars, pooled, tasks_, task, conns, link, seen, removed>>

\* server_thread is joined (the loop thread is not inside a request) and main
\* returns: first the server goes, and then the pool, which runs its queue to
\* the end.
join ==
  /\ server = "stopping" /\ (pooled \/ Running = {})
  /\ server' = "destroyed"
  /\ UNCHANGED <<smVars, pooled, tasks_, task, conns, link, seen, removed>>

-------------------------------------------------------------------------------
(* Programs that add and remove services while requests are served *)

\* A request that has not looked its service up yet may find the new state of it.
Looking(c, name) ==
  task[c].phase \in {"arriving", "queued", "begun"} /\ task[c].req.service = name

Registry(name) ==
  /\ server = "up"
  /\ register_service(name) \/ unregister_service(name)
  /\ seen' = [c \in Clients |-> IF Looking(c, name) THEN seen[c] \cup {services_'[name]}
                                ELSE seen[c]]
  /\ removed' = (removed \/ services_'["PingService"] = NoService)
  /\ UNCHANGED <<pooled, tasks_, task, conns, link, server>>

Handle(c) == no_method(c) \/ ping(c) \/ stats(c) \/ work(c) \/ work_throws(c)

Serve == take \/ \E c \in Clients :
           on_message(c) \/ remove(c) \/ process_request(c) \/ Handle(c) \/ send_response(c)

Ends == stop \/ stop_ios \/ join \/ \E c \in Clients : close(c) \/ conn_error(c)
===============================================================================
