--------------------------- MODULE ClientMainProofs ---------------------------
(***************************************************************************)
(* The answers of the server and the tally of the client program, and that *)
(* no call is forgotten, for any number of clients, workers, registrations *)
(* and calls.                                                              *)
(***************************************************************************)
EXTENDS ClientMain, FiniteSetTheorems, TLAPS

\* The prover of a step that names none; SMT is named where Zenon does not do.
USE ZenonT(60), SMTT(60)

Fresh     == {"arriving", "queued", "begun"}
Answering == {"replying", "answered"}

ConnStates   == {"none", "open", "removing", "taken", "closed"}
LinkStates   == {"none", "up", "lost", "ended", "left"}
ServerStates == {"up", "closing", "stopping", "destroyed", "crashed"}
ClientStates == {"start", "idle", "waiting", "done", "failed"}

IsTask(t) == DOMAIN t = {"phase", "object", "reply", "req"}

\* The state has the shape that the programs give it.
Shape ==
  /\ task = [c \in Clients |-> task[c]] /\ \A c \in Clients : IsTask(task[c])
  /\ seen = [c \in Clients |-> seen[c]] /\ fate = [c \in Clients |-> fate[c]]
  /\ tasks_ \in Seq(Clients) /\ removed \in BOOLEAN
  /\ conns \in [Clients -> ConnStates] /\ link \in [Clients -> LinkStates]
  /\ server \in ServerStates
  /\ services_ = [n \in Names |-> services_[n]]
  /\ cpc \in [Clients -> ClientStates]
  /\ made \in [Clients -> Nat] /\ success \in [Clients -> Nat] /\ fail \in [Clients -> Nat]
  /\ \A c \in Clients : prog[c] = "user" <=> c \in Users

\* A client is queued once, and while it is its task waits; PingService is missing
\* only if it was unregistered.
Queue ==
  /\ \A i \in DOMAIN tasks_ : task[tasks_[i]].phase = "queued"
  /\ \A i, j \in DOMAIN tasks_ : tasks_[i] = tasks_[j] => i = j
  /\ services_["PingService"] = NoService => removed

\* What the server has of the connection of c.
Wires(c) ==
  /\ link[c] = "none" <=> conns[c] = "none"
  /\ link[c] = "up" => conns[c] \in {"open", "taken"}
  /\ conns[c] \in {"open", "removing"} => server = "up"
  /\ conns[c] = "taken" => server = "closing"

\* What the connection and the client say about the task between them.
Flow(c) ==
  /\ conns[c] = "none" => task[c].phase = "none"
  /\ cpc[c] = "start" => link[c] = "none"
  /\ cpc[c] \in {"idle", "waiting"} => link[c] \in {"up", "lost", "ended"}
  /\ cpc[c] = "idle" /\ link[c] = "up" => task[c].phase = "none"

\* A request that has not looked its service up has seen what is registered now.
Looks(c) ==
  task[c].phase \in Fresh =>
    task[c].object = NoService /\ Registered(task[c].req.service) \in seen[c]

\* AnswerExplained, from the look-up on.  The number that Stats gives is right as
\* long as the server is up and the connection open, and it is sent only then.
Explains(t, s, open, up) ==
  /\ t.phase \in {"found"} \cup Answering /\ t.object # NoService => t.object \in s
  /\ t.phase \in Answering =>
       /\ t.reply.code = "SERVICE_NOT_FOUND" =>
            NoService \in s \/ t.reply.result = "service_not_found"
       /\ t.reply.code = "METHOD_NOT_FOUND" =>
            t.req.method \notin methods(t.req.service) \/ t.reply.result = "method_not_found"
       /\ (open \/ t.phase = "answered") /\ up /\ t.req.method = "Stats" /\ t.reply.code = "OK" =>
            t.reply.result \in Nat \ {0}

Explained(c) == Explains(task[c], seen[c], conns[c] = "open", server = "up")

PingRequest == Request("PingService", "Ping")

\* Ping is answered well unless PingService was unregistered.
Ponged(t, gone) == t.phase \in Answering /\ t.req = PingRequest /\ ~gone => t.reply = Reply("OK", "pong")

\* The request at the server is the one that the script has come to.
Scripted(c) == task[c].phase # "none" /\ link[c] = "up" => task[c].req \in Script(c, made[c])

\* The calls of c that have returned.
Returned(c) == IF cpc[c] = "waiting" THEN made[c] - 1 ELSE made[c]

\* The loops have counted every call of theirs that has returned.
Counted(c) ==
  /\ cpc[c] = "waiting" => made[c] >= 1
  /\ cpc[c] = "done" => made[c] = Total(c)
  /\ c \notin Users =>
       /\ success[c] + fail[c] = IF Returned(c) > Before(c) THEN Returned(c) - Before(c) ELSE 0
       /\ fail[c] > 0 => removed \/ server # "up" \/ link[c] \in {"lost", "ended"}

\* What concerns the task of c.
TaskOK(c) == Looks(c) /\ Explained(c) /\ Ponged(task[c], removed) /\ Scripted(c)

\* The inductive invariant.
IInv == Shape /\ Queue /\ \A c \in Clients : Wires(c) /\ Flow(c) /\ TaskOK(c) /\ Counted(c)

-------------------------------------------------------------------------------
\* The calls before the loop are none or three.
LEMMA BeforeNat == \A c \in Clients : Before(c) \in {0, 3}
BY DEF Before, Opening

\* Both programs and the server start in the invariant.
LEMMA InitIInv == Init => IInv
<1> SUFFICES ASSUME Init PROVE IInv
  OBVIOUS
<1>1. \A c \in Clients : task[c] = NoTask /\ conns[c] = "none" /\ link[c] = "none"
                         /\ cpc[c] = "start" /\ made[c] = 0 /\ success[c] = 0 /\ fail[c] = 0
  BY DEF Init, SrvInit
<1>2. NoTask.phase = "none" /\ IsTask(NoTask)
  BY DEF NoTask, IsTask
<1>3. Shape
  <2>1. \A c \in Clients : IsTask(task[c])
    BY <1>1, <1>2
  <2>2. /\ task = [c \in Clients |-> task[c]] /\ seen = [c \in Clients |-> seen[c]]
        /\ fate = [c \in Clients |-> fate[c]] /\ services_ = [n \in Names |-> services_[n]]
    BY DEF Init, SrvInit, SmInit
  <2>3. /\ tasks_ \in Seq(Clients) /\ removed \in BOOLEAN
        /\ server \in ServerStates
        /\ \A c \in Clients : prog[c] = "user" <=> c \in Users
    <3>1. tasks_ = <<>> /\ removed = FALSE /\ server = "up"
      BY DEF Init, SrvInit
    <3>2. \A c \in Clients : prog[c] = "user" <=> c \in Users
      BY DEF Init
    <3>3. tasks_ \in Seq(Clients) /\ server \in ServerStates
      BY <3>1, SMTT(60) DEF ServerStates
    <3>4. removed \in BOOLEAN
      BY <3>1
    <3>5. QED
      BY <3>2, <3>3, <3>4
  <2>4. /\ conns \in [Clients -> ConnStates] /\ link \in [Clients -> LinkStates]
        /\ cpc \in [Clients -> ClientStates]
        /\ made \in [Clients -> Nat] /\ success \in [Clients -> Nat] /\ fail \in [Clients -> Nat]
    BY DEF Init, SrvInit, ConnStates, LinkStates, ClientStates
  <2>5. QED
    BY <2>1, <2>2, <2>3, <2>4 DEF Shape
<1>4. Queue
  BY SMTT(60) DEF Init, SrvInit, SmInit, Queue, Names, NoService
<1>5. \A c \in Clients : Wires(c) /\ Flow(c) /\ Counted(c)
  <2>1. \A c \in Clients : Wires(c) /\ Flow(c)
    BY <1>1, <1>2 DEF Wires, Flow
  <2>2. \A c \in Clients : Counted(c)
    BY <1>1, BeforeNat, SMTT(60) DEF Counted, Returned
  <2>3. QED
    BY <2>1, <2>2
<1>6. \A c \in Clients : TaskOK(c)
  BY <1>1, <1>2 DEF TaskOK, Looks, Explained, Explains, Ponged, Scripted, Fresh, Answering
<1>7. QED
  BY <1>3, <1>4, <1>5, <1>6 DEF IInv

\* What a step of the server or of the network may do to the connections: a server
\* that stops does not come back, none is opened, and one that is up may be lost.
NetMoves ==
  /\ conns' \in [Clients -> ConnStates] /\ link' \in [Clients -> LinkStates]
  /\ server' \in ServerStates /\ (server' = "up" => server = "up")
  /\ \A d \in Clients :
       /\ Wires(d)'
       /\ conns'[d] = "none" <=> conns[d] = "none"
       /\ conns'[d] = "open" => conns[d] = "open"
       /\ link'[d] = link[d] \/ (link[d] = "up" /\ link'[d] = "lost")

\* Nothing is such a step.
LEMMA NetSame ==
  ASSUME IInv, UNCHANGED <<conns, link, server>>
  PROVE  NetMoves
BY DEF IInv, Shape, Wires, NetMoves

\* What the loops have counted stays right while neither they nor their calls go on.
LEMMA CountedKept ==
  ASSUME NEW d \in Clients, Counted(d), UNCHANGED cliVars, removed => removed', NetMoves
  PROVE  Counted(d)'
<1>1. Returned(d)' = Returned(d) /\ Total(d)' = Total(d) /\ Before(d)' = Before(d)
  BY DEF Returned, Total, Before, cliVars
<1>2. /\ server # "up" => server' # "up"
      /\ link[d] \in {"lost", "ended"} => link'[d] \in {"lost", "ended"}
  BY DEF NetMoves
<1>3. QED
  BY <1>1, <1>2 DEF Counted, cliVars

\* Explains asks for less when the connection is not open, or the server not up.
LEMMA ExplainsLess ==
  ASSUME NEW t, NEW s, NEW o, NEW u, NEW o2, NEW u2, Explains(t, s, o, u), o2 => o, u2 => u
  PROVE  Explains(t, s, o2, u2)
BY DEF Explains

\* A client whose task stays as it is keeps what concerns it.
LEMMA OthersKept ==
  ASSUME IInv, NEW d \in Clients, task'[d] = task[d], seen'[d] = seen[d],
         UNCHANGED <<smVars, removed, cliVars>>, NetMoves
  PROVE  Flow(d)' /\ TaskOK(d)'
<1>1. /\ Flow(d) /\ Looks(d) /\ Explained(d) /\ Ponged(task[d], removed) /\ Scripted(d)
      /\ conns'[d] = "none" <=> conns[d] = "none"
      /\ conns'[d] = "open" => conns[d] = "open"
      /\ link'[d] = link[d] \/ (link[d] = "up" /\ link'[d] = "lost")
      /\ server' = "up" => server = "up"
  BY DEF IInv, TaskOK, NetMoves
<1>2. Flow(d)'
  BY <1>1, SMTT(60) DEF Flow, cliVars
<1>3. Looks(d)' /\ Ponged(task'[d], removed')
  BY <1>1 DEF Looks, Registered, smVars
<1>4. Explained(d)'
  BY <1>1, ExplainsLess DEF Explained
<1>5. Scripted(d)'
  <2>1. Script(d, made[d])' = Script(d, made[d])
    BY DEF Script, Before, cliVars
  <2>2. link'[d] = "up" => link[d] = "up"
    BY <1>1
  <2>3. QED
    BY <1>1, <2>1, <2>2 DEF Scripted
<1>6. QED
  BY <1>2, <1>3, <1>4, <1>5 DEF TaskOK

\* A step that changes nothing but the connections.
LEMMA NetStep ==
  ASSUME IInv, UNCHANGED <<smVars, tasks_, task, seen, removed, cliVars>>, NetMoves
  PROVE  IInv'
<1>1. Shape'
  BY DEF IInv, Shape, NetMoves, smVars, cliVars
<1>2. Queue'
  BY DEF IInv, Queue, smVars
<1>3. ASSUME NEW d \in Clients PROVE Wires(d)' /\ Flow(d)' /\ TaskOK(d)' /\ Counted(d)'
  <2>1. Counted(d)'
    BY CountedKept DEF IInv
  <2>2. Flow(d)' /\ TaskOK(d)'
    BY OthersKept
  <2>3. QED
    BY <2>1, <2>2 DEF NetMoves
<1>4. QED
  BY <1>1, <1>2, <1>3 DEF IInv

\* A step that changes, beside the connections, nothing but the queue, the task of c
\* and what it has seen keeps the invariant if it keeps what concerns the queue and
\* that task.
LEMMA TaskMoves ==
  ASSUME IInv, NEW c \in Clients, NEW t, IsTask(t), task' = [task EXCEPT ![c] = t],
         task[c].phase # "none", t.phase = "none" \/ t.req = task[c].req,
         seen' = [seen EXCEPT ![c] = seen'[c]],
         UNCHANGED <<smVars, removed, cliVars>>, NetMoves,
         tasks_' \in Seq(Clients), Queue', Looks(c)', Explained(c)', Ponged(t, removed)
  PROVE  IInv'
<1>1. /\ \A d \in Clients : task'[d] = IF d = c THEN t ELSE task[d]
      /\ \A d \in Clients : d # c => seen'[d] = seen[d]
  BY DEF IInv, Shape
<1>2. Shape'
  BY <1>1 DEF IInv, Shape, NetMoves, smVars, cliVars
<1>3. \A d \in Clients : Wires(d)' /\ Counted(d)'
  BY CountedKept DEF IInv, NetMoves
<1>4. \A d \in Clients : d # c => Flow(d)' /\ TaskOK(d)'
  BY <1>1, OthersKept
<1>5. Flow(c)'
  <2>1. /\ Flow(c) /\ (conns'[c] = "none" <=> conns[c] = "none")
        /\ link'[c] = link[c] \/ (link[c] = "up" /\ link'[c] = "lost")
    BY DEF IInv, NetMoves
  <2>2. QED
    BY <2>1, SMTT(60) DEF Flow, cliVars
<1>6. Scripted(c)'
  <2>1. Script(c, made[c])' = Script(c, made[c])
    BY DEF Script, Before, cliVars
  <2>2. link'[c] = "up" => link[c] = "up"
    BY DEF NetMoves
  <2>3. task'[c] = t
    BY <1>1
  <2>4. QED
    BY <2>1, <2>2, <2>3 DEF IInv, TaskOK, Scripted
<1>7. Ponged(task'[c], removed')
  BY <1>1
<1>8. QED
  BY <1>2, <1>3, <1>4, <1>5, <1>6, <1>7 DEF IInv, TaskOK

\* The same for a step that leaves the queue alone, of a task that is not in it.
LEMMA TaskStep ==
  ASSUME IInv, NEW c \in Clients, NEW t, IsTask(t), task' = [task EXCEPT ![c] = t],
         task[c].phase \notin {"none", "queued"}, t.phase = "none" \/ t.req = task[c].req,
         seen' = [seen EXCEPT ![c] = seen'[c]],
         UNCHANGED <<smVars, tasks_, removed, cliVars>>, NetMoves,
         Looks(c)', Explained(c)', Ponged(t, removed)
  PROVE  IInv'
<1>0. tasks_ \in Seq(Clients) /\ \A i \in DOMAIN tasks_ : task[tasks_[i]].phase = "queued"
  BY DEF IInv, Shape, Queue
<1>a. \A i \in DOMAIN tasks_ : tasks_[i] # c
  BY <1>0
<1>1. \A i \in DOMAIN tasks_ : tasks_[i] \in Clients /\ tasks_[i] # c
  BY <1>0, <1>a, SMTT(60)
<1>2. \A d \in Clients : d # c => task'[d] = task[d]
  BY DEF IInv, Shape
<1>3. Queue'
  BY <1>1, <1>2, SMTT(60) DEF IInv, Queue, smVars
<1>4. tasks_' \in Seq(Clients)
  BY DEF IInv, Shape
<1>5. QED
  BY <1>3, <1>4, TaskMoves

-------------------------------------------------------------------------------
(* The server *)

\* The look-up of process_request, and the replies that need none, keep it.
LEMMA ProcessStep ==
  ASSUME IInv, NEW c \in Clients, process_request(c), UNCHANGED cliVars
  PROVE  IInv'
<1> DEFINE r == task[c].req
           svc == get_service(r.service)
<1>0. /\ IsTask(task[c]) /\ task[c].phase = "begun" /\ task[c].object = NoService
      /\ svc = Registered(r.service) /\ svc \in seen[c]
  BY DEF IInv, Shape, TaskOK, Looks, Fresh, process_request, Phase, get_service, Registered
<1>1. seen'[c] = {svc} /\ seen' = [seen EXCEPT ![c] = seen'[c]]
  BY <1>0, SMTT(60) DEF process_request, IInv, Shape
<1>2. UNCHANGED <<smVars, tasks_, removed>> /\ NetMoves
  BY NetSame DEF process_request
<1>3. ASSUME NEW reply, Replies(c, reply),
             reply.code = "SERVICE_NOT_FOUND" => svc = NoService,
             reply.code \notin {"METHOD_NOT_FOUND", "OK"},
             r = PingRequest => removed
      PROVE  IInv'
  <2> DEFINE t == [task[c] EXCEPT !.phase = "replying", !.reply = reply]
  <2>0. IsTask(t) /\ t.phase = "replying" /\ t.object = NoService /\ t.reply = reply /\ t.req = r
    BY <1>0 DEF IsTask
  <2>1. task' = [task EXCEPT ![c] = t] /\ task'[c] = t
    BY <1>3 DEF Replies, IInv, Shape
  <2> HIDE DEF t
  <2>2. Looks(c)'
    BY <2>0, <2>1 DEF Looks, Fresh
  <2>3. Explained(c)'
    BY <1>1, <1>3, <2>0, <2>1 DEF Explained, Explains, Answering
  <2>4. Ponged(t, removed)
    BY <1>3, <2>0 DEF Ponged
  <2>5. QED
    BY <1>0, <1>1, <1>2, <2>0, <2>1, <2>2, <2>3, <2>4, TaskStep
<1>4. CASE r.type = "HEARTBEAT" /\ Replies(c, Reply("INTERNAL_ERROR", "none"))
  BY <1>3, <1>4, SMTT(60) DEF Reply, PingRequest, Request
<1>5. CASE r.type = "GARBLED" /\ Replies(c, Reply("DESERIALIZE_ERROR", "none"))
  BY <1>3, <1>5, SMTT(60) DEF Reply, PingRequest, Request
<1>6. CASE svc = NoService /\ Replies(c, Reply(code_of("service_not_found"), "none"))
  <2>1. r = PingRequest => removed
    BY <1>6, SMTT(60) DEF PingRequest, Request, get_service, Names, IInv, Queue
  <2>2. QED
    BY <1>3, <1>6, <2>1 DEF Reply, code_of
<1>7. CASE task' = [task EXCEPT ![c].phase = "found", ![c].object = svc]
  <2> DEFINE t == [task[c] EXCEPT !.phase = "found", !.object = svc]
  <2>0. IsTask(t) /\ t.phase = "found" /\ t.object = svc /\ t.req = r
    BY <1>0 DEF IsTask
  <2>1. task' = [task EXCEPT ![c] = t] /\ task'[c] = t
    BY <1>7 DEF IInv, Shape
  <2> HIDE DEF t
  <2>2. Looks(c)'
    BY <2>0, <2>1 DEF Looks, Fresh
  <2>3. Explained(c)'
    BY <1>1, <2>0, <2>1 DEF Explained, Explains, Answering
  <2>4. Ponged(t, removed)
    BY <2>0 DEF Ponged, Answering
  <2>5. QED
    BY <1>0, <1>1, <1>2, <2>0, <2>1, <2>2, <2>3, <2>4, TaskStep
<1>8. QED
  BY <1>4, <1>5, <1>6, <1>7 DEF process_request

\* The number of connections counts each open one.
LEMMA CountsOpen ==
  ASSUME NEW c \in Clients, conns[c] = "open"
  PROVE  connection_count \in Nat \ {0}
<1> DEFINE Held == {d \in Clients : conns[d] \in {"open", "removing"}}
<1>1. IsFiniteSet(Held)
  BY ServerAssumption, FS_Subset
<1>2. Cardinality(Held) \in Nat /\ (Cardinality(Held) = 0 <=> Held = {})
  BY <1>1, FS_CardinalityType, FS_EmptySet
<1>3. c \in Held
  OBVIOUS
<1>4. QED
  BY <1>2, <1>3 DEF connection_count

\* A handler that replies keeps it, if the reply is one that the method may give.
LEMMA HandlerReplies ==
  ASSUME IInv, NEW c \in Clients, task[c].phase = "found", NEW reply, Replies(c, reply),
         UNCHANGED <<smVars, tasks_, conns, link, server, seen, removed, cliVars>>,
         reply.code = "SERVICE_NOT_FOUND" => reply.result = "service_not_found",
         reply.code = "METHOD_NOT_FOUND" =>
           task[c].req.method \notin methods(task[c].req.service) \/ reply.result = "method_not_found",
         conns[c] = "open" /\ server = "up" /\ task[c].req.method = "Stats" /\ reply.code = "OK" =>
           reply.result \in Nat \ {0},
         task[c].req = PingRequest => reply = Reply("OK", "pong")
  PROVE  IInv'
<1> DEFINE t == [task[c] EXCEPT !.phase = "replying", !.reply = reply]
<1>0. IsTask(task[c]) /\ task = [d \in Clients |-> task[d]]
  BY DEF IInv, Shape
<1>1. /\ IsTask(t) /\ t.phase = "replying" /\ t.object = task[c].object /\ t.reply = reply
      /\ t.req = task[c].req
  BY <1>0 DEF IsTask
<1>2. task' = [task EXCEPT ![c] = t] /\ task'[c] = t
  BY <1>0 DEF Replies
<1> HIDE DEF t
<1>3. seen' = [seen EXCEPT ![c] = seen'[c]]
  BY DEF IInv, Shape
<1>4. Looks(c)'
  BY <1>1, <1>2 DEF Looks, Fresh
<1>5. Explained(c)'
  BY <1>1, <1>2, SMTT(60) DEF Explained, Explains, Answering, IInv, TaskOK
<1>6. Ponged(t, removed)
  BY <1>1 DEF Ponged
<1>7. NetMoves
  BY NetSame
<1>8. QED
  BY <1>1, <1>2, <1>3, <1>4, <1>5, <1>6, <1>7, TaskStep

\* handle() keeps it: a missing method, Ping, Stats and the method of the added
\* service, if it returns or throws a runtime_error.
LEMMA HandleStep ==
  ASSUME IInv, NEW c \in Clients, no_method(c) \/ ping(c) \/ stats(c) \/ work(c), server' = server,
         UNCHANGED cliVars
  PROVE  IInv'
<1>0. /\ task[c].phase = "found"
      /\ UNCHANGED <<smVars, tasks_, conns, link, server, seen, removed, cliVars>>
  BY DEF no_method, ping, stats, work, Calls, Phase
<1>1. CASE no_method(c)
  <2>1. /\ Replies(c, Reply("METHOD_NOT_FOUND", "none"))
        /\ task[c].req.method \notin methods(task[c].req.service)
    BY <1>1 DEF no_method, code_of, Calls
  <2>2. task[c].req # PingRequest
    BY <2>1, SMTT(60) DEF PingRequest, Request, methods
  <2>3. QED
    BY <1>0, <2>1, <2>2, HandlerReplies DEF Reply
<1>2. CASE ping(c)
  <2>1. Replies(c, Reply("OK", "pong")) /\ task[c].req.method = "Ping"
    BY <1>2 DEF ping
  <2>2. QED
    BY <1>0, <2>1, HandlerReplies DEF Reply
<1>3. CASE stats(c)
  <2>1. task[c].req # PingRequest
    BY <1>3, SMTT(60) DEF stats, PingRequest, Request
  <2>2. CASE Replies(c, Reply("OK", connection_count))
    BY <1>0, <2>1, <2>2, HandlerReplies, CountsOpen DEF Reply
  <2>3. CASE server = "destroyed" /\ Replies(c, Reply("OK", 0))
    BY <1>0, <2>1, <2>3, HandlerReplies DEF Reply
  <2>4. QED
    BY <1>3, <2>2, <2>3 DEF stats
<1>4. CASE work(c)
  <2>1. task[c].req # PingRequest /\ task[c].req.method # "Stats"
    BY <1>4, SMTT(60) DEF work, Calls, PingRequest, Request
  <2>2. CASE Replies(c, Reply("OK", "worked"))
    BY <1>0, <2>1, <2>2, HandlerReplies DEF Reply
  <2>3. CASE Replies(c, Reply("SERVICE_NOT_FOUND", "service_not_found"))
    BY <1>0, <2>1, <2>3, HandlerReplies DEF Reply
  <2>4. CASE Replies(c, Reply("METHOD_NOT_FOUND", "method_not_found"))
    BY <1>0, <2>1, <2>4, HandlerReplies DEF Reply
  <2>5. CASE Replies(c, Reply("INTERNAL_ERROR", "other"))
    BY <1>0, <2>1, <2>5, HandlerReplies DEF Reply
  <2>6. QED
    BY <1>4, <2>2, <2>3, <2>4, <2>5 DEF work, code_of
<1>5. QED
  BY <1>1, <1>2, <1>3, <1>4

\* A Stats that finds the server destroyed may end the process.
LEMMA CrashStep ==
  ASSUME IInv, NEW c \in Clients, stats(c), server' # server, UNCHANGED cliVars
  PROVE  IInv'
<1>1. /\ server = "destroyed" /\ server' = "crashed"
      /\ UNCHANGED <<smVars, tasks_, task, seen, conns, link, removed>>
  BY DEF stats, Calls
<1>2. NetMoves
  <2>1. ASSUME NEW d \in Clients PROVE Wires(d)'
    BY <1>1 DEF IInv, Wires
  <2>2. QED
    BY <1>1, <2>1 DEF NetMoves, IInv, Shape, ServerStates
<1>3. QED
  BY <1>1, <1>2, NetStep

\* An exception that is no runtime_error ends the task, or the process and with it
\* all connections.
LEMMA ThrowStep ==
  ASSUME IInv, NEW c \in Clients, work_throws(c), UNCHANGED cliVars
  PROVE  IInv'
<1> DEFINE t == [task[c] EXCEPT !.phase = "thrown"]
<1>0. /\ IsTask(task[c]) /\ task = [d \in Clients |-> task[d]] /\ task[c].phase = "found"
      /\ seen = [d \in Clients |-> seen[d]]
      /\ conns \in [Clients -> ConnStates] /\ link \in [Clients -> LinkStates]
  BY DEF IInv, Shape, work_throws, Calls, Phase
<1>1. IsTask(t) /\ t.phase = "thrown" /\ t.req = task[c].req
  BY <1>0 DEF IsTask
<1>2. task' = [task EXCEPT ![c] = t] /\ task'[c] = t
  BY <1>0 DEF work_throws
<1> HIDE DEF t
<1>3. UNCHANGED <<smVars, tasks_, seen, removed>> /\ seen' = [seen EXCEPT ![c] = seen'[c]]
  BY <1>0 DEF work_throws, Calls
<1>4. NetMoves
  <2>1. CASE pooled
    BY <2>1, NetSame DEF work_throws
  <2>2. CASE ~pooled
    <3>1. /\ server' = "crashed" /\ link' = Cut(Clients)
          /\ conns' = [d \in Clients |-> IF conns[d] = "none" THEN "none" ELSE "closed"]
      BY <2>2 DEF work_throws
    <3>2. \A d \in Clients : /\ link'[d] = IF link[d] = "up" THEN "lost" ELSE link[d]
                             /\ conns'[d] = IF conns[d] = "none" THEN "none" ELSE "closed"
      BY <3>1 DEF Cut
    <3>3. conns' \in [Clients -> ConnStates] /\ link' \in [Clients -> LinkStates]
      BY <1>0, <3>1 DEF Cut, ConnStates, LinkStates
    <3>4. \A d \in Clients : link[d] = "none" <=> conns[d] = "none"
      BY DEF IInv, Wires
    <3>5. server' \in ServerStates /\ server' # "up" /\ server' # "closing"
      BY <3>1 DEF ServerStates
    <3>6. ASSUME NEW d \in Clients
          PROVE  /\ Wires(d)'
                 /\ conns'[d] = "none" <=> conns[d] = "none"
                 /\ conns'[d] = "open" => conns[d] = "open"
                 /\ link'[d] = link[d] \/ (link[d] = "up" /\ link'[d] = "lost")
      BY <3>2, <3>4, SMTT(60) DEF Wires
    <3>7. QED
      BY <3>3, <3>5, <3>6 DEF NetMoves
  <2>3. QED
    BY <2>1, <2>2
<1>5. Looks(c)' /\ Explained(c)' /\ Ponged(t, removed)
  BY <1>1, <1>2 DEF Looks, Explained, Explains, Ponged, Fresh, Answering
<1>6. QED
  BY <1>0, <1>1, <1>2, <1>3, <1>4, <1>5, TaskStep

\* An element of a sequence over a set is in the set.
LEMMA SeqElement ==
  ASSUME NEW S, NEW s \in Seq(S)
  PROVE  \A i \in DOMAIN s : s[i] \in S
BY SMTT(60)

\* A request of the loop that goes to the pool, or is begun with, keeps it.
LEMMA OnMessageStep ==
  ASSUME IInv, NEW c \in Clients, on_message(c), UNCHANGED cliVars
  PROVE  IInv'
<1>0. /\ IsTask(task[c]) /\ task = [d \in Clients |-> task[d]] /\ task[c].phase = "arriving"
      /\ tasks_ \in Seq(Clients) /\ seen' = [seen EXCEPT ![c] = seen'[c]]
      /\ UNCHANGED <<smVars, seen, removed>> /\ NetMoves
  BY NetSame DEF IInv, Shape, on_message, Phase
<1>1. ASSUME NEW p \in {"queued", "begun"}, task' = [task EXCEPT ![c].phase = p],
             tasks_' \in Seq(Clients),
             (\A d \in Clients : task'[d].phase = IF d = c THEN p ELSE task[d].phase) => Queue'
      PROVE  IInv'
  <2> DEFINE t == [task[c] EXCEPT !.phase = p]
  <2>1. IsTask(t) /\ t.phase = p /\ t.object = task[c].object /\ t.req = task[c].req
    BY <1>0 DEF IsTask
  <2>2. task' = [task EXCEPT ![c] = t] /\ task'[c] = t
    BY <1>0, <1>1
  <2> HIDE DEF t
  <2>3. \A d \in Clients : task'[d].phase = IF d = c THEN p ELSE task[d].phase
    BY <1>0, <2>1, <2>2
  <2>4. Looks(c)'
    BY <1>0, <2>1, <2>2 DEF Looks, Fresh, Registered, IInv, TaskOK, smVars
  <2>5. Explained(c)'
    BY <2>1, <2>2 DEF Explained, Explains, Answering
  <2>6. Ponged(t, removed)
    BY <2>1 DEF Ponged, Answering
  <2>7. QED
    BY <1>0, <1>1, <2>1, <2>2, <2>3, <2>4, <2>5, <2>6, TaskMoves
<1>2. \A i \in DOMAIN tasks_ : /\ tasks_[i] \in Clients /\ tasks_[i] # c
                               /\ task[tasks_[i]].phase = "queued"
                               /\ \A j \in DOMAIN tasks_ : tasks_[i] = tasks_[j] => i = j
  <2>1. \A i \in DOMAIN tasks_ : tasks_[i] \in Clients
    BY <1>0, SeqElement
  <2>2. \A i \in DOMAIN tasks_ : task[tasks_[i]].phase = "queued"
    BY DEF IInv, Queue
  <2>3. \A i \in DOMAIN tasks_ : tasks_[i] # c
    BY <1>0, <2>2
  <2>4. QED
    BY <2>1, <2>2, <2>3 DEF IInv, Queue
<1>3. CASE pooled
  <2>1. task' = [task EXCEPT ![c].phase = "queued"] /\ tasks_' = Append(tasks_, c)
    BY <1>3 DEF on_message
  <2>2. /\ DOMAIN tasks_' = 1 .. Len(tasks_) + 1 /\ tasks_'[Len(tasks_) + 1] = c
        /\ \A i \in DOMAIN tasks_ : tasks_'[i] = tasks_[i]
        /\ DOMAIN tasks_ = 1 .. Len(tasks_) /\ Len(tasks_) \in Nat
        /\ tasks_' \in Seq(Clients)
    BY <1>0, <2>1, SMTT(60)
  <2>3. \A i \in DOMAIN tasks_' : i \in DOMAIN tasks_ \/ i = Len(tasks_) + 1
    BY <2>2, SMTT(60)
  <2>4. ASSUME \A d \in Clients : task'[d].phase = IF d = c THEN "queued" ELSE task[d].phase
        PROVE  Queue'
    <3>1. \A i \in DOMAIN tasks_' : task'[tasks_'[i]].phase = "queued"
      BY <1>2, <2>2, <2>3, <2>4
    <3>2. \A i, j \in DOMAIN tasks_' : tasks_'[i] = tasks_'[j] => i = j
      BY <1>2, <2>2, <2>3
    <3>3. QED
      BY <1>0, <3>1, <3>2 DEF Queue, IInv, smVars
  <2>5. QED
    BY <1>1, <2>1, <2>2, <2>4
<1>4. CASE ~pooled
  <2>1. task' = [task EXCEPT ![c].phase = "begun"] /\ tasks_' = tasks_
    BY <1>4 DEF on_message
  <2>2. ASSUME \A d \in Clients : task'[d].phase = IF d = c THEN "begun" ELSE task[d].phase
        PROVE  Queue'
    BY <1>0, <1>2, <2>1, <2>2 DEF Queue, IInv, smVars
  <2>3. QED
    BY <1>0, <1>1, <2>1, <2>2
<1>5. QED
  BY <1>3, <1>4

\* A worker that takes a task keeps it.
LEMMA TakeStep ==
  ASSUME IInv, take, UNCHANGED cliVars
  PROVE  IInv'
<1>1. /\ tasks_ \in Seq(Clients) /\ tasks_ # <<>> /\ tasks_' = Tail(tasks_)
      /\ UNCHANGED <<smVars, seen, removed>> /\ NetMoves
  BY NetSame DEF take, IInv, Shape
<1>2. PICK c \in Clients : c = Head(tasks_)
  BY <1>1, SMTT(60)
<1> DEFINE t == [task[c] EXCEPT !.phase = "begun"]
<1>a. /\ c = tasks_[1] /\ 1 \in DOMAIN tasks_ /\ tasks_' \in Seq(Clients)
      /\ \A i \in DOMAIN tasks_ : tasks_[i] \in Clients
      /\ \A i \in DOMAIN tasks_' : i + 1 \in DOMAIN tasks_ /\ i + 1 # 1 /\ i \in Nat
                                  /\ tasks_'[i] = tasks_[i + 1]
  BY <1>1, <1>2, SMTT(60)
<1>b. \A i \in DOMAIN tasks_ : /\ task[tasks_[i]].phase = "queued"
                               /\ \A j \in DOMAIN tasks_ : tasks_[i] = tasks_[j] => i = j
  BY DEF IInv, Queue
<1>3. /\ IsTask(task[c]) /\ task = [d \in Clients |-> task[d]]
      /\ seen' = [seen EXCEPT ![c] = seen'[c]] /\ task[c].phase = "queued"
  BY <1>1, <1>a, <1>b DEF IInv, Shape
<1>4. task' = [task EXCEPT ![c] = t]
  BY <1>2, <1>3 DEF take
<1>5. IsTask(t) /\ t.phase = "begun" /\ t.object = task[c].object /\ t.req = task[c].req
  BY <1>3 DEF IsTask
<1> HIDE DEF t
<1>6. task'[c] = t /\ \A d \in Clients : d # c => task'[d] = task[d]
  BY <1>3, <1>4
<1>7. Queue'
  <2>1. \A i \in DOMAIN tasks_' : tasks_'[i] \in Clients /\ tasks_'[i] # c
                                 /\ task[tasks_'[i]].phase = "queued"
    BY <1>a, <1>b, SMTT(60)
  <2>2. \A i, j \in DOMAIN tasks_' : tasks_'[i] = tasks_'[j] => i = j
    BY <1>a, <1>b, SMTT(60)
  <2>3. QED
    BY <1>1, <1>6, <2>1, <2>2 DEF Queue, IInv, smVars
<1>8. Looks(c)'
  BY <1>1, <1>3, <1>5, <1>6 DEF Looks, Fresh, Registered, IInv, TaskOK, smVars
<1>9. Explained(c)' /\ Ponged(t, removed)
  BY <1>5, <1>6 DEF Explained, Explains, Ponged, Answering
<1>10. QED
  BY <1>1, <1>a, <1>3, <1>4, <1>5, <1>7, <1>8, <1>9, TaskMoves

\* A reply that is sent, or dropped because nobody would read it, keeps it.
LEMMA SendStep ==
  ASSUME IInv, NEW c \in Clients, send_response(c), UNCHANGED cliVars
  PROVE  IInv'
<1>0. /\ IsTask(task[c]) /\ task = [d \in Clients |-> task[d]] /\ task[c].phase = "replying"
      /\ seen = [d \in Clients |-> seen[d]]
      /\ UNCHANGED <<smVars, tasks_, conns, link, server, removed>> /\ NetMoves
  BY NetSame DEF IInv, Shape, send_response, SendIf, Phase
<1>1. CASE Sendable(c) /\ link[c] \in {"up", "lost"}
  <2> DEFINE t == [task[c] EXCEPT !.phase = "answered"]
  <2>1. /\ IsTask(t) /\ t.phase = "answered" /\ t.object = task[c].object
        /\ t.reply = task[c].reply /\ t.req = task[c].req
    BY <1>0 DEF IsTask
  <2>2. /\ task' = [task EXCEPT ![c] = t] /\ task'[c] = t
        /\ seen' = seen /\ seen' = [seen EXCEPT ![c] = seen'[c]]
    BY <1>0, <1>1 DEF send_response, SendIf
  <2> HIDE DEF t
  <2>3. Looks(c)'
    BY <2>1, <2>2 DEF Looks, Fresh
  <2>a. Explains(task[c], seen[c], conns[c] = "open", server = "up")
    BY DEF IInv, TaskOK, Explained
  <2>b. server = "up" => conns[c] = "open"
    BY <1>1 DEF IInv, Wires, Sendable
  <2>4. Explained(c)'
    BY <1>0, <2>a, <2>b, <2>1, <2>2, SMTT(60) DEF Explained, Explains, Answering
  <2>5. Ponged(t, removed)
    BY <1>0, <2>1 DEF Ponged, Answering, IInv, TaskOK
  <2>6. QED
    BY <1>0, <2>1, <2>2, <2>3, <2>4, <2>5, TaskStep
<1>2. CASE ~(Sendable(c) /\ link[c] \in {"up", "lost"})
  <2>1. NoTask.phase = "none" /\ IsTask(NoTask)
    BY DEF NoTask, IsTask
  <2>2. /\ task' = [task EXCEPT ![c] = NoTask] /\ task'[c] = NoTask
        /\ seen' = [seen EXCEPT ![c] = seen'[c]]
    BY <1>0, <1>2 DEF send_response, SendIf
  <2>3. Looks(c)' /\ Explained(c)' /\ Ponged(NoTask, removed)
    BY <2>1, <2>2 DEF Looks, Explained, Explains, Ponged, Fresh, Answering
  <2>4. QED
    BY <1>0, <2>1, <2>2, <2>3, TaskStep
<1>3. QED
  BY <1>1, <1>2

\* A connection that is removed, closed or found broken, and a server that stops.
LEMMA EndsMove ==
  ASSUME IInv, Ends \/ \E c \in Clients : remove(c)
  PROVE  NetMoves
<1>0. /\ conns \in [Clients -> ConnStates] /\ link \in [Clients -> LinkStates]
      /\ server \in ServerStates /\ \A d \in Clients : Wires(d)
  BY DEF IInv, Shape
<1> DEFINE Moves(d) == /\ Wires(d)'
                       /\ conns'[d] = "none" <=> conns[d] = "none"
                       /\ conns'[d] = "open" => conns[d] = "open"
                       /\ link'[d] = link[d] \/ (link[d] = "up" /\ link'[d] = "lost")
<1>1. CASE stop
  <2>1. /\ server = "up" /\ server' = "closing" /\ link' = link
        /\ conns' = [d \in Clients |-> IF conns[d] = "open" THEN "taken"
                                       ELSE IF conns[d] = "removing" THEN "closed" ELSE conns[d]]
    BY <1>1 DEF stop
  <2>2. conns' \in [Clients -> ConnStates]
    BY <1>0, <2>1 DEF ConnStates
  <2>3. \A d \in Clients : conns'[d] = IF conns[d] = "open" THEN "taken"
                                       ELSE IF conns[d] = "removing" THEN "closed" ELSE conns[d]
    BY <2>1
  <2>4. ASSUME NEW d \in Clients PROVE Moves(d)
    BY <1>0, <2>1, <2>3, SMTT(60) DEF Wires
  <2>5. QED
    BY <1>0, <2>1, <2>2, <2>4 DEF NetMoves, ServerStates
<1>2. ASSUME NEW c \in Clients, close(c) PROVE NetMoves
  <2>1. /\ server = "closing" /\ server' = server /\ conns[c] = "taken"
        /\ conns' = [conns EXCEPT ![c] = "closed"] /\ link' = Cut({c})
    BY <1>2 DEF close
  <2>2. conns' \in [Clients -> ConnStates]
    BY <1>0, <2>1 DEF ConnStates
  <2>3. link' \in [Clients -> LinkStates]
    BY <1>0, <2>1 DEF Cut, LinkStates
  <2>4. \A d \in Clients : /\ conns'[d] = IF d = c THEN "closed" ELSE conns[d]
                           /\ link'[d] = IF d = c /\ link[d] = "up" THEN "lost" ELSE link[d]
    BY <1>0, <2>1 DEF Cut
  <2>5. ASSUME NEW d \in Clients PROVE Moves(d)
    BY <1>0, <2>1, <2>4, SMTT(60) DEF Wires
  <2>6. QED
    BY <1>0, <2>1, <2>2, <2>3, <2>5 DEF NetMoves
<1>3. CASE stop_ios \/ join
  <2>1. /\ conns' = conns /\ link' = link /\ server' \in {"stopping", "destroyed"}
        /\ \A d \in Clients : conns[d] \notin {"open", "removing", "taken"}
    BY <1>0, <1>3 DEF stop_ios, join, Wires
  <2>2. ASSUME NEW d \in Clients PROVE Moves(d)
    BY <1>0, <2>1, SMTT(60) DEF Wires
  <2>3. QED
    BY <1>0, <2>1, <2>2 DEF NetMoves, ServerStates
<1>4. ASSUME NEW c \in Clients, conn_error(c) \/ remove(c) PROVE NetMoves
  <2>1. /\ server' = server /\ link' = link
        /\ conns' = [conns EXCEPT ![c] = conns'[c]]
        /\ \/ link[c] # "up" /\ conns[c] = "open" /\ conns'[c] = "removing"
           \/ conns[c] \in {"taken", "removing"} /\ link[c] # "up" /\ conns'[c] = "closed"
    <3>1. CASE conn_error(c)
      <4>1. /\ link[c] # "up" /\ conns[c] \in {"open", "taken"} /\ server' = server /\ link' = link
            /\ conns' = [conns EXCEPT ![c] = IF conns[c] = "open" THEN "removing" ELSE "closed"]
        BY <3>1 DEF conn_error
      <4>2. QED
        BY <1>0, <4>1, SMTT(60)
    <3>2. CASE remove(c)
      <4>1. /\ conns[c] = "removing" /\ server' = server /\ link' = link
            /\ conns' = [conns EXCEPT ![c] = "closed"]
        BY <3>2 DEF remove
      <4>2. link[c] # "up"
        BY <1>0, <4>1 DEF Wires
      <4>3. QED
        BY <1>0, <4>1, <4>2
    <3>3. QED
      BY <1>4, <3>1, <3>2
  <2>2. conns' \in [Clients -> ConnStates]
    BY <1>0, <2>1 DEF ConnStates
  <2>3. \A d \in Clients : d # c => conns'[d] = conns[d]
    BY <1>0, <2>1
  <2>4. ASSUME NEW d \in Clients PROVE Moves(d)
    BY <1>0, <2>1, <2>3, SMTT(60) DEF Wires
  <2>5. QED
    BY <1>0, <2>1, <2>2, <2>4 DEF NetMoves
<1>5. QED
  BY <1>1, <1>2, <1>3, <1>4 DEF Ends

\* They keep the invariant, also where a request that was not read is dropped.
LEMMA EndsStep ==
  ASSUME IInv, Ends \/ \E c \in Clients : remove(c), UNCHANGED cliVars
  PROVE  IInv'
<1>1. NetMoves
  BY EndsMove
<1>2. CASE UNCHANGED <<smVars, tasks_, task, seen, removed>>
  BY <1>1, <1>2, NetStep
<1>3. ASSUME NEW c \in Clients, conn_error(c), Phase(c, "arriving") PROVE IInv'
  <2>1. /\ task = [d \in Clients |-> task[d]] /\ seen = [d \in Clients |-> seen[d]]
        /\ task[c].phase = "arriving"
    BY <1>3 DEF IInv, Shape, Phase
  <2>2. /\ task' = [task EXCEPT ![c] = NoTask] /\ seen' = [seen EXCEPT ![c] = {}]
        /\ UNCHANGED <<smVars, tasks_, removed>>
    BY <1>3 DEF conn_error
  <2>3. NoTask.phase = "none" /\ IsTask(NoTask)
    BY DEF NoTask, IsTask
  <2>4. task'[c] = NoTask /\ seen' = [seen EXCEPT ![c] = seen'[c]]
    BY <2>1, <2>2
  <2>5. Looks(c)' /\ Explained(c)' /\ Ponged(NoTask, removed)
    BY <2>3, <2>4 DEF Looks, Explained, Explains, Ponged, Fresh, Answering
  <2>6. QED
    BY <1>1, <2>1, <2>2, <2>3, <2>4, <2>5, TaskStep
<1>4. ASSUME NEW c \in Clients, conn_error(c), ~Phase(c, "arriving")
      PROVE  UNCHANGED <<smVars, tasks_, task, seen, removed>>
  BY <1>4 DEF conn_error
<1>5. ASSUME stop \/ stop_ios \/ join \/ \E c \in Clients : close(c) \/ remove(c)
      PROVE  UNCHANGED <<smVars, tasks_, task, seen, removed>>
  BY <1>5 DEF stop, stop_ios, join, close, remove
<1>6. QED
  BY <1>2, <1>3, <1>4, <1>5 DEF Ends

\* A connection that breaks keeps it.
LEMMA LoseStep ==
  ASSUME IInv, NEW c \in Clients, Lose(c)
  PROVE  IInv'
<1>0. /\ conns \in [Clients -> ConnStates] /\ link \in [Clients -> LinkStates]
      /\ server \in ServerStates /\ \A d \in Clients : Wires(d)
  BY DEF IInv, Shape
<1>1. /\ link[c] = "up" /\ link' = [link EXCEPT ![c] = "lost"]
      /\ UNCHANGED <<smVars, tasks_, task, conns, server, seen, removed, cliVars>>
  BY DEF Lose
<1>2. link' \in [Clients -> LinkStates]
  BY <1>0, <1>1 DEF LinkStates
<1>3. \A d \in Clients : link'[d] = IF d = c THEN "lost" ELSE link[d]
  BY <1>0, <1>1
<1>4. ASSUME NEW d \in Clients
      PROVE  Wires(d)' /\ (link'[d] = link[d] \/ (link[d] = "up" /\ link'[d] = "lost"))
  BY <1>0, <1>1, <1>3, SMTT(60) DEF Wires
<1>5. NetMoves
  BY <1>0, <1>1, <1>2, <1>4 DEF NetMoves
<1>6. QED
  BY <1>1, <1>5, NetStep

\* A registration or its removal keeps it: a request that has not looked yet notes
\* what it may find now.
LEMMA RegistryStep ==
  ASSUME IInv, NEW n \in Changing, Registry(n), UNCHANGED cliVars
  PROVE  IInv'
<1> USE DEF IInv
<1>0. n \in Names /\ UNCHANGED <<tasks_, task, conns, link, server>> /\ NetMoves
  BY RegsAssumption, NetSame DEF Registry
<1>1. /\ services_' = [services_ EXCEPT ![n] = services_'[n]]
      /\ services_' = [m \in Names |-> services_'[m]]
      /\ \A m \in Names : m # n => services_'[m] = services_[m]
  BY <1>0 DEF Registry, register_service, unregister_service, Shape
<1>2. /\ \A d \in Clients : seen'[d] = IF Looking(d, n) THEN seen[d] \cup {services_'[n]} ELSE seen[d]
      /\ seen' = [d \in Clients |-> seen'[d]]
      /\ removed' \in BOOLEAN
      /\ removed => removed'
      /\ services_'["PingService"] = NoService => removed'
  BY DEF Registry, Shape
<1>3. Shape'
  BY <1>0, <1>1, <1>2 DEF Shape, cliVars
<1>4. Queue'
  BY <1>0, <1>2 DEF Queue
<1>5. \A d \in Clients : Wires(d)' /\ Flow(d)' /\ Counted(d)'
  <2>1. \A d \in Clients : Wires(d)' /\ Flow(d)'
    BY <1>0 DEF Wires, Flow, cliVars
  <2>2. QED
    BY <1>0, <1>2, <2>1, CountedKept
<1>6. \A d \in Clients : Looks(d)'
  <2> SUFFICES ASSUME NEW d \in Clients, task[d].phase \in Fresh
               PROVE  Registered(task[d].req.service)' \in seen'[d] /\ task[d].object = NoService
    BY <1>0 DEF Looks
  <2>1. Registered(task[d].req.service) \in seen[d] /\ task[d].object = NoService
    BY DEF TaskOK, Looks
  <2>2. CASE task[d].req.service = n
    <3>1. Looking(d, n) /\ services_'[n] \in seen'[d]
      BY <1>2, <2>2 DEF Looking, Fresh
    <3>2. Registered(task[d].req.service)' = services_'[n]
      BY <1>0, <2>2 DEF Registered
    <3>3. QED
      BY <2>1, <3>1, <3>2
  <2>3. CASE task[d].req.service # n
    BY <1>0, <1>1, <1>2, <2>1, <2>3 DEF Registered
  <2>4. QED
    BY <2>1, <2>2, <2>3
<1>7. \A d \in Clients : Explained(d)' /\ Ponged(task'[d], removed')
  <2>1. \A d \in Clients : task[d].phase \notin Fresh => seen'[d] = seen[d]
    BY <1>2 DEF Looking, Fresh
  <2>2. \A d \in Clients : Ponged(task'[d], removed')
    BY <1>0, <1>2 DEF TaskOK, Ponged
  <2>3. ASSUME NEW d \in Clients PROVE Explained(d)'
    <3>1. /\ Explains(task[d], seen[d], conns[d] = "open", server = "up")
          /\ task' = task /\ conns' = conns /\ server' = server
      BY <1>0 DEF TaskOK, Explained
    <3>2. CASE task[d].phase \notin Fresh
      BY <2>1, <3>1, <3>2 DEF Explained
    <3>3. CASE task[d].phase \in Fresh
      BY <3>1, <3>3 DEF Explained, Explains, Fresh, Answering
    <3>4. QED
      BY <3>2, <3>3
  <2>4. QED
    BY <2>2, <2>3
<1>8. \A d \in Clients : Scripted(d)'
  BY <1>0 DEF TaskOK, Scripted, Script, Before, cliVars
<1>9. QED
  BY <1>3, <1>4, <1>5, <1>6, <1>7, <1>8 DEF TaskOK

-------------------------------------------------------------------------------
(* The clients *)

\* The queue stays as it is when the tasks in it do.
LEMMA QueueKept ==
  ASSUME Queue, UNCHANGED <<tasks_, services_, removed>>,
         \A i \in DOMAIN tasks_ : task'[tasks_[i]] = task[tasks_[i]]
  PROVE  Queue'
BY DEF Queue

\* A step of the program c keeps the invariant if it keeps what concerns c.
LEMMA ClientStep ==
  ASSUME IInv, NEW c \in Clients, UNCHANGED <<smVars, tasks_, server, removed, prog>>,
         task[c].phase # "queued" \/ task' = task,
         \A d \in Clients : d # c =>
           /\ task'[d] = task[d] /\ seen'[d] = seen[d] /\ conns'[d] = conns[d]
           /\ link'[d] = link[d] /\ cpc'[d] = cpc[d]
           /\ made'[d] = made[d] /\ success'[d] = success[d] /\ fail'[d] = fail[d],
         Shape', Wires(c)', Flow(c)', TaskOK(c)', Counted(c)'
  PROVE  IInv'
<1> USE DEF IInv
<1>1. Queue'
  <2>1. tasks_ \in Seq(Clients) /\ \A i \in DOMAIN tasks_ : task[tasks_[i]].phase = "queued"
    BY DEF Shape, Queue
  <2>2. \A i \in DOMAIN tasks_ : tasks_[i] \in Clients
    BY <2>1, SeqElement
  <2>a. \A i \in DOMAIN tasks_ : tasks_[i] # c \/ task' = task
    BY <2>1
  <2>3. \A i \in DOMAIN tasks_ : task'[tasks_[i]] = task[tasks_[i]]
    BY <2>2, <2>a
  <2>4. QED
    BY <2>3, QueueKept DEF smVars
<1>2. ASSUME NEW d \in Clients, d # c PROVE Wires(d)' /\ Flow(d)' /\ TaskOK(d)' /\ Counted(d)'
  <2>1. Wires(d) /\ Flow(d) /\ TaskOK(d) /\ Counted(d)
    OBVIOUS
  <2>2. /\ task'[d] = task[d] /\ seen'[d] = seen[d] /\ conns'[d] = conns[d]
        /\ link'[d] = link[d] /\ cpc'[d] = cpc[d]
        /\ made'[d] = made[d] /\ success'[d] = success[d] /\ fail'[d] = fail[d]
    BY <1>2
  <2>3. Wires(d)' /\ Flow(d)' /\ Counted(d)'
    <3>1. Wires(d)' /\ Flow(d)'
      BY <2>1, <2>2 DEF Wires, Flow
    <3>2. Returned(d)' = Returned(d) /\ Total(d)' = Total(d) /\ Before(d)' = Before(d)
      BY <2>2 DEF Returned, Total, Before
    <3>3. QED
      BY <2>1, <2>2, <3>1, <3>2 DEF Counted
  <2>4. Looks(d)' /\ Explained(d)' /\ Ponged(task'[d], removed')
    <3>1. Looks(d) /\ Explained(d) /\ Ponged(task[d], removed)
      BY <2>1 DEF TaskOK
    <3>2. Looks(d)'
      BY <2>2, <3>1 DEF Looks, Registered, smVars
    <3>3. QED
      BY <2>2, <3>1, <3>2 DEF Explained
  <2>5. Scripted(d)'
    BY <2>1, <2>2 DEF TaskOK, Scripted, Script, Before
  <2>6. QED
    BY <2>3, <2>4, <2>5 DEF TaskOK
<1>3. QED
  BY <1>1, <1>2

\* A task that is none concerns nothing.
LEMMA NoneOK ==
  ASSUME NEW c \in Clients, (task[c].phase = "none")'
  PROVE  TaskOK(c)'
BY DEF TaskOK, Looks, Explained, Explains, Ponged, Scripted, Fresh, Answering

\* connect() and its failure keep it.
LEMMA ConnectStep ==
  ASSUME IInv, NEW c \in Clients, Connect(c) \/ ConnectFails(c)
  PROVE  IInv'
<1>0. /\ Shape /\ Wires(c) /\ Flow(c) /\ Counted(c) /\ cpc[c] = "start"
      /\ conns[c] = "none" /\ link[c] = "none" /\ task[c].phase = "none"
  BY DEF IInv, Connect, ConnectFails, Wires, Flow
<1>a. cpc \in [Clients -> ClientStates] /\ conns \in [Clients -> ConnStates] /\ link \in [Clients -> LinkStates]
  BY <1>0 DEF Shape
<1>1. /\ UNCHANGED <<services_, regs, tasks_, server, removed, prog, task, seen, made, success, fail, fate>>
      /\ cpc' = [cpc EXCEPT ![c] = cpc'[c]] /\ conns' = [conns EXCEPT ![c] = conns'[c]]
      /\ link' = [link EXCEPT ![c] = link'[c]]
      /\ \/ cpc'[c] = "idle" /\ conns'[c] = "open" /\ link'[c] = "up" /\ server = "up"
         \/ cpc'[c] = "failed" /\ conns'[c] = "none" /\ link'[c] = "none"
  <2>1. CASE Connect(c)
    BY <1>a, <2>1 DEF Connect, smVars
  <2>2. CASE ConnectFails(c)
    BY <1>0, <1>a, <2>2 DEF ConnectFails, srvVars, smVars
  <2>3. QED
    BY <2>1, <2>2
<1>2. Shape'
  <2>2. cpc' \in [Clients -> ClientStates]
    BY <1>1, <1>a DEF ClientStates
  <2>3. conns' \in [Clients -> ConnStates]
    BY <1>1, <1>a DEF ConnStates
  <2>4. link' \in [Clients -> LinkStates]
    BY <1>1, <1>a DEF LinkStates
  <2>5. QED
    BY <1>0, <1>1, <2>2, <2>3, <2>4 DEF Shape
<1>3. Wires(c)' /\ Flow(c)'
  BY <1>0, <1>1 DEF Wires, Flow
<1>4. Counted(c)'
  <2>1. Before(c)' = Before(c) /\ Total(c)' = Total(c) /\ Returned(c)' = Returned(c)
    BY <1>0, <1>1 DEF Before, Total, Returned
  <2>2. QED
    BY <1>0, <1>1, <2>1 DEF Counted
<1>5. TaskOK(c)'
  BY <1>0, <1>1, NoneOK
<1>6. \A d \in Clients : d # c => conns'[d] = conns[d] /\ link'[d] = link[d] /\ cpc'[d] = cpc[d]
  BY <1>a, <1>1
<1>7. QED
  BY <1>1, <1>2, <1>3, <1>4, <1>5, <1>6, ClientStep DEF smVars

\* call() keeps it: while the connection is up the request arrives, and has seen what is
\* registered now.
LEMMA CallStep ==
  ASSUME IInv, NEW c \in Clients, Call(c)
  PROVE  IInv'
<1>0. /\ Shape /\ Wires(c) /\ Flow(c) /\ Counted(c) /\ TaskOK(c) /\ cpc[c] = "idle"
      /\ UNCHANGED <<services_, regs, tasks_, server, removed, prog, conns, link, success, fail>>
      /\ made[c] \in Nat
  BY DEF IInv, Call, smVars, Shape
<1>1. /\ made' = [made EXCEPT ![c] = made[c] + 1] /\ made'[c] = made[c] + 1
      /\ cpc' = [cpc EXCEPT ![c] = "waiting"] /\ cpc'[c] = "waiting"
      /\ fate' = [fate EXCEPT ![c] = fate'[c]]
  BY <1>0 DEF Call, Shape
<1>2. \A d \in Clients : d # c => made'[d] = made[d] /\ cpc'[d] = cpc[d]
  BY <1>0, <1>1 DEF Shape
<1>3. Counted(c)'
  <2>1. Returned(c)' = Returned(c) /\ made'[c] >= 1
    BY <1>0, <1>1, SMTT(60) DEF Returned
  <2>2. Before(c)' = Before(c) /\ Total(c)' = Total(c)
    BY <1>0 DEF Before, Total
  <2>3. QED
    BY <1>0, <1>1, <2>1, <2>2 DEF Counted
<1>a. /\ made' \in [Clients -> Nat] /\ fate' = [d \in Clients |-> fate'[d]]
      /\ cpc' \in [Clients -> ClientStates]
  <2>1. /\ cpc \in [Clients -> ClientStates]
        /\ made \in [Clients -> Nat] /\ fate = [d \in Clients |-> fate[d]]
    BY <1>0 DEF Shape
  <2>2. made' \in [Clients -> Nat]
    BY <1>0, <1>1, <2>1, SMTT(60)
  <2>3. cpc' \in [Clients -> ClientStates]
    BY <1>1, <2>1 DEF ClientStates
  <2>4. fate' = [d \in Clients |-> fate'[d]]
    BY <1>1, <2>1
  <2>5. QED
    BY <2>2, <2>3, <2>4
<1>4. CASE link[c] = "up"
  <2>1. PICK r \in Script(c, made[c] + 1) :
          /\ task' = [task EXCEPT ![c] = [NoTask EXCEPT !.req = r, !.phase = "arriving"]]
          /\ seen' = [seen EXCEPT ![c] = {Registered(r.service)}]
    BY <1>4 DEF Call
  <2> DEFINE t == [NoTask EXCEPT !.req = r, !.phase = "arriving"]
  <2>2. IsTask(t) /\ t.phase = "arriving" /\ t.object = NoService /\ t.req = r
    <3>1. IsTask(NoTask) /\ NoTask.object = NoService
      BY DEF NoTask, IsTask
    <3>2. QED
      BY <3>1 DEF IsTask
  <2>3. task' = [task EXCEPT ![c] = t]
    BY <2>1
  <2> HIDE DEF t
  <2>4. /\ task'[c] = t /\ seen'[c] = {Registered(r.service)}
        /\ \A d \in Clients : d # c => task'[d] = task[d] /\ seen'[d] = seen[d]
        /\ task' = [d \in Clients |-> task'[d]] /\ seen' = [d \in Clients |-> seen'[d]]
    BY <1>0, <2>1, <2>3 DEF Shape
  <2>5. Shape'
    <3>1. \A d \in Clients : IsTask(task'[d])
      BY <1>0, <2>2, <2>4 DEF Shape
    <3>2. QED
      BY <1>0, <1>a, <2>4, <3>1 DEF Shape
  <2>6. Wires(c)' /\ Flow(c)'
    BY <1>0, <1>1, <1>4 DEF Wires, Flow
  <2>7. Looks(c)'
    BY <1>0, <2>2, <2>4 DEF Looks, Registered
  <2>8. Explained(c)' /\ Ponged(task'[c], removed')
    BY <2>2, <2>4 DEF Explained, Explains, Ponged, Answering
  <2>9. Scripted(c)'
    <3>1. Script(c, made[c])' = Script(c, made[c] + 1)
      BY <1>0, <1>1 DEF Script, Before
    <3>2. QED
      BY <2>2, <2>4, <3>1 DEF Scripted
  <2>10. task[c].phase # "queued"
    BY <1>0, <1>4 DEF Flow
  <2>11. QED
    BY <1>0, <1>2, <1>3, <2>4, <2>5, <2>6, <2>7, <2>8, <2>9, <2>10, ClientStep DEF TaskOK, smVars
<1>5. CASE link[c] # "up"
  <2>1. UNCHANGED <<task, seen>>
    BY <1>5 DEF Call
  <2>2. Shape'
    BY <1>0, <1>a, <2>1 DEF Shape
  <2>3. Wires(c)' /\ Flow(c)'
    BY <1>0, <1>1, <1>5, <2>1 DEF Wires, Flow
  <2>4. Looks(c)' /\ Explained(c)' /\ Ponged(task'[c], removed')
    BY <1>0, <2>1 DEF TaskOK, Looks, Explained, Ponged, Registered
  <2>5. Scripted(c)'
    BY <1>0, <1>5 DEF Scripted
  <2>6. QED
    BY <1>0, <1>2, <1>3, <2>1, <2>2, <2>3, <2>4, <2>5, ClientStep DEF TaskOK, smVars
<1>6. QED
  BY <1>4, <1>5 DEF Call

\* What the end of a call of c does.
Returns(c) ==
  /\ cpc[c] = "waiting" /\ cpc'[c] = "idle"
  /\ UNCHANGED <<services_, regs, tasks_, conns, server, removed, prog, made>>
  /\ \A d \in Clients : d # c => /\ cpc'[d] = cpc[d] /\ success'[d] = success[d]
                                 /\ fail'[d] = fail[d]
  /\ cpc' \in [Clients -> ClientStates]
  /\ success' \in [Clients -> Nat] /\ fail' \in [Clients -> Nat]
  /\ fate' = [d \in Clients |-> fate'[d]]

\* What TallyTrue allows a failed call for.
Excused(c) == removed \/ server # "up" \/ link[c] \in {"lost", "ended"}

\* The end of a call keeps the tally, if it is bad only for a reason that TallyTrue
\* allows.
LEMMA GetsStep ==
  ASSUME IInv, NEW c \in Clients, NEW good \in BOOLEAN, Gets(c, good),
         Excused(c) => Excused(c)',
         c \notin Users /\ made[c] > Before(c) /\ ~good => Excused(c)'
  PROVE  Returns(c) /\ Counted(c)'
<1>0. /\ cpc \in [Clients -> ClientStates]
      /\ success \in [Clients -> Nat] /\ fail \in [Clients -> Nat] /\ made \in [Clients -> Nat]
      /\ fate = [d \in Clients |-> fate[d]] /\ Counted(c) /\ (prog[c] = "user" <=> c \in Users)
  BY DEF IInv, Shape
<1>1. /\ cpc[c] = "waiting" /\ cpc' = [cpc EXCEPT ![c] = "idle"]
      /\ fate' = [fate EXCEPT ![c] = "none"]
      /\ UNCHANGED <<services_, regs, tasks_, conns, server, removed, prog, made>>
  BY DEF Gets, GetsWith, smVars
<1>2. /\ cpc'[c] = "idle" /\ \A d \in Clients : d # c => cpc'[d] = cpc[d]
      /\ cpc' \in [Clients -> ClientStates]
  BY <1>0, <1>1 DEF ClientStates
<1>3. fate' = [d \in Clients |-> fate'[d]]
  BY <1>0, <1>1
<1> DEFINE counted == prog[c] # "user" /\ made[c] > Before(c)
<1>4. CASE counted
  <2>1. /\ success' = [success EXCEPT ![c] = IF good THEN success[c] + 1 ELSE success[c]]
        /\ fail' = [fail EXCEPT ![c] = IF good THEN fail[c] ELSE fail[c] + 1]
    BY <1>4 DEF Gets, GetsWith
  <2>2. /\ success' \in [Clients -> Nat] /\ fail' \in [Clients -> Nat]
        /\ \A d \in Clients : d # c => success'[d] = success[d] /\ fail'[d] = fail[d]
    BY <1>0, <2>1, SMTT(60)
  <2>3. /\ success'[c] + fail'[c] = success[c] + fail[c] + 1
        /\ fail'[c] > 0 => fail[c] > 0 \/ ~good
    BY <1>0, <2>1, SMTT(60)
  <2>4. Counted(c)'
    <3>1. Before(c)' = Before(c) /\ Before(c) \in Nat /\ made[c] \in Nat /\ made'[c] = made[c]
      BY <1>0, <1>1, BeforeNat, SMTT(60) DEF Before
    <3>2. c \notin Users /\ made[c] > Before(c)
      BY <1>0, <1>4
    <3>3. /\ success[c] + fail[c] = made[c] - 1 - Before(c)
          /\ fail[c] > 0 => Excused(c)
      BY <1>1, <3>1, <3>2, <1>0, SMTT(60) DEF Counted, Returned, Excused
    <3>4. Returned(c)' = made[c]
      BY <1>2, <3>1 DEF Returned
    <3>5. success'[c] + fail'[c] = made[c] - Before(c)
      BY <2>3, <3>1, <3>3, SMTT(60)
    <3>6. fail'[c] > 0 => Excused(c)'
      BY <2>3, <3>2, <3>3
    <3>7. QED
      BY <1>2, <3>1, <3>2, <3>4, <3>5, <3>6 DEF Counted, Excused
  <2>5. QED
    BY <1>1, <1>2, <1>3, <2>2, <2>4 DEF Returns
<1>5. CASE ~counted
  <2>1. UNCHANGED <<success, fail>>
    BY <1>5 DEF Gets, GetsWith
  <2>2. Counted(c)'
    <3>1. Before(c)' = Before(c) /\ Before(c) \in Nat /\ made[c] \in Nat /\ made'[c] = made[c]
      BY <1>0, <1>1, BeforeNat, SMTT(60) DEF Before
    <3>2. Returned(c) = made[c] - 1 /\ Returned(c)' = made[c]
      BY <1>1, <1>2, <3>1 DEF Returned
    <3>3. c \notin Users => ~(made[c] > Before(c)) /\ ~(made[c] - 1 > Before(c))
      BY <1>0, <1>5, <3>1, SMTT(60)
    <3>4. QED
      BY <1>0, <1>1, <1>2, <2>1, <3>1, <3>2, <3>3 DEF Counted
  <2>3. QED
    BY <1>0, <1>1, <1>2, <1>3, <2>1, <2>2 DEF Returns
<1>6. QED
  BY <1>4, <1>5

\* It keeps the invariant if the task that is left is none of a connection that is up.
LEMMA ReturnStep ==
  ASSUME IInv, NEW c \in Clients, Returns(c), Counted(c)',
         link' = [link EXCEPT ![c] = link'[c]],
         link'[c] = link[c] \/ (link[c] = "lost" /\ link'[c] = "ended"),
         \/ /\ task' = [task EXCEPT ![c] = NoTask] /\ seen' = [seen EXCEPT ![c] = {}]
            /\ task[c].phase # "queued"
         \/ UNCHANGED <<task, seen>> /\ link[c] # "up"
  PROVE  IInv'
<1>0. /\ Shape /\ Wires(c) /\ Flow(c) /\ TaskOK(c)
      /\ link \in [Clients -> LinkStates]
  BY DEF IInv, Shape
<1>1. /\ link' \in [Clients -> LinkStates] /\ \A d \in Clients : d # c => link'[d] = link[d]
  BY <1>0 DEF LinkStates
<1>2. NoTask.phase = "none" /\ IsTask(NoTask)
  BY DEF NoTask, IsTask
<1>3. /\ task' = [d \in Clients |-> task'[d]] /\ seen' = [d \in Clients |-> seen'[d]]
      /\ task'[c].phase = "none" \/ (task'[c] = task[c] /\ seen'[c] = seen[c] /\ link[c] # "up")
      /\ \A d \in Clients : d # c => task'[d] = task[d] /\ seen'[d] = seen[d]
      /\ \A d \in Clients : IsTask(task'[d])
      /\ task[c].phase # "queued" \/ task' = task
  <2>1. task = [d \in Clients |-> task[d]] /\ seen = [d \in Clients |-> seen[d]]
        /\ \A d \in Clients : IsTask(task[d])
    BY <1>0 DEF Shape
  <2>2. CASE task' = [task EXCEPT ![c] = NoTask] /\ seen' = [seen EXCEPT ![c] = {}] /\ task[c].phase # "queued"
    BY <1>2, <2>1, <2>2
  <2>3. CASE UNCHANGED <<task, seen>> /\ link[c] # "up"
    BY <2>1, <2>3
  <2>4. QED
    BY <2>2, <2>3
<1>4. Shape'
  BY <1>0, <1>1, <1>3 DEF Shape, Returns
<1>5. link'[c] = "up" => link[c] = "up"
  OBVIOUS
<1>6. Wires(c)' /\ Flow(c)'
  <2>1. Wires(c)'
    BY <1>0, SMTT(60) DEF Wires, Returns
  <2>2. cpc[c] = "waiting" /\ cpc'[c] = "idle" /\ conns' = conns
    BY DEF Returns
  <2>3. Flow(c)'
    BY <1>0, <1>3, <1>5, <2>2, SMTT(60) DEF Flow
  <2>4. QED
    BY <2>1, <2>3
<1>7. TaskOK(c)'
  <2>1. CASE task'[c].phase = "none"
    BY <2>1, NoneOK
  <2>2. CASE task'[c] = task[c] /\ seen'[c] = seen[c] /\ link[c] # "up"
    <3>1. Looks(c)' /\ Explained(c)' /\ Ponged(task'[c], removed')
      BY <1>0, <2>2 DEF TaskOK, Looks, Explained, Registered, Returns
    <3>2. Scripted(c)'
      BY <1>5, <2>2 DEF Scripted
    <3>3. QED
      BY <3>1, <3>2 DEF TaskOK
  <2>3. QED
    BY <1>3, <2>1, <2>2
<1>8. /\ UNCHANGED <<services_, regs, tasks_, conns, server, removed, prog, made>>
      /\ \A d \in Clients : d # c => cpc'[d] = cpc[d] /\ success'[d] = success[d] /\ fail'[d] = fail[d]
  BY DEF Returns
<1>9. QED
  BY <1>1, <1>3, <1>4, <1>6, <1>7, <1>8, ClientStep DEF smVars

\* A response that arrives keeps it: the answer to the Ping of a loop is good unless
\* PingService was unregistered, the server stopped or the connection is lost.
LEMMA ReceiveStep ==
  ASSUME IInv, NEW c \in Clients, Receive(c)
  PROVE  IInv'
<1> DEFINE good == Good(task[c].reply)
<1>0. /\ Shape /\ Flow(c) /\ TaskOK(c) /\ task[c].phase = "answered" /\ Gets(c, good)
      /\ cpc[c] = "waiting" /\ good \in BOOLEAN /\ UNCHANGED <<link, server, removed>>
      /\ task' = [task EXCEPT ![c] = NoTask] /\ seen' = [seen EXCEPT ![c] = {}]
  BY DEF IInv, Receive, Phase, Gets, GetsWith, Good
<1>1. c \notin Users /\ made[c] > Before(c) /\ ~good => Excused(c)
  <2> SUFFICES ASSUME c \notin Users, made[c] > Before(c), ~Excused(c)
               PROVE  good
    BY <1>0
  <2>1. link[c] = "up" /\ ~removed
    BY <1>0 DEF Flow, Excused
  <2>2. task[c].req = PingRequest
    <3>1. prog[c] # "user"
      BY <1>0 DEF Shape
    <3>2. ~(made[c] <= Before(c))
      <4>1. made[c] \in Nat
        BY <1>0 DEF Shape
      <4>2. Before(c) \in Nat
        BY BeforeNat, SMTT(60)
      <4>3. QED
        BY <4>1, <4>2, SMTT(60)
    <3>3. Script(c, made[c]) = {PingRequest}
      BY <3>1, <3>2 DEF Script, PingRequest
    <3>4. QED
      BY <1>0, <2>1, <3>3 DEF TaskOK, Scripted
  <2>3. task[c].reply = Reply("OK", "pong")
    BY <1>0, <2>1, <2>2 DEF TaskOK, Ponged, Answering
  <2>4. QED
    BY <2>3, SMTT(60) DEF Good, Reply
<1> HIDE DEF good
<1>2. Excused(c)' = Excused(c)
  BY <1>0 DEF Excused
<1>3. Returns(c) /\ Counted(c)'
  BY <1>0, <1>1, <1>2, GetsStep
<1>4. link' = [link EXCEPT ![c] = link'[c]] /\ link'[c] = link[c]
  BY <1>0 DEF Shape
<1>5. task[c].phase # "queued"
  BY <1>0
<1>6. QED
  BY <1>0, <1>3, <1>4, <1>5, ReturnStep

\* A call whose connection is lost keeps it.
LEMMA RejectedStep ==
  ASSUME IInv, NEW c \in Clients, ReadLoopEnds(c) \/ WriteFails(c), Gets(c, Closed)
  PROVE  IInv'
<1>0. /\ Shape /\ Flow(c) /\ cpc[c] = "waiting" /\ UNCHANGED <<server, removed>>
  BY DEF IInv, Gets, GetsWith
<1>1. Closed \in BOOLEAN
  BY DEF Closed, Good
<1>2. /\ link[c] # "up" /\ link' = [link EXCEPT ![c] = link'[c]]
      /\ link'[c] = link[c] \/ (link[c] = "lost" /\ link'[c] = "ended")
  BY <1>0 DEF ReadLoopEnds, WriteFails, Shape
<1>3. link'[c] \in {"lost", "ended"}
  BY <1>0, <1>2 DEF Flow
<1>4. Excused(c)'
  BY <1>3 DEF Excused
<1>5. Returns(c) /\ Counted(c)'
  BY <1>1, <1>4, GetsStep
<1>6. \/ /\ task' = [task EXCEPT ![c] = NoTask] /\ seen' = [seen EXCEPT ![c] = {}]
         /\ task[c].phase # "queued"
      \/ UNCHANGED <<task, seen>>
  BY DEF ReadLoopEnds, WriteFails, Phase
<1>7. QED
  BY <1>2, <1>5, <1>6, ReturnStep

\* A read loop that ends while no call waits keeps it.
LEMMA IdleEndsStep ==
  ASSUME IInv, NEW c \in Clients, ReadLoopEnds(c), UNCHANGED cliVars
  PROVE  IInv'
<1>0. /\ Shape /\ Wires(c) /\ Flow(c) /\ Counted(c) /\ TaskOK(c) /\ link[c] = "lost"
      /\ link' = [link EXCEPT ![c] = "ended"] /\ link \in [Clients -> LinkStates]
  BY DEF IInv, Shape, ReadLoopEnds
<1>1. UNCHANGED <<smVars, tasks_, conns, server, removed>>
  BY DEF ReadLoopEnds, Gets, GetsWith
<1>2. /\ link' \in [Clients -> LinkStates] /\ link'[c] = "ended"
      /\ \A d \in Clients : d # c => link'[d] = link[d]
  BY <1>0 DEF LinkStates
<1>3. NoTask.phase = "none" /\ IsTask(NoTask)
  BY DEF NoTask, IsTask
<1>4. /\ task' = [d \in Clients |-> task'[d]] /\ seen' = [d \in Clients |-> seen'[d]]
      /\ task'[c].phase = "none" \/ (task'[c] = task[c] /\ seen'[c] = seen[c])
      /\ \A d \in Clients : d # c => task'[d] = task[d] /\ seen'[d] = seen[d]
      /\ \A d \in Clients : IsTask(task'[d])
      /\ task[c].phase # "queued" \/ task' = task
  <2>1. task = [d \in Clients |-> task[d]] /\ seen = [d \in Clients |-> seen[d]]
        /\ \A d \in Clients : IsTask(task[d])
    BY <1>0 DEF Shape
  <2>2. CASE Phase(c, "answered")
    <3>1. task' = [task EXCEPT ![c] = NoTask] /\ seen' = [seen EXCEPT ![c] = {}] /\ task[c].phase # "queued"
      BY <2>2 DEF ReadLoopEnds, Phase
    <3>2. QED
      BY <1>3, <2>1, <3>1
  <2>3. CASE ~Phase(c, "answered")
    <3>1. UNCHANGED <<task, seen>>
      BY <2>3 DEF ReadLoopEnds
    <3>2. QED
      BY <2>1, <3>1
  <2>4. QED
    BY <2>2, <2>3
<1>5. Shape'
  BY <1>0, <1>1, <1>2, <1>4 DEF Shape, smVars, cliVars
<1>6. Wires(c)' /\ Flow(c)'
  <2>1. Wires(c)'
    BY <1>0, <1>1, <1>2 DEF Wires
  <2>2. Flow(c)'
    BY <1>0, <1>1, <1>2, <1>4, SMTT(60) DEF Flow, cliVars
  <2>3. QED
    BY <2>1, <2>2
<1>7. Counted(c)'
  <2>1. Before(c)' = Before(c) /\ Total(c)' = Total(c) /\ Returned(c)' = Returned(c)
    BY DEF Before, Total, Returned, cliVars
  <2>2. QED
    BY <1>0, <1>1, <1>2, <2>1 DEF Counted, cliVars
<1>8. TaskOK(c)'
  <2>1. CASE task'[c].phase = "none"
    BY <2>1, NoneOK
  <2>2. CASE task'[c] = task[c] /\ seen'[c] = seen[c]
    <3>1. Looks(c)' /\ Explained(c)' /\ Ponged(task'[c], removed')
      BY <1>0, <1>1, <2>2 DEF TaskOK, Looks, Explained, Registered, smVars
    <3>2. Scripted(c)'
      BY <1>2 DEF Scripted
    <3>3. QED
      BY <3>1, <3>2 DEF TaskOK
  <2>3. QED
    BY <1>4, <2>1, <2>2
<1>9. QED
  BY <1>1, <1>2, <1>4, <1>5, <1>6, <1>7, <1>8, ClientStep DEF cliVars

\* The end of the program keeps it.
LEMMA FinishStep ==
  ASSUME IInv, NEW c \in Clients, Finish(c)
  PROVE  IInv'
<1>0. /\ Shape /\ Wires(c) /\ Flow(c) /\ TaskOK(c) /\ Counted(c) /\ cpc[c] = "idle" /\ made[c] = Total(c)
      /\ UNCHANGED <<services_, regs, tasks_, task, conns, server, seen, removed, prog, made, success,
                     fail, fate>>
      /\ cpc' = [cpc EXCEPT ![c] = "done"]
      /\ link' = [link EXCEPT ![c] = IF link[c] = "up" THEN "left" ELSE link[c]]
      /\ cpc \in [Clients -> ClientStates] /\ link \in [Clients -> LinkStates]
  BY DEF IInv, Finish, smVars, Shape
<1>1. /\ cpc' \in [Clients -> ClientStates] /\ cpc'[c] = "done"
      /\ \A d \in Clients : d # c => cpc'[d] = cpc[d]
  BY <1>0 DEF ClientStates
<1>2. /\ link'[c] = IF link[c] = "up" THEN "left" ELSE link[c]
      /\ \A d \in Clients : d # c => link'[d] = link[d]
  BY <1>0
<1>a. link' \in [Clients -> LinkStates]
  BY <1>0 DEF LinkStates
<1>3. Shape'
  BY <1>0, <1>1, <1>a DEF Shape
<1>4. Wires(c)' /\ Flow(c)'
  <2>1. link'[c] # "up" /\ (link'[c] = "none" <=> link[c] = "none")
    BY <1>2
  <2>2. QED
    BY <1>0, <1>1, <2>1 DEF Wires, Flow
<1>5. Counted(c)'
  <2>1. Before(c)' = Before(c) /\ Total(c)' = Total(c) /\ Returned(c)' = Returned(c)
    BY <1>0, <1>1 DEF Before, Total, Returned
  <2>2. link[c] \in {"lost", "ended"} => link'[c] \in {"lost", "ended"}
    BY <1>2
  <2>3. QED
    BY <1>0, <1>1, <2>1, <2>2 DEF Counted, Returned
<1>6. Looks(c)' /\ Explained(c)' /\ Ponged(task'[c], removed')
  BY <1>0 DEF TaskOK, Looks, Explained, Explains, Ponged, Registered
<1>7. Scripted(c)'
  BY <1>2 DEF Scripted
<1>8. QED
  BY <1>0, <1>1, <1>2, <1>3, <1>4, <1>5, <1>6, <1>7, ClientStep DEF TaskOK, smVars

-------------------------------------------------------------------------------
(* The theorems *)

\* Every step of the server, of the programs that change services and of the clients
\* keeps the invariant.
LEMMA SystemStep == IInv /\ [Next]_vars => IInv'
<1> SUFFICES ASSUME IInv, [Next]_vars PROVE IInv'
  OBVIOUS
<1>1. CASE Serve /\ UNCHANGED cliVars
  <2>1. CASE take
    BY <1>1, <2>1, TakeStep
  <2>2. ASSUME NEW c \in Clients,
               on_message(c) \/ remove(c) \/ process_request(c) \/ Handle(c) \/ send_response(c)
        PROVE  IInv'
    <3>1. CASE on_message(c) \/ process_request(c) \/ send_response(c)
      BY <1>1, <3>1, OnMessageStep, ProcessStep, SendStep
    <3>2. CASE no_method(c) \/ ping(c) \/ work(c)
      <4>1. server' = server
        BY <3>2 DEF no_method, ping, work
      <4>2. QED
        BY <1>1, <3>2, <4>1, HandleStep
    <3>3. CASE stats(c)
      BY <1>1, <3>3, HandleStep, CrashStep
    <3>4. CASE work_throws(c)
      BY <1>1, <3>4, ThrowStep
    <3>5. CASE remove(c)
      BY <1>1, <3>5, EndsStep
    <3>6. QED
      BY <2>2, <3>1, <3>2, <3>3, <3>4, <3>5 DEF Handle
  <2>3. QED
    BY <1>1, <2>1, <2>2 DEF Serve
<1>2. CASE Ends /\ UNCHANGED cliVars
  BY <1>2, EndsStep
<1>3. CASE Admin
  BY <1>3, RegistryStep DEF Admin
<1>4. ASSUME NEW c \in Clients, Client(c) \/ Lose(c) PROVE IInv'
  <2>1. CASE ReadLoopEnds(c)
    <3>1. Gets(c, Closed) \/ UNCHANGED cliVars
      BY <2>1 DEF ReadLoopEnds
    <3>2. QED
      BY <2>1, <3>1, RejectedStep, IdleEndsStep
  <2>2. CASE WriteFails(c)
    <3>1. Gets(c, Closed)
      BY <2>2 DEF WriteFails
    <3>2. QED
      BY <2>2, <3>1, RejectedStep
  <2>3. QED
    BY <1>4, <2>1, <2>2, ConnectStep, CallStep, ReceiveStep, FinishStep, LoseStep DEF Client
<1>5. CASE UNCHANGED vars
  <2>1. UNCHANGED <<services_, regs, tasks_, task, conns, link, server, seen, removed, prog, cpc,
                    made, success, fail, fate>>
    BY <1>5 DEF vars, srvVars, cliVars, smVars
  <2>2. Shape' /\ Queue'
    BY <2>1 DEF IInv, Shape, Queue
  <2>3. \A c \in Clients : Wires(c)' /\ Flow(c)' /\ Counted(c)'
    <3>1. \A c \in Clients : Wires(c)' /\ Flow(c)'
      BY <2>1 DEF IInv, Wires, Flow
    <3>2. \A c \in Clients : Before(c)' = Before(c) /\ Total(c)' = Total(c) /\ Returned(c)' = Returned(c)
      BY <2>1 DEF Before, Total, Returned
    <3>3. \A c \in Clients : Counted(c)'
      BY <2>1, <3>2 DEF IInv, Counted
    <3>4. QED
      BY <3>1, <3>3
  <2>4. \A c \in Clients : TaskOK(c)'
    BY <2>1 DEF IInv, TaskOK, Looks, Explained, Scripted, Script, Registered, Before
  <2>5. QED
    BY <2>2, <2>3, <2>4 DEF IInv
<1>6. QED
  BY <1>1, <1>2, <1>3, <1>4, <1>5 DEF Next, Server

\* Server, pool and clients stay in the invariant.
THEOREM SystemInvariant == Spec => []IInv
BY InitIInv, SystemStep, PTL DEF Spec

\* Whatever is registered and unregistered meanwhile, an answer of dispatch()
\* (rpc_service.cpp:92) is true of the time between the call and the answer, and
\* the connections that Stats reports include the one that it is sent to while the
\* server is up.
THEOREM AnswersExplained == Spec => []AnswerExplained
<1>1. IInv => AnswerExplained
  <2> SUFFICES ASSUME IInv, NEW c \in Clients, task[c].phase \in Answering
               PROVE  /\ task[c].object # NoService => task[c].object \in seen[c]
                      /\ task[c].reply.code = "SERVICE_NOT_FOUND" =>
                           NoService \in seen[c] \/ task[c].reply.result = "service_not_found"
                      /\ task[c].reply.code = "METHOD_NOT_FOUND" =>
                           \/ task[c].req.method \notin methods(task[c].req.service)
                           \/ task[c].reply.result = "method_not_found"
                      /\ (task[c].phase = "answered" /\ task[c].req.method = "Stats"
                          /\ task[c].reply.code = "OK") => task[c].reply.result >= 1 \/ server # "up"
    BY DEF AnswerExplained, Answering
  <2>1. Explains(task[c], seen[c], conns[c] = "open", server = "up")
    BY DEF IInv, TaskOK, Explained
  <2>2. task[c].phase = "answered" /\ task[c].req.method = "Stats" /\ task[c].reply.code = "OK"
          => server # "up" \/ task[c].reply.result \in Nat \ {0}
    BY <2>1 DEF Explains
  <2>3. task[c].reply.result \in Nat \ {0} => task[c].reply.result >= 1
    BY SMTT(60)
  <2>4. QED
    BY <2>1, <2>2, <2>3 DEF Explains
<1>2. QED
  BY <1>1, SystemInvariant, PTL, ZenonT(60)

\* The loops of client_main.cpp count each of their calls once, and none as failed
\* unless PingService was unregistered, the server stopped or the connection was lost.
THEOREM TalliesTrue == Spec => []TallyTrue
<1>1. IInv => TallyTrue
  <2> SUFFICES ASSUME IInv, NEW c \in Clients, c \notin Users
               PROVE  /\ fail[c] > 0 => removed \/ server # "up" \/ link[c] \in {"lost", "ended"}
                      /\ cpc[c] = "done" => success[c] + fail[c] = Pings
    BY DEF TallyTrue
  <2>1. Counted(c) /\ Before(c) \in Nat
    BY BeforeNat, SMTT(60) DEF IInv
  <2>2. cpc[c] = "done" => Returned(c) = Before(c) + Pings
    BY <2>1 DEF Counted, Returned, Total
  <2>3. QED
    BY <2>1, <2>2, PingsAssumption, SMTT(60) DEF Counted
<1>2. QED
  BY <1>1, SystemInvariant, PTL

-------------------------------------------------------------------------------
(* Nobody is forgotten *)

\* What the server owes to a client with the task t, which is in the queue if q
\* says so, at the place w of its program, with a connection in the state l and a
\* call of the fate f.
Serves(t, q, w, l, f) ==
  /\ t.phase \in {"none", "arriving", "queued", "begun", "found", "replying", "answered", "thrown"}
  /\ t.phase # "none" => t.req.type \in {"REQUEST", "HEARTBEAT", "GARBLED"}
  /\ t.phase = "found" => t.req.service \in Names
  /\ t.phase = "queued" => q
  /\ w = "waiting" /\ l = "up" => t.phase # "none" /\ f = "sent"
  /\ w = "waiting" /\ l = "ended" => f = "late"

InQueue(c) == \E i \in DOMAIN tasks_ : tasks_[i] = c

Served(c) == Serves(task[c], InQueue(c), cpc[c], link[c], fate[c])

\* The inductive invariant, beside IInv: a task that waits for a worker is in the
\* queue, one that was looked up has a service, and a client that waits while its
\* connection is up has a task.
AllServed == \A c \in Clients : Served(c)

\* What the server and the network may do to a connection.
LinkMoves == \A d \in Clients : link'[d] = link[d] \/ (link[d] = "up" /\ link'[d] = "lost")

\* Less is owed on a connection that is lost.
LEMMA ServesLost ==
  ASSUME NEW t, NEW q, NEW w, NEW l, NEW f, NEW l2, Serves(t, q, w, l, f),
         l2 = l \/ (l = "up" /\ l2 = "lost")
  PROVE  Serves(t, q, w, l2, f)
<1>1. (l2 = "up" => l = "up") /\ (l2 = "ended" => l = "ended")
  OBVIOUS
<1>2. QED
  BY <1>1 DEF Serves

\* The clients for which nothing changes but that their connection is lost are
\* served as before.
LEMMA ServedElse ==
  ASSUME NEW d \in Clients, Served(d), task'[d] = task[d], InQueue(d) => InQueue(d)',
         cpc'[d] = cpc[d], fate'[d] = fate[d],
         link'[d] = link[d] \/ (link[d] = "up" /\ link'[d] = "lost")
  PROVE  Served(d)'
<1>1. Serves(task[d], InQueue(d), cpc[d], link[d], fate[d])
  BY DEF Served
<1>2. Serves(task[d], InQueue(d)', cpc[d], link[d], fate[d])
  BY <1>1 DEF Serves
<1>3. Serves(task[d], InQueue(d)', cpc[d], link'[d], fate[d])
  BY <1>2, ServesLost
<1>4. QED
  BY <1>3 DEF Served

\* A task that moves on, or ends, where its client no longer waits for it on a
\* connection that is up.
LEMMA ServedTask ==
  ASSUME IInv, AllServed, NEW c \in Clients, NEW t, task' = [task EXCEPT ![c] = t],
         UNCHANGED <<cpc, fate>>, LinkMoves,
         \A d \in Clients : d # c => (InQueue(d) => InQueue(d)'),
         Serves(t, InQueue(c)', cpc[c], link[c], fate[c])
  PROVE  AllServed'
<1>1. task'[c] = t /\ \A d \in Clients : d # c => task'[d] = task[d]
  BY DEF IInv, Shape
<1>2. Served(c)'
  <2>1. link'[c] = link[c] \/ (link[c] = "up" /\ link'[c] = "lost")
    BY DEF LinkMoves
  <2>2. Serves(t, InQueue(c)', cpc[c], link'[c], fate[c])
    BY <2>1, ServesLost
  <2>3. QED
    BY <1>1, <2>2 DEF Served
<1>3. ASSUME NEW d \in Clients, d # c PROVE Served(d)'
  BY <1>1, <1>3, ServedElse DEF AllServed, LinkMoves
<1>4. QED
  BY <1>2, <1>3 DEF AllServed

\* At the start nobody waits.
LEMMA ServedAtFirst == Init => AllServed
<1> SUFFICES ASSUME Init, NEW c \in Clients PROVE Served(c)
  BY DEF AllServed
<1>1. task[c].phase = "none" /\ cpc[c] = "start"
  BY DEF Init, SrvInit, NoTask
<1>2. QED
  BY <1>1 DEF Served, Serves

\* A request given to the pool or begun on the loop thread is served.
LEMMA OnMessageServes ==
  ASSUME IInv, AllServed, NEW c \in Clients, on_message(c), UNCHANGED cliVars
  PROVE  AllServed'
<1>0. /\ IsTask(task[c]) /\ task = [d \in Clients |-> task[d]] /\ task[c].phase = "arriving"
      /\ tasks_ \in Seq(Clients) /\ UNCHANGED <<cpc, fate>> /\ LinkMoves
  BY DEF IInv, Shape, on_message, Phase, cliVars, LinkMoves
<1>1. Serves(task[c], InQueue(c), cpc[c], link[c], fate[c])
  BY DEF AllServed, Served
<1>2. PICK p : task' = [task EXCEPT ![c].phase = p] /\ p \in {"queued", "begun"}
               /\ (p = "queued" => tasks_' = Append(tasks_, c)) /\ (p = "begun" => tasks_' = tasks_)
  <2>1. CASE pooled
    <3>1. task' = [task EXCEPT ![c].phase = "queued"] /\ tasks_' = Append(tasks_, c)
      BY <2>1 DEF on_message
    <3>2. QED
      <4>1. "queued" # "begun" /\ "queued" \in {"queued", "begun"}
        OBVIOUS
      <4>2. QED
        BY <3>1, <4>1
  <2>2. CASE ~pooled
    <3>1. task' = [task EXCEPT ![c].phase = "begun"] /\ tasks_' = tasks_
      BY <2>2 DEF on_message
    <3>2. QED
      BY <3>1
  <2>3. QED
    BY <2>1, <2>2
<1> DEFINE t == [task[c] EXCEPT !.phase = p]
<1>3. task' = [task EXCEPT ![c] = t]
  BY <1>0, <1>2
<1>4. t.phase = p /\ t.req = task[c].req
  BY <1>0 DEF IsTask
<1> HIDE DEF t
<1>5. \A d \in Clients : InQueue(d) => InQueue(d)'
  BY <1>0, <1>2, SMTT(60) DEF InQueue
<1>6. p = "queued" => InQueue(c)'
  <2>1. p = "queued" => Len(tasks_) + 1 \in DOMAIN tasks_' /\ tasks_'[Len(tasks_) + 1] = c
    BY <1>0, <1>2, SMTT(60)
  <2>2. QED
    BY <2>1 DEF InQueue
<1>7. Serves(t, InQueue(c)', cpc[c], link[c], fate[c])
  BY <1>0, <1>1, <1>2, <1>4, <1>6 DEF Serves
<1>8. QED
  BY <1>0, <1>3, <1>5, <1>7, ServedTask

\* The task that a worker takes is begun, the others stay in the queue.
LEMMA TakeServes ==
  ASSUME IInv, AllServed, take, UNCHANGED cliVars
  PROVE  AllServed'
<1>1. /\ tasks_ \in Seq(Clients) /\ tasks_ # <<>> /\ tasks_' = Tail(tasks_)
      /\ UNCHANGED <<cpc, fate>> /\ LinkMoves /\ task = [d \in Clients |-> task[d]]
  BY DEF take, IInv, Shape, cliVars, LinkMoves
<1>2. PICK c \in Clients : c = Head(tasks_)
  BY <1>1, SMTT(60)
<1>3. c = tasks_[1] /\ 1 \in DOMAIN tasks_ /\ IsTask(task[c]) /\ task[c].phase = "queued"
  <2>1. c = tasks_[1] /\ 1 \in DOMAIN tasks_
    BY <1>1, <1>2, SMTT(60)
  <2>2. QED
    BY <1>2, <2>1 DEF IInv, Shape, Queue
<1> DEFINE t == [task[c] EXCEPT !.phase = "begun"]
<1>4. task' = [task EXCEPT ![c] = t]
  BY <1>1, <1>2 DEF take
<1>5. t.phase = "begun" /\ t.req = task[c].req
  BY <1>3 DEF IsTask
<1> HIDE DEF t
<1>6. ASSUME NEW d \in Clients, d # c, InQueue(d) PROVE InQueue(d)'
  <2>1. PICK i \in DOMAIN tasks_ : tasks_[i] = d
    BY <1>6 DEF InQueue
  <2>2. i - 1 \in DOMAIN tasks_' /\ tasks_'[i - 1] = d
    BY <1>1, <1>3, <1>6, <2>1, SMTT(60)
  <2>3. QED
    BY <2>2 DEF InQueue
<1>7. Serves(task[c], InQueue(c), cpc[c], link[c], fate[c])
  BY DEF AllServed, Served
<1>8. Serves(t, InQueue(c)', cpc[c], link[c], fate[c])
  BY <1>3, <1>5, <1>7 DEF Serves
<1>9. QED
  BY <1>1, <1>4, <1>6, <1>8, ServedTask

\* What changes neither the queue nor a client keeps the task of c served, if its
\* new phase asks for no more.
LEMMA ServedOn ==
  ASSUME IInv, AllServed, NEW c \in Clients, task[c].phase # "none", NEW t, t.req = task[c].req,
         t.phase \in {"found", "replying", "answered", "thrown"},
         t.phase = "found" => t.req.service \in Names,
         task' = [task EXCEPT ![c] = t], UNCHANGED <<tasks_, cpc, fate>>, LinkMoves
  PROVE  AllServed'
<1>1. \A d \in Clients : InQueue(d)' = InQueue(d)
  BY DEF InQueue
<1>2. Serves(task[c], InQueue(c), cpc[c], link[c], fate[c])
  BY DEF AllServed, Served
<1>3. Serves(t, InQueue(c)', cpc[c], link[c], fate[c])
  BY <1>2 DEF Serves
<1>4. QED
  BY <1>1, <1>3, ServedTask

\* A reply is on its way to the connection.
LEMMA RepliesServe ==
  ASSUME IInv, AllServed, NEW c \in Clients, task[c].phase # "none", NEW reply, Replies(c, reply),
         UNCHANGED <<tasks_, cpc, fate>>, LinkMoves
  PROVE  AllServed'
<1> DEFINE t == [task[c] EXCEPT !.phase = "replying", !.reply = reply]
<1>0. IsTask(task[c])
  BY DEF IInv, Shape
<1>1. t.phase = "replying" /\ t.req = task[c].req
  BY <1>0 DEF IsTask
<1>2. task' = [task EXCEPT ![c] = t]
  BY DEF Replies, IInv, Shape
<1> HIDE DEF t
<1>3. /\ task[c].phase # "none" /\ t.phase \in {"found", "replying", "answered", "thrown"}
      /\ (t.phase = "found" => t.req.service \in Names)
  BY <1>1
<1>4. QED
  BY <1>1, <1>2, <1>3, ServedOn

\* The look-up finds services under their names only.
LEMMA ProcessServes ==
  ASSUME IInv, AllServed, NEW c \in Clients, process_request(c), UNCHANGED cliVars
  PROVE  AllServed'
<1>0. IsTask(task[c]) /\ task[c].phase = "begun" /\ UNCHANGED <<tasks_, cpc, fate>> /\ LinkMoves
  BY DEF process_request, Phase, cliVars, IInv, Shape, LinkMoves
<1>1. CASE \E reply : Replies(c, reply)
  BY <1>0, <1>1, RepliesServe
<1>2. CASE /\ get_service(task[c].req.service) # NoService
           /\ task' = [task EXCEPT ![c].phase = "found", ![c].object = get_service(task[c].req.service)]
  <2> DEFINE t == [task[c] EXCEPT !.phase = "found", !.object = get_service(task[c].req.service)]
  <2>1. t.phase = "found" /\ t.req = task[c].req
    BY <1>0 DEF IsTask
  <2>2. task' = [task EXCEPT ![c] = t]
    BY <1>2 DEF IInv, Shape
  <2>3. task[c].req.service \in Names
    BY <1>2 DEF get_service
  <2> HIDE DEF t
  <2>4. /\ task[c].phase # "none" /\ t.phase \in {"found", "replying", "answered", "thrown"}
        /\ (t.phase = "found" => t.req.service \in Names)
    BY <1>0, <2>1, <2>3
  <2>5. QED
    BY <1>0, <2>1, <2>2, <2>4, ServedOn
<1>3. QED
  BY <1>1, <1>2 DEF process_request

\* The handlers reply, or throw; a crash does no more to connections than to lose them.
LEMMA HandleServes ==
  ASSUME IInv, AllServed, NEW c \in Clients, Handle(c), UNCHANGED cliVars
  PROVE  AllServed'
<1>0. task[c].phase = "found" /\ UNCHANGED <<tasks_, cpc, fate>>
  BY DEF Handle, no_method, ping, stats, work, work_throws, Calls, Phase, cliVars
<1>1. CASE (\E reply : Replies(c, reply)) /\ UNCHANGED link
  <2>1. LinkMoves
    BY <1>1 DEF LinkMoves
  <2>2. QED
    BY <1>0, <1>1, <2>1, RepliesServe
<1>2. CASE UNCHANGED <<task, link>>
  <2>1. \A d \in Clients : InQueue(d)' = InQueue(d)
    BY <1>0 DEF InQueue
  <2>2. QED
    BY <1>0, <1>2, <2>1 DEF AllServed, Served
<1>3. CASE work_throws(c)
  <2>0. IsTask(task[c]) /\ task = [d \in Clients |-> task[d]] /\ task[c].phase # "none"
    BY <1>0 DEF IInv, Shape
  <2> DEFINE t == [task[c] EXCEPT !.phase = "thrown"]
  <2>1. t.phase = "thrown" /\ t.req = task[c].req
    BY <2>0 DEF IsTask
  <2>2. task' = [task EXCEPT ![c] = t]
    BY <1>3, <2>0 DEF work_throws
  <2> HIDE DEF t
  <2>3. LinkMoves
    BY <1>3 DEF work_throws, Cut, LinkMoves
  <2>4. /\ task[c].phase # "none" /\ t.phase \in {"found", "replying", "answered", "thrown"}
        /\ (t.phase = "found" => t.req.service \in Names)
    BY <2>0, <2>1
  <2>5. QED
    BY <1>0, <2>1, <2>2, <2>3, <2>4, ServedOn
<1>4. CASE stats(c)
  BY <1>1, <1>2, <1>4 DEF stats
<1>5. CASE no_method(c) \/ ping(c) \/ work(c)
  BY <1>1, <1>5 DEF no_method, ping, work
<1>6. QED
  BY <1>3, <1>4, <1>5 DEF Handle

\* A reply is sent on a connection that is up; where it is dropped, it is not.
LEMMA SendServes ==
  ASSUME IInv, AllServed, NEW c \in Clients, send_response(c), UNCHANGED cliVars
  PROVE  AllServed'
<1>0. IsTask(task[c]) /\ task[c].phase = "replying" /\ UNCHANGED <<tasks_, cpc, fate>> /\ LinkMoves
  BY DEF send_response, SendIf, Phase, cliVars, IInv, Shape, LinkMoves
<1>1. CASE Sendable(c) /\ link[c] \in {"up", "lost"}
  <2> DEFINE t == [task[c] EXCEPT !.phase = "answered"]
  <2>1. t.phase = "answered" /\ t.req = task[c].req
    BY <1>0 DEF IsTask
  <2>2. task' = [task EXCEPT ![c] = t]
    BY <1>1 DEF send_response, SendIf, IInv, Shape
  <2> HIDE DEF t
  <2>3. /\ task[c].phase # "none" /\ t.phase \in {"found", "replying", "answered", "thrown"}
        /\ (t.phase = "found" => t.req.service \in Names)
    BY <1>0, <2>1
  <2>4. QED
    BY <1>0, <2>1, <2>2, <2>3, ServedOn
<1>2. CASE ~(Sendable(c) /\ link[c] \in {"up", "lost"})
  <2>1. task' = [task EXCEPT ![c] = NoTask]
    BY <1>2 DEF send_response, SendIf
  <2>2. NoTask.phase = "none" /\ link[c] # "up"
    BY <1>2 DEF NoTask, IInv, Wires, Sendable
  <2>3. \A d \in Clients : InQueue(d)' = InQueue(d)
    BY <1>0 DEF InQueue
  <2>4. Serves(task[c], InQueue(c), cpc[c], link[c], fate[c])
    BY DEF AllServed, Served
  <2>5. Serves(NoTask, InQueue(c)', cpc[c], link[c], fate[c])
    BY <2>2, <2>4 DEF Serves
  <2>6. QED
    BY <1>0, <2>1, <2>3, <2>5, ServedTask
<1>3. QED
  BY <1>1, <1>2

\* A broken connection that the server finds drops a request that was not read; nobody
\* waits for it on a connection that is up.  Otherwise neither the end of the server,
\* nor a change of its services, nor a connection that breaks takes a task away.
LEMMA EndsServe ==
  ASSUME IInv, AllServed, UNCHANGED cliVars,
         \/ Ends \/ \E n \in Changing : Registry(n)
         \/ \E c \in Clients : remove(c) \/ Lose(c)
  PROVE  AllServed'
<1>0. UNCHANGED <<tasks_, cpc, fate>>
  BY DEF Ends, stop, stop_ios, join, close, conn_error, remove, Lose, Registry, cliVars
<1>1. LinkMoves
  <2>1. ASSUME Ends \/ \E c \in Clients : remove(c) PROVE LinkMoves
    BY <2>1, EndsMove DEF NetMoves, LinkMoves
  <2>2. ASSUME \E n \in Changing : Registry(n) PROVE LinkMoves
    BY <2>2 DEF Registry, LinkMoves
  <2>3. ASSUME NEW c \in Clients, Lose(c) PROVE LinkMoves
    BY <2>3 DEF Lose, LinkMoves, IInv, Shape
  <2>4. QED
    BY <2>1, <2>2, <2>3
<1>2. \A d \in Clients : InQueue(d)' = InQueue(d)
  BY <1>0 DEF InQueue
<1>3. CASE UNCHANGED task
  BY <1>0, <1>1, <1>2, <1>3, ServedElse DEF AllServed, LinkMoves
<1>4. ASSUME NEW c \in Clients, conn_error(c), Phase(c, "arriving") PROVE AllServed'
  <2>1. /\ task' = [task EXCEPT ![c] = NoTask] /\ link[c] # "up" /\ NoTask.phase = "none"
    BY <1>4 DEF conn_error, NoTask
  <2>2. Serves(task[c], InQueue(c), cpc[c], link[c], fate[c])
    BY DEF AllServed, Served
  <2>3. Serves(NoTask, InQueue(c)', cpc[c], link[c], fate[c])
    BY <2>1, <2>2 DEF Serves
  <2>4. QED
    BY <1>0, <1>1, <1>2, <2>1, <2>3, ServedTask
<1>5. ASSUME NEW c \in Clients, conn_error(c), ~Phase(c, "arriving") PROVE UNCHANGED task
  BY <1>5 DEF conn_error
<1>6. ASSUME \/ stop \/ stop_ios \/ join \/ \E n \in Changing : Registry(n)
             \/ \E c \in Clients : close(c) \/ remove(c) \/ Lose(c)
      PROVE  UNCHANGED task
  BY <1>6 DEF stop, stop_ios, join, close, remove, Lose, Registry
<1>7. QED
  BY <1>3, <1>4, <1>5, <1>6 DEF Ends

\* A step of the client c leaves the others served, and the queue alone.
LEMMA ServedClient ==
  ASSUME AllServed, NEW c \in Clients, UNCHANGED tasks_,
         \A d \in Clients : d # c => /\ task'[d] = task[d] /\ cpc'[d] = cpc[d]
                                    /\ link'[d] = link[d] /\ fate'[d] = fate[d],
         Serves(task'[c], InQueue(c), cpc'[c], link'[c], fate'[c])
  PROVE  AllServed'
<1>1. \A d \in Clients : InQueue(d)' = InQueue(d)
  BY DEF InQueue
<1>2. Served(c)'
  BY <1>1 DEF Served
<1>3. ASSUME NEW d \in Clients, d # c PROVE Served(d)'
  BY <1>1, <1>3, ServedElse DEF AllServed
<1>4. QED
  BY <1>2, <1>3 DEF AllServed

\* A client that does not wait, and whose task stays as it is or ends.
LEMMA ServedIdle ==
  ASSUME IInv, AllServed, NEW c \in Clients, UNCHANGED tasks_,
         task' = task \/ task' = [task EXCEPT ![c] = NoTask],
         NEW w, w # "waiting", cpc' = [cpc EXCEPT ![c] = w],
         NEW l, link' = [link EXCEPT ![c] = l], NEW f, fate' = [fate EXCEPT ![c] = f]
  PROVE  AllServed'
<1>0. /\ task = [d \in Clients |-> task[d]] /\ link = [d \in Clients |-> link[d]]
      /\ cpc = [d \in Clients |-> cpc[d]] /\ fate = [d \in Clients |-> fate[d]]
  BY DEF IInv, Shape
<1>1. /\ cpc'[c] = w
      /\ \A d \in Clients : d # c => /\ cpc'[d] = cpc[d] /\ link'[d] = link[d]
                                     /\ fate'[d] = fate[d] /\ task'[d] = task[d]
      /\ task'[c] = task[c] \/ task'[c] = NoTask
  BY <1>0
<1>2. Serves(task[c], InQueue(c), cpc[c], link[c], fate[c]) /\ NoTask.phase = "none"
  BY DEF AllServed, Served, NoTask
<1>3. Serves(task'[c], InQueue(c), w, link'[c], fate'[c])
  BY <1>1, <1>2 DEF Serves
<1>4. QED
  BY <1>1, <1>3, ServedClient

\* What a program sends has one of the three types.
LEMMA ScriptTypes ==
  ASSUME NEW c \in Clients, NEW k \in Nat \ {0}, NEW r \in Script(c, k)
  PROVE  r.type \in {"REQUEST", "HEARTBEAT", "GARBLED"}
<1>1. CASE prog[c] = "user"
  BY <1>1, SMTT(60) DEF Script, Requests, Request
<1>2. CASE prog[c] # "user" /\ k <= Before(c)
  <2>1. r = Opening[k] /\ k \in 1 .. 3
    BY <1>2, BeforeNat, SMTT(60) DEF Script
  <2>2. QED
    BY <2>1, SMTT(60) DEF Opening, Request
<1>3. CASE prog[c] # "user" /\ ~(k <= Before(c))
  BY <1>3, SMTT(60) DEF Script, Request
<1>4. QED
  BY <1>1, <1>2, <1>3

\* A call while the connection is up is a task; on a broken one it is not.
LEMMA CallServes ==
  ASSUME IInv, AllServed, NEW c \in Clients, Call(c)
  PROVE  AllServed'
<1>0. /\ UNCHANGED <<tasks_, link>> /\ made[c] \in Nat /\ task = [d \in Clients |-> task[d]]
      /\ cpc'[c] = "waiting" /\ \A d \in Clients : d # c => cpc'[d] = cpc[d]
      /\ cpc[c] = "idle"
  BY DEF Call, IInv, Shape
<1>a. /\ fate'[c] = IF link[c] = "up" THEN "sent" ELSE IF link[c] = "lost" THEN "lost" ELSE "late"
      /\ \A d \in Clients : d # c => fate'[d] = fate[d]
  BY DEF Call, IInv, Shape
<1>1. CASE link[c] = "up"
  <2>1. PICK r \in Script(c, made[c] + 1) :
          task' = [task EXCEPT ![c] = [NoTask EXCEPT !.req = r, !.phase = "arriving"]]
    BY <1>1 DEF Call
  <2> DEFINE t == [NoTask EXCEPT !.req = r, !.phase = "arriving"]
  <2>2. t.phase = "arriving" /\ t.req = r
    <3>1. IsTask(NoTask)
      BY DEF NoTask, IsTask
    <3>2. QED
      BY <3>1 DEF IsTask
  <2>3. task'[c] = t /\ \A d \in Clients : d # c => task'[d] = task[d]
    BY <1>0, <2>1
  <2> HIDE DEF t
  <2>4. made[c] + 1 \in Nat \ {0}
    BY <1>0, SMTT(60)
  <2>5. r.type \in {"REQUEST", "HEARTBEAT", "GARBLED"}
    BY <2>1, <2>4, ScriptTypes
  <2>6. Serves(t, InQueue(c), "waiting", "up", "sent")
    BY <2>2, <2>5 DEF Serves
  <2>7. fate'[c] = "sent" /\ link'[c] = "up"
    BY <1>0, <1>a, <1>1
  <2>8. QED
    BY <1>0, <1>a, <2>3, <2>6, <2>7, ServedClient
<1>2. CASE link[c] # "up"
  <2>0. UNCHANGED task
    BY <1>2 DEF Call
  <2>1. Serves(task[c], InQueue(c), cpc[c], link[c], fate[c])
    BY DEF AllServed, Served
  <2>2. link[c] = "ended" => fate'[c] = "late"
    BY <1>a
  <2>3. Serves(task[c], InQueue(c), "waiting", link[c], fate'[c])
    BY <1>2, <2>1, <2>2 DEF Serves
  <2>4. QED
    BY <1>0, <1>a, <2>0, <2>3, ServedClient
<1>3. QED
  BY <1>1, <1>2

\* The other steps of a program leave a client that does not wait.
LEMMA ClientServes ==
  ASSUME IInv, AllServed, NEW c \in Clients, Client(c)
  PROVE  AllServed'
<1>0. "idle" # "waiting" /\ "failed" # "waiting" /\ "done" # "waiting"
  OBVIOUS
<1>a. link = [link EXCEPT ![c] = link[c]] /\ fate = [fate EXCEPT ![c] = fate[c]]
  BY DEF IInv, Shape
<1>1. CASE Connect(c) \/ Finish(c)
  <2>1. /\ UNCHANGED <<tasks_, task, fate>> /\ \E l : link' = [link EXCEPT ![c] = l]
        /\ cpc' = [cpc EXCEPT ![c] = "idle"] \/ cpc' = [cpc EXCEPT ![c] = "done"]
    BY <1>1 DEF Connect, Finish
  <2>2. QED
    BY <1>0, <1>a, <2>1, ServedIdle
<1>2. CASE ConnectFails(c)
  <2>1. UNCHANGED <<tasks_, task, link, fate>> /\ cpc' = [cpc EXCEPT ![c] = "failed"]
    BY <1>2 DEF ConnectFails, srvVars
  <2>2. QED
    BY <1>0, <1>a, <2>1, ServedIdle
<1>3. CASE Receive(c) \/ WriteFails(c)
  <2>1. /\ UNCHANGED <<tasks_, link>> /\ cpc' = [cpc EXCEPT ![c] = "idle"]
        /\ fate' = [fate EXCEPT ![c] = "none"]
        /\ task' = task \/ task' = [task EXCEPT ![c] = NoTask]
    BY <1>3 DEF Receive, WriteFails, Gets, GetsWith
  <2>2. QED
    BY <1>0, <1>a, <2>1, ServedIdle
<1>4. CASE ReadLoopEnds(c)
  <2>1. /\ link' = [link EXCEPT ![c] = "ended"]
        /\ task' = task \/ task' = [task EXCEPT ![c] = NoTask]
    BY <1>4 DEF ReadLoopEnds
  <2>2. CASE Gets(c, Closed)
    <3>1. /\ UNCHANGED tasks_ /\ cpc' = [cpc EXCEPT ![c] = "idle"] /\ fate' = [fate EXCEPT ![c] = "none"]
      BY <2>2 DEF Gets, GetsWith
    <3>2. QED
      BY <1>0, <2>1, <3>1, ServedIdle
  <2>3. CASE cpc[c] = "idle" /\ UNCHANGED <<tasks_, cliVars>>
    <3>1. UNCHANGED <<tasks_, fate>> /\ cpc' = [cpc EXCEPT ![c] = "idle"]
      BY <2>3 DEF cliVars, IInv, Shape
    <3>2. QED
      BY <1>0, <1>a, <2>1, <3>1, ServedIdle
  <2>4. QED
    BY <1>4, <2>2, <2>3 DEF ReadLoopEnds
<1>5. QED
  BY <1>1, <1>2, <1>3, <1>4, CallServes DEF Client

\* Every step keeps all clients served.
LEMMA ServedStep == IInv /\ AllServed /\ [Next]_vars => AllServed'
<1> SUFFICES ASSUME IInv, AllServed, [Next]_vars PROVE AllServed'
  OBVIOUS
<1>1. CASE Serve /\ UNCHANGED cliVars
  BY <1>1, TakeServes, OnMessageServes, EndsServe, ProcessServes, HandleServes, SendServes DEF Serve
<1>2. CASE (Ends \/ \E n \in Changing : Registry(n)) /\ UNCHANGED cliVars
  BY <1>2, EndsServe
<1>3. CASE \E c \in Clients : Client(c) \/ Lose(c)
  <2>1. \A c \in Clients : Lose(c) => UNCHANGED cliVars
    BY DEF Lose
  <2>2. QED
    BY <1>3, <2>1, ClientServes, EndsServe
<1>4. CASE UNCHANGED vars
  <2>1. UNCHANGED <<tasks_, task, link, cpc, fate>>
    BY <1>4 DEF vars, srvVars, cliVars
  <2>2. \A d \in Clients : InQueue(d)' = InQueue(d)
    BY <2>1 DEF InQueue
  <2>3. QED
    BY <2>1, <2>2 DEF AllServed, Served
<1>5. QED
  BY <1>1, <1>2, <1>3, <1>4 DEF Next, Server, Admin

\* If no worker is free, a request is being served.
LEMMA WorkersBusy ==
  ASSUME ~(Cardinality(Running) < Workers) PROVE Running # {}
<1>1. Cardinality({}) = 0
  BY FS_EmptySet
<1>2. QED
  BY <1>1, ServerAssumption, SMTT(60)

\* Nobody is forgotten: for any number of clients and workers and whatever happens,
\* a client waits in vain only for a call that it made after its read loop had ended
\* or that ended in an exception of another kind; while it waits otherwise, the server
\* or its read loop (rpc_service.cpp, rpc_client.cpp) has something to do.
THEOREM CallsRemembered == Spec => []NobodyForgotten
<1>1. IInv /\ AllServed => NobodyForgotten
  <2> SUFFICES ASSUME IInv, AllServed, NEW c \in Clients, cpc[c] = "waiting", fate[c] # "late",
                      task[c].phase # "thrown"
               PROVE  Going
    BY DEF NobodyForgotten, Phase
  <2>0. Serves(task[c], InQueue(c), cpc[c], link[c], fate[c])
    BY DEF AllServed, Served
  <2>1. CASE link[c] = "lost"
    BY <2>1 DEF Going
  <2>2. CASE link[c] = "up"
    <3>1. server \in {"up", "closing"} /\ Alive
      BY <2>2 DEF IInv, Wires, Alive
    <3>2. ASSUME NEW d \in Running PROVE Going
      <4>1. d \in Clients /\ task[d].phase \in {"begun", "found", "replying"}
        BY <3>2 DEF Running
      <4>2. Serves(task[d], InQueue(d), cpc[d], link[d], fate[d])
        BY <4>1 DEF AllServed, Served
      <4>3. \/ task[d].phase = "begun" /\ task[d].req.type \in {"REQUEST", "HEARTBEAT", "GARBLED"}
            \/ task[d].phase = "found" /\ task[d].req.service \in Names
            \/ task[d].phase = "replying"
        BY <4>1, <4>2 DEF Serves
      <4>4. QED
        BY <3>1, <4>1, <4>3 DEF Going, Phase
    <3>3. /\ task[c].phase \in {"arriving", "queued", "begun", "found", "replying", "answered"}
          /\ fate[c] = "sent"
      BY <2>0, <2>2 DEF Serves
    <3>4. CASE task[c].phase = "arriving"
      <4>1. CASE LoopFree
        BY <3>4, <4>1 DEF Going, Phase
      <4>2. ASSUME NEW d \in Clients, conns[d] = "removing" PROVE Going
        BY <3>1, <4>2 DEF Going
      <4>3. CASE Running # {}
        BY <3>2, <4>3
      <4>4. QED
        BY <3>1, <4>1, <4>2, <4>3 DEF LoopFree
    <3>5. CASE task[c].phase = "queued"
      <4>1. tasks_ # <<>>
        <5>1. InQueue(c)
          BY <2>0, <3>5 DEF Serves
        <5>2. QED
          BY <5>1, SMTT(60) DEF InQueue
      <4>2. CASE Cardinality(Running) < Workers
        BY <3>1, <4>1, <4>2 DEF Going
      <4>3. QED
        BY <3>2, <4>2, WorkersBusy
    <3>6. CASE task[c].phase \in {"begun", "found", "replying"}
      BY <3>2, <3>6 DEF Running
    <3>7. CASE task[c].phase = "answered"
      BY <3>3, <3>7 DEF Going, Phase
    <3>8. QED
      BY <3>3, <3>4, <3>5, <3>6, <3>7
  <2>3. link[c] \in {"up", "lost"}
    <3>1. link[c] \in {"up", "lost", "ended"}
      BY DEF IInv, Flow
    <3>2. QED
      BY <2>0, <3>1 DEF Serves
  <2>4. QED
    BY <2>1, <2>2, <2>3
<1>2. QED
  BY <1>1, ServedAtFirst, ServedStep, SystemInvariant, PTL DEF Spec
===============================================================================
