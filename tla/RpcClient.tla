------------------------------- MODULE RpcClient -------------------------------
(***************************************************************************)
(* rpc::RpcClient (src/core/rpc_client.h, rpc_client.cpp) with the socket, *)
(* the io_context and the peer it talks to.                                *)
(*                                                                         *)
(* Actors: the threads inside call(), the owner (connect, disconnect and   *)
(* the destructor), the io thread running completion handlers, the peer.   *)
(* A completion handler is one action: apart from its critical sections it *)
(* touches only what the io thread owns, so it commutes with the others.   *)
(* call() is four actions, because the io thread and other callers may run *)
(* between drawing a sequence number, registering the promise under it,    *)
(* queueing and writing.                                                   *)
(*                                                                         *)
(* Call n is the n-th one to draw a sequence number.  A frame and its      *)
(* WriteItem are the number of their call; a response carries its sequence *)
(* number and, to state what matching must achieve, the call it answers.   *)
(***************************************************************************)
EXTENDS Naturals, Sequences

CONSTANTS
  MaxCalls,    \* bound on the calls made
  MaxConnects, \* bound on the calls of connect()
  SeqMod       \* next_seq_id_ counts modulo this (2^32 in the code)

ASSUME ClientAssumption ==
  /\ MaxCalls \in Nat \ {0}
  /\ MaxConnects \in Nat \ {0}
  /\ SeqMod \in Nat \ {0}

Calls == 1 .. MaxCalls
NoCall == 0
SeqIds == 0 .. SeqMod - 1

VARIABLES
  \* members of RpcClient
  next_seq_id_, pending_, write_queue_, writing_, connected_,
  \* callers
  nCalls,     \* how many calls have drawn a sequence number
  cpc,        \* "new", "drawn" (before 69), "registered" (before 100), "writer"
              \* (before 194), "returned"
  seq,        \* the local variable seq_id of each call
  outcome,    \* of its future: "none", "waiting", "ok", "closed" or "broken"
  answer,     \* the call whose response the future was given
  settles,    \* how often its promise was satisfied
  \* io_context, socket and the operations outstanding on it
  io,         \* io_thread_: "none", "running", "exited" (joinable), "joined"
  iosStopped, \* ios_.stop() was called
  sock,       \* "closed", "connecting", "open"
  reader,     \* "off", "header", "body", "doomed" (will fail), "stopped"
  inflight,   \* async_writes outstanding: [call, doomed]
  \* the owner
  stage,      \* of connect(): "none", "resolving", "connecting", "done"
  connFut,    \* the futures connect() returned
  nConnects, disc, alive,
  \* the peer
  delivered,  \* requests it has and did not answer yet
  inbound,    \* its responses on their way back, in order
  \* history
  order,      \* frames in the order they were queued
  started,    \* frames in the order they were handed to the socket
  late        \* calls registered after the read loop had stopped

callers == <<nCalls, cpc, seq>>
futures == <<outcome, answer, settles>>
queue   == <<write_queue_, writing_, inflight, order, started>>
owner   == <<connected_, io, iosStopped, sock, stage, connFut, nConnects, disc, alive>>
peer    == <<delivered, inbound>>

vars == <<next_seq_id_, pending_, callers, futures, reader, queue, owner, peer, late>>

TypeOK ==
  /\ next_seq_id_ \in SeqIds
  /\ pending_ \in [SeqIds -> Calls \cup {NoCall}]
  /\ write_queue_ \in Seq(Calls)
  /\ writing_ \in BOOLEAN /\ connected_ \in BOOLEAN
  /\ nCalls \in 0 .. MaxCalls
  /\ cpc \in [Calls -> {"new", "drawn", "registered", "writer", "returned"}]
  /\ seq \in [Calls -> SeqIds]
  /\ outcome \in [Calls -> {"none", "waiting", "ok", "closed", "broken"}]
  /\ answer \in [Calls -> Calls \cup {NoCall}]
  /\ settles \in [Calls -> Nat]
  /\ io \in {"none", "running", "exited", "joined"}
  /\ iosStopped \in BOOLEAN
  /\ sock \in {"closed", "connecting", "open"}
  /\ reader \in {"off", "header", "body", "doomed", "stopped"}
  /\ inflight \in SUBSET [call : Calls, doomed : BOOLEAN]
  /\ stage \in {"none", "resolving", "connecting", "done"}
  /\ connFut \in [1 .. MaxConnects -> {"none", "waiting", "ok", "failed", "broken"}]
  /\ nConnects \in 0 .. MaxConnects
  /\ disc \in {"none", "closing", "done"}
  /\ alive \in BOOLEAN
  /\ delivered \in SUBSET Calls
  /\ inbound \in Seq([seq : SeqIds, call : Calls])
  /\ order \in Seq(Calls) /\ started \in Seq(Calls)
  /\ late \in SUBSET Calls

Init ==
  /\ next_seq_id_ = 1 % SeqMod
  /\ pending_ = [s \in SeqIds |-> NoCall]
  /\ write_queue_ = <<>> /\ writing_ = FALSE /\ connected_ = FALSE
  /\ nCalls = 0
  /\ cpc = [n \in Calls |-> "new"]
  /\ seq = [n \in Calls |-> 0]
  /\ outcome = [n \in Calls |-> "none"]
  /\ answer = [n \in Calls |-> NoCall]
  /\ settles = [n \in Calls |-> 0]
  /\ io = "none" /\ iosStopped = FALSE /\ sock = "closed" /\ reader = "off"
  /\ inflight = {}
  /\ stage = "none" /\ nConnects = 0 /\ disc = "none" /\ alive = TRUE
  /\ connFut = [k \in 1 .. MaxConnects |-> "none"]
  /\ delivered = {} /\ inbound = <<>>
  /\ order = <<>> /\ started = <<>> /\ late = {}

-------------------------------------------------------------------------------
(* Promises *)

\* The calls whose promise is in pending_.
Registered == {pending_[s] : s \in SeqIds} \ {NoCall}

\* set_value, or the loss of the last reference, for the promises of calls ns.
Settle(ns, how) ==
  /\ outcome' = [n \in Calls |-> IF n \in ns THEN how ELSE outcome[n]]
  /\ settles' = [n \in Calls |-> IF n \in ns THEN settles[n] + 1 ELSE settles[n]]

\* reject_all_pending
RejectAll ==
  /\ Settle(Registered, "closed")
  /\ pending_' = [s \in SeqIds |-> NoCall]
  /\ UNCHANGED answer

-------------------------------------------------------------------------------
(* call(), on any thread *)

NextSeq(s) == (s + 1) % SeqMod

\* next_seq_id_++, atomic but outside the lock.
Draw ==
  /\ alive
  /\ nCalls < MaxCalls
  /\ nCalls' = nCalls + 1
  /\ seq' = [seq EXCEPT ![nCalls + 1] = next_seq_id_]
  /\ next_seq_id_' = NextSeq(next_seq_id_)
  /\ cpc' = [cpc EXCEPT ![nCalls + 1] = "drawn"]
  /\ UNCHANGED <<pending_, futures, reader, queue, owner, peer, late>>

\* Under pending_mux_, the promise goes into pending_ under number s; one that is
\* there already loses its last reference.
RegisterUnder(n, s) ==
  /\ cpc[n] = "drawn"
  /\ cpc' = [cpc EXCEPT ![n] = "registered"]
  /\ pending_' = [pending_ EXCEPT ![s] = n]
  /\ LET displaced == {pending_[s]} \ {NoCall}
     IN /\ outcome' = [m \in Calls |-> IF m = n THEN "waiting"
                                       ELSE IF m \in displaced THEN "broken"
                                       ELSE outcome[m]]
        /\ settles' = [m \in Calls |-> IF m \in displaced THEN settles[m] + 1
                                       ELSE settles[m]]
  /\ late' = IF reader = "stopped" THEN late \cup {n} ELSE late
  /\ UNCHANGED <<next_seq_id_, nCalls, seq, answer, reader, queue, owner, peer>>

\* Fault: the member is read again instead of the local seq_id.
Fault_RegisterMember(n) == RegisterUnder(n, next_seq_id_)

Register(n) == RegisterUnder(n, seq[n])

\* The critical section of enqueue_write, with the queue and the decision to
\* start writing that it leaves.
EnqueueWith(n, q, start_write) ==
  /\ cpc[n] = "registered"
  /\ write_queue_' = q
  /\ order' = Append(order, n)
  /\ writing_' = TRUE
  /\ cpc' = [cpc EXCEPT ![n] = IF start_write THEN "writer" ELSE "returned"]
  /\ UNCHANGED <<next_seq_id_, pending_, nCalls, seq, futures, reader, inflight,
                 started, owner, peer, late>>

\* Fault: enqueue_write starts a write whether or not one is going on.
Fault_AlwaysWrite(n) == EnqueueWith(n, Append(write_queue_, n), TRUE)

\* Fault: enqueue_write puts the frame at the front.
Fault_PushFront(n) == EnqueueWith(n, <<n>> \o write_queue_, ~writing_)

\* The caller that finds no write going on has to start one.
EnqueueWrite(n) == EnqueueWith(n, Append(write_queue_, n), ~writing_)

\* do_write, when the writes outstanding are ws: end the chain, or take the next
\* frame and start writing it (in vain if the socket is closed).
DoWrite(ws) ==
  \/ /\ write_queue_ = <<>>
     /\ writing_' = FALSE
     /\ inflight' = ws
     /\ UNCHANGED <<write_queue_, started>>
  \/ /\ write_queue_ # <<>>
     /\ write_queue_' = Tail(write_queue_)
     /\ started' = Append(started, Head(write_queue_))
     /\ inflight' = ws \cup {[call |-> Head(write_queue_), doomed |-> sock = "closed"]}
     /\ UNCHANGED writing_

\* do_write on the caller's thread.
CallerWrite(n) ==
  /\ cpc[n] = "writer"
  /\ DoWrite(inflight)
  /\ cpc' = [cpc EXCEPT ![n] = "returned"]
  /\ UNCHANGED <<next_seq_id_, pending_, nCalls, seq, futures, reader, order,
                 owner, peer, late>>

-------------------------------------------------------------------------------
(* Completion handlers, on the io thread *)

IoRuns == io = "running" /\ ~iosStopped

WriteOk(w) ==
  /\ IoRuns
  /\ w \in inflight
  /\ ~w.doomed /\ sock # "connecting"
  /\ delivered' = delivered \cup {w.call}
  /\ DoWrite(inflight \ {w})
  /\ UNCHANGED <<next_seq_id_, pending_, callers, futures, reader, order, owner,
                 inbound, late>>

\* The frame of a failed write may have reached the peer or not.
MayHaveArrived(w) ==
  \/ UNCHANGED delivered
  \/ ~w.doomed /\ sock # "connecting" /\ delivered' = delivered \cup {w.call}

\* The handler of a failed write: the calls ns are answered with
\* CONNECTION_CLOSED, the entry leaves pending_, and the chain goes on as chain says.
WriteFailsWith(w, ns, chain) ==
  /\ IoRuns
  /\ w \in inflight
  /\ MayHaveArrived(w)
  /\ Settle(ns, "closed")
  /\ pending_' = [pending_ EXCEPT ![seq[w.call]] = NoCall]
  /\ chain
  /\ UNCHANGED <<next_seq_id_, callers, answer, reader, order, owner, inbound, late>>

\* Fault: a failed write ends the chain.
Fault_WriteFailsStops(w) ==
  WriteFailsWith(w, {pending_[seq[w.call]]},
                 inflight' = inflight \ {w} /\ UNCHANGED <<write_queue_, writing_, started>>)

\* The call registered under the number of the frame (if there is one) is
\* answered, and the queue goes on.
WriteFails(w) == WriteFailsWith(w, {pending_[seq[w.call]]}, DoWrite(inflight \ {w}))

\* Starting an async_read; on a closed socket it can only fail.
Arm(st) == IF sock = "open" THEN st ELSE "doomed"

\* A well-formed header arrived.
ReadHeader ==
  /\ IoRuns
  /\ reader = "header"
  /\ inbound # <<>>
  /\ reader' = Arm("body")
  /\ UNCHANGED <<next_seq_id_, pending_, callers, futures, queue, owner, peer, late>>

\* A response arrived: its promise leaves pending_ and gets the value; a response
\* nobody waits for is dropped.  Parameters: the number it is matched by, the
\* numbers erased from pending_, and what the read loop does next.
ReadBodyWith(s, erased, next) ==
  /\ IoRuns
  /\ reader = "body"
  /\ inbound # <<>>
  /\ Settle({pending_[s]}, "ok")
  /\ answer' = [n \in Calls |-> IF n = pending_[s] THEN Head(inbound).call ELSE answer[n]]
  /\ pending_' = [r \in SeqIds |-> IF r \in erased THEN NoCall ELSE pending_[r]]
  /\ inbound' = Tail(inbound)
  /\ reader' = next
  /\ UNCHANGED <<next_seq_id_, callers, queue, owner, delivered, late>>

\* Fault: the entry stays in pending_.
Fault_ReadBodyKeeps == ReadBodyWith(Head(inbound).seq, {}, Arm("header"))

\* Fault: responses are matched in the order of the sequence numbers.
Fault_ReadBodyFirst ==
  \E s \in SeqIds : /\ pending_[s] # NoCall
                    /\ \A r \in 0 .. s - 1 : pending_[r] = NoCall
                    /\ ReadBodyWith(s, {s}, Arm("header"))

\* Fault: the loop is not resumed.
Fault_ReadBodyOnce == ReadBodyWith(Head(inbound).seq, {Head(inbound).seq}, "off")

ReadBody == ReadBodyWith(Head(inbound).seq, {Head(inbound).seq}, Arm("header"))

\* Fault: the loop stops without rejecting anybody.
Fault_ReadFailsSilently ==
  /\ IoRuns
  /\ reader \in {"header", "body", "doomed"}
  /\ reader' = "stopped"
  /\ UNCHANGED <<next_seq_id_, pending_, callers, futures, queue, owner, peer, late>>

\* A read error, a header that does not parse, a wrong magic or a response that
\* does not parse: reject everybody and stop the loop.
ReadFails ==
  /\ IoRuns
  /\ reader \in {"header", "body", "doomed"}
  /\ RejectAll
  /\ reader' = "stopped"
  /\ UNCHANGED <<next_seq_id_, callers, queue, owner, peer, late>>

-------------------------------------------------------------------------------
(* connect(), disconnect() and the destructor *)

\* Start resolving and start the io thread.  run() returns at once if ios_ was
\* stopped before.  (With io_thread_ still joinable the assignment to it ends
\* the process, so nothing follows and there is no such step.)
Connect ==
  /\ alive
  /\ nConnects < MaxConnects
  /\ io \in {"none", "joined"}
  /\ nConnects' = nConnects + 1
  /\ connFut' = [connFut EXCEPT ![nConnects + 1] = "waiting"]
  /\ stage' = "resolving"
  /\ io' = IF iosStopped THEN "exited" ELSE "running"
  /\ disc' = "none"
  /\ UNCHANGED <<next_seq_id_, pending_, callers, futures, reader, queue,
                 connected_, iosStopped, sock, alive, peer, late>>

ResolveFails ==
  /\ IoRuns
  /\ stage = "resolving"
  /\ stage' = "none"
  /\ connFut' = [connFut EXCEPT ![nConnects] = "failed"]
  /\ UNCHANGED <<next_seq_id_, pending_, callers, futures, reader, queue,
                 connected_, io, iosStopped, sock, nConnects, disc, alive, peer, late>>

\* async_connect opens the socket.
ResolveOk ==
  /\ IoRuns
  /\ stage = "resolving"
  /\ stage' = "connecting"
  /\ sock' = "connecting"
  /\ UNCHANGED <<next_seq_id_, pending_, callers, futures, reader, queue,
                 connected_, io, iosStopped, connFut, nConnects, disc, alive, peer, late>>

\* Writes waiting for the connection fail with it.
Doom(ws) == {[w EXCEPT !.doomed = TRUE] : w \in ws}

ConnectFails ==
  /\ IoRuns
  /\ stage = "connecting"
  /\ stage' = "none"
  /\ sock' = "closed"
  /\ inflight' = Doom(inflight)
  /\ connFut' = [connFut EXCEPT ![nConnects] = "failed"]
  /\ UNCHANGED <<next_seq_id_, pending_, callers, futures, reader, write_queue_,
                 writing_, order, started, connected_, io, iosStopped, nConnects,
                 disc, alive, peer, late>>

\* Connected: start the read loop.  The owner may have closed the socket since
\* the connection was made.
ConnectOk ==
  /\ IoRuns
  /\ stage = "connecting"
  /\ stage' = "done"
  /\ connected_' = TRUE
  /\ sock' = IF sock = "connecting" THEN "open" ELSE sock
  /\ reader' = IF sock = "connecting" THEN "header" ELSE "doomed"
  /\ connFut' = [connFut EXCEPT ![nConnects] = "ok"]
  /\ UNCHANGED <<next_seq_id_, pending_, callers, futures, queue, io, iosStopped,
                 nConnects, disc, alive, peer, late>>

\* First half of disconnect(): the socket is closed, handlers still run.
DisconnectClose ==
  /\ alive
  /\ disc = "none"
  /\ disc' = "closing"
  /\ connected_' = FALSE
  /\ sock' = "closed"
  /\ inflight' = IF sock = "connecting" THEN Doom(inflight) ELSE inflight
  /\ UNCHANGED <<next_seq_id_, pending_, callers, futures, reader, write_queue_,
                 writing_, order, started, io, iosStopped, stage, connFut,
                 nConnects, alive, peer, late>>

\* Second half: ios_ is stopped, what is queued in it never runs, and the io
\* thread is joined.
DisconnectStop ==
  /\ disc = "closing"
  /\ disc' = "done"
  /\ iosStopped' = TRUE
  /\ io' = IF io = "none" THEN "none" ELSE "joined"
  /\ UNCHANGED <<next_seq_id_, pending_, callers, futures, reader, queue,
                 connected_, sock, stage, connFut, nConnects, alive, peer, late>>

\* The destructor, after its disconnect(), with no thread inside call(): the
\* promises in pending_ and in the handlers of ios_ are broken.
Destroy ==
  /\ alive
  /\ disc = "done"
  /\ \A n \in Calls : cpc[n] \in {"new", "returned"}
  /\ alive' = FALSE
  /\ Settle(Registered, "broken")
  /\ pending_' = [s \in SeqIds |-> NoCall]
  /\ connFut' = [k \in DOMAIN connFut |-> IF connFut[k] = "waiting" THEN "broken"
                                          ELSE connFut[k]]
  /\ UNCHANGED <<next_seq_id_, callers, answer, reader, queue, connected_, io,
                 iosStopped, sock, stage, nConnects, disc, peer, late>>

-------------------------------------------------------------------------------
(* The peer answers the requests it has in any order, each at most once. *)

Answer(n) ==
  /\ sock = "open"
  /\ n \in delivered
  /\ delivered' = delivered \ {n}
  /\ inbound' = Append(inbound, [seq |-> seq[n], call |-> n])
  /\ UNCHANGED <<next_seq_id_, pending_, callers, futures, reader, queue, owner, late>>

-------------------------------------------------------------------------------
Caller(n) == Register(n) \/ EnqueueWrite(n) \/ CallerWrite(n)

WriteDone == \E w \in inflight : WriteOk(w) \/ WriteFails(w)
Read == ReadHeader \/ ReadBody
Connecting == ResolveFails \/ ResolveOk \/ ConnectFails \/ ConnectOk

Next ==
  \/ Draw
  \/ \E n \in Calls : Caller(n) \/ Answer(n)
  \/ WriteDone \/ Read \/ ReadFails
  \/ Connect \/ Connecting
  \/ DisconnectClose \/ DisconnectStop \/ Destroy

Spec == Init /\ [][Next]_vars

\* Threads run; resolving, connecting and writing end one way or the other; the
\* peer answers what it was sent; what it answered is read, or the read fails.
FairSpec ==
  /\ Spec
  /\ \A n \in Calls : WF_vars(Caller(n)) /\ WF_vars(Answer(n))
  /\ WF_vars(WriteDone) /\ WF_vars(Read) /\ WF_vars(reader = "doomed" /\ ReadFails)
  /\ WF_vars(Connecting) /\ WF_vars(DisconnectStop)

-------------------------------------------------------------------------------
(* Properties *)

Writers == {n \in Calls : cpc[n] = "writer"}

\* Frames never interleave on the socket: writing_ is the one token of the write
\* chain, held by the caller about to start it or by the one write outstanding;
\* and while frames are queued somebody holds it.
SingleWriter ==
  /\ \A u, v \in inflight : u = v
  /\ \A m, n \in Writers : m = n
  /\ inflight = {} \/ Writers = {}
  /\ writing_ <=> (inflight # {} \/ Writers # {})
  /\ write_queue_ # <<>> => writing_

\* Frames are handed to the socket in the order call() queued them, each once,
\* although callers and the io thread take turns at writing.
WireFifo == order = started \o write_queue_

\* No promise is satisfied twice (set_value would throw), whichever of the read
\* loop, a failed write, reject_all_pending and the destructor gets there first;
\* and a satisfied future is not waiting.
SettledOnce ==
  \A n \in Calls : settles[n] = IF outcome[n] \in {"none", "waiting"} THEN 0 ELSE 1

\* A future that still waits is registered under its own number, so that a
\* response, a failed write or a rejection can reach it.
NoOrphan == \A n \in Calls : outcome[n] = "waiting" => pending_[seq[n]] = n

\* The calls whose response call n may get by mistake: next_seq_id_ has gone round
\* between the two, and they have their own result already.
Astray(n) ==
  {m \in Calls : /\ m + SeqMod <= n \/ n + SeqMod <= m
                 /\ outcome[m] \notin {"none", "waiting"}}

\* A call gets the response to its own request, in whatever order they come.  A
\* response goes astray only between calls that drew the same number, at least
\* SeqMod draws apart (the one that gets it may have drawn it first and registered
\* it last), and never away from a call that still waits for it.
ResponseMatches == \A n \in Calls : outcome[n] = "ok" => answer[n] \in {n} \cup Astray(n)

\* core.md:122, any read error rejects all pending calls: once the loop has
\* stopped, only calls that registered later wait.
RejectSettlesAll ==
  reader = "stopped" => \A n \in Calls : outcome[n] = "waiting" => n \in late

\* The write chain does not stall: a frame that was queued reaches the socket
\* unless the io thread ends, also when earlier writes failed.
FramesWritten ==
  \A n \in Calls : (\E i \in DOMAIN order : order[i] = n)
                     ~> (~IoRuns \/ \E i \in DOMAIN started : started[i] = n)

\* On an open connection, as long as no read failed, a call to a peer that
\* answers gets its future satisfied: after every response the loop reads on.
CallsSettle ==
  \A n \in Calls : outcome[n] = "waiting"
    ~> outcome[n] # "waiting" \/ reader = "stopped" \/ sock # "open" \/ ~IoRuns

\* rpc_client.h:30 of connect(): future.get() waits for the connection to be
\* completed.  So the future is satisfied unless the owner disconnects first.
ConnectSettles ==
  \A k \in 1 .. MaxConnects :
    connFut[k] = "waiting" ~> (connFut[k] # "waiting" \/ disc # "none")

\* What a step may do to the future of call n.
ResultStep(n) ==
  \/ outcome'[n] = outcome[n] /\ answer'[n] = answer[n]
  \/ outcome[n] = "none" /\ outcome'[n] = "waiting" /\ answer'[n] = answer[n]
  \/ outcome[n] = "waiting" /\ outcome'[n] \in {"ok", "closed", "broken"}

\* A future goes from waiting to a result, and a result stays what it is: neither a
\* late response nor a failed write, read error, displacement or the destructor
\* changes the outcome or the answer that a caller may already have read.
ResultsFinal == [][\A n \in Calls : ResultStep(n)]_vars

\* All but the peer and what is on its way from it.
members == <<next_seq_id_, pending_, callers, futures, reader, queue, owner, late>>

\* Nothing of a destroyed client is touched: only the peer may still answer.
NoUseAfterDestroy == [][alive \/ UNCHANGED members]_vars

\* The destructor leaves nobody waiting, neither for a call nor for connect().
DestroyedSettlesAll ==
  ~alive => /\ \A n \in Calls : outcome[n] # "waiting"
            /\ \A k \in DOMAIN connFut : connFut[k] # "waiting"
===============================================================================
