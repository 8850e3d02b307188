------------------------------ MODULE Connection ------------------------------
(***************************************************************************)
(* rpc::Connection (src/network/connection.h, connection.cpp): one server  *)
(* side connection from start_read to its destruction, with its entry in   *)
(* the ConnectionManager and the requests it was sent.                     *)
(*                                                                         *)
(* Actors: the io thread (completion handlers, one action each; one that   *)
(* closes the connection is two, before and after it calls on_close_), the *)
(* threads that answer requests with send() (pool workers, or the io       *)
(* thread itself), the threads inside MessageCycle::stop(), which call     *)
(* close() in close_all(), and the peer.  Request n is the n-th frame      *)
(* read; its answer is frame n.                                            *)
(***************************************************************************)
EXTENDS Naturals, Sequences

CONSTANTS
  MaxRequests, \* bound on the requests the peer sends
  Closers      \* threads that call stop(), once each

ASSUME ConnectionAssumption == MaxRequests \in Nat \ {0}

Requests == 1 .. MaxRequests

VARIABLES
  write_queue_, writing_, closed_,   \* members of Connection
  sock,     \* socket_: "open", "broken" (the peer is gone), "closed"
  reader,   \* "off" (before start_read), "header", "body", "doomed" (will fail), "stopped"
  inflight, \* async_writes outstanding: [frame, doomed]
  nRead,    \* requests handed to on_message_
  spc,      \* of the answer to each request: "none", "tasked" (send not called),
            \* "checked" (after 91), "writer" (before 104), "returned", "dropped"
  cpc,      \* of each closer: "idle", "taken" (in its snapshot), "won" (before 140),
            \* "closed" (close_all has returned), "done" (ios_ is stopped)
  ios_stopped, \* ios_.stop() was called: no handler begins any more
  stalled,  \* the peer has stopped reading, for good
  removing, \* the io thread has set closed_ and has yet to call on_close_
  managed,  \* the ConnectionManager holds the connection
  gone,     \* the Connection is destroyed
  \* history
  onClose,  \* how often on_close_ was called
  order,    \* frames in the order send() queued them
  started,  \* frames in the order they were handed to the socket
  failed    \* a write has failed

queue == <<write_queue_, writing_, inflight, order, started>>
life  == <<closed_, onClose, managed, removing>>
vars  == <<queue, life, sock, reader, nRead, spc, cpc, ios_stopped, stalled, gone, failed>>

TypeOK ==
  /\ write_queue_ \in Seq(Requests) /\ writing_ \in BOOLEAN /\ closed_ \in BOOLEAN
  /\ sock \in {"open", "broken", "closed"}
  /\ reader \in {"off", "header", "body", "doomed", "stopped"}
  /\ inflight \in SUBSET [frame : Requests, doomed : BOOLEAN]
  /\ nRead \in 0 .. MaxRequests
  /\ spc \in [Requests -> {"none", "tasked", "checked", "writer", "returned", "dropped"}]
  /\ cpc \in [Closers -> {"idle", "taken", "won", "closed", "done"}]
  /\ ios_stopped \in BOOLEAN /\ stalled \in BOOLEAN /\ removing \in BOOLEAN
  /\ managed \in BOOLEAN /\ gone \in BOOLEAN /\ failed \in BOOLEAN
  /\ onClose \in 0 .. 1
  /\ order \in Seq(Requests) /\ started \in Seq(Requests)

\* Accepted and added to the manager, on the io thread.
Init ==
  /\ write_queue_ = <<>> /\ writing_ = FALSE /\ closed_ = FALSE
  /\ sock = "open" /\ reader = "off" /\ inflight = {} /\ nRead = 0
  /\ spc = [n \in Requests |-> "none"]
  /\ cpc = [c \in Closers |-> "idle"]
  /\ ios_stopped = FALSE /\ stalled = FALSE /\ removing = FALSE
  /\ managed = TRUE /\ gone = FALSE /\ failed = FALSE
  /\ onClose = 0 /\ order = <<>> /\ started = <<>>

\* The peer goes away: outstanding and later operations fail.
PeerLost ==
  /\ sock = "open"
  /\ sock' = "broken"
  /\ UNCHANGED <<queue, life, reader, nRead, spc, cpc, ios_stopped, stalled, gone, failed>>

\* The peer stops reading: a write may fit into the buffers, or not end.
PeerStalls ==
  /\ sock = "open" /\ ~stalled
  /\ stalled' = TRUE
  /\ UNCHANGED <<queue, life, sock, reader, nRead, spc, cpc, ios_stopped, gone, failed>>

-------------------------------------------------------------------------------
(* Reading, on the io thread *)

\* The io thread may begin a handler.
IoFree == ~ios_stopped /\ ~removing

\* The body of every error branch: who sets closed_ goes on to call on_close_.
CloseOnError ==
  /\ closed_' = TRUE /\ removing' = ~closed_
  /\ UNCHANGED <<onClose, managed>>

\* on_close_ takes the connection out of the manager, under mux_; close_all() may
\* have done so in the meantime.
Remove ==
  /\ removing
  /\ removing' = FALSE
  /\ onClose' = onClose + 1 /\ managed' = FALSE
  /\ UNCHANGED <<queue, closed_, sock, reader, nRead, spc, cpc, ios_stopped, stalled, gone, failed>>

\* Starting an async_read; on a closed socket it can only fail.
Arm(st) == IF sock = "closed" THEN "doomed" ELSE st

StartRead ==
  /\ reader = "off"
  /\ reader' = Arm("header")
  /\ UNCHANGED <<queue, life, sock, nRead, spc, cpc, ios_stopped, stalled, gone, failed>>

ReadHeader ==
  /\ IoFree /\ reader = "header"
  /\ nRead < MaxRequests
  /\ reader' = Arm("body")
  /\ UNCHANGED <<queue, life, sock, nRead, spc, cpc, ios_stopped, stalled, gone, failed>>

\* A complete request: on_message_ takes it, and the loop reads on, whether or
\* not the connection was closed in the meantime.
ReadBody ==
  /\ IoFree /\ reader = "body"
  /\ nRead' = nRead + 1
  /\ spc' = [spc EXCEPT ![nRead + 1] = "tasked"]
  /\ reader' = Arm("header")
  /\ UNCHANGED <<queue, life, sock, cpc, ios_stopped, stalled, gone, failed>>

\* A read error (the peer may have closed its half only), or a header that does not
\* parse or has a wrong magic, which leaves the socket open: the connection is
\* closed as closing says, and the loop goes on to next.
ReadFailsWith(closing, next) ==
  /\ IoFree /\ reader \in {"header", "body", "doomed"}
  /\ closing
  /\ reader' = next
  /\ UNCHANGED <<queue, sock, nRead, spc, cpc, ios_stopped, stalled, gone, failed>>

\* Fault: on_close_ is called without the exchange on closed_.
Fault_ReadFailsAlways ==
  ReadFailsWith(closed_' = TRUE /\ removing' = TRUE /\ UNCHANGED <<onClose, managed>>, "stopped")

\* Fault: closed_ is set and on_close_ is not called.
Fault_ReadFailsSilently ==
  ReadFailsWith(closed_' = TRUE /\ UNCHANGED <<onClose, managed, removing>>, "stopped")

\* Fault: the return after a header with a wrong magic is missing.
Fault_ReadFailsGoesOn == ReadFailsWith(CloseOnError, IF reader = "header" THEN "body" ELSE "stopped")

ReadFails == ReadFailsWith(CloseOnError, "stopped")

-------------------------------------------------------------------------------
(* send(), on any thread *)

SendCheck(n) ==
  /\ spc[n] = "tasked"
  /\ spc' = [spc EXCEPT ![n] = IF closed_ THEN "dropped" ELSE "checked"]
  /\ UNCHANGED <<queue, life, sock, reader, nRead, cpc, ios_stopped, stalled, gone, failed>>

\* Queue the frame, and start writing or not.
SendQueueWith(n, start) ==
  /\ spc[n] = "checked"
  /\ write_queue_' = Append(write_queue_, n)
  /\ order' = Append(order, n)
  /\ writing_' = TRUE
  /\ spc' = [spc EXCEPT ![n] = IF start THEN "writer" ELSE "returned"]
  /\ UNCHANGED <<inflight, started, life, sock, reader, nRead, cpc, ios_stopped, stalled, gone, failed>>

\* Fault: every send() starts a write.
Fault_SendAlwaysWrites(n) == SendQueueWith(n, TRUE)

\* A write is started unless one is going on.
SendQueue(n) == SendQueueWith(n, ~writing_)

\* Start writing frame f, leaving q queued, next to the writes ws.
StartWrite(f, q, ws) ==
  /\ write_queue_' = q
  /\ started' = Append(started, f)
  /\ inflight' = ws \cup {[frame |-> f, doomed |-> sock = "closed"]}
  /\ UNCHANGED writing_

\* Nothing is queued: the chain ends.
EndWrites(ws) ==
  /\ write_queue_ = <<>>
  /\ writing_' = FALSE /\ inflight' = ws
  /\ UNCHANGED <<write_queue_, started>>

\* Fault: do_write takes the newest frame.
Fault_DoWriteNewest(ws) ==
  LET n == Len(write_queue_)
  IN EndWrites(ws) \/ (n > 0 /\ StartWrite(write_queue_[n], SubSeq(write_queue_, 1, n - 1), ws))

\* do_write, when the writes outstanding are ws.
DoWrite(ws) ==
  \/ EndWrites(ws)
  \/ write_queue_ # <<>> /\ StartWrite(Head(write_queue_), Tail(write_queue_), ws)

\* do_write on the thread of send().
SendWrite(n) ==
  /\ spc[n] = "writer"
  /\ DoWrite(inflight)
  /\ spc' = [spc EXCEPT ![n] = "returned"]
  /\ UNCHANGED <<order, life, sock, reader, nRead, cpc, ios_stopped, stalled, gone, failed>>

Send(n) == SendCheck(n) \/ SendQueue(n) \/ SendWrite(n)

\* Fault: a finished write does not look for the next frame.
Fault_WriteOkStops(w) ==
  /\ IoFree /\ w \in inflight /\ ~w.doomed
  /\ inflight' = inflight \ {w}
  /\ writing_' = FALSE
  /\ UNCHANGED <<write_queue_, started, order, life, sock, reader, nRead, spc, cpc,
                 ios_stopped, stalled, gone, failed>>

\* The completion handler of async_write.
WriteOk(w) ==
  /\ IoFree /\ w \in inflight /\ ~w.doomed
  /\ DoWrite(inflight \ {w})
  /\ UNCHANGED <<order, life, sock, reader, nRead, spc, cpc, ios_stopped, stalled, gone, failed>>

\* On an error the chain ends: writing_ stays set, what is queued stays queued.
\* A write fails only on a connection that is broken or closed.
WriteFails(w) ==
  /\ IoFree /\ w \in inflight /\ sock # "open"
  /\ inflight' = inflight \ {w}
  /\ CloseOnError
  /\ failed' = TRUE
  /\ UNCHANGED <<write_queue_, writing_, order, started, sock, reader, nRead, spc, cpc,
                 ios_stopped, stalled, gone>>

-------------------------------------------------------------------------------
(* close(), from close_all() and from the destructor *)

\* close_all() takes the connection out of the map, under mux_.
CloserTakes(c) ==
  /\ cpc[c] = "idle" /\ ~gone
  /\ cpc' = [cpc EXCEPT ![c] = IF managed THEN "taken" ELSE "closed"]
  /\ managed' = FALSE
  /\ UNCHANGED <<queue, closed_, onClose, removing, sock, reader, nRead, spc, ios_stopped,
                 stalled, gone, failed>>

\* The exchange on closed_.
CloserExchanges(c) ==
  /\ cpc[c] = "taken"
  /\ cpc' = [cpc EXCEPT ![c] = IF closed_ THEN "closed" ELSE "won"]
  /\ closed_' = TRUE
  /\ UNCHANGED <<queue, onClose, managed, removing, sock, reader, nRead, spc, ios_stopped,
                 stalled, gone, failed>>

\* The rest of close().
CloserCloses(c) ==
  /\ cpc[c] = "won"
  /\ cpc' = [cpc EXCEPT ![c] = "closed"]
  /\ sock' = "closed"
  /\ UNCHANGED <<queue, life, reader, nRead, spc, ios_stopped, stalled, gone, failed>>

\* ios_.stop(), by a thread that has let go of the connection; of no interest once
\* there is none.
CloserStops(c) ==
  /\ cpc[c] = "closed" /\ ~gone
  /\ cpc' = [cpc EXCEPT ![c] = "done"]
  /\ ios_stopped' = TRUE
  /\ UNCHANGED <<queue, life, sock, reader, nRead, spc, stalled, gone, failed>>

Closer(c) == CloserExchanges(c) \/ CloserCloses(c) \/ CloserStops(c)

\* Nobody refers to the connection: not the manager, a handler, a task or a closer.
Unreferenced ==
  /\ ~managed /\ ~removing /\ reader = "stopped" /\ inflight = {}
  /\ \A n \in Requests : spc[n] \in {"none", "returned", "dropped"}
  /\ \A c \in Closers : cpc[c] \in {"idle", "closed", "done"}

\* The destructor: close(), and the socket is destroyed.
Destroy ==
  /\ ~gone /\ Unreferenced
  /\ gone' = TRUE
  /\ closed_' = TRUE /\ sock' = "closed"
  /\ UNCHANGED <<queue, onClose, managed, removing, reader, nRead, spc, cpc, ios_stopped, stalled,
                 failed>>

-------------------------------------------------------------------------------
WriteDone == \E w \in inflight : WriteOk(w) \/ WriteFails(w)

Next ==
  \/ PeerLost \/ PeerStalls
  \/ StartRead \/ ReadHeader \/ ReadBody \/ ReadFails \/ Remove
  \/ \E n \in Requests : Send(n)
  \/ WriteDone
  \/ \E c \in Closers : CloserTakes(c) \/ Closer(c)
  \/ Destroy

Spec == Init /\ [][Next]_vars

\* Threads run; a write ends if the peer reads or the socket is broken or closed,
\* and so does a read on a broken or closed socket.  The peer need not send, read,
\* go away or be sent away.
FairSpec ==
  /\ Spec
  /\ \A n \in Requests : WF_vars(Send(n))
  /\ \A c \in Closers : WF_vars(Closer(c))
  /\ WF_vars(StartRead) /\ WF_vars(Remove) /\ WF_vars(Destroy)
  /\ WF_vars((~stalled \/ sock # "open") /\ WriteDone)
  /\ WF_vars(sock # "open" /\ ReadFails)

-------------------------------------------------------------------------------
(* Properties *)

Writers == {n \in Requests : spc[n] = "writer"}

\* Responses of several threads never interleave on the socket: at most one
\* thread or outstanding write holds the token writing_, and while it is set
\* somebody holds it, unless a write has failed and the connection is closed.
SingleWriter ==
  /\ \A u, v \in inflight : u = v
  /\ \A m, n \in Writers : m = n
  /\ inflight = {} \/ Writers = {}
  /\ (inflight # {} \/ Writers # {}) <=> (writing_ /\ ~failed)
  /\ failed => closed_ /\ writing_
  /\ write_queue_ # <<>> => writing_

\* network.md:325, writes are serialised in the order of the calls of send().
WireFifo == order = started \o write_queue_

\* network.md:318, of close() and on_close_ exactly one takes effect, once, however
\* a failing read, a failing write, close_all() and the destructor race.
ClosedOnce ==
  /\ onClose <= 1
  /\ \A c \in Closers : cpc[c] = "won" =>
       closed_ /\ onClose = 0 /\ ~removing /\ \A d \in Closers \ {c} : cpc[d] # "won"

\* The manager never keeps a connection that nobody will take out: one that is
\* closed, or that is no longer read, is in the map only while the io thread is on
\* its way to remove it, and one that is destroyed never is.
NoStaleEntry == managed => ~gone /\ (closed_ \/ reader = "stopped" => removing)

\* A response that was queued is handed to the socket, unless the connection is
\* closed, ios_ is stopped, or the peer does not read what was sent before.
QueuedIsSent ==
  \A n \in Requests : (\E i \in DOMAIN order : order[i] = n)
    ~> (closed_ \/ ios_stopped \/ stalled \/ \E i \in DOMAIN started : started[i] = n)

\* network.md:317, reference counting: a connection closed by an error is destroyed
\* in the end, and with it its socket, whatever was queued, written and answered at
\* that moment; no handler keeps it alive.  Two things may: a write to a peer that
\* has stopped reading, on a socket that the error left open, and ios_ once it is
\* stopped, which keeps the handlers it holds until it is destroyed itself.
Reclaimed == closed_ ~> (gone \/ ios_stopped \/ (stalled /\ sock = "open"))

\* connection.cpp, shared_from_this() in every handler: once the connection is
\* destroyed no thread, handler or task does anything with it.
NoUseAfterDestroy == [][~gone]_vars
===============================================================================
