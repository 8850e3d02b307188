----------------------------- MODULE NetworkProofs -----------------------------
(***************************************************************************)
(* Safety of the server's side of the network: of a Connection, for any    *)
(* number of requests and of threads that close it; and of MessageCycle    *)
(* and ServerMain, for any number of connections and of presses of Ctrl+C. *)
(***************************************************************************)
EXTENDS Connection, ServerMain, TLAPS

\* The prover of a step that names none; SMT is named where Zenon does not do.
USE ZenonT(60), SMTT(60)

-------------------------------------------------------------------------------
(* Connection *)

\* Who may still close the connection: a closer that has it in its snapshot is
\* the only one, and took it out of the manager; an io thread on its way to
\* on_close_ has set closed_, and on_close_ was not called before; the read loop ends
\* with closed_ set; the loop is inside a body only below the bound; and no answer is
\* on its way before its request was read.
Holders ==
  /\ \A c \in Closers : cpc[c] \in {"taken", "won"} =>
       ~managed /\ \A d \in Closers \ {c} : cpc[d] \notin {"taken", "won"}
  /\ removing => closed_ /\ onClose = 0
  /\ onClose = 1 => closed_
  /\ reader = "stopped" => closed_
  /\ reader = "body" => nRead < MaxRequests
  /\ \A n \in Requests : n > nRead => spc[n] = "none"

\* The inductive invariant.
IInv == TypeOK /\ SingleWriter /\ WireFifo /\ ClosedOnce /\ NoStaleEntry /\ Holders

-------------------------------------------------------------------------------
\* A connection just accepted satisfies the invariant.
LEMMA InitIInv == Init => IInv
<1> SUFFICES ASSUME Init PROVE IInv
  OBVIOUS
<1>1. TypeOK
  <2>1. write_queue_ \in Seq(Requests) /\ order \in Seq(Requests) /\ started \in Seq(Requests)
    BY SMTT(60) DEF Init
  <2>2. nRead \in 0 .. MaxRequests /\ onClose \in 0 .. 1
    BY ConnectionAssumption, SMTT(60) DEF Init
  <2>3. inflight \in SUBSET [frame : Requests, doomed : BOOLEAN]
    BY DEF Init
  <2>4. QED
    BY <2>1, <2>2, <2>3 DEF Init, TypeOK
<1>2. SingleWriter
  BY DEF Init, SingleWriter, Writers
<1>3. WireFifo
  BY SMTT(60) DEF Init, WireFifo
<1>4. ClosedOnce /\ NoStaleEntry /\ Holders
  BY SMTT(60) DEF Init, ClosedOnce, NoStaleEntry, Holders
<1>5. QED
  BY <1>1, <1>2, <1>3, <1>4 DEF IInv

\* What do_write does to the chain, wherever it is called: it ends the chain or
\* hands the oldest frame to the socket.
LEMMA DoWriteEffect ==
  ASSUME TypeOK, WireFifo, NEW ws \in SUBSET [frame : Requests, doomed : BOOLEAN],
         DoWrite(ws), order' = order
  PROVE  /\ write_queue_' \in Seq(Requests) /\ started' \in Seq(Requests)
         /\ writing_' \in BOOLEAN
         /\ inflight' \in SUBSET [frame : Requests, doomed : BOOLEAN]
         /\ WireFifo'
         /\ \/ write_queue_' = <<>> /\ writing_' = FALSE /\ inflight' = ws
            \/ /\ write_queue_ # <<>> /\ writing_' = writing_
               /\ \E w \in [frame : Requests, doomed : BOOLEAN] : inflight' = ws \cup {w}
<1>1. CASE EndWrites(ws)
  BY <1>1 DEF EndWrites, TypeOK, WireFifo
<1>2. CASE /\ write_queue_ # <<>>
           /\ StartWrite(Head(write_queue_), Tail(write_queue_), ws)
  <2> DEFINE f == Head(write_queue_)
             w == [frame |-> f, doomed |-> sock = "closed"]
  <2>1. f \in Requests /\ Tail(write_queue_) \in Seq(Requests)
    BY <1>2, SMTT(60) DEF TypeOK
  <2>2. w \in [frame : Requests, doomed : BOOLEAN]
    BY <2>1
  <2>3. started' \in Seq(Requests) /\ write_queue_' \in Seq(Requests)
    BY <1>2, <2>1, SMTT(60) DEF StartWrite, TypeOK
  <2>4. started' \o write_queue_' = started \o write_queue_
    BY <1>2, <2>1, SMTT(60) DEF StartWrite, TypeOK
  <2>5. QED
    BY <1>2, <2>2, <2>3, <2>4 DEF StartWrite, TypeOK, WireFifo
<1>3. QED
  BY <1>1, <1>2 DEF DoWrite

\* Queueing behind two sequences is queueing behind the second.
LEMMA AppendConcat ==
  ASSUME NEW s \in Seq(Requests), NEW t \in Seq(Requests), NEW e \in Requests
  PROVE  Append(s \o t, e) = s \o Append(t, e)
BY SMTT(60)

\* A step that leaves the write chain and the set of writers alone.
LEMMA ChainKept ==
  ASSUME SingleWriter, WireFifo, UNCHANGED <<queue, failed>>, Writers' = Writers,
         closed_ => closed_'
  PROVE  SingleWriter' /\ WireFifo'
BY DEF SingleWriter, WireFifo, queue

-------------------------------------------------------------------------------
(* One lemma per group of actions *)

\* An error branch ends the read loop or a write; if it sets closed_ it goes on to
\* call on_close_.
LEMMA CloseStep ==
  ASSUME IInv, ~removing, CloseOnError,
         UNCHANGED <<sock, nRead, spc, cpc, ios_stopped, stalled, gone>>,
         reader' \in {reader, "stopped"},
         write_queue_' = write_queue_, writing_' = writing_, order' = order,
         started' = started, inflight' \subseteq inflight, failed' \in BOOLEAN
  PROVE  TypeOK' /\ ClosedOnce' /\ NoStaleEntry' /\ Holders'
<1> USE DEF IInv
<1>1. TypeOK'
  <2>1. closed_' \in BOOLEAN /\ removing' \in BOOLEAN /\ onClose' = onClose /\ managed' = managed
    BY DEF CloseOnError
  <2>2. inflight' \in SUBSET [frame : Requests, doomed : BOOLEAN]
    BY DEF TypeOK
  <2>3. QED
    BY <2>1, <2>2 DEF TypeOK
<1>2. CASE closed_
  <2>1. UNCHANGED life
    BY <1>2 DEF CloseOnError, life, TypeOK
  <2>2. ClosedOnce' /\ NoStaleEntry' /\ Holders'
    BY <1>2, <2>1 DEF TypeOK, ClosedOnce, NoStaleEntry, Holders, life
  <2>3. QED
    BY <1>1, <2>2
<1>3. CASE ~closed_
  <2>1. /\ closed_' = TRUE /\ removing' = TRUE
        /\ onClose' = onClose /\ managed' = managed
    BY <1>3 DEF CloseOnError
  <2>2. onClose = 0
    BY <1>3, SMTT(60) DEF TypeOK, Holders
  <2>3. \A c \in Closers : cpc[c] # "won"
    BY <1>3 DEF ClosedOnce
  <2>4. ClosedOnce'
    BY <2>1, <2>3 DEF ClosedOnce
  <2>5. NoStaleEntry'
    BY <2>1 DEF NoStaleEntry
  <2>6. Holders'
    BY <2>1, <2>2 DEF Holders
  <2>7. QED
    BY <1>1, <2>4, <2>5, <2>6
<1>4. QED
  BY <1>2, <1>3

\* The peer and the read loop keep it: start, header, body with a request, a failed
\* read.
LEMMA ReadStep ==
  ASSUME IInv, PeerLost \/ PeerStalls \/ StartRead \/ ReadHeader \/ ReadBody \/ ReadFails
  PROVE  IInv'
<1> USE DEF IInv
<1>1. CASE PeerLost \/ PeerStalls
  <2>1. TypeOK' /\ ClosedOnce' /\ NoStaleEntry' /\ Holders'
    <3>1. UNCHANGED <<queue, life, reader, nRead, spc, cpc, ios_stopped, gone, failed>>
      BY <1>1 DEF PeerLost, PeerStalls
    <3>2. sock' \in {"open", "broken", "closed"} /\ stalled' \in BOOLEAN
      BY <1>1 DEF PeerLost, PeerStalls, TypeOK
    <3>3. TypeOK'
      BY <3>1, <3>2 DEF TypeOK, queue, life
    <3>4. ClosedOnce' /\ NoStaleEntry' /\ Holders'
      BY <3>1 DEF ClosedOnce, NoStaleEntry, Holders, life
    <3>5. QED
      BY <3>3, <3>4
  <2>2. QED
    BY <1>1, <2>1, ChainKept DEF PeerLost, PeerStalls, Writers, life
<1>2. CASE StartRead \/ ReadHeader
  <2>1. TypeOK' /\ ClosedOnce' /\ NoStaleEntry' /\ Holders'
    BY <1>2, ConnectionAssumption, SMTT(60)
       DEF StartRead, ReadHeader, Arm, TypeOK, ClosedOnce, NoStaleEntry, Holders, queue, life
  <2>2. QED
    BY <1>2, <2>1, ChainKept, SMTT(60) DEF StartRead, ReadHeader, Writers, life
<1>3. CASE ReadBody
  <2>1. nRead + 1 \in Requests /\ nRead' \in 0 .. MaxRequests
    BY <1>3, ConnectionAssumption, SMTT(60) DEF ReadBody, TypeOK, Holders, Requests
  <2>2. TypeOK'
    BY <1>3, <2>1 DEF ReadBody, Arm, TypeOK, queue, life
  <2>3. \A n \in Requests : n > nRead' => spc'[n] = "none"
    BY <1>3, <2>1, ConnectionAssumption, SMTT(60) DEF ReadBody, TypeOK, Holders, Requests
  <2>4. ClosedOnce' /\ NoStaleEntry' /\ Holders'
    BY <1>3, <2>3 DEF ReadBody, Arm, ClosedOnce, NoStaleEntry, Holders, life
  <2>5. Writers' = Writers
    <3>1. spc[nRead + 1] = "none"
      BY <2>1, SMTT(60) DEF Holders, TypeOK
    <3>2. QED
      BY <1>3, <2>1, <3>1 DEF ReadBody, Writers, TypeOK
  <2>6. QED
    BY <1>3, <2>2, <2>4, <2>5, ChainKept DEF ReadBody, life
<1>4. CASE ReadFails
  <2>0. /\ ~removing /\ CloseOnError /\ reader' = "stopped"
        /\ UNCHANGED <<queue, sock, nRead, spc, cpc, ios_stopped, stalled, gone, failed>>
    BY <1>4 DEF ReadFails, ReadFailsWith, IoFree
  <2>1. TypeOK' /\ ClosedOnce' /\ NoStaleEntry' /\ Holders'
    <3>1. /\ UNCHANGED <<write_queue_, writing_, order, started>>
          /\ inflight' \subseteq inflight /\ failed' \in BOOLEAN
      BY <2>0 DEF queue, TypeOK
    <3>2. QED
      BY <2>0, <3>1, CloseStep
  <2>2. QED
    <3>1. Writers' = Writers /\ closed_'
      BY <2>0 DEF Writers, CloseOnError
    <3>2. QED
      BY <2>0, <2>1, <3>1, ChainKept
<1>5. QED
  BY <1>1, <1>2, <1>3, <1>4

\* send() keeps it, statement by statement, on whichever thread.
LEMMA SendStep ==
  ASSUME IInv, NEW n \in Requests, Send(n)
  PROVE  IInv'
<1> USE DEF IInv
<1>1. CASE SendCheck(n)
  <2>1. TypeOK' /\ ClosedOnce' /\ NoStaleEntry' /\ Holders'
    BY <1>1, SMTT(60) DEF SendCheck, TypeOK, ClosedOnce, NoStaleEntry, Holders, queue, life
  <2>2. QED
    BY <1>1, <2>1, ChainKept, SMTT(60) DEF SendCheck, Writers, life, TypeOK
<1>2. CASE SendQueue(n)
  <2> USE <1>2 DEF SendQueue, SendQueueWith
  <2>1. ClosedOnce' /\ NoStaleEntry' /\ Holders'
    BY SMTT(60) DEF ClosedOnce, NoStaleEntry, Holders, life
  <2>2. TypeOK'
    <3>1. write_queue_' \in Seq(Requests) /\ order' \in Seq(Requests)
      BY SMTT(60) DEF TypeOK
    <3>2. QED
      BY <3>1, SMTT(60) DEF TypeOK, life
  <2>3. WireFifo'
    <3>1. Append(started \o write_queue_, n) = started \o Append(write_queue_, n)
      <4>1. started \in Seq(Requests) /\ write_queue_ \in Seq(Requests)
        BY DEF TypeOK
      <4>2. QED
        BY <4>1, AppendConcat
    <3>2. QED
      BY <3>1 DEF WireFifo
  <2>4. Writers' = IF writing_ THEN Writers ELSE Writers \cup {n}
    BY DEF Writers, TypeOK
  <2>5. SingleWriter'
    BY <2>4 DEF SingleWriter, TypeOK, life
  <2>6. QED
    BY <2>1, <2>2, <2>3, <2>5
<1>3. CASE SendWrite(n)
  <2> USE <1>3 DEF SendWrite
  <2>1. ClosedOnce' /\ NoStaleEntry' /\ Holders'
    BY SMTT(60) DEF ClosedOnce, NoStaleEntry, Holders, life
  <2>2. n \in Writers /\ inflight = {} /\ Writers = {n} /\ writing_ /\ ~failed
    BY DEF SingleWriter, Writers
  <2>3. Writers' = {}
    BY <2>2 DEF Writers, TypeOK
  <2>4. TypeOK' /\ WireFifo'
    <3>1. inflight \in SUBSET [frame : Requests, doomed : BOOLEAN]
      BY DEF TypeOK
    <3>2. /\ write_queue_' \in Seq(Requests) /\ started' \in Seq(Requests)
          /\ writing_' \in BOOLEAN
          /\ inflight' \in SUBSET [frame : Requests, doomed : BOOLEAN]
          /\ WireFifo'
      BY <3>1, DoWriteEffect
    <3>3. spc' \in [Requests -> {"none", "tasked", "checked", "writer", "returned", "dropped"}]
      BY DEF TypeOK
    <3>4. TypeOK'
      BY <3>2, <3>3 DEF TypeOK, life
    <3>5. QED
      BY <3>2, <3>4
  <2>5. SingleWriter'
    <3>1. \/ write_queue_' = <<>> /\ writing_' = FALSE /\ inflight' = {}
          \/ /\ write_queue_ # <<>> /\ writing_' = writing_
             /\ \E w \in [frame : Requests, doomed : BOOLEAN] : inflight' = {} \cup {w}
      BY <2>2, DoWriteEffect DEF TypeOK
    <3>2. ~failed'
      BY <2>2
    <3>3. CASE write_queue_' = <<>> /\ writing_' = FALSE /\ inflight' = {}
      BY <2>3, <3>2, <3>3 DEF SingleWriter
    <3>4. CASE \E w \in [frame : Requests, doomed : BOOLEAN] :
                 inflight' = {} \cup {w} /\ writing_' = writing_
      <4>1. PICK w : inflight' = {w} /\ writing_' = writing_
        BY <3>4
      <4>2. writing_'
        BY <2>2, <4>1
      <4>3. QED
        BY <2>3, <3>2, <4>1, <4>2 DEF SingleWriter
    <3>5. QED
      BY <3>1, <3>3, <3>4
  <2>6. QED
    BY <2>1, <2>4, <2>5
<1>4. QED
  BY <1>1, <1>2, <1>3 DEF Send

\* The io thread's completion of a write keeps it, whether it went well or not.
LEMMA WriteStep ==
  ASSUME IInv, NEW w \in inflight, WriteOk(w) \/ WriteFails(w)
  PROVE  IInv'
<1> USE DEF IInv
<1>0. inflight = {w} /\ Writers = {} /\ writing_ /\ ~failed
  BY DEF SingleWriter
<1>1. CASE WriteOk(w)
  <2> USE <1>1 DEF WriteOk
  <2>1. ClosedOnce' /\ NoStaleEntry' /\ Holders'
    BY DEF ClosedOnce, NoStaleEntry, Holders, life
  <2>2. inflight \ {w} = {} /\ {} \in SUBSET [frame : Requests, doomed : BOOLEAN]
    BY <1>0
  <2>3. DoWrite({}) /\ order' = order
    BY <2>2
  <2>4. TypeOK' /\ WireFifo'
    <3>1. /\ write_queue_' \in Seq(Requests) /\ started' \in Seq(Requests)
          /\ writing_' \in BOOLEAN
          /\ inflight' \in SUBSET [frame : Requests, doomed : BOOLEAN]
          /\ WireFifo'
      BY <2>2, <2>3, DoWriteEffect
    <3>2. TypeOK'
      BY <3>1 DEF TypeOK, life
    <3>3. QED
      BY <3>1, <3>2
  <2>5. Writers' = {}
    BY <1>0 DEF Writers
  <2>6. SingleWriter'
    BY <1>0, <2>2, <2>3, <2>5, DoWriteEffect DEF SingleWriter, TypeOK
  <2>7. QED
    BY <2>1, <2>4, <2>6
<1>2. CASE WriteFails(w)
  <2> USE <1>2 DEF WriteFails
  <2>1. TypeOK' /\ ClosedOnce' /\ NoStaleEntry' /\ Holders'
    <3>1. ~removing /\ reader' \in {reader, "stopped"} /\ inflight' \subseteq inflight
          /\ failed' \in BOOLEAN
      BY DEF IoFree
    <3>2. QED
      BY <3>1, CloseStep
  <2>2. inflight' = {} /\ Writers' = {} /\ closed_'
    BY <1>0, SMTT(60) DEF Writers, CloseOnError, life
  <2>3. SingleWriter' /\ WireFifo'
    BY <1>0, <2>2 DEF SingleWriter, WireFifo
  <2>4. QED
    BY <2>1, <2>3
<1>3. QED
  BY <1>1, <1>2

\* The io thread takes the connection out of the manager, unless close_all() has.
LEMMA RemoveStep ==
  ASSUME IInv, Remove
  PROVE  IInv'
<1> USE DEF IInv, Remove
<1>1. SingleWriter' /\ WireFifo'
  BY ChainKept DEF Writers
<1>2. onClose = 0 /\ onClose' = 1 /\ closed_
  BY SMTT(60) DEF Holders
<1>3. TypeOK'
  <2>1. onClose' \in 0 .. 1
    BY <1>2, SMTT(60)
  <2>2. QED
    BY <2>1 DEF TypeOK, queue
<1>4. ClosedOnce'
  BY <1>2, SMTT(60) DEF ClosedOnce
<1>5. NoStaleEntry' /\ Holders'
  BY <1>2 DEF NoStaleEntry, Holders
<1>6. QED
  BY <1>1, <1>3, <1>4, <1>5

\* A thread in close_all() or close() keeps it.
LEMMA CloserStep ==
  ASSUME IInv, NEW c \in Closers, CloserTakes(c) \/ Closer(c)
  PROVE  IInv'
<1> USE DEF IInv
<1>1. /\ UNCHANGED <<queue, onClose, removing, reader, nRead, spc, stalled, gone, failed>>
      /\ closed_ => closed_'
  BY SMTT(60) DEF CloserTakes, Closer, CloserExchanges, CloserCloses, CloserStops, life
<1>2. SingleWriter' /\ WireFifo'
  BY <1>1, ChainKept DEF Writers
<1>3. TypeOK'
  <2>1. /\ cpc' \in [Closers -> {"idle", "taken", "won", "closed", "done"}]
        /\ closed_' \in BOOLEAN /\ managed' \in BOOLEAN /\ ios_stopped' \in BOOLEAN
    BY DEF CloserTakes, Closer, CloserExchanges, CloserCloses, CloserStops, life, TypeOK
  <2>2. sock' \in {"open", "broken", "closed"}
    BY DEF CloserTakes, Closer, CloserExchanges, CloserCloses, CloserStops, TypeOK
  <2>3. QED
    BY <1>1, <2>1, <2>2 DEF queue, TypeOK
<1>4. CASE CloserTakes(c)
  BY <1>2, <1>3, <1>4, SMTT(60) DEF CloserTakes, ClosedOnce, NoStaleEntry, Holders, TypeOK
<1>5. CASE CloserExchanges(c)
  <2>1. ClosedOnce'
    BY <1>5, SMTT(60) DEF CloserExchanges, ClosedOnce, Holders, TypeOK
  <2>2. NoStaleEntry' /\ Holders'
    BY <1>5 DEF CloserExchanges, NoStaleEntry, Holders, TypeOK
  <2>3. QED
    BY <1>2, <1>3, <2>1, <2>2
<1>6. CASE CloserCloses(c)
  BY <1>2, <1>3, <1>6, SMTT(60)
  DEF CloserCloses, ClosedOnce, NoStaleEntry, Holders, TypeOK, life
<1>7. CASE CloserStops(c)
  BY <1>2, <1>3, <1>7, SMTT(60)
  DEF CloserStops, ClosedOnce, NoStaleEntry, Holders, TypeOK, life
<1>8. QED
  BY <1>4, <1>5, <1>6, <1>7 DEF Closer

\* So does the destruction of the connection.
LEMMA OtherStep ==
  ASSUME IInv, Destroy \/ UNCHANGED vars
  PROVE  IInv'
<1> USE DEF IInv
<1>1. CASE Destroy
  <2>1. SingleWriter' /\ WireFifo'
    BY <1>1, ChainKept DEF Destroy, Writers
  <2>2. TypeOK' /\ ClosedOnce' /\ NoStaleEntry' /\ Holders'
    BY <1>1 DEF Destroy, Unreferenced, ClosedOnce, NoStaleEntry, Holders, TypeOK, queue
  <2>3. QED
    BY <2>1, <2>2
<1>2. CASE UNCHANGED vars
  BY <1>2, SMTT(60) DEF vars, queue, life, TypeOK, SingleWriter, WireFifo, ClosedOnce, NoStaleEntry,
              Holders, Writers
<1>3. QED
  BY <1>1, <1>2

-------------------------------------------------------------------------------
(* The theorems *)

\* The inductive invariant holds of every connection.
THEOREM ConnectionInvariant == Spec => []IInv
<1>1. IInv /\ [Next]_vars => IInv'
  BY ReadStep, SendStep, WriteStep, RemoveStep, CloserStep, OtherStep DEF Next, WriteDone
<1>2. QED
  BY InitIInv, <1>1, PTL DEF Spec

\* However many threads answer requests, frames never interleave on the socket.
THEOREM ConnectionSingleWriter == Spec => []SingleWriter
<1>1. IInv => SingleWriter
  BY DEF IInv
<1>2. QED
  BY ConnectionInvariant, <1>1, PTL

\* Frames reach the socket in the order of the calls of send().
THEOREM ConnectionFifo == Spec => []WireFifo
<1>1. IInv => WireFifo
  BY DEF IInv
<1>2. QED
  BY ConnectionInvariant, <1>1, PTL

\* Exactly one of on_close_ and close() takes effect, once.
THEOREM ConnectionClosedOnce == Spec => []ClosedOnce
<1>1. IInv => ClosedOnce
  BY DEF IInv
<1>2. QED
  BY ConnectionInvariant, <1>1, PTL

\* The manager holds no closed connection that nobody is about to remove.
THEOREM ConnectionNoStaleEntry == Spec => []NoStaleEntry
<1>1. IInv => NoStaleEntry
  BY DEF IInv
<1>2. QED
  BY ConnectionInvariant, <1>1, PTL

\* What a destroyed connection leaves behind: nobody refers to it, nor can again.
Released == gone => Unreferenced /\ sock = "closed"

\* Each step keeps that, and a destroyed connection has no step: a reference is only
\* passed on by somebody who has one, and the manager gives none away twice.
LEMMA ReleasedStep ==
  ASSUME Released, [Next]_vars
  PROVE  Released' /\ (gone => UNCHANGED vars)
<1>1. CASE gone
  <2>1. Unreferenced /\ sock = "closed"
    BY <1>1 DEF Released
  <2>2. ~Next
    <3>1. ~(PeerLost \/ PeerStalls \/ StartRead \/ ReadHeader \/ ReadBody \/ ReadFails
             \/ Remove \/ Destroy)
      BY <1>1, <2>1 DEF Unreferenced, PeerLost, PeerStalls, StartRead, ReadHeader, ReadBody,
                        ReadFails, ReadFailsWith, Remove, Destroy
    <3>2. \A n \in Requests : ~Send(n)
      BY <2>1 DEF Unreferenced, Send, SendCheck, SendQueue, SendQueueWith, SendWrite
    <3>3. ~WriteDone
      BY <2>1 DEF Unreferenced, WriteDone
    <3>4. \A c \in Closers : ~(CloserTakes(c) \/ Closer(c))
      BY <1>1, <2>1 DEF Unreferenced, CloserTakes, Closer, CloserExchanges, CloserCloses,
                        CloserStops
    <3>5. QED
      BY <3>1, <3>2, <3>3, <3>4 DEF Next
  <2>3. UNCHANGED vars
    BY <2>2
  <2>4. Released'
    BY <1>1, <2>1, <2>3 DEF Released, Unreferenced, vars, queue, life
  <2>5. QED
    BY <2>3, <2>4
<1>2. CASE ~gone
  <2>1. CASE Destroy
    BY <2>1 DEF Destroy, Released, Unreferenced, queue
  <2>2. CASE ~Destroy
    <3>1. gone' = gone
      BY <2>2 DEF Next, vars, PeerLost, PeerStalls, StartRead, ReadHeader, ReadBody, ReadFails,
                  ReadFailsWith, Remove, Send, SendCheck, SendQueue, SendQueueWith, SendWrite,
                  WriteDone, WriteOk, WriteFails, CloserTakes, Closer, CloserExchanges,
                  CloserCloses, CloserStops
    <3>2. QED
      BY <1>2, <3>1 DEF Released
  <2>3. QED
    BY <1>2, <2>1, <2>2
<1>3. QED
  BY <1>1, <1>2

\* Whoever closes it and whatever is outstanding, a Connection is not used after it is
\* destroyed: handlers, tasks and snapshots each hold a reference for as long as they
\* need it.
THEOREM ConnectionNotUsedAfter == Spec => NoUseAfterDestroy
<1>1. Init => Released
  BY DEF Init, Released
<1>2. Released /\ [Next]_vars => Released' /\ [~gone]_vars
  BY ReleasedStep
<1>3. QED
  BY <1>1, <1>2, PTL DEF Spec, NoUseAfterDestroy

-------------------------------------------------------------------------------
(* MessageCycle and ServerMain *)

Stopping == \E t \in Stoppers : stpc[t] # "idle"

\* Between start_listen() and run() an accept is pending.  A loop that runs with
\* running_ cleared, and a stopped io_context, are the work of a stop().  Only a
\* stopper that is about to close them has connections in its snapshot, and the loop
\* does not return inside its own signal handler.
Cycle ==
  /\ loop = "listening" => accepting # "none"
  /\ (loop = "running" /\ ~running_) \/ iosStopped => Stopping
  /\ \A i \in Ids : conns[i] \in Stoppers => stpc[conns[i]] = "close"
  /\ loop = "returned" => stpc["signal"] \in {"idle", "done"}

\* The inductive invariant of the event loop.
CInv == CycleTypeOK /\ AcceptPending /\ StaysUp /\ Cycle

\* The main thread has a blocking loop; in the stop() of the destructor, once the
\* map has been emptied, it stays empty.
Process ==
  /\ mpc \in {"waiting", "stopping", "dtor", "exited", "killed", "embedded"}
  /\ mpc # "embedded" => ~async
  /\ mpc = "dtor" /\ stpc["owner"] \in {"close", "ios", "join", "done"} =>
       \A i \in Ids : conns[i] # "managed"

\* The inductive invariant of the process.
MainInv == CInv /\ JoinedBeforeDestroyed /\ ExitClosesAll /\ Process

-------------------------------------------------------------------------------
(* The event loop *)

\* A cycle just constructed satisfies the invariant.
LEMMA InitCInv == CycleInit => CInv
<1> SUFFICES ASSUME CycleInit PROVE CInv
  OBVIOUS
<1>1. CycleTypeOK
  <2>1. next_id_ \in 1 .. MaxConns + 1 /\ async \in BOOLEAN /\ unix \in BOOLEAN
    BY CycleAssumption, SMTT(60) DEF CycleInit
  <2>2. \A i \in Ids : i < next_id_ <=> conns[i] # "none"
    BY CycleAssumption, SMTT(60) DEF CycleInit, Ids
  <2>3. QED
    BY <2>1, <2>2 DEF CycleInit, CycleTypeOK
<1>2. AcceptPending /\ StaysUp /\ Cycle
  BY DEF CycleInit, AcceptPending, StaysUp, Cycle, Stoppers
<1>3. QED
  BY <1>1, <1>2 DEF CInv

\* start_listen(), well or with an exception, and the head of run() keep it.
LEMMA StartStep ==
  ASSUME CInv, Start
  PROVE  CInv'
<1>1. CycleTypeOK'
  <2>1. CycleTypeOK
    BY DEF CInv
  <2>2. CASE Listen
    BY <2>1, <2>2 DEF CycleTypeOK, Listen, config, conn
  <2>3. CASE ListenThrows
    BY <2>1, <2>3 DEF CycleTypeOK, ListenThrows, config, conn
  <2>4. CASE Run
    BY <2>1, <2>4 DEF CycleTypeOK, Run, config, conn
  <2>5. QED
    BY <2>2, <2>3, <2>4 DEF Start
<1>2. Stopping' = Stopping
  BY DEF Stopping, Start, Listen, ListenThrows, Run
<1>3. AcceptPending' /\ StaysUp'
  BY DEF CInv, Cycle, AcceptPending, StaysUp, Start, Listen, ListenThrows, Run
<1>4. Cycle'
  BY <1>2, SMTT(60) DEF CInv, Cycle, Start, Listen, ListenThrows, Run, conn
<1>5. QED
  BY <1>1, <1>3, <1>4 DEF CInv

\* The handlers of the loop keep it, and so do a signal and the return of run(): the
\* latter has no work left, or was stopped, only if somebody is in stop() or was.
LEMMA HandlerStep ==
  ASSUME CInv, Handlers \/ Raise \/ RunReturns
  PROVE  CInv'
<1>0. Stopping' = Stopping /\ stpc' = stpc
  BY DEF Stopping, Handlers, Accept, AcceptFails, AcceptFailsWith, ConnEnds, Raise, RunReturns
<1>1. CASE Accept
  <2>1. next_id_ \in Ids /\ next_id_' \in 1 .. MaxConns + 1
    BY <1>1, CycleAssumption, SMTT(60) DEF CInv, CycleTypeOK, Accept, Ids
  <2>2. conns' \in [Ids -> {"none", "managed", "closed"} \cup Stoppers]
    BY <1>1, <2>1 DEF CInv, CycleTypeOK, Accept
  <2>3. \A i \in Ids : i < next_id_' <=> conns'[i] # "none"
    BY <1>1, <2>1, CycleAssumption, SMTT(60) DEF CInv, CycleTypeOK, Accept, Ids
  <2>4. CycleTypeOK'
    BY <1>1, <2>1, <2>2, <2>3, SMTT(60) DEF CInv, CycleTypeOK, Accept, Armed, config
  <2>5. AcceptPending' /\ StaysUp'
    BY <1>1 DEF CInv, AcceptPending, StaysUp, Accept, Armed, Dispatching
  <2>6. \A i \in Ids : conns'[i] \in Stoppers => stpc'[conns'[i]] = "close"
    BY <1>0, <1>1, <2>1 DEF CInv, Cycle, CycleTypeOK, Accept, Stoppers
  <2>7. Cycle'
    BY <1>0, <1>1, <2>6 DEF CInv, Cycle, Accept, Dispatching
  <2>8. QED
    BY <2>4, <2>5, <2>7 DEF CInv
<1>2. CASE AcceptFails
  <2>1. CycleTypeOK'
    BY <1>2, SMTT(60) DEF CInv, CycleTypeOK, AcceptFails, AcceptFailsWith, Armed, config, conn
  <2>2. AcceptPending' /\ StaysUp' /\ Cycle'
    BY <1>0, <1>2 DEF CInv, Cycle, AcceptPending, StaysUp, AcceptFails, AcceptFailsWith,
                      Armed, Dispatching, conn
  <2>3. QED
    BY <2>1, <2>2 DEF CInv
<1>3. CASE \E i \in Ids : ConnEnds(i)
  <2>1. PICK k \in Ids : ConnEnds(k)
    BY <1>3
  <2>2. /\ \A i \in Ids : conns'[i] = IF i = k THEN "closed" ELSE conns[i]
        /\ conns[k] # "none" /\ conns' \in [Ids -> {"none", "managed", "closed"} \cup Stoppers]
    BY <2>1 DEF CInv, CycleTypeOK, ConnEnds, Stoppers
  <2>3. CycleTypeOK'
    BY <2>1, <2>2, SMTT(60) DEF CInv, CycleTypeOK, ConnEnds, config
  <2>4. AcceptPending' /\ StaysUp' /\ Cycle'
    BY <1>0, <2>1, <2>2, SMTT(60) DEF CInv, Cycle, AcceptPending, StaysUp, ConnEnds, Dispatching, Stoppers
  <2>5. QED
    BY <2>3, <2>4 DEF CInv
<1>4. CASE Raise
  <2>1. CycleTypeOK'
    BY <1>4, SMTT(60) DEF CInv, CycleTypeOK, Raise, config, conn
  <2>2. AcceptPending' /\ StaysUp' /\ Cycle'
    BY <1>0, <1>4 DEF CInv, Cycle, AcceptPending, StaysUp, Raise, conn
  <2>3. QED
    BY <2>1, <2>2 DEF CInv
<1>5. CASE RunReturns
  <2>1. CycleTypeOK'
    BY <1>5 DEF CInv, CycleTypeOK, RunReturns, config, conn
  <2>2. Stopping
    BY <1>5 DEF CInv, Cycle, AcceptPending, RunReturns, NoWork
  <2>3. AcceptPending' /\ StaysUp' /\ Cycle'
    BY <1>0, <1>5, <2>2 DEF CInv, Cycle, AcceptPending, StaysUp, RunReturns, conn, Stopping
  <2>4. QED
    BY <2>1, <2>3 DEF CInv
<1>6. QED
  BY <1>1, <1>2, <1>3, <1>4, <1>5 DEF Handlers

\* stop() keeps it, statement by statement, on whichever thread.
LEMMA StopStep ==
  ASSUME CInv, NEW t \in Stoppers, StopFlag(t) \/ Stop(t)
  PROVE  CInv'
<1> USE DEF Stop
<1>0. PICK to \in {"acceptor", "take", "close", "ios", "join", "done"} :
        stpc' = [stpc EXCEPT ![t] = to] /\ loop # "threw"
  BY DEF StopFlag, StopAcceptor, StopTake, StopClose, StopIos, StopIosWith, StopJoin, At
<1>1. /\ \A u \in Stoppers : stpc'[u] = IF u = t THEN to ELSE stpc[u]
      /\ stpc' \in [Stoppers -> {"idle", "acceptor", "take", "close", "ios", "join", "done"}]
  BY <1>0 DEF CInv, CycleTypeOK
<1>2. Stopping'
  BY <1>1 DEF Stopping
<1>3. conns' \in [Ids -> {"none", "managed", "closed"} \cup Stoppers]
      /\ \A i \in Ids : conns'[i] = "none" <=> conns[i] = "none"
  BY SMTT(60) DEF CInv, CycleTypeOK, StopFlag, StopAcceptor, StopTake, StopClose, StopIos, StopIosWith,
         StopJoin, conn, Stoppers
<1>4. CycleTypeOK'
  <2>1. /\ acceptor' \in {"unopened", "open", "closed"} /\ accepting' = accepting
        /\ loop' \in {"new", "listening", "running", "returned", "threw"}
        /\ signals' \in {"off", "waiting", "raised", "handled"}
        /\ running_' \in BOOLEAN /\ iosStopped' \in BOOLEAN
        /\ next_id_' = next_id_ /\ async' = async /\ unix' = unix
    <3>1. CycleTypeOK
      BY DEF CInv
    <3>2. CASE StopFlag(t)
      BY <3>1, <3>2 DEF CycleTypeOK, StopFlag, conn, config, Stoppers
    <3>3. CASE StopAcceptor(t)
      BY <3>1, <3>3 DEF CycleTypeOK, StopAcceptor, conn, config
    <3>4. CASE StopTake(t) \/ StopClose(t)
      BY <3>1, <3>4 DEF CycleTypeOK, StopTake, StopClose, config
    <3>5. CASE StopIos(t)
      BY <3>1, <3>5 DEF CycleTypeOK, StopIos, StopIosWith, conn, config
    <3>6. CASE StopJoin(t)
      BY <3>1, <3>6 DEF CycleTypeOK, StopJoin, conn, config
    <3>7. QED
      BY <3>2, <3>3, <3>4, <3>5, <3>6
  <2>2. QED
    BY <1>1, <1>3, <2>1 DEF CInv, CycleTypeOK
<1>5. AcceptPending' /\ StaysUp'
  BY <1>2, SMTT(60) DEF CInv, AcceptPending, StaysUp, Stopping, StopFlag, StopAcceptor, StopTake,
              StopClose, StopIos, StopIosWith, StopJoin
<1>6. \A i \in Ids : conns'[i] \in Stoppers => stpc'[conns'[i]] = "close"
  <2>1. CASE StopTake(t)
    BY <1>1, <2>1 DEF StopTake, At, CInv, Cycle, CycleTypeOK, Stoppers
  <2>2. CASE StopClose(t)
    BY <1>1, <2>2 DEF StopClose, At, CInv, Cycle, CycleTypeOK, Stoppers
  <2>3. CASE StopFlag(t) \/ StopAcceptor(t) \/ StopIos(t) \/ StopJoin(t)
    <3>1. conns' = conns /\ stpc[t] # "close"
      BY <2>3 DEF StopFlag, StopAcceptor, StopIos, StopIosWith, StopJoin, At, conn
    <3>2. QED
      BY <1>1, <3>1 DEF CInv, Cycle, Stoppers
  <2>4. QED
    BY <2>1, <2>2, <2>3
<1>7. loop' = "returned" => stpc'["signal"] \in {"idle", "done"}
  BY <1>0, <1>1 DEF CInv, Cycle, StopFlag, StopAcceptor, StopTake, StopClose, StopIos,
                    StopIosWith, StopJoin, At, Dispatching, Stoppers
<1>8. loop' = "listening" => accepting' # "none"
  BY DEF CInv, Cycle, StopFlag, StopAcceptor, StopTake, StopClose, StopIos, StopIosWith, StopJoin
<1>9. QED
  BY <1>2, <1>4, <1>5, <1>6, <1>7, <1>8 DEF CInv, Cycle

\* Every step of the event loop, whoever takes it, keeps the invariant.
LEMMA CycleStep == CInv /\ [CycleNext]_cycleVars => CInv'
<1> SUFFICES ASSUME CInv, [CycleNext]_cycleVars PROVE CInv'
  OBVIOUS
<1>1. CASE UNCHANGED cycleVars
  BY <1>1, SMTT(60) DEF CInv, CycleTypeOK, AcceptPending, StaysUp, Cycle, Stopping, cycleVars, config, conn
<1>2. QED
  BY <1>1, StartStep, HandlerStep, StopStep DEF CycleNext, Ending, Stoppers

\* A blocking or an async cycle, with stop() called from wherever it may be: the
\* loop does not end by itself, and keeps accepting until it is stopped.
THEOREM CycleSafe == CycleSpec => [](CycleTypeOK /\ AcceptPending /\ StaysUp)
<1>1. CInv => CycleTypeOK /\ AcceptPending /\ StaysUp
  BY DEF CInv
<1>2. QED
  BY <1>1, InitCInv, CycleStep, PTL DEF CycleSpec

-------------------------------------------------------------------------------
(* What a stop() leaves *)

Taken == {"close", "ios", "join", "done"}

Alone == \A i, j \in Ids : conns[i] = "managed" /\ conns[j] = "managed" => i = j

\* In the background the loop listens before it can be stopped, so a stopper past its
\* second statement has closed the acceptor.  After a snapshot the manager is empty as
\* long as an accept can still succeed, and afterwards holds at most that connection.
LeftOver ==
  async =>
    /\ loop \in {"listening", "running", "returned"} => acceptor # "unopened"
    /\ \A t \in Stoppers :
         /\ stpc[t] # "idle" => loop # "new"
         /\ stpc[t] \in {"take"} \cup Taken => acceptor = "closed"
         /\ stpc[t] \in Taken => Alone /\ (accepting = "armed" => \A i \in Ids : conns[i] # "managed")

\* Each step keeps it; an accept after the snapshot is the last one.
LEMMA LeftOverStep ==
  ASSUME CInv, LeftOver, [CycleNext]_cycleVars
  PROVE  LeftOver'
<1> USE DEF LeftOver, Taken, Alone
<1>1. CASE Start
  BY <1>1 DEF Start, Listen, ListenThrows, Run, config, conn, CInv, CycleTypeOK
<1>2. CASE Accept
  <2>1. accepting = "armed" /\ (acceptor = "closed" => accepting' # "armed")
    BY <1>2 DEF Accept, Armed
  <2>2. \A i \in Ids : conns'[i] = "managed" => i = next_id_ \/ conns[i] = "managed"
    BY <1>2 DEF Accept, CInv, CycleTypeOK
  <2>3. QED
    BY <1>2, <2>1, <2>2 DEF Accept, config, Armed
<1>3. CASE AcceptFails
  BY <1>3 DEF AcceptFails, AcceptFailsWith, Armed, config, conn
<1>4. CASE \E i \in Ids : ConnEnds(i)
  <2>1. \A i \in Ids : conns'[i] = "managed" => conns[i] = "managed"
    BY <1>4 DEF ConnEnds, CInv, CycleTypeOK
  <2>2. QED
    BY <1>4, <2>1, SMTT(60) DEF ConnEnds, config
<1>5. CASE Raise \/ RunReturns \/ UNCHANGED cycleVars
  BY <1>5 DEF Raise, RunReturns, cycleVars, config, conn
<1>6. ASSUME NEW t \in Stoppers, StopFlag(t) PROVE LeftOver'
  BY <1>6, SMTT(60) DEF StopFlag, At, Dispatching, config, conn, CInv, CycleTypeOK, Stoppers
<1>7. ASSUME NEW t \in Stoppers, Stop(t) PROVE LeftOver'
  <2>1. CASE StopAcceptor(t)
    BY <2>1 DEF StopAcceptor, At, config, conn, CInv, CycleTypeOK
  <2>2. CASE StopTake(t)
    <3>1. \A i \in Ids : conns'[i] # "managed"
      BY <2>2 DEF StopTake, Stoppers
    <3>2. QED
      BY <2>2, <3>1 DEF StopTake, At, config, CInv, CycleTypeOK
  <2>3. CASE StopClose(t)
    <3>1. \A i \in Ids : conns'[i] = "managed" => conns[i] = "managed"
      BY <2>3 DEF StopClose
    <3>2. QED
      BY <2>3, <3>1, SMTT(60) DEF StopClose, At, config, CInv, CycleTypeOK
  <2>4. CASE StopIos(t)
    BY <2>4 DEF StopIos, StopIosWith, At, config, conn, CInv, CycleTypeOK
  <2>5. CASE StopJoin(t)
    <3>1. UNCHANGED <<async, acceptor, accepting, conns>> /\ stpc' = [stpc EXCEPT ![t] = "done"]
          /\ stpc[t] = "join" /\ (loop' = loop \/ loop' = "threw")
      BY <2>5 DEF StopJoin, At, config, conn
    <3>2. stpc \in [Stoppers -> {"idle", "acceptor", "take", "close", "ios", "join", "done"}]
      BY DEF CInv, CycleTypeOK
    <3>3. QED
      BY <3>1, <3>2
  <2>6. QED
    BY <1>7, <2>1, <2>2, <2>3, <2>4, <2>5 DEF Stop
<1>8. QED
  BY <1>1, <1>2, <1>3, <1>4, <1>5, <1>6, <1>7 DEF CycleNext, Handlers, Ending, Stoppers

\* A stop() of a cycle in the background, from wherever it is called, may miss a
\* connection that is accepted after its snapshot (message_cycle.cpp:53 and 72), but
\* never more than one, however many clients connect meanwhile.
THEOREM CycleStopLeavesOne == CycleSpec => []StopLeavesOne
<1>1. CycleInit => LeftOver
  BY DEF CycleInit, LeftOver, Taken
<1>2. LeftOver => StopLeavesOne
  BY DEF LeftOver, StopLeavesOne, Alone, Taken
<1>3. QED
  BY <1>1, <1>2, LeftOverStep, InitCInv, CycleStep, PTL DEF CycleSpec

-------------------------------------------------------------------------------
(* The process *)

\* The process starts in the invariant.
LEMMA InitMainInv == MainInit => MainInv
BY InitCInv DEF MainInit, MainInv, JoinedBeforeDestroyed, ExitClosesAll, Process

\* A step of the process is, for the loop, a step of MessageCycle or none.
LEMMA MainTakesCycleSteps == MainNext => [CycleNext]_cycleVars
BY DEF MainNext, ServerThread, ServerStart, ServerRun, ServerHandlers, ServerReturns,
       PressMain, PressAsio, PressDefault, Main, MainStop, MainInStop, MainJoin, MainExit,
       Embedded, CycleNext, Start, Ending, Stoppers

\* A step that leaves mpc alone keeps what is said of the process, when it brings no
\* connection into the map after the loop has returned.
LEMMA ProcessKept ==
  ASSUME MainInv, mpc' = mpc, async' = async,
         mpc \in {"dtor", "exited"} => loop' = loop,
         mpc = "exited" => conns' = conns,
         mpc = "dtor" => /\ \A i \in Ids : conns'[i] = "managed" => conns[i] = "managed"
                         /\ stpc'["owner"] = stpc["owner"]
  PROVE  JoinedBeforeDestroyed' /\ ExitClosesAll' /\ Process'
BY DEF MainInv, JoinedBeforeDestroyed, ExitClosesAll, Process

\* server_thread keeps what is said of the process: it takes no step once joined.
LEMMA ServerStep ==
  ASSUME MainInv, ServerThread
  PROVE  JoinedBeforeDestroyed' /\ ExitClosesAll' /\ Process'
<1>1. mpc' = mpc /\ async' = async /\ mpc \notin {"exited", "embedded"}
  BY DEF ServerThread, ServerStart, ServerRun, ServerHandlers, ServerReturns, Alive, mainVars,
         Listen, ListenThrows, Run, Handlers, Accept, AcceptFails, AcceptFailsWith, ConnEnds,
         StopFlag, Stop, StopAcceptor, StopTake, StopClose, StopIos, StopIosWith, StopJoin,
         RunReturns, config
<1>2. mpc = "dtor" => FALSE
  <2> SUFFICES ASSUME mpc = "dtor" PROVE FALSE
    OBVIOUS
  <2>1. loop = "returned" /\ stpc["signal"] \in {"idle", "done"}
    BY DEF MainInv, CInv, Cycle, JoinedBeforeDestroyed
  <2>2. QED
    BY <2>1 DEF ServerThread, ServerStart, ServerRun, ServerHandlers, ServerReturns,
         Listen, ListenThrows, Run, Handlers, Accept, AcceptFails, AcceptFailsWith, ConnEnds,
         StopFlag, Stop, StopAcceptor, StopTake, StopClose, StopIos, StopIosWith, StopJoin,
         RunReturns, At, Dispatching
<1>3. QED
  BY <1>1, <1>2, ProcessKept

\* Ctrl+C keeps it, whoever has the signal.
LEMMA PressStep ==
  ASSUME MainInv, PressMain \/ PressAsio \/ PressDefault
  PROVE  JoinedBeforeDestroyed' /\ ExitClosesAll' /\ Process'
<1>1. /\ mpc' \in {mpc, "killed"} /\ mpc # "embedded"
      /\ async' = async /\ loop' = loop /\ conns' = conns /\ stpc' = stpc
  BY DEF PressMain, PressAsio, PressDefault, Press, Alive, Raise, cycleVars, config, conn
<1>2. QED
  BY <1>1 DEF MainInv, JoinedBeforeDestroyed, ExitClosesAll, Process

\* The main thread keeps it; the stop() of the destructor empties the map when nobody
\* is left to fill it.
LEMMA MainStep ==
  ASSUME MainInv, Main
  PROVE  JoinedBeforeDestroyed' /\ ExitClosesAll' /\ Process'
<1>1. CASE MainStop
  BY <1>1 DEF MainStop, StopFlag, config, MainInv, JoinedBeforeDestroyed, ExitClosesAll, Process
<1>2. CASE MainInStop
  <2>1. mpc' = mpc /\ async' = async /\ ~async /\ mpc # "exited" /\ Stop("owner")
    BY <1>2 DEF MainInStop, mainVars, Alive, Stop, StopAcceptor, StopTake, StopClose,
                StopIos, StopIosWith, StopJoin, config, MainInv, Process
  <2>2. loop' = loop
    BY <2>1 DEF Stop, StopAcceptor, StopTake, StopClose, StopIos, StopIosWith, StopJoin
  <2>3. JoinedBeforeDestroyed' /\ ExitClosesAll'
    BY <2>1, <2>2 DEF MainInv, JoinedBeforeDestroyed, ExitClosesAll
  <2>4. stpc'["owner"] \in {"close", "ios", "join", "done"} /\ mpc = "dtor" =>
          \A i \in Ids : conns'[i] # "managed"
    <3>1. CASE StopTake("owner")
      BY <3>1 DEF StopTake
    <3>2. CASE StopClose("owner")
      BY <3>2 DEF StopClose, At, MainInv, Process
    <3>3. CASE StopAcceptor("owner")
      BY <3>3 DEF StopAcceptor, At, MainInv, CInv, CycleTypeOK, Stoppers
    <3>4. CASE StopIos("owner") \/ StopJoin("owner")
      BY <3>4 DEF StopIos, StopIosWith, StopJoin, At, conn, MainInv, Process
    <3>5. QED
      BY <2>1, <3>1, <3>2, <3>3, <3>4 DEF Stop
  <2>5. QED
    BY <2>1, <2>3, <2>4 DEF MainInv, Process
<1>3. CASE MainJoin
  <2>1. /\ mpc = "stopping" /\ mpc' = "dtor" /\ loop' = "returned"
        /\ async' = async /\ stpc'["owner"] = "acceptor"
    BY <1>3 DEF MainJoin, StopFlag, At, config, MainInv, CInv, CycleTypeOK, Stoppers
  <2>2. QED
    BY <2>1 DEF MainInv, JoinedBeforeDestroyed, ExitClosesAll, Process
<1>4. CASE MainExit
  <2>1. /\ mpc = "dtor" /\ mpc' = "exited" /\ stpc["owner"] = "done"
        /\ loop' = loop /\ conns' = conns /\ async' = async
    BY <1>4 DEF MainExit, cycleVars, config, conn
  <2>2. loop = "returned" /\ stpc["signal"] # "close"
    BY <2>1 DEF MainInv, CInv, Cycle, JoinedBeforeDestroyed
  <2>3. \A i \in Ids : conns[i] \in {"none", "closed"}
    BY <2>1, <2>2 DEF MainInv, CInv, Cycle, CycleTypeOK, Process, Stoppers
  <2>4. QED
    BY <2>1, <2>2, <2>3 DEF MainInv, JoinedBeforeDestroyed, ExitClosesAll, Process
<1>5. QED
  BY <1>1, <1>2, <1>3, <1>4 DEF Main

\* Every step of the process keeps its invariant.
LEMMA ProcessStep == MainInv /\ [MainNext]_allVars => MainInv'
<1> SUFFICES ASSUME MainInv, [MainNext]_allVars PROVE MainInv'
  OBVIOUS
<1>1. CInv'
  BY MainTakesCycleSteps, CycleStep DEF MainInv, allVars
<1>2. JoinedBeforeDestroyed' /\ ExitClosesAll' /\ Process'
  <2>1. CASE UNCHANGED allVars
    BY <2>1 DEF allVars, mainVars, cycleVars, config, conn, MainInv, JoinedBeforeDestroyed,
                ExitClosesAll, Process
  <2>2. CASE Embedded(CycleNext)
    BY <2>2 DEF Embedded, mainVars, MainInv, JoinedBeforeDestroyed, ExitClosesAll, Process
  <2>3. QED
    BY <2>1, <2>2, ServerStep, PressStep, MainStep DEF MainNext
<1>3. QED
  BY <1>1, <1>2 DEF MainInv

\* The invariant holds whenever Ctrl+C comes and however often.
THEOREM ProcessInvariant == MainSpec => []MainInv
BY InitMainInv, ProcessStep, PTL DEF MainSpec

\* While nobody stops the server an accept is pending, and the ids given out are
\* exactly those below next_id_.
THEOREM MainAccepts == MainSpec => [](CycleTypeOK /\ AcceptPending)
<1>1. MainInv => CycleTypeOK /\ AcceptPending
  BY DEF MainInv, CInv
<1>2. QED
  BY <1>1, ProcessInvariant, PTL

\* The loop of server_thread ends only if somebody has called stop().
THEOREM MainStaysUp == MainSpec => []StaysUp
<1>1. MainInv => StaysUp
  BY DEF MainInv, CInv
<1>2. QED
  BY <1>1, ProcessInvariant, PTL

\* The server is destroyed only after server_thread has left its loop.
THEOREM MainJoins == MainSpec => []JoinedBeforeDestroyed
<1>1. MainInv => JoinedBeforeDestroyed
  BY DEF MainInv
<1>2. QED
  BY <1>1, ProcessInvariant, PTL

\* At exit every connection is closed, however many were accepted during stop().
THEOREM MainClosesAll == MainSpec => []ExitClosesAll
<1>1. MainInv => ExitClosesAll
  BY DEF MainInv
<1>2. QED
  BY <1>1, ProcessInvariant, PTL

\* The server process uses the event loop as any other program may: what is proved of
\* MessageCycle by itself holds in it.
THEOREM MainUsesCycle == MainSpec => CycleSpec
<1>1. MainInit => CycleInit
  BY DEF MainInit
<1>2. [MainNext]_allVars => [CycleNext]_cycleVars
  BY MainTakesCycleSteps DEF allVars, cycleVars
<1>3. QED
  BY <1>1, <1>2, PTL DEF MainSpec, CycleSpec
===============================================================================
