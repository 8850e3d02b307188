---------------------------- MODULE RpcClientProofs ----------------------------
(***************************************************************************)
(* The safety properties of RpcClient, for any number of calls, of         *)
(* connections and any width of the sequence number.                       *)
(***************************************************************************)
EXTENDS RpcClient, SequenceTheorems, TLAPS

\* The prover of a step that names none; SMT is named where Zenon does not do.
USE ZenonT(60), SMTT(60)

Frames == [call : Calls, doomed : BOOLEAN]
Responses == [seq : SeqIds, call : Calls]

\* The calls that have registered their promise.
Out == {n \in Calls : cpc[n] \notin {"new", "drawn"}}

\* An entry of pending_ is the promise of a call that drew that number and still
\* waits; a call that did not register yet has no future.
Entries ==
  /\ \A s \in SeqIds : pending_[s] # NoCall =>
       seq[pending_[s]] = s /\ outcome[pending_[s]] = "waiting"
  /\ \A n \in Calls : outcome[n] = "none" <=> n \notin Out

\* How far call m is behind the next one to come.
Behind(m) == nCalls + 1 - m

\* The numbers count backwards, modulo SeqMod, from next_seq_id_; so two calls that
\* drew the same one are at least SeqMod apart.
Numbers ==
  /\ \A m \in Calls : m <= nCalls /\ Behind(m) < SeqMod =>
       seq[m] = IF Behind(m) <= next_seq_id_ THEN next_seq_id_ - Behind(m)
                ELSE next_seq_id_ + SeqMod - Behind(m)
  /\ \A m, n \in Calls : m < n /\ n <= nCalls /\ seq[m] = seq[n] => m + SeqMod <= n

\* Only calls that drew a number are being made, only those that registered are
\* queued, written, processed and answered, and an answer carries the number of
\* its call.
Drawn ==
  /\ \A n \in Calls : n > nCalls => cpc[n] = "new"
  /\ \A i \in DOMAIN write_queue_ : write_queue_[i] \in Out
  /\ \A w \in inflight : w.call \in Out
  /\ delivered \subseteq Out
  /\ \A i \in DOMAIN inbound :
       inbound[i].call \in Out /\ inbound[i].seq = seq[inbound[i].call]

\* What concerns the promises.
Promised ==
  SettledOnce /\ NoOrphan /\ ResponseMatches /\ RejectSettlesAll /\ Entries /\ Numbers

\* The inductive invariant.
IInv == TypeOK /\ SingleWriter /\ WireFifo /\ Promised /\ Drawn

-------------------------------------------------------------------------------
\* A client just constructed satisfies the invariant.
LEMMA InitIInv == Init => IInv
<1> SUFFICES ASSUME Init PROVE IInv
  OBVIOUS
<1>1. TypeOK
  <2>1. next_seq_id_ \in SeqIds /\ nCalls \in 0 .. MaxCalls /\ nConnects \in 0 .. MaxConnects
    BY ClientAssumption, SMTT(60) DEF Init, SeqIds
  <2>2. seq \in [Calls -> SeqIds]
    BY ClientAssumption, SMTT(60) DEF Init, SeqIds
  <2>3. /\ write_queue_ \in Seq(Calls) /\ order \in Seq(Calls) /\ started \in Seq(Calls)
        /\ inbound \in Seq([seq : SeqIds, call : Calls])
    BY SMTT(60) DEF Init
  <2>4. QED
    BY <2>1, <2>2, <2>3 DEF Init, TypeOK
<1>2. SingleWriter /\ WireFifo
  BY SMTT(60) DEF Init, SingleWriter, WireFifo, Writers
<1>3. Out = {} /\ nCalls = 0 /\ \A n \in Calls : n > nCalls
  <2>1. Out = {}
    BY DEF Init, Out
  <2>2. QED
    BY <2>1, ClientAssumption, SMTT(60) DEF Init, Calls
<1>4. Promised
  <2>1. SettledOnce /\ NoOrphan /\ ResponseMatches /\ RejectSettlesAll
    BY DEF Init, SettledOnce, NoOrphan, ResponseMatches, RejectSettlesAll
  <2>2. Entries
    BY <1>3 DEF Init, Entries
  <2>3. Numbers
    BY <1>3, ClientAssumption, SMTT(60) DEF Numbers, Calls
  <2>4. QED
    BY <2>1, <2>2, <2>3 DEF Promised
<1>5. Drawn
  BY SMTT(60) DEF Init, Drawn
<1>6. QED
  BY <1>1, <1>2, <1>4, <1>5 DEF IInv

-------------------------------------------------------------------------------
(* Sequence numbers *)

\* The next number, without the remainder.
LEMMA NextSeqValue ==
  ASSUME NEW s \in SeqIds
  PROVE  NextSeq(s) = (IF s + 1 = SeqMod THEN 0 ELSE s + 1) /\ NextSeq(s) \in SeqIds
BY ClientAssumption, SMTT(60) DEF NextSeq, SeqIds

-------------------------------------------------------------------------------
(* The write chain *)

\* Queueing behind two sequences is queueing behind the second.
LEMMA AppendConcat ==
  ASSUME NEW s \in Seq(Calls), NEW t \in Seq(Calls), NEW e \in Calls
  PROVE  Append(s \o t, e) = s \o Append(t, e)
BY SMTT(60)

\* Taking the head of the second to the end of the first keeps them as one.
LEMMA MoveHead ==
  ASSUME NEW s \in Seq(Calls), NEW q \in Seq(Calls), q # <<>>
  PROVE  /\ Append(s, Head(q)) \o Tail(q) = s \o q
         /\ \A i \in DOMAIN Tail(q) : i + 1 \in DOMAIN q /\ Tail(q)[i] = q[i + 1]
BY SMTT(60)

\* A step that leaves the write chain and the set of writers alone.
LEMMA ChainKept ==
  ASSUME SingleWriter, WireFifo, Writers' = Writers, UNCHANGED queue
  PROVE  SingleWriter' /\ WireFifo'
BY DEF SingleWriter, WireFifo, queue

\* What do_write does to the chain, on whichever thread: it ends the chain or hands
\* the oldest frame to the socket.
LEMMA DoWriteEffect ==
  ASSUME TypeOK, WireFifo, Drawn, Out' = Out, order' = order,
         NEW ws \in SUBSET Frames, \A w \in ws : w.call \in Out, DoWrite(ws)
  PROVE  /\ write_queue_' \in Seq(Calls) /\ started' \in Seq(Calls)
         /\ writing_' \in BOOLEAN
         /\ inflight' \in SUBSET Frames
         /\ WireFifo'
         /\ \A i \in DOMAIN write_queue_' : write_queue_'[i] \in Out'
         /\ \A w \in inflight' : w.call \in Out'
         /\ \/ write_queue_' = <<>> /\ writing_' = FALSE /\ inflight' = ws
            \/ /\ write_queue_ # <<>> /\ writing_' = writing_
               /\ \E w \in Frames : inflight' = ws \cup {w}
<1>1. CASE write_queue_ = <<>>
  BY <1>1 DEF DoWrite, TypeOK, WireFifo, Drawn
<1>2. CASE write_queue_ # <<>>
  <2> DEFINE f == Head(write_queue_)
             w == [call |-> f, doomed |-> sock = "closed"]
  <2>0. /\ write_queue_' = Tail(write_queue_)
        /\ started' = Append(started, f)
        /\ inflight' = ws \cup {w}
        /\ writing_' = writing_
    BY <1>2 DEF DoWrite
  <2>1. f \in Calls /\ Tail(write_queue_) \in Seq(Calls) /\ f \in Out
    BY <1>2, HeadTailProperties, SMTT(60) DEF TypeOK, Drawn
  <2>2. w \in Frames /\ w.call \in Out
    BY <2>1 DEF Frames
  <2>3. started' \in Seq(Calls) /\ write_queue_' \in Seq(Calls)
    BY <2>0, <2>1, SMTT(60) DEF TypeOK
  <2>4. started' \o write_queue_' = started \o write_queue_
    BY <1>2, <2>0, MoveHead DEF TypeOK
  <2>5. \A i \in DOMAIN write_queue_' : write_queue_'[i] \in Out'
    BY <1>2, <2>0, MoveHead, SMTT(60) DEF TypeOK, Drawn
  <2>6. QED
    BY <1>2, <2>0, <2>2, <2>3, <2>4, <2>5 DEF TypeOK, WireFifo
<1>3. QED
  BY <1>1, <1>2
-------------------------------------------------------------------------------
(* Promises *)

\* A step that gives no call that has no result yet the result "ok", and leaves the
\* results there are alone.
LEMMA ResponsesKept ==
  ASSUME ResponseMatches, UNCHANGED answer,
         \A n \in Calls : outcome'[n] = "ok" => outcome[n] = "ok",
         \A n \in Calls : outcome[n] \notin {"none", "waiting"} => outcome'[n] = outcome[n]
  PROVE  ResponseMatches'
<1>1. \A n \in Calls : Astray(n) \subseteq Astray(n)'
  BY DEF Astray
<1>2. QED
  BY <1>1 DEF ResponseMatches

\* A step that neither draws a number nor settles a promise.
LEMMA PromisedKept ==
  ASSUME Promised, UNCHANGED <<next_seq_id_, pending_, nCalls, seq, futures, late>>,
         Out' = Out, reader' = "stopped" => reader = "stopped"
  PROVE  Promised'
<1>1. ResponseMatches'
  BY ResponsesKept DEF Promised, futures
<1>2. SettledOnce' /\ NoOrphan' /\ RejectSettlesAll' /\ Entries' /\ Numbers'
  BY DEF Promised, SettledOnce, NoOrphan, RejectSettlesAll, Entries, Numbers, Behind, futures
<1>3. QED
  BY <1>1, <1>2 DEF Promised

\* Settling the promises in ns, all of which are in pending_, and taking exactly
\* these out of it.
Settling(ns, how) ==
  /\ how \in {"ok", "closed", "broken"}
  /\ \A n \in Calls : n \in ns => outcome[n] = "waiting"
  /\ Settle(ns, how)
  /\ pending_' \in [SeqIds -> Calls \cup {NoCall}]
  /\ \A s \in SeqIds : pending_'[s] = IF pending_[s] \in ns THEN NoCall ELSE pending_[s]
  /\ UNCHANGED <<next_seq_id_, callers, late>>

\* Settling calls together with the removal of their entries settles none of them
\* twice and leaves no future without its entry.
LEMMA SettlingKeeps ==
  ASSUME TypeOK, Promised, NEW ns, NEW how, Settling(ns, how)
  PROVE  /\ outcome' \in [Calls -> {"none", "waiting", "ok", "closed", "broken"}]
         /\ settles' \in [Calls -> Nat]
         /\ SettledOnce' /\ NoOrphan' /\ Entries' /\ Numbers'
         /\ \A n \in Calls : outcome'[n] = IF n \in ns THEN how ELSE outcome[n]
         /\ \A n \in Calls : outcome[n] \notin {"none", "waiting"} => outcome'[n] = outcome[n]
<1> USE DEF Settling, callers
<1>0. SettledOnce /\ NoOrphan /\ Entries /\ Numbers
  BY DEF Promised
<1>a. /\ \A n \in Calls : settles[n] \in Nat /\ seq[n] \in SeqIds
      /\ \A s \in SeqIds : pending_[s] \in Calls \cup {NoCall}
  BY DEF TypeOK
<1>1. /\ \A n \in Calls : outcome'[n] = IF n \in ns THEN how ELSE outcome[n]
      /\ \A n \in Calls : settles'[n] = IF n \in ns THEN settles[n] + 1 ELSE settles[n]
  BY DEF Settle
<1>2. /\ outcome' \in [Calls -> {"none", "waiting", "ok", "closed", "broken"}]
      /\ settles' \in [Calls -> Nat]
  BY SMTT(60) DEF Settle, TypeOK
<1>3. SettledOnce'
  <2> SUFFICES ASSUME NEW n \in Calls
               PROVE  settles'[n] = IF outcome'[n] \in {"none", "waiting"} THEN 0 ELSE 1
    BY DEF SettledOnce
  <2>1. CASE n \in ns
    BY <1>0, <1>1, <2>1, SMTT(60) DEF SettledOnce
  <2>2. CASE n \notin ns
    BY <1>0, <1>1, <2>2 DEF SettledOnce
  <2>3. QED
    BY <2>1, <2>2
<1>4. NoOrphan'
  <2> SUFFICES ASSUME NEW n \in Calls, outcome'[n] = "waiting"
               PROVE  pending_'[seq[n]] = n
    BY DEF NoOrphan
  <2>1. n \notin ns /\ outcome[n] = "waiting"
    BY <1>1
  <2>2. pending_[seq[n]] = n
    BY <1>0, <2>1 DEF NoOrphan
  <2>3. QED
    BY <1>a, <2>1, <2>2
<1>5. Entries'
  <2>1. Out' = Out
    BY DEF Out
  <2>2. ASSUME NEW s \in SeqIds, pending_'[s] # NoCall
        PROVE  seq'[pending_'[s]] = s /\ outcome'[pending_'[s]] = "waiting"
    BY <1>0, <1>a, <1>1, <2>2 DEF Entries
  <2>3. \A n \in Calls : outcome'[n] = "none" <=> outcome[n] = "none"
    BY <1>1
  <2>4. QED
    BY <1>0, <2>1, <2>2, <2>3 DEF Entries
<1>6. Numbers'
  BY <1>0, <1>a DEF Numbers, Behind
<1>7. \A n \in Calls : outcome[n] \notin {"none", "waiting"} => outcome'[n] = outcome[n]
  BY <1>1
<1>8. QED
  BY <1>1, <1>2, <1>3, <1>4, <1>5, <1>6, <1>7

\* The promise under number s, if any, is settled and leaves pending_.
LEMMA SettleEntry ==
  ASSUME TypeOK, Promised, NEW s \in SeqIds, NEW how \in {"ok", "closed", "broken"},
         Settle({pending_[s]}, how),
         pending_' = [r \in SeqIds |-> IF r = s THEN NoCall ELSE pending_[r]],
         UNCHANGED <<next_seq_id_, callers, late>>
  PROVE  Settling({pending_[s]}, how)
<1>1. \A n \in Calls : n = pending_[s] => outcome[n] = "waiting"
  BY SMTT(60) DEF Promised, Entries, Calls, NoCall
<1>2. \A r \in SeqIds : pending_[r] = pending_[s] => r = s \/ pending_[r] = NoCall
  BY SMTT(60) DEF Promised, Entries
<1>3. pending_' \in [SeqIds -> Calls \cup {NoCall}]
  BY DEF TypeOK
<1>4. \A r \in SeqIds :
        pending_'[r] = IF pending_[r] \in {pending_[s]} THEN NoCall ELSE pending_[r]
  BY <1>2
<1>5. QED
  BY <1>1, <1>3, <1>4 DEF Settling

\* All promises are settled and pending_ is empty.
LEMMA SettleAll ==
  ASSUME TypeOK, Promised, NEW how \in {"ok", "closed", "broken"}, Settle(Registered, how),
         pending_' = [s \in SeqIds |-> NoCall],
         UNCHANGED <<next_seq_id_, callers, late>>
  PROVE  Settling(Registered, how) /\ \A n \in Calls : outcome'[n] # "waiting"
<1>1. \A n \in Calls : n \in Registered <=> outcome[n] = "waiting"
  <2>1. \A n \in Calls : n # NoCall /\ seq[n] \in SeqIds
    BY ClientAssumption, SMTT(60) DEF TypeOK, Calls, NoCall
  <2>2. ASSUME NEW n \in Calls, n \in Registered PROVE outcome[n] = "waiting"
    BY <2>1, <2>2, SMTT(60) DEF Promised, Entries, Registered
  <2>3. ASSUME NEW n \in Calls, outcome[n] = "waiting" PROVE n \in Registered
    BY <2>1, <2>3 DEF Promised, NoOrphan, Registered
  <2>4. QED
    BY <2>2, <2>3
<1>2. pending_' \in [SeqIds -> Calls \cup {NoCall}]
  OBVIOUS
<1>3. \A s \in SeqIds : pending_'[s] = IF pending_[s] \in Registered THEN NoCall ELSE pending_[s]
  BY DEF Registered
<1>4. \A n \in Calls : outcome'[n] # "waiting"
  BY <1>1 DEF Settle, TypeOK
<1>5. QED
  BY <1>1, <1>2, <1>3, <1>4 DEF Settling
-------------------------------------------------------------------------------
(* One lemma per group of actions *)

\* Calls, and how many of them drew a number, are numbers.
LEMMA CallNumbers ==
  ASSUME TypeOK
  PROVE  nCalls \in Nat /\ \A n \in Calls : n \in Nat
<1>1. nCalls \in 0 .. MaxCalls
  BY DEF TypeOK
<1>2. QED
  BY <1>1, ClientAssumption, SMTT(60) DEF Calls

\* The types, variable group by variable group.
CallTypes ==
  /\ next_seq_id_ \in SeqIds
  /\ nCalls \in 0 .. MaxCalls /\ seq \in [Calls -> SeqIds]
  /\ cpc \in [Calls -> {"new", "drawn", "registered", "writer", "returned"}]
  /\ late \in SUBSET Calls

FutureTypes ==
  /\ pending_ \in [SeqIds -> Calls \cup {NoCall}]
  /\ outcome \in [Calls -> {"none", "waiting", "ok", "closed", "broken"}]
  /\ answer \in [Calls -> Calls \cup {NoCall}]
  /\ settles \in [Calls -> Nat]

QueueTypes ==
  /\ write_queue_ \in Seq(Calls) /\ writing_ \in BOOLEAN
  /\ inflight \in SUBSET [call : Calls, doomed : BOOLEAN]
  /\ order \in Seq(Calls) /\ started \in Seq(Calls)

OwnerTypes ==
  /\ connected_ \in BOOLEAN /\ io \in {"none", "running", "exited", "joined"}
  /\ iosStopped \in BOOLEAN /\ sock \in {"closed", "connecting", "open"}
  /\ stage \in {"none", "resolving", "connecting", "done"}
  /\ connFut \in [1 .. MaxConnects -> {"none", "waiting", "ok", "failed", "broken"}]
  /\ nConnects \in 0 .. MaxConnects
  /\ disc \in {"none", "closing", "done"} /\ alive \in BOOLEAN

PeerTypes ==
  /\ reader \in {"off", "header", "body", "doomed", "stopped"}
  /\ delivered \in SUBSET Calls
  /\ inbound \in Seq([seq : SeqIds, call : Calls])

\* The groups have their types exactly when the client has its.
LEMMA TypeGroups ==
  /\ TypeOK <=> CallTypes /\ FutureTypes /\ QueueTypes /\ OwnerTypes /\ PeerTypes
  /\ TypeOK' <=> CallTypes' /\ FutureTypes' /\ QueueTypes' /\ OwnerTypes' /\ PeerTypes'
<1>1. TypeOK <=> CallTypes /\ FutureTypes /\ QueueTypes /\ OwnerTypes /\ PeerTypes
  BY DEF TypeOK, CallTypes, FutureTypes, QueueTypes, OwnerTypes, PeerTypes
<1>2. TypeOK' <=> CallTypes' /\ FutureTypes' /\ QueueTypes' /\ OwnerTypes' /\ PeerTypes'
  BY DEF TypeOK, CallTypes, FutureTypes, QueueTypes, OwnerTypes, PeerTypes
<1>3. QED
  BY <1>1, <1>2

\* A group that a step leaves alone keeps its types.
LEMMA GroupKept ==
  /\ CallTypes /\ UNCHANGED <<next_seq_id_, callers, late>> => CallTypes'
  /\ FutureTypes /\ UNCHANGED <<pending_, futures>> => FutureTypes'
  /\ QueueTypes /\ UNCHANGED queue => QueueTypes'
  /\ OwnerTypes /\ UNCHANGED owner => OwnerTypes'
  /\ PeerTypes /\ UNCHANGED <<reader, peer>> => PeerTypes'
<1>1. CallTypes /\ UNCHANGED <<next_seq_id_, callers, late>> => CallTypes'
  BY DEF CallTypes, callers
<1>2. FutureTypes /\ UNCHANGED <<pending_, futures>> => FutureTypes'
  BY DEF FutureTypes, futures
<1>3. QueueTypes /\ UNCHANGED queue => QueueTypes'
  BY DEF QueueTypes, queue
<1>4. OwnerTypes /\ UNCHANGED owner => OwnerTypes'
  BY DEF OwnerTypes, owner
<1>5. PeerTypes /\ UNCHANGED <<reader, peer>> => PeerTypes'
  BY DEF PeerTypes, peer
<1>6. QED
  BY <1>1, <1>2, <1>3, <1>4, <1>5

\* Members of Out are calls that drew a number.
LEMMA OutDrew ==
  ASSUME TypeOK, Drawn, NEW n \in Out
  PROVE  n \in Calls /\ n \in Nat /\ nCalls \in Nat /\ n <= nCalls
<1>1. n \in Calls /\ ~(n > nCalls)
  BY DEF Out, Drawn
<1>2. n \in Nat /\ nCalls \in Nat
  BY <1>1, CallNumbers
<1>3. QED
  BY <1>1, <1>2, SMTT(60)

\* Drawing a number keeps the invariant: the new number is SeqMod draws away from
\* the last call that drew it.
LEMMA DrawStep ==
  ASSUME IInv, Draw
  PROVE  IInv'
<1> DEFINE n == nCalls + 1
           s == next_seq_id_
<1>0. /\ n \in Calls /\ s \in SeqIds /\ nCalls \in Nat /\ n \in 0 .. MaxCalls /\ n > nCalls
      /\ \A m \in Calls : seq[m] \in SeqIds
  BY ClientAssumption, SMTT(60) DEF IInv, TypeOK, Draw, Calls
<1>1. /\ nCalls' = n
      /\ next_seq_id_' = NextSeq(s)
      /\ cpc' = [cpc EXCEPT ![n] = "drawn"]
      /\ seq' = [seq EXCEPT ![n] = s]
      /\ UNCHANGED <<pending_, futures, reader, queue, owner, peer, late>>
  BY DEF Draw
<1>2. /\ \A m \in Calls : seq'[m] = IF m = n THEN s ELSE seq[m]
      /\ \A m \in Calls : cpc'[m] = IF m = n THEN "drawn" ELSE cpc[m]
  BY <1>0, <1>1 DEF IInv, TypeOK
<1>3. cpc[n] = "new" /\ n \notin Out
  BY <1>0 DEF IInv, Drawn, Out
<1>4. Out' = Out /\ \A m \in Out : m \in Calls /\ seq'[m] = seq[m]
  BY <1>2, <1>3 DEF Out
<1>5. TypeOK'
  <2>1. next_seq_id_' \in SeqIds
    BY <1>0, <1>1, NextSeqValue
  <2>2. CallTypes'
    BY <1>0, <1>1, <2>1 DEF IInv, TypeOK, CallTypes
  <2>3. QED
    BY <1>1, <2>2, TypeGroups, GroupKept DEF IInv
<1>6. SingleWriter' /\ WireFifo'
  <2>1. Writers' = Writers
    BY <1>2, <1>3 DEF Writers
  <2>2. QED
    BY <1>1, <2>1, ChainKept DEF IInv
<1>7. SettledOnce' /\ RejectSettlesAll'
  BY <1>1 DEF IInv, Promised, SettledOnce, RejectSettlesAll, futures
<1>8. ResponseMatches'
  BY <1>1, ResponsesKept DEF IInv, Promised, futures
<1>9. NoOrphan'
  <2> SUFFICES ASSUME NEW m \in Calls, outcome[m] = "waiting" PROVE pending_[seq'[m]] = m
    BY <1>1 DEF NoOrphan, futures
  <2>1. m \in Out /\ pending_[seq[m]] = m
    BY DEF IInv, Promised, Entries, NoOrphan
  <2>2. QED
    BY <1>4, <2>1
<1>10. Entries'
  <2>1. ASSUME NEW r \in SeqIds, pending_[r] # NoCall
        PROVE  seq'[pending_[r]] = r /\ outcome[pending_[r]] = "waiting"
    <3>1. pending_[r] \in Calls
      BY <2>1 DEF IInv, TypeOK
    <3>2. seq[pending_[r]] = r /\ outcome[pending_[r]] = "waiting"
      BY <2>1 DEF IInv, Promised, Entries
    <3>3. pending_[r] \in Out
      BY <3>1, <3>2 DEF IInv, Promised, Entries
    <3>4. QED
      BY <1>4, <3>2, <3>3
  <2>2. QED
    BY <1>1, <1>4, <2>1 DEF IInv, Promised, Entries, futures
<1>11. Numbers'
  <2>0. /\ Numbers
        /\ s \in 0 .. SeqMod - 1 /\ SeqMod \in Nat \ {0}
        /\ next_seq_id_' = IF s + 1 = SeqMod THEN 0 ELSE s + 1
        /\ \A m \in Calls : m \in Nat /\ m >= 1
    <3>1. Numbers /\ next_seq_id_' = IF s + 1 = SeqMod THEN 0 ELSE s + 1
      BY <1>0, <1>1, NextSeqValue DEF IInv, Promised
    <3>2. QED
      BY <1>0, <3>1, ClientAssumption, SMTT(60) DEF SeqIds, Calls
  <2>1. ASSUME NEW m \in Calls, m <= nCalls', Behind(m)' < SeqMod
        PROVE  seq'[m] = IF Behind(m)' <= next_seq_id_' THEN next_seq_id_' - Behind(m)'
                         ELSE next_seq_id_' + SeqMod - Behind(m)'
    <3>1. CASE m = n
      BY <1>0, <1>1, <1>2, <2>0, <2>1, <3>1, SMTT(60) DEF Behind
    <3>2. CASE m # n
      <4>1. m <= nCalls /\ Behind(m) < SeqMod /\ seq'[m] = seq[m]
        BY <1>0, <1>1, <1>2, <2>0, <2>1, <3>2, SMTT(60) DEF Behind
      <4>2. seq[m] = IF Behind(m) <= s THEN s - Behind(m) ELSE s + SeqMod - Behind(m)
        BY <2>0, <4>1 DEF Numbers
      <4>3. QED
        BY <1>0, <1>1, <2>0, <2>1, <4>1, <4>2, SMTT(60) DEF Behind
    <3>3. QED
      BY <3>1, <3>2
  <2>2. ASSUME NEW m \in Calls, NEW k \in Calls, m < k, k <= nCalls', seq'[m] = seq'[k]
        PROVE  m + SeqMod <= k
    <3>1. CASE k = n
      <4>1. m <= nCalls /\ seq[m] = s
        BY <1>0, <1>2, <2>0, <2>2, <3>1, SMTT(60)
      <4>2. CASE Behind(m) < SeqMod
        <5>1. seq[m] = IF Behind(m) <= s THEN s - Behind(m) ELSE s + SeqMod - Behind(m)
          BY <2>0, <4>1, <4>2 DEF Numbers
        <5>2. Behind(m) >= 1
          BY <1>0, <2>0, <4>1, SMTT(60) DEF Behind
        <5>3. QED
          BY <1>0, <2>0, <4>1, <4>2, <5>1, <5>2, SMTT(60) DEF Behind
      <4>3. CASE ~(Behind(m) < SeqMod)
        BY <1>0, <2>0, <3>1, <4>3, SMTT(60) DEF Behind
      <4>4. QED
        BY <4>2, <4>3
    <3>2. CASE k # n
      <4>1. k <= nCalls /\ m # n /\ seq[m] = seq[k]
        BY <1>0, <1>1, <1>2, <2>0, <2>2, <3>2, SMTT(60)
      <4>2. QED
        BY <2>0, <2>2, <4>1 DEF Numbers
    <3>3. QED
      BY <3>1, <3>2
  <2>3. QED
    BY <2>1, <2>2 DEF Numbers
<1>12. Drawn'
  <2>1. ASSUME NEW m \in Calls, m > nCalls' PROVE cpc'[m] = "new"
    <3>1. m > nCalls /\ m # n
      BY <1>0, <1>1, <2>1, SMTT(60) DEF Calls
    <3>2. QED
      BY <1>2, <3>1 DEF IInv, Drawn
  <2>2. QED
    BY <1>1, <1>4, <2>1 DEF IInv, Drawn, queue, peer
<1>13. QED
  BY <1>5, <1>6, <1>7, <1>8, <1>9, <1>10, <1>11, <1>12 DEF IInv, Promised

\* The first critical section of call() keeps it: the promise that may still be
\* pending under the number is displaced.
LEMMA RegisterStep ==
  ASSUME IInv, NEW n \in Calls, Register(n)
  PROVE  IInv'
<1> DEFINE s == seq[n]
           displaced == {pending_[s]} \ {NoCall}
<1>0. /\ s \in SeqIds
      /\ \A m \in Calls : seq[m] \in SeqIds /\ settles[m] \in Nat
      /\ \A r \in SeqIds : pending_[r] \in Calls \cup {NoCall}
  BY DEF IInv, TypeOK
<1>1. /\ cpc[n] = "drawn"
      /\ cpc' = [cpc EXCEPT ![n] = "registered"]
      /\ pending_' = [pending_ EXCEPT ![s] = n]
      /\ outcome' = [m \in Calls |-> IF m = n THEN "waiting"
                                     ELSE IF m \in displaced THEN "broken" ELSE outcome[m]]
      /\ settles' = [m \in Calls |-> IF m \in displaced THEN settles[m] + 1 ELSE settles[m]]
      /\ late' = IF reader = "stopped" THEN late \cup {n} ELSE late
      /\ UNCHANGED <<next_seq_id_, nCalls, seq, answer, reader, queue, owner, peer>>
  BY DEF Register, RegisterUnder
<1>2. /\ \A r \in SeqIds : pending_'[r] = IF r = s THEN n ELSE pending_[r]
      /\ \A m \in Calls : cpc'[m] = IF m = n THEN "registered" ELSE cpc[m]
      /\ \A m \in Calls : outcome'[m] = IF m = n THEN "waiting"
                                          ELSE IF m \in displaced THEN "broken" ELSE outcome[m]
  BY <1>0, <1>1 DEF IInv, TypeOK
<1>3. outcome[n] = "none" /\ n # NoCall
  <2>1. outcome[n] = "none"
    BY <1>1 DEF IInv, Promised, Entries, Out
  <2>2. QED
    BY <2>1, ClientAssumption, SMTT(60) DEF Calls, NoCall
<1>4. \A m \in displaced : m \in Calls /\ m # n /\ seq[m] = s /\ outcome[m] = "waiting"
  BY <1>0, <1>3 DEF IInv, Promised, Entries
<1>5. TypeOK'
  <2>1. /\ pending_' \in [SeqIds -> Calls \cup {NoCall}]
        /\ cpc' \in [Calls -> {"new", "drawn", "registered", "writer", "returned"}]
        /\ late' \in SUBSET Calls
    BY <1>0, <1>1 DEF IInv, TypeOK
  <2>2. /\ outcome' \in [Calls -> {"none", "waiting", "ok", "closed", "broken"}]
        /\ settles' \in [Calls -> Nat]
    BY <1>0, <1>1, SMTT(60) DEF IInv, TypeOK
  <2>3. CallTypes' /\ FutureTypes'
    BY <1>1, <2>1, <2>2 DEF IInv, TypeOK, CallTypes, FutureTypes
  <2>4. QED
    BY <1>1, <2>3, TypeGroups, GroupKept DEF IInv
<1>6. SingleWriter' /\ WireFifo'
  <2>1. Writers' = Writers
    BY <1>1, <1>2 DEF Writers
  <2>2. QED
    BY <1>1, <2>1, ChainKept DEF IInv
<1>7. SettledOnce'
  BY <1>0, <1>1, <1>3, <1>4, SMTT(60) DEF IInv, Promised, SettledOnce
<1>8. NoOrphan'
  <2> SUFFICES ASSUME NEW m \in Calls, outcome'[m] = "waiting"
               PROVE  pending_'[seq[m]] = m
    BY <1>1 DEF NoOrphan
  <2>1. CASE m = n
    BY <1>0, <1>2, <2>1
  <2>2. CASE m # n
    <3>1. m \notin displaced /\ outcome[m] = "waiting"
      BY <1>2, <2>2
    <3>2. pending_[seq[m]] = m /\ seq[m] \in SeqIds
      BY <1>0, <3>1 DEF IInv, Promised, NoOrphan
    <3>3. seq[m] # s
      BY <3>1, <3>2, ClientAssumption, SMTT(60) DEF Calls, NoCall
    <3>4. QED
      BY <1>2, <3>2, <3>3
  <2>3. QED
    BY <2>1, <2>2
<1>9. ResponseMatches'
  <2>1. \A m \in Calls : outcome'[m] = "ok" => outcome[m] = "ok"
    BY <1>2
  <2>2. \A m \in Calls : outcome[m] \notin {"none", "waiting"} => outcome'[m] = outcome[m]
    BY <1>2, <1>3, <1>4
  <2>3. QED
    BY <1>1, <2>1, <2>2, ResponsesKept DEF IInv, Promised
<1>10. RejectSettlesAll' /\ Numbers'
  <2>1. RejectSettlesAll'
    BY <1>1, <1>2 DEF IInv, Promised, RejectSettlesAll
  <2>2. Numbers'
    BY <1>1 DEF IInv, Promised, Numbers, Behind
  <2>3. QED
    BY <2>1, <2>2
<1>11. Out' = Out \cup {n}
  BY <1>2 DEF Out
<1>12. Entries'
  <2>1. ASSUME NEW m \in Calls PROVE outcome'[m] = "none" <=> m \notin Out'
    <3>1. outcome[m] = "none" <=> m \notin Out
      BY DEF IInv, Promised, Entries
    <3>2. m \in displaced => outcome[m] = "waiting"
      BY <1>4
    <3>3. QED
      BY <1>2, <1>11, <3>1, <3>2
  <2>2. ASSUME NEW r \in SeqIds, pending_'[r] # NoCall
        PROVE  seq[pending_'[r]] = r /\ outcome'[pending_'[r]] = "waiting"
    <3>1. CASE r = s
      BY <1>0, <1>2, <3>1
    <3>2. CASE r # s
      <4>1. pending_'[r] = pending_[r] /\ pending_[r] \in Calls
        BY <1>0, <1>2, <2>2, <3>2
      <4>2. seq[pending_[r]] = r /\ outcome[pending_[r]] = "waiting"
        BY <2>2, <4>1 DEF IInv, Promised, Entries
      <4>3. pending_[r] # n /\ pending_[r] \notin displaced
        BY <1>3, <1>4, <3>2, <4>2
      <4>4. QED
        BY <1>2, <4>1, <4>2, <4>3
    <3>3. QED
      BY <3>1, <3>2
  <2>3. QED
    BY <1>1, <2>1, <2>2 DEF Entries
<1>13. Drawn'
  <2>1. ASSUME NEW m \in Calls, m > nCalls PROVE cpc'[m] = "new"
    <3>1. cpc[m] = "new"
      BY <2>1 DEF IInv, Drawn
    <3>2. QED
      BY <1>1, <1>2, <3>1
  <2>2. QED
    BY <1>1, <1>11, <2>1 DEF IInv, Drawn, queue, peer
<1>14. QED
  BY <1>5, <1>6, <1>7, <1>8, <1>9, <1>10, <1>12, <1>13 DEF IInv, Promised

\* The rest of call() keeps it: the frame is queued, and written if nobody writes.
LEMMA CallerStep ==
  ASSUME IInv, NEW n \in Calls, EnqueueWrite(n) \/ CallerWrite(n)
  PROVE  IInv'
<1>1. CASE EnqueueWrite(n)
  <2>0. /\ cpc[n] = "registered"
        /\ write_queue_' = Append(write_queue_, n)
        /\ order' = Append(order, n)
        /\ writing_' = TRUE
        /\ cpc' = [cpc EXCEPT ![n] = IF ~writing_ THEN "writer" ELSE "returned"]
        /\ UNCHANGED <<next_seq_id_, pending_, nCalls, seq, futures, reader, inflight,
                       started, owner, peer, late>>
    BY <1>1 DEF EnqueueWrite, EnqueueWith
  <2>a. Out' = Out /\ n \in Out
    BY <2>0 DEF Out, IInv, TypeOK
  <2>1. Promised'
    BY <2>0, <2>a, PromisedKept DEF IInv
  <2>2. TypeOK'
    <3>1. write_queue_' \in Seq(Calls) /\ order' \in Seq(Calls)
      BY <2>0, SMTT(60) DEF IInv, TypeOK
    <3>2. cpc' \in [Calls -> {"new", "drawn", "registered", "writer", "returned"}]
      BY <2>0 DEF IInv, TypeOK
    <3>3. CallTypes'
      BY <2>0, <3>2, TypeGroups DEF IInv, CallTypes
    <3>4. QueueTypes'
      BY <2>0, <3>1, TypeGroups DEF IInv, QueueTypes
    <3>5. QED
      BY <2>0, <3>3, <3>4, TypeGroups, GroupKept DEF IInv
  <2>3. WireFifo'
    <3>1. started \in Seq(Calls) /\ write_queue_ \in Seq(Calls)
      BY DEF IInv, TypeOK
    <3>2. QED
      BY <2>0, <3>1, AppendConcat DEF IInv, WireFifo
  <2>4. Writers' = IF writing_ THEN Writers ELSE Writers \cup {n}
    BY <2>0 DEF Writers, IInv, TypeOK
  <2>5. SingleWriter'
    BY <2>0, <2>4 DEF IInv, SingleWriter, TypeOK
  <2>7. Drawn'
    <3>1. \A i \in DOMAIN write_queue_' : write_queue_'[i] \in Out
      <4>1. write_queue_ \in Seq(Calls) /\ \A i \in DOMAIN write_queue_ : write_queue_[i] \in Out
        BY DEF IInv, TypeOK, Drawn
      <4>2. write_queue_' = Append(write_queue_, n)
        BY <2>0
      <4>3. QED
        BY <2>a, <4>1, <4>2, SMTT(60)
    <3>2. ASSUME NEW m \in Calls, m > nCalls PROVE cpc'[m] = "new"
      <4>1. cpc[m] = "new" /\ m # n
        BY <2>0, <3>2 DEF IInv, Drawn
      <4>2. QED
        BY <2>0, <4>1 DEF IInv, TypeOK
    <3>3. QED
      BY <2>0, <2>a, <3>1, <3>2 DEF IInv, Drawn, peer
  <2>8. QED
    BY <2>1, <2>2, <2>3, <2>5, <2>7 DEF IInv
<1>2. CASE CallerWrite(n)
  <2>0. /\ cpc[n] = "writer" /\ DoWrite(inflight)
        /\ cpc' = [cpc EXCEPT ![n] = "returned"]
        /\ UNCHANGED <<next_seq_id_, pending_, nCalls, seq, futures, reader, order,
                       owner, peer, late>>
    BY <1>2 DEF CallerWrite
  <2>a. Out' = Out /\ n \in Out
    BY <2>0 DEF Out, IInv, TypeOK
  <2>1. Promised'
    BY <2>0, <2>a, PromisedKept DEF IInv
  <2>2. n \in Writers /\ inflight = {} /\ Writers = {n} /\ writing_
    BY <2>0 DEF IInv, SingleWriter, Writers
  <2>3. /\ write_queue_' \in Seq(Calls) /\ started' \in Seq(Calls)
        /\ writing_' \in BOOLEAN
        /\ inflight' \in SUBSET Frames
        /\ WireFifo'
        /\ \A i \in DOMAIN write_queue_' : write_queue_'[i] \in Out'
        /\ \A w \in inflight' : w.call \in Out'
        /\ \/ write_queue_' = <<>> /\ writing_' = FALSE /\ inflight' = {}
           \/ /\ write_queue_ # <<>> /\ writing_' = writing_
              /\ \E w \in Frames : inflight' = {} \cup {w}
    BY <2>0, <2>a, <2>2, DoWriteEffect DEF IInv, TypeOK
  <2>4. TypeOK'
    <3>1. cpc' \in [Calls -> {"new", "drawn", "registered", "writer", "returned"}]
      BY <2>0 DEF IInv, TypeOK
    <3>2. /\ write_queue_' \in Seq(Calls) /\ started' \in Seq(Calls)
          /\ writing_' \in BOOLEAN
          /\ inflight' \in SUBSET [call : Calls, doomed : BOOLEAN]
      BY <2>3 DEF Frames
    <3>3. CallTypes'
      BY <2>0, <3>1, TypeGroups DEF IInv, CallTypes
    <3>4. QueueTypes'
      BY <2>0, <3>2, TypeGroups DEF IInv, QueueTypes
    <3>5. QED
      BY <2>0, <3>3, <3>4, TypeGroups, GroupKept DEF IInv
  <2>5. Writers' = {}
    BY <2>0, <2>2 DEF Writers, IInv, TypeOK
  <2>6. SingleWriter'
    BY <2>2, <2>3, <2>5 DEF SingleWriter
  <2>7. Drawn'
    <3>1. ASSUME NEW m \in Calls, m > nCalls PROVE cpc'[m] = "new"
      <4>1. cpc[m] = "new" /\ m # n
        BY <2>0, <3>1 DEF IInv, Drawn
      <4>2. QED
        BY <2>0, <4>1 DEF IInv, TypeOK
    <3>2. QED
      BY <2>0, <2>a, <2>3, <3>1 DEF IInv, Drawn, peer
  <2>8. QED
    BY <2>1, <2>3, <2>4, <2>6, <2>7 DEF IInv
<1>3. QED
  BY <1>1, <1>2

\* The rest of a completed write, good or bad: do_write with nothing outstanding.
LEMMA WriteContinues ==
  ASSUME IInv, NEW w \in inflight, DoWrite(inflight \ {w}),
         UNCHANGED <<nCalls, cpc, seq, order, inbound>>,
         delivered' \in {delivered, delivered \cup {w.call}}
  PROVE  /\ write_queue_' \in Seq(Calls) /\ started' \in Seq(Calls)
         /\ writing_' \in BOOLEAN /\ inflight' \in SUBSET Frames
         /\ delivered' \in SUBSET Calls
         /\ SingleWriter' /\ WireFifo' /\ Drawn'
<1>0. inflight = {w} /\ Writers = {} /\ writing_ /\ w \in Frames /\ w.call \in Out
  BY SMTT(60) DEF IInv, SingleWriter, TypeOK, Frames, Drawn
<1>1. inflight \ {w} = {} /\ DoWrite({})
  <2>1. inflight \ {w} = {}
    BY <1>0
  <2>2. QED
    BY <2>1
<1>2. /\ write_queue_' \in Seq(Calls) /\ started' \in Seq(Calls)
      /\ writing_' \in BOOLEAN
      /\ inflight' \in SUBSET Frames
      /\ WireFifo'
      /\ \A i \in DOMAIN write_queue_' : write_queue_'[i] \in Out'
      /\ \A v \in inflight' : v.call \in Out'
      /\ \/ write_queue_' = <<>> /\ writing_' = FALSE /\ inflight' = {}
         \/ /\ write_queue_ # <<>> /\ writing_' = writing_
            /\ \E v \in Frames : inflight' = {} \cup {v}
  BY <1>1, DoWriteEffect DEF IInv, Out
<1>3. SingleWriter'
  <2>1. Writers' = {}
    BY <1>0 DEF Writers
  <2>2. QED
    BY <1>0, <1>2, <2>1 DEF SingleWriter
<1>4. Out' = Out /\ delivered' \in SUBSET Calls /\ delivered' \subseteq Out
  BY <1>0 DEF IInv, TypeOK, Drawn, Out
<1>5. Drawn'
  BY <1>2, <1>4 DEF IInv, Drawn
<1>6. QED
  BY <1>2, <1>3, <1>4, <1>5

\* The completion of a write keeps it; a failed one settles its own call only.
LEMMA WriteStep ==
  ASSUME IInv, NEW w \in inflight, WriteOk(w) \/ WriteFails(w)
  PROVE  IInv'
<1>1. CASE WriteOk(w)
  <2>0. /\ delivered' = delivered \cup {w.call} /\ DoWrite(inflight \ {w})
        /\ UNCHANGED <<next_seq_id_, pending_, callers, futures, reader, order, owner,
                       inbound, late>>
    BY <1>1 DEF WriteOk
  <2>1. Promised'
    BY <2>0, PromisedKept DEF IInv, callers, Out
  <2>2. /\ write_queue_' \in Seq(Calls) /\ started' \in Seq(Calls)
        /\ writing_' \in BOOLEAN /\ inflight' \in SUBSET Frames
        /\ delivered' \in SUBSET Calls
        /\ SingleWriter' /\ WireFifo' /\ Drawn'
    BY <2>0, WriteContinues DEF callers
  <2>3. TypeOK'
    <3>1. QueueTypes' /\ PeerTypes'
      BY <2>0, <2>2, TypeGroups DEF IInv, Frames, QueueTypes, PeerTypes
    <3>2. QED
      BY <2>0, <3>1, TypeGroups, GroupKept DEF IInv
  <2>4. QED
    BY <2>1, <2>2, <2>3 DEF IInv
<1>2. CASE WriteFails(w)
  <2> DEFINE s == seq[w.call]
  <2>0. /\ MayHaveArrived(w) /\ DoWrite(inflight \ {w})
        /\ Settle({pending_[s]}, "closed")
        /\ pending_' = [pending_ EXCEPT ![s] = NoCall]
        /\ UNCHANGED <<next_seq_id_, callers, answer, reader, order, owner, inbound, late>>
    BY <1>2 DEF WriteFails, WriteFailsWith
  <2>1. s \in SeqIds
    BY DEF IInv, TypeOK
  <2>2. /\ write_queue_' \in Seq(Calls) /\ started' \in Seq(Calls)
        /\ writing_' \in BOOLEAN /\ inflight' \in SUBSET Frames
        /\ delivered' \in SUBSET Calls
        /\ SingleWriter' /\ WireFifo' /\ Drawn'
    BY <2>0, WriteContinues DEF callers, MayHaveArrived
  <2>3. Settling({pending_[s]}, "closed")
    <3>1. pending_' = [r \in SeqIds |-> IF r = s THEN NoCall ELSE pending_[r]]
      BY <2>0 DEF IInv, TypeOK
    <3>2. QED
      BY <2>0, <2>1, <3>1, SettleEntry DEF IInv, callers
  <2>4. /\ outcome' \in [Calls -> {"none", "waiting", "ok", "closed", "broken"}]
        /\ settles' \in [Calls -> Nat]
        /\ SettledOnce' /\ NoOrphan' /\ Entries' /\ Numbers'
        /\ \A n \in Calls : outcome'[n] = IF n \in {pending_[s]} THEN "closed" ELSE outcome[n]
        /\ \A n \in Calls : outcome[n] \notin {"none", "waiting"} => outcome'[n] = outcome[n]
    BY <2>3, SettlingKeeps, SMTT(60) DEF IInv
  <2>5. ResponseMatches' /\ RejectSettlesAll'
    <3>1. ResponseMatches'
      BY <2>0, <2>4, ResponsesKept DEF IInv, Promised
    <3>2. RejectSettlesAll'
      BY <2>0, <2>4 DEF IInv, Promised, RejectSettlesAll
    <3>3. QED
      BY <3>1, <3>2
  <2>6. TypeOK'
    <3>1. pending_' \in [SeqIds -> Calls \cup {NoCall}]
      BY <2>3 DEF Settling
    <3>2. /\ outcome' \in [Calls -> {"none", "waiting", "ok", "closed", "broken"}]
          /\ settles' \in [Calls -> Nat]
      BY <2>4
    <3>3. /\ write_queue_' \in Seq(Calls) /\ started' \in Seq(Calls)
          /\ writing_' \in BOOLEAN /\ delivered' \in SUBSET Calls
          /\ inflight' \in SUBSET [call : Calls, doomed : BOOLEAN]
      BY <2>2 DEF Frames
    <3>4. UNCHANGED <<next_seq_id_, callers, answer, reader, order, owner, inbound, late>>
      BY <2>0
    <3>5. FutureTypes'
      BY <3>1, <3>2, <3>4, TypeGroups DEF IInv, FutureTypes
    <3>6. QueueTypes' /\ PeerTypes'
      BY <3>3, <3>4, TypeGroups DEF IInv, QueueTypes, PeerTypes
    <3>7. QED
      BY <3>4, <3>5, <3>6, TypeGroups, GroupKept DEF IInv
  <2>7. QED
    BY <2>2, <2>4, <2>5, <2>6 DEF IInv, Promised
<1>3. QED
  BY <1>1, <1>2

\* The read loop keeps it: a response settles the call that its number finds, an
\* error settles all.
LEMMA ReadStep ==
  ASSUME IInv, Read \/ ReadFails
  PROVE  IInv'
<1>1. CASE ReadHeader
  <2>0. /\ reader' \in {"body", "doomed"}
        /\ UNCHANGED <<next_seq_id_, pending_, callers, futures, queue, owner, peer, late>>
    BY <1>1 DEF ReadHeader, Arm
  <2>1. TypeOK'
    <3>1. PeerTypes'
      BY <2>0, TypeGroups DEF IInv, PeerTypes, peer
    <3>2. QED
      BY <2>0, <3>1, TypeGroups, GroupKept DEF IInv
  <2>2. SingleWriter' /\ WireFifo'
    BY <2>0, ChainKept DEF IInv, Writers, callers
  <2>3. Promised' /\ Drawn'
    BY <2>0, PromisedKept DEF IInv, Drawn, Out, callers, queue, peer
  <2>4. QED
    BY <2>1, <2>2, <2>3 DEF IInv
<1>2. CASE ReadBody
  <2> DEFINE s == Head(inbound).seq
             m == Head(inbound).call
             n == pending_[s]
  <2>0. /\ inbound # <<>>
        /\ Settle({n}, "ok")
        /\ answer' = [k \in Calls |-> IF k = n THEN m ELSE answer[k]]
        /\ pending_' = [r \in SeqIds |-> IF r \in {s} THEN NoCall ELSE pending_[r]]
        /\ inbound' = Tail(inbound)
        /\ reader' \in {"header", "doomed"}
        /\ UNCHANGED <<next_seq_id_, callers, queue, owner, delivered, late>>
    BY <1>2 DEF ReadBody, ReadBodyWith, Arm
  <2>a. inbound \in Seq(Responses)
    BY DEF IInv, TypeOK, Responses
  <2>1. /\ Head(inbound) = inbound[1] /\ 1 \in DOMAIN inbound /\ Head(inbound) \in Responses
        /\ Tail(inbound) \in Seq(Responses)
        /\ \A i \in DOMAIN Tail(inbound) : i + 1 \in DOMAIN inbound
                                           /\ Tail(inbound)[i] = inbound[i + 1]
    BY <2>0, <2>a, SMTT(60)
  <2>2. s \in SeqIds /\ m \in Calls /\ m \in Out /\ s = seq[m]
    BY <2>1 DEF IInv, Drawn, Responses
  <2>3. Settling({n}, "ok")
    BY <2>0, <2>2, SettleEntry DEF IInv, callers
  <2>4. /\ outcome' \in [Calls -> {"none", "waiting", "ok", "closed", "broken"}]
        /\ settles' \in [Calls -> Nat]
        /\ SettledOnce' /\ NoOrphan' /\ Entries' /\ Numbers'
        /\ \A k \in Calls : outcome'[k] = IF k \in {n} THEN "ok" ELSE outcome[k]
        /\ \A k \in Calls : outcome[k] \notin {"none", "waiting"} => outcome'[k] = outcome[k]
    BY <2>3, SettlingKeeps, SMTT(60) DEF IInv
  <2>5. n \in Calls => m \in {n} \cup Astray(n)
    <3> SUFFICES ASSUME n \in Calls, m # n PROVE m \in Astray(n)
      OBVIOUS
    <3>1. n # NoCall /\ seq[n] = s /\ outcome[n] = "waiting"
      BY <2>2, ClientAssumption, SMTT(60) DEF IInv, Promised, Entries, Calls, NoCall
    <3>2. outcome[m] # "waiting"
      BY <2>2 DEF IInv, Promised, NoOrphan
    <3>3. n \in Out /\ outcome[m] # "none"
      BY <2>2, <3>1 DEF IInv, Promised, Entries
    <3>4. m \in Nat /\ n \in Nat /\ m <= nCalls /\ n <= nCalls
      BY <2>2, <3>3, OutDrew DEF IInv
    <3>5. m < n => m + SeqMod <= n
      BY <2>2, <3>1, <3>4 DEF IInv, Promised, Numbers
    <3>6. n < m => n + SeqMod <= m
      BY <2>2, <3>1, <3>4 DEF IInv, Promised, Numbers
    <3>7. m < n \/ n < m
      BY <3>4, SMTT(60)
    <3>8. QED
      BY <2>2, <3>2, <3>3, <3>5, <3>6, <3>7 DEF Astray
  <2>6. ResponseMatches'
    <3>1. \A k \in Calls : Astray(k) \subseteq Astray(k)'
      BY <2>4 DEF Astray
    <3>2. ASSUME NEW k \in Calls, outcome'[k] = "ok" PROVE answer'[k] \in {k} \cup Astray(k)'
      <4>1. CASE k = n
        BY <2>0, <2>5, <3>1, <4>1
      <4>2. CASE k # n
        <5>1. outcome[k] = "ok" /\ answer'[k] = answer[k]
          BY <2>0, <2>4, <3>2, <4>2
        <5>2. QED
          BY <3>1, <5>1 DEF IInv, Promised, ResponseMatches
      <4>3. QED
        BY <4>1, <4>2
    <3>3. QED
      BY <3>2 DEF ResponseMatches
  <2>7. RejectSettlesAll'
    BY <2>0 DEF RejectSettlesAll
  <2>8. TypeOK'
    <3>1. pending_' \in [SeqIds -> Calls \cup {NoCall}]
      BY <2>3 DEF Settling
    <3>2. answer' \in [Calls -> Calls \cup {NoCall}]
      BY <2>0, <2>2 DEF IInv, TypeOK
    <3>3. inbound' \in Seq([seq : SeqIds, call : Calls])
      BY <2>0, <2>1 DEF Responses
    <3>4. /\ outcome' \in [Calls -> {"none", "waiting", "ok", "closed", "broken"}]
          /\ settles' \in [Calls -> Nat]
      BY <2>4
    <3>5. /\ reader' \in {"off", "header", "body", "doomed", "stopped"}
          /\ UNCHANGED <<next_seq_id_, callers, queue, owner, delivered, late>>
      BY <2>0
    <3>6. FutureTypes' /\ PeerTypes'
      BY <3>1, <3>2, <3>3, <3>4, <3>5, TypeGroups DEF IInv, FutureTypes, PeerTypes
    <3>7. QED
      BY <3>5, <3>6, TypeGroups, GroupKept DEF IInv
  <2>9. SingleWriter' /\ WireFifo'
    BY <2>0, ChainKept DEF IInv, Writers, callers
  <2>10. Drawn'
    BY <2>0, <2>1 DEF IInv, Drawn, Out, callers, queue
  <2>11. QED
    BY <2>4, <2>6, <2>7, <2>8, <2>9, <2>10 DEF IInv, Promised
<1>3. CASE ReadFails
  <2>0. /\ Settle(Registered, "closed")
        /\ pending_' = [s \in SeqIds |-> NoCall]
        /\ UNCHANGED <<answer, next_seq_id_, callers, queue, owner, peer, late>>
        /\ reader' = "stopped"
    BY <1>3 DEF ReadFails, RejectAll
  <2>1. Settling(Registered, "closed") /\ \A n \in Calls : outcome'[n] # "waiting"
    BY <2>0, SettleAll DEF IInv, callers
  <2>2. /\ outcome' \in [Calls -> {"none", "waiting", "ok", "closed", "broken"}]
        /\ settles' \in [Calls -> Nat]
        /\ SettledOnce' /\ NoOrphan' /\ Entries' /\ Numbers'
        /\ \A n \in Calls : outcome'[n] = IF n \in Registered THEN "closed" ELSE outcome[n]
        /\ \A n \in Calls : outcome[n] \notin {"none", "waiting"} => outcome'[n] = outcome[n]
    BY <2>1, SettlingKeeps DEF IInv
  <2>3. ResponseMatches' /\ RejectSettlesAll'
    <3>1. ResponseMatches'
      BY <2>0, <2>2, ResponsesKept DEF IInv, Promised
    <3>2. RejectSettlesAll'
      BY <2>1 DEF RejectSettlesAll
    <3>3. QED
      BY <3>1, <3>2
  <2>4. TypeOK'
    <3>1. FutureTypes' /\ PeerTypes'
      BY <2>0, <2>1, <2>2, TypeGroups DEF IInv, FutureTypes, PeerTypes, Settling, peer
    <3>2. QED
      BY <2>0, <3>1, TypeGroups, GroupKept DEF IInv
  <2>5. SingleWriter' /\ WireFifo'
    BY <2>0, ChainKept DEF IInv, Writers, callers
  <2>6. Drawn'
    BY <2>0 DEF IInv, Drawn, Out, callers, queue, peer
  <2>7. QED
    BY <2>2, <2>3, <2>4, <2>5, <2>6 DEF IInv, Promised
<1>4. QED
  BY <1>1, <1>2, <1>3 DEF Read

\* The peer answers a request it has received, with the number it carried.
LEMMA AnswerStep ==
  ASSUME IInv, NEW n \in Calls, Answer(n)
  PROVE  IInv'
<1> DEFINE a == [seq |-> seq[n], call |-> n]
<1>0. /\ n \in delivered
      /\ delivered' = delivered \ {n}
      /\ inbound' = Append(inbound, a)
      /\ UNCHANGED <<next_seq_id_, pending_, callers, futures, reader, queue, owner, late>>
  BY DEF Answer
<1>1. inbound \in Seq(Responses) /\ a \in Responses
  BY DEF IInv, TypeOK, Responses
<1>2. inbound' \in Seq(Responses)
  BY <1>0, <1>1, SMTT(60)
<1>3. TypeOK'
  <2>1. inbound' \in Seq([seq : SeqIds, call : Calls]) /\ delivered' \in SUBSET Calls
    BY <1>0, <1>2 DEF IInv, TypeOK, Responses
  <2>2. PeerTypes'
    BY <1>0, <2>1, TypeGroups DEF IInv, PeerTypes
  <2>3. QED
    BY <1>0, <2>2, TypeGroups, GroupKept DEF IInv
<1>4. SingleWriter' /\ WireFifo'
  BY <1>0, ChainKept DEF IInv, Writers, callers
<1>5. Promised'
  BY <1>0, PromisedKept DEF IInv, callers, Out
<1>6. Drawn'
  <2>1. n \in Out /\ Out' = Out
    BY <1>0 DEF IInv, Drawn, Out, callers
  <2>2. ASSUME NEW i \in DOMAIN inbound'
        PROVE  inbound'[i].call \in Out /\ inbound'[i].seq = seq[inbound'[i].call]
    <3>1. (i \in DOMAIN inbound /\ inbound'[i] = inbound[i]) \/ inbound'[i] = a
      BY <1>0, <1>1, SMTT(60)
    <3>2. QED
      BY <2>1, <3>1, SMTT(60) DEF IInv, Drawn
  <2>3. QED
    BY <1>0, <2>1, <2>2 DEF IInv, Drawn, callers, queue
<1>7. QED
  BY <1>3, <1>4, <1>5, <1>6 DEF IInv

\* A step of the owner, or of connecting, that leaves the write chain alone.
LEMMA OwnerKeeps ==
  ASSUME IInv, UNCHANGED <<next_seq_id_, pending_, callers, futures, queue, peer, late>>,
         reader' = "stopped" => reader = "stopped"
  PROVE  SingleWriter' /\ WireFifo' /\ Promised' /\ Drawn'
<1>1. SingleWriter' /\ WireFifo'
  BY ChainKept DEF IInv, Writers, callers
<1>2. Promised'
  BY PromisedKept DEF IInv, callers, Out
<1>3. Drawn'
  BY DEF IInv, Drawn, Out, callers, queue, peer
<1>4. QED
  BY <1>1, <1>2, <1>3

\* The same, dooming the writes outstanding.
LEMMA DoomKeeps ==
  ASSUME IInv, inflight' = Doom(inflight),
         UNCHANGED <<next_seq_id_, pending_, callers, futures, reader, write_queue_, writing_,
                     order, started, peer, late>>
  PROVE  inflight' \in SUBSET Frames /\ SingleWriter' /\ WireFifo' /\ Promised' /\ Drawn'
<1>1. \A w \in inflight : w \in Frames
  BY DEF IInv, TypeOK, Frames
<1>2. \A w \in Frames : [w EXCEPT !.doomed = TRUE] \in Frames
                        /\ [w EXCEPT !.doomed = TRUE].call = w.call
  BY DEF Frames
<1>3. \A v \in inflight' : \E w \in inflight : v = [w EXCEPT !.doomed = TRUE]
  BY DEF Doom
<1>4. ASSUME NEW v \in inflight' PROVE v \in Frames /\ v.call \in Out
  <2>1. PICK w \in inflight : v = [w EXCEPT !.doomed = TRUE]
    BY <1>3
  <2>2. w \in Frames /\ w.call \in Out
    BY <1>1 DEF IInv, Drawn
  <2>3. QED
    BY <1>2, <2>1, <2>2
<1>5. inflight' = {} <=> inflight = {}
  BY DEF Doom
<1>6. ASSUME NEW u \in inflight', NEW v \in inflight' PROVE u = v
  <2>1. PICK w \in inflight : u = [w EXCEPT !.doomed = TRUE]
    BY <1>3
  <2>2. PICK x \in inflight : v = [x EXCEPT !.doomed = TRUE]
    BY <1>3
  <2>3. w = x
    BY DEF IInv, SingleWriter
  <2>4. QED
    BY <2>1, <2>2, <2>3
<1>7. SingleWriter' /\ WireFifo'
  <2>1. Writers' = Writers
    BY DEF Writers, callers
  <2>2. QED
    BY <1>5, <1>6, <2>1 DEF IInv, SingleWriter, WireFifo
<1>8. Promised'
  BY PromisedKept DEF IInv, callers, Out
<1>9. Drawn'
  BY <1>4 DEF IInv, Drawn, Out, callers, peer
<1>10. QED
  BY <1>4, <1>7, <1>8, <1>9

ConnectStates == {"none", "waiting", "ok", "failed", "broken"}

\* connect() and its handlers satisfy or make the latest future.
LEMMA ConnFutTyped ==
  ASSUME IInv, NEW k \in Nat, NEW st \in ConnectStates,
         connFut' = [connFut EXCEPT ![k] = st]
  PROVE  connFut' \in [1 .. MaxConnects -> {"none", "waiting", "ok", "failed", "broken"}]
BY DEF IInv, TypeOK, ConnectStates

\* connect() and its completion handlers leave calls alone.
LEMMA ConnectStep ==
  ASSUME IInv, Connect \/ Connecting
  PROVE  IInv'
<1>0. nConnects \in Nat /\ nConnects + 1 \in Nat
  BY ClientAssumption, SMTT(60) DEF IInv, TypeOK
<1>1. CASE Connect
  <2>1. connFut' \in [1 .. MaxConnects -> {"none", "waiting", "ok", "failed", "broken"}]
    BY <1>0, <1>1, ConnFutTyped DEF Connect, ConnectStates
  <2>2. nConnects' \in 0 .. MaxConnects
    BY <1>1, ClientAssumption, SMTT(60) DEF IInv, TypeOK, Connect
  <2>3. TypeOK'
    <3>1. OwnerTypes'
      BY <1>1, <2>1, <2>2, TypeGroups DEF IInv, Connect, OwnerTypes
    <3>2. QED
      BY <1>1, <3>1, TypeGroups, GroupKept DEF IInv, Connect
  <2>4. QED
    BY <1>1, <2>3, OwnerKeeps DEF IInv, Connect
<1>2. CASE ResolveFails
  <2>1. connFut' \in [1 .. MaxConnects -> {"none", "waiting", "ok", "failed", "broken"}]
    BY <1>0, <1>2, ConnFutTyped DEF ResolveFails, ConnectStates
  <2>2. TypeOK'
    <3>1. OwnerTypes'
      BY <1>2, <2>1, TypeGroups DEF IInv, ResolveFails, OwnerTypes
    <3>2. QED
      BY <1>2, <3>1, TypeGroups, GroupKept DEF IInv, ResolveFails
  <2>3. QED
    BY <1>2, <2>2, OwnerKeeps DEF IInv, ResolveFails
<1>3. CASE ResolveOk
  <2>1. TypeOK'
    <3>1. OwnerTypes'
      BY <1>3, TypeGroups DEF IInv, ResolveOk, OwnerTypes
    <3>2. QED
      BY <1>3, <3>1, TypeGroups, GroupKept DEF IInv, ResolveOk
  <2>2. QED
    BY <1>3, <2>1, OwnerKeeps DEF IInv, ResolveOk
<1>4. CASE ConnectFails
  <2>1. connFut' \in [1 .. MaxConnects -> {"none", "waiting", "ok", "failed", "broken"}]
    BY <1>0, <1>4, ConnFutTyped DEF ConnectFails, ConnectStates
  <2>2. inflight' \in SUBSET Frames /\ SingleWriter' /\ WireFifo' /\ Promised' /\ Drawn'
    BY <1>4, DoomKeeps DEF ConnectFails
  <2>3. TypeOK'
    <3>1. OwnerTypes'
      BY <1>4, <2>1, TypeGroups DEF IInv, ConnectFails, OwnerTypes
    <3>2. QueueTypes'
      BY <1>4, <2>2, TypeGroups DEF IInv, ConnectFails, Frames, QueueTypes
    <3>3. QED
      BY <1>4, <3>1, <3>2, TypeGroups, GroupKept DEF IInv, ConnectFails
  <2>4. QED
    BY <2>2, <2>3 DEF IInv
<1>5. CASE ConnectOk
  <2>1. connFut' \in [1 .. MaxConnects -> {"none", "waiting", "ok", "failed", "broken"}]
    BY <1>0, <1>5, ConnFutTyped DEF ConnectOk, ConnectStates
  <2>2. reader' \in {"header", "doomed"} /\ sock' \in {"closed", "connecting", "open"}
    BY <1>5 DEF IInv, TypeOK, ConnectOk
  <2>3. TypeOK'
    <3>1. OwnerTypes' /\ PeerTypes'
      BY <1>5, <2>1, <2>2, TypeGroups DEF IInv, ConnectOk, OwnerTypes, PeerTypes, peer
    <3>2. QED
      BY <1>5, <3>1, TypeGroups, GroupKept DEF IInv, ConnectOk
  <2>4. QED
    BY <1>5, <2>2, <2>3, OwnerKeeps DEF IInv, ConnectOk
<1>6. QED
  BY <1>1, <1>2, <1>3, <1>4, <1>5 DEF Connecting

\* disconnect() and the destructor keep it; the destructor breaks the promises left.
LEMMA DisconnectStep ==
  ASSUME IInv, DisconnectClose \/ DisconnectStop \/ Destroy
  PROVE  IInv'
<1>1. CASE DisconnectClose
  <2>1. CASE sock = "connecting"
    <3>1. inflight' \in SUBSET Frames /\ SingleWriter' /\ WireFifo' /\ Promised' /\ Drawn'
      BY <1>1, <2>1, DoomKeeps DEF DisconnectClose
    <3>2. TypeOK'
      <4>1. OwnerTypes'
        BY <1>1, TypeGroups DEF IInv, DisconnectClose, OwnerTypes
      <4>2. QueueTypes'
        BY <1>1, <2>1, <3>1, TypeGroups DEF IInv, DisconnectClose, Frames, QueueTypes
      <4>3. QED
        BY <1>1, <4>1, <4>2, TypeGroups, GroupKept DEF IInv, DisconnectClose
    <3>3. QED
      BY <3>1, <3>2 DEF IInv
  <2>2. CASE sock # "connecting"
    <3>1. UNCHANGED queue
      BY <1>1, <2>2 DEF DisconnectClose, queue
    <3>2. TypeOK'
      <4>1. OwnerTypes'
        BY <1>1, TypeGroups DEF IInv, DisconnectClose, OwnerTypes
      <4>2. QED
        BY <1>1, <3>1, <4>1, TypeGroups, GroupKept DEF IInv, DisconnectClose
    <3>3. QED
      BY <1>1, <3>1, <3>2, OwnerKeeps DEF IInv, DisconnectClose
  <2>3. QED
    BY <2>1, <2>2
<1>2. CASE DisconnectStop
  <2>1. TypeOK'
    <3>1. OwnerTypes'
      BY <1>2, TypeGroups DEF IInv, DisconnectStop, OwnerTypes
    <3>2. QED
      BY <1>2, <3>1, TypeGroups, GroupKept DEF IInv, DisconnectStop
  <2>2. QED
    BY <1>2, <2>1, OwnerKeeps DEF IInv, DisconnectStop
<1>3. CASE Destroy
  <2>0. /\ Settle(Registered, "broken")
        /\ pending_' = [s \in SeqIds |-> NoCall]
        /\ alive' = FALSE
        /\ connFut' = [k \in DOMAIN connFut |-> IF connFut[k] = "waiting" THEN "broken"
                                                ELSE connFut[k]]
        /\ UNCHANGED <<next_seq_id_, callers, answer, reader, queue, connected_, io,
                       iosStopped, sock, stage, nConnects, disc, peer, late>>
    BY <1>3 DEF Destroy
  <2>1. Settling(Registered, "broken")
    BY <2>0, SettleAll DEF IInv, callers
  <2>2. /\ outcome' \in [Calls -> {"none", "waiting", "ok", "closed", "broken"}]
        /\ settles' \in [Calls -> Nat]
        /\ SettledOnce' /\ NoOrphan' /\ Entries' /\ Numbers'
        /\ \A n \in Calls : outcome'[n] = IF n \in Registered THEN "broken" ELSE outcome[n]
        /\ \A n \in Calls : outcome[n] \notin {"none", "waiting"} => outcome'[n] = outcome[n]
    BY <2>1, SettlingKeeps DEF IInv
  <2>3. ResponseMatches' /\ RejectSettlesAll'
    <3>1. ResponseMatches'
      BY <2>0, <2>2, ResponsesKept DEF IInv, Promised
    <3>2. RejectSettlesAll'
      BY <2>0, <2>2 DEF IInv, Promised, RejectSettlesAll
    <3>3. QED
      BY <3>1, <3>2
  <2>4. connFut' \in [1 .. MaxConnects -> {"none", "waiting", "ok", "failed", "broken"}]
    BY <2>0 DEF IInv, TypeOK
  <2>5. TypeOK'
    <3>1. /\ outcome' \in [Calls -> {"none", "waiting", "ok", "closed", "broken"}]
          /\ settles' \in [Calls -> Nat]
          /\ pending_' \in [SeqIds -> Calls \cup {NoCall}]
      BY <2>1, <2>2 DEF Settling
    <3>2. /\ alive' \in BOOLEAN
          /\ UNCHANGED <<next_seq_id_, callers, answer, reader, queue, connected_, io,
                         iosStopped, sock, stage, nConnects, disc, peer, late>>
      BY <2>0
    <3>3. FutureTypes' /\ OwnerTypes'
      BY <2>4, <3>1, <3>2, TypeGroups DEF IInv, FutureTypes, OwnerTypes
    <3>4. QED
      BY <3>2, <3>3, TypeGroups, GroupKept DEF IInv
  <2>6. SingleWriter' /\ WireFifo'
    BY <2>0, ChainKept DEF IInv, Writers, callers
  <2>7. Drawn'
    BY <2>0 DEF IInv, Drawn, Out, callers, queue, peer
  <2>8. QED
    BY <2>2, <2>3, <2>5, <2>6, <2>7 DEF IInv, Promised
<1>4. QED
  BY <1>1, <1>2, <1>3

\* A step that changes nothing keeps it.
LEMMA StutterStep ==
  ASSUME IInv, UNCHANGED vars
  PROVE  IInv'
<1>1. UNCHANGED <<next_seq_id_, pending_, callers, futures, reader, queue, owner, peer, late>>
  BY DEF vars
<1>2. TypeOK'
  BY <1>1, TypeGroups, GroupKept DEF IInv
<1>3. QED
  BY <1>1, <1>2, OwnerKeeps DEF IInv

-------------------------------------------------------------------------------
(* The theorems *)

\* The inductive invariant holds of every client.
THEOREM ClientInvariant == Spec => []IInv
<1>1. IInv /\ [Next]_vars => IInv'
  <2> SUFFICES ASSUME IInv, [Next]_vars PROVE IInv'
    OBVIOUS
  <2>1. CASE Draw
    BY <2>1, DrawStep
  <2>2. CASE \E n \in Calls : Caller(n) \/ Answer(n)
    BY <2>2, RegisterStep, CallerStep, AnswerStep DEF Caller
  <2>3. CASE WriteDone
    BY <2>3, WriteStep DEF WriteDone
  <2>4. CASE Read \/ ReadFails
    BY <2>4, ReadStep
  <2>5. CASE Connect \/ Connecting
    BY <2>5, ConnectStep
  <2>6. CASE DisconnectClose \/ DisconnectStop \/ Destroy
    BY <2>6, DisconnectStep
  <2>7. CASE UNCHANGED vars
    BY <2>7, StutterStep
  <2>8. QED
    BY <2>1, <2>2, <2>3, <2>4, <2>5, <2>6, <2>7 DEF Next
<1>2. QED
  BY InitIInv, <1>1, PTL DEF Spec

\* Type correctness; in particular next_seq_id_ stays within its width.
THEOREM ClientTypes == Spec => []TypeOK
<1>1. IInv => TypeOK
  BY DEF IInv
<1>2. QED
  BY ClientInvariant, <1>1, PTL

\* However many threads call and whatever fails, frames never interleave.
THEOREM ClientSingleWriter == Spec => []SingleWriter
<1>1. IInv => SingleWriter
  BY DEF IInv
<1>2. QED
  BY ClientInvariant, <1>1, PTL

\* Frames reach the socket in the order call() queued them.
THEOREM ClientFifo == Spec => []WireFifo
<1>1. IInv => WireFifo
  BY DEF IInv
<1>2. QED
  BY ClientInvariant, <1>1, PTL

\* No promise is satisfied twice, whoever gets there first.
THEOREM ClientSettledOnce == Spec => []SettledOnce
<1>1. IInv => SettledOnce
  BY DEF IInv, Promised
<1>2. QED
  BY ClientInvariant, <1>1, PTL

\* A future that waits is registered under its own number.
THEOREM ClientNoOrphan == Spec => []NoOrphan
<1>1. IInv => NoOrphan
  BY DEF IInv, Promised
<1>2. QED
  BY ClientInvariant, <1>1, PTL

\* A call gets the response to its own request, or to one that drew the same number
\* at least SeqMod draws away and does not wait for it.
THEOREM ClientResponseMatches == Spec => []ResponseMatches
<1>1. IInv => ResponseMatches
  BY DEF IInv, Promised
<1>2. QED
  BY ClientInvariant, <1>1, PTL

\* Once the read loop has stopped, only calls that registered later wait.
THEOREM ClientRejectsAll == Spec => []RejectSettlesAll
<1>1. IInv => RejectSettlesAll
  BY DEF IInv, Promised
<1>2. QED
  BY ClientInvariant, <1>1, PTL

-------------------------------------------------------------------------------
(* Results, and the end of the client *)

\* Settling promises that are registered gives results to calls that wait.
LEMMA SettleResults ==
  ASSUME IInv, NEW ns \in SUBSET (Registered \cup {NoCall}), NEW how \in {"ok", "closed", "broken"},
         Settle(ns, how), \A n \in Calls \ ns : answer'[n] = answer[n],
         NEW n \in Calls
  PROVE  ResultStep(n)
<1>1. n # NoCall
  BY SMTT(60) DEF Calls, NoCall
<1>2. n \in Registered => outcome[n] = "waiting"
  BY SMTT(60) DEF IInv, Promised, Entries, Registered
<1>3. outcome'[n] = IF n \in ns THEN how ELSE outcome[n]
  BY DEF Settle
<1>4. QED
  BY <1>1, <1>2, <1>3 DEF ResultStep

\* Every step does only that.
LEMMA ResultsStep ==
  ASSUME IInv, [Next]_vars, NEW n \in Calls
  PROVE  ResultStep(n)
<1>0. \A s \in SeqIds : pending_[s] \in Registered \cup {NoCall}
  BY DEF Registered
<1>1. CASE \E k \in Calls : Register(k)
  <2>1. PICK k \in Calls : Register(k)
    BY <1>1
  <2>2. outcome[k] = "none" /\ seq[k] \in SeqIds
    BY <2>1 DEF IInv, TypeOK, Promised, Entries, Out, Register, RegisterUnder
  <2>3. n = pending_[seq[k]] => outcome[n] = "waiting"
    BY <2>2, SMTT(60) DEF IInv, Promised, Entries, Calls, NoCall
  <2>4. /\ answer' = answer
        /\ outcome' = [m \in Calls |-> IF m = k THEN "waiting"
                                       ELSE IF m \in {pending_[seq[k]]} \ {NoCall}
                                            THEN "broken" ELSE outcome[m]]
    BY <2>1 DEF Register, RegisterUnder
  <2>5. QED
    BY <2>2, <2>3, <2>4 DEF ResultStep
<1>2. CASE WriteDone
  <2>1. PICK w \in inflight : WriteOk(w) \/ WriteFails(w)
    BY <1>2 DEF WriteDone
  <2>2. CASE WriteOk(w)
    BY <2>2 DEF WriteOk, futures, ResultStep
  <2>3. CASE WriteFails(w)
    <3>1. seq[w.call] \in SeqIds
      BY DEF IInv, TypeOK
    <3>2. Settle({pending_[seq[w.call]]}, "closed") /\ answer' = answer
      BY <2>3 DEF WriteFails, WriteFailsWith
    <3>3. {pending_[seq[w.call]]} \in SUBSET (Registered \cup {NoCall})
      BY <1>0, <3>1
    <3>4. QED
      BY <3>2, <3>3, SettleResults
  <2>4. QED
    BY <2>1, <2>2, <2>3
<1>3. CASE ReadBody
  <2> DEFINE s == Head(inbound).seq
  <2>1. s \in SeqIds
    <3>1. inbound # <<>> /\ inbound \in Seq(Responses)
      BY <1>3 DEF ReadBody, ReadBodyWith, IInv, TypeOK, Responses
    <3>2. Head(inbound) \in Responses
      BY <3>1, SMTT(60)
    <3>3. QED
      BY <3>2 DEF Responses
  <2>2. /\ Settle({pending_[s]}, "ok")
        /\ answer' = [m \in Calls |-> IF m = pending_[s] THEN Head(inbound).call ELSE answer[m]]
    BY <1>3 DEF ReadBody, ReadBodyWith
  <2>3. {pending_[s]} \in SUBSET (Registered \cup {NoCall})
    BY <1>0, <2>1
  <2>4. \A m \in Calls \ {pending_[s]} : answer'[m] = answer[m]
    BY <2>2
  <2>5. QED
    BY <2>2, <2>3, <2>4, SettleResults
<1>4. CASE ReadFails \/ Destroy
  <2>1. answer' = answer /\ \E how \in {"closed", "broken"} : Settle(Registered, how)
    BY <1>4 DEF ReadFails, RejectAll, Destroy
  <2>2. QED
    BY <2>1, SettleResults
<1>5. CASE UNCHANGED futures
  BY <1>5 DEF futures, ResultStep
<1>6. QED
  <2>1. \/ \E k \in Calls : Register(k)
        \/ WriteDone \/ ReadBody \/ ReadFails \/ Destroy \/ UNCHANGED futures
    BY DEF Next, vars, Draw, Caller, EnqueueWrite, EnqueueWith, CallerWrite, Answer, Read, ReadHeader,
           Connect, Connecting, ResolveFails, ResolveOk, ConnectFails, ConnectOk,
           DisconnectClose, DisconnectStop
  <2>2. QED
    BY <2>1, <1>1, <1>2, <1>3, <1>4, <1>5

\* What a caller has read from a future stays true, for any number of calls in
\* flight and whatever arrives late.
THEOREM ClientResultsFinal == Spec => ResultsFinal
<1>1. IInv /\ [Next]_vars => [\A n \in Calls : ResultStep(n)]_vars
  BY ResultsStep
<1>2. QED
  BY <1>1, ClientInvariant, PTL DEF Spec, ResultsFinal

\* A disconnect() that has ended has stopped ios_, which nothing starts again.  A
\* client is destroyed only then, with nobody inside call() and nobody waiting.
Ended ==
  /\ disc = "done" => iosStopped
  /\ ~alive => /\ disc = "done"
               /\ \A n \in Calls : cpc[n] \in {"new", "returned"}
               /\ DestroyedSettlesAll

\* Each step keeps that, and of a destroyed client only the peer has a step.
LEMMA EndedStep ==
  ASSUME IInv, Ended, [Next]_vars
  PROVE  Ended' /\ (~alive => UNCHANGED members)
<1>1. CASE ~alive
  <2>1. disc = "done" /\ ~IoRuns
    BY <1>1 DEF Ended, IoRuns
  <2>2. UNCHANGED members
    <3>1. ~Draw /\ ~Connect /\ ~DisconnectClose /\ ~DisconnectStop /\ ~Destroy
      BY <1>1, <2>1 DEF Draw, Connect, DisconnectClose, DisconnectStop, Destroy
    <3>2. ~WriteDone /\ ~Read /\ ~ReadFails /\ ~Connecting
      BY <2>1 DEF WriteDone, WriteOk, WriteFails, WriteFailsWith, Read, ReadHeader, ReadBody,
                  ReadBodyWith, ReadFails, Connecting, ResolveFails, ResolveOk, ConnectFails,
                  ConnectOk
    <3>3. \A n \in Calls : ~Caller(n)
      BY <1>1 DEF Ended, Caller, Register, RegisterUnder, EnqueueWrite, EnqueueWith, CallerWrite
    <3>4. (\E n \in Calls : Answer(n)) \/ UNCHANGED vars
      BY <3>1, <3>2, <3>3 DEF Next
    <3>5. QED
      BY <3>4 DEF Answer, vars, members
  <2>3. Ended'
    BY <1>1, <2>2 DEF Ended, DestroyedSettlesAll, members, callers, futures, owner
  <2>4. QED
    BY <2>2, <2>3
<1>2. CASE alive /\ Destroy
  <2>1. Settle(Registered, "broken") /\ pending_' = [s \in SeqIds |-> NoCall]
        /\ UNCHANGED <<next_seq_id_, callers, late>>
    BY <1>2 DEF Destroy, callers
  <2>2. \A n \in Calls : outcome'[n] # "waiting"
    BY <2>1, SettleAll DEF IInv
  <2>3. \A k \in DOMAIN connFut' : connFut'[k] # "waiting"
    BY <1>2 DEF Destroy
  <2>4. QED
    BY <1>2, <2>2, <2>3 DEF Destroy, Ended, DestroyedSettlesAll, callers
<1>3. CASE alive /\ ~Destroy
  <2>1. alive' = alive
    BY <1>3 DEF Next, vars, owner, Draw, Caller, Register, RegisterUnder, EnqueueWrite, EnqueueWith, CallerWrite, Answer,
                WriteDone, WriteOk, WriteFails, WriteFailsWith, Read, ReadHeader, ReadBody,
                ReadBodyWith, ReadFails, Connect, Connecting, ResolveFails, ResolveOk,
                ConnectFails, ConnectOk, DisconnectClose, DisconnectStop
  <2>2. disc' = "done" => iosStopped'
    BY <1>3 DEF Ended, Next, vars, owner, Draw, Caller, Register, RegisterUnder, EnqueueWrite, EnqueueWith, CallerWrite,
                Answer, WriteDone, WriteOk, WriteFails, WriteFailsWith, Read, ReadHeader, ReadBody,
                ReadBodyWith, ReadFails, Connect, Connecting, ResolveFails, ResolveOk,
                ConnectFails, ConnectOk, DisconnectClose, DisconnectStop
  <2>3. QED
    BY <1>3, <2>1, <2>2 DEF Ended
<1>4. QED
  BY <1>1, <1>2, <1>3

\* What holds at the end of the client's life holds from the beginning on.
LEMMA EndedAlways == Spec => [](IInv /\ Ended)
<1>1. Init => Ended
  BY DEF Init, Ended
<1>2. IInv /\ Ended /\ [Next]_vars => Ended'
  BY EndedStep
<1>3. QED
  BY <1>1, <1>2, ClientInvariant, PTL DEF Spec

\* No handler and no caller touches a client after its destructor: the io thread is
\* joined and ios_ is stopped before.
THEOREM ClientNotUsedAfter == Spec => NoUseAfterDestroy
<1>1. IInv /\ Ended /\ [Next]_vars => [alive \/ UNCHANGED members]_vars
  BY EndedStep
<1>2. QED
  BY <1>1, EndedAlways, PTL DEF Spec, NoUseAfterDestroy

\* Nobody waits on the future of a destroyed client, whatever was outstanding.
THEOREM ClientDestructorSettles == Spec => []DestroyedSettlesAll
<1>1. Ended => DestroyedSettlesAll
  BY DEF Ended, DestroyedSettlesAll
<1>2. QED
  BY <1>1, EndedAlways, PTL
===============================================================================
