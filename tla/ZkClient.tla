------------------------------- MODULE ZkClient -------------------------------
(***************************************************************************)
(* zk_client::zk_client (include/zk_client/zk_client.hpp) with what it     *)
(* talks to: the socket, the io_context and the ZooKeeper server.          *)
(*                                                                         *)
(* One operation is outstanding at a time, because ServiceRegistry waits   *)
(* for each.  A completion handler is one action, run by the poll_one() of *)
(* that wait.  By the contract of Boost.Asio (and its Unix scheduler) an   *)
(* io_context stops when its last handler returns and nothing is           *)
(* outstanding; from then on poll_one() runs nothing, unless the program   *)
(* keeps a work guard on it (guarded).                                     *)
(*                                                                         *)
(* The server is external: a tree of two directory levels with service     *)
(* nodes below, other sessions that come and go, and this one, which       *)
(* expires (the client sends no pings), taking its ephemeral nodes along.  *)
(***************************************************************************)
EXTENDS Integers, Sequences, FiniteSets, Functions

CONSTANTS
  Nodes, Addrs, \* names and addresses of service instances
  Guards,       \* may the program keep a work guard?  a set of Booleans
  MaxOps,       \* bound on xid_
  MaxChurn      \* bound on what happens by itself: other sessions, losses, expiry

NoAddr == "" \* the empty string: no address, no data

Nowhere == "nowhere" \* stands for whatever is under another path than /rpc/services

ASSUME ZkAssumption ==
  /\ Guards \subseteq BOOLEAN /\ MaxOps \in Nat /\ MaxChurn \in Nat
  /\ \A S \in SUBSET Nodes : Cardinality(S) \in Nat \* Nodes is finite
  /\ Nowhere \notin Nodes

VARIABLES
  \* members of zk_client
  sock_,       \* "closed", "open", "lost"
  pending_,    \* the xids in the map
  xid_, session_id_,
  \* the operation outstanding and its future
  op,          \* [kind, node, addr, xid, phase]; phase "idle" when there is none
  fut,         \* [ready, ok, err, names, addr]
  settles,     \* how often the promise of op was satisfied
  \* the io_context
  guarded, iosStopped,
  \* the ZooKeeper server
  dirs,        \* 0, 1 or 2: /rpc and /rpc/services exist
  tree,        \* each service node: [addr, owner]
  session,     \* of this client: "none", "live", "expired"
  atServer,    \* the request received and not executed yet, or NoOp
  reply,       \* [err, names, addr]; err "none" before there is one
  churn

client == <<sock_, pending_, xid_, session_id_, op, fut, settles, iosStopped>>
server == <<dirs, tree, session, atServer, reply>>
zkVars == <<client, guarded, server, churn>>

NoOp    == [kind |-> "none", node |-> "", addr |-> NoAddr, xid |-> 0, phase |-> "idle"]
NoReply == [err |-> "none", names |-> <<>>, addr |-> NoAddr]
NoFut   == [ready |-> FALSE, ok |-> FALSE, err |-> "none", names |-> <<>>, addr |-> NoAddr]
Absent  == [addr |-> NoAddr, owner |-> "none"]
Present == {n \in Nodes : tree[n].owner # "none"}

\* Where there are directories, other instances have registered all nodes, or all but one.
ZkInit ==
  /\ sock_ = "closed" /\ pending_ = {} /\ xid_ = 1 /\ session_id_ = 0
  /\ op = NoOp /\ settles = 0 /\ fut = NoFut
  /\ guarded \in Guards /\ iosStopped = FALSE
  /\ dirs \in {0, 2}
  /\ \E free \in IF dirs = 2 THEN {{}, {CHOOSE n \in Nodes : TRUE}} ELSE {Nodes}, a \in Addrs :
       tree = [n \in Nodes |-> IF n \in free THEN Absent ELSE [addr |-> a, owner |-> "other"]]
  /\ session = "none" /\ atServer = NoOp /\ reply = NoReply /\ churn = 0

-------------------------------------------------------------------------------
(* result<T> and result<void> *)

is_ok(err) == err = "ok"

\* make_error of result<void> stores the message and leaves has_err_ false.
is_ok_void(err) == TRUE

IsVoid(kind) == kind \in {"connect", "remove"}

\* The promise of op is satisfied; nothing is outstanding any more.
Fulfil(err, names, addr) ==
  /\ fut' = [ready |-> TRUE, names |-> names, addr |-> addr, err |-> err,
             ok |-> IF IsVoid(op.kind) THEN is_ok_void(err) ELSE is_ok(err)]
  /\ settles' = settles + 1
  /\ op' = NoOp
  /\ iosStopped' = ~guarded

-------------------------------------------------------------------------------
(* connect *)

\* What connect() does before it returns; resolving may fail.
connect ==
  /\ op.phase = "idle"
  /\ settles' = 0
  /\ \/ /\ op' = [NoOp EXCEPT !.kind = "connect", !.phase = "connecting"]
        /\ UNCHANGED fut
        /\ sock_' = "closed"
     \/ /\ fut' = [NoFut EXCEPT !.ready = TRUE, !.ok = is_ok_void("resolve"), !.err = "resolve"]
        /\ UNCHANGED <<op, sock_>>
  /\ UNCHANGED <<pending_, xid_, session_id_, iosStopped>>

\* poll_one() runs the handler that op in phase from waits for.
PollOne(from) == op.phase = from /\ ~iosStopped

Advance(from, to) ==
  /\ PollOne(from)
  /\ op' = [op EXCEPT !.phase = to]
  /\ UNCHANGED <<pending_, xid_, session_id_, fut, settles, iosStopped>>

Connected         == Advance("connecting", "hs_write") /\ sock_' = "open" /\ UNCHANGED server
do_handshake      == Advance("hs_write", "hs_len") /\ sock_ = "open" /\ UNCHANGED <<sock_, server>>
HandshakeLength   == Advance("hs_len", "hs_body") /\ sock_ = "open" /\ UNCHANGED <<sock_, server>>

\* The answer gives a new session, the one that session_id_ names, or, if that
\* has expired, session 0 and a closed connection.
HandshakeBody ==
  /\ PollOne("hs_body") /\ sock_ = "open"
  /\ IF session_id_ = 0 \/ session = "live"
     THEN session' = "live" /\ session_id_' = 1 /\ UNCHANGED sock_
     ELSE session' = "none" /\ session_id_' = 0 /\ sock_' = "lost"
  /\ Fulfil("ok", <<>>, NoAddr)
  /\ UNCHANGED <<pending_, xid_, dirs, tree, atServer, reply>>

HandshakeFails ==
  /\ \/ PollOne("connecting")
     \/ sock_ = "lost" /\ \E p \in {"hs_write", "hs_len", "hs_body"} : PollOne(p)
  /\ Fulfil("failed", <<>>, NoAddr)
  /\ UNCHANGED <<sock_, pending_, xid_, session_id_, server>>

-------------------------------------------------------------------------------
(* Operations *)

\* send_request and send_request_void up to the post() of do_send.
send_request(kind, node, addr) ==
  /\ op.phase = "idle" /\ xid_ < MaxOps
  /\ pending_' = pending_ \cup {xid_}
  /\ xid_' = xid_ + 1
  /\ op' = [kind |-> kind, node |-> node, addr |-> addr, xid |-> xid_, phase |-> "posted"]
  /\ settles' = 0
  /\ UNCHANGED <<sock_, session_id_, fut, iosStopped>>

do_send == Advance("posted", "writing") /\ UNCHANGED <<sock_, server>>

\* The write ends well; what was written to a lost connection reaches nobody.
Written ==
  /\ Advance("writing", "len")
  /\ sock_ # "closed"
  /\ atServer' = IF sock_ = "open" THEN op ELSE NoOp
  /\ reply' = NoReply
  /\ UNCHANGED <<sock_, dirs, tree, session>>

ReadLength == Advance("len", "body") /\ reply # NoReply /\ UNCHANGED <<sock_, server>>

\* resolve_pending, for the xid of the reply, which is the one of the request; or,
\* for reject_pending, of the operation: the entry leaves the map and its promise
\* is satisfied.  Without an entry nothing happens.
Resolve(xid, erased, err, names, addr) ==
  /\ IF xid \in pending_ THEN Fulfil(err, names, addr)
     ELSE op' = NoOp /\ iosStopped' = ~guarded /\ UNCHANGED <<fut, settles>>
  /\ pending_' = pending_ \ erased
  /\ reply' = NoReply
  /\ UNCHANGED <<sock_, xid_, session_id_, dirs, tree, session, atServer>>

ReadBody ==
  /\ PollOne("body")
  /\ Resolve(op.xid, {op.xid}, reply.err, reply.names, reply.addr)

\* Fault: a rejected operation stays in the map.
Fault_OpFails ==
  /\ \E p \in {"writing", "len", "body"} : PollOne(p)
  /\ sock_ # "open"
  /\ Resolve(op.xid, {}, "failed", <<>>, NoAddr)

\* Fault: the handler returns on an error without reject_pending.
Fault_OpFailsSilently ==
  /\ \E p \in {"writing", "len", "body"} : PollOne(p)
  /\ sock_ # "open"
  /\ op' = NoOp
  /\ UNCHANGED <<sock_, pending_, xid_, session_id_, fut, settles, iosStopped, server>>

\* The write or one of the two reads fails.
OpFails ==
  /\ \E p \in {"writing", "len", "body"} : PollOne(p)
  /\ sock_ # "open"
  /\ Resolve(op.xid, {op.xid}, "failed", <<>>, NoAddr)

Handlers ==
  \/ Connected \/ do_handshake \/ HandshakeLength \/ HandshakeBody \/ HandshakeFails
  \/ do_send \/ Written \/ ReadLength \/ ReadBody \/ OpFails

-------------------------------------------------------------------------------
(* The ZooKeeper server *)

\* The answer, if the client still waits for it.
Answers(err, names, addr) ==
  reply' = IF atServer.xid = op.xid THEN [err |-> err, names |-> names, addr |-> addr] ELSE reply

\* Make the directory of level d.
ExecMkdir(d) ==
  /\ UNCHANGED tree
  /\ IF dirs >= d THEN Answers("node_exists", <<>>, NoAddr) /\ UNCHANGED dirs
     ELSE IF dirs < d - 1 THEN Answers("no_node", <<>>, NoAddr) /\ UNCHANGED dirs
     ELSE Answers("ok", <<>>, NoAddr) /\ dirs' = d

ExecCreate ==
  /\ UNCHANGED dirs
  /\ IF dirs < 2 \/ atServer.node \notin Nodes THEN Answers("no_node", <<>>, NoAddr) /\ UNCHANGED tree
     ELSE IF atServer.node \in Present THEN Answers("node_exists", <<>>, NoAddr) /\ UNCHANGED tree
     ELSE Answers("ok", <<>>, NoAddr) /\ tree' = [tree EXCEPT ![atServer.node] = [addr |-> atServer.addr, owner |-> "us"]]

ExecRemove ==
  /\ UNCHANGED dirs
  /\ IF atServer.node \in Present THEN Answers("ok", <<>>, NoAddr) /\ tree' = [tree EXCEPT ![atServer.node] = Absent]
     ELSE Answers("no_node", <<>>, NoAddr) /\ UNCHANGED tree

\* exists and get_data.
ExecRead ==
  /\ UNCHANGED <<dirs, tree>>
  /\ IF atServer.node \in Present THEN Answers("ok", <<>>, tree[atServer.node].addr)
     ELSE Answers("no_node", <<>>, NoAddr)

\* The children come in any order.
ExecChildren ==
  /\ UNCHANGED <<dirs, tree>>
  /\ IF dirs < 2 \/ atServer.node = Nowhere THEN Answers("no_node", <<>>, NoAddr)
     ELSE \E s \in Bijection(1 .. Cardinality(Present), Present) : Answers("ok", s, NoAddr)

Execute ==
  /\ atServer # NoOp
  /\ atServer' = NoOp
  /\ \/ atServer.kind = "mkroot" /\ ExecMkdir(1)
     \/ atServer.kind = "mkservices" /\ ExecMkdir(2)
     \/ atServer.kind = "create" /\ ExecCreate
     \/ atServer.kind = "remove" /\ ExecRemove
     \/ atServer.kind \in {"exists", "get_data"} /\ ExecRead
     \/ atServer.kind = "get_children" /\ ExecChildren
  /\ UNCHANGED <<client, guarded, session, churn>>

Churn == churn < MaxChurn /\ churn' = churn + 1 /\ UNCHANGED guarded

\* Another instance registers or leaves.
Others ==
  /\ Churn /\ dirs = 2
  /\ \E n \in Nodes :
       \/ n \notin Present /\ \E a \in Addrs : tree' = [tree EXCEPT ![n] = [addr |-> a, owner |-> "other"]]
       \/ tree[n].owner = "other" /\ tree' = [tree EXCEPT ![n] = Absent]
  /\ UNCHANGED <<client, dirs, session, atServer, reply>>

\* The connection is lost.
Lose ==
  /\ Churn
  /\ sock_ = "open" /\ sock_' = "lost"
  /\ UNCHANGED <<pending_, xid_, session_id_, op, fut, settles, iosStopped, server>>

\* The session expires: its nodes vanish and the server closes the connection.
Expire ==
  /\ Churn
  /\ session = "live" /\ session' = "expired"
  /\ tree' = [n \in Nodes |-> IF tree[n].owner = "us" THEN Absent ELSE tree[n]]
  /\ sock_' = IF sock_ = "open" THEN "lost" ELSE sock_
  /\ atServer' = NoOp
  /\ UNCHANGED <<pending_, xid_, session_id_, op, fut, settles, iosStopped, dirs, reply>>

-------------------------------------------------------------------------------
(* Properties *)

\* pending_ holds exactly the operation outstanding: whether it is resolved or
\* rejected, and at whatever step, its entry is taken out, and the promise is
\* satisfied once.
PendingExact ==
  /\ pending_ = IF op.phase = "idle" \/ op.kind = "connect" THEN {} ELSE {op.xid}
  /\ settles <= 1
===============================================================================
