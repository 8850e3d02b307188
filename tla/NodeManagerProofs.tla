--------------------------- MODULE NodeManagerProofs ---------------------------
(***************************************************************************)
(* Safety of discovery, for any services, any number of operations and of  *)
(* losses: the ZooKeeper client forgets no operation and the balancer has  *)
(* the list of the cache.                                                  *)
(***************************************************************************)
EXTENDS NodeManager, TLAPS

\* The prover of a step that names none; SMT is named where Zenon does not do.
USE ZenonT(60), SMTT(60)

Handshaking == {"connecting", "hs_write", "hs_len", "hs_body"}
Requesting  == {"posted", "writing", "len", "body"}
Kinds == {"create", "remove", "exists", "get_data", "get_children", "mkroot", "mkservices"}

\* The phase of an operation fits its kind, and until it ends its promise waits.
Operation ==
  /\ op = [kind |-> op.kind, node |-> op.node, addr |-> op.addr, xid |-> op.xid,
           phase |-> op.phase]
  /\ op.phase \in Handshaking \cup Requesting \cup {"idle"}
  /\ op.phase \in Handshaking => op.kind = "connect"
  /\ op.phase \in Requesting => op.kind \in Kinds
  /\ op.phase # "idle" => settles = 0

\* Except within a refresh the balancer has the list of the cache, not only when
\* no function runs.
Synced == user = "manager" /\ ~Refreshing => lbNodes = nodes_

\* The registry function on behalf of which a function of the manager waits.
Asked(m) ==
  IF m \in {"refresh", "select"} THEN "get_children"
  ELSE IF m \in {"refresh_each", "select_each"} THEN "get_service" ELSE m

\* The operation outstanding is the one of the function that waits, whose future is
\* ready only once the operation has ended.
Calling ==
  /\ op.phase # "idle" => Waiting /\ ~fut.ready
  /\ fut.ready => Waiting
  /\ Waiting => call = Asked(mgr)
  /\ call # "none" => mgr \notin {"idle", "pick", "refreshed"}
  /\ op.phase \in Handshaking => mgr = "connect"
  /\ op.phase \in Requesting => op.kind = Kind(Asked(mgr)) /\ mgr # "connect"
  /\ user = "balancer" => mgr = "idle"

\* A request at the server is the operation outstanding or an abandoned one, which
\* its number tells apart; only the former is answered.
Requests ==
  /\ xid_ \in Nat \ {0}
  /\ op.xid \in 0 .. xid_ - 1
  /\ op.phase \in Requesting <=> op.xid # 0
  /\ op.phase = "idle" => op = NoOp
  /\ atServer # NoOp =>
       /\ atServer.xid \in 1 .. xid_ - 1
       /\ atServer.xid = op.xid =>
            /\ op.phase \in {"len", "body"}
            /\ atServer.kind = op.kind /\ atServer.node = op.node /\ atServer.addr = op.addr
  /\ reply = NoReply \/ reply.err \in {"ok", "no_node", "node_exists"}
  /\ reply.err # "none" => op.phase \in {"len", "body"}
  /\ op.phase = "body" => reply.err # "none"

\* The service nodes.
Tree ==
  /\ DOMAIN tree = Nodes
  /\ \A n \in Nodes : tree[n] = Absent \/ tree[n].owner \in {"us", "other"}

\* The node that register_node was given is there, and nothing will undo that.
Created ==
  /\ atServer = NoOp
  /\ session = "live" /\ arg[1] \in Nodes =>
       tree[arg[1]] = [addr |-> arg[2], owner |-> "us"]

\* Nothing that the server has yet to execute removes a registered node, and
\* register_node hears of success only if its node was created.
Registration ==
  /\ session # "live" => registered = {}
  /\ \A r \in registered : r[1] \in Nodes => tree[r[1]] = [addr |-> r[2], owner |-> "us"]
  /\ op.kind = "remove" => \A r \in registered : r[1] # op.node
  /\ atServer.kind = "remove" => \A r \in registered : r[1] # atServer.node
  /\ mgr = "register_service" =>
       /\ op.phase \in Requesting => op.node = arg[1] /\ op.addr = arg[2]
       /\ \/ reply.err = "ok"
          \/ fut.ready /\ fut.ok
          \/ call = "returned" /\ ret.ok
          => Created

\* A list of children as get_children returns it, in terms of what was seen (sn) and
\* of whether the refresh was cut short (ct).
Children(names, sn, ct) ==
  /\ names \in Seq(Nodes)
  /\ IsInjective(names)
  /\ names = <<>> => (<<"empty">> \in sn \/ ct)

\* The first half of a refresh waits for the children.
Listing ==
  mgr \in {"refresh", "select"} =>
    /\ found = <<>>
    /\ op.phase \in Requesting => op.node = Under("services")
    /\ reply.err # "none" => IF reply.err = "ok" THEN Children(reply.names, seen, cut) ELSE cut
    /\ fut.ready => IF fut.ok THEN Children(fut.names, seen, cut) ELSE cut
    /\ call = "returned" => Children(ret.names, seen, cut)

\* Node n has address a, or none, for a reason.
Explained(n, a, sn, ct) == <<n, a>> \in sn \/ (a = NoAddr /\ ct)

ExplainedList(ns, sn, ct) ==
  /\ \A i \in DOMAIN ns : Explained(ns[i].name, ns[i].address, sn, ct)
  /\ \A i, j \in DOMAIN ns : ns[i].name = ns[j].name => i = j

\* A sequence, of whatever its elements are.
IsSeq(ns) == ns \in Seq({ns[i] : i \in DOMAIN ns})

\* The second half looks up the children one by one.
LookingUp ==
  mgr \in {"refresh_each", "select_each"} =>
    /\ IsSeq(found) /\ ExplainedList(found, seen, cut)
    /\ todo \in Seq(Nodes)
    /\ IsInjective(todo)
    /\ \A i \in DOMAIN found, j \in DOMAIN todo : found[i].name # todo[j]
    /\ found = <<>> /\ todo = <<>> => (<<"empty">> \in seen \/ cut)
    /\ call # "none" => todo # <<>>
    /\ op.phase \in Requesting => op.node = Under(Head(todo))
    /\ reply.err # "none" => Explained(Head(todo), IF reply.err = "ok" THEN reply.addr ELSE NoAddr, seen, cut)
    /\ fut.ready => Explained(Head(todo), IF fut.ok THEN fut.addr ELSE NoAddr, seen, cut)
    /\ call = "returned" => Explained(Head(todo), ret.addr, seen, cut)

\* What a refresh has seen, and why it may come to nothing.
Watching ==
  /\ services_path_ \in {"services", Nowhere} /\ dirs \in 0 .. 2
  /\ Refreshing => Now \subseteq seen
  /\ Refreshing /\ (services_path_ = Nowhere \/ dirs < 2 \/ ~connected_) => cut

\* The inductive invariants: of the operations, of the calls, and of a refresh.
IInv == Operation /\ PendingExact /\ Synced
Wired == Calling /\ Requests /\ Tree
RefreshState == Watching /\ Listing /\ LookingUp /\ RefreshExplained

-------------------------------------------------------------------------------
(* The operation outstanding *)

\* No operation: an idle one.
LEMMA NoOpIdle ==
  /\ NoOp.phase = "idle"
  /\ NoOp = [kind |-> NoOp.kind, node |-> NoOp.node, addr |-> NoOp.addr, xid |-> NoOp.xid,
             phase |-> NoOp.phase]
BY DEF NoOp

\* Satisfying the promise of the operation outstanding ends it.
LEMMA FulfilEnds ==
  ASSUME Operation, PendingExact, NEW err, NEW names, NEW addr, Fulfil(err, names, addr),
         op.phase # "idle", pending_' = {}
  PROVE  Operation' /\ PendingExact'
<1>1. op' = NoOp /\ settles' = 1
  BY SMTT(60) DEF Fulfil, Operation
<1>2. QED
  BY <1>1, NoOpIdle, SMTT(60) DEF Operation, PendingExact, Handshaking, Requesting

\* A completion handler that starts the next operation on the socket.
LEMMA AdvanceKeeps ==
  ASSUME Operation, PendingExact, NEW from, NEW to, Advance(from, to),
         \/ from \in Handshaking /\ to \in Handshaking
         \/ from \in Requesting /\ to \in Requesting
  PROVE  Operation' /\ PendingExact'
<1>1. /\ op'.kind = op.kind /\ op'.xid = op.xid /\ op'.phase = to /\ op.phase = from
      /\ op' = [kind |-> op.kind, node |-> op.node, addr |-> op.addr, xid |-> op.xid,
                phase |-> to]
  BY DEF Advance, PollOne, Operation
<1>2. from # "idle" /\ to # "idle"
  BY DEF Handshaking, Requesting
<1>3. settles' = settles /\ pending_' = pending_
  BY DEF Advance
<1>4. Operation'
  BY <1>1, <1>2, <1>3 DEF Operation, Handshaking, Requesting
<1>5. PendingExact'
  BY <1>1, <1>2, <1>3 DEF PendingExact
<1>6. QED
  BY <1>4, <1>5

\* Resolving or rejecting the operation takes its entry out.
LEMMA ResolveEnds ==
  ASSUME Operation, PendingExact, op.phase \in Requesting, NEW err, NEW names, NEW addr,
         Resolve(op.xid, {op.xid}, err, names, addr)
  PROVE  Operation' /\ PendingExact'
<1>1. pending_ = {op.xid} /\ op.phase # "idle"
  BY DEF PendingExact, Operation, Requesting, Kinds
<1>2. Fulfil(err, names, addr) /\ pending_' = {}
  BY <1>1 DEF Resolve
<1>3. QED
  BY <1>1, <1>2, FulfilEnds

\* Every completion handler keeps the map exact.
LEMMA HandlersKeep ==
  ASSUME Operation, PendingExact, Handlers
  PROVE  Operation' /\ PendingExact'
<1>1. CASE Connected \/ do_handshake \/ HandshakeLength \/ do_send \/ Written \/ ReadLength
  BY <1>1, AdvanceKeeps DEF Connected, do_handshake, HandshakeLength, do_send, Written,
                            ReadLength, Handshaking, Requesting
<1>2. CASE HandshakeBody \/ HandshakeFails
  <2>1. op.phase \in Handshaking /\ pending_' = pending_
    BY <1>2 DEF HandshakeBody, HandshakeFails, PollOne, Handshaking
  <2>2. pending_ = {} /\ op.phase # "idle"
    BY <2>1 DEF Operation, PendingExact, Handshaking
  <2>3. PICK err : Fulfil(err, <<>>, NoAddr)
    BY <1>2 DEF HandshakeBody, HandshakeFails
  <2>4. QED
    BY <2>1, <2>2, <2>3, FulfilEnds
<1>3. CASE ReadBody \/ OpFails
  BY <1>3, ResolveEnds DEF ReadBody, OpFails, PollOne, Requesting
<1>4. QED
  BY <1>1, <1>2, <1>3 DEF Handlers

\* A registry function starts one operation, or returns at once.
LEMMA CallKeeps ==
  ASSUME Operation, PendingExact, NEW fn, NEW node, NEW addr, Kind(fn) \in Kinds,
         Call(fn, node, addr)
  PROVE  Operation' /\ PendingExact'
<1>1. CASE UNCHANGED client
  BY <1>1 DEF client, Operation, PendingExact
<1>2. CASE send_request(Kind(fn), node, addr)
  <2>1. /\ op'.kind = Kind(fn) /\ op'.xid = xid_ /\ op'.phase = "posted"
        /\ op' = [kind |-> op'.kind, node |-> op'.node, addr |-> op'.addr, xid |-> op'.xid,
                  phase |-> op'.phase]
        /\ settles' = 0 /\ pending_' = {xid_}
    BY <1>2 DEF send_request, PendingExact
  <2>2. QED
    BY <2>1, SMTT(60) DEF Operation, PendingExact, Handshaking, Requesting, Kinds
<1>3. QED
  BY <1>1, <1>2 DEF Call

\* connect() starts the handshake, or fails to resolve the address.
LEMMA ConnectKeeps ==
  ASSUME Operation, PendingExact, connect
  PROVE  Operation' /\ PendingExact'
<1>1. pending_' = {} /\ settles' = 0 /\ op.phase = "idle"
  BY DEF connect, PendingExact
<1>2. CASE UNCHANGED op
  BY <1>1, <1>2, SMTT(60) DEF Operation, PendingExact, Handshaking, Requesting
<1>3. CASE op' = [NoOp EXCEPT !.kind = "connect", !.phase = "connecting"]
  <2>1. /\ op'.kind = "connect" /\ op'.phase = "connecting"
        /\ op' = [kind |-> op'.kind, node |-> op'.node, addr |-> op'.addr, xid |-> op'.xid,
                  phase |-> op'.phase]
    BY <1>3 DEF NoOp
  <2>2. QED
    BY <1>1, <2>1, SMTT(60) DEF Operation, PendingExact, Handshaking, Requesting
<1>4. QED
  BY <1>2, <1>3 DEF connect
-------------------------------------------------------------------------------
(* The manager *)

\* Every function of the manager, at each of its steps, leaves the operations in
\* order: it starts one when none is outstanding, or does not touch them.
LEMMA ManagerKeepsOperation ==
  ASSUME Operation, PendingExact, Manager
  PROVE  Operation' /\ PendingExact'
<1>1. CASE connect_zk
  BY <1>1, ConnectKeeps DEF connect_zk, connect_registry
<1>3. CASE UNCHANGED client
  BY <1>3 DEF client, Operation, PendingExact
<1>4. CASE register_node \/ unregister_node \/ node_exists \/ list_node_names \/ get_node_data
  <2>1. PICK fn \in {"register_service", "unregister_service", "node_exists", "get_children",
                    "get_node_data"} : \E node, addr : Call(fn, node, addr)
    BY <1>4 DEF register_node, unregister_node, node_exists, list_node_names, get_node_data, Ask
  <2>2. Kind(fn) \in Kinds
    BY <2>1 DEF Kind, Kinds
  <2>3. QED
    BY <2>1, <2>2, CallKeeps
<1>5. CASE init_zk_paths \/ InitPath \/ refresh_nodes \/ LookUp \/ SelectEmpty
  <2>1. PICK fn \in {"mkroot", "mkservices", "get_children", "get_service"} :
          \E node, addr : Call(fn, node, addr)
    BY <1>5 DEF init_zk_paths, InitPath, refresh_nodes, LookUp, SelectEmpty, BeginRefresh
  <2>2. Kind(fn) \in Kinds
    BY <2>1 DEF Kind, Kinds
  <2>3. QED
    BY <2>1, <2>2, CallKeeps
<1>6. CASE Finish \/ set_services_path \/ Listed \/ LookedUp \/ Refreshed \/ Select \/ set_balancer_strategy
  BY <1>3, <1>6 DEF Finish, set_services_path, Listed, LookedUp, Refreshed, Select,
                    set_balancer_strategy
<1>7. QED
  BY <1>1, <1>4, <1>5, <1>6 DEF Manager

\* Nor does the manager let the balancer and the cache drift apart.
LEMMA ManagerKeepsSynced ==
  ASSUME Synced, Manager, user' = user
  PROVE  Synced'
<1>1. CASE connect_zk \/ register_node \/ unregister_node \/ node_exists \/ list_node_names
           \/ get_node_data \/ init_zk_paths \/ InitPath \/ set_services_path \/ LookUp
  <2>1. lbNodes' = lbNodes /\ nodes_' = nodes_ /\ (Refreshing' <=> Refreshing)
    BY <1>1 DEF connect_zk, register_node, unregister_node, node_exists, list_node_names,
                get_node_data, Ask, init_zk_paths, InitPath, set_services_path, LookUp,
                Idle, Resumes, Refreshing, lbVars, mgrState
  <2>2. QED
    BY <2>1 DEF Synced
<1>2. CASE refresh_nodes \/ SelectEmpty \/ Listed \/ LookedUp
  <2>1. Refreshing'
    BY <1>2 DEF refresh_nodes, SelectEmpty, BeginRefresh, Listed, LookedUp, Refreshing
  <2>2. QED
    BY <2>1 DEF Synced
<1>3. CASE Refreshed
  BY <1>3 DEF Refreshed, set_nodes, Renew, Synced
<1>4. CASE Finish \/ Select
  <2>1. lbNodes' = lbNodes /\ nodes_' = nodes_ /\ ~Refreshing
    BY <1>4 DEF Finish, Select, select, Simple, Idle, Refreshing, lbVars
  <2>2. QED
    BY <2>1 DEF Synced
<1>5. CASE set_balancer_strategy
  BY <1>5 DEF set_balancer_strategy, Renew, Synced, mgrState
<1>6. QED
  BY <1>1, <1>2, <1>3, <1>4, <1>5 DEF Manager

\* Every step keeps the invariant.
LEMMA NodeManagerStep == IInv /\ [NmNext]_vars => IInv'
<1> SUFFICES ASSUME IInv, [NmNext]_vars PROVE IInv'
  OBVIOUS
<1>1. CASE Manager /\ UNCHANGED <<guarded, churn, user>>
  BY <1>1, ManagerKeepsOperation, ManagerKeepsSynced DEF IInv
<1>3. CASE Poll
  <2>1. Synced'
    BY <1>3 DEF Poll, IInv, Synced, Refreshing, lbVars, mgrState
  <2>2. CASE Handlers
    BY <2>1, <2>2, HandlersKeep DEF IInv
  <2>3. CASE Return
    BY <2>1, <2>3 DEF Return, IInv, Operation, PendingExact
  <2>4. QED
    BY <1>3, <2>2, <2>3 DEF Poll
<1>4. CASE Serve \/ World \/ UNCHANGED vars
  <2>1. Synced'
    BY <1>4 DEF Serve, World, vars, IInv, Synced, Refreshing, lbVars, mgrState
  <2>2. UNCHANGED <<op, pending_, settles>>
    BY <1>4 DEF Serve, Execute, World, Others, Lose, Expire, vars, zkVars, client
  <2>3. QED
    BY <2>1, <2>2 DEF IInv, Operation, PendingExact
<1>5. CASE user = "balancer" /\ LbNext /\ UNCHANGED <<zkVars, regVars, user, mgrState, history>>
  BY <1>5 DEF IInv, Synced, Operation, PendingExact, zkVars, client
<1>6. QED
  BY <1>1, <1>3, <1>4, <1>5 DEF NmNext

\* The invariant holds from the beginning.
THEOREM NodeManagerInvariant == NmSpec => []IInv
<1>1. NmInit => IInv
  <2> SUFFICES ASSUME NmInit PROVE IInv
    OBVIOUS
  <2>1. op = NoOp /\ pending_ = {} /\ settles = 0 /\ lbNodes = nodes_
    <3>1. RegInit /\ LbInit /\ nodes_ = <<>>
      BY DEF NmInit
    <3>2. ZkInit
      BY <3>1 DEF RegInit
    <3>3. op = NoOp /\ pending_ = {} /\ settles = 0
      BY <3>2 DEF ZkInit
    <3>4. lbNodes = <<>>
      BY <3>1 DEF LbInit
    <3>5. QED
      BY <3>1, <3>3, <3>4
  <2>2. Operation /\ PendingExact
    BY <2>1, NoOpIdle, SMTT(60) DEF Operation, PendingExact, Handshaking, Requesting
  <2>3. QED
    BY <2>1, <2>2 DEF IInv, Synced
<1>2. QED
  BY <1>1, NodeManagerStep, PTL, ZenonT(60) DEF NmSpec

\* Whatever is lost, refused or expired, the map of the ZooKeeper client has exactly
\* the operation outstanding, and no promise is satisfied twice.
THEOREM ZkPendingExact == NmSpec => []PendingExact
<1>1. IInv => PendingExact
  BY DEF IInv
<1>2. QED
  BY <1>1, NodeManagerInvariant, PTL, ZenonT(60)

\* Between two calls of a NodeManager its balancer selects from the list it caches.
THEOREM ManagerCacheInSync == NmSpec => []CacheInSync
<1>1. IInv => CacheInSync
  BY DEF IInv, Synced, CacheInSync, Idle, Refreshing
<1>2. QED
  BY <1>1, NodeManagerInvariant, PTL, ZenonT(60)

-------------------------------------------------------------------------------
(* What the steps do to the operation outstanding *)

\* The fields of the records that stand for nothing.
LEMMA Nothing ==
  /\ NoOp.kind = "none" /\ NoOp.xid = 0 /\ NoOp.phase = "idle"
  /\ NoReply.err = "none" /\ NoReply.names = <<>> /\ NoReply.addr = NoAddr
  /\ NoFut.ready = FALSE
  /\ NoRet.ok = FALSE /\ NoRet.names = <<>> /\ NoRet.addr = NoAddr
  /\ Absent.owner = "none" /\ Absent.addr = NoAddr
BY DEF NoOp, NoReply, NoFut, NoRet, Absent

\* A handler that starts the next one changes the phase alone.
LEMMA AdvanceEffect ==
  ASSUME Operation, NEW from, NEW to, Advance(from, to)
  PROVE  /\ op.phase = from /\ op'.phase = to
         /\ op'.kind = op.kind /\ op'.node = op.node /\ op'.addr = op.addr /\ op'.xid = op.xid
         /\ xid_' = xid_ /\ fut' = fut
<1>1. op' = [kind |-> op.kind, node |-> op.node, addr |-> op.addr, xid |-> op.xid, phase |-> to]
  BY DEF Advance, Operation
<1>2. QED
  BY <1>1 DEF Advance, PollOne

\* The fields of a future that was satisfied.
LEMMA FulfilEffect ==
  ASSUME NEW err, NEW names, NEW addr, Fulfil(err, names, addr)
  PROVE  /\ op' = NoOp
         /\ fut'.ready = TRUE /\ fut'.err = err /\ fut'.names = names /\ fut'.addr = addr
         /\ ~IsVoid(op.kind) => fut'.ok = (err = "ok")
BY DEF Fulfil, is_ok

\* An operation that is resolved or rejected ends, and its future is satisfied.
LEMMA ResolveEffect ==
  ASSUME Operation, PendingExact, op.phase \in Requesting, NEW err, NEW names, NEW addr,
         Resolve(op.xid, {op.xid}, err, names, addr)
  PROVE  /\ Fulfil(err, names, addr) /\ reply' = NoReply
         /\ UNCHANGED <<xid_, dirs, tree, session, atServer>>
<1>1. pending_ = {op.xid}
  BY DEF PendingExact, Operation, Requesting, Kinds
<1>2. QED
  BY <1>1 DEF Resolve

\* The handlers, by what they do.
LEMMA HandlerKinds ==
  ASSUME Operation, PendingExact, Handlers
  PROVE  \/ \E from, to \in Handshaking : Advance(from, to) /\ UNCHANGED server
         \/ /\ op.phase \in Handshaking /\ xid_' = xid_
            /\ \E err \in {"ok", "failed"} : Fulfil(err, <<>>, NoAddr)
            /\ UNCHANGED <<dirs, tree, atServer, reply>>
            /\ session' = session \/ HandshakeBody
         \/ Advance("posted", "writing") /\ UNCHANGED server
         \/ Written
         \/ ReadLength
         \/ /\ op.phase = "body" /\ Fulfil(reply.err, reply.names, reply.addr)
            /\ reply' = NoReply /\ UNCHANGED <<xid_, dirs, tree, session, atServer>>
         \/ /\ op.phase \in {"writing", "len", "body"} /\ Fulfil("failed", <<>>, NoAddr)
            /\ reply' = NoReply /\ UNCHANGED <<xid_, dirs, tree, session, atServer>>
<1>1. CASE Connected \/ do_handshake \/ HandshakeLength
  BY <1>1 DEF Connected, do_handshake, HandshakeLength, Handshaking
<1>2. CASE HandshakeBody
  BY <1>2 DEF HandshakeBody, PollOne, Handshaking
<1>3. CASE HandshakeFails
  BY <1>3 DEF HandshakeFails, PollOne, Handshaking, server
<1>4. CASE do_send \/ Written \/ ReadLength
  BY <1>4 DEF do_send
<1>5. CASE ReadBody
  <2>1. op.phase = "body" /\ Resolve(op.xid, {op.xid}, reply.err, reply.names, reply.addr)
    BY <1>5 DEF ReadBody, PollOne
  <2>2. op.phase \in Requesting
    BY <2>1 DEF Requesting
  <2>3. QED
    BY <2>1, <2>2, ResolveEffect
<1>6. CASE OpFails
  <2>1. op.phase \in {"writing", "len", "body"} /\ Resolve(op.xid, {op.xid}, "failed", <<>>, NoAddr)
    BY <1>6 DEF OpFails, PollOne
  <2>2. op.phase \in Requesting
    BY <2>1 DEF Requesting
  <2>3. QED
    BY <2>1, <2>2, ResolveEffect
<1>7. QED
  BY <1>1, <1>2, <1>3, <1>4, <1>5, <1>6 DEF Handlers

\* A registry function starts one operation, or without a connection returns at once.
LEMMA CallEffect ==
  ASSUME NEW fn, NEW node, NEW addr, Call(fn, node, addr)
  PROVE  /\ connected_' = connected_ /\ UNCHANGED <<dirs, tree, session, atServer, reply, fut>>
         /\ \/ /\ connected_ /\ call' = fn /\ ret' = ret
               /\ op'.kind = Kind(fn) /\ op'.node = node /\ op'.addr = addr
               /\ op'.xid = xid_ /\ op'.phase = "posted" /\ xid_' = xid_ + 1
            \/ /\ ~connected_ /\ call' = "returned" /\ ret' = NoRet
               /\ op' = op /\ xid_' = xid_
BY SMTT(60) DEF Call, send_request, client, server

-------------------------------------------------------------------------------
(* The operation, the function that waits for it, and the server *)

\* The functions whose operation is sent to the server.
RegistryFns == {"get_children", "get_node_data", "get_service", "node_exists", "register_service",
              "unregister_service", "mkroot", "mkservices"}

\* A function of the manager that calls a registry function.
LEMMA CallWired ==
  ASSUME IInv, Wired, NEW fn \in RegistryFns, NEW node, NEW addr, Call(fn, node, addr),
         call \in {"none", "returned"}, Asked(mgr') = fn,
         mgr' \notin {"idle", "pick", "refreshed", "connect"}, user' # "balancer"
  PROVE  Wired'
<1>1. op.phase = "idle" /\ ~fut.ready
  BY DEF Wired, Calling, Waiting
<1>2. Calling'
  <2>1. fn \notin {"none", "returned"} /\ Kind(fn) \in Kinds
    BY DEF RegistryFns, Kind, Kinds
  <2>2. CASE call' = fn /\ op'.phase = "posted" /\ op'.kind = Kind(fn)
    BY <1>1, <2>1, <2>2, CallEffect DEF Calling, Waiting, Handshaking, Requesting
  <2>3. CASE call' = "returned" /\ op' = op
    BY <1>1, <2>1, <2>3, CallEffect DEF Calling, Waiting, Handshaking, Requesting
  <2>4. QED
    BY <2>2, <2>3, CallEffect
<1>3. Requests'
  <2>1. op.xid = 0 /\ reply.err = "none" /\ xid_ \in Nat \ {0}
    BY <1>1 DEF Wired, Requests, Requesting
  <2>2. QED
    BY <1>1, <2>1, CallEffect, SMTT(60) DEF Wired, Requests, Requesting
<1>4. Tree'
  BY CallEffect DEF Wired, Tree
<1>5. QED
  BY <1>2, <1>3, <1>4 DEF Wired

\* The manager's steps, by the registry function they call.
LEMMA ManagerCalls ==
  ASSUME IInv, Wired, Manager,
         connect_zk \/ register_node \/ unregister_node \/ node_exists \/ list_node_names
         \/ get_node_data \/ init_zk_paths \/ InitPath \/ refresh_nodes \/ LookUp \/ SelectEmpty
  PROVE  /\ call \in {"none", "returned"} /\ user # "balancer"
         /\ \/ connect_zk
            \/ \E fn \in RegistryFns : \E node, addr :
                 /\ Call(fn, node, addr) /\ Asked(mgr') = fn
                 /\ mgr' \notin {"idle", "pick", "refreshed", "connect"}
                 /\ fn \in {"register_service", "unregister_service"} => arg' = <<node, addr>>
<1>1. user # "balancer"
  <2>1. mgr # "idle" \/ user = "manager"
    BY DEF connect_zk, register_node, unregister_node, node_exists, list_node_names,
       get_node_data, init_zk_paths, InitPath, refresh_nodes, LookUp, SelectEmpty, Ask, BeginRefresh,
       Idle, Resumes
  <2>2. QED
    BY <2>1 DEF Wired, Calling
<1>2. call \in {"none", "returned"}
  <2>1. mgr = "idle" \/ call \in {"none", "returned"}
    BY DEF connect_zk, register_node, unregister_node, node_exists, list_node_names,
       get_node_data, init_zk_paths, InitPath, refresh_nodes, LookUp, SelectEmpty, Ask, BeginRefresh,
       Idle, Resumes
  <2>2. QED
    BY <2>1 DEF Wired, Calling
<1>3. CASE register_node \/ unregister_node \/ node_exists \/ list_node_names \/ get_node_data
  <2>1. PICK fn \in {"register_service", "unregister_service", "node_exists", "get_children",
                    "get_node_data"} :
          mgr' = fn /\ \E node, addr : Call(fn, node, addr) /\ arg' = <<node, addr>>
    BY <1>3 DEF register_node, unregister_node, node_exists, list_node_names, get_node_data, Ask
  <2>2. QED
    BY <1>1, <1>2, <2>1 DEF Asked, RegistryFns
<1>4. CASE init_zk_paths
  <2>1. mgr' = "mkroot" /\ \E node, addr : Call("mkroot", node, addr)
    BY <1>4 DEF init_zk_paths
  <2>2. QED
    BY <1>1, <1>2, <2>1 DEF Asked, RegistryFns
<1>5. CASE InitPath
  <2>1. mgr' = "mkservices" /\ \E node, addr : Call("mkservices", node, addr)
    BY <1>5 DEF InitPath
  <2>2. QED
    BY <1>1, <1>2, <2>1 DEF Asked, RegistryFns
<1>6. CASE refresh_nodes \/ SelectEmpty
  <2>1. mgr' \in {"refresh", "select"} /\ \E node, addr : Call("get_children", node, addr)
    BY <1>6 DEF refresh_nodes, SelectEmpty, BeginRefresh
  <2>2. QED
    BY <1>1, <1>2, <2>1 DEF Asked, RegistryFns
<1>7. CASE LookUp
  <2>1. mgr' = mgr /\ mgr \in {"refresh_each", "select_each"} /\ \E node, addr : Call("get_service", node, addr)
    BY <1>7 DEF LookUp, mgrState
  <2>2. QED
    BY <1>1, <1>2, <2>1 DEF Asked, RegistryFns
<1>8. CASE connect_zk
  BY <1>1, <1>2, <1>8
<1>9. QED
  BY <1>3, <1>4, <1>5, <1>6, <1>7, <1>8

\* The other steps of the manager start no operation.
LEMMA ManagerRests ==
  ASSUME IInv, Wired,
         Finish \/ set_services_path \/ Listed \/ LookedUp \/ Refreshed \/ Select
         \/ set_balancer_strategy
  PROVE  /\ call \in {"none", "returned"} /\ call' = "none"
         /\ user # "balancer"
         /\ UNCHANGED <<client, server>>
<1>1. UNCHANGED <<client, server>>
  BY DEF Finish, set_services_path, Listed, LookedUp, Refreshed, Select, set_balancer_strategy
<1>2. /\ call \in {"none", "returned"} \/ mgr \in {"idle", "pick", "refreshed"}
      /\ call' = "none" \/ (call' = call /\ (call = "none" \/ mgr \in {"idle", "pick", "refreshed"}))
  BY DEF Finish, set_services_path, Listed, LookedUp, Refreshed, Select, set_balancer_strategy,
     Idle, regVars
<1>3. mgr # "idle" \/ user = "manager"
  BY DEF Finish, set_services_path, Listed, LookedUp, Refreshed, Select, set_balancer_strategy,
     Idle, Simple
<1>4. QED
  BY <1>1, <1>2, <1>3 DEF Wired, Calling

\* connect() has no number and is not a request.
LEMMA ConnectWired ==
  ASSUME IInv, Wired, connect_zk, user' = user
  PROVE  Wired'
<1>1. user # "balancer" /\ call = "none" /\ op.phase = "idle" /\ ~fut.ready /\ mgr' = "connect"
      /\ call' = "connect" /\ connect /\ UNCHANGED server
  BY DEF connect_zk, connect_registry, Idle, Wired, Calling, Waiting
<1>2. op.xid = 0 /\ xid_' = xid_
  BY <1>1 DEF Wired, Requests, Requesting, connect
<1>3. CASE op' = [NoOp EXCEPT !.kind = "connect", !.phase = "connecting"] /\ fut' = fut
  <2>1. op'.phase = "connecting" /\ op'.xid = 0
    BY <1>3 DEF NoOp
  <2>2. Calling'
    BY <1>1, <1>3, <2>1 DEF Calling, Waiting, Asked, Handshaking, Requesting
  <2>3. Requests'
    BY <1>1, <1>2, <2>1 DEF Wired, Requests, Requesting, server
  <2>4. QED
    BY <1>1, <2>2, <2>3 DEF Wired, Tree, server
<1>4. CASE op' = op
  <2>1. Calling'
    BY <1>1, <1>4 DEF Calling, Waiting, Asked, Handshaking, Requesting
  <2>2. Requests'
    BY <1>1, <1>2, <1>4 DEF Wired, Requests, Requesting, server
  <2>3. QED
    BY <1>1, <2>1, <2>2 DEF Wired, Tree, server
<1>5. QED
  BY <1>1, <1>3, <1>4 DEF connect

\* Every step of the manager.
LEMMA ManagerWired ==
  ASSUME IInv, Wired, Manager, user' = user
  PROVE  Wired'
<1>1. CASE connect_zk
  BY <1>1, ConnectWired
<1>2. CASE register_node \/ unregister_node \/ node_exists \/ list_node_names
         \/ get_node_data \/ init_zk_paths \/ InitPath \/ refresh_nodes \/ LookUp \/ SelectEmpty
  BY <1>1, <1>2, ManagerCalls, CallWired
<1>3. CASE Finish \/ set_services_path \/ Listed \/ LookedUp \/ Refreshed \/ Select
         \/ set_balancer_strategy
  <2>1. /\ call \in {"none", "returned"} /\ call' = "none" /\ user # "balancer"
        /\ UNCHANGED <<client, server>>
    BY <1>3, ManagerRests
  <2>2. op.phase = "idle" /\ ~fut.ready /\ UNCHANGED <<op, fut, xid_, atServer, reply, tree>>
    BY <2>1 DEF Wired, Calling, Waiting, client, server
  <2>3. Calling'
    BY <2>1, <2>2 DEF Calling, Waiting, Handshaking, Requesting
  <2>4. QED
    BY <2>2, <2>3 DEF Wired, Requests, Tree
<1>4. QED
  BY <1>1, <1>2, <1>3 DEF Manager

\* Every handler.
LEMMA HandlersWired ==
  ASSUME IInv, Wired, Handlers, UNCHANGED <<call, mgr, user>>
  PROVE  Wired'
<1>0. Operation /\ PendingExact /\ Calling /\ Requests /\ Tree
  BY DEF IInv, Wired
<1>1. CASE \E from, to \in Handshaking : Advance(from, to) /\ UNCHANGED server
  <2>1. PICK from \in Handshaking, to \in Handshaking : Advance(from, to) /\ UNCHANGED server
    BY <1>1
  <2>2. Calling'
    BY <1>0, <2>1, AdvanceEffect DEF Calling, Waiting, Handshaking, Requesting
  <2>3. Requests'
    BY <1>0, <2>1, AdvanceEffect DEF Requests, Handshaking, Requesting, server
  <2>4. QED
    BY <1>0, <2>1, <2>2, <2>3 DEF Wired, Tree, server
<1>2. CASE /\ op.phase \in Handshaking /\ xid_' = xid_
           /\ \E err \in {"ok", "failed"} : Fulfil(err, <<>>, NoAddr)
           /\ UNCHANGED <<dirs, tree, atServer, reply>>
  <2>1. op' = NoOp /\ fut'.ready
    BY <1>2, FulfilEffect
  <2>2. Waiting /\ op.xid = 0 /\ reply.err = "none" /\ op.phase \notin Requesting
    BY <1>0, <1>2 DEF Calling, Requests, Handshaking, Requesting
  <2>3. Calling'
    BY <1>0, <2>1, <2>2, Nothing DEF Calling, Waiting, Handshaking, Requesting
  <2>4. Requests'
    BY <1>0, <1>2, <2>1, <2>2, Nothing DEF Requests, Requesting
  <2>5. QED
    BY <1>0, <1>2, <2>3, <2>4 DEF Wired, Tree
<1>3. CASE Advance("posted", "writing") /\ UNCHANGED server
  <2>1. Calling'
    BY <1>0, <1>3, AdvanceEffect, SMTT(60) DEF Calling, Waiting, Handshaking, Requesting
  <2>2. Requests'
    BY <1>0, <1>3, AdvanceEffect, SMTT(60) DEF Requests, Requesting, server
  <2>3. QED
    BY <1>0, <1>3, <2>1, <2>2 DEF Wired, Tree, server
<1>4. CASE Written
  <2>1. /\ Advance("writing", "len") /\ (atServer' = op \/ atServer' = NoOp)
        /\ reply' = NoReply /\ tree' = tree
    BY <1>4 DEF Written
  <2>2. Calling'
    BY <1>0, <2>1, AdvanceEffect, SMTT(60) DEF Calling, Waiting, Handshaking, Requesting
  <2>3. op.xid \in 1 .. xid_ - 1
    BY <1>0, <2>1, AdvanceEffect, SMTT(60) DEF Requests, Requesting, Operation, PendingExact
  <2>4. Requests'
    BY <1>0, <2>1, <2>3, AdvanceEffect, Nothing, SMTT(60) DEF Requests, Requesting
  <2>5. QED
    BY <1>0, <2>1, <2>2, <2>4 DEF Wired, Tree
<1>5. CASE ReadLength
  <2>1. Advance("len", "body") /\ reply # NoReply /\ UNCHANGED server
    BY <1>5 DEF ReadLength
  <2>2. Calling'
    BY <1>0, <2>1, AdvanceEffect, SMTT(60) DEF Calling, Waiting, Handshaking, Requesting
  <2>3. Requests'
    BY <1>0, <2>1, AdvanceEffect, SMTT(60) DEF Requests, Requesting, server
  <2>4. QED
    BY <1>0, <2>1, <2>2, <2>3 DEF Wired, Tree, server
<1>6. CASE /\ op.phase \in {"writing", "len", "body"} 
           /\ \E err, names, addr : Fulfil(err, names, addr)
           /\ reply' = NoReply /\ UNCHANGED <<xid_, dirs, tree, session, atServer>>
  <2>1. op' = NoOp /\ fut'.ready
    BY <1>6, FulfilEffect
  <2>2. Waiting
    BY <1>0, <1>6 DEF Calling
  <2>3. Calling'
    BY <1>0, <2>1, <2>2, Nothing DEF Calling, Waiting, Handshaking, Requesting
  <2>4. Requests'
    BY <1>0, <1>6, <2>1, Nothing, SMTT(60) DEF Requests, Requesting
  <2>5. QED
    BY <1>0, <1>6, <2>3, <2>4 DEF Wired, Tree
<1>7. QED
  BY <1>0, <1>1, <1>2, <1>3, <1>4, <1>5, <1>6, HandlerKinds

\* The server executes a request, and answers if it is the operation outstanding.
LEMMA ExecuteEffect ==
  ASSUME Execute
  PROVE  /\ atServer # NoOp /\ atServer' = NoOp /\ UNCHANGED <<client, session>>
         /\ \/ reply' = reply
            \/ /\ atServer.xid = op.xid
               /\ reply'.err \in {"ok", "no_node", "node_exists"}
         /\ \/ tree' = tree
            \/ /\ atServer.kind = "create" /\ atServer.node \in Nodes /\ atServer.node \notin Present
               /\ tree' = [tree EXCEPT ![atServer.node] = [addr |-> atServer.addr, owner |-> "us"]]
            \/ /\ atServer.kind = "remove" /\ atServer.node \in Present
               /\ tree' = [tree EXCEPT ![atServer.node] = Absent]
<1> DEFINE Answered == \/ reply' = reply
                       \/ /\ atServer.xid = op.xid
                          /\ reply'.err \in {"ok", "no_node", "node_exists"}
<1>1. atServer # NoOp /\ atServer' = NoOp /\ UNCHANGED <<client, session>>
  BY DEF Execute
<1>2. ASSUME NEW err \in {"ok", "no_node", "node_exists"}, NEW names, NEW addr,
             Answers(err, names, addr)
      PROVE  Answered
  BY <1>2, SMTT(60) DEF Answers
<1> HIDE DEF Answered
<1>3. ASSUME NEW d, ExecMkdir(d) PROVE Answered /\ tree' = tree
  BY <1>2, <1>3 DEF ExecMkdir
<1>4. ASSUME ExecCreate
      PROVE  /\ Answered
             /\ \/ tree' = tree
                \/ /\ atServer.node \in Nodes /\ atServer.node \notin Present
                   /\ tree' = [tree EXCEPT ![atServer.node] = [addr |-> atServer.addr, owner |-> "us"]]
  BY <1>2, <1>4 DEF ExecCreate
<1>5. ASSUME ExecRemove
      PROVE  /\ Answered
             /\ \/ tree' = tree
                \/ atServer.node \in Present /\ tree' = [tree EXCEPT ![atServer.node] = Absent]
  BY <1>2, <1>5 DEF ExecRemove
<1>6. ASSUME ExecRead \/ ExecChildren PROVE Answered /\ tree' = tree
  BY <1>2, <1>6 DEF ExecRead, ExecChildren
<1>7. Answered /\ \/ tree' = tree
                  \/ /\ atServer.kind = "create" /\ atServer.node \in Nodes /\ atServer.node \notin Present
                     /\ tree' = [tree EXCEPT ![atServer.node] = [addr |-> atServer.addr, owner |-> "us"]]
                  \/ /\ atServer.kind = "remove" /\ atServer.node \in Present
                     /\ tree' = [tree EXCEPT ![atServer.node] = Absent]
  BY <1>3, <1>4, <1>5, <1>6 DEF Execute
<1>8. QED
  BY <1>1, <1>7 DEF Answered

\* The server's steps.
LEMMA ExecuteWired ==
  ASSUME IInv, Wired, Execute, UNCHANGED <<call, mgr, user>>
  PROVE  Wired'
<1>1. /\ atServer # NoOp /\ atServer' = NoOp /\ UNCHANGED <<op, fut, xid_>>
  BY ExecuteEffect DEF client
<1>2. Calling'
  BY <1>1 DEF Wired, Calling, Waiting
<1>3. Requests'
  <2>1. CASE reply' = reply
    BY <1>1, <2>1 DEF Wired, Requests
  <2>2. CASE atServer.xid = op.xid /\ reply'.err \in {"ok", "no_node", "node_exists"}
    BY <1>1, <2>2 DEF Wired, Requests
  <2>3. QED
    BY <2>1, <2>2, ExecuteEffect
<1>4. Tree'
  BY ExecuteEffect, SMTT(60) DEF Wired, Tree, Present
<1>5. QED
  BY <1>2, <1>3, <1>4 DEF Wired

\* What happens by itself.
LEMMA WorldWired ==
  ASSUME IInv, Wired, Others \/ Lose \/ Expire, UNCHANGED <<call, mgr, user>>
  PROVE  Wired'
<1>1. UNCHANGED <<op, fut, xid_, reply>> /\ (atServer' = atServer \/ atServer' = NoOp)
  BY DEF Others, Lose, Expire, client, server
<1>2. Calling' /\ Requests'
  BY <1>1 DEF Wired, Calling, Waiting, Requests
<1>3. Tree'
  BY SMTT(60) DEF Others, Lose, Expire, Wired, Tree, Present, server
<1>4. QED
  BY <1>2, <1>3 DEF Wired

\* The polling loop finds the future ready.
LEMMA ReturnWired ==
  ASSUME IInv, Wired, Return, UNCHANGED <<mgr, user>>
  PROVE  Wired'
<1>1. /\ UNCHANGED <<op, xid_, atServer, reply, tree>> /\ fut' = NoFut /\ call' = "returned"
      /\ op.phase = "idle" /\ Waiting
  BY DEF Return, Wired, Calling, server
<1>2. Calling'
  BY <1>1, Nothing DEF Wired, Calling, Waiting, Handshaking, Requesting
<1>3. QED
  BY <1>1, <1>2 DEF Wired, Requests, Tree

\* Every step.
LEMMA WiredStep == IInv /\ Wired /\ [NmNext]_vars => Wired'
<1> SUFFICES ASSUME IInv, Wired, [NmNext]_vars PROVE Wired'
  OBVIOUS
<1>1. CASE Manager /\ UNCHANGED <<guarded, churn, user>>
  BY <1>1, ManagerWired
<1>2. CASE Poll
  <2>1. UNCHANGED <<mgr, user>>
    BY <1>2 DEF Poll, mgrState
  <2>2. CASE Handlers /\ UNCHANGED regVars
    BY <2>1, <2>2, HandlersWired DEF regVars
  <2>3. CASE Return
    BY <2>1, <2>3, ReturnWired
  <2>4. QED
    BY <1>2, <2>2, <2>3 DEF Poll
<1>3. CASE Serve
  BY <1>3, ExecuteWired DEF Serve, regVars, mgrState
<1>4. CASE World
  BY <1>4, WorldWired DEF World, regVars, mgrState
<1>5. CASE UNCHANGED <<zkVars, regVars, user, mgrState>>
  BY <1>5 DEF zkVars, regVars, mgrState, client, server, Wired, Calling, Waiting, Requests, Tree
<1>6. QED
  BY <1>1, <1>2, <1>3, <1>4, <1>5 DEF NmNext, vars

-------------------------------------------------------------------------------
(* What was registered stays *)

\* The history of registrations.
LEMMA RecordRegistered ==
  ASSUME Record
  PROVE  /\ session' # "live" => registered' = {}
         /\ ~(mgr = "register_service" /\ mgr' = "idle" /\ ret.ok) => registered' \subseteq registered
         /\ mgr' = "idle" /\ mgr = "register_service" => registered' \subseteq registered \cup {arg}
         /\ mgr' = "unregister_service" => \A r \in registered' : r[1] # arg'[1]
<1>1. /\ session' # "live" => registered' = {}
      /\ ~(mgr = "register_service" /\ mgr' = "idle" /\ ret.ok) => registered' \subseteq registered
      /\ mgr' = "idle" /\ mgr = "register_service" => registered' \subseteq registered \cup {arg}
  BY DEF Record
<1>2. mgr' = "unregister_service" => \A r \in registered' : r[1] # arg'[1]
  BY DEF Record
<1>3. QED
  BY <1>1, <1>2

\* A function that calls a registry function.
LEMMA CallRegistration ==
  ASSUME IInv, Wired, Registration, Record, NEW fn \in RegistryFns, NEW node, NEW addr,
         Call(fn, node, addr), call \in {"none", "returned"}, Asked(mgr') = fn,
         mgr' \notin {"idle", "pick", "refreshed", "connect"},
         fn \in {"register_service", "unregister_service"} => arg' = <<node, addr>>
  PROVE  Registration'
<1>1. op.phase = "idle" /\ ~fut.ready /\ reply.err = "none"
  BY DEF Wired, Calling, Waiting, Requests
<1>2. registered' \subseteq registered /\ (session' # "live" => registered' = {})
  BY RecordRegistered
<1>3. UNCHANGED <<tree, session, atServer, reply, fut>>
  BY CallEffect
<1>4. op'.kind = "remove" => \A r \in registered' : r[1] # op'.node
  <2>1. CASE op'.kind = Kind(fn) /\ op'.node = node
    <3>1. CASE fn = "unregister_service"
      <4>1. mgr' = "unregister_service"
        BY <3>1 DEF Asked
      <4>2. arg'[1] = node
        BY <3>1, SMTT(60)
      <4>3. QED
        BY <2>1, <4>1, <4>2, RecordRegistered
    <3>2. CASE fn # "unregister_service"
      BY <2>1, <3>2 DEF Kind, RegistryFns
    <3>3. QED
      BY <3>1, <3>2
  <2>2. CASE op' = op
    BY <1>2, <2>2 DEF Registration
  <2>3. QED
    BY <2>1, <2>2, CallEffect
<1>5. ASSUME mgr' = "register_service"
      PROVE  /\ op'.phase \in Requesting => op'.node = arg'[1] /\ op'.addr = arg'[2]
             /\ reply'.err # "ok" /\ ~fut'.ready /\ ~(call' = "returned" /\ ret'.ok)
  <2>1. fn = "register_service" /\ arg'[1] = node /\ arg'[2] = addr
    BY <1>5, SMTT(60) DEF Asked
  <2>2. QED
    BY <1>1, <1>3, <2>1, CallEffect, Nothing DEF Requesting
<1>6. QED
  BY <1>2, <1>3, <1>4, <1>5 DEF Registration

\* Every step of the manager; Finish returns what register_service did.
LEMMA ManagerRegistration ==
  ASSUME IInv, Wired, Registration, Record, Manager
  PROVE  Registration'
<1>1. CASE connect_zk
  <2>1. registered' \subseteq registered /\ (session' # "live" => registered' = {})
    BY <1>1, RecordRegistered DEF connect_zk
  <2>2. mgr' = "connect" /\ UNCHANGED server
    BY <1>1 DEF connect_zk, connect_registry
  <2>3. op'.kind = "connect" \/ op' = op
    <3>1. op' = [NoOp EXCEPT !.kind = "connect", !.phase = "connecting"] \/ op' = op
      BY <1>1 DEF connect_zk, connect_registry, connect
    <3>2. QED
      BY <3>1 DEF NoOp
  <2>4. QED
    BY <2>1, <2>2, <2>3 DEF Registration, server
<1>2. CASE register_node \/ unregister_node \/ node_exists \/ list_node_names
         \/ get_node_data \/ init_zk_paths \/ InitPath \/ refresh_nodes \/ LookUp \/ SelectEmpty
  BY <1>1, <1>2, ManagerCalls, CallRegistration
<1>3. CASE Finish \/ set_services_path \/ Listed \/ LookedUp \/ Refreshed \/ Select
         \/ set_balancer_strategy
  <2>1. /\ call \in {"none", "returned"} /\ call' = "none"
        /\ UNCHANGED <<op, tree, session, atServer, reply, fut>>
    BY <1>3, ManagerRests DEF client, server
  <2>2. mgr' # "register_service"
    BY <1>3 DEF Finish, set_services_path, Listed, LookedUp, Refreshed, Select,
                set_balancer_strategy, Idle, mgrState
  <2>3. CASE mgr = "register_service" /\ mgr' = "idle" /\ ret.ok
    <3>1. call = "returned"
      BY <1>3, <2>3 DEF Finish, set_services_path, Listed, LookedUp, Refreshed, Select,
                set_balancer_strategy, Idle, Simple
    <3>2. Created
      BY <2>3, <3>1 DEF Registration
    <3>3. registered' \subseteq registered \cup {arg} /\ (session' # "live" => registered' = {})
      BY <2>3, RecordRegistered
    <3>4. op.kind # "remove"
      <4>1. op.phase = "idle"
        BY <2>1 DEF Wired, Calling, Waiting
      <4>2. QED
        BY <4>1, Nothing DEF Wired, Requests
    <3>5. QED
      BY <2>1, <2>2, <3>2, <3>3, <3>4, Nothing DEF Registration, Created
  <2>4. CASE ~(mgr = "register_service" /\ mgr' = "idle" /\ ret.ok)
    <3>1. registered' \subseteq registered /\ (session' # "live" => registered' = {})
      BY <2>4, RecordRegistered
    <3>2. QED
      BY <2>1, <2>2, <3>1 DEF Registration
  <2>5. QED
    BY <2>3, <2>4
<1>4. QED
  BY <1>1, <1>2, <1>3 DEF Manager

\* Every handler.
LEMMA HandlersRegistration ==
  ASSUME IInv, Wired, Registration, Record, Handlers, UNCHANGED <<mgr, arg, call, ret>>
  PROVE  Registration'
<1>0. Operation /\ PendingExact /\ Calling /\ Requests
  BY DEF IInv, Wired
<1>a. registered' \subseteq registered /\ (session' # "live" => registered' = {})
  BY RecordRegistered
<1>1. CASE \E from, to \in Handshaking : Advance(from, to) /\ UNCHANGED server
  <2>1. op'.kind = op.kind /\ op'.node = op.node /\ mgr = "connect"
    BY <1>0, <1>1, AdvanceEffect DEF Calling
  <2>2. QED
    BY <1>1, <1>a, <2>1 DEF Registration, server
<1>2. CASE /\ op.phase \in Handshaking /\ xid_' = xid_
           /\ \E err \in {"ok", "failed"} : Fulfil(err, <<>>, NoAddr)
           /\ UNCHANGED <<dirs, tree, atServer, reply>>
  <2>1. op' = NoOp /\ mgr = "connect"
    BY <1>0, <1>2, FulfilEffect DEF Calling
  <2>2. QED
    BY <1>2, <1>a, <2>1, Nothing DEF Registration
<1>3. CASE ReadLength \/ (Advance("posted", "writing") /\ UNCHANGED server)
  <2>1. PICK from \in {"posted", "len"} : \E to \in Requesting : Advance(from, to) /\ UNCHANGED server
    BY <1>3 DEF ReadLength, Requesting
  <2>2. /\ op'.kind = op.kind /\ op'.node = op.node /\ op'.addr = op.addr /\ op.phase \in Requesting
        /\ fut' = fut
    BY <1>0, <2>1, AdvanceEffect DEF Requesting
  <2>3. QED
    BY <1>a, <2>1, <2>2 DEF Registration, Created, server
<1>4. CASE Written
  <2>1. /\ Advance("writing", "len") /\ (atServer' = op \/ atServer' = NoOp)
        /\ reply' = NoReply /\ tree' = tree /\ session' = session
    BY <1>4 DEF Written
  <2>2. /\ op'.kind = op.kind /\ op'.node = op.node /\ op'.addr = op.addr /\ op.phase = "writing"
        /\ fut' = fut
    BY <1>0, <2>1, AdvanceEffect
  <2>3. ~fut.ready /\ call # "returned" /\ reply'.err # "ok"
    BY <1>0, <2>1, <2>2, Nothing DEF Calling, Waiting
  <2>4. QED
    BY <1>a, <2>1, <2>2, <2>3, Nothing DEF Registration, Requesting
<1>5. CASE /\ op.phase = "body" /\ Fulfil(reply.err, reply.names, reply.addr)
           /\ reply' = NoReply /\ UNCHANGED <<xid_, dirs, tree, session, atServer>>
  <2>1. op' = NoOp /\ (~IsVoid(op.kind) => fut'.ok = (reply.err = "ok"))
    BY <1>5, FulfilEffect
  <2>2. mgr = "register_service" => ~IsVoid(op.kind) /\ call # "returned"
    BY <1>0, <1>5 DEF Calling, Waiting, Requesting, Asked, Kind, IsVoid
  <2>3. mgr = "register_service" /\ fut'.ok => Created
    BY <2>1, <2>2 DEF Registration
  <2>4. QED
    BY <1>5, <1>a, <2>1, <2>2, <2>3, Nothing DEF Registration, Created, Requesting
<1>6. CASE /\ op.phase \in {"writing", "len", "body"} /\ Fulfil("failed", <<>>, NoAddr)
           /\ reply' = NoReply /\ UNCHANGED <<xid_, dirs, tree, session, atServer>>
  <2>0. op' = NoOp /\ (~IsVoid(op.kind) => fut'.ok = ("failed" = "ok"))
    BY <1>6, FulfilEffect
  <2>1. op' = NoOp /\ (~IsVoid(op.kind) => ~fut'.ok)
    BY <2>0
  <2>2. mgr = "register_service" => ~IsVoid(op.kind) /\ call # "returned"
    BY <1>0, <1>6 DEF Calling, Waiting, Requesting, Asked, Kind, IsVoid
  <2>3. QED
    BY <1>6, <1>a, <2>1, <2>2, Nothing DEF Registration, Requesting
<1>7. QED
  BY <1>0, <1>1, <1>2, <1>3, <1>4, <1>5, <1>6, HandlerKinds

\* The polling loop finds the future ready.
LEMMA ReturnRegistration ==
  ASSUME IInv, Wired, Registration, Record, Return, UNCHANGED <<mgr, arg>>
  PROVE  Registration'
<1>1. registered' \subseteq registered /\ (session' # "live" => registered' = {})
  BY RecordRegistered
<1>2. /\ UNCHANGED <<op, tree, session, atServer, reply>> /\ fut' = NoFut /\ fut.ready
      /\ ret'.ok = Succeeded(call) /\ Waiting
  BY DEF Return, Result, server
<1>3. mgr = "register_service" /\ ret'.ok => fut.ok
  BY <1>2 DEF Wired, Calling, Asked, Succeeded
<1>4. QED
  BY <1>1, <1>2, <1>3, Nothing DEF Registration, Created

\* The server says that it created a node only if it did.
LEMMA CreateAnswered ==
  ASSUME Tree, Execute, atServer.kind = "create", atServer.xid = op.xid, reply'.err = "ok"
  PROVE  tree'[atServer.node] = [addr |-> atServer.addr, owner |-> "us"]
<1>1. ExecCreate
  BY DEF Execute
<1>2. QED
  BY <1>1, SMTT(60) DEF ExecCreate, Answers, Tree

\* The server's steps.
LEMMA ExecuteRegistration ==
  ASSUME IInv, Wired, Registration, Record, Execute, UNCHANGED <<mgr, arg, call, ret>>
  PROVE  Registration'
<1>1. registered' \subseteq registered /\ (session' # "live" => registered' = {})
  BY RecordRegistered
<1>2. atServer # NoOp /\ atServer' = NoOp /\ UNCHANGED <<op, fut, session>>
  BY ExecuteEffect DEF client
<1>3. \A r \in registered : r[1] \in Nodes => tree'[r[1]] = tree[r[1]]
  <2> SUFFICES ASSUME NEW r \in registered, r[1] \in Nodes PROVE tree'[r[1]] = tree[r[1]]
    OBVIOUS
  <2>0. tree[r[1]] = [addr |-> r[2], owner |-> "us"]
    BY DEF Registration
  <2>1. r[1] \in Present
    BY <2>0, SMTT(60) DEF Present
  <2>2. atServer.kind = "remove" => r[1] # atServer.node
    BY DEF Registration
  <2>3. QED
    BY <2>1, <2>2, ExecuteEffect DEF Wired, Tree
<1>4. ~Created
  BY <1>2 DEF Created
<1>5. mgr = "register_service" =>
        reply.err # "ok" /\ ~(fut.ready /\ fut.ok) /\ ~(call = "returned" /\ ret.ok)
  BY <1>4 DEF Registration
<1>6. ASSUME mgr = "register_service", reply'.err = "ok"
      PROVE  tree'[arg[1]] = [addr |-> arg[2], owner |-> "us"]
  <2>1. atServer.xid = op.xid
    BY <1>5, <1>6, ExecuteEffect
  <2>2. /\ op.phase \in Requesting
        /\ atServer.kind = op.kind /\ atServer.node = op.node /\ atServer.addr = op.addr
    BY <1>2, <2>1 DEF Wired, Requests, Requesting
  <2>3. op.kind = "create" /\ op.node = arg[1] /\ op.addr = arg[2]
    BY <1>6, <2>2 DEF Wired, Calling, Asked, Kind, Registration
  <2>4. QED
    BY <1>6, <2>1, <2>2, <2>3, CreateAnswered DEF Wired
<1>7. QED
  BY <1>1, <1>2, <1>3, <1>5, <1>6, Nothing DEF Registration, Created

\* What happens by itself.
LEMMA WorldRegistration ==
  ASSUME IInv, Wired, Registration, Record, Others \/ Lose \/ Expire,
         UNCHANGED <<mgr, arg, call, ret>>
  PROVE  Registration'
<1>1. registered' \subseteq registered /\ (session' # "live" => registered' = {})
  BY RecordRegistered
<1>2. UNCHANGED <<op, fut, reply>>
  BY DEF Others, Lose, Expire, client, server
<1>3. CASE Others \/ Lose
  <2>1. atServer' = atServer /\ session' = session
    BY <1>3 DEF Others, Lose, server
  <2>2. \A n \in Nodes : tree[n].owner = "us" => tree'[n] = tree[n]
    BY <1>3 DEF Others, Lose, server, Present, Wired, Tree
  <2>3. QED
    BY <1>1, <1>2, <2>1, <2>2, SMTT(60) DEF Registration, Created
<1>4. CASE Expire
  <2>1. atServer' = NoOp /\ session' = "expired"
    BY <1>4 DEF Expire
  <2>2. QED
    BY <1>1, <1>2, <2>1, Nothing DEF Registration, Created
<1>5. QED
  BY <1>3, <1>4

\* Every step.
LEMMA RegistrationStep == IInv /\ Wired /\ Registration /\ [NmNext]_vars => Registration'
<1> SUFFICES ASSUME IInv, Wired, Registration, [NmNext]_vars PROVE Registration'
  OBVIOUS
<1>1. CASE Manager /\ UNCHANGED <<guarded, churn, user>> /\ Record
  BY <1>1, ManagerRegistration
<1>2. CASE Poll
  <2>1. UNCHANGED <<mgr, arg>> /\ Record
    BY <1>2 DEF Poll, mgrState
  <2>2. CASE Handlers /\ UNCHANGED regVars
    BY <2>1, <2>2, HandlersRegistration DEF regVars
  <2>3. CASE Return
    BY <2>1, <2>3, ReturnRegistration
  <2>4. QED
    BY <1>2, <2>2, <2>3 DEF Poll
<1>3. CASE Serve
  BY <1>3, ExecuteRegistration DEF Serve, regVars, mgrState
<1>4. CASE World
  BY <1>4, WorldRegistration DEF World, regVars, mgrState
<1>5. CASE UNCHANGED <<zkVars, regVars, user, mgrState, history>>
  BY <1>5 DEF zkVars, regVars, mgrState, client, server, history, Registration, Created
<1>6. QED
  BY <1>1, <1>2, <1>3, <1>4, <1>5 DEF NmNext, vars

-------------------------------------------------------------------------------
(* What a refresh returns *)

\* The history of a refresh.
LEMMA RecordSeen ==
  ASSUME Record
  PROVE  /\ Refreshing' => /\ seen \subseteq seen' /\ Now \subseteq seen' /\ Now' \subseteq seen'
                           /\ cut => cut'
                           /\ ~connected_' \/ services_path_' = Nowhere \/ dirs < 2 => cut'
                           /\ fut'.ready /\ fut'.err = "failed" => cut'
         /\ mgr' \in {"pick", "refreshed"} => seen' = seen /\ cut' = cut
<1>1. Refreshing' => mgr' # "idle"
  BY DEF Refreshing
<1>2. mgr' \in {"pick", "refreshed"} => ~Refreshing' /\ mgr' # "idle"
  BY DEF Refreshing
<1>3. Refreshing' => seen' = seen \cup Now \cup Now'
  BY <1>1 DEF Record
<1>4. Refreshing' => cut' = \/ cut
                            \/ ~connected_' \/ services_path_' = Nowhere \/ dirs < 2
                            \/ fut'.ready /\ fut'.err = "failed"
  BY <1>1 DEF Record
<1>5. mgr' \in {"pick", "refreshed"} => seen' = seen /\ cut' = cut
  BY <1>2 DEF Record
<1>6. QED
  BY <1>3, <1>4, <1>5

\* What explains an endpoint or a list goes on doing so.
LEMMA Grows ==
  ASSUME NEW sn, NEW ct, NEW sm, NEW du, sn \subseteq sm, ct => du
  PROVE  /\ \A names : Children(names, sn, ct) => Children(names, sm, du)
         /\ \A n, a : Explained(n, a, sn, ct) => Explained(n, a, sm, du)
         /\ \A ns : ExplainedList(ns, sn, ct) => ExplainedList(ns, sm, du)
<1>1. ASSUME NEW names, Children(names, sn, ct) PROVE Children(names, sm, du)
  BY <1>1 DEF Children
<1>2. ASSUME NEW n, NEW a, Explained(n, a, sn, ct) PROVE Explained(n, a, sm, du)
  BY <1>2 DEF Explained
<1>3. ASSUME NEW ns, ExplainedList(ns, sn, ct) PROVE ExplainedList(ns, sm, du)
  BY <1>2, <1>3 DEF ExplainedList
<1>4. QED
  BY <1>1, <1>2, <1>3

\* The directories are never removed, and the path changes only between two calls.
LEMMA DirsGrow ==
  ASSUME Watching, [NmNext]_vars
  PROVE  /\ dirs' \in 0 .. 2 /\ (dirs' < 2 => dirs < 2)
         /\ services_path_' \in {"services", Nowhere}
         /\ Refreshing /\ Refreshing' => services_path_' = services_path_
<1>1. dirs \in 0 .. 2 /\ services_path_ \in {"services", Nowhere}
  BY DEF Watching
<1>2. CASE Manager
  <2>1. dirs' = dirs
    <3>1. UNCHANGED server
      BY <1>2 DEF Manager, connect_zk, connect_registry, register_node, unregister_node,
         node_exists, list_node_names, get_node_data, Ask, Call, Finish, set_services_path,
         init_zk_paths, InitPath, refresh_nodes, BeginRefresh, Listed, LookUp, LookedUp, Refreshed,
         SelectEmpty, Select, set_balancer_strategy
    <3>2. QED
      BY <3>1 DEF server
  <2>2. CASE set_services_path \/ init_zk_paths
    <3>1. services_path_' \in {"services", Nowhere} /\ mgr = "idle"
      BY <2>2 DEF set_services_path, init_zk_paths, Idle
    <3>2. QED
      BY <1>1, <2>1, <3>1 DEF Refreshing
  <2>3. CASE ~(set_services_path \/ init_zk_paths)
    <3>1. services_path_' = services_path_
      BY <1>2, <2>3 DEF Manager, connect_zk, register_node, unregister_node,
         node_exists, list_node_names, get_node_data, Ask, Finish, mgrState,
         InitPath, refresh_nodes, BeginRefresh, Listed, LookUp, LookedUp, Refreshed,
         SelectEmpty, Select, set_balancer_strategy
    <3>2. QED
      BY <1>1, <2>1, <3>1
  <2>4. QED
    BY <2>2, <2>3
<1>3. CASE Poll
  <2>1. dirs' = dirs /\ services_path_' = services_path_
    BY <1>3 DEF Poll, mgrState, Handlers, Connected, do_handshake, HandshakeLength, HandshakeBody,
       HandshakeFails, do_send, Written, ReadLength, ReadBody, OpFails, Resolve, Return, server
  <2>2. QED
    BY <1>1, <2>1
<1>4. CASE Serve
  <2>1. services_path_' = services_path_
    BY <1>4 DEF Serve, mgrState
  <2>2. dirs' = dirs \/ dirs' = 2 \/ (dirs' = 1 /\ ~(dirs >= 1))
    BY <1>4 DEF Serve, Execute, ExecMkdir, ExecCreate, ExecRemove, ExecRead, ExecChildren
  <2>3. QED
    BY <1>1, <2>1, <2>2, SMTT(60)
<1>5. CASE World
  BY <1>1, <1>5 DEF World, Others, Lose, Expire, mgrState, server
<1>6. CASE UNCHANGED <<zkVars, mgrState>>
  BY <1>1, <1>6 DEF zkVars, server, mgrState
<1>7. QED
  BY <1>2, <1>3, <1>4, <1>5, <1>6 DEF NmNext, vars

\* Every step keeps watching, and a step within the refresh keeps what was seen.
LEMMA WatchingStep ==
  ASSUME Watching, [NmNext]_vars
  PROVE  Watching'
<1>1. CASE Record
  BY <1>1, RecordSeen, DirsGrow DEF Watching
<1>2. CASE UNCHANGED <<zkVars, regVars, user, mgrState, history>>
  BY <1>2 DEF Watching, zkVars, regVars, server, mgrState, history, Refreshing, Now, Present
<1>3. QED
  BY <1>1, <1>2 DEF NmNext, vars, Poll, Serve, World

\* The server's answer to a request for the children.
LEMMA ChildrenAnswered ==
  ASSUME Wired, Watching, Record, Refreshing', Execute, atServer.kind = "get_children",
         atServer.node = Under("services"), atServer.xid = op.xid, services_path_' = services_path_
  PROVE  IF reply'.err = "ok" THEN Children(reply'.names, seen', cut') ELSE cut'
<1>1. ExecChildren
  BY DEF Execute
<1>2. CASE dirs < 2 \/ atServer.node = Nowhere
  <2>1. reply'.err = "no_node"
    BY <1>1, <1>2, SMTT(60) DEF ExecChildren, Answers
  <2>2. services_path_' = Nowhere \/ dirs < 2
    BY <1>2 DEF Under, Watching, Nowhere
  <2>3. QED
    BY <2>1, <2>2, RecordSeen
<1>3. CASE ~(dirs < 2 \/ atServer.node = Nowhere)
  <2>1. PICK s \in Bijection(1 .. Cardinality(Present), Present) : Answers("ok", s, NoAddr)
    BY <1>1, <1>3 DEF ExecChildren
  <2>2. reply'.err = "ok" /\ reply'.names = s
    BY <2>1 DEF Answers
  <2>4. PICK k \in Nat : k = Cardinality(Present)
    <3>1. Present \in SUBSET Nodes
      BY DEF Present
    <3>2. QED
      BY <3>1, ZkAssumption
  <2>5. s \in [1 .. k -> Present] /\ IsInjective(s) /\ \A n \in Present : \E i \in 1 .. k : s[i] = n
    BY <2>1, <2>4 DEF Bijection, Injection, Surjection
  <2>6. s \in Seq(Nodes)
    BY <2>5, SMTT(60) DEF Present
  <2>7. s = <<>> => Present = {}
    BY <2>5, SMTT(60)
  <2>8. Present = {} => <<"empty">> \in Now
    BY DEF Now
  <2>9. Children(s, seen', cut')
    BY <2>5, <2>6, <2>7, <2>8, RecordSeen DEF Children
  <2>10. QED
    BY <2>2, <2>9
<1>4. QED
  BY <1>2, <1>3

\* The server's answer to a request for the address of a node.
LEMMA AddressAnswered ==
  ASSUME Wired, Watching, Record, Refreshing', Execute, atServer.kind = "get_data",
         NEW n \in Nodes, atServer.node = Under(n), atServer.xid = op.xid,
         services_path_' = services_path_
  PROVE  Explained(n, IF reply'.err = "ok" THEN reply'.addr ELSE NoAddr, seen', cut')
<1>1. ExecRead
  BY DEF Execute
<1>2. CASE services_path_ = Nowhere
  <2>1. atServer.node \notin Present
    BY <1>2, ZkAssumption DEF Under, Present, Nowhere
  <2>2. reply'.err = "no_node"
    BY <1>1, <2>1, SMTT(60) DEF ExecRead, Answers
  <2>3. cut'
    BY <1>2, RecordSeen
  <2>4. QED
    BY <2>2, <2>3 DEF Explained
<1>3. CASE services_path_ = "services"
  <2>1. atServer.node = n
    BY <1>3 DEF Under
  <2>2. <<n, tree[n].addr>> \in seen'
    BY RecordSeen DEF Now
  <2>3. CASE n \in Present
    <3>1. reply'.err = "ok" /\ reply'.addr = tree[n].addr
      BY <1>1, <2>1, <2>3, SMTT(60) DEF ExecRead, Answers
    <3>2. QED
      BY <2>2, <3>1 DEF Explained
  <2>4. CASE n \notin Present
    <3>1. reply'.err = "no_node"
      BY <1>1, <2>1, <2>4, SMTT(60) DEF ExecRead, Answers
    <3>2. tree[n].addr = NoAddr
      BY <2>4, Nothing DEF Wired, Tree, Present
    <3>3. QED
      BY <2>2, <3>1, <3>2 DEF Explained
  <2>5. QED
    BY <2>3, <2>4
<1>4. QED
  BY <1>2, <1>3 DEF Watching

\* A step that is not the manager's, within the first half of a refresh.
LEMMA ListingElsewhere ==
  ASSUME IInv, Wired, RefreshState, Record, mgr \in {"refresh", "select"}, UNCHANGED mgrState,
         \/ Handlers /\ UNCHANGED regVars
         \/ Return
         \/ Execute /\ UNCHANGED regVars
         \/ (Others \/ Lose \/ Expire) /\ UNCHANGED regVars
  PROVE  Listing'
<1>0. /\ Operation /\ PendingExact /\ Calling /\ Requests /\ Watching
      /\ mgr' = mgr /\ services_path_' = services_path_ /\ found' = found
  BY DEF IInv, Wired, RefreshState, mgrState
<1>1. Refreshing /\ Refreshing' /\ Asked(mgr) = "get_children" /\ mgr # "connect"
  BY <1>0 DEF Refreshing, Asked
<1>2. /\ seen \subseteq seen' /\ (cut => cut')
      /\ fut'.ready /\ fut'.err = "failed" => cut'
  BY <1>1, RecordSeen
<1>3. \A names : Children(names, seen, cut) => Children(names, seen', cut')
  BY <1>2, Grows
<1>4. /\ found = <<>>
      /\ op.phase \in Requesting => op.node = Under("services") /\ op.kind = "get_children"
      /\ reply.err # "none" => IF reply.err = "ok" THEN Children(reply.names, seen, cut) ELSE cut
      /\ fut.ready => IF fut.ok THEN Children(fut.names, seen, cut) ELSE cut
      /\ call = "returned" => Children(ret.names, seen, cut)
  BY <1>0, <1>1 DEF RefreshState, Listing, Calling, Kind
<1>5. Under("services")' = Under("services")
  BY <1>0 DEF Under
<1>6. SUFFICES
        /\ op'.phase \in Requesting => op'.node = Under("services")
        /\ reply'.err # "none" => IF reply'.err = "ok" THEN Children(reply'.names, seen', cut') ELSE cut'
        /\ fut'.ready => IF fut'.ok THEN Children(fut'.names, seen', cut') ELSE cut'
        /\ call' = "returned" => Children(ret'.names, seen', cut')
  BY <1>0, <1>4, <1>5 DEF Listing
<1>7. CASE Handlers /\ UNCHANGED regVars
  <2>0. call' = call /\ ret' = ret
    BY <1>7 DEF regVars
  <2>1. CASE op.phase \in Handshaking
    BY <1>0, <1>1, <2>1 DEF Calling
  <2>2. CASE (Advance("posted", "writing") /\ UNCHANGED server) \/ ReadLength
    <3>1. /\ op.phase \in Requesting /\ op'.node = op.node /\ fut' = fut /\ reply' = reply
      BY <1>0, <2>2, AdvanceEffect DEF ReadLength, Requesting, server
    <3>2. QED
      BY <1>2, <1>3, <1>4, <2>0, <3>1
  <2>3. CASE Written
    <3>1. /\ op.phase \in Requesting /\ op'.node = op.node /\ fut' = fut /\ reply' = NoReply
      BY <1>0, <2>3, AdvanceEffect DEF Written, Requesting
    <3>2. QED
      BY <1>2, <1>3, <1>4, <2>0, <3>1, Nothing
  <2>4. CASE op.phase = "body" /\ Fulfil(reply.err, reply.names, reply.addr) /\ reply' = NoReply
    <3>1. op.phase \in Requesting /\ reply.err # "none"
      BY <1>0, <2>4 DEF Requests, Requesting
    <3>2. ~IsVoid(op.kind) /\ op'.phase \notin Requesting
      BY <1>4, <2>4, <3>1, FulfilEffect, Nothing DEF IsVoid, Requesting
    <3>3. fut'.ok = (reply.err = "ok") /\ fut'.names = reply.names
      BY <2>4, <3>2, FulfilEffect
    <3>4. QED
      BY <1>2, <1>3, <1>4, <2>0, <2>4, <3>1, <3>2, <3>3, Nothing
  <2>5. CASE op.phase \in {"writing", "len", "body"} /\ Fulfil("failed", <<>>, NoAddr) /\ reply' = NoReply
    <3>1. op.phase \in Requesting
      BY <2>5 DEF Requesting
    <3>2. ~IsVoid(op.kind) /\ op'.phase \notin Requesting
      BY <1>4, <2>5, <3>1, FulfilEffect, Nothing DEF IsVoid, Requesting
    <3>3. fut'.ok = ("failed" = "ok") /\ fut'.ready = TRUE /\ fut'.err = "failed"
      BY <2>5, <3>2, FulfilEffect
    <3>4. ~fut'.ok /\ cut'
      BY <1>2, <3>3
    <3>5. QED
      BY <1>3, <1>4, <2>0, <2>5, <3>2, <3>4, Nothing
  <2>6. ASSUME NEW from \in Handshaking, NEW to \in Handshaking, Advance(from, to)
        PROVE  op.phase \in Handshaking
    BY <1>0, <2>6, AdvanceEffect
  <2>7. QED
    BY <1>0, <1>7, <2>1, <2>2, <2>3, <2>4, <2>5, <2>6, HandlerKinds
<1>8. CASE Return
  <2>1. /\ op' = op /\ reply' = reply /\ fut' = NoFut /\ fut.ready
        /\ ret'.names = IF fut.ok THEN fut.names ELSE <<>>
    BY <1>8 DEF Return, Result, server
  <2>2. cut => Children(<<>>, seen, cut)
    BY SMTT(60) DEF Children, IsInjective
  <2>3. Children(ret'.names, seen', cut')
    BY <1>3, <1>4, <2>1, <2>2
  <2>4. QED
    BY <1>2, <1>3, <1>4, <2>1, <2>3, Nothing
<1>9. CASE Execute /\ UNCHANGED regVars
  <2>1. op' = op /\ fut' = fut /\ call' = call /\ ret' = ret /\ atServer # NoOp
    BY <1>9, ExecuteEffect DEF client, regVars
  <2>2. CASE reply' = reply
    BY <1>2, <1>3, <1>4, <2>1, <2>2
  <2>3. CASE atServer.xid = op.xid
    <3>1. op.phase \in Requesting /\ atServer.kind = op.kind /\ atServer.node = op.node
      BY <1>0, <2>1, <2>3 DEF Requests, Requesting
    <3>2. IF reply'.err = "ok" THEN Children(reply'.names, seen', cut') ELSE cut'
      BY <1>0, <1>1, <1>4, <1>9, <2>3, <3>1, ChildrenAnswered
    <3>3. QED
      BY <1>2, <1>3, <1>4, <2>1, <3>2
  <2>4. QED
    BY <1>9, <2>2, <2>3, ExecuteEffect
<1>10. CASE (Others \/ Lose \/ Expire) /\ UNCHANGED regVars
  <2>1. op' = op /\ fut' = fut /\ call' = call /\ ret' = ret /\ reply' = reply
    BY <1>10 DEF Others, Lose, Expire, client, server, regVars
  <2>2. QED
    BY <1>2, <1>3, <1>4, <2>1
<1>11. QED
  BY <1>7, <1>8, <1>9, <1>10

\* A step that is not the manager's, within the second half.
LEMMA LookingUpElsewhere ==
  ASSUME IInv, Wired, RefreshState, Record, mgr \in {"refresh_each", "select_each"},
         UNCHANGED mgrState,
         \/ Handlers /\ UNCHANGED regVars
         \/ Return
         \/ Execute /\ UNCHANGED regVars
         \/ (Others \/ Lose \/ Expire) /\ UNCHANGED regVars
  PROVE  LookingUp'
<1>0. /\ Operation /\ PendingExact /\ Calling /\ Requests /\ Watching
      /\ mgr' = mgr /\ services_path_' = services_path_ /\ found' = found /\ todo' = todo
  BY DEF IInv, Wired, RefreshState, mgrState
<1>1. Refreshing /\ Refreshing' /\ Asked(mgr) = "get_service" /\ mgr # "connect"
  BY <1>0 DEF Refreshing, Asked
<1>2. /\ seen \subseteq seen' /\ (cut => cut')
      /\ fut'.ready /\ fut'.err = "failed" => cut'
  BY <1>1, RecordSeen
<1>3. /\ \A n, a : Explained(n, a, seen, cut) => Explained(n, a, seen', cut')
      /\ \A ns : ExplainedList(ns, seen, cut) => ExplainedList(ns, seen', cut')
  BY <1>2, Grows
<1>4. PICK n : n = Head(todo)
  OBVIOUS
<1>5. /\ op.phase \in Requesting => op.node = Under(n) /\ op.kind = "get_data"
      /\ reply.err # "none" => Explained(n, IF reply.err = "ok" THEN reply.addr ELSE NoAddr, seen, cut)
      /\ fut.ready => Explained(n, IF fut.ok THEN fut.addr ELSE NoAddr, seen, cut)
      /\ call = "returned" => Explained(n, ret.addr, seen, cut)
  BY <1>0, <1>1, <1>4 DEF RefreshState, LookingUp, Calling, Kind
<1>6. /\ IsSeq(found) /\ ExplainedList(found, seen', cut')
      /\ todo \in Seq(Nodes) /\ IsInjective(todo)
      /\ \A i \in DOMAIN found, j \in DOMAIN todo : found[i].name # todo[j]
      /\ found = <<>> /\ todo = <<>> => (<<"empty">> \in seen' \/ cut')
      /\ call # "none" => todo # <<>>
  BY <1>2, <1>3 DEF RefreshState, LookingUp
<1>7. ASSUME NEW m PROVE Under(m)' = Under(m)
  BY <1>0 DEF Under
<1>8. SUFFICES
        /\ call' # "none" => call # "none"
        /\ op'.phase \in Requesting => op'.node = Under(n)
        /\ reply'.err # "none" =>
             Explained(n, IF reply'.err = "ok" THEN reply'.addr ELSE NoAddr, seen', cut')
        /\ fut'.ready => Explained(n, IF fut'.ok THEN fut'.addr ELSE NoAddr, seen', cut')
        /\ call' = "returned" => Explained(n, ret'.addr, seen', cut')
  BY <1>0, <1>4, <1>6, <1>7 DEF LookingUp
<1>9. CASE Handlers /\ UNCHANGED regVars
  <2>0. call' = call /\ ret' = ret
    BY <1>9 DEF regVars
  <2>1. CASE op.phase \in Handshaking
    BY <1>0, <1>1, <2>1 DEF Calling
  <2>2. CASE (Advance("posted", "writing") /\ UNCHANGED server) \/ ReadLength
    <3>1. /\ op.phase \in Requesting /\ op'.node = op.node /\ fut' = fut /\ reply' = reply
      BY <1>0, <2>2, AdvanceEffect DEF ReadLength, Requesting, server
    <3>2. QED
      BY <1>3, <1>5, <2>0, <3>1
  <2>3. CASE Written
    <3>1. /\ op.phase \in Requesting /\ op'.node = op.node /\ fut' = fut /\ reply' = NoReply
      BY <1>0, <2>3, AdvanceEffect DEF Written, Requesting
    <3>2. QED
      BY <1>3, <1>5, <2>0, <3>1, Nothing
  <2>4. CASE op.phase = "body" /\ Fulfil(reply.err, reply.names, reply.addr) /\ reply' = NoReply
    <3>1. op.phase \in Requesting /\ reply.err # "none"
      BY <1>0, <2>4 DEF Requests, Requesting
    <3>2. ~IsVoid(op.kind) /\ op'.phase \notin Requesting
      BY <1>5, <2>4, <3>1, FulfilEffect, Nothing DEF IsVoid, Requesting
    <3>3. fut'.ok = (reply.err = "ok") /\ fut'.addr = reply.addr
      <4>1. fut'.ok = (reply.err = "ok")
        BY <2>4, <3>2, FulfilEffect
      <4>2. fut'.addr = reply.addr
        BY <2>4 DEF Fulfil
      <4>3. QED
        BY <4>1, <4>2
    <3>4. QED
      BY <1>3, <1>5, <2>0, <2>4, <3>1, <3>2, <3>3, Nothing
  <2>5. CASE op.phase \in {"writing", "len", "body"} /\ Fulfil("failed", <<>>, NoAddr) /\ reply' = NoReply
    <3>1. op.phase \in Requesting
      BY <2>5 DEF Requesting
    <3>2. ~IsVoid(op.kind) /\ op'.phase \notin Requesting
      BY <1>5, <2>5, <3>1, FulfilEffect, Nothing DEF IsVoid, Requesting
    <3>3. /\ fut'.ok = ("failed" = "ok") /\ fut'.ready = TRUE /\ fut'.err = "failed"
          /\ fut'.addr = NoAddr
      BY <2>5, <3>2, FulfilEffect
    <3>4. cut'
      BY <1>2, <3>3
    <3>5. Explained(n, IF fut'.ok THEN fut'.addr ELSE NoAddr, seen', cut')
      BY <3>3, <3>4 DEF Explained
    <3>6. QED
      BY <1>3, <1>5, <2>0, <2>5, <3>2, <3>5, Nothing
  <2>6. ASSUME NEW from \in Handshaking, NEW to \in Handshaking, Advance(from, to)
        PROVE  op.phase \in Handshaking
    BY <1>0, <2>6, AdvanceEffect
  <2>7. QED
    BY <1>0, <1>9, <2>1, <2>2, <2>3, <2>4, <2>5, <2>6, HandlerKinds
<1>10. CASE Return
  <2>1. /\ op' = op /\ reply' = reply /\ fut' = NoFut /\ fut.ready /\ call # "none"
        /\ ret'.addr = IF fut.ok THEN fut.addr ELSE NoAddr
    BY <1>10 DEF Return, Result, server, Waiting
  <2>2. QED
    BY <1>3, <1>5, <2>1, Nothing
<1>11. CASE Execute /\ UNCHANGED regVars
  <2>1. op' = op /\ fut' = fut /\ call' = call /\ ret' = ret /\ atServer # NoOp
    BY <1>11, ExecuteEffect DEF client, regVars
  <2>2. CASE reply' = reply
    BY <1>3, <1>5, <2>1, <2>2
  <2>3. CASE atServer.xid = op.xid
    <3>1. op.phase \in Requesting /\ atServer.kind = op.kind /\ atServer.node = op.node
      BY <1>0, <2>1, <2>3 DEF Requests, Requesting
    <3>2. n \in Nodes
      <4>1. call # "none"
        BY <1>0, <3>1 DEF Calling, Waiting, Requesting
      <4>2. QED
        BY <1>4, <1>6, <4>1, SMTT(60)
    <3>3. Explained(n, IF reply'.err = "ok" THEN reply'.addr ELSE NoAddr, seen', cut')
      BY <1>0, <1>1, <1>5, <1>11, <2>3, <3>1, <3>2, AddressAnswered
    <3>4. QED
      BY <1>3, <1>5, <2>1, <3>3
  <2>4. QED
    BY <1>11, <2>2, <2>3, ExecuteEffect
<1>12. CASE (Others \/ Lose \/ Expire) /\ UNCHANGED regVars
  <2>1. op' = op /\ fut' = fut /\ call' = call /\ ret' = ret /\ reply' = reply
    BY <1>12 DEF Others, Lose, Expire, client, server, regVars
  <2>2. QED
    BY <1>3, <1>5, <2>1
<1>13. QED
  BY <1>9, <1>10, <1>11, <1>12

\* A step that is not the manager's.
LEMMA RefreshElsewhere ==
  ASSUME IInv, Wired, RefreshState, Record, UNCHANGED mgrState,
         \/ Handlers /\ UNCHANGED regVars
         \/ Return
         \/ Execute /\ UNCHANGED regVars
         \/ (Others \/ Lose \/ Expire) /\ UNCHANGED regVars
  PROVE  Listing' /\ LookingUp' /\ RefreshExplained'
<1>1. mgr' = mgr /\ nodes_' = nodes_
  BY DEF mgrState
<1>2. Listing'
  <2>1. CASE mgr \in {"refresh", "select"}
    BY <2>1, ListingElsewhere
  <2>2. CASE mgr \notin {"refresh", "select"}
    BY <1>1, <2>2 DEF Listing
  <2>3. QED
    BY <2>1, <2>2
<1>3. LookingUp'
  <2>1. CASE mgr \in {"refresh_each", "select_each"}
    BY <2>1, LookingUpElsewhere
  <2>2. CASE mgr \notin {"refresh_each", "select_each"}
    BY <1>1, <2>2 DEF LookingUp
  <2>3. QED
    BY <2>1, <2>2
<1>4. RefreshExplained'
  BY <1>1, RecordSeen DEF RefreshState, RefreshExplained
<1>5. QED
  BY <1>2, <1>3, <1>4

\* The manager begins a refresh.
LEMMA RefreshBegins ==
  ASSUME IInv, Wired, RefreshState, Record, refresh_nodes \/ SelectEmpty
  PROVE  Listing' /\ LookingUp' /\ RefreshExplained'
<1>1. /\ mgr' \in {"refresh", "select"} /\ found' = <<>> /\ services_path_' = services_path_
      /\ Call("get_children", Under("services"), NoAddr) /\ mgr = "idle"
  BY DEF refresh_nodes, SelectEmpty, BeginRefresh, Idle
<1>2. op.phase = "idle" /\ ~fut.ready /\ reply.err = "none"
  BY <1>1 DEF Wired, Calling, Waiting, Requests
<1>3. /\ reply' = reply /\ fut' = fut
      /\ op'.phase \in Requesting => op'.node = Under("services")
      /\ call' = "returned" => ret' = NoRet /\ ~connected_'
  BY <1>1, <1>2, CallEffect DEF Requesting
<1>4. call' = "returned" => cut' /\ ret'.names = <<>>
  <2>1. Refreshing'
    BY <1>1 DEF Refreshing
  <2>2. QED
    BY <1>3, <2>1, RecordSeen, Nothing
<1>5. cut' => Children(<<>>, seen', cut')
  BY SMTT(60) DEF Children, IsInjective
<1>6. Under("services")' = Under("services")
  BY <1>1 DEF Under
<1>7. Listing'
  BY <1>1, <1>2, <1>3, <1>4, <1>5, <1>6 DEF Listing
<1>8. QED
  BY <1>1, <1>7 DEF LookingUp, RefreshExplained

\* The children are there.
LEMMA RefreshLists ==
  ASSUME IInv, Wired, RefreshState, Record, Listed
  PROVE  Listing' /\ LookingUp' /\ RefreshExplained'
<1>1. /\ mgr \in {"refresh", "select"} /\ mgr' \in {"refresh_each", "select_each"}
      /\ todo' = ret.names /\ found' = found /\ call = "returned" /\ call' = "none"
      /\ UNCHANGED <<op, fut, reply>>
  BY DEF Listed, client, server
<1>2. op.phase = "idle" /\ ~fut.ready /\ reply.err = "none"
  BY <1>1 DEF Wired, Calling, Waiting, Requests
<1>3. found = <<>> /\ Children(ret.names, seen, cut)
  BY <1>1 DEF RefreshState, Listing
<1>4. seen \subseteq seen' /\ (cut => cut')
  BY <1>1, RecordSeen DEF Refreshing
<1>5. Children(ret.names, seen', cut')
  BY <1>3, <1>4, Grows
<1>6. IsSeq(<<>>) /\ ExplainedList(<<>>, seen', cut')
  BY SMTT(60) DEF IsSeq, ExplainedList
<1>7. /\ todo' \in Seq(Nodes) /\ IsInjective(todo')
      /\ todo' = <<>> => (<<"empty">> \in seen' \/ cut')
      /\ \A i \in DOMAIN found', j \in DOMAIN todo' : found'[i].name # todo'[j]
  BY <1>1, <1>3, <1>5, SMTT(60) DEF Children
<1>8. LookingUp'
  BY <1>1, <1>2, <1>3, <1>6, <1>7 DEF LookingUp, Requesting
<1>9. QED
  BY <1>1, <1>8 DEF Listing, RefreshExplained

\* The next child is looked up.
LEMMA RefreshLooks ==
  ASSUME IInv, Wired, RefreshState, Record, LookUp
  PROVE  Listing' /\ LookingUp' /\ RefreshExplained'
<1>1. /\ mgr \in {"refresh_each", "select_each"} /\ mgr' = mgr /\ todo' = todo /\ found' = found
      /\ services_path_' = services_path_ /\ call = "none" /\ todo # <<>>
  BY DEF LookUp, mgrState
<1>2. PICK n : n = Head(todo)
  OBVIOUS
<1>3. Call("get_service", Under(n), NoAddr)
  BY <1>2 DEF LookUp
<1>4. op.phase = "idle" /\ ~fut.ready /\ reply.err = "none"
  BY <1>1 DEF Wired, Calling, Waiting, Requests
<1>5. /\ reply' = reply /\ fut' = fut
      /\ op'.phase \in Requesting => op'.node = Under(n)
      /\ call' = "returned" => ret' = NoRet /\ ~connected_'
  BY <1>3, <1>4, CallEffect DEF Requesting
<1>6. seen \subseteq seen' /\ (cut => cut') /\ (~connected_' => cut')
  BY <1>1, RecordSeen DEF Refreshing
<1>7. call' = "returned" => Explained(n, ret'.addr, seen', cut')
  BY <1>5, <1>6, Nothing DEF Explained
<1>8. IsSeq(found) /\ ExplainedList(found, seen', cut')
  BY <1>1, <1>6, Grows DEF RefreshState, LookingUp
<1>9. Under(n)' = Under(n)
  BY <1>1 DEF Under
<1>10. /\ todo \in Seq(Nodes) /\ IsInjective(todo)
       /\ \A i \in DOMAIN found, j \in DOMAIN todo : found[i].name # todo[j]
  BY <1>1 DEF RefreshState, LookingUp
<1>11. LookingUp'
  BY <1>1, <1>2, <1>4, <1>5, <1>7, <1>8, <1>9, <1>10 DEF LookingUp
<1>12. QED
  BY <1>1, <1>11 DEF Listing, RefreshExplained

\* A sequence over any set is one over the set of its elements.
LEMMA SeqOfItself ==
  ASSUME NEW S, NEW ns \in Seq(S)
  PROVE  IsSeq(ns)
<1>1. Len(ns) \in Nat /\ DOMAIN ns = 1 .. Len(ns) /\ ns = [i \in 1 .. Len(ns) |-> ns[i]]
  BY SMTT(60)
<1>2. PICK T : T = {ns[i] : i \in DOMAIN ns}
  OBVIOUS
<1>3. \A i \in 1 .. Len(ns) : ns[i] \in T
  BY <1>1, <1>2
<1>4. ns \in Seq(T)
  BY <1>1, <1>3, SMTT(60)
<1>5. QED
  BY <1>2, <1>4 DEF IsSeq

\* A child was looked up.
LEMMA RefreshLooked ==
  ASSUME IInv, Wired, RefreshState, Record, LookedUp
  PROVE  Listing' /\ LookingUp' /\ RefreshExplained'
<1>1. /\ mgr \in {"refresh_each", "select_each"} /\ mgr' = mgr
      /\ todo' = Tail(todo) /\ call = "returned" /\ call' = "none"
      /\ found' = Append(found, [name |-> Head(todo), address |-> ret.addr, weight |-> 1])
      /\ UNCHANGED <<op, fut, reply>>
  BY DEF LookedUp, client, server
<1>2. op.phase = "idle" /\ ~fut.ready /\ reply.err = "none"
  BY <1>1 DEF Wired, Calling, Waiting, Requests
<1>3. seen \subseteq seen' /\ (cut => cut')
  BY <1>1, RecordSeen DEF Refreshing
<1>4. /\ ExplainedList(found, seen', cut') /\ Explained(Head(todo), ret.addr, seen', cut')
  BY <1>1, <1>3, Grows DEF RefreshState, LookingUp
<1>5. /\ todo \in Seq(Nodes) /\ todo # <<>>
      /\ \A i, j \in DOMAIN todo : todo[i] = todo[j] => i = j
      /\ \A i \in DOMAIN found, j \in DOMAIN todo : found[i].name # todo[j]
  BY <1>1 DEF RefreshState, LookingUp, IsInjective
<1>6. PICK n, a, e : n = Head(todo) /\ a = ret.addr /\ e = [name |-> n, address |-> a, weight |-> 1]
  OBVIOUS
<1>7. e.name = n /\ e.address = a
  BY <1>6
<1>8. PICK k \in Nat : /\ k = Len(found) /\ DOMAIN found = 1 .. k
                       /\ DOMAIN found' = 1 .. k + 1 /\ found'[k + 1] = e
                       /\ \A i \in 1 .. k : found'[i] = found[i]
                       /\ IsSeq(found')
  <2>1. PICK T : T = {found[i] : i \in DOMAIN found}
    OBVIOUS
  <2>2. found \in Seq(T)
    BY <1>1, <2>1 DEF RefreshState, LookingUp, IsSeq
  <2>3. found' = Append(found, e)
    BY <1>1, <1>6
  <2>4. found' \in Seq(T \cup {e})
    BY <2>2, <2>3, SMTT(60)
  <2>5. IsSeq(found')
    BY <2>4, SeqOfItself
  <2>6. QED
    BY <2>2, <2>3, <2>5, SMTT(60)
<1>9. PICK l \in Nat : /\ DOMAIN todo = 1 .. l + 1 /\ DOMAIN todo' = 1 .. l /\ todo[1] = n
                       /\ \A i \in 1 .. l : todo'[i] = todo[i + 1]
                       /\ todo' \in Seq(Nodes)
  <2>1. Len(todo) \in Nat \ {0}
    BY <1>5, SMTT(60)
  <2>2. PICK l \in Nat : Len(todo) = l + 1
    BY <2>1, SMTT(60)
  <2>3. QED
    BY <1>1, <1>5, <1>6, <2>2, SMTT(60)
<1>10. IsInjective(todo')
  <2> SUFFICES ASSUME NEW i \in 1 .. l, NEW j \in 1 .. l, todo'[i] = todo'[j] PROVE i = j
    BY <1>9 DEF IsInjective
  <2>1. todo[i + 1] = todo[j + 1] /\ i + 1 \in DOMAIN todo /\ j + 1 \in DOMAIN todo
    BY <1>9, SMTT(60)
  <2>2. i + 1 = j + 1
    BY <1>5, <2>1
  <2>3. QED
    BY <2>2, SMTT(60)
<1>11. \A i \in DOMAIN found', j \in DOMAIN todo' : found'[i].name # todo'[j]
  <2> SUFFICES ASSUME NEW i \in 1 .. k + 1, NEW j \in 1 .. l PROVE found'[i].name # todo'[j]
    BY <1>8, <1>9
  <2>1. todo'[j] = todo[j + 1] /\ j + 1 \in DOMAIN todo /\ 1 \in DOMAIN todo
    BY <1>9, SMTT(60)
  <2>2. todo'[j] # n
    <3>1. j + 1 # 1
      BY SMTT(60)
    <3>2. todo[j + 1] # todo[1]
      BY <1>5, <2>1, <3>1
    <3>3. QED
      BY <1>9, <2>1, <3>2
  <2>3. CASE i = k + 1
    BY <1>7, <1>8, <2>2, <2>3
  <2>4. CASE i \in 1 .. k
    BY <1>5, <1>8, <2>1, <2>4, SMTT(60)
  <2>5. QED
    BY <2>3, <2>4, SMTT(60)
<1>12. ExplainedList(found', seen', cut')
  <2>1. ASSUME NEW i \in 1 .. k + 1 PROVE Explained(found'[i].name, found'[i].address, seen', cut')
    <3>1. CASE i = k + 1
      BY <1>4, <1>6, <1>7, <1>8, <3>1
    <3>2. CASE i \in 1 .. k
      BY <1>4, <1>8, <3>2 DEF ExplainedList
    <3>3. QED
      BY <3>1, <3>2, SMTT(60)
  <2>2. \A i \in 1 .. k : found[i].name # n
    BY <1>5, <1>8, <1>9, SMTT(60)
  <2>3. ASSUME NEW i \in 1 .. k + 1, NEW j \in 1 .. k + 1, found'[i].name = found'[j].name
        PROVE  i = j
    <3>1. CASE i \in 1 .. k /\ j \in 1 .. k
      BY <1>4, <1>8, <2>3, <3>1 DEF ExplainedList
    <3>2. CASE i = k + 1 \/ j = k + 1
      BY <1>7, <1>8, <2>2, <2>3, <3>2, SMTT(60)
    <3>3. QED
      BY <3>1, <3>2, SMTT(60)
  <2>4. QED
    BY <1>8, <2>1, <2>3 DEF ExplainedList
<1>13. found' # <<>>
  BY <1>8, SMTT(60)
<1>14. LookingUp'
  BY <1>1, <1>2, <1>8, <1>9, <1>10, <1>11, <1>12, <1>13 DEF LookingUp, Requesting
<1>15. QED
  BY <1>1, <1>14 DEF Listing, RefreshExplained

\* All children were looked up.
LEMMA RefreshEnds ==
  ASSUME IInv, Wired, RefreshState, Record, Refreshed
  PROVE  Listing' /\ LookingUp' /\ RefreshExplained'
<1>1. /\ mgr \in {"refresh_each", "select_each"} /\ mgr' \in {"pick", "refreshed"}
      /\ nodes_' = found /\ todo = <<>>
  BY DEF Refreshed
<1>2. seen' = seen /\ cut' = cut
  BY <1>1, RecordSeen
<1>3. ExplainedList(found, seen, cut) /\ (found = <<>> => (<<"empty">> \in seen \/ cut))
  BY <1>1 DEF RefreshState, LookingUp
<1>4. RefreshExplained'
  BY <1>1, <1>2, <1>3 DEF RefreshExplained, ExplainedList, Explained
<1>5. QED
  BY <1>1, <1>4 DEF Listing, LookingUp

\* Every step of the manager.
LEMMA ManagerRefresh ==
  ASSUME IInv, Wired, RefreshState, Record, Manager
  PROVE  Listing' /\ LookingUp' /\ RefreshExplained'
<1>1. CASE connect_zk \/ register_node \/ unregister_node \/ node_exists \/ list_node_names
           \/ get_node_data \/ Finish \/ set_services_path \/ init_zk_paths \/ InitPath \/ Select
           \/ set_balancer_strategy
  <2>1. mgr' \in {"idle", "connect", "register_service", "unregister_service", "node_exists",
                  "get_children", "get_node_data", "mkroot", "mkservices"}
    BY <1>1 DEF connect_zk, register_node, unregister_node, node_exists, list_node_names,
       get_node_data, Ask, Finish, set_services_path, init_zk_paths, InitPath, Select,
       set_balancer_strategy, Idle, mgrState
  <2>2. QED
    BY <2>1 DEF Listing, LookingUp, RefreshExplained
<1>2. CASE refresh_nodes \/ SelectEmpty
  BY <1>2, RefreshBegins
<1>3. CASE Listed
  BY <1>3, RefreshLists
<1>4. CASE LookUp
  BY <1>4, RefreshLooks
<1>5. CASE LookedUp
  BY <1>5, RefreshLooked
<1>6. CASE Refreshed
  BY <1>6, RefreshEnds
<1>7. QED
  BY <1>1, <1>2, <1>3, <1>4, <1>5, <1>6 DEF Manager

\* Every step.
LEMMA RefreshStep == IInv /\ Wired /\ RefreshState /\ [NmNext]_vars => RefreshState'
<1> SUFFICES ASSUME IInv, Wired, RefreshState, [NmNext]_vars PROVE RefreshState'
  OBVIOUS
<1>0. Watching'
  BY WatchingStep DEF RefreshState
<1> SUFFICES Listing' /\ LookingUp' /\ RefreshExplained'
  BY <1>0 DEF RefreshState
<1>1. CASE Manager /\ UNCHANGED <<guarded, churn, user>> /\ Record
  BY <1>1, ManagerRefresh
<1>2. CASE Poll
  BY <1>2, RefreshElsewhere DEF Poll
<1>3. CASE Serve
  BY <1>3, RefreshElsewhere DEF Serve
<1>4. CASE World
  BY <1>4, RefreshElsewhere DEF World
<1>5. CASE UNCHANGED <<zkVars, regVars, user, mgrState, history>>
  <2>1. UNCHANGED <<mgr, op, reply, fut, call, ret, services_path_, found, todo, nodes_, seen, cut>>
    BY <1>5 DEF zkVars, regVars, mgrState, client, server, history
  <2>2. ASSUME NEW n PROVE Under(n)' = Under(n)
    BY <2>1 DEF Under
  <2>3. QED
    BY <2>1, <2>2 DEF RefreshState, Listing, LookingUp, RefreshExplained
<1>6. QED
  BY <1>1, <1>2, <1>3, <1>4, <1>5 DEF NmNext, vars

-------------------------------------------------------------------------------
(* The theorems *)

\* Initially no operation is outstanding, nothing is registered and nothing listed.
LEMMA DiscoveryBegins ==
  ASSUME NmInit
  PROVE  Wired /\ Registration /\ RefreshState
<1>1. RegInit /\ ZkInit
  BY DEF NmInit, RegInit
<1>2. /\ op = NoOp /\ fut = NoFut /\ reply = NoReply /\ atServer = NoOp /\ xid_ = 1
      /\ dirs \in {0, 2} /\ session = "none"
  BY <1>1 DEF ZkInit
<1>3. /\ call = "none" /\ mgr = "idle" /\ services_path_ = "services" /\ registered = {}
      /\ found = <<>> /\ nodes_ = <<>>
  BY <1>1 DEF NmInit, RegInit
<1>4. Tree
  <2>1. PICK free \in IF dirs = 2 THEN {{}, {CHOOSE n \in Nodes : TRUE}} ELSE {Nodes}, a \in Addrs :
          tree = [n \in Nodes |-> IF n \in free THEN Absent ELSE [addr |-> a, owner |-> "other"]]
    BY <1>1 DEF ZkInit
  <2>2. QED
    BY <2>1 DEF Tree
<1>5. Calling
  BY <1>2, <1>3, Nothing DEF Calling, Waiting, Handshaking, Requesting
<1>6. Requests
  <2>1. op.xid = 0 /\ op.phase = "idle" /\ reply.err = "none"
    BY <1>2, Nothing
  <2>2. xid_ \in Nat \ {0} /\ 0 \in 0 .. xid_ - 1
    BY <1>2, SMTT(60)
  <2>3. QED
    BY <1>2, <2>1, <2>2 DEF Requests, Requesting
<1>7. Registration
  BY <1>2, <1>3, Nothing DEF Registration
<1>8. RefreshState
  BY <1>2, <1>3, SMTT(60) DEF RefreshState, Watching, Listing, LookingUp, RefreshExplained, Refreshing
<1>9. QED
  BY <1>4, <1>5, <1>6, <1>7, <1>8 DEF Wired

\* The inductive invariants of registration and refresh hold of every behaviour.
THEOREM DiscoveryInvariant == NmSpec => [](Wired /\ Registration /\ RefreshState)
<1> DEFINE J == Wired /\ Registration /\ RefreshState
<1>1. NmInit => J
  BY DiscoveryBegins
<1>2. IInv /\ J /\ [NmNext]_vars => J'
  BY WiredStep, RegistrationStep, RefreshStep
<1>3. QED
  BY <1>1, <1>2, NodeManagerInvariant, PTL DEF NmSpec

\* What register_node said it had registered is registered, with its address, until it
\* is unregistered or the session ends, whatever is lost or abandoned meanwhile.
THEOREM RegistrationStays == NmSpec => []RegisteredStays
<1>1. Registration => RegisteredStays
  BY DEF Registration, RegisteredStays
<1>2. QED
  BY <1>1, DiscoveryInvariant, PTL

\* Every list that a refresh returns is explained by what ZooKeeper held while it ran.
THEOREM RefreshIsExplained == NmSpec => []RefreshExplained
<1>1. RefreshState => RefreshExplained
  BY DEF RefreshState
<1>2. QED
  BY <1>1, DiscoveryInvariant, PTL
===============================================================================
