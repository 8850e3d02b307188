---------------------------- MODULE ServiceRegistry ----------------------------
(***************************************************************************)
(* rpc::ServiceRegistry (src/registry/service_registry.cpp): each member   *)
(* function starts one operation of the zk_client, polls the io_context    *)
(* until its future is ready (call names the function meanwhile) and       *)
(* returns a value taken from the result (ret, when call is "returned").   *)
(***************************************************************************)
EXTENDS ZkClient

VARIABLES
  connected_,
  call, \* "none", the function that waits, or "returned"
  ret   \* [ok, names, addr, err]: what a function returns, be it bool, vector or string; err is the
        \* message it leaves in the log

regVars == <<connected_, call, ret>>

NoRet == [ok |-> FALSE, names |-> <<>>, addr |-> NoAddr, err |-> "none"]

RegInit == ZkInit /\ connected_ = FALSE /\ call = "none" /\ ret = NoRet

Waiting == call \notin {"none", "returned"}

connect_registry ==
  /\ connect
  /\ call' = "connect"
  /\ UNCHANGED <<connected_, ret, server>>

\* The operation that a function performs.
Kind(fn) ==
  CASE fn = "get_children"       -> "get_children"
    [] fn = "get_node_data"      -> "get_data"
    [] fn = "get_service"        -> "get_data"
    [] fn = "node_exists"        -> "exists"
    [] fn = "register_service"   -> "create"
    [] fn = "unregister_service" -> "remove"
    [] OTHER                     -> fn \* create_persistent_node: "mkroot", "mkservices"

\* Call a function: without a connection it returns at once.
Call(fn, node, addr) ==
  /\ IF connected_
     THEN send_request(Kind(fn), node, addr) /\ call' = fn /\ UNCHANGED ret
     ELSE call' = "returned" /\ ret' = NoRet /\ UNCHANGED client
  /\ UNCHANGED <<connected_, server>>

\* create_persistent_node takes an existing node for success.
Succeeded(fn) == fut.ok \/ (fn \in {"mkroot", "mkservices"} /\ fut.err = "node_exists")

\* Fault: register_service tolerates an existing node as well.
Fault_Result(fn) ==
  [err   |-> fut.err,
   ok    |-> fut.ok \/ fut.err = "node_exists",
   names |-> IF fut.ok THEN fut.names ELSE <<>>,
   addr  |-> IF fut.ok THEN fut.addr ELSE NoAddr]

Result(fn) ==
  [err   |-> fut.err,
   ok    |-> Succeeded(fn),
   names |-> IF fut.ok THEN fut.names ELSE <<>>,
   addr  |-> IF fut.ok THEN fut.addr ELSE NoAddr]

\* wait_for() finds the future ready.
Return ==
  /\ Waiting /\ fut.ready
  /\ ret' = Result(call)
  /\ connected_' = IF call = "connect" THEN fut.ok ELSE connected_
  /\ call' = "returned"
  /\ fut' = NoFut \* get() takes the value
  /\ UNCHANGED <<sock_, pending_, xid_, session_id_, op, settles, iosStopped, server>>

-------------------------------------------------------------------------------
(* Properties *)

\* Every call of a registry function that waits for its future gets it
\* (service_registry.cpp:20, poll the io_context until the future completes):
\* whatever is lost, refused or expired meanwhile, the promise is satisfied.
CallsReturn == Waiting ~> ~Waiting
===============================================================================
