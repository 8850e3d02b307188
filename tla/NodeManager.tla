------------------------------ MODULE NodeManager ------------------------------
(***************************************************************************)
(* rpc::NodeManager (src/registry/node_manager.cpp): service discovery     *)
(* by a ServiceRegistry, selection by a LoadBalancer.  mgr names the       *)
(* member function that is waiting for a registry function.  The           *)
(* specification also covers a program that uses a LoadBalancer by itself. *)
(***************************************************************************)
EXTENDS ServiceRegistry, LoadBalancer

CONSTANTS
  MaxWeight,  \* bound on the weights in a balancer used by itself
  MaxSelects  \* bound on the selections from one refresh

VARIABLES
  user,           \* "manager" or "balancer"
  mgr,            \* "idle", or the function in progress
  services_path_, \* "services" or Nowhere
  nodes_,         \* the cache
  arg,            \* the node and address that function was given
  todo, found,    \* list_services: names still to look up, endpoints so far
  \* history, of the last refresh and the last register_node
  seen,           \* the <<node, address>> and <<"empty">> that were true meanwhile
  cut,            \* an operation failed, or there was no connection
  registered      \* what register_node returned true for, and nothing undid

mgrState == <<mgr, arg, services_path_, nodes_, todo, found>>
history  == <<seen, cut, registered>>
vars     == <<zkVars, regVars, lbVars, user, mgrState, history>>

MgrEndpoints == [name : Nodes, address : {CHOOSE a \in Addrs : TRUE}, weight : 0 .. MaxWeight]

NmInit ==
  /\ RegInit /\ LbInit
  /\ user \in {"manager", "balancer"}
  /\ user = "balancer" => dirs = 0 \* it has no server
  /\ mgr = "idle" /\ arg = <<>> /\ services_path_ = "services" /\ nodes_ = <<>>
  /\ todo = <<>> /\ found = <<>>
  /\ seen = {} /\ cut = FALSE /\ registered = {}

\* The path of a node under services_path_.
Under(n) == IF services_path_ = "services" THEN n ELSE Nowhere

Idle    == user = "manager" /\ mgr = "idle"
Resumes(fn) == mgr = fn /\ call = "returned"

-------------------------------------------------------------------------------
(* Functions with one registry call *)

connect_zk ==
  /\ Idle /\ mgr' = "connect"
  /\ connect_registry
  /\ UNCHANGED <<lbVars, arg, services_path_, nodes_, todo, found>>

Ask(fn, node, addr) ==
  /\ Idle /\ mgr' = fn /\ arg' = <<node, addr>>
  /\ Call(fn, node, addr)
  /\ UNCHANGED <<lbVars, services_path_, nodes_, todo, found>>

register_node   == \E n \in Nodes, a \in Addrs : Ask("register_service", Under(n), a)
unregister_node == \E n \in Nodes : Ask("unregister_service", Under(n), NoAddr)
node_exists     == \E n \in Nodes : Ask("node_exists", n, NoAddr)
list_node_names == Ask("get_children", Under("services"), NoAddr)
get_node_data   == \E n \in Nodes : Ask("get_node_data", n, NoAddr)

Simple == {"connect", "register_service", "unregister_service", "node_exists",
           "get_children", "get_node_data", "mkservices"}

\* Such a function returns what the registry returned.
Finish ==
  /\ \/ mgr \in Simple /\ call = "returned"
     \/ mgr = "refreshed"
  /\ mgr' = "idle" /\ arg' = <<>>
  /\ call' = "none" /\ ret' = NoRet
  /\ UNCHANGED <<client, server, connected_, lbVars, services_path_, nodes_, todo, found>>

set_services_path ==
  /\ Idle
  /\ \E p \in {"services", Nowhere} : p # services_path_ /\ services_path_' = p
  /\ UNCHANGED <<client, server, regVars, lbVars, arg, mgr, nodes_, todo, found>>

\* init_zk_paths("/rpc/services"): the root, then the path, whatever comes back.
init_zk_paths ==
  /\ Idle /\ mgr' = "mkroot"
  /\ services_path_' = "services"
  /\ Call("mkroot", "", NoAddr)
  /\ UNCHANGED <<lbVars, arg, nodes_, todo, found>>

InitPath ==
  /\ Resumes("mkroot") /\ mgr' = "mkservices"
  /\ Call("mkservices", "", NoAddr)
  /\ UNCHANGED <<lbVars, arg, services_path_, nodes_, todo, found>>

-------------------------------------------------------------------------------
(* refresh_nodes and select_node *)

\* Fault: the cache is not cleared.
Fault_BeginRefresh(fn) ==
  /\ Idle /\ mgr' = fn
  /\ UNCHANGED nodes_ /\ found' = nodes_
  /\ Call("get_children", Under("services"), NoAddr)
  /\ UNCHANGED <<lbVars, arg, services_path_, todo>>

\* The beginning of refresh_nodes, on behalf of fn.
BeginRefresh(fn) ==
  /\ Idle /\ mgr' = fn
  /\ nodes_' = <<>> /\ found' = <<>>
  /\ Call("get_children", Under("services"), NoAddr)
  /\ UNCHANGED <<lbVars, arg, services_path_, todo>>

refresh_nodes == BeginRefresh("refresh")

Refreshing == mgr \in {"refresh", "select", "refresh_each", "select_each"}

\* list_services: the children are there; look each up in turn.
Listed ==
  /\ call = "returned" /\ mgr \in {"refresh", "select"}
  /\ mgr' = IF mgr = "refresh" THEN "refresh_each" ELSE "select_each"
  /\ todo' = ret.names
  /\ call' = "none" /\ ret' = NoRet
  /\ UNCHANGED <<client, server, connected_, lbVars, arg, services_path_, nodes_, found>>

LookUp ==
  /\ mgr \in {"refresh_each", "select_each"} /\ call = "none" /\ todo # <<>>
  /\ Call("get_service", Under(Head(todo)), NoAddr)
  /\ UNCHANGED <<lbVars, mgrState>>

\* The weight is always 1.
LookedUp ==
  /\ mgr \in {"refresh_each", "select_each"} /\ call = "returned"
  /\ found' = Append(found, [name |-> Head(todo), address |-> ret.addr, weight |-> 1])
  /\ todo' = Tail(todo)
  /\ call' = "none" /\ ret' = NoRet
  /\ UNCHANGED <<client, server, connected_, lbVars, arg, mgr, services_path_, nodes_>>

\* Fault: the balancer keeps its old list.
Fault_Refreshed ==
  /\ mgr \in {"refresh_each", "select_each"} /\ call = "none" /\ todo = <<>>
  /\ nodes_' = found /\ UNCHANGED lbVars
  /\ mgr' = IF mgr = "refresh_each" THEN "refreshed" ELSE "pick"
  /\ found' = <<>>
  /\ UNCHANGED <<client, server, regVars, arg, services_path_, todo>>

Refreshed ==
  /\ mgr \in {"refresh_each", "select_each"} /\ call = "none" /\ todo = <<>>
  /\ nodes_' = found /\ set_nodes(found)
  /\ mgr' = IF mgr = "refresh_each" THEN "refreshed" ELSE "pick"
  /\ found' = <<>>
  /\ UNCHANGED <<client, server, regVars, arg, services_path_, todo>>

\* select_node refreshes an empty cache first.
SelectEmpty == nodes_ = <<>> /\ BeginRefresh("select")

\* balancer_.select(); it throws when there is nothing to select from.
Select ==
  /\ mgr = "pick" \/ (Idle /\ nodes_ # <<>>)
  /\ Len(picks) < MaxSelects
  /\ mgr' = "idle"
  /\ \/ \E i \in DOMAIN lbNodes : select(i)
     \/ ~CanSelect /\ UNCHANGED lbVars
  /\ UNCHANGED <<client, server, regVars, arg, services_path_, nodes_, todo, found>>

\* With all weights 1, "random" selects as "weighted" does.
set_balancer_strategy ==
  /\ Idle
  /\ \E name \in {"round_robin", "weighted"} : name # strategy_ /\ Renew(nodes_, name)
  /\ UNCHANGED <<client, server, regVars, mgrState>>

-------------------------------------------------------------------------------
\* What holds of the service nodes at this moment.
Now == {<<n, tree[n].addr>> : n \in Nodes} \cup (IF Present = {} THEN {<<"empty">>} ELSE {})

Record ==
  /\ seen' = IF mgr' = "idle" THEN {} ELSE IF Refreshing' THEN seen \cup Now \cup Now' ELSE seen
  /\ cut' = IF mgr' = "idle" THEN FALSE ELSE IF ~Refreshing' THEN cut
            ELSE \/ cut
                 \/ ~connected_' \/ services_path_' = Nowhere \/ dirs < 2
                 \/ fut'.ready /\ fut'.err = "failed"
  /\ registered' =
       IF session' # "live" THEN {}
       ELSE IF mgr = "register_service" /\ mgr' = "idle" /\ ret.ok THEN registered \cup {arg}
       ELSE IF mgr' = "unregister_service" THEN {r \in registered : r[1] # arg'[1]}
       ELSE registered

Manager ==
  \/ connect_zk \/ register_node \/ unregister_node \/ node_exists \/ list_node_names
  \/ get_node_data \/ Finish \/ set_services_path \/ init_zk_paths \/ InitPath
  \/ refresh_nodes \/ Listed \/ LookUp \/ LookedUp \/ Refreshed \/ SelectEmpty \/ Select
  \/ set_balancer_strategy

\* The polling loop runs a handler, or finds the future ready.
Poll ==
  /\ (Handlers /\ UNCHANGED regVars) \/ Return
  /\ UNCHANGED <<guarded, churn, lbVars, user, mgrState>>
  /\ Record

Serve == Execute /\ UNCHANGED <<regVars, lbVars, user, mgrState>> /\ Record

World ==
  /\ user = "manager"
  /\ Others \/ Lose \/ Expire
  /\ UNCHANGED <<regVars, lbVars, user, mgrState>>
  /\ Record

NmNext ==
  \/ Manager /\ UNCHANGED <<guarded, churn, user>> /\ Record
  \/ Poll \/ Serve \/ World
  \/ user = "balancer" /\ LbNext /\ UNCHANGED <<zkVars, regVars, user, mgrState, history>>

NmSpec == NmInit /\ [][NmNext]_vars

\* The polling loop runs what is ready; the server executes what it received.
FairSpec == NmSpec /\ WF_vars(Poll) /\ WF_vars(Serve)

-------------------------------------------------------------------------------
(* Properties *)

\* A list that refresh_nodes returned is explained by what ZooKeeper held while it
\* ran: an endpoint has an address its node had at some moment of the refresh, an
\* empty one only if the node was gone at some moment or an operation failed, and
\* no name is listed twice.  So select_node throws, its list being empty after the
\* refresh, only if no service was registered at some moment, there was no
\* connection or an operation failed.
RefreshExplained ==
  mgr \in {"pick", "refreshed"} =>
        /\ \A i \in DOMAIN nodes_ :
             \/ <<nodes_[i].name, nodes_[i].address>> \in seen
             \/ nodes_[i].address = NoAddr /\ cut
        /\ \A i, j \in DOMAIN nodes_ : nodes_[i].name = nodes_[j].name => i = j
        /\ nodes_ = <<>> => (<<"empty">> \in seen \/ cut)

\* The balancer selects from the cache: between two calls the two lists agree,
\* whichever of refresh_nodes, select_node and set_balancer_strategy came last.
CacheInSync == Idle => lbNodes = nodes_

\* What register_node said it had registered is registered, with its address,
\* until it is unregistered or the session ends.
RegisteredStays ==
  session = "live" =>
    \A r \in registered : r[1] \in Nodes => tree[r[1]] = [addr |-> r[2], owner |-> "us"]
===============================================================================
