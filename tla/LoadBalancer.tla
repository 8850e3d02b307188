----------------------------- MODULE LoadBalancer -----------------------------
(***************************************************************************)
(* rpc::LoadBalancer and its strategies (src/conn_balancer).  strategy_ is *)
(* the name of the strategy object and counter_ the member of a            *)
(* RoundRobinStrategy.  A random number is any number of its range.        *)
(***************************************************************************)
EXTENDS Integers, Sequences, FiniteSets

CONSTANTS
  Endpoints, \* the [name, address, weight] that may be listed
  MaxNodes,  \* bound on the length of the list
  MaxPicks   \* bound on counter_, and on the selections from one list

\* The code has no use for a negative weight; NodeManager sets 1.
ASSUME LbAssumption == \A ep \in Endpoints : ep.weight \in Nat

VARIABLES
  strategy_, counter_, lbNodes, \* members; lbNodes is LoadBalancer::nodes_
  picks                         \* history: indices that round robin picked since the list changed

lbVars == <<strategy_, counter_, lbNodes, picks>>

Strategies == {"round_robin", "random", "weighted"}

create_strategy(name) == IF name \in {"random", "weighted"} THEN name ELSE "round_robin"

LbInit == strategy_ = "round_robin" /\ counter_ = 0 /\ lbNodes = <<>> /\ picks = <<>>

\* The list becomes ns under a new strategy object called name.
Renew(ns, name) ==
  /\ lbNodes' = ns /\ strategy_' = create_strategy(name)
  /\ counter_' = 0 /\ picks' = <<>>

set_strategy(name) == Renew(lbNodes, name)

\* set_nodes and sync_nodes both reset(): the strategy is rebuilt by its name.
set_nodes(ns) == Renew(ns, strategy_)

sync_nodes(ns) == Renew(ns, strategy_)

add_node(ep) == lbNodes' = Append(lbNodes, ep) /\ picks' = <<>> /\ UNCHANGED <<strategy_, counter_>>

\* The index of the first node with that name, or 0.
find(name) ==
  LET is == {i \in DOMAIN lbNodes : lbNodes[i].name = name}
  IN IF is = {} THEN 0 ELSE CHOOSE i \in is : \A j \in is : i <= j

\* remove_node erases that one; without one it changes nothing.
remove_node(name) ==
  /\ find(name) # 0
  /\ lbNodes' = SubSeq(lbNodes, 1, find(name) - 1) \o SubSeq(lbNodes, find(name) + 1, Len(lbNodes))
  /\ picks' = <<>>
  /\ UNCHANGED <<strategy_, counter_>>

-------------------------------------------------------------------------------
(* select *)

\* The weight of the first i nodes together.
Weight[i \in 0 .. Len(lbNodes)] == IF i = 0 THEN 0 ELSE Weight[i - 1] + lbNodes[i].weight

Total == Weight[Len(lbNodes)]

\* Fault: r is compared with <=.
Fault_WeightedIndex(r) ==
  CHOOSE i \in DOMAIN lbNodes : r <= Weight[i] /\ \A j \in 1 .. i - 1 : Weight[j] < r

\* The node whose share of 0 .. Total - 1 holds r.
WeightedIndex(r) ==
  CHOOSE i \in DOMAIN lbNodes : r < Weight[i] /\ \A j \in 1 .. i - 1 : Weight[j] <= r

\* Fault: the counter is advanced only when it wraps to the first node.
Fault_RoundRobin(i) ==
  /\ i = (counter_ % Len(lbNodes)) + 1
  /\ counter_' = IF i = 1 THEN counter_ + 1 ELSE counter_

RoundRobin(i) == i = (counter_ % Len(lbNodes)) + 1 /\ counter_' = counter_ + 1

Random(i) == i \in DOMAIN lbNodes /\ UNCHANGED counter_

Weighted(i) == (\E r \in 0 .. Total - 1 : i = WeightedIndex(r)) /\ UNCHANGED counter_

\* The strategy has something to select from; otherwise it throws.
CanSelect == lbNodes # <<>> /\ (strategy_ = "weighted" => Total > 0)

\* select() returns the i-th node.
select(i) ==
  /\ CanSelect
  /\ \/ strategy_ = "round_robin" /\ RoundRobin(i)
     \/ strategy_ = "random" /\ Random(i)
     \/ strategy_ = "weighted" /\ Weighted(i)
  /\ picks' = IF strategy_ = "round_robin" THEN Append(picks, i) ELSE picks
  /\ UNCHANGED <<strategy_, lbNodes>>

\* A program that uses the balancer by itself.
LbNext ==
  \/ \E name \in Strategies \cup {"other"} : set_strategy(name)
  \/ \E ep, eq \in Endpoints : set_nodes(<<ep, eq>>) \/ sync_nodes(<<ep>>)
  \/ Len(lbNodes) < MaxNodes /\ \E ep \in Endpoints : add_node(ep)
  \/ \E ep \in Endpoints : remove_node(ep.name)
  \/ Len(picks) < MaxPicks /\ counter_ < MaxPicks /\ \E i \in DOMAIN lbNodes : select(i)

LbSpec == LbInit /\ [][LbNext]_lbVars

-------------------------------------------------------------------------------
(* Properties *)

Picked(i) == Cardinality({k \in DOMAIN picks : picks[k] = i})

\* conn_balancer.md:60, round robin is a strict rotation: the numbers of times that
\* two nodes of an unchanged list were picked differ by at most one, also when
\* add_node or remove_node has left the counter in the middle of a round.
StrictRotation ==
  strategy_ = "round_robin" =>
    \A i, j \in DOMAIN lbNodes : Picked(i) <= Picked(j) + 1

\* The weighted strategy gives every node exactly its weight's share of the random
\* numbers, so a node of weight zero is never picked.
WeightedShare ==
  \A i \in DOMAIN lbNodes :
    Cardinality({r \in 0 .. Total - 1 : WeightedIndex(r) = i}) = lbNodes[i].weight
===============================================================================
