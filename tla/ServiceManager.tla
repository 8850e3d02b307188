---------------------------- MODULE ServiceManager ----------------------------
(***************************************************************************)
(* rpc::ServiceManager (src/service/service_manager.cpp): the map from     *)
(* names to service objects.  A function is one action, under mutex_.      *)
(* An object is the number of its registration; dispatch() holds on to the *)
(* object get_service() gave it, whatever happens to the map afterwards.   *)
(***************************************************************************)
EXTENDS Naturals, Sequences, FiniteSets

CONSTANTS
  MaxRegs, \* bound on the registrations
  Changing \* the names registered and unregistered while requests are served

Names == {"PingService", "UserService"}

ASSUME RegsAssumption == MaxRegs \in Nat \ {0, 1} /\ Changing \subseteq Names

NoService == 0

VARIABLES
  services_, \* name -> object, or NoService
  regs       \* how many objects were registered

smVars == <<services_, regs>>

\* Before the server starts, server_main.cpp registers PingService, and a program
\* like it a service of its own.
SmInit ==
  /\ services_ = [n \in Names |-> IF n = "PingService" THEN 1 ELSE 2]
  /\ regs = 2

\* Registers an object under its name, in the place of the one that was there.
register_service(name) ==
  /\ regs < MaxRegs
  /\ regs' = regs + 1
  /\ services_' = [services_ EXCEPT ![name] = regs + 1]

unregister_service(name) ==
  /\ services_[name] # NoService
  /\ services_' = [services_ EXCEPT ![name] = NoService]
  /\ UNCHANGED regs

\* Fault: the first object found under a name is remembered.
Fault_get_service(name) == IF name \in Names THEN IF name = "PingService" THEN 1 ELSE 2 ELSE NoService

get_service(name) == IF name \in Names THEN services_[name] ELSE NoService

\* methods() of the objects: PingService, and a service some program adds.
methods(name) == IF name = "PingService" THEN {"Ping", "Stats"} ELSE {"Work"}
===============================================================================
