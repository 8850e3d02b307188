-------------------------------- MODULE Globals --------------------------------
(***************************************************************************)
(* The two globals behind a std::once_flag: the logger                     *)
(* (src/load_config/log_init.cpp) and the pool of ThreadPoolSingleton      *)
(* (src/thread_pool/thread_pool_singleton.cpp), used by several threads.   *)
(* call_once lets one thread run the initializer while the others wait; an *)
(* exception makes the flag fresh again.                                   *)
(***************************************************************************)
EXTENDS Naturals, FiniteSets

CONSTANTS
  Threads,
  MaxUses \* bound on the calls

VARIABLES
  what,      \* "logger" or "pool"
  first,     \* the program initializes it before it starts its threads
  once,      \* the flag: "fresh", "running", "done"
  ptr,       \* g_logger or pool_: "null", "partial", "complete"
  made,      \* how many objects were made
  failed,    \* how many initializers threw after they had assigned the pointer
  down,      \* shutdown() was called
  tpc,       \* each thread: "idle", "enter" (call_once), "build", "configure",
             \* "get" (take the pointer), "threw"
  gets,      \* each thread is to take the pointer after call_once
  held,      \* what the thread took: "nothing", or a value of ptr
  uses

globVars == <<what, first, once, ptr, made, failed, down, tpc, gets, held, uses>>

GlobInit ==
  /\ what \in {"logger", "pool"} /\ first \in BOOLEAN
  /\ once = IF first THEN "done" ELSE "fresh"
  /\ ptr = IF first THEN "complete" ELSE "null"
  /\ made = (IF first THEN 1 ELSE 0) /\ failed = 0
  /\ down = FALSE /\ uses = 0
  /\ tpc = [t \in Threads |-> "idle"]
  /\ gets = [t \in Threads |-> FALSE]
  /\ held = [t \in Threads |-> "nothing"]

Goes(t, to) == tpc' = [tpc EXCEPT ![t] = to]

\* A thread calls something: g says whether it wants the object.
Calls(t, to, g) ==
  /\ tpc[t] \in {"idle", "threw"} /\ uses < MaxUses /\ uses' = uses + 1
  /\ Goes(t, to)
  /\ gets' = [gets EXCEPT ![t] = g]
  /\ held' = [held EXCEPT ![t] = "nothing"]
  /\ UNCHANGED <<what, first, once, ptr, made, failed, down>>

\* init_logger(...), ThreadPoolSingleton::init(n)
init(t) == Calls(t, "enter", FALSE)

\* ThreadPoolSingleton::instance() goes through call_once every time.
instance(t) == what = "pool" /\ Calls(t, "enter", TRUE)

\* Fault: g_logger is returned as it is.
Fault_get_logger(t) == what = "logger" /\ Calls(t, "get", TRUE)

\* get_logger(), also by set_log_level and the macros: call_once only if g_logger
\* is null, which is read without synchronization.
get_logger(t) == what = "logger" /\ Calls(t, IF ptr = "null" THEN "enter" ELSE "get", TRUE)

After(t) == IF gets[t] THEN "get" ELSE "idle"

EnterOnce(t) ==
  /\ tpc[t] = "enter"
  /\ \/ once = "done" /\ Goes(t, After(t)) /\ UNCHANGED once
     \/ once = "fresh" /\ Goes(t, "build") /\ once' = "running"
  /\ UNCHANGED <<what, first, ptr, made, failed, down, gets, held, uses>>

\* Assign the pointer; a logger has yet to be given its level, its pattern and its
\* flush policy, and to be registered.
Build(t) ==
  /\ tpc[t] = "build"
  /\ made' = made + 1
  /\ IF what = "pool"
     THEN ptr' = "complete" /\ once' = "done" /\ Goes(t, After(t))
     ELSE ptr' = "partial" /\ Goes(t, "configure") /\ UNCHANGED once
  /\ UNCHANGED <<what, first, failed, down, gets, held, uses>>

Configure(t) ==
  /\ tpc[t] = "configure"
  /\ ptr' = "complete" /\ once' = "done" /\ Goes(t, After(t))
  /\ UNCHANGED <<what, first, made, failed, down, gets, held, uses>>

\* The pattern cannot be allocated, or the name is registered already: g_logger stays
\* as it is, and the flag is fresh again.
ConfigureThrows(t) ==
  /\ tpc[t] = "configure"
  /\ ptr' \in {"partial", "complete"} /\ failed' = failed + 1
  /\ once' = "fresh" /\ Goes(t, "threw")
  /\ UNCHANGED <<what, first, made, down, gets, held, uses>>

\* Fault: the flag is not released.
Fault_BuildThrows(t) ==
  /\ tpc[t] = "build"
  /\ Goes(t, "threw")
  /\ UNCHANGED <<what, first, once, ptr, made, failed, down, gets, held, uses>>

\* The directory, the file or the threads cannot be created.
BuildThrows(t) ==
  /\ tpc[t] = "build"
  /\ once' = "fresh" /\ Goes(t, "threw")
  /\ UNCHANGED <<what, first, ptr, made, failed, down, gets, held, uses>>

Get(t) ==
  /\ tpc[t] = "get"
  /\ held' = [held EXCEPT ![t] = ptr]
  /\ Goes(t, "idle")
  /\ UNCHANGED <<what, first, once, ptr, made, failed, down, gets, uses>>

\* ThreadPoolSingleton::shutdown() leaves the flag alone.
shutdown ==
  /\ what = "pool" /\ ~down
  /\ down' = TRUE /\ ptr' = "null"
  /\ UNCHANGED <<what, first, once, made, failed, tpc, gets, held, uses>>

InCall(t) ==
  EnterOnce(t) \/ Build(t) \/ BuildThrows(t) \/ Configure(t) \/ ConfigureThrows(t) \/ Get(t)

GlobNext == shutdown \/ \E t \in Threads : init(t) \/ instance(t) \/ get_logger(t) \/ InCall(t)

\* The globals by themselves.
GlobSpec == GlobInit /\ [][GlobNext]_globVars

-------------------------------------------------------------------------------
(* Properties *)

\* However many threads come first, an object is made only once, or again in place of
\* one whose initializer threw after it had assigned the pointer; and what a thread
\* gets can be used.  The exceptions are instance() after shutdown(), which
\* dereferences a null pool_, and get_logger() while another thread is inside
\* init_logger or after init_logger threw, which may give a logger without level and
\* pattern: neither happens in a program that initializes the object before it
\* starts its threads and does not use it after shutdown(), as server_main.cpp does.
GotUsable ==
  /\ made <= 1 + failed
  /\ \A t \in Threads : /\ held[t] = "null" => down
                        /\ held[t] = "partial" => what = "logger" /\ ~first

\* Every call returns or throws, also when the initializer of another thread threw
\* while it was waiting for the flag.
GetsReturn == \A t \in Threads : tpc[t] \notin {"idle", "threw"} ~> tpc[t] \in {"idle", "threw"}
===============================================================================
