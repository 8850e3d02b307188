------------------------------- MODULE Executor -------------------------------
(***************************************************************************)
(* What the thread pool promises its users (thread_pool.h, thread_pool.md),*)
(* without threads, locks or condition variables: a task that was accepted *)
(* is executed exactly once, nothing is accepted after the executor was    *)
(* closed, and the executor goes away only when no accepted task is left.  *)
(***************************************************************************)
CONSTANT Tasks

VARIABLES
  accepted,  \* tasks whose submission succeeded
  executed,  \* tasks whose body has run
  phase      \* "open", "closed" (no submission succeeds), "gone"

vars == <<accepted, executed, phase>>

Init ==
  /\ accepted = {}
  /\ executed = {}
  /\ phase = "open"

Accept(t) ==
  /\ phase = "open"
  /\ t \notin accepted
  /\ accepted' = accepted \cup {t}
  /\ UNCHANGED <<executed, phase>>

Execute(t) ==
  /\ phase # "gone"
  /\ t \in accepted \ executed
  /\ executed' = executed \cup {t}
  /\ UNCHANGED <<accepted, phase>>

Close ==
  /\ phase = "open"
  /\ phase' = "closed"
  /\ UNCHANGED <<accepted, executed>>

Finish ==
  /\ phase = "closed"
  /\ executed = accepted
  /\ phase' = "gone"
  /\ UNCHANGED <<accepted, executed>>

Next == Close \/ Finish \/ \E t \in Tasks : Accept(t) \/ Execute(t)

\* The safety half of the promise.
SafeSpec == Init /\ [][Next]_vars

\* The whole promise: accepted tasks do run, and a closed executor does go away.
Spec == SafeSpec /\ WF_vars(Finish) /\ \A t \in Tasks : WF_vars(Execute(t))
===============================================================================
