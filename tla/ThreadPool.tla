------------------------------ MODULE ThreadPool ------------------------------
(***************************************************************************)
(* rpc::ThreadPool (src/thread_pool/thread_pool.h, thread_pool.cpp).       *)
(*                                                                         *)
(* One action per atomic step of a thread.  A critical section of mux_     *)
(* that touches only what mux_ protects is one action, guarded by the      *)
(* mutex being free.  drain() alone holds mux_ across two steps, because   *)
(* its predicate reads active_tasks_, which the workers change and signal  *)
(* without mux_.  The atomics (size_t) are integers; CountersExact shows   *)
(* that none of them is ever decremented below zero.                       *)
(*                                                                         *)
(* Tasks are opaque.  A running task may itself call enqueue (that is the  *)
(* only way to meet a stopped pool: the destructor runs when no other      *)
(* thread uses the object).  A task that throws is caught by its           *)
(* packaged_task, so its worker goes on exactly as after a normal return.  *)
(***************************************************************************)
EXTENDS Integers, Sequences, FiniteSets

CONSTANTS
  Workers,   \* workers_
  Clients,   \* outside threads that call enqueue
  Drainers,  \* outside threads that call drain, once each
  Tasks,     \* the tasks that may be submitted, once each
  NoThread,  \* nobody holds mux_
  NoTask     \* a worker's local variable task is empty

ASSUME PoolAssumption ==
  /\ Workers # {}
  /\ IsFiniteSet(Workers)
  /\ Workers \cap Clients = {}
  /\ NoThread \notin Drainers
  /\ NoTask \notin Tasks

VARIABLES
  tasks_, mux_, stop_,                         \* members of the pool
  pending_count_, active_tasks_, completed_,   \* its atomics
  wpc,      \* where each worker is in worker_loop
  task,     \* the local variable task of each worker
  submit,   \* per submitting thread: "idle", or "notify" (before line 83)
  dpc,      \* where each drainer is in drain()
  dtor,     \* where the destructor is
  accepted, \* history: tasks whose enqueue returned a future
  rejected, \* history: tasks whose enqueue threw
  runs,     \* history: how often each task was executed
  owed      \* history: what was accepted when the drainer called drain()

vars == <<tasks_, mux_, stop_, pending_count_, active_tasks_, completed_, wpc,
          task, submit, dpc, dtor, accepted, rejected, runs, owed>>

counters == <<pending_count_, active_tasks_, completed_>>
history  == <<accepted, rejected, runs, owed>>

Submitters == Clients \cup Workers

\* "lock": about to take mux_ (line 39, or woken inside cv_.wait);
\* "blocked": in the wait set of cv_; "popped": before line 48;
\* "running": in task(); then before lines 50, 51, 52 and 55.
WorkerPc == {"lock", "blocked", "popped", "running", "ran", "inactive",
             "completed", "unpended", "exited"}

TypeOK ==
  /\ tasks_ \in Seq(Tasks)
  /\ mux_ \in Drainers \cup {NoThread}
  /\ stop_ \in BOOLEAN
  /\ pending_count_ \in Nat /\ active_tasks_ \in Nat /\ completed_ \in Nat
  /\ wpc \in [Workers -> WorkerPc]
  /\ task \in [Workers -> Tasks \cup {NoTask}]
  /\ submit \in [Submitters -> {"idle", "notify"}]
  /\ dpc \in [Drainers -> {"idle", "lock", "deciding", "waiting", "returned"}]
  /\ dtor \in {"none", "notify", "joining", "joined"}
  /\ accepted \in SUBSET Tasks
  /\ rejected \in SUBSET Tasks
  /\ runs \in [Tasks -> Nat]
  /\ owed \in [Drainers -> SUBSET Tasks]

Init ==
  /\ tasks_ = <<>>
  /\ mux_ = NoThread
  /\ stop_ = FALSE
  /\ pending_count_ = 0 /\ active_tasks_ = 0 /\ completed_ = 0
  /\ wpc = [w \in Workers |-> "lock"]
  /\ task = [w \in Workers |-> NoTask]
  /\ submit = [s \in Submitters |-> "idle"]
  /\ dpc = [d \in Drainers |-> "idle"]
  /\ dtor = "none"
  /\ accepted = {} /\ rejected = {}
  /\ runs = [t \in Tasks |-> 0]
  /\ owed = [d \in Drainers |-> {}]

-------------------------------------------------------------------------------
(* enqueue *)

\* A client may call enqueue while the pool lives, a worker from inside task().
MayCall(s) ==
  /\ submit[s] = "idle"
  /\ s \in Clients => dtor = "none"
  /\ s \in Workers => wpc[s] = "running"

\* Fault: pending_count_ is not counted up in enqueue.
Fault_EnqueueUncounted(s, t) ==
  /\ MayCall(s)
  /\ mux_ = NoThread
  /\ t \notin accepted \cup rejected
  /\ ~stop_
  /\ tasks_' = Append(tasks_, t)
  /\ accepted' = accepted \cup {t}
  /\ submit' = [submit EXCEPT ![s] = "notify"]
  /\ UNCHANGED <<mux_, stop_, counters, wpc, task, dpc, dtor, rejected, runs, owed>>

\* The critical section of enqueue on a running pool: queue the task, count it.
Enqueue(s, t) ==
  /\ MayCall(s)
  /\ mux_ = NoThread
  /\ t \notin accepted \cup rejected
  /\ ~stop_
  /\ tasks_' = Append(tasks_, t)
  /\ pending_count_' = pending_count_ + 1
  /\ accepted' = accepted \cup {t}
  /\ submit' = [submit EXCEPT ![s] = "notify"]
  /\ UNCHANGED <<mux_, stop_, active_tasks_, completed_, wpc, task, dpc, dtor,
                 rejected, runs, owed>>

\* enqueue throws "ThreadPool: enqueue on stopped pool".
EnqueueThrows(s, t) ==
  /\ MayCall(s)
  /\ mux_ = NoThread
  /\ t \notin accepted \cup rejected
  /\ stop_
  /\ rejected' = rejected \cup {t}
  /\ UNCHANGED <<tasks_, mux_, stop_, counters, wpc, task, submit, dpc, dtor,
                 accepted, runs, owed>>

Blocked == {w \in Workers : wpc[w] = "blocked"}

\* cv_.notify_one(), after mux_ was released.
NotifyOne(s) ==
  /\ submit[s] = "notify"
  /\ submit' = [submit EXCEPT ![s] = "idle"]
  /\ \/ /\ Blocked = {}
        /\ UNCHANGED wpc
     \/ \E w \in Blocked : wpc' = [wpc EXCEPT ![w] = "lock"]
  /\ UNCHANGED <<tasks_, mux_, stop_, counters, task, dpc, dtor, history>>

-------------------------------------------------------------------------------
(* worker_loop *)

\* Fault: cv_.wait without its predicate.
Fault_WaitWithoutPredicate(w) ==
  /\ wpc[w] = "lock"
  /\ mux_ = NoThread
  /\ ~stop_
  /\ wpc' = [wpc EXCEPT ![w] = "blocked"]
  /\ UNCHANGED <<tasks_, mux_, stop_, counters, task, submit, dpc, dtor, history>>

\* The predicate of cv_.wait is false: release mux_ and sleep.
WorkerBlock(w) ==
  /\ wpc[w] = "lock"
  /\ mux_ = NoThread
  /\ ~stop_ /\ tasks_ = <<>>
  /\ wpc' = [wpc EXCEPT ![w] = "blocked"]
  /\ UNCHANGED <<tasks_, mux_, stop_, counters, task, submit, dpc, dtor, history>>

\* A condition variable may wake a waiter without any notification.
SpuriousWake(w) ==
  /\ wpc[w] = "blocked"
  /\ wpc' = [wpc EXCEPT ![w] = "lock"]
  /\ UNCHANGED <<tasks_, mux_, stop_, counters, task, submit, dpc, dtor, history>>

\* Fault: a worker leaves as soon as the pool is stopped.
Fault_ExitOnStop(w) ==
  /\ wpc[w] = "lock"
  /\ mux_ = NoThread
  /\ stop_
  /\ wpc' = [wpc EXCEPT ![w] = "exited"]
  /\ UNCHANGED <<tasks_, mux_, stop_, counters, task, submit, dpc, dtor, history>>

\* if (stop_ && tasks_.empty()) return;
WorkerExit(w) ==
  /\ wpc[w] = "lock"
  /\ mux_ = NoThread
  /\ stop_ /\ tasks_ = <<>>
  /\ wpc' = [wpc EXCEPT ![w] = "exited"]
  /\ UNCHANGED <<tasks_, mux_, stop_, counters, task, submit, dpc, dtor, history>>

\* Fault: the front task is copied and not popped.
Fault_FrontWithoutPop(w) ==
  /\ wpc[w] = "lock"
  /\ mux_ = NoThread
  /\ tasks_ # <<>>
  /\ task' = [task EXCEPT ![w] = Head(tasks_)]
  /\ wpc' = [wpc EXCEPT ![w] = "popped"]
  /\ UNCHANGED <<tasks_, mux_, stop_, counters, submit, dpc, dtor, history>>

\* Take the oldest task (also from a stopped pool) and release mux_.
WorkerPop(w) ==
  /\ wpc[w] = "lock"
  /\ mux_ = NoThread
  /\ tasks_ # <<>>
  /\ task' = [task EXCEPT ![w] = Head(tasks_)]
  /\ tasks_' = Tail(tasks_)
  /\ wpc' = [wpc EXCEPT ![w] = "popped"]
  /\ UNCHANGED <<mux_, stop_, counters, submit, dpc, dtor, history>>

\* active_tasks_.fetch_add(1), outside mux_.
WorkerActivate(w) ==
  /\ wpc[w] = "popped"
  /\ active_tasks_' = active_tasks_ + 1
  /\ wpc' = [wpc EXCEPT ![w] = "running"]
  /\ UNCHANGED <<tasks_, mux_, stop_, pending_count_, completed_, task, submit,
                 dpc, dtor, history>>

\* task() returns; the calls of enqueue it made have returned before.
WorkerRun(w) ==
  /\ wpc[w] = "running"
  /\ submit[w] = "idle"
  /\ runs' = [runs EXCEPT ![task[w]] = @ + 1]
  /\ wpc' = [wpc EXCEPT ![w] = "ran"]
  /\ UNCHANGED <<tasks_, mux_, stop_, counters, task, submit, dpc, dtor,
                 accepted, rejected, owed>>

WorkerDeactivate(w) ==
  /\ wpc[w] = "ran"
  /\ active_tasks_' = active_tasks_ - 1
  /\ wpc' = [wpc EXCEPT ![w] = "inactive"]
  /\ UNCHANGED <<tasks_, mux_, stop_, pending_count_, completed_, task, submit,
                 dpc, dtor, history>>

WorkerComplete(w) ==
  /\ wpc[w] = "inactive"
  /\ completed_' = completed_ + 1
  /\ wpc' = [wpc EXCEPT ![w] = "completed"]
  /\ UNCHANGED <<tasks_, mux_, stop_, pending_count_, active_tasks_, task,
                 submit, dpc, dtor, history>>

WorkerUnpend(w) ==
  /\ wpc[w] = "completed"
  /\ pending_count_' = pending_count_ - 1
  /\ wpc' = [wpc EXCEPT ![w] = "unpended"]
  /\ UNCHANGED <<tasks_, mux_, stop_, active_tasks_, completed_, task, submit,
                 dpc, dtor, history>>

\* drain_cv_.notify_one() without mux_; then the loop starts over, and its
\* local variable task is destroyed.
WorkerNotifyDrain(w) ==
  /\ wpc[w] = "unpended"
  /\ wpc' = [wpc EXCEPT ![w] = "lock"]
  /\ task' = [task EXCEPT ![w] = NoTask]
  /\ \/ /\ \A d \in Drainers : dpc[d] # "waiting"
        /\ UNCHANGED dpc
     \/ \E d \in Drainers : /\ dpc[d] = "waiting"
                            /\ dpc' = [dpc EXCEPT ![d] = "lock"]
  /\ UNCHANGED <<tasks_, mux_, stop_, counters, submit, dtor, history>>

-------------------------------------------------------------------------------
(* drain *)

DrainCall(d) ==
  /\ dpc[d] = "idle"
  /\ dtor = "none"
  /\ dpc' = [dpc EXCEPT ![d] = "lock"]
  /\ owed' = [owed EXCEPT ![d] = accepted]
  /\ UNCHANGED <<tasks_, mux_, stop_, counters, wpc, task, submit, dtor,
                 accepted, rejected, runs>>

\* Fault: drain() forgets the queue.
Fault_DrainPredicate == active_tasks_ = 0

DrainPredicate == tasks_ = <<>> /\ active_tasks_ = 0

\* Take mux_ (on entry, or woken in the wait) and find the predicate true.
DrainReturn(d) ==
  /\ dpc[d] = "lock"
  /\ mux_ = NoThread
  /\ DrainPredicate
  /\ dpc' = [dpc EXCEPT ![d] = "returned"]
  /\ UNCHANGED <<tasks_, mux_, stop_, counters, wpc, task, submit, dtor, history>>

\* Take mux_ and find the predicate false; mux_ is still held.
DrainCheck(d) ==
  /\ dpc[d] = "lock"
  /\ mux_ = NoThread
  /\ ~DrainPredicate
  /\ mux_' = d
  /\ dpc' = [dpc EXCEPT ![d] = "deciding"]
  /\ UNCHANGED <<tasks_, stop_, counters, wpc, task, submit, dtor, history>>

\* Release mux_ and join the wait set of drain_cv_, in one step.
DrainWait(d) ==
  /\ dpc[d] = "deciding"
  /\ mux_' = NoThread
  /\ dpc' = [dpc EXCEPT ![d] = "waiting"]
  /\ UNCHANGED <<tasks_, stop_, counters, wpc, task, submit, dtor, history>>

SpuriousDrainWake(d) ==
  /\ dpc[d] = "waiting"
  /\ dpc' = [dpc EXCEPT ![d] = "lock"]
  /\ UNCHANGED <<tasks_, mux_, stop_, counters, wpc, task, submit, dtor, history>>

-------------------------------------------------------------------------------
(* ~ThreadPool *)

\* The destructor starts when no outside thread is inside the pool.
DtorStop ==
  /\ dtor = "none"
  /\ \A s \in Clients : submit[s] = "idle"
  /\ \A d \in Drainers : dpc[d] \in {"idle", "returned"}
  /\ mux_ = NoThread
  /\ stop_' = TRUE
  /\ dtor' = "notify"
  /\ UNCHANGED <<tasks_, mux_, counters, wpc, task, submit, dpc, history>>

DtorNotifyAll ==
  /\ dtor = "notify"
  /\ dtor' = "joining"
  /\ wpc' = [w \in Workers |-> IF w \in Blocked THEN "lock" ELSE wpc[w]]
  /\ UNCHANGED <<tasks_, mux_, stop_, counters, task, submit, dpc, history>>

\* join() has returned for every worker.
DtorJoin ==
  /\ dtor = "joining"
  /\ \A w \in Workers : wpc[w] = "exited"
  /\ dtor' = "joined"
  /\ UNCHANGED <<tasks_, mux_, stop_, counters, wpc, task, submit, dpc, history>>

\* The pool is gone.
Terminated == dtor = "joined" /\ UNCHANGED vars

-------------------------------------------------------------------------------
WorkerLoop(w) ==
  \/ WorkerBlock(w) \/ WorkerExit(w) \/ WorkerPop(w) \/ WorkerActivate(w)
  \/ WorkerRun(w) \/ WorkerDeactivate(w) \/ WorkerComplete(w)
  \/ WorkerUnpend(w) \/ WorkerNotifyDrain(w)

Drain(d) == DrainReturn(d) \/ DrainCheck(d) \/ DrainWait(d)

Dtor == DtorNotifyAll \/ DtorJoin

Next ==
  \/ \E s \in Submitters : \/ \E t \in Tasks : Enqueue(s, t) \/ EnqueueThrows(s, t)
                           \/ NotifyOne(s)
  \/ \E w \in Workers : WorkerLoop(w) \/ SpuriousWake(w)
  \/ \E d \in Drainers : DrainCall(d) \/ Drain(d) \/ SpuriousDrainWake(d)
  \/ DtorStop \/ Dtor
  \/ Terminated

\* Threads that can take a step are scheduled, tasks return, and a thread that
\* waits for mux_ is not passed over for ever (hence strong fairness).  Nobody
\* has to call the pool, and nobody has to be woken without a notification.
Fairness ==
  /\ \A s \in Submitters : WF_vars(NotifyOne(s))
  /\ \A w \in Workers : SF_vars(WorkerLoop(w))
  /\ \A d \in Drainers : SF_vars(Drain(d))
  /\ WF_vars(Dtor)

Spec == Init /\ [][Next]_vars

FairSpec == Spec /\ Fairness

-------------------------------------------------------------------------------
(* Properties *)

Queued == {tasks_[i] : i \in DOMAIN tasks_}

\* Workers that took a task and have not run it yet.
Taken == {w \in Workers : wpc[w] \in {"popped", "running"}}

\* Every accepted task is in exactly one place: once in the queue, in the hands
\* of exactly one worker, or executed exactly once; nothing else was executed.
\* (enqueue and the pop in worker_loop neither lose nor duplicate a task.)
TasksConserved ==
  /\ accepted = Queued \cup {task[w] : w \in Taken} \cup {t \in Tasks : runs[t] > 0}
  /\ \A i, j \in DOMAIN tasks_ : tasks_[i] = tasks_[j] => i = j
  /\ \A v, w \in Taken : task[v] = task[w] => v = w
  /\ \A w \in Taken : task[w] \notin Queued
  /\ \A t \in Tasks : /\ runs[t] <= 1
                      /\ runs[t] = 1 => t \notin Queued
                      /\ runs[t] = 1 => \A w \in Taken : task[w] # t

Counted(pcs) == Cardinality({w \in Workers : wpc[w] \in pcs})

\* pending_count_ is the number of tasks queued or held by a worker up to line
\* 52, active_tasks_ the number of workers between lines 48 and 50.  So the
\* fetch_subs of worker_loop never wrap a size_t, whatever the interleaving.
\* (And pending_count() counts running tasks as well, not only those that wait
\* in the queue, as thread_pool.md:77 has it.)
CountersExact ==
  /\ pending_count_ = Len(tasks_)
                      + Counted({"popped", "running", "ran", "inactive", "completed"})
  /\ active_tasks_ = Counted({"running", "ran"})

\* A queued task is never left to sleeping workers: some worker is on its way
\* round the loop, or a submitter is about to notify one.  And once the
\* destructor has notified, no worker sleeps.
NoLostWakeup ==
  /\ tasks_ # <<>> => \/ \E w \in Workers : wpc[w] \notin {"blocked", "exited"}
                      \/ \E s \in Submitters : submit[s] = "notify"
  /\ dtor \in {"joining", "joined"} => Blocked = {}

\* What drain() does guarantee: when it returns, nothing that was submitted
\* before the call is still in the queue.
DrainLeavesNothingQueued ==
  \A d \in Drainers : dpc[d] = "returned" => owed[d] \cap Queued = {}

\* thread_pool.h:33 of drain(), wait until all submitted tasks are complete: a
\* thread that calls drain() comes back, since the finitely many tasks submitted
\* all complete.
DrainReturns == \A d \in Drainers : dpc[d] = "lock" ~> dpc[d] = "returned"

\* The pool as its users see it.
Promise == INSTANCE Executor WITH
  executed <- {t \in Tasks : runs[t] = 1},
  phase <- IF dtor = "none" THEN "open" ELSE IF dtor = "joined" THEN "gone" ELSE "closed"

\* The safety half of the promise: no task is accepted after stop_, none runs
\* twice, and the destructor does not return before all have run.
PromiseKept == Promise!SafeSpec

\* The pool keeps the promise of Executor: accepted tasks run exactly once, none
\* is accepted once the destructor has set stop_, and the destructor returns
\* only when all have run.
KeepsPromise == Promise!Spec

\* Once ~ThreadPool has returned, no thread touches the pool: no worker, no drain()
\* and no enqueue, from inside or from outside, is still on its way.
NoUseAfterJoin == [][dtor # "joined"]_vars
===============================================================================
