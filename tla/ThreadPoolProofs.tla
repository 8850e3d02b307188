--------------------------- MODULE ThreadPoolProofs ---------------------------
(***************************************************************************)
(* Proofs about ThreadPool, for any number of workers, clients, drainers   *)
(* and tasks.                                                              *)
(***************************************************************************)
EXTENDS ThreadPool, FiniteSetTheorems, TLAPS

\* The prover of a step that names none; SMT is named where Zenon does not do.
USE ZenonT(60), SMTT(60)

\* What ties the life of the pool together: stop_ is set by the destructor only,
\* a worker leaves only a stopped pool with an empty queue, the destructor has
\* joined only workers that left, and drain() is owed only accepted tasks.
Lifecycle ==
  /\ stop_ <=> dtor # "none"
  /\ \A w \in Workers : wpc[w] = "exited" => stop_ /\ tasks_ = <<>>
  /\ dtor = "joined" => \A w \in Workers : wpc[w] = "exited"
  /\ \A d \in Drainers : owed[d] \subseteq accepted

\* The inductive invariant.
IInv ==
  /\ TypeOK /\ CountersExact /\ TasksConserved /\ Lifecycle
  /\ NoLostWakeup /\ DrainLeavesNothingQueued

-------------------------------------------------------------------------------
(* Counting workers *)

\* The workers of f at one of the places S.
At(f, S) == {v \in Workers : f[v] \in S}

\* The workers at a set of places of worker_loop are finitely many.
LEMMA AtFinite ==
  ASSUME NEW f, NEW S
  PROVE  IsFiniteSet(At(f, S)) /\ Cardinality(At(f, S)) \in Nat
<1>1. IsFiniteSet(At(f, S))
  BY PoolAssumption, FS_Subset DEF At
<1>2. QED
  BY <1>1, FS_CardinalityType

\* A worker that enters S makes one more there.
LEMMA AtEnter ==
  ASSUME NEW f, NEW g, NEW S, NEW w \in Workers,
         f[w] \notin S, g[w] \in S,
         \A v \in Workers \ {w} : g[v] = f[v]
  PROVE  Cardinality(At(g, S)) = Cardinality(At(f, S)) + 1
<1>1. At(g, S) = At(f, S) \cup {w} /\ w \notin At(f, S)
  BY SMTT(60) DEF At
<1>2. QED
  BY <1>1, AtFinite, FS_AddElement

\* A worker that leaves S makes one less there.
LEMMA AtLeave ==
  ASSUME NEW f, NEW g, NEW S, NEW w \in Workers,
         f[w] \in S, g[w] \notin S,
         \A v \in Workers \ {w} : g[v] = f[v]
  PROVE  Cardinality(At(g, S)) = Cardinality(At(f, S)) - 1
<1>1. Cardinality(At(f, S)) = Cardinality(At(g, S)) + 1
  BY AtEnter
<1>2. QED
  BY <1>1, AtFinite, SMTT(60)

\* Moves inside S or outside of S do not count.
LEMMA AtSame ==
  ASSUME NEW f, NEW g, NEW S,
         \A v \in Workers : g[v] \in S <=> f[v] \in S
  PROVE  Cardinality(At(g, S)) = Cardinality(At(f, S))
<1>1. At(g, S) = At(f, S)
  BY DEF At
<1>2. QED
  BY <1>1

-------------------------------------------------------------------------------
(* Types and counters *)

Pend == {"popped", "running", "ran", "inactive", "completed"}
Act  == {"running", "ran"}

\* CountersExact, in terms of At.
LEMMA CountersAt ==
  CountersExact <=> /\ pending_count_ = Len(tasks_) + Cardinality(At(wpc, Pend))
                    /\ active_tasks_ = Cardinality(At(wpc, Act))
BY DEF CountersExact, Counted, At, Pend, Act

\* The same of the next state.
LEMMA CountersAtNext ==
  CountersExact' <=> /\ pending_count_' = Len(tasks_') + Cardinality(At(wpc', Pend))
                     /\ active_tasks_' = Cardinality(At(wpc', Act))
BY DEF CountersExact, Counted, At, Pend, Act

\* A step that moves no worker across the borders of Pend and Act, and changes
\* neither the queue nor the counters, keeps the counters exact.
LEMMA CountersKept ==
  ASSUME CountersExact,
         \A v \in Workers : wpc'[v] \in Pend <=> wpc[v] \in Pend,
         \A v \in Workers : wpc'[v] \in Act <=> wpc[v] \in Act,
         UNCHANGED <<tasks_, pending_count_, active_tasks_>>
  PROVE  CountersExact'
<1>1. Cardinality(At(wpc', Pend)) = Cardinality(At(wpc, Pend))
  BY AtSame
<1>2. Cardinality(At(wpc', Act)) = Cardinality(At(wpc, Act))
  BY AtSame
<1>3. QED
  BY <1>1, <1>2, CountersAt, CountersAtNext

\* Each step keeps the types and the counters: enqueue and the pop balance, and
\* a decrement is made by a worker that is counted.
LEMMA TypeStep ==
  ASSUME TypeOK, CountersExact, [Next]_vars
  PROVE  TypeOK' /\ CountersExact'
<1> DEFINE p == Cardinality(At(wpc, Pend))
           a == Cardinality(At(wpc, Act))
<1>0. p \in Nat /\ a \in Nat /\ pending_count_ = Len(tasks_) + p /\ active_tasks_ = a
      /\ Len(tasks_) \in Nat
  BY AtFinite, CountersAt, SMTT(60) DEF TypeOK
<1>1. ASSUME NEW s \in Submitters, NEW t \in Tasks, Enqueue(s, t)
      PROVE  TypeOK' /\ CountersExact'
  <2>1. TypeOK'
    BY <1>1, SMTT(60) DEF TypeOK, Enqueue
  <2>2. pending_count_' = Len(tasks_') + p /\ active_tasks_' = a /\ wpc' = wpc
    BY <1>0, <1>1, SMTT(60) DEF TypeOK, Enqueue
  <2>3. QED
    BY <2>1, <2>2, CountersAtNext
<1>2. ASSUME NEW s \in Submitters, NEW t \in Tasks, EnqueueThrows(s, t)
      PROVE  TypeOK' /\ CountersExact'
  BY <1>2, CountersKept DEF TypeOK, EnqueueThrows, counters
<1>3. ASSUME NEW s \in Submitters, NotifyOne(s)
      PROVE  TypeOK' /\ CountersExact'
  <2>1. TypeOK'
    BY <1>3 DEF TypeOK, NotifyOne, WorkerPc, Blocked, counters, history
  <2>2. CountersExact'
    BY <1>3, CountersKept, SMTT(60) DEF TypeOK, NotifyOne, Blocked, counters, Pend, Act
  <2>3. QED
    BY <2>1, <2>2
<1>4. ASSUME NEW w \in Workers, WorkerBlock(w) \/ WorkerExit(w) \/ SpuriousWake(w)
      PROVE  TypeOK' /\ CountersExact'
  <2>1. TypeOK'
    BY <1>4 DEF TypeOK, WorkerBlock, WorkerExit, SpuriousWake, WorkerPc, counters, history
  <2>2. CountersExact'
    BY <1>4, CountersKept, SMTT(60)
    DEF TypeOK, WorkerBlock, WorkerExit, SpuriousWake, counters, Pend, Act
  <2>3. QED
    BY <2>1, <2>2
<1>5. ASSUME NEW w \in Workers, WorkerPop(w)
      PROVE  TypeOK' /\ CountersExact'
  <2>0. wpc[w] = "lock" /\ wpc'[w] = "popped" /\ \A v \in Workers \ {w} : wpc'[v] = wpc[v]
    BY <1>5 DEF TypeOK, WorkerPop
  <2>1. TypeOK'
    BY <1>5, SMTT(60) DEF TypeOK, WorkerPop, WorkerPc, counters, history
  <2>2. Cardinality(At(wpc', Pend)) = p + 1
    BY <2>0, AtEnter, SMTT(60) DEF Pend
  <2>3. Cardinality(At(wpc', Act)) = a
    BY <2>0, AtSame, SMTT(60) DEF Act
  <2>4. Len(tasks_') = Len(tasks_) - 1 /\ UNCHANGED <<pending_count_, active_tasks_>>
    BY <1>5, SMTT(60) DEF TypeOK, WorkerPop, counters
  <2>5. QED
    BY <1>0, <2>1, <2>2, <2>3, <2>4, CountersAtNext, SMTT(60)
<1>6. ASSUME NEW w \in Workers, WorkerActivate(w)
      PROVE  TypeOK' /\ CountersExact'
  <2>0. wpc[w] = "popped" /\ wpc'[w] = "running" /\ \A v \in Workers \ {w} : wpc'[v] = wpc[v]
    BY <1>6 DEF TypeOK, WorkerActivate
  <2>1. TypeOK'
    BY <1>6, SMTT(60) DEF TypeOK, WorkerActivate, WorkerPc, history
  <2>2. Cardinality(At(wpc', Pend)) = p
    BY <2>0, AtSame, SMTT(60) DEF Pend
  <2>3. Cardinality(At(wpc', Act)) = a + 1
    BY <2>0, AtEnter, SMTT(60) DEF Act
  <2>4. QED
    BY <1>0, <1>6, <2>1, <2>2, <2>3, CountersAtNext DEF WorkerActivate
<1>7. ASSUME NEW w \in Workers, WorkerRun(w)
      PROVE  TypeOK' /\ CountersExact'
  <2>0. runs' \in [Tasks -> Nat]
    <3>1. CASE task[w] \in Tasks
      BY <1>7, <3>1, SMTT(60) DEF TypeOK, WorkerRun
    <3>2. CASE task[w] \notin Tasks
      BY <1>7, <3>2 DEF TypeOK, WorkerRun
    <3>3. QED
      BY <3>1, <3>2
  <2>1. TypeOK'
    BY <1>7, <2>0 DEF TypeOK, WorkerRun, WorkerPc, counters
  <2>2. CountersExact'
    BY <1>7, CountersKept DEF TypeOK, WorkerRun, counters, Pend, Act
  <2>3. QED
    BY <2>1, <2>2
<1>8. ASSUME NEW w \in Workers, WorkerDeactivate(w)
      PROVE  TypeOK' /\ CountersExact'
  <2>0. wpc[w] = "ran" /\ wpc'[w] = "inactive" /\ \A v \in Workers \ {w} : wpc'[v] = wpc[v]
    BY <1>8 DEF TypeOK, WorkerDeactivate
  <2>1. Cardinality(At(wpc', Pend)) = p
    BY <2>0, AtSame, SMTT(60) DEF Pend
  <2>2. Cardinality(At(wpc', Act)) = a - 1 /\ Cardinality(At(wpc', Act)) \in Nat
    BY <2>0, AtLeave, AtFinite, SMTT(60) DEF Act
  <2>3. CountersExact' /\ active_tasks_' \in Nat
    BY <1>0, <1>8, <2>1, <2>2, CountersAtNext DEF WorkerDeactivate
  <2>4. QED
    BY <1>8, <2>3 DEF TypeOK, WorkerDeactivate, WorkerPc, history
<1>9. ASSUME NEW w \in Workers, WorkerComplete(w)
      PROVE  TypeOK' /\ CountersExact'
  <2>1. TypeOK'
    BY <1>9, SMTT(60) DEF TypeOK, WorkerComplete, WorkerPc, history
  <2>2. CountersExact'
    BY <1>9, CountersKept DEF TypeOK, WorkerComplete, Pend, Act
  <2>3. QED
    BY <2>1, <2>2
<1>10. ASSUME NEW w \in Workers, WorkerUnpend(w)
       PROVE  TypeOK' /\ CountersExact'
  <2>0. wpc[w] = "completed" /\ wpc'[w] = "unpended" /\ \A v \in Workers \ {w} : wpc'[v] = wpc[v]
    BY <1>10 DEF TypeOK, WorkerUnpend
  <2>1. Cardinality(At(wpc', Act)) = a
    BY <2>0, AtSame, SMTT(60) DEF Act
  <2>2. Cardinality(At(wpc', Pend)) = p - 1 /\ Cardinality(At(wpc', Pend)) \in Nat
    BY <2>0, AtLeave, AtFinite DEF Pend
  <2>3. CountersExact' /\ pending_count_' \in Nat
    BY <1>0, <1>10, <2>1, <2>2, CountersAtNext, SMTT(60) DEF WorkerUnpend
  <2>4. QED
    BY <1>10, <2>3 DEF TypeOK, WorkerUnpend, WorkerPc, history
<1>11. ASSUME NEW w \in Workers, WorkerNotifyDrain(w)
       PROVE  TypeOK' /\ CountersExact'
  <2>1. TypeOK'
    BY <1>11 DEF TypeOK, WorkerNotifyDrain, WorkerPc, counters, history
  <2>2. CountersExact'
    BY <1>11, CountersKept DEF TypeOK, WorkerNotifyDrain, counters, Pend, Act
  <2>3. QED
    BY <2>1, <2>2
<1>12. ASSUME NEW d \in Drainers,
              DrainCall(d) \/ Drain(d) \/ SpuriousDrainWake(d)
       PROVE  TypeOK' /\ CountersExact'
  <2>1. TypeOK' /\ UNCHANGED <<tasks_, pending_count_, active_tasks_, wpc>>
    BY <1>12 DEF TypeOK, DrainCall, Drain, DrainReturn, DrainCheck, DrainWait,
                 SpuriousDrainWake, counters, history
  <2>2. QED
    BY <2>1, CountersKept
<1>13. ASSUME DtorStop \/ DtorJoin
       PROVE  TypeOK' /\ CountersExact'
  <2>1. TypeOK' /\ UNCHANGED <<tasks_, pending_count_, active_tasks_, wpc>>
    BY <1>13 DEF TypeOK, DtorStop, DtorJoin, counters, history
  <2>2. QED
    BY <2>1, CountersKept
<1>14. ASSUME DtorNotifyAll
       PROVE  TypeOK' /\ CountersExact'
  <2>1. TypeOK'
    BY <1>14 DEF TypeOK, DtorNotifyAll, Blocked, WorkerPc, counters, history
  <2>2. CountersExact'
    BY <1>14, CountersKept DEF TypeOK, DtorNotifyAll, Blocked, counters, Pend, Act
  <2>3. QED
    BY <2>1, <2>2
<1>15. ASSUME UNCHANGED vars
       PROVE  TypeOK' /\ CountersExact'
  <2>1. TypeOK' /\ UNCHANGED <<tasks_, pending_count_, active_tasks_, wpc>>
    BY <1>15 DEF TypeOK, vars
  <2>2. QED
    BY <2>1, CountersKept
<1>16. QED
  BY <1>1, <1>2, <1>3, <1>4, <1>5, <1>6, <1>7, <1>8, <1>9, <1>10, <1>11, <1>12,
     <1>13, <1>14, <1>15 DEF Next, WorkerLoop, Dtor, Terminated
-------------------------------------------------------------------------------
(* The queue *)

Elems(q) == {q[i] : i \in DOMAIN q}
Distinct(q) == \A i, j \in DOMAIN q : q[i] = q[j] => i = j

\* Append adds its element at the end.
LEMMA QueuePush ==
  ASSUME NEW S, NEW q \in Seq(S), NEW t \in S, NEW r, r = Append(q, t)
  PROVE  /\ Elems(r) = Elems(q) \cup {t}
         /\ Distinct(q) /\ t \notin Elems(q) => Distinct(r)
<1>1. /\ DOMAIN q = 1 .. Len(q) /\ Len(q) \in Nat
      /\ DOMAIN r = 1 .. Len(q) + 1
      /\ \A i \in 1 .. Len(q) : r[i] = q[i]
      /\ r[Len(q) + 1] = t
  BY SMTT(60)
<1>2. DOMAIN r = DOMAIN q \cup {Len(q) + 1}
  BY <1>1, SMTT(60)
<1>3. Elems(r) = Elems(q) \cup {t}
  <2>1. ASSUME NEW i \in DOMAIN r
        PROVE  r[i] \in Elems(q) \cup {t}
    BY <1>1, <1>2 DEF Elems
  <2>2. ASSUME NEW i \in DOMAIN q
        PROVE  q[i] \in Elems(r)
    BY <1>1, <1>2 DEF Elems
  <2>3. t \in Elems(r)
    BY <1>1, <1>2 DEF Elems
  <2>4. QED
    BY <2>1, <2>2, <2>3, SMTT(60) DEF Elems
<1>4. QED
  BY <1>1, <1>2, <1>3, SMTT(60) DEF Elems, Distinct

\* Taking the head of a queue without duplicates removes exactly that element.
LEMMA QueuePop ==
  ASSUME NEW S, NEW q \in Seq(S), q # <<>>, NEW r, r = Tail(q),
         Distinct(q)
  PROVE  /\ Elems(q) = Elems(r) \cup {Head(q)}
         /\ Head(q) \in S
         /\ Head(q) \notin Elems(r)
         /\ Distinct(r)
<1>1. /\ DOMAIN q = 1 .. Len(q) /\ Len(q) \in Nat /\ Len(q) > 0
      /\ DOMAIN r = 1 .. Len(q) - 1
      /\ \A i \in 1 .. Len(q) - 1 : r[i] = q[i + 1]
      /\ Head(q) = q[1]
  BY SMTT(60)
<1>2. Elems(q) \subseteq Elems(r) \cup {Head(q)}
  <2>1. ASSUME NEW i \in DOMAIN q, i # 1
        PROVE  i - 1 \in DOMAIN r /\ r[i - 1] = q[i]
    BY <1>1, <2>1, SMTT(60)
  <2>2. ASSUME NEW i \in DOMAIN q
        PROVE  q[i] \in Elems(r) \cup {Head(q)}
    <3>1. CASE i = 1
      BY <1>1, <3>1
    <3>2. CASE i # 1
      BY <2>1, <3>2 DEF Elems
    <3>3. QED
      BY <3>1, <3>2
  <2>3. QED
    BY <2>2 DEF Elems
<1>3. Elems(r) \cup {Head(q)} \subseteq Elems(q)
  BY <1>1, SMTT(60) DEF Elems
<1>4. QED
  BY <1>1, <1>2, <1>3, SMTT(60) DEF Elems, Distinct

-------------------------------------------------------------------------------
(* Conservation of tasks *)

\* A step that leaves the queue, the accepted and the executed tasks alone, and
\* the workers that hold a task with it, keeps the tasks conserved.
LEMMA ConservedKept ==
  ASSUME TasksConserved,
         UNCHANGED <<tasks_, accepted, runs>>,
         Taken' = Taken,
         \A w \in Taken : task'[w] = task[w]
  PROVE  TasksConserved'
<1>1. {task'[w] : w \in Taken'} = {task[w] : w \in Taken}
  OBVIOUS
<1>2. Queued' = Queued
  BY DEF Queued
<1>3. QED
  BY <1>1, <1>2, SMTT(60) DEF TasksConserved

\* The queue after the critical section of enqueue.
LEMMA Pushed ==
  ASSUME TypeOK, TasksConserved, NEW s \in Submitters, NEW t \in Tasks, Enqueue(s, t)
  PROVE  Queued' = Queued \cup {t} /\ Distinct(tasks_')
<1>1. t \notin Elems(tasks_) /\ Distinct(tasks_)
  BY DEF TasksConserved, Enqueue, Queued, Elems, Distinct
<1>2. tasks_ \in Seq(Tasks) /\ tasks_' = Append(tasks_, t)
  BY DEF TypeOK, Enqueue
<1>3. Elems(tasks_') = Elems(tasks_) \cup {t} /\ Distinct(tasks_')
  BY <1>1, <1>2, QueuePush
<1>4. QED
  BY <1>3 DEF Queued, Elems

\* The queue after a worker took its head.
LEMMA Popped ==
  ASSUME TypeOK, TasksConserved, NEW w \in Workers, WorkerPop(w)
  PROVE  /\ Queued = Queued' \cup {Head(tasks_)} /\ Head(tasks_) \in Tasks
         /\ Head(tasks_) \notin Queued' /\ Distinct(tasks_')
<1>1. Distinct(tasks_)
  BY DEF TasksConserved, Distinct
<1>2. tasks_ \in Seq(Tasks) /\ tasks_ # <<>> /\ tasks_' = Tail(tasks_)
  BY DEF TypeOK, WorkerPop
<1>3. /\ Elems(tasks_) = Elems(tasks_') \cup {Head(tasks_)} /\ Head(tasks_) \in Tasks
      /\ Head(tasks_) \notin Elems(tasks_') /\ Distinct(tasks_')
  BY <1>1, <1>2, QueuePop
<1>4. QED
  BY <1>3 DEF Queued, Elems

\* Each step moves a task from one place to the next, or none.
LEMMA ConservedStep ==
  ASSUME TypeOK, TasksConserved, [Next]_vars
  PROVE  TasksConserved'
<1>1. ASSUME NEW s \in Submitters, NEW t \in Tasks, Enqueue(s, t)
      PROVE  TasksConserved'
  <2>1. /\ Queued' = Queued \cup {t}
        /\ \A i, j \in DOMAIN tasks_' : tasks_'[i] = tasks_'[j] => i = j
    BY <1>1, Pushed DEF Distinct
  <2>2. /\ accepted' = accepted \cup {t} /\ t \notin accepted
        /\ UNCHANGED <<wpc, task, runs>>
    BY <1>1 DEF Enqueue
  <2>3. Taken' = Taken /\ {task'[w] : w \in Taken'} = {task[w] : w \in Taken}
    BY <2>2 DEF Taken
  <2>4. QED
    BY <2>1, <2>2, <2>3, SMTT(60) DEF TasksConserved, TypeOK
<1>2. ASSUME NEW w \in Workers, WorkerPop(w)
      PROVE  TasksConserved'
  <2> DEFINE h == Head(tasks_)
  <2>1. /\ Queued = Queued' \cup {h} /\ h \in Tasks /\ h \notin Queued'
        /\ \A i, j \in DOMAIN tasks_' : tasks_'[i] = tasks_'[j] => i = j
    BY <1>2, Popped DEF Distinct
  <2>2. /\ Taken' = Taken \cup {w} /\ w \notin Taken
        /\ task'[w] = h /\ \A v \in Taken : task'[v] = task[v]
        /\ UNCHANGED <<accepted, runs>>
    BY <1>2 DEF Taken, WorkerPop, TypeOK, history
  <2>3. {task'[v] : v \in Taken'} = {task[v] : v \in Taken} \cup {h}
    BY <2>2
  <2>4. \A v \in Taken : task[v] # h
    BY <2>1 DEF TasksConserved
  <2>5. \A t \in Tasks : runs[t] = 1 => t # h
    BY <2>1 DEF TasksConserved
  <2>6. QED
    BY <2>1, <2>2, <2>3, <2>4, <2>5, SMTT(60) DEF TasksConserved
<1>3. ASSUME NEW w \in Workers, WorkerRun(w)
      PROVE  TasksConserved'
  <2> DEFINE t == task[w]
             ran == {u \in Tasks : runs[u] > 0}
  <2>1. w \in Taken /\ Taken' = Taken \ {w} /\ UNCHANGED <<tasks_, task, accepted>>
    BY <1>3 DEF Taken, WorkerRun, TypeOK
  <2>2. t \in Tasks
    BY <2>1 DEF TasksConserved, TypeOK
  <2>3. runs[t] = 0 /\ runs' = [runs EXCEPT ![t] = 1]
    <3>1. runs[t] \in Nat /\ runs[t] <= 1 /\ runs[t] # 1
      BY <2>1, <2>2 DEF TasksConserved, TypeOK
    <3>2. runs[t] = 0
      BY <3>1, SMTT(60)
    <3>3. QED
      BY <1>3, <3>2, SMTT(60) DEF WorkerRun
  <2>4. {u \in Tasks : runs'[u] > 0} = ran \cup {t}
    BY <2>2, <2>3, SMTT(60) DEF TypeOK
  <2>5. {task[v] : v \in Taken} = {task'[v] : v \in Taken'} \cup {t}
    BY <2>1
  <2>6. Queued' = Queued
    BY <2>1 DEF Queued
  <2>7. accepted' = Queued' \cup {task'[v] : v \in Taken'} \cup {u \in Tasks : runs'[u] > 0}
    BY <2>1, <2>4, <2>5, <2>6 DEF TasksConserved
  <2>8. \A u \in Tasks : /\ runs'[u] <= 1
                         /\ runs'[u] = 1 => u \notin Queued'
                         /\ runs'[u] = 1 => \A v \in Taken' : task'[v] # u
    <3> TAKE u \in Tasks
    <3>1. CASE u = t
      BY <2>1, <2>2, <2>3, <2>6, <3>1, SMTT(60) DEF TasksConserved, TypeOK
    <3>2. CASE u # t
      BY <2>1, <2>2, <2>3, <2>6, <3>2 DEF TasksConserved, TypeOK
    <3>3. QED
      BY <3>1, <3>2
  <2>9. QED
    BY <2>1, <2>6, <2>7, <2>8, SMTT(60) DEF TasksConserved
<1>4. ASSUME \/ \E s \in Submitters : (\E t \in Tasks : EnqueueThrows(s, t)) \/ NotifyOne(s)
             \/ \E d \in Drainers : DrainCall(d) \/ Drain(d) \/ SpuriousDrainWake(d)
             \/ DtorStop \/ Dtor \/ UNCHANGED vars
      PROVE  TasksConserved'
  <2>1. UNCHANGED <<tasks_, accepted, runs, task>>
    BY <1>4 DEF EnqueueThrows, NotifyOne, DrainCall, Drain, DrainReturn, DrainCheck,
                DrainWait, SpuriousDrainWake, DtorStop, Dtor, DtorNotifyAll, DtorJoin,
                vars, history
  <2>2. Taken' = Taken
    BY <1>4 DEF EnqueueThrows, NotifyOne, DrainCall, Drain, DrainReturn, DrainCheck,
                DrainWait, SpuriousDrainWake, DtorStop, Dtor, DtorNotifyAll, DtorJoin,
                vars, Taken, Blocked, TypeOK
  <2>3. QED
    BY <2>1, <2>2, ConservedKept
<1>5. ASSUME NEW w \in Workers,
             \/ WorkerBlock(w) \/ WorkerExit(w) \/ SpuriousWake(w) \/ WorkerActivate(w)
             \/ WorkerDeactivate(w) \/ WorkerComplete(w) \/ WorkerUnpend(w)
             \/ WorkerNotifyDrain(w)
      PROVE  TasksConserved'
  <2>1. UNCHANGED <<tasks_, accepted, runs>>
    BY <1>5 DEF WorkerBlock, WorkerExit, SpuriousWake, WorkerActivate, WorkerDeactivate,
                WorkerComplete, WorkerUnpend, WorkerNotifyDrain, history
  <2>2. Taken' = Taken
    BY <1>5, SMTT(60) DEF WorkerBlock, WorkerExit, SpuriousWake, WorkerActivate, WorkerDeactivate,
                WorkerComplete, WorkerUnpend, WorkerNotifyDrain, Taken, TypeOK
  <2>3. \A v \in Taken : task'[v] = task[v]
    BY <1>5 DEF WorkerBlock, WorkerExit, SpuriousWake, WorkerActivate, WorkerDeactivate,
                WorkerComplete, WorkerUnpend, WorkerNotifyDrain, Taken, TypeOK
  <2>4. QED
    BY <2>1, <2>2, <2>3, ConservedKept
<1>6. QED
  BY <1>1, <1>2, <1>3, <1>4, <1>5 DEF Next, WorkerLoop, Terminated
-------------------------------------------------------------------------------
(* Wakeups, drain() and the destructor *)

\* Only the critical section of enqueue makes the queue longer, on a running pool
\* and with a notification to follow.
LEMMA LifecycleStep ==
  ASSUME TypeOK, Lifecycle, [Next]_vars
  PROVE  Lifecycle'
<1>1. ASSUME NEW s \in Submitters, NEW t \in Tasks, Enqueue(s, t)
      PROVE  Lifecycle'
  BY <1>1 DEF Enqueue, Lifecycle, TypeOK
<1>2. ASSUME \/ \E s \in Submitters : (\E t \in Tasks : EnqueueThrows(s, t)) \/ NotifyOne(s)
             \/ UNCHANGED vars
      PROVE  Lifecycle'
  BY <1>2, SMTT(60) DEF EnqueueThrows, NotifyOne, Blocked, Lifecycle, TypeOK, vars, history
<1>3. ASSUME NEW w \in Workers,
             \/ WorkerBlock(w) \/ WorkerExit(w) \/ SpuriousWake(w) \/ WorkerPop(w)
      PROVE  Lifecycle'
  BY <1>3, SMTT(60) DEF WorkerBlock, WorkerExit, SpuriousWake, WorkerPop, Lifecycle, TypeOK, history
<1>4. ASSUME NEW w \in Workers,
             \/ WorkerActivate(w) \/ WorkerRun(w) \/ WorkerDeactivate(w)
             \/ WorkerComplete(w) \/ WorkerUnpend(w) \/ WorkerNotifyDrain(w)
      PROVE  Lifecycle'
  BY <1>4, SMTT(60) DEF WorkerActivate, WorkerRun, WorkerDeactivate, WorkerComplete, WorkerUnpend,
              WorkerNotifyDrain, Lifecycle, TypeOK, history
<1>5. ASSUME NEW d \in Drainers, DrainCall(d) \/ Drain(d) \/ SpuriousDrainWake(d)
      PROVE  Lifecycle'
  BY <1>5, SMTT(60) DEF DrainCall, Drain, DrainReturn, DrainCheck, DrainWait, SpuriousDrainWake,
              Lifecycle, TypeOK, history
<1>6. ASSUME DtorStop \/ Dtor
      PROVE  Lifecycle'
  BY <1>6 DEF DtorStop, Dtor, DtorNotifyAll, DtorJoin, Blocked, Lifecycle, TypeOK, history
<1>7. QED
  BY <1>1, <1>2, <1>3, <1>4, <1>5, <1>6 DEF Next, WorkerLoop, Terminated

\* A worker goes to sleep only when the queue is empty and the pool not stopped;
\* a notification reaches a sleeper, or there is none.
LEMMA WakeupStep ==
  ASSUME TypeOK, Lifecycle, NoLostWakeup, [Next]_vars
  PROVE  NoLostWakeup'
<1>1. ASSUME NEW s \in Submitters, NEW t \in Tasks, Enqueue(s, t)
      PROVE  NoLostWakeup'
  BY <1>1 DEF Enqueue, NoLostWakeup, Lifecycle, Blocked, TypeOK
<1>2. ASSUME NEW s \in Submitters, NotifyOne(s)
      PROVE  NoLostWakeup'
  <2>1. CASE Blocked = {} /\ UNCHANGED wpc
    <3>1. tasks_ # <<>> => \E w \in Workers : wpc[w] \notin {"blocked", "exited"}
      BY <2>1, PoolAssumption DEF Blocked, Lifecycle
    <3>2. QED
      BY <1>2, <2>1, <3>1 DEF NotifyOne, NoLostWakeup, Blocked
  <2>2. CASE \E w \in Blocked : wpc' = [wpc EXCEPT ![w] = "lock"]
    BY <1>2, <2>2 DEF NotifyOne, NoLostWakeup, Blocked, TypeOK
  <2>3. QED
    BY <1>2, <2>1, <2>2 DEF NotifyOne
<1>3. ASSUME NEW w \in Workers,
             \/ WorkerBlock(w) \/ WorkerExit(w) \/ SpuriousWake(w) \/ WorkerPop(w)
      PROVE  NoLostWakeup'
  BY <1>3, SMTT(60) DEF WorkerBlock, WorkerExit, SpuriousWake, WorkerPop, NoLostWakeup, Lifecycle,
              Blocked, TypeOK
<1>4. ASSUME NEW w \in Workers,
             \/ WorkerActivate(w) \/ WorkerRun(w) \/ WorkerDeactivate(w)
             \/ WorkerComplete(w) \/ WorkerUnpend(w) \/ WorkerNotifyDrain(w)
      PROVE  NoLostWakeup'
  <2>1. /\ wpc'[w] \notin {"blocked", "exited"}
        /\ \A v \in Workers \ {w} : wpc'[v] = wpc[v]
        /\ UNCHANGED dtor
    BY <1>4 DEF WorkerActivate, WorkerRun, WorkerDeactivate, WorkerComplete, WorkerUnpend,
                WorkerNotifyDrain, TypeOK
  <2>2. QED
    BY <2>1 DEF NoLostWakeup, Blocked
<1>5. ASSUME \/ \E s \in Submitters, t \in Tasks : EnqueueThrows(s, t)
             \/ \E d \in Drainers : DrainCall(d) \/ Drain(d) \/ SpuriousDrainWake(d)
             \/ UNCHANGED vars
      PROVE  NoLostWakeup'
  BY <1>5 DEF EnqueueThrows, DrainCall, Drain, DrainReturn, DrainCheck, DrainWait,
              SpuriousDrainWake, NoLostWakeup, Blocked, vars
<1>6. ASSUME DtorStop \/ Dtor
      PROVE  NoLostWakeup'
  BY <1>6, SMTT(60) DEF DtorStop, Dtor, DtorNotifyAll, DtorJoin, NoLostWakeup, Blocked, TypeOK
<1>7. QED
  BY <1>1, <1>2, <1>3, <1>4, <1>5, <1>6 DEF Next, WorkerLoop, Terminated

\* What drain() is owed was accepted before, so it is not queued again later.
LEMMA DrainStep ==
  ASSUME TypeOK, TasksConserved, Lifecycle, DrainLeavesNothingQueued, [Next]_vars
  PROVE  DrainLeavesNothingQueued'
<1>0. ASSUME tasks_' = tasks_,
             \A e \in Drainers : dpc'[e] = "returned" => dpc[e] = "returned" /\ owed'[e] = owed[e]
      PROVE  DrainLeavesNothingQueued'
  <2>1. Queued' = Queued
    BY <1>0 DEF Queued
  <2>2. QED
    BY <1>0, <2>1 DEF DrainLeavesNothingQueued
<1>1. ASSUME NEW s \in Submitters, NEW t \in Tasks, Enqueue(s, t)
      PROVE  DrainLeavesNothingQueued'
  <2>1. Queued' = Queued \cup {t}
    BY <1>1, Pushed
  <2>2. \A d \in Drainers : t \notin owed[d]
    BY <1>1 DEF Enqueue, Lifecycle
  <2>3. QED
    BY <1>1, <2>1, <2>2 DEF Enqueue, DrainLeavesNothingQueued
<1>2. ASSUME NEW w \in Workers, WorkerPop(w)
      PROVE  DrainLeavesNothingQueued'
  <2>1. Queued' \subseteq Queued
    BY <1>2, Popped
  <2>2. QED
    BY <1>2, <2>1 DEF WorkerPop, DrainLeavesNothingQueued, history
<1>3. ASSUME NEW d \in Drainers, DrainReturn(d)
      PROVE  DrainLeavesNothingQueued'
  <2>1. Queued' = {}
    BY <1>3, SMTT(60) DEF DrainReturn, DrainPredicate, Queued
  <2>2. QED
    BY <2>1 DEF DrainLeavesNothingQueued
<1>4. ASSUME NEW d \in Drainers,
             DrainCall(d) \/ DrainCheck(d) \/ DrainWait(d) \/ SpuriousDrainWake(d)
      PROVE  DrainLeavesNothingQueued'
  <2>1. CASE DrainCall(d)
    BY <1>0, <2>1 DEF DrainCall, TypeOK
  <2>2. CASE DrainCheck(d) \/ DrainWait(d) \/ SpuriousDrainWake(d)
    <3>1. /\ tasks_' = tasks_ /\ owed' = owed
          /\ \E p \in {"deciding", "waiting", "lock"} : dpc' = [dpc EXCEPT ![d] = p]
      BY <2>2 DEF DrainCheck, DrainWait, SpuriousDrainWake, history
    <3>2. QED
      BY <1>0, <3>1 DEF TypeOK
  <2>3. QED
    BY <1>4, <2>1, <2>2
<1>5. ASSUME \/ \E s \in Submitters : (\E t \in Tasks : EnqueueThrows(s, t)) \/ NotifyOne(s)
             \/ DtorStop \/ Dtor \/ UNCHANGED vars
      PROVE  DrainLeavesNothingQueued'
  BY <1>5 DEF EnqueueThrows, NotifyOne, DtorStop, Dtor, DtorNotifyAll, DtorJoin, Queued,
              DrainLeavesNothingQueued, vars, history
<1>6. ASSUME NEW w \in Workers,
             \/ WorkerBlock(w) \/ WorkerExit(w) \/ SpuriousWake(w) \/ WorkerActivate(w)
             \/ WorkerRun(w) \/ WorkerDeactivate(w) \/ WorkerComplete(w)
             \/ WorkerUnpend(w) \/ WorkerNotifyDrain(w)
      PROVE  DrainLeavesNothingQueued'
  <2>1. tasks_' = tasks_ /\ owed' = owed
    BY <1>6 DEF WorkerBlock, WorkerExit, SpuriousWake, WorkerActivate, WorkerRun,
                WorkerDeactivate, WorkerComplete, WorkerUnpend, WorkerNotifyDrain, history
  <2>2. CASE dpc' = dpc
    BY <1>0, <2>1, <2>2
  <2>3. CASE WorkerNotifyDrain(w) /\ dpc' # dpc
    <3>1. PICK d \in Drainers : dpc' = [dpc EXCEPT ![d] = "lock"]
      BY <2>3 DEF WorkerNotifyDrain
    <3>2. QED
      BY <1>0, <2>1, <3>1 DEF TypeOK
  <2>4. QED
    BY <1>6, <2>2, <2>3 DEF WorkerBlock, WorkerExit, SpuriousWake, WorkerActivate, WorkerRun,
                            WorkerDeactivate, WorkerComplete, WorkerUnpend
<1>7. QED
  BY <1>1, <1>2, <1>3, <1>4, <1>5, <1>6 DEF Next, WorkerLoop, Drain, Terminated
-------------------------------------------------------------------------------
(* The theorems *)

\* A pool just constructed satisfies the invariant.
LEMMA InitIInv == Init => IInv
<1> SUFFICES ASSUME Init PROVE IInv
  OBVIOUS
<1>1. TypeOK
  <2>1. tasks_ \in Seq(Tasks) /\ Len(tasks_) = 0
    BY SMTT(60) DEF Init
  <2>2. owed \in [Drainers -> SUBSET Tasks] /\ accepted \in SUBSET Tasks
        /\ rejected \in SUBSET Tasks
    BY DEF Init
  <2>3. wpc \in [Workers -> WorkerPc] /\ task \in [Workers -> Tasks \cup {NoTask}]
        /\ runs \in [Tasks -> Nat]
    BY DEF Init, WorkerPc
  <2>4. submit \in [Submitters -> {"idle", "notify"}]
        /\ dpc \in [Drainers -> {"idle", "lock", "deciding", "waiting", "returned"}]
    BY DEF Init
  <2>5. QED
    BY <2>1, <2>2, <2>3, <2>4 DEF Init, TypeOK
<1>2. At(wpc, Pend) = {} /\ At(wpc, Act) = {}
  BY DEF Init, At, Pend, Act
<1>3. CountersExact
  <2>1. Cardinality(At(wpc, Pend)) = 0 /\ Cardinality(At(wpc, Act)) = 0
    BY <1>2, FS_EmptySet
  <2>2. Len(tasks_) = 0 /\ pending_count_ = 0 /\ active_tasks_ = 0
    BY DEF Init
  <2>3. QED
    BY <2>1, <2>2, CountersAt, SMTT(60)
<1>4. Queued = {} /\ Taken = {} /\ Blocked = {}
  BY SMTT(60) DEF Init, Queued, Taken, Blocked
<1>5. TasksConserved
  BY <1>4, SMTT(60) DEF Init, TasksConserved
<1>6. Lifecycle /\ NoLostWakeup /\ DrainLeavesNothingQueued
  BY <1>4 DEF Init, Lifecycle, NoLostWakeup, DrainLeavesNothingQueued
<1>7. QED
  BY <1>1, <1>3, <1>5, <1>6 DEF IInv

\* The inductive invariant holds of the pool.
THEOREM PoolInvariant == Spec => []IInv
<1>1. IInv /\ [Next]_vars => IInv'
  BY TypeStep, ConservedStep, LifecycleStep, WakeupStep, DrainStep DEF IInv
<1>2. QED
  BY InitIInv, <1>1, PTL DEF Spec

\* Types, and with them: no counter of worker_loop wraps below zero.
THEOREM PoolTypes == Spec => []TypeOK
<1>1. IInv => TypeOK
  BY DEF IInv
<1>2. QED
  BY PoolInvariant, <1>1, PTL

\* No task that enqueue accepted is lost or executed twice.
THEOREM PoolConserves == Spec => []TasksConserved
<1>1. IInv => TasksConserved
  BY DEF IInv
<1>2. QED
  BY PoolInvariant, <1>1, PTL

\* pending_count_ and active_tasks_ count exactly the tasks and workers they mean.
THEOREM PoolCounts == Spec => []CountersExact
<1>1. IInv => CountersExact
  BY DEF IInv
<1>2. QED
  BY PoolInvariant, <1>1, PTL

\* No queued task is left to sleeping workers, and no worker sleeps through the
\* destructor.
THEOREM PoolWakes == Spec => []NoLostWakeup
<1>1. IInv => NoLostWakeup
  BY DEF IInv
<1>2. QED
  BY PoolInvariant, <1>1, PTL

\* drain() returns only after what was submitted before it has left the queue.
THEOREM PoolDrains == Spec => []DrainLeavesNothingQueued
<1>1. IInv => DrainLeavesNothingQueued
  BY DEF IInv
<1>2. QED
  BY PoolInvariant, <1>1, PTL

\* One worker's task() is one Execute of the abstract executor.
LEMMA RunExecutes ==
  ASSUME IInv, NEW w \in Workers, WorkerRun(w)
  PROVE  \E t \in Tasks : Promise!Execute(t)
<1>1. task[w] \in accepted /\ task[w] \in Tasks /\ runs[task[w]] = 0
  BY SMTT(60) DEF WorkerRun, IInv, TypeOK, TasksConserved, Taken
<1>2. {t \in Tasks : runs'[t] = 1} = {t \in Tasks : runs[t] = 1} \cup {task[w]}
  BY <1>1, SMTT(60) DEF WorkerRun, IInv, TypeOK
<1>3. dtor # "joined"
  BY DEF WorkerRun, IInv, Lifecycle
<1>4. PICK t \in Tasks : t = task[w]
  BY <1>1
<1>5. Promise!Execute(t)
  BY <1>1, <1>2, <1>3, <1>4, SMTT(60) DEF Promise!Execute, WorkerRun, IInv, TypeOK
<1>6. QED
  BY <1>5

\* When every worker has left, everything accepted has run.
LEMMA ExitedAllRun ==
  ASSUME IInv, \A w \in Workers : wpc[w] = "exited"
  PROVE  accepted = {t \in Tasks : runs[t] = 1}
<1>1. tasks_ = <<>> /\ Queued = {}
  BY PoolAssumption, SMTT(60) DEF IInv, Lifecycle, Queued
<1>2. Taken = {}
  BY DEF Taken
<1>3. \A t \in Tasks : runs[t] > 0 <=> runs[t] = 1
  BY SMTT(60) DEF IInv, TypeOK, TasksConserved
<1>4. QED
  BY <1>1, <1>2, <1>3, SMTT(60) DEF IInv, TasksConserved

\* A step of the pool is a step of the abstract executor, or changes nothing
\* its users see.
LEMMA PromiseStep ==
  ASSUME IInv, [Next]_vars
  PROVE  [Promise!Next]_(Promise!vars)
<1> USE DEF IInv
<1>1. ASSUME NEW s \in Submitters, NEW t \in Tasks, Enqueue(s, t)
      PROVE  Promise!Accept(t)
  BY <1>1 DEF Enqueue, Lifecycle, TypeOK, Promise!Accept
<1>2. ASSUME NEW w \in Workers, WorkerRun(w)
      PROVE  Promise!Next
  BY <1>2, RunExecutes DEF Promise!Next
<1>3. ASSUME DtorStop
      PROVE  Promise!Close
  BY <1>3 DEF DtorStop, history, Promise!Close
<1>4. ASSUME DtorJoin
      PROVE  Promise!Finish
  <2>1. accepted = {t \in Tasks : runs[t] = 1}
    BY <1>4, ExitedAllRun DEF DtorJoin
  <2>2. QED
    BY <1>4, <2>1 DEF DtorJoin, history, Promise!Finish
<1>5. ASSUME accepted' = accepted, runs' = runs,
             dtor' = dtor \/ (dtor = "notify" /\ dtor' = "joining")
      PROVE  UNCHANGED Promise!vars
  BY <1>5 DEF Promise!vars
<1>6. ASSUME NEW s \in Submitters, (\E t \in Tasks : EnqueueThrows(s, t)) \/ NotifyOne(s)
      PROVE  UNCHANGED Promise!vars
  BY <1>5, <1>6 DEF EnqueueThrows, NotifyOne, history
<1>7. ASSUME NEW w \in Workers,
             \/ WorkerBlock(w) \/ WorkerExit(w) \/ SpuriousWake(w) \/ WorkerPop(w)
             \/ WorkerActivate(w) \/ WorkerDeactivate(w) \/ WorkerComplete(w)
             \/ WorkerUnpend(w) \/ WorkerNotifyDrain(w)
      PROVE  UNCHANGED Promise!vars
  BY <1>5, <1>7 DEF WorkerBlock, WorkerExit, SpuriousWake, WorkerPop, WorkerActivate,
                    WorkerDeactivate, WorkerComplete, WorkerUnpend, WorkerNotifyDrain, history
<1>8. ASSUME NEW d \in Drainers, DrainCall(d) \/ Drain(d) \/ SpuriousDrainWake(d)
      PROVE  UNCHANGED Promise!vars
  BY <1>5, <1>8 DEF DrainCall, Drain, DrainReturn, DrainCheck, DrainWait,
                    SpuriousDrainWake, history
<1>9. ASSUME DtorNotifyAll \/ UNCHANGED vars
      PROVE  UNCHANGED Promise!vars
  BY <1>5, <1>9 DEF DtorNotifyAll, vars, history
<1>10. QED
  BY <1>1, <1>2, <1>3, <1>4, <1>6, <1>7, <1>8, <1>9
     DEF Next, WorkerLoop, Dtor, Terminated, Promise!Next

\* The pool implements the abstract executor: whatever the threads do, its users
\* see accepted tasks run at most once, none accepted after stop_ was set, and a
\* destructor that returns only when every accepted task has run.
THEOREM PoolImplementsExecutor == Spec => PromiseKept
<1>1. Init => Promise!Init
  BY SMTT(60) DEF Init, Promise!Init
<1>2. QED
  BY <1>1, PromiseStep, PoolInvariant, PTL DEF Spec, PromiseKept, Promise!SafeSpec

-------------------------------------------------------------------------------
(* The end of the pool *)

\* Once the destructor has begun no outside thread is inside the pool, and a worker is
\* inside enqueue only while it is inside a task.
Leaving ==
  /\ dtor # "none" => /\ \A s \in Clients : submit[s] = "idle"
                      /\ \A d \in Drainers : dpc[d] \in {"idle", "returned"}
  /\ \A w \in Workers : submit[w] = "notify" => wpc[w] = "running"

\* Each step keeps that.
LEMMA LeavingStep ==
  ASSUME TypeOK, Leaving, [Next]_vars
  PROVE  Leaving'
<1>1. ASSUME NEW s \in Submitters, NEW t \in Tasks, Enqueue(s, t)
      PROVE  Leaving'
  BY <1>1, PoolAssumption DEF Enqueue, MayCall, Submitters, Leaving, TypeOK
<1>2. ASSUME \/ \E s \in Submitters : \E t \in Tasks : EnqueueThrows(s, t)
             \/ UNCHANGED vars
      PROVE  Leaving'
  BY <1>2 DEF EnqueueThrows, Leaving, vars
<1>3. ASSUME NEW s \in Submitters, NotifyOne(s)
      PROVE  Leaving'
  BY <1>3 DEF NotifyOne, Blocked, Submitters, Leaving, TypeOK
<1>4. ASSUME NEW w \in Workers,
             \/ WorkerBlock(w) \/ WorkerExit(w) \/ SpuriousWake(w) \/ WorkerPop(w)
             \/ WorkerActivate(w) \/ WorkerRun(w) \/ WorkerDeactivate(w)
             \/ WorkerComplete(w) \/ WorkerUnpend(w)
      PROVE  Leaving'
  <2>1. /\ UNCHANGED <<submit, dpc, dtor>>
        /\ \A v \in Workers \ {w} : wpc'[v] = wpc[v]
        /\ wpc[w] = "running" => submit[w] = "idle"
    BY <1>4 DEF WorkerBlock, WorkerExit, SpuriousWake, WorkerPop, WorkerActivate, WorkerRun,
                WorkerDeactivate, WorkerComplete, WorkerUnpend, TypeOK
  <2>2. QED
    BY <2>1 DEF Leaving, TypeOK, Submitters
<1>5. ASSUME NEW w \in Workers, WorkerNotifyDrain(w)
      PROVE  Leaving'
  BY <1>5 DEF WorkerNotifyDrain, Leaving, TypeOK
<1>6. ASSUME NEW d \in Drainers, DrainCall(d) \/ Drain(d) \/ SpuriousDrainWake(d)
      PROVE  Leaving'
  BY <1>6 DEF DrainCall, Drain, DrainReturn, DrainCheck, DrainWait, SpuriousDrainWake,
              Leaving, TypeOK
<1>7. ASSUME DtorStop \/ Dtor
      PROVE  Leaving'
  BY <1>7 DEF DtorStop, Dtor, DtorNotifyAll, DtorJoin, Blocked, Leaving, TypeOK
<1>8. QED
  BY <1>1, <1>2, <1>3, <1>4, <1>5, <1>6, <1>7 DEF Next, WorkerLoop, Terminated

\* When the destructor has returned there is no step left.
LEMMA JoinedStops ==
  ASSUME IInv, Leaving, dtor = "joined", [Next]_vars
  PROVE  UNCHANGED vars
<1>1. \A w \in Workers : wpc[w] = "exited"
  BY DEF IInv, Lifecycle
<1>2. \A s \in Submitters : submit[s] = "idle" /\ ~MayCall(s)
  BY <1>1 DEF Leaving, Submitters, MayCall, IInv, TypeOK
<1>3. \A s \in Submitters : ~NotifyOne(s) /\ \A t \in Tasks : ~Enqueue(s, t) /\ ~EnqueueThrows(s, t)
  BY <1>2 DEF NotifyOne, Enqueue, EnqueueThrows
<1>4. \A w \in Workers : ~WorkerLoop(w) /\ ~SpuriousWake(w)
  BY <1>1 DEF WorkerLoop, WorkerBlock, WorkerExit, SpuriousWake, WorkerPop, WorkerActivate,
              WorkerRun, WorkerDeactivate, WorkerComplete, WorkerUnpend, WorkerNotifyDrain
<1>5. \A d \in Drainers : ~DrainCall(d) /\ ~Drain(d) /\ ~SpuriousDrainWake(d)
  BY DEF Leaving, DrainCall, Drain, DrainReturn, DrainCheck, DrainWait, SpuriousDrainWake
<1>6. ~DtorStop /\ ~Dtor
  BY DEF DtorStop, Dtor, DtorNotifyAll, DtorJoin
<1>7. QED
  BY <1>3, <1>4, <1>5, <1>6 DEF Next, Terminated

\* For any number of workers, callers and drains, and for tasks that submit tasks
\* themselves: the destructor returns only when nobody uses the pool any more.
THEOREM PoolNotUsedAfter == Spec => NoUseAfterJoin
<1>1. Init => Leaving
  BY DEF Init, Leaving, Submitters
<1>2. IInv /\ Leaving /\ [Next]_vars => Leaving' /\ [dtor # "joined"]_vars
  BY LeavingStep, JoinedStops DEF IInv
<1>3. QED
  BY <1>1, <1>2, PoolInvariant, PTL DEF Spec, NoUseAfterJoin
===============================================================================
