--------------------------- MODULE ExecutorProofs ---------------------------
(***************************************************************************)
(* Proofs about Executor, for every set of tasks, every pool size and any  *)
(* interleaving: type correctness, the exactly-once accounting of tasks,   *)
(* work conservation, draining at shutdown, and that every step of the     *)
(* pool is a step of TaskService.                                          *)
(***************************************************************************)
EXTENDS Executor, FiniteSetTheorems, SequenceTheorems, TLAPS

(* default_thread_count never yields an empty pool, so thread 1 exists: the *)
(* fact that makes an exited worker available when the destructor is done.  *)
LEMMA PoolIsNotEmpty ==
  ASSUME NEW setting \in ThreadSettings, NEW detected \in DetectedThreads
  PROVE  /\ DefaultThreadCount(setting, detected) >= 1
         /\ 1 \in Threads
  BY ThreadsAssumption DEF DefaultThreadCount, Threads

(* Every action keeps the types of the state it changes.                    *)
THEOREM TypeCorrect == Spec => []TypeOK
<1> USE TasksAssumption DEF TypeOK, WorkerStates, CallStates, FutureStates,
                            Outcomes, DestructorStates
<1>1. Init => TypeOK
  BY EmptySeq DEF Init
<1>2. ASSUME TypeOK, [Next]_vars
      PROVE  TypeOK'
  <2>1. ASSUME NEW t \in Tasks, SubmitAccepted(t)
        PROVE  TypeOK'
    BY <1>2, <2>1, AppendProperties DEF SubmitAccepted
  <2>2. ASSUME NEW t \in Tasks, SubmitRefused(t)
        PROVE  TypeOK'
    BY <1>2, <2>2 DEF SubmitRefused
  <2>3. ASSUME NEW t \in Tasks, NotifyOne(t)
        PROVE  TypeOK'
    BY <1>2, <2>3 DEF NotifyOne, WakeOne, Waiting
  <2>4. ASSUME NEW w \in Threads, Block(w) \/ Exit(w) \/ SpuriousWakeup(w)
        PROVE  TypeOK'
    BY <1>2, <2>4 DEF Block, Exit, SpuriousWakeup
  <2>5. ASSUME NEW w \in Threads, Take(w)
        PROVE  TypeOK'
    BY <1>2, <2>5, HeadTailProperties DEF Take
  <2>6. ASSUME NEW w \in Threads, Finish(w)
        PROVE  TypeOK'
    BY <1>2, <2>6 DEF Finish
  <2>7. CASE RequestStop
    BY <1>2, <2>7 DEF RequestStop
  <2>8. CASE NotifyAll
    BY <1>2, <2>8 DEF NotifyAll, WakeAll
  <2>9. CASE Destroy
    BY <1>2, <2>9, EmptySeq DEF Destroy
  <2>10. CASE UNCHANGED vars
    BY <1>2, <2>10 DEF vars
  <2> QED
    BY <1>2, <2>1, <2>2, <2>3, <2>4, <2>5, <2>6, <2>7, <2>8, <2>9, <2>10
       DEF Next, Caller, Loop, Destructor
<1> QED
  BY <1>1, <1>2, PTL DEF Spec

-----------------------------------------------------------------------------
(* The deque as a sequence without repetition, and the two ways it changes. *)
LEMMA QueueAppend ==
  ASSUME NEW q \in Seq(Tasks), NEW t \in Tasks
  PROVE  /\ Append(q, t) \in Seq(Tasks)
         /\ Len(Append(q, t)) = Len(q) + 1
         /\ Len(q) \in Nat
         /\ \A i \in 1 .. Len(q) : Append(q, t)[i] = q[i]
         /\ Append(q, t)[Len(q) + 1] = t
  BY AppendProperties, LenProperties

LEMMA QueueTail ==
  ASSUME NEW q \in Seq(Tasks), q # <<>>
  PROVE  /\ Tail(q) \in Seq(Tasks)
         /\ Head(q) = q[1]
         /\ Len(q) \in Nat \ {0}
         /\ Len(Tail(q)) = Len(q) - 1
         /\ \A i \in 1 .. Len(q) - 1 : Tail(q)[i] = q[i + 1]
  BY HeadTailProperties, EmptySeq

(* Exactly-once accounting and draining, proved together: each needs the    *)
(* others for its step.                                                     *)
Accounting == EachTaskOnce /\ ShutdownDrains /\ Lifecycle

LEMMA AccountingInit == Init => Accounting
<1> SUFFICES ASSUME Init
             PROVE  Accounting
  OBVIOUS
<1>1. Len(queue) = 0
  BY EmptySeq DEF Init
<1>2. Running = {} /\ Exited = {}
  BY DEF Init, Running, Exited
<1>3. worker[1] # "none"
  BY PoolIsNotEmpty, ThreadsAssumption DEF Init, Threads
<1> QED
  BY <1>1, <1>2, <1>3
     DEF Init, Accounting, EachTaskOnce, ShutdownDrains, Lifecycle, Queued,
         Running, Exited

LEMMA SubmitAccounting ==
  ASSUME TypeOK, Accounting, NEW t \in Tasks, SubmitAccepted(t)
  PROVE  Accounting'
<1> USE DEF Accounting, SubmitAccepted
<1>1. future[t] = "none"
  BY DEF Lifecycle
<1>2. ~Queued(t) /\ \A w \in Running : job[w] # t
  BY <1>1 DEF EachTaskOnce
<1>3. Running' = Running /\ Exited' = Exited
  BY DEF Running, Exited
<1>4. \A u \in Tasks : Queued(u)' <=> Queued(u) \/ u = t
  BY QueueAppend DEF TypeOK, Queued
<1>5. EachTaskOnce'
  <2>1. \A i, j \in 1 .. Len(queue') : queue'[i] = queue'[j] => i = j
    BY <1>2, QueueAppend DEF TypeOK, EachTaskOnce, Queued
  <2>2. \A v, w \in Running' : job'[v] = job'[w] => v = w
    BY <1>3 DEF EachTaskOnce
  <2>3. \A w \in Running' : ~Queued(job[w])'
    BY <1>2, <1>3, QueueAppend DEF EachTaskOnce, TypeOK, Queued
  <2>4. \A u \in Tasks :
          future'[u] = "pending" <=>
            Queued(u)' \/ \E w \in Running' : job'[w] = u
    BY <1>1, <1>2, <1>3, <1>4 DEF EachTaskOnce, TypeOK
  <2> QED
    BY <2>1, <2>2, <2>3, <2>4 DEF EachTaskOnce, Queued
<1>6. ShutdownDrains'
  BY <1>3 DEF ShutdownDrains
<1>7. Lifecycle'
  BY <1>3 DEF Lifecycle, Joinable, TypeOK
<1> QED
  BY <1>5, <1>6, <1>7

LEMMA TakeAccounting ==
  ASSUME TypeOK, Accounting, NEW w \in Threads, Take(w)
  PROVE  Accounting'
<1> USE DEF Accounting, Take
<1>0. PICK t \in Tasks : t = Head(queue)
  BY HeadTailProperties DEF TypeOK
<1>1. t \in Tasks /\ t = queue[1] /\ Queued(t)
  BY <1>0, QueueTail DEF TypeOK, Queued
<1>2. Running' = Running \cup {w} /\ w \notin Running /\ Exited' = Exited
  BY DEF Running, Exited, TypeOK
<1>3. \A u \in Tasks : Queued(u)' <=> Queued(u) /\ u # t
  <2> SUFFICES ASSUME NEW u \in Tasks
               PROVE  Queued(u)' <=> Queued(u) /\ u # t
    OBVIOUS
  <2>1. ASSUME Queued(u)'
        PROVE  Queued(u) /\ u # t
    <3>1. PICK i \in 1 .. Len(queue) - 1 : queue[i + 1] = u
      BY <2>1, QueueTail DEF TypeOK, Queued
    <3>2. i + 1 \in 1 .. Len(queue) /\ i + 1 # 1 /\ 1 \in 1 .. Len(queue)
      BY QueueTail DEF TypeOK
    <3> QED
      BY <1>1, <3>1, <3>2 DEF EachTaskOnce, Queued
  <2>2. ASSUME Queued(u), u # t
        PROVE  Queued(u)'
    <3>1. PICK i \in 1 .. Len(queue) : queue[i] = u
      BY <2>2 DEF Queued
    <3>2. i - 1 \in 1 .. Len(queue) - 1 /\ queue[(i - 1) + 1] = u
      BY <1>1, <2>2, <3>1, QueueTail DEF TypeOK
    <3>3. queue'[i - 1] = u /\ i - 1 \in 1 .. Len(queue')
      BY <3>2, QueueTail DEF TypeOK
    <3> QED
      BY <3>3 DEF Queued
  <2> QED
    BY <2>1, <2>2
<1>4. \A v \in Running :
        job[v] # t /\ job'[v] = job[v] /\ job[v] \in Tasks \cup {NoTask}
  BY <1>1, <1>2 DEF TypeOK, EachTaskOnce, Running
<1>5. job'[w] = t
  BY <1>0 DEF TypeOK
<1>6. EachTaskOnce'
  <2>1. \A i, j \in 1 .. Len(queue') : queue'[i] = queue'[j] => i = j
    BY QueueTail DEF TypeOK, EachTaskOnce
  <2>2. \A u, v \in Running' : job'[u] = job'[v] => u = v
    BY <1>2, <1>4, <1>5 DEF EachTaskOnce
  <2>3. \A v \in Running' : ~Queued(job[v])'
    <3>1. ~Queued(t)'
      BY <1>1, <1>3
    <3>2. \A v \in Running : ~Queued(job[v])'
      BY <1>4, QueueTail DEF EachTaskOnce, Queued, TypeOK
    <3> QED
      BY <1>2, <1>5, <3>1, <3>2 DEF Queued
  <2>4. \A u \in Tasks :
          future'[u] = "pending" <=>
            Queued(u)' \/ \E v \in Running' : job'[v] = u
    BY <1>1, <1>2, <1>3, <1>4, <1>5 DEF EachTaskOnce
  <2> QED
    BY <2>1, <2>2, <2>3, <2>4 DEF EachTaskOnce, Queued
<1>7. ShutdownDrains'
  BY <1>2 DEF ShutdownDrains
<1>8. Lifecycle'
  <2>1. \A v \in Running' : job'[v] \in Tasks
    BY <1>1, <1>2, <1>4, <1>5 DEF Lifecycle
  <2> QED
    BY <2>1 DEF Lifecycle, Joinable, TypeOK
<1> QED
  BY <1>6, <1>7, <1>8

LEMMA FinishAccounting ==
  ASSUME TypeOK, Accounting, NEW w \in Threads, Finish(w)
  PROVE  Accounting'
<1> USE DEF Accounting, Finish
<1>1. Running' = Running \ {w} /\ w \in Running /\ Exited' = Exited
  BY DEF Running, Exited, TypeOK
<1>2. PICK outcome \in Outcomes :
        future' = [future EXCEPT ![job[w]] = outcome]
  OBVIOUS
<1>3. \A v \in Running' : job'[v] = job[v] /\ job[v] # job[w]
  BY <1>1 DEF EachTaskOnce, Running, TypeOK
<1>4. \A u \in Tasks : future'[u] = IF u = job[w] THEN outcome ELSE future[u]
  BY <1>2 DEF TypeOK
<1>5. outcome \notin {"pending", "none", "broken", "empty"}
  BY DEF Outcomes
<1>6. EachTaskOnce'
  <2>1. \A u, v \in Running' : job'[u] = job'[v] => u = v
    BY <1>1, <1>3 DEF EachTaskOnce
  <2>2. \A v \in Running' : ~Queued(job[v])'
    BY <1>1, <1>3 DEF EachTaskOnce, Queued
  <2>3. ASSUME NEW u \in Tasks
        PROVE  future'[u] = "pending" <=>
                 Queued(u)' \/ \E v \in Running' : job'[v] = u
    <3>1. Queued(u)' <=> Queued(u)
      BY DEF Queued
    <3>2. CASE u = job[w]
      <4>1. ~Queued(u)
        BY <1>1, <3>2 DEF EachTaskOnce
      <4> QED
        BY <1>3, <1>4, <1>5, <3>1, <3>2, <4>1
    <3>3. CASE u # job[w]
      BY <1>1, <1>3, <1>4, <3>1, <3>3 DEF EachTaskOnce
    <3> QED
      BY <3>2, <3>3
  <2> QED
    BY <2>1, <2>2, <2>3 DEF EachTaskOnce, Queued
<1>7. ShutdownDrains'
  BY <1>1, <1>4, <1>5 DEF ShutdownDrains
<1>8. Lifecycle'
  <2>1. \A u \in Tasks : call'[u] = "idle" => future'[u] = "none"
    <3> SUFFICES ASSUME NEW u \in Tasks, call[u] = "idle"
                 PROVE  future'[u] = "none"
      OBVIOUS
    <3>1. future[u] = "none"
      BY DEF Lifecycle
    <3>2. u # job[w]
      BY <1>1, <3>1 DEF EachTaskOnce
    <3> QED
      BY <1>4, <3>1, <3>2
  <2>2. \A u \in Tasks : future'[u] # "broken"
    BY <1>4, <1>5 DEF Lifecycle
  <2>3. \A v \in Running' : job'[v] \in Tasks
    BY <1>1, <1>3 DEF Lifecycle
  <2> QED
    BY <2>1, <2>2, <2>3 DEF Lifecycle, Joinable, TypeOK
<1> QED
  BY <1>6, <1>7, <1>8

(* Actions that move neither a task nor a future: they only shift threads   *)
(* between states other than "running".                                     *)
LEMMA ThreadAccounting ==
  ASSUME TypeOK, Accounting, UNCHANGED <<queue, job, future>>,
         Running' = Running
  PROVE  EachTaskOnce'
  BY DEF Accounting, EachTaskOnce, Queued

LEMMA DestroyAccounting ==
  ASSUME TypeOK, Accounting, Destroy
  PROVE  Accounting'
<1> USE DEF Accounting, Destroy
<1>1. 1 \in Threads /\ worker[1] = "exited"
  BY ThreadsAssumption DEF Threads, Joinable, Lifecycle
<1>2. queue = <<>> /\ Running = {} /\ Exited' = Exited /\ Running' = Running
  BY <1>1 DEF ShutdownDrains, Exited, Running, Joinable
<1>3. \A t \in Tasks : ~Queued(t) /\ future[t] # "pending"
  <2>1. \A t \in Tasks : ~Queued(t)
    BY <1>2, EmptySeq DEF Queued
  <2> QED
    BY <1>2, <2>1 DEF EachTaskOnce
<1>4. UNCHANGED <<queue, future>>
  BY <1>2, <1>3 DEF TypeOK
<1>5. EachTaskOnce'
  BY <1>2, <1>4, ThreadAccounting
<1>6. ShutdownDrains'
  BY <1>2, <1>3, <1>4 DEF ShutdownDrains, Lifecycle
<1>7. Lifecycle'
  BY <1>2, <1>4 DEF Lifecycle, Joinable
<1> QED
  BY <1>5, <1>6, <1>7

LEMMA AccountingStep ==
  ASSUME TypeOK, Accounting, [Next]_vars
  PROVE  Accounting'
<1>1. ASSUME NEW t \in Tasks, SubmitAccepted(t)
      PROVE  Accounting'
  BY <1>1, SubmitAccounting
<1>2. ASSUME NEW t \in Tasks, SubmitRefused(t)
      PROVE  Accounting'
  <2> USE <1>2 DEF SubmitRefused
  <2>1. future[t] = "none" /\ Running' = Running /\ Exited' = Exited
    BY DEF Accounting, Lifecycle, Running, Exited
  <2>2. EachTaskOnce'
    BY <2>1 DEF TypeOK, Accounting, EachTaskOnce, Queued
  <2>3. ShutdownDrains'
    BY <2>1 DEF TypeOK, Accounting, ShutdownDrains
  <2>4. Lifecycle'
    BY <2>1 DEF TypeOK, Accounting, Lifecycle, Joinable
  <2> QED
    BY <2>2, <2>3, <2>4 DEF Accounting
<1>3. ASSUME NEW t \in Tasks, NotifyOne(t)
      PROVE  Accounting'
  <2>1. Running' = Running /\ Exited' = Exited
    BY <1>3 DEF NotifyOne, WakeOne, Waiting, Running, Exited, TypeOK
  <2>2. EachTaskOnce'
    BY <1>3, <2>1, ThreadAccounting DEF NotifyOne
  <2>3. ShutdownDrains'
    BY <1>3, <2>1 DEF NotifyOne, Accounting, ShutdownDrains
  <2>4. Lifecycle'
    <3>1. \A w \in Threads :
            \/ worker'[w] = worker[w]
            \/ worker[w] = "waiting" /\ worker'[w] = "check"
      <4>1. CASE UNCHANGED worker
        BY <4>1
      <4>2. ASSUME NEW v \in Waiting, worker' = [worker EXCEPT ![v] = "check"]
            PROVE  \A w \in Threads :
                     \/ worker'[w] = worker[w]
                     \/ worker[w] = "waiting" /\ worker'[w] = "check"
        BY <4>2 DEF Waiting, TypeOK
      <4> QED
        BY <1>3, <4>1, <4>2 DEF NotifyOne, WakeOne
    <3>2. worker'[1] # "none"
      BY <3>1, ThreadsAssumption DEF Accounting, Lifecycle, Threads
    <3>3. destructor = "destroyed" => \A w \in Threads : Joinable(w)'
      BY <3>1 DEF Accounting, Lifecycle, Joinable
    <3> QED
      BY <1>3, <2>1, <3>2, <3>3 DEF NotifyOne, TypeOK, Accounting, Lifecycle
  <2> QED
    BY <2>2, <2>3, <2>4 DEF Accounting
<1>4. ASSUME NEW w \in Threads, Block(w) \/ SpuriousWakeup(w)
      PROVE  Accounting'
  <2>1. Running' = Running /\ Exited' = Exited
    BY <1>4 DEF Block, SpuriousWakeup, Running, Exited, TypeOK
  <2>2. EachTaskOnce'
    BY <1>4, <2>1, ThreadAccounting DEF Block, SpuriousWakeup
  <2>3. ShutdownDrains'
    BY <1>4, <2>1 DEF Block, SpuriousWakeup, Accounting, ShutdownDrains
  <2>4. Lifecycle'
    <3>1. worker[w] \in {"check", "waiting"} /\ worker'[w] \in {"check", "waiting"}
      BY <1>4 DEF Block, SpuriousWakeup, TypeOK
    <3>2. destructor # "destroyed"
      BY <3>1 DEF Accounting, Lifecycle, Joinable
    <3>3. worker'[1] # "none"
      BY <1>4, <3>1, ThreadsAssumption
         DEF Block, SpuriousWakeup, TypeOK, Accounting, Lifecycle, Threads
    <3> QED
      BY <1>4, <2>1, <3>2, <3>3 DEF Block, SpuriousWakeup, Accounting, Lifecycle
  <2> QED
    BY <2>2, <2>3, <2>4 DEF Accounting
<1>5. ASSUME NEW w \in Threads, Exit(w)
      PROVE  Accounting'
  <2>1. Running' = Running
    BY <1>5 DEF Exit, Running, TypeOK
  <2>2. EachTaskOnce'
    BY <1>5, <2>1, ThreadAccounting DEF Exit
  <2>3. ShutdownDrains'
    BY <1>5 DEF Exit, Accounting, ShutdownDrains
  <2>4. Lifecycle'
    BY <1>5, <2>1 DEF Exit, TypeOK, Accounting, Lifecycle, Joinable
  <2> QED
    BY <2>2, <2>3, <2>4 DEF Accounting
<1>6. ASSUME NEW w \in Threads, Take(w)
      PROVE  Accounting'
  BY <1>6, TakeAccounting
<1>7. ASSUME NEW w \in Threads, Finish(w)
      PROVE  Accounting'
  BY <1>7, FinishAccounting
<1>8. CASE RequestStop
  <2>1. Running' = Running /\ Exited' = Exited
    BY <1>8 DEF RequestStop, Running, Exited
  <2>2. EachTaskOnce'
    BY <1>8, <2>1, ThreadAccounting DEF RequestStop
  <2>3. ShutdownDrains' /\ Lifecycle'
    BY <1>8, <2>1 DEF RequestStop, Accounting, ShutdownDrains, Lifecycle,
                      Joinable
  <2> QED
    BY <2>2, <2>3 DEF Accounting
<1>9. CASE NotifyAll
  <2>1. Running' = Running /\ Exited' = Exited
    BY <1>9 DEF NotifyAll, WakeAll, Running, Exited
  <2>2. EachTaskOnce'
    BY <1>9, <2>1, ThreadAccounting DEF NotifyAll
  <2>3. ShutdownDrains'
    BY <1>9, <2>1 DEF NotifyAll, Accounting, ShutdownDrains
  <2>4. Lifecycle'
    BY <1>9, <2>1, ThreadsAssumption
       DEF NotifyAll, WakeAll, Accounting, Lifecycle, Joinable, Threads
  <2> QED
    BY <2>2, <2>3, <2>4 DEF Accounting
<1>10. CASE Destroy
  BY <1>10, DestroyAccounting
<1>11. CASE UNCHANGED vars
  BY <1>11 DEF vars, Accounting, EachTaskOnce, ShutdownDrains, Lifecycle,
               Queued, Running, Exited, Joinable
<1> QED
  BY <1>1, <1>2, <1>3, <1>4, <1>5, <1>6, <1>7, <1>8, <1>9, <1>10, <1>11
     DEF Next, Caller, Loop, Destructor

(* Each pending future is backed by exactly one place in the deque or one   *)
(* running worker, in every reachable state.                                *)
THEOREM TasksAccounted == Spec => []EachTaskOnce
<1>1. Spec => []Accounting
  BY TypeCorrect, AccountingInit, AccountingStep, PTL DEF Spec
<1>2. Accounting => EachTaskOnce
  BY DEF Accounting
<1> QED
  BY <1>1, <1>2, PTL

(* No worker leaves while a task is queued, and a destroyed pool leaves no  *)
(* future pending or broken.                                                *)
THEOREM ShutdownIsClean == Spec => []ShutdownDrains
<1>1. Spec => []Accounting
  BY TypeCorrect, AccountingInit, AccountingStep, PTL DEF Spec
<1>2. Accounting => ShutdownDrains
  BY DEF Accounting
<1> QED
  BY <1>1, <1>2, PTL

-----------------------------------------------------------------------------
(* Work conservation.  The sets it counts are finite.                       *)
LEMMA CountedSets ==
  /\ IsFiniteSet(Checking) /\ Cardinality(Checking) \in Nat
  /\ IsFiniteSet(Notifying) /\ Cardinality(Notifying) \in Nat
<1>1. IsFiniteSet(Threads)
  BY FS_Interval, ThreadsAssumption DEF Threads
<1>2. IsFiniteSet(Checking)
  BY <1>1, FS_Subset DEF Checking
<1>3. IsFiniteSet(Notifying)
  BY TasksAssumption, FS_Subset DEF Notifying
<1> QED
  BY <1>2, <1>3, FS_CardinalityType

LEMMA NoLostWakeupStep ==
  ASSUME TypeOK, NoLostWakeup, [Next]_vars
  PROVE  NoLostWakeup'
<1> USE CountedSets
<1>1. Len(queue) \in Nat
  BY LenProperties DEF TypeOK
<1>2. ASSUME NEW t \in Tasks, SubmitAccepted(t)
      PROVE  NoLostWakeup'
  <2>1. Len(queue') = Len(queue) + 1
    BY <1>2, QueueAppend DEF SubmitAccepted, TypeOK
  <2>2. Waiting' = Waiting /\ Checking' = Checking
    BY <1>2 DEF SubmitAccepted, Waiting, Checking
  <2>3. Notifying' = Notifying \cup {t} /\ t \notin Notifying
    BY <1>2 DEF SubmitAccepted, Notifying, TypeOK
  <2>4. Cardinality(Notifying') = Cardinality(Notifying) + 1
    BY <2>3, FS_AddElement
  <2> QED
    BY <1>1, <2>1, <2>2, <2>4 DEF NoLostWakeup
<1>3. ASSUME NEW t \in Tasks, SubmitRefused(t)
      PROVE  NoLostWakeup'
  <2>1. Waiting' = Waiting /\ Checking' = Checking /\ Notifying' = Notifying
    BY <1>3 DEF SubmitRefused, Waiting, Checking, Notifying, TypeOK
  <2> QED
    BY <1>3, <2>1 DEF SubmitRefused, NoLostWakeup
<1>4. ASSUME NEW t \in Tasks, NotifyOne(t)
      PROVE  NoLostWakeup'
  <2>1. CASE Waiting = {} /\ UNCHANGED worker
    BY <2>1 DEF NoLostWakeup, Waiting
  <2>2. ASSUME NEW w \in Waiting, worker' = [worker EXCEPT ![w] = "check"]
        PROVE  NoLostWakeup'
    <3>1. Checking' = Checking \cup {w} /\ w \notin Checking
      BY <2>2 DEF Checking, Waiting, TypeOK
    <3>2. Cardinality(Checking') = Cardinality(Checking) + 1
      BY <3>1, FS_AddElement
    <3>3. Notifying' = Notifying \ {t} /\ t \in Notifying
      BY <1>4 DEF NotifyOne, Notifying, TypeOK
    <3>4. Cardinality(Notifying') = Cardinality(Notifying) - 1
      BY <3>3, FS_RemoveElement
    <3> QED
      BY <1>1, <1>4, <2>2, <3>2, <3>4 DEF NotifyOne, NoLostWakeup
  <2> QED
    BY <1>4, <2>1, <2>2 DEF NotifyOne, WakeOne
<1>5. ASSUME NEW w \in Threads, Block(w) \/ Exit(w)
      PROVE  NoLostWakeup'
  <2>1. Len(queue') = 0
    BY <1>5, EmptySeq DEF Block, Exit
  <2>2. Cardinality(Checking') \in Nat /\ Cardinality(Notifying') \in Nat
    <3>1. Checking' \subseteq Checking
      BY <1>5 DEF Block, Exit, Checking, TypeOK
    <3>2. Notifying' = Notifying
      BY <1>5 DEF Block, Exit, Notifying
    <3> QED
      BY <3>1, <3>2, FS_Subset, FS_CardinalityType
  <2> QED
    BY <2>1, <2>2 DEF NoLostWakeup
<1>6. ASSUME NEW w \in Threads, Take(w)
      PROVE  NoLostWakeup'
  <2>1. Len(queue') = Len(queue) - 1
    BY <1>6, QueueTail DEF Take, TypeOK
  <2>2. Waiting' = Waiting /\ Notifying' = Notifying
    BY <1>6 DEF Take, Waiting, Notifying, TypeOK
  <2>3. Checking' = Checking \ {w} /\ w \in Checking
    BY <1>6 DEF Take, Checking, TypeOK
  <2>4. Cardinality(Checking') = Cardinality(Checking) - 1
    BY <2>3, FS_RemoveElement
  <2> QED
    BY <1>1, <2>1, <2>2, <2>4 DEF NoLostWakeup
<1>7. ASSUME NEW w \in Threads, Finish(w) \/ SpuriousWakeup(w)
      PROVE  NoLostWakeup'
  <2>1. Waiting' \subseteq Waiting /\ Notifying' = Notifying /\ queue' = queue
    BY <1>7 DEF Finish, SpuriousWakeup, Waiting, Notifying, TypeOK
  <2>2. Checking' = Checking \cup {w} /\ w \notin Checking
    BY <1>7 DEF Finish, SpuriousWakeup, Checking, TypeOK
  <2>3. Cardinality(Checking') = Cardinality(Checking) + 1
    BY <2>2, FS_AddElement
  <2> QED
    BY <1>1, <2>1, <2>3 DEF NoLostWakeup
<1>8. CASE NotifyAll
  BY <1>8 DEF NotifyAll, WakeAll, NoLostWakeup, Waiting
<1>9. CASE RequestStop \/ UNCHANGED vars
  <2>1. UNCHANGED <<queue, worker, call>>
    BY <1>9 DEF RequestStop, vars
  <2> QED
    BY <2>1 DEF NoLostWakeup, Waiting, Checking, Notifying
<1>10. CASE Destroy
  BY <1>10 DEF Destroy, Joinable, NoLostWakeup, Waiting
<1> QED
  BY <1>2, <1>3, <1>4, <1>5, <1>6, <1>7, <1>8, <1>9, <1>10
     DEF Next, Caller, Loop, Destructor

(* No wake-up is lost: while a worker sleeps, every queued task has a       *)
(* worker or a notification coming for it, for any pool and any load.       *)
THEOREM WakeupsSuffice == Spec => []NoLostWakeup
<1>1. Init => NoLostWakeup
  BY DEF Init, NoLostWakeup, Waiting
<1> QED
  BY <1>1, TypeCorrect, NoLostWakeupStep, PTL DEF Spec

-----------------------------------------------------------------------------
(* A future is set once, by the worker that ran its task, or at once when   *)
(* the submission is refused.                                               *)
THEOREM FuturesSetOnce == Spec => ResolvedOnce
<1> DEFINE SetOnce ==
      \A t \in Tasks :
        /\ future[t] \in Outcomes \cup {"empty"} => future'[t] = future[t]
        /\ future'[t] \in Outcomes /\ future[t] # future'[t] =>
             \E w \in Threads : worker[w] = "running" /\ job[w] = t
<1>1. ASSUME TypeOK, Accounting, [Next]_vars
      PROVE  SetOnce
  <2>1. CASE UNCHANGED future
    BY <2>1
  <2>2. ASSUME NEW t \in Tasks, SubmitAccepted(t) \/ SubmitRefused(t)
        PROVE  SetOnce
    <3>1. future[t] = "none"
      BY <1>1, <2>2 DEF SubmitAccepted, SubmitRefused, Accounting, Lifecycle
    <3> QED
      BY <1>1, <2>2, <3>1 DEF SubmitAccepted, SubmitRefused, Outcomes, TypeOK
  <2>3. ASSUME NEW w \in Threads, Finish(w)
        PROVE  SetOnce
    <3>1. w \in Running
      BY <2>3 DEF Finish, Running
    <3>2. job[w] \in Tasks => future[job[w]] = "pending"
      BY <1>1, <3>1 DEF Accounting, EachTaskOnce
    <3>3. \A t \in Tasks : t # job[w] => future'[t] = future[t]
      BY <1>1, <2>3 DEF Finish, TypeOK
    <3> QED
      BY <2>3, <3>2, <3>3 DEF Finish, Outcomes
  <2>4. CASE Destroy
    BY <1>1, <2>4 DEF Destroy, Outcomes, Accounting, EachTaskOnce
  <2> QED
    BY <1>1, <2>1, <2>2, <2>3, <2>4
       DEF Next, Caller, Loop, Destructor, NotifyOne, Block, Exit, Take,
           SpuriousWakeup, RequestStop, NotifyAll, vars
<1>2. TypeOK /\ Accounting /\ [Next]_vars => [SetOnce]_vars
  BY <1>1
<1> QED
  BY <1>2, TypeCorrect, AccountingInit, AccountingStep, PTL
     DEF Spec, ResolvedOnce

(* Every step of the pool, seen through the mapping of Service, is a step   *)
(* of the abstract service: tasks start in the order of acceptance, once,   *)
(* and acceptance ends exactly when the destructor sets its flag.           *)
LEMMA ServiceInit == Init => Service!Init
<1> SUFFICES ASSUME Init
             PROVE  Service!Init
  OBVIOUS
<1>1. \A t \in Tasks : Status(t) = "new"
  BY DEF Init, Status, Outcomes
<1> QED
  BY <1>1 DEF Init, Service!Init

(* How the mapped status depends on a task's future and its place.          *)
LEMMA StatusCases ==
  ASSUME TypeOK, NEW t \in Tasks
  PROVE  /\ future[t] = "none" => Status(t) = "new"
         /\ future[t] = "empty" => Status(t) = "refused"
         /\ future[t] \in Outcomes => Status(t) = "done"
         /\ future[t] = "pending" /\ Queued(t) => Status(t) = "waiting"
         /\ future[t] = "pending" /\ ~Queued(t) => Status(t) = "running"
  BY DEF Status, Outcomes

LEMMA StatusCasesNext ==
  ASSUME TypeOK', NEW t \in Tasks
  PROVE  /\ future'[t] = "none" => Status(t)' = "new"
         /\ future'[t] = "empty" => Status(t)' = "refused"
         /\ future'[t] \in Outcomes => Status(t)' = "done"
         /\ future'[t] = "pending" /\ Queued(t)' => Status(t)' = "waiting"
         /\ future'[t] = "pending" /\ ~Queued(t)' => Status(t)' = "running"
  BY DEF Status, Outcomes

LEMMA ServiceStep ==
  ASSUME TypeOK, TypeOK', Accounting, Accounting', [Next]_vars
  PROVE  [Service!Next]_(Service!vars)
<1> DEFINE Same(t) == future'[t] = future[t] /\ (Queued(t)' <=> Queued(t))
<1>1. ASSUME NEW t \in Tasks, Same(t), future[t] # "broken"
      PROVE  Status(t)' = Status(t)
  BY <1>1, StatusCases, StatusCasesNext DEF TypeOK, FutureStates
<1>2. ASSUME NEW t \in Tasks, SubmitAccepted(t)
      PROVE  Service!Accept(t)
  <2>1. future[t] = "none" /\ ~stopping
    BY <1>2 DEF SubmitAccepted, Accounting, Lifecycle
  <2>2. future'[t] = "pending" /\ Queued(t)'
    BY <1>2, QueueAppend DEF SubmitAccepted, TypeOK, Queued
  <2>3. \A u \in Tasks : u # t => Same(u)
    BY <1>2, QueueAppend DEF SubmitAccepted, TypeOK, Queued
  <2>4. \A u \in Tasks : u # t => Status(u)' = Status(u)
    BY <1>1, <2>3 DEF Accounting, Lifecycle
  <2>5. Status(t) = "new" /\ Status(t)' = "waiting"
    BY <2>1, <2>2, StatusCases, StatusCasesNext
  <2> QED
    BY <1>2, <2>1, <2>4, <2>5 DEF SubmitAccepted, Service!Accept
<1>3. ASSUME NEW t \in Tasks, SubmitRefused(t)
      PROVE  Service!Refuse(t)
  <2>1. future[t] = "none" /\ future'[t] = "empty" /\ UNCHANGED <<queue, stopping>>
    BY <1>3 DEF SubmitRefused, Accounting, Lifecycle, TypeOK
  <2>2. \A u \in Tasks : u # t => Same(u)
    BY <1>3 DEF SubmitRefused, TypeOK, Queued
  <2>3. \A u \in Tasks : u # t => Status(u)' = Status(u)
    BY <1>1, <2>2 DEF Accounting, Lifecycle
  <2>4. Status(t) = "new" /\ Status(t)' = "refused"
    BY <2>1, StatusCases, StatusCasesNext
  <2>5. stopping /\ stopping'
    BY <1>3 DEF SubmitRefused
  <2>6. [u \in Tasks |-> Status(u)]' =
          [[u \in Tasks |-> Status(u)] EXCEPT ![t] = "refused"]
    BY <2>3, <2>4
  <2> QED
    BY <2>1, <2>4, <2>5, <2>6 DEF Service!Refuse
<1>4. ASSUME NEW w \in Threads, Take(w)
      PROVE  Service!Start(Head(queue))
  <2>1. PICK t \in Tasks : t = Head(queue)
    BY <1>4, HeadTailProperties DEF Take, TypeOK
  <2>2. Queued(t)
    BY <1>4, <2>1, QueueTail DEF Take, Queued, TypeOK
  <2>3. future[t] = "pending" /\ future' = future
    BY <1>4, <2>2 DEF Take, Accounting, EachTaskOnce
  <2>4. ~Queued(t)'
    <3>1. w \in Running' /\ job'[w] = t
      BY <1>4, <2>1 DEF Take, Running, TypeOK
    <3> QED
      BY <3>1 DEF Accounting, EachTaskOnce, Queued
  <2>5. ASSUME NEW u \in Tasks, u # t
        PROVE  Same(u)
    <3>1. Queued(u)' => Queued(u)
      <4>1. ASSUME NEW i \in 1 .. Len(queue) - 1, Tail(queue)[i] = u
            PROVE  i + 1 \in 1 .. Len(queue) /\ queue[i + 1] = u
        BY <1>4, <4>1, QueueTail DEF Take, TypeOK
      <4> QED
        BY <1>4, <4>1, QueueTail DEF Take, TypeOK, Queued
    <3>2. ASSUME NEW i \in 1 .. Len(queue), queue[i] = u
          PROVE  Queued(u)'
      <4>1. i # 1
        BY <1>4, <2>1, <2>5, <3>2, QueueTail DEF Take, TypeOK
      <4>2. i - 1 \in 1 .. Len(queue) - 1 /\ (i - 1) + 1 = i
        BY <4>1, LenProperties DEF TypeOK
      <4>3. i - 1 \in 1 .. Len(queue') /\ queue'[i - 1] = u
        BY <1>4, <3>2, <4>2, QueueTail DEF Take, TypeOK
      <4> QED
        BY <4>3 DEF Queued
    <3> QED
      BY <2>3, <3>1, <3>2 DEF Queued
  <2>6. \A u \in Tasks : u # t => Status(u)' = Status(u)
    BY <1>1, <2>5 DEF Accounting, Lifecycle
  <2>7. Status(t)' = "running"
    BY <2>3, <2>4, StatusCasesNext
  <2> QED
    BY <1>4, <2>1, <2>6, <2>7 DEF Take, Service!Start
<1>5. ASSUME NEW w \in Threads, Finish(w)
      PROVE  \E t \in Tasks : Service!Complete(t)
  <2>1. w \in Running
    BY <1>5 DEF Finish, Running
  <2>2. job[w] \in Tasks
    BY <2>1 DEF Accounting, Lifecycle
  <2>3. future[job[w]] = "pending" /\ ~Queued(job[w])
    BY <2>1, <2>2 DEF Accounting, EachTaskOnce
  <2>4. future'[job[w]] \in Outcomes
    BY <1>5, <2>2 DEF Finish, TypeOK
  <2>5. \A u \in Tasks : u # job[w] => Same(u)
    BY <1>5 DEF Finish, TypeOK, Queued
  <2>6. \A u \in Tasks : u # job[w] => Status(u)' = Status(u)
    BY <1>1, <2>5 DEF Accounting, Lifecycle
  <2>7. PICK t \in Tasks : t = job[w]
    BY <2>2
  <2>8. Status(t) = "running" /\ Status(t)' = "done"
    BY <2>3, <2>4, <2>7, StatusCases, StatusCasesNext
  <2>9. [u \in Tasks |-> Status(u)]' =
          [[u \in Tasks |-> Status(u)] EXCEPT ![t] = "done"]
    BY <2>6, <2>7, <2>8
  <2>10. queue' = queue /\ stopping' = stopping
    BY <1>5 DEF Finish
  <2>11. Service!Complete(t)
    BY <2>8, <2>9, <2>10 DEF Service!Complete
  <2> QED
    BY <2>11
<1>6. ASSUME RequestStop
      PROVE  Service!Close
  <2>1. ~stopping /\ stopping' /\ UNCHANGED <<queue, future>>
    BY <1>6 DEF RequestStop, Accounting, Lifecycle
  <2>2. \A u \in Tasks : Same(u)
    BY <2>1 DEF Queued
  <2>3. \A u \in Tasks : Status(u)' = Status(u)
    BY <1>1, <2>2 DEF Accounting, Lifecycle
  <2> QED
    BY <2>1, <2>3 DEF Service!Close
<1>7. ASSUME UNCHANGED <<queue, future, stopping>>
      PROVE  UNCHANGED Service!vars
  <2>1. \A u \in Tasks : Same(u)
    BY <1>7 DEF Queued
  <2>2. \A u \in Tasks : Status(u)' = Status(u)
    BY <1>1, <2>1 DEF Accounting, Lifecycle
  <2>3. [u \in Tasks |-> Status(u)]' = [u \in Tasks |-> Status(u)]
    BY <2>2
  <2>4. queue' = queue /\ (~stopping)' = ~stopping
    BY <1>7
  <2> QED
    BY <2>3, <2>4 DEF Service!vars
<1>8. ASSUME Destroy
      PROVE  UNCHANGED <<queue, future, stopping>>
  <2>1. worker[1] = "exited" /\ 1 \in Threads
    BY <1>8, ThreadsAssumption
       DEF Destroy, Joinable, Threads, Accounting, Lifecycle
  <2>2. queue = <<>>
    BY <2>1 DEF Accounting, ShutdownDrains, Exited
  <2>3. \A t \in Tasks : ~Queued(t)
    BY <2>2, EmptySeq DEF Queued
  <2> QED
    BY <1>8, <2>2, <2>3 DEF Destroy, TypeOK
<1> QED
  <2>1. CASE \E t \in Tasks : SubmitAccepted(t) \/ SubmitRefused(t)
    BY <1>2, <1>3, <2>1 DEF Service!Next
  <2>2. CASE \E w \in Threads : Take(w)
    <3>1. Head(queue) \in Tasks
      BY <2>2, HeadTailProperties DEF Take, TypeOK
    <3> QED
      BY <1>4, <2>2, <3>1 DEF Service!Next
  <2>3. CASE \E w \in Threads : Finish(w)
    BY <1>5, <2>3 DEF Service!Next
  <2>4. CASE RequestStop
    BY <1>6, <2>4 DEF Service!Next
  <2>5. CASE Destroy
    BY <1>7, <1>8, <2>5
  <2>6. CASE \/ \E t \in Tasks : NotifyOne(t)
             \/ \E w \in Threads : Block(w) \/ Exit(w) \/ SpuriousWakeup(w)
             \/ NotifyAll
             \/ UNCHANGED vars
    <3>1. UNCHANGED <<queue, future, stopping>>
      BY <2>6 DEF NotifyOne, Block, Exit, SpuriousWakeup, NotifyAll, vars
    <3> QED
      BY <1>7, <3>1
  <2> QED
    BY <2>1, <2>2, <2>3, <2>4, <2>5, <2>6 DEF Next, Caller, Loop, Destructor

(* The pool implements the safety part of TaskService for every number of   *)
(* tasks and threads.                                                       *)
THEOREM PoolImplementsService == Spec => Service!Safety
<1>1. TypeOK /\ Accounting /\ TypeOK' /\ Accounting' /\ [Next]_vars
        => [Service!Next]_(Service!vars)
  BY ServiceStep
<1> QED
  BY <1>1, TypeCorrect, AccountingInit, AccountingStep, ServiceInit, PTL
     DEF Spec, Service!Safety
=============================================================================
