------------------------------ MODULE Executor ------------------------------
(***************************************************************************)
(* ThreadPoolExecutor of src/infer/executor.cpp: a deque of tasks guarded  *)
(* by one mutex, a condition variable, worker threads that run worker_loop *)
(* and a destructor that stops them.  A critical section is one action;    *)
(* the notifications, which the code sends after it released the mutex,    *)
(* are actions of their own, so other threads get in between.              *)
(***************************************************************************)
EXTENDS Naturals, Integers, Sequences, FiniteSets

CONSTANTS
  Tasks,            (* the calls of submit(), one task and one caller each  *)
  NoTask,           (* the job of a worker that runs nothing                *)
  MaxThreads,       (* bound: largest pool the model can build              *)
  ThreadSettings,   (* CVKIT_EXECUTOR_THREADS; -1: unset or not a number    *)
  DetectedThreads   (* what std::thread::hardware_concurrency() may return  *)

ASSUME TasksAssumption ==
  /\ IsFiniteSet(Tasks)
  /\ NoTask \notin Tasks

ASSUME ThreadsAssumption ==
  /\ MaxThreads \in Nat
  /\ MaxThreads >= 2
  /\ ThreadSettings \subseteq -1 .. MaxThreads
  /\ DetectedThreads \subseteq 0 .. MaxThreads

VARIABLES
  queue,       (* queue_: packaged tasks, in the order of submission        *)
  stopping,    (* stopping_                                                 *)
  worker,      (* where each thread of workers_ is in worker_loop           *)
  job,         (* the packaged task a running worker has moved to its stack *)
  call,        (* where the caller of submit(t) is                          *)
  future,      (* the shared state behind the TaskFuture of t               *)
  destructor   (* where ~ThreadPoolExecutor is                              *)

vars == <<queue, stopping, worker, job, call, future, destructor>>

Threads == 1 .. MaxThreads

(* "none": the pool has fewer threads; "check": about to take the mutex and *)
(* evaluate the predicate; "waiting": blocked in condition_.wait.           *)
WorkerStates == {"none", "check", "waiting", "running", "exited"}

(* "notify": task queued, mutex released, notify_one still to come.         *)
CallStates == {"idle", "notify", "returned"}

(* "empty": ready with an empty TaskOutput; "broken": std::broken_promise.  *)
Outcomes == {"value", "error"}
FutureStates == {"none", "pending", "empty", "broken"} \cup Outcomes

DestructorStates == {"alive", "notify", "joining", "destroyed"}

Waiting  == {w \in Threads : worker[w] = "waiting"}
Checking == {w \in Threads : worker[w] = "check"}
Running  == {w \in Threads : worker[w] = "running"}
Exited   == {w \in Threads : worker[w] = "exited"}
Notifying == {t \in Tasks : call[t] = "notify"}

Queued(t) == \E i \in 1 .. Len(queue) : queue[i] = t

-----------------------------------------------------------------------------
(* default_thread_count(): a positive setting wins, then the hardware's     *)
(* count, then 2.                                                           *)
DefaultThreadCount(setting, detected) ==
  IF setting > 0 THEN setting
  ELSE IF detected = 0 THEN 2 ELSE detected

Init ==
  /\ queue = <<>>
  /\ stopping = FALSE
  /\ \E setting \in ThreadSettings, detected \in DetectedThreads :
       worker = [w \in Threads |->
                   IF w <= DefaultThreadCount(setting, detected)
                   THEN "check" ELSE "none"]
  /\ job = [w \in Threads |-> NoTask]
  /\ call = [t \in Tasks |-> "idle"]
  /\ future = [t \in Tasks |-> "none"]
  /\ destructor = "alive"

-----------------------------------------------------------------------------
(* submit(), its critical section.  A call may race with the destructor but *)
(* cannot begin on a destroyed object.                                      *)
SubmitAccepted(t) ==
  /\ destructor # "destroyed"
  /\ call[t] = "idle"
  /\ ~stopping
  /\ queue' = Append(queue, t)
  /\ call' = [call EXCEPT ![t] = "notify"]
  /\ future' = [future EXCEPT ![t] = "pending"]
  /\ UNCHANGED <<stopping, worker, job, destructor>>

SubmitRefused(t) ==
  /\ destructor # "destroyed"
  /\ call[t] = "idle"
  /\ stopping
  /\ call' = [call EXCEPT ![t] = "returned"]
  /\ future' = [future EXCEPT ![t] = "empty"]
  /\ UNCHANGED <<queue, stopping, worker, job, destructor>>

(* notify_one wakes one blocked worker, any of them, or nobody.             *)
WakeOne ==
  \/ /\ Waiting = {}
     /\ UNCHANGED worker
  \/ \E w \in Waiting : worker' = [worker EXCEPT ![w] = "check"]

WakeAll ==
  worker' = [w \in Threads |->
               IF worker[w] = "waiting" THEN "check" ELSE worker[w]]

NotifyIfFirst(t) ==   (* slip: wake a worker only for the first task in line *)
  /\ call[t] = "notify"
  /\ IF Len(queue) <= 1 THEN WakeOne ELSE UNCHANGED worker
  /\ call' = [call EXCEPT ![t] = "returned"]
  /\ UNCHANGED <<queue, stopping, job, future, destructor>>

NotifyOne(t) ==
  /\ call[t] = "notify"
  /\ WakeOne
  /\ call' = [call EXCEPT ![t] = "returned"]
  /\ UNCHANGED <<queue, stopping, job, future, destructor>>

-----------------------------------------------------------------------------
(* worker_loop: under the mutex the worker finds the predicate false and    *)
(* blocks, or finds nothing left to do and returns, or takes a task.        *)
Block(w) ==
  /\ worker[w] = "check"
  /\ ~stopping
  /\ queue = <<>>
  /\ worker' = [worker EXCEPT ![w] = "waiting"]
  /\ UNCHANGED <<queue, stopping, job, call, future, destructor>>

ExitAtOnce(w) ==   (* slip: the stop flag alone ends the loop *)
  /\ worker[w] = "check"
  /\ stopping
  /\ worker' = [worker EXCEPT ![w] = "exited"]
  /\ UNCHANGED <<queue, stopping, job, call, future, destructor>>

Exit(w) ==
  /\ worker[w] = "check"
  /\ stopping
  /\ queue = <<>>
  /\ worker' = [worker EXCEPT ![w] = "exited"]
  /\ UNCHANGED <<queue, stopping, job, call, future, destructor>>

TakeWithoutPop(w) ==   (* slip: pop_front forgotten *)
  /\ worker[w] = "check"
  /\ queue # <<>>
  /\ worker' = [worker EXCEPT ![w] = "running"]
  /\ job' = [job EXCEPT ![w] = Head(queue)]
  /\ UNCHANGED <<queue, stopping, call, future, destructor>>

TakeLast(w) ==   (* slip: the deque used as a stack *)
  /\ worker[w] = "check"
  /\ queue # <<>>
  /\ worker' = [worker EXCEPT ![w] = "running"]
  /\ job' = [job EXCEPT ![w] = queue[Len(queue)]]
  /\ queue' = SubSeq(queue, 1, Len(queue) - 1)
  /\ UNCHANGED <<stopping, call, future, destructor>>

Take(w) ==
  /\ worker[w] = "check"
  /\ queue # <<>>
  /\ worker' = [worker EXCEPT ![w] = "running"]
  /\ job' = [job EXCEPT ![w] = Head(queue)]
  /\ queue' = Tail(queue)
  /\ UNCHANGED <<stopping, call, future, destructor>>

(* task(): the packaged_task stores the value or the exception in the       *)
(* future, and the worker goes round its loop in both cases.                *)
Finish(w) ==
  /\ worker[w] = "running"
  /\ \E outcome \in Outcomes :
       future' = [future EXCEPT ![job[w]] = outcome]
  /\ worker' = [worker EXCEPT ![w] = "check"]
  /\ job' = [job EXCEPT ![w] = NoTask]
  /\ UNCHANGED <<queue, stopping, call, destructor>>

(* A condition variable may wake a thread without a notification.           *)
SpuriousWakeup(w) ==
  /\ worker[w] = "waiting"
  /\ worker' = [worker EXCEPT ![w] = "check"]
  /\ UNCHANGED <<queue, stopping, job, call, future, destructor>>

-----------------------------------------------------------------------------
(* ~ThreadPoolExecutor: set the flag, wake everybody, join every thread,    *)
(* destroy the members.  A task left in the deque would break its promise.  *)
(* No call of submit may still be inside the object when its members go     *)
(* (C++ object lifetime, the owners' duty).                                 *)
RequestStop ==
  /\ destructor = "alive"
  /\ stopping' = TRUE
  /\ destructor' = "notify"
  /\ UNCHANGED <<queue, worker, job, call, future>>

NotifyAll ==
  /\ destructor = "notify"
  /\ WakeAll
  /\ destructor' = "joining"
  /\ UNCHANGED <<queue, stopping, job, call, future>>

Joinable(w) == worker[w] \in {"none", "exited"}

Destroy ==
  /\ destructor = "joining"
  /\ \A w \in Threads : Joinable(w)
  /\ Notifying = {}
  /\ destructor' = "destroyed"
  /\ queue' = <<>>
  /\ future' = [t \in Tasks |-> IF Queued(t) THEN "broken" ELSE future[t]]
  /\ UNCHANGED <<stopping, worker, job, call>>

-----------------------------------------------------------------------------
Caller(t) == SubmitAccepted(t) \/ SubmitRefused(t) \/ NotifyOne(t)

Loop(w) == Block(w) \/ Exit(w) \/ Take(w) \/ Finish(w)

Destructor == RequestStop \/ NotifyAll \/ Destroy

Next ==
  \/ \E t \in Tasks : Caller(t)
  \/ \E w \in Threads : Loop(w) \/ SpuriousWakeup(w)
  \/ Destructor

(* Every started thread keeps running: the workers, a caller inside submit, *)
(* a destructor that has begun.  Calling submit and beginning the           *)
(* destructor are choices of the program that uses the pool.                *)
Fairness ==
  /\ \A w \in Threads : WF_vars(Loop(w))
  /\ \A t \in Tasks : WF_vars(NotifyOne(t))
  /\ WF_vars(NotifyAll \/ Destroy)

Spec == Init /\ [][Next]_vars

FairSpec == Spec /\ Fairness

-----------------------------------------------------------------------------
TypeOK ==
  /\ queue \in Seq(Tasks)
  /\ stopping \in BOOLEAN
  /\ worker \in [Threads -> WorkerStates]
  /\ job \in [Threads -> Tasks \cup {NoTask}]
  /\ call \in [Tasks -> CallStates]
  /\ future \in [Tasks -> FutureStates]
  /\ destructor \in DestructorStates

(* A pending future is backed by exactly one carrier, a place in the deque  *)
(* or a running worker, and nothing else is carried: no task is lost, run   *)
(* twice or resolved while it still waits (queue_ and the moved-out task of *)
(* worker_loop).                                                            *)
EachTaskOnce ==
  /\ \A i, j \in 1 .. Len(queue) : queue[i] = queue[j] => i = j
  /\ \A v, w \in Running : job[v] = job[w] => v = w
  /\ \A w \in Running : ~Queued(job[w])
  /\ \A t \in Tasks :
       future[t] = "pending" <=> Queued(t) \/ \E w \in Running : job[w] = t

(* Work conservation: a worker sleeps only while every queued task is       *)
(* matched by a worker that is about to look at the deque or by a wake-up   *)
(* its caller has yet to send, although notify_one is called outside the    *)
(* mutex.                                                                   *)
NoLostWakeup ==
  Waiting # {} => Len(queue) <= Cardinality(Checking) + Cardinality(Notifying)

(* Shutdown drains: a worker leaves its loop only when the deque is empty   *)
(* for good, so the destructor destroys no queued task and leaves no future *)
(* pending or broken.                                                       *)
ShutdownDrains ==
  /\ Exited # {} => stopping /\ queue = <<>>
  /\ destructor = "destroyed" =>
       \A t \in Tasks : future[t] \notin {"pending", "broken"}

(* A resolved future never changes again (std::promise is set once), and    *)
(* only a worker that ran the task resolves it with the task's own outcome. *)
ResolvedOnce ==
  [][\A t \in Tasks :
       /\ future[t] \in Outcomes \cup {"empty"} => future'[t] = future[t]
       /\ future'[t] \in Outcomes /\ future[t] # future'[t] =>
            \E w \in Threads : worker[w] = "running" /\ job[w] = t]_vars

(* A destructor that has begun joins all workers: no thread sleeps through  *)
(* stopping_.                                                               *)
EventuallyDestroyed == stopping ~> (destructor = "destroyed")

(* What the three invariants above rest on: the pool is never empty, the    *)
(* flag and the destructor agree, a running worker has a job, a future      *)
(* appears with its call, and a destroyed pool has no thread left.          *)
Lifecycle ==
  /\ worker[1] # "none"
  /\ stopping <=> destructor # "alive"
  /\ \A w \in Running : job[w] \in Tasks
  /\ \A t \in Tasks : call[t] = "idle" => future[t] = "none"
  /\ \A t \in Tasks : future[t] # "broken"
  /\ destructor = "destroyed" => \A w \in Threads : Joinable(w)

(* The abstract service: where a task stands, seen from outside.            *)
Status(t) ==
  CASE future[t] = "none" -> "new"
    [] future[t] = "empty" -> "refused"
    [] future[t] \in Outcomes -> "done"
    [] future[t] = "pending" /\ Queued(t) -> "waiting"
    [] future[t] = "pending" /\ ~Queued(t) -> "running"
    [] future[t] = "broken" -> "lost"

Service == INSTANCE TaskService WITH
  status <- [t \in Tasks |-> Status(t)],
  line <- queue,
  open <- ~stopping

(* The pool implements the service, with its liveness.                      *)
ImplementsService == Service!Spec
=============================================================================
