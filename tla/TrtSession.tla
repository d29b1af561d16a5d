---------------------------- MODULE TrtSession ----------------------------
(***************************************************************************)
(* A TrtSession of trt_session.cpp from its load (EngineCache) to its      *)
(* calls: run and run_async from several threads on one execution context  *)
(* and one CUDA stream, behind one mutex.  The device executes what is in  *)
(* the stream on its own time; cudaFree waits for it (external).           *)
(* The calls of one process are looked at, after its load.                 *)
(***************************************************************************)
EXTENDS EngineCache

CONSTANTS
  Us,            (* the process whose session is called                     *)
  Calls,         (* bound: calls of run and run_async                       *)
  CallPolicies,  (* bound: the policies of the sessions that are called     *)
  None

ASSUME SessionAssumption ==
  /\ Us \in Procs /\ CallPolicies \subseteq Policies /\ None \notin Calls
  /\ Calls \cap ({"in", "out", "vector", "external"} \X Calls) = {}

VARIABLES
  prefer,    (* spec.tensorrt_prefer_device_outputs                         *)
  wrapper,   (* the TrtSession exists; its Impl lives on with async calls   *)
  stage,     (* of each call: where it is                                   *)
  async,     (* of each call: by run_async                                  *)
  kind,      (* of each call: its inputs                                    *)
  lock,      (* who holds execution_mutex                                   *)
  bound,     (* the addresses set in the execution context                  *)
  stream,    (* copies and kernels the device has not executed yet          *)
  memory,    (* whose input or result lies in a buffer                      *)
  live,      (* buffers that are allocated                                  *)
  result     (* of each call: what its outputs show; None: no outputs       *)

callVars == <<wrapper, stage, async, kind, lock, bound, stream, memory, live, result>>
sessionVars == <<vars, prefer, callVars>>

(* Buffers of a call: its input on the device and the output there, the     *)
(* vector on the host that receives the output, the caller's device memory. *)
In(c) == <<"in", c>>
Out(c) == <<"out", c>>
Vector(c) == <<"vector", c>>
External(c) == <<"external", c>>
Buffers == {"in", "out", "vector", "external"} \X Calls

(* Inputs: none at all, host tensors, CUDA tensors, tensors the session     *)
(* does not take (is_supported_trt_input_tensor, too few, outside of the    *)
(* optimization profile).                                                   *)
Kinds == {"none", "host", "cuda", "unsupported"}

SessionInit ==
  /\ Init
  /\ prefer \in BOOLEAN
  /\ wrapper = TRUE
  /\ stage = [c \in Calls |-> "new"]
  /\ async = [c \in Calls |-> FALSE]
  /\ kind = [c \in Calls |-> "none"]
  /\ lock = None
  /\ bound = [in |-> None, out |-> None]
  /\ stream = <<>>
  /\ memory = [b \in Buffers |-> None]
  /\ live = {}
  /\ result = [c \in Calls |-> None]

Stage(c, s) == stage' = [stage EXCEPT ![c] = s]
InFlight == {c \in Calls : stage[c] \notin {"new", "returned"}}

(* run_async keeps a reference to the Impl in its thread.                   *)
Keeps(c) == async[c] /\ c \in InFlight
ImplAlive == wrapper \/ \E c \in Calls : Keeps(c)

-----------------------------------------------------------------------------
(* The load, before the first call.                                         *)
Loading ==
  /\ \A c \in Calls : stage[c] = "new"
  /\ Next
  /\ UNCHANGED <<prefer, callVars>>

(* Bound: where its engine is from makes no difference to a session, so one *)
(* load is enough for the calls.                                            *)
Loaded == At(Us, "ready") /\ spec[Us].policy \in CallPolicies /\ loads = 1 /\ clock = 1

(* run and run_async: the latter copies the inputs and starts a thread.     *)
Call(c) ==
  /\ Loaded /\ wrapper /\ stage[c] = "new"
  /\ Stage(c, "waiting")
  /\ \E a \in BOOLEAN : async' = [async EXCEPT ![c] = a]
  /\ \E k \in Kinds :
       /\ kind' = [kind EXCEPT ![c] = k]
       /\ IF k = "cuda"
          THEN live' = live \cup {External(c)} /\ memory' = [memory EXCEPT ![External(c)] = c]
          ELSE UNCHANGED <<live, memory>>
  /\ UNCHANGED <<vars, prefer, wrapper, lock, bound, stream, result>>

EnterUnlocked(c) ==   (* slip: without the lock_guard *)
  /\ stage[c] = "waiting"
  /\ IF kind[c] = "none" THEN Stage(c, "returned") /\ UNCHANGED lock
     ELSE Stage(c, "entered") /\ lock' = c
  /\ UNCHANGED <<vars, prefer, wrapper, async, kind, bound, stream, memory, live, result>>

EnterAndKeep(c) ==   (* slip: lock() without unlock() on the early return *)
  /\ stage[c] = "waiting" /\ lock = None
  /\ lock' = c
  /\ Stage(c, IF kind[c] = "none" THEN "returned" ELSE "entered")
  /\ UNCHANGED <<vars, prefer, wrapper, async, kind, bound, stream, memory, live, result>>

(* run_sync takes the mutex; without inputs it returns at once.             *)
Enter(c) ==
  /\ stage[c] = "waiting" /\ lock = None
  /\ IF kind[c] = "none" THEN Stage(c, "returned") /\ UNCHANGED lock
     ELSE Stage(c, "entered") /\ lock' = c
  /\ UNCHANGED <<vars, prefer, wrapper, async, kind, bound, stream, memory, live, result>>

Copy(from, to) == [op |-> "copy", from |-> from, to |-> to]

(* bind_engine_tensors for an input: a host tensor is copied to a buffer of *)
(* its own, a CUDA tensor is used where it is.                              *)
BindInput(c) ==
  /\ stage[c] = "entered" /\ kind[c] # "unsupported"
  /\ bound' = [bound EXCEPT !.in = IF kind[c] = "cuda" THEN External(c) ELSE In(c)]
  /\ IF kind[c] = "host"
     THEN /\ live' = live \cup {In(c)}
          /\ stream' = Append(stream, Copy(c, In(c)))
     ELSE UNCHANGED <<live, stream>>
  /\ Stage(c, "input_bound")
  /\ UNCHANGED <<vars, prefer, wrapper, async, kind, lock, memory, result>>

(* ... and for an output.                                                   *)
BindOutput(c) ==
  /\ stage[c] = "input_bound"
  /\ bound' = [bound EXCEPT !.out = Out(c)]
  /\ live' = live \cup {Out(c)}
  /\ Stage(c, "bound")
  /\ UNCHANGED <<vars, prefer, wrapper, async, kind, lock, stream, memory, result>>

(* enqueueV3 takes the addresses the context has now.                       *)
Enqueue(c) ==
  /\ stage[c] = "bound"
  /\ stream' = Append(stream, [op |-> "kernel", from |-> bound.in, to |-> bound.out])
  /\ Stage(c, "enqueued")
  /\ UNCHANGED <<vars, prefer, wrapper, async, kind, lock, bound, memory, live, result>>

(* collect_output_tensors: a copy to a vector on the host is put into the   *)
(* stream, or the tensor takes the address and shares the buffers.          *)
Collect(c) ==
  /\ stage[c] = "enqueued"
  /\ IF prefer THEN UNCHANGED <<stream, live>>
     ELSE /\ stream' = Append(stream, Copy(bound.out, Vector(c)))
          /\ live' = live \cup {Vector(c)}
  /\ Stage(c, "collected")
  /\ UNCHANGED <<vars, prefer, wrapper, async, kind, lock, bound, memory, result>>

Own(c) == {In(c), Out(c)}

(* cudaStreamSynchronize, and the return with the outputs: the buffers on   *)
(* the device go with the call unless the outputs share them.               *)
Return(c) ==
  /\ stage[c] = "collected" /\ stream = <<>>
  /\ Stage(c, "returned")
  /\ result' = [result EXCEPT ![c] = memory[IF prefer THEN bound.out ELSE Vector(c)]]
  /\ live' = live \ ({External(c)} \cup IF prefer THEN {} ELSE Own(c))
  /\ lock' = None
  /\ UNCHANGED <<vars, prefer, wrapper, async, kind, bound, stream, memory>>

(* Any of the steps fails: an unsupported tensor, no memory, a CUDA error.  *)
Fail(c) ==
  /\ stage[c] \in {"entered", "input_bound", "bound", "enqueued", "collected"}
  /\ Stage(c, "failing")
  /\ UNCHANGED <<vars, prefer, wrapper, async, kind, lock, bound, stream, memory, live, result>>

UnwindOutputsFirst(c) ==   (* slip: outputs declared after device_buffers *)
  /\ stage[c] = "failing"
  /\ IF Vector(c) \in live
     THEN live' = live \ {Vector(c)} /\ UNCHANGED <<stage, lock>>
     ELSE /\ live \cap Own(c) # {} => stream = <<>>
          /\ live' = live \ (Own(c) \cup {External(c)})
          /\ Stage(c, "returned") /\ lock' = None
  /\ UNCHANGED <<vars, prefer, wrapper, async, kind, bound, stream, memory, result>>

(* The destructors of run_sync in the reverse order of the declarations:    *)
(* the device buffers, whose cudaFree waits for the device, the lock, the   *)
(* outputs.  The stream is not synchronized.                                *)
Unwind(c) ==
  /\ stage[c] = "failing"
  /\ live \cap Own(c) # {} => stream = <<>>
  /\ live' = live \ (Own(c) \cup {External(c), Vector(c)})
  /\ Stage(c, "returned") /\ lock' = None
  /\ UNCHANGED <<vars, prefer, wrapper, async, kind, bound, stream, memory, result>>

(* The device executes the next copy or kernel.                             *)
Execute ==
  /\ stream # <<>>
  /\ LET next == Head(stream) IN
     memory' = [memory EXCEPT ![next.to] = IF next.from \in Calls THEN next.from
                                           ELSE memory[next.from]]
  /\ stream' = Tail(stream)
  /\ UNCHANGED <<vars, prefer, wrapper, stage, async, kind, lock, bound, live, result>>

(* The caller lets go of the outputs: the last of them frees the buffers.   *)
Drop(c) ==
  /\ stage[c] = "returned" /\ result[c] # None
  /\ result' = [result EXCEPT ![c] = None]
  /\ live' = live \ (Own(c) \cup {Vector(c)})
  /\ UNCHANGED <<vars, prefer, wrapper, stage, async, kind, lock, bound, stream, memory>>

(* The owner of the session destroys it, not while it is inside of run.     *)
Destroy ==
  /\ wrapper /\ \E c \in Calls : stage[c] # "new"
  /\ \A c \in InFlight : async[c]
  /\ wrapper' = FALSE
  /\ UNCHANGED <<vars, prefer, stage, async, kind, lock, bound, stream, memory, live, result>>

RunStep(c) ==
  \/ Enter(c) \/ BindInput(c) \/ BindOutput(c) \/ Enqueue(c) \/ Collect(c)
  \/ Return(c) \/ Unwind(c)

SessionNext ==
  \/ Loading
  \/ \E c \in Calls : Call(c) \/ RunStep(c) \/ Fail(c) \/ Drop(c)
  \/ Execute \/ Destroy

(* The threads run, the device executes its stream.                         *)
SessionSpec ==
  /\ SessionInit /\ [][SessionNext]_sessionVars
  /\ \A c \in Calls : WF_sessionVars(RunStep(c) \/ Fail(c))
  /\ WF_sessionVars(Execute)

-----------------------------------------------------------------------------
(* A call that returns outputs returns what its own inputs give, however    *)
(* many calls share the context, and outputs on the device keep showing it  *)
(* until the caller drops them.                                             *)
ResultOfOwnInput ==
  \A c \in Calls :
    result[c] # None =>
      /\ result[c] = c
      /\ prefer => Out(c) \in live /\ memory[Out(c)] = c

(* The device never reads or writes memory that was freed, on any path out  *)
(* of a call; nor does a call use a session that is gone.                   *)
NothingFreedInUse ==
  /\ \A i \in DOMAIN stream : {stream[i].from, stream[i].to} \subseteq live \cup Calls
  /\ \A c \in InFlight : ImplAlive
  /\ stream # <<>> => ImplAlive

(* No call waits forever for the mutex, the device or the end of the        *)
(* session, also after others failed.                                       *)
EveryCallReturns == \A c \in Calls : stage[c] = "waiting" ~> stage[c] = "returned"
=============================================================================
