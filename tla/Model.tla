------------------------------- MODULE Model -------------------------------
(***************************************************************************)
(* cvkit::infer::Model of src/infer/model.cpp: load and load_labels, the   *)
(* setters, run_sync in the thread of its caller, submit through the       *)
(* shared executor, and the trace that last_graph_trace() returns.  The    *)
(* executor is the TaskService it was shown to implement in module         *)
(* Executor.  Several threads may be in const members (run_sync, submit)   *)
(* at once; load, load_labels, the setters and the destructor have the     *)
(* Model to themselves, but not from the tasks submitted before.           *)
(***************************************************************************)
EXTENDS Naturals, Sequences, FiniteSets

CONSTANTS
  Calls,        (* the calls of run_sync and submit                         *)
  None,         (* no trace, no labels, no output yet                       *)
  Empty, Error, (* what an unloaded model returns; an exception             *)
  Settings,     (* values of the thresholds and tile options                *)
  Tiling,       (* those that send large frames through run_tiled_sync      *)
  MaxLoads,     (* bound: calls of load                                     *)
  MaxSets       (* bound: calls of load_labels and of the setters           *)

(* What a call copies from the Model.                                       *)
Snapshots == [session : 0 .. MaxLoads, labels : {None} \cup 0 .. MaxLoads,
              settings : Settings]

(* What a run computes is neither an empty output nor an exception.         *)
ASSUME ModelAssumption ==
  /\ None \notin Calls \cup Nat
  /\ {None, Empty, Error} \cap Snapshots = {}
  /\ Settings # {}
  /\ Tiling \subseteq Settings
  /\ MaxLoads \in Nat
  /\ MaxSets \in Nat

VARIABLES
  loads,        (* the calls of load so far; sessions are named after them  *)
  sets,         (* the calls of load_labels and of the setters so far       *)
  loaded,       (* loaded_                                                  *)
  session,      (* backend_ and pipeline_, by the load that made them; 0:   *)
                (* both are null                                            *)
  labels,       (* labels_, by the load before they were read; None: empty  *)
  settings,     (* confidence_threshold_, iou_threshold_, tile_options_     *)
  trace,        (* trace_state_->last_trace: the call it is of, or None     *)
  stage,        (* where each call is                                       *)
  snapshot,     (* what a call copied from the Model                        *)
  output,       (* what run_sync returned, or the TaskFuture of submit holds*)
  destroyed,    (* ~Model has run                                           *)
  recent,       (* history: the last call that began on a loaded model, and *)
                (* whether no other call was in progress then               *)
  status, line, open         (* the executor                                *)

Service == INSTANCE TaskService WITH Tasks <- Calls

impl == <<loads, sets, loaded, session, labels, settings, destroyed>>
executor == <<status, line, open>>
vars == <<impl, trace, stage, snapshot, output, recent, executor>>

(* run_sync: "computing", then "traced" or "untraced"; submit: "captured",  *)
(* "cleared", and while the executor has its task "submitted", then         *)
(* "stored" or "unstored".                                                  *)
Stages == {"idle", "computing", "traced", "untraced", "captured", "cleared",
           "submitted", "stored", "unstored", "over"}

InProgress == {c \in Calls : stage[c] \notin {"idle", "over"}}
InMember == {c \in Calls : stage[c] \in {"computing", "traced", "untraced",
                                      "captured", "cleared"}}

(* A snapshot: what make_pipeline_context and the copies of shared pointers *)
(* take.                                                                    *)
Current == [session |-> session, labels |-> labels, settings |-> settings]

Init ==
  /\ loads = 0
  /\ sets = 0
  /\ loaded = FALSE
  /\ session = 0
  /\ labels = None
  /\ settings \in Settings
  /\ trace = None
  /\ stage = [c \in Calls |-> "idle"]
  /\ snapshot = [c \in Calls |-> None]
  /\ output = [c \in Calls |-> None]
  /\ destroyed = FALSE
  /\ recent = [call |-> None, alone |-> FALSE]
  /\ Service!Init

-----------------------------------------------------------------------------
Exclusive == ~destroyed /\ InMember = {}

(* load(spec): everything of the model before is dropped first.  usable: a  *)
(* backend and a pipeline came up; unreadable labels make load return false *)
(* and leave the model loaded.  The trace is left as it is.                 *)
LoadWith(failed, unlabelled) ==
  /\ Exclusive
  /\ loads < MaxLoads
  /\ loads' = loads + 1
  /\ \E usable \in BOOLEAN, labelsRead \in BOOLEAN :
       /\ loaded' = usable
       /\ session' = IF usable THEN loads + 1 ELSE failed
       /\ labels' = IF usable /\ labelsRead THEN loads + 1 ELSE unlabelled
  /\ UNCHANGED <<sets, settings, destroyed, trace, stage, snapshot, output, recent, executor>>

LoadKeepingLabels == LoadWith(0, labels)       (* slip: labels_ are not cleared *)

Load == LoadWith(0, None)

(* load_labels(path) that reads the file, loaded model or not.              *)
LoadLabels ==
  /\ Exclusive
  /\ sets < MaxSets
  /\ sets' = sets + 1
  /\ labels' = loads
  /\ UNCHANGED <<loads, loaded, session, settings, destroyed, trace, stage,
                 snapshot, output, recent, executor>>

SetOptions ==
  /\ Exclusive
  /\ sets < MaxSets
  /\ sets' = sets + 1
  /\ settings' \in Settings
  /\ UNCHANGED <<loads, loaded, session, labels, destroyed, trace, stage,
                 snapshot, output, recent, executor>>

(* ~Model: the tasks keep what they captured alive.                         *)
Destroy ==
  /\ Exclusive
  /\ destroyed' = TRUE
  /\ UNCHANGED <<loads, sets, loaded, session, labels, settings, trace, stage,
                 snapshot, output, recent, executor>>

HasRuntimeState == loaded /\ session # 0

(* run_sync and submit on a model that is not loaded: an empty output, and  *)
(* the trace stays.                                                         *)
CallUnloaded(c) ==
  /\ ~destroyed
  /\ stage[c] = "idle"
  /\ ~HasRuntimeState
  /\ stage' = [stage EXCEPT ![c] = "over"]
  /\ output' = [output EXCEPT ![c] = Empty]
  /\ UNCHANGED <<impl, trace, snapshot, recent, executor>>

-----------------------------------------------------------------------------
(* run_sync.  The graph or the tiles run, then the trace is stored.  A      *)
(* frame whose data is shorter than its size says yields no tile: then the  *)
(* trace stored is empty and so is the output.                              *)
RunSync(c) ==
  /\ ~destroyed
  /\ stage[c] = "idle"
  /\ HasRuntimeState
  /\ stage' = [stage EXCEPT ![c] = "computing"]
  /\ snapshot' = [snapshot EXCEPT ![c] = Current]
  /\ recent' = [call |-> c, alone |-> InProgress = {}]
  /\ UNCHANGED <<impl, trace, output, executor>>

RunStoresOnce(c) ==   (* slip: a trace is stored only where there is none *)
  /\ stage[c] = "computing"
  /\ stage' = [stage EXCEPT ![c] = "traced"]
  /\ trace' = IF trace = None THEN c ELSE trace
  /\ UNCHANGED <<impl, snapshot, output, recent, executor>>

RunStores(c) ==
  /\ stage[c] = "computing"
  /\ \/ stage' = [stage EXCEPT ![c] = "traced"] /\ trace' = c
     \/ /\ snapshot[c].settings \in Tiling
        /\ stage' = [stage EXCEPT ![c] = "untraced"] /\ trace' = None
  /\ UNCHANGED <<impl, snapshot, output, recent, executor>>

RunReturns(c) ==
  /\ stage[c] \in {"traced", "untraced"}
  /\ stage' = [stage EXCEPT ![c] = "over"]
  /\ output' = [output EXCEPT ![c] =
                  IF stage[c] = "traced" THEN snapshot[c] ELSE Empty]
  /\ UNCHANGED <<impl, trace, snapshot, recent, executor>>

(* A node or a pipeline throws: nothing is stored.                          *)
RunThrows(c) ==
  /\ stage[c] = "computing"
  /\ stage' = [stage EXCEPT ![c] = "over"]
  /\ output' = [output EXCEPT ![c] = Error]
  /\ UNCHANGED <<impl, trace, snapshot, recent, executor>>

-----------------------------------------------------------------------------
(* submit: copy, clear the trace, hand the task to the executor.            *)
Submit(c) ==
  /\ ~destroyed
  /\ stage[c] = "idle"
  /\ HasRuntimeState
  /\ stage' = [stage EXCEPT ![c] = "captured"]
  /\ snapshot' = [snapshot EXCEPT ![c] = Current]
  /\ recent' = [call |-> c, alone |-> InProgress = {}]
  /\ UNCHANGED <<impl, trace, output, executor>>

ClearTrace(c) ==
  /\ stage[c] = "captured"
  /\ stage' = [stage EXCEPT ![c] = "cleared"]
  /\ trace' = None
  /\ UNCHANGED <<impl, snapshot, output, recent, executor>>

Enqueue(c) ==
  /\ stage[c] = "cleared"
  /\ stage' = [stage EXCEPT ![c] = "submitted"]
  /\ Service!Accept(c)
  /\ UNCHANGED <<impl, trace, snapshot, output, recent>>

(* The task, on a thread of the executor.  The trace is stored before the   *)
(* future becomes ready; an exception goes into the future instead.         *)
TaskStarts(c) ==
  /\ Service!Start(c)
  /\ UNCHANGED <<impl, trace, stage, snapshot, output, recent>>

TaskStores(c) ==
  /\ status[c] = "running"
  /\ stage[c] = "submitted"
  /\ \/ stage' = [stage EXCEPT ![c] = "stored"] /\ trace' = c
     \/ /\ snapshot[c].settings \in Tiling
        /\ stage' = [stage EXCEPT ![c] = "unstored"] /\ trace' = None
  /\ UNCHANGED <<impl, snapshot, output, recent, executor>>

TaskReturns(c) ==
  /\ stage[c] \in {"stored", "unstored"}
  /\ stage' = [stage EXCEPT ![c] = "over"]
  /\ output' = [output EXCEPT ![c] =
                  IF stage[c] = "stored" THEN snapshot[c] ELSE Empty]
  /\ Service!Complete(c)
  /\ UNCHANGED <<impl, trace, snapshot, recent>>

TaskThrowsSilently(c) ==   (* slip: the exception never gets to the future *)
  /\ status[c] = "running"
  /\ stage[c] = "submitted"
  /\ stage' = [stage EXCEPT ![c] = "over"]
  /\ Service!Complete(c)
  /\ UNCHANGED <<impl, trace, snapshot, output, recent>>

TaskThrows(c) ==
  /\ status[c] = "running"
  /\ stage[c] = "submitted"
  /\ stage' = [stage EXCEPT ![c] = "over"]
  /\ output' = [output EXCEPT ![c] = Error]
  /\ Service!Complete(c)
  /\ UNCHANGED <<impl, trace, snapshot, recent>>

(* The static executor outlives every Model that uses it.                   *)
CloseExecutor ==
  /\ destroyed
  /\ Service!Close
  /\ UNCHANGED <<impl, trace, stage, snapshot, output, recent>>

-----------------------------------------------------------------------------
Members == Load \/ LoadLabels \/ SetOptions \/ Destroy

Caller(c) ==
  RunStores(c) \/ RunReturns(c) \/ RunThrows(c) \/ ClearTrace(c) \/ Enqueue(c)

Task(c) == TaskStores(c) \/ TaskReturns(c) \/ TaskThrows(c)

Next ==
  \/ Members
  \/ CloseExecutor
  \/ \E c \in Calls :
       \/ CallUnloaded(c) \/ RunSync(c) \/ Submit(c)
       \/ Caller(c) \/ TaskStarts(c) \/ Task(c)

Spec == Init /\ [][Next]_vars

(* A call that has begun goes on, the executor starts the task first in     *)
(* line (TaskService), a started task comes to its end.                     *)
Fairness ==
  /\ \A c \in Calls : WF_vars(Caller(c)) /\ WF_vars(Task(c))
  /\ WF_vars(\E c \in Calls : TaskStarts(c))

FairSpec == Spec /\ Fairness

-----------------------------------------------------------------------------
TypeOK ==
  /\ loads \in 0 .. MaxLoads
  /\ sets \in 0 .. MaxSets
  /\ loaded \in BOOLEAN
  /\ session \in 0 .. MaxLoads
  /\ loaded <=> session # 0
  /\ labels \in {None} \cup 0 .. MaxLoads
  /\ settings \in Settings
  /\ trace \in Calls \cup {None}
  /\ stage \in [Calls -> Stages]
  /\ snapshot \in [Calls -> Snapshots \cup {None}]
  /\ output \in [Calls -> Snapshots \cup {None, Empty, Error}]
  /\ destroyed \in BOOLEAN
  /\ recent \in [call : Calls \cup {None}, alone : BOOLEAN]
  /\ status \in [Calls -> Service!Statuses]
  /\ line \in Seq(Calls)
  /\ open \in BOOLEAN

Returned(c) == output[c] \notin {None, Empty, Error}

(* Who has his result, and no other call overlapped his, finds the trace of *)
(* his own call in last_graph_trace(), whatever calls came before, on this  *)
(* or another thread, with or without a load in between.                    *)
LoneCallLeavesItsTrace ==
  recent.alone /\ Returned(recent.call) => trace = recent.call

(* The clearing of the trace by submit never wins over a result: when every *)
(* call that ran has returned one, the trace of one of them is there.       *)
TraceSurvives ==
  LET ran == {c \in Calls : snapshot[c] # None}
  IN  ran # {} /\ (\A c \in ran : Returned(c)) => trace # None

(* A result comes from one load: a session is never run with labels that    *)
(* were read before it was loaded or after it was replaced, although tasks  *)
(* run on while the model is loaded again.                                  *)
NoMixedResult ==
  \A c \in Calls :
    Returned(c) => output[c].labels \in {None, output[c].session}

(* The trace, if any, is that of a call that ran through: a task that threw *)
(* or is still running never shows.                                         *)
TraceIsOfARun ==
  trace # None => stage[trace] \in {"traced", "stored"} \/ Returned(trace)

(* What last_graph_trace() shows is right: of a call that ran through,      *)
(* there whenever all calls that ran have their results, and a caller's own *)
(* when no other call overlapped his.                                       *)
TraceIsRight == TraceIsOfARun /\ TraceSurvives /\ LoneCallLeavesItsTrace

(* Every call ends with an output, also when the Model is destroyed and the *)
(* executor closed while its task is still in line.                         *)
EveryCallAnswered ==
  \A c \in Calls : c \in InProgress ~> output[c] # None
=============================================================================
