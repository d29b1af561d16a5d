---------------------------- MODULE ModelProofs ----------------------------
(***************************************************************************)
(* That the trace a Model shows is of a call that ran, that it is there    *)
(* when all calls have their results, and a caller's own when no other     *)
(* overlapped his; and that no result mixes two loads.  For any number of  *)
(* calls, loads and threads.                                               *)
(***************************************************************************)
EXTENDS Model, TLAPS

(* The session in use is of the last load, and so are the labels with it.   *)
LoadInv == session # 0 => session = loads /\ labels \in {None, session}

(* A call has a snapshot, of one load, from its beginning and an output     *)
(* from its end.                                                            *)
CallInv(c) ==
  /\ stage[c] = "idle" => snapshot[c] = None /\ output[c] = None
  /\ stage[c] \notin {"idle", "over"} => snapshot[c] \in Snapshots /\ output[c] = None
  /\ stage[c] = "over" =>
       output[c] \in {Empty, Error} \/ (output[c] = snapshot[c] /\ snapshot[c] \in Snapshots)
  /\ snapshot[c] # None => snapshot[c].labels \in {None, snapshot[c].session}

(* Its trace is in place.                                                   *)
Traced(c) == stage[c] \in {"traced", "stored"} \/ Returned(c)

(* When there is no trace, some call that ran has not stored one: it is not *)
(* so far yet, had no tile or threw.                                        *)
Untraced(c) == snapshot[c] # None /\ ~Traced(c)
SomeoneUntraced ==
  trace = None => (\A c \in Calls : snapshot[c] = None) \/ \E c \in Calls : Untraced(c)

(* Since the last call that began when no other was in progress, none other *)
(* is.                                                                      *)
LoneInv ==
  recent.alone =>
    /\ recent.call \in Calls
    /\ \A d \in Calls : d # recent.call => stage[d] \in {"idle", "over"}
    /\ Traced(recent.call) => trace = recent.call

TraceOfTraced == trace # None => Traced(trace)

(* The parts of TypeOK.                                                     *)
ModelTypes ==
  /\ loads \in 0 .. MaxLoads /\ sets \in 0 .. MaxSets
  /\ loaded \in BOOLEAN /\ session \in 0 .. MaxLoads
  /\ loaded <=> session # 0
  /\ labels \in {None} \cup 0 .. MaxLoads /\ settings \in Settings /\ destroyed \in BOOLEAN
CallTypes ==
  /\ stage \in [Calls -> Stages] /\ trace \in Calls \cup {None}
  /\ snapshot \in [Calls -> Snapshots \cup {None}]
  /\ output \in [Calls -> Snapshots \cup {None, Empty, Error}]
RecentType == recent \in [call : Calls \cup {None}, alone : BOOLEAN]
ServiceTypes ==
  /\ status \in [Calls -> Service!Statuses] /\ line \in Seq(Calls) /\ open \in BOOLEAN

TraceInv == TraceOfTraced /\ SomeoneUntraced /\ LoneInv

ModelInv ==
  /\ ModelTypes /\ CallTypes /\ RecentType /\ ServiceTypes
  /\ LoadInv /\ (\A c \in Calls : CallInv(c)) /\ TraceInv

LEMMA TypesOK == ModelInv => TypeOK
  BY DEF ModelInv, ModelTypes, CallTypes, RecentType, ServiceTypes, TypeOK

LEMMA Outputs ==
  /\ None \notin Calls /\ None \notin Snapshots /\ Empty \notin Snapshots /\ Error \notin Snapshots
  BY ModelAssumption

LEMMA ModelInitHolds == Init => ModelInv
<1> SUFFICES ASSUME Init PROVE ModelInv
  OBVIOUS
<1>1. ModelTypes
  <2>1. 0 \in 0 .. MaxLoads /\ 0 \in 0 .. MaxSets
    BY ModelAssumption
  <2>2. loaded \in BOOLEAN /\ (loaded <=> session # 0) /\ destroyed \in BOOLEAN
    BY DEF Init
  <2> QED
    BY <2>1, <2>2 DEF Init, ModelTypes
<1>2. CallTypes
  BY DEF Init, CallTypes, Stages
<1>3. RecentType
  BY DEF Init, RecentType
<1>4. ServiceTypes
  BY DEF Init, Service!Init, ServiceTypes, Service!Statuses
<1>5. LoadInv
  BY DEF Init, LoadInv
<1>6. \A c \in Calls : CallInv(c)
  BY DEF Init, CallInv
<1>7. TraceInv
  BY DEF Init, TraceInv, TraceOfTraced, SomeoneUntraced, LoneInv
<1> QED
  BY <1>1, <1>2, <1>3, <1>4, <1>5, <1>6, <1>7 DEF ModelInv

-----------------------------------------------------------------------------
(* What the calls show does not change when they do not.                    *)
LEMMA CallsKeep ==
  ASSUME ModelInv, UNCHANGED <<trace, stage, snapshot, output, recent>>
  PROVE  CallTypes' /\ RecentType' /\ (\A c \in Calls : CallInv(c)') /\ TraceInv'
<1>1. CallTypes' /\ RecentType'
  BY DEF ModelInv, CallTypes, RecentType
<1>2. \A c \in Calls : CallInv(c)'
  BY DEF ModelInv, CallInv
<1>3. TraceInv'
  BY DEF ModelInv, TraceInv, TraceOfTraced, SomeoneUntraced, LoneInv, Untraced, Traced, Returned
<1> QED
  BY <1>1, <1>2, <1>3

LEMMA ServiceKeeps == ServiceTypes /\ UNCHANGED executor => ServiceTypes'
  BY DEF ServiceTypes, executor

LEMMA ImplKeeps == ModelTypes /\ LoadInv /\ UNCHANGED impl => ModelTypes' /\ LoadInv'
  BY DEF ModelTypes, LoadInv, impl

LEMMA MembersHold == ASSUME ModelInv, Members PROVE ModelInv'
<1>1. ModelTypes /\ ServiceTypes /\ LoadInv
  BY DEF ModelInv
<1>2. UNCHANGED <<trace, stage, snapshot, output, recent>> /\ UNCHANGED executor
  BY DEF Members, Load, LoadWith, LoadLabels, SetOptions, Destroy
<1>3. ModelTypes' /\ LoadInv'
  <2>1. CASE Load
    <3>1. PICK usable \in BOOLEAN, labelsRead \in BOOLEAN :
            /\ loaded' = usable
            /\ session' = IF usable THEN loads + 1 ELSE 0
            /\ labels' = IF usable /\ labelsRead THEN loads + 1 ELSE None
      BY <2>1 DEF Load, LoadWith
    <3>2. loads < MaxLoads /\ loads' = loads + 1 /\ UNCHANGED <<sets, settings, destroyed>>
      BY <2>1 DEF Load, LoadWith
    <3>3. loads + 1 \in 0 .. MaxLoads /\ loads + 1 # 0
      BY <1>1, <3>2, ModelAssumption DEF ModelTypes
    <3>4. CASE usable
      <4>1. session' = loads' /\ labels' \in {None, loads'} /\ loaded' = TRUE
        BY <3>1, <3>2, <3>4
      <4> QED
        BY <1>1, <3>2, <3>3, <4>1 DEF ModelTypes, LoadInv
    <3>5. CASE ~usable
      <4>1. session' = 0 /\ labels' = None /\ loaded' = FALSE
        BY <3>1, <3>5
      <4> QED
        <5>1. 0 \in 0 .. MaxLoads
          BY ModelAssumption
        <5>2. loaded' \in BOOLEAN /\ (loaded' <=> session' # 0)
          BY <4>1
        <5>3. LoadInv'
          BY <4>1 DEF LoadInv
        <5> QED
          BY <1>1, <3>2, <3>3, <4>1, <5>1, <5>2, <5>3 DEF ModelTypes
    <3> QED
      BY <3>4, <3>5
  <2>2. CASE LoadLabels
    BY <1>1, <2>2, ModelAssumption DEF LoadLabels, ModelTypes, LoadInv
  <2>3. CASE SetOptions
    BY <1>1, <2>3, ModelAssumption DEF SetOptions, ModelTypes, LoadInv
  <2>4. CASE Destroy
    BY <1>1, <2>4 DEF Destroy, ModelTypes, LoadInv
  <2> QED
    BY <2>1, <2>2, <2>3, <2>4 DEF Members
<1> QED
  BY <1>1, <1>2, <1>3, CallsKeep, ServiceKeeps DEF ModelInv

LEMMA ExecutorHolds ==
  ASSUME ModelInv, UNCHANGED <<trace, stage, snapshot, output, recent>>, UNCHANGED impl,
         ServiceTypes'
  PROVE  ModelInv'
  BY CallsKeep, ImplKeeps DEF ModelInv

(* run_sync and submit begin: now the call is the last that has.            *)
LEMMA Begins ==
  ASSUME ModelInv, NEW c \in Calls, stage[c] = "idle", HasRuntimeState,
         NEW s \in {"computing", "captured"}, stage' = [stage EXCEPT ![c] = s],
         snapshot' = [snapshot EXCEPT ![c] = Current],
         recent' = [call |-> c, alone |-> InProgress = {}],
         UNCHANGED <<trace, output>>, UNCHANGED impl, UNCHANGED executor
  PROVE  ModelInv'
<1>1. /\ ModelTypes /\ CallTypes /\ RecentType /\ ServiceTypes /\ LoadInv
      /\ (\A d \in Calls : CallInv(d)) /\ TraceInv
  BY DEF ModelInv
<1>2. /\ Current \in Snapshots /\ Current.labels \in {None, Current.session} /\ Current # None
  <2>1. session \in 0 .. MaxLoads /\ labels \in {None} \cup 0 .. MaxLoads /\ settings \in Settings
    BY <1>1 DEF ModelTypes
  <2>2. Current \in Snapshots
    BY <2>1 DEF Current, Snapshots
  <2>3. labels \in {None, session}
    BY <1>1 DEF HasRuntimeState, LoadInv
  <2> QED
    BY <2>2, <2>3, Outputs DEF Current
<1>3. /\ stage'[c] = s /\ snapshot'[c] = Current /\ output'[c] = None
      /\ \A d \in Calls \ {c} : stage'[d] = stage[d] /\ snapshot'[d] = snapshot[d]
      /\ \A d \in Calls : output'[d] = output[d]
  BY <1>1 DEF CallTypes, CallInv
<1>4. CallTypes'
  BY <1>1, <1>2 DEF CallTypes, Stages
<1>5. RecentType'
  <2>1. (InProgress = {}) \in BOOLEAN
    OBVIOUS
  <2> QED
    BY <2>1 DEF RecentType
<1>6. \A d \in Calls : CallInv(d)'
  <2> SUFFICES ASSUME NEW d \in Calls PROVE CallInv(d)'
    OBVIOUS
  <2>1. CASE d = c
    BY <1>2, <1>3, <2>1 DEF CallInv
  <2>2. CASE d # c
    BY <1>1, <1>3, <2>2 DEF CallInv
  <2> QED
    BY <2>1, <2>2
<1>7. ~Traced(c)' /\ ~Traced(c)
  BY <1>3 DEF Traced, Returned
<1>8. \A d \in Calls \ {c} : Traced(d)' <=> Traced(d)
  BY <1>3 DEF Traced, Returned
<1>9. TraceOfTraced'
  BY <1>1, <1>7, <1>8 DEF TraceInv, TraceOfTraced, CallTypes
<1>10. SomeoneUntraced'
  BY <1>2, <1>3, <1>7 DEF SomeoneUntraced, Untraced
<1>11. LoneInv'
  <2>1. recent'.call = c /\ (recent'.alone <=> InProgress = {})
    OBVIOUS
  <2>2. InProgress = {} => \A d \in Calls : d # c => stage'[d] \in {"idle", "over"}
    BY <1>3 DEF InProgress
  <2> QED
    BY <1>7, <2>1, <2>2 DEF LoneInv
<1> QED
  BY <1>1, <1>4, <1>5, <1>6, <1>9, <1>10, <1>11, ImplKeeps, ServiceKeeps DEF ModelInv, TraceInv

(* A call goes on: it may store its trace, or clear the trace while it has  *)
(* none itself.                                                             *)
LEMMA GoesOn ==
  ASSUME ModelInv, NEW c \in Calls,
         stage[c] \in {"computing", "captured", "cleared", "submitted"},
         NEW s \in Stages \ {"idle", "over"}, stage' = [stage EXCEPT ![c] = s],
         \/ trace' = c /\ s \in {"traced", "stored"}
         \/ trace' \in {trace, None} /\ s \notin {"traced", "stored"},
         UNCHANGED <<snapshot, output, recent>>, UNCHANGED impl, ServiceTypes'
  PROVE  ModelInv'
<1>1. /\ ModelTypes /\ CallTypes /\ RecentType /\ LoadInv
      /\ (\A d \in Calls : CallInv(d)) /\ TraceInv
  BY DEF ModelInv
<1>2. /\ stage'[c] = s /\ \A d \in Calls \ {c} : stage'[d] = stage[d]
  BY <1>1 DEF CallTypes
<1>3. CallTypes' /\ RecentType'
  BY <1>1 DEF CallTypes, RecentType
<1>4. snapshot[c] \in Snapshots /\ output[c] = None
  BY <1>1 DEF CallInv
<1>5. \A d \in Calls : CallInv(d)'
  <2> SUFFICES ASSUME NEW d \in Calls PROVE CallInv(d)'
    OBVIOUS
  <2>1. CASE d = c
    BY <1>1, <1>2, <1>4, <2>1 DEF CallInv
  <2>2. CASE d # c
    BY <1>1, <1>2, <2>2 DEF CallInv
  <2> QED
    BY <2>1, <2>2
<1>6. ~Traced(c) /\ (Traced(c)' <=> s \in {"traced", "stored"})
  BY <1>2, <1>4 DEF Traced, Returned
<1>7. \A d \in Calls \ {c} : Traced(d)' <=> Traced(d)
  BY <1>2 DEF Traced, Returned
<1>8. TraceOfTraced'
  BY <1>1, <1>6, <1>7 DEF TraceInv, TraceOfTraced, CallTypes
<1>9. SomeoneUntraced'
  <2>1. CASE trace' = c
    BY <2>1, Outputs DEF SomeoneUntraced
  <2>2. CASE s \notin {"traced", "stored"}
    <3>1. Untraced(c)'
      BY <1>4, <1>6, <2>2, Outputs DEF Untraced
    <3> QED
      BY <3>1 DEF SomeoneUntraced
  <2> QED
    BY <2>1, <2>2
<1>10. LoneInv'
  <2> SUFFICES ASSUME recent.alone
               PROVE  /\ recent.call \in Calls
                      /\ \A d \in Calls : d # recent.call => stage'[d] \in {"idle", "over"}
                      /\ Traced(recent.call)' => trace' = recent.call
    BY DEF LoneInv, Traced, Returned
  <2>1. /\ recent.call \in Calls
        /\ \A d \in Calls : d # recent.call => stage[d] \in {"idle", "over"}
    BY <1>1 DEF TraceInv, LoneInv
  <2>2. c = recent.call
    BY <2>1
  <2> QED
    BY <1>2, <1>6, <2>1, <2>2
<1> QED
  BY <1>1, <1>3, <1>5, <1>8, <1>9, <1>10, ImplKeeps DEF ModelInv, TraceInv

(* A call ends, with its result only when it has stored its trace.          *)
LEMMA EndsWith ==
  ASSUME ModelInv, NEW c \in Calls, stage[c] # "over",
         stage' = [stage EXCEPT ![c] = "over"],
         NEW o, output' = [output EXCEPT ![c] = o],
         IF stage[c] \in {"traced", "stored"} THEN o = snapshot[c] ELSE o \in {Empty, Error},
         UNCHANGED <<trace, snapshot, recent>>, UNCHANGED impl, ServiceTypes'
  PROVE  ModelInv'
<1>1. /\ ModelTypes /\ CallTypes /\ RecentType /\ LoadInv
      /\ (\A d \in Calls : CallInv(d)) /\ TraceInv
  BY DEF ModelInv
<1>2. /\ stage'[c] = "over" /\ output'[c] = o
      /\ \A d \in Calls \ {c} : stage'[d] = stage[d] /\ output'[d] = output[d]
  BY <1>1 DEF CallTypes
<1>3. stage[c] \in {"traced", "stored"} => o \in Snapshots /\ o = snapshot[c]
  BY <1>1 DEF CallInv
<1>4. o \in Snapshots \cup {Empty, Error}
  BY <1>3
<1>5. CallTypes' /\ RecentType'
  BY <1>1, <1>4 DEF CallTypes, RecentType, Stages
<1>6. \A d \in Calls : CallInv(d)'
  <2> SUFFICES ASSUME NEW d \in Calls PROVE CallInv(d)'
    OBVIOUS
  <2>1. CASE d = c
    BY <1>1, <1>2, <1>3, <2>1 DEF CallInv
  <2>2. CASE d # c
    BY <1>1, <1>2, <2>2 DEF CallInv
  <2> QED
    BY <2>1, <2>2
<1>7. \A d \in Calls : Traced(d)' <=> Traced(d)
  <2>1. Traced(c)' <=> stage[c] \in {"traced", "stored"}
    BY <1>2, <1>3, Outputs DEF Traced, Returned
  <2>2. Traced(c) <=> stage[c] \in {"traced", "stored"}
    BY <1>1 DEF CallInv, Traced, Returned
  <2>3. \A d \in Calls \ {c} : Traced(d)' <=> Traced(d)
    BY <1>2 DEF Traced, Returned
  <2> QED
    BY <2>1, <2>2, <2>3
<1>8. TraceOfTraced'
  BY <1>1, <1>7 DEF TraceInv, TraceOfTraced, CallTypes
<1>9. SomeoneUntraced'
  BY <1>1, <1>7 DEF TraceInv, SomeoneUntraced, Untraced
<1>10. LoneInv'
  <2> SUFFICES ASSUME recent.alone
               PROVE  /\ recent.call \in Calls
                      /\ \A d \in Calls : d # recent.call => stage'[d] \in {"idle", "over"}
                      /\ Traced(recent.call)' => trace' = recent.call
    BY DEF LoneInv, Traced, Returned
  <2>1. /\ recent.call \in Calls
        /\ \A d \in Calls : d # recent.call => stage[d] \in {"idle", "over"}
        /\ Traced(recent.call) => trace = recent.call
    BY <1>1 DEF TraceInv, LoneInv
  <2> QED
    BY <1>2, <1>7, <2>1
<1> QED
  BY <1>1, <1>5, <1>6, <1>8, <1>9, <1>10, ImplKeeps DEF ModelInv, TraceInv

-----------------------------------------------------------------------------
(* The executor keeps its own types, whatever it does.                      *)
LEMMA ServiceSteps ==
  ASSUME ServiceTypes, NEW c \in Calls,
         Service!Accept(c) \/ Service!Start(c) \/ Service!Complete(c) \/ Service!Close
  PROVE  ServiceTypes'
<1>1. CASE Service!Accept(c)
  BY <1>1 DEF ServiceTypes, Service!Accept, Service!Statuses
<1>2. CASE Service!Start(c)
  BY <1>2 DEF ServiceTypes, Service!Start, Service!Statuses
<1>3. CASE Service!Complete(c)
  BY <1>3 DEF ServiceTypes, Service!Complete, Service!Statuses
<1>4. CASE Service!Close
  BY <1>4 DEF ServiceTypes, Service!Close
<1> QED
  BY <1>1, <1>2, <1>3, <1>4

LEMMA CallerHolds == ASSUME ModelInv, NEW c \in Calls, Caller(c) PROVE ModelInv'
<1>1. ServiceTypes
  BY DEF ModelInv
<1>2. CASE RunStores(c)
  <2>1. ServiceTypes'
    BY <1>1, <1>2, ServiceKeeps DEF RunStores
  <2> QED
    BY <1>2, <2>1, GoesOn DEF RunStores, Stages
<1>3. CASE RunReturns(c)
  <2>1. ServiceTypes'
    BY <1>1, <1>3, ServiceKeeps DEF RunReturns
  <2> QED
    BY <1>3, <2>1, EndsWith DEF RunReturns
<1>4. CASE RunThrows(c)
  <2>1. ServiceTypes'
    BY <1>1, <1>4, ServiceKeeps DEF RunThrows
  <2> QED
    BY <1>4, <2>1, EndsWith DEF RunThrows
<1>5. CASE ClearTrace(c)
  <2>1. ServiceTypes'
    BY <1>1, <1>5, ServiceKeeps DEF ClearTrace
  <2> QED
    BY <1>5, <2>1, GoesOn DEF ClearTrace, Stages
<1>6. CASE Enqueue(c)
  <2>1. ServiceTypes'
    BY <1>1, <1>6, ServiceSteps DEF Enqueue
  <2> QED
    BY <1>6, <2>1, GoesOn DEF Enqueue, Stages
<1> QED
  BY <1>2, <1>3, <1>4, <1>5, <1>6 DEF Caller

LEMMA TaskHolds == ASSUME ModelInv, NEW c \in Calls, Task(c) PROVE ModelInv'
<1>1. ServiceTypes
  BY DEF ModelInv
<1>2. CASE TaskStores(c)
  <2>1. ServiceTypes'
    BY <1>1, <1>2, ServiceKeeps DEF TaskStores
  <2> QED
    BY <1>2, <2>1, GoesOn DEF TaskStores, Stages
<1>3. CASE TaskReturns(c)
  <2>1. ServiceTypes'
    BY <1>1, <1>3, ServiceSteps DEF TaskReturns
  <2> QED
    BY <1>3, <2>1, EndsWith DEF TaskReturns
<1>4. CASE TaskThrows(c)
  <2>1. ServiceTypes'
    BY <1>1, <1>4, ServiceSteps DEF TaskThrows
  <2> QED
    BY <1>4, <2>1, EndsWith DEF TaskThrows
<1> QED
  BY <1>2, <1>3, <1>4 DEF Task

LEMMA ModelStep == ModelInv /\ [Next]_vars => ModelInv'
<1> SUFFICES ASSUME ModelInv, [Next]_vars PROVE ModelInv'
  OBVIOUS
<1>1. ServiceTypes
  BY DEF ModelInv
<1>2. CASE Members
  BY <1>2, MembersHold
<1>3. CASE CloseExecutor
  <2>1. ServiceTypes'
    BY <1>1, <1>3 DEF CloseExecutor, Service!Close, ServiceTypes
  <2> QED
    BY <1>3, <2>1, ExecutorHolds DEF CloseExecutor
<1>4. ASSUME NEW c \in Calls, CallUnloaded(c) PROVE ModelInv'
  <2>1. ServiceTypes'
    BY <1>1, <1>4, ServiceKeeps DEF CallUnloaded
  <2> QED
    BY <1>4, <2>1, EndsWith DEF CallUnloaded
<1>5. ASSUME NEW c \in Calls, RunSync(c) PROVE ModelInv'
  BY <1>5, Begins DEF RunSync
<1>6. ASSUME NEW c \in Calls, Submit(c) PROVE ModelInv'
  BY <1>6, Begins DEF Submit
<1>7. ASSUME NEW c \in Calls, TaskStarts(c) PROVE ModelInv'
  <2>1. ServiceTypes'
    BY <1>1, <1>7, ServiceSteps DEF TaskStarts
  <2> QED
    BY <1>7, <2>1, ExecutorHolds DEF TaskStarts
<1>8. ASSUME NEW c \in Calls, Caller(c) \/ Task(c) PROVE ModelInv'
  BY <1>8, CallerHolds, TaskHolds
<1>9. CASE UNCHANGED vars
  <2>1. /\ UNCHANGED <<trace, stage, snapshot, output, recent>> /\ UNCHANGED impl
        /\ UNCHANGED executor
    BY <1>9 DEF vars
  <2>2. ServiceTypes'
    BY <1>1, <2>1, ServiceKeeps
  <2> QED
    BY <2>1, <2>2, ExecutorHolds
<1> QED
  BY <1>2, <1>3, <1>4, <1>5, <1>6, <1>7, <1>8, <1>9 DEF Next

LEMMA ModelAlways == Spec => []ModelInv
<1> QED
  BY ModelInitHolds, ModelStep, PTL DEF Spec

LEMMA ModelSays == ModelInv => TraceIsRight /\ NoMixedResult
<1> SUFFICES ASSUME ModelInv PROVE TraceIsRight /\ NoMixedResult
  OBVIOUS
<1>1. /\ CallTypes /\ (\A c \in Calls : CallInv(c))
      /\ TraceOfTraced /\ SomeoneUntraced /\ LoneInv
  BY DEF ModelInv, TraceInv
<1>2. TraceIsOfARun
  BY <1>1 DEF TraceIsOfARun, TraceOfTraced, Traced
<1>3. TraceSurvives
  BY <1>1 DEF TraceSurvives, SomeoneUntraced, Untraced, Traced
<1>4. LoneCallLeavesItsTrace
  BY <1>1 DEF LoneCallLeavesItsTrace, LoneInv, Traced
<1>5. NoMixedResult
  <2> SUFFICES ASSUME NEW c \in Calls, Returned(c)
               PROVE  output[c].labels \in {None, output[c].session}
    BY DEF NoMixedResult
  <2>1. stage[c] = "over" /\ output[c] = snapshot[c] /\ snapshot[c] \in Snapshots
    BY <1>1 DEF CallInv, Returned
  <2> QED
    BY <1>1, <2>1, Outputs DEF CallInv
<1> QED
  BY <1>2, <1>3, <1>4, <1>5 DEF TraceIsRight

(* model.cpp: the model, its calls and their tasks keep their types.        *)
THEOREM ModelTypeCorrect == Spec => []TypeOK
  BY ModelAlways, TypesOK, PTL

(* last_graph_trace() of model.cpp: the trace is that of a call that ran    *)
(* through; the clearing by submit never wins over a result; and a caller   *)
(* who has his result, and no other call overlapped his, finds his own.     *)
THEOREM TraceIsAlwaysRight == Spec => []TraceIsRight
  BY ModelAlways, ModelSays, PTL

(* run_sync and submit of model.cpp: however often the model is loaded      *)
(* again while tasks of before run on, a result is of one load.             *)
THEOREM ResultsAreNeverMixed == Spec => []NoMixedResult
  BY ModelAlways, ModelSays, PTL
=============================================================================
