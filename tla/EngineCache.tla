---------------------------- MODULE EngineCache ----------------------------
(***************************************************************************)
(* How a TrtSession gets its engine: try_restore_engine_from_cache and     *)
(* build_engine_from_onnx of trt_session.cpp.  Several processes load      *)
(* sessions for the same model file and share the files of the cache on    *)
(* the disk without any lock.  The model may be replaced while they do, and*)
(* a process may be killed at any step.                                    *)
(***************************************************************************)
EXTENDS Naturals, FiniteSets, Sequences

CONSTANTS
  Procs,        (* processes that load a session                            *)
  Specs,        (* ModelSpec: cache_policy, tensorrt_profiles, cache_dir    *)
  Legacies,     (* what may lie in the .trt.plan next to the model          *)
  MaxLoads,     (* bound: calls of load                                     *)
  MaxReplaced   (* bound: replacements of the model file                    *)

Policies == {"default", "disabled", "read_only", "rebuild"}

(* own_dir: cache_dir is set; the processes then share that directory.      *)
SpecType == [policy : Policies, profile : STRING, own_dir : BOOLEAN]

(* The bytes of a file, as deserializeCudaEngine sees them: a whole plan,   *)
(* built from a version of the model for a profile, or something it refuses.*)
Plan(version, profile) == [version |-> version, profile |-> profile]
Torn == [version |-> 0, profile |-> "torn"]
Absent == [plan |-> Torn, mtime |-> 0, writers |-> {}, mixed |-> FALSE, exists |-> FALSE]
FileOf(plan, mtime) ==
  [plan |-> plan, mtime |-> mtime, writers |-> {}, mixed |-> FALSE, exists |-> TRUE]

(* No plan next to the model is from the future, and one that is not older  *)
(* than the model was built from it.                                        *)
ASSUME CacheAssumption ==
  /\ IsFiniteSet(Procs) /\ Specs \subseteq SpecType
  /\ MaxLoads \in Nat /\ MaxReplaced \in Nat
  /\ Legacies \subseteq [plan : [version : Nat, profile : STRING], mtime : 0 .. 1,
                          writers : {{}}, mixed : {FALSE}, exists : BOOLEAN]
  /\ \A l \in Legacies : l.plan = Torn \/ l.mtime = 0 \/ l.plan.version = 1

VARIABLES
  model,     (* the version and the modification time of the model file     *)
  clock,     (* the time; it passes when the model is replaced              *)
  files,     (* the files of the cache, by name                             *)
  spec,      (* of each process: the arguments of its load                  *)
  pc,        (* of each process: where its load is                          *)
  candidates,(* of each process: the names it still has to try              *)
  front,     (* of each process: caches.front(), or where it writes         *)
  plan,      (* of each process: the plan it read, parsed or built          *)
  engine,    (* of each process: its engine; Torn: none                     *)
  loads,     (* calls of load so far                                        *)
  seen,      (* history: versions the model had during the load             *)
  restored,  (* history: the engine is from a file                          *)
  disturbed  (* history: the model was replaced during a build or its time  *)
             (* set back                                                    *)

procVars == <<spec, pc, candidates, front, plan, engine, seen, restored>>
vars == <<model, clock, files, procVars, loads, disturbed>>

Versions == 1 .. MaxReplaced + 1
Times == 0 .. MaxReplaced + 1

(* fingerprinted_engine_cache_path: model_fingerprint covers the path, the  *)
(* size and the time of the model, runtime_fingerprint the GPU, the same    *)
(* for all processes here.  The profiles are not part of it.                *)
Fingerprinted(s, m) == <<IF s.own_dir THEN "own" ELSE "default", m.version, m.mtime>>
LegacyName == <<"legacy", 0, 0>>
Names == {LegacyName} \cup ({"own", "default"} \X Versions \X Times)

NoSpec == [policy |-> "disabled", profile |-> "torn", own_dir |-> FALSE]

Init ==
  /\ model = [version |-> 1, mtime |-> 1] /\ clock = 1
  /\ \E legacy \in Legacies : files = [n \in Names |-> IF n = LegacyName THEN legacy ELSE Absent]
  /\ spec = [p \in Procs |-> NoSpec]
  /\ pc = [p \in Procs |-> "idle"]
  /\ candidates = [p \in Procs |-> <<>>]
  /\ front = [p \in Procs |-> LegacyName]
  /\ plan = [p \in Procs |-> Torn]
  /\ engine = [p \in Procs |-> Torn]
  /\ loads = 0
  /\ seen = [p \in Procs |-> {}]
  /\ restored = [p \in Procs |-> FALSE]
  /\ disturbed = FALSE

-----------------------------------------------------------------------------
MayRead(s) == s.policy \notin {"disabled", "rebuild"}
MayWrite(s) == s.policy \notin {"disabled", "read_only"}

(* cache_candidates.                                                        *)
CacheCandidates(s, m) ==
  IF ~MayRead(s) THEN <<>>
  ELSE <<Fingerprinted(s, m)>> \o (IF s.own_dir THEN <<>> ELSE <<LegacyName>>)

At(p, place) == pc[p] = place
Go(p, place) == pc' = [pc EXCEPT ![p] = place]
Disk == <<model, clock, files, loads, disturbed>>

(* The process has no session: it failed to load one, or is gone.           *)
Ends(p) ==
  /\ Go(p, "idle")
  /\ spec' = [spec EXCEPT ![p] = NoSpec]
  /\ candidates' = [candidates EXCEPT ![p] = <<>>]
  /\ front' = [front EXCEPT ![p] = LegacyName]
  /\ plan' = [plan EXCEPT ![p] = Torn]
  /\ engine' = [engine EXCEPT ![p] = Torn]
  /\ seen' = [seen EXCEPT ![p] = {}]
  /\ restored' = [restored EXCEPT ![p] = FALSE]

(* load(): the arguments are kept and the candidates named.                 *)
Load(p) ==
  /\ At(p, "idle") /\ loads < MaxLoads
  /\ loads' = loads + 1
  /\ \E s \in Specs :
       /\ spec' = [spec EXCEPT ![p] = s]
       /\ candidates' = [candidates EXCEPT ![p] = CacheCandidates(s, model)]
       /\ front' = [front EXCEPT ![p] = Fingerprinted(s, model)]
  /\ Go(p, "try")
  /\ seen' = [seen EXCEPT ![p] = {model.version}]
  /\ UNCHANGED <<model, clock, files, disturbed, plan, engine, restored>>

AnyAge(n) == files[n].exists   (* slip: a file is taken whatever its age *)

(* is_cache_fresh: a file that is not older than the model.                 *)
Fresh(n) == files[n].exists /\ files[n].mtime >= model.mtime

(* The head of the loop of try_restore_engine_from_cache: the next candidate*)
(* that is fresh will be read; after the last one the engine is built.      *)
TryNext(p) ==
  /\ At(p, "try")
  /\ IF candidates[p] = <<>> THEN Go(p, "parse") /\ UNCHANGED candidates
     ELSE IF Fresh(Head(candidates[p])) THEN Go(p, "read") /\ UNCHANGED candidates
     ELSE candidates' = [candidates EXCEPT ![p] = Tail(@)] /\ UNCHANGED pc
  /\ UNCHANGED <<Disk, spec, front, plan, engine, seen, restored>>

MigrateAlways(p) == Head(candidates[p]) # front[p]   (* slip: also when read_only *)

Migrates(p) == spec[p].policy # "read_only" /\ Head(candidates[p]) # front[p]

(* read_binary_file and deserializeCudaEngine: what is not a whole plan is  *)
(* passed over.  A legacy file is then copied to the front.                 *)
ReadPlan(p) ==
  /\ At(p, "read")
  /\ LET found == files[Head(candidates[p])].plan IN
     IF found = Torn
     THEN /\ candidates' = [candidates EXCEPT ![p] = Tail(@)]
          /\ Go(p, "try")
          /\ UNCHANGED <<plan, engine, restored>>
     ELSE /\ plan' = [plan EXCEPT ![p] = found]
          /\ engine' = [engine EXCEPT ![p] = found]
          /\ restored' = [restored EXCEPT ![p] = TRUE]
          /\ Go(p, IF Migrates(p) THEN "write" ELSE "ready")
          /\ UNCHANGED candidates
  /\ UNCHANGED <<Disk, spec, front, seen>>

-----------------------------------------------------------------------------
(* build_engine_from_onnx up to the plan: the parser reads the model, the   *)
(* builder takes its time.  Either may fail, and with it the load.          *)
Parse(p) ==
  /\ At(p, "parse")
  /\ \/ /\ plan' = [plan EXCEPT ![p] = Plan(model.version, spec[p].profile)]
        /\ Go(p, "build")
        /\ UNCHANGED <<spec, candidates, front, engine, seen, restored>>
     \/ Ends(p)
  /\ UNCHANGED Disk

(* buildSerializedNetwork has returned: only now is the file named.         *)
Build(p) ==
  /\ At(p, "build")
  /\ \/ /\ engine' = [engine EXCEPT ![p] = plan[p]]
        /\ front' = [front EXCEPT ![p] = Fingerprinted(spec[p], model)]
        /\ Go(p, IF MayWrite(spec[p]) THEN "write" ELSE "ready")
        /\ UNCHANGED <<spec, candidates, plan, seen, restored>>
     \/ Ends(p)
  /\ UNCHANGED Disk

(* write_binary_file and copy_file open the file itself and cut it: until   *)
(* the last byte is written others find it torn.                            *)
WriteBegins(p) ==
  /\ At(p, "write")
  /\ files' = [files EXCEPT ![front[p]] =
                 [plan |-> Torn, mtime |-> clock, writers |-> @.writers \cup {p},
                  mixed |-> @.writers # {}, exists |-> TRUE]]
  /\ Go(p, "writing")
  /\ UNCHANGED <<model, clock, loads, disturbed, spec, candidates, front, plan, engine, seen, restored>>

(* The bytes of two who wrote at the same time may be mixed.                *)
WriteEnds(p) ==
  /\ At(p, "writing")
  /\ LET file == files[front[p]] IN
     \E found \in {plan[p]} \cup (IF file.mixed THEN {Torn} ELSE {}) :
       files' = [files EXCEPT ![front[p]] =
                   [file EXCEPT !.plan = IF file.writers = {p} THEN found ELSE Torn,
                                !.mtime = clock, !.writers = @ \ {p}]]
  /\ Go(p, "ready")
  /\ UNCHANGED <<model, clock, loads, disturbed, spec, candidates, front, plan, engine, seen, restored>>

(* The process is killed or done; a file it was writing stays as it is.     *)
Stop(p) ==
  /\ ~At(p, "idle")
  /\ Ends(p)
  /\ files' = [n \in Names |-> [files[n] EXCEPT !.writers = @ \ {p}]]
  /\ UNCHANGED <<model, clock, loads, disturbed>>

(* Someone replaces the model file.  Usually that makes it the newest file; *)
(* a copy that keeps its time may be older than the plans.                  *)
ReplaceModel ==
  /\ clock <= MaxReplaced
  /\ clock' = clock + 1
  /\ \E t \in {0, clock + 1} :
       /\ model' = [version |-> clock + 1, mtime |-> t]
       /\ disturbed' = (disturbed \/ t = 0 \/ \E p \in Procs : At(p, "build"))
  /\ seen' = [p \in Procs |-> IF At(p, "idle") THEN seen[p] ELSE seen[p] \cup {clock + 1}]
  /\ UNCHANGED <<files, loads, spec, pc, candidates, front, plan, engine, restored>>

Step(p) == Load(p) \/ TryNext(p) \/ ReadPlan(p) \/ Parse(p) \/ Build(p) \/ WriteBegins(p) \/ WriteEnds(p)

Next == ReplaceModel \/ \E p \in Procs : Step(p) \/ Stop(p)

Spec == Init /\ [][Next]_vars

-----------------------------------------------------------------------------
TypeOK ==
  /\ model \in [version : Versions, mtime : Times] /\ clock \in 1 .. MaxReplaced + 1
  /\ DOMAIN files = Names
  /\ loads \in 0 .. MaxLoads
  /\ pc \in [Procs -> {"idle", "try", "read", "parse", "build", "write", "writing", "ready"}]

(* A session runs on a whole engine that was built from a version the model *)
(* had during its load, whoever wrote the file it comes from, whenever      *)
(* processes are killed and however they write over each other.  It holds   *)
(* as long as the model is not replaced during a build (the file is named   *)
(* after it) and its time is not set back.                                  *)
NoStaleEngine ==
  \A p \in Procs :
    At(p, "ready") => engine[p] # Torn /\ (disturbed \/ engine[p].version \in seen[p])

(* A process whose policy forbids it neither changes a file of the cache    *)
(* nor runs on an engine from one.                                          *)
PolicyKept ==
  /\ \A p \in Procs : restored[p] => MayRead(spec[p])
  /\ \A n \in Names : \A p \in files[n].writers : MayWrite(spec[p])

(* README.md:468: tensorrt_profiles is a per-input override of the shapes   *)
(* of the optimization profile, so the engine of a session has the profile  *)
(* the session was loaded with.                                             *)
ProfilesApply == \A p \in Procs : At(p, "ready") => engine[p].profile = spec[p].profile
=============================================================================
