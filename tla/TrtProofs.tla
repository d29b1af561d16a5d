------------------------------ MODULE TrtProofs ------------------------------
(***************************************************************************)
(* That a session never runs on a stale or a torn engine, whatever number  *)
(* of processes share the cache, and that the calls of one session get the *)
(* results of their own inputs and touch no freed memory, whatever number  *)
(* of threads share its context.                                           *)
(***************************************************************************)
EXTENDS TrtSession, SequenceTheorems, TLAPS

(* The engine cache.  Its files are told apart by what they are named after.*)
Places == {"idle", "try", "read", "parse", "build", "write", "writing", "ready"}
(* The provers do not know that "torn" is a STRING.                        *)
ProfileNames == STRING \cup {"torn"}
PlanType == [version : Nat, profile : ProfileNames]
FileType ==
  [plan : PlanType, mtime : Nat, writers : SUBSET Procs, mixed : BOOLEAN, exists : BOOLEAN]
VersionOf(n) == n[2]
FingerprintNames == {"own", "default"} \X Versions \X Times

DiskTypes ==
  /\ model = [version |-> model.version, mtime |-> model.mtime]
  /\ model.version = clock /\ model.mtime \in Times
  /\ clock \in Versions /\ disturbed \in BOOLEAN
  /\ files \in [Names -> FileType]

ProcTypes ==
  /\ spec \in [Procs -> SpecType \cup {NoSpec}] /\ pc \in [Procs -> Places]
  /\ front \in [Procs -> Names] /\ plan \in [Procs -> PlanType]
  /\ engine \in [Procs -> PlanType]
  /\ seen \in [Procs -> SUBSET Versions] /\ restored \in [Procs -> BOOLEAN]
  /\ DOMAIN candidates = Procs

(* As long as nobody sets its time back the model is the newest file.       *)
ModelIsNewest == disturbed \/ model.mtime = clock

(* A load keeps what it was told: the names it still has to try are of the  *)
(* version it began with, and it has seen the model as it is.               *)
Searches(p) ==
  pc[p] \in {"try", "read"} =>
    /\ candidates[p] \in {<<>>, <<front[p]>>, <<front[p], LegacyName>>, <<LegacyName>>}
    /\ candidates[p] # <<>> => MayRead(spec[p])
    /\ front[p] \in FingerprintNames
    /\ VersionOf(front[p]) \in seen[p] /\ VersionOf(front[p]) <= clock
    /\ pc[p] = "read" => candidates[p] # <<>>

(* A legacy plan that was found fresh is of the version the load began with.*)
FreshLegacy(p) ==
  pc[p] = "read" /\ Head(candidates[p]) = LegacyName /\ ~disturbed =>
    files[LegacyName].mtime = 1 /\ VersionOf(front[p]) = 1

Builds(p) ==
  pc[p] = "build" =>
    /\ plan[p].version \in seen[p] \ {0}
    /\ disturbed \/ plan[p].version = clock

(* What a process writes belongs under the name it writes to.               *)
Writes(p) ==
  pc[p] \in {"write", "writing"} =>
    /\ MayWrite(spec[p]) /\ front[p] \in FingerprintNames
    /\ disturbed \/ plan[p].version = VersionOf(front[p])

Runs(p) ==
  /\ pc[p] \in {"write", "writing", "ready"} =>
       engine[p] # Torn /\ (disturbed \/ engine[p].version \in seen[p])
  /\ restored[p] => MayRead(spec[p]) /\ pc[p] # "idle"
  /\ pc[p] # "idle" => clock \in seen[p]

ProcInv ==
  \A p \in Procs : Searches(p) /\ FreshLegacy(p) /\ Builds(p) /\ Writes(p) /\ Runs(p)

(* A file holds nothing but plans of the version it is named after; the one *)
(* next to the model stays as it was found.                                 *)
FilesInv ==
  /\ \A n \in FingerprintNames :
       disturbed \/ files[n].plan = Torn \/ files[n].plan.version = VersionOf(n)
  /\ LET l == files[LegacyName] IN
     l.mtime \in 0 .. 1 /\ (l.plan = Torn \/ l.mtime = 0 \/ l.plan.version = 1)
  /\ \A n \in Names : \A p \in files[n].writers : pc[p] = "writing" /\ front[p] = n

CacheInv == DiskTypes /\ ProcTypes /\ ModelIsNewest /\ ProcInv /\ FilesInv

-----------------------------------------------------------------------------
LEMMA NamesOfFiles ==
  /\ LegacyName \in Names /\ LegacyName \notin FingerprintNames
  /\ FingerprintNames \subseteq Names
  /\ \A n \in Names : n = LegacyName \/ n \in FingerprintNames
<1>1. LegacyName \notin FingerprintNames
  BY DEF LegacyName, FingerprintNames
<1> QED
  BY <1>1 DEF Names, FingerprintNames

LEMMA FingerprintOf ==
  ASSUME DiskTypes, NEW s
  PROVE  /\ Fingerprinted(s, model) \in FingerprintNames
         /\ VersionOf(Fingerprinted(s, model)) = clock
<1>1. model.version = clock /\ model.version \in Versions /\ model.mtime \in Times
  BY DEF DiskTypes
<1>2. (IF s.own_dir THEN "own" ELSE "default") \in {"own", "default"}
  OBVIOUS
<1> QED
  BY <1>1, <1>2 DEF Fingerprinted, FingerprintNames, VersionOf

(* The lists of candidates are short.                                       *)
LEMMA TwoNames == ASSUME NEW a, NEW b PROVE <<a>> \o <<b>> = <<a, b>>
<1> DEFINE S == {a, b}  s == <<a>> \o <<b>>  t == <<a, b>>
<1>1. <<a>> \in Seq(S) /\ <<b>> \in Seq(S) /\ t \in Seq(S)
  OBVIOUS
<1>2. Len(s) = 2 /\ s \in Seq(S) /\ Len(t) = 2
  BY <1>1
<1>3. \A i \in 1 .. 2 : s[i] = t[i]
  BY <1>1
<1> HIDE DEF S, s, t
<1>4. s = t
  BY <1>1, <1>2, <1>3, SeqEqual
<1> QED
  BY <1>4 DEF s, t

LEMMA TailOfNames == ASSUME NEW a, NEW b PROVE Tail(<<a>>) = <<>> /\ Tail(<<a, b>>) = <<b>>
  OBVIOUS

LEMMA PlanTypes == Torn \in PlanType /\ Absent \in FileType
<1>1. Torn \in PlanType
  <2>1. 0 \in Nat /\ "torn" \in ProfileNames
    BY DEF ProfileNames
  <2> QED
    BY <2>1 DEF Torn, PlanType
<1>2. Absent \in FileType
  BY <1>1 DEF Absent, FileType
<1> QED
  BY <1>1, <1>2

(* Nothing of a process changes.                                            *)
Same(q) ==
  /\ pc'[q] = pc[q] /\ spec'[q] = spec[q] /\ candidates'[q] = candidates[q]
  /\ front'[q] = front[q] /\ plan'[q] = plan[q] /\ engine'[q] = engine[q]
  /\ seen'[q] = seen[q] /\ restored'[q] = restored[q]

OneProcInv(p) == Searches(p) /\ FreshLegacy(p) /\ Builds(p) /\ Writes(p) /\ Runs(p)

LEMMA OthersKeep ==
  ASSUME CacheInv, NEW q \in Procs, Same(q), UNCHANGED <<clock, disturbed>>,
         files'[LegacyName].mtime = files[LegacyName].mtime
  PROVE  OneProcInv(q)'
<1>1. Searches(q) /\ FreshLegacy(q) /\ Builds(q) /\ Writes(q) /\ Runs(q)
  BY DEF CacheInv, ProcInv
<1>2. Searches(q)'
  BY <1>1 DEF Searches, Same
<1>3. FreshLegacy(q)'
  BY <1>1 DEF FreshLegacy, Same
<1>4. Builds(q)'
  BY <1>1 DEF Builds, Same
<1>5. Writes(q)'
  BY <1>1 DEF Writes, Same
<1>6. Runs(q)'
  BY <1>1 DEF Runs, Same
<1> QED
  BY <1>2, <1>3, <1>4, <1>5, <1>6 DEF OneProcInv

LEMMA FilesKeep ==
  ASSUME CacheInv, NEW p \in Procs, pc[p] # "writing", UNCHANGED <<files, disturbed>>,
         \A q \in Procs \ {p} : Same(q)
  PROVE  FilesInv'
<1>1. ASSUME NEW n \in Names, NEW q \in files[n].writers
      PROVE  pc'[q] = "writing" /\ front'[q] = n
  <2>1. pc[q] = "writing" /\ front[q] = n
    BY <1>1 DEF CacheInv, FilesInv
  <2>2. q \in Procs
    BY <1>1 DEF CacheInv, DiskTypes, FileType
  <2> QED
    BY <2>1, <2>2 DEF Same
<1> QED
  BY <1>1 DEF CacheInv, FilesInv

(* A step of one process that leaves the disk alone.                        *)
LEMMA ProcStep ==
  ASSUME CacheInv, NEW p \in Procs, pc[p] # "writing",
         UNCHANGED <<model, clock, files, disturbed>>,
         \A q \in Procs \ {p} : Same(q),
         ProcTypes', OneProcInv(p)'
  PROVE  CacheInv'
<1>1. DiskTypes' /\ ModelIsNewest'
  BY DEF CacheInv, DiskTypes, ModelIsNewest
<1>2. \A q \in Procs : OneProcInv(q)'
  BY OthersKeep
<1>3. ProcInv'
  BY <1>2 DEF ProcInv, OneProcInv
<1>4. FilesInv'
  BY FilesKeep
<1> QED
  BY <1>1, <1>3, <1>4 DEF CacheInv

(* A process without a session promises nothing.                            *)
LEMMA EndsIdle ==
  ASSUME CacheInv, NEW p \in Procs, Ends(p)
  PROVE  ProcTypes' /\ OneProcInv(p)' /\ \A q \in Procs \ {p} : Same(q)
<1>1. ProcTypes
  BY DEF CacheInv
<1>2. ProcTypes'
  BY <1>1, PlanTypes, NamesOfFiles DEF ProcTypes, Ends, Go, Places
<1>3. pc'[p] = "idle" /\ restored'[p] = FALSE
  BY <1>1 DEF ProcTypes, Ends, Go
<1>4. OneProcInv(p)'
  BY <1>3 DEF OneProcInv, Searches, FreshLegacy, Builds, Writes, Runs
<1>5. \A q \in Procs \ {p} : Same(q)
  BY <1>1 DEF ProcTypes, Ends, Go, Same
<1> QED
  BY <1>2, <1>4, <1>5

LEMMA CacheInitHolds == Init => CacheInv
<1> SUFFICES ASSUME Init PROVE CacheInv
  OBVIOUS
<1>1. clock = 1 /\ 1 \in Versions /\ 1 \in Times /\ disturbed = FALSE
  BY CacheAssumption DEF Init, Versions, Times
<1>2. PICK legacy \in Legacies :
        files = [n \in Names |-> IF n = LegacyName THEN legacy ELSE Absent]
  BY DEF Init
<1>3. legacy \in FileType /\ legacy.writers = {} /\ legacy.mtime \in 0 .. 1
      /\ (legacy.plan = Torn \/ legacy.mtime = 0 \/ legacy.plan.version = 1)
  <2>1. legacy \in [plan : PlanType, mtime : 0 .. 1, writers : {{}}, mixed : {FALSE},
                    exists : BOOLEAN]
    <3>1. [version : Nat, profile : STRING] \subseteq PlanType
      BY DEF PlanType, ProfileNames
    <3>2. legacy \in [plan : [version : Nat, profile : STRING], mtime : 0 .. 1,
                      writers : {{}}, mixed : {FALSE}, exists : BOOLEAN]
      BY CacheAssumption
    <3> QED
      BY <3>1, <3>2
  <2>2. legacy.plan = Torn \/ legacy.mtime = 0 \/ legacy.plan.version = 1
    BY CacheAssumption
  <2>3. legacy.writers = {} /\ legacy.mtime \in 0 .. 1
    BY <2>1
  <2>4. legacy \in FileType
    <3>1. /\ legacy = [plan |-> legacy.plan, mtime |-> legacy.mtime,
                       writers |-> legacy.writers, mixed |-> legacy.mixed,
                       exists |-> legacy.exists]
          /\ legacy.plan \in PlanType /\ legacy.mtime \in 0 .. 1
          /\ legacy.writers \in {{}} /\ legacy.mixed \in {FALSE} /\ legacy.exists \in BOOLEAN
      BY <2>1
    <3>2. legacy.mtime \in Nat
      BY <3>1
    <3>3. legacy.writers \in SUBSET Procs
      BY <3>1
    <3>4. legacy.mixed \in BOOLEAN
      BY <3>1
    <3> QED
      BY <3>1, <3>2, <3>3, <3>4 DEF FileType
  <2> QED
    BY <2>2, <2>3, <2>4
<1>4. DiskTypes /\ ModelIsNewest
  <2>1. files \in [Names -> FileType]
    BY <1>2, <1>3, PlanTypes
  <2> QED
    BY <1>1, <2>1 DEF Init, DiskTypes, ModelIsNewest
<1>5. ProcTypes
  BY PlanTypes, NamesOfFiles DEF Init, ProcTypes, Places
<1>6. ProcInv
  <2> SUFFICES ASSUME NEW p \in Procs
               PROVE  Searches(p) /\ FreshLegacy(p) /\ Builds(p) /\ Writes(p) /\ Runs(p)
    BY DEF ProcInv
  <2>1. pc[p] = "idle" /\ restored[p] = FALSE
    BY DEF Init
  <2> QED
    BY <2>1 DEF Searches, FreshLegacy, Builds, Writes, Runs
<1>7. FilesInv
  <2>1. files[LegacyName] = legacy /\ \A n \in FingerprintNames : files[n] = Absent
    BY <1>2, NamesOfFiles
  <2>2. \A n \in Names : files[n].writers = {}
    BY <1>3, <2>1, NamesOfFiles DEF Absent
  <2>3. \A n \in FingerprintNames : files[n].plan = Torn
    BY <2>1 DEF Absent
  <2> QED
    BY <1>3, <2>1, <2>2, <2>3 DEF FilesInv
<1> QED
  BY <1>4, <1>5, <1>6, <1>7 DEF CacheInv

-----------------------------------------------------------------------------
LEMMA LoadHolds == ASSUME CacheInv, NEW p \in Procs, Load(p) PROVE CacheInv'
<1>1. ProcTypes /\ DiskTypes /\ pc[p] = "idle"
  BY DEF CacheInv, Load, At
<1>2. PICK s \in Specs :
        /\ spec' = [spec EXCEPT ![p] = s]
        /\ candidates' = [candidates EXCEPT ![p] = CacheCandidates(s, model)]
        /\ front' = [front EXCEPT ![p] = Fingerprinted(s, model)]
  BY DEF Load
<1>3. /\ pc' = [pc EXCEPT ![p] = "try"]
      /\ seen' = [seen EXCEPT ![p] = {model.version}]
      /\ UNCHANGED <<model, clock, files, disturbed, plan, engine, restored>>
  BY DEF Load, Go
<1>4. /\ s \in SpecType
      /\ Fingerprinted(s, model) \in FingerprintNames
      /\ VersionOf(Fingerprinted(s, model)) = clock
      /\ model.version = clock /\ clock \in Versions
  BY <1>1, CacheAssumption, FingerprintOf DEF DiskTypes
<1>5. ProcTypes'
  BY <1>1, <1>2, <1>3, <1>4, NamesOfFiles DEF ProcTypes, Places
<1>6. /\ pc'[p] = "try" /\ spec'[p] = s /\ front'[p] = Fingerprinted(s, model)
      /\ candidates'[p] = CacheCandidates(s, model) /\ seen'[p] = {clock}
      /\ restored'[p] = restored[p]
  BY <1>1, <1>2, <1>3, <1>4 DEF ProcTypes
<1>7. /\ CacheCandidates(s, model) \in
           {<<>>, <<front'[p]>>, <<front'[p], LegacyName>>, <<LegacyName>>}
      /\ CacheCandidates(s, model) # <<>> => MayRead(s)
  <2>1. CASE ~MayRead(s)
    BY <2>1 DEF CacheCandidates
  <2>2. CASE MayRead(s) /\ s.own_dir
    <3>1. CacheCandidates(s, model) = <<front'[p]>> \o <<>>
      BY <1>6, <2>2 DEF CacheCandidates
    <3>2. CacheCandidates(s, model) = <<front'[p]>>
      BY <3>1
    <3> QED
      BY <2>2, <3>2
  <2>3. CASE MayRead(s) /\ ~s.own_dir
    <3>1. CacheCandidates(s, model) = <<front'[p]>> \o <<LegacyName>>
      BY <1>6, <2>3 DEF CacheCandidates
    <3>2. CacheCandidates(s, model) = <<front'[p], LegacyName>>
      BY <3>1, TwoNames
    <3> QED
      BY <2>3, <3>2
  <2> QED
    BY <2>1, <2>2, <2>3
<1>8. OneProcInv(p)'
  <2>1. Searches(p)'
    BY <1>3, <1>4, <1>6, <1>7 DEF Searches, Versions
  <2>2. restored[p] = FALSE
    BY <1>1 DEF CacheInv, ProcInv, Runs, ProcTypes
  <2>3. FreshLegacy(p)' /\ Builds(p)' /\ Writes(p)'
    BY <1>6 DEF FreshLegacy, Builds, Writes
  <2>4. Runs(p)'
    BY <1>3, <1>6, <2>2 DEF Runs
  <2> QED
    BY <2>1, <2>3, <2>4 DEF OneProcInv
<1>9. \A q \in Procs \ {p} : Same(q)
  BY <1>1, <1>2, <1>3 DEF ProcTypes, Same
<1> QED
  BY <1>1, <1>3, <1>5, <1>8, <1>9, ProcStep

LEMMA TryNextHolds == ASSUME CacheInv, NEW p \in Procs, TryNext(p) PROVE CacheInv'
<1>1. /\ ProcTypes /\ DiskTypes /\ ModelIsNewest /\ FilesInv /\ OneProcInv(p)
      /\ pc[p] = "try"
  BY DEF CacheInv, TryNext, At, ProcInv, OneProcInv
<1>2. UNCHANGED <<model, clock, files, loads, disturbed, spec, front, plan, engine, seen,
                  restored>>
  BY DEF TryNext, Disk
<1>3. \/ /\ candidates[p] = <<>> /\ pc' = [pc EXCEPT ![p] = "parse"]
         /\ UNCHANGED candidates
      \/ /\ candidates[p] # <<>> /\ Fresh(Head(candidates[p]))
         /\ pc' = [pc EXCEPT ![p] = "read"] /\ UNCHANGED candidates
      \/ /\ candidates[p] # <<>>
         /\ candidates' = [candidates EXCEPT ![p] = Tail(candidates[p])] /\ UNCHANGED pc
  BY DEF TryNext, Go
<1>4. ProcTypes' /\ \A q \in Procs \ {p} : Same(q)
  BY <1>1, <1>2, <1>3 DEF ProcTypes, Places, Same
<1>5. Searches(p) /\ Runs(p)
  BY <1>1 DEF OneProcInv
<1>6. Builds(p)' /\ Writes(p)' /\ Runs(p)'
  <2>1. pc'[p] \in {"parse", "read", "try"}
    BY <1>1, <1>3 DEF ProcTypes
  <2> QED
    BY <1>1, <1>2, <1>5, <2>1 DEF Builds, Writes, Runs
<1>7. CASE pc' = [pc EXCEPT ![p] = "parse"]
  <2>1. pc'[p] = "parse"
    BY <1>1, <1>7 DEF ProcTypes
  <2>2. Searches(p)' /\ FreshLegacy(p)'
    BY <2>1 DEF Searches, FreshLegacy
  <2> QED
    BY <1>1, <1>2, <1>4, <1>6, <2>2, ProcStep DEF OneProcInv
<1>8. CASE /\ candidates[p] # <<>> /\ Fresh(Head(candidates[p]))
           /\ pc' = [pc EXCEPT ![p] = "read"] /\ UNCHANGED candidates
  <2>1. pc'[p] = "read"
    BY <1>1, <1>8 DEF ProcTypes
  <2>2. Searches(p)'
    BY <1>1, <1>2, <1>5, <1>8, <2>1 DEF Searches
  <2>3. FreshLegacy(p)'
    <3> SUFFICES ASSUME Head(candidates[p]) = LegacyName, ~disturbed
                 PROVE  files[LegacyName].mtime = 1 /\ VersionOf(front[p]) = 1
      BY <1>2, <1>8 DEF FreshLegacy
    <3>1. files[LegacyName].mtime >= clock /\ files[LegacyName].mtime \in 0 .. 1
      BY <1>1, <1>8 DEF Fresh, ModelIsNewest, FilesInv
    <3>2. VersionOf(front[p]) \in seen[p] /\ VersionOf(front[p]) <= clock
      BY <1>1, <1>5 DEF Searches
    <3>3. VersionOf(front[p]) \in Nat /\ VersionOf(front[p]) >= 1 /\ clock \in Nat
      BY <1>1, <3>2, CacheAssumption DEF ProcTypes, DiskTypes, Versions
    <3> QED
      BY <3>1, <3>2, <3>3
  <2> QED
    BY <1>1, <1>2, <1>4, <1>6, <2>2, <2>3, ProcStep DEF OneProcInv
<1>9. CASE /\ candidates[p] # <<>>
           /\ candidates' = [candidates EXCEPT ![p] = Tail(candidates[p])] /\ UNCHANGED pc
  <2>1. pc'[p] = "try" /\ candidates'[p] = Tail(candidates[p])
    BY <1>1, <1>9 DEF ProcTypes
  <2>2. Tail(candidates[p]) \in {<<>>, <<LegacyName>>} /\ MayRead(spec[p])
    <3>1. /\ candidates[p] \in {<<front[p]>>, <<front[p], LegacyName>>, <<LegacyName>>}
          /\ MayRead(spec[p])
      BY <1>1, <1>5, <1>9 DEF Searches
    <3> QED
      BY <3>1, TailOfNames
  <2>3. Searches(p)' /\ FreshLegacy(p)'
    BY <1>1, <1>2, <1>5, <2>1, <2>2 DEF Searches, FreshLegacy
  <2> QED
    BY <1>1, <1>2, <1>4, <1>6, <2>3, ProcStep DEF OneProcInv
<1> QED
  BY <1>3, <1>7, <1>8, <1>9

(* What a candidate holds fits the load: it was named after a version the   *)
(* load saw, or lay next to the model and was not older.                    *)
LEMMA CandidateFits ==
  ASSUME CacheInv, NEW p \in Procs, pc[p] = "read", NEW found,
         found = files[Head(candidates[p])].plan, found # Torn
  PROVE  /\ found \in PlanType /\ MayRead(spec[p]) /\ front[p] \in FingerprintNames
         /\ disturbed \/ found.version = VersionOf(front[p])
         /\ VersionOf(front[p]) \in seen[p]
<1>1. Searches(p) /\ FreshLegacy(p) /\ FilesInv /\ files \in [Names -> FileType]
  BY DEF CacheInv, ProcInv, DiskTypes
<1>2. /\ candidates[p] \in {<<front[p]>>, <<front[p], LegacyName>>, <<LegacyName>>}
      /\ MayRead(spec[p]) /\ front[p] \in FingerprintNames
      /\ VersionOf(front[p]) \in seen[p]
  BY <1>1 DEF Searches
<1>3. Head(candidates[p]) = front[p] \/ Head(candidates[p]) = LegacyName
  BY <1>2
<1>4. found \in PlanType
  <2>1. Head(candidates[p]) \in Names
    BY <1>2, <1>3, NamesOfFiles
  <2>2. files[Head(candidates[p])] \in FileType
    BY <1>1, <2>1
  <2> QED
    BY <2>2 DEF FileType
<1>5. ASSUME ~disturbed PROVE found.version = VersionOf(front[p])
  <2>1. CASE Head(candidates[p]) = front[p]
    BY <1>1, <1>2, <1>5, <2>1 DEF FilesInv
  <2>2. CASE Head(candidates[p]) = LegacyName
    <3>1. files[LegacyName].mtime = 1 /\ VersionOf(front[p]) = 1
      BY <1>1, <1>5, <2>2 DEF FreshLegacy
    <3>2. files[LegacyName].plan.version = 1
      BY <1>1, <2>2, <3>1 DEF FilesInv
    <3> QED
      BY <2>2, <3>1, <3>2
  <2> QED
    BY <1>3, <2>1, <2>2
<1> QED
  BY <1>2, <1>4, <1>5

LEMMA ReadPlanHolds == ASSUME CacheInv, NEW p \in Procs, ReadPlan(p) PROVE CacheInv'
<1> DEFINE found == files[Head(candidates[p])].plan
<1>1. /\ ProcTypes /\ DiskTypes /\ OneProcInv(p) /\ pc[p] = "read"
  BY DEF CacheInv, ReadPlan, At, ProcInv, OneProcInv
<1>2. UNCHANGED <<model, clock, files, loads, disturbed, spec, front, seen>>
  BY DEF ReadPlan, Disk
<1>3. Searches(p) /\ Runs(p)
  BY <1>1 DEF OneProcInv
<1>4. CASE found = Torn
  <2>1. /\ candidates' = [candidates EXCEPT ![p] = Tail(candidates[p])]
        /\ pc' = [pc EXCEPT ![p] = "try"] /\ UNCHANGED <<plan, engine, restored>>
    BY <1>4 DEF ReadPlan, Go
  <2>2. ProcTypes' /\ \A q \in Procs \ {p} : Same(q)
    BY <1>1, <1>2, <2>1 DEF ProcTypes, Places, Same
  <2>3. pc'[p] = "try" /\ candidates'[p] = Tail(candidates[p])
    BY <1>1, <2>1 DEF ProcTypes
  <2>4. /\ candidates[p] \in {<<front[p]>>, <<front[p], LegacyName>>, <<LegacyName>>}
        /\ MayRead(spec[p])
    BY <1>1, <1>3 DEF Searches
  <2>5. Tail(candidates[p]) \in {<<>>, <<LegacyName>>}
    BY <2>4, TailOfNames
  <2>6. OneProcInv(p)'
    <3>1. Searches(p)'
      BY <1>1, <1>2, <1>3, <2>3, <2>4, <2>5 DEF Searches
    <3>2. FreshLegacy(p)' /\ Builds(p)' /\ Writes(p)'
      BY <2>3 DEF FreshLegacy, Builds, Writes
    <3>3. Runs(p)'
      BY <1>1, <1>2, <1>3, <2>1, <2>3 DEF Runs
    <3> QED
      BY <3>1, <3>2, <3>3 DEF OneProcInv
  <2> QED
    BY <1>1, <1>2, <2>2, <2>6, ProcStep
<1>5. CASE found # Torn
  <2>1. /\ plan' = [plan EXCEPT ![p] = found] /\ engine' = [engine EXCEPT ![p] = found]
        /\ restored' = [restored EXCEPT ![p] = TRUE]
        /\ pc' = [pc EXCEPT ![p] = IF Migrates(p) THEN "write" ELSE "ready"]
        /\ UNCHANGED candidates
    BY <1>5 DEF ReadPlan, Go
  <2>2. /\ found \in PlanType /\ MayRead(spec[p]) /\ front[p] \in FingerprintNames
        /\ disturbed \/ found.version = VersionOf(front[p])
        /\ VersionOf(front[p]) \in seen[p]
    BY <1>1, <1>5, CandidateFits
  <2> HIDE DEF found
  <2>3. ProcTypes' /\ \A q \in Procs \ {p} : Same(q)
    BY <1>1, <1>2, <2>1, <2>2 DEF ProcTypes, Places, Same
  <2>4. /\ pc'[p] = (IF Migrates(p) THEN "write" ELSE "ready")
        /\ plan'[p] = found /\ engine'[p] = found /\ restored'[p] = TRUE
    BY <1>1, <2>1 DEF ProcTypes
  <2>5. Writes(p)'
    <3>1. pc'[p] = "write" => MayWrite(spec[p])
      BY <2>2, <2>4 DEF Migrates, MayRead, MayWrite
    <3>2. pc'[p] # "writing"
      BY <2>4
    <3> QED
      BY <1>2, <2>2, <2>4, <3>1, <3>2 DEF Writes
  <2>6. Searches(p)' /\ FreshLegacy(p)' /\ Builds(p)'
    BY <2>4 DEF Searches, FreshLegacy, Builds
  <2>7. Runs(p)'
    BY <1>1, <1>2, <1>3, <1>5, <2>2, <2>4 DEF Runs
  <2> QED
    BY <1>1, <1>2, <2>3, <2>5, <2>6, <2>7, ProcStep DEF OneProcInv
<1> QED
  BY <1>4, <1>5

LEMMA ParseHolds == ASSUME CacheInv, NEW p \in Procs, Parse(p) PROVE CacheInv'
<1>1. /\ ProcTypes /\ DiskTypes /\ OneProcInv(p) /\ pc[p] = "parse"
  BY DEF CacheInv, Parse, At, ProcInv, OneProcInv
<1>2. UNCHANGED <<model, clock, files, loads, disturbed>>
  BY DEF Parse, Disk
<1>3. CASE Ends(p)
  BY <1>1, <1>2, <1>3, EndsIdle, ProcStep
<1>4. CASE /\ plan' = [plan EXCEPT ![p] = Plan(model.version, spec[p].profile)]
           /\ Go(p, "build")
           /\ UNCHANGED <<spec, candidates, front, engine, seen, restored>>
  <2>1. /\ Plan(model.version, spec[p].profile) \in PlanType
        /\ Plan(model.version, spec[p].profile).version = clock
    <3>1. spec[p].profile \in ProfileNames
      <4>1. spec[p] \in SpecType \/ spec[p] = NoSpec
        BY <1>1 DEF ProcTypes
      <4> QED
        BY <4>1 DEF SpecType, NoSpec, ProfileNames
    <3>2. model.version = clock /\ clock \in Nat
      BY <1>1, CacheAssumption DEF DiskTypes, Versions
    <3> QED
      BY <3>1, <3>2 DEF Plan, PlanType
  <2>2. pc' = [pc EXCEPT ![p] = "build"]
    BY <1>4 DEF Go
  <2>3. ProcTypes' /\ \A q \in Procs \ {p} : Same(q)
    BY <1>1, <1>4, <2>1, <2>2 DEF ProcTypes, Places, Same
  <2>4. pc'[p] = "build" /\ plan'[p] = Plan(model.version, spec[p].profile)
    BY <1>1, <1>4, <2>2 DEF ProcTypes
  <2>5. clock \in seen[p] /\ clock # 0
    BY <1>1, CacheAssumption DEF OneProcInv, Runs, DiskTypes, Versions
  <2>6. Builds(p)'
    BY <1>2, <1>4, <2>1, <2>4, <2>5 DEF Builds
  <2>7. Searches(p)' /\ FreshLegacy(p)' /\ Writes(p)'
    BY <2>4 DEF Searches, FreshLegacy, Writes
  <2>8. Runs(p)'
    BY <1>1, <1>2, <1>4, <2>4 DEF Runs, OneProcInv
  <2> QED
    BY <1>1, <1>2, <2>3, <2>6, <2>7, <2>8, ProcStep DEF OneProcInv
<1> QED
  BY <1>3, <1>4 DEF Parse

LEMMA BuildHolds == ASSUME CacheInv, NEW p \in Procs, Build(p) PROVE CacheInv'
<1>1. /\ ProcTypes /\ DiskTypes /\ OneProcInv(p) /\ pc[p] = "build"
  BY DEF CacheInv, Build, At, ProcInv, OneProcInv
<1>2. UNCHANGED <<model, clock, files, loads, disturbed>>
  BY DEF Build, Disk
<1>3. CASE Ends(p)
  BY <1>1, <1>2, <1>3, EndsIdle, ProcStep
<1>4. CASE /\ engine' = [engine EXCEPT ![p] = plan[p]]
           /\ front' = [front EXCEPT ![p] = Fingerprinted(spec[p], model)]
           /\ Go(p, IF MayWrite(spec[p]) THEN "write" ELSE "ready")
           /\ UNCHANGED <<spec, candidates, plan, seen, restored>>
  <2>1. /\ Fingerprinted(spec[p], model) \in FingerprintNames
        /\ VersionOf(Fingerprinted(spec[p], model)) = clock
    BY <1>1, FingerprintOf
  <2>2. pc' = [pc EXCEPT ![p] = IF MayWrite(spec[p]) THEN "write" ELSE "ready"]
    BY <1>4 DEF Go
  <2>3. ProcTypes' /\ \A q \in Procs \ {p} : Same(q)
    BY <1>1, <1>4, <2>1, <2>2, NamesOfFiles DEF ProcTypes, Places, Same
  <2>4. /\ pc'[p] = (IF MayWrite(spec[p]) THEN "write" ELSE "ready")
        /\ engine'[p] = plan[p] /\ front'[p] = Fingerprinted(spec[p], model)
    BY <1>1, <1>4, <2>2 DEF ProcTypes
  <2>5. /\ plan[p].version \in seen[p] \ {0}
        /\ disturbed \/ plan[p].version = clock
    BY <1>1 DEF OneProcInv, Builds
  <2>6. Writes(p)'
    BY <1>2, <1>4, <2>1, <2>4, <2>5 DEF Writes
  <2>7. Searches(p)' /\ FreshLegacy(p)' /\ Builds(p)'
    BY <2>4 DEF Searches, FreshLegacy, Builds
  <2>8. plan[p] # Torn
    BY <2>5 DEF Torn
  <2>9. Runs(p)'
    BY <1>1, <1>2, <1>4, <2>4, <2>5, <2>8 DEF Runs, OneProcInv
  <2> QED
    BY <1>1, <1>2, <2>3, <2>6, <2>7, <2>9, ProcStep DEF OneProcInv
<1> QED
  BY <1>3, <1>4 DEF Build

(* Writing: the file is torn until the one process that writes it has ended,*)
(* and then holds what belongs under its name.                              *)
LEMMA WriteBeginsHolds == ASSUME CacheInv, NEW p \in Procs, WriteBegins(p) PROVE CacheInv'
<1> DEFINE n0 == front[p]
           new == [plan |-> Torn, mtime |-> clock, writers |-> files[n0].writers \cup {p},
                   mixed |-> files[n0].writers # {}, exists |-> TRUE]
<1>1. /\ ProcTypes /\ DiskTypes /\ ModelIsNewest /\ FilesInv /\ OneProcInv(p)
      /\ pc[p] = "write"
  BY DEF CacheInv, WriteBegins, At, ProcInv, OneProcInv
<1>2. /\ files' = [files EXCEPT ![n0] = new] /\ pc' = [pc EXCEPT ![p] = "writing"]
      /\ UNCHANGED <<model, clock, loads, disturbed, spec, candidates, front, plan, engine,
                     seen, restored>>
  BY DEF WriteBegins, Go
<1>3. /\ n0 \in FingerprintNames /\ n0 \in Names /\ n0 # LegacyName
      /\ Writes(p) /\ Runs(p)
  BY <1>1, NamesOfFiles DEF OneProcInv, Writes
<1>4. new \in FileType
  <2>1. clock \in Nat
    BY <1>1, CacheAssumption DEF DiskTypes, Versions
  <2>2. files[n0] \in FileType
    BY <1>1, <1>3 DEF DiskTypes
  <2>3. files[n0].writers \cup {p} \in SUBSET Procs
    BY <2>2 DEF FileType
  <2>4. (files[n0].writers # {}) \in BOOLEAN
    OBVIOUS
  <2> QED
    BY <2>1, <2>3, <2>4, PlanTypes DEF FileType
<1>5. /\ files' \in [Names -> FileType] /\ files'[n0] = new
      /\ \A n \in Names \ {n0} : files'[n] = files[n]
  <2> HIDE DEF new
  <2> QED
    BY <1>1, <1>2, <1>3, <1>4 DEF DiskTypes
<1>6. DiskTypes' /\ ModelIsNewest'
  BY <1>1, <1>2, <1>5 DEF DiskTypes, ModelIsNewest
<1>7. ProcTypes' /\ \A q \in Procs \ {p} : Same(q)
  BY <1>1, <1>2 DEF ProcTypes, Places, Same
<1>8. files'[LegacyName] = files[LegacyName]
  BY <1>3, <1>5, NamesOfFiles
<1>9. OneProcInv(p)'
  <2>1. pc'[p] = "writing"
    BY <1>1, <1>2 DEF ProcTypes
  <2>2. Searches(p)' /\ FreshLegacy(p)' /\ Builds(p)'
    BY <2>1 DEF Searches, FreshLegacy, Builds
  <2>3. Writes(p)'
    BY <1>1, <1>2, <1>3, <2>1 DEF Writes
  <2>4. Runs(p)'
    BY <1>1, <1>2, <1>3, <2>1 DEF Runs
  <2> QED
    BY <2>2, <2>3, <2>4 DEF OneProcInv
<1>10. ProcInv'
  <2>1. \A q \in Procs \ {p} : OneProcInv(q)'
    BY <1>2, <1>7, <1>8, OthersKeep
  <2> QED
    BY <1>9, <2>1 DEF ProcInv, OneProcInv
<1>11. FilesInv'
  <2>1. ASSUME NEW n \in FingerprintNames
        PROVE  \/ disturbed' \/ files'[n].plan = Torn
               \/ files'[n].plan.version = VersionOf(n)
    <3>1. CASE n = n0
      BY <1>5, <3>1
    <3>2. CASE n # n0
      BY <1>1, <1>2, <1>5, <3>2, NamesOfFiles DEF FilesInv
    <3> QED
      BY <3>1, <3>2
  <2>2. ASSUME NEW n \in Names, NEW q \in files'[n].writers
        PROVE  pc'[q] = "writing" /\ front'[q] = n
    <3>1. CASE q = p
      <4>1. n = n0
        <5> SUFFICES ASSUME n # n0 PROVE FALSE
          OBVIOUS
        <5>1. p \in files[n].writers
          BY <1>5, <2>2, <3>1
        <5> QED
          BY <1>1, <5>1 DEF FilesInv
      <4> QED
        BY <1>1, <1>2, <3>1, <4>1 DEF ProcTypes
    <3>2. CASE q # p
      <4>1. q \in files[n].writers
        BY <1>5, <2>2, <3>2
      <4>2. pc[q] = "writing" /\ front[q] = n
        BY <1>1, <4>1 DEF FilesInv
      <4>3. q \in Procs
        BY <1>1, <4>1 DEF DiskTypes, FileType
      <4> QED
        BY <1>7, <3>2, <4>2, <4>3 DEF Same
    <3> QED
      BY <3>1, <3>2
  <2> HIDE DEF n0, new
  <2>3. LET l == files'[LegacyName] IN
        l.mtime \in 0 .. 1 /\ (l.plan = Torn \/ l.mtime = 0 \/ l.plan.version = 1)
    BY <1>1, <1>8 DEF FilesInv
  <2> QED
    BY <2>1, <2>2, <2>3 DEF FilesInv
<1> QED
  BY <1>6, <1>7, <1>10, <1>11 DEF CacheInv

LEMMA WriteEndsHolds == ASSUME CacheInv, NEW p \in Procs, WriteEnds(p) PROVE CacheInv'
<1> DEFINE n0 == front[p]  file == files[n0]
<1>1. /\ ProcTypes /\ DiskTypes /\ ModelIsNewest /\ FilesInv /\ OneProcInv(p)
      /\ pc[p] = "writing"
  BY DEF CacheInv, WriteEnds, At, ProcInv, OneProcInv
<1>2. /\ pc' = [pc EXCEPT ![p] = "ready"]
      /\ UNCHANGED <<model, clock, loads, disturbed, spec, candidates, front, plan, engine,
                     seen, restored>>
  BY DEF WriteEnds, Go
<1>3. /\ n0 \in FingerprintNames /\ n0 \in Names /\ n0 # LegacyName
      /\ Writes(p) /\ Runs(p) /\ plan[p] \in PlanType
  BY <1>1, NamesOfFiles DEF OneProcInv, Writes, ProcTypes
<1>4. PICK found \in {plan[p]} \cup (IF file.mixed THEN {Torn} ELSE {}) :
        files' = [files EXCEPT ![n0] =
                    [file EXCEPT !.plan = IF file.writers = {p} THEN found ELSE Torn,
                                 !.mtime = clock, !.writers = file.writers \ {p}]]
  BY DEF WriteEnds
<1>5. PICK written \in {plan[p], Torn} :
        files' = [files EXCEPT ![n0] =
                    [file EXCEPT !.plan = written, !.mtime = clock,
                                 !.writers = file.writers \ {p}]]
  <2>1. found \in {plan[p], Torn}
    OBVIOUS
  <2>2. (IF file.writers = {p} THEN found ELSE Torn) \in {plan[p], Torn}
    BY <2>1
  <2> HIDE DEF file, n0
  <2> QED
    BY <1>4, <2>2
<1> DEFINE new == [file EXCEPT !.plan = written, !.mtime = clock,
                               !.writers = file.writers \ {p}]
<1>6. file \in FileType
  BY <1>1, <1>3 DEF DiskTypes
<1>7. new \in FileType /\ new.plan = written /\ new.writers = file.writers \ {p}
  <2> HIDE DEF file
  <2>1. clock \in Nat
    BY <1>1, CacheAssumption DEF DiskTypes, Versions
  <2>2. written \in PlanType
    BY <1>3, PlanTypes
  <2>3. file.writers \ {p} \in SUBSET Procs
    BY <1>6 DEF FileType
  <2> QED
    BY <1>6, <2>1, <2>2, <2>3 DEF FileType
<1>8. /\ files' \in [Names -> FileType] /\ files'[n0] = new
      /\ \A n \in Names \ {n0} : files'[n] = files[n]
  <2>1. files' = [files EXCEPT ![n0] = new]
    BY <1>5
  <2> HIDE DEF new
  <2> QED
    BY <1>1, <1>3, <1>7, <2>1 DEF DiskTypes
<1> HIDE DEF new
<1>9. DiskTypes' /\ ModelIsNewest'
  BY <1>1, <1>2, <1>8 DEF DiskTypes, ModelIsNewest
<1>10. ProcTypes' /\ \A q \in Procs \ {p} : Same(q)
  BY <1>1, <1>2 DEF ProcTypes, Places, Same
<1>11. files'[LegacyName] = files[LegacyName]
  BY <1>3, <1>8, NamesOfFiles
<1>12. OneProcInv(p)'
  <2>1. pc'[p] = "ready"
    BY <1>1, <1>2 DEF ProcTypes
  <2>2. Searches(p)' /\ FreshLegacy(p)' /\ Builds(p)' /\ Writes(p)'
    BY <2>1 DEF Searches, FreshLegacy, Builds, Writes
  <2>3. Runs(p)'
    BY <1>1, <1>2, <1>3, <2>1 DEF Runs
  <2> QED
    BY <2>2, <2>3 DEF OneProcInv
<1>13. ProcInv'
  <2>1. \A q \in Procs \ {p} : OneProcInv(q)'
    BY <1>2, <1>10, <1>11, OthersKeep
  <2> QED
    BY <1>12, <2>1 DEF ProcInv, OneProcInv
<1>14. FilesInv'
  <2>1. ASSUME NEW n \in FingerprintNames
        PROVE  \/ disturbed' \/ files'[n].plan = Torn
               \/ files'[n].plan.version = VersionOf(n)
    <3>1. CASE n = n0
      BY <1>1, <1>2, <1>3, <1>7, <1>8, <3>1 DEF Writes
    <3>2. CASE n # n0
      BY <1>1, <1>2, <1>8, <3>2, NamesOfFiles DEF FilesInv
    <3> QED
      BY <3>1, <3>2
  <2>2. ASSUME NEW n \in Names, NEW q \in files'[n].writers
        PROVE  pc'[q] = "writing" /\ front'[q] = n
    <3>1. q \in files[n].writers
      BY <1>7, <1>8, <2>2
    <3>2. pc[q] = "writing" /\ front[q] = n
      BY <1>1, <3>1 DEF FilesInv
    <3>3. q \in Procs
      BY <1>1, <3>1 DEF DiskTypes, FileType
    <3>4. q # p
      BY <1>7, <1>8, <2>2, <3>2
    <3> QED
      BY <1>10, <3>2, <3>3, <3>4 DEF Same
  <2>3. LET l == files'[LegacyName] IN
        l.mtime \in 0 .. 1 /\ (l.plan = Torn \/ l.mtime = 0 \/ l.plan.version = 1)
    BY <1>1, <1>11 DEF FilesInv
  <2> HIDE DEF n0, file
  <2> QED
    BY <2>1, <2>2, <2>3 DEF FilesInv
<1> QED
  BY <1>9, <1>10, <1>13, <1>14 DEF CacheInv

LEMMA StopHolds == ASSUME CacheInv, NEW p \in Procs, Stop(p) PROVE CacheInv'
<1>1. DiskTypes /\ ModelIsNewest /\ FilesInv
  BY DEF CacheInv
<1>2. /\ files' = [n \in Names |-> [files[n] EXCEPT !.writers = files[n].writers \ {p}]]
      /\ UNCHANGED <<model, clock, loads, disturbed>> /\ Ends(p)
  BY DEF Stop
<1>3. ProcTypes' /\ OneProcInv(p)' /\ \A q \in Procs \ {p} : Same(q)
  BY <1>2, EndsIdle
<1>4. ASSUME NEW n \in Names
      PROVE  /\ files'[n] \in FileType /\ files'[n].plan = files[n].plan
             /\ files'[n].mtime = files[n].mtime
             /\ files'[n].writers = files[n].writers \ {p}
  <2>1. files[n] \in FileType
    BY <1>1 DEF DiskTypes
  <2>2. files'[n] = [files[n] EXCEPT !.writers = files[n].writers \ {p}]
    BY <1>2
  <2>3. files[n].writers \ {p} \in SUBSET Procs
    BY <2>1 DEF FileType
  <2> QED
    BY <2>1, <2>2, <2>3 DEF FileType
<1>5. files' \in [Names -> FileType]
  BY <1>2, <1>4
<1>6. DiskTypes' /\ ModelIsNewest'
  BY <1>1, <1>2, <1>5 DEF DiskTypes, ModelIsNewest
<1>7. ProcInv'
  <2>1. files'[LegacyName].mtime = files[LegacyName].mtime
    BY <1>4, NamesOfFiles
  <2>2. \A q \in Procs \ {p} : OneProcInv(q)'
    BY <1>2, <1>3, <2>1, OthersKeep
  <2> QED
    BY <1>3, <2>2 DEF ProcInv, OneProcInv
<1>8. FilesInv'
  <2>1. ASSUME NEW n \in FingerprintNames
        PROVE  \/ disturbed' \/ files'[n].plan = Torn
               \/ files'[n].plan.version = VersionOf(n)
    BY <1>1, <1>2, <1>4, NamesOfFiles DEF FilesInv
  <2>2. LET l == files'[LegacyName] IN
        l.mtime \in 0 .. 1 /\ (l.plan = Torn \/ l.mtime = 0 \/ l.plan.version = 1)
    BY <1>1, <1>4, NamesOfFiles DEF FilesInv
  <2>3. ASSUME NEW n \in Names, NEW q \in files'[n].writers
        PROVE  pc'[q] = "writing" /\ front'[q] = n
    <3>1. q \in files[n].writers /\ q # p
      BY <1>4, <2>3
    <3>2. pc[q] = "writing" /\ front[q] = n
      BY <1>1, <3>1 DEF FilesInv
    <3>3. q \in Procs
      BY <1>1, <3>1 DEF DiskTypes, FileType
    <3> QED
      BY <1>3, <3>1, <3>2, <3>3 DEF Same
  <2> QED
    BY <2>1, <2>2, <2>3 DEF FilesInv
<1> QED
  BY <1>3, <1>6, <1>7, <1>8 DEF CacheInv

(* The model is replaced: who is loading has seen the new one, too; if      *)
(* someone is building, or the time goes back, nothing more is promised.    *)
LEMMA ReplaceHolds == ASSUME CacheInv, ReplaceModel PROVE CacheInv'
<1>1. DiskTypes /\ ProcTypes /\ ModelIsNewest /\ FilesInv
      /\ \A p \in Procs : OneProcInv(p)
  BY DEF CacheInv, ProcInv, OneProcInv
<1>2. PICK t \in {0, clock + 1} :
        /\ model' = [version |-> clock + 1, mtime |-> t]
        /\ disturbed' = (disturbed \/ t = 0 \/ \E p \in Procs : At(p, "build"))
  BY DEF ReplaceModel
<1>3. /\ clock <= MaxReplaced /\ clock' = clock + 1
      /\ seen' = [p \in Procs |-> IF At(p, "idle") THEN seen[p] ELSE seen[p] \cup {clock + 1}]
      /\ UNCHANGED <<files, loads, spec, pc, candidates, front, plan, engine, restored>>
  BY DEF ReplaceModel
<1>4. clock \in Nat /\ clock' \in Versions /\ 0 \in Times /\ clock' \in Times
  BY <1>1, <1>3, CacheAssumption DEF DiskTypes, Versions, Times
<1>5. /\ disturbed' \in BOOLEAN
      /\ disturbed' \/ ~disturbed
      /\ \A p \in Procs : pc[p] = "build" => disturbed'
      /\ t # 0 \/ disturbed'
  BY <1>1, <1>2 DEF DiskTypes, At
<1>6. DiskTypes' /\ ModelIsNewest'
  <2>1. t \in Times /\ model'.version = clock' /\ model'.mtime = t
    BY <1>2, <1>3, <1>4
  <2>2. files' \in [Names -> FileType]
    BY <1>1, <1>3 DEF DiskTypes
  <2>3. DiskTypes'
    BY <1>2, <1>3, <1>4, <1>5, <2>1, <2>2 DEF DiskTypes
  <2> QED
    BY <1>2, <1>3, <1>5, <2>1, <2>3 DEF ModelIsNewest
<1>7. ProcTypes'
  <2>1. seen' \in [Procs -> SUBSET Versions]
    BY <1>1, <1>3, <1>4 DEF ProcTypes
  <2> QED
    BY <1>1, <1>3, <2>1 DEF ProcTypes
<1>8. ASSUME NEW p \in Procs PROVE OneProcInv(p)'
  <2>1. /\ seen[p] \subseteq seen'[p]
        /\ pc[p] # "idle" => clock' \in seen'[p]
        /\ seen[p] \subseteq Versions
    BY <1>1, <1>3 DEF At, ProcTypes
  <2>2. OneProcInv(p)
    BY <1>1
  <2>3. Searches(p)'
    <3> SUFFICES ASSUME pc[p] \in {"try", "read"} PROVE Searches(p)'
      BY <1>3 DEF Searches
    <3>1. Searches(p)
      BY <2>2 DEF OneProcInv
    <3>2. VersionOf(front[p]) \in seen[p] /\ VersionOf(front[p]) <= clock
      BY <3>1 DEF Searches
    <3>3. VersionOf(front[p]) \in Nat
      BY <2>1, <3>2, CacheAssumption DEF Versions
    <3>4. VersionOf(front[p]) \in seen'[p] /\ VersionOf(front[p]) <= clock'
      BY <1>3, <1>4, <2>1, <3>2, <3>3
    <3>5. /\ candidates[p] \in {<<>>, <<front[p]>>, <<front[p], LegacyName>>, <<LegacyName>>}
          /\ candidates[p] # <<>> => MayRead(spec[p])
          /\ front[p] \in FingerprintNames
          /\ pc[p] = "read" => candidates[p] # <<>>
      BY <3>1 DEF Searches
    <3> QED
      BY <1>3, <3>4, <3>5 DEF Searches
  <2>4. FreshLegacy(p)'
    <3>1. CASE disturbed'
      BY <3>1 DEF FreshLegacy
    <3>2. CASE ~disturbed
      BY <1>3, <2>2, <3>2 DEF OneProcInv, FreshLegacy
    <3> QED
      BY <1>5, <3>1, <3>2, Zenon
  <2>5. Builds(p)'
    BY <1>3, <1>5, <2>1, <2>2 DEF OneProcInv, Builds
  <2>6. Writes(p)'
    <3>1. pc[p] \in {"write", "writing"} =>
            /\ MayWrite(spec'[p]) /\ front'[p] \in FingerprintNames
            /\ disturbed \/ plan'[p].version = VersionOf(front'[p])
      BY <1>3, <2>2 DEF OneProcInv, Writes
    <3>2. CASE disturbed'
      BY <1>3, <3>1, <3>2 DEF Writes
    <3>3. CASE ~disturbed
      BY <1>3, <3>1, <3>3 DEF Writes
    <3> QED
      BY <1>5, <3>2, <3>3, Zenon
  <2>7. Runs(p)'
    <3>1. /\ pc'[p] \in {"write", "writing", "ready"} =>
               engine'[p] # Torn /\ (disturbed \/ engine'[p].version \in seen[p])
          /\ restored'[p] => MayRead(spec'[p]) /\ pc'[p] # "idle"
      BY <1>3, <2>2 DEF OneProcInv, Runs
    <3>2. pc'[p] # "idle" => clock' \in seen'[p]
      BY <1>3, <2>1
    <3>3. CASE disturbed'
      BY <3>1, <3>2, <3>3 DEF Runs
    <3>4. CASE ~disturbed
      BY <2>1, <3>1, <3>2, <3>4 DEF Runs
    <3> QED
      BY <1>5, <3>3, <3>4, Zenon
  <2> QED
    BY <2>3, <2>4, <2>5, <2>6, <2>7 DEF OneProcInv
<1>9. FilesInv'
  <2>1. ASSUME NEW n \in FingerprintNames
        PROVE  \/ disturbed' \/ files'[n].plan = Torn
               \/ files'[n].plan.version = VersionOf(n)
    <3>1. CASE disturbed'
      BY <3>1
    <3>2. CASE ~disturbed
      BY <1>1, <1>3, <3>2 DEF FilesInv
    <3> QED
      BY <1>5, <3>1, <3>2, Zenon
  <2> QED
    BY <1>1, <1>3, <2>1 DEF FilesInv
<1> QED
  BY <1>6, <1>7, <1>8, <1>9 DEF CacheInv, ProcInv, OneProcInv

LEMMA CacheSame == ASSUME CacheInv, UNCHANGED vars PROVE CacheInv'
<1>1. UNCHANGED <<model, clock, files, loads, disturbed, spec, pc, candidates, front, plan,
                  engine, seen, restored>>
  BY DEF vars, procVars
<1>2. DiskTypes' /\ ProcTypes' /\ ModelIsNewest'
  BY <1>1 DEF CacheInv, DiskTypes, ProcTypes, ModelIsNewest
<1>3. \A p \in Procs : Same(p)
  BY <1>1 DEF Same
<1>4. ProcInv'
  BY <1>1, <1>3, OthersKeep DEF ProcInv, OneProcInv
<1>5. FilesInv'
  BY <1>1 DEF CacheInv, FilesInv
<1> QED
  BY <1>2, <1>4, <1>5 DEF CacheInv

LEMMA CacheStep == CacheInv /\ [Next]_vars => CacheInv'
<1> SUFFICES ASSUME CacheInv, [Next]_vars PROVE CacheInv'
  OBVIOUS
<1>1. CASE ReplaceModel
  BY <1>1, ReplaceHolds
<1>2. ASSUME NEW p \in Procs, Step(p) PROVE CacheInv'
  BY <1>2, LoadHolds, TryNextHolds, ReadPlanHolds, ParseHolds, BuildHolds, WriteBeginsHolds,
     WriteEndsHolds DEF Step
<1>3. ASSUME NEW p \in Procs, Stop(p) PROVE CacheInv'
  BY <1>3, StopHolds
<1>4. CASE UNCHANGED vars
  BY <1>4, CacheSame
<1> QED
  BY <1>1, <1>2, <1>3, <1>4 DEF Next

LEMMA CacheSays == CacheInv => NoStaleEngine /\ PolicyKept
<1> SUFFICES ASSUME CacheInv PROVE NoStaleEngine /\ PolicyKept
  OBVIOUS
<1>1. \A p \in Procs : Writes(p) /\ Runs(p)
  BY DEF CacheInv, ProcInv
<1>2. NoStaleEngine
  BY <1>1 DEF NoStaleEngine, Runs, At
<1>3. ASSUME NEW n \in Names, NEW p \in files[n].writers PROVE MayWrite(spec[p])
  <2>1. p \in Procs
    BY <1>3 DEF CacheInv, DiskTypes, FileType
  <2>2. pc[p] = "writing"
    BY <1>3 DEF CacheInv, FilesInv
  <2> QED
    BY <1>1, <2>1, <2>2 DEF Writes
<1>4. PolicyKept
  BY <1>1, <1>3 DEF PolicyKept, Runs
<1> QED
  BY <1>2, <1>4

LEMMA CacheAlways == Spec => []CacheInv
<1> QED
  BY CacheInitHolds, CacheStep, PTL DEF Spec

(* trt_session.cpp: a session runs on a whole engine, built from a version  *)
(* the model had during its load, whatever the number of processes that     *)
(* read and write the same files without a lock and wherever they are       *)
(* killed, unless the model is replaced during a build or its time is set   *)
(* back.                                                                    *)
THEOREM EngineIsNeverStale == Spec => []NoStaleEngine
  BY CacheAlways, CacheSays, PTL

(* trt_session.cpp: a process whose policy forbids it neither runs on an    *)
(* engine from a file nor writes one.                                       *)
THEOREM PolicyAlwaysKept == Spec => []PolicyKept
  BY CacheAlways, CacheSays, PTL

-----------------------------------------------------------------------------
(* The calls.  A call owns its buffers; between its lock and its end it is  *)
(* active, and what is in the stream is then of this call.                  *)
Active == {"entered", "input_bound", "bound", "enqueued", "collected", "failing"}
Stages == {"new", "waiting", "returned"} \cup Active
Addresses == Buffers \cup {None}
BuffersOf(c) == {In(c), Out(c), Vector(c), External(c)}
StreamOp == [op : {"copy", "kernel"}, from : Calls \cup Buffers, to : Buffers]

FlagTypes == prefer \in BOOLEAN /\ wrapper \in BOOLEAN
StageTypes ==
  /\ stage \in [Calls -> Stages] /\ async \in [Calls -> BOOLEAN]
  /\ kind \in [Calls -> Kinds] /\ result \in [Calls -> Calls \cup {None}]
DeviceTypes ==
  /\ lock \in Calls \cup {None} /\ bound \in [in : Addresses, out : Addresses]
  /\ memory \in [Buffers -> Calls \cup {None}] /\ live \subseteq Buffers
StreamTypes == stream \in Seq(StreamOp)

CallTypes == FlagTypes /\ StageTypes /\ DeviceTypes /\ StreamTypes

(* The mutex: who is between its lock and its end holds it.                 *)
Exclusive == \A c \in Calls : stage[c] \in Active <=> lock = c

(* An operation of a call moves its input to its device buffer, the input   *)
(* through the network, or its output to the host.                          *)
OpOf(o, c) ==
  \/ o.from = c /\ o.to = In(c)
  \/ o.from \in {In(c), External(c)} /\ o.to = Out(c)
  \/ o.from = Out(c) /\ o.to = Vector(c)
OpsOf(c) == \A i \in 1 .. Len(stream) : OpOf(stream[i], c)

(* A buffer shows the input of the call, or will when the stream has run.   *)
Shows(b, c) == memory[b] = c \/ \E i \in 1 .. Len(stream) : stream[i].to = b

(* When an operation comes to run, what it reads is there.                  *)
OpsRead(c) ==
  \A i \in 1 .. Len(stream) :
    \/ stream[i].from = c
    \/ memory[stream[i].from] = c
    \/ \E j \in 1 .. i - 1 : stream[j].to = stream[i].from

OpsLive ==
  \A i \in 1 .. Len(stream) : stream[i].to \in live /\ stream[i].from \in live \cup Calls

StreamInv ==
  /\ lock = None => stream = <<>>
  /\ OpsLive
  /\ \A c \in Calls : lock = c => OpsOf(c) /\ OpsRead(c)

(* How far a call has come.                                                 *)
Bound(c) ==
  /\ stage[c] \in Active => kind[c] # "none"
  /\ stage[c] = "entered" => stream = <<>>
  /\ stage[c] \in {"input_bound", "bound", "enqueued", "collected"} =>
       /\ bound.in \in {In(c), External(c)} /\ bound.in \in live /\ Shows(bound.in, c)
  /\ stage[c] \in {"bound", "enqueued", "collected"} => bound.out = Out(c) /\ Out(c) \in live
  /\ stage[c] \in {"enqueued", "collected"} => Shows(Out(c), c)
  /\ stage[c] = "collected" /\ ~prefer => Vector(c) \in live /\ Shows(Vector(c), c)

(* The memory of the caller holds its input, a call outlives the session    *)
(* only by run_async, and outputs on the device stay what they are.         *)
Holds(c) ==
  /\ kind[c] = "cuda" /\ stage[c] \notin {"new", "returned"} =>
       External(c) \in live /\ memory[External(c)] = c
  /\ ~wrapper /\ stage[c] \notin {"new", "returned"} => async[c]
  /\ result[c] # None =>
       /\ stage[c] = "returned" /\ result[c] = c
       /\ prefer => Out(c) \in live /\ memory[Out(c)] = c

SessionInv ==
  /\ CallTypes /\ Exclusive /\ StreamInv
  /\ \A c \in Calls : Bound(c) /\ Holds(c)

LEMMA BufferNames ==
  /\ \A c \in Calls : BuffersOf(c) \subseteq Buffers /\ c # None
  /\ \A c \in Calls : In(c) # Out(c) /\ In(c) # Vector(c) /\ Out(c) # Vector(c)
                      /\ External(c) \notin {In(c), Out(c), Vector(c)}
  /\ \A c, d \in Calls : c # d => BuffersOf(c) \cap BuffersOf(d) = {}
  /\ Buffers \cap Calls = {}
<1>1. \A c \in Calls : BuffersOf(c) \subseteq Buffers
  BY DEF BuffersOf, Buffers, In, Out, Vector, External
<1>2. \A c \in Calls : In(c) # Out(c) /\ In(c) # Vector(c) /\ Out(c) # Vector(c)
                       /\ External(c) \notin {In(c), Out(c), Vector(c)}
  BY DEF In, Out, Vector, External
<1>3. \A c, d \in Calls : c # d => BuffersOf(c) \cap BuffersOf(d) = {}
  BY DEF BuffersOf, In, Out, Vector, External
<1>4. \A c \in Calls : c # None
  BY SessionAssumption
<1>5. Buffers \cap Calls = {}
  BY SessionAssumption DEF Buffers
<1> QED
  BY <1>1, <1>2, <1>3, <1>4, <1>5

(* What the operations of a call touch is its own.                          *)
LEMMA OpTouches ==
  ASSUME NEW c \in Calls, NEW o, OpOf(o, c)
  PROVE  o.to \in BuffersOf(c) \ {External(c)} /\ (o.from = c \/ o.from \in BuffersOf(c))
  BY BufferNames DEF OpOf, BuffersOf

(* A call that is left alone keeps what it has.                             *)
LEMMA CallKeeps ==
  ASSUME SessionInv, NEW d \in Calls,
         UNCHANGED <<prefer, stage[d], kind[d], async[d], result[d]>>,
         wrapper' = wrapper \/ (stage[d] \notin {"new", "returned"} => async[d]),
         \A b \in BuffersOf(d) : memory'[b] = memory[b] /\ (b \in live => b \in live'),
         stage[d] \in Active => UNCHANGED <<stream, bound>>
  PROVE  Bound(d)' /\ Holds(d)'
<1>1. Bound(d) /\ Holds(d)
  BY DEF SessionInv
<1>2. Holds(d)'
  BY <1>1 DEF Holds, BuffersOf
<1>3. CASE stage[d] \notin Active
  BY <1>2, <1>3 DEF Bound, Active
<1>4. CASE stage[d] \in Active
  <2>1. \A b \in BuffersOf(d) : Shows(b, d) => Shows(b, d)'
    BY <1>4 DEF Shows
  <2>2. Bound(d)'
    BY <1>1, <1>4, <2>1 DEF Bound, BuffersOf
  <2> QED
    BY <1>2, <2>2
<1> QED
  BY <1>2, <1>3, <1>4

(* The stream is left alone, and so is the memory of the call it is of.     *)
LEMMA StreamKeeps ==
  ASSUME SessionInv, UNCHANGED <<stream, lock>>,
         \A d \in Calls : lock = d =>
           \A b \in BuffersOf(d) : memory'[b] = memory[b] /\ (b \in live => b \in live')
  PROVE  StreamInv'
<1>1. StreamInv /\ lock \in Calls \cup {None}
  BY DEF SessionInv, CallTypes, DeviceTypes
<1>2. CASE lock = None
  <2>1. stream' = <<>> /\ Len(stream') = 0
    BY <1>1, <1>2 DEF StreamInv
  <2> QED
    BY <1>2, <2>1, BufferNames DEF StreamInv, OpsLive
<1>3. CASE lock \in Calls
  <2> DEFINE d == lock
  <2>1. OpsOf(d) /\ OpsRead(d) /\ OpsLive
    BY <1>1, <1>3 DEF StreamInv
  <2>2. \A i \in 1 .. Len(stream) : /\ stream[i].to \in BuffersOf(d)
                                    /\ stream[i].from = d \/ stream[i].from \in BuffersOf(d)
    BY <1>3, <2>1, OpTouches DEF OpsOf
  <2>3. OpsLive'
    BY <1>3, <2>1, <2>2 DEF OpsLive
  <2>4. OpsOf(d)'
    BY <2>1 DEF OpsOf
  <2>5. \A i \in 1 .. Len(stream') :
          \/ stream'[i].from = d
          \/ memory'[stream'[i].from] = d
          \/ \E j \in 1 .. i - 1 : stream'[j].to = stream'[i].from
    BY <1>3, <2>1, <2>2 DEF OpsRead
  <2> QED
    BY <1>3, <2>3, <2>4, <2>5, BufferNames DEF StreamInv, OpsRead
<1> QED
  BY <1>1, <1>2, <1>3

LEMMA StreamEmpty == ASSUME stream' = <<>> PROVE StreamInv'
<1>1. Len(stream') = 0
  OBVIOUS
<1> QED
  BY <1>1 DEF StreamInv, OpsLive, OpsOf, OpsRead

(* A call puts an operation into the stream that reads what is there by then.*)
LEMMA Appended ==
  ASSUME SessionInv, NEW c \in Calls, lock = c, NEW e \in StreamOp,
         stream' = Append(stream, e), UNCHANGED <<lock, memory>>, live \subseteq live',
         OpOf(e, c), e.to \in live', e.from \in live' \cup Calls,
         e.from = c \/ Shows(e.from, c)
  PROVE  /\ StreamInv' /\ StreamTypes'
         /\ \A b \in Buffers : Shows(b, c) => Shows(b, c)'
         /\ Shows(e.to, c)'
<1>1. StreamInv /\ stream \in Seq(StreamOp)
  BY DEF SessionInv, CallTypes, StreamTypes
<1>2. /\ Len(stream') = Len(stream) + 1 /\ Len(stream) \in Nat
      /\ stream' \in Seq(StreamOp) /\ stream'[Len(stream) + 1] = e
      /\ \A i \in 1 .. Len(stream) : stream'[i] = stream[i]
  BY <1>1
<1>3. /\ \A i \in 1 .. Len(stream') : i \in 1 .. Len(stream) \/ i = Len(stream) + 1
      /\ \A i \in 1 .. Len(stream) : i \in 1 .. Len(stream')
      /\ Len(stream) + 1 \in 1 .. Len(stream')
      /\ \A i \in 1 .. Len(stream) : i \in 1 .. (Len(stream) + 1) - 1
  BY <1>2
<1>4. OpsOf(c) /\ OpsRead(c) /\ OpsLive
  BY <1>1 DEF StreamInv
<1>5. OpsLive'
  BY <1>2, <1>3, <1>4 DEF OpsLive
<1>6. OpsOf(c)'
  BY <1>2, <1>3, <1>4 DEF OpsOf
<1>7. OpsRead(c)'
  <2> SUFFICES ASSUME NEW i \in 1 .. Len(stream')
               PROVE  \/ stream'[i].from = c
                      \/ memory'[stream'[i].from] = c
                      \/ \E j \in 1 .. i - 1 : stream'[j].to = stream'[i].from
    BY DEF OpsRead
  <2>1. CASE i \in 1 .. Len(stream)
    <3>1. \A j \in 1 .. i - 1 : stream'[j] = stream[j]
      BY <1>2, <2>1
    <3> QED
      BY <1>2, <1>4, <2>1, <3>1 DEF OpsRead
  <2>2. CASE i = Len(stream) + 1
    BY <1>2, <1>3, <2>2 DEF Shows
  <2> QED
    BY <1>3, <2>1, <2>2
<1>8. StreamInv'
  BY <1>5, <1>6, <1>7, BufferNames DEF StreamInv
<1>9. \A b \in Buffers : Shows(b, c) => Shows(b, c)'
  BY <1>2, <1>3 DEF Shows
<1>10. Shows(e.to, c)'
  BY <1>2, <1>3 DEF Shows
<1> QED
  BY <1>2, <1>8, <1>9, <1>10 DEF StreamTypes

(* Between the lock and the end of a call no other call is active.          *)
LEMMA Alone ==
  ASSUME SessionInv, NEW c \in Calls, stage[c] \in Active
  PROVE  lock = c /\ \A d \in Calls \ {c} : stage[d] \notin Active
  BY DEF SessionInv, Exclusive

LEMMA SessionInitHolds == SessionInit => SessionInv
<1> SUFFICES ASSUME SessionInit PROVE SessionInv
  OBVIOUS
<1>1. FlagTypes
  BY DEF SessionInit, FlagTypes
<1>2. StageTypes
  BY DEF SessionInit, StageTypes, Stages, Kinds
<1>3. DeviceTypes
  <2>1. bound \in [in : Addresses, out : Addresses]
    BY DEF SessionInit, Addresses
  <2> QED
    BY <2>1 DEF SessionInit, DeviceTypes
<1>4. stream = <<>> /\ Len(stream) = 0
  BY DEF SessionInit
<1>5. StreamTypes /\ StreamInv
  BY <1>4 DEF StreamTypes, StreamInv, OpsLive, OpsOf, OpsRead
<1>6. Exclusive
  BY SessionAssumption DEF SessionInit, Exclusive, Active
<1>7. \A c \in Calls : Bound(c) /\ Holds(c)
  <2> SUFFICES ASSUME NEW c \in Calls PROVE Bound(c) /\ Holds(c)
    OBVIOUS
  <2>1. stage[c] = "new" /\ kind[c] = "none" /\ result[c] = None
    BY DEF SessionInit
  <2> QED
    BY <2>1 DEF Bound, Holds, Active
<1> QED
  BY <1>1, <1>2, <1>3, <1>5, <1>6, <1>7 DEF SessionInv, CallTypes

LEMMA CallHolds == ASSUME SessionInv, NEW c \in Calls, Call(c) PROVE SessionInv'
<1>1. /\ FlagTypes /\ StageTypes /\ DeviceTypes /\ StreamTypes /\ Exclusive
      /\ Bound(c) /\ Holds(c)
  BY DEF SessionInv, CallTypes
<1>2. /\ wrapper /\ stage[c] = "new" /\ stage' = [stage EXCEPT ![c] = "waiting"]
      /\ UNCHANGED <<prefer, wrapper, lock, bound, stream, result>>
  BY DEF Call, Stage
<1>3. PICK a \in BOOLEAN : async' = [async EXCEPT ![c] = a]
  BY DEF Call
<1>4. PICK k \in Kinds :
        /\ kind' = [kind EXCEPT ![c] = k]
        /\ IF k = "cuda"
           THEN live' = live \cup {External(c)} /\ memory' = [memory EXCEPT ![External(c)] = c]
           ELSE UNCHANGED <<live, memory>>
  BY DEF Call
<1>5. External(c) \in Buffers
  BY BufferNames DEF BuffersOf
<1>6. /\ live \subseteq live' /\ live' \subseteq Buffers
      /\ memory' \in [Buffers -> Calls \cup {None}]
      /\ \A b \in Buffers \ {External(c)} : memory'[b] = memory[b]
      /\ k = "cuda" => External(c) \in live' /\ memory'[External(c)] = c
  BY <1>1, <1>4, <1>5 DEF DeviceTypes
<1>7. CallTypes'
  <2>1. FlagTypes' /\ StreamTypes'
    BY <1>1, <1>2 DEF FlagTypes, StreamTypes
  <2>2. StageTypes'
    BY <1>1, <1>2, <1>3, <1>4 DEF StageTypes, Stages
  <2>3. DeviceTypes'
    BY <1>1, <1>2, <1>6 DEF DeviceTypes
  <2> QED
    BY <2>1, <2>2, <2>3 DEF CallTypes
<1>8. /\ stage'[c] = "waiting" /\ kind'[c] = k /\ result'[c] = None
      /\ \A d \in Calls \ {c} : UNCHANGED <<stage[d], kind[d], async[d]>>
  BY <1>1, <1>2, <1>3, <1>4 DEF StageTypes, Holds
<1>9. Exclusive'
  BY <1>1, <1>2, <1>8 DEF Exclusive, Active
<1>10. \A d \in Calls \ {c} : \A b \in BuffersOf(d) :
          memory'[b] = memory[b] /\ (b \in live => b \in live')
  <2> TAKE d \in Calls \ {c}
  <2>1. BuffersOf(d) \subseteq Buffers /\ External(c) \notin BuffersOf(d)
    BY BufferNames DEF BuffersOf
  <2> QED
    BY <1>6, <2>1
<1>11. StreamInv'
  <2>1. lock # c
    BY <1>1, <1>2 DEF Exclusive, Active
  <2> QED
    BY <1>2, <1>10, <2>1, StreamKeeps
<1>12. \A d \in Calls \ {c} : Bound(d)' /\ Holds(d)'
  BY <1>2, <1>8, <1>10, CallKeeps
<1>13. Bound(c)' /\ Holds(c)'
  <2>1. Bound(c)'
    BY <1>8 DEF Bound, Active
  <2>2. Holds(c)'
    BY <1>2, <1>6, <1>8 DEF Holds
  <2> QED
    BY <2>1, <2>2
<1> QED
  BY <1>7, <1>9, <1>11, <1>12, <1>13 DEF SessionInv

LEMMA EnterHolds == ASSUME SessionInv, NEW c \in Calls, Enter(c) PROVE SessionInv'
<1>1. /\ FlagTypes /\ StageTypes /\ DeviceTypes /\ StreamTypes /\ Exclusive /\ StreamInv
      /\ Bound(c) /\ Holds(c)
  BY DEF SessionInv, CallTypes
<1>2. /\ stage[c] = "waiting" /\ lock = None /\ stream = <<>>
      /\ UNCHANGED <<prefer, wrapper, async, kind, bound, stream, memory, live, result>>
  BY <1>1 DEF Enter, StreamInv
<1>3. \/ kind[c] = "none" /\ stage' = [stage EXCEPT ![c] = "returned"] /\ lock' = lock
      \/ kind[c] # "none" /\ stage' = [stage EXCEPT ![c] = "entered"] /\ lock' = c
  BY DEF Enter, Stage
<1>4. CallTypes'
  <2>1. FlagTypes' /\ StreamTypes'
    BY <1>1, <1>2 DEF FlagTypes, StreamTypes
  <2>2. StageTypes'
    BY <1>1, <1>2, <1>3 DEF StageTypes, Stages, Active
  <2>3. DeviceTypes'
    BY <1>1, <1>2, <1>3 DEF DeviceTypes
  <2> QED
    BY <2>1, <2>2, <2>3 DEF CallTypes
<1>5. /\ \/ kind[c] = "none" /\ stage'[c] = "returned" /\ lock' = None
         \/ kind[c] # "none" /\ stage'[c] = "entered" /\ lock' = c
      /\ \A d \in Calls \ {c} : stage'[d] = stage[d] /\ stage[d] \notin Active
  BY <1>1, <1>2, <1>3, BufferNames DEF StageTypes, Exclusive
<1>6. Exclusive'
  BY <1>5, BufferNames DEF Exclusive, Active
<1>7. StreamInv'
  BY <1>2, StreamEmpty
<1>8. \A d \in Calls \ {c} : Bound(d)' /\ Holds(d)'
  BY <1>2, <1>5, CallKeeps
<1>9. Bound(c)'
  BY <1>2, <1>5 DEF Bound, Active
<1>10. Holds(c)'
  BY <1>1, <1>2, <1>5 DEF Holds
<1> QED
  BY <1>4, <1>6, <1>7, <1>8, <1>9, <1>10 DEF SessionInv

(* A call that has the mutex goes on.                                       *)
LEMMA ActiveStep ==
  ASSUME SessionInv, NEW c \in Calls, stage[c] \in Active, NEW s \in Active,
         stage' = [stage EXCEPT ![c] = s],
         UNCHANGED <<prefer, wrapper, async, kind, lock, memory, result>>,
         live \subseteq live', live' \subseteq Buffers,
         bound' \in [in : Addresses, out : Addresses],
         StreamTypes', StreamInv', Bound(c)'
  PROVE  SessionInv'
<1>1. /\ FlagTypes /\ StageTypes /\ DeviceTypes /\ Exclusive /\ Holds(c)
      /\ lock = c /\ \A d \in Calls \ {c} : stage[d] \notin Active
  BY Alone DEF SessionInv, CallTypes
<1>2. stage'[c] = s /\ \A d \in Calls \ {c} : stage'[d] = stage[d]
  BY <1>1 DEF StageTypes
<1>3. CallTypes'
  <2>1. FlagTypes'
    BY <1>1 DEF FlagTypes
  <2>2. StageTypes'
    BY <1>1 DEF StageTypes, Stages
  <2>3. DeviceTypes'
    BY <1>1 DEF DeviceTypes
  <2> QED
    BY <2>1, <2>2, <2>3 DEF CallTypes
<1>4. Exclusive'
  BY <1>1, <1>2 DEF Exclusive
<1>5. \A d \in Calls \ {c} : Bound(d)' /\ Holds(d)'
  BY <1>1, <1>2, CallKeeps
<1>6. Holds(c)'
  <2>1. stage[c] \notin {"new", "waiting", "returned"} /\ s \notin {"new", "waiting", "returned"}
    BY DEF Active
  <2> QED
    BY <1>1, <1>2, <2>1 DEF Holds
<1> QED
  BY <1>3, <1>4, <1>5, <1>6 DEF SessionInv

LEMMA BindInputHolds == ASSUME SessionInv, NEW c \in Calls, BindInput(c) PROVE SessionInv'
<1>1. /\ StageTypes /\ DeviceTypes /\ StreamTypes /\ Bound(c) /\ Holds(c)
  BY DEF SessionInv, CallTypes
<1>2. /\ stage[c] = "entered" /\ kind[c] # "unsupported"
      /\ stage' = [stage EXCEPT ![c] = "input_bound"]
      /\ UNCHANGED <<prefer, wrapper, async, kind, lock, memory, result>>
  BY DEF BindInput, Stage
<1>3. /\ stage[c] \in Active /\ "input_bound" \in Active /\ lock = c /\ stream = <<>>
      /\ kind[c] # "none" /\ stage'[c] = "input_bound"
  BY <1>1, <1>2, Alone DEF Active, Bound, StageTypes
<1>4. /\ In(c) \in Buffers /\ External(c) \in Buffers
      /\ In(c) \in Addresses /\ External(c) \in Addresses
  BY BufferNames DEF BuffersOf, Addresses
<1>5. bound' = [bound EXCEPT !.in = IF kind[c] = "cuda" THEN External(c) ELSE In(c)]
  BY DEF BindInput
<1>6. /\ bound' \in [in : Addresses, out : Addresses]
      /\ bound'.in = (IF kind[c] = "cuda" THEN External(c) ELSE In(c))
  BY <1>1, <1>4, <1>5 DEF DeviceTypes
<1>7. CASE kind[c] = "host"
  <2> DEFINE e == Copy(c, In(c))
  <2>1. live' = live \cup {In(c)} /\ stream' = Append(stream, e)
    BY <1>7 DEF BindInput
  <2>2. e \in StreamOp /\ e.from = c /\ e.to = In(c)
    BY <1>4 DEF Copy, StreamOp
  <2> HIDE DEF e
  <2>3. StreamInv' /\ StreamTypes' /\ Shows(In(c), c)'
    <3>1. OpOf(e, c)
      BY <2>2 DEF OpOf
    <3>2. e.to \in live' /\ e.from \in live' \cup Calls /\ live \subseteq live'
      BY <2>1, <2>2
    <3> QED
      BY <1>2, <1>3, <2>1, <2>2, <3>1, <3>2, Appended
  <2>4. Bound(c)'
    BY <1>2, <1>3, <1>6, <1>7, <2>1, <2>3 DEF Bound
  <2>5. live \subseteq live' /\ live' \subseteq Buffers
    BY <1>1, <1>4, <2>1 DEF DeviceTypes
  <2> QED
    BY <1>2, <1>3, <1>6, <2>3, <2>4, <2>5, ActiveStep
<1>8. CASE kind[c] # "host"
  <2>1. kind[c] = "cuda" /\ UNCHANGED <<live, stream>>
    BY <1>1, <1>2, <1>3, <1>8 DEF BindInput, StageTypes, Kinds
  <2>2. StreamInv' /\ StreamTypes'
    BY <1>1, <1>3, <2>1, StreamEmpty DEF StreamTypes
  <2>3. External(c) \in live /\ memory[External(c)] = c
    BY <1>1, <1>2, <2>1 DEF Holds
  <2>4. Bound(c)'
    BY <1>2, <1>3, <1>6, <2>1, <2>3 DEF Bound, Shows
  <2> QED
    BY <1>1, <1>2, <1>3, <1>6, <2>1, <2>2, <2>4, ActiveStep DEF DeviceTypes
<1> QED
  BY <1>7, <1>8

LEMMA BindOutputHolds == ASSUME SessionInv, NEW c \in Calls, BindOutput(c) PROVE SessionInv'
<1>1. /\ StageTypes /\ DeviceTypes /\ StreamTypes /\ Bound(c)
  BY DEF SessionInv, CallTypes
<1>2. /\ stage[c] = "input_bound" /\ stage' = [stage EXCEPT ![c] = "bound"]
      /\ bound' = [bound EXCEPT !.out = Out(c)] /\ live' = live \cup {Out(c)}
      /\ UNCHANGED <<prefer, wrapper, async, kind, lock, stream, memory, result>>
  BY DEF BindOutput, Stage
<1>3. stage[c] \in Active /\ "bound" \in Active /\ lock = c /\ stage'[c] = "bound"
  BY <1>1, <1>2, Alone DEF Active, StageTypes
<1>4. Out(c) \in Buffers /\ Out(c) \in Addresses
  BY BufferNames DEF BuffersOf, Addresses
<1>5. /\ bound' \in [in : Addresses, out : Addresses]
      /\ bound'.in = bound.in /\ bound'.out = Out(c)
  BY <1>1, <1>2, <1>4 DEF DeviceTypes
<1>6. StreamInv' /\ StreamTypes'
  BY <1>1, <1>2, StreamKeeps DEF StreamTypes
<1>7. \A b : Shows(b, c) => Shows(b, c)'
  BY <1>2 DEF Shows
<1>8. Bound(c)'
  BY <1>1, <1>2, <1>3, <1>5, <1>7 DEF Bound
<1>9. live \subseteq live' /\ live' \subseteq Buffers
  BY <1>1, <1>2, <1>4 DEF DeviceTypes
<1> QED
  BY <1>2, <1>3, <1>5, <1>6, <1>8, <1>9, ActiveStep

LEMMA EnqueueHolds == ASSUME SessionInv, NEW c \in Calls, Enqueue(c) PROVE SessionInv'
<1> DEFINE e == [op |-> "kernel", from |-> bound.in, to |-> bound.out]
<1>1. /\ StageTypes /\ DeviceTypes /\ StreamTypes /\ Bound(c)
  BY DEF SessionInv, CallTypes
<1>2. /\ stage[c] = "bound" /\ stage' = [stage EXCEPT ![c] = "enqueued"]
      /\ stream' = Append(stream, e)
      /\ UNCHANGED <<prefer, wrapper, async, kind, lock, bound, memory, live, result>>
  BY DEF Enqueue, Stage
<1>3. stage[c] \in Active /\ "enqueued" \in Active /\ lock = c /\ stage'[c] = "enqueued"
  BY <1>1, <1>2, Alone DEF Active, StageTypes
<1>4. /\ bound.in \in {In(c), External(c)} /\ bound.in \in live /\ Shows(bound.in, c)
      /\ bound.out = Out(c) /\ Out(c) \in live
  BY <1>1, <1>2 DEF Bound
<1>5. e \in StreamOp /\ e.from = bound.in /\ e.to = Out(c)
  BY <1>1, <1>4 DEF DeviceTypes, StreamOp
<1> HIDE DEF e
<1>6. OpOf(e, c)
  BY <1>4, <1>5 DEF OpOf
<1>7. /\ StreamInv' /\ StreamTypes' /\ Shows(Out(c), c)'
      /\ \A b \in Buffers : Shows(b, c) => Shows(b, c)'
  <2>1. e.to \in live' /\ e.from \in live' \cup Calls /\ live \subseteq live' /\ Shows(e.from, c)
    BY <1>2, <1>4, <1>5
  <2> QED
    BY <1>2, <1>3, <1>5, <1>6, <2>1, Appended
<1>8. Bound(c)'
  <2>1. Shows(bound.in, c)'
    BY <1>1, <1>2, <1>4, <1>7 DEF DeviceTypes
  <2> QED
    BY <1>1, <1>2, <1>3, <1>4, <1>7, <2>1 DEF Bound
<1> QED
  BY <1>1, <1>2, <1>3, <1>7, <1>8, ActiveStep DEF DeviceTypes

LEMMA CollectHolds == ASSUME SessionInv, NEW c \in Calls, Collect(c) PROVE SessionInv'
<1> DEFINE e == Copy(bound.out, Vector(c))
<1>1. /\ StageTypes /\ DeviceTypes /\ StreamTypes /\ Bound(c)
  BY DEF SessionInv, CallTypes
<1>2. /\ stage[c] = "enqueued" /\ stage' = [stage EXCEPT ![c] = "collected"]
      /\ UNCHANGED <<prefer, wrapper, async, kind, lock, bound, memory, result>>
  BY DEF Collect, Stage
<1>3. stage[c] \in Active /\ "collected" \in Active /\ lock = c /\ stage'[c] = "collected"
  BY <1>1, <1>2, Alone DEF Active, StageTypes
<1>4. /\ bound.in \in {In(c), External(c)} /\ bound.in \in live /\ Shows(bound.in, c)
      /\ bound.out = Out(c) /\ Out(c) \in live /\ Shows(Out(c), c)
      /\ kind[c] # "none"
  BY <1>1, <1>2, <1>3 DEF Bound
<1>5. CASE prefer
  <2>1. UNCHANGED <<stream, live>>
    BY <1>5 DEF Collect
  <2>2. StreamInv' /\ StreamTypes'
    BY <1>1, <1>2, <2>1, StreamKeeps DEF StreamTypes
  <2>3. \A b : Shows(b, c) => Shows(b, c)'
    BY <1>2, <2>1 DEF Shows
  <2>4. Bound(c)'
    BY <1>2, <1>3, <1>4, <1>5, <2>1, <2>3 DEF Bound
  <2> QED
    BY <1>1, <1>2, <1>3, <2>1, <2>2, <2>4, ActiveStep DEF DeviceTypes
<1>6. CASE ~prefer
  <2>1. stream' = Append(stream, e) /\ live' = live \cup {Vector(c)}
    BY <1>6 DEF Collect
  <2>2. /\ In(c) \in Buffers /\ External(c) \in Buffers /\ Out(c) \in Buffers
        /\ Vector(c) \in Buffers
    BY BufferNames DEF BuffersOf
  <2>3. e \in StreamOp /\ e.from = Out(c) /\ e.to = Vector(c)
    BY <1>4, <2>2 DEF Copy, StreamOp
  <2> HIDE DEF e
  <2>4. OpOf(e, c)
    BY <2>3 DEF OpOf
  <2>5. /\ StreamInv' /\ StreamTypes' /\ Shows(Vector(c), c)'
        /\ \A b \in Buffers : Shows(b, c) => Shows(b, c)'
    <3>1. /\ e.to \in live' /\ e.from \in live' \cup Calls /\ live \subseteq live'
          /\ Shows(e.from, c)
      BY <1>4, <2>1, <2>3
    <3> QED
      BY <1>2, <1>3, <2>1, <2>3, <2>4, <3>1, Appended
  <2>6. Bound(c)'
    <3>1. Shows(bound.in, c)' /\ Shows(Out(c), c)'
      BY <1>2, <1>4, <2>2, <2>5
    <3> QED
      BY <1>2, <1>3, <1>4, <2>1, <2>5, <3>1 DEF Bound
  <2>7. live \subseteq live' /\ live' \subseteq Buffers
    BY <1>1, <2>1, <2>2 DEF DeviceTypes
  <2> QED
    BY <1>1, <1>2, <1>3, <2>5, <2>6, <2>7, ActiveStep DEF DeviceTypes
<1> QED
  BY <1>5, <1>6

LEMMA FailHolds == ASSUME SessionInv, NEW c \in Calls, Fail(c) PROVE SessionInv'
<1>1. /\ StageTypes /\ DeviceTypes /\ StreamTypes /\ Bound(c)
  BY DEF SessionInv, CallTypes
<1>2. /\ stage[c] \in Active /\ "failing" \in Active
      /\ stage' = [stage EXCEPT ![c] = "failing"]
      /\ UNCHANGED <<prefer, wrapper, async, kind, lock, bound, stream, memory, live, result>>
  BY DEF Fail, Stage, Active
<1>3. StreamInv' /\ StreamTypes'
  BY <1>1, <1>2, StreamKeeps DEF StreamTypes
<1>4. stage'[c] = "failing" /\ kind[c] # "none"
  BY <1>1, <1>2 DEF StageTypes, Bound
<1>5. Bound(c)'
  BY <1>2, <1>4 DEF Bound
<1> QED
  BY <1>1, <1>2, <1>3, <1>5, ActiveStep DEF DeviceTypes

(* A call that ends frees what is its own, and the stream is empty by then. *)
LEMMA EndStep ==
  ASSUME SessionInv, NEW c \in Calls, stage[c] \in Active, stream = <<>>,
         stage' = [stage EXCEPT ![c] = "returned"], lock' = None,
         UNCHANGED <<prefer, wrapper, async, kind, bound, stream, memory>>,
         NEW freed \in SUBSET BuffersOf(c), live' = live \ freed,
         NEW r \in Calls \cup {None}, result' = [result EXCEPT ![c] = r],
         r # None => r = c /\ (prefer => Out(c) \in live' /\ memory[Out(c)] = c)
  PROVE  SessionInv'
<1>1. /\ FlagTypes /\ StageTypes /\ DeviceTypes /\ StreamTypes /\ Exclusive
      /\ lock = c /\ \A d \in Calls \ {c} : stage[d] \notin Active
  BY Alone DEF SessionInv, CallTypes
<1>2. /\ stage'[c] = "returned" /\ result'[c] = r
      /\ \A d \in Calls \ {c} : stage'[d] = stage[d] /\ result'[d] = result[d]
  BY <1>1 DEF StageTypes
<1>3. CallTypes'
  <2>1. FlagTypes' /\ StreamTypes'
    BY <1>1 DEF FlagTypes, StreamTypes
  <2>2. StageTypes'
    BY <1>1 DEF StageTypes, Stages
  <2>3. DeviceTypes'
    BY <1>1 DEF DeviceTypes
  <2> QED
    BY <2>1, <2>2, <2>3 DEF CallTypes
<1>4. Exclusive'
  BY <1>1, <1>2, BufferNames DEF Exclusive, Active
<1>5. StreamInv'
  BY StreamEmpty
<1>6. \A d \in Calls \ {c} : \A b \in BuffersOf(d) :
        memory'[b] = memory[b] /\ (b \in live => b \in live')
  <2> TAKE d \in Calls \ {c}
  <2>1. BuffersOf(d) \cap BuffersOf(c) = {}
    BY BufferNames
  <2> QED
    BY <2>1
<1>7. \A d \in Calls \ {c} : Bound(d)' /\ Holds(d)'
  BY <1>1, <1>2, <1>6, CallKeeps
<1>8. Bound(c)'
  BY <1>2 DEF Bound, Active
<1>9. Holds(c)'
  BY <1>2 DEF Holds
<1> QED
  BY <1>3, <1>4, <1>5, <1>7, <1>8, <1>9 DEF SessionInv

LEMMA ReturnHolds == ASSUME SessionInv, NEW c \in Calls, Return(c) PROVE SessionInv'
<1> DEFINE r == memory[IF prefer THEN bound.out ELSE Vector(c)]
           freed == {External(c)} \cup IF prefer THEN {} ELSE Own(c)
<1>1. /\ DeviceTypes /\ Bound(c)
  BY DEF SessionInv, CallTypes
<1>2. /\ stage[c] = "collected" /\ stream = <<>> /\ stage' = [stage EXCEPT ![c] = "returned"]
      /\ result' = [result EXCEPT ![c] = r] /\ live' = live \ freed /\ lock' = None
      /\ UNCHANGED <<prefer, wrapper, async, kind, bound, stream, memory>>
  BY DEF Return, Stage
<1>3. stage[c] \in Active /\ Len(stream) = 0
  BY <1>2 DEF Active
<1>4. /\ bound.out = Out(c) /\ Out(c) \in live /\ Shows(Out(c), c)
      /\ ~prefer => Shows(Vector(c), c)
  BY <1>1, <1>2 DEF Bound
<1>5. memory[Out(c)] = c /\ (~prefer => memory[Vector(c)] = c)
  BY <1>3, <1>4 DEF Shows
<1>6. r = c
  <2>1. CASE prefer
    BY <1>4, <1>5, <2>1
  <2>2. CASE ~prefer
    BY <1>5, <2>2
  <2> QED
    BY <2>1, <2>2
<1>7. freed \in SUBSET BuffersOf(c)
  BY DEF BuffersOf, Own
<1>8. prefer => Out(c) \in live'
  BY <1>2, <1>4, BufferNames
<1> HIDE DEF r, freed
<1> QED
  BY <1>2, <1>3, <1>5, <1>6, <1>7, <1>8, EndStep

LEMMA UnwindHolds == ASSUME SessionInv, NEW c \in Calls, Unwind(c) PROVE SessionInv'
<1> DEFINE freed == Own(c) \cup {External(c), Vector(c)}
<1>1. /\ DeviceTypes /\ StageTypes /\ Bound(c) /\ Holds(c) /\ StreamInv /\ StreamTypes
  BY DEF SessionInv, CallTypes
<1>2. /\ stage[c] = "failing" /\ stage' = [stage EXCEPT ![c] = "returned"]
      /\ live \cap Own(c) # {} => stream = <<>>
      /\ live' = live \ freed /\ lock' = None
      /\ UNCHANGED <<prefer, wrapper, async, kind, bound, stream, memory, result>>
  BY DEF Unwind, Stage
<1>3. stage[c] \in Active /\ lock = c
  BY <1>2, Alone DEF Active
<1>4. stream = <<>>
  <2> SUFFICES ASSUME stream # <<>> PROVE FALSE
    OBVIOUS
  <2>1. 1 \in 1 .. Len(stream)
    BY <1>1 DEF StreamTypes
  <2>2. /\ OpOf(stream[1], c) /\ stream[1].to \in live
        /\ stream[1].from \in live \cup Calls
    BY <1>1, <1>3, <2>1 DEF StreamInv, OpsOf, OpsLive
  <2>3. Out(c) \notin Calls
    BY BufferNames DEF BuffersOf
  <2> QED
    BY <1>2, <2>2, <2>3 DEF OpOf, Own
<1>5. result[c] = None /\ result' = [result EXCEPT ![c] = None]
  BY <1>1, <1>2 DEF Holds, StageTypes
<1>6. freed \in SUBSET BuffersOf(c)
  BY DEF BuffersOf, Own
<1> HIDE DEF freed
<1> QED
  BY <1>2, <1>3, <1>4, <1>5, <1>6, EndStep

(* The device: what an operation writes is the input of the call it is of.  *)
LEMMA ExecuteHolds == ASSUME SessionInv, Execute PROVE SessionInv'
<1> DEFINE next == Head(stream)
<1>1. /\ FlagTypes /\ StageTypes /\ DeviceTypes /\ StreamTypes /\ Exclusive /\ StreamInv
      /\ \A c \in Calls : Bound(c) /\ Holds(c)
  BY DEF SessionInv, CallTypes
<1>2. /\ stream # <<>> /\ stream' = Tail(stream)
      /\ memory' = [memory EXCEPT ![next.to] = IF next.from \in Calls THEN next.from
                                               ELSE memory[next.from]]
      /\ UNCHANGED <<prefer, wrapper, stage, async, kind, lock, bound, live, result>>
  BY DEF Execute
<1>3. PICK c \in Calls : lock = c
  BY <1>1, <1>2 DEF StreamInv, DeviceTypes
<1>4. stage[c] \in Active /\ \A d \in Calls \ {c} : stage[d] \notin Active
  BY <1>1, <1>3 DEF Exclusive
<1>5. OpsOf(c) /\ OpsRead(c) /\ OpsLive
  BY <1>1, <1>3 DEF StreamInv
<1>6. /\ Len(stream) \in Nat /\ Len(stream) >= 1 /\ next = stream[1]
      /\ Len(stream') = Len(stream) - 1 /\ stream' \in Seq(StreamOp)
      /\ \A i \in 1 .. Len(stream') : stream'[i] = stream[i + 1] /\ i + 1 \in 1 .. Len(stream)
  BY <1>1, <1>2 DEF StreamTypes
<1>7. /\ OpOf(next, c) /\ next.to \in live /\ next.from \in live \cup Calls
      /\ next.from = c \/ memory[next.from] = c
  <2>1. 1 \in 1 .. Len(stream) /\ 1 .. 1 - 1 = {}
    BY <1>6
  <2> QED
    BY <1>5, <1>6, <2>1 DEF OpsOf, OpsRead, OpsLive
<1>8. /\ next.to \in BuffersOf(c) \ {External(c)} /\ next.to \in Buffers
  BY <1>3, <1>7, OpTouches, BufferNames
<1>9. next.from = c \/ next.from \in BuffersOf(c)
  BY <1>3, <1>7, OpTouches
<1>10. (IF next.from \in Calls THEN next.from ELSE memory[next.from]) = c
  <2>1. CASE next.from = c
    BY <1>3, <2>1
  <2>2. CASE next.from \in BuffersOf(c) /\ memory[next.from] = c
    BY <1>3, <2>2, BufferNames
  <2>3. next.from \in BuffersOf(c) => next.from # c
    BY <1>3, BufferNames
  <2> QED
    BY <1>7, <1>9, <2>1, <2>2, <2>3
<1>11. /\ memory' = [memory EXCEPT ![next.to] = c] /\ memory'[next.to] = c
       /\ memory' \in [Buffers -> Calls \cup {None}]
       /\ \A b \in Buffers : memory'[b] = memory[b] \/ memory'[b] = c
       /\ \A b \in Buffers \ {next.to} : memory'[b] = memory[b]
  BY <1>1, <1>2, <1>3, <1>8, <1>10 DEF DeviceTypes
<1>12. \A i \in 1 .. Len(stream) : i = 1 \/ (i - 1 \in 1 .. Len(stream') /\ stream'[i - 1] = stream[i])
  BY <1>6
<1> HIDE DEF next
<1>13. CallTypes'
  <2>1. FlagTypes' /\ StageTypes' /\ StreamTypes'
    BY <1>1, <1>2, <1>6 DEF FlagTypes, StageTypes, StreamTypes
  <2>2. DeviceTypes'
    BY <1>1, <1>2, <1>11 DEF DeviceTypes
  <2> QED
    BY <2>1, <2>2 DEF CallTypes
<1>14. Exclusive'
  BY <1>1, <1>2 DEF Exclusive
<1>15. StreamInv'
  <2>1. OpsLive'
    BY <1>2, <1>5, <1>6 DEF OpsLive
  <2>2. OpsOf(c)'
    <3>1. \A i \in 1 .. Len(stream') : OpOf(stream'[i], c)
      BY <1>5, <1>6 DEF OpsOf
    <3> QED
      BY <1>2, <3>1 DEF OpsOf
  <2>3. ASSUME NEW i \in 1 .. Len(stream')
        PROVE  \/ stream'[i].from = c
               \/ memory'[stream'[i].from] = c
               \/ \E j \in 1 .. i - 1 : stream'[j].to = stream'[i].from
    <3>1. stream'[i] = stream[i + 1] /\ i + 1 \in 1 .. Len(stream) /\ i \in Nat
      BY <1>6
    <3>2. stream[i + 1].from = c \/ stream[i + 1].from \in Buffers
      <4>1. OpOf(stream[i + 1], c)
        BY <1>5, <3>1 DEF OpsOf
      <4> QED
        BY <4>1, OpTouches, BufferNames
    <3>3. \/ stream[i + 1].from = c
          \/ memory[stream[i + 1].from] = c
          \/ \E j \in 1 .. (i + 1) - 1 : stream[j].to = stream[i + 1].from
      BY <1>5, <3>1 DEF OpsRead
    <3>4. ASSUME NEW j \in 1 .. (i + 1) - 1, stream[j].to = stream[i + 1].from,
                 stream[i + 1].from # c
          PROVE  memory'[stream'[i].from] = c \/ \E k \in 1 .. i - 1 : stream'[k].to = stream'[i].from
      <4>1. CASE j = 1
        BY <1>6, <1>11, <3>1, <3>4, <4>1
      <4>2. CASE j # 1
        <5>1. j \in 1 .. Len(stream) /\ j - 1 \in 1 .. i - 1
          BY <1>6, <3>1, <4>2
        <5>2. stream'[j - 1] = stream[j]
          BY <1>12, <4>2, <5>1
        <5> QED
          BY <3>1, <3>4, <5>1, <5>2
      <4> QED
        BY <4>1, <4>2
    <3> QED
      BY <1>11, <3>1, <3>2, <3>3, <3>4
  <2>4. OpsRead(c)'
    BY <1>2, <2>3 DEF OpsRead
  <2> QED
    BY <1>2, <1>3, <2>1, <2>2, <2>4, BufferNames DEF StreamInv
<1>16. \A b \in Buffers : Shows(b, c) => Shows(b, c)'
  <2> SUFFICES ASSUME NEW b \in Buffers, Shows(b, c)
               PROVE  memory'[b] = c \/ \E i \in 1 .. Len(stream') : stream'[i].to = b
    BY <1>2 DEF Shows
  <2>1. CASE memory[b] = c
    BY <1>11, <2>1
  <2>2. ASSUME NEW i \in 1 .. Len(stream), stream[i].to = b
        PROVE  memory'[b] = c \/ \E j \in 1 .. Len(stream') : stream'[j].to = b
    BY <1>6, <1>11, <1>12, <2>2
  <2> QED
    BY <2>1, <2>2 DEF Shows
<1>17. Bound(c)'
  <2>1. In(c) \in Buffers /\ External(c) \in Buffers /\ Out(c) \in Buffers /\ Vector(c) \in Buffers
    BY <1>3, BufferNames DEF BuffersOf
  <2>2. Bound(c) /\ stage[c] # "entered"
    BY <1>1, <1>2, <1>3 DEF Bound
  <2> QED
    BY <1>2, <1>16, <2>1, <2>2 DEF Bound
<1>18. Holds(c)'
  <2>1. Holds(c) /\ stage[c] # "returned"
    BY <1>1, <1>3, <1>4 DEF Active
  <2>2. External(c) \in Buffers \ {next.to}
    BY <1>3, <1>8, BufferNames DEF BuffersOf
  <2> QED
    BY <1>2, <1>11, <2>1, <2>2 DEF Holds
<1>19. ASSUME NEW d \in Calls, d # c PROVE Bound(d)' /\ Holds(d)'
  <2>1. \A b \in BuffersOf(d) : memory'[b] = memory[b]
    <3>1. BuffersOf(d) \cap BuffersOf(c) = {} /\ BuffersOf(d) \subseteq Buffers
      BY <1>3, <1>19, BufferNames
    <3> QED
      BY <1>8, <1>11, <3>1
  <2>2. stage[d] \notin Active
    BY <1>4, <1>19
  <2> QED
    BY <1>2, <2>1, <2>2, CallKeeps
<1> QED
  BY <1>13, <1>14, <1>15, <1>17, <1>18, <1>19 DEF SessionInv

LEMMA DropHolds == ASSUME SessionInv, NEW c \in Calls, Drop(c) PROVE SessionInv'
<1>1. /\ FlagTypes /\ StageTypes /\ DeviceTypes /\ StreamTypes /\ Exclusive
  BY DEF SessionInv, CallTypes
<1>2. /\ stage[c] = "returned" /\ result' = [result EXCEPT ![c] = None]
      /\ live' = live \ (Own(c) \cup {Vector(c)})
      /\ UNCHANGED <<prefer, wrapper, stage, async, kind, lock, bound, stream, memory>>
  BY DEF Drop
<1>3. result'[c] = None /\ \A d \in Calls \ {c} : result'[d] = result[d]
  BY <1>1, <1>2 DEF StageTypes
<1>4. CallTypes'
  <2>1. FlagTypes' /\ StreamTypes'
    BY <1>1, <1>2 DEF FlagTypes, StreamTypes
  <2>2. StageTypes'
    BY <1>1, <1>2 DEF StageTypes
  <2>3. DeviceTypes'
    BY <1>1, <1>2 DEF DeviceTypes
  <2> QED
    BY <2>1, <2>2, <2>3 DEF CallTypes
<1>5. Exclusive'
  BY <1>1, <1>2 DEF Exclusive
<1>6. \A d \in Calls \ {c} : \A b \in BuffersOf(d) :
        memory'[b] = memory[b] /\ (b \in live => b \in live')
  <2> TAKE d \in Calls \ {c}
  <2>1. BuffersOf(d) \cap BuffersOf(c) = {}
    BY BufferNames
  <2> QED
    BY <1>2, <2>1 DEF BuffersOf, Own
<1>7. StreamInv'
  <2>1. lock # c
    BY <1>1, <1>2 DEF Exclusive, Active
  <2> QED
    BY <1>2, <1>6, <2>1, StreamKeeps
<1>8. \A d \in Calls \ {c} : Bound(d)' /\ Holds(d)'
  BY <1>2, <1>3, <1>6, CallKeeps
<1>9. Bound(c)' /\ Holds(c)'
  BY <1>2, <1>3 DEF Bound, Holds, Active
<1> QED
  BY <1>4, <1>5, <1>7, <1>8, <1>9 DEF SessionInv

LEMMA DestroyHolds == ASSUME SessionInv, Destroy PROVE SessionInv'
<1>1. /\ FlagTypes /\ StageTypes /\ DeviceTypes /\ StreamTypes /\ Exclusive
  BY DEF SessionInv, CallTypes
<1>2. /\ wrapper' = FALSE /\ \A c \in InFlight : async[c]
      /\ UNCHANGED <<prefer, stage, async, kind, lock, bound, stream, memory, live, result>>
  BY DEF Destroy
<1>3. CallTypes' /\ Exclusive'
  BY <1>1, <1>2 DEF CallTypes, FlagTypes, StageTypes, DeviceTypes, StreamTypes, Exclusive
<1>4. StreamInv'
  BY <1>2, StreamKeeps
<1>5. \A d \in Calls : Bound(d)' /\ Holds(d)'
  BY <1>2, CallKeeps DEF InFlight
<1> QED
  BY <1>3, <1>4, <1>5 DEF SessionInv

LEMMA SessionSame ==
  ASSUME SessionInv, UNCHANGED <<prefer, callVars>>
  PROVE  SessionInv'
<1>1. UNCHANGED <<prefer, wrapper, stage, async, kind, lock, bound, stream, memory, live, result>>
  BY DEF callVars
<1>2. CallTypes' /\ Exclusive'
  BY <1>1 DEF SessionInv, CallTypes, FlagTypes, StageTypes, DeviceTypes, StreamTypes, Exclusive
<1>3. StreamInv'
  BY <1>1, StreamKeeps
<1>4. \A d \in Calls : Bound(d)' /\ Holds(d)'
  BY <1>1, CallKeeps
<1> QED
  BY <1>2, <1>3, <1>4 DEF SessionInv

LEMMA SessionStep == SessionInv /\ [SessionNext]_sessionVars => SessionInv'
<1> SUFFICES ASSUME SessionInv, [SessionNext]_sessionVars PROVE SessionInv'
  OBVIOUS
<1>1. CASE Loading
  BY <1>1, SessionSame DEF Loading
<1>2. ASSUME NEW c \in Calls, Call(c) \/ RunStep(c) \/ Fail(c) \/ Drop(c) PROVE SessionInv'
  BY <1>2, CallHolds, EnterHolds, BindInputHolds, BindOutputHolds, EnqueueHolds, CollectHolds,
     ReturnHolds, UnwindHolds, FailHolds, DropHolds DEF RunStep
<1>3. CASE Execute
  BY <1>3, ExecuteHolds
<1>4. CASE Destroy
  BY <1>4, DestroyHolds
<1>5. CASE UNCHANGED sessionVars
  BY <1>5, SessionSame DEF sessionVars
<1> QED
  BY <1>1, <1>2, <1>3, <1>4, <1>5 DEF SessionNext

LEMMA SessionSays == SessionInv => ResultOfOwnInput /\ NothingFreedInUse
<1> SUFFICES ASSUME SessionInv PROVE ResultOfOwnInput /\ NothingFreedInUse
  OBVIOUS
<1>1. \A c \in Calls : Holds(c)
  BY DEF SessionInv
<1>2. ResultOfOwnInput
  BY <1>1 DEF ResultOfOwnInput, Holds
<1>3. ASSUME NEW c \in InFlight PROVE c \in Calls /\ ImplAlive
  BY <1>1, <1>3 DEF InFlight, Holds, ImplAlive, Keeps
<1>4. \A i \in DOMAIN stream : {stream[i].from, stream[i].to} \subseteq live \cup Calls
  <2>1. DOMAIN stream = 1 .. Len(stream)
    BY DEF SessionInv, CallTypes, StreamTypes
  <2> QED
    BY <2>1 DEF SessionInv, StreamInv, OpsLive
<1>5. ASSUME stream # <<>> PROVE ImplAlive
  <2>1. lock \in Calls /\ stage[lock] \in Active
    BY <1>5 DEF SessionInv, CallTypes, DeviceTypes, StreamInv, Exclusive
  <2>2. lock \in InFlight
    BY <2>1 DEF InFlight, Active
  <2> QED
    BY <1>3, <2>2
<1> QED
  BY <1>2, <1>3, <1>4, <1>5 DEF NothingFreedInUse

LEMMA SessionAlways == SessionSpec => []SessionInv
<1> QED
  BY SessionInitHolds, SessionStep, PTL DEF SessionSpec

(* The steps of the calls leave the cache alone.                            *)
LEMMA SessionLoads == [SessionNext]_sessionVars => [Next]_vars
<1> SUFFICES ASSUME [SessionNext]_sessionVars PROVE [Next]_vars
  OBVIOUS
<1>1. CASE Loading
  BY <1>1 DEF Loading
<1>2. ASSUME NEW c \in Calls, Call(c) \/ RunStep(c) \/ Fail(c) \/ Drop(c) PROVE UNCHANGED vars
  BY <1>2 DEF Call, RunStep, Enter, BindInput, BindOutput, Enqueue, Collect, Return, Unwind,
     Fail, Drop
<1>3. CASE Execute
  BY <1>3 DEF Execute
<1>4. CASE Destroy
  BY <1>4 DEF Destroy
<1>5. CASE UNCHANGED sessionVars
  BY <1>5 DEF sessionVars
<1> QED
  BY <1>1, <1>2, <1>3, <1>4, <1>5 DEF SessionNext

(* run and run_async of trt_session.cpp: however many threads share the     *)
(* execution context and the stream, and whichever calls fail, a call that  *)
(* returns outputs returns what its own inputs give, and outputs that stay  *)
(* on the device keep showing it until the caller drops them.               *)
THEOREM ResultsAreOfOwnInputs == SessionSpec => []ResultOfOwnInput
  BY SessionAlways, SessionSays, PTL

(* run_sync of trt_session.cpp: on every path out of a call, the failures   *)
(* included, the device touches no freed memory, and no call outlives the   *)
(* session it uses.                                                         *)
THEOREM NothingFreedIsUsed == SessionSpec => []NothingFreedInUse
  BY SessionAlways, SessionSays, PTL

(* trt_session.cpp: the sessions that are called are among those that are   *)
(* loaded, so they have no stale engine either, and keep to their policy.   *)
THEOREM SessionsKeepTheCache == SessionSpec => [](NoStaleEngine /\ PolicyKept)
<1>1. SessionSpec => Spec
  <2>1. SessionInit => Init
    BY DEF SessionInit
  <2> QED
    BY <2>1, SessionLoads, PTL DEF SessionSpec, Spec
<1> QED
  BY <1>1, CacheAlways, CacheSays, PTL
=============================================================================
