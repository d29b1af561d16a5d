--------------------------- MODULE PipelineProofs ---------------------------
(***************************************************************************)
(* What is proved of the pipelines, for every scene: the ways the library  *)
(* runs one task on one input answer alike, every output fits the task's   *)
(* schema, detections are a greedy selection of the candidates, and no     *)
(* decoder and no copy reads past its data; and of the file beside them,   *)
(* that a decoder run never gets the rest of an older embedding.  The      *)
(* invariants say what is in the packet's scratch, among its candidates or *)
(* in the file, at every stage.                                            *)
(***************************************************************************)
EXTENDS TaskRun, EmbeddingFile, SuppressionProofs

-----------------------------------------------------------------------------
(* The file: whose values are in it.                                        *)
States == {"none", "writing", "closing"}

(* What is in the file belongs to the embedding it was opened for.          *)
OneOwner ==
  /\ file = [header |-> file.header, data |-> file.data]
  /\ file.header \in Int
  /\ file.data \in Seq(Embeddings)
  /\ \A n \in 1 .. Len(file.data) : file.data[n] = opened
  /\ file.header >= 0 => opened \in Embeddings /\ file.header = Values[opened]

(* The run that writes the file opened it, and goes on after its end.       *)
SaverAtEnd ==
  /\ saver = [pc |-> saver.pc, embedding |-> saver.embedding, spilled |-> saver.spilled]
  /\ saver.pc \in States
  /\ saver.pc # "none" =>
       /\ saver.embedding \in Embeddings /\ saver.embedding = opened
       /\ saver.spilled \in Int /\ saver.spilled >= -1
       /\ Len(file.data) = (IF saver.spilled > 0 THEN saver.spilled ELSE 0)

FileInv == OneOwner /\ SaverAtEnd /\ LoadedIsSaved

-----------------------------------------------------------------------------
(* A value put after the end makes the sequence one longer.                 *)
LEMMA AtEnd ==
  ASSUME NEW data \in Seq(Embeddings), NEW e \in Embeddings,
         \A n \in 1 .. Len(data) : data[n] = e
  PROVE  LET longer == At(data, Len(data) + 1, e) IN
         /\ longer \in Seq(Embeddings)
         /\ Len(longer) = Len(data) + 1
         /\ \A n \in 1 .. Len(longer) : longer[n] = e
<1> DEFINE length == Len(data) + 1
           longer == At(data, length, e)
<1>1. length \in Nat /\ length > Len(data)
  OBVIOUS
<1>2. longer = [n \in 1 .. length |-> IF n = length THEN e ELSE data[n]]
  BY <1>1 DEF At
<1>3. \A n \in 1 .. length : longer[n] = e
  BY <1>1, <1>2
<1>4. longer \in [1 .. length -> Embeddings]
  BY <1>1, <1>2
<1>5. longer \in Seq(Embeddings) /\ Len(longer) = length
  BY <1>1, <1>2, <1>4
<1> QED
  BY <1>3, <1>5

LEMMA InitHolds == FileInit => FileInv
<1> SUFFICES ASSUME FileInit PROVE FileInv
  OBVIOUS
<1>1. OneOwner
  BY DEF FileInit, OneOwner
<1>2. SaverAtEnd
  BY DEF FileInit, SaverAtEnd, Idle, States
<1>3. LoadedIsSaved
  BY DEF FileInit, LoadedIsSaved
<1> QED
  BY <1>1, <1>2, <1>3 DEF FileInv

(* A value gets to the file: the only step that makes the data longer.      *)
LEMMA SpillHolds == FileInv /\ Spill => FileInv'
<1> SUFFICES ASSUME FileInv, Spill PROVE FileInv'
  OBVIOUS
<1> USE EmbeddingsAssumption
<1> DEFINE e == saver.embedding
           n == saver.spilled + 1
<1>1. /\ e \in Embeddings /\ e = opened /\ Values[e] \in Nat
      /\ n \in Nat /\ n <= Values[e] /\ saver.spilled \in Int
      /\ saver.pc \in {"writing", "closing"}
      /\ Len(file.data) = (IF saver.spilled > 0 THEN saver.spilled ELSE 0)
  BY DEF FileInv, SaverAtEnd, Spill
<1>2. /\ saver' = [pc |-> saver.pc, embedding |-> e, spilled |-> n]
      /\ opened' = opened /\ loaded' = loaded
  BY <1>1 DEF FileInv, SaverAtEnd, Spill
<1>3. CASE n = 0
  <2>1. file' = [header |-> Values[e], data |-> file.data]
    BY <1>3 DEF Spill, FileInv, OneOwner
  <2>2. OneOwner'
    BY <1>1, <1>2, <2>1 DEF FileInv, OneOwner
  <2>3. SaverAtEnd'
    BY <1>1, <1>2, <1>3, <2>1 DEF SaverAtEnd, States
  <2> QED
    BY <1>2, <2>2, <2>3 DEF FileInv, LoadedIsSaved
<1>4. CASE n > 0
  <2>1. n = Len(file.data) + 1
    BY <1>1, <1>4
  <2>2. file' = [header |-> file.header, data |-> At(file.data, n, e)]
    BY <1>1, <1>4 DEF Spill, FileInv, OneOwner
  <2>3. /\ At(file.data, n, e) \in Seq(Embeddings)
        /\ Len(At(file.data, n, e)) = n
        /\ \A m \in 1 .. n : At(file.data, n, e)[m] = e
    BY <1>1, <2>1, AtEnd DEF FileInv, OneOwner
  <2>4. OneOwner'
    BY <1>1, <1>2, <2>2, <2>3 DEF FileInv, OneOwner
  <2>5. SaverAtEnd'
    BY <1>1, <1>2, <1>4, <2>2, <2>3 DEF SaverAtEnd, States
  <2> QED
    BY <1>2, <2>4, <2>5 DEF FileInv, LoadedIsSaved
<1> QED
  BY <1>1, <1>3, <1>4

LEMMA LoadHolds == FileInv /\ Load => FileInv'
<1> SUFFICES ASSUME FileInv, Load PROVE FileInv'
  OBVIOUS
<1> USE EmbeddingsAssumption
<1>1. /\ loaded' = [values |-> LoadFrom(file), opened |-> opened]
      /\ file' = file /\ saver' = saver /\ opened' = opened
  BY DEF Load
<1>2. OneOwner' /\ SaverAtEnd'
  BY <1>1 DEF FileInv, OneOwner, SaverAtEnd
<1>3. ASSUME file.header < 0 \/ Len(file.data) < file.header
      PROVE  LoadedIsSaved'
  <2>1. LoadFrom(file) = <<>>
    BY <1>3 DEF LoadFrom
  <2> QED
    BY <1>1, <2>1 DEF LoadedIsSaved
<1>4. ASSUME ~(file.header < 0 \/ Len(file.data) < file.header)
      PROVE  LoadedIsSaved'
  <2>1. /\ file.header >= 0 /\ file.header = Values[opened]
        /\ Len(file.data) \in Nat /\ Len(file.data) >= file.header
    BY <1>4 DEF FileInv, OneOwner
  <2>2. \A n \in 1 .. file.header : file.data[n] = opened
    BY <2>1 DEF FileInv, OneOwner
  <2>3. LoadFrom(file) = [n \in 1 .. Values[opened] |-> opened]
    BY <1>4, <2>1, <2>2 DEF LoadFrom
  <2> QED
    BY <1>1, <2>3 DEF LoadedIsSaved
<1> QED
  BY <1>2, <1>3, <1>4 DEF FileInv

LEMMA StepHolds == FileInv /\ [FileNext]_fileVars => FileInv'
<1> SUFFICES ASSUME FileInv, [FileNext]_fileVars PROVE FileInv'
  OBVIOUS
<1> USE EmbeddingsAssumption
<1>1. CASE \E e \in Embeddings : RefuseEmpty(e)
  BY <1>1 DEF RefuseEmpty, FileInv, OneOwner, SaverAtEnd, LoadedIsSaved
<1>2. CASE \E e \in Embeddings : Open(e)
  <2>1. PICK e \in Embeddings : Open(e)
    BY <1>2
  <2>2. OneOwner'
    BY <2>1 DEF Open, OneOwner
  <2>3. SaverAtEnd'
    BY <2>1 DEF Open, SaverAtEnd, States
  <2> QED
    BY <2>1, <2>2, <2>3 DEF Open, FileInv, LoadedIsSaved
<1>3. CASE Spill
  BY <1>3, SpillHolds
<1>4. CASE Return
  BY <1>4 DEF Return, FileInv, OneOwner, SaverAtEnd, LoadedIsSaved, States
<1>5. CASE WriteFails \/ Close \/ Crash
  <2>1. saver' = Idle /\ UNCHANGED <<file, loaded, opened>>
    BY <1>5 DEF WriteFails, Close, Crash
  <2>2. SaverAtEnd'
    BY <2>1 DEF SaverAtEnd, Idle, States
  <2>3. OneOwner' /\ LoadedIsSaved'
    BY <2>1 DEF FileInv, OneOwner, LoadedIsSaved
  <2> QED
    BY <2>2, <2>3 DEF FileInv
<1>6. CASE Load
  BY <1>6, LoadHolds
<1>7. CASE UNCHANGED fileVars
  BY <1>7 DEF fileVars, FileInv, OneOwner, SaverAtEnd, LoadedIsSaved
<1> QED
  BY <1>1, <1>2, <1>3, <1>4, <1>5, <1>6, <1>7 DEF FileNext

(* A load that succeeds gives every value of the embedding the file was     *)
(* last opened for, after crashes, full disks and files written over        *)
(* (tensor_io.cpp:45-184).                                                  *)
THEOREM LoadsWhatWasSaved == FileSpec => []LoadedIsSaved
<1>1. FileInv => LoadedIsSaved
  BY DEF FileInv
<1> QED
  BY InitHolds, StepHolds, <1>1, PTL DEF FileSpec
-----------------------------------------------------------------------------
(* Fields with names of their own, and how a field is added to them.        *)
Distinct(out, names) ==
  /\ out = <<>> \/ IsSequence(out)
  /\ Len(out) \in Nat /\ DOMAIN out = 1 .. Len(out)
  /\ Names(out) = names /\ IsFiniteSet(names) /\ Cardinality(names) = Len(out)

LEMMA DistinctNone == Distinct(<<>>, {})
  BY FS_EmptySet DEF Distinct, Names

LEMMA DistinctMore ==
  ASSUME NEW out, NEW names, Distinct(out, names), NEW f, f.name \notin names
  PROVE  Distinct(out \o <<f>>, names \cup {f.name})
<1> DEFINE S == {out[n] : n \in DOMAIN out} \cup {f}
           N == Len(out)
           more == out \o <<f>>
<1>1. N \in Nat /\ DOMAIN out = 1 .. N
  BY DEF Distinct
<1>2. out \in Seq(S)
  <2> DEFINE T == {out[n] : n \in DOMAIN out}
  <2>1. T \subseteq S
    OBVIOUS
  <2> HIDE DEF S
  <2>2. CASE out = <<>>
    BY <2>2
  <2>3. CASE out \in Seq(T)
    <3> HIDE DEF T
    <3>1. out \in [1 .. N -> T]
      BY <1>1, <2>3
    <3>2. out \in [1 .. N -> S]
      BY <2>1, <3>1
    <3> QED
      BY <1>1, <3>2
  <2> QED
    BY <2>2, <2>3 DEF Distinct, IsSequence
<1>3. /\ more \in Seq(S) /\ Len(more) = N + 1 /\ DOMAIN more = 1 .. N + 1
      /\ more[N + 1] = f /\ \A n \in 1 .. N : more[n] = out[n]
  BY <1>1, <1>2
<1> DEFINE M == {more[n] : n \in DOMAIN more}
<1> HIDE DEF more, N, S
<1>4. more \in Seq(M)
  <2>1. more \in [1 .. N + 1 -> M]
    BY <1>3
  <2> QED
    BY <1>1, <2>1
<1>5. Names(more) = names \cup {f.name}
  <2>1. names = {out[n].name : n \in 1 .. N}
    BY <1>1 DEF Distinct, Names
  <2>2. Names(more) = {more[n].name : n \in 1 .. N + 1}
    BY <1>3 DEF Names
  <2>3. \A n \in 1 .. N + 1 : n \in 1 .. N \/ n = N + 1
    BY <1>1
  <2>4. \A n \in 1 .. N : n \in 1 .. N + 1
    BY <1>1
  <2>5. N + 1 \in 1 .. N + 1
    BY <1>1
  <2> QED
    BY <1>3, <2>1, <2>2, <2>3, <2>4, <2>5
<1>6. /\ IsFiniteSet(names \cup {f.name})
      /\ Cardinality(names \cup {f.name}) = N + 1
  BY FS_AddElement DEF Distinct, N
<1>7. IsSequence(more)
  BY <1>4 DEF IsSequence
<1>8. Distinct(more, names \cup {f.name})
  BY <1>1, <1>3, <1>5, <1>6, <1>7 DEF Distinct
<1> QED
  BY <1>8 DEF more

LEMMA DistinctAdded ==
  ASSUME NEW out, NEW names, Distinct(out, names), NEW s, NEW key, key \notin names
  PROVE  Distinct(out \o Added(s, key), names \cup ({key} \cap DOMAIN s))
<1>1. CASE key \in DOMAIN s
  <2> DEFINE f == [name |-> key, value |-> s[key]]
  <2>1. Added(s, key) = <<f>> /\ f.name = key
    BY <1>1 DEF Added
  <2>2. Distinct(out \o <<f>>, names \cup {key})
    BY <2>1, DistinctMore
  <2> QED
    BY <1>1, <2>1, <2>2
<1>2. CASE key \notin DOMAIN s
  <2>1. Added(s, key) = <<>>
    BY <1>2 DEF Added
  <2>2. out \o <<>> = out
    <3>1. CASE out = <<>>
      BY <3>1
    <3>2. CASE IsSequence(out)
      BY <3>2 DEF IsSequence
    <3> QED
      BY <3>1, <3>2 DEF Distinct
  <2>3. names \cup ({key} \cap DOMAIN s) = names
    BY <1>2
  <2> QED
    BY <2>1, <2>2, <2>3
<1> QED
  BY <1>1, <1>2

(* Sequences of which one is the other and one element more.                *)
LEMMA Joined ==
  ASSUME NEW S, NEW s \in Seq(S), NEW a \in S, NEW t \in Seq(S), Len(t) = Len(s) + 1,
         t[Len(t)] = a, \A n \in 1 .. Len(s) : t[n] = s[n]
  PROVE  s \o <<a>> = t
<1> DEFINE r == s \o <<a>>
<1>1. /\ r \in Seq(S) /\ Len(r) = Len(s) + 1
      /\ r[Len(s) + 1] = a /\ \A n \in 1 .. Len(s) : r[n] = s[n]
  OBVIOUS
<1> HIDE DEF r
<1>2. r \in Seq(S) /\ Len(r) = Len(t) /\ \A n \in 1 .. Len(t) : r[n] = t[n]
  BY <1>1
<1>3. r = [n \in 1 .. Len(t) |-> r[n]] /\ t = [n \in 1 .. Len(t) |-> t[n]]
  BY <1>2
<1>4. r = t
  BY <1>2, <1>3
<1> QED
  BY <1>4 DEF r

LEMMA JoinedOnes ==
  /\ \A a, b : <<a>> \o <<b>> = <<a, b>>
  /\ \A a, b, c : <<a, b>> \o <<c>> = <<a, b, c>>
  /\ \A a, b, c, d : <<a, b, c>> \o <<d>> = <<a, b, c, d>>
  /\ \A a, b, c, d, e : <<a, b, c, d>> \o <<e>> = <<a, b, c, d, e>>
<1>1. ASSUME NEW a, NEW b PROVE <<a>> \o <<b>> = <<a, b>>
  <2> DEFINE S == {a, b}
             s == <<a>>
             t == <<a, b>>
  <2>1. /\ s \in Seq(S) /\ b \in S /\ t \in Seq(S) /\ Len(t) = Len(s) + 1
        /\ t[Len(t)] = b /\ \A n \in 1 .. Len(s) : t[n] = s[n]
    OBVIOUS
  <2> HIDE DEF S, s, t
  <2>2. s \o <<b>> = t
    BY <2>1, Joined
  <2> QED
    BY <2>2 DEF s, t
<1>2. ASSUME NEW a, NEW b, NEW c PROVE <<a, b>> \o <<c>> = <<a, b, c>>
  <2> DEFINE S == {a, b, c}
             s == <<a, b>>
             t == <<a, b, c>>
  <2>1. /\ s \in Seq(S) /\ c \in S /\ t \in Seq(S) /\ Len(t) = Len(s) + 1
        /\ t[Len(t)] = c /\ \A n \in 1 .. Len(s) : t[n] = s[n]
    OBVIOUS
  <2> HIDE DEF S, s, t
  <2>2. s \o <<c>> = t
    BY <2>1, Joined
  <2> QED
    BY <2>2 DEF s, t
<1>3. ASSUME NEW a, NEW b, NEW c, NEW d PROVE <<a, b, c>> \o <<d>> = <<a, b, c, d>>
  <2> DEFINE S == {a, b, c, d}
             s == <<a, b, c>>
             t == <<a, b, c, d>>
  <2>1. /\ s \in Seq(S) /\ d \in S /\ t \in Seq(S) /\ Len(t) = Len(s) + 1
        /\ t[Len(t)] = d /\ \A n \in 1 .. Len(s) : t[n] = s[n]
    OBVIOUS
  <2> HIDE DEF S, s, t
  <2>2. s \o <<d>> = t
    BY <2>1, Joined
  <2> QED
    BY <2>2 DEF s, t
<1>4. ASSUME NEW a, NEW b, NEW c, NEW d, NEW e PROVE <<a, b, c, d>> \o <<e>> = <<a, b, c, d, e>>
  <2> DEFINE S == {a, b, c, d, e}
             s == <<a, b, c, d>>
             t == <<a, b, c, d, e>>
  <2>1. /\ s \in Seq(S) /\ e \in S /\ t \in Seq(S) /\ Len(t) = Len(s) + 1
        /\ t[Len(t)] = e /\ \A n \in 1 .. Len(s) : t[n] = s[n]
    OBVIOUS
  <2> HIDE DEF S, s, t
  <2>2. s \o <<e>> = t
    BY <2>1, Joined
  <2> QED
    BY <2>2 DEF s, t
<1> QED
  BY <1>1, <1>2, <1>3, <1>4, Zenon

LEMMA JoinedNone ==
  ASSUME NEW a PROVE <<>> \o <<a>> = <<a>> /\ <<a>> \o <<>> = <<a>> /\ <<>> \o <<>> = <<>>
  OBVIOUS

(* What the nodes hand out: fields of the schema, each at most once.        *)
PromptedFields == {"image_embeddings", "mask", "low_res_masks", "logits", "scores"}

LEMMA FinalizeFields ==
  ASSUME NEW s
  PROVE  \E names \in SUBSET PromptedFields : Distinct(Finalize(s), names)
<1>1. CASE "ready" \notin DOMAIN s
  BY <1>1, DistinctNone DEF Finalize
<1>2. CASE "ready" \in DOMAIN s
  <2> DEFINE In(key) == {key} \cap DOMAIN s
             one == Added(s, "image_embeddings")
             two == one \o Added(s, "mask")
             three == two \o Added(s, "low_res_masks")
             four == three \o Added(s, "logits")
             five == four \o Added(s, "scores")
  <2>0. <<>> \o one = one
    BY DEF Added
  <2>1. Distinct(<<>> \o one, {} \cup In("image_embeddings"))
    BY DistinctNone, DistinctAdded
  <2>2. Distinct(one, In("image_embeddings"))
    BY <2>0, <2>1
  <2> DEFINE A == In("image_embeddings")
             B == A \cup In("mask")
             C == B \cup In("low_res_masks")
             D == C \cup In("logits")
             E == D \cup In("scores")
  <2>3. "mask" \notin A /\ "low_res_masks" \notin B /\ "logits" \notin C /\ "scores" \notin D
    OBVIOUS
  <2>4. E \subseteq PromptedFields
    BY DEF PromptedFields
  <2> HIDE DEF one, two, three, four, A, B, C, D
  <2>5. Distinct(two, B)
    BY <2>2, <2>3, DistinctAdded DEF two, A, B
  <2>6. Distinct(three, C)
    BY <2>3, <2>5, DistinctAdded DEF three, C
  <2>7. Distinct(four, D)
    BY <2>3, <2>6, DistinctAdded DEF four, D
  <2>8. Distinct(five, E)
    BY <2>3, <2>7, DistinctAdded
  <2>9. Finalize(s) = five
    BY <1>2 DEF Finalize, one, two, three, four
  <2> QED
    BY <2>4, <2>8, <2>9
<1> QED
  BY <1>1, <1>2

LEMMA PutIn ==
  ASSUME NEW s, NEW key, NEW value
  PROVE  /\ DOMAIN Put(s, key, value) = DOMAIN s \cup {key}
         /\ Put(s, key, value)[key] = value
         /\ \A k \in DOMAIN s : k # key => Put(s, key, value)[k] = s[k]
  BY DEF Put

LEMMA NothingThere == DOMAIN NoScratch = {} /\ Finalize(NoScratch) = <<>>
  BY DEF NoScratch, Finalize

LEMMA ErrorOnly ==
  ASSUME NEW error PROVE Finalize(Put(NoScratch, "error", error)) = <<>>
<1>1. DOMAIN Put(NoScratch, "error", error) = {"error"}
  BY NothingThere DEF Put
<1> QED
  BY <1>1 DEF Finalize

LEMMA EmbeddingOnly ==
  ASSUME NEW e
  PROVE  Finalize(Embedded(e, NoScratch)) = <<[name |-> "image_embeddings", value |-> e]>>
<1> DEFINE s == Embedded(e, NoScratch)
<1>1. DOMAIN s = {"image_embeddings", "ready"} /\ s["image_embeddings"] = e
  BY NothingThere DEF Embedded, Put
<1> HIDE DEF s
<1>2. /\ Added(s, "image_embeddings") = <<[name |-> "image_embeddings", value |-> e]>>
      /\ Added(s, "mask") = <<>> /\ Added(s, "low_res_masks") = <<>>
      /\ Added(s, "logits") = <<>> /\ Added(s, "scores") = <<>>
  BY <1>1 DEF Added
<1>3. Finalize(s) = <<[name |-> "image_embeddings", value |-> e]>>
  BY <1>1, <1>2, JoinedNone DEF Finalize
<1> QED
  BY <1>3 DEF s

(* The fields of a mask that the decoder has found, after those of scratch. *)
LEMMA MaskStored ==
  ASSUME NEW prompt, NEW masks, NEW offset, NEW scores, NEW e
  PROVE  LET alone == Finalize(Store(NoScratch, prompt, masks, offset, scores))
             after == Finalize(Store(Embedded(e, NoScratch), prompt, masks, offset, scores))
         IN  WithoutEmbedding(after) = alone
<1> DEFINE L == MaskLogits(masks, offset)
           m == MaskFrame(L, prompt)
           g == Tensor("logits", <<1, MaskSize, MaskSize>>, L)
           c == [n \in 1 .. scores.size |-> Element(scores, n - 1)]
           Put5(s) == Put(Put(Put(Put(Put(s, "mask", m), "low_res_masks", masks), "logits", g),
                              "scores", c), "ready", TRUE)
<1>1. \A s : Store(s, prompt, masks, offset, scores) = Put5(s)
  BY DEF Store
<1> DEFINE E == Embedded(e, NoScratch)
<1>2. DOMAIN E = {"image_embeddings", "ready"} /\ E["image_embeddings"] = e
  BY NothingThere DEF Embedded, Put
<1> HIDE DEF L, m, g, c, E
<1> DEFINE Fields5 == {"mask", "low_res_masks", "logits", "scores", "ready"}
<1>3. ASSUME NEW s
      PROVE  /\ DOMAIN Put5(s) = DOMAIN s \cup Fields5
             /\ Put5(s)["mask"] = m /\ Put5(s)["low_res_masks"] = masks
             /\ Put5(s)["logits"] = g /\ Put5(s)["scores"] = c
             /\ \A k \in DOMAIN s : k \notin Fields5 => Put5(s)[k] = s[k]
  BY DEF Put
<1> HIDE DEF Put5
<1> DEFINE f1 == [name |-> "image_embeddings", value |-> e]
           f2 == [name |-> "mask", value |-> m]
           f3 == [name |-> "low_res_masks", value |-> masks]
           f4 == [name |-> "logits", value |-> g]
           f5 == [name |-> "scores", value |-> c]
<1>4. Finalize(Put5(NoScratch)) = <<f2, f3, f4, f5>>
  <2> DEFINE s == Put5(NoScratch)
  <2>1. DOMAIN s = Fields5
    BY <1>3, NothingThere
  <2>2. /\ s["mask"] = m /\ s["low_res_masks"] = masks
        /\ s["logits"] = g /\ s["scores"] = c
    BY <1>3
  <2> HIDE DEF s
  <2>3. /\ Added(s, "image_embeddings") = <<>> /\ Added(s, "mask") = <<f2>>
        /\ Added(s, "low_res_masks") = <<f3>> /\ Added(s, "logits") = <<f4>>
        /\ Added(s, "scores") = <<f5>>
    BY <2>1, <2>2 DEF Added
  <2> HIDE DEF f2, f3, f4, f5
  <2>4. Finalize(s) = <<>> \o <<f2>> \o <<f3>> \o <<f4>> \o <<f5>>
    BY <2>1, <2>3 DEF Finalize
  <2>5. /\ <<>> \o <<f2>> = <<f2>> /\ <<f2>> \o <<f3>> = <<f2, f3>>
        /\ <<f2, f3>> \o <<f4>> = <<f2, f3, f4>>
        /\ <<f2, f3, f4>> \o <<f5>> = <<f2, f3, f4, f5>>
    BY JoinedNone, JoinedOnes
  <2> QED
    BY <2>4, <2>5 DEF s
<1>5. Finalize(Put5(E)) = <<f1, f2, f3, f4, f5>>
  <2> DEFINE s == Put5(E)
  <2>1. DOMAIN s = Fields5 \cup {"image_embeddings"}
    BY <1>2, <1>3
  <2>2. /\ s["mask"] = m /\ s["low_res_masks"] = masks
        /\ s["logits"] = g /\ s["scores"] = c /\ s["image_embeddings"] = e
    BY <1>2, <1>3
  <2> HIDE DEF s
  <2>3. /\ Added(s, "image_embeddings") = <<f1>> /\ Added(s, "mask") = <<f2>>
        /\ Added(s, "low_res_masks") = <<f3>> /\ Added(s, "logits") = <<f4>>
        /\ Added(s, "scores") = <<f5>>
    BY <2>1, <2>2 DEF Added
  <2> HIDE DEF f1, f2, f3, f4, f5
  <2>4. Finalize(s) = <<f1>> \o <<f2>> \o <<f3>> \o <<f4>> \o <<f5>>
    BY <2>1, <2>3 DEF Finalize
  <2>5. /\ <<f1>> \o <<f2>> = <<f1, f2>> /\ <<f1, f2>> \o <<f3>> = <<f1, f2, f3>>
        /\ <<f1, f2, f3>> \o <<f4>> = <<f1, f2, f3, f4>>
        /\ <<f1, f2, f3, f4>> \o <<f5>> = <<f1, f2, f3, f4, f5>>
    BY JoinedOnes
  <2> QED
    BY <2>4, <2>5 DEF s
<1>6. f1.name = "image_embeddings"
  OBVIOUS
<1> HIDE DEF f1, f2, f3, f4, f5
<1>7. WithoutEmbedding(<<f1, f2, f3, f4, f5>>) = <<f2, f3, f4, f5>>
  BY <1>6 DEF WithoutEmbedding
<1> QED
  BY <1>1, <1>4, <1>5, <1>7 DEF E

-----------------------------------------------------------------------------
(* A run of the promptable models that fails leaves nothing to hand out,    *)
(* unless it is the decoder of a combined model that fails.                 *)
DecoderEnds(family, before, run) ==
  \/ run.ok = TRUE
  \/ run = Failed(before)
  \/ family = "decoder" /\ run = FailedWith("embedding", before)

LEMMA DecoderFails ==
  ASSUME NEW family, NEW items, NEW frame, NEW spec, NEW cuda, NEW used, NEW before
  PROVE  DecoderEnds(family, before,
                     RunDecoder(family, items, frame, spec, cuda, used, before))
<1>1. \A prompt, outputs : \/ StoreBest(before, prompt, outputs).ok = TRUE
                           \/ StoreBest(before, prompt, outputs) = Failed(before)
  BY DEF StoreBest
<1>2. \A session, embedding, prompt :
        \/ DecodeBest(session, spec, embedding, prompt, before).ok = TRUE
        \/ DecodeBest(session, spec, embedding, prompt, before) = Failed(before)
  BY <1>1 DEF DecodeBest
<1> QED
  BY <1>2 DEF RunDecoder, DecoderEnds

LEMMA RunFails ==
  ASSUME NEW items, NEW spec, NEW cuda
  PROVE  LET run == RunModels(items, spec, cuda, NoScratch) IN
         \/ run.ok = TRUE
         \/ Finalize(run.scratch) = <<>>
         \/ /\ ParseFamily(spec.family) = "combined"
            /\ \E e : run.scratch = Embedded(e, NoScratch)
<1> DEFINE family == ParseFamily(spec.family)
           frame == PromptFrame(items, cuda)
           run == RunModels(items, spec, cuda, NoScratch)
           Kept == \/ run.ok = TRUE
                   \/ Finalize(run.scratch) = <<>>
                   \/ family = "combined" /\ \E e : run.scratch = Embedded(e, NoScratch)
<1> SUFFICES Kept
  OBVIOUS
<1>1. run = RunFamily(family, items, frame, spec, cuda, NoScratch)
  BY DEF RunModels
<1>2. family \in {"encoder", "decoder", "combined", "invalid"}
  BY DEF ParseFamily
<1> HIDE DEF family, frame, run
<1>3. \A error : /\ Finalize(Failed(NoScratch).scratch) = <<>>
                 /\ Finalize(FailedWith(error, NoScratch).scratch) = <<>>
  BY NothingThere, ErrorOnly DEF Failed, FailedWith
<1>4. CASE spec.backend # "onnxruntime" \/ family = "invalid" \/ Refused(items, frame)
  BY <1>1, <1>3, <1>4 DEF RunFamily
<1>5. CASE /\ ~(spec.backend # "onnxruntime" \/ family = "invalid" \/ Refused(items, frame))
           /\ ~RequiresImage(family)
  <2>1. PICK used : run = RunDecoder(family, items, frame, spec, cuda, used, NoScratch)
    BY <1>1, <1>5 DEF RunFamily
  <2>2. DecoderEnds(family, NoScratch, run)
    BY <2>1, DecoderFails
  <2> QED
    BY <1>3, <2>2 DEF DecoderEnds
<1>6. CASE /\ ~(spec.backend # "onnxruntime" \/ family = "invalid" \/ Refused(items, frame))
           /\ RequiresImage(family)
  <2>1. CASE ~Found(frame)
    BY <1>1, <1>3, <1>6, <2>1 DEF RunFamily
  <2>2. CASE Found(frame)
    <3>1. PICK input, embedding :
            run = RunEncoded(family, items, frame, spec, cuda, input, embedding, NoScratch)
      BY <1>1, <1>6, <2>2 DEF RunFamily, RunEncoder
    <3>2. CASE ~Found(embedding)
      BY <1>3, <3>1, <3>2 DEF RunEncoded
    <3>3. CASE Found(embedding) /\ family = "encoder"
      <4>1. run = [ok |-> TRUE, scratch |-> Embedded(embedding, NoScratch)]
        BY <3>1, <3>3 DEF RunEncoded
      <4> QED
        BY <4>1
    <3>4. CASE Found(embedding) /\ family # "encoder"
      <4>1. family = "combined"
        BY <1>2, <1>6, <3>4 DEF RequiresImage
      <4>2. PICK used : run = RunDecoder(family, items, frame, spec, cuda, used,
                                         Embedded(embedding, NoScratch))
        BY <3>1, <3>4 DEF RunEncoded
      <4>3. DecoderEnds(family, Embedded(embedding, NoScratch), run)
        BY <4>2, DecoderFails
      <4>4. run.ok = TRUE \/ run = Failed(Embedded(embedding, NoScratch))
        BY <4>1, <4>3 DEF DecoderEnds
      <4>5. Failed(Embedded(embedding, NoScratch)).scratch = Embedded(embedding, NoScratch)
        BY DEF Failed
      <4> QED
        BY <4>1, <4>4, <4>5
    <3> QED
      BY <3>2, <3>3, <3>4
  <2> QED
    BY <2>1, <2>2
<1> QED
  BY <1>4, <1>5, <1>6

(* No candidates, no detections.                                            *)
LEMMA NothingSuppressed == ASSUME NEW percent PROVE NonMaximumSuppression(<<>>, percent) = <<>>
<1> DEFINE sorted == ByScore(<<>>)
           Turns(f) == f = [n \in 0 .. Len(sorted) |->
                              IF n = 0 THEN <<>>
                              ELSE KeepUnlessSuppressed(f[n - 1], sorted[n], percent)]
           g == [n \in {0} |-> <<>>]
<1>1. sorted = <<>>
  BY DEF ByScore
<1>2. Len(sorted) = 0 /\ 0 .. Len(sorted) = {0}
  BY <1>1
<1> HIDE DEF sorted
<1>3. Turns(g)
  BY <1>2
<1>4. Turns(KeptOf(sorted, percent))
  BY <1>3 DEF KeptOf
<1>5. KeptOf(sorted, percent)[0] = <<>>
  BY <1>2, <1>4
<1> QED
  BY <1>2, <1>5 DEF NonMaximumSuppression, sorted

-----------------------------------------------------------------------------
(* The lookup of an item goes on as before when one is put at the end,      *)
(* unless it is the first of the name asked for.                            *)
Named(items, name) == {n \in DOMAIN items : items[n].name = name}
FirstOf(places) == CHOOSE n \in places : \A m \in places : n <= m

LEMMA FindIn ==
  ASSUME NEW items, NEW name, NEW type
  PROVE  /\ Named(items, name) = {} => Find(items, name, type) = NoValue
         /\ Named(items, name) # {} =>
              Find(items, name, type) =
                LET first == items[FirstOf(Named(items, name))]
                IN  IF first.type = type THEN first ELSE NoValue
  BY DEF Find, Named, FirstOf

LEMMA FirstThere ==
  ASSUME NEW places \in SUBSET Nat, places # {} PROVE FirstOf(places) \in places
  BY Smallest DEF FirstOf

LEMMA Appended ==
  ASSUME NEW items, IsSequence(items), NEW x
  PROVE  LET more == Append(items, x) IN
         /\ Len(items) \in Nat
         /\ DOMAIN items = 1 .. Len(items) /\ DOMAIN more = 1 .. Len(items) + 1
         /\ more[Len(items) + 1] = x
         /\ \A n \in 1 .. Len(items) : more[n] = items[n]
<1> DEFINE S == {items[n] : n \in DOMAIN items}
           T == S \cup {x}
<1>1. S \subseteq T /\ x \in T
  OBVIOUS
<1>2. items \in Seq(S)
  BY DEF IsSequence
<1> HIDE DEF T, S
<1>3. Len(items) \in Nat /\ DOMAIN items = 1 .. Len(items) /\ items \in [1 .. Len(items) -> S]
  BY <1>2
<1>4. items \in Seq(T)
  BY <1>1, <1>3
<1> QED
  BY <1>1, <1>3, <1>4

LEMMA FindOther ==
  ASSUME NEW items, IsSequence(items), NEW x, NEW name, NEW type, x.name # name
  PROVE  Find(Append(items, x), name, type) = Find(items, name, type)
<1> DEFINE more == Append(items, x)
           N == Len(items)
<1>1. /\ N \in Nat /\ DOMAIN items = 1 .. N /\ DOMAIN more = 1 .. N + 1 /\ more[N + 1] = x
      /\ \A n \in 1 .. N : more[n] = items[n]
  BY Appended
<1> HIDE DEF more, N
<1>2. Named(more, name) = Named(items, name)
  <2>1. \A n \in 1 .. N + 1 : n \in 1 .. N \/ n = N + 1
    BY <1>1
  <2>2. \A n \in 1 .. N : n \in 1 .. N + 1
    BY <1>1
  <2> QED
    BY <1>1, <2>1, <2>2 DEF Named
<1>3. CASE Named(items, name) = {}
  BY <1>2, <1>3, FindIn DEF more
<1>4. CASE Named(items, name) # {}
  <2> DEFINE P == Named(items, name)
             k == FirstOf(P)
  <2>1. P \in SUBSET Nat /\ P \subseteq 1 .. N
    BY <1>1 DEF Named
  <2> HIDE DEF P
  <2>2. k \in P
    BY <1>4, <2>1, FirstThere DEF P
  <2>3. more[k] = items[k]
    BY <1>1, <2>1, <2>2
  <2> HIDE DEF k
  <2>4. Find(items, name, type) = (IF items[k].type = type THEN items[k] ELSE NoValue)
    BY <1>4, FindIn DEF k, P
  <2>5. Find(more, name, type) = (IF more[k].type = type THEN more[k] ELSE NoValue)
    BY <1>2, <1>4, FindIn DEF k, P
  <2> QED
    BY <2>3, <2>4, <2>5 DEF more
<1> QED
  BY <1>3, <1>4

LEMMA FindAppended ==
  ASSUME NEW items, IsSequence(items), NEW x, NEW name, NEW type,
         x.name = name, x.type = type, \A n \in DOMAIN items : items[n].name # name
  PROVE  Find(Append(items, x), name, type) = x
<1> DEFINE more == Append(items, x)
           N == Len(items)
<1>1. /\ N \in Nat /\ DOMAIN items = 1 .. N /\ DOMAIN more = 1 .. N + 1 /\ more[N + 1] = x
      /\ \A n \in 1 .. N : more[n] = items[n]
  BY Appended
<1> HIDE DEF more, N
<1>2. Named(more, name) = {N + 1}
  <2>1. \A n \in 1 .. N + 1 : n \in 1 .. N \/ n = N + 1
    BY <1>1
  <2>2. N + 1 \in 1 .. N + 1
    BY <1>1
  <2> QED
    BY <1>1, <2>1, <2>2 DEF Named
<1>3. FirstOf({N + 1}) \in {N + 1}
  BY <1>1, FirstThere
<1> DEFINE k == FirstOf(Named(more, name))
<1>4. k = N + 1
  BY <1>2, <1>3
<1> HIDE DEF k
<1>5. Find(more, name, type) = (IF more[k].type = type THEN more[k] ELSE NoValue)
  BY <1>2, FindIn DEF k
<1> QED
  BY <1>1, <1>4, <1>5 DEF more

(* The first output that is kept is one of those the model has produced.    *)
LEMMA FirstKept ==
  ASSUME NEW produced, IsSequence(produced)
  PROVE  LET first == FirstOutput(KeptOutputs(produced)) IN
         \/ KeptOutputs(produced) = <<>> /\ first = NoValue
         \/ \E n \in DOMAIN produced : first = produced[n] /\ first.type = "tensor"
<1> DEFINE kept == {n \in DOMAIN produced :
                      produced[n].type = "tensor" /\ produced[n].dtype = "float32"}
           Nth(k) == CHOOSE n \in kept : Cardinality({m \in kept : m < n}) = k - 1
           C == Cardinality(kept)
           outs == [k \in 1 .. C |-> produced[Nth(k)]]
<1>1. KeptOutputs(produced) = outs
  BY DEF KeptOutputs
<1>2. DOMAIN produced = 1 .. Len(produced) /\ Len(produced) \in Nat
  BY DEF IsSequence
<1>3. kept \in SUBSET (1 .. Len(produced)) /\ kept \subseteq DOMAIN produced
  BY <1>2
<1>4. \A n \in kept : produced[n].type = "tensor"
  OBVIOUS
<1> HIDE DEF kept
<1>5. IsFiniteSet(kept) /\ C \in Nat
  <2>1. IsFiniteSet(1 .. Len(produced))
    BY <1>2, FS_Interval
  <2>2. IsFiniteSet(kept)
    BY <1>3, <2>1, FS_Subset
  <2> QED
    BY <2>2, FS_CardinalityType
<1>6. CASE kept = {}
  <2>1. C = 0
    BY <1>6, FS_EmptySet
  <2>2. outs = <<>>
    BY <2>1
  <2> QED
    BY <1>1, <2>2 DEF FirstOutput
<1>7. CASE kept # {}
  <2>1. C # 0
    BY <1>5, <1>7, FS_EmptySet
  <2>2. PICK n \in kept : \A m \in kept : n <= m
    BY <1>2, <1>3, <1>7, Smallest
  <2>3. {m \in kept : m < n} = {}
    BY <1>2, <1>3, <2>2
  <2>4. Cardinality({m \in kept : m < n}) = 0
    BY <2>3, FS_EmptySet
  <2>5. Nth(1) \in kept
    <3>1. \E m \in kept : Cardinality({j \in kept : j < m}) = 1 - 1
      BY <2>4
    <3> QED
      BY <3>1
  <2>6. 1 \in 1 .. C
    BY <1>5, <2>1
  <2> HIDE DEF Nth
  <2>7. outs # <<>> /\ outs[1] = produced[Nth(1)]
    BY <2>6
  <2> HIDE DEF outs
  <2>8. Head(outs) = produced[Nth(1)]
    BY <2>7
  <2> QED
    BY <1>1, <1>3, <1>4, <2>5, <2>7, <2>8 DEF FirstOutput
<1> QED
  BY <1>6, <1>7

LEMMA FirstAnswer ==
  ASSUME NEW session, NEW inputs, NEW computes, NEW produced, IsSequence(produced)
  PROVE  LET answers == OrtRun(session, inputs, computes, produced)
             first == FirstOutput(answers)
         IN
         \/ answers = <<>> /\ first = NoValue
         \/ \E n \in DOMAIN produced : first = produced[n] /\ first.type = "tensor"
<1>1. FirstOutput(<<>>) = NoValue
  BY DEF FirstOutput
<1>2. \/ OrtRun(session, inputs, computes, produced) = <<>>
      \/ OrtRun(session, inputs, computes, produced) = KeptOutputs(produced)
  BY DEF OrtRun
<1> QED
  BY <1>1, <1>2, FirstKept

(* What a run answers does not hang on the name of its first input: names   *)
(* are bound by position, and a model without names takes nothing.          *)
LEMMA FirstNameIgnored ==
  ASSUME NEW session, IsSequence(session.names), NEW computes, NEW produced,
         NEW d, NEW e, NEW c, NEW l,
         d.dtype = e.dtype, d.device = e.device, d.shape = e.shape, d.size = e.size,
         d.view = e.view
  PROVE  OrtRun(session, <<d, c, l>>, computes, produced) =
           OrtRun(session, <<e, c, l>>, computes, produced)
<1> DEFINE A == <<d, c, l>>
           B == <<e, c, l>>
<1>1. /\ A # <<>> /\ B # <<>> /\ DOMAIN A = {1, 2, 3} /\ DOMAIN B = {1, 2, 3}
      /\ A[1] = d /\ B[1] = e /\ A[2] = B[2] /\ A[3] = B[3]
  OBVIOUS
<1> HIDE DEF A, B
<1>2. Supported(session, d) = Supported(session, e)
  BY DEF Supported, TensorHostLayout, TensorDeviceView
<1>3. \A n \in {1, 2, 3} : Supported(session, A[n]) <=> Supported(session, B[n])
  BY <1>1, <1>2
<1> DEFINE P == {n \in {1, 2, 3} : Supported(session, A[n])}
<1>4. /\ Bound(session, A) = {BoundName(session, A, n) : n \in P}
      /\ Bound(session, B) = {BoundName(session, B, n) : n \in P}
  BY <1>1, <1>3 DEF Bound
<1> HIDE DEF P
<1>5. Len(session.names) \in Nat /\ DOMAIN session.names = 1 .. Len(session.names)
  BY DEF IsSequence
<1>6. CASE Len(session.names) = 0
  <2>1. {session.names[n] : n \in DOMAIN session.names} = {}
    BY <1>5, <1>6
  <2>2. \A inputs : ModelTakes(session, inputs) <=> Bound(session, inputs) = {}
    BY <2>1 DEF ModelTakes
  <2>3. \A inputs : OrtRun(session, inputs, computes, produced) = <<>>
    BY <2>2 DEF OrtRun
  <2> QED
    BY <2>3
<1>7. CASE Len(session.names) # 0
  <2>1. \A n \in {1, 2, 3} : BoundName(session, A, n) = BoundName(session, B, n)
    BY <1>1, <1>5, <1>7 DEF BoundName
  <2>2. Bound(session, A) = Bound(session, B)
    BY <1>1, <1>4, <2>1 DEF P
  <2>3. ModelTakes(session, A) <=> ModelTakes(session, B)
    BY <2>2 DEF ModelTakes
  <2>4. OrtRun(session, A, computes, produced) = OrtRun(session, B, computes, produced)
    BY <1>1, <2>2, <2>3 DEF OrtRun
  <2> QED
    BY <2>4 DEF A, B
<1> QED
  BY <1>6, <1>7

LEMMA FailuresEmpty ==
  /\ Finalize(Failed(NoScratch).scratch) = <<>>
  /\ \A error : Finalize(FailedWith(error, NoScratch).scratch) = <<>>
  /\ WithoutEmbedding(<<>>) = <<>>
  BY NothingThere, ErrorOnly DEF Failed, FailedWith, WithoutEmbedding

LEMMA EmbeddingTaken ==
  ASSUME NEW e
  PROVE  LET out == Finalize(Embedded(e, NoScratch)) IN
         EmbeddingOf(out) = e /\ WithoutEmbedding(out) = <<>>
<1> DEFINE f == [name |-> "image_embeddings", value |-> e]
           out == Finalize(Embedded(e, NoScratch))
<1>1. out = <<f>>
  BY EmbeddingOnly
<1>2. f.name = "image_embeddings" /\ f.value = e
  OBVIOUS
<1> HIDE DEF f, out
<1>3. out # <<>> /\ out[1] = f /\ Tail(out) = <<>>
  BY <1>1
<1>4. EmbeddingOf(out) = e /\ WithoutEmbedding(out) = <<>>
  BY <1>2, <1>3 DEF EmbeddingOf, WithoutEmbedding
<1> QED
  BY <1>4 DEF out

(* The decoder's part: from the embedding the encoder has made, in the same *)
(* run or handed in under its name, it makes the same masks.                *)
LEMMA DecodersAgree ==
  ASSUME NEW items, IsSequence(items), NEW spec, NEW cuda, NEW frame,
         SpecMembers \subseteq DOMAIN spec, IsSequence(spec.decoder.inputs),
         \A n \in DOMAIN items : items[n].name # "image_embeddings",
         NEW e, OnnxOutput(e), e.type = "tensor"
  PROVE  LET d == [e EXCEPT !.name = "image_embeddings"]
             more == Append(items, d)
             dec == [spec EXCEPT !.family = "efficient_sam_decoder", !.path = spec.aux]
             both == RunDecoder("combined", items, frame, spec, cuda,
                                DecoderEmbedding("combined", GivenEmbedding(items), e, cuda),
                                Embedded(e, NoScratch))
             last == RunDecoder("decoder", more, frame, dec, cuda,
                                DecoderEmbedding("decoder", GivenEmbedding(more), NoValue, cuda),
                                NoScratch)
         IN  WithoutEmbedding(Finalize(both.scratch)) = Finalize(last.scratch)
<1> DEFINE d == [e EXCEPT !.name = "image_embeddings"]
           more == Append(items, d)
           dec == [spec EXCEPT !.family = "efficient_sam_decoder", !.path = spec.aux]
           E == Embedded(e, NoScratch)
           used1 == DecoderEmbedding("combined", GivenEmbedding(items), e, cuda)
           used2 == DecoderEmbedding("decoder", GivenEmbedding(more), NoValue, cuda)
           both == RunDecoder("combined", items, frame, spec, cuda, used1, E)
           last == RunDecoder("decoder", more, frame, dec, cuda, used2, NoScratch)
           Agree == WithoutEmbedding(Finalize(both.scratch)) = Finalize(last.scratch)
<1> SUFFICES Agree
  OBVIOUS
<1>1. /\ d.name = "image_embeddings" /\ d.type = "tensor" /\ d.dtype = e.dtype
      /\ d.device = e.device /\ d.shape = e.shape /\ d.size = e.size /\ d.view = e.view
      /\ d.data = e.data
  BY DEF OnnxOutput, TensorMembers
<1>2. /\ dec.path = spec.aux /\ dec.device = spec.device /\ dec.decoder = spec.decoder
      /\ dec.computes = spec.computes /\ dec.decodes = spec.decodes
  BY DEF SpecMembers
<1> HIDE DEF d, dec
<1>3. GivenEmbedding(more) = d
  BY <1>1, FindAppended DEF GivenEmbedding
<1>4. Prompts(more, PromptSize(frame)) = Prompts(items, PromptSize(frame))
  <2>1. /\ Find(more, "box", "box") = Find(items, "box", "box")
        /\ Find(more, "points", "points") = Find(items, "points", "points")
        /\ Find(more, "point_labels", "floats") = Find(items, "point_labels", "floats")
    BY <1>1, FindOther
  <2> HIDE DEF more
  <2> QED
    BY <2>1 DEF Prompts
<1> HIDE DEF more
<1>5. Found(d) /\ Found(e)
  BY <1>1 DEF Found, NoValue
<1>6. \/ used1 = e /\ used2 = d
      \/ used1 = NoValue /\ used2 = NoValue
  <2>1. used1 = UsableEmbedding(e)
    BY DEF DecoderEmbedding
  <2>2. used2 = UsableEmbedding(IF TensorHostLayout(d) THEN d ELSE NoValue)
    BY <1>1, <1>3, <1>5 DEF DecoderEmbedding, MaterializeHostTensor, OnnxOutput
  <2>3. ~Found(NoValue)
    BY DEF Found
  <2>4. CASE e.shape = <<>>
    BY <1>1, <2>1, <2>2, <2>3, <2>4 DEF UsableEmbedding
  <2>5. CASE e.shape # <<>>
    <3>1. e.size \in Nat /\ e.size = ElementCount(e.shape) /\ e.device = "host"
      BY <2>5 DEF OnnxOutput
    <3>2. TensorHostLayout(d) <=> e.size > 0
      BY <1>1, <3>1 DEF TensorHostLayout
    <3> QED
      BY <1>1, <1>5, <2>1, <2>2, <2>3, <2>5, <3>2 DEF UsableEmbedding
  <2> QED
    BY <2>4, <2>5
<1> HIDE DEF used1, used2
<1>7. ASSUME both = Failed(E),
             \E error : last = Failed(NoScratch) \/ last = FailedWith(error, NoScratch)
      PROVE  Agree
  <2>1. both.scratch = E
    BY <1>7 DEF Failed
  <2>2. Finalize(last.scratch) = <<>>
    BY <1>7, FailuresEmpty
  <2> HIDE DEF both, last
  <2> QED
    BY <2>1, <2>2, EmbeddingTaken
<1>8. CASE used1 = NoValue /\ used2 = NoValue
  <2>1. both = Failed(E)
    BY <1>8 DEF RunDecoder, Found
  <2>2. last = Failed(NoScratch) \/ last = FailedWith("embedding", NoScratch)
    BY <1>8 DEF RunDecoder, Found
  <2> HIDE DEF both, last
  <2> QED
    BY <1>7, <2>1, <2>2
<1>9. CASE used1 = e /\ used2 = d
  <2> DEFINE session == DecoderSession("combined", spec)
             prompt == Prompts(items, PromptSize(frame))
  <2>1. session = DecoderSession("decoder", dec)
    BY <1>2 DEF DecoderSession
  <2>2. CASE spec.aux = ""
    <3>1. both = Failed(E)
      BY <1>5, <1>9, <2>2 DEF RunDecoder, RequiresDecoder
    <3>2. ~session.ready
      BY <2>2 DEF DecoderSession, OrtLoad, NotLoaded
    <3>3. last = Failed(NoScratch)
      BY <1>5, <1>9, <2>1, <3>2 DEF RunDecoder, RequiresDecoder, DecodeBest
    <3> HIDE DEF both, last
    <3> QED
      BY <1>7, <3>1, <3>3
  <2>3. CASE spec.aux # ""
    <3>1. /\ both = DecodeBest(session, spec, e, prompt, E)
          /\ last = DecodeBest(session, dec, d, prompt, NoScratch)
      BY <1>4, <1>5, <1>9, <2>1, <2>3 DEF RunDecoder, RequiresDecoder
    <3>2. CASE ~session.ready
      <4>1. both = Failed(E) /\ last = Failed(NoScratch)
        BY <3>1, <3>2 DEF DecodeBest
      <4> HIDE DEF both, last
      <4> QED
        BY <1>7, <4>1
    <3>3. CASE session.ready
      <4> DEFINE outputs == Decode(session, spec, e, prompt)
      <4>1. IsSequence(session.names)
        <5>1. session.names = <<>> \/ session.names = spec.decoder.inputs
          BY DEF DecoderSession, OrtLoad, NotLoaded
        <5>2. IsSequence(<<>>)
          BY DEF IsSequence
        <5> QED
          BY <5>1, <5>2
      <4>2. Decoded(dec, d, prompt) = Decoded(spec, e, prompt)
        BY <1>1, <1>2 DEF Decoded
      <4>3. Decode(session, dec, d, prompt) = outputs
        <5> HIDE DEF session, prompt
        <5>1. OrtRun(session, <<d, Coords(prompt), Labels(prompt)>>, spec.computes,
                     Decoded(spec, e, prompt))
                = OrtRun(session, <<e, Coords(prompt), Labels(prompt)>>, spec.computes,
                         Decoded(spec, e, prompt))
          BY <1>1, <4>1, FirstNameIgnored
        <5> QED
          BY <1>2, <4>2, <5>1 DEF Decode
      <4> HIDE DEF session, prompt, outputs
      <4>4. both = StoreBest(E, prompt, outputs) /\ last = StoreBest(NoScratch, prompt, outputs)
        BY <3>1, <3>3, <4>3 DEF DecodeBest, outputs
      <4> HIDE DEF both, last
      <4>5. CASE Len(outputs) < 2 \/ BestMask(outputs[1], outputs[2]) < 0
        <5>1. both = Failed(E) /\ last = Failed(NoScratch)
          BY <4>4, <4>5 DEF StoreBest
        <5> QED
          BY <1>7, <5>1 DEF both, last
      <4>6. CASE ~(Len(outputs) < 2 \/ BestMask(outputs[1], outputs[2]) < 0)
        <5> DEFINE offset == BestMask(outputs[1], outputs[2])
        <5>1. /\ both.scratch = Store(E, prompt, outputs[1], offset, outputs[2])
              /\ last.scratch = Store(NoScratch, prompt, outputs[1], offset, outputs[2])
          BY <4>4, <4>6 DEF StoreBest
        <5> HIDE DEF offset
        <5> QED
          BY <5>1, MaskStored
      <4> QED
        BY <4>5, <4>6
    <3> QED
      BY <3>2, <3>3
  <2> QED
    BY <2>2, <2>3
<1> QED
  BY <1>6, <1>8, <1>9

LEMMA SplitAlike ==
  ASSUME NEW items, IsSequence(items), NEW spec, NEW cuda,
         SpecMembers \subseteq DOMAIN spec,
         IsSequence(spec.embeds), IsSequence(spec.decoder.inputs),
         \A n \in DOMAIN spec.embeds : OnnxOutput(spec.embeds[n]),
         ParseFamily(spec.family) = "combined",
         \A n \in DOMAIN items : items[n].name # "image_embeddings"
  PROVE  LET both == RunModels(items, spec, cuda, NoScratch)
             enc == [spec EXCEPT !.family = "efficient_sam_encoder"]
             dec == [spec EXCEPT !.family = "efficient_sam_decoder", !.path = spec.aux]
             embedded == EmbeddingOf(Finalize(RunModels(items, enc, cuda, NoScratch).scratch))
             last == IF ~Found(embedded) THEN Failed(NoScratch)
                     ELSE RunModels(Append(items, [embedded EXCEPT !.name = "image_embeddings"]),
                                    dec, cuda, NoScratch)
         IN  WithoutEmbedding(Finalize(both.scratch)) = Finalize(last.scratch)
<1> DEFINE enc == [spec EXCEPT !.family = "efficient_sam_encoder"]
           dec == [spec EXCEPT !.family = "efficient_sam_decoder", !.path = spec.aux]
           frame == PromptFrame(items, cuda)
           both == RunModels(items, spec, cuda, NoScratch)
           first == RunModels(items, enc, cuda, NoScratch)
           embedded == EmbeddingOf(Finalize(first.scratch))
           more == Append(items, [embedded EXCEPT !.name = "image_embeddings"])
           last == IF ~Found(embedded) THEN Failed(NoScratch)
                   ELSE RunModels(more, dec, cuda, NoScratch)
           Agree == WithoutEmbedding(Finalize(both.scratch)) = Finalize(last.scratch)
<1> SUFFICES Agree
  OBVIOUS
<1>1. /\ enc.family = "efficient_sam_encoder" /\ enc.backend = spec.backend
      /\ enc.device = spec.device /\ enc.session = spec.session
      /\ enc.computes = spec.computes /\ enc.embeds = spec.embeds
  BY DEF SpecMembers
<1>2. dec.family = "efficient_sam_decoder" /\ dec.backend = spec.backend
  BY DEF SpecMembers
<1>3. /\ both = RunFamily("combined", items, frame, spec, cuda, NoScratch)
      /\ first = RunFamily("encoder", items, frame, enc, cuda, NoScratch)
      /\ \A its : RunModels(its, dec, cuda, NoScratch)
                    = RunFamily("decoder", its, PromptFrame(its, cuda), dec, cuda, NoScratch)
  BY <1>1, <1>2 DEF RunModels, ParseFamily
<1>4. ASSUME Finalize(both.scratch) = <<>>, Finalize(first.scratch) = <<>> PROVE Agree
  <2>1. ~Found(embedded)
    BY <1>4 DEF EmbeddingOf, Found
  <2>2. last = Failed(NoScratch)
    BY <2>1
  <2> HIDE DEF both, last
  <2> QED
    BY <1>4, <2>2, FailuresEmpty
<1>5. CASE spec.backend # "onnxruntime" \/ Refused(items, frame) \/ ~Found(frame)
  <2>1. \/ both = Failed(NoScratch) \/ \E error : both = FailedWith(error, NoScratch)
    BY <1>3, <1>5 DEF RunFamily, RequiresImage
  <2>2. \/ first = Failed(NoScratch) \/ \E error : first = FailedWith(error, NoScratch)
    BY <1>1, <1>3, <1>5 DEF RunFamily, RequiresImage
  <2> HIDE DEF both, first
  <2>3. Finalize(both.scratch) = <<>> /\ Finalize(first.scratch) = <<>>
    BY <2>1, <2>2, FailuresEmpty
  <2> QED
    BY <1>4, <2>3
<1>6. CASE ~(spec.backend # "onnxruntime" \/ Refused(items, frame) \/ ~Found(frame))
  <2> DEFINE input == EncoderInput(items, frame, spec, cuda)
             e == Embed(input, spec)
  <2>1. /\ both = RunEncoded("combined", items, frame, spec, cuda, input, e, NoScratch)
        /\ first = RunEncoded("encoder", items, frame, enc, cuda, input, e, NoScratch)
    <3>1. EncoderInput(items, frame, enc, cuda) = input
      BY <1>1 DEF EncoderInput, PrefersCuda
    <3>2. Embed(input, enc) = e
      BY <1>1 DEF Embed
    <3> HIDE DEF input, e, both, first, enc
    <3>3. first = RunEncoder("encoder", items, frame, enc, cuda, input, NoScratch)
      BY <1>1, <1>3, <1>6, <3>1 DEF RunFamily, RequiresImage
    <3>4. both = RunEncoder("combined", items, frame, spec, cuda, input, NoScratch)
      BY <1>3, <1>6 DEF RunFamily, RequiresImage, input
    <3> QED
      BY <3>2, <3>3, <3>4 DEF RunEncoder, e
  <2>2. CASE ~Found(e)
    <3>1. both = Failed(NoScratch) \/ both = FailedWith("encoder", NoScratch)
      BY <2>1, <2>2 DEF RunEncoded
    <3>2. first = Failed(NoScratch) \/ first = FailedWith("encoder", NoScratch)
      BY <2>1, <2>2 DEF RunEncoded
    <3> HIDE DEF both, first
    <3>3. Finalize(both.scratch) = <<>> /\ Finalize(first.scratch) = <<>>
      BY <3>1, <3>2, FailuresEmpty
    <3> QED
      BY <1>4, <3>3
  <2>3. CASE Found(e)
    <3>1. \E n \in DOMAIN spec.embeds : e = spec.embeds[n] /\ e.type = "tensor"
      BY <2>3, FirstAnswer DEF Embed, Found
    <3>2. OnnxOutput(e) /\ e.type = "tensor"
      BY <3>1
    <3> HIDE DEF input, e, enc, dec, frame
    <3>3. first = [ok |-> TRUE, scratch |-> Embedded(e, NoScratch)]
      BY <2>1, <2>3 DEF RunEncoded
    <3>4. first.scratch = Embedded(e, NoScratch)
      BY <3>3
    <3>5. embedded = e
      BY <3>4, EmbeddingTaken
    <3>6. both = RunDecoder("combined", items, frame, spec, cuda,
                            DecoderEmbedding("combined", GivenEmbedding(items), e, cuda),
                            Embedded(e, NoScratch))
      BY <2>1, <2>3 DEF RunEncoded
    <3> DEFINE d == [e EXCEPT !.name = "image_embeddings"]
    <3>7. more = Append(items, d)
      BY <3>5
    <3>8. d.name = "image_embeddings"
      BY <3>2 DEF OnnxOutput, TensorMembers
    <3> HIDE DEF both, first, embedded, more, d
    <3>9. /\ Find(more, "image", "image") = Find(items, "image", "image")
          /\ Find(more, "image", "frame") = Find(items, "image", "frame")
      BY <3>7, <3>8, FindOther
    <3>10. PromptFrame(more, cuda) = frame /\ ~Refused(more, frame)
      BY <1>6, <3>9 DEF PromptFrame, Refused, frame
    <3>11. last = RunFamily("decoder", more, frame, dec, cuda, NoScratch)
      BY <1>3, <2>3, <3>5, <3>10
    <3>12. last = RunDecoder("decoder", more, frame, dec, cuda,
                             DecoderEmbedding("decoder", GivenEmbedding(more), NoValue, cuda),
                             NoScratch)
      BY <1>2, <1>6, <3>10, <3>11 DEF RunFamily, RequiresImage
    <3> HIDE DEF last
    <3> QED
      <4> DEFINE gave == RunDecoder("combined", items, frame, spec, cuda,
                           DecoderEmbedding("combined", GivenEmbedding(items), e, cuda),
                           Embedded(e, NoScratch))
                 took == RunDecoder("decoder", Append(items, d), frame, dec, cuda,
                           DecoderEmbedding("decoder", GivenEmbedding(Append(items, d)),
                                            NoValue, cuda),
                           NoScratch)
      <4>1. WithoutEmbedding(Finalize(gave.scratch)) = Finalize(took.scratch)
        BY <3>2, DecodersAgree DEF d, dec
      <4>2. both = gave /\ last = took
        BY <3>6, <3>7, <3>12
      <4> HIDE DEF gave, took
      <4> QED
        BY <4>1, <4>2
  <2> QED
    BY <2>2, <2>3
<1> QED
  BY <1>5, <1>6

-----------------------------------------------------------------------------
(* A run on a packet.  Its result hangs on the scene and the way only: what *)
(* the scratch holds at every stage is known.                               *)
Request == BuildRequest(scene.items, scene.shape, scene.cuda)

CandidatesFound ==
  LET host == HostOutputs(DetectorAnswers(Request), scene.cuda)
      frame == FindImageFrame(scene.items)
  IN  IF Found(host) /\ Found(frame)
      THEN YoloCandidates(host.tensors, Request, frame, Confidence) ELSE <<>>

Detections(found) ==
  <<Field("detections", NonMaximumSuppression(found, OverlapPercent))>>

DetectionResult(w) ==
  IF Found(Request) THEN Detections(CandidatesFound)
  ELSE IF w = "pipeline" THEN <<>> ELSE Detections(<<>>)

PromptedResult(w) ==
  IF w = "pipeline" /\ ~RunOf(w).ok THEN <<>> ELSE Finalize(RunOf(w).scratch)

ScratchInv ==
  /\ stage # "start" => way \in Ways(scene.task)
  /\ stage = "backend" =>
       /\ scene.task = "detection" /\ Found(Request)
       /\ scratch = Put(NoScratch, "preprocess", Request)
  /\ stage = "postprocess" /\ scene.task = "detection" =>
       IF Found(Request)
       THEN scratch = Put(Put(NoScratch, "preprocess", Request),
                          "raw_outputs", DetectorAnswers(Request))
       ELSE way # "pipeline" /\ scratch = Put(NoScratch, "preprocess_error", TRUE)
  /\ stage = "infer" => scratch = NoScratch

FitsSchema(out) ==
  out # <<>> =>
    /\ Required(scene.task) \subseteq Names(out)
    /\ Names(out) \subseteq Allowed(scene.task)
    /\ Cardinality(Names(out)) = Len(out)

Result(w, out) ==
  /\ scene.task = "detection" => out = DetectionResult(w)
  /\ scene.task = "promptable" => out = PromptedResult(w)
  /\ FitsSchema(out)

RunInv ==
  /\ scene \in Scenes
  /\ ScratchInv
  /\ \A w \in DOMAIN results : w \in Ways(scene.task) /\ Result(w, results[w])

-----------------------------------------------------------------------------
LEMMA RunInitHolds == Init => RunInv
  BY DEF Init, Ready, RunInv, ScratchInv

(* A run ends: its result joins those of the runs before.                   *)
LEMMA Leaves ==
  ASSUME RunInv, NEW out, stage # "start", Leave(out), Result(way, out)
  PROVE  RunInv'
<1>1. scene' = scene /\ stage' = "start" /\ results' = Put(results, way, out)
  BY DEF Leave
<1>2. DOMAIN results' = DOMAIN results \cup {way}
      /\ \A w \in DOMAIN results' : results'[w] = IF w = way THEN out ELSE results[w]
  BY <1>1 DEF Put
<1>3. \A w, any : Result(w, any)' <=> Result(w, any)
  BY <1>1 DEF Result, DetectionResult, PromptedResult, Request, CandidatesFound, FitsSchema,
              DetectorAnswers, FrameCopied, RunOf, EncoderRun, DecoderRun
<1>4. \A w \in DOMAIN results' : w \in Ways(scene.task) /\ Result(w, results'[w])
  BY <1>2 DEF RunInv, ScratchInv
<1> QED
  BY <1>1, <1>3, <1>4 DEF RunInv, ScratchInv

(* One field after the other, with names that differ.                       *)
LEMMA OneField == ASSUME NEW k, NEW v PROVE Distinct(<<Field(k, v)>>, {k})
<1> DEFINE f == Field(k, v)
<1>1. f.name = k
  BY DEF Field
<1> HIDE DEF f
<1>2. Distinct(<<>> \o <<f>>, {} \cup {k})
  BY <1>1, DistinctNone, DistinctMore
<1>3. Distinct(<<f>>, {k})
  BY <1>2, JoinedNone
<1> QED
  BY <1>3 DEF f

LEMMA FieldsDistinct ==
  ASSUME NEW k, NEW l, NEW m, k # l, k # m, l # m, NEW v, NEW x, NEW y
  PROVE  /\ Distinct(<<Field(k, v), Field(l, x)>>, {k, l})
         /\ Distinct(<<Field(k, v)>> \o <<>> \o <<Field(l, x)>>, {k, l})
         /\ Distinct(<<Field(k, v)>> \o <<Field(m, y)>> \o <<Field(l, x)>>, {k, l, m})
<1> DEFINE f == Field(k, v)
           g == Field(l, x)
           h == Field(m, y)
<1>1. f.name = k /\ g.name = l /\ h.name = m
  BY DEF Field
<1> HIDE DEF f, g, h
<1>2. <<f>> \o <<>> = <<f>> /\ <<f>> \o <<g>> = <<f, g>>
  BY JoinedNone, JoinedOnes
<1>3. {k} \cup {l} = {k, l} /\ {k} \cup {m} \cup {l} = {k, l, m}
  OBVIOUS
<1>5. Distinct(<<f>>, {k})
  BY OneField DEF f
<1>6. Distinct(<<f>> \o <<g>>, {k} \cup {l})
  BY <1>1, <1>5, DistinctMore
<1>7. Distinct(<<f>> \o <<h>>, {k} \cup {m})
  BY <1>1, <1>5, DistinctMore
<1>8. Distinct(<<f>> \o <<h>> \o <<g>>, {k} \cup {m} \cup {l})
  BY <1>1, <1>7, DistinctMore
<1> QED
  BY <1>2, <1>3, <1>6, <1>8 DEF f, g, h

LEMMA Fits ==
  ASSUME NEW out, NEW names, Distinct(out, names),
         Required(scene.task) \subseteq names, names \subseteq Allowed(scene.task)
  PROVE  FitsSchema(out)
  BY DEF Distinct, FitsSchema

LEMMA NothingFits == FitsSchema(<<>>)
  BY DEF FitsSchema

LEMMA DetectionsFit ==
  ASSUME scene.task \in {"detection", "face_detection"}, NEW v
  PROVE  FitsSchema(<<Field("detections", v)>>)
<1>1. Distinct(<<Field("detections", v)>>, {"detections"})
  BY OneField
<1>2. Required(scene.task) = {"detections"} /\ {"detections"} \subseteq Allowed(scene.task)
  BY DEF Required, Allowed
<1> QED
  BY <1>1, <1>2, Fits

LEMMA PromptedFits ==
  ASSUME scene.task = "promptable", NEW s PROVE FitsSchema(Finalize(s))
<1>1. PICK names \in SUBSET PromptedFields : Distinct(Finalize(s), names)
  BY FinalizeFields
<1>2. Required(scene.task) = {} /\ PromptedFields \subseteq Allowed(scene.task)
  BY DEF Required, Allowed, PromptedFields
<1> QED
  BY <1>1, <1>2, Fits

LEMMA HostTaskFits ==
  ASSUME scene.task \in {"classification", "segmentation", "pose", "facemesh"},
         NEW outputs, NEW f
  PROVE  FitsSchema(HostTaskOutput(outputs, f))
<1>1. CASE scene.task = "classification"
  <2>1. HostTaskOutput(outputs, f) = Classify(outputs, scene.labels)
    BY <1>1 DEF HostTaskOutput
  <2>2. Classify(outputs, scene.labels) = <<>>
        \/ \E v, x : Classify(outputs, scene.labels) =
                       <<Field("classification", v), Field("scores", x)>>
    BY DEF Classify
  <2>3. Required(scene.task) = {"classification"}
        /\ Allowed(scene.task) = {"classification", "scores"}
    BY <1>1 DEF Required, Allowed
  <2>4. \A v, x : Distinct(<<Field("classification", v), Field("scores", x)>>,
                           {"classification", "scores"})
    BY FieldsDistinct
  <2> QED
    BY <2>1, <2>2, <2>3, <2>4, Fits, NothingFits
<1>2. CASE scene.task = "segmentation"
  <2>1. HostTaskOutput(outputs, f) = Segment(outputs, f)
    BY <1>2 DEF HostTaskOutput
  <2>2. Segment(outputs, f) = <<>>
        \/ \E v, x : Segment(outputs, f) = <<Field("mask", v), Field("logits", x)>>
    BY DEF Segment
  <2>3. Required(scene.task) = {"mask"} /\ Allowed(scene.task) = {"mask", "logits"}
    BY <1>2 DEF Required, Allowed
  <2>4. \A v, x : Distinct(<<Field("mask", v), Field("logits", x)>>, {"mask", "logits"})
    BY FieldsDistinct
  <2> QED
    BY <2>1, <2>2, <2>3, <2>4, Fits, NothingFits
<1>3. ASSUME NEW name, name \notin {"scores", "raw"}, NEW strides,
             Required(scene.task) = {name}, Allowed(scene.task) = {name, "scores", "raw"}
      PROVE  FitsSchema(PointOutput(outputs, name, strides))
  <2>1. PointOutput(outputs, name, strides) = <<>>
        \/ \E v, x, y :
             \/ PointOutput(outputs, name, strides)
                  = <<Field(name, v)>> \o <<>> \o <<Field("raw", x)>>
             \/ PointOutput(outputs, name, strides)
                  = <<Field(name, v)>> \o <<Field("scores", y)>> \o <<Field("raw", x)>>
    BY DEF PointOutput
  <2>2. \A v, x, y :
          /\ Distinct(<<Field(name, v)>> \o <<>> \o <<Field("raw", x)>>, {name, "raw"})
          /\ Distinct(<<Field(name, v)>> \o <<Field("scores", y)>> \o <<Field("raw", x)>>,
                      {name, "raw", "scores"})
    BY <1>3, FieldsDistinct
  <2>3. \A v, x, y :
          /\ FitsSchema(<<Field(name, v)>> \o <<>> \o <<Field("raw", x)>>)
          /\ FitsSchema(<<Field(name, v)>> \o <<Field("scores", y)>> \o <<Field("raw", x)>>)
    BY <1>3, <2>2, Fits
  <2> QED
    BY <2>1, <2>3, NothingFits
<1>4. CASE scene.task = "pose"
  <2>1. HostTaskOutput(outputs, f) = PointOutput(outputs, "keypoints", <<3, 2>>)
    BY <1>4 DEF HostTaskOutput
  <2>2. Required(scene.task) = {"keypoints"}
        /\ Allowed(scene.task) = {"keypoints", "scores", "raw"}
    BY <1>4 DEF Required, Allowed
  <2> QED
    BY <1>3, <2>1, <2>2
<1>5. CASE scene.task = "facemesh"
  <2>1. HostTaskOutput(outputs, f) = PointOutput(outputs, "landmarks", <<4, 3, 2>>)
    BY <1>5 DEF HostTaskOutput
  <2>2. Required(scene.task) = {"landmarks"}
        /\ Allowed(scene.task) = {"landmarks", "scores", "raw"}
    BY <1>5 DEF Required, Allowed
  <2> QED
    BY <1>3, <2>1, <2>2
<1> QED
  BY <1>1, <1>2, <1>4, <1>5

-----------------------------------------------------------------------------
LEMMA StartHolds == ASSUME RunInv, NEW w, Start(w) PROVE RunInv'
<1>1. /\ scene' = scene /\ results' = results /\ stage' = "infer" /\ scratch' = NoScratch
      /\ way' \in Ways(scene.task)
  BY DEF Start
<1>2. \A v, any : Result(v, any)' <=> Result(v, any)
  BY <1>1 DEF Result, DetectionResult, PromptedResult, Request, CandidatesFound, FitsSchema,
              DetectorAnswers, FrameCopied, RunOf, EncoderRun, DecoderRun
<1> QED
  BY <1>1, <1>2 DEF RunInv, ScratchInv

(* Within a run the results stay.                                           *)
LEMMA RunGoesOn ==
  ASSUME RunInv, Untouched, ScratchInv' PROVE RunInv'
<1>1. scene' = scene /\ results' = results
  BY DEF Untouched
<1>2. \A v, any : Result(v, any)' <=> Result(v, any)
  BY <1>1 DEF Result, DetectionResult, PromptedResult, Request, CandidatesFound, FitsSchema,
              DetectorAnswers, FrameCopied, RunOf, EncoderRun, DecoderRun
<1> QED
  BY <1>1, <1>2 DEF RunInv

LEMMA PrepareHolds == ASSUME RunInv, PrepareDetection PROVE RunInv'
<1>1. /\ scene.task = "detection" /\ stage = "infer" /\ scratch = NoScratch
      /\ way \in Ways(scene.task)
  BY DEF PrepareDetection, RunInv, ScratchInv
<1>2. CASE Found(Request)
  <2>1. Untouched /\ stage' = "backend" /\ scratch' = Put(scratch, "preprocess", Request)
    BY <1>2 DEF PrepareDetection, Request
  <2>2. scene' = scene /\ way' = way
    BY <2>1 DEF Untouched
  <2>3. Request' = Request
    BY <2>2 DEF Request
  <2>4. ScratchInv'
    BY <1>1, <1>2, <2>1, <2>2, <2>3 DEF ScratchInv
  <2> QED
    BY <2>1, <2>4, RunGoesOn
<1>3. CASE ~Found(Request) /\ way = "pipeline"
  <2>1. Leave(<<>>)
    BY <1>3 DEF PrepareDetection, Request
  <2>2. Result(way, <<>>)
    BY <1>1, <1>3, NothingFits DEF Result, DetectionResult
  <2> QED
    BY <1>1, <2>1, <2>2, Leaves
<1>4. CASE ~Found(Request) /\ way # "pipeline"
  <2>1. /\ Untouched /\ stage' = "postprocess"
        /\ scratch' = Put(scratch, "preprocess_error", TRUE)
    BY <1>4 DEF PrepareDetection, Request
  <2>2. scene' = scene /\ way' = way
    BY <2>1 DEF Untouched
  <2>3. Request' = Request
    BY <2>2 DEF Request
  <2>4. ScratchInv'
    BY <1>1, <1>4, <2>1, <2>2, <2>3 DEF ScratchInv
  <2> QED
    BY <2>1, <2>4, RunGoesOn
<1> QED
  BY <1>2, <1>3, <1>4

LEMMA AnswersHolds == ASSUME RunInv, BackendAnswers PROVE RunInv'
<1>1. /\ scene.task = "detection" /\ Found(Request) /\ way \in Ways(scene.task)
      /\ scratch = Put(NoScratch, "preprocess", Request)
  BY DEF BackendAnswers, RunInv, ScratchInv
<1>2. scratch["preprocess"] = Request
  BY <1>1 DEF Put
<1>3. /\ Untouched /\ stage' = "postprocess"
      /\ scratch' = Put(scratch, "raw_outputs", DetectorAnswers(Request))
  BY <1>2 DEF BackendAnswers
<1>4. scene' = scene /\ way' = way
  BY <1>3 DEF Untouched
<1>5. Request' = Request /\ DetectorAnswers(Request)' = DetectorAnswers(Request)
  BY <1>4 DEF Request, DetectorAnswers, FrameCopied
<1>6. ScratchInv'
  BY <1>1, <1>3, <1>4, <1>5 DEF ScratchInv
<1> QED
  BY <1>3, <1>6, RunGoesOn

(* What the postprocessing finds in its packet.                             *)
LEMMA AnswersThere ==
  ASSUME RunInv, PostprocessDetection
  PROVE  IF Found(Request)
         THEN /\ scratch["preprocess"] = Request
              /\ DetectorOutputs = HostOutputs(DetectorAnswers(Request), scene.cuda)
         ELSE way # "pipeline" /\ DetectorOutputs = NoValue
<1>1. scene.task = "detection" /\ stage = "postprocess"
  BY DEF PostprocessDetection
<1> DEFINE ask == DetectorAnswers(Request)
<1>2. CASE Found(Request)
  <2>1. scratch = Put(Put(NoScratch, "preprocess", Request), "raw_outputs", ask)
    BY <1>1, <1>2 DEF RunInv, ScratchInv
  <2>2. /\ DOMAIN scratch = {"preprocess", "raw_outputs"}
        /\ scratch["preprocess"] = Request /\ scratch["raw_outputs"] = ask
    BY <2>1, NothingThere DEF Put
  <2> QED
    BY <1>2, <2>2 DEF DetectorOutputs
<1>3. CASE ~Found(Request)
  <2>1. way # "pipeline" /\ scratch = Put(NoScratch, "preprocess_error", TRUE)
    BY <1>1, <1>3 DEF RunInv, ScratchInv
  <2>2. DOMAIN scratch = {"preprocess_error"}
    BY <2>1, NothingThere DEF Put
  <2> QED
    BY <1>3, <2>1, <2>2 DEF DetectorOutputs
<1> QED
  BY <1>2, <1>3

(* Where the candidates come from.                                          *)
LEMMA PostprocessedFrom ==
  ASSUME RunInv, PostprocessDetection
  PROVE  candidates' = IF Found(Request) THEN CandidatesFound ELSE <<>>
<1>1. CASE Found(Request)
  BY <1>1, AnswersThere DEF PostprocessDetection, CandidatesFound
<1>2. CASE ~Found(Request)
  <2>1. ~Found(DetectorOutputs)
    BY <1>2, AnswersThere DEF Found
  <2>2. candidates' = <<>>
    BY <2>1 DEF PostprocessDetection
  <2> QED
    BY <1>2, <2>2
<1> QED
  BY <1>1, <1>2

LEMMA PostprocessHolds == ASSUME RunInv, PostprocessDetection PROVE RunInv'
<1>1. scene.task = "detection" /\ stage = "postprocess"
  BY DEF PostprocessDetection
<1>2. ~Found(Request) => way # "pipeline"
  BY AnswersThere
<1>3. output' = Detections(candidates') /\ Leave(output')
  BY DEF PostprocessDetection, Detections
<1>4. output' = DetectionResult(way)
  BY <1>2, <1>3, PostprocessedFrom DEF DetectionResult
<1>5. Leave(DetectionResult(way))
  BY <1>3, <1>4
<1>6. Result(way, DetectionResult(way))
  <2>1. \E v : DetectionResult(way) = <<Field("detections", v)>>
    BY <1>2 DEF DetectionResult, Detections
  <2> QED
    BY <1>1, <2>1, DetectionsFit DEF Result
<1> QED
  BY <1>1, <1>5, <1>6, Leaves

LEMMA PromptableHolds == ASSUME RunInv, RunPromptable PROVE RunInv'
<1>1. scene.task = "promptable" /\ stage = "infer"
  BY DEF RunPromptable
<1>2. output' = PromptedResult(way) /\ Leave(output')
  BY DEF RunPromptable, PromptedResult
<1>3. Leave(PromptedResult(way))
  BY <1>2
<1>4. FitsSchema(PromptedResult(way))
  BY <1>1, PromptedFits, NothingFits DEF PromptedResult
<1>5. Result(way, PromptedResult(way))
  BY <1>1, <1>4 DEF Result
<1> QED
  BY <1>1, <1>3, <1>5, Leaves

LEMMA HostTaskHolds == ASSUME RunInv, RunHostTask PROVE RunInv'
<1>1. /\ scene.task \in {"classification", "segmentation", "pose", "facemesh"}
      /\ stage = "infer"
  BY DEF RunHostTask, HostTask
<1>2. PICK out : Leave(out) /\ (out = <<>> \/ \E outputs, f : out = HostTaskOutput(outputs, f))
  BY DEF RunHostTask
<1>3. FitsSchema(out)
  BY <1>1, <1>2, HostTaskFits, NothingFits
<1>4. Result(way, out)
  BY <1>1, <1>3 DEF Result
<1> QED
  BY <1>1, <1>2, <1>4, Leaves

LEMMA FacesHolds == ASSUME RunInv, RunFaces PROVE RunInv'
<1>1. scene.task = "face_detection" /\ stage = "infer"
  BY DEF RunFaces
<1>2. PICK out : Leave(out) /\ (out = <<>> \/ \E v : out = <<Field("detections", v)>>)
  BY DEF RunFaces, DetectFaces
<1>3. FitsSchema(out)
  BY <1>1, <1>2, DetectionsFit, NothingFits
<1>4. Result(way, out)
  BY <1>1, <1>3 DEF Result
<1> QED
  BY <1>1, <1>2, <1>4, Leaves

LEMMA RunStepHolds == RunInv /\ [Next]_vars => RunInv'
<1> SUFFICES ASSUME RunInv, [Next]_vars PROVE RunInv'
  OBVIOUS
<1>1. CASE UNCHANGED vars
  <2>1. UNCHANGED <<scene, way, stage, scratch, results>>
    BY <1>1 DEF vars
  <2>2. \A v, any : Result(v, any)' <=> Result(v, any)
    BY <2>1 DEF Result, DetectionResult, PromptedResult, Request, CandidatesFound, FitsSchema,
                DetectorAnswers, FrameCopied, RunOf, EncoderRun, DecoderRun
  <2>3. ScratchInv'
    BY <2>1 DEF RunInv, ScratchInv, Request, DetectorAnswers, FrameCopied
  <2> QED
    BY <2>1, <2>2, <2>3 DEF RunInv
<1> QED
  BY <1>1, StartHolds, PrepareHolds, AnswersHolds, PostprocessHolds, PromptableHolds,
     HostTaskHolds, FacesHolds DEF Next

-----------------------------------------------------------------------------
(* What the ways have to do with each other.                                *)
LEMMA KnownWay ==
  ASSUME RunInv, NEW w \in DOMAIN results, w # "process"
  PROVE  scene.task \in {"detection", "promptable"}
  BY DEF RunInv, Ways

LEMMA NodesAlike == RunInv => NodesAgree
<1> SUFFICES ASSUME RunInv, Ended({"process", "submit"})
             PROVE  results["process"] = results["submit"]
  BY DEF NodesAgree
<1>1. Result("process", results["process"]) /\ Result("submit", results["submit"])
  BY DEF RunInv, Ended
<1>2. CASE scene.task = "detection"
  BY <1>1, <1>2 DEF Result, DetectionResult
<1>3. CASE scene.task = "promptable"
  <2>1. RunOf("process") = RunOf("submit")
    BY DEF RunOf
  <2> QED
    BY <1>1, <1>3, <2>1 DEF Result, PromptedResult
<1> QED
  BY <1>2, <1>3, KnownWay DEF Ended

LEMMA PipelineAlike == RunInv => PipelineAgrees
<1> SUFFICES ASSUME RunInv, Ended({"process", "pipeline"}) PROVE PipelineAgrees
  BY DEF PipelineAgrees
<1>1. Result("process", results["process"]) /\ Result("pipeline", results["pipeline"])
  BY DEF RunInv, Ended
<1>2. CASE scene.task = "detection"
  <2>1. CASE Found(Request)
    <3>1. results["process"] = results["pipeline"]
      BY <1>1, <1>2, <2>1 DEF Result, DetectionResult
    <3> QED
      BY <3>1 DEF PipelineAgrees
  <2>2. CASE ~Found(Request)
    <3>1. results["pipeline"] = <<>> /\ results["process"] = <<Field("detections", <<>>)>>
      BY <1>1, <1>2, <2>2, NothingSuppressed DEF Result, DetectionResult, Detections
    <3> QED
      BY <1>2, <2>2, <3>1 DEF PipelineAgrees, PreparesNothing, Request
  <2> QED
    BY <2>1, <2>2
<1>3. CASE scene.task = "promptable"
  <2> DEFINE run == RunModels(scene.items, scene.spec, scene.cuda, NoScratch)
  <2>1. RunOf("process") = run /\ RunOf("pipeline") = run
    BY DEF RunOf
  <2>2. /\ results["process"] = Finalize(run.scratch)
        /\ results["pipeline"] = IF ~run.ok THEN <<>> ELSE Finalize(run.scratch)
    BY <1>1, <1>3, <2>1 DEF Result, PromptedResult
  <2>3. \/ run.ok = TRUE
        \/ Finalize(run.scratch) = <<>>
        \/ /\ ParseFamily(scene.spec.family) = "combined"
           /\ \E e : run.scratch = Embedded(e, NoScratch)
    BY RunFails
  <2> HIDE DEF run
  <2>4. CASE run.ok = TRUE \/ Finalize(run.scratch) = <<>>
    <3>1. results["process"] = results["pipeline"]
      BY <2>2, <2>4
    <3> QED
      BY <3>1 DEF PipelineAgrees
  <2>5. CASE /\ ~(run.ok = TRUE) /\ ParseFamily(scene.spec.family) = "combined"
             /\ \E e : run.scratch = Embedded(e, NoScratch)
    <3>1. CASE run.ok
      <4>1. results["process"] = results["pipeline"]
        BY <2>2, <3>1
      <4> QED
        BY <4>1 DEF PipelineAgrees
    <3>2. CASE ~run.ok
      <4>1. PICK e : run.scratch = Embedded(e, NoScratch)
        BY <2>5
      <4>2. /\ results["pipeline"] = <<>>
            /\ results["process"] = <<[name |-> "image_embeddings", value |-> e]>>
        BY <2>2, <3>2, <4>1, EmbeddingOnly
      <4>3. Names(results["process"]) = {"image_embeddings"}
        BY <4>2 DEF Names
      <4> QED
        BY <1>3, <2>5, <4>2, <4>3 DEF PipelineAgrees
    <3> QED
      BY <3>1, <3>2
  <2> QED
    BY <2>3, <2>4, <2>5
<1> QED
  BY <1>2, <1>3, KnownWay DEF Ended

LEMMA SplitAlikeToo == RunInv => SplitAgrees
<1> SUFFICES ASSUME RunInv, Ended({"process", "split"}),
                    ParseFamily(scene.spec.family) = "combined", NoEmbeddingGiven
             PROVE  WithoutEmbedding(results["process"]) = results["split"]
  BY DEF SplitAgrees
<1>1. scene.task = "promptable"
  BY DEF RunInv, Ended, Ways
<1>2. /\ SpecMembers \subseteq DOMAIN scene.spec
      /\ IsSequence(scene.items) /\ IsSequence(scene.spec.embeds)
      /\ IsSequence(scene.spec.decoder.inputs)
      /\ \A n \in DOMAIN scene.spec.embeds : OnnxOutput(scene.spec.embeds[n])
  BY <1>1, ScenesAssumption DEF RunInv, PromptableScene
<1>3. Result("process", results["process"]) /\ Result("split", results["split"])
  BY DEF RunInv, Ended
<1>4. /\ results["process"] = Finalize(RunOf("process").scratch)
      /\ results["split"] = Finalize(RunOf("split").scratch)
  BY <1>1, <1>3 DEF Result, PromptedResult
<1>5. WithoutEmbedding(Finalize(RunOf("process").scratch)) = Finalize(RunOf("split").scratch)
  BY <1>2, SplitAlike DEF NoEmbeddingGiven, RunOf, EncoderRun, DecoderRun
<1> QED
  BY <1>4, <1>5

-----------------------------------------------------------------------------
LEMMA RunAlways == Spec => []RunInv
  BY RunInitHolds, RunStepHolds, PTL DEF Spec

(* A task answers the same input alike, whichever way the library runs it:  *)
(* the graph in the caller's thread or in others, the pipeline in one piece *)
(* and the two models one after the other                                   *)
(* (detection_pipeline.cpp:226-242, promptable pipeline 549-609,            *)
(* graph.cpp:208-275, 324-391).                                             *)
THEOREM WaysAgree == Spec => []SameResult
<1>1. RunInv => SameResult
  BY NodesAlike, PipelineAlike, SplitAlikeToo DEF SameResult
<1> QED
  BY <1>1, RunAlways, PTL

(* Every output is empty or fits the schema of its task                     *)
(* (registry.cpp:26-107 against the six pipelines).                         *)
THEOREM OutputsFit == Spec => []SchemaKept
<1>1. RunInv => SchemaKept
  BY DEF RunInv, Result, FitsSchema, SchemaKept
<1> QED
  BY <1>1, RunAlways, PTL

-----------------------------------------------------------------------------
(* Candidates listed row by row are the candidates of the rows.             *)
LEMMA RowOrderTotal ==
  ASSUME NEW S \in SUBSET (Int \X Int) PROVE TotallyOrders(RowOrder(S), S)
<1> DEFINE R == RowOrder(S)
<1>1. \A a, b \in S : <<a, b>> \in R <=> (a[1] < b[1] \/ (a[1] = b[1] /\ a[2] < b[2]))
  BY DEF RowOrder
<1>2. \A a \in S : a[1] \in Int /\ a[2] \in Int /\ a = <<a[1], a[2]>>
  OBVIOUS
<1> HIDE DEF R
<1>3. \A a \in S : <<a, a>> \notin R
  BY <1>1, <1>2
<1>4. \A a, b, c \in S : <<a, b>> \in R /\ <<b, c>> \in R => <<a, c>> \in R
  BY <1>1, <1>2
<1>5. ASSUME NEW a \in S, NEW b \in S PROVE a = b \/ <<a, b>> \in R \/ <<b, a>> \in R
  <2>1. CASE a[1] = b[1] /\ a[2] = b[2]
    <3>1. a = <<a[1], a[2]>> /\ b = <<b[1], b[2]>>
      BY <1>2
    <3> QED
      BY <2>1, <3>1
  <2>2. CASE ~(a[1] = b[1] /\ a[2] = b[2])
    <3>1. \/ a[1] < b[1] \/ (a[1] = b[1] /\ a[2] < b[2])
          \/ b[1] < a[1] \/ (b[1] = a[1] /\ b[2] < a[2])
      BY <1>2, <2>2
    <3> QED
      BY <1>1, <3>1
  <2> QED
    BY <2>1, <2>2
<1> QED
  BY <1>3, <1>4, <1>5 DEF TotallyOrders, R

(* What the suppression needs of the candidates.                            *)
Scored(found) == \E S : found \in Seq(S) /\ \A c \in S : c.score \in Int

LEMMA CandidatesScored ==
  ASSUME NEW S \in SUBSET (Int \X Int), IsFiniteSet(S), NEW candidate,
         DOMAIN candidate = S, \A p \in S : candidate[p].score \in Int
  PROVE  Scored(CandidatesFrom(candidate))
<1> DEFINE place == InOrder(S, RowOrder(S))
           C == {candidate[p] : p \in S}
           found == [k \in DOMAIN place |-> candidate[place[k]]]
           n == Cardinality(S)
<1>1. place \in Seq(S) /\ Len(place) = n /\ DOMAIN place = 1 .. n
  BY RowOrderTotal, InOrderLists
<1>2. n \in Nat
  BY FS_CardinalityType
<1>3. CandidatesFrom(candidate) = found
  BY DEF CandidatesFrom
<1> HIDE DEF place, n
<1>4. \A k \in 1 .. n : place[k] \in S
  BY <1>1
<1>5. found \in [1 .. n -> C]
  BY <1>1, <1>4
<1>6. \A c \in C : c.score \in Int
  OBVIOUS
<1> HIDE DEF found, C
<1>7. found \in Seq(C)
  BY <1>2, <1>5
<1> QED
  BY <1>3, <1>6, <1>7 DEF Scored

(* Rows of finitely many outputs are finitely many.                         *)
LEMMA RowsFinite ==
  ASSUME NEW N \in SUBSET Int, IsFiniteSet(N), NEW count, \A n \in N : count[n] \in Int
  PROVE  LET rows == UNION {{n} \X (0 .. count[n] - 1) : n \in N} IN
         rows \in SUBSET (Int \X Int) /\ IsFiniteSet(rows)
<1> DEFINE Of(n) == {n} \X (0 .. count[n] - 1)
           all == {Of(n) : n \in N}
<1>1. ASSUME NEW n \in N PROVE IsFiniteSet(Of(n))
  <2> DEFINE last == count[n] - 1
  <2>0. last \in Int
    OBVIOUS
  <2>1. IsFiniteSet({n})
    BY FS_Singleton
  <2>2. IsFiniteSet(0 .. last)
    <3> HIDE DEF last
    <3> QED
      BY <2>0, FS_Interval
  <2> QED
    BY <2>1, <2>2, FS_Product
<1>2. IsFiniteSet(all)
  <2> DEFINE f == [n \in N |-> Of(n)]
  <2>1. f \in Surjection(N, all)
    BY DEF Surjection
  <2> HIDE DEF all, f
  <2> QED
    BY <2>1, FS_Surjection
<1>3. IsFiniteSet(UNION all)
  BY <1>1, <1>2, FS_UNION
<1>4. UNION all \in SUBSET (Int \X Int)
  OBVIOUS
<1> QED
  BY <1>3, <1>4

-----------------------------------------------------------------------------
(* Tensors whose elements are whole numbers give candidates that can be     *)
(* put in order.                                                            *)
Whole(t) == t.shape \in Seq(Int) /\ \A n \in DOMAIN t.data : t.data[n] \in Int

AllWhole(outputs) ==
  /\ DOMAIN outputs \in SUBSET Int /\ IsFiniteSet(DOMAIN outputs)
  /\ \A n \in DOMAIN outputs : Whole(outputs[n])

LEMMA ElementWhole == \A t : Whole(t) => \A index : Element(t, index) \in Int
  BY DEF Whole, Element

LEMMA Dimensions ==
  ASSUME NEW shape \in Seq(Int)
  PROVE  /\ Len(shape) \in Nat
         /\ \A n \in 1 .. Len(shape) : shape[n] \in Int
         /\ \A n \in 1 .. Len(shape) : AtLeast(1, shape[n]) \in Nat \ {0}
  BY DEF AtLeast

LEMMA LastPlaces == \A rank \in {2, 3} : rank - 1 \in 1 .. rank /\ rank \in 1 .. rank
  OBVIOUS

LEMMA YoloLayoutWhole ==
  ASSUME NEW shape \in Seq(Int)
  PROVE  YoloLayout(shape).boxes \in Nat /\ YoloLayout(shape).attrs \in Nat
<1> DEFINE Fine(layout) == layout.boxes \in Nat /\ layout.attrs \in Nat
<1>1. \A a, b \in Nat : Fine(LayoutOf(a, b))
  BY DEF LayoutOf
<1>2. CASE Len(shape) \in {2, 3}
  <2>0. Len(shape) - 1 \in 1 .. Len(shape) /\ Len(shape) \in 1 .. Len(shape)
    BY <1>2, LastPlaces
  <2>1. /\ AtLeast(1, shape[Len(shape) - 1]) \in Nat
        /\ AtLeast(1, shape[Len(shape)]) \in Nat
    BY <2>0, Dimensions
  <2> HIDE DEF Fine
  <2> QED
    BY <1>1, <1>2, <2>1 DEF YoloLayout, Fine
<1>3. CASE Len(shape) \notin {2, 3}
  <2> HIDE DEF Fine
  <2>1. YoloLayout(shape) = LayoutOf(1, 1)
    BY <1>3 DEF YoloLayout
  <2>2. Fine(LayoutOf(1, 1))
    BY <1>1
  <2> QED
    BY <2>1, <2>2 DEF Fine
<1> QED
  BY <1>2, <1>3

LEMMA BestClassThere ==
  ASSUME NEW score, NEW attrs \in Int, ~(BestClass(score, attrs) < 0)
  PROVE  BestClass(score, attrs) \in 0 .. attrs - 5
<1> DEFINE best == {c \in 0 .. attrs - 5 :
                      /\ score[c] > 0
                      /\ \A d \in 0 .. attrs - 5 : score[d] <= score[c]}
<1>1. BestClass(score, attrs) =
        IF best = {} THEN -1 ELSE CHOOSE c \in best : \A d \in best : c <= d
  BY DEF BestClass
<1>2. best \in SUBSET Nat /\ best \subseteq 0 .. attrs - 5
  OBVIOUS
<1> HIDE DEF best
<1>3. CASE best = {}
  BY <1>1, <1>3
<1>4. CASE best # {}
  <2>1. \E c \in best : \A d \in best : c <= d
    BY <1>2, <1>4, Smallest
  <2> QED
    BY <1>1, <1>2, <1>4, <2>1
<1> QED
  BY <1>3, <1>4

LEMMA RowScored ==
  ASSUME NEW t, Whole(t), NEW row, NEW lb, NEW f
  PROVE  ParseRow(t, YoloLayout(t.shape), row, lb, f).score \in Int
<1> DEFINE layout == YoloLayout(t.shape)
           scores == RowScores(t, layout, row)
           class == BestClass(scores, layout.attrs)
<1>1. layout.attrs \in Int
  BY YoloLayoutWhole DEF Whole
<1>2. \E box : ParseRow(t, layout, row, lb, f) = YoloCandidate(box, class, scores)
  BY DEF ParseRow
<1>3. \A c \in 0 .. layout.attrs - 5 : scores[c] \in Int
  BY ElementWhole DEF RowScores
<1> HIDE DEF layout, scores
<1>4. ~(class < 0) => scores[class] \in Int
  BY <1>1, <1>3, BestClassThere
<1> HIDE DEF class
<1>5. \A box : YoloCandidate(box, class, scores).score \in Int
  BY <1>4 DEF YoloCandidate
<1> QED
  BY <1>2, <1>5 DEF layout, scores, class

LEMMA YoloScored ==
  ASSUME NEW outputs, AllWhole(outputs), NEW lb, NEW f, NEW confidence
  PROVE  Scored(YoloCandidates(outputs, lb, f, confidence))
<1> DEFINE N == {m \in DOMAIN outputs : outputs[m].size # 0}
           count == [n \in N |-> YoloLayout(outputs[n].shape).boxes]
           rows == UNION {{n} \X (0 .. count[n] - 1) : n \in N}
           Parsed(p) == ParseRow(outputs[p[1]], YoloLayout(outputs[p[1]].shape), p[2], lb, f)
           taken == {p \in YoloRows(outputs) : Taken(Parsed(p), confidence)}
           candidate == [p \in taken |-> Parsed(p)]
<1>1. /\ N \in SUBSET Int /\ IsFiniteSet(N) /\ N \subseteq DOMAIN outputs
      /\ \A n \in N : count[n] \in Int
  BY FS_Subset, YoloLayoutWhole DEF AllWhole, Whole
<1>2. YoloRows(outputs) = rows
  BY DEF YoloRows
<1> HIDE DEF N, count
<1>3. rows \in SUBSET (Int \X Int) /\ IsFiniteSet(rows)
  BY <1>1, RowsFinite
<1>4. \A p \in rows : p[1] \in N
  OBVIOUS
<1> HIDE DEF rows
<1>5. taken \in SUBSET (Int \X Int) /\ IsFiniteSet(taken) /\ taken \subseteq rows
  BY <1>2, <1>3, FS_Subset
<1>6. \A p \in taken : Parsed(p).score \in Int
  BY <1>1, <1>4, <1>5, RowScored DEF AllWhole
<1>7. YoloCandidates(outputs, lb, f, confidence) = CandidatesFrom(candidate)
  BY DEF YoloCandidates
<1>8. DOMAIN candidate = taken /\ \A p \in taken : candidate[p].score \in Int
  BY <1>6
<1> HIDE DEF taken, candidate
<1> QED
  BY <1>5, <1>7, <1>8, CandidatesScored

LEMMA RowLayoutWhole ==
  ASSUME NEW shape \in Seq(Int)
  PROVE  RowLayout(shape).boxes \in Nat /\ RowLayout(shape).attrs \in Nat
<1> DEFINE rank == Len(shape)
           a == IF rank \in {2, 3} THEN AtLeast(1, shape[rank - 1]) ELSE 1
           b == IF rank \in {2, 3} THEN AtLeast(1, shape[rank]) ELSE 1
<1>1. a \in Nat /\ b \in Nat
  <2>1. CASE rank \in {2, 3}
    <3>1. rank - 1 \in 1 .. rank /\ rank \in 1 .. rank
      BY <2>1, LastPlaces
    <3> QED
      BY <2>1, <3>1, Dimensions
  <2>2. CASE rank \notin {2, 3}
    BY <2>2
  <2> QED
    BY <2>1, <2>2
<1>2. RowLayout(shape) \in {[boxes |-> a, attrs |-> b, transposed |-> FALSE],
                            [boxes |-> b, attrs |-> a, transposed |-> TRUE],
                            [boxes |-> 0, attrs |-> 0, transposed |-> FALSE]}
  BY DEF RowLayout
<1> HIDE DEF a, b
<1> QED
  BY <1>1, <1>2

LEMMA FaceRowsScored ==
  ASSUME NEW outputs, AllWhole(outputs), NEW f, NEW confidence
  PROVE  Scored(ParseFaceRows(outputs, f, confidence))
<1> DEFINE N == {m \in DOMAIN outputs :
                   outputs[m].size # 0 /\ RowsFit(RowLayout(outputs[m].shape), outputs[m].size)}
           count == [n \in N |-> RowLayout(outputs[n].shape).boxes]
           rows == UNION {{n} \X (0 .. count[n] - 1) : n \in N}
           Parsed(p) == ParseFaceRow(outputs[p[1]], RowLayout(outputs[p[1]].shape), p[2], f)
           taken == {p \in FaceRows(outputs) :
                       Parsed(p).score >= confidence /\ HasArea(Parsed(p))}
           candidate == [p \in taken |-> Parsed(p)]
<1>1. /\ N \in SUBSET Int /\ IsFiniteSet(N) /\ N \subseteq DOMAIN outputs
      /\ \A n \in N : count[n] \in Int
  BY FS_Subset, RowLayoutWhole DEF AllWhole, Whole
<1>2. FaceRows(outputs) = rows
  BY DEF FaceRows
<1> HIDE DEF N, count
<1>3. rows \in SUBSET (Int \X Int) /\ IsFiniteSet(rows)
  BY <1>1, RowsFinite
<1>4. \A p \in rows : p[1] \in N
  OBVIOUS
<1> HIDE DEF rows
<1>5. taken \in SUBSET (Int \X Int) /\ IsFiniteSet(taken) /\ taken \subseteq rows
  BY <1>2, <1>3, FS_Subset
<1>6. \A p \in taken : Parsed(p).score \in Int
  BY <1>1, <1>4, <1>5, ElementWhole DEF AllWhole, ParseFaceRow
<1>7. ParseFaceRows(outputs, f, confidence) = CandidatesFrom(candidate)
  BY DEF ParseFaceRows
<1>8. DOMAIN candidate = taken /\ \A p \in taken : candidate[p].score \in Int
  BY <1>6
<1> HIDE DEF taken, candidate
<1> QED
  BY <1>5, <1>7, <1>8, CandidatesScored

LEMMA NothingScored == Scored(<<>>)
<1> DEFINE none == {}
<1>1. <<>> \in Seq(none) /\ \A c \in none : c.score \in Int
  OBVIOUS
<1> HIDE DEF none
<1> QED
  BY <1>1 DEF Scored

LEMMA RowsWhole ==
  ASSUME NEW t, t.shape \in Seq(Int) PROVE TensorRows(t) \in Nat
<1>1. \A n \in 1 .. Len(t.shape) : AtLeast(0, t.shape[n]) \in Nat
  BY Dimensions DEF AtLeast
<1>2. CASE Len(t.shape) \in {1, 2}
  BY <1>1, <1>2 DEF TensorRows
<1>3. CASE Len(t.shape) = 3
  BY <1>1, <1>3 DEF TensorRows
<1>4. CASE Len(t.shape) \notin {1, 2, 3}
  BY <1>4 DEF TensorRows
<1> QED
  BY <1>2, <1>3, <1>4

(* Of the SCRFD outputs only the scores matter here, which come first.      *)
LEMMA ScrfdScored ==
  ASSUME NEW outputs,
         Len(outputs) \in {6, 9, 10, 15} =>
           \A level \in 1 .. Levels(Len(outputs)) : Whole(outputs[level]),
         NEW in, NEW f, NEW confidence
  PROVE  Scored(ParseScrfd(outputs, in, f, confidence))
<1>1. CASE Len(outputs) \notin {6, 9, 10, 15}
  BY <1>1, NothingScored DEF ParseScrfd
<1>2. CASE Len(outputs) \in {6, 9, 10, 15}
  <2> DEFINE M == 1 .. Levels(Len(outputs))
             N == {l \in M : LevelFits(outputs, l)}
             count == [n \in N |-> TensorRows(outputs[n])]
             rows == UNION {{n} \X (0 .. count[n] - 1) : n \in N}
             Parsed(p) == ScrfdCandidate(outputs, p[1], p[2], in, f)
             taken == {p \in ScrfdRows(outputs, confidence) : HasArea(Parsed(p))}
             candidate == [p \in taken |-> Parsed(p)]
  <2>1. Levels(Len(outputs)) \in Nat
    BY DEF Levels
  <2>2. IsFiniteSet(M) /\ M \in SUBSET Int
    BY <2>1, FS_Interval
  <2>3. \A n \in M : Whole(outputs[n])
    BY <1>2
  <2> HIDE DEF M
  <2>4. /\ N \in SUBSET Int /\ IsFiniteSet(N) /\ N \subseteq M
        /\ \A n \in N : count[n] \in Int
    <3>1. \A n \in M : TensorRows(outputs[n]) \in Nat
      BY <2>3, RowsWhole DEF Whole
    <3>2. N \in SUBSET M
      OBVIOUS
    <3>3. IsFiniteSet(N)
      BY <2>2, <3>2, FS_Subset
    <3>4. \A n \in N : count[n] \in Int
      BY <3>1, <3>2
    <3> QED
      BY <2>2, <3>2, <3>3, <3>4
  <2>5. ScrfdRows(outputs, confidence) \subseteq rows
    BY DEF ScrfdRows, M
  <2> HIDE DEF N, count
  <2>6. rows \in SUBSET (Int \X Int) /\ IsFiniteSet(rows)
    BY <2>4, RowsFinite
  <2>7. \A p \in rows : p[1] \in N
    OBVIOUS
  <2> HIDE DEF rows
  <2>8. taken \in SUBSET (Int \X Int) /\ IsFiniteSet(taken) /\ taken \subseteq rows
    BY <2>5, <2>6, FS_Subset
  <2>9. \A p \in taken : Parsed(p).score \in Int
    <3>1. ASSUME NEW p \in taken PROVE Parsed(p).score = TensorValue(outputs[p[1]], p[2], 0)
      BY DEF ScrfdCandidate
    <3>2. ASSUME NEW p \in taken PROVE TensorValue(outputs[p[1]], p[2], 0) \in Int
      BY <2>3, <2>4, <2>7, <2>8, ElementWhole DEF TensorValue
    <3> QED
      BY <3>1, <3>2
  <2>10. ParseScrfd(outputs, in, f, confidence) = CandidatesFrom(candidate)
    BY <1>2 DEF ParseScrfd
  <2>11. DOMAIN candidate = taken /\ \A p \in taken : candidate[p].score \in Int
    BY <2>9
  <2> HIDE DEF taken, candidate
  <2> QED
    BY <2>8, <2>10, <2>11, CandidatesScored
<1> QED
  BY <1>1, <1>2

-----------------------------------------------------------------------------
(* Images and what is made of them have sides that are whole numbers.       *)
LEMMA FindFound ==
  ASSUME NEW items, IsSequence(items), NEW name, NEW type, Found(Find(items, name, type))
  PROVE  \E n \in DOMAIN items : Find(items, name, type) = items[n] /\ items[n].type = type
<1> DEFINE P == Named(items, name)
           k == FirstOf(P)
<1>1. DOMAIN items \in SUBSET Nat
  BY DEF IsSequence
<1>2. P # {}
  BY FindIn DEF Found
<1>3. P \in SUBSET Nat /\ P \subseteq DOMAIN items
  BY <1>1 DEF Named
<1>4. k \in P
  BY <1>2, <1>3, FirstThere
<1>5. Find(items, name, type) = IF items[k].type = type THEN items[k] ELSE NoValue
  BY <1>2, FindIn
<1> HIDE DEF P, k
<1> QED
  BY <1>3, <1>4, <1>5 DEF Found

WholeImages(items) ==
  /\ IsSequence(items)
  /\ \A n \in DOMAIN items : IsImage(items[n]) => ImageTypes(items[n])

LEMMA FindImage ==
  ASSUME NEW items, WholeImages(items), NEW name, NEW type \in {"image", "frame"},
         Found(Find(items, name, type))
  PROVE  ImageTypes(Find(items, name, type))
  BY FindFound DEF WholeImages, IsImage

LEMMA StrideWhole ==
  ASSUME NEW im, ImageTypes(im)
  PROVE  PackedStride(im) \in Nat /\ EffectiveStride(im) \in Nat
<1>1. BytesPerPixel(im) \in Nat
  BY DEF BytesPerPixel, AtLeast, ImageTypes
<1>2. im.width \in Int /\ im.stride \in Nat
  BY DEF ImageTypes
<1>3. PackedStride(im) \in Nat
  <2>1. CASE im.width > 0
    <3>1. \A w, b \in Nat : w * b \in Nat
      OBVIOUS
    <3>2. im.width \in Nat
      BY <1>2, <2>1
    <3> QED
      BY <1>1, <2>1, <3>1, <3>2 DEF PackedStride
  <2>2. CASE ~(im.width > 0)
    BY <2>2 DEF PackedStride
  <2> QED
    BY <2>1, <2>2
<1> QED
  BY <1>2, <1>3 DEF EffectiveStride

LEMMA HostFrameSides ==
  ASSUME NEW im, NEW stride, NEW bytes
  PROVE  LET f == HostFrame(im, stride, bytes) IN
         /\ f.width = im.width /\ f.height = im.height /\ f.channels = im.channels
         /\ f.format = im.format /\ f.bytes = bytes /\ Found(f)
  BY DEF HostFrame, Found, NoValue

(* A frame found has the sides of an image of the input.                    *)
LEMMA ResolvedWhole ==
  ASSUME NEW items, WholeImages(items), NEW cuda, Found(ResolveHostImage(items, cuda))
  PROVE  LET f == ResolveHostImage(items, cuda) IN
         f.width \in Int /\ f.height \in Int /\ f.channels \in Int
<1> DEFINE image == Find(items, "image", "image")
           frame == Find(items, "image", "frame")
           f == ResolveHostImage(items, cuda)
<1>1. Found(image) => ImageTypes(image)
  BY FindImage
<1>2. Found(frame) => ImageTypes(frame)
  BY FindImage
<1>3. f = IF Found(image) THEN MaterializeHostFrame(image, cuda)
          ELSE IF Found(frame) THEN FrameOf(frame) ELSE NoValue
  BY DEF ResolveHostImage
<1> HIDE DEF image, frame, f
<1>4. CASE Found(image)
  <2>1. \E stride, bytes : f = HostFrame(image, stride, bytes)
    BY <1>3, <1>4 DEF MaterializeHostFrame, FrameOf, Found, f
  <2> QED
    BY <1>1, <1>4, <2>1, HostFrameSides DEF ImageTypes, f
<1>5. CASE ~Found(image)
  <2>1. Found(frame) /\ \E stride, bytes : f = HostFrame(frame, stride, bytes)
    BY <1>3, <1>5 DEF FrameOf, Found, f
  <2> QED
    BY <1>2, <2>1, HostFrameSides DEF ImageTypes, f
<1> QED
  BY <1>4, <1>5

LEMMA FillWhole ==
  ASSUME NEW shape \in Seq(Int), Len(shape) = 4, NEW a \in Int, NEW b \in Int, NEW c \in Int,
         NEW d \in Int
  PROVE  Fill(shape, <<a, b, c, d>>) \in Seq(Int)
<1> DEFINE v == <<a, b, c, d>>
           filled == [n \in 1 .. 4 |-> IF shape[n] <= 0 THEN v[n] ELSE shape[n]]
<1>1. \A n \in 1 .. 4 : shape[n] \in Int /\ v[n] \in Int
  <2>1. \A n \in 1 .. 4 : shape[n] \in Int
    BY Dimensions
  <2>2. v[1] \in Int /\ v[2] \in Int /\ v[3] \in Int /\ v[4] \in Int
    OBVIOUS
  <2> HIDE DEF v
  <2>3. \A n \in 1 .. 4 : n = 1 \/ n = 2 \/ n = 3 \/ n = 4
    OBVIOUS
  <2> QED
    BY <2>1, <2>2, <2>3
<1> HIDE DEF v
<1>2. filled \in [1 .. 4 -> Int]
  BY <1>1
<1>3. filled \in Seq(Int)
  BY <1>2
<1> QED
  BY <1>3 DEF Fill, v

LEMMA RequestShapeWhole ==
  ASSUME NEW shape \in Seq(Int), NEW f, f.width \in Int, f.height \in Int, f.channels \in Int
  PROVE  RequestShape(shape, f) \in Seq(Int)
<1> DEFINE told == IF shape = <<>> THEN <<1, 3, f.height, f.width>> ELSE shape
<1>1. told \in Seq(Int)
  <2>1. <<1, 3, f.height, f.width>> \in Seq(Int)
    OBVIOUS
  <2> QED
    BY <2>1
<1>2. RequestShape(shape, f) = ResolveInputShape(told, f)
  BY DEF RequestShape
<1> HIDE DEF told
<1>3. AtLeast(1, f.channels) \in Int /\ AtLeast(1, f.height) \in Int /\ AtLeast(1, f.width) \in Int
  BY DEF AtLeast
<1>4. CASE Len(told) # 4
  BY <1>1, <1>2, <1>4 DEF ResolveInputShape
<1>5. CASE Len(told) = 4
  <2> DEFINE c == AtLeast(1, f.channels)
             h == AtLeast(1, f.height)
             w == AtLeast(1, f.width)
  <2>1. c \in Int /\ h \in Int /\ w \in Int
    BY <1>3
  <2>2. ResolveInputShape(told, f) =
          IF IsNchw(told) THEN Fill(told, <<1, c, h, w>>) ELSE Fill(told, <<1, h, w, c>>)
    BY <1>5 DEF ResolveInputShape
  <2> HIDE DEF c, h, w
  <2>3. Fill(told, <<1, c, h, w>>) \in Seq(Int) /\ Fill(told, <<1, h, w, c>>) \in Seq(Int)
    BY <1>1, <1>5, <2>1, FillWhole
  <2> QED
    BY <1>2, <2>2, <2>3
<1> QED
  BY <1>4, <1>5

(* What the detector is shown.                                              *)
WholeLetterbox(lb) ==
  lb.num \in Nat \ {0} /\ lb.den \in Nat \ {0} /\ lb.pad_x \in Int /\ lb.pad_y \in Int

LEMMA LetterboxWhole ==
  ASSUME NEW f, f.width \in Int, f.height \in Int, f.width > 0, f.height > 0,
         NEW shape \in Seq(Int), CanLetterbox(shape)
  PROVE  WholeLetterbox(Letterbox(f, shape))
<1> DEFINE iw == shape[4]
           ih == shape[3]
           byWidth == iw * f.height <= ih * f.width
           num == IF byWidth THEN iw ELSE ih
           den == IF byWidth THEN f.width ELSE f.height
           rw == AtLeast(1, Round(f.width * num, den))
           rh == AtLeast(1, Round(f.height * num, den))
           lb == Letterbox(f, shape)
<1>1. iw \in Int /\ ih \in Int /\ iw > 0 /\ ih > 0
  <2>1. Len(shape) = 4 /\ shape[3] > 0 /\ shape[4] > 0
    BY DEF CanLetterbox, IsNchw
  <2>2. 3 \in 1 .. 4 /\ 4 \in 1 .. 4
    OBVIOUS
  <2> QED
    BY <2>1, <2>2, Dimensions
<1>2. /\ lb.num = num /\ lb.den = den
      /\ lb.pad_x = Padding(iw, rw) /\ lb.pad_y = Padding(ih, rh)
  BY DEF Letterbox
<1> HIDE DEF iw, ih, lb
<1>3. num \in Nat \ {0} /\ den \in Nat \ {0}
  BY <1>1
<1> HIDE DEF num, den
<1>4. \A a \in Int, b \in Nat \ {0} : AtLeast(1, Round(a, b)) \in Int
  <2> SUFFICES ASSUME NEW a \in Int, NEW b \in Nat \ {0} PROVE AtLeast(1, Round(a, b)) \in Int
    OBVIOUS
  <2>1. (2 * a + b) \div (2 * b) \in Int
    OBVIOUS
  <2> QED
    BY <2>1 DEF AtLeast, Round
<1>5. \A v \in Int : f.width * v \in Int /\ f.height * v \in Int
  OBVIOUS
<1>6. rw \in Int /\ rh \in Int
  <2>1. f.width * num \in Int /\ f.height * num \in Int
    <3> HIDE DEF rw, rh
    <3>1. num \in Int
      BY <1>3
    <3> QED
      BY <1>5, <3>1
  <2> QED
    BY <1>3, <1>4, <2>1
<1> HIDE DEF rw, rh
<1>7. Padding(iw, rw) \in Int /\ Padding(ih, rh) \in Int
  BY <1>1, <1>6 DEF Padding
<1> QED
  BY <1>2, <1>3, <1>7 DEF WholeLetterbox, lb

LEMMA RequestWhole ==
  ASSUME NEW items, WholeImages(items), NEW shape \in Seq(Int), NEW cuda,
         Found(BuildRequest(items, shape, cuda))
  PROVE  WholeLetterbox(BuildRequest(items, shape, cuda))
<1> DEFINE image == Find(items, "image", "image")
           frame == Find(items, "image", "frame")
           path == SourcePath(items)
           source == SourceValue(items)
           resolved == RequestShape(shape, source)
           lb == BuildRequest(items, shape, cuda)
<1>1. path # "unsupported" /\ lb = Preprocess(path, source, resolved, cuda)
  BY DEF BuildRequest, RequestFrom, Found
<1>2. /\ path \in {"host_cpu", "cuda_device"}
      /\ Found(source)
      /\ path = "cuda_device" => HasValidDeviceView(source)
  BY <1>1 DEF SourcePath, SourceOf, SourceValue
<1>3. ImageTypes(source)
  <2>1. Found(image) => ImageTypes(image)
    BY FindImage
  <2>2. Found(frame) => ImageTypes(frame)
    BY FindImage
  <2> QED
    BY <1>2, <2>1, <2>2 DEF SourceValue
<1> HIDE DEF path, source
<1>4. resolved \in Seq(Int)
  BY <1>3, RequestShapeWhole DEF ImageTypes
<1> HIDE DEF resolved
<1>5. CanLetterbox(resolved) /\ HasValidDesc(source) /\ lb = Letterbox(source, resolved)
  <2>1. CASE path = "cuda_device"
    <3>1. lb = PreprocessCuda(source, resolved, cuda)
      BY <1>1, <2>1 DEF Preprocess
    <3> HIDE DEF lb
    <3>2. CanLetterbox(resolved) /\ lb = Letterbox(source, resolved)
      BY <3>1 DEF PreprocessCuda, Found, lb
    <3> QED
      BY <1>2, <2>1, <3>2 DEF HasValidDeviceView
  <2>2. CASE path # "cuda_device"
    <3>1. lb = IF CanLetterbox(resolved) /\ HasMat(source)
               THEN Letterbox(source, resolved) ELSE NoValue
      BY <1>1, <2>2 DEF Preprocess
    <3> HIDE DEF lb
    <3> QED
      BY <3>1 DEF Found, HasMat, lb
  <2> QED
    BY <2>1, <2>2
<1>6. WholeLetterbox(Letterbox(source, resolved))
  BY <1>3, <1>4, <1>5, LetterboxWhole DEF HasValidDesc, ImageTypes
<1> QED
  BY <1>5, <1>6

(* A number below the product, as row and column.                           *)
LEMMA RowAndColumn ==
  ASSUME NEW across \in Nat \ {0}, NEW down \in Nat \ {0}, NEW i \in Nat, i < across * down
  PROVE  i % across \in 0 .. across - 1 /\ i \div across \in 0 .. down - 1
  OBVIOUS

(* The box around the pixels of an object, wherever they lie in the matrix. *)
LEMMA Bounds ==
  ASSUME NEW size \in Int, NEW S \in SUBSET (0 .. size - 1), S # {}
  PROVE  Least(S) \in Int /\ Greatest(S) \in Int
<1>1. \E n \in S : \A m \in S : n <= m
  <2>1. S \in SUBSET Nat
    OBVIOUS
  <2> QED
    BY <2>1, Smallest
<1>2. \E n \in S : \A m \in S : n >= m
  <2> DEFINE T == {size - 1 - n : n \in S}
  <2>1. T \in SUBSET Nat /\ T # {}
    <3>1. \A n \in S : size - 1 - n \in Nat
      <4>1. \A n \in 0 .. size - 1 : size - 1 - n \in Nat
        OBVIOUS
      <4> QED
        BY <4>1
    <3> QED
      BY <3>1
  <2>2. PICK t \in T : \A u \in T : t <= u
    <3> HIDE DEF T
    <3> QED
      BY <2>1, Smallest
  <2>3. PICK n \in S : t = size - 1 - n
    OBVIOUS
  <2>4. ASSUME NEW m \in S PROVE n >= m
    <3>1. size - 1 - m \in T
      OBVIOUS
    <3>2. t <= size - 1 - m
      BY <2>2, <3>1
    <3> QED
      BY <2>3, <3>2
  <2> QED
    BY <2>4
<1>3. Least(S) \in S
  BY <1>1, Zenon DEF Least
<1>4. Greatest(S) \in S
  BY <1>2, Zenon DEF Greatest
<1>5. \A n \in S : n \in Int
  OBVIOUS
<1> QED
  BY <1>3, <1>4, <1>5

LEMMA SeenObjectWhole ==
  ASSUME NEW object \in Objects, NEW f, f.width \in Int, f.height \in Int
  PROVE  SeenObject(object, ShownOf(object, f)) \in Objects
<1> DEFINE pixels == ShownOf(object, f)
           xs == {p[1] : p \in pixels}
           ys == {p[2] : p \in pixels}
<1>1. pixels \subseteq (0 .. f.width - 1) \X (0 .. f.height - 1)
  BY DEF ShownOf
<1> HIDE DEF pixels
<1>2. CASE pixels = {}
  <2>1. SeenObject(object, pixels) = [object EXCEPT !.score = 0]
    BY <1>2 DEF SeenObject
  <2> QED
    BY <2>1 DEF Objects, pixels
<1>3. CASE pixels # {}
  <2>1. /\ xs \in SUBSET (0 .. f.width - 1) /\ xs # {}
        /\ ys \in SUBSET (0 .. f.height - 1) /\ ys # {}
    BY <1>1, <1>3
  <2>2. SeenObject(object, pixels) = [object EXCEPT !.box = BoxAround(xs, ys)]
    BY <1>3 DEF SeenObject
  <2> HIDE DEF xs, ys
  <2>3. /\ Least(xs) \in Int /\ Greatest(xs) \in Int
        /\ Least(ys) \in Int /\ Greatest(ys) \in Int
    BY <2>1, Bounds
  <2>4. BoxAround(xs, ys) \in [x : Int, y : Int, width : Int, height : Int]
    BY <2>3 DEF BoxAround
  <2> QED
    BY <2>2, <2>4 DEF Objects, pixels
<1> QED
  BY <1>2, <1>3

LEMMA SeenWhole ==
  ASSUME NEW objects \in Seq(Objects), NEW f, Found(f) => f.width \in Int /\ f.height \in Int
  PROVE  SeenIn(objects, f) \in Seq(Objects)
<1>1. CASE ~Found(f) \/ PackedAsMat(f)
  BY <1>1 DEF SeenIn
<1>2. CASE Found(f) /\ ~PackedAsMat(f)
  <2> DEFINE Shown(n) == SeenObject(objects[n], ShownOf(objects[n], f))
             seen == SeenIn(objects, f)
  <2>1. seen = [n \in 1 .. Len(objects) |-> Shown(n)]
    BY <1>2 DEF SeenIn
  <2>2. \A n \in 1 .. Len(objects) : Shown(n) \in Objects
    BY <1>2, SeenObjectWhole
  <2> HIDE DEF Shown, seen
  <2>3. seen \in [1 .. Len(objects) -> Objects]
    BY <2>1, <2>2
  <2>4. seen \in Seq(Objects)
    BY <2>3
  <2> QED
    BY <2>4 DEF seen
<1> QED
  BY <1>1, <1>2

(* The objects of a detection scene as its model is shown them.             *)
SeenCopied == SeenIn(scene.objects, FrameCopied)

LEMMA CopySeen ==
  ASSUME scene \in Scenes, scene.task = "detection" PROVE SeenCopied \in Seq(Objects)
<1> DEFINE image == Find(scene.items, "image", "image")
           frame == Find(scene.items, "image", "frame")
           source == SourceValue(scene.items)
<1>1. scene.objects \in Seq(Objects) /\ WholeImages(scene.items)
  BY ScenesAssumption DEF WholeImages
<1>2. CASE ~Found(FrameCopied)
  BY <1>1, <1>2, SeenWhole DEF SeenCopied
<1>3. CASE Found(FrameCopied)
  <2>1. /\ Found(source)
        /\ FrameCopied = source
           \/ \E stride, bytes : FrameCopied = HostFrame(source, stride, bytes)
    BY <1>3 DEF FrameCopied, CopyCudaImage, SourcePath, SourceOf, SourceValue, Found
  <2>2. ImageTypes(source)
    <3>1. (Found(image) => ImageTypes(image)) /\ (Found(frame) => ImageTypes(frame))
      BY <1>1, FindImage
    <3> QED
      BY <2>1, <3>1 DEF SourceValue
  <2> HIDE DEF source
  <2>3. FrameCopied.width \in Int /\ FrameCopied.height \in Int
    BY <2>1, <2>2, HostFrameSides DEF ImageTypes
  <2> QED
    BY <1>1, <2>3, SeenWhole DEF SeenCopied
<1> QED
  BY <1>2, <1>3

LEMMA DetectorRowWhole ==
  ASSUME NEW object \in Objects, NEW lb, WholeLetterbox(lb)
  PROVE  /\ DetectorRow(object, lb) \in Seq(Int) /\ Len(DetectorRow(object, lb)) = 6
<1> DEFINE placed == Placed(object, lb)
           classes == [c \in 1 .. 2 |-> IF object.class_id = c - 1 THEN object.score ELSE 0]
           b == object.box
           Across(v) == (v * lb.num) \div (2 * lb.den)
<1>1. /\ b.x \in Int /\ b.y \in Int /\ b.width \in Int /\ b.height \in Int
      /\ object.score \in Int
  BY DEF Objects
<1>2. lb.num \in Int /\ 2 * lb.den \in Nat \ {0} /\ lb.pad_x \in Int /\ lb.pad_y \in Int
  BY DEF WholeLetterbox
<1>3. \A v \in Int : Across(v) \in Int
  <2> DEFINE d == 2 * lb.den
  <2>1. \A p \in Int : p \div d \in Int
    <3> HIDE DEF d
    <3>1. d \in Nat \ {0}
      BY <1>2 DEF d
    <3> QED
      BY <3>1
  <2>2. \A v \in Int : v * lb.num \in Int
    BY <1>2
  <2> QED
    BY <2>1, <2>2
<1>4. placed = <<Across(2 * b.x + b.width) + lb.pad_x, Across(2 * b.y + b.height) + lb.pad_y,
                 Across(2 * b.width), Across(2 * b.height)>>
  BY DEF Placed
<1>5. /\ 2 * b.x + b.width \in Int /\ 2 * b.y + b.height \in Int
      /\ 2 * b.width \in Int /\ 2 * b.height \in Int
  BY <1>1
<1>6. placed \in Seq(Int) /\ Len(placed) = 4
  <2>1. /\ Across(2 * b.x + b.width) + lb.pad_x \in Int
        /\ Across(2 * b.y + b.height) + lb.pad_y \in Int
        /\ Across(2 * b.width) \in Int /\ Across(2 * b.height) \in Int
    <3>1. /\ Across(2 * b.x + b.width) \in Int /\ Across(2 * b.y + b.height) \in Int
          /\ Across(2 * b.width) \in Int /\ Across(2 * b.height) \in Int
      BY <1>3, <1>5
    <3> HIDE DEF Across
    <3> QED
      BY <1>2, <3>1
  <2> HIDE DEF Across, placed
  <2> QED
    BY <1>4, <2>1
<1>7. classes \in Seq(Int) /\ Len(classes) = 2
  BY <1>1
<1>8. DetectorRow(object, lb) = placed \o classes
  BY DEF DetectorRow
<1> HIDE DEF placed, classes
<1>9. \A p, q \in Seq(Int) : p \o q \in Seq(Int) /\ Len(p \o q) = Len(p) + Len(q)
  OBVIOUS
<1>10. placed \o classes \in Seq(Int) /\ Len(placed \o classes) = Len(placed) + Len(classes)
  BY <1>6, <1>7, <1>9, Zenon
<1> DEFINE row == DetectorRow(object, lb)
<1> HIDE DEF row
<1>11. row \in Seq(Int) /\ Len(row) = Len(placed) + Len(classes)
  BY <1>8, <1>10, Zenon DEF row
<1>12. row \in Seq(Int) /\ Len(row) = 6
  BY <1>6, <1>7, <1>11
<1> QED
  BY <1>12 DEF row

LEMMA DetectorTensorWhole ==
  ASSUME NEW s, s.rows \in Nat, NEW seen \in Seq(Objects), NEW lb, WholeLetterbox(lb)
  PROVE  Whole(DetectorTensor(s, seen, lb))
<1> DEFINE rows == s.rows
           Value(row, attr) ==
             IF row < Len(seen) THEN DetectorRow(seen[row + 1], lb)[attr + 1] ELSE 0
           t == DetectorTensor(s, seen, lb)
<1>1. /\ t.shape = IF s.transposed THEN <<1, 6, rows>> ELSE <<1, rows, 6>>
      /\ t.data = [n \in 0 .. rows * 6 - 1 |->
                     IF s.transposed THEN Value(n % rows, n \div rows)
                     ELSE Value(n \div 6, n % 6)]
  BY DEF DetectorTensor
<1>2. ASSUME NEW row \in Nat, NEW attr \in 0 .. 5 PROVE Value(row, attr) \in Int
  <2>1. CASE row < Len(seen)
    <3>1. seen[row + 1] \in Objects
      BY <2>1
    <3>2. /\ DetectorRow(seen[row + 1], lb) \in Seq(Int)
          /\ Len(DetectorRow(seen[row + 1], lb)) = 6
      BY <3>1, DetectorRowWhole
    <3>3. attr + 1 \in 1 .. 6
      OBVIOUS
    <3> QED
      BY <2>1, <3>2, <3>3, Dimensions
  <2>2. CASE ~(row < Len(seen))
    BY <2>2
  <2> QED
    BY <2>1, <2>2
<1> HIDE DEF Value, t
<1>3. ASSUME NEW n \in 0 .. rows * 6 - 1 PROVE t.data[n] \in Int
  <2>1. n \in Nat /\ n < rows * 6 /\ rows \in Nat \ {0} /\ n < 6 * rows
    OBVIOUS
  <2>2. n % rows \in Nat /\ n \div rows \in 0 .. 5
    <3> DEFINE attrs == 6
    <3>1. attrs \in Nat \ {0} /\ n < rows * attrs
      BY <2>1
    <3> HIDE DEF rows, attrs
    <3>2. n % rows \in 0 .. rows - 1 /\ n \div rows \in 0 .. attrs - 1
      BY <2>1, <3>1, RowAndColumn
    <3> QED
      BY <2>1, <3>2 DEF attrs
  <2>3. n % 6 \in 0 .. 5 /\ n \div 6 \in Nat
    BY <2>1
  <2> QED
    BY <1>1, <1>2, <2>2, <2>3
<1>4. t.shape \in Seq(Int)
  <2>1. <<1, 6, rows>> \in Seq(Int) /\ <<1, rows, 6>> \in Seq(Int)
    OBVIOUS
  <2> QED
    BY <1>1, <2>1
<1>5. DOMAIN t.data = 0 .. rows * 6 - 1
  BY <1>1
<1> QED
  BY <1>3, <1>4, <1>5 DEF Whole, t

(* Copied to the host, a tensor has the elements it had.                    *)
LEMMA CopyWhole ==
  ASSUME NEW t, Whole(t), NEW cuda, Found(MaterializeHostTensor(t, cuda)),
         {"device", "shape", "size", "data", "view"} \subseteq DOMAIN t
  PROVE  LET c == MaterializeHostTensor(t, cuda) IN
         /\ c.shape = t.shape /\ c.data = t.data
         /\ (c = t /\ t.device = "host") \/ c.size = ElementCount(t.shape)
<1> DEFINE c == MaterializeHostTensor(t, cuda)
           copy == [t EXCEPT !.device = "host", !.size = ElementCount(t.shape), !.view = 0]
<1>1. (c = t /\ t.device = "host") \/ c = copy
  BY DEF MaterializeHostTensor, Found
<1>2. copy.shape = t.shape /\ copy.data = t.data /\ copy.size = ElementCount(t.shape)
  OBVIOUS
<1> QED
  BY <1>1, <1>2

LEMMA HostOutputsOfOne ==
  ASSUME NEW t, NEW cuda, Found(HostOutputs(<<t>>, cuda))
  PROVE  \E h : /\ HostOutputs(<<t>>, cuda).tensors = <<h>>
                /\ \/ h = t /\ t.device = "host"
                   \/ Found(h) /\ h = MaterializeHostTensor(t, cuda)
<1> DEFINE Host(u) == IF u.device = "host" THEN u
                      ELSE IF u.dtype = "float32" THEN MaterializeHostTensor(u, cuda) ELSE NoValue
           outs == <<t>>
           h == Host(t)
           host == [type |-> "outputs", tensors |-> [n \in DOMAIN outs |-> Host(outs[n])]]
           r == HostOutputs(outs, cuda)
<1>1. r = IF \E n \in DOMAIN outs : ~Found(Host(outs[n])) THEN NoValue ELSE host
  BY DEF HostOutputs
<1>2. DOMAIN outs = {1} /\ outs[1] = t
  OBVIOUS
<1>3. r # NoValue
  BY DEF Found
<1>4. Found(h) /\ r = host
  BY <1>1, <1>2, <1>3
<1> HIDE DEF Host
<1>5. host.tensors = <<h>>
  BY <1>2
<1>6. \/ h = t /\ t.device = "host"
      \/ Found(h) /\ h = MaterializeHostTensor(t, cuda)
  BY <1>4 DEF Host, Found
<1> QED
  BY <1>4, <1>5, <1>6

LEMMA NoHostOutputs ==
  ASSUME NEW cuda PROVE DOMAIN HostOutputs(<<>>, cuda).tensors = {}
<1> DEFINE Host(u) == IF u.device = "host" THEN u
                      ELSE IF u.dtype = "float32" THEN MaterializeHostTensor(u, cuda) ELSE NoValue
           outs == <<>>
           host == [type |-> "outputs", tensors |-> [n \in DOMAIN outs |-> Host(outs[n])]]
<1>1. HostOutputs(outs, cuda) = IF \E n \in DOMAIN outs : ~Found(Host(outs[n])) THEN NoValue ELSE host
  BY DEF HostOutputs
<1>2. DOMAIN outs = {}
  OBVIOUS
<1>3. HostOutputs(outs, cuda) = host
  BY <1>1, <1>2
<1> QED
  BY <1>2, <1>3

(* The tensor of a detection scene on the host, if there is one.            *)
LEMMA DetectorHost ==
  ASSUME scene \in Scenes, scene.task = "detection", Found(Request),
         Found(HostOutputs(DetectorAnswers(Request), scene.cuda))
  PROVE  LET tensors == HostOutputs(DetectorAnswers(Request), scene.cuda).tensors
             t == DetectorTensor(scene, SeenCopied, Request)
         IN  \/ DOMAIN tensors = {}
             \/ /\ DOMAIN tensors = {1}
                /\ Whole(tensors[1]) /\ tensors[1].shape = t.shape
                /\ (tensors[1].size = t.size /\ t.device = "host") \/ tensors[1].size = ElementCount(t.shape)
<1> DEFINE t == DetectorTensor(scene, SeenCopied, Request)
           host == HostOutputs(DetectorAnswers(Request), scene.cuda)
<1>1. /\ WholeImages(scene.items) /\ scene.shape \in Seq(Int)
      /\ scene.rows \in Nat /\ SeenCopied \in Seq(Objects)
  BY ScenesAssumption, CopySeen DEF WholeImages
<1>2. Whole(t)
  BY <1>1, RequestWhole, DetectorTensorWhole DEF Request
<1>3. {"device", "shape", "size", "data", "view"} \subseteq DOMAIN t
  BY DEF DetectorTensor
<1>4. CASE ~scene.answers
  BY <1>4, NoHostOutputs DEF DetectorAnswers
<1>5. CASE scene.answers
  <2>1. DetectorAnswers(Request) = <<t>>
    BY <1>5 DEF DetectorAnswers, SeenCopied
  <2> HIDE DEF t
  <2>2. PICK h : /\ host.tensors = <<h>>
                 /\ \/ h = t /\ t.device = "host"
                    \/ Found(h) /\ h = MaterializeHostTensor(t, scene.cuda)
    BY <2>1, HostOutputsOfOne
  <2> HIDE DEF host
  <2>3. DOMAIN host.tensors = {1} /\ host.tensors[1] = h
    BY <2>2
  <2>4. h.shape = t.shape /\ h.data = t.data
    BY <1>2, <1>3, <2>2, CopyWhole
  <2>5. \/ h.size = t.size /\ t.device = "host"
        \/ h.size = ElementCount(t.shape)
    BY <1>2, <1>3, <2>2, CopyWhole
  <2>6. Whole(h)
    BY <1>2, <2>4 DEF Whole
  <2> QED
    BY <2>3, <2>4, <2>5, <2>6 DEF host, t
<1> QED
  BY <1>4, <1>5

LEMMA DetectionScored ==
  ASSUME scene \in Scenes, scene.task = "detection", Found(Request)
  PROVE  Scored(CandidatesFound)
<1> DEFINE host == HostOutputs(DetectorAnswers(Request), scene.cuda)
           frame == FindImageFrame(scene.items)
<1>1. CASE Found(host) /\ Found(frame)
  <2>1. AllWhole(host.tensors)
    <3>1. DOMAIN host.tensors = {} \/ (DOMAIN host.tensors = {1} /\ Whole(host.tensors[1]))
      BY <1>1, DetectorHost
    <3> DEFINE outs == host.tensors
               N == DOMAIN outs
    <3>2. \A n \in N : Whole(outs[n])
      BY <3>1
    <3>3. N = {} \/ N = {1}
      BY <3>1
    <3> HIDE DEF outs, N
    <3>4. N \in SUBSET Int
      BY <3>3
    <3>5. IsFiniteSet({}) /\ IsFiniteSet({1})
      BY FS_EmptySet, FS_Singleton
    <3>6. IsFiniteSet(N)
      BY <3>3, <3>5
    <3> QED
      BY <3>2, <3>4, <3>6 DEF AllWhole, outs, N
  <2>2. CandidatesFound = YoloCandidates(host.tensors, Request, frame, Confidence)
    BY <1>1 DEF CandidatesFound
  <2> HIDE DEF host, frame
  <2> QED
    BY <2>1, <2>2, YoloScored
<1>2. CASE ~(Found(host) /\ Found(frame))
  BY <1>2, NothingScored DEF CandidatesFound
<1> QED
  BY <1>1, <1>2

-----------------------------------------------------------------------------
(* The outputs of the face detectors.                                       *)
WholeInput(in, f) ==
  /\ f.width \in Nat \ {0} /\ f.height \in Nat \ {0}
  /\ in.width \in Int /\ in.height \in Int
  /\ in.input_width \in Int /\ in.input_height \in Int

LEMMA DivideWhole == \A a \in Int, b \in Nat \ {0} : a \div b \in Int
  OBVIOUS

LEMMA TimesWhole == \A a, b \in Int : a * b \in Int
  OBVIOUS

LEMMA ResizedWhole ==
  ASSUME NEW f, f.width \in Nat \ {0}, f.height \in Nat \ {0}, NEW iw \in Int, NEW ih \in Int,
         NEW family
  PROVE  Resized(f, iw, ih, family)[1] \in Int /\ Resized(f, iw, ih, family)[2] \in Int
<1> DEFINE tall == f.height * iw > ih * f.width
           w == IF KeepsAspect(family) /\ tall THEN (ih * f.width) \div f.height ELSE iw
           h == IF KeepsAspect(family) /\ ~tall THEN (iw * f.height) \div f.width ELSE ih
<1>1. (ih * f.width) \div f.height \in Int /\ (iw * f.height) \div f.width \in Int
  <2>1. ih * f.width \in Int /\ iw * f.height \in Int
    BY TimesWhole
  <2> QED
    BY <2>1, DivideWhole
<1>2. w \in Int /\ h \in Int
  BY <1>1
<1>3. Resized(f, iw, ih, family) = <<AtLeast(1, w), AtLeast(1, h)>>
  BY DEF Resized
<1> HIDE DEF w, h
<1> QED
  BY <1>2, <1>3 DEF AtLeast

LEMMA FaceShapeWhole ==
  ASSUME NEW shape \in Seq(Int), NEW f, f.width \in Int, f.height \in Int, f.channels \in Int,
         NEW family, Len(FaceShape(family, shape, f, DefaultSize)) = 4
  PROVE  LET s == FaceShape(family, shape, f, DefaultSize) IN s[3] \in Int /\ s[4] \in Int
<1> DEFINE s == FaceShape(family, shape, f, DefaultSize)
<1>1. CASE family \in ScrfdFamilies
  <2> DEFINE told == IF Len(shape) = 4 THEN shape ELSE <<1, 3, DefaultSize, DefaultSize>>
             open == told[3] <= 0 \/ told[4] <= 0
  <2>1. told[3] \in Int /\ told[4] \in Int
    <3>1. CASE Len(shape) = 4
      <4>1. 3 \in 1 .. 4 /\ 4 \in 1 .. 4
        OBVIOUS
      <4> QED
        BY <3>1, <4>1, Dimensions
    <3>2. CASE Len(shape) # 4
      BY <3>2, SizeAssumption
    <3> QED
      BY <3>1, <3>2
  <2>2. \E a : s = <<a, 3, IF open THEN DefaultSize ELSE told[3],
                     IF open THEN DefaultSize ELSE told[4]>>
    BY <1>1 DEF FaceShape, ScrfdShape
  <2> HIDE DEF told, s, open
  <2> QED
    BY <2>1, <2>2, SizeAssumption DEF s
<1>2. CASE family \notin ScrfdFamilies
  <2>1. s = ResolveNchwShape(shape, f)
    BY <1>2 DEF FaceShape
  <2> DEFINE c == IF f.channels > 0 THEN f.channels ELSE 3
  <2>2. c \in Int
    OBVIOUS
  <2>3. CASE Len(shape) = 4
    <3>1. s = Fill(shape, <<1, c, f.height, f.width>>)
      BY <2>1, <2>3 DEF ResolveNchwShape
    <3> HIDE DEF c, s
    <3>2. s \in Seq(Int)
      BY <2>2, <2>3, <3>1, FillWhole
    <3>3. Len(s) = 4
      BY DEF s
    <3>4. 3 \in 1 .. 4 /\ 4 \in 1 .. 4
      OBVIOUS
    <3> QED
      BY <3>2, <3>3, <3>4, Dimensions DEF s
  <2>4. CASE Len(shape) # 4
    BY <2>1, <2>4 DEF ResolveNchwShape
  <2> QED
    BY <2>3, <2>4
<1> QED
  BY <1>1, <1>2

LEMMA FaceInputWhole ==
  ASSUME scene \in Scenes, scene.task = "face_detection", NEW f,
         f.width \in Int, f.height \in Int, f.channels \in Int, Found(FaceInput(f))
  PROVE  WholeInput(FaceInput(f), f)
<1> DEFINE shape == FaceShape(scene.family, scene.shape, f, DefaultSize)
           size == Resized(f, shape[4], shape[3], scene.family)
           in == FaceInput(f)
<1>1. in = BuildScrfdInput(f, shape, scene.family) /\ Found(f)
  BY DEF FaceInput, Found
<1>2. /\ Len(shape) = 4 /\ HasMat(f)
      /\ in = [type |-> "scrfd", shows |-> f.channels = 3, width |-> size[1],
               height |-> size[2], input_width |-> shape[4], input_height |-> shape[3]]
  BY <1>1 DEF BuildScrfdInput, Found
<1>3. f.width \in Nat \ {0} /\ f.height \in Nat \ {0}
  BY <1>2 DEF HasMat, HasValidDesc
<1>4. scene.shape \in Seq(Int)
  BY ScenesAssumption
<1>5. shape[3] \in Int /\ shape[4] \in Int
  BY <1>2, <1>4, FaceShapeWhole
<1>6. /\ in.width = size[1] /\ in.height = size[2]
      /\ in.input_width = shape[4] /\ in.input_height = shape[3]
  BY <1>2
<1> HIDE DEF shape
<1>7. size[1] \in Int /\ size[2] \in Int
  BY <1>3, <1>5, ResizedWhole
<1> HIDE DEF size, in
<1> QED
  BY <1>3, <1>5, <1>6, <1>7 DEF WholeInput, in

LEMMA ScaledWhole ==
  ASSUME NEW object \in Objects, NEW in, NEW f, WholeInput(in, f)
  PROVE  LET b == Scaled(object, in, f) IN
         b.x \in Int /\ b.y \in Int /\ b.width \in Int /\ b.height \in Int
<1> DEFINE o == object.box
<1>1. o.x \in Int /\ o.y \in Int /\ o.width \in Int /\ o.height \in Int
  BY DEF Objects
<1> HIDE DEF o
<1>2. /\ o.x * in.width \in Int /\ o.y * in.height \in Int
      /\ o.width * in.width \in Int /\ o.height * in.height \in Int
  BY <1>1, TimesWhole DEF WholeInput
<1>3. /\ (o.x * in.width) \div f.width \in Int /\ (o.y * in.height) \div f.height \in Int
      /\ (o.width * in.width) \div f.width \in Int /\ (o.height * in.height) \div f.height \in Int
  BY <1>2, DivideWhole DEF WholeInput
<1> QED
  BY <1>3 DEF Scaled, o

LEMMA RowAnswersWhole ==
  ASSUME NEW s, s.rows \in Nat, NEW seen \in Seq(Objects), NEW in, NEW f, WholeInput(in, f)
  PROVE  \E t : RowAnswers(s, seen, in, f) = <<t>> /\ Whole(t) /\ t.size \in Nat
<1> DEFINE rows == s.rows
           Row(n) == LET b == Scaled(seen[n], in, f) IN
             IF n > Len(seen) \/ ~in.shows THEN <<0, 0, 0, 0, 0>>
             ELSE (IF s.corners THEN <<b.x, b.y, b.x + b.width, b.y + b.height>>
                   ELSE <<b.x + b.width \div 2, b.y + b.height \div 2, b.width, b.height>>)
                  \o <<seen[n].score>>
           Value(row, attr) == Row(row + 1)[attr + 1]
           t == [type |-> "tensor", name |-> "rows", dtype |-> "float32", device |-> "host",
                 view |-> 0,
                 shape |-> IF s.transposed THEN <<1, 5, rows>> ELSE <<1, rows, 5>>,
                 size |-> rows * 5,
                 data |-> [n \in 0 .. rows * 5 - 1 |->
                             IF s.transposed THEN Value(n % rows, n \div rows)
                             ELSE Value(n \div 5, n % 5)]]
<1>1. RowAnswers(s, seen, in, f) = <<t>>
  BY DEF RowAnswers
<1>2. ASSUME NEW n \in Nat \ {0} PROVE Row(n) \in Seq(Int) /\ Len(Row(n)) = 5
  <2>1. CASE n > Len(seen) \/ ~in.shows
    BY <2>1
  <2>2. CASE ~(n > Len(seen) \/ ~in.shows)
    <3> DEFINE o == seen[n]
               b == Scaled(o, in, f)
               sides == IF s.corners THEN <<b.x, b.y, b.x + b.width, b.y + b.height>>
                        ELSE <<b.x + b.width \div 2, b.y + b.height \div 2, b.width, b.height>>
               score == <<o.score>>
    <3>1. o \in Objects
      BY <2>2
    <3>2. b.x \in Int /\ b.y \in Int /\ b.width \in Int /\ b.height \in Int
      BY <3>1, ScaledWhole
    <3>3. o.score \in Int
      BY <3>1 DEF Objects
    <3>4. Row(n) = sides \o score
      BY <2>2
    <3> HIDE DEF b, o
    <3>5. sides \in Seq(Int) /\ Len(sides) = 4
      BY <3>2
    <3>6. score \in Seq(Int) /\ Len(score) = 1
      BY <3>3
    <3> HIDE DEF sides, score
    <3>7. \A p, q \in Seq(Int) : p \o q \in Seq(Int) /\ Len(p \o q) = Len(p) + Len(q)
      OBVIOUS
    <3> DEFINE row == Row(n)
    <3> HIDE DEF Row
    <3>8. row \in Seq(Int) /\ Len(row) = Len(sides) + Len(score)
      BY <3>4, <3>5, <3>6, <3>7, Zenon
    <3> HIDE DEF row
    <3>9. row \in Seq(Int) /\ Len(row) = 5
      BY <3>5, <3>6, <3>8
    <3> QED
      BY <3>9 DEF row
  <2> QED
    BY <2>1, <2>2
<1> HIDE DEF Row
<1>3. ASSUME NEW row \in Nat, NEW attr \in 0 .. 4 PROVE Value(row, attr) \in Int
  <2>1. Row(row + 1) \in Seq(Int) /\ Len(Row(row + 1)) = 5
    BY <1>2
  <2>2. attr + 1 \in 1 .. 5
    OBVIOUS
  <2> QED
    BY <2>1, <2>2, Dimensions
<1> HIDE DEF Value
<1>4. ASSUME NEW n \in 0 .. rows * 5 - 1 PROVE t.data[n] \in Int
  <2>1. n \in Nat /\ n < rows * 5 /\ rows \in Nat \ {0}
    OBVIOUS
  <2>2. n % rows \in Nat /\ n \div rows \in 0 .. 4
    <3> DEFINE attrs == 5
    <3>1. attrs \in Nat \ {0} /\ n < rows * attrs
      BY <2>1
    <3> HIDE DEF rows, attrs
    <3>2. n % rows \in 0 .. rows - 1 /\ n \div rows \in 0 .. attrs - 1
      BY <2>1, <3>1, RowAndColumn
    <3> QED
      BY <2>1, <3>2 DEF attrs
  <2>3. n % 5 \in 0 .. 4 /\ n \div 5 \in Nat
    BY <2>1
  <2> QED
    BY <1>3, <2>2, <2>3
<1>5. t.shape \in Seq(Int)
  <2>1. <<1, 5, rows>> \in Seq(Int) /\ <<1, rows, 5>> \in Seq(Int)
    OBVIOUS
  <2> QED
    BY <2>1
<1>6. DOMAIN t.data = 0 .. rows * 5 - 1 /\ t.size \in Nat
  OBVIOUS
<1> HIDE DEF t
<1>7. Whole(t)
  BY <1>4, <1>5, <1>6 DEF Whole
<1> QED
  BY <1>1, <1>6, <1>7

LEMMA ScrfdAnswersWhole ==
  ASSUME NEW s, s.outputs \in {6, 9, 10, 15}, NEW seen \in Seq(Objects),
         NEW in, NEW f, WholeInput(in, f), NEW level \in 1 .. Levels(s.outputs)
  PROVE  Whole(ScrfdAnswers(s, seen, in, f)[level])
<1> DEFINE count == s.outputs
           levels == Levels(count)
           Rows(l) == Anchors(count) * (in.input_width \div Strides[l])
                                     * (in.input_height \div Strides[l])
           Here(row, l) ==
             IF l # 1 \/ ~in.shows THEN {}
             ELSE {n \in DOMAIN seen : AnchorRow(seen[n], count, l, in, f) = row}
           Seen(row, l) == seen[CHOOSE n \in Here(row, l) : TRUE]
           Score(row, l) == <<IF Here(row, l) = {} THEN 0 ELSE Seen(row, l).score>>
           scores == [r \in 0 .. Rows(level) - 1 |-> Score(r, level)]
           t == LevelTensor(Rows(level), 1, scores)
<1>1. count \in Nat /\ levels \in {3, 5} /\ level \in 1 .. 5 /\ levels <= count
  BY DEF Levels
<1>2. ScrfdAnswers(s, seen, in, f)[level] = t
  <2>1. level \in 1 .. count /\ ((level - 1) % levels) + 1 = level /\ (level - 1) \div levels = 0
    BY <1>1
  <2> DEFINE Sides(row, l) ==
               IF Here(row, l) = {} THEN <<0, 0, 0, 0>>
               ELSE LET b == Scaled(Seen(row, l), in, f) IN
                    <<0, 0, b.width \div Strides[l], b.height \div Strides[l]>>
             Marks(row, l) == [m \in 1 .. 10 |-> IF m % 2 = 1 THEN Sides(row, l)[3] ELSE 0]
             Of(l, kind) ==
               CASE kind = 0 -> LevelTensor(Rows(l), 1, [r \in 0 .. Rows(l) - 1 |-> Score(r, l)])
                 [] kind = 1 -> LevelTensor(Rows(l), 4, [r \in 0 .. Rows(l) - 1 |-> Sides(r, l)])
                 [] OTHER -> LevelTensor(Rows(l), 10, [r \in 0 .. Rows(l) - 1 |-> Marks(r, l)])
             outputs == ScrfdAnswers(s, seen, in, f)
  <2>2. outputs = [n \in 1 .. count |-> Of(((n - 1) % levels) + 1, (n - 1) \div levels)]
    BY DEF ScrfdAnswers
  <2>3. Of(level, 0) = t
    OBVIOUS
  <2> HIDE DEF Of, t, outputs, levels, count
  <2>4. outputs[level] = Of(level, 0)
    BY <2>1, <2>2
  <2> QED
    BY <2>3, <2>4 DEF outputs
<1>3. Rows(level) \in Int
  <2>1. Strides[level] \in Nat \ {0}
    BY <1>1 DEF Strides
  <2>2. in.input_width \div Strides[level] \in Int /\ in.input_height \div Strides[level] \in Int
    BY <2>1, DivideWhole DEF WholeInput
  <2>3. Anchors(count) \in Int
    BY DEF Anchors
  <2> QED
    BY <2>2, <2>3, TimesWhole
<1>4. \A r : Score(r, level)[1] \in Int
  <2> SUFFICES ASSUME NEW r PROVE Score(r, level)[1] \in Int
    OBVIOUS
  <2>1. CASE Here(r, level) = {}
    BY <2>1
  <2>2. CASE Here(r, level) # {}
    <3>1. (CHOOSE n \in Here(r, level) : TRUE) \in Here(r, level)
      BY <2>2
    <3>2. Here(r, level) \subseteq DOMAIN seen
      OBVIOUS
    <3>3. Seen(r, level) \in Objects
      BY <3>1, <3>2
    <3> QED
      BY <2>2, <3>3 DEF Objects
  <2> QED
    BY <2>1, <2>2
<1> DEFINE rows == Rows(level)
<1> HIDE DEF Score, Rows, rows
<1>5. t.shape = <<1, rows, 1>>
      /\ t.data = [n \in 0 .. rows * 1 - 1 |-> scores[n \div 1][(n % 1) + 1]]
  BY DEF LevelTensor, rows
<1> HIDE DEF t
<1>6. rows \in Int
  BY <1>3 DEF rows
<1>7. t.shape \in Seq(Int)
  BY <1>5, <1>6
<1>8. ASSUME NEW n \in DOMAIN t.data PROVE t.data[n] \in Int
  <2>1. n \in 0 .. rows - 1 /\ n \div 1 = n /\ (n % 1) + 1 = 1
    BY <1>5, <1>6
  <2>2. t.data[n] = scores[n][1]
    BY <1>5, <2>1
  <2>3. scores[n] = Score(n, level)
    BY <2>1 DEF rows
  <2> QED
    BY <1>4, <2>2, <2>3
<1> QED
  BY <1>2, <1>7, <1>8 DEF Whole

LEMMA FacesScored ==
  ASSUME scene \in Scenes, scene.task = "face_detection", NEW f,
         f.width \in Int, f.height \in Int, f.channels \in Int, Found(FaceInput(f)),
         NEW seen \in Seq(Objects)
  PROVE  LET in == FaceInput(f) IN
         Scored(FaceCandidates(scene.family, FaceAnswers(scene, seen, in, f), in, f, Confidence))
<1> DEFINE in == FaceInput(f)
           outputs == FaceAnswers(scene, seen, in, f)
           found == FaceCandidates(scene.family, outputs, in, f, Confidence)
<1>1. scene.rows \in Nat /\ scene.outputs \in Nat
  BY ScenesAssumption
<1>2. WholeInput(in, f)
  BY FaceInputWhole
<1> SUFFICES Scored(found)
  OBVIOUS
<1> HIDE DEF in
<1>3. CASE scene.family \in ScrfdFamilies
  <2>1. outputs = ScrfdAnswers(scene, seen, in, f) /\ found = ParseScrfd(outputs, in, f, Confidence)
    BY <1>3 DEF FaceAnswers, FaceCandidates
  <2>2. Len(outputs) = scene.outputs
    <3>1. \E g : outputs = [n \in 1 .. scene.outputs |-> g[n]]
      <4>1. DOMAIN outputs = 1 .. scene.outputs /\ outputs = [n \in 1 .. scene.outputs |-> outputs[n]]
        BY <2>1 DEF ScrfdAnswers
      <4> QED
        BY <4>1
    <3> HIDE DEF outputs
    <3>2. PICK g : outputs = [n \in 1 .. scene.outputs |-> g[n]]
      BY <3>1
    <3> DEFINE S == {g[n] : n \in 1 .. scene.outputs}
    <3>3. outputs \in [1 .. scene.outputs -> S]
      BY <3>2
    <3> HIDE DEF S
    <3> QED
      BY <1>1, <3>3
  <2>3. Len(outputs) \in {6, 9, 10, 15} =>
          \A level \in 1 .. Levels(Len(outputs)) : Whole(outputs[level])
    BY <1>1, <1>2, <2>1, <2>2, ScrfdAnswersWhole
  <2> HIDE DEF outputs, found
  <2>4. Scored(ParseScrfd(outputs, in, f, Confidence))
    BY <2>3, ScrfdScored
  <2> QED
    BY <2>1, <2>4
<1>4. CASE scene.family \notin ScrfdFamilies
  <2>1. outputs = RowAnswers(scene, seen, in, f) /\ found = ParseFaceRows(outputs, f, Confidence)
    BY <1>4 DEF FaceAnswers, FaceCandidates
  <2>2. PICK t : outputs = <<t>> /\ Whole(t)
    BY <1>1, <1>2, <2>1, RowAnswersWhole
  <2>3. AllWhole(outputs)
    <3> DEFINE N == DOMAIN outputs
    <3>1. N = {1} /\ outputs[1] = t
      BY <2>2
    <3> HIDE DEF N, outputs
    <3>2. IsFiniteSet({1})
      BY FS_Singleton
    <3>3. {1} \in SUBSET Int
      OBVIOUS
    <3> QED
      BY <2>2, <3>1, <3>2, <3>3 DEF AllWhole, N
  <2> HIDE DEF outputs, found
  <2>4. Scored(ParseFaceRows(outputs, f, Confidence))
    BY <2>3, FaceRowsScored
  <2> QED
    BY <2>1, <2>4
<1> QED
  BY <1>3, <1>4

-----------------------------------------------------------------------------
(* The invariant of the suppression: the candidates can be put in order,    *)
(* and detections are what is left of them.                                 *)
KeptInv ==
  /\ Scored(candidates)
  /\ Names(output) = {"detections"} =>
       output[1].value = NonMaximumSuppression(candidates, OverlapPercent)

LEMMA OthersHaveNoDetections ==
  ASSUME scene.task \notin {"detection", "face_detection"}, NEW out, FitsSchema(out)
  PROVE  Names(out) # {"detections"}
<1>1. "detections" \notin Allowed(scene.task)
  BY DEF Allowed, Required
<1>2. Names(<<>>) # {"detections"}
  BY DEF Names
<1> QED
  BY <1>1, <1>2 DEF FitsSchema

LEMMA NoNames == Names(<<>>) # {"detections"}
  BY DEF Names

LEMMA KeptInitHolds == Init => KeptInv
  BY NothingScored, NoNames DEF Init, Ready, KeptInv

LEMMA NothingKept == ASSUME Scored(candidates)', output' = <<>> PROVE KeptInv'
  BY NoNames DEF KeptInv

LEMMA KeptStays == ASSUME KeptInv, UNCHANGED <<candidates, output>> PROVE KeptInv'
  BY DEF KeptInv

LEMMA DetectionsKept ==
  ASSUME Scored(candidates)',
         output' = <<Field("detections", NonMaximumSuppression(candidates', OverlapPercent))>>
  PROVE  KeptInv'
<1> DEFINE v == NonMaximumSuppression(candidates', OverlapPercent)
<1>1. output'[1].value = v
  BY DEF Field
<1> QED
  BY <1>1 DEF KeptInv

LEMMA KeptStepHolds == RunInv /\ KeptInv /\ [Next]_vars => KeptInv'
<1> SUFFICES ASSUME RunInv, KeptInv, [Next]_vars PROVE KeptInv'
  OBVIOUS
<1>1. ASSUME NEW w, Start(w) PROVE KeptInv'
  BY <1>1, NothingKept, NothingScored DEF Start
<1>2. CASE PrepareDetection
  BY <1>2, KeptStays DEF PrepareDetection, Untouched
<1>3. CASE BackendAnswers
  BY <1>3, KeptStays DEF BackendAnswers, Untouched
<1>4. CASE PostprocessDetection
  <2>1. Scored(candidates)'
    <3>1. scene.task = "detection" /\ scene \in Scenes
      BY <1>4 DEF PostprocessDetection, RunInv
    <3>2. candidates' = IF Found(Request) THEN CandidatesFound ELSE <<>>
      BY <1>4, PostprocessedFrom
    <3> QED
      BY <3>1, <3>2, NothingScored, DetectionScored
  <2>2. output' = <<Field("detections", NonMaximumSuppression(candidates', OverlapPercent))>>
    BY <1>4 DEF PostprocessDetection
  <2> QED
    BY <2>1, <2>2, DetectionsKept
<1>5. CASE RunPromptable
  <2>1. scene.task = "promptable" /\ candidates' = candidates /\ output' = PromptedResult(way)
    BY <1>5 DEF RunPromptable, PromptedResult
  <2>2. FitsSchema(PromptedResult(way))
    BY <2>1, PromptedFits, NothingFits DEF PromptedResult
  <2>3. Names(output') # {"detections"}
    BY <2>1, <2>2, OthersHaveNoDetections
  <2> QED
    BY <2>1, <2>3 DEF KeptInv
<1>6. CASE RunHostTask
  <2>1. HostTask(scene.task) /\ candidates' = candidates
    BY <1>6 DEF RunHostTask
  <2>2. output' = <<>> \/ \E outputs, f : output' = HostTaskOutput(outputs, f)
    BY <1>6 DEF RunHostTask
  <2>3. PICK out : output' = out /\ FitsSchema(out)
    BY <2>1, <2>2, HostTaskFits, NothingFits DEF HostTask
  <2>4. Names(output') # {"detections"}
    BY <2>1, <2>3, OthersHaveNoDetections DEF HostTask
  <2> QED
    BY <2>1, <2>4 DEF KeptInv
<1>7. CASE RunFaces
  <2> DEFINE f == ResolveHostImage(scene.items, scene.cuda)
             in == FaceInput(f)
             seen == SeenIn(scene.objects, f)
             outputs == FaceAnswers(scene, seen, in, f)
  <2>1. scene.task = "face_detection" /\ scene \in Scenes
    BY <1>7 DEF RunFaces, RunInv
  <2>2. CASE Found(in) /\ scene.answers
    <3>1. DetectFaces(f, in, outputs)
      BY <1>7, <2>2 DEF RunFaces
    <3>2. Found(f)
      BY <2>2 DEF FaceInput, Found
    <3>3. WholeImages(scene.items)
      BY <2>1, ScenesAssumption DEF WholeImages
    <3>4. f.width \in Int /\ f.height \in Int /\ f.channels \in Int
      BY <3>2, <3>3, ResolvedWhole
    <3> HIDE DEF f
    <3>5. seen \in Seq(Objects)
      BY <2>1, <3>4, ScenesAssumption, SeenWhole
    <3> HIDE DEF seen
    <3>6. Scored(FaceCandidates(scene.family, outputs, in, f, Confidence))
      BY <2>1, <2>2, <3>4, <3>5, FacesScored
    <3>7. Scored(candidates)'
      BY <3>1, <3>6 DEF DetectFaces
    <3> QED
      BY <3>1, <3>7, DetectionsKept DEF DetectFaces
  <2>3. CASE ~(Found(in) /\ scene.answers)
    <3>1. candidates' = <<>> /\ output' = <<>>
      BY <1>7, <2>3 DEF RunFaces
    <3> QED
      BY <3>1, NothingKept, NothingScored
  <2> QED
    BY <2>2, <2>3
<1>8. CASE UNCHANGED vars
  BY <1>8, KeptStays DEF vars
<1> QED
  BY <1>1, <1>2, <1>3, <1>4, <1>5, <1>6, <1>7, <1>8 DEF Next

(* The detections handed out are a greedy selection of the candidates       *)
(* (nms.cpp:13-59), of YOLO rows and of faces.                              *)
THEOREM DetectionsAreGreedy == Spec => []KeptAreGreedy
<1>1. KeptInv => KeptAreGreedy
  <2> SUFFICES ASSUME KeptInv, Names(output) = {"detections"}
               PROVE  GreedySelection(output[1].value, candidates, OverlapPercent)
    BY DEF KeptAreGreedy
  <2>1. PICK S : candidates \in Seq(S) /\ \A c \in S : c.score \in Int
    BY DEF KeptInv, Scored
  <2>2. GreedySelection(NonMaximumSuppression(candidates, OverlapPercent), candidates,
                        OverlapPercent)
    BY <2>1, SuppressionIsGreedy
  <2> QED
    BY <2>2 DEF KeptInv
<1>2. Init => RunInv /\ KeptInv
  BY RunInitHolds, KeptInitHolds
<1>3. RunInv /\ KeptInv /\ [Next]_vars => RunInv' /\ KeptInv'
  BY RunStepHolds, KeptStepHolds
<1> QED
  BY <1>1, <1>2, <1>3, PTL DEF Spec

-----------------------------------------------------------------------------
(* Products of whole numbers.                                               *)
LEMMA TimesMore == \A a, b, c \in Nat : a <= b => a * c <= b * c /\ c * a <= c * b
  OBVIOUS

LEMMA TimesOrder == \A a, b, c \in Int : (a * b) * c = (a * c) * b
  OBVIOUS

(* What one may take for granted of an image.                               *)
WholeImage(im) ==
  /\ im.stride = 0 \/ im.stride >= PackedStride(im)
  /\ im.format = "nv12" => im.channels = 1

LEMMA MatFits ==
  ASSUME NEW im, ImageTypes(im), WholeImage(im), HasValidDesc(im)
  PROVE  /\ MatBytes(im) \in Nat /\ RequiredBytes(im) \in Nat
         /\ MatBytes(im) <= PackedStride(im) * im.height
         /\ MatBytes(im) <= RequiredBytes(im)
<1> DEFINE w == im.width
           h == im.height
           p == PackedStride(im)
           e == EffectiveStride(im)
           m == MatChannels(im)
           b == BytesPerPixel(im)
<1>1. w \in Nat \ {0} /\ h \in Nat \ {0} /\ im.channels \in Nat \ {0} /\ im.stride \in Nat
  BY DEF ImageTypes, HasValidDesc
<1>2. b \in Nat \ {0} /\ m \in Nat /\ m <= b
  BY <1>1 DEF BytesPerPixel, MatChannels, AtLeast, WholeImage
<1>3. p = w * b
  BY <1>1 DEF PackedStride
<1>4. e = IF im.stride > 0 THEN im.stride ELSE p
  BY DEF EffectiveStride
<1>5. im.stride = 0 \/ im.stride >= p
  BY DEF WholeImage
<1>6. MatBytes(im) = w * h * m
  BY DEF MatBytes
<1>7. RequiredBytes(im) = IF im.format = "nv12" THEN (e * h * 3) \div 2 ELSE e * h
  BY DEF RequiredBytes
<1> HIDE DEF w, h, p, e, m, b
<1>8. p \in Nat /\ e \in Nat /\ p <= e
  BY <1>1, <1>2, <1>3, <1>4, <1>5
<1>9. w * h * m \in Nat /\ p * h \in Nat /\ e * h \in Nat
  BY <1>1, <1>2, <1>8
<1>10. w * h * m <= p * h
  <2>1. w * m <= w * b
    BY <1>1, <1>2, TimesMore
  <2>2. w * m \in Nat
    BY <1>1, <1>2
  <2>3. (w * m) * h <= p * h
    BY <1>1, <1>3, <1>8, <2>1, <2>2, TimesMore
  <2>4. w * h * m = (w * m) * h
    BY <1>1, <1>2, TimesOrder
  <2> QED
    BY <2>3, <2>4
<1>11. p * h <= e * h
  BY <1>1, <1>8, TimesMore
<1>12. (e * h * 3) \div 2 \in Nat /\ e * h <= (e * h * 3) \div 2
  <2>1. \A n \in Nat : (n * 3) \div 2 \in Nat /\ n <= (n * 3) \div 2
    OBVIOUS
  <2> QED
    BY <1>9, <2>1
<1>13. RequiredBytes(im) \in Nat /\ e * h <= RequiredBytes(im)
  BY <1>7, <1>9, <1>12
<1> QED
  BY <1>6, <1>9, <1>10, <1>11, <1>13 DEF p, h

(* A frame with the sides of an image and bytes enough.                     *)
LEMMA FrameFits ==
  ASSUME NEW im, ImageTypes(im), WholeImage(im), NEW stride, NEW bytes \in Int,
         HasValidDesc(im) =>
           bytes >= RequiredBytes(im) \/ bytes >= PackedStride(im) * im.height
  PROVE  FrameInside(HostFrame(im, stride, bytes))
<1> DEFINE f == HostFrame(im, stride, bytes)
<1> SUFFICES ASSUME HasMat(f) PROVE MatBytes(f) <= f.bytes
  BY DEF FrameInside
<1>1. /\ f.width = im.width /\ f.height = im.height /\ f.channels = im.channels
      /\ f.bytes = bytes
  BY HostFrameSides
<1> HIDE DEF f
<1>2. HasValidDesc(im) /\ MatBytes(f) = MatBytes(im)
  BY <1>1 DEF HasMat, HasValidDesc, MatBytes, MatChannels
<1>3. PackedStride(im) * im.height \in Int
  BY StrideWhole DEF ImageTypes
<1> QED
  BY <1>1, <1>2, <1>3, MatFits

WholeItems(items) ==
  /\ WholeImages(items)
  /\ \A n \in DOMAIN items : IsImage(items[n]) =>
       /\ WholeImage(items[n])
       /\ items[n].type = "frame" => items[n].bytes >= RequiredBytes(items[n])

LEMMA ImageFound ==
  ASSUME NEW items, WholeItems(items), NEW name, NEW type \in {"image", "frame"},
         Found(Find(items, name, type))
  PROVE  LET im == Find(items, name, type) IN
         /\ ImageTypes(im) /\ WholeImage(im)
         /\ type = "frame" => im.bytes >= RequiredBytes(im)
<1>1. PICK n \in DOMAIN items : Find(items, name, type) = items[n] /\ items[n].type = type
  BY FindFound DEF WholeItems, WholeImages
<1> QED
  BY <1>1 DEF WholeItems, WholeImages, IsImage

LEMMA NoFrame == FrameInside(NoValue)
  BY DEF FrameInside, Found

LEMMA MaterializedInside ==
  ASSUME NEW im, ImageTypes(im), WholeImage(im), NEW cuda
  PROVE  FrameInside(MaterializeHostFrame(im, cuda))
<1>0. im.bytes \in Int
  BY DEF ImageTypes
<1>1. CASE MaterializeHostFrame(im, cuda) = NoValue
  BY <1>1, NoFrame
<1>2. CASE MaterializeHostFrame(im, cuda) # NoValue /\ im.device = "host"
  <2>1. /\ HasValidHostLayout(im)
        /\ MaterializeHostFrame(im, cuda) = HostFrame(im, EffectiveStride(im), im.bytes)
    BY <1>2 DEF MaterializeHostFrame, FrameOf
  <2> QED
    BY <1>0, <2>1, FrameFits DEF HasValidHostLayout
<1>3. CASE MaterializeHostFrame(im, cuda) # NoValue /\ im.device # "host"
  <2>1. /\ HasValidDeviceView(im)
        /\ MaterializeHostFrame(im, cuda) = HostFrame(im, EffectiveStride(im), RequiredBytes(im))
    BY <1>3 DEF MaterializeHostFrame
  <2>2. RequiredBytes(im) \in Nat
    BY <2>1, MatFits DEF HasValidDeviceView
  <2>3. RequiredBytes(im) \in Int /\ RequiredBytes(im) >= RequiredBytes(im)
    BY <2>2
  <2> QED
    BY <2>1, <2>3, FrameFits
<1> QED
  BY <1>1, <1>2, <1>3

LEMMA RawInside ==
  ASSUME NEW im, ImageTypes(im), WholeImage(im), im.bytes >= RequiredBytes(im)
  PROVE  FrameInside(FrameOf(im))
<1>1. im.bytes \in Int
  BY DEF ImageTypes
<1> QED
  BY <1>1, FrameFits DEF FrameOf

(* However a frame gets to the host.                                        *)
LEMMA ResolvedInside ==
  ASSUME NEW items, WholeItems(items), NEW cuda
  PROVE  /\ FrameInside(ResolveHostImage(items, cuda))
         /\ FrameInside(PromptFrame(items, cuda))
<1> DEFINE image == Find(items, "image", "image")
           frame == Find(items, "image", "frame")
           f == IF Found(image) THEN MaterializeHostFrame(image, cuda)
                ELSE IF Found(frame) THEN FrameOf(frame) ELSE NoValue
<1>1. FrameInside(f)
  <2>1. CASE Found(image)
    BY <2>1, ImageFound, MaterializedInside
  <2>2. CASE ~Found(image) /\ Found(frame)
    BY <2>2, ImageFound, RawInside
  <2>3. CASE ~Found(image) /\ ~Found(frame)
    BY <2>3, NoFrame
  <2> QED
    BY <2>1, <2>2, <2>3
<1>2. ResolveHostImage(items, cuda) = f /\ PromptFrame(items, cuda) = f
  BY DEF ResolveHostImage, PromptFrame, PromptFrameOf
<1> QED
  BY <1>1, <1>2

LEMMA CopiedInside ==
  ASSUME WholeItems(scene.items) PROVE FrameInside(FrameCopied)
<1> DEFINE items == scene.items
           image == Find(items, "image", "image")
           frame == Find(items, "image", "frame")
           im == SourceValue(items)
<1>1. CASE SourcePath(items) = "host_cpu"
  <2>1. FrameCopied = im
    BY <1>1 DEF FrameCopied
  <2>2. CASE Found(image)
    <3>1. im = image /\ HasValidHostLayout(image)
      BY <1>1, <2>2 DEF SourcePath, SourceOf, SourceValue
    <3>2. ImageTypes(image) /\ WholeImage(image)
      BY <2>2, ImageFound
    <3> HIDE DEF image, im
    <3>3. MatBytes(image) <= image.bytes
      BY <3>1, <3>2, MatFits DEF HasValidHostLayout, ImageTypes
    <3> QED
      BY <2>1, <3>1, <3>3 DEF FrameInside
  <2>3. CASE ~Found(image)
    <3>1. im = frame /\ Found(frame)
      BY <1>1, <2>3 DEF SourcePath, SourceOf, SourceValue
    <3>2. ImageTypes(frame) /\ WholeImage(frame) /\ frame.bytes >= RequiredBytes(frame)
      BY <3>1, ImageFound
    <3> HIDE DEF frame, im
    <3>3. HasMat(frame) => MatBytes(frame) <= frame.bytes
      BY <3>2, MatFits DEF HasMat, ImageTypes
    <3> QED
      BY <2>1, <3>1, <3>3 DEF FrameInside
  <2> QED
    BY <2>2, <2>3
<1>2. CASE SourcePath(items) = "cuda_device" /\ ~scene.cuda.kernels
  <2>1. FrameCopied = CopyCudaImage(im, scene.cuda)
    BY <1>2 DEF FrameCopied
  <2>2. im = image /\ Found(image)
    BY <1>2 DEF SourcePath, SourceOf, SourceValue
  <2>3. ImageTypes(im) /\ WholeImage(im)
    BY <2>2, ImageFound
  <2> HIDE DEF im
  <2>4. CASE CopyCudaImage(im, scene.cuda) = NoValue
    BY <2>1, <2>4, NoFrame
  <2>5. CASE CopyCudaImage(im, scene.cuda) # NoValue
    <3>1. CopyCudaImage(im, scene.cuda) =
            HostFrame(im, PackedStride(im), PackedStride(im) * im.height)
      BY <2>5 DEF CopyCudaImage
    <3>2. PackedStride(im) * im.height \in Int
      BY <2>3, StrideWhole, TimesWhole DEF ImageTypes
    <3>3. PackedStride(im) * im.height >= PackedStride(im) * im.height
      BY <3>2
    <3> QED
      BY <2>1, <2>3, <3>1, <3>2, <3>3, FrameFits
  <2> QED
    BY <2>4, <2>5
<1>3. CASE ~(SourcePath(items) = "host_cpu" \/ (SourcePath(items) = "cuda_device" /\ ~scene.cuda.kernels))
  BY <1>3, NoFrame DEF FrameCopied
<1> QED
  BY <1>1, <1>2, <1>3

-----------------------------------------------------------------------------
(* The elements of the tensors.                                             *)
LEMMA CellInside ==
  ASSUME NEW n \in Nat, NEW m \in Nat, NEW r \in 0 .. n - 1, NEW c \in 0 .. m - 1
  PROVE  r * m + c \in 0 .. n * m - 1
<1>1. r + 1 \in Nat /\ r + 1 <= n /\ r * m \in Nat /\ n * m \in Nat
  OBVIOUS
<1>2. (r + 1) * m <= n * m
  BY <1>1, TimesMore
<1>3. (r + 1) * m = r * m + m
  OBVIOUS
<1> QED
  BY <1>1, <1>2, <1>3

LEMMA YoloElementsInside ==
  ASSUME NEW layout, layout.boxes \in Nat, layout.attrs \in Nat
  PROVE  YoloElements(layout) \subseteq 0 .. layout.boxes * layout.attrs - 1
<1> DEFINE b == layout.boxes
           a == layout.attrs
<1>1. ASSUME NEW row \in 0 .. b - 1, NEW attr \in 0 .. a - 1
      PROVE  YoloIndex(layout, row, attr) \in 0 .. b * a - 1
  <2> HIDE DEF b, a
  <2>1. row * a + attr \in 0 .. b * a - 1 /\ attr * b + row \in 0 .. a * b - 1
    BY CellInside DEF b, a
  <2>2. a * b = b * a
    BY DEF a, b
  <2> QED
    BY <2>1, <2>2 DEF YoloIndex, a, b
<1> QED
  BY <1>1 DEF YoloElements

LEMMA FaceElementsInside ==
  ASSUME NEW shape \in Seq(Int), NEW size \in Nat
  PROVE  FaceElements(RowLayout(shape), size) \subseteq 0 .. size - 1
<1> DEFINE layout == RowLayout(shape)
           b == layout.boxes
           a == layout.attrs
<1>1. b \in Nat /\ a \in Nat
  BY RowLayoutWhole
<1>2. CASE size = 0 \/ ~RowsFit(layout, size)
  BY <1>2 DEF FaceElements
<1>3. CASE ~(size = 0 \/ ~RowsFit(layout, size))
  <2>1. size >= b * a
    BY <1>3 DEF RowsFit
  <2>2. FaceElements(layout, size) =
          {RowIndex(layout, row, attr) : row \in 0 .. b - 1, attr \in 0 .. a - 1}
    BY <1>3 DEF FaceElements
  <2>3. ASSUME NEW row \in 0 .. b - 1, NEW attr \in 0 .. a - 1
        PROVE  RowIndex(layout, row, attr) \in 0 .. size - 1
    <3> HIDE DEF layout
    <3>1. row * a + attr \in 0 .. b * a - 1 /\ attr * b + row \in 0 .. a * b - 1
      BY <1>1, CellInside
    <3>2. a * b = b * a /\ b * a \in Nat
      BY <1>1
    <3>3. RowIndex(layout, row, attr) \in {row * a + attr, attr * b + row}
      BY DEF RowIndex
    <3> HIDE DEF a, b
    <3> QED
      BY <2>1, <3>1, <3>2, <3>3
  <2> QED
    BY <2>2, <2>3
<1> QED
  BY <1>2, <1>3

LEMMA MaskInside ==
  ASSUME NEW t, t.size \in Nat, t.shape \in Seq(Int), NEW f
  PROVE  MaskReads(t, f) \subseteq 0 .. t.size - 1
<1>1. CASE ~HasMask(t, f)
  BY <1>1 DEF MaskReads
<1>2. CASE HasMask(t, f)
  <2> DEFINE a == t.shape[2]
             b == t.shape[3]
             c == t.shape[4]
             p == Plane(t)
  <2>1. a \in Nat \ {0} /\ b \in Nat \ {0} /\ c \in Nat \ {0} /\ t.size >= a * b * c
    <3>1. Len(t.shape) = 4 /\ a > 0 /\ b > 0 /\ c > 0 /\ t.size >= a * b * c
      BY <1>2 DEF HasMask
    <3>2. 2 \in 1 .. 4 /\ 3 \in 1 .. 4 /\ 4 \in 1 .. 4
      OBVIOUS
    <3> QED
      BY <3>1, <3>2, Dimensions
  <2>2. p = b * c
    BY DEF Plane
  <2>3. MaskReads(t, f) = {channel * p + offset : channel \in 0 .. a - 1, offset \in 0 .. p - 1}
    BY <1>2 DEF MaskReads
  <2> HIDE DEF a, b, c, p
  <2>4. p \in Nat /\ a * p \in Nat /\ a * p = a * b * c
    BY <2>1, <2>2
  <2>5. ASSUME NEW channel \in 0 .. a - 1, NEW offset \in 0 .. p - 1
        PROVE  channel * p + offset \in 0 .. t.size - 1
    <3>1. channel * p + offset \in 0 .. a * p - 1
      BY <2>1, <2>4, CellInside
    <3> QED
      BY <2>1, <2>4, <3>1
  <2> QED
    BY <2>3, <2>5
<1> QED
  BY <1>1, <1>2

LEMMA PointsInside ==
  ASSUME NEW t, t.size \in Nat, NEW strides, \A n \in DOMAIN strides : strides[n] \in Nat \ {0},
         DOMAIN strides \in SUBSET Nat
  PROVE  PointReads(t, strides) \subseteq 0 .. t.size - 1
<1> DEFINE s == PointStride(t, strides)
           count == PointCount(t, strides)
           dividing == {n \in DOMAIN strides : t.size % strides[n] = 0}
           last == IF t.shape = <<>> THEN 0 ELSE t.shape[Len(t.shape)]
           first == CHOOSE n \in dividing : \A m \in dividing : n <= m
<1>1. s = 0 \/ s \in Nat \ {0}
  <2>1. s = IF t.size = 0 THEN 0
            ELSE IF \E n \in DOMAIN strides : strides[n] = last THEN last
            ELSE IF dividing = {} THEN 0 ELSE strides[first]
    BY DEF PointStride
  <2>2. dividing # {} => first \in DOMAIN strides
    <3>1. dividing \in SUBSET Nat /\ dividing \subseteq DOMAIN strides
      OBVIOUS
    <3> HIDE DEF dividing
    <3>2. dividing # {} => first \in dividing
      BY <3>1, Smallest
    <3> QED
      BY <3>1, <3>2
  <2> HIDE DEF s, dividing, last, first
  <2> QED
    BY <2>1, <2>2
<1> HIDE DEF s
<1>2. count = IF s = 0 THEN 0 ELSE t.size \div s
  BY DEF PointCount, s
<1>3. PointReads(t, strides) = {(n - 1) * s + m : n \in 1 .. count, m \in 0 .. s - 1}
  BY DEF PointReads, s
<1> HIDE DEF count
<1>4. CASE s = 0
  <2>1. PointReads(t, strides) = {}
    BY <1>3, <1>4
  <2> QED
    BY <2>1
<1>5. CASE s \in Nat \ {0}
  <2>1. count \in Nat /\ count * s \in Nat /\ count * s <= t.size
    BY <1>2, <1>5
  <2>2. ASSUME NEW n \in 1 .. count, NEW m \in 0 .. s - 1 PROVE (n - 1) * s + m \in 0 .. t.size - 1
    <3> DEFINE r == n - 1
    <3>1. r \in 0 .. count - 1
      BY <2>1
    <3> HIDE DEF r
    <3>2. r * s + m \in 0 .. count * s - 1
      BY <1>5, <2>1, <3>1, CellInside
    <3>3. r * s + m \in 0 .. t.size - 1
      BY <2>1, <3>2
    <3> QED
      BY <3>3 DEF r
  <2> QED
    BY <1>3, <2>2
<1> QED
  BY <1>1, <1>4, <1>5

(* The number of elements of a tensor of three dimensions.                  *)
LEMMA ElementsOfThree ==
  ASSUME NEW a \in Nat, NEW b \in Nat, NEW c \in Nat
  PROVE  ElementCount(<<a, b, c>>) = a * b * c
<1> DEFINE shape == <<a, b, c>>
           Products(f) == f = [n \in 0 .. Len(shape) |-> IF n = 0 THEN 1 ELSE f[n - 1] * shape[n]]
           g == [n \in 0 .. 3 |-> IF n = 0 THEN 1 ELSE IF n = 1 THEN a
                                  ELSE IF n = 2 THEN a * b ELSE a * b * c]
           p == ProductOf(shape)
<1>1. Len(shape) = 3 /\ shape[1] = a /\ shape[2] = b /\ shape[3] = c /\ shape # <<>>
  OBVIOUS
<1> HIDE DEF shape
<1>2. Products(g)
  <2>1. \A n \in 0 .. 3 : n = 0 \/ n = 1 \/ n = 2 \/ n = 3
    OBVIOUS
  <2>2. /\ g[0] = 1 /\ g[1] = a /\ g[2] = a * b /\ g[3] = a * b * c
        /\ g[0] * shape[1] = a /\ g[1] * shape[2] = a * b /\ g[2] * shape[3] = a * b * c
    BY <1>1
  <2> DEFINE h == [n \in 0 .. Len(shape) |-> IF n = 0 THEN 1 ELSE g[n - 1] * shape[n]]
  <2>3. ASSUME NEW n \in 0 .. 3 PROVE g[n] = h[n]
    <3>1. h[n] = IF n = 0 THEN 1 ELSE g[n - 1] * shape[n]
      BY <1>1
    <3> HIDE DEF g, h
    <3> QED
      BY <2>1, <2>2, <3>1
  <2>4. DOMAIN g = 0 .. 3 /\ DOMAIN h = 0 .. 3
    BY <1>1
  <2>5. g = [n \in 0 .. 3 |-> g[n]] /\ h = [n \in 0 .. 3 |-> h[n]]
    BY <1>1
  <2> HIDE DEF g, h
  <2>6. g = h
    BY <2>3, <2>4, <2>5
  <2> QED
    BY <2>6 DEF h
<1>3. Products(p)
  BY <1>2 DEF ProductOf
<1>4. p[3] = a * b * c
  <2> HIDE DEF p, g
  <2>1. p = [n \in 0 .. 3 |-> IF n = 0 THEN 1 ELSE p[n - 1] * shape[n]]
    BY <1>1, <1>3
  <2>2. p[0] = 1
    BY <2>1
  <2>3. p[1] = p[0] * shape[1]
    BY <2>1
  <2>4. p[2] = p[1] * shape[2]
    BY <2>1
  <2>5. p[3] = p[2] * shape[3]
    BY <2>1
  <2> QED
    BY <1>1, <2>2, <2>3, <2>4, <2>5
<1>5. ElementCount(shape) = IF \E n \in 1 .. 3 : shape[n] <= 0 THEN 0 ELSE p[3]
  BY <1>1 DEF ElementCount
<1>6. CASE a = 0 \/ b = 0 \/ c = 0
  <2>1. \E n \in 1 .. 3 : shape[n] <= 0
    <3>1. 1 \in 1 .. 3 /\ 2 \in 1 .. 3 /\ 3 \in 1 .. 3
      OBVIOUS
    <3> QED
      BY <1>1, <1>6, <3>1
  <2>2. a * b * c = 0
    BY <1>6
  <2> QED
    BY <1>5, <2>1, <2>2 DEF shape
<1>7. CASE ~(a = 0 \/ b = 0 \/ c = 0)
  <2>1. ~(\E n \in 1 .. 3 : shape[n] <= 0)
    <3>1. \A n \in 1 .. 3 : n = 1 \/ n = 2 \/ n = 3
      OBVIOUS
    <3> QED
      BY <1>1, <1>7, <3>1
  <2> QED
    BY <1>4, <1>5, <2>1 DEF shape
<1> QED
  BY <1>6, <1>7

-----------------------------------------------------------------------------
(* What the detector's tensor is read for: its six numbers by row, whichever*)
(* of the two dimensions is taken for the boxes.                            *)
LEMMA DetectorLayout ==
  ASSUME NEW rows \in Nat, NEW shape, shape = <<1, 6, rows>> \/ shape = <<1, rows, 6>>
  PROVE  LET layout == YoloLayout(shape) IN
         /\ layout.boxes \in Nat /\ layout.attrs \in Nat
         /\ layout.boxes * layout.attrs <= rows * 6
<1> DEFINE attrs == 6
<1>1. shape \in Seq(Int) /\ Len(shape) = 3
  <2>1. /\ <<1, 6, rows>> \in Seq(Int) /\ Len(<<1, 6, rows>>) = 3
        /\ <<1, rows, 6>> \in Seq(Int) /\ Len(<<1, rows, 6>>) = 3
    OBVIOUS
  <2> QED
    BY <2>1
<1>2. \/ shape[2] = attrs /\ shape[3] = rows
      \/ shape[2] = rows /\ shape[3] = attrs
  OBVIOUS
<1>3. YoloLayout(shape) = LayoutOf(AtLeast(1, shape[2]), AtLeast(1, shape[3]))
  BY <1>1 DEF YoloLayout
<1>4. attrs \in Nat /\ attrs >= 5
  OBVIOUS
<1>5. YoloLayout(shape).boxes \in Nat /\ YoloLayout(shape).attrs \in Nat
  BY <1>1, YoloLayoutWhole
<1> DEFINE b == YoloLayout(shape).boxes
           a == YoloLayout(shape).attrs
<1>6. (b = 0 /\ a = 0) \/ (b = rows /\ a = attrs) \/ (b = attrs /\ a = rows)
  <2> HIDE DEF attrs
  <2> QED
    BY <1>2, <1>3, <1>4 DEF LayoutOf, AtLeast
<1>7. rows * attrs = attrs * rows /\ rows * attrs \in Nat /\ 0 * 0 = 0
  OBVIOUS
<1> HIDE DEF attrs, a, b
<1>8. b * a <= rows * attrs
  BY <1>4, <1>6, <1>7
<1> QED
  BY <1>5, <1>8 DEF a, b, attrs

LEMMA DetectorInside ==
  ASSUME scene \in Scenes, scene.task = "detection", Found(Request),
         Found(HostOutputs(DetectorAnswers(Request), scene.cuda))
  PROVE  LET tensors == HostOutputs(DetectorAnswers(Request), scene.cuda).tensors IN
         \A n \in DOMAIN tensors : YoloReads(tensors[n]) \subseteq 0 .. tensors[n].size - 1
<1> DEFINE tensors == HostOutputs(DetectorAnswers(Request), scene.cuda).tensors
           t == DetectorTensor(scene, SeenCopied, Request)
           rows == scene.rows
           h == tensors[1]
<1>1. rows \in Nat
  BY ScenesAssumption
<1>2. \/ DOMAIN tensors = {}
      \/ /\ DOMAIN tensors = {1} /\ h.shape = t.shape
         /\ (h.size = t.size /\ t.device = "host") \/ h.size = ElementCount(t.shape)
  BY DetectorHost
<1>3. /\ t.shape = <<1, 6, rows>> \/ t.shape = <<1, rows, 6>>
      /\ t.device = "host" => t.size = rows * 6
  BY DEF DetectorTensor
<1>4. ElementCount(t.shape) = rows * 6
  <2>1. /\ ElementCount(<<1, 6, rows>>) = 1 * 6 * rows
        /\ ElementCount(<<1, rows, 6>>) = 1 * rows * 6
    <3>1. 1 \in Nat /\ 6 \in Nat
      OBVIOUS
    <3> QED
      BY <1>1, <3>1, ElementsOfThree
  <2>2. 1 * 6 * rows = rows * 6 /\ 1 * rows * 6 = rows * 6
    BY <1>1
  <2> HIDE DEF t, rows
  <2> QED
    BY <1>3, <2>1, <2>2
<1> HIDE DEF t, tensors
<1>5. CASE DOMAIN tensors = {}
  BY <1>5 DEF tensors
<1>6. CASE DOMAIN tensors # {}
  <2>1. /\ DOMAIN tensors = {1} /\ h.shape = t.shape /\ h.size = rows * 6
    BY <1>2, <1>3, <1>4, <1>6
  <2> DEFINE layout == YoloLayout(h.shape)
             all == layout.boxes * layout.attrs
  <2>2. layout.boxes \in Nat /\ layout.attrs \in Nat /\ all <= rows * 6
    BY <1>1, <1>3, <2>1, DetectorLayout
  <2>3. all \in Nat
    BY <2>2
  <2>4. YoloElements(layout) \subseteq 0 .. all - 1
    BY <2>2, YoloElementsInside
  <2> HIDE DEF layout, all
  <2>5. YoloReads(h) \subseteq 0 .. h.size - 1
    <3>1. YoloReads(h) \subseteq YoloElements(layout)
      BY DEF YoloReads, layout
    <3>2. 0 .. all - 1 \subseteq 0 .. h.size - 1
      BY <1>1, <2>1, <2>2, <2>3
    <3> QED
      BY <2>4, <3>1, <3>2
  <2> QED
    BY <2>1, <2>5 DEF tensors
<1> QED
  BY <1>5, <1>6

-----------------------------------------------------------------------------
(* The logits of a prompted run are one mask of an output of the decoder.   *)
OneMask(spec, held) ==
  "logits" \in DOMAIN held =>
    \E n \in DOMAIN spec.decodes : \E masks, offset :
      /\ Len(masks.shape) = 5 /\ masks.shape = spec.decodes[n].shape
      /\ held["logits"].data = MaskLogits(masks, offset)

LEMMA DecodedShapes ==
  ASSUME NEW spec, IsSequence(spec.decodes), \A n \in DOMAIN spec.decodes : OnnxOutput(spec.decodes[n]),
         NEW embedding, NEW prompt
  PROVE  LET d == Decoded(spec, embedding, prompt) IN
         /\ IsSequence(d) /\ DOMAIN d = DOMAIN spec.decodes
         /\ \A n \in DOMAIN d : d[n].shape = spec.decodes[n].shape
<1> DEFINE all == spec.decodes
           d == Decoded(spec, embedding, prompt)
<1>1. CASE all = <<>>
  BY <1>1 DEF Decoded
<1>2. CASE all # <<>>
  <2>1. PICK data : d = [all EXCEPT ![1].data = data]
    BY <1>2 DEF Decoded
  <2> HIDE DEF d
  <2>2. DOMAIN all = 1 .. Len(all) /\ Len(all) \in Nat
    BY DEF IsSequence
  <2>3. \A n \in DOMAIN all : "shape" \in DOMAIN all[n]
    BY DEF OnnxOutput, TensorMembers
  <2>4. DOMAIN d = DOMAIN all /\ \A n \in DOMAIN all : d[n].shape = all[n].shape
    <3> HIDE DEF all
    <3> QED
      BY <2>1, <2>3
  <2>5. d = [n \in DOMAIN d |-> d[n]]
    BY <2>1
  <2>6. IsSequence(d)
    <3> HIDE DEF all
    <3> QED
      BY <2>2, <2>4, <2>5 DEF IsSequence
  <2> QED
    BY <2>4, <2>6 DEF d
<1> QED
  BY <1>1, <1>2

LEMMA MaskFromStore ==
  ASSUME NEW held, NEW prompt, NEW masks, NEW offset, NEW scores
  PROVE  Store(held, prompt, masks, offset, scores)["logits"].data = MaskLogits(masks, offset)
<1> DEFINE L == MaskLogits(masks, offset)
           g == Tensor("logits", <<1, MaskSize, MaskSize>>, L)
           m == MaskFrame(L, prompt)
           c == [n \in 1 .. scores.size |-> Element(scores, n - 1)]
<1>1. g.data = L
  BY DEF Tensor
<1> HIDE DEF L, m, c
<1>2. Store(held, prompt, masks, offset, scores) =
        Put(Put(Put(Put(Put(held, "mask", m), "low_res_masks", masks), "logits", g),
                "scores", c), "ready", TRUE)
  BY DEF Store, L, m, c
<1> HIDE DEF g
<1>3. Store(held, prompt, masks, offset, scores)["logits"] = g
  BY <1>2 DEF Put
<1> QED
  BY <1>1, <1>3 DEF L

LEMMA DecoderMask ==
  ASSUME NEW family, NEW items, NEW frame, NEW spec, NEW cuda, NEW used, NEW before,
         "logits" \notin DOMAIN before, IsSequence(spec.decodes),
         \A n \in DOMAIN spec.decodes : OnnxOutput(spec.decodes[n])
  PROVE  OneMask(spec, RunDecoder(family, items, frame, spec, cuda, used, before).scratch)
<1> DEFINE run == RunDecoder(family, items, frame, spec, cuda, used, before)
<1>1. \A error : /\ OneMask(spec, Failed(before).scratch)
                 /\ OneMask(spec, FailedWith(error, before).scratch)
  <2>1. \A error : "logits" \notin DOMAIN Put(before, "error", error)
    BY DEF Put
  <2>2. /\ Failed(before).scratch = before
        /\ \A error : FailedWith(error, before).scratch = Put(before, "error", error)
    BY DEF Failed, FailedWith
  <2> QED
    BY <2>1, <2>2 DEF OneMask
<1>2. CASE \/ run = Failed(before) \/ \E error : run = FailedWith(error, before)
  BY <1>1, <1>2
<1>3. CASE ~(run = Failed(before) \/ \E error : run = FailedWith(error, before))
  <2> DEFINE session == DecoderSession(family, spec)
             prompt == Prompts(items, PromptSize(frame))
             outputs == Decode(session, spec, used, prompt)
             masks == outputs[1]
             offset == BestMask(outputs[1], outputs[2])
  <2>1. run = StoreBest(before, prompt, outputs) /\ run # Failed(before)
    BY <1>3 DEF RunDecoder, DecodeBest
  <2> HIDE DEF run, session, prompt
  <2>2. Len(outputs) >= 2 /\ ~(offset < 0)
    BY <2>1 DEF StoreBest
  <2>3. run.scratch = Store(before, prompt, masks, offset, outputs[2])
    BY <2>1, <2>2 DEF StoreBest
  <2>4. Len(masks.shape) = 5
    <3>1. Len(masks.shape) # 5 => offset = -1
      BY DEF BestMask
    <3> HIDE DEF offset
    <3> QED
      BY <2>2, <3>1
  <2>5. outputs = <<>> \/ \E n \in DOMAIN spec.decodes : masks.shape = spec.decodes[n].shape
    <3> DEFINE d == Decoded(spec, used, prompt)
               inputs == <<used, Coords(prompt), Labels(prompt)>>
    <3>1. /\ IsSequence(d) /\ DOMAIN d = DOMAIN spec.decodes
          /\ \A n \in DOMAIN d : d[n].shape = spec.decodes[n].shape
      BY DecodedShapes
    <3>2. outputs = OrtRun(session, inputs, spec.computes, d)
      BY DEF Decode
    <3> HIDE DEF outputs, d, inputs
    <3>3. outputs = <<>> \/ \E n \in DOMAIN d : FirstOutput(outputs) = d[n]
      BY <3>1, <3>2, FirstAnswer
    <3>4. outputs # <<>> => FirstOutput(outputs) = outputs[1]
      BY DEF FirstOutput
    <3> QED
      BY <3>1, <3>3, <3>4
  <2> HIDE DEF outputs, offset
  <2>6. outputs # <<>>
    <3>1. Len(<<>>) = 0 /\ ~(0 >= 2)
      OBVIOUS
    <3> QED
      BY <2>2, <3>1
  <2>7. run.scratch["logits"].data = MaskLogits(masks, offset)
    BY <2>3, MaskFromStore
  <2> HIDE DEF masks
  <2> QED
    BY <2>4, <2>5, <2>6, <2>7 DEF OneMask, run
<1> QED
  BY <1>2, <1>3

LEMMA RunMask ==
  ASSUME NEW items, NEW spec, NEW cuda, IsSequence(spec.decodes),
         \A n \in DOMAIN spec.decodes : OnnxOutput(spec.decodes[n])
  PROVE  OneMask(spec, RunModels(items, spec, cuda, NoScratch).scratch)
<1> DEFINE family == ParseFamily(spec.family)
           frame == PromptFrame(items, cuda)
           run == RunModels(items, spec, cuda, NoScratch)
           Kept == OneMask(spec, run.scratch)
<1> SUFFICES Kept
  OBVIOUS
<1>1. run = RunFamily(family, items, frame, spec, cuda, NoScratch)
  BY DEF RunModels
<1> HIDE DEF family, frame, run
<1>2. \A s : "logits" \notin DOMAIN s => OneMask(spec, s)
  BY DEF OneMask
<1>3. "logits" \notin DOMAIN NoScratch
  BY NothingThere
<1>4. \A e : "logits" \notin DOMAIN Embedded(e, NoScratch)
  BY <1>3 DEF Embedded, Put
<1>5. /\ Failed(NoScratch).scratch = NoScratch
      /\ \A error : "logits" \notin DOMAIN FailedWith(error, NoScratch).scratch
  BY <1>3 DEF Failed, FailedWith, Put
<1>6. /\ OneMask(spec, Failed(NoScratch).scratch)
      /\ \A error : OneMask(spec, FailedWith(error, NoScratch).scratch)
  BY <1>2, <1>3, <1>5
<1>7. \A used, before : "logits" \notin DOMAIN before =>
        OneMask(spec, RunDecoder(family, items, frame, spec, cuda, used, before).scratch)
  BY DecoderMask
<1>8. CASE spec.backend # "onnxruntime" \/ family = "invalid" \/ Refused(items, frame)
  BY <1>1, <1>6, <1>8 DEF RunFamily
<1>9. CASE /\ ~(spec.backend # "onnxruntime" \/ family = "invalid" \/ Refused(items, frame))
           /\ ~RequiresImage(family)
  <2>1. PICK used : run = RunDecoder(family, items, frame, spec, cuda, used, NoScratch)
    BY <1>1, <1>9 DEF RunFamily
  <2> QED
    BY <1>3, <1>7, <2>1
<1>10. CASE /\ ~(spec.backend # "onnxruntime" \/ family = "invalid" \/ Refused(items, frame))
            /\ RequiresImage(family)
  <2>1. CASE ~Found(frame)
    BY <1>1, <1>6, <1>10, <2>1 DEF RunFamily
  <2>2. CASE Found(frame)
    <3>1. PICK input, embedding :
            run = RunEncoded(family, items, frame, spec, cuda, input, embedding, NoScratch)
      BY <1>1, <1>10, <2>2 DEF RunFamily, RunEncoder
    <3>2. CASE ~Found(embedding)
      BY <1>6, <3>1, <3>2 DEF RunEncoded
    <3>3. CASE Found(embedding) /\ family = "encoder"
      <4>1. run = [ok |-> TRUE, scratch |-> Embedded(embedding, NoScratch)]
        BY <3>1, <3>3 DEF RunEncoded
      <4>2. run.scratch = Embedded(embedding, NoScratch)
        BY <4>1
      <4> QED
        BY <1>2, <1>4, <4>2
    <3>4. CASE Found(embedding) /\ family # "encoder"
      <4>1. PICK used : run = RunDecoder(family, items, frame, spec, cuda, used,
                                         Embedded(embedding, NoScratch))
        BY <3>1, <3>4 DEF RunEncoded
      <4> QED
        BY <1>4, <1>7, <4>1
    <3> QED
      BY <3>2, <3>3, <3>4
  <2> QED
    BY <2>1, <2>2
<1> QED
  BY <1>8, <1>9, <1>10

LEMMA PromptedInside ==
  ASSUME scene \in Scenes, scene.task = "promptable", MasksAreWhole, NEW w
  PROVE  PromptedReads(RunOf(w))
<1> DEFINE spec == scene.spec
           last == [scene.spec EXCEPT !.family = "efficient_sam_decoder", !.path = scene.spec.aux]
           run == RunOf(w)
<1>1. /\ IsSequence(spec.decodes) /\ \A n \in DOMAIN spec.decodes : OnnxOutput(spec.decodes[n])
      /\ SpecMembers \subseteq DOMAIN spec
  BY ScenesAssumption DEF PromptableScene
<1>2. last.decodes = spec.decodes
  BY <1>1 DEF SpecMembers
<1> HIDE DEF last
<1>3. \A items, any : any.decodes = spec.decodes =>
        OneMask(any, RunModels(items, any, scene.cuda, NoScratch).scratch)
  BY <1>1, RunMask
<1>4. OneMask(spec, run.scratch)
  <2>1. CASE w # "split"
    <3>1. run = RunModels(scene.items, spec, scene.cuda, NoScratch)
      BY <2>1 DEF RunOf
    <3> QED
      BY <1>3, <3>1
  <2>2. CASE w = "split"
    <3>1. PICK e : run = DecoderRun(e)
      BY <2>2 DEF RunOf
    <3>2. CASE ~Found(e)
      <4>1. run = Failed(NoScratch)
        BY <3>1, <3>2 DEF DecoderRun
      <4>2. "logits" \notin DOMAIN run.scratch
        BY <4>1, NothingThere DEF Failed
      <4> QED
        BY <4>2 DEF OneMask
    <3>3. CASE Found(e)
      <4>1. PICK items : run = RunModels(items, last, scene.cuda, NoScratch)
        BY <3>1, <3>3 DEF DecoderRun, last
      <4>2. OneMask(last, run.scratch)
        BY <1>2, <1>3, <4>1
      <4> QED
        BY <1>2, <4>2 DEF OneMask
    <3> QED
      BY <3>2, <3>3
  <2> QED
    BY <2>1, <2>2
<1> HIDE DEF run
<1>5. ASSUME "logits" \in DOMAIN run.scratch
      PROVE  LogitReads(run.scratch["logits"].data) \subseteq DOMAIN run.scratch["logits"].data
  <2>0. PICK n \in DOMAIN spec.decodes : \E masks, offset :
          /\ Len(masks.shape) = 5 /\ masks.shape = spec.decodes[n].shape
          /\ run.scratch["logits"].data = MaskLogits(masks, offset)
    BY <1>4, <1>5 DEF OneMask
  <2>1. PICK masks, offset :
          /\ Len(masks.shape) = 5 /\ masks.shape = spec.decodes[n].shape
          /\ run.scratch["logits"].data = MaskLogits(masks, offset)
    BY <2>0
  <2>2. MaskPlane(masks) = MaskSize * MaskSize
    BY <2>1 DEF MasksAreWhole, MaskPlane
  <2>3. DOMAIN MaskLogits(masks, offset) = 0 .. MaskPlane(masks) - 1
    BY DEF MaskLogits
  <2> QED
    BY <2>1, <2>2, <2>3 DEF LogitReads
<1> QED
  BY <1>5 DEF PromptedReads, run

-----------------------------------------------------------------------------
(* Nothing is read outside: the reads of every kind of run.                 *)
LEMMA ItemsWhole == scene \in Scenes /\ ImagesAreWhole => WholeItems(scene.items)
<1> SUFFICES ASSUME scene \in Scenes, ImagesAreWhole PROVE WholeItems(scene.items)
  OBVIOUS
<1>1. WholeImages(scene.items)
  BY ScenesAssumption DEF WholeImages
<1>2. ASSUME NEW n \in DOMAIN scene.items, IsImage(scene.items[n])
      PROVE  /\ WholeImage(scene.items[n])
             /\ scene.items[n].type = "frame" => scene.items[n].bytes >= RequiredBytes(scene.items[n])
  BY <1>2 DEF ImagesAreWhole, WholeImage
<1> QED
  BY <1>1, <1>2 DEF WholeItems

LEMMA HostTaskInside ==
  ASSUME scene \in Scenes, HostTask(scene.task), NEW f
  PROVE  HostTaskReads(f) \subseteq 0 .. scene.tensor.size - 1
<1> DEFINE t == scene.tensor
<1>1. t.size \in Nat /\ t.shape \in Seq(Int)
  BY ScenesAssumption
<1>2. MaskReads(t, f) \subseteq 0 .. t.size - 1
  BY <1>1, MaskInside
<1>3. PointReads(t, <<3, 2>>) \subseteq 0 .. t.size - 1
  <2> DEFINE strides == <<3, 2>>
  <2>1. DOMAIN strides = {1, 2} /\ strides[1] = 3 /\ strides[2] = 2
    OBVIOUS
  <2> HIDE DEF strides
  <2>2. DOMAIN strides \in SUBSET Nat /\ \A n \in DOMAIN strides : strides[n] \in Nat \ {0}
    BY <2>1
  <2>3. PointReads(t, strides) \subseteq 0 .. t.size - 1
    BY <1>1, <2>2, PointsInside
  <2> QED
    BY <2>3 DEF strides
<1>4. PointReads(t, <<4, 3, 2>>) \subseteq 0 .. t.size - 1
  <2> DEFINE strides == <<4, 3, 2>>
  <2>1. DOMAIN strides = {1, 2, 3} /\ strides[1] = 4 /\ strides[2] = 3 /\ strides[3] = 2
    OBVIOUS
  <2> HIDE DEF strides
  <2>2. DOMAIN strides \in SUBSET Nat /\ \A n \in DOMAIN strides : strides[n] \in Nat \ {0}
    BY <2>1
  <2>3. PointReads(t, strides) \subseteq 0 .. t.size - 1
    BY <1>1, <2>2, PointsInside
  <2> QED
    BY <2>3 DEF strides
<1> QED
  BY <1>2, <1>3, <1>4 DEF HostTaskReads

LEMMA FacesInside ==
  ASSUME scene \in Scenes, scene.task = "face_detection", NEW f,
         f.width \in Int, f.height \in Int, f.channels \in Int, Found(FaceInput(f)),
         NEW seen \in Seq(Objects)
  PROVE  FaceReadsInside(FaceAnswers(scene, seen, FaceInput(f), f))
<1> DEFINE in == FaceInput(f)
           outputs == FaceAnswers(scene, seen, in, f)
<1>1. CASE scene.family \in ScrfdFamilies
  BY <1>1 DEF FaceReadsInside
<1>2. CASE scene.family \notin ScrfdFamilies
  <2>1. scene.rows \in Nat /\ WholeInput(in, f)
    BY ScenesAssumption, FaceInputWhole
  <2>2. outputs = RowAnswers(scene, seen, in, f)
    BY <1>2 DEF FaceAnswers
  <2> HIDE DEF in
  <2>3. PICK t : RowAnswers(scene, seen, in, f) = <<t>> /\ Whole(t) /\ t.size \in Nat
    BY <2>1, RowAnswersWhole
  <2> HIDE DEF outputs
  <2>4. DOMAIN outputs = {1} /\ outputs[1] = t
    BY <2>2, <2>3
  <2>5. FaceReads(t) \subseteq 0 .. t.size - 1
    BY <2>3, FaceElementsInside DEF FaceReads, Whole
  <2> QED
    BY <2>4, <2>5 DEF FaceReadsInside, outputs, in
<1> QED
  BY <1>1, <1>2

-----------------------------------------------------------------------------
(* The invariant of the reads, for scenes that hold what the code takes for *)
(* granted.                                                                 *)
SceneWhole == ImagesAreWhole /\ MasksAreWhole

LEMMA SceneStays == ASSUME scene' = scene PROVE SceneWhole' <=> SceneWhole
  BY DEF SceneWhole, ImagesAreWhole, MasksAreWhole

LEMMA PrepareInside ==
  ASSUME scene \in Scenes, SceneWhole, inside, PrepareDetection PROVE inside'
<1>1. WholeItems(scene.items)
  BY ItemsWhole DEF SceneWhole
<1>2. FrameInside(FrameCopied)
  BY <1>1, CopiedInside
<1>3. inside' = (inside /\ FrameInside(FrameCopied))
  BY DEF PrepareDetection
<1> QED
  BY <1>2, <1>3, Zenon

LEMMA PostprocessInside ==
  ASSUME RunInv, inside, PostprocessDetection PROVE inside'
<1> DEFINE host == DetectorOutputs
           frame == FindImageFrame(scene.items)
           Inside(h) == \A n \in DOMAIN h.tensors :
                          YoloReads(h.tensors[n]) \subseteq 0 .. h.tensors[n].size - 1
<1>1. scene.task = "detection" /\ stage = "postprocess" /\ scene \in Scenes
  BY DEF PostprocessDetection, RunInv
<1>2. CASE ~(Found(host) /\ Found(frame))
  <2>1. inside' = inside
    BY <1>2 DEF PostprocessDetection
  <2> QED
    BY <2>1
<1>3. CASE Found(host) /\ Found(frame)
  <2>1. inside' = (inside /\ Inside(host))
    BY <1>3 DEF PostprocessDetection
  <2>2. Found(Request) /\ host = HostOutputs(DetectorAnswers(Request), scene.cuda)
    BY <1>3, AnswersThere DEF Found
  <2>3. Found(HostOutputs(DetectorAnswers(Request), scene.cuda))
    BY <1>3, <2>2
  <2>4. Inside(HostOutputs(DetectorAnswers(Request), scene.cuda))
    BY <1>1, <2>2, <2>3, DetectorInside
  <2>5. Inside(host)
    BY <2>2, <2>4
  <2> HIDE DEF Inside, host
  <2> QED
    BY <2>1, <2>5, Zenon
<1> QED
  BY <1>2, <1>3

LEMMA PromptableInside ==
  ASSUME scene \in Scenes, SceneWhole, inside, RunPromptable PROVE inside'
<1> DEFINE f == PromptFrame(scene.items, scene.cuda)
<1>1. PromptedReads(RunOf(way))
  BY PromptedInside DEF RunPromptable, SceneWhole
<1>2. FrameInside(f)
  BY ItemsWhole, ResolvedInside DEF SceneWhole
<1>3. inside' = (inside /\ PromptedReads(RunOf(way)) /\ FrameInside(f))
  BY DEF RunPromptable
<1> HIDE DEF f
<1> QED
  BY <1>1, <1>2, <1>3, Zenon

LEMMA HostTaskReadsInside ==
  ASSUME scene \in Scenes, SceneWhole, inside, RunHostTask PROVE inside'
<1> DEFINE f == ResolveHostImage(scene.items, scene.cuda)
           Reads == scene.answers => HostTaskReads(f) \subseteq 0 .. scene.tensor.size - 1
<1>1. CASE ~Prepared(f)
  <2>1. inside' = inside
    BY <1>1 DEF RunHostTask
  <2> QED
    BY <2>1
<1>2. CASE Prepared(f)
  <2>1. inside' = (inside /\ FrameInside(f) /\ Reads)
    BY <1>2 DEF RunHostTask
  <2>2. FrameInside(f)
    BY ItemsWhole, ResolvedInside DEF SceneWhole
  <2>3. Reads
    BY HostTaskInside DEF RunHostTask
  <2> HIDE DEF f, Reads
  <2> QED
    BY <2>1, <2>2, <2>3, Zenon
<1> QED
  BY <1>1, <1>2

LEMMA FaceInside ==
  ASSUME scene \in Scenes, SceneWhole, inside, RunFaces PROVE inside'
<1> DEFINE f == ResolveHostImage(scene.items, scene.cuda)
           in == FaceInput(f)
           seen == SeenIn(scene.objects, f)
           outputs == FaceAnswers(scene, seen, in, f)
<1>1. FrameInside(f)
  BY ItemsWhole, ResolvedInside DEF SceneWhole
<1>2. CASE Found(in) /\ scene.answers
  <2>1. DetectFaces(f, in, outputs)
    BY <1>2 DEF RunFaces
  <2>2. scene.task = "face_detection" /\ Found(f)
    BY <1>2 DEF RunFaces, FaceInput, Found
  <2>3. f.width \in Int /\ f.height \in Int /\ f.channels \in Int
    BY <2>2, ItemsWhole, ResolvedWhole DEF SceneWhole, WholeItems
  <2> HIDE DEF f
  <2>4. seen \in Seq(Objects)
    BY <2>2, <2>3, ScenesAssumption, SeenWhole
  <2> HIDE DEF seen
  <2>5. FaceReadsInside(outputs)
    BY <1>2, <2>2, <2>3, <2>4, FacesInside
  <2>6. inside' = (inside /\ FrameInside(f) /\ FaceReadsInside(outputs))
    BY <2>1 DEF DetectFaces
  <2> HIDE DEF outputs, in
  <2> QED
    BY <1>1, <2>5, <2>6, Zenon
<1>3. CASE ~(Found(in) /\ scene.answers)
  <2>1. inside' = (inside /\ (Found(in) => FrameInside(f)))
    BY <1>3 DEF RunFaces
  <2> HIDE DEF f, in
  <2> QED
    BY <1>1, <2>1, Zenon
<1> QED
  BY <1>2, <1>3

LEMMA InsideStepHolds == RunInv /\ ReadsInsideData /\ [Next]_vars => ReadsInsideData'
<1> SUFFICES ASSUME RunInv, ReadsInsideData, [Next]_vars, SceneWhole' PROVE inside'
  BY DEF ReadsInsideData, SceneWhole
<1>1. scene' = scene
  BY DEF Next, Start, PrepareDetection, BackendAnswers, PostprocessDetection, RunPromptable,
         RunHostTask, RunFaces, Leave, Untouched, vars
<1>2. SceneWhole /\ scene \in Scenes /\ inside
  BY <1>1, SceneStays DEF ReadsInsideData, SceneWhole, RunInv
<1>3. (\E w \in Ways(scene.task) : Start(w)) \/ BackendAnswers \/ UNCHANGED vars => inside' = inside
  BY DEF Start, BackendAnswers, vars
<1>4. (\E w \in Ways(scene.task) : Start(w)) \/ BackendAnswers \/ UNCHANGED vars => inside'
  BY <1>2, <1>3
<1> QED
  BY <1>2, <1>4, PrepareInside, PostprocessInside, PromptableInside, HostTaskReadsInside,
     FaceInside DEF Next

(* Every task, every way of running it, every image and every shape the     *)
(* model may answer in: no decoder reads past the data of an output and no  *)
(* frame is read past its bytes (yolo_postprocess.cpp:46-132,               *)
(* face_detection_pipeline.cpp:395-470, opencv_utils.cpp:6-17), when the    *)
(* images and the masks are whole.                                          *)
THEOREM NothingReadOutside == Spec => []ReadsInsideData
<1>1. Init => RunInv /\ ReadsInsideData
  BY RunInitHolds DEF Init, Ready, ReadsInsideData
<1>2. RunInv /\ ReadsInsideData /\ [Next]_vars => RunInv' /\ ReadsInsideData'
  BY RunStepHolds, InsideStepHolds
<1> QED
  BY <1>1, <1>2, PTL DEF Spec
=============================================================================
