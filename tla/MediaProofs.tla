----------------------------- MODULE MediaProofs -----------------------------
(***************************************************************************)
(* What holds of a media source, of a writer and of the video loops for    *)
(* every media, every number of frames, samples and calls, and any size of *)
(* the appsink.  The invariant of the source has four parts: the streaming *)
(* thread and the bus belong to an open GStreamer source; the status tells *)
(* the truth; the frame read last is the last one taken, but for a preroll;*)
(* the samples that are alive are those somebody holds.                    *)
(***************************************************************************)
EXTENDS VideoLoop, SequenceTheorems, TLAPS

(* TypeOK in parts, without the number of calls of open and of samples,     *)
(* which a program does not bound.                                          *)
Flags == {isOpen, infoOpen, primed, consumed, preroll, bus} \subseteq BOOLEAN

Choices ==
  /\ medium \in Medium /\ backend \in Backends /\ memory \in {"host", "cuda"}
  /\ status \in Statuses /\ stream \in {"none", "running", "ended", "failed"}

Counts ==
  /\ index \in Nat /\ last \in Nat /\ passed \subseteq Nat
  /\ position \in Nat /\ position <= medium.frames
  /\ arrived \in Nat /\ arrived <= medium.frames

SampleTypes ==
  /\ pulls \in Nat /\ held \in [Holders -> Nat]
  /\ \A h \in Holders : held[h] <= pulls

SourceTypes == Flags /\ Choices /\ Counts /\ SampleTypes

(* A pipeline exists while a source over GStreamer is open.                 *)
PipelineOfOpen == stream # "none" => isOpen /\ backend = "gstreamer"

(* The frame handed out last is the last one that was taken or passed; the  *)
(* preroll and an image are handed out without being taken.                 *)
LastIsLatest ==
  /\ \A f \in 1 .. position : f > last => f \in passed
  /\ \/ last <= position
     \/ /\ last = 1 /\ position = 0
        /\ \/ backend = "gstreamer" /\ primed
           \/ backend = "opencv" /\ medium.kind = "image"
  /\ backend = "gstreamer" /\ ~primed => last = 0
  /\ isOpen /\ backend = "opencv" /\ medium.kind = "image" /\ ~consumed => last = 0

SourceInv ==
  SourceTypes /\ PipelineOfOpen /\ StatusAgrees /\ LastIsLatest /\ SamplesAccounted

(* One step of the source reads on in order (FramesInOrder).                *)
ReadsOn ==
  last' # last \/ index' # index =>
    \/ last' = 0
    \/ /\ last' > last
       /\ \A f \in 1 .. last' - 1 : f > last => f \in passed
    \/ last' = last /\ last = 1 /\ backend = "gstreamer" /\ position' = 1

-----------------------------------------------------------------------------
(* The writer and the loops.                                                *)
WriterTypes ==
  /\ wopen \in BOOLEAN /\ wstatus \in W!Statuses /\ wlimit \in Nat /\ wcount \in Nat
  /\ wfile \in Seq(Nat)

WriterInv == WriterTypes /\ WriterAgrees

(* Which program is where.                                                  *)
Places ==
  /\ program \in {"run_video", "gpu", "client"}
  /\ pc \in {"open", "read", "open_writer", "share", "infer", "write", "next",
             "leave", "gone", "any"}
  /\ (pc = "any") <=> (program = "client")
  /\ pc = "share" => program = "gpu"
  /\ pc \in {"open_writer", "write"} => program = "run_video"

Tallies == maxFrames \in Nat /\ done \in Nat /\ exit \in Int /\ got \in Seq(Nat)

LoopTypes == Places /\ Tallies

(* The file of run_video is what was handed out so far, and how far that is *)
(* at each place of the loop.                                               *)
FileIsPrefix == \A n \in 1 .. wcount : wfile[n] = got[n]

LastToWrite == pc \in {"open_writer", "infer", "write"} => got[Len(got)] = last

Progress ==
  /\ wcount <= Len(got) /\ Len(got) <= wcount + 1 /\ wlimit = 0
  /\ maxFrames > 0 => Len(got) <= maxFrames
  /\ pc \in {"open", "read"} => wcount = done /\ Len(got) = done
  /\ pc \in {"open", "open_writer"} => done = 0
  /\ pc \in {"open_writer", "infer", "write"} => wcount = done /\ Len(got) = done + 1
  /\ pc = "next" => wcount = done + 1 /\ Len(got) = done + 1
  /\ pc # "leave" => exit = -1 /\ (maxFrames > 0 => done < maxFrames)
  /\ exit = 0 => wcount = Len(got) /\ wcount > 0

WrittenSoFar ==
  program = "run_video" /\ pc # "gone" => FileIsPrefix /\ LastToWrite /\ Progress

(* The frame of the other program is the sample it pulled last.             *)
FrameHeld ==
  /\ program = "gpu" /\ isOpen => backend = "gstreamer" /\ memory = "cuda"
  /\ program = "gpu" /\ pc \in {"share", "infer"} => held["user"] = pulls /\ pulls > 0
  /\ program = "gpu" /\ pc = "infer" => held["task"] = held["user"]
  /\ pc = "gone" => alive = {} /\ ~isOpen /\ ~wopen

LoopInv == SourceInv /\ WriterInv /\ LoopTypes /\ WrittenSoFar /\ FrameHeld

-----------------------------------------------------------------------------
(* Whoever takes over a sample, the samples that are alive and mapped are   *)
(* still those somebody holds.                                              *)
LEMMA TakesKeepsSamples ==
  ASSUME NEW h \in Holders, NEW sample \in Nat, NEW n \in Nat,
         held \in [Holders -> Nat], \A g \in Holders : held[g] <= n,
         sample <= n, SamplesAccounted, Takes(h, sample)
  PROVE  /\ SamplesAccounted'
         /\ held' \in [Holders -> Nat] /\ \A g \in Holders : held'[g] <= n
         /\ held'[h] = sample
         /\ \A g \in Holders \ {h} : held'[g] = held[g]
<1> DEFINE owned == {held[g] : g \in Holders}
           gone == {held[h]} \ (HeldBut(h) \cup {sample})
<1>1. /\ held' = [held EXCEPT ![h] = sample]
      /\ alive' = (alive \ gone) \cup ({sample} \ {0})
      /\ mapped' = (mapped \ gone) \cup ({sample} \ {0})
  BY DEF Takes
<1>2. /\ held' \in [Holders -> Nat] /\ held'[h] = sample
      /\ \A g \in Holders \ {h} : held'[g] = held[g]
  BY <1>1
<1>3. alive = owned \ {0} /\ mapped = owned \ {0}
  BY DEF SamplesAccounted
<1>4. ASSUME NEW x PROVE x \in {held'[g] : g \in Holders} \ {0}
                         <=> x \in ((owned \ {0}) \ gone) \cup ({sample} \ {0})
  <2>1. x \in {held'[g] : g \in Holders}
        <=> x = sample \/ \E g \in Holders \ {h} : x = held[g]
    BY <1>2
  <2>2. x \in owned <=> x = held[h] \/ \E g \in Holders \ {h} : x = held[g]
    OBVIOUS
  <2>3. x \in gone <=> x = held[h] /\ x # sample
                       /\ ~(x # 0 /\ \E g \in Holders \ {h} : x = held[g])
    BY DEF HeldBut
  <2> QED
    BY <2>1, <2>2, <2>3
<1>5. {held'[g] : g \in Holders} \ {0} = ((owned \ {0}) \ gone) \cup ({sample} \ {0})
  BY <1>4
<1>6. SamplesAccounted'
  BY <1>1, <1>3, <1>5 DEF SamplesAccounted
<1> QED
  BY <1>2, <1>6

LEMMA MediumFrames == \A m \in Medium : m.frames \in Nat
  BY DEF Medium

LEMMA SourceInitHolds == Init => SourceInv
<1> SUFFICES ASSUME Init PROVE SourceInv
  OBVIOUS
<1>1. SourceTypes
  <2>1. Choices
    BY DEF Init, Choices, Nothing, Medium, Backends, Statuses
  <2>2. medium.frames = 0
    BY DEF Init, Nothing
  <2>3. Flags
    BY DEF Init, Flags
  <2>4. Counts
    BY <2>2 DEF Init, Counts
  <2>5. SampleTypes
    BY DEF Init, SampleTypes
  <2> QED
    BY <2>1, <2>3, <2>4, <2>5 DEF SourceTypes
<1>2. PipelineOfOpen /\ StatusAgrees
  BY DEF Init, PipelineOfOpen, StatusAgrees
<1>4. LastIsLatest
  BY DEF Init, LastIsLatest
<1>3. SamplesAccounted
  BY DEF Init, SamplesAccounted, Holders
<1> QED
  BY <1>1, <1>2, <1>3, <1>4 DEF SourceInv

-----------------------------------------------------------------------------
(* Opening and closing leave the samples alone and forget the rest.         *)
LEMMA ClosedMembers ==
  ASSUME SourceInv, NEW m \in Medium, NEW b \in Backends, NEW mem \in {"host", "cuda"},
         NEW s \in {"closed", "invalid_uri", "unsupported_backend", "backend_error"},
         ClosedAs(m, b, mem, s)
  PROVE  /\ Flags' /\ Choices' /\ Counts'
         /\ PipelineOfOpen' /\ StatusAgrees' /\ LastIsLatest'
         /\ ReadsOn /\ ~isOpen'
<1> USE DEF ClosedAs, NoPipeline
<1>1. Flags'
  BY DEF Flags
<1>2. Choices'
  BY DEF Choices, Statuses
<1>3. Counts'
  BY MediumFrames DEF Counts
<1>4. PipelineOfOpen' /\ StatusAgrees'
  BY DEF PipelineOfOpen, StatusAgrees
<1>5. LastIsLatest'
  BY DEF LastIsLatest
<1> QED
  BY <1>1, <1>2, <1>3, <1>4, <1>5 DEF ReadsOn

LEMMA ClosedHolds ==
  ASSUME SourceInv, NEW m \in Medium, NEW b \in Backends, NEW mem \in {"host", "cuda"},
         NEW s \in {"closed", "invalid_uri", "unsupported_backend", "backend_error"},
         ClosedAs(m, b, mem, s), UNCHANGED samples
  PROVE  SourceInv' /\ ReadsOn /\ ~isOpen'
<1>1. SampleTypes' /\ SamplesAccounted'
  BY DEF SourceInv, SourceTypes, SampleTypes, SamplesAccounted, samples
<1> QED
  BY <1>1, ClosedMembers DEF SourceInv, SourceTypes

LEMMA OpenedHolds ==
  ASSUME SourceInv, NEW m \in Medium, NEW b \in Backends, NEW mem \in {"host", "cuda"},
         OpenedAs(m, b, mem), UNCHANGED samples, preroll' = FALSE, bus' = FALSE,
         arrived' = 0,
         stream' = "none" \/ (stream' = "running" /\ b = "gstreamer")
  PROVE  SourceInv' /\ ReadsOn /\ isOpen' /\ backend' = b /\ memory' = mem
<1> USE DEF OpenedAs, samples
<1>1. SourceTypes'
  <2>1. Flags'
    BY DEF Flags
  <2>2. Choices'
    BY DEF Choices, Statuses
  <2>3. Counts'
    BY MediumFrames DEF Counts
  <2>4. SampleTypes'
    BY DEF SourceInv, SourceTypes, SampleTypes
  <2> QED
    BY <2>1, <2>2, <2>3, <2>4 DEF SourceTypes
<1>2. PipelineOfOpen' /\ StatusAgrees'
  BY DEF SourceInv, PipelineOfOpen, StatusAgrees
<1>4. LastIsLatest'
  BY DEF SourceInv, LastIsLatest
<1>3. SamplesAccounted'
  BY DEF SourceInv, SamplesAccounted
<1> QED
  BY <1>1, <1>2, <1>3, <1>4 DEF SourceInv, ReadsOn

LEMMA OpenCvHolds ==
  ASSUME SourceInv, NEW m \in Medium, NEW mem \in {"host", "cuda"},
         OpenWithOpenCv(m, mem), UNCHANGED samples
  PROVE  SourceInv' /\ ReadsOn
<1>1. "opencv" \in Backends
  BY DEF Backends
<1>2. CASE \E s \in {"invalid_uri", "unsupported_backend", "backend_error"} :
             ClosedAs(m, "opencv", mem, s)
  BY <1>1, <1>2, ClosedHolds
<1>3. CASE OpenedAs(m, "opencv", mem) /\ NoPipeline
  BY <1>1, <1>3, OpenedHolds DEF NoPipeline
<1> QED
  BY <1>2, <1>3 DEF OpenWithOpenCv

LEMMA GStreamerHolds ==
  ASSUME SourceInv, NEW m \in Medium, NEW mem \in {"host", "cuda"},
         OpenWithGStreamer(m, mem), UNCHANGED samples
  PROVE  SourceInv' /\ ReadsOn
         /\ (isOpen' => backend' = "gstreamer" /\ memory' = mem)
<1>1. "opencv" \in Backends /\ "gstreamer" \in Backends /\ Nothing \in Medium
  BY DEF Backends, Nothing, Medium
<1>2. CASE \E s \in {"invalid_uri", "backend_error"} : ClosedAs(m, "gstreamer", mem, s)
  BY <1>1, <1>2, ClosedHolds
<1>3. CASE ClosedAs(Nothing, "opencv", "host", "backend_error")
  BY <1>1, <1>3, ClosedHolds
<1>4. CASE /\ OpenedAs(m, "gstreamer", mem)
           /\ arrived' = 0 /\ preroll' = FALSE /\ stream' = "running" /\ bus' = FALSE
  BY <1>1, <1>4, OpenedHolds
<1> QED
  BY <1>2, <1>3, <1>4 DEF OpenWithGStreamer

LEMMA OpenHolds == SourceInv /\ Open => SourceInv' /\ ReadsOn
<1> SUFFICES ASSUME SourceInv, Open PROVE SourceInv' /\ ReadsOn
  OBVIOUS
<1>1. Media \subseteq Medium
  BY SourceAssumption
<1>2. PICK m \in Media, mem \in {"host", "cuda"} :
        \/ OpenWithOpenCv(m, mem)
        \/ OpenWithGStreamer(m, mem)
        \/ ClosedAs(m, "ffmpeg", mem, IF m.kind = "no_uri" THEN "invalid_uri"
                                      ELSE "unsupported_backend")
  BY DEF Open
<1>3. UNCHANGED samples
  BY DEF Open
<1>4. CASE ClosedAs(m, "ffmpeg", mem, IF m.kind = "no_uri" THEN "invalid_uri"
                                      ELSE "unsupported_backend")
  BY <1>1, <1>3, <1>4, ClosedHolds DEF Backends
<1> QED
  BY <1>1, <1>2, <1>3, <1>4, OpenCvHolds, GStreamerHolds

LEMMA CloseHolds == SourceInv /\ Close => SourceInv' /\ ReadsOn
<1> SUFFICES ASSUME SourceInv, Close PROVE SourceInv' /\ ReadsOn
  OBVIOUS
<1>1. "opencv" \in Backends /\ Nothing \in Medium
  BY DEF Backends, Nothing, Medium
<1> QED
  BY <1>1, ClosedHolds DEF Close, samples

-----------------------------------------------------------------------------
(* Reading over OpenCV.                                                     *)
LEMMA ReadImageHolds == SourceInv /\ ReadImage => SourceInv' /\ ReadsOn
<1> SUFFICES ASSUME SourceInv, ReadImage PROVE SourceInv' /\ ReadsOn
  OBVIOUS
<1>1. /\ isOpen /\ backend = "opencv" /\ medium.kind = "image"
      /\ UNCHANGED <<medium, backend, memory, primed, position, pipeline, samples>>
      /\ UNCHANGED passed
  BY DEF ReadImage, ReadOf, EndsHere, HandsOut
<1>2. \/ consumed /\ EndsHere /\ UNCHANGED consumed
      \/ ~consumed /\ HandsOut(1, 1, "open") /\ consumed' = TRUE
      \/ ~consumed /\ ~Converts(1) /\ Fails("backend_error") /\ UNCHANGED consumed
  BY DEF ReadImage
<1>3. SourceTypes'
  <2>1. Flags'
    BY <1>1, <1>2 DEF SourceInv, SourceTypes, Flags, EndsHere, HandsOut, Fails, pipeline
  <2>2. Choices'
    BY <1>1, <1>2
    DEF SourceInv, SourceTypes, Choices, EndsHere, HandsOut, Fails, pipeline, Statuses
  <2>3. Counts'
    <3>1. Counts /\ UNCHANGED <<medium, position, arrived, passed>>
      BY <1>1 DEF SourceInv, SourceTypes, pipeline
    <3>2. index' \in Nat /\ last' \in Nat
      BY <1>2, <3>1 DEF Counts, EndsHere, HandsOut, Fails
    <3> QED
      BY <3>1, <3>2 DEF Counts
  <2>4. SampleTypes'
    BY <1>1 DEF SourceInv, SourceTypes, SampleTypes, samples
  <2> QED
    BY <2>1, <2>2, <2>3, <2>4 DEF SourceTypes
<1>4. PipelineOfOpen'
  BY <1>1, <1>2 DEF SourceInv, PipelineOfOpen, EndsHere, HandsOut, Fails, pipeline
<1>5. StatusAgrees'
  BY <1>1, <1>2
  DEF SourceInv, PipelineOfOpen, StatusAgrees, EndsHere, HandsOut, Fails, pipeline, Converts
<1>6. LastIsLatest' /\ ReadsOn
  <2>1. Counts /\ LastIsLatest
    BY DEF SourceInv, SourceTypes
  <2>2. CASE EndsHere /\ UNCHANGED <<consumed, position>>
    BY <1>1, <2>1, <2>2 DEF LastIsLatest, ReadsOn, EndsHere
  <2>3. CASE ~consumed /\ HandsOut(1, 1, "open") /\ consumed' = TRUE
    BY <1>1, <2>1, <2>3 DEF Counts, LastIsLatest, ReadsOn, HandsOut
  <2>4. CASE ~consumed /\ Fails("backend_error") /\ UNCHANGED consumed
    BY <1>1, <2>1, <2>4 DEF LastIsLatest, ReadsOn, Fails
  <2> QED
    BY <1>1, <1>2, <2>2, <2>3, <2>4
<1>7. SamplesAccounted'
  BY <1>1 DEF SourceInv, SamplesAccounted, samples
<1> QED
  BY <1>3, <1>4, <1>5, <1>6, <1>7 DEF SourceInv

LEMMA ReadVideoHolds == SourceInv /\ ReadVideo => SourceInv' /\ ReadsOn
<1> SUFFICES ASSUME SourceInv, ReadVideo PROVE SourceInv' /\ ReadsOn
  OBVIOUS
<1> DEFINE p == position + 1
<1>1. /\ isOpen /\ backend = "opencv" /\ medium.kind = "video"
      /\ UNCHANGED <<medium, backend, memory, primed, consumed, pipeline, samples>>
  BY DEF ReadVideo, ReadOf
<1>2. \/ EndsHere /\ UNCHANGED position
      \/ position < medium.frames /\ position' = p /\ HandsOut(p, p, "open")
      \/ /\ position < medium.frames /\ position' = p
         /\ ~Converts(p) /\ Fails("backend_error") /\ passed' = passed \cup {p}
  BY DEF ReadVideo
<1>3. SourceTypes'
  <2>1. Flags'
    BY <1>1, <1>2 DEF SourceInv, SourceTypes, Flags, EndsHere, HandsOut, Fails, pipeline
  <2>2. Choices'
    BY <1>1, <1>2
    DEF SourceInv, SourceTypes, Choices, EndsHere, HandsOut, Fails, pipeline, Statuses
  <2>3. Counts'
    <3>1. Counts /\ UNCHANGED <<medium, arrived>> /\ medium.frames \in Nat
      BY <1>1, MediumFrames DEF SourceInv, SourceTypes, Choices, pipeline
    <3>2. p \in Nat /\ (position < medium.frames => p <= medium.frames)
      BY <3>1 DEF Counts
    <3>3. index' \in Nat /\ last' \in Nat
      BY <1>2, <3>1, <3>2 DEF Counts, EndsHere, HandsOut, Fails
    <3>4. position' \in Nat /\ position' <= medium.frames
      BY <1>2, <3>1, <3>2 DEF Counts
    <3>5. passed' \subseteq Nat
      <4>1. passed' = passed \/ passed' = passed \cup {p}
        BY <1>2 DEF EndsHere, HandsOut
      <4> QED
        BY <3>1, <3>2, <4>1 DEF Counts
    <3> QED
      BY <3>1, <3>3, <3>4, <3>5 DEF Counts
  <2>4. SampleTypes'
    BY <1>1 DEF SourceInv, SourceTypes, SampleTypes, samples
  <2> QED
    BY <2>1, <2>2, <2>3, <2>4 DEF SourceTypes
<1>4. PipelineOfOpen'
  BY <1>1, <1>2 DEF SourceInv, PipelineOfOpen, EndsHere, HandsOut, Fails, pipeline
<1>5. StatusAgrees'
  BY <1>1, <1>2
  DEF SourceInv, PipelineOfOpen, StatusAgrees, EndsHere, HandsOut, Fails, pipeline, Converts
<1>6. LastIsLatest' /\ ReadsOn
  <2>1. Counts /\ LastIsLatest
    BY DEF SourceInv, SourceTypes
  <2>2. CASE EndsHere /\ UNCHANGED <<consumed, position>>
    BY <1>1, <2>1, <2>2 DEF LastIsLatest, ReadsOn, EndsHere
  <2>3. CASE position' = p /\ HandsOut(p, p, "open")
    BY <1>1, <2>1, <2>3 DEF Counts, LastIsLatest, ReadsOn, HandsOut
  <2>4. CASE position' = p /\ Fails("backend_error") /\ passed' = passed \cup {p}
    BY <1>1, <2>1, <2>4 DEF Counts, LastIsLatest, ReadsOn, Fails
  <2> QED
    BY <1>1, <1>2, <2>2, <2>3, <2>4
<1>7. SamplesAccounted'
  BY <1>1 DEF SourceInv, SamplesAccounted, samples
<1> QED
  BY <1>3, <1>4, <1>5, <1>6, <1>7 DEF SourceInv

LEMMA ReadWrongKindHolds == SourceInv /\ ReadWrongKind => SourceInv' /\ ReadsOn
<1> SUFFICES ASSUME SourceInv, ReadWrongKind PROVE SourceInv' /\ ReadsOn
  OBVIOUS
<1>1. /\ isOpen /\ status' = "unsupported_backend"
      /\ UNCHANGED <<isOpen, infoOpen, index, last, medium, backend, memory, primed,
                     consumed, position, passed, pipeline, samples>>
  BY DEF ReadWrongKind, Fails
<1>3. SourceTypes'
  <2>1. Flags' /\ Choices'
    BY <1>1 DEF SourceInv, SourceTypes, Flags, Choices, pipeline, Statuses
  <2>2. Counts'
    BY <1>1 DEF SourceInv, SourceTypes, Counts, pipeline
  <2>3. SampleTypes'
    BY <1>1 DEF SourceInv, SourceTypes, SampleTypes, samples
  <2> QED
    BY <2>1, <2>2, <2>3 DEF SourceTypes
<1>4. PipelineOfOpen' /\ StatusAgrees'
  BY <1>1 DEF SourceInv, PipelineOfOpen, StatusAgrees, pipeline
<1>5. LastIsLatest' /\ ReadsOn
  BY <1>1 DEF SourceInv, LastIsLatest, ReadsOn
<1>6. SamplesAccounted'
  BY <1>1 DEF SourceInv, SamplesAccounted, samples
<1> QED
  BY <1>3, <1>4, <1>5, <1>6 DEF SourceInv

-----------------------------------------------------------------------------
(* The streaming thread.                                                    *)
LEMMA StreamHolds ==
  SourceInv /\ (Arrive \/ StreamEnds \/ StreamFails) => SourceInv' /\ ReadsOn
<1> SUFFICES ASSUME SourceInv, Arrive \/ StreamEnds \/ StreamFails
             PROVE  SourceInv' /\ ReadsOn
  OBVIOUS
<1>1. /\ stream = "running"
      /\ stream' \in {"running", "ended", "failed"}
      /\ bus' = bus \/ (bus' = TRUE /\ stream' = "failed")
      /\ preroll' \in BOOLEAN
      /\ arrived' = arrived \/ (arrived < medium.frames /\ arrived' = arrived + 1)
      /\ UNCHANGED <<members, position, samples, last, passed>>
  BY DEF Arrive, StreamEnds, StreamFails, SourceInv, SourceTypes, Flags
<1>2. ~bus
  BY <1>1 DEF SourceInv, StatusAgrees
<1>3. SourceTypes'
  <2>1. Flags'
    BY <1>1 DEF SourceInv, SourceTypes, Flags, members
  <2>2. Choices'
    BY <1>1 DEF SourceInv, SourceTypes, Choices, members
  <2>3. Counts'
    BY <1>1, MediumFrames DEF SourceInv, SourceTypes, Choices, Counts, members
  <2>4. SampleTypes'
    BY <1>1 DEF SourceInv, SourceTypes, SampleTypes, samples
  <2> QED
    BY <2>1, <2>2, <2>3, <2>4 DEF SourceTypes
<1>4. PipelineOfOpen' /\ StatusAgrees'
  BY <1>1, <1>2 DEF SourceInv, PipelineOfOpen, StatusAgrees, members
<1>5. LastIsLatest' /\ ReadsOn
  BY <1>1 DEF SourceInv, LastIsLatest, ReadsOn, members
<1>6. SamplesAccounted'
  BY <1>1 DEF SourceInv, SamplesAccounted, samples
<1> QED
  BY <1>3, <1>4, <1>5, <1>6 DEF SourceInv

(* Reading over GStreamer: nothing comes in time.                           *)
LEMMA PullsNothingHolds ==
  ASSUME SourceInv, isOpen, backend = "gstreamer", PullsNothing
  PROVE  SourceInv' /\ ReadsOn /\ index' = index
<1>1. /\ primed' = TRUE /\ bus' = FALSE
      /\ status' \in {"backend_error", "end_of_stream"}
      /\ UNCHANGED <<isOpen, infoOpen, index, last, medium, backend, memory, consumed,
                     position, passed, arrived, preroll, stream, samples>>
  BY DEF PullsNothing, BusVerdict, Fails
<1>2. SourceTypes'
  <2>1. Flags'
    BY <1>1 DEF SourceInv, SourceTypes, Flags
  <2>2. Choices'
    BY <1>1 DEF SourceInv, SourceTypes, Choices, Statuses
  <2>3. Counts'
    BY <1>1 DEF SourceInv, SourceTypes, Counts
  <2>4. SampleTypes'
    BY <1>1 DEF SourceInv, SourceTypes, SampleTypes, samples
  <2> QED
    BY <2>1, <2>2, <2>3, <2>4 DEF SourceTypes
<1>3. PipelineOfOpen' /\ StatusAgrees'
  BY <1>1 DEF SourceInv, PipelineOfOpen, StatusAgrees
<1>4. LastIsLatest' /\ ReadsOn
  BY <1>1 DEF SourceInv, LastIsLatest, ReadsOn
<1>5. SamplesAccounted'
  BY <1>1 DEF SourceInv, SamplesAccounted, samples
<1> QED
  BY <1>1, <1>2, <1>3, <1>4, <1>5 DEF SourceInv

(* A frame is taken from the appsink: it is the next one, or the first once *)
(* more, and it is either handed out or passed.                             *)
LEMMA PullReadsOn ==
  ASSUME SourceInv, backend = "gstreamer", NEW f \in 1 .. arrived, Pull(f),
         UNCHANGED <<medium, backend>>,
         \/ last' = f /\ UNCHANGED passed
         \/ UNCHANGED <<last, index>> /\ passed' = passed \cup {f}
  PROVE  /\ LastIsLatest' /\ ReadsOn
         /\ position' \in Nat /\ position' <= medium.frames
<1>1. Counts /\ LastIsLatest /\ f \in Nat /\ f >= 1 /\ primed' = TRUE
  BY DEF SourceInv, SourceTypes, Counts, Pull
<1>4. position' \in Nat /\ position' <= medium.frames
  <2>1. medium.frames \in Nat /\ arrived \in Nat /\ position \in Nat
    BY <1>1, MediumFrames DEF SourceInv, SourceTypes, Choices, Counts
  <2>2. position' = position \/ (position < arrived /\ position' = position + 1)
    BY DEF Pull, PullPreroll, PullSample
  <2> QED
    BY <1>1, <2>1, <2>2 DEF Counts
<1>2. CASE PullPreroll /\ f = 1
  <2>1. last = 0 /\ position' = position
    BY <1>1, <1>2 DEF PullPreroll, LastIsLatest
  <2>2. \A n \in 1 .. position : n \in passed
    BY <1>1, <2>1 DEF Counts, LastIsLatest
  <2>3. CASE last' = f /\ UNCHANGED passed
    <3>1. last' = 1 /\ last' > last /\ \A n \in 1 .. last' - 1 : n \in passed
      BY <1>2, <2>1, <2>3
    <3>2. last' <= position' \/ position' = 0
      BY <1>1, <2>1, <3>1 DEF Counts
    <3>3. \A n \in 1 .. position' : n > last' => n \in passed'
      BY <2>1, <2>2, <2>3
    <3>4. LastIsLatest'
      BY <1>1, <3>1, <3>2, <3>3 DEF LastIsLatest
    <3>5. ReadsOn
      BY <3>1 DEF ReadsOn
    <3> QED
      BY <1>4, <3>4, <3>5
  <2>4. CASE UNCHANGED <<last, index>> /\ passed' = passed \cup {f}
    <3>1. last' <= position' /\ \A n \in 1 .. position' : n \in passed'
      BY <1>1, <2>1, <2>2, <2>4 DEF Counts
    <3>2. LastIsLatest'
      BY <1>1, <3>1 DEF LastIsLatest
    <3>3. ReadsOn
      BY <2>4 DEF ReadsOn
    <3> QED
      BY <1>4, <3>2, <3>3
  <2> QED
    BY <2>3, <2>4
<1>3. CASE PullSample /\ f = position + 1
  <2>1. position < arrived /\ position' = position + 1
    BY <1>3 DEF PullSample
  <2>2. CASE last' = f /\ UNCHANGED passed
    <3>1. last' = position' /\ (last' > last \/ (last' = last /\ last = 1 /\ position' = 1))
      BY <1>1, <1>3, <2>1, <2>2 DEF Counts, LastIsLatest
    <3>2. \A n \in 1 .. last' - 1 : n > last => n \in passed
      BY <1>1, <1>3, <2>2 DEF Counts, LastIsLatest
    <3>3. \A n \in 1 .. position' : n > last' => n \in passed'
      BY <1>1, <2>1, <3>1 DEF Counts
    <3>4. LastIsLatest'
      BY <1>1, <2>1, <3>1, <3>3 DEF Counts, LastIsLatest
    <3>5. ReadsOn
      BY <3>1, <3>2 DEF ReadsOn
    <3> QED
      BY <1>4, <3>4, <3>5
  <2>3. CASE UNCHANGED <<last, index>> /\ passed' = passed \cup {f}
    <3>1. last' <= position'
      BY <1>1, <1>3, <2>1, <2>3 DEF Counts, LastIsLatest
    <3>2. \A n \in 1 .. position' : n > last' => n \in passed'
      BY <1>1, <1>3, <2>1, <2>3 DEF Counts, LastIsLatest
    <3>3. LastIsLatest'
      BY <1>1, <3>1, <3>2 DEF LastIsLatest
    <3>4. ReadsOn
      BY <2>3 DEF ReadsOn
    <3> QED
      BY <1>4, <3>3, <3>4
  <2> QED
    BY <2>2, <2>3
<1> QED
  BY <1>2, <1>3 DEF Pull

LEMMA ReadHostFrameHolds == SourceInv /\ ReadHostFrame => SourceInv' /\ ReadsOn
<1> SUFFICES ASSUME SourceInv, ReadHostFrame PROVE SourceInv' /\ ReadsOn
  OBVIOUS
<1>1. PICK f \in 1 .. arrived :
        /\ Pull(f)
        /\ \/ HandsOut(f, index + 1, status)
           \/ Fails(status) /\ passed' = passed \cup {f}
  BY DEF ReadHostFrame
<1>2. /\ isOpen /\ backend = "gstreamer"
      /\ UNCHANGED <<medium, backend, memory, consumed, arrived, stream, bus,
                     alive, mapped, held>>
  BY DEF ReadHostFrame, OverGStreamer
<1>3. /\ UNCHANGED <<isOpen, infoOpen, status>>
      /\ \/ last' = f /\ index' = index + 1 /\ UNCHANGED passed
         \/ UNCHANGED <<last, index>> /\ passed' = passed \cup {f}
  BY <1>1 DEF HandsOut, Fails
<1>4. pulls' = pulls + 1 /\ primed' = TRUE /\ (preroll' = FALSE \/ preroll' = preroll)
  BY <1>1 DEF Pull, PullPreroll, PullSample
<1>5. LastIsLatest' /\ ReadsOn /\ position' \in Nat /\ position' <= medium.frames
  BY <1>1, <1>2, <1>3, PullReadsOn
<1>6. SourceTypes'
  <2>1. Flags'
    BY <1>2, <1>3, <1>4 DEF SourceInv, SourceTypes, Flags
  <2>2. Choices'
    BY <1>2, <1>3 DEF SourceInv, SourceTypes, Choices
  <2>3. Counts'
    <3>1. Counts /\ f \in Nat
      BY DEF SourceInv, SourceTypes, Counts
    <3>2. index' \in Nat /\ last' \in Nat
      BY <1>3, <3>1 DEF Counts
    <3>3. passed' = passed \/ passed' = passed \cup {f}
      BY <1>3
    <3>4. passed' \subseteq Nat
      BY <3>1, <3>3 DEF Counts
    <3> QED
      BY <1>2, <1>5, <3>1, <3>2, <3>4 DEF Counts
  <2>4. SampleTypes'
    BY <1>2, <1>4 DEF SourceInv, SourceTypes, SampleTypes
  <2> QED
    BY <2>1, <2>2, <2>3, <2>4 DEF SourceTypes
<1>7. PipelineOfOpen' /\ StatusAgrees'
  BY <1>2, <1>3 DEF SourceInv, PipelineOfOpen, StatusAgrees
<1>8. SamplesAccounted'
  BY <1>2 DEF SourceInv, SamplesAccounted
<1> QED
  BY <1>5, <1>6, <1>7, <1>8 DEF SourceInv

(* The device frame of the user owns the sample that was pulled last.       *)
LEMMA ReadDeviceFrameHolds ==
  SourceInv /\ ReadDeviceFrame =>
    /\ SourceInv' /\ ReadsOn
    /\ index' # index => held'["user"] = pulls' /\ pulls' > 0
<1> SUFFICES ASSUME SourceInv, ReadDeviceFrame
             PROVE  /\ SourceInv' /\ ReadsOn
                    /\ index' # index => held'["user"] = pulls' /\ pulls' > 0
  OBVIOUS
<1>1. PICK f \in 1 .. arrived :
        /\ Pull(f)
        /\ \/ HandsOut(f, index + 1, "open") /\ Takes("user", pulls + 1)
           \/ Fails("backend_error") /\ passed' = passed \cup {f} /\ Dropped
  BY DEF ReadDeviceFrame
<1>2. /\ isOpen /\ backend = "gstreamer"
      /\ UNCHANGED <<medium, backend, memory, consumed, arrived, stream, bus>>
  BY DEF ReadDeviceFrame, OverGStreamer
<1>3. /\ UNCHANGED <<isOpen, infoOpen>>
      /\ \/ /\ last' = f /\ index' = index + 1 /\ status' = "open" /\ UNCHANGED passed
            /\ Takes("user", pulls + 1)
         \/ /\ UNCHANGED <<last, index>> /\ passed' = passed \cup {f}
            /\ status' = "backend_error" /\ UNCHANGED <<alive, mapped, held>>
  BY <1>1 DEF HandsOut, Fails, Dropped
<1>4. pulls' = pulls + 1 /\ primed' = TRUE /\ (preroll' = FALSE \/ preroll' = preroll)
  BY <1>1 DEF Pull, PullPreroll, PullSample
<1>5. LastIsLatest' /\ ReadsOn /\ position' \in Nat /\ position' <= medium.frames
  <2>1. \/ last' = f /\ UNCHANGED passed
        \/ UNCHANGED <<last, index>> /\ passed' = passed \cup {f}
    BY <1>3
  <2> QED
    BY <1>1, <1>2, <2>1, PullReadsOn
<1>6. /\ SampleTypes' /\ SamplesAccounted'
      /\ index' # index => held'["user"] = pulls' /\ pulls' > 0
  <2>1. SampleTypes /\ SamplesAccounted /\ "user" \in Holders
    BY DEF SourceInv, SourceTypes, Holders
  <2>2. CASE Takes("user", pulls + 1)
    <3>1. pulls + 1 \in Nat /\ \A g \in Holders : held[g] <= pulls + 1
      BY <2>1 DEF SampleTypes
    <3>2. /\ SamplesAccounted' /\ held' \in [Holders -> Nat]
          /\ \A g \in Holders : held'[g] <= pulls + 1
          /\ held'["user"] = pulls + 1
      BY <2>1, <2>2, <3>1, TakesKeepsSamples DEF SampleTypes
    <3> QED
      BY <1>4, <2>1, <3>1, <3>2 DEF SampleTypes
  <2>3. CASE UNCHANGED <<alive, mapped, held>> /\ index' = index
    BY <1>4, <2>1, <2>3 DEF SampleTypes, SamplesAccounted
  <2> QED
    BY <1>3, <2>2, <2>3
<1>7. SourceTypes'
  <2>1. Flags'
    BY <1>2, <1>3, <1>4 DEF SourceInv, SourceTypes, Flags
  <2>2. Choices'
    BY <1>2, <1>3 DEF SourceInv, SourceTypes, Choices, Statuses
  <2>3. Counts'
    <3>1. Counts /\ f \in Nat
      BY DEF SourceInv, SourceTypes, Counts
    <3>2. index' \in Nat /\ last' \in Nat
      BY <1>3, <3>1 DEF Counts
    <3>3. passed' = passed \/ passed' = passed \cup {f}
      BY <1>3
    <3>4. passed' \subseteq Nat
      BY <3>1, <3>3 DEF Counts
    <3> QED
      BY <1>2, <1>5, <3>1, <3>2, <3>4 DEF Counts
  <2> QED
    BY <1>6, <2>1, <2>2, <2>3 DEF SourceTypes
<1>8. PipelineOfOpen' /\ StatusAgrees'
  BY <1>2, <1>3 DEF SourceInv, PipelineOfOpen, StatusAgrees
<1> QED
  BY <1>5, <1>6, <1>7, <1>8 DEF SourceInv

(* What only moves samples between their holders.                           *)
LEMMA HandOverHolds ==
  ASSUME SourceInv, NEW h \in Holders, NEW sample \in Nat, sample <= pulls,
         Takes(h, sample),
         UNCHANGED <<members, position, pipeline, pulls, last, passed>>
  PROVE  SourceInv' /\ ReadsOn /\ held'[h] = sample
         /\ \A g \in Holders \ {h} : held'[g] = held[g]
<1> USE DEF members, pipeline
<1>1. SampleTypes /\ SamplesAccounted
  BY DEF SourceInv, SourceTypes
<1>2. /\ SamplesAccounted' /\ held' \in [Holders -> Nat]
      /\ \A g \in Holders : held'[g] <= pulls
      /\ held'[h] = sample /\ \A g \in Holders \ {h} : held'[g] = held[g]
  BY <1>1, TakesKeepsSamples DEF SampleTypes
<1>3. SourceTypes'
  <2>1. Flags'
    BY DEF SourceInv, SourceTypes, Flags
  <2>2. Choices'
    BY DEF SourceInv, SourceTypes, Choices
  <2>3. Counts'
    BY DEF SourceInv, SourceTypes, Counts
  <2>4. SampleTypes'
    BY <1>1, <1>2 DEF SampleTypes
  <2> QED
    BY <2>1, <2>2, <2>3, <2>4 DEF SourceTypes
<1>4. PipelineOfOpen' /\ StatusAgrees'
  BY DEF SourceInv, PipelineOfOpen, StatusAgrees
<1>5. LastIsLatest' /\ ReadsOn
  BY DEF SourceInv, LastIsLatest, ReadsOn
<1> QED
  BY <1>2, <1>3, <1>4, <1>5 DEF SourceInv

LEMMA GiveToTaskHolds ==
  SourceInv /\ GiveToTask =>
    /\ SourceInv' /\ ReadsOn
    /\ held'["task"] = held["user"] /\ held'["user"] = held["user"]
<1> SUFFICES ASSUME SourceInv, GiveToTask
             PROVE  /\ SourceInv' /\ ReadsOn
                    /\ held'["task"] = held["user"] /\ held'["user"] = held["user"]
  OBVIOUS
<1>1. /\ "task" \in Holders /\ "user" \in Holders \ {"task"}
      /\ held["user"] \in Nat /\ held["user"] <= pulls
  BY DEF SourceInv, SourceTypes, SampleTypes, Holders
<1> QED
  BY <1>1, HandOverHolds DEF GiveToTask

LEMMA ReleaseHolds ==
  ASSUME NEW h \in Holders PROVE SourceInv /\ Release(h) => SourceInv' /\ ReadsOn
<1> SUFFICES ASSUME SourceInv, Release(h) PROVE SourceInv' /\ ReadsOn
  OBVIOUS
<1>1. 0 \in Nat /\ 0 <= pulls
  BY DEF SourceInv, SourceTypes, SampleTypes
<1> QED
  BY <1>1, HandOverHolds DEF Release

LEMMA ReadNothingHolds ==
  SourceInv /\ (ReadHostNothing \/ ReadDeviceNothing) =>
    SourceInv' /\ ReadsOn /\ index' = index
  BY PullsNothingHolds DEF ReadHostNothing, ReadDeviceNothing, OverGStreamer

LEMMA SourceStutterHolds == SourceInv /\ UNCHANGED vars => SourceInv' /\ ReadsOn
<1> SUFFICES ASSUME SourceInv, UNCHANGED vars PROVE SourceInv' /\ ReadsOn
  OBVIOUS
<1> USE DEF vars, members, pipeline, samples
<1>1. SourceTypes'
  BY DEF SourceInv, SourceTypes, Flags, Choices, Counts, SampleTypes
<1>2. PipelineOfOpen' /\ StatusAgrees' /\ LastIsLatest' /\ SamplesAccounted' /\ ReadsOn
  BY DEF SourceInv, PipelineOfOpen, StatusAgrees, LastIsLatest, SamplesAccounted, ReadsOn
<1> QED
  BY <1>1, <1>2 DEF SourceInv

LEMMA SourceStepHolds == SourceInv /\ [Next]_vars => SourceInv' /\ ReadsOn
  BY OpenHolds, CloseHolds, ReadImageHolds, ReadVideoHolds, ReadWrongKindHolds,
     ReadHostFrameHolds, ReadDeviceFrameHolds, ReadNothingHolds, StreamHolds,
     GiveToTaskHolds, ReleaseHolds, SourceStutterHolds
  DEF Next

-----------------------------------------------------------------------------
(* The bounds of TypeOK: calls of open and samples are counted where they   *)
(* are guarded.                                                             *)
SourceBounds == opens \in 0 .. MaxOpens /\ pulls <= MaxPulls

LEMMA SourceBoundsHold == SourceInv /\ SourceBounds /\ [Next]_vars => SourceBounds'
<1> SUFFICES ASSUME SourceInv, SourceBounds, [Next]_vars PROVE SourceBounds'
  OBVIOUS
<1>1. opens' = opens \/ (opens < MaxOpens /\ opens' = opens + 1)
  BY DEF Next, vars, Open, Close, ReadImage, ReadVideo, ReadWrongKind, ReadHostFrame,
         ReadHostNothing, ReadDeviceFrame, ReadDeviceNothing, PullsNothing, Arrive,
         StreamEnds, StreamFails, GiveToTask, Release
<1>2. pulls' = pulls \/ (pulls < MaxPulls /\ pulls' = pulls + 1)
  BY DEF Next, vars, samples, Open, Close, ReadImage, ReadVideo, ReadWrongKind,
         ReadHostFrame, ReadHostNothing, ReadDeviceFrame, ReadDeviceNothing, PullsNothing,
         Pull, Arrive, StreamEnds, StreamFails, GiveToTask, Release
<1>3. MaxOpens \in Nat /\ MaxPulls \in Nat /\ pulls \in Nat
  BY SourceAssumption DEF SourceInv, SourceTypes, SampleTypes
<1> QED
  BY <1>1, <1>2, <1>3 DEF SourceBounds

(* Every variable of a source stays in its set (source.cpp:303-760).        *)
THEOREM SourceTypeCorrect == Spec => []TypeOK
<1>1. Init => SourceInv /\ SourceBounds
  BY SourceInitHolds, SourceAssumption DEF Init, SourceBounds
<1>2. SourceInv /\ SourceBounds => TypeOK
  <2> SUFFICES ASSUME SourceInv, SourceBounds PROVE TypeOK
    OBVIOUS
  <2>1. Flags /\ Choices
    BY DEF SourceInv, SourceTypes
  <2>2. /\ index \in Nat /\ last \in Nat /\ passed \subseteq Nat
        /\ position \in 0 .. medium.frames /\ arrived \in 0 .. medium.frames
    BY <2>1, MediumFrames DEF SourceInv, SourceTypes, Choices, Counts
  <2>3. /\ pulls \in 0 .. MaxPulls /\ held \in [Holders -> 0 .. pulls]
        /\ opens \in 0 .. MaxOpens
    BY SourceAssumption DEF SourceInv, SourceTypes, SampleTypes, SourceBounds
  <2>4. alive \subseteq 1 .. pulls /\ mapped \subseteq 1 .. pulls
    BY <2>3 DEF SourceInv, SamplesAccounted, SourceTypes, SampleTypes
  <2> QED
    BY <2>1, <2>2, <2>3, <2>4 DEF TypeOK, Flags, Choices
<1> QED
  BY <1>1, <1>2, SourceStepHolds, SourceBoundsHold, PTL DEF Spec

(* No sample is released under the frame or the input that owns it and none *)
(* leaks (source.cpp:187-204, 531-577), with any number of samples.         *)
THEOREM SamplesAreAccounted == Spec => []SamplesAccounted
<1>1. SourceInv => SamplesAccounted
  BY DEF SourceInv
<1> QED
  BY <1>1, SourceInitHolds, SourceStepHolds, PTL DEF Spec

(* Status, is_open and info agree in every order of calls                   *)
(* (source.cpp:403-732).                                                    *)
THEOREM SourceStatusAgrees == Spec => []StatusAgrees
<1>1. SourceInv => StatusAgrees
  BY DEF SourceInv
<1> QED
  BY <1>1, SourceInitHolds, SourceStepHolds, PTL DEF Spec

(* A source hands its frames out in order and reports each one it leaves    *)
(* out, whatever its length (source.cpp:420-483, 704-726).                  *)
THEOREM SourceFramesInOrder == Spec => FramesInOrder
<1>1. SourceInv /\ [Next]_vars => [ReadsOn]_vars
  BY SourceStepHolds
<1>2. Spec => [][ReadsOn]_vars
  BY <1>1, SourceInitHolds, SourceStepHolds, PTL DEF Spec
<1> QED
  BY <1>2, PTL DEF FramesInOrder, ReadsOn

-----------------------------------------------------------------------------
(* The writer.                                                              *)
LEMMA WriterInitHolds == W!Init => WriterInv
<1>1. W!Init => WriterTypes
  <2> SUFFICES ASSUME W!Init PROVE WriterTypes
    OBVIOUS
  <2>1. wopen \in BOOLEAN /\ wstatus \in W!Statuses
    BY DEF W!Init, W!Statuses
  <2>2. wlimit \in Nat /\ wcount \in Nat /\ wfile \in Seq(Nat)
    BY DEF W!Init
  <2> QED
    BY <2>1, <2>2 DEF WriterTypes
<1>2. W!Init => WriterAgrees
  BY DEF W!Init, WriterAgrees, W!WriterAgrees
<1> QED
  BY <1>1, <1>2 DEF WriterInv

LEMMA WriterClosedHolds ==
  ASSUME NEW s \in {"closed", "invalid_options", "unsupported_backend", "backend_error"},
         W!ClosedAs(s)
  PROVE  WriterInv'
<1>1. WriterTypes'
  <2>1. wopen' \in BOOLEAN /\ wstatus' \in W!Statuses
    BY DEF W!ClosedAs, W!Statuses
  <2>2. wlimit' \in Nat /\ wcount' \in Nat /\ wfile' \in Seq(Nat)
    BY DEF W!ClosedAs
  <2> QED
    BY <2>1, <2>2 DEF WriterTypes
<1>2. WriterAgrees'
  BY DEF W!ClosedAs, WriterAgrees, W!WriterAgrees
<1> QED
  BY <1>1, <1>2 DEF WriterInv

LEMMA WriterOpenHolds ==
  ASSUME NEW request \in W!Requests, NEW max \in Nat, W!Open(request, max)
  PROVE  WriterInv' /\ wfile' = <<>> /\ wcount' = 0 /\ (wopen' => wlimit' = max)
<1>1. request \in {"invalid", "unsupported", "fails", "fine"}
  BY DEF W!Requests
<1>2. CASE request # "fine"
  <2>1. \E s \in {"invalid_options", "unsupported_backend", "backend_error"} : W!ClosedAs(s)
    BY <1>1, <1>2 DEF W!Open
  <2> QED
    BY <2>1, WriterClosedHolds DEF W!ClosedAs
<1>3. CASE request = "fine"
  <2>1. /\ wopen' = TRUE /\ wstatus' = "open" /\ wlimit' = max /\ wcount' = 0
        /\ wfile' = <<>>
    BY <1>3 DEF W!Open
  <2> QED
    BY <2>1 DEF WriterInv, WriterTypes, WriterAgrees, W!WriterAgrees, W!Statuses
<1> QED
  BY <1>2, <1>3

LEMMA WriterWriteHolds ==
  ASSUME WriterInv, NEW frame \in Nat, NEW fits, W!Write(frame, fits)
  PROVE  /\ WriterInv' /\ UNCHANGED <<wopen, wlimit>>
         /\ \/ UNCHANGED <<wcount, wfile>>
            \/ /\ wcount' = wcount + 1
               /\ wfile' = Append(wfile, frame)
<1>1. wopen /\ WriterTypes /\ wcount = Len(wfile)
  BY DEF W!Write, WriterInv, WriterAgrees, W!WriterAgrees
<1>2. CASE /\ wstatus' = "limit_reached" /\ W!LimitReached
           /\ UNCHANGED <<wopen, wlimit, wcount, wfile>>
  BY <1>1, <1>2
  DEF WriterInv, WriterTypes, WriterAgrees, W!WriterAgrees, W!LimitReached, W!Statuses
<1>3. CASE /\ wstatus' = "invalid_options" /\ UNCHANGED <<wopen, wlimit, wcount, wfile>>
  BY <1>1, <1>3 DEF WriterInv, WriterTypes, WriterAgrees, W!WriterAgrees, W!Statuses
<1>4. CASE /\ ~W!LimitReached
           /\ wfile' = Append(wfile, frame) /\ wcount' = wcount + 1 /\ wstatus' = "open"
           /\ UNCHANGED <<wopen, wlimit>>
  <2>1. wfile' \in Seq(Nat) /\ Len(wfile') = Len(wfile) + 1
    BY <1>1, <1>4 DEF WriterTypes
  <2>2. wcount' \in Nat /\ (wlimit > 0 => wcount' <= wlimit)
    BY <1>1, <1>4 DEF WriterTypes, W!LimitReached
  <2>3. WriterTypes'
    BY <1>1, <1>4, <2>1, <2>2 DEF WriterTypes, W!Statuses
  <2>4. WriterAgrees'
    BY <1>1, <1>4, <2>1, <2>2 DEF WriterAgrees, W!WriterAgrees
  <2> QED
    BY <1>4, <2>3, <2>4 DEF WriterInv
<1> QED
  BY <1>2, <1>3, <1>4 DEF W!Write, W!Refused

LEMMA WriterStutterHolds == WriterInv /\ UNCHANGED wvars => WriterInv'
  BY DEF WriterInv, WriterTypes, WriterAgrees, W!WriterAgrees, wvars

LEMMA CallsHold == SourceInv /\ WriterInv /\ Calls => WriterInv'
<1> SUFFICES ASSUME SourceInv, WriterInv, Calls PROVE WriterInv'
  OBVIOUS
<1>1. CASE \E request \in W!Requests, max \in Limits : W!Open(request, max)
  BY <1>1, ClientAssumption, WriterOpenHolds
<1>2. CASE \E fits \in BOOLEAN : W!Write(last, fits)
  <2>1. last \in Nat
    BY DEF SourceInv, SourceTypes, Counts
  <2> QED
    BY <1>2, <2>1, WriterWriteHolds
<1>3. CASE W!WriteDevice
  <2>1. /\ wopen /\ wstatus' = "unsupported_backend"
        /\ UNCHANGED <<wopen, wlimit, wcount, wfile>>
    BY <1>3 DEF W!WriteDevice, W!Refused
  <2> QED
    BY <2>1 DEF WriterInv, WriterTypes, WriterAgrees, W!WriterAgrees, W!Statuses
<1>4. CASE W!Close
  BY <1>4, WriterClosedHolds DEF W!Close
<1> QED
  BY <1>1, <1>2, <1>3, <1>4 DEF Calls

LEMMA ClientStepHolds ==
  SourceInv /\ WriterInv /\ [ClientNext]_<<vars, wvars>> =>
    SourceInv' /\ WriterInv' /\ ReadsOn
<1> SUFFICES ASSUME SourceInv, WriterInv, [ClientNext]_<<vars, wvars>>
             PROVE  SourceInv' /\ WriterInv' /\ ReadsOn
  OBVIOUS
<1>1. CASE Next /\ UNCHANGED wvars
  BY <1>1, SourceStepHolds, WriterStutterHolds
<1>2. CASE Calls /\ UNCHANGED vars
  BY <1>2, CallsHold, SourceStutterHolds
<1>3. CASE UNCHANGED <<vars, wvars>>
  BY <1>3, SourceStutterHolds, WriterStutterHolds
<1> QED
  BY <1>1, <1>2, <1>3 DEF ClientNext

(* In any order of calls of open, write and close the writer keeps its      *)
(* limit and counts what it gave to the backend (writer.cpp:124-227).       *)
THEOREM WriterAlwaysAgrees == ClientSpec => []WriterAgrees
<1>1. ClientInit => SourceInv /\ WriterInv
  BY SourceInitHolds, WriterInitHolds DEF ClientInit
<1>2. WriterInv => WriterAgrees
  BY DEF WriterInv
<1> QED
  BY <1>1, <1>2, ClientStepHolds, PTL DEF ClientSpec

-----------------------------------------------------------------------------
(* The video loops.                                                         *)
LEMMA LoopInitHolds == LoopInit => LoopInv
<1> SUFFICES ASSUME LoopInit PROVE LoopInv
  OBVIOUS
<1>1. SourceInv /\ WriterInv
  BY SourceInitHolds, WriterInitHolds DEF LoopInit, ClientInit
<1>2. LoopTypes
  <2>1. maxFrames \in FrameLimits \/ maxFrames = 0
    BY DEF LoopInit
  <2>2. done = 0 /\ exit = -1 /\ got = <<>>
    BY DEF LoopInit
  <2>3. Tallies
    <3>1. maxFrames \in Nat
      <4>1. FrameLimits \subseteq Nat
        BY LoopAssumption
      <4>2. 0 \in Nat
        OBVIOUS
      <4> QED
        BY <2>1, <4>1, <4>2, Zenon
    <3>2. done \in Nat /\ exit \in Int /\ got \in Seq(Nat)
      BY <2>2
    <3> QED
      BY <3>1, <3>2 DEF Tallies
  <2>4. \/ program \in {"run_video", "gpu"} /\ pc = "open"
        \/ program = "client" /\ pc = "any"
    BY DEF LoopInit
  <2>5. Places
    BY <2>4 DEF Places
  <2> QED
    BY <2>3, <2>5 DEF LoopTypes
<1>3. /\ got = <<>> /\ wcount = 0 /\ wlimit = 0 /\ done = 0 /\ exit = -1 /\ ~isOpen
      /\ pc \in {"open", "any"} /\ (program = "run_video" => pc = "open")
  BY DEF LoopInit, ClientInit, Init, W!Init
<1>4. WrittenSoFar
  BY <1>2, <1>3 DEF LoopTypes, Tallies, WrittenSoFar, FileIsPrefix, LastToWrite, Progress
<1>5. FrameHeld
  BY <1>3 DEF FrameHeld
<1> QED
  BY <1>1, <1>2, <1>4, <1>5 DEF LoopInv

LEMMA OpenSourceHolds == LoopInv /\ OpenSource => LoopInv' /\ ReadsOn
<1> SUFFICES ASSUME LoopInv, OpenSource PROVE LoopInv' /\ ReadsOn
  OBVIOUS
<1> DEFINE mem == IF program = "gpu" THEN "cuda" ELSE "host"
<1>1. SourceInv /\ WriterInv /\ LoopTypes /\ WrittenSoFar
  BY DEF LoopInv
<1>2. /\ pc = "open"
      /\ \/ pc' = "read" /\ exit' = exit
         \/ pc' = "leave" /\ exit' = 1
      /\ UNCHANGED <<samples, program, maxFrames, done, got, wvars>>
  BY DEF OpenSource, GoOn, Return, program_vars
<1>3. PICK m \in Media : \/ program = "run_video" /\ OpenWithOpenCv(m, "host")
                         \/ OpenWithGStreamer(m, mem)
  BY DEF OpenSource
<1>4. m \in Medium /\ mem \in {"host", "cuda"} /\ UNCHANGED samples
  BY <1>2, SourceAssumption
<1>5. /\ SourceInv' /\ ReadsOn
      /\ program = "gpu" /\ isOpen' => backend' = "gstreamer" /\ memory' = "cuda"
  <2>1. CASE program = "run_video" /\ OpenWithOpenCv(m, "host")
    BY <1>1, <1>4, <2>1, OpenCvHolds
  <2>2. CASE OpenWithGStreamer(m, mem)
    BY <1>1, <1>4, <2>2, GStreamerHolds
  <2> QED
    BY <1>3, <2>1, <2>2
<1>6. WriterInv'
  BY <1>1, <1>2, WriterStutterHolds
<1>7. LoopTypes'
  <2>1. Places'
    BY <1>1, <1>2 DEF LoopTypes, Places
  <2>2. Tallies'
    BY <1>1, <1>2 DEF LoopTypes, Tallies
  <2> QED
    BY <2>1, <2>2 DEF LoopTypes
<1>8. WrittenSoFar'
  <2> SUFFICES ASSUME program = "run_video" PROVE WrittenSoFar'
    BY <1>2 DEF WrittenSoFar
  <2>1. /\ wcount = 0 /\ Len(got) = 0 /\ wlimit = 0 /\ exit = -1
        /\ (maxFrames > 0 => done < maxFrames) /\ done = 0 /\ maxFrames \in Nat
    BY <1>1, <1>2 DEF WrittenSoFar, Progress, LoopTypes, Tallies
  <2>2. UNCHANGED <<wcount, wlimit, wfile, got, done, maxFrames>>
    BY <1>2 DEF wvars
  <2>3. \/ pc' = "read" /\ exit' = exit
        \/ pc' = "leave" /\ exit' = 1
    BY <1>2
  <2>4. FileIsPrefix'
    BY <2>1, <2>2 DEF FileIsPrefix
  <2>5. LastToWrite'
    BY <2>3 DEF LastToWrite
  <2>6. Progress'
    BY <2>1, <2>2, <2>3 DEF Progress
  <2> QED
    BY <2>4, <2>5, <2>6 DEF WrittenSoFar
<1>9. FrameHeld'
  BY <1>2, <1>5 DEF FrameHeld
<1> QED
  BY <1>5, <1>6, <1>7, <1>8, <1>9 DEF LoopInv

(* What a read of a program may do.                                         *)
LEMMA ReadAnyHolds ==
  SourceInv /\ ReadAny =>
    /\ SourceInv' /\ ReadsOn
    /\ isOpen /\ UNCHANGED <<backend, memory>>
    /\ backend = "gstreamer" /\ memory = "cuda" /\ index' # index =>
         held'["user"] = pulls' /\ pulls' > 0
<1> SUFFICES ASSUME SourceInv, ReadAny
             PROVE  /\ SourceInv' /\ ReadsOn
                    /\ isOpen /\ UNCHANGED <<backend, memory>>
                    /\ backend = "gstreamer" /\ memory = "cuda" /\ index' # index =>
                         held'["user"] = pulls' /\ pulls' > 0
  OBVIOUS
<1>1. isOpen /\ UNCHANGED <<backend, memory>>
  BY DEF ReadAny, ReadImage, ReadVideo, ReadOf, ReadHostFrame, ReadHostNothing,
         ReadDeviceFrame, ReadDeviceNothing, PullsNothing, OverGStreamer
<1>2. CASE ReadImage \/ ReadVideo
  <2>1. backend = "opencv"
    BY <1>2 DEF ReadImage, ReadVideo, ReadOf
  <2> QED
    BY <1>1, <1>2, <2>1, ReadImageHolds, ReadVideoHolds
<1>3. CASE ReadHostFrame
  <2>1. memory = "host"
    BY <1>3 DEF ReadHostFrame, OverGStreamer
  <2> QED
    BY <1>1, <1>3, <2>1, ReadHostFrameHolds
<1>4. CASE ReadDeviceFrame
  BY <1>1, <1>4, ReadDeviceFrameHolds
<1>5. CASE ReadHostNothing \/ ReadDeviceNothing
  BY <1>1, <1>5, ReadNothingHolds
<1> QED
  BY <1>2, <1>3, <1>4, <1>5 DEF ReadAny

LEMMA ReadNextHolds == LoopInv /\ ReadNext => LoopInv' /\ ReadsOn
<1> SUFFICES ASSUME LoopInv, ReadNext PROVE LoopInv' /\ ReadsOn
  OBVIOUS
<1>1. SourceInv /\ WriterInv /\ LoopTypes /\ WrittenSoFar /\ FrameHeld
  BY DEF LoopInv
<1>2. pc = "read" /\ UNCHANGED <<program, maxFrames, done, wvars>> /\ program # "client"
  BY <1>1 DEF ReadNext, program_vars, LoopTypes, Places
<1>3. \/ /\ index' # index /\ got' = Append(got, last') /\ exit' = exit
         /\ pc' = (IF program = "gpu" THEN "share"
                   ELSE IF done = 0 THEN "open_writer" ELSE "infer")
      \/ /\ got' = got /\ pc' = "leave"
         /\ exit' \in {0, 1}
         /\ program = "run_video" /\ exit' = 0 => done > 0
  <2>1. done \in Nat
    BY <1>1 DEF LoopTypes, Tallies
  <2>2. CASE Delivered
    BY <2>2 DEF ReadNext, Delivered, GoOn
  <2>3. CASE ~Delivered
    <3>1. Finish(done) /\ got' = got
      BY <2>3 DEF ReadNext, AtEnd
    <3>2. /\ pc' = "leave"
          /\ \/ exit' = (IF done > 0 THEN 0 ELSE 1)
             \/ program = "gpu" /\ exit' = 1
      BY <3>1 DEF Finish, Return
    <3> QED
      BY <2>1, <3>1, <3>2
  <2> QED
    BY <2>2, <2>3
<1>4. /\ SourceInv' /\ ReadsOn
      /\ isOpen /\ UNCHANGED <<backend, memory>>
      /\ backend = "gstreamer" /\ memory = "cuda" /\ index' # index =>
           held'["user"] = pulls' /\ pulls' > 0
  BY <1>1, ReadAnyHolds DEF ReadNext
<1>5. WriterInv'
  BY <1>1, <1>2, WriterStutterHolds
<1>6. last' \in Nat
  BY <1>4 DEF SourceInv, SourceTypes, Counts
<1>7. CASE /\ index' # index /\ got' = Append(got, last') /\ exit' = exit
           /\ pc' = (IF program = "gpu" THEN "share"
                     ELSE IF done = 0 THEN "open_writer" ELSE "infer")
  <2>1. /\ got' \in Seq(Nat) /\ Len(got') = Len(got) + 1
        /\ \A n \in 1 .. Len(got) : got'[n] = got[n]
        /\ got'[Len(got) + 1] = last'
    BY <1>1, <1>6, <1>7, AppendProperties DEF LoopTypes, Tallies
  <2>2. LoopTypes'
    BY <1>1, <1>2, <1>7, <2>1 DEF LoopTypes, Places, Tallies
  <2>3. WrittenSoFar'
    <3> SUFFICES ASSUME program = "run_video" PROVE WrittenSoFar'
      BY <1>2 DEF WrittenSoFar
    <3>1. /\ wcount = done /\ Len(got) = done /\ wlimit = 0 /\ exit = -1 /\ done \in Nat
          /\ maxFrames \in Nat /\ (maxFrames > 0 => done < maxFrames)
          /\ \A n \in 1 .. wcount : wfile[n] = got[n]
      BY <1>1, <1>2 DEF WrittenSoFar, FileIsPrefix, Progress, LoopTypes, Tallies
    <3>2. UNCHANGED <<wcount, wlimit, wfile, done, maxFrames, program>>
      BY <1>2 DEF wvars
    <3>3. FileIsPrefix'
      BY <2>1, <3>1, <3>2 DEF FileIsPrefix
    <3>4. LastToWrite'
      BY <2>1 DEF LastToWrite
    <3>5. /\ Len(got') = done + 1 /\ exit' = -1
          /\ pc' \in {"open_writer", "infer"} /\ (pc' = "open_writer" => done = 0)
      BY <1>7, <2>1, <3>1
    <3>6. Progress'
      BY <3>1, <3>2, <3>5 DEF Progress
    <3> QED
      BY <3>3, <3>4, <3>6 DEF WrittenSoFar
  <2>4. FrameHeld'
    BY <1>1, <1>2, <1>4, <1>7 DEF LoopTypes, Places, FrameHeld
  <2> QED
    BY <1>4, <1>5, <2>2, <2>3, <2>4 DEF LoopInv
<1>8. CASE /\ got' = got /\ pc' = "leave" /\ exit' \in {0, 1}
           /\ program = "run_video" /\ exit' = 0 => done > 0
  <2>1. LoopTypes'
    BY <1>1, <1>2, <1>8 DEF LoopTypes, Places, Tallies
  <2>2. WrittenSoFar'
    BY <1>1, <1>2, <1>8
    DEF LoopTypes, Tallies, WrittenSoFar, FileIsPrefix, LastToWrite, Progress, wvars
  <2>3. FrameHeld'
    BY <1>1, <1>2, <1>4, <1>8 DEF FrameHeld
  <2> QED
    BY <1>4, <1>5, <2>1, <2>2, <2>3 DEF LoopInv
<1> QED
  BY <1>3, <1>7, <1>8

(* A step of the program that leaves the source alone.                      *)
LEMMA OpenWriterHolds == LoopInv /\ OpenWriter => LoopInv' /\ ReadsOn
<1> SUFFICES ASSUME LoopInv, OpenWriter PROVE LoopInv' /\ ReadsOn
  OBVIOUS
<1>1. SourceInv /\ WriterInv /\ LoopTypes /\ WrittenSoFar /\ FrameHeld
  BY DEF LoopInv
<1>2. /\ pc = "open_writer" /\ UNCHANGED vars
      /\ UNCHANGED <<program, maxFrames, done, got>>
      /\ \/ pc' = "infer" /\ exit' = exit
         \/ pc' = "leave" /\ exit' = 1
  BY DEF OpenWriter, WithFirst, GoOn, Return, program_vars
<1>3. SourceInv' /\ ReadsOn
  BY <1>1, <1>2, SourceStutterHolds
<1>4. PICK request \in {"unsupported", "fails", "fine"} : W!Open(request, 0)
  BY DEF OpenWriter
<1>5. WriterInv' /\ wfile' = <<>> /\ wcount' = 0 /\ wlimit' = 0
  <2>1. request \in W!Requests /\ 0 \in Nat
    BY DEF W!Requests
  <2>2. WriterInv' /\ wfile' = <<>> /\ wcount' = 0 /\ (wopen' => wlimit' = 0)
    BY <1>4, <2>1, WriterOpenHolds
  <2> QED
    BY <2>2 DEF WriterInv, WriterAgrees, W!WriterAgrees
<1>6. LoopTypes'
  BY <1>1, <1>2 DEF LoopTypes, Places, Tallies
<1>7. WrittenSoFar'
  <2> SUFFICES ASSUME program = "run_video" PROVE WrittenSoFar'
    BY <1>2 DEF WrittenSoFar
  <2>1. /\ done = 0 /\ Len(got) = 1 /\ exit = -1 /\ got[Len(got)] = last
        /\ maxFrames > 0 => done < maxFrames /\ Len(got) <= maxFrames
    BY <1>1, <1>2 DEF WrittenSoFar, LastToWrite, Progress
  <2>2. FileIsPrefix' /\ LastToWrite'
    BY <1>2, <1>5, <2>1 DEF FileIsPrefix, LastToWrite, vars
  <2>3. Progress'
    BY <1>2, <1>5, <2>1 DEF Progress
  <2> QED
    BY <2>2, <2>3 DEF WrittenSoFar
<1>8. FrameHeld'
  BY <1>1, <1>2 DEF LoopTypes, Places, FrameHeld, vars, members, samples
<1> QED
  BY <1>3, <1>5, <1>6, <1>7, <1>8 DEF LoopInv

LEMMA ShareFrameHolds == LoopInv /\ ShareFrame => LoopInv' /\ ReadsOn
<1> SUFFICES ASSUME LoopInv, ShareFrame PROVE LoopInv' /\ ReadsOn
  OBVIOUS
<1>1. SourceInv /\ WriterInv /\ LoopTypes /\ WrittenSoFar /\ FrameHeld
  BY DEF LoopInv
<1>2. /\ pc = "share" /\ program = "gpu" /\ GiveToTask
      /\ pc' = "infer" /\ exit' = exit
      /\ UNCHANGED <<program, maxFrames, done, got, wvars>>
  BY <1>1 DEF ShareFrame, GoOn, program_vars, LoopTypes, Places
<1>3. /\ SourceInv' /\ ReadsOn
      /\ held'["task"] = held["user"] /\ held'["user"] = held["user"]
  BY <1>1, <1>2, GiveToTaskHolds
<1>4. UNCHANGED <<isOpen, backend, memory, pulls>>
  BY <1>2 DEF GiveToTask, members
<1>5. WriterInv'
  BY <1>1, <1>2, WriterStutterHolds
<1>6. LoopTypes'
  BY <1>1, <1>2 DEF LoopTypes, Places, Tallies
<1>7. WrittenSoFar'
  BY <1>2 DEF WrittenSoFar
<1>8. FrameHeld'
  BY <1>1, <1>2, <1>3, <1>4 DEF FrameHeld
<1> QED
  BY <1>3, <1>5, <1>6, <1>7, <1>8 DEF LoopInv

LEMMA InferHolds == LoopInv /\ Infer => LoopInv' /\ ReadsOn
<1> SUFFICES ASSUME LoopInv, Infer PROVE LoopInv' /\ ReadsOn
  OBVIOUS
<1>1. SourceInv /\ WriterInv /\ LoopTypes /\ WrittenSoFar /\ FrameHeld
  BY DEF LoopInv
<1>2. /\ pc = "infer" /\ UNCHANGED <<vars, wvars>>
      /\ UNCHANGED <<program, maxFrames, done, got>>
      /\ \/ program = "gpu" /\ pc' = "next" /\ exit' = exit
         \/ program # "gpu" /\ pc' = "write" /\ exit' = exit
         \/ pc' = "leave" /\ exit' = 1
  BY DEF Infer, GoOn, Return, program_vars
<1>3. SourceInv' /\ ReadsOn /\ WriterInv'
  BY <1>1, <1>2, SourceStutterHolds, WriterStutterHolds
<1>4. LoopTypes'
  BY <1>1, <1>2 DEF LoopTypes, Places, Tallies
<1>5. WrittenSoFar'
  <2> SUFFICES ASSUME program = "run_video" PROVE WrittenSoFar'
    BY <1>2 DEF WrittenSoFar
  <2>1. FileIsPrefix /\ LastToWrite /\ Progress
    BY <1>1, <1>2 DEF WrittenSoFar
  <2>2. FileIsPrefix' /\ LastToWrite'
    BY <1>2, <2>1 DEF FileIsPrefix, LastToWrite, vars, wvars
  <2>3. Progress'
    BY <1>2, <2>1 DEF Progress, wvars
  <2> QED
    BY <2>2, <2>3 DEF WrittenSoFar
<1>6. FrameHeld'
  BY <1>1, <1>2 DEF FrameHeld, vars, members, samples, wvars
<1> QED
  BY <1>3, <1>4, <1>5, <1>6 DEF LoopInv

LEMMA WriteFrameHolds == LoopInv /\ WriteFrame => LoopInv' /\ ReadsOn
<1> SUFFICES ASSUME LoopInv, WriteFrame PROVE LoopInv' /\ ReadsOn
  OBVIOUS
<1>1. SourceInv /\ WriterInv /\ LoopTypes /\ WrittenSoFar /\ FrameHeld
  BY DEF LoopInv
<1>2. /\ pc = "write" /\ program = "run_video" /\ UNCHANGED vars
      /\ UNCHANGED <<program, maxFrames, done, got>>
      /\ \/ wcount' > wcount /\ pc' = "next" /\ exit' = exit
         \/ ~(wcount' > wcount) /\ pc' = "leave" /\ exit' = 1
  BY <1>1 DEF WriteFrame, GoOn, Return, program_vars, LoopTypes, Places
<1>3. SourceInv' /\ ReadsOn
  BY <1>1, <1>2, SourceStutterHolds
<1>4. /\ WriterInv' /\ UNCHANGED <<wopen, wlimit>>
      /\ \/ UNCHANGED <<wcount, wfile>>
         \/ wcount' = wcount + 1 /\ wfile' = Append(wfile, last)
  <2>1. last \in Nat
    BY <1>1 DEF SourceInv, SourceTypes, Counts
  <2> QED
    BY <1>1, <2>1, WriterWriteHolds DEF WriteFrame
<1>5. LoopTypes'
  BY <1>1, <1>2 DEF LoopTypes, Places, Tallies
<1>6. /\ wcount = done /\ Len(got) = done + 1 /\ got[Len(got)] = last /\ wlimit = 0
      /\ exit = -1 /\ (maxFrames > 0 => Len(got) <= maxFrames /\ done < maxFrames)
      /\ FileIsPrefix /\ Len(wfile) = wcount /\ wfile \in Seq(Nat) /\ done \in Nat
  BY <1>1, <1>2
  DEF WrittenSoFar, LastToWrite, Progress, LoopTypes, Tallies, WriterInv, WriterTypes,
      WriterAgrees, W!WriterAgrees
<1>7. FileIsPrefix' /\ LastToWrite'
  <2>1. LastToWrite'
    BY <1>2 DEF LastToWrite
  <2>2. CASE UNCHANGED <<wcount, wfile>>
    BY <1>2, <1>6, <2>1, <2>2 DEF FileIsPrefix
  <2>3. CASE wcount' = wcount + 1 /\ wfile' = Append(wfile, last)
    <3>1. last \in Nat
      BY <1>1 DEF SourceInv, SourceTypes, Counts
    <3>2. /\ \A n \in 1 .. wcount : wfile'[n] = wfile[n]
          /\ wfile'[wcount + 1] = last
      BY <1>6, <2>3, <3>1, AppendProperties
    <3> QED
      BY <1>2, <1>6, <2>1, <2>3, <3>2 DEF FileIsPrefix
  <2> QED
    BY <1>4, <2>2, <2>3
<1>8. Progress'
  BY <1>2, <1>4, <1>6 DEF Progress
<1>9. FrameHeld'
  BY <1>2 DEF FrameHeld
<1> QED
  BY <1>3, <1>4, <1>5, <1>7, <1>8, <1>9 DEF LoopInv, WrittenSoFar

-----------------------------------------------------------------------------
(* The ends of the scopes.                                                  *)
LEMMA ReleaseAllHolds ==
  ASSUME SampleTypes, SamplesAccounted, ReleaseAll, pulls' = pulls
  PROVE  SampleTypes' /\ SamplesAccounted' /\ alive' = {}
<1>1. alive \subseteq {held[h] : h \in Holders} /\ mapped = alive
  BY DEF SamplesAccounted
<1>2. alive' = {} /\ mapped' = {}
  BY <1>1 DEF ReleaseAll
<1>3. held' = [h \in Holders |-> 0]
  BY DEF ReleaseAll
<1>4. SamplesAccounted'
  BY <1>2, <1>3 DEF SamplesAccounted
<1>5. SampleTypes'
  BY <1>3 DEF SampleTypes
<1> QED
  BY <1>2, <1>4, <1>5

LEMMA NextFrameHolds == LoopInv /\ NextFrame => LoopInv' /\ ReadsOn
<1> SUFFICES ASSUME LoopInv, NextFrame PROVE LoopInv' /\ ReadsOn
  OBVIOUS
<1>1. SourceInv /\ WriterInv /\ LoopTypes /\ WrittenSoFar /\ FrameHeld
  BY DEF LoopInv
<1>2. /\ pc = "next" /\ done' = done + 1 /\ ReleaseAll
      /\ UNCHANGED <<members, position, pipeline, pulls, last, passed>>
      /\ UNCHANGED <<program, maxFrames, got, wvars>>
  BY DEF NextFrame, program_vars
<1>3. /\ SampleTypes' /\ SamplesAccounted'
  BY <1>1, <1>2, ReleaseAllHolds DEF SourceInv, SourceTypes
<1>4. SourceInv' /\ ReadsOn
  <2> USE <1>1, <1>2 DEF members, pipeline
  <2>1. Flags' /\ Choices'
    BY DEF SourceInv, SourceTypes, Flags, Choices
  <2>2. Counts'
    BY DEF SourceInv, SourceTypes, Counts
  <2>3. PipelineOfOpen' /\ StatusAgrees'
    BY DEF SourceInv, PipelineOfOpen, StatusAgrees
  <2>4. LastIsLatest' /\ ReadsOn
    BY DEF SourceInv, LastIsLatest, ReadsOn
  <2> QED
    BY <1>3, <2>1, <2>2, <2>3, <2>4 DEF SourceInv, SourceTypes
<1>5. WriterInv'
  BY <1>1, <1>2, WriterStutterHolds
<1>6. /\ \/ pc' = "read" /\ exit' = exit /\ (maxFrames > 0 => done' < maxFrames)
         \/ pc' = "leave" /\ exit' \in {0, 1}
      /\ done \in Nat /\ done' \in Nat /\ maxFrames \in Nat
  <2>1. done \in Nat /\ done' \in Nat /\ maxFrames \in Nat
    BY <1>1, <1>2 DEF LoopTypes, Tallies
  <2>2. \/ pc' = "leave" /\ exit' \in {0, 1}
        \/ /\ ~(maxFrames > 0 /\ done' >= maxFrames)
           /\ pc' = "read" /\ exit' = exit
    BY DEF NextFrame, Finish, Return, GoOn
  <2> QED
    BY <2>1, <2>2
<1>7. LoopTypes'
  BY <1>1, <1>2, <1>6 DEF LoopTypes, Places, Tallies
<1>8. WrittenSoFar'
  <2> SUFFICES ASSUME program = "run_video" PROVE WrittenSoFar'
    BY <1>2 DEF WrittenSoFar
  <2>1. FileIsPrefix /\ Progress
    BY <1>1, <1>2 DEF WrittenSoFar
  <2>2. FileIsPrefix' /\ LastToWrite'
    BY <1>2, <1>6, <2>1 DEF FileIsPrefix, LastToWrite, wvars
  <2>3. /\ wcount = done' /\ Len(got) = done' /\ wlimit = 0 /\ exit = -1
        /\ (maxFrames > 0 => Len(got) <= maxFrames) /\ done' > 0
    BY <1>2, <1>6, <2>1 DEF Progress
  <2>4. Progress'
    BY <1>2, <1>6, <2>3 DEF Progress, wvars
  <2> QED
    BY <2>2, <2>4 DEF WrittenSoFar
<1>9. FrameHeld'
  BY <1>1, <1>2, <1>6 DEF FrameHeld, members
<1> QED
  BY <1>4, <1>5, <1>7, <1>8, <1>9 DEF LoopInv

LEMMA LeaveHolds == LoopInv /\ Leave => LoopInv' /\ ReadsOn
<1> SUFFICES ASSUME LoopInv, Leave PROVE LoopInv' /\ ReadsOn
  OBVIOUS
<1>1. SourceInv /\ WriterInv /\ LoopTypes
  BY DEF LoopInv
<1>2. /\ pc = "leave" /\ pc' = "gone" /\ ReleaseAll /\ pulls' = pulls
      /\ ClosedAs(Nothing, "opencv", "host", "closed") /\ W!Close
      /\ UNCHANGED <<program, maxFrames, done, exit, got>>
  BY DEF Leave, program_vars
<1>3. SampleTypes' /\ SamplesAccounted' /\ alive' = {}
  BY <1>1, <1>2, ReleaseAllHolds DEF SourceInv, SourceTypes
<1>4. SourceInv' /\ ReadsOn /\ ~isOpen'
  <2>1. Nothing \in Medium /\ "opencv" \in Backends
    BY DEF Nothing, Medium, Backends
  <2> QED
    BY <1>1, <1>2, <1>3, <2>1, ClosedMembers DEF SourceInv, SourceTypes
<1>5. WriterInv' /\ ~wopen'
  BY <1>2, WriterClosedHolds DEF W!Close, W!ClosedAs
<1>6. LoopTypes'
  BY <1>1, <1>2 DEF LoopTypes, Places, Tallies
<1>7. WrittenSoFar'
  BY <1>2 DEF WrittenSoFar
<1>8. FrameHeld'
  BY <1>2, <1>3, <1>4, <1>5 DEF FrameHeld
<1> QED
  BY <1>4, <1>5, <1>6, <1>7, <1>8 DEF LoopInv

LEMMA StreamingHolds == LoopInv /\ Streaming => LoopInv' /\ ReadsOn
<1> SUFFICES ASSUME LoopInv, Streaming PROVE LoopInv' /\ ReadsOn
  OBVIOUS
<1>1. SourceInv /\ WriterInv /\ LoopTypes /\ WrittenSoFar /\ FrameHeld
  BY DEF LoopInv
<1>2. /\ Arrive \/ StreamEnds \/ StreamFails
      /\ UNCHANGED <<program, maxFrames, pc, done, exit, got, wvars>>
  BY DEF Streaming, program_vars
<1>3. SourceInv' /\ ReadsOn
  BY <1>1, <1>2, StreamHolds
<1>4. UNCHANGED <<isOpen, backend, memory, last, pulls, alive, held>>
  BY <1>2 DEF Arrive, StreamEnds, StreamFails, members, samples
<1>5. WriterInv'
  BY <1>1, <1>2, WriterStutterHolds
<1>6. LoopTypes'
  BY <1>1, <1>2 DEF LoopTypes, Places, Tallies
<1>7. WrittenSoFar'
  BY <1>1, <1>2, <1>4 DEF WrittenSoFar, FileIsPrefix, LastToWrite, Progress, wvars
<1>8. FrameHeld'
  BY <1>1, <1>2, <1>4 DEF FrameHeld, wvars
<1> QED
  BY <1>3, <1>5, <1>6, <1>7, <1>8 DEF LoopInv

LEMMA ClientHolds == LoopInv /\ Client => LoopInv' /\ ReadsOn
<1> SUFFICES ASSUME LoopInv, Client PROVE LoopInv' /\ ReadsOn
  OBVIOUS
<1>1. SourceInv /\ WriterInv /\ LoopTypes
  BY DEF LoopInv
<1>2. /\ pc = "any" /\ program = "client" /\ ClientNext
      /\ UNCHANGED <<program, maxFrames, pc, done, exit, got>>
  BY <1>1 DEF Client, program_vars, LoopTypes, Places
<1>3. SourceInv' /\ WriterInv' /\ ReadsOn
  BY <1>1, <1>2, ClientStepHolds
<1>4. LoopTypes'
  BY <1>1, <1>2 DEF LoopTypes, Places, Tallies
<1>5. WrittenSoFar' /\ FrameHeld'
  BY <1>2 DEF WrittenSoFar, FrameHeld
<1> QED
  BY <1>3, <1>4, <1>5 DEF LoopInv

LEMMA LoopStutterHolds == LoopInv /\ UNCHANGED loopVars => LoopInv' /\ ReadsOn
<1> SUFFICES ASSUME LoopInv, UNCHANGED loopVars PROVE LoopInv' /\ ReadsOn
  OBVIOUS
<1>1. SourceInv /\ WriterInv /\ LoopTypes /\ WrittenSoFar /\ FrameHeld
  BY DEF LoopInv
<1>2. UNCHANGED <<vars, wvars, program, maxFrames, pc, done, exit, got>>
  BY DEF loopVars, program_vars
<1>3. SourceInv' /\ WriterInv' /\ ReadsOn
  BY <1>1, <1>2, SourceStutterHolds, WriterStutterHolds
<1>4. LoopTypes'
  BY <1>1, <1>2 DEF LoopTypes, Places, Tallies
<1>5. WrittenSoFar'
  BY <1>1, <1>2
  DEF WrittenSoFar, FileIsPrefix, LastToWrite, Progress, vars, wvars
<1>6. FrameHeld'
  BY <1>1, <1>2 DEF FrameHeld, vars, members, samples, wvars
<1> QED
  BY <1>3, <1>4, <1>5, <1>6 DEF LoopInv

LEMMA LoopStepHolds == LoopInv /\ [LoopNext]_loopVars => LoopInv' /\ ReadsOn
  BY OpenSourceHolds, ReadNextHolds, OpenWriterHolds, ShareFrameHolds, InferHolds,
     WriteFrameHolds, NextFrameHolds, LeaveHolds, StreamingHolds, ClientHolds,
     LoopStutterHolds
  DEF LoopNext, Steps, Gone

-----------------------------------------------------------------------------
LEMMA FileOfFrames ==
  WriterInv /\ LoopTypes /\ FileIsPrefix /\ wcount <= Len(got) =>
    /\ wfile = SubSeq(got, 1, wcount)
    /\ wcount = Len(got) => wfile = got
<1> SUFFICES ASSUME WriterInv, LoopTypes, FileIsPrefix, wcount <= Len(got)
             PROVE  /\ wfile = SubSeq(got, 1, wcount)
                    /\ wcount = Len(got) => wfile = got
  OBVIOUS
<1>1. /\ wfile \in Seq(Nat) /\ Len(wfile) = wcount /\ wcount \in Nat
      /\ got \in Seq(Nat)
  BY DEF WriterInv, WriterTypes, WriterAgrees, W!WriterAgrees, LoopTypes, Tallies
<1>2. DEFINE part == SubSeq(got, 1, wcount)
<1>3. /\ part \in Seq(Nat) /\ Len(part) = wcount
      /\ \A n \in 1 .. wcount : part[n] = got[n]
  BY <1>1
<1>4. \A n \in 1 .. Len(wfile) : wfile[n] = part[n]
  BY <1>1, <1>3 DEF FileIsPrefix
<1>5. wfile = part
  BY <1>1, <1>3, <1>4, SeqEqual
<1>6. wcount = Len(got) => wfile = got
  BY <1>1, SeqEqual DEF FileIsPrefix
<1> QED
  BY <1>5, <1>6

LEMMA LoopInvShows ==
  LoopInv => /\ SamplesAccounted /\ StatusAgrees /\ WriterAgrees
             /\ WrittenAsRead /\ DeviceMemoryLives
<1> SUFFICES ASSUME LoopInv
             PROVE  /\ SamplesAccounted /\ StatusAgrees /\ WriterAgrees
                    /\ WrittenAsRead /\ DeviceMemoryLives
  OBVIOUS
<1>1. SourceInv /\ WriterInv /\ LoopTypes /\ WrittenSoFar /\ FrameHeld
  BY DEF LoopInv
<1>2. SamplesAccounted /\ StatusAgrees /\ WriterAgrees
  BY <1>1 DEF SourceInv, WriterInv
<1>3. ASSUME program = "run_video", pc # "gone" PROVE WrittenAsRead
  <2>1. FileIsPrefix /\ Progress
    BY <1>1, <1>3 DEF WrittenSoFar
  <2>2. /\ wcount <= Len(got) /\ Len(got) <= wcount + 1
        /\ (maxFrames > 0 => Len(got) <= maxFrames)
        /\ (exit = 0 => wcount = Len(got) /\ wcount > 0)
    BY <2>1 DEF Progress
  <2>3. /\ wfile = SubSeq(got, 1, wcount)
        /\ wcount = Len(got) => wfile = got
    BY <1>1, <2>1, <2>2, FileOfFrames
  <2>4. wcount \in Nat /\ got \in Seq(Nat) /\ Len(got) \in Nat
    BY <1>1 DEF WriterInv, WriterTypes, LoopTypes, Tallies
  <2>5. wcount \in {Len(got) - 1, Len(got)}
    BY <2>2, <2>4
  <2>6. exit = 0 => wfile = got /\ got # <<>>
    BY <2>2, <2>3, <2>4
  <2> QED
    BY <2>2, <2>3, <2>5, <2>6 DEF WrittenAsRead
<1>4. WrittenAsRead
  BY <1>3 DEF WrittenAsRead
<1>5. DeviceMemoryLives
  <2>1. ASSUME program = "gpu", pc = "infer"
        PROVE  held["task"] \in mapped /\ held["task"] = held["user"] /\ held["task"] = pulls
    <3>1. held["task"] = pulls /\ held["user"] = pulls /\ pulls > 0
      BY <1>1, <2>1 DEF FrameHeld
    <3>2. "task" \in Holders /\ pulls # 0
      BY <1>1, <3>1 DEF Holders, SourceInv, SourceTypes, SampleTypes
    <3>3. held["task"] \in mapped
      BY <1>2, <3>1, <3>2 DEF SamplesAccounted
    <3> QED
      BY <3>1, <3>3
  <2>2. pc = "gone" => alive = {} /\ mapped = {} /\ ~isOpen /\ ~wopen
    BY <1>1, <1>2 DEF FrameHeld, SamplesAccounted
  <2> QED
    BY <2>1, <2>2 DEF DeviceMemoryLives
<1> QED
  BY <1>2, <1>4, <1>5

LEMMA LoopInvariant == LoopSpec => []LoopInv
  BY LoopInitHolds, LoopStepHolds, PTL DEF LoopSpec

(* The same of the source and the writer while the programs of examples/    *)
(* use them, whose steps are not all those of Next: run_video drops frame   *)
(* and input together, and a program opens its source without a bound.      *)
THEOREM LoopsKeepSamplesAndStatus ==
  LoopSpec => [](SamplesAccounted /\ StatusAgrees /\ WriterAgrees)
  BY LoopInvariant, LoopInvShows, PTL

(* The annotated video of run_video is what the source handed out, whatever *)
(* fails on the way (pipeline_support.cpp:237-330).                         *)
THEOREM VideoIsWrittenAsRead == LoopSpec => []WrittenAsRead
  BY LoopInvariant, LoopInvShows, PTL

(* The memory a model runs on is mapped and of the frame just read, and the *)
(* program leaves none behind (video_gpu_detection.cpp:260-303).            *)
THEOREM DeviceMemoryOutlivesInference == LoopSpec => []DeviceMemoryLives
  BY LoopInvariant, LoopInvShows, PTL

(* The frames come in order in the programs as well.                        *)
THEOREM LoopFramesInOrder == LoopSpec => FramesInOrder
<1>1. LoopInv /\ [LoopNext]_loopVars => [ReadsOn]_vars
  BY LoopStepHolds
<1>2. LoopSpec => [][ReadsOn]_vars
  BY <1>1, LoopInvariant, PTL DEF LoopSpec
<1> QED
  BY <1>2, PTL DEF FramesInOrder, ReadsOn
=============================================================================
