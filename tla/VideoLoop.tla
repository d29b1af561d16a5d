----------------------------- MODULE VideoLoop -----------------------------
(***************************************************************************)
(* Three users of a Source and a Writer: the two programs of examples/ that*)
(* take a video through a model frame by frame, run_video of               *)
(* pipeline_support.cpp, with host frames and a writer for the annotated   *)
(* video, and video_gpu_detection.cpp, whose frames stay on the device and *)
(* become inputs of a task without a copy; and the client who calls the    *)
(* operations in any order (MediaClient).                                  *)
(***************************************************************************)
EXTENDS MediaClient, Integers

CONSTANTS
  FrameLimits,  (* --max-frames; 0: all frames                              *)
  Resized,      (* frames whose size is not that of the first               *)
  ClientPulls   (* bound: samples the client takes from the appsink         *)

ASSUME LoopAssumption ==
  FrameLimits \subseteq Nat /\ Resized \subseteq Nat /\ ClientPulls \in Nat

VARIABLES
  program,   (* "run_video", "gpu" or "client"                              *)
  maxFrames, (* max_frames                                                  *)
  pc,        (* where the program is                                        *)
  done,      (* frame_index, frame_count                                    *)
  exit,      (* what main returns; -1 while it runs                         *)
  got        (* history: the frames handed out by the source                *)

program_vars == <<program, maxFrames>>
loopVars == <<vars, program_vars, pc, done, exit, got, wvars>>

LoopInit ==
  /\ ClientInit
  /\ \/ program \in {"run_video", "gpu"} /\ maxFrames \in FrameLimits /\ pc = "open"
     \/ program = "client" /\ maxFrames = 0 /\ pc = "any"
  /\ done = 0 /\ exit = -1 /\ got = <<>>

-----------------------------------------------------------------------------
Return(code) == pc' = "leave" /\ exit' = code
GoOn(to) == pc' = to /\ UNCHANGED exit

(* Opening the source: run_video takes either backend, the other program    *)
(* asks for device frames over GStreamer.                                   *)
OpenSource ==
  /\ pc = "open"
  /\ opens' = opens + 1
  /\ \E m \in Media :
       \/ program = "run_video" /\ OpenWithOpenCv(m, "host")
       \/ OpenWithGStreamer(m, IF program = "gpu" THEN "cuda" ELSE "host")
  /\ IF isOpen' THEN GoOn("read") ELSE Return(1)
  /\ UNCHANGED <<samples, program_vars, done, got, wvars>>

(* What a read comes to: only a frame counts in the info.                   *)
Delivered == index' # index

ReadAny ==
  \/ ReadImage \/ ReadVideo \/ ReadHostFrame \/ ReadHostNothing
  \/ ReadDeviceFrame \/ ReadDeviceNothing

(* How the loop ends after n frames, whatever the status of the source: the *)
(* program that was asked for a picture may not have come to its frame.     *)
Finish(n) ==
  \/ Return(IF n > 0 THEN 0 ELSE 1)
  \/ program = "gpu" /\ Return(1)

RetryAtEnd ==   (* slip: as long as the source is open the read is tried again *)
  IF isOpen' THEN UNCHANGED <<pc, exit>> ELSE Finish(done)

AtEnd == Finish(done)

(* The read at the head of the loop; the writer is opened for the size of   *)
(* the first frame.                                                         *)
ReadNext ==
  /\ pc = "read"
  /\ ReadAny
  /\ IF Delivered
     THEN /\ got' = Append(got, last')
          /\ GoOn(IF program = "gpu" THEN "share"
                  ELSE IF done = 0 THEN "open_writer" ELSE "infer")
     ELSE AtEnd /\ UNCHANGED got
  /\ UNCHANGED <<program_vars, done, wvars>>

SkipFirst == GoOn("next")   (* slip: the frame read for its size is lost *)

WithFirst == GoOn("infer")

OpenWriter ==
  /\ pc = "open_writer"
  /\ \E request \in {"unsupported", "fails", "fine"} : W!Open(request, 0)
  /\ IF wopen' THEN WithFirst ELSE Return(1)
  /\ UNCHANGED <<vars, program_vars, done, got>>

(* video_gpu_detection: the input shares the device frame.                  *)
ShareFrame ==
  /\ pc = "share"
  /\ GiveToTask
  /\ GoOn("infer")
  /\ UNCHANGED <<program_vars, done, got, wvars>>

(* Inference, drawing, and what is written of the first frame: the graph    *)
(* JSON of run_video, the downloaded picture of the other program, which    *)
(* also ends when there are no detections in the output.                    *)
Infer ==
  /\ pc = "infer"
  /\ \/ GoOn(IF program = "gpu" THEN "next" ELSE "write")
     \/ (program = "gpu" \/ done = 0) /\ Return(1)
  /\ UNCHANGED <<vars, program_vars, done, got, wvars>>

WriteFrame ==
  /\ pc = "write"
  /\ W!Write(last, last \notin Resized)
  /\ IF wcount' > wcount THEN GoOn("next") ELSE Return(1)
  /\ UNCHANGED <<vars, program_vars, done, got>>

ReleaseFrame ==   (* slip: the input outlives the iteration *)
  /\ held' = [held EXCEPT !["user"] = 0]
  /\ UNCHANGED <<alive, mapped>>

(* The destructors of the frame and the input.                              *)
ReleaseAll ==
  /\ held' = [h \in Holders |-> 0]
  /\ alive' = alive \ {held[h] : h \in Holders}
  /\ mapped' = mapped \ {held[h] : h \in Holders}

(* ++frame_index and the limit; the frame and the input of video_gpu_detec- *)
(* tion end with the iteration.                                             *)
NextFrame ==
  /\ pc = "next"
  /\ done' = done + 1
  /\ IF maxFrames > 0 /\ done' >= maxFrames THEN Finish(done') ELSE GoOn("read")
  /\ ReleaseAll
  /\ UNCHANGED <<opens, members, position, pipeline, pulls, last, passed, program_vars,
                 got, wvars>>

(* The end of the scopes: input and frame, writer, source.                  *)
Leave ==
  /\ pc = "leave" /\ pc' = "gone"
  /\ ReleaseAll
  /\ ClosedAs(Nothing, "opencv", "host", "closed")
  /\ W!Close
  /\ UNCHANGED <<opens, pulls, program_vars, done, exit, got>>

Steps ==
  \/ OpenSource \/ ReadNext \/ OpenWriter \/ ShareFrame
  \/ Infer \/ WriteFrame \/ NextFrame \/ Leave

Streaming ==
  /\ program # "client"
  /\ Arrive \/ StreamEnds \/ StreamFails
  /\ UNCHANGED <<program_vars, pc, done, exit, got, wvars>>

Gone == pc = "gone" /\ UNCHANGED loopVars

Client ==
  /\ pc = "any"
  /\ ClientNext
  /\ pulls' <= ClientPulls
  /\ UNCHANGED <<program_vars, pc, done, exit, got>>

LoopNext == Steps \/ Streaming \/ Gone \/ Client

(* The program runs on, and a read ends at the latest with its time limits, *)
(* whatever the streaming thread does.                                      *)
LoopSpec == LoopInit /\ [][LoopNext]_loopVars /\ WF_loopVars(Steps)

-----------------------------------------------------------------------------
(* The annotated video holds the frames the source handed out, in order and *)
(* each once handed out: all of them when run_video succeeds, all but the   *)
(* last before its write; and the limit of frames is kept.                  *)
WrittenAsRead ==
  program = "run_video" /\ pc # "gone" =>
    /\ wfile = SubSeq(got, 1, wcount)
    /\ wcount \in {Len(got) - 1, Len(got)} \/ got = <<>>
    /\ exit = 0 => wfile = got /\ got # <<>>
    /\ maxFrames > 0 => Len(got) <= maxFrames

(* While the model runs on a device frame its memory is mapped and shows    *)
(* the frame just read; after the program nothing of it is left.            *)
DeviceMemoryLives ==
  /\ program = "gpu" /\ pc = "infer" =>
       held["task"] \in mapped /\ held["task"] = held["user"] /\ held["task"] = pulls
  /\ pc = "gone" => alive = {} /\ mapped = {} /\ ~isOpen /\ ~wopen

(* Neither program hangs: it ends whether the source ends, fails or times   *)
(* out.                                                                     *)
LoopEnds == pc = "open" ~> pc = "gone"
=============================================================================
