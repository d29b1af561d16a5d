---------------------------- MODULE MediaSource ----------------------------
(***************************************************************************)
(* cvkit::media::Source of src/media/source.cpp: opening an image or video *)
(* with OpenCV or GStreamer, reading host frames and device frames, and    *)
(* closing.  A Source has one user.  Beside it run the streaming thread of *)
(* the GStreamer pipeline, which fills the queue of the appsink, and those *)
(* who hold device frames.  Reading a source that is not open does nothing *)
(* and is no action here.                                                  *)
(***************************************************************************)
EXTENDS Naturals, FiniteSets

CONSTANTS
  Media,     (* what a uri may lead to: see Medium                          *)
  MaxBuffers,(* bound: gst_app_sink_set_max_buffers, 4 in the code          *)
  MaxPulls,  (* bound: samples taken from the appsink                       *)
  MaxOpens   (* bound: calls of open                                        *)

(* readable: a file both backends can open.  odd: the frames whose channels *)
(* frame_from_mat does not know.                                            *)
Medium == [kind : {"no_uri", "unreadable", "image", "video"}, frames : Nat, odd : SUBSET Nat]

ASSUME SourceAssumption ==
  /\ Media \subseteq Medium
  /\ \A m \in Media : (m.kind = "image" => m.frames = 1) /\ m.odd \subseteq 1 .. m.frames
  /\ MaxBuffers \in Nat \ {0} /\ MaxPulls \in Nat /\ MaxOpens \in Nat

VARIABLES
  opens,     (* calls of open so far                                        *)
  medium,    (* what uri_ leads to                                          *)
  backend, memory, isOpen, primed, consumed, status,  (* members of Impl    *)
  infoOpen, index,    (* info_.open, info_.frame_index                      *)
  position,  (* frames the capture or the appsink handed out since open     *)
  arrived,   (* frames the streaming thread put into the queue since open   *)
  preroll,   (* the appsink keeps its first buffer for a pull of the preroll*)
  stream,    (* the streaming thread: "none", "running", "ended", "failed"  *)
  bus,       (* an error waits on the bus of the pipeline                   *)
  pulls,     (* samples taken so far; a sample is named by its number       *)
  alive, mapped,      (* samples not unreferenced yet; those mapped         *)
  held,      (* which sample the device frame of the user and the input of  *)
             (* a task that was given it own; 0: none                       *)
  last,      (* history: the frame handed to the user last, 0: none yet     *)
  passed     (* history: frames taken since open that no read handed out    *)

pipeline == <<arrived, preroll, stream, bus>>
samples == <<pulls, alive, mapped, held>>
members == <<medium, backend, memory, isOpen, primed, consumed, status, infoOpen, index>>
vars == <<opens, members, position, pipeline, samples, last, passed>>

Backends == {"opencv", "gstreamer", "ffmpeg"}
Statuses == {"closed", "open", "end_of_stream", "invalid_uri", "unsupported_backend", "backend_error"}
Holders == {"user", "task"}
Nothing == [kind |-> "no_uri", frames |-> 0, odd |-> {}]

Init ==
  /\ opens = 0
  /\ medium = Nothing /\ backend = "opencv" /\ memory = "host"
  /\ isOpen = FALSE /\ primed = FALSE /\ consumed = FALSE /\ status = "closed"
  /\ infoOpen = FALSE /\ index = 0
  /\ position = 0 /\ arrived = 0 /\ preroll = FALSE /\ stream = "none" /\ bus = FALSE
  /\ pulls = 0 /\ alive = {} /\ mapped = {} /\ held = [h \in Holders |-> 0]
  /\ last = 0 /\ passed = {}

-----------------------------------------------------------------------------
(* What close() leaves of the pipeline: its queue is gone, the samples that *)
(* were pulled are not.                                                     *)
NoPipeline == arrived' = 0 /\ preroll' = FALSE /\ stream' = "none" /\ bus' = FALSE

(* The members after close() and, if a call of open goes on, after it chose *)
(* its backend.  s: the status it ends with.                                *)
ClosedAs(m, b, mem, s) ==
  /\ medium' = m /\ backend' = b /\ memory' = mem
  /\ isOpen' = FALSE /\ infoOpen' = FALSE
  /\ primed' = FALSE /\ consumed' = FALSE /\ index' = 0
  /\ position' = 0 /\ last' = 0 /\ passed' = {}
  /\ status' = s
  /\ NoPipeline

OpenedAs(m, b, mem) ==
  /\ medium' = m /\ backend' = b /\ memory' = mem
  /\ isOpen' = TRUE /\ infoOpen' = TRUE
  /\ primed' = FALSE /\ consumed' = FALSE /\ index' = 0
  /\ position' = 0 /\ last' = 0 /\ passed' = {}
  /\ status' = "open"

(* open() and open_opencv().  An OpenCV source is host memory only; ffmpeg  *)
(* is not built.  Every call of open closes what was open before.           *)
OpenWithOpenCv(m, mem) ==
  IF m.kind = "no_uri" THEN ClosedAs(m, "opencv", mem, "invalid_uri")
  ELSE IF mem # "host" THEN ClosedAs(m, "opencv", mem, "unsupported_backend")
  ELSE IF m.kind = "unreadable" THEN ClosedAs(m, "opencv", mem, "backend_error")
  ELSE OpenedAs(m, "opencv", mem) /\ NoPipeline

(* The GStreamer branch of open(): a description that does not parse keeps  *)
(* the options of the call, a pipeline that fails to start or reports an    *)
(* error within its first seconds is closed again.  It may also be opened   *)
(* before the file turns out to be unreadable.                              *)
OpenWithGStreamer(m, mem) ==
  \/ m.kind = "no_uri" /\ ClosedAs(m, "gstreamer", mem, "invalid_uri")
  \/ m.kind = "unreadable" /\ ClosedAs(m, "gstreamer", mem, "backend_error")
  \/ m.kind = "unreadable" /\ ClosedAs(Nothing, "opencv", "host", "backend_error")
  \/ /\ m.kind # "no_uri"
     /\ OpenedAs(m, "gstreamer", mem)
     /\ arrived' = 0 /\ preroll' = FALSE /\ stream' = "running" /\ bus' = FALSE

Open ==
  /\ opens < MaxOpens
  /\ opens' = opens + 1
  /\ \E m \in Media, mem \in {"host", "cuda"} :
       \/ OpenWithOpenCv(m, mem)
       \/ OpenWithGStreamer(m, mem)
       \/ ClosedAs(m, "ffmpeg", mem, IF m.kind = "no_uri" THEN "invalid_uri" ELSE "unsupported_backend")
  /\ UNCHANGED samples

Close ==
  /\ status # "closed"
  /\ ClosedAs(Nothing, "opencv", "host", "closed")
  /\ UNCHANGED <<opens, samples>>

-----------------------------------------------------------------------------
(* How a read ends: with frame f handed out and i in info_.frame_index, or  *)
(* without one and with the status s.                                       *)
HandsOut(f, i, s) ==
  /\ last' = f /\ index' = i /\ status' = s
  /\ UNCHANGED <<isOpen, infoOpen, passed>>

Fails(s) ==
  /\ status' = s
  /\ UNCHANGED <<isOpen, infoOpen, index, last>>

EndsHalf ==   (* slip: the info still says that the source is open *)
  /\ isOpen' = FALSE /\ status' = "end_of_stream"
  /\ UNCHANGED <<infoOpen, index, last, passed>>

EndsHere ==
  /\ isOpen' = FALSE /\ infoOpen' = FALSE /\ status' = "end_of_stream"
  /\ UNCHANGED <<index, last, passed>>

(* frame_from_mat makes a BGR frame of one, three or four channels.         *)
Converts(f) == f \notin medium.odd

ReadOf(kind) == isOpen /\ backend = "opencv" /\ medium.kind = kind

(* read_opencv on an image: once; an image with unknown channels is refused *)
(* at every read and stays open.                                            *)
ReadImage ==
  /\ ReadOf("image")
  /\ IF consumed THEN EndsHere /\ UNCHANGED consumed
     ELSE IF Converts(1) THEN HandsOut(1, 1, "open") /\ consumed' = TRUE
     ELSE Fails("backend_error") /\ UNCHANGED <<consumed, passed>>
  /\ UNCHANGED <<opens, medium, backend, memory, primed, position, pipeline, samples>>

(* read_opencv on a video: the capture may give up before the last frame.   *)
ReadVideo ==
  /\ ReadOf("video")
  /\ \/ EndsHere /\ UNCHANGED position
     \/ /\ position < medium.frames
        /\ position' = position + 1
        /\ IF Converts(position')
           THEN HandsOut(position', position', "open")
           ELSE Fails("backend_error") /\ passed' = passed \cup {position'}
  /\ UNCHANGED <<opens, medium, backend, memory, primed, consumed, pipeline, samples>>

(* read of the kind of frame the source was not opened for.                 *)
ReadWrongKind ==
  /\ isOpen
  /\ Fails("unsupported_backend")
  /\ UNCHANGED <<opens, medium, backend, memory, primed, consumed, position, passed,
                 pipeline, samples>>

-----------------------------------------------------------------------------
OverGStreamer(mem) == isOpen /\ backend = "gstreamer" /\ memory = mem

ArriveDropping ==   (* slip: gst_app_sink_set_drop(sink_, TRUE) *)
  /\ stream = "running" /\ arrived < medium.frames
  /\ arrived' = arrived + 1
  /\ position' = IF arrived - position < MaxBuffers THEN position ELSE position + 1
  /\ preroll' = (preroll \/ arrived = 0)
  /\ UNCHANGED <<opens, members, stream, bus, samples, last, passed>>

(* The streaming thread puts the next frame into the queue of the appsink,  *)
(* which drops nothing: a full queue makes it wait.  The first frame is the *)
(* preroll as well.                                                         *)
Arrive ==
  /\ stream = "running" /\ arrived < medium.frames
  /\ arrived - position < MaxBuffers
  /\ arrived' = arrived + 1
  /\ preroll' = (preroll \/ arrived = 0)
  /\ UNCHANGED <<opens, members, position, stream, bus, samples, last, passed>>

StreamEnds ==
  /\ stream = "running" /\ arrived = medium.frames
  /\ stream' = "ended"
  /\ UNCHANGED <<opens, members, position, arrived, preroll, bus, samples, last, passed>>

StreamFails ==
  /\ stream = "running"
  /\ stream' = "failed" /\ bus' = TRUE
  /\ UNCHANGED <<opens, members, position, arrived, preroll, samples, last, passed>>

(* The first read asks for the preroll, which leaves the frame in the queue;*)
(* if that is not there in time, or at a later read, it takes a sample.     *)
PullPreroll == ~primed /\ preroll /\ preroll' = FALSE /\ UNCHANGED position
PullSample == position < arrived /\ position' = position + 1 /\ UNCHANGED preroll

Pull(f) ==
  /\ pulls < MaxPulls /\ pulls' = pulls + 1
  /\ \/ PullPreroll /\ f = 1
     \/ PullSample /\ f = position + 1
  /\ primed' = TRUE

(* check_bus_for_error takes the errors off the bus.                        *)
BusVerdict == bus' = FALSE /\ Fails(IF bus THEN "backend_error" ELSE "end_of_stream")

(* Nothing came within the time limits, or the stream is over.              *)
PullsNothing ==
  /\ position = arrived /\ ~(~primed /\ preroll)
  /\ primed' = TRUE
  /\ BusVerdict
  /\ UNCHANGED <<opens, medium, backend, memory, consumed, position, passed,
                 arrived, preroll, stream, samples>>

(* read(Frame&) over GStreamer.  A sample without caps, with caps that are  *)
(* no video or that does not map is dropped and the status left; a success  *)
(* leaves the status too.                                                   *)
ReadHostFrame ==
  /\ OverGStreamer("host")
  /\ \E f \in 1 .. arrived :
       /\ Pull(f)
       /\ \/ HandsOut(f, index + 1, status)
          \/ Fails(status) /\ passed' = passed \cup {f}
  /\ UNCHANGED <<opens, medium, backend, memory, consumed, arrived, stream, bus,
                 alive, mapped, held>>

ReadHostNothing == OverGStreamer("host") /\ PullsNothing

-----------------------------------------------------------------------------
HeldBut(h) == {held[g] : g \in Holders \ {h}} \ {0}

(* The holder takes over a mapped sample, or none (0): what it held before  *)
(* is unmapped and unreferenced if nobody else holds it (~MappedGstSample). *)
Takes(h, sample) ==
  /\ held' = [held EXCEPT ![h] = sample]
  /\ LET gone == {held[h]} \ (HeldBut(h) \cup {sample}) IN
     /\ alive' = (alive \ gone) \cup ({sample} \ {0})
     /\ mapped' = (mapped \ gone) \cup ({sample} \ {0})

DroppedUnlessMapFails ==   (* slip: the sample that did not map is not released *)
  \/ UNCHANGED <<alive, mapped, held>>
  \/ alive' = alive \cup {pulls + 1} /\ UNCHANGED <<mapped, held>>

(* What becomes of a sample that cannot be used.                            *)
Dropped == UNCHANGED <<alive, mapped, held>>

(* read(DeviceFrame&): the frame of the user gives up the sample it owned   *)
(* and owns the new one; a read that fails leaves it alone.                 *)
ReadDeviceFrame ==
  /\ OverGStreamer("cuda")
  /\ \E f \in 1 .. arrived :
       /\ Pull(f)
       /\ \/ HandsOut(f, index + 1, "open") /\ Takes("user", pulls + 1)
          \/ Fails("backend_error") /\ passed' = passed \cup {f} /\ Dropped
  /\ UNCHANGED <<opens, medium, backend, memory, consumed, arrived, stream, bus>>

ReadDeviceNothing == OverGStreamer("cuda") /\ PullsNothing

(* image_value_from_device_frame: the input of a task shares the owner.     *)
GiveToTask ==
  /\ held["user"] # 0 /\ held["task"] # held["user"]
  /\ Takes("task", held["user"])
  /\ UNCHANGED <<opens, members, position, pipeline, pulls, last, passed>>

Release(h) ==
  /\ held[h] # 0
  /\ Takes(h, 0)
  /\ UNCHANGED <<opens, members, position, pipeline, pulls, last, passed>>

Next ==
  \/ Open \/ Close
  \/ ReadImage \/ ReadVideo \/ ReadWrongKind
  \/ ReadHostFrame \/ ReadHostNothing \/ ReadDeviceFrame \/ ReadDeviceNothing
  \/ Arrive \/ StreamEnds \/ StreamFails
  \/ GiveToTask
  \/ \E h \in Holders : Release(h)

Spec == Init /\ [][Next]_vars

-----------------------------------------------------------------------------
TypeOK ==
  /\ opens \in 0 .. MaxOpens /\ pulls \in 0 .. MaxPulls
  /\ medium \in Medium /\ backend \in Backends /\ memory \in {"host", "cuda"}
  /\ {isOpen, infoOpen, primed, consumed, preroll, bus} \subseteq BOOLEAN
  /\ status \in Statuses /\ stream \in {"none", "running", "ended", "failed"}
  /\ index \in Nat /\ last \in Nat /\ passed \subseteq Nat
  /\ position \in 0 .. medium.frames
  /\ arrived \in 0 .. medium.frames
  /\ alive \subseteq 1 .. pulls /\ mapped \subseteq 1 .. pulls
  /\ held \in [Holders -> 0 .. pulls]

(* Whatever reads, failures, closings and reopenings happen, the samples    *)
(* that still exist are those some device frame or task input owns, and     *)
(* just these are mapped: none is released under its owner, none leaks.     *)
SamplesAccounted ==
  /\ alive = {held[h] : h \in Holders} \ {0}
  /\ mapped = alive

(* The frames come in order, and a read that fails reports every frame that *)
(* is left out; only the first frame of a GStreamer source may come twice,  *)
(* as the preroll and as the first sample.                                  *)
FramesInOrder ==
  [][ last' # last \/ index' # index =>
        \/ last' = 0
        \/ /\ last' > last
           /\ \A f \in 1 .. last' - 1 : f > last => f \in passed
        \/ last' = last /\ last = 1 /\ backend = "gstreamer" /\ position' = 1 ]_vars

(* What the status, is_open and the info tell agree: an open status means   *)
(* an open source, a source that was never opened or was closed says so,    *)
(* and an OpenCV source that reached its end cannot be read on.             *)
StatusAgrees ==
  /\ infoOpen = isOpen
  /\ status = "open" => isOpen
  /\ status \in {"closed", "invalid_uri"} => ~isOpen /\ index = 0
  /\ backend = "opencv" /\ status = "end_of_stream" => ~isOpen
  /\ backend = "opencv" /\ isOpen /\ status = "backend_error" => medium.odd # {}
  /\ bus => isOpen /\ stream = "failed"

(* A read that hands out a frame leaves the source open, as                 *)
(* tests/test_media.cpp:65-66 has it, whatever earlier reads ended with; a  *)
(* read of a device frame sets the status, one of a host frame over         *)
(* GStreamer leaves what a time limit left (source.cpp:434-482).            *)
DeliveryMeansOpen == [][index' = index + 1 => status' = "open"]_vars
=============================================================================
