---------------------------- MODULE MediaWriter ----------------------------
(***************************************************************************)
(* cvkit::media::Writer of src/media/writer.cpp: a writer of host frames   *)
(* over OpenCV or its GStreamer backend, with a limit of frames.  It has   *)
(* one user and no thread of its own.                                      *)
(***************************************************************************)
EXTENDS Naturals, Sequences

VARIABLES
  open,      (* info_.open                                                  *)
  status,    (* status_                                                     *)
  limit,     (* info_.max_frames; 0: none                                   *)
  count,     (* info_.frame_count                                           *)
  file       (* the frames given to cv::VideoWriter since it was opened     *)

vars == <<open, status, limit, count, file>>

Statuses == {"closed", "open", "limit_reached", "invalid_options", "unsupported_backend", "backend_error"}

(* What a call of open can be told by: options no writer can have, a        *)
(* backend or codec that is not built, a backend that does not open the uri.*)
Requests == {"invalid", "unsupported", "fails", "fine"}

ClosedAs(s) ==
  /\ open' = FALSE /\ limit' = 0 /\ count' = 0 /\ file' = <<>>
  /\ status' = s

Init == open = FALSE /\ status = "closed" /\ limit = 0 /\ count = 0 /\ file = <<>>

(* open(): whatever was open before is closed.                              *)
Open(request, max) ==
  CASE request = "invalid" -> ClosedAs("invalid_options")
    [] request = "unsupported" -> ClosedAs("unsupported_backend")
    [] request = "fails" -> ClosedAs("backend_error")
    [] request = "fine" ->
         open' = TRUE /\ status' = "open" /\ limit' = max /\ count' = 0 /\ file' = <<>>

LimitPassed == limit > 0 /\ count > limit   (* slip: one frame too many *)

LimitReached == limit > 0 /\ count >= limit

Refused(s) == status' = s /\ UNCHANGED <<open, limit, count, file>>

(* write(Frame): the limit comes first, then the geometry of the frame,     *)
(* frame_matches_writer.                                                    *)
Write(frame, fits) ==
  /\ open
  /\ IF LimitReached THEN Refused("limit_reached")
     ELSE IF ~fits THEN Refused("invalid_options")
     ELSE /\ file' = Append(file, frame)
          /\ count' = count + 1
          /\ status' = "open"
          /\ UNCHANGED <<open, limit>>

(* write(DeviceFrame): not implemented.                                     *)
WriteDevice == open /\ Refused("unsupported_backend")

Close == ClosedAs("closed")

-----------------------------------------------------------------------------
(* The status, the count, the limit and what the backend was given agree    *)
(* over accepted and refused frames and reopenings: never more frames than  *)
(* the limit, and the limit is reported only when it is met.                *)
WriterAgrees ==
  /\ count = Len(file)
  /\ limit > 0 => count <= limit
  /\ status = "limit_reached" => open /\ limit > 0 /\ count = limit
  /\ status = "open" => open
  /\ ~open => count = 0 /\ limit = 0
  /\ status \in {"closed", "backend_error"} => ~open
=============================================================================
