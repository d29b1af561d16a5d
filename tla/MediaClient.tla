---------------------------- MODULE MediaClient ----------------------------
(***************************************************************************)
(* A user of one Source and one Writer who may call their operations in    *)
(* any order, as the tests of src/media do: the frame read last, of the    *)
(* size the writer was opened for or of another, is what gets written.     *)
(***************************************************************************)
EXTENDS MediaSource, Sequences

CONSTANTS
  Limits,    (* what WriterOptions.max_frames may be                        *)
  MaxWrites  (* bound: frames written since the writer was opened           *)

ASSUME ClientAssumption == Limits \subseteq Nat /\ MaxWrites \in Nat

VARIABLES wopen, wstatus, wlimit, wcount, wfile

wvars == <<wopen, wstatus, wlimit, wcount, wfile>>

W == INSTANCE MediaWriter WITH
       open <- wopen, status <- wstatus, limit <- wlimit, count <- wcount, file <- wfile

ClientInit == Init /\ W!Init

Calls ==
  \/ \E request \in W!Requests, max \in Limits : W!Open(request, max)
  \/ Len(wfile) < MaxWrites /\ last > 0 /\ \E fits \in BOOLEAN : W!Write(last, fits)
  \/ held["user"] # 0 /\ W!WriteDevice
  \/ wopen /\ W!Close

ClientNext ==
  \/ Next /\ UNCHANGED wvars
  \/ Calls /\ UNCHANGED vars

ClientSpec == ClientInit /\ [][ClientNext]_<<vars, wvars>>

(* Over any calls of open, write and close the writer never takes more      *)
(* frames than its limit, counts what it gave to the backend, and reports   *)
(* the limit only when it is met (MediaWriter).                             *)
WriterAgrees == W!WriterAgrees
=============================================================================
