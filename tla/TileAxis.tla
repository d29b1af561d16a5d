------------------------------ MODULE TileAxis ------------------------------
(***************************************************************************)
(* tile_axis_starts of src/infer/tile_runner.cpp: where the tiles of one   *)
(* axis of a frame begin.  The loop steps by the tile's size less the      *)
(* overlap, and the last tile is moved back so that it ends with the axis. *)
(***************************************************************************)
EXTENDS Tiles

CONSTANTS
  Lengths,       (* lengths of the axis, in pixels                         *)
  TileSizes,     (* tile_width or tile_height                              *)
  OverlapSizes   (* overlap_x or overlap_y                                 *)

ASSUME AxisAssumption ==
  Lengths \subseteq Int /\ TileSizes \subseteq Int /\ OverlapSizes \subseteq Int

VARIABLES
  length, tile_size, overlap,   (* the arguments                           *)
  phase,                        (* where the call is                       *)
  starts,                       (* starts                                  *)
  start                         (* the variable of the loop                *)

axisArgs == <<length, tile_size, overlap>>
axisVars == <<axisArgs, phase, starts, start>>

Tile == ClampedTile(length, tile_size)
Clamped == ClampedOverlap(length, tile_size, overlap)
Step == StepOf(length, tile_size, overlap)
LastStart == LastStartOf(length, tile_size)

AxisInit ==
  /\ length \in Lengths
  /\ tile_size \in TileSizes
  /\ overlap \in OverlapSizes
  /\ phase = "called"
  /\ starts = <<>>
  /\ start = 0

Reject ==
  /\ phase = "called"
  /\ length <= 0 \/ tile_size <= 0
  /\ phase' = "returned"
  /\ UNCHANGED <<axisArgs, starts, start>>

PushFirstTwice ==   (* slip: for (int start = 0; ... *)
  /\ phase = "called"
  /\ length > 0
  /\ tile_size > 0
  /\ starts' = <<0>>
  /\ start' = 0
  /\ phase' = "looping"
  /\ UNCHANGED axisArgs

PushFirst ==
  /\ phase = "called"
  /\ length > 0
  /\ tile_size > 0
  /\ starts' = <<0>>
  /\ start' = Step
  /\ phase' = "looping"
  /\ UNCHANGED axisArgs

Push ==
  /\ phase = "looping"
  /\ start < LastStart
  /\ starts' = Append(starts, start)
  /\ start' = start + Step
  /\ UNCHANGED <<axisArgs, phase>>

ReturnWithoutLast ==   (* slip: the rest of the axis is left out *)
  /\ phase = "looping"
  /\ start >= LastStart
  /\ phase' = "returned"
  /\ UNCHANGED <<axisArgs, starts, start>>

ReturnWithLast ==   (* slip: the last start is pushed without a look at back() *)
  /\ phase = "looping"
  /\ start >= LastStart
  /\ starts' = Append(starts, LastStart)
  /\ phase' = "returned"
  /\ UNCHANGED <<axisArgs, start>>

PushLast ==
  /\ phase = "looping"
  /\ start >= LastStart
  /\ starts' = IF starts[Len(starts)] # LastStart THEN Append(starts, LastStart) ELSE starts
  /\ phase' = "returned"
  /\ UNCHANGED <<axisArgs, start>>

AxisNext == Reject \/ PushFirst \/ Push \/ PushLast

AxisSpec == AxisInit /\ [][AxisNext]_axisVars

-----------------------------------------------------------------------------
AxisTypeOK ==
  /\ length \in Lengths
  /\ tile_size \in TileSizes
  /\ overlap \in OverlapSizes
  /\ phase \in {"called", "looping", "returned"}
  /\ starts \in Seq(Int)
  /\ start \in Int

Usable == length > 0 /\ tile_size > 0

(* The int of the loop never passes the end of the axis, so it cannot       *)
(* overflow whatever the size of the frame.                                 *)
LoopStaysInside == Usable => start \in 0 .. length

(* No pixel of the axis is left out.                                        *)
EveryPixelTiled ==
  phase = "returned" /\ Usable =>
    \A x \in 0 .. length - 1 :
      \E n \in 1 .. Len(starts) : starts[n] <= x /\ x < starts[n] + Tile

(* Every tile has its full size inside the axis and none is repeated: the   *)
(* tail moved back is never the tile before it.                             *)
TilesDistinctInside ==
  phase = "returned" /\ Usable =>
    /\ \A n \in 1 .. Len(starts) : 0 <= starts[n] /\ starts[n] + Tile <= length
    /\ \A m, n \in 1 .. Len(starts) : m < n => starts[m] < starts[n]

(* Neighbouring tiles overlap by what was asked for, clamped, or by more.   *)
OverlapKept ==
  phase = "returned" /\ Usable =>
    \A n \in 1 .. Len(starts) - 1 : starts[n] + Tile - starts[n + 1] >= Clamped

(* What other modules take the call to return.                              *)
ReturnsAxisStarts ==
  phase = "returned" => starts = AxisStarts(length, tile_size, overlap)

-----------------------------------------------------------------------------
(* What the loop keeps: the tiles so far are in order, no further apart     *)
(* than a step, and leave out no pixel up to the end of the last of them.   *)
AxisInvariant ==
  /\ phase = "called" => start = 0
  /\ phase = "looping" => Usable /\ start = starts[Len(starts)] + Step
  /\ phase # "called" /\ Usable =>
       /\ Len(starts) > 0
       /\ start \in 0 .. length
       /\ \A n \in 1 .. Len(starts) : starts[n] \in 0 .. LastStart
       /\ \A n \in 1 .. Len(starts) - 1 : starts[n + 1] - starts[n] <= Step
       /\ \A m, n \in 1 .. Len(starts) : m < n => starts[m] < starts[n]
       /\ \A x \in 0 .. starts[Len(starts)] + Tile - 1 :
            \E n \in 1 .. Len(starts) : starts[n] <= x /\ x < starts[n] + Tile
  /\ phase = "returned" /\ Usable => starts[Len(starts)] = LastStart
=============================================================================
