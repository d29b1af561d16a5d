------------------------------- MODULE Tiles -------------------------------
(***************************************************************************)
(* The arithmetic of tile_axis_starts of src/infer/tile_runner.cpp: the    *)
(* sizes its arguments are clamped to, and the starts it returns.  Module  *)
(* TileAxis has the loop that computes them.                               *)
(***************************************************************************)
EXTENDS Integers, Sequences

AtLeast(x, y) == IF x >= y THEN x ELSE y      (* std::max *)
AtMost(x, y) == IF x <= y THEN x ELSE y       (* std::min *)

ClampedTile(length, tile_size) == AtMost(tile_size, length)

ClampedOverlap(length, tile_size, overlap) ==
  AtLeast(0, AtMost(overlap, ClampedTile(length, tile_size) - 1))

WholeTileStep(length, tile_size, overlap) ==   (* slip: the overlap is lost *)
  AtLeast(1, ClampedTile(length, tile_size))

StepOf(length, tile_size, overlap) ==
  AtLeast(1, ClampedTile(length, tile_size)
               - ClampedOverlap(length, tile_size, overlap))

LastStartOf(length, tile_size) ==
  AtLeast(0, length - ClampedTile(length, tile_size))

(* 0, then every multiple of the step before the last start, then that.     *)
AxisStarts(length, tile_size, overlap) ==
  IF length <= 0 \/ tile_size <= 0 THEN <<>>
  ELSE LET step == StepOf(length, tile_size, overlap)
           last == LastStartOf(length, tile_size)
           regular == (last + step - 1) \div step
       IN  [n \in 1 .. regular + 1 |-> IF n = regular + 1 THEN last
                                       ELSE (n - 1) * step]
=============================================================================
