------------------------------ MODULE MCTiling ------------------------------
(* Tiles, in two halves that never run in one behaviour.  One axis: up to   *)
(* 14 pixels, all tiles and overlaps that make a difference, the refused    *)
(* arguments among them.  Tiled runs: small frames and images, smaller than *)
(* a tile, larger along one axis or both, with data missing, on the device, *)
(* and with padded rows.                                                    *)
EXTENDS Tiling, TileAxis

MCLengths == -1 .. 14
MCTileSizes == -1 .. 8
MCOverlaps == -1 .. 8

Img(kind, host, width, height, stride, rows) ==
  [kind |-> kind, host |-> host, width |-> width, height |-> height,
   stride |-> stride, rows |-> rows]

MCImages ==
  {Img("frame", TRUE, w, h, w, r) : w \in {0, 2, 5}, h \in {2, 4}, r \in {2, 4}}
    \cup {Img("image", host, w, 4, s, r) :
            host \in BOOLEAN, w \in {2, 5}, s \in {5, 6}, r \in {3, 4}}

MCPadded == {Img("image", TRUE, 5, 4, 6, 4)}

(* One object to the left, one of its class that overlaps it, and one of    *)
(* another class at the right.                                              *)
MCObjects ==
  <<[pixels |-> Box(2, 2), class_id |-> 0],
    [pixels |-> (1 .. 2) \X (1 .. 2), class_id |-> 0],
    [pixels |-> (3 .. 4) \X (0 .. 3), class_id |-> 1]>>

MCTasks == {"detection", "segmentation", "classification", "pose"}
MCMasks == {"segmentation"}

MCOptions == [width : {0, 2, 3}, height : {2, 3}, overlap_x : {-1, 1, 7}, overlap_y : {0, 1}]

-----------------------------------------------------------------------------
(* Phase "parked": no axis is computed, the tiled run goes on.  Beside an   *)
(* axis stands one tiled run that is never begun.                           *)
Parked ==
  image = Img("frame", TRUE, 2, 2, 2, 2) /\ task = "pose"
    /\ options = [width |-> 2, height |-> 2, overlap_x |-> 1, overlap_y |-> 0]

MCInit ==
  /\ Init
  /\ \/ Parked /\ AxisInit
     \/ /\ length = 0 /\ tile_size = 0 /\ overlap = 0
        /\ phase = "parked" /\ starts = <<>> /\ start = 0

MCNext ==
  \/ phase = "parked" /\ Next /\ UNCHANGED axisVars
  \/ AxisNext /\ UNCHANGED vars

MCSpec == MCInit /\ [][MCNext]_<<vars, axisVars>>
=============================================================================
