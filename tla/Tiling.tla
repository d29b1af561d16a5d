------------------------------- MODULE Tiling -------------------------------
(***************************************************************************)
(* Tiled inference of src/infer/tile_runner.cpp: whether an input is run   *)
(* tiled, how its frame is cropped into windows, the run of the pipeline   *)
(* on one window after the other, and the merge of what the tiles answer,  *)
(* for every task.  A pixel of the frame is its own coordinates, so that a *)
(* tile, a mask or a detection tells what it shows.                        *)
(***************************************************************************)
EXTENDS Tiles, Suppression

CONSTANTS
  Images,        (* the values an input may hold under "image"             *)
  Options,       (* TileOptions with enabled = true                        *)
  Tasks,         (* the tasks run                                          *)
  Objects,       (* what a frame shows: sequence of [pixels, class_id]     *)
  IouThreshold   (* context.iou_threshold, in percent                      *)

(* A Frame or an ImageValue: its size, the length of a row of its data, as  *)
(* row_stride_bytes or the decoder says, and the rows of data there are.    *)
ImageType ==
  [kind : {"frame", "image"}, host : BOOLEAN, width : Int, height : Int,
   stride : Nat, rows : Nat]

ASSUME TilingAssumption ==
  /\ Images \subseteq ImageType
  /\ \A image \in Images : image.kind = "frame" => image.host
  /\ Options \subseteq [width : Int, height : Int, overlap_x : Int, overlap_y : Int]
  /\ Tasks \subseteq {"detection", "face_detection", "segmentation",
                     "classification", "pose", "facemesh"}
  /\ Objects \in Seq([pixels : SUBSET (Int \X Int), class_id : Nat])
  /\ \A n \in DOMAIN Objects : Objects[n].pixels # {}

VARIABLES
  image, options, task,   (* the arguments                                 *)
  stage,            (* where run_tiled_sync is                             *)
  windows,          (* the windows: origin, and the pixels of the tile     *)
  answers,          (* what each tile answered so far, or Absent           *)
  trace,            (* result.trace                                        *)
  gathered,         (* what the merge collected; Absent until there is some *)
  merged,           (* tiles merged so far                                 *)
  output            (* the item of result.output                           *)

args == <<image, options, task>>
vars == <<args, stage, windows, answers, trace, gathered, merged, output>>

Stages == {"called", "untiled", "running", "merging", "returned", "threw"}

(* No such item in an output, or one without elements: the merge cannot     *)
(* tell the two apart.                                                      *)
Absent == <<>>

Nothing == <<>>        (* a pixel no tile wrote: 0 in the code              *)
Padding == <<-1, -1>>  (* bytes between the rows of a strided image         *)

Box(width, height) == (0 .. width - 1) \X (0 .. height - 1)

-----------------------------------------------------------------------------
(* What lies in frame.data.                                                 *)
DataSize == image.stride * image.rows
Pixel(i) ==
  LET x == i % image.stride IN
  IF x < image.width THEN <<x, i \div image.stride>> ELSE Padding

(* find_tiled_source_frame: an ImageValue must be on the host with enough   *)
(* rows of data, a Frame is taken as it is.                                 *)
SourceFound ==
  image.kind = "image" =>
    /\ image.host
    /\ image.width > 0 /\ image.height > 0
    /\ DataSize > 0 /\ image.rows >= image.height

TileOptionsEnabled ==
  /\ options.width > 0 /\ options.height > 0
  /\ image.width > 0 /\ image.height > 0
  /\ DataSize > 0
  /\ image.width > options.width \/ image.height > options.height

ShouldRunTiled == SourceFound /\ TileOptionsEnabled

TileWidth == AtMost(options.width, image.width)
TileHeight == AtMost(options.height, image.height)

CropUnchecked == TRUE   (* slip: the size of the data is not looked at *)

(* crop_frame: rows are taken to follow each other without a gap; a frame   *)
(* with less data than that makes no tile.                                  *)
CropPossible == DataSize >= image.height * image.width

CropFrame(x, y) ==
  [p \in Box(TileWidth, TileHeight) |->
     Pixel((y + p[2]) * image.width + x + p[1])]

(* build_tile_windows, row by row.                                          *)
BuildTileWindows ==
  LET xs == AxisStarts(image.width, TileWidth, options.overlap_x)
      ys == AxisStarts(image.height, TileHeight, options.overlap_y)
      Across(n) == ((n - 1) % Len(xs)) + 1
      Down(n) == ((n - 1) \div Len(xs)) + 1
  IN  IF ~CropPossible THEN <<>>
      ELSE [n \in 1 .. Len(xs) * Len(ys) |->
              [x |-> xs[Across(n)], y |-> ys[Down(n)],
               tile |-> CropFrame(xs[Across(n)], ys[Down(n)])]]

-----------------------------------------------------------------------------
(* The model: what it answers when it is shown a tile, in the coordinates   *)
(* of the tile.  It sees of an object the pixels the tile has.              *)
Seen(tile, n) == {p \in DOMAIN tile : tile[p] \in Objects[n].pixels}

Least(S) == CHOOSE x \in S : \A y \in S : x <= y
Most(S) == CHOOSE x \in S : \A y \in S : x >= y
Column(pixels) == {p[1] : p \in pixels}
Row(pixels) == {p[2] : p \in pixels}

Corner(pixels) == [x |-> Least(Column(pixels)), y |-> Least(Row(pixels))]

Bounding(pixels) ==
  [x |-> Least(Column(pixels)), y |-> Least(Row(pixels)),
   width |-> Most(Column(pixels)) - Least(Column(pixels)) + 1,
   height |-> Most(Row(pixels)) - Least(Row(pixels)) + 1]

VisibleIn(tile) ==
  InOrder({n \in DOMAIN Objects : Seen(tile, n) # {}},
          {p \in (DOMAIN Objects) \X (DOMAIN Objects) : p[1] < p[2]})

DetectionOf(pixels, n) ==
  [box |-> Bounding(pixels), score |-> Cardinality(pixels),
   class_id |-> Objects[n].class_id, keypoints |-> <<Corner(pixels)>>]

(* The pixels of each class.                                                *)
ScoresOf(tile) ==
  [c \in 1 .. Most({Objects[n].class_id : n \in DOMAIN Objects}) + 1 |->
     Cardinality({p \in DOMAIN tile : \E n \in DOMAIN Objects :
                    Objects[n].class_id = c - 1 /\ tile[p] \in Objects[n].pixels})]

AnswerTo(tile) ==
  LET visible == VisibleIn(tile) IN
  CASE task \in {"detection", "face_detection"} ->
         [k \in DOMAIN visible |-> DetectionOf(Seen(tile, visible[k]), visible[k])]
    [] task = "segmentation" -> tile
    [] task = "classification" -> ScoresOf(tile)
    [] OTHER -> [k \in DOMAIN visible |-> Corner(Seen(tile, visible[k]))]

(* make_tile_input: the image of the input is replaced by the tile, on the  *)
(* host, an image of its own.                                               *)
MakeTileInput(n) == [kind |-> image.kind, host |-> TRUE, frame |-> windows[n].tile]

-----------------------------------------------------------------------------
Init ==
  /\ image \in Images
  /\ options \in Options
  /\ task \in Tasks
  /\ stage = "called"
  /\ windows = <<>>
  /\ answers = <<>>
  /\ trace = <<>>
  /\ gathered = Absent
  /\ merged = 0
  /\ output = Absent

RunUntiled ==
  /\ stage = "called"
  /\ ~ShouldRunTiled
  /\ stage' = "untiled"
  /\ UNCHANGED <<args, windows, answers, trace, gathered, merged, output>>

Build ==
  /\ stage = "called"
  /\ ShouldRunTiled
  /\ windows' = BuildTileWindows
  /\ stage' = IF windows' = <<>> THEN "returned" ELSE "running"
  /\ UNCHANGED <<args, answers, trace, gathered, merged, output>>

(* pipeline->run_sync on the next tile: it answers with what the tile shows *)
(* or has no result, such as one that failed.                               *)
RunTile ==
  /\ stage = "running"
  /\ Len(answers) < Len(windows)
  /\ LET n == Len(answers) + 1 IN
     /\ \E answer \in {AnswerTo(MakeTileInput(n).frame), Absent} :
          answers' = Append(answers, answer)
     /\ trace' = Append(trace, [tile |-> n - 1, sequence |-> n])
  /\ UNCHANGED <<args, stage, windows, gathered, merged, output>>

(* The pipeline throws: the tiles done before are lost with the result.     *)
TileThrows ==
  /\ stage = "running"
  /\ Len(answers) < Len(windows)
  /\ stage' = "threw"
  /\ UNCHANGED <<args, windows, answers, trace, gathered, merged, output>>

BeginMerge ==
  /\ stage = "running"
  /\ Len(answers) = Len(windows)
  /\ stage' = "merging"
  /\ UNCHANGED <<args, windows, answers, trace, gathered, merged, output>>

-----------------------------------------------------------------------------
(* merge_tile_outputs, one tile after the other.                            *)

PasteAtOrigin(n) ==   (* slip: the offset of the tile is lost *)
  LET base == IF gathered = Absent
              THEN [p \in Box(image.width, image.height) |-> Nothing]
              ELSE gathered
  IN  [p \in DOMAIN base |-> IF p \in DOMAIN answers[n] THEN answers[n][p] ELSE base[p]]

(* paste_mask_tile, after the canvas was made for the first mask.           *)
Paste(n) ==
  LET base == IF gathered = Absent
              THEN [p \in Box(image.width, image.height) |-> Nothing]
              ELSE gathered
      Local(p) == <<p[1] - windows[n].x, p[2] - windows[n].y>>
  IN  [p \in DOMAIN base |->
         IF Local(p) \in DOMAIN answers[n] THEN answers[n][Local(p)] ELSE base[p]]

(* translate_points.                                                        *)
TranslatePoints(points, n) ==
  [k \in DOMAIN points |->
     [x |-> points[k].x + windows[n].x, y |-> points[k].y + windows[n].y]]

TranslateBox(box, n) ==
  [x |-> box.x + windows[n].x, y |-> box.y + windows[n].y,
   width |-> box.width, height |-> box.height]

TranslateBoxesOnly(detections, n) ==   (* slip: the keypoints stay where they were *)
  [k \in DOMAIN detections |-> [detections[k] EXCEPT !.box = TranslateBox(@, n)]]

(* translate_detections.                                                    *)
TranslateDetections(detections, n) ==
  [k \in DOMAIN detections |->
     LET d == detections[k] IN
     [box |-> TranslateBox(d.box, n), score |-> d.score, class_id |-> d.class_id,
      keypoints |-> TranslatePoints(d.keypoints, n)]]

GatheredSoFar == IF gathered = Absent THEN <<>> ELSE gathered

(* The scores are added by class, over the longest row of scores so far.    *)
AddScores(n) ==
  LET scores == answers[n]
      before == IF gathered = Absent THEN [sum |-> <<>>, tiles |-> 0] ELSE gathered
      At(row, k) == IF k \in DOMAIN row THEN row[k] ELSE 0
  IN  [sum |-> [k \in 1 .. AtLeast(Len(before.sum), Len(scores)) |->
                  At(before.sum, k) + At(scores, k)],
       tiles |-> before.tiles + 1]

Gather(n) ==
  CASE task \in {"detection", "face_detection"} ->
         GatheredSoFar \o TranslateDetections(answers[n], n)
    [] task = "segmentation" -> Paste(n)
    [] task = "classification" -> AddScores(n)
    [] OTHER -> GatheredSoFar \o TranslatePoints(answers[n], n)

MergeTile ==
  /\ stage = "merging"
  /\ merged < Len(windows)
  /\ merged' = merged + 1
  /\ gathered' = IF answers[merged + 1] = Absent THEN gathered ELSE Gather(merged + 1)
  /\ UNCHANGED <<args, stage, windows, answers, trace, output>>

(* The class with the greatest mean over the tiles that had scores, the     *)
(* first of equal ones.  The division does not change which it is.          *)
BestOf(sum) ==
  CHOOSE k \in DOMAIN sum :
    /\ \A other \in DOMAIN sum : sum[k] >= sum[other]
    /\ \A other \in DOMAIN sum : sum[k] = sum[other] => k <= other

(* What is added to the output, if there is anything to add.                *)
MergeTileOutputs ==
  CASE task \in {"detection", "face_detection"} ->
         IF GatheredSoFar = <<>> THEN Absent
         ELSE NonMaximumSuppression(gathered, IouThreshold)
    [] task = "segmentation" -> gathered
    [] task = "classification" ->
         IF gathered = Absent THEN Absent
         ELSE [class_id |-> BestOf(gathered.sum) - 1, scores |-> gathered]
    [] OTHER -> IF GatheredSoFar = <<>> THEN Absent ELSE gathered

(* The aggregate entry goes to the front of the trace.                      *)
Return ==
  /\ stage = "merging"
  /\ merged = Len(windows)
  /\ output' = MergeTileOutputs
  /\ trace' = <<[tile |-> -1, sequence |-> 0]>> \o trace
  /\ stage' = "returned"
  /\ UNCHANGED <<args, windows, answers, gathered, merged>>

Next ==
  \/ RunUntiled \/ Build \/ RunTile \/ TileThrows
  \/ BeginMerge \/ MergeTile \/ Return

Spec == Init /\ [][Next]_vars

-----------------------------------------------------------------------------
TypeOK ==
  /\ image \in Images /\ options \in Options /\ task \in Tasks
  /\ stage \in Stages
  /\ Len(answers) <= Len(windows)
  /\ merged \in 0 .. Len(windows)

Packed == image.stride = image.width

Shown(n) ==
  {p \in Box(image.width, image.height) :
     /\ windows[n].x <= p[1] /\ p[1] < windows[n].x + TileWidth
     /\ windows[n].y <= p[2] /\ p[2] < windows[n].y + TileHeight}

Answered == {n \in 1 .. Len(windows) : answers[n] # Absent}

(* The merged mask of a packed frame has every pixel in its place: a pixel  *)
(* shows what the frame has there if a tile with a mask covers it and       *)
(* nothing otherwise, however the tiles overlap and whichever have no mask. *)
MaskInPlace ==
  stage = "returned" /\ task = "segmentation" /\ output # Absent /\ Packed =>
    \A p \in Box(image.width, image.height) :
      output[p] = IF \E n \in Answered : p \in Shown(n) THEN p ELSE Nothing

(* What the tiles of a packed frame show of the objects, in the frame.      *)
Sight(s) == Shown(s[1]) \cap Objects[s[2]].pixels
Sights == {s \in Answered \X (DOMAIN Objects) : Sight(s) # {}}

(* The detections of a packed frame are those of its tiles, boxes and       *)
(* keypoints where the frame has what they show; none of them is reported   *)
(* twice, and one is left out only for a better one of its class that       *)
(* overlaps it, also when the two come from different tiles.                *)
DetectionsMerged ==
  stage = "returned" /\ task \in {"detection", "face_detection"} /\ windows # <<>> /\ Packed =>
    LET seen == {DetectionOf(Sight(s), s[2]) : s \in Sights}
        kept == IF output = Absent THEN <<>> ELSE output
    IN  /\ \A n \in DOMAIN kept : kept[n] \in seen
        /\ \A m, n \in DOMAIN kept :
             m # n => ~Suppresses(kept[m], kept[n], IouThreshold)
        /\ \A d \in seen : \E n \in DOMAIN kept :
             \/ kept[n] = d
             \/ kept[n].score >= d.score /\ Suppresses(kept[n], d, IouThreshold)

(* No tile is cropped beyond the data of the frame.                         *)
CropsInsideData ==
  \A n \in 1 .. Len(windows) :
    LET w == windows[n] IN
    w.x + TileWidth + (w.y + TileHeight - 1) * image.width <= DataSize

(* What docs/ARCHITECTURE.md:119 and docs/STATUS.md:104 require of a tiled  *)
(* source.                                                                  *)
TiledSourceIsPacked == stage \in {"running", "merging"} => Packed
=============================================================================
