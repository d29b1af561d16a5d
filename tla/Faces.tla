-------------------------------- MODULE Faces --------------------------------
(***************************************************************************)
(* The face detection task around the model                                *)
(* (src/infer/tasks/face_detection/face_detection_pipeline.cpp): the input *)
(* it prepares, the decoding of SCRFD outputs, three to five levels of     *)
(* scores, boxes and landmarks, and of plain rows.  A tensor has a shape   *)
(* and data numbered from 0.                                               *)
(***************************************************************************)
EXTENDS TaskValues, Suppression

ScrfdFamilies == {"", "scrfd", "scrfd_raw_bgr"}

(* resolve_scrfd_input_shape with the size a model of open size gets.       *)
ScrfdShape(shape, default) ==
  LET told == IF Len(shape) = 4 THEN shape ELSE <<1, 3, default, default>>
      open == told[3] <= 0 \/ told[4] <= 0
  IN  <<IF told[1] > 0 THEN told[1] ELSE 1, 3,
        IF open THEN default ELSE told[3], IF open THEN default ELSE told[4]>>

KeepsAspect(family) == family # "scrfd_raw_bgr"

(* The part of the input the frame is scaled to, in its upper left corner.  *)
Resized(f, iw, ih, family) ==
  LET tall == f.height * iw > ih * f.width
      w == IF KeepsAspect(family) /\ tall THEN (ih * f.width) \div f.height ELSE iw
      h == IF KeepsAspect(family) /\ ~tall THEN (iw * f.height) \div f.width ELSE ih
  IN  <<AtLeast(1, w), AtLeast(1, h)>>

(* build_scrfd_input.  A frame of one channel is copied into a matrix of    *)
(* three, which leaves that matrix as it was: the model is shown nothing.   *)
BuildScrfdInput(f, shape, family) ==
  IF Len(shape) = 4 /\ shape[2] = 3 /\ shape[3] > 0 /\ shape[4] > 0 /\ HasMat(f)
  THEN LET size == Resized(f, shape[4], shape[3], family) IN
       [type |-> "scrfd", shows |-> f.channels = 3, width |-> size[1], height |-> size[2],
        input_width |-> shape[4], input_height |-> shape[3]]
  ELSE NoValue

(* From the input back to the frame: division by det_scale_x, det_scale_y.  *)
AcrossBack(v, in, f) == (v * f.width) \div in.width
DownBack(v, in, f) == (v * f.height) \div in.height

-----------------------------------------------------------------------------
(* tensor_rows, tensor_cols, tensor_value.                                  *)
TensorRows(t) ==
  CASE Len(t.shape) \in {1, 2} -> AtLeast(0, t.shape[1])
    [] Len(t.shape) = 3 -> AtLeast(0, t.shape[2])
    [] OTHER -> 0

TensorCols(t) ==
  CASE Len(t.shape) = 1 -> 1
    [] Len(t.shape) \in {2, 3} -> AtLeast(0, t.shape[Len(t.shape)])
    [] OTHER -> 0

TensorValue(t, row, col) ==
  Element(t, row * TensorCols(t) + col)

Strides == <<8, 16, 32, 64, 128>>

(* The number of outputs tells how many levels there are, whether there are *)
(* landmarks, and how many anchors share a cell.                            *)
Levels(count) == IF count \in {10, 15} THEN 5 ELSE 3
HasLandmarks(count) == count \in {9, 15}
Anchors(count) == IF Levels(count) = 3 THEN 2 ELSE 1

(* The cell of the feature map a row, counted from 0, belongs to.           *)
AnchorCenter(row, count, level, in) ==
  LET across == AtLeast(1, in.input_width \div Strides[level])
      cell == row \div Anchors(count)
  IN  <<(cell % across) * Strides[level], (cell \div across) * Strides[level]>>

(* decode_scrfd_box and the landmarks of a row.                             *)
ScrfdCandidate(outputs, level, row, in, f) ==
  LET count == Len(outputs)
      levels == Levels(count)
      c == AnchorCenter(row, count, level, in)
      Box(col) == TensorValue(outputs[level + levels], row, col) * Strides[level]
      Point(n) == [m \in 0 .. 1 |->
        TensorValue(outputs[level + 2 * levels], row, 2 * n + m) * Strides[level]]
  IN  [box |-> ClampedBox(AcrossBack(c[1] - Box(0), in, f), DownBack(c[2] - Box(1), in, f),
                         AcrossBack(c[1] + Box(2), in, f), DownBack(c[2] + Box(3), in, f), f),
       score |-> TensorValue(outputs[level], row, 0), class_id |-> 0,
       keypoints |->
         IF ~HasLandmarks(count) THEN <<>>
         ELSE [n \in 1 .. 5 |->
                 <<Clamp(AcrossBack(c[1] + Point(n - 1)[0], in, f), 0, f.width),
                   Clamp(DownBack(c[2] + Point(n - 1)[1], in, f), 0, f.height)>>]]

(* A level whose tensors do not fit together is skipped.                    *)
LevelFits(outputs, level) ==
  LET count == Len(outputs)
      levels == Levels(count)
      rows == TensorRows(outputs[level])
  IN  /\ rows > 0
      /\ TensorRows(outputs[level + levels]) = rows
      /\ TensorCols(outputs[level + levels]) >= 4
      /\ HasLandmarks(count) =>
           /\ TensorRows(outputs[level + 2 * levels]) = rows
           /\ TensorCols(outputs[level + 2 * levels]) >= 10

HasArea(candidate) == candidate.box.width > 0 /\ candidate.box.height > 0

(* The rows, of the levels that fit, with score enough.                     *)
ScrfdRows(outputs, confidence) ==
  {p \in UNION {{level} \X (0 .. TensorRows(outputs[level]) - 1) :
                  level \in {l \in 1 .. Levels(Len(outputs)) : LevelFits(outputs, l)}} :
     TensorValue(outputs[p[1]], p[2], 0) >= confidence}

(* parse_scrfd_outputs.                                                     *)
ParseScrfd(outputs, in, f, confidence) ==
  LET Parsed(p) == ScrfdCandidate(outputs, p[1], p[2], in, f)
      taken == {p \in ScrfdRows(outputs, confidence) : HasArea(Parsed(p))}
  IN  IF Len(outputs) \notin {6, 9, 10, 15} THEN <<>>
      ELSE CandidatesFrom([p \in taken |-> Parsed(p)])

-----------------------------------------------------------------------------
(* parse_face_detection_output_tensor, for a family of another name: rows   *)
(* of corners or of centre and size, a score, and landmarks if wide enough. *)
RowLayout(shape) ==
  LET rank == Len(shape)
      a == IF rank \in {2, 3} THEN AtLeast(1, shape[rank - 1]) ELSE 1
      b == IF rank \in {2, 3} THEN AtLeast(1, shape[rank]) ELSE 1
      Straight == [boxes |-> a, attrs |-> b, transposed |-> FALSE]
      Transposed == [boxes |-> b, attrs |-> a, transposed |-> TRUE]
  IN  CASE rank = 3 /\ b >= 5 -> Straight
        [] rank = 3 /\ b < 5 /\ a >= 5 -> Transposed
        [] rank = 2 /\ a >= 5 /\ b >= 5 -> IF a <= b THEN Transposed ELSE Straight
        [] OTHER -> [boxes |-> 0, attrs |-> 0, transposed |-> FALSE]

RowsFit(layout, size) ==
  layout.boxes > 0 /\ layout.attrs >= 5 /\ size >= layout.boxes * layout.attrs

RowIndex(layout, row, attr) ==
  IF layout.transposed THEN attr * layout.boxes + row
  ELSE row * layout.attrs + attr

(* decode_face_box.                                                         *)
DecodeFaceBox(a, b, c, d, f) ==
  LET parts == a <= 2 /\ b <= 2 /\ c <= 2 /\ d <= 2
      sx == IF parts THEN f.width ELSE 1
      sy == IF parts THEN f.height ELSE 1
      corners == c * sx > a * sx /\ d * sy > b * sy
  IN  IF corners THEN ClampedBox(a * sx, b * sy, c * sx, d * sy, f)
      ELSE ClampedBox(((2 * a - c) * sx) \div 2, ((2 * b - d) * sy) \div 2,
                     ((2 * a + c) * sx) \div 2, ((2 * b + d) * sy) \div 2, f)

(* append_keypoints: pairs from the sixth attribute on.                     *)
RowKeypoints(tensor, layout, row, f) ==
  LET At(attr) == Element(tensor, RowIndex(layout, row, attr))
      Point(x, y) ==
        LET parts == x <= 2 /\ y <= 2 IN
        <<Clamp(IF parts THEN x * f.width ELSE x, 0, f.width),
          Clamp(IF parts THEN y * f.height ELSE y, 0, f.height)>>
  IN  IF layout.attrs < 15 THEN <<>>
      ELSE [n \in 1 .. (layout.attrs - 5) \div 2 |-> Point(At(3 + 2 * n), At(4 + 2 * n))]

ParseFaceRow(tensor, layout, row, f) ==
  LET At(attr) == Element(tensor, RowIndex(layout, row, attr)) IN
  [box |-> DecodeFaceBox(At(0), At(1), At(2), At(3), f),
   score |-> At(4), class_id |-> 0,
   keypoints |-> RowKeypoints(tensor, layout, row, f)]

(* The rows of the tensors that have data for all of them.                  *)
FaceRows(outputs) ==
  UNION {{n} \X (0 .. RowLayout(outputs[n].shape).boxes - 1) :
           n \in {m \in DOMAIN outputs :
                    outputs[m].size # 0 /\ RowsFit(RowLayout(outputs[m].shape), outputs[m].size)}}

ParseFaceRows(outputs, f, confidence) ==
  LET Parsed(p) == ParseFaceRow(outputs[p[1]], RowLayout(outputs[p[1]].shape), p[2], f)
      taken == {p \in FaceRows(outputs) :
                  Parsed(p).score >= confidence /\ HasArea(Parsed(p))}
  IN  CandidatesFrom([p \in taken |-> Parsed(p)])

(* The elements it reads.                                                   *)
FaceElements(layout, size) ==
  IF size = 0 \/ ~RowsFit(layout, size) THEN {}
  ELSE {RowIndex(layout, row, attr) : row \in 0 .. layout.boxes - 1,
                                      attr \in 0 .. layout.attrs - 1}

FaceReads(tensor) == FaceElements(RowLayout(tensor.shape), tensor.size)

(* The candidates of all outputs, by the family of the model.               *)
FaceCandidates(family, outputs, in, f, confidence) ==
  IF family \in ScrfdFamilies THEN ParseScrfd(outputs, in, f, confidence)
  ELSE ParseFaceRows(outputs, f, confidence)

(* The shape run_sync prepares the input in.                                *)
FaceShape(family, shape, f, default) ==
  IF family \in ScrfdFamilies THEN ScrfdShape(shape, default) ELSE ResolveNchwShape(shape, f)
=============================================================================
