-------------------------------- MODULE Yolo --------------------------------
(***************************************************************************)
(* The detection task around the model (src/infer/tasks/detection): which  *)
(* input is preprocessed and where, the letterbox, and the decoding of the *)
(* model's rows into candidates.  Pixels and coordinates are whole         *)
(* numbers; the scale of the letterbox is a fraction.                      *)
(***************************************************************************)
EXTENDS TaskValues, Suppression

(* select_yolo_preprocess_source.                                           *)
SourceOf(image, frame) ==
  IF Found(image)
  THEN IF HasValidHostLayout(image) THEN "host_cpu"
       ELSE IF image.device = "cuda" /\ HasValidDeviceView(image) THEN "cuda_device"
       ELSE "unsupported"
  ELSE IF Found(frame) THEN "host_cpu" ELSE "unsupported"

SourcePath(items) ==
  SourceOf(Find(items, "image", "image"), Find(items, "image", "frame"))

SourceValue(items) ==
  LET image == Find(items, "image", "image") IN
  IF Found(image) THEN image ELSE Find(items, "image", "frame")

(* The shape preprocess_yolo gets; shape is what the model tells, or <<>>.  *)
RequestShape(shape, f) ==
  ResolveInputShape(IF shape = <<>> THEN <<1, 3, f.height, f.width>> ELSE shape, f)

Round(a, b) == (2 * a + b) \div (2 * b)

Padding(input, resized) == (input - resized) \div 2

(* The geometry of preprocess_yolo_cpu and of the kernel, which is the same.*)
Letterbox(f, shape) ==
  LET iw == shape[4]
      ih == shape[3]
      byWidth == iw * f.height <= ih * f.width
      num == IF byWidth THEN iw ELSE ih
      den == IF byWidth THEN f.width ELSE f.height
      rw == AtLeast(1, Round(f.width * num, den))
      rh == AtLeast(1, Round(f.height * num, den))
  IN  [type |-> "letterbox", num |-> num, den |-> den, width |-> rw, height |-> rh,
       pad_x |-> Padding(iw, rw), pad_y |-> Padding(ih, rh),
       input_width |-> iw, input_height |-> ih]

CanLetterbox(shape) == IsNchw(shape) /\ shape[3] > 0 /\ shape[4] > 0

(* copy_cuda_image_to_host_frame packs the rows, of the first plane only.   *)
CopyCudaImage(im, cuda) ==
  IF HasValidDeviceView(im) /\ CanCopy(cuda) /\ PackedStride(im) > 0
  THEN HostFrame(im, PackedStride(im), PackedStride(im) * im.height)
  ELSE NoValue

(* preprocess_yolo_cuda: by the kernel, or on the host after a copy.        *)
PreprocessCuda(im, shape, cuda) ==
  IF cuda.kernels
  THEN IF /\ cuda.works /\ CanLetterbox(shape)
          /\ im.format = "nv12" \/ im.channels = 3
       THEN Letterbox(im, shape) ELSE NoValue
  ELSE IF Found(CopyCudaImage(im, cuda)) /\ CanLetterbox(shape)
       THEN Letterbox(im, shape) ELSE NoValue

(* build_detection_request: a letterbox, or nothing and an error message.   *)
Preprocess(path, source, resolved, cuda) ==
  IF path = "cuda_device" THEN PreprocessCuda(source, resolved, cuda)
  ELSE IF CanLetterbox(resolved) /\ HasMat(source)
       THEN Letterbox(source, resolved) ELSE NoValue

RequestFrom(path, source, shape, cuda) ==
  IF path = "unsupported" THEN NoValue
  ELSE Preprocess(path, source, RequestShape(shape, source), cuda)

BuildRequest(items, shape, cuda) ==
  RequestFrom(SourcePath(items), SourceValue(items), shape, cuda)

-----------------------------------------------------------------------------
(* parse_yolo_output_tensor: which dimension counts the boxes.              *)
LayoutOf(a, b) ==
  IF a < 5 \/ b < 5 THEN [boxes |-> 0, attrs |-> 0, transposed |-> FALSE]
  ELSE IF a <= b THEN [boxes |-> b, attrs |-> a, transposed |-> TRUE]
  ELSE [boxes |-> a, attrs |-> b, transposed |-> FALSE]

YoloLayout(shape) ==
  LET rank == Len(shape) IN
  IF rank \in {2, 3} THEN LayoutOf(AtLeast(1, shape[rank - 1]), AtLeast(1, shape[rank]))
  ELSE LayoutOf(1, 1)

IndexSwapped(layout, row, attr) ==   (* slip: the two layouts are mixed up *)
  IF layout.transposed THEN row * layout.boxes + attr
  ELSE row * layout.attrs + attr

(* access: the element of attribute attr, counted from 0, of a row.         *)
YoloIndex(layout, row, attr) ==
  IF layout.transposed THEN attr * layout.boxes + row
  ELSE row * layout.attrs + attr

(* A row whose four numbers are at most 2 is taken to be in parts of the    *)
(* model's input.                                                           *)
LooksNormalized(cx, cy, w, h) == cx <= 2 /\ cy <= 2 /\ w <= 2 /\ h <= 2

DecodeKeepingPadding(cx, cy, w, h, lb, f) ==   (* slip: the padding stays *)
  LET Back(v) == (v * lb.den) \div (2 * lb.num) IN
  ClampedBox(Back(2 * cx - w), Back(2 * cy - h), Back(2 * cx + w), Back(2 * cy + h), f)

(* decode_yolo_box, back from the letterbox into the frame.                 *)
DecodeYoloBox(cx, cy, w, h, lb, f) ==
  LET normalized == LooksNormalized(cx, cy, w, h)
      sx == IF normalized THEN lb.input_width ELSE 1
      sy == IF normalized THEN lb.input_height ELSE 1
      BackX(v) == ((v - 2 * lb.pad_x) * lb.den) \div (2 * lb.num)
      BackY(v) == ((v - 2 * lb.pad_y) * lb.den) \div (2 * lb.num)
  IN  ClampedBox(BackX((2 * cx - w) * sx), BackY((2 * cy - h) * sy),
                 BackX((2 * cx + w) * sx), BackY((2 * cy + h) * sy), f)

(* The classes of a row: the first of the highest scores above 0 wins.      *)
BestClass(score, attrs) ==
  LET best == {c \in 0 .. attrs - 5 :
                 /\ score[c] > 0
                 /\ \A d \in 0 .. attrs - 5 : score[d] <= score[c]}
  IN  IF best = {} THEN -1 ELSE CHOOSE c \in best : \A d \in best : c <= d

(* A row as a candidate, before the threshold; class -1 is none.            *)
YoloCandidate(box, class, score) ==
  [box |-> box, class_id |-> class, score |-> IF class < 0 THEN 0 ELSE score[class],
   keypoints |-> <<>>]

RowScores(tensor, layout, row) ==
  [c \in 0 .. layout.attrs - 5 |-> Element(tensor, YoloIndex(layout, row, 4 + c))]

ParseRow(tensor, layout, row, lb, f) ==
  LET At(attr) == Element(tensor, YoloIndex(layout, row, attr))
      Candidate(score) ==
        YoloCandidate(DecodeYoloBox(At(0), At(1), At(2), At(3), lb, f),
                      BestClass(score, layout.attrs), score)
  IN  Candidate(RowScores(tensor, layout, row))

Taken(candidate, confidence) ==
  /\ candidate.class_id >= 0 /\ candidate.score >= confidence
  /\ candidate.box.width > 0 /\ candidate.box.height > 0

YoloElements(layout) ==
  {YoloIndex(layout, row, attr) : row \in 0 .. layout.boxes - 1, attr \in 0 .. layout.attrs - 1}

(* The elements it reads: the size of the data is not asked for.            *)
YoloReads(tensor) ==
  IF tensor.size = 0 THEN {} ELSE YoloElements(YoloLayout(tensor.shape))

-----------------------------------------------------------------------------
(* materialize_host_outputs: one output that cannot be copied spoils all.   *)
HostOutputs(outputs, cuda) ==
  LET Host(t) == IF t.device = "host" THEN t
                 ELSE IF t.dtype = "float32" THEN MaterializeHostTensor(t, cuda) ELSE NoValue
  IN  IF \E n \in DOMAIN outputs : ~Found(Host(outputs[n])) THEN NoValue
      ELSE [type |-> "outputs", tensors |-> [n \in DOMAIN outputs |-> Host(outputs[n])]]

(* The rows of the tensors that have data.                                  *)
YoloRows(outputs) ==
  UNION {{n} \X (0 .. YoloLayout(outputs[n].shape).boxes - 1) :
           n \in {m \in DOMAIN outputs : outputs[m].size # 0}}

(* postprocess_yolo_detections up to the suppression, with                  *)
(* parse_yolo_output_tensor for every output.                               *)
YoloCandidates(outputs, lb, f, confidence) ==
  LET Parsed(p) == ParseRow(outputs[p[1]], YoloLayout(outputs[p[1]].shape), p[2], lb, f)
      taken == {p \in YoloRows(outputs) : Taken(Parsed(p), confidence)}
  IN  CandidatesFrom([p \in taken |-> Parsed(p)])
=============================================================================
