------------------------------ MODULE HostTasks ------------------------------
(***************************************************************************)
(* The tasks that prepare their input on the host and read the first       *)
(* output of the model only: classification, segmentation, pose and        *)
(* facemesh (src/infer/tasks).  Each is a pure function of that output;    *)
(* an element is read through Element, and the elements read are listed    *)
(* beside each decoder.  An output is a sequence of named fields.          *)
(***************************************************************************)
EXTENDS TaskValues

Field(name, value) == [name |-> name, value |-> value]

Elements(t) == [n \in 1 .. t.size |-> Element(t, n - 1)]

-----------------------------------------------------------------------------
(* build_top1_classification: the first of the largest scores.              *)
Top1(t) ==
  CHOOSE best \in 0 .. t.size - 1 :
    /\ \A n \in 0 .. t.size - 1 : Element(t, n) <= Element(t, best)
    /\ \A n \in 0 .. best - 1 : Element(t, n) < Element(t, best)

Classify(outputs, labels) ==
  IF outputs = <<>> \/ Head(outputs).size = 0 THEN <<>>
  ELSE LET t == Head(outputs)
           class == Top1(t)
       IN  <<Field("classification",
                   [class_id |-> class, score |-> Element(t, class),
                    label |-> IF class < Len(labels) THEN labels[class + 1] ELSE "" ]),
             Field("scores", Elements(t))>>

-----------------------------------------------------------------------------
(* build_argmax_mask: the classes by pixel of the model's output, which the *)
(* frame's mask repeats; no mask if the output is not four dimensions full. *)
HasMask(t, f) ==
  /\ f.width > 0 /\ f.height > 0 /\ Len(t.shape) = 4 /\ t.size > 0
  /\ \A n \in 2 .. 4 : t.shape[n] > 0
  /\ t.size >= t.shape[2] * t.shape[3] * t.shape[4]

Plane(t) == t.shape[3] * t.shape[4]

(* Where the classes of pixel (x, y) of the frame are, nearest neighbour.   *)
MaskSource(t, f, x, y) ==
  ((y * t.shape[3]) \div f.height) * t.shape[4] + (x * t.shape[4]) \div f.width

ArgMax(t, offset) ==
  LET Score(channel) == Element(t, channel * Plane(t) + offset)
      channels == 0 .. t.shape[2] - 1
      best == CHOOSE c \in channels :
                /\ \A d \in channels : Score(d) <= Score(c)
                /\ \A d \in 0 .. c - 1 : Score(d) < Score(c)
  IN  Clamp(best, 0, 255)

ArgMaxMask(t, f) ==
  [x \in 0 .. f.width - 1, y \in 0 .. f.height - 1 |-> ArgMax(t, MaskSource(t, f, x, y))]

SegmentWithoutMask(outputs, f) ==   (* slip: the empty mask is not noticed *)
  IF outputs = <<>> THEN <<>>
  ELSE (IF ~HasMask(Head(outputs), f) THEN <<>>
        ELSE <<Field("mask", ArgMaxMask(Head(outputs), f))>>)
       \o <<Field("logits", Head(outputs))>>

(* run_sync: no mask, no output.                                            *)
Segment(outputs, f) ==
  IF outputs = <<>> \/ ~HasMask(Head(outputs), f) THEN <<>>
  ELSE <<Field("mask", ArgMaxMask(Head(outputs), f)), Field("logits", Head(outputs))>>

MaskReads(t, f) ==
  IF ~HasMask(t, f) THEN {}
  ELSE {channel * Plane(t) + offset : channel \in 0 .. t.shape[2] - 1,
                                      offset \in 0 .. Plane(t) - 1}

-----------------------------------------------------------------------------
(* resolve_keypoint_count (strides <<3, 2>>) and resolve_landmark_count     *)
(* (strides <<4, 3, 2>>): how many numbers a point takes, by the last       *)
(* dimension or else by what divides the number of elements; 0: no points.  *)
PointStride(t, strides) ==
  LET last == IF t.shape = <<>> THEN 0 ELSE t.shape[Len(t.shape)]
      dividing == {n \in DOMAIN strides : t.size % strides[n] = 0}
  IN  IF t.size = 0 THEN 0
      ELSE IF \E n \in DOMAIN strides : strides[n] = last THEN last
      ELSE IF dividing = {} THEN 0
      ELSE strides[CHOOSE n \in dividing : \A m \in dividing : n <= m]

PointCount(t, strides) ==
  IF PointStride(t, strides) = 0 THEN 0 ELSE t.size \div PointStride(t, strides)

(* build_keypoints and build_landmarks: x and y are first, the score is the *)
(* last number of the widest points only.                                   *)
Points(t, strides) ==
  [n \in 1 .. PointCount(t, strides) |->
     LET offset == (n - 1) * PointStride(t, strides) IN
     <<Element(t, offset), Element(t, offset + 1)>>]

PointScores(t, strides) ==
  IF PointStride(t, strides) < strides[1] THEN <<>>
  ELSE [n \in 1 .. PointCount(t, strides) |-> Element(t, n * strides[1] - 1)]

PointReads(t, strides) ==
  {(n - 1) * PointStride(t, strides) + m :
     n \in 1 .. PointCount(t, strides), m \in 0 .. PointStride(t, strides) - 1}

(* The output of pose (named "keypoints") and of facemesh ("landmarks").    *)
PointOutput(outputs, name, strides) ==
  IF outputs = <<>> \/ PointCount(Head(outputs), strides) = 0 THEN <<>>
  ELSE LET t == Head(outputs)
           scores == PointScores(t, strides)
       IN  <<Field(name, Points(t, strides))>>
           \o (IF scores = <<>> THEN <<>> ELSE <<Field("scores", scores)>>)
           \o <<Field("raw", t)>>
=============================================================================
