------------------------------ MODULE Detectors ------------------------------
(***************************************************************************)
(* The models outside of the library, as far as the runs need them: a      *)
(* detector that sees the objects of the frame where the copy into a       *)
(* matrix and the preprocessing have put them in its input, and answers in *)
(* the layouts that the pipelines decode.  An object has a box in the      *)
(* frame, a class_id and a score; seen are the objects as the matrix shows *)
(* them.                                                                   *)
(***************************************************************************)
EXTENDS Yolo, Faces

(* What frame_to_mat_copy makes of the frame: an object is seen where its   *)
(* pixels come to lie, in the box around them, and not at all when none is  *)
(* in the matrix.  A frame that is not copied is read by its own rows.      *)
InBox(pixel, b) ==
  pixel[1] \in b.x .. b.x + b.width - 1 /\ pixel[2] \in b.y .. b.y + b.height - 1

ShownOf(object, f) ==
  {p \in (0 .. f.width - 1) \X (0 .. f.height - 1) :
     InBox(ShownPixel(f, p[1], p[2]), object.box)}

Least(S) == CHOOSE n \in S : \A m \in S : n <= m
Greatest(S) == CHOOSE n \in S : \A m \in S : n >= m

BoxAround(xs, ys) ==
  [x |-> Least(xs), y |-> Least(ys), width |-> Greatest(xs) - Least(xs) + 1,
   height |-> Greatest(ys) - Least(ys) + 1]

SeenObject(object, pixels) ==
  IF pixels = {} THEN [object EXCEPT !.score = 0]
  ELSE [object EXCEPT !.box = BoxAround({p[1] : p \in pixels}, {p[2] : p \in pixels})]

SeenIn(objects, f) ==
  IF ~Found(f) \/ PackedAsMat(f) THEN objects
  ELSE [n \in DOMAIN objects |-> SeenObject(objects[n], ShownOf(objects[n], f))]

-----------------------------------------------------------------------------
(* YOLO: a row is centre, size and the score of each of two classes; rows   *)
(* beyond the objects are empty.                                            *)
Placed(object, lb) ==
  LET b == object.box
      Across(v) == (v * lb.num) \div (2 * lb.den)
  IN  <<Across(2 * b.x + b.width) + lb.pad_x, Across(2 * b.y + b.height) + lb.pad_y,
        Across(2 * b.width), Across(2 * b.height)>>

DetectorRow(object, lb) ==
  Placed(object, lb)
  \o [c \in 1 .. 2 |-> IF object.class_id = c - 1 THEN object.score ELSE 0]

DetectorTensor(scene, seen, lb) ==
  LET rows == scene.rows
      Value(row, attr) ==
        IF row < Len(seen) THEN DetectorRow(seen[row + 1], lb)[attr + 1] ELSE 0
  IN  [type |-> "tensor", name |-> "output0", dtype |-> "float32",
       device |-> scene.device, view |-> IF scene.device = "host" THEN 0 ELSE rows * 6,
       shape |-> IF scene.transposed THEN <<1, 6, rows>> ELSE <<1, rows, 6>>,
       size |-> IF scene.device = "host" THEN rows * 6 ELSE 0,
       data |-> [n \in 0 .. rows * 6 - 1 |->
                   IF scene.transposed THEN Value(n % rows, n \div rows)
                   ELSE Value(n \div 6, n % 6)]]

-----------------------------------------------------------------------------
(* SCRFD: an object belongs to the anchor at its upper left corner; the box *)
(* is the distances to its sides and every landmark its right upper corner, *)
(* in strides.                                                              *)
Scaled(object, in, f) ==
  LET b == object.box IN
  [x |-> (b.x * in.width) \div f.width, y |-> (b.y * in.height) \div f.height,
   width |-> (b.width * in.width) \div f.width, height |-> (b.height * in.height) \div f.height]

AnchorRow(object, count, level, in, f) ==
  LET b == Scaled(object, in, f)
      across == in.input_width \div Strides[level]
  IN  Anchors(count) * ((b.y \div Strides[level]) * across + b.x \div Strides[level])

LevelTensor(rows, cols, data) ==
  [type |-> "tensor", name |-> "level", dtype |-> "float32", device |-> "host", view |-> 0,
   shape |-> <<1, rows, cols>>, size |-> rows * cols,
   data |-> [n \in 0 .. rows * cols - 1 |-> data[n \div cols][(n % cols) + 1]]]

(* scores, then boxes, then landmarks, each for every level.                *)
ScrfdAnswers(scene, seen, in, f) ==
  LET count == scene.outputs
      levels == Levels(count)
      Rows(level) == Anchors(count) * (in.input_width \div Strides[level])
                                    * (in.input_height \div Strides[level])
      At(row, level) ==
        IF level # 1 \/ ~in.shows THEN {}
        ELSE {n \in DOMAIN seen : AnchorRow(seen[n], count, level, in, f) = row}
      Seen(row, level) == seen[CHOOSE n \in At(row, level) : TRUE]
      Score(row, level) == <<IF At(row, level) = {} THEN 0 ELSE Seen(row, level).score>>
      Sides(row, level) ==
        IF At(row, level) = {} THEN <<0, 0, 0, 0>>
        ELSE LET b == Scaled(Seen(row, level), in, f) IN
             <<0, 0, b.width \div Strides[level], b.height \div Strides[level]>>
      Marks(row, level) == [m \in 1 .. 10 |-> IF m % 2 = 1 THEN Sides(row, level)[3] ELSE 0]
      Of(level, kind) ==
        CASE kind = 0 -> LevelTensor(Rows(level), 1, [r \in 0 .. Rows(level) - 1 |-> Score(r, level)])
          [] kind = 1 -> LevelTensor(Rows(level), 4, [r \in 0 .. Rows(level) - 1 |-> Sides(r, level)])
          [] OTHER -> LevelTensor(Rows(level), 10, [r \in 0 .. Rows(level) - 1 |-> Marks(r, level)])
  IN  [n \in 1 .. count |-> Of(((n - 1) % levels) + 1, (n - 1) \div levels)]

(* A face detector with plain rows: corners or centre and size, a score.    *)
RowAnswers(scene, seen, in, f) ==
  LET Row(n) == LET b == Scaled(seen[n], in, f) IN
        IF n > Len(seen) \/ ~in.shows THEN <<0, 0, 0, 0, 0>>
        ELSE (IF scene.corners THEN <<b.x, b.y, b.x + b.width, b.y + b.height>>
              ELSE <<b.x + b.width \div 2, b.y + b.height \div 2, b.width, b.height>>)
             \o <<seen[n].score>>
      Value(row, attr) == Row(row + 1)[attr + 1]
      rows == scene.rows
  IN  <<[type |-> "tensor", name |-> "rows", dtype |-> "float32", device |-> "host", view |-> 0,
         shape |-> IF scene.transposed THEN <<1, 5, rows>> ELSE <<1, rows, 5>>,
         size |-> rows * 5,
         data |-> [n \in 0 .. rows * 5 - 1 |->
                     IF scene.transposed THEN Value(n % rows, n \div rows)
                     ELSE Value(n \div 5, n % 5)]]>>

FaceAnswers(scene, seen, in, f) ==
  IF scene.family \in ScrfdFamilies THEN ScrfdAnswers(scene, seen, in, f)
  ELSE RowAnswers(scene, seen, in, f)
=============================================================================
