----------------------------- MODULE Suppression -----------------------------
(***************************************************************************)
(* non_maximum_suppression of src/infer/utils/nms.cpp over whole-number    *)
(* boxes.  Scores and thresholds are whole numbers too, the threshold of   *)
(* the overlap in percent.  A candidate is a record with a box, a score, a *)
(* class_id and keypoints.                                                 *)
(***************************************************************************)
EXTENDS Integers, Sequences, FiniteSets

Larger(a, b) == IF a >= b THEN a ELSE b
Smaller(a, b) == IF a <= b THEN a ELSE b

(* intersection_over_union.                                                 *)
Intersection(a, b) ==
  LET width == Smaller(a.x + a.width, b.x + b.width) - Larger(a.x, b.x)
      height == Smaller(a.y + a.height, b.y + b.height) - Larger(a.y, b.y)
  IN  Larger(0, width) * Larger(0, height)

UnionArea(a, b) == a.width * a.height + b.width * b.height - Intersection(a, b)

(* The overlap of a and b is at least that many percent of their union; it  *)
(* is 0 when there is no union.                                             *)
Overlaps(a, b, percent) ==
  IF UnionArea(a, b) <= 0 THEN percent <= 0
  ELSE 100 * Intersection(a, b) >= percent * UnionArea(a, b)

SuppressesAnyClass(keep, other, percent) ==   (* slip: the class is not compared *)
  Overlaps(keep.box, other.box, percent)

Suppresses(keep, other, percent) ==
  /\ other.class_id = keep.class_id
  /\ Overlaps(keep.box, other.box, percent)

(* The elements of S one after the other; before has the pairs in order.    *)
InOrder(S, before) ==
  [k \in 1 .. Cardinality(S) |->
     CHOOSE c \in S : Cardinality({b \in S : <<b, c>> \in before}) = k - 1]

(* Candidates are parsed output by output and row by row: candidate is the  *)
(* one of <<output, row>>, for the rows that make one.                      *)
RowOrder(rows) ==
  {p \in rows \X rows :
     p[1][1] < p[2][1] \/ (p[1][1] = p[2][1] /\ p[1][2] < p[2][2])}

CandidatesFrom(candidate) ==
  LET place == InOrder(DOMAIN candidate, RowOrder(DOMAIN candidate))
  IN  [k \in DOMAIN place |-> candidate[place[k]]]

(* std::sort by descending score; it keeps equal scores in place here.      *)
Precedes(candidates) ==
  {p \in (DOMAIN candidates) \X (DOMAIN candidates) :
     \/ candidates[p[1]].score > candidates[p[2]].score
     \/ candidates[p[1]].score = candidates[p[2]].score /\ p[1] < p[2]}

ByScore(candidates) ==
  LET place == InOrder(DOMAIN candidates, Precedes(candidates))
  IN  [n \in DOMAIN candidates |-> candidates[place[n]]]

(* The loop over the sorted candidates: one is kept unless one kept before  *)
(* it suppresses it.                                                        *)
KeepUnlessSuppressed(before, candidate, percent) ==
  IF \E k \in DOMAIN before : Suppresses(before[k], candidate, percent) THEN before
  ELSE Append(before, candidate)

KeptOf(sorted, percent) ==   (* after n turns of the loop *)
  LET kept[n \in 0 .. Len(sorted)] ==
        IF n = 0 THEN <<>>
        ELSE KeepUnlessSuppressed(kept[n - 1], sorted[n], percent)
  IN  kept

NonMaximumSuppression(candidates, percent) ==
  LET sorted == ByScore(candidates)
  IN  KeptOf(sorted, percent)[Len(sorted)]

-----------------------------------------------------------------------------
(* What the selection has to be, whatever computes it: candidates with      *)
(* falling scores that do not suppress each other, and for every candidate  *)
(* left out one that is as good and suppresses it.                          *)
GreedySelection(kept, candidates, percent) ==
  /\ \A n \in 1 .. Len(kept) : \E c \in 1 .. Len(candidates) : candidates[c] = kept[n]
  /\ \A m, n \in 1 .. Len(kept) : m < n =>
       /\ kept[m].score >= kept[n].score
       /\ ~(kept[m].class_id = kept[n].class_id /\ Overlaps(kept[m].box, kept[n].box, percent))
  /\ \A c \in 1 .. Len(candidates) :
       \/ \E n \in 1 .. Len(kept) : kept[n] = candidates[c]
       \/ \E n \in 1 .. Len(kept) :
            /\ kept[n].score >= candidates[c].score
            /\ kept[n].class_id = candidates[c].class_id
            /\ Overlaps(kept[n].box, candidates[c].box, percent)
=============================================================================
