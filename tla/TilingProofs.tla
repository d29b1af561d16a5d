---------------------------- MODULE TilingProofs ----------------------------
(***************************************************************************)
(* Proofs about tiled inference.  For every length, tile size and overlap  *)
(* the tiles cover the axis, stay inside it, differ from each other and    *)
(* keep the overlap, and the loop computes AxisStarts.  For any images,    *)
(* options and objects the crops lie in the data, and masks and detections *)
(* of a packed frame come back in their place.                             *)
(***************************************************************************)
EXTENDS TileAxis, Tiling, SuppressionProofs, SequenceTheorems

AInv == AxisTypeOK /\ AxisInvariant

(* The arguments after std::min, std::max and std::clamp.                   *)
LEMMA ClampedArguments ==
  ASSUME AxisTypeOK
  PROVE  /\ Tile \in Int /\ Clamped \in Int /\ Step \in Int /\ LastStart \in Int
         /\ Usable => /\ Tile \in 1 .. length
                      /\ Clamped \in 0 .. Tile - 1
                      /\ Step = Tile - Clamped
                      /\ LastStart = length - Tile
  BY AxisAssumption
     DEF AxisTypeOK, Usable, Tile, Clamped, Step, LastStart, ClampedTile,
         ClampedOverlap, StepOf, LastStartOf, AtLeast, AtMost

(* A start is added behind the last one, at most a step further on: the     *)
(* tiles stay in order, and no pixel between them is left out.              *)
LEMMA AddStart ==
  ASSUME AInv, Usable, phase = "looping", Len(starts) > 0,
         NEW x \in 0 .. LastStart,
         x > starts[Len(starts)], x - starts[Len(starts)] <= Step,
         NEW s, s = Append(starts, x)
  PROVE  /\ s \in Seq(Int) /\ Len(s) > 0 /\ s[Len(s)] = x
         /\ \A n \in 1 .. Len(s) : s[n] \in 0 .. LastStart
         /\ \A n \in 1 .. Len(s) - 1 : s[n + 1] - s[n] <= Step
         /\ \A m, n \in 1 .. Len(s) : m < n => s[m] < s[n]
         /\ \A y \in 0 .. s[Len(s)] + Tile - 1 :
              \E n \in 1 .. Len(s) : s[n] <= y /\ y < s[n] + Tile
<1> PICK k : k = Len(starts)
  OBVIOUS
<1>1. /\ starts \in Seq(Int) /\ k \in Nat \ {0}
      /\ Tile \in Int /\ Step \in Int /\ Step <= Tile /\ LastStart \in Int
  BY ClampedArguments, LenProperties DEF AInv, AxisTypeOK
<1>2. /\ s \in Seq(Int) /\ Len(s) = k + 1 /\ s[k + 1] = x
      /\ \A n \in 1 .. k : s[n] = starts[n]
  BY <1>1, AppendProperties
<1>3. /\ \A n \in 1 .. k : starts[n] \in 0 .. LastStart
      /\ \A n \in 1 .. k - 1 : starts[n + 1] - starts[n] <= Step
      /\ \A m, n \in 1 .. k : m < n => starts[m] < starts[n]
      /\ \A y \in 0 .. starts[k] + Tile - 1 :
           \E n \in 1 .. k : starts[n] <= y /\ y < starts[n] + Tile
  BY DEF AInv, AxisInvariant
<1>4. x > starts[k] /\ x - starts[k] <= Step /\ starts[k] \in Int
  BY <1>1, <1>3
<1>5. \A n \in 1 .. k + 1 : s[n] \in 0 .. LastStart
  BY <1>1, <1>2, <1>3
<1>6. \A n \in 1 .. k : s[n + 1] - s[n] <= Step
  <2> SUFFICES ASSUME NEW n \in 1 .. k
               PROVE  s[n + 1] - s[n] <= Step
    OBVIOUS
  <2>1. CASE n = k
    BY <1>1, <1>2, <1>4, <2>1
  <2>2. CASE n < k
    BY <1>1, <1>2, <1>3, <2>2
  <2> QED
    BY <1>1, <2>1, <2>2
<1>7. \A m, n \in 1 .. k + 1 : m < n => s[m] < s[n]
  <2> SUFFICES ASSUME NEW m \in 1 .. k + 1, NEW n \in 1 .. k + 1, m < n
               PROVE  s[m] < s[n]
    OBVIOUS
  <2>1. m \in 1 .. k /\ s[m] = starts[m] /\ starts[m] <= starts[k]
    <3>1. m \in 1 .. k
      BY <1>1
    <3>2. m = k \/ starts[m] < starts[k]
      BY <1>1, <1>3, <3>1
    <3> QED
      BY <1>2, <1>3, <1>4, <3>1, <3>2
  <2>2. CASE n = k + 1
    BY <1>2, <1>3, <1>4, <2>1, <2>2
  <2>3. CASE n \in 1 .. k
    BY <1>2, <1>3, <2>1, <2>3
  <2> QED
    BY <1>1, <2>2, <2>3
<1>8. ASSUME NEW y \in 0 .. x + Tile - 1
      PROVE  \E n \in 1 .. k + 1 : s[n] <= y /\ y < s[n] + Tile
  <2>1. CASE y <= starts[k] + Tile - 1
    <3>1. PICK n \in 1 .. k : starts[n] <= y /\ y < starts[n] + Tile
      BY <1>1, <1>3, <1>4, <2>1
    <3> QED
      BY <1>1, <1>2, <3>1
  <2>2. CASE y > starts[k] + Tile - 1
    <3>1. x <= y /\ y < x + Tile
      BY <1>1, <1>4, <2>2
    <3>2. k + 1 \in 1 .. k + 1 /\ s[k + 1] = x
      BY <1>1, <1>2
    <3> QED
      BY <3>1, <3>2
  <2> QED
    BY <1>1, <1>4, <2>1, <2>2
<1>9. /\ Len(s) = k + 1 /\ Len(s) - 1 = k /\ Len(s) > 0 /\ s[Len(s)] = x
  BY <1>1, <1>2
<1> QED
  BY <1>2, <1>5, <1>6, <1>7, <1>8, <1>9

LEMMA AxisInitHolds == AxisInit => AInv
  BY DEF AxisInit, AInv, AxisTypeOK, AxisInvariant

LEMMA AxisStepHolds == AInv /\ [AxisNext]_axisVars => AInv'
<1> SUFFICES ASSUME AInv, [AxisNext]_axisVars
             PROVE  AInv'
  OBVIOUS
<1>1. /\ Tile \in Int /\ Step \in Int /\ LastStart \in Int
      /\ Usable => /\ Tile \in 1 .. length /\ Step \in 1 .. Tile
                   /\ LastStart = length - Tile /\ length \in Int
  BY ClampedArguments, AxisAssumption DEF AInv, AxisTypeOK
<1>2. UNCHANGED axisArgs =>
        /\ Usable' = Usable /\ Tile' = Tile /\ Step' = Step
        /\ LastStart' = LastStart
  BY DEF axisArgs, Usable, Tile, Clamped, Step, LastStart
<1>3. CASE Reject
  <2>1. length \in Int /\ tile_size \in Int
    BY AxisAssumption DEF AInv, AxisTypeOK
  <2>2. ~Usable /\ UNCHANGED axisArgs /\ phase' = "returned"
    BY <1>3, <2>1 DEF Reject, Usable
  <2>3. AxisTypeOK'
    BY <1>3 DEF Reject, axisArgs, AInv, AxisTypeOK
  <2> QED
    BY <1>2, <2>2, <2>3 DEF AInv, AxisInvariant
<1>4. CASE PushFirst
  <2>1. /\ Usable /\ UNCHANGED axisArgs /\ starts' = <<0>> /\ start' = Step
        /\ phase' = "looping"
    BY <1>4 DEF PushFirst, Usable
  <2>2. Len(starts') = 1 /\ starts'[1] = 0 /\ starts' \in Seq(Int)
    BY <2>1
  <2>3. AxisTypeOK'
    BY <1>1, <2>1, <2>2 DEF AInv, AxisTypeOK, axisArgs
  <2>4. AxisInvariant'
    BY <1>1, <1>2, <2>1, <2>2 DEF AxisInvariant, axisArgs
  <2> QED
    BY <2>3, <2>4 DEF AInv
<1>5. CASE Push
  <2>1. /\ phase = "looping" /\ Usable /\ UNCHANGED axisArgs /\ phase' = phase
        /\ start < LastStart /\ start' = start + Step
        /\ starts' = Append(starts, start)
        /\ start = starts[Len(starts)] + Step /\ Len(starts) > 0
        /\ start \in 0 .. length
    BY <1>5 DEF Push, AInv, AxisInvariant
  <2>2. starts[Len(starts)] \in Int
    BY <2>1, LenProperties, ElementOfSeq DEF AInv, AxisTypeOK
  <2>3. /\ starts' \in Seq(Int) /\ Len(starts') > 0
        /\ starts'[Len(starts')] = start
        /\ \A n \in 1 .. Len(starts') : starts'[n] \in 0 .. LastStart
        /\ \A n \in 1 .. Len(starts') - 1 : starts'[n + 1] - starts'[n] <= Step
        /\ \A m, n \in 1 .. Len(starts') : m < n => starts'[m] < starts'[n]
        /\ \A y \in 0 .. starts'[Len(starts')] + Tile - 1 :
             \E n \in 1 .. Len(starts') :
               starts'[n] <= y /\ y < starts'[n] + Tile
    <3>1. /\ start \in 0 .. LastStart /\ start > starts[Len(starts)]
          /\ start - starts[Len(starts)] <= Step
      BY <1>1, <2>1, <2>2
    <3> QED
      BY <2>1, <3>1, AddStart
  <2>4. AxisTypeOK'
    BY <1>1, <2>1, <2>3 DEF AInv, AxisTypeOK, axisArgs
  <2>5. start' \in 0 .. length
    BY <1>1, <2>1
  <2>6. AxisInvariant'
    BY <1>2, <2>1, <2>3, <2>5 DEF AxisInvariant, axisArgs
  <2> QED
    BY <2>4, <2>6 DEF AInv
<1>6. CASE PushLast
  <2>1. /\ phase = "looping" /\ Usable /\ UNCHANGED axisArgs
        /\ start >= LastStart /\ start' = start /\ phase' = "returned"
        /\ start = starts[Len(starts)] + Step /\ Len(starts) > 0
        /\ start \in 0 .. length
        /\ starts[Len(starts)] \in 0 .. LastStart
    <3>1. Len(starts) > 0 => Len(starts) \in 1 .. Len(starts)
      BY LenProperties DEF AInv, AxisTypeOK
    <3> QED
      BY <1>6, <3>1 DEF PushLast, AInv, AxisInvariant, axisArgs
  <2>2. CASE starts[Len(starts)] = LastStart
    <3>1. starts' = starts
      BY <1>6, <2>2 DEF PushLast
    <3>2. AxisTypeOK'
      BY <2>1, <3>1 DEF AInv, AxisTypeOK, axisArgs
    <3>3. AxisInvariant'
      BY <1>2, <2>1, <2>2, <3>1 DEF AInv, AxisInvariant, axisArgs
    <3> QED
      BY <3>2, <3>3 DEF AInv
  <2>3. CASE starts[Len(starts)] # LastStart
    <3>1. starts' = Append(starts, LastStart)
      BY <1>6, <2>3 DEF PushLast
    <3>2. /\ LastStart \in 0 .. LastStart /\ LastStart > starts[Len(starts)]
          /\ LastStart - starts[Len(starts)] <= Step
      BY <1>1, <2>1, <2>3
    <3>3. /\ starts' \in Seq(Int) /\ Len(starts') > 0
          /\ starts'[Len(starts')] = LastStart
          /\ \A n \in 1 .. Len(starts') : starts'[n] \in 0 .. LastStart
          /\ \A n \in 1 .. Len(starts') - 1 : starts'[n + 1] - starts'[n] <= Step
          /\ \A m, n \in 1 .. Len(starts') : m < n => starts'[m] < starts'[n]
          /\ \A y \in 0 .. starts'[Len(starts')] + Tile - 1 :
               \E n \in 1 .. Len(starts') :
                 starts'[n] <= y /\ y < starts'[n] + Tile
      BY <2>1, <3>1, <3>2, AddStart
    <3>4. AxisTypeOK'
      BY <2>1, <3>3 DEF AInv, AxisTypeOK, axisArgs
    <3>5. AxisInvariant'
      BY <1>2, <2>1, <3>3 DEF AxisInvariant, axisArgs
    <3> QED
      BY <3>4, <3>5 DEF AInv
  <2> QED
    BY <2>2, <2>3
<1>7. CASE UNCHANGED axisVars
  BY <1>2, <1>7 DEF axisVars, axisArgs, AInv, AxisTypeOK, AxisInvariant
<1> QED
  BY <1>3, <1>4, <1>5, <1>6, <1>7 DEF AxisNext

-----------------------------------------------------------------------------
(* Every call of tile_axis_starts keeps the invariant of its loop.          *)
THEOREM AxisInvariantHolds == AxisSpec => []AInv
<1>1. AxisInit => AInv
  BY AxisInitHolds
<1>2. AInv /\ [AxisNext]_axisVars => AInv'
  BY AxisStepHolds
<1> QED
  BY <1>1, <1>2, PTL DEF AxisSpec

(* The int start stays within the axis: no overflow for frames of any size. *)
THEOREM LoopVariableBounded == AxisSpec => []LoopStaysInside
<1>1. AInv => LoopStaysInside
  BY AxisAssumption
     DEF AInv, AxisTypeOK, AxisInvariant, LoopStaysInside, Usable
<1> QED
  BY <1>1, AxisInvariantHolds, PTL

(* The tiles returned by tile_axis_starts leave out no pixel.               *)
THEOREM AxisCovered == AxisSpec => []EveryPixelTiled
<1>1. AInv => EveryPixelTiled
  <2> SUFFICES ASSUME AInv, phase = "returned", Usable
               PROVE  \A x \in 0 .. length - 1 :
                        \E n \in 1 .. Len(starts) :
                          starts[n] <= x /\ x < starts[n] + Tile
    BY DEF EveryPixelTiled
  <2>1. /\ starts[Len(starts)] = LastStart /\ LastStart = length - Tile
        /\ length \in Int /\ Tile \in Int
    BY ClampedArguments, AxisAssumption DEF AInv, AxisTypeOK, AxisInvariant
  <2>2. \A x \in 0 .. starts[Len(starts)] + Tile - 1 :
          \E n \in 1 .. Len(starts) : starts[n] <= x /\ x < starts[n] + Tile
    BY DEF AInv, AxisInvariant
  <2> QED
    BY <2>1, <2>2
<1> QED
  BY <1>1, AxisInvariantHolds, PTL

(* They lie inside the axis, in strictly ascending order.                   *)
THEOREM TilesInside == AxisSpec => []TilesDistinctInside
<1>1. AInv => TilesDistinctInside
  <2> SUFFICES ASSUME AInv, phase = "returned", Usable
               PROVE  TilesDistinctInside
    BY DEF TilesDistinctInside
  <2>1. /\ \A n \in 1 .. Len(starts) : starts[n] \in 0 .. LastStart
        /\ \A m, n \in 1 .. Len(starts) : m < n => starts[m] < starts[n]
    BY DEF AInv, AxisInvariant
  <2>2. LastStart = length - Tile /\ Tile \in Int /\ length \in Int
    BY ClampedArguments, AxisAssumption DEF AInv, AxisTypeOK
  <2> QED
    BY <2>1, <2>2 DEF TilesDistinctInside
<1> QED
  BY <1>1, AxisInvariantHolds, PTL

(* Neighbours overlap by the clamped overlap at least.                      *)
THEOREM OverlapGuaranteed == AxisSpec => []OverlapKept
<1>1. AInv => OverlapKept
  <2> SUFFICES ASSUME AInv, phase = "returned", Usable,
                      NEW n \in 1 .. Len(starts) - 1
               PROVE  starts[n] + Tile - starts[n + 1] >= Clamped
    BY DEF OverlapKept
  <2>1. Len(starts) \in Nat /\ starts \in Seq(Int)
    BY LenProperties DEF AInv, AxisTypeOK
  <2>2. n \in 1 .. Len(starts) /\ n + 1 \in 1 .. Len(starts)
    BY <2>1
  <2>3. starts[n] \in Int /\ starts[n + 1] \in Int
    BY <2>1, <2>2, ElementOfSeq
  <2>4. starts[n + 1] - starts[n] <= Step
    BY DEF AInv, AxisInvariant
  <2>5. Step = Tile - Clamped /\ Tile \in Int /\ Clamped \in Int
    BY ClampedArguments DEF AInv
  <2> QED
    BY <2>3, <2>4, <2>5
<1> QED
  BY <1>1, AxisInvariantHolds, PTL

-----------------------------------------------------------------------------
(* The starts so far are the first multiples of the step, all before the    *)
(* last start but the first of them, and what is returned is AxisStarts.    *)
Multiples ==
  /\ phase = "called" => starts = <<>>
  /\ phase = "looping" =>
       /\ \A n \in 1 .. Len(starts) : starts[n] = (n - 1) * Step
       /\ start = Len(starts) * Step
       /\ Len(starts) > 1 => (Len(starts) - 1) * Step < LastStart
  /\ ReturnsAxisStarts

(* The quotient rounded up.                                                 *)
LEMMA RoundedUp ==
  ASSUME NEW d \in Nat \ {0}, NEW k \in Nat \ {0}, NEW x \in Nat,
         x <= k * d, (k - 1) * d < x
  PROVE  (x + d - 1) \div d = k
  OBVIOUS

LEMMA MultiplesStep == AInv /\ Multiples /\ [AxisNext]_axisVars => Multiples'
<1> SUFFICES ASSUME AInv, Multiples, [AxisNext]_axisVars PROVE Multiples'
  OBVIOUS
<1>1. /\ Tile \in Int /\ Step \in Int /\ LastStart \in Int
      /\ length \in Int /\ tile_size \in Int /\ overlap \in Int /\ start \in Int
      /\ starts \in Seq(Int) /\ Len(starts) \in Nat
      /\ Usable => Step \in Nat \ {0} /\ LastStart \in Nat
  BY ClampedArguments, AxisAssumption DEF AInv, AxisTypeOK
<1>2. UNCHANGED axisArgs => /\ Step' = Step /\ LastStart' = LastStart
                        /\ AxisStarts(length, tile_size, overlap)'
                             = AxisStarts(length, tile_size, overlap)
  BY DEF axisArgs, Step, LastStart
<1>3. CASE Reject
  <2>1. starts' = <<>> /\ phase' = "returned" /\ UNCHANGED axisArgs
        /\ (length <= 0 \/ tile_size <= 0)
    BY <1>3 DEF Reject, Multiples
  <2>2. AxisStarts(length, tile_size, overlap) = <<>>
    BY <2>1 DEF AxisStarts
  <2> QED
    BY <1>2, <2>1, <2>2 DEF Multiples, ReturnsAxisStarts
<1>4. CASE PushFirst
  <2>1. starts' = <<0>> /\ start' = Step /\ phase' = "looping" /\ UNCHANGED axisArgs
    BY <1>4 DEF PushFirst
  <2>2. Len(starts') = 1 /\ starts'[1] = 0
    BY <2>1
  <2> QED
    BY <1>1, <1>2, <2>1, <2>2 DEF Multiples, ReturnsAxisStarts
<1>5. CASE Push
  <2> PICK k : k = Len(starts)
    OBVIOUS
  <2> PICK d : d = Step
    OBVIOUS
  <2>1. /\ phase = "looping" /\ phase' = "looping" /\ UNCHANGED axisArgs
        /\ starts' = Append(starts, start) /\ start' = start + Step /\ start < LastStart
    BY <1>5 DEF Push
  <2>2. k \in Nat /\ d \in Int /\ start = k * d /\ \A n \in 1 .. k : starts[n] = (n - 1) * d
    BY <1>1, <2>1 DEF Multiples
  <2>3. /\ Len(starts') = k + 1 /\ starts'[k + 1] = start
        /\ \A n \in 1 .. k : starts'[n] = starts[n]
    BY <1>1, <2>1
  <2>4. \A n \in 1 .. k + 1 : starts'[n] = (n - 1) * d
    <3> TAKE n \in 1 .. k + 1
    <3>1. CASE n = k + 1
      BY <2>2, <2>3, <3>1
    <3>2. CASE n \in 1 .. k
      BY <2>2, <2>3, <3>2
    <3> QED
      BY <2>2, <3>1, <3>2
  <2>5. start' = (k + 1) * d /\ k + 1 - 1 = k
    BY <2>1, <2>2
  <2> QED
    BY <1>2, <2>1, <2>2, <2>3, <2>4, <2>5 DEF Multiples, ReturnsAxisStarts
<1>6. CASE PushLast
  <2> PICK k : k = Len(starts)
    OBVIOUS
  <2> PICK d : d = Step
    OBVIOUS
  <2> PICK last : last = LastStart
    OBVIOUS
  <2>1. /\ phase = "looping" /\ phase' = "returned" /\ UNCHANGED axisArgs /\ Usable
        /\ start >= last /\ k \in Nat \ {0} /\ starts[k] \in Int
        /\ starts' = IF starts[k] # last THEN Append(starts, last) ELSE starts
    BY <1>1, <1>6 DEF PushLast, AInv, AxisInvariant
  <2>2. /\ d \in Nat \ {0} /\ last \in Nat /\ last <= k * d
        /\ \A n \in 1 .. k : starts[n] = (n - 1) * d
        /\ k > 1 => (k - 1) * d < last
    BY <1>1, <2>1 DEF Multiples
  <2> DEFINE r == (last + d - 1) \div d
  <2>3. AxisStarts(length, tile_size, overlap)
          = [n \in 1 .. r + 1 |-> IF n = r + 1 THEN last ELSE (n - 1) * d]
    BY <1>1, <2>1 DEF AxisStarts, Usable, Step, LastStart
  <2>4. k = 1 => starts[k] = 0
    BY <2>2
  <2>5. CASE last = 0
    <3>1. k = 1 /\ starts' = starts /\ starts[1] = 0
      BY <2>1, <2>2, <2>4, <2>5
    <3>2. r = 0
      BY <2>2, <2>5
    <3> HIDE DEF r
    <3>3. starts = [n \in 1 .. r + 1 |-> IF n = r + 1 THEN last ELSE (n - 1) * d]
      <4>1. starts = [n \in 1 .. 1 |-> starts[n]] /\ r + 1 = 1
        <5>1. Len(starts) = 1
          BY <3>1
        <5>2. starts = [n \in 1 .. Len(starts) |-> starts[n]]
          BY <1>1
        <5> QED
          BY <3>2, <5>1, <5>2
      <4>2. \A n \in 1 .. 1 : starts[n] = IF n = r + 1 THEN last ELSE (n - 1) * d
        BY <2>5, <3>1, <4>1
      <4> QED
        BY <4>1, <4>2
    <3> QED
      BY <1>2, <2>1, <2>3, <3>1, <3>3 DEF Multiples, ReturnsAxisStarts
  <2>6. CASE last > 0
    <3>1. (k - 1) * d < last /\ starts[k] = (k - 1) * d
      BY <2>1, <2>2, <2>4, <2>6
    <3>2. r = k
      BY <2>1, <2>2, <3>1, RoundedUp
    <3>3. starts' = Append(starts, last)
      BY <2>1, <2>2, <3>1
    <3> HIDE DEF r
    <3>4. starts' = [n \in 1 .. k + 1 |-> starts'[n]] /\ starts'[k + 1] = last
          /\ \A n \in 1 .. k : starts'[n] = starts[n]
      BY <1>1, <2>1, <2>2, <3>3
    <3>5. \A n \in 1 .. k + 1 : starts'[n] = IF n = k + 1 THEN last ELSE (n - 1) * d
      <4> TAKE n \in 1 .. k + 1
      <4>1. CASE n = k + 1
        BY <3>4, <4>1
      <4>2. CASE n # k + 1
        <5>1. n \in 1 .. k
          BY <2>1, <4>2
        <5> QED
          BY <2>2, <3>4, <4>2, <5>1
      <4> QED
        BY <4>1, <4>2
    <3>6. starts' = [n \in 1 .. k + 1 |-> IF n = k + 1 THEN last ELSE (n - 1) * d]
      BY <3>4, <3>5
    <3> QED
      BY <1>2, <2>1, <2>3, <3>2, <3>6 DEF Multiples, ReturnsAxisStarts
  <2> QED
    BY <2>2, <2>5, <2>6
<1>7. CASE UNCHANGED axisVars
  BY <1>2, <1>7 DEF axisVars, axisArgs, Multiples, ReturnsAxisStarts
<1> QED
  BY <1>3, <1>4, <1>5, <1>6, <1>7 DEF AxisNext

(* The loop returns the starts that the crops of run_tiled_sync are taken   *)
(* at: 0, every multiple of the step before the last start, and that.       *)
THEOREM LoopComputesStarts == AxisSpec => []ReturnsAxisStarts
<1>1. AxisInit => Multiples
  BY DEF AxisInit, Multiples, ReturnsAxisStarts
<1>2. AInv /\ Multiples /\ [AxisNext]_axisVars => Multiples'
  BY MultiplesStep
<1>3. Multiples => ReturnsAxisStarts
  BY DEF Multiples
<1> QED
  BY <1>1, <1>2, <1>3, AxisInvariantHolds, PTL DEF AxisSpec

-----------------------------------------------------------------------------
(* The tiled run.  Its windows are those of BuildTileWindows, its answers   *)
(* those of the tiles, and what the merge has gathered after some tiles is  *)
(* what a merge of these alone would show.                                  *)
Tiled == ShouldRunTiled /\ CropPossible

WindowsInv ==
  /\ windows = <<>> \/ (Tiled /\ windows = BuildTileWindows)
  /\ stage \in {"called", "untiled"} => windows = <<>>

Answers == {Absent} \cup {AnswerTo(windows[n].tile) : n \in 1 .. Len(windows)}

AnswersInv ==
  /\ answers \in Seq(Answers)
  /\ Len(answers) <= Len(windows)
  /\ \A n \in 1 .. Len(answers) : answers[n] \in {AnswerTo(windows[n].tile), Absent}
  /\ stage \in {"merging", "returned"} => Len(answers) = Len(windows)

Detects == task \in {"detection", "face_detection"}

(* The mask and the detections of the first m tiles.                        *)
MaskOf(m) ==
  IF \E n \in 1 .. m : answers[n] # Absent
  THEN [p \in Box(image.width, image.height) |->
          IF \E n \in 1 .. m : answers[n] # Absent /\ p \in Shown(n) THEN p ELSE Nothing]
  ELSE Absent

Detections ==
  [box : [x : Int, y : Int, width : Int, height : Int], score : Int, class_id : Nat,
   keypoints : Seq([x : Int, y : Int])]

DetectionsOf(found, m) ==
  /\ found \in Seq(Detections)
  /\ \A i \in 1 .. Len(found) :
       \E n \in 1 .. m, k \in DOMAIN Objects :
         /\ answers[n] # Absent /\ Sight(<<n, k>>) # {}
         /\ found[i] = DetectionOf(Sight(<<n, k>>), k)
  /\ \A n \in 1 .. m, k \in DOMAIN Objects :
       answers[n] # Absent /\ Sight(<<n, k>>) # {} =>
         \E i \in 1 .. Len(found) : found[i] = DetectionOf(Sight(<<n, k>>), k)

MaskNow == gathered = MaskOf(merged)
DetectionsNow == DetectionsOf(gathered, merged)

MergeInv ==
  /\ merged \in 0 .. Len(windows)
  /\ stage \notin {"merging", "returned"} => merged = 0 /\ gathered = Absent /\ output = Absent
  /\ Packed /\ task = "segmentation" => MaskNow
  /\ Packed /\ Detects => DetectionsNow
  /\ stage = "returned" => merged = Len(windows) /\ output = MergeTileOutputs

TilingInv ==
  /\ image \in Images /\ options \in Options /\ task \in Tasks /\ stage \in Stages
  /\ WindowsInv /\ AnswersInv /\ MergeInv

(* AxisStarts of a tile inside its axis.                                    *)
LEMMA StartsInside ==
  ASSUME NEW n \in Nat \ {0}, NEW tile \in 1 .. n, NEW asked \in Int
  PROVE  /\ Len(AxisStarts(n, tile, asked)) \in Nat \ {0}
         /\ \A k \in 1 .. Len(AxisStarts(n, tile, asked)) :
              AxisStarts(n, tile, asked)[k] \in 0 .. n - tile
<1> DEFINE step == StepOf(n, tile, asked)
           last == LastStartOf(n, tile)
           regular == (last + step - 1) \div step
<1>1. step \in Nat \ {0} /\ last = n - tile /\ last \in Nat
  BY DEF StepOf, LastStartOf, ClampedTile, ClampedOverlap, AtLeast, AtMost
<1>2. AxisStarts(n, tile, asked) =
        [k \in 1 .. regular + 1 |-> IF k = regular + 1 THEN last ELSE (k - 1) * step]
  BY DEF AxisStarts
<1> HIDE DEF step, last
<1>3. regular \in Nat
  BY <1>1
<1>4. ASSUME NEW k \in 1 .. regular PROVE (k - 1) * step \in 0 .. last
  <2>1. regular * step <= last + step - 1
    BY <1>1
  <2> HIDE DEF regular
  <2>2. (k - 1) * step \in Nat /\ k * step <= regular * step /\ (k - 1) * step = k * step - step
    BY <1>1, <1>3
  <2>3. regular * step \in Int /\ k * step \in Int
    BY <1>1, <1>3
  <2> QED
    BY <1>1, <2>1, <2>2, <2>3
<1> HIDE DEF regular
<1>5. Len(AxisStarts(n, tile, asked)) = regular + 1
  BY <1>2, <1>3
<1>6. \A k \in 1 .. regular + 1 : AxisStarts(n, tile, asked)[k] \in 0 .. last
  BY <1>1, <1>2, <1>3, <1>4
<1> QED
  BY <1>1, <1>3, <1>5, <1>6

(* The sizes of a frame that is run tiled, and of its tiles.                *)
LEMMA TiledSizes ==
  ASSUME image \in Images, options \in Options, ShouldRunTiled
  PROVE  /\ image.width \in Nat \ {0} /\ image.height \in Nat \ {0}
         /\ TileWidth \in 1 .. image.width /\ TileHeight \in 1 .. image.height
         /\ image.stride \in Nat /\ image.rows \in Nat /\ DataSize \in Nat
         /\ options.overlap_x \in Int /\ options.overlap_y \in Int
<1>1. /\ image.width \in Int /\ image.height \in Int /\ image.stride \in Nat /\ image.rows \in Nat
      /\ options.width \in Int /\ options.height \in Int
      /\ options.overlap_x \in Int /\ options.overlap_y \in Int
  BY TilingAssumption DEF ImageType
<1>2. options.width > 0 /\ options.height > 0 /\ image.width > 0 /\ image.height > 0
  BY DEF ShouldRunTiled, TileOptionsEnabled
<1>3. DataSize \in Nat
  BY <1>1 DEF DataSize
<1> QED
  BY <1>1, <1>2, <1>3 DEF TileWidth, TileHeight, AtMost

(* A number below the product, as row and column.                           *)
LEMMA RowAndColumn ==
  ASSUME NEW across \in Nat \ {0}, NEW down \in Nat \ {0}, NEW i \in Nat, i < across * down
  PROVE  i % across \in 0 .. across - 1 /\ i \div across \in 0 .. down - 1
  OBVIOUS

(* Each window lies in the frame, and its tile is cropped there.            *)
LEMMA WindowsInside ==
  ASSUME image \in Images, options \in Options, Tiled
  PROVE  /\ Len(BuildTileWindows) \in Nat \ {0}
         /\ BuildTileWindows \in Seq([x : Int, y : Int, tile : {CropFrame(x, y) : x, y \in Int}])
         /\ \A n \in 1 .. Len(BuildTileWindows) :
              /\ BuildTileWindows[n].x \in 0 .. image.width - TileWidth
              /\ BuildTileWindows[n].y \in 0 .. image.height - TileHeight
              /\ BuildTileWindows[n].tile
                   = CropFrame(BuildTileWindows[n].x, BuildTileWindows[n].y)
<1> DEFINE xs == AxisStarts(image.width, TileWidth, options.overlap_x)
           ys == AxisStarts(image.height, TileHeight, options.overlap_y)
           across == Len(xs)
           down == Len(ys)
           X(n) == xs[((n - 1) % across) + 1]
           Y(n) == ys[((n - 1) \div across) + 1]
           lastX == image.width - TileWidth
           lastY == image.height - TileHeight
<1>1. /\ across \in Nat \ {0} /\ \A k \in 1 .. across : xs[k] \in 0 .. lastX
      /\ down \in Nat \ {0} /\ \A k \in 1 .. down : ys[k] \in 0 .. lastY
  BY TiledSizes, StartsInside DEF Tiled
<1>2. BuildTileWindows = [n \in 1 .. across * down |->
                            [x |-> X(n), y |-> Y(n), tile |-> CropFrame(X(n), Y(n))]]
  BY DEF BuildTileWindows, Tiled
<1>3. lastX \in Int /\ lastY \in Int
  BY TiledSizes DEF Tiled
<1> HIDE DEF xs, ys, lastX, lastY
<1>4. across * down \in Nat \ {0}
  BY <1>1
<1>5. ASSUME NEW n \in 1 .. across * down PROVE X(n) \in 0 .. lastX /\ Y(n) \in 0 .. lastY
  <2>1. n - 1 \in Nat /\ n - 1 < across * down
    BY <1>4
  <2> HIDE DEF across, down
  <2>2. (n - 1) % across \in 0 .. across - 1 /\ (n - 1) \div across \in 0 .. down - 1
    BY <1>1, <2>1, RowAndColumn
  <2>3. ((n - 1) % across) + 1 \in 1 .. across /\ ((n - 1) \div across) + 1 \in 1 .. down
    BY <1>1, <2>2
  <2> QED
    BY <1>1, <2>3
<1> HIDE DEF X, Y, across, down
<1>6. Len(BuildTileWindows) = across * down
  BY <1>2, <1>4
<1>7. ASSUME NEW n \in 1 .. across * down
      PROVE  /\ BuildTileWindows[n] = [x |-> X(n), y |-> Y(n), tile |-> CropFrame(X(n), Y(n))]
             /\ BuildTileWindows[n].x \in 0 .. lastX
             /\ BuildTileWindows[n].y \in 0 .. lastY
             /\ BuildTileWindows[n].tile
                  = CropFrame(BuildTileWindows[n].x, BuildTileWindows[n].y)
             /\ BuildTileWindows[n] \in
                  [x : Int, y : Int, tile : {CropFrame(x, y) : x, y \in Int}]
  <2>1. BuildTileWindows[n] = [x |-> X(n), y |-> Y(n), tile |-> CropFrame(X(n), Y(n))]
    BY <1>2
  <2>2. X(n) \in 0 .. lastX /\ Y(n) \in 0 .. lastY /\ X(n) \in Int /\ Y(n) \in Int
    BY <1>3, <1>5
  <2>3. CropFrame(X(n), Y(n)) \in {CropFrame(x, y) : x, y \in Int}
    BY <2>2
  <2> QED
    BY <2>1, <2>2, <2>3
<1>8. BuildTileWindows \in Seq([x : Int, y : Int, tile : {CropFrame(x, y) : x, y \in Int}])
  <2> DEFINE count == across * down
             Windows == [x : Int, y : Int, tile : {CropFrame(x, y) : x, y \in Int}]
  <2>1. /\ BuildTileWindows = [n \in 1 .. count |-> BuildTileWindows[n]]
        /\ \A n \in 1 .. count : BuildTileWindows[n] \in Windows
    BY <1>2, <1>7
  <2>2. count \in Nat
    BY <1>4
  <2> HIDE DEF count, Windows
  <2>3. BuildTileWindows \in Seq(Windows)
    BY <2>1, <2>2
  <2> QED
    BY <2>3 DEF Windows
<1> QED
  BY <1>4, <1>6, <1>7, <1>8 DEF lastX, lastY

(* A packed frame is cropped pixel by pixel.                                *)
LEMMA PackedCrop ==
  ASSUME image \in Images, options \in Options, Tiled, Packed,
         NEW x \in 0 .. image.width - TileWidth, NEW y \in 0 .. image.height - TileHeight
  PROVE  CropFrame(x, y) = [p \in Box(TileWidth, TileHeight) |-> <<x + p[1], y + p[2]>>]
<1> DEFINE w == image.width
<1>1. /\ w \in Nat \ {0} /\ TileWidth \in 1 .. w /\ TileHeight \in Nat /\ image.stride = w
      /\ x \in Nat /\ y \in Nat /\ x + TileWidth <= w
  BY TiledSizes DEF Tiled, Packed
<1>2. ASSUME NEW p \in Box(TileWidth, TileHeight)
      PROVE  Pixel((y + p[2]) * image.width + x + p[1]) = <<x + p[1], y + p[2]>>
  <2> DEFINE r == y + p[2]
             c == x + p[1]
  <2>1. r \in Nat /\ c \in 0 .. w - 1
    BY <1>1 DEF Box
  <2> HIDE DEF r, c, w
  <2>2. (r * w + c) % w = c /\ (r * w + c) \div w = r
    BY <1>1, <2>1
  <2>3. Pixel(r * w + c) = <<c, r>>
    BY <1>1, <2>1, <2>2 DEF Pixel, w
  <2>4. r * w \in Int /\ p[1] \in Int
    BY <1>1, <2>1 DEF Box
  <2>5. (y + p[2]) * image.width + x + p[1] = r * w + c
    BY <1>1, <2>4 DEF r, c, w
  <2> QED
    BY <2>3, <2>5 DEF r, c
<1> QED
  BY <1>2 DEF CropFrame

(* The least and the greatest of some numbers and of the numbers moved.     *)
LEMMA Extremes ==
  ASSUME NEW m \in Nat, NEW A \in SUBSET (0 .. m), A # {}, NEW d \in Int,
         NEW B \in SUBSET Int, \A a \in A : d + a \in B, \A b \in B : b - d \in A
  PROVE  /\ Least(A) \in A /\ Most(A) \in A
         /\ Least(B) = d + Least(A) /\ Most(B) = d + Most(A)
<1>1. \A a \in A : a \in Int /\ a \in Nat
  OBVIOUS
<1>2. Least(A) \in A /\ \A a \in A : Least(A) <= a
  <2>1. \E a \in A : \A b \in A : a <= b
    BY Smallest
  <2> QED
    BY <2>1 DEF Least
<1>3. Most(A) \in A /\ \A a \in A : Most(A) >= a
  <2> DEFINE C == {m - a : a \in A}
  <2>1. C \in SUBSET Nat /\ C # {}
    <3>1. \A a \in A : m - a \in Nat
      OBVIOUS
    <3> QED
      BY <3>1
  <2> HIDE DEF C
  <2>2. PICK c \in C : \A e \in C : c <= e
    BY <2>1, Smallest
  <2>3. PICK a \in A : c = m - a
    BY DEF C
  <2>4. \A b \in A : a >= b
    <3> SUFFICES ASSUME NEW b \in A PROVE a >= b
      OBVIOUS
    <3>1. m - b \in C
      BY DEF C
    <3>2. m - a <= m - b
      BY <2>2, <2>3, <3>1
    <3> QED
      BY <1>1, <3>2
  <2> QED
    BY <2>4 DEF Most
<1>4. Least(B) = d + Least(A)
  <2> DEFINE v == d + Least(A)
  <2>1. v \in B /\ v \in Int
    BY <1>1, <1>2
  <2>2. ASSUME NEW b \in B PROVE v <= b
    <3>1. b - d \in A /\ b \in Int
      OBVIOUS
    <3>2. Least(A) <= b - d /\ Least(A) \in Int
      BY <1>1, <1>2, <3>1
    <3> QED
      BY <3>1, <3>2
  <2> HIDE DEF v
  <2>3. \A u \in B : (\A b \in B : u <= b) => u = v
    BY <2>1, <2>2
  <2>4. Least(B) \in B /\ \A b \in B : Least(B) <= b
    BY <2>1, <2>2 DEF Least
  <2> QED
    BY <2>3, <2>4 DEF v
<1>5. Most(B) = d + Most(A)
  <2> DEFINE v == d + Most(A)
  <2>1. v \in B /\ v \in Int
    BY <1>1, <1>3
  <2>2. ASSUME NEW b \in B PROVE v >= b
    <3>1. b - d \in A /\ b \in Int
      OBVIOUS
    <3>2. Most(A) >= b - d /\ Most(A) \in Int
      BY <1>1, <1>3, <3>1
    <3> QED
      BY <3>1, <3>2
  <2> HIDE DEF v
  <2>3. \A u \in B : (\A b \in B : u >= b) => u = v
    BY <2>1, <2>2
  <2>4. Most(B) \in B /\ \A b \in B : Most(B) >= b
    BY <2>1, <2>2 DEF Most
  <2> QED
    BY <2>3, <2>4 DEF v
<1> QED
  BY <1>2, <1>3, <1>4, <1>5

(* Pixels of a tile and the same pixels in the frame.                       *)
Moved(pixels, x, y) == {<<x + p[1], y + p[2]>> : p \in pixels}

(* Moving pixels moves their bounding box and keeps their number.           *)
LEMMA MovedPixels ==
  ASSUME NEW w \in Nat, NEW h \in Nat, NEW S \in SUBSET Box(w, h), S # {},
         NEW x \in Int, NEW y \in Int
  PROVE  LET T == Moved(S, x, y) IN
         /\ Least(Column(S)) \in Int /\ Most(Column(S)) \in Int
         /\ Least(Row(S)) \in Int /\ Most(Row(S)) \in Int
         /\ Least(Column(T)) = x + Least(Column(S)) /\ Most(Column(T)) = x + Most(Column(S))
         /\ Least(Row(T)) = y + Least(Row(S)) /\ Most(Row(T)) = y + Most(Row(S))
         /\ Cardinality(T) = Cardinality(S) /\ Cardinality(S) \in Nat
<1> DEFINE T == Moved(S, x, y)
<1>1. \A p \in S : p \in (0 .. w) \X (0 .. h) /\ p[1] \in 0 .. w /\ p[2] \in 0 .. h /\ p = <<p[1], p[2]>>
  BY DEF Box
<1>2. /\ Least(Column(S)) \in Column(S) /\ Most(Column(S)) \in Column(S)
      /\ Least(Column(T)) = x + Least(Column(S)) /\ Most(Column(T)) = x + Most(Column(S))
  <2>1. Column(S) \in SUBSET (0 .. w) /\ Column(S) # {}
    BY <1>1 DEF Column
  <2>2. Column(T) \in SUBSET Int
    BY <1>1 DEF Column, Moved
  <2>3. (\A a \in Column(S) : x + a \in Column(T)) /\ (\A b \in Column(T) : b - x \in Column(S))
    <3>1. ASSUME NEW p \in S PROVE x + p[1] \in Column(T)
      <4> DEFINE t == <<x + p[1], y + p[2]>>
      <4>1. t \in T /\ t[1] = x + p[1]
        BY DEF Moved
      <4> HIDE DEF t, T
      <4> QED
        BY <4>1 DEF Column
    <3>2. \A p \in S : (x + p[1]) - x = p[1]
      BY <1>1
    <3>3. \A b \in Column(T) : \E p \in S : b = x + p[1]
      BY DEF Column, Moved
    <3> QED
      BY <3>1, <3>2, <3>3 DEF Column
  <2> QED
    BY <2>1, <2>2, <2>3, Extremes
<1>3. /\ Least(Row(S)) \in Row(S) /\ Most(Row(S)) \in Row(S)
      /\ Least(Row(T)) = y + Least(Row(S)) /\ Most(Row(T)) = y + Most(Row(S))
  <2>1. Row(S) \in SUBSET (0 .. h) /\ Row(S) # {}
    BY <1>1 DEF Row
  <2>2. Row(T) \in SUBSET Int
    BY <1>1 DEF Row, Moved
  <2>3. (\A a \in Row(S) : y + a \in Row(T)) /\ (\A b \in Row(T) : b - y \in Row(S))
    <3>1. ASSUME NEW p \in S PROVE y + p[2] \in Row(T)
      <4> DEFINE t == <<x + p[1], y + p[2]>>
      <4>1. t \in T /\ t[2] = y + p[2]
        BY DEF Moved
      <4> HIDE DEF t, T
      <4> QED
        BY <4>1 DEF Row
    <3>2. \A p \in S : (y + p[2]) - y = p[2]
      BY <1>1
    <3>3. \A b \in Row(T) : \E p \in S : b = y + p[2]
      BY DEF Row, Moved
    <3> QED
      BY <3>1, <3>2, <3>3 DEF Row
  <2> QED
    BY <2>1, <2>2, <2>3, Extremes
<1>4. \A a \in Column(S) : a \in Int
  BY <1>1 DEF Column
<1>5. \A a \in Row(S) : a \in Int
  BY <1>1 DEF Row
<1>6. IsFiniteSet(S)
  <2>1. IsFiniteSet(0 .. w - 1) /\ IsFiniteSet(0 .. h - 1)
    BY FS_Interval
  <2>2. IsFiniteSet(Box(w, h))
    BY <2>1, FS_Product DEF Box
  <2> QED
    BY <2>2, FS_Subset
<1>7. Cardinality(T) = Cardinality(S)
  <2> DEFINE f == [p \in S |-> <<x + p[1], y + p[2]>>]
  <2>1. \A p \in S : f[p] = <<x + p[1], y + p[2]>> /\ f[p] \in T
    BY DEF Moved
  <2>2. f \in [S -> T]
    BY <2>1
  <2>3. ASSUME NEW p \in S, NEW q \in S, f[p] = f[q] PROVE p = q
    <3>1. x + p[1] = x + q[1] /\ y + p[2] = y + q[2]
      BY <2>1, <2>3
    <3>2. p[1] = q[1] /\ p[2] = q[2]
      BY <1>1, <3>1
    <3> QED
      BY <1>1, <3>2
  <2>4. \A t \in T : \E p \in S : f[p] = t
    BY DEF Moved
  <2> HIDE DEF f, T
  <2>5. f \in Injection(S, T) /\ f \in Surjection(S, T)
    BY <2>2, <2>3, <2>4 DEF Injection, IsInjective, Surjection
  <2>6. ExistsBijection(S, T)
    BY <2>5 DEF ExistsBijection, Bijection
  <2> QED
    BY <1>6, <2>6, FS_Bijection
<1>8. Cardinality(S) \in Nat
  BY <1>6, FS_CardinalityType
<1> QED
  BY <1>2, <1>3, <1>4, <1>5, <1>7, <1>8

(* A window of a run lies in the frame and holds its crop.                  *)
LEMMA WindowFacts ==
  ASSUME image \in Images, options \in Options, WindowsInv, NEW n \in 1 .. Len(windows)
  PROVE  /\ Tiled /\ windows # <<>> /\ Len(windows) \in Nat
         /\ windows[n].x \in 0 .. image.width - TileWidth
         /\ windows[n].y \in 0 .. image.height - TileHeight
         /\ windows[n].tile = CropFrame(windows[n].x, windows[n].y)
<1>1. windows # <<>>
  OBVIOUS
<1>2. Tiled /\ windows = BuildTileWindows
  BY <1>1 DEF WindowsInv
<1> QED
  BY <1>1, <1>2, WindowsInside

(* What a tile shows of an object is what the frame has of it there.        *)
LEMMA TileShows ==
  ASSUME image \in Images, options \in Options, WindowsInv, Packed,
         NEW n \in 1 .. Len(windows), NEW k
  PROVE  LET S == Seen(windows[n].tile, k) IN
         /\ S \in SUBSET Box(TileWidth, TileHeight)
         /\ Sight(<<n, k>>) = Moved(S, windows[n].x, windows[n].y)
<1> DEFINE x == windows[n].x
           y == windows[n].y
           P == Objects[k].pixels
           S == Seen(windows[n].tile, k)
<1>1. /\ Tiled /\ x \in 0 .. image.width - TileWidth /\ y \in 0 .. image.height - TileHeight
      /\ windows[n].tile = CropFrame(x, y)
  BY WindowFacts
<1>2. CropFrame(x, y) = [p \in Box(TileWidth, TileHeight) |-> <<x + p[1], y + p[2]>>]
  BY <1>1, PackedCrop
<1>3. S = {p \in Box(TileWidth, TileHeight) : <<x + p[1], y + p[2]>> \in P}
  BY <1>1, <1>2 DEF Seen
<1>4. /\ image.width \in Nat /\ TileWidth \in Nat /\ x \in Nat /\ x + TileWidth <= image.width
      /\ image.height \in Nat /\ TileHeight \in Nat /\ y \in Nat /\ y + TileHeight <= image.height
  <2>1. /\ image.width \in Nat \ {0} /\ image.height \in Nat \ {0}
        /\ TileWidth \in 1 .. image.width /\ TileHeight \in 1 .. image.height
    BY <1>1, TiledSizes DEF Tiled
  <2>2. x \in 0 .. image.width - TileWidth /\ y \in 0 .. image.height - TileHeight
    BY <1>1
  <2>3. \A w \in Nat : \A t \in 1 .. w : \A v \in 0 .. w - t :
          t \in Nat /\ v \in Nat /\ v + t <= w
    OBVIOUS
  <2> HIDE DEF x, y
  <2>4. TileWidth \in Nat /\ x \in Nat /\ x + TileWidth <= image.width
    BY <2>1, <2>2, <2>3
  <2>5. TileHeight \in Nat /\ y \in Nat /\ y + TileHeight <= image.height
    BY <2>1, <2>2, <2>3
  <2> QED
    BY <2>1, <2>4, <2>5
<1>5. Sight(<<n, k>>) = Shown(n) \cap P
  BY DEF Sight
<1> HIDE DEF S, P
<1>6. ASSUME NEW p \in S PROVE <<x + p[1], y + p[2]>> \in Shown(n) \cap P
  <2>1. p[1] \in 0 .. TileWidth - 1 /\ p[2] \in 0 .. TileHeight - 1
    BY <1>3 DEF Box
  <2> DEFINE u == x + p[1]
             v == y + p[2]
  <2>2. /\ u \in 0 .. image.width - 1 /\ v \in 0 .. image.height - 1
        /\ x <= u /\ u < x + TileWidth /\ y <= v /\ v < y + TileHeight
    <3> DEFINE a == p[1]
               b == p[2]
    <3>1. a \in 0 .. TileWidth - 1 /\ b \in 0 .. TileHeight - 1
      BY <2>1
    <3> HIDE DEF x, y, a, b
    <3>2. x + a \in 0 .. image.width - 1 /\ x <= x + a /\ x + a < x + TileWidth
      BY <1>4, <3>1
    <3>3. y + b \in 0 .. image.height - 1 /\ y <= y + b /\ y + b < y + TileHeight
      BY <1>4, <3>1
    <3> QED
      BY <3>2, <3>3 DEF a, b
  <2> HIDE DEF u, v
  <2>3. <<u, v>> \in Shown(n)
    BY <2>2 DEF Shown, Box
  <2>4. <<u, v>> \in P
    BY <1>3 DEF u, v
  <2> QED
    BY <2>3, <2>4 DEF u, v
<1>7. ASSUME NEW q \in Shown(n) \cap P
      PROVE  q \in Moved(S, x, y)
  <2> DEFINE p == <<q[1] - x, q[2] - y>>
  <2>1. /\ q = <<q[1], q[2]>> /\ q[1] \in Int /\ q[2] \in Int /\ q \in P
        /\ x <= q[1] /\ q[1] < x + TileWidth /\ y <= q[2] /\ q[2] < y + TileHeight
    BY <1>4 DEF Shown, Box
  <2>2. p \in Box(TileWidth, TileHeight) /\ x + p[1] = q[1] /\ y + p[2] = q[2]
    <3> DEFINE a == q[1]
               b == q[2]
    <3>1. /\ a \in Int /\ x <= a /\ a < x + TileWidth
          /\ b \in Int /\ y <= b /\ b < y + TileHeight
      BY <2>1
    <3> HIDE DEF x, y, a, b
    <3>2. a - x \in 0 .. TileWidth - 1 /\ x + (a - x) = a
      BY <1>4, <3>1
    <3>3. b - y \in 0 .. TileHeight - 1 /\ y + (b - y) = b
      BY <1>4, <3>1
    <3>4. p = <<a - x, b - y>>
      BY DEF a, b
    <3> HIDE DEF p
    <3> QED
      BY <3>2, <3>3, <3>4 DEF Box, a, b
  <2> HIDE DEF p
  <2>3. p \in S /\ q = <<x + p[1], y + p[2]>>
    BY <1>3, <2>1, <2>2
  <2> QED
    BY <2>3 DEF Moved
<1>8. Shown(n) \cap P = Moved(S, x, y)
  BY <1>6, <1>7 DEF Moved
<1> QED
  BY <1>3, <1>5, <1>8 DEF S

(* A detection of a tile, translated, is that of the frame.                 *)
Translated(d, n) ==
  [box |-> TranslateBox(d.box, n), score |-> d.score, class_id |-> d.class_id,
   keypoints |-> TranslatePoints(d.keypoints, n)]

LEMMA DetectionTranslated ==
  ASSUME image \in Images, options \in Options, WindowsInv, Packed,
         NEW n \in 1 .. Len(windows), NEW k \in DOMAIN Objects,
         Seen(windows[n].tile, k) # {}
  PROVE  /\ Translated(DetectionOf(Seen(windows[n].tile, k), k), n)
              = DetectionOf(Sight(<<n, k>>), k)
         /\ DetectionOf(Sight(<<n, k>>), k) \in Detections
         /\ Sight(<<n, k>>) # {}
<1> DEFINE x == windows[n].x
           y == windows[n].y
           S == Seen(windows[n].tile, k)
           T == Moved(S, x, y)
           left == Least(Column(S))
           right == Most(Column(S))
           top == Least(Row(S))
           bottom == Most(Row(S))
<1>1. S \in SUBSET Box(TileWidth, TileHeight) /\ Sight(<<n, k>>) = T
  BY TileShows
<1>2. x \in Int /\ y \in Int /\ TileWidth \in Nat /\ TileHeight \in Nat
  BY WindowFacts, TiledSizes DEF Tiled
<1> HIDE DEF x, y, S
<1>3. /\ left \in Int /\ right \in Int /\ top \in Int /\ bottom \in Int
      /\ Least(Column(T)) = x + left /\ Most(Column(T)) = x + right
      /\ Least(Row(T)) = y + top /\ Most(Row(T)) = y + bottom
      /\ Cardinality(T) = Cardinality(S) /\ Cardinality(S) \in Nat
  BY <1>1, <1>2, MovedPixels DEF S
<1> HIDE DEF T, left, right, top, bottom
<1>4. Objects[k].class_id \in Nat
  <2>1. Objects[k] \in [pixels : SUBSET (Int \X Int), class_id : Nat]
    <3> DEFINE Shapes == [pixels : SUBSET (Int \X Int), class_id : Nat]
    <3>1. Objects \in Seq(Shapes)
      BY TilingAssumption
    <3> HIDE DEF Shapes
    <3>2. Objects[k] \in Shapes
      BY <3>1
    <3> QED
      BY <3>2 DEF Shapes
  <2> QED
    BY <2>1
<1> DEFINE area == Cardinality(S)
           class == Objects[k].class_id
           wide == right - left + 1
           high == bottom - top + 1
           d == DetectionOf(S, k)
<1>5. d = [box |-> [x |-> left, y |-> top, width |-> wide, height |-> high], score |-> area,
           class_id |-> class, keypoints |-> <<[x |-> left, y |-> top]>>]
  BY DEF DetectionOf, Bounding, Corner, left, right, top, bottom
<1>6. DetectionOf(T, k) =
        [box |-> [x |-> x + left, y |-> y + top, width |-> wide, height |-> high], score |-> area,
         class_id |-> class, keypoints |-> <<[x |-> x + left, y |-> y + top]>>]
  <2>1. (x + right) - (x + left) + 1 = wide /\ (y + bottom) - (y + top) + 1 = high
    BY <1>2, <1>3
  <2> HIDE DEF wide, high
  <2> QED
    BY <1>3, <2>1 DEF DetectionOf, Bounding, Corner
<1>7. wide \in Int /\ high \in Int /\ area \in Int
  BY <1>3
<1> HIDE DEF area, class, wide, high, d
<1>8. DetectionOf(T, k) \in Detections
  BY <1>2, <1>3, <1>4, <1>6, <1>7 DEF Detections, class
<1>9. Translated(d, n) =
        [box |-> [x |-> left + x, y |-> top + y, width |-> wide, height |-> high], score |-> area,
         class_id |-> class, keypoints |-> <<[x |-> left + x, y |-> top + y]>>]
  <2>1. TranslatePoints(<<[x |-> left, y |-> top]>>, n) = <<[x |-> left + x, y |-> top + y]>>
    BY DEF TranslatePoints, x, y
  <2>2. TranslateBox([x |-> left, y |-> top, width |-> wide, height |-> high], n)
          = [x |-> left + x, y |-> top + y, width |-> wide, height |-> high]
    BY DEF TranslateBox, x, y
  <2>3. /\ d.box = [x |-> left, y |-> top, width |-> wide, height |-> high]
        /\ d.score = area /\ d.class_id = class
        /\ d.keypoints = <<[x |-> left, y |-> top]>>
    BY <1>5
  <2> QED
    BY <2>1, <2>2, <2>3 DEF Translated
<1>10. left + x = x + left /\ top + y = y + top
  BY <1>2, <1>3
<1>11. T # {}
  BY DEF T, Moved, S
<1> QED
  BY <1>1, <1>6, <1>8, <1>9, <1>10, <1>11 DEF d, S

(* VisibleIn lists the objects a tile shows something of.                   *)
LEMMA VisibleObjects ==
  ASSUME NEW tile
  PROVE  LET seen == {k \in DOMAIN Objects : Seen(tile, k) # {}}
             list == VisibleIn(tile)
         IN  /\ list \in Seq(seen)
             /\ \A k \in seen : \E i \in DOMAIN list : list[i] = k
<1> DEFINE D == DOMAIN Objects
           seen == {k \in D : Seen(tile, k) # {}}
           before == {p \in D \X D : p[1] < p[2]}
<1>1. D \in SUBSET Nat /\ IsFiniteSet(D)
  <2> DEFINE Shapes == [pixels : SUBSET (Int \X Int), class_id : Nat]
  <2>1. Objects \in Seq(Shapes)
    BY TilingAssumption
  <2> HIDE DEF Shapes
  <2>2. D = 1 .. Len(Objects) /\ Len(Objects) \in Nat
    BY <2>1
  <2> QED
    BY <2>2, FS_Interval
<1>2. IsFiniteSet(seen)
  BY <1>1, FS_Subset
<1>3. VisibleIn(tile) = InOrder(seen, before)
  BY DEF VisibleIn
<1> HIDE DEF D
<1>4. \A a, b \in D : <<a, b>> \in before <=> a < b
  OBVIOUS
<1>5. \A a \in seen : a \in D /\ a \in Nat
  BY <1>1
<1> HIDE DEF seen, before
<1>6. TotallyOrders(before, seen)
  BY <1>4, <1>5 DEF TotallyOrders
<1>7. /\ VisibleIn(tile) \in Seq(seen)
      /\ \A k \in seen : \E i \in DOMAIN VisibleIn(tile) : VisibleIn(tile)[i] = k
  BY <1>2, <1>3, <1>6, InOrderLists
<1> QED
  BY <1>7 DEF seen, D

(* One more tile pasted.                                                    *)
LEMMA MaskOfOneMore ==
  ASSUME TilingInv, Packed, task = "segmentation", NEW n \in 1 .. Len(windows), merged = n - 1,
         Len(answers) = Len(windows)
  PROVE  /\ answers[n] = Absent => MaskOf(n) = gathered
         /\ answers[n] # Absent => Paste(n) = MaskOf(n)
<1> DEFINE x == windows[n].x
           y == windows[n].y
           Canvas == Box(image.width, image.height)
           Painted(p, m) == \E i \in 1 .. m : answers[i] # Absent /\ p \in Shown(i)
<1>1. /\ image \in Images /\ options \in Options /\ WindowsInv /\ gathered = MaskOf(n - 1)
      /\ answers[n] \in {AnswerTo(windows[n].tile), Absent}
  BY DEF TilingInv, AnswersInv, MergeInv, MaskNow, DetectionsNow
<1>2. /\ Tiled /\ x \in 0 .. image.width - TileWidth /\ y \in 0 .. image.height - TileHeight
      /\ windows[n].tile = CropFrame(x, y)
  BY <1>1, WindowFacts
<1>3. windows[n].tile = [p \in Box(TileWidth, TileHeight) |-> <<x + p[1], y + p[2]>>]
  BY <1>1, <1>2, PackedCrop
<1>4. n \in Nat /\ \A i \in 1 .. n : i = n \/ i \in 1 .. n - 1
  OBVIOUS
<1>5. CASE answers[n] = Absent
  <2>1. \A p : Painted(p, n) <=> Painted(p, n - 1)
    BY <1>4, <1>5
  <2>2. (\E i \in 1 .. n : answers[i] # Absent) <=> (\E i \in 1 .. n - 1 : answers[i] # Absent)
    BY <1>4, <1>5
  <2>3. MaskOf(n) = MaskOf(n - 1)
    BY <2>1, <2>2 DEF MaskOf
  <2> QED
    BY <1>1, <1>5, <2>3
<1>6. CASE answers[n] # Absent
  <2>1. answers[n] = windows[n].tile
    BY <1>1, <1>6 DEF AnswerTo
  <2>2. /\ image.width \in Nat \ {0} /\ image.height \in Nat \ {0}
        /\ TileWidth \in 1 .. image.width /\ TileHeight \in 1 .. image.height
    BY <1>1, <1>2, TiledSizes DEF Tiled
  <2>3. x \in Int /\ y \in Int
    BY <1>2, <2>2
  <2> DEFINE Local(p) == <<p[1] - x, p[2] - y>>
             base == IF gathered = Absent THEN [p \in Canvas |-> Nothing] ELSE gathered
  <2>4. Paste(n) = [p \in DOMAIN base |->
                      IF Local(p) \in DOMAIN answers[n] THEN answers[n][Local(p)] ELSE base[p]]
    BY DEF Paste
  <2>5. base = [p \in Canvas |-> IF Painted(p, n - 1) THEN p ELSE Nothing]
    <3>1. CASE \E i \in 1 .. n - 1 : answers[i] # Absent
      <4>1. gathered = [p \in Canvas |-> IF Painted(p, n - 1) THEN p ELSE Nothing]
        BY <1>1, <3>1 DEF MaskOf
      <4>2. <<0, 0>> \in Canvas
        BY <2>2 DEF Box
      <4>3. gathered # Absent
        <5>1. DOMAIN gathered = Canvas /\ DOMAIN Absent = {}
          BY <4>1 DEF Absent
        <5> HIDE DEF Canvas
        <5> QED
          BY <4>2, <5>1
      <4> HIDE DEF Painted, Canvas
      <4> QED
        BY <4>1, <4>3
    <3>2. CASE ~(\E i \in 1 .. n - 1 : answers[i] # Absent)
      <4>1. gathered = Absent /\ \A p : ~Painted(p, n - 1)
        BY <1>1, <3>2 DEF MaskOf
      <4> HIDE DEF Painted, Canvas
      <4> QED
        BY <4>1
    <3> QED
      BY <3>1, <3>2
  <2> HIDE DEF base
  <2>6. ASSUME NEW p \in Canvas
        PROVE  /\ Local(p) \in DOMAIN answers[n] <=> p \in Shown(n)
               /\ p \in Shown(n) => answers[n][Local(p)] = p
    <3> DEFINE a == p[1]
               b == p[2]
    <3>1. a \in Int /\ b \in Int /\ p = <<a, b>>
      BY DEF Box
    <3>2. p \in Shown(n) <=> x <= a /\ a < x + TileWidth /\ y <= b /\ b < y + TileHeight
      BY DEF Shown
    <3>3. DOMAIN answers[n] = Box(TileWidth, TileHeight)
      BY <1>3, <2>1
    <3>4. <<a - x, b - y>> \in Box(TileWidth, TileHeight)
            <=> a - x \in 0 .. TileWidth - 1 /\ b - y \in 0 .. TileHeight - 1
      BY DEF Box
    <3> HIDE DEF a, b, x, y
    <3>5. a - x \in 0 .. TileWidth - 1 <=> x <= a /\ a < x + TileWidth
      BY <2>2, <2>3, <3>1
    <3>6. b - y \in 0 .. TileHeight - 1 <=> y <= b /\ b < y + TileHeight
      BY <2>2, <2>3, <3>1
    <3>7. <<a - x, b - y>> \in Box(TileWidth, TileHeight) =>
            answers[n][<<a - x, b - y>>] = <<x + (a - x), y + (b - y)>>
      BY <1>3, <2>1
    <3>8. x + (a - x) = a /\ y + (b - y) = b
      BY <2>3, <3>1
    <3> QED
      BY <3>1, <3>2, <3>3, <3>4, <3>5, <3>6, <3>7, <3>8 DEF a, b
  <2>7. \A p : Painted(p, n) <=> Painted(p, n - 1) \/ p \in Shown(n)
    BY <1>4, <1>6
  <2> HIDE DEF Canvas, Local, Painted
  <2>8. DOMAIN base = Canvas /\ \A p \in Canvas : base[p] = IF Painted(p, n - 1) THEN p ELSE Nothing
    BY <2>5
  <2>9. ASSUME NEW p \in Canvas
        PROVE  (IF Local(p) \in DOMAIN answers[n] THEN answers[n][Local(p)] ELSE base[p])
                 = IF Painted(p, n) THEN p ELSE Nothing
    BY <2>6, <2>7, <2>8
  <2>10. Paste(n) = [p \in Canvas |-> IF Painted(p, n) THEN p ELSE Nothing]
    BY <2>4, <2>8, <2>9
  <2>11. \E i \in 1 .. n : answers[i] # Absent
    BY <1>4, <1>6
  <2>12. MaskOf(n) = [p \in Canvas |-> IF Painted(p, n) THEN p ELSE Nothing]
    BY <2>11 DEF MaskOf, Canvas, Painted
  <2> QED
    BY <1>6, <2>10, <2>12
<1> QED
  BY <1>5, <1>6

(* The detections of one more tile added.                                   *)
LEMMA DetectionsOfOneMore ==
  ASSUME TilingInv, Packed, Detects, NEW n \in 1 .. Len(windows), merged = n - 1,
         Len(answers) = Len(windows)
  PROVE  /\ answers[n] = Absent => DetectionsOf(gathered, n)
         /\ answers[n] # Absent =>
              DetectionsOf(GatheredSoFar \o TranslateDetections(answers[n], n), n)
<1> DEFINE D == DOMAIN Objects
           tile == windows[n].tile
           Found(i, k) == Sight(<<i, k>>) # {}
           At(i, k) == DetectionOf(Sight(<<i, k>>), k)
<1>1. /\ image \in Images /\ options \in Options /\ WindowsInv
      /\ DetectionsOf(gathered, n - 1)
      /\ answers[n] \in {AnswerTo(tile), Absent}
  BY DEF TilingInv, AnswersInv, MergeInv, MaskNow, DetectionsNow
<1>2. n \in Nat /\ (\A i \in 1 .. n : i = n \/ i \in 1 .. n - 1) /\ \A i \in 1 .. n - 1 : i \in 1 .. n
  OBVIOUS
<1>3. /\ gathered \in Seq(Detections)
      /\ \A j \in 1 .. Len(gathered) : \E i \in 1 .. n - 1, k \in D :
           answers[i] # Absent /\ Found(i, k) /\ gathered[j] = At(i, k)
      /\ \A i \in 1 .. n - 1, k \in D : answers[i] # Absent /\ Found(i, k) =>
           \E j \in 1 .. Len(gathered) : gathered[j] = At(i, k)
  BY <1>1 DEF DetectionsOf
<1> HIDE DEF D, tile, Found, At
<1>4. CASE answers[n] = Absent
  <2>1. \A j \in 1 .. Len(gathered) : \E i \in 1 .. n, k \in D :
           answers[i] # Absent /\ Found(i, k) /\ gathered[j] = At(i, k)
    BY <1>2, <1>3
  <2>2. \A i \in 1 .. n, k \in D : answers[i] # Absent /\ Found(i, k) =>
           \E j \in 1 .. Len(gathered) : gathered[j] = At(i, k)
    BY <1>2, <1>3, <1>4
  <2> QED
    BY <1>3, <1>4, <2>1, <2>2 DEF DetectionsOf, D, Found, At
<1>5. CASE answers[n] # Absent
  <2> DEFINE seen == {k \in D : Seen(tile, k) # {}}
             list == VisibleIn(tile)
             more == TranslateDetections(answers[n], n)
             all == gathered \o more
  <2>1. list \in Seq(seen) /\ \A k \in seen : \E i \in DOMAIN list : list[i] = k
    BY VisibleObjects DEF D
  <2>2. answers[n] = [i \in DOMAIN list |-> DetectionOf(Seen(tile, list[i]), list[i])]
    BY <1>1, <1>5 DEF AnswerTo, Detects
  <2>3. more = [i \in DOMAIN list |-> Translated(DetectionOf(Seen(tile, list[i]), list[i]), n)]
    BY <2>2 DEF TranslateDetections, Translated
  <2>4. \A k \in seen : /\ Translated(DetectionOf(Seen(tile, k), k), n) = At(n, k)
                        /\ At(n, k) \in Detections /\ Found(n, k)
    BY <1>1, DetectionTranslated DEF D, tile, At, Found
  <2>5. \A k \in D : Found(n, k) => k \in seen
    <3> SUFFICES ASSUME NEW k \in D, Found(n, k) PROVE Seen(tile, k) # {}
      OBVIOUS
    <3>1. Sight(<<n, k>>) = Moved(Seen(tile, k), windows[n].x, windows[n].y)
      BY <1>1, TileShows DEF tile
    <3> QED
      BY <3>1 DEF Found, Moved
  <2>6. \A k \in seen : k \in D
    OBVIOUS
  <2> HIDE DEF seen, list, more
  <2>7. /\ Len(list) \in Nat /\ DOMAIN list = 1 .. Len(list)
        /\ \A i \in 1 .. Len(list) : list[i] \in seen
    BY <2>1
  <2>8. \A i \in 1 .. Len(list) : more[i] = At(n, list[i]) /\ more[i] \in Detections
    BY <2>3, <2>4, <2>7
  <2>9. more \in Seq(Detections) /\ Len(more) = Len(list)
    BY <2>3, <2>7, <2>8
  <2>10. /\ all \in Seq(Detections) /\ Len(all) = Len(gathered) + Len(list)
         /\ \A j \in 1 .. Len(gathered) : all[j] = gathered[j]
         /\ \A j \in 1 .. Len(list) : all[Len(gathered) + j] = more[j]
    <3>1. gathered \in Seq(Detections)
      BY <1>3
    <3> HIDE DEF all
    <3>2. all = gathered \o more
      BY DEF all
    <3>3. all \in Seq(Detections) /\ Len(all) = Len(gathered) + Len(more)
      BY <2>9, <3>1, <3>2, ConcatProperties
    <3>4. \A j \in 1 .. Len(gathered) + Len(more) :
            all[j] = IF j <= Len(gathered) THEN gathered[j] ELSE more[j - Len(gathered)]
      BY <2>9, <3>1, <3>2, ConcatProperties
    <3>5. Len(gathered) \in Nat /\ Len(more) = Len(list) /\ Len(list) \in Nat
      BY <2>7, <2>9, <3>1
    <3>6. \A j \in 1 .. Len(list) : all[Len(gathered) + j] = more[j]
      <4> SUFFICES ASSUME NEW j \in 1 .. Len(list) PROVE all[Len(gathered) + j] = more[j]
        OBVIOUS
      <4> DEFINE i == Len(gathered) + j
      <4>1. i \in 1 .. Len(gathered) + Len(more) /\ ~(i <= Len(gathered)) /\ i - Len(gathered) = j
        BY <3>5
      <4> HIDE DEF i
      <4>2. all[i] = more[j]
        BY <3>4, <4>1
      <4> QED
        BY <4>2 DEF i
    <3> QED
      BY <3>3, <3>4, <3>5, <3>6
  <2>11. Len(gathered) \in Nat
    BY <1>3
  <2> HIDE DEF all
  <2>12. ASSUME NEW j \in 1 .. Len(all)
         PROVE  \E i \in 1 .. n, k \in D : answers[i] # Absent /\ Found(i, k) /\ all[j] = At(i, k)
    <3>1. CASE j \in 1 .. Len(gathered)
      BY <1>2, <1>3, <2>10, <3>1
    <3>2. CASE j \notin 1 .. Len(gathered)
      <4> DEFINE i == j - Len(gathered)
      <4>1. i \in 1 .. Len(list) /\ j = Len(gathered) + i
        BY <2>7, <2>10, <2>11, <3>2
      <4> HIDE DEF i
      <4>2. all[j] = At(n, list[i]) /\ list[i] \in seen
        BY <2>7, <2>8, <2>10, <4>1
      <4> QED
        BY <1>2, <1>5, <2>4, <2>6, <4>2
    <3> QED
      BY <3>1, <3>2
  <2>13. ASSUME NEW i \in 1 .. n, NEW k \in D, answers[i] # Absent, Found(i, k)
         PROVE  \E j \in 1 .. Len(all) : all[j] = At(i, k)
    <3>1. CASE i = n
      <4>1. k \in seen
        BY <2>5, <2>13, <3>1
      <4>2. PICK m \in 1 .. Len(list) : list[m] = k
        BY <2>1, <2>7, <4>1
      <4>3. all[Len(gathered) + m] = At(n, k)
        BY <2>8, <2>10, <4>2
      <4>4. Len(gathered) + m \in 1 .. Len(all)
        BY <2>7, <2>10, <2>11
      <4> QED
        BY <3>1, <4>3, <4>4
    <3>2. CASE i \in 1 .. n - 1
      <4>1. PICK j \in 1 .. Len(gathered) : gathered[j] = At(i, k)
        BY <1>3, <2>13, <3>2
      <4>2. j \in 1 .. Len(all) /\ all[j] = gathered[j]
        BY <2>7, <2>10, <2>11
      <4> QED
        BY <4>1, <4>2
    <3> QED
      BY <1>2, <3>1, <3>2
  <2>14. GatheredSoFar = gathered
    BY DEF GatheredSoFar, Absent
  <2>15. DetectionsOf(all, n)
    BY <2>10, <2>12, <2>13 DEF DetectionsOf, D, Found, At
  <2> QED
    BY <1>5, <2>14, <2>15 DEF all, more
<1> QED
  BY <1>4, <1>5

-----------------------------------------------------------------------------
LEMMA TilingInitHolds == Init => TilingInv
<1> SUFFICES ASSUME Init PROVE TilingInv
  OBVIOUS
<1>1. WindowsInv
  BY DEF Init, WindowsInv
<1>2. AnswersInv
  BY DEF Init, AnswersInv
<1>3. MaskOf(0) = Absent
  BY DEF MaskOf
<1>4. DetectionsOf(Absent, 0)
  BY DEF DetectionsOf, Absent
<1> QED
  BY <1>1, <1>2, <1>3, <1>4 DEF Init, TilingInv, MergeInv, Stages, MaskNow, DetectionsNow

(* The predicates of the invariant that only depend on what stays.          *)
LEMMA WindowsStay ==
  ASSUME UNCHANGED <<args, windows>>
  PROVE  /\ Tiled' = Tiled /\ BuildTileWindows' = BuildTileWindows /\ Answers' = Answers
         /\ Packed' = Packed /\ Detects' = Detects
         /\ \A n \in 1 .. Len(windows) : AnswerTo(windows[n].tile)' = AnswerTo(windows[n].tile)
  BY DEF args, Tiled, BuildTileWindows, Answers, Packed, Detects, AnswerTo, ScoresOf, VisibleIn, Seen,
     DetectionOf, ShouldRunTiled, SourceFound, TileOptionsEnabled, CropPossible, DataSize,
     CropFrame, Pixel, TileWidth, TileHeight

(* Before the merge nothing is owed.                                        *)
LEMMA NothingMerged ==
  merged = 0 /\ gathered = Absent => MaskNow /\ DetectionsNow
  BY DEF MaskNow, MaskOf, DetectionsNow, DetectionsOf, Absent

LEMMA NothingMergedNext ==
  (merged = 0 /\ gathered = Absent)' => MaskNow' /\ DetectionsNow'
  BY NothingMerged, PTL

(* Only the tiles merged and what was gathered change.                      *)
LEMMA MergeStays ==
  ASSUME UNCHANGED <<args, windows, answers>>
  PROVE  /\ MaskNow' <=> gathered' = MaskOf(merged')
         /\ DetectionsNow' <=> DetectionsOf(gathered', merged')
  BY DEF args, MaskNow, MaskOf, DetectionsNow, DetectionsOf, Sight, Shown, TileWidth, TileHeight

(* Each action preserves the invariant.                                     *)
LEMMA UntiledHolds == ASSUME TilingInv, RunUntiled PROVE TilingInv'
<1>1. /\ stage = "called" /\ stage' = "untiled"
      /\ UNCHANGED <<args, windows, answers, gathered, merged, output>>
  BY DEF RunUntiled
<1>2. windows = <<>> /\ merged = 0 /\ gathered = Absent /\ output = Absent
  BY <1>1 DEF TilingInv, WindowsInv, MergeInv
<1>3. WindowsInv'
  BY <1>1, <1>2 DEF WindowsInv
<1>4. AnswersInv'
  BY <1>1, WindowsStay DEF TilingInv, AnswersInv
<1>5. MergeInv'
  BY <1>1, <1>2, NothingMergedNext DEF TilingInv, MergeInv
<1> QED
  BY <1>1, <1>3, <1>4, <1>5 DEF TilingInv, args, Stages

LEMMA BuildHolds == ASSUME TilingInv, Build PROVE TilingInv'
<1>1. /\ stage = "called" /\ ShouldRunTiled /\ windows' = BuildTileWindows
      /\ stage' = IF windows' = <<>> THEN "returned" ELSE "running"
      /\ UNCHANGED <<args, answers, gathered, merged, output>>
  BY DEF Build
<1>2. /\ windows = <<>> /\ merged = 0 /\ gathered = Absent /\ output = Absent
      /\ answers \in Seq(Answers) /\ Len(answers) <= Len(windows)
  BY <1>1 DEF TilingInv, WindowsInv, MergeInv, AnswersInv
<1>3. answers = <<>> /\ Len(answers) = 0
  BY <1>2
<1>4. WindowsInv'
  <2>1. Tiled' = Tiled /\ BuildTileWindows' = BuildTileWindows
    BY <1>1 DEF args, Tiled, BuildTileWindows, ShouldRunTiled, SourceFound, TileOptionsEnabled,
       CropPossible, DataSize, CropFrame, Pixel, TileWidth, TileHeight
  <2>2. CASE CropPossible
    BY <1>1, <2>1, <2>2 DEF WindowsInv, Tiled
  <2>3. CASE ~CropPossible
    BY <1>1, <2>3 DEF WindowsInv, BuildTileWindows
  <2> QED
    BY <2>2, <2>3
<1>5. Len(windows') \in Nat
  <2>1. CASE CropPossible
    BY <1>1, <2>1, WindowsInside DEF TilingInv, Tiled
  <2>2. CASE ~CropPossible
    BY <1>1, <2>2 DEF BuildTileWindows
  <2> QED
    BY <2>1, <2>2
<1>6. AnswersInv'
  BY <1>1, <1>3, <1>5 DEF AnswersInv
<1>7. MergeInv'
  <2>1. stage' = "returned" => merged' = Len(windows') /\ output' = MergeTileOutputs'
    BY <1>1, <1>2 DEF MergeTileOutputs, GatheredSoFar, Absent
  <2> QED
    BY <1>1, <1>2, <1>5, <2>1, NothingMergedNext DEF MergeInv
<1> QED
  BY <1>1, <1>4, <1>6, <1>7 DEF TilingInv, args, Stages

LEMMA RunTileHolds == ASSUME TilingInv, RunTile PROVE TilingInv'
<1> DEFINE n == Len(answers) + 1
<1>1. /\ stage = "running" /\ Len(answers) < Len(windows)
      /\ UNCHANGED <<args, stage, windows, gathered, merged, output>>
  BY DEF RunTile
<1>2. PICK answer \in {AnswerTo(windows[n].tile), Absent} : answers' = Append(answers, answer)
  BY DEF RunTile, MakeTileInput
<1>3. merged = 0 /\ gathered = Absent /\ output = Absent
  BY <1>1 DEF TilingInv, MergeInv
<1>4. WindowsInv'
  BY <1>1, WindowsStay DEF TilingInv, WindowsInv
<1>5. /\ answers \in Seq(Answers)
      /\ \A i \in 1 .. Len(answers) : answers[i] \in {AnswerTo(windows[i].tile), Absent}
  BY DEF TilingInv, AnswersInv
<1>6. Len(windows) \in Nat /\ n \in 1 .. Len(windows)
  <2>1. Len(answers) \in Nat
    BY <1>5
  <2>2. windows # <<>>
    BY <1>1, <2>1
  <2>3. Len(windows) \in Nat
    BY <2>2, WindowsInside DEF TilingInv, WindowsInv
  <2> QED
    BY <1>1, <2>1, <2>3
<1>7. AnswersInv'
  <2>1. answer \in Answers
    BY <1>6 DEF Answers
  <2>2. /\ answers' \in Seq(Answers) /\ Len(answers') = n /\ answers'[n] = answer
        /\ \A i \in 1 .. Len(answers) : answers'[i] = answers[i]
    <3> HIDE DEF Answers
    <3> QED
      BY <1>2, <1>5, <2>1
  <2>3. \A i \in 1 .. n : answers'[i] \in {AnswerTo(windows[i].tile), Absent}
    <3>1. \A i \in 1 .. n : i = n \/ i \in 1 .. Len(answers)
      BY <1>5
    <3> HIDE DEF n
    <3> QED
      BY <1>2, <1>5, <2>2, <3>1
  <2> HIDE DEF n
  <2>4. /\ Answers' = Answers
        /\ \A i \in 1 .. n : AnswerTo(windows[i].tile)' = AnswerTo(windows[i].tile)
    BY <1>1, <1>6, WindowsStay
  <2>5. answers' \in Seq(Answers') /\ Len(answers') <= Len(windows')
    BY <1>1, <1>6, <2>2, <2>4
  <2>6. \A i \in 1 .. Len(answers') : answers'[i] \in {AnswerTo(windows[i].tile)', Absent}
    BY <2>2, <2>3, <2>4
  <2> QED
    BY <1>1, <2>5, <2>6 DEF AnswersInv, Absent
<1>8. MergeInv'
  BY <1>1, <1>3, <1>6, NothingMergedNext DEF MergeInv
<1> QED
  BY <1>1, <1>4, <1>7, <1>8 DEF TilingInv, args

LEMMA WindowsCount == ASSUME TilingInv PROVE Len(windows) \in Nat
<1>1. CASE windows = <<>>
  BY <1>1
<1>2. CASE windows # <<>>
  BY <1>2, WindowsInside DEF TilingInv, WindowsInv
<1> QED
  BY <1>1, <1>2

(* Only the stage changes, not to one that asks for more.                   *)
LEMMA StageHolds ==
  ASSUME TilingInv, UNCHANGED <<args, windows, answers, gathered, merged, output>>,
         stage = "running" \/ stage' = stage,
         stage' \in {"threw", "merging", stage},
         stage' = "merging" => Len(answers) = Len(windows)
  PROVE  TilingInv'
<1>1. WindowsInv'
  BY WindowsStay DEF TilingInv, WindowsInv
<1>2. AnswersInv'
  <2>1. /\ answers \in Seq(Answers) /\ Len(answers) <= Len(windows)
        /\ \A n \in 1 .. Len(answers) : answers[n] \in {AnswerTo(windows[n].tile), Absent}
        /\ Len(answers) \in Nat
        /\ stage' \in {"merging", "returned"} => Len(answers) = Len(windows)
    BY DEF TilingInv, AnswersInv
  <2>2. \A n \in 1 .. Len(answers) : n \in 1 .. Len(windows)
    BY <2>1, WindowsCount
  <2>3. /\ Answers' = Answers
        /\ \A n \in 1 .. Len(windows) : AnswerTo(windows[n].tile)' = AnswerTo(windows[n].tile)
    BY WindowsStay
  <2>4. \A n \in 1 .. Len(answers) : answers'[n] \in {AnswerTo(windows[n].tile)', Absent}
    BY <2>1, <2>2, <2>3
  <2> QED
    BY <2>1, <2>3, <2>4 DEF AnswersInv, Absent
<1>3. MergeInv'
  <2>1. Packed' = Packed /\ Detects' = Detects /\ task' = task
    BY WindowsStay DEF args
  <2>2. (MaskNow' <=> MaskNow) /\ (DetectionsNow' <=> DetectionsNow)
    BY MergeStays DEF MaskNow, DetectionsNow
  <2>3. MergeTileOutputs' = MergeTileOutputs
    BY DEF MergeTileOutputs, GatheredSoFar, args
  <2> QED
    BY <2>1, <2>2, <2>3 DEF TilingInv, MergeInv
<1> QED
  BY <1>1, <1>2, <1>3 DEF TilingInv, args, Stages

LEMMA ThrowHolds == ASSUME TilingInv, TileThrows PROVE TilingInv'
  BY StageHolds DEF TileThrows

LEMMA BeginMergeHolds == ASSUME TilingInv, BeginMerge PROVE TilingInv'
  BY StageHolds DEF BeginMerge

LEMMA MergeTileHolds == ASSUME TilingInv, MergeTile PROVE TilingInv'
<1> DEFINE n == merged + 1
<1>1. /\ stage = "merging" /\ merged < Len(windows) /\ merged' = n
      /\ gathered' = IF answers[n] = Absent THEN gathered ELSE Gather(n)
      /\ UNCHANGED <<args, stage, windows, answers, output>>
  BY DEF MergeTile
<1>2. /\ Len(answers) = Len(windows) /\ merged \in 0 .. Len(windows) /\ Len(windows) \in Nat
  BY <1>1, WindowsCount DEF TilingInv, AnswersInv, MergeInv
<1>3. n \in 1 .. Len(windows) /\ merged = n - 1
  BY <1>1, <1>2
<1>4. WindowsInv' /\ AnswersInv'
  <2>1. WindowsInv'
    BY <1>1, WindowsStay DEF TilingInv, WindowsInv
  <2>2. /\ answers \in Seq(Answers)
        /\ \A i \in 1 .. Len(windows) : answers[i] \in {AnswerTo(windows[i].tile), Absent}
    BY <1>2 DEF TilingInv, AnswersInv
  <2>3. /\ Answers' = Answers
        /\ \A i \in 1 .. Len(windows) : AnswerTo(windows[i].tile)' = AnswerTo(windows[i].tile)
    BY <1>1, WindowsStay
  <2>4. \A i \in 1 .. Len(windows) : answers'[i] \in {AnswerTo(windows[i].tile)', Absent}
    BY <1>1, <2>2, <2>3
  <2>5. Len(answers') = Len(windows') /\ Len(answers') <= Len(windows')
    BY <1>1, <1>2
  <2>6. AnswersInv'
    BY <1>1, <1>2, <2>2, <2>3, <2>4, <2>5 DEF AnswersInv, Absent
  <2> QED
    BY <2>1, <2>6
<1>5. Packed' = Packed /\ Detects' = Detects /\ task' = task
  BY <1>1, WindowsStay DEF args
<1>6. Packed /\ task = "segmentation" => MaskNow'
  <2> SUFFICES ASSUME Packed, task = "segmentation" PROVE MaskNow'
    OBVIOUS
  <2> HIDE DEF n
  <2>1. Gather(n) = Paste(n)
    BY DEF Gather
  <2>2. gathered' = MaskOf(n)
    BY <1>1, <1>2, <1>3, <2>1, MaskOfOneMore
  <2> QED
    BY <1>1, <2>2, MergeStays
<1>7. Packed /\ Detects => DetectionsNow'
  <2> SUFFICES ASSUME Packed, Detects PROVE DetectionsNow'
    OBVIOUS
  <2> HIDE DEF n
  <2>1. Gather(n) = GatheredSoFar \o TranslateDetections(answers[n], n)
    BY DEF Gather, Detects
  <2>2. DetectionsOf(gathered', n)
    BY <1>1, <1>2, <1>3, <2>1, DetectionsOfOneMore
  <2> QED
    BY <1>1, <2>2, MergeStays
<1>8. MergeInv'
  BY <1>1, <1>2, <1>3, <1>5, <1>6, <1>7 DEF MergeInv
<1> QED
  BY <1>1, <1>4, <1>8 DEF TilingInv, args

LEMMA ReturnHolds == ASSUME TilingInv, Return PROVE TilingInv'
<1>1. /\ stage = "merging" /\ merged = Len(windows) /\ output' = MergeTileOutputs
      /\ stage' = "returned"
      /\ UNCHANGED <<args, windows, answers, gathered, merged>>
  BY DEF Return
<1>2. WindowsInv'
  BY <1>1, WindowsStay DEF TilingInv, WindowsInv
<1>3. AnswersInv'
  <2>1. /\ answers \in Seq(Answers) /\ Len(answers) = Len(windows)
        /\ \A i \in 1 .. Len(windows) : answers[i] \in {AnswerTo(windows[i].tile), Absent}
    BY <1>1 DEF TilingInv, AnswersInv
  <2>2. /\ Answers' = Answers
        /\ \A i \in 1 .. Len(windows) : AnswerTo(windows[i].tile)' = AnswerTo(windows[i].tile)
    BY <1>1, WindowsStay
  <2>3. \A i \in 1 .. Len(windows) : answers'[i] \in {AnswerTo(windows[i].tile)', Absent}
    BY <1>1, <2>1, <2>2
  <2>4. Len(answers') <= Len(windows')
    BY <1>1, <2>1, WindowsCount
  <2> QED
    BY <1>1, <2>1, <2>2, <2>3, <2>4 DEF AnswersInv, Absent
<1>4. MergeInv'
  <2>1. Packed' = Packed /\ Detects' = Detects /\ task' = task
    BY <1>1, WindowsStay DEF args
  <2>2. (MaskNow' <=> MaskNow) /\ (DetectionsNow' <=> DetectionsNow)
    BY <1>1, MergeStays DEF MaskNow, DetectionsNow
  <2>3. MergeTileOutputs' = MergeTileOutputs
    BY <1>1 DEF MergeTileOutputs, GatheredSoFar, args
  <2> QED
    BY <1>1, <2>1, <2>2, <2>3 DEF TilingInv, MergeInv
<1> QED
  BY <1>1, <1>2, <1>3, <1>4 DEF TilingInv, args, Stages

(* So does every step.                                                      *)
LEMMA TilingStep == TilingInv /\ [Next]_vars => TilingInv'
<1> SUFFICES ASSUME TilingInv, [Next]_vars PROVE TilingInv'
  OBVIOUS
<1>1. CASE RunUntiled
  BY <1>1, UntiledHolds
<1>2. CASE Build
  BY <1>2, BuildHolds
<1>3. CASE RunTile
  BY <1>3, RunTileHolds
<1>4. CASE TileThrows
  BY <1>4, ThrowHolds
<1>5. CASE BeginMerge
  BY <1>5, BeginMergeHolds
<1>6. CASE MergeTile
  BY <1>6, MergeTileHolds
<1>7. CASE Return
  BY <1>7, ReturnHolds
<1>8. CASE UNCHANGED vars
  BY <1>8, StageHolds DEF vars, TilingInv, AnswersInv
<1> QED
  BY <1>1, <1>2, <1>3, <1>4, <1>5, <1>6, <1>7, <1>8 DEF Next

LEMMA TilingAlways == Spec => []TilingInv
  BY TilingInitHolds, TilingStep, PTL DEF Spec

-----------------------------------------------------------------------------
(* What the invariant says of the crops, the mask and the detections.       *)
LEMMA CropsFit == TilingInv => CropsInsideData
<1> SUFFICES ASSUME TilingInv, NEW n \in 1 .. Len(windows)
             PROVE  windows[n].x + TileWidth + (windows[n].y + TileHeight - 1) * image.width
                      <= DataSize
  BY DEF CropsInsideData
<1> DEFINE x == windows[n].x
           y == windows[n].y
<1>1. /\ Tiled /\ x \in 0 .. image.width - TileWidth /\ y \in 0 .. image.height - TileHeight
      /\ image \in Images /\ options \in Options
  BY WindowFacts DEF TilingInv
<1>2. /\ image.width \in Nat \ {0} /\ image.height \in Nat \ {0} /\ DataSize \in Nat
      /\ TileWidth \in 1 .. image.width /\ TileHeight \in 1 .. image.height
  BY <1>1, TiledSizes DEF Tiled
<1>3. DataSize >= image.height * image.width
  BY <1>1 DEF Tiled, CropPossible
<1>4. \A w, h \in Nat \ {0} : \A tw \in 1 .. w, th \in 1 .. h :
        \A a \in 0 .. w - tw, b \in 0 .. h - th :
          (b + th - 1) * w <= (h - 1) * w /\ a + tw <= w
  OBVIOUS
<1>5. (y + TileHeight - 1) * image.width <= (image.height - 1) * image.width /\ x + TileWidth <= image.width
  BY <1>1, <1>2, <1>4
<1>6. \A w, h \in Nat \ {0} : (h - 1) * w + w = h * w
  OBVIOUS
<1>7. (image.height - 1) * image.width + image.width = image.height * image.width
  BY <1>2, <1>6
<1> DEFINE above == (y + TileHeight - 1) * image.width
           most == (image.height - 1) * image.width
           whole == image.height * image.width
<1>8. /\ above \in Int /\ most \in Int /\ whole \in Int
      /\ x \in Int /\ TileWidth \in Int /\ image.width \in Int /\ DataSize \in Int
  <2>1. \A w, h \in Nat \ {0} : \A tw \in 1 .. w, th \in 1 .. h :
          \A a \in 0 .. w - tw, b \in 0 .. h - th :
            /\ (b + th - 1) * w \in Int /\ (h - 1) * w \in Int /\ h * w \in Int
            /\ a \in Int /\ tw \in Int /\ w \in Int
    OBVIOUS
  <2> QED
    BY <1>1, <1>2, <2>1
<1>9. above <= most /\ x + TileWidth <= image.width /\ most + image.width = whole /\ DataSize >= whole
  BY <1>3, <1>5, <1>7
<1>10. \A a, m, v, u, t, w, d \in Int :
         a <= m /\ u + t <= w /\ m + w = v /\ d >= v => u + t + a <= d
  OBVIOUS
<1> HIDE DEF x, above, most, whole
<1>11. x + TileWidth + above <= DataSize
  BY <1>8, <1>9, <1>10
<1> QED
  BY <1>11 DEF x, above

LEMMA MaskMerged == TilingInv => MaskInPlace
<1> SUFFICES ASSUME TilingInv, stage = "returned", task = "segmentation", output # Absent, Packed,
                    NEW p \in Box(image.width, image.height)
             PROVE  output[p] = IF \E n \in Answered : p \in Shown(n) THEN p ELSE Nothing
  BY DEF MaskInPlace
<1>1. gathered = MaskOf(Len(windows)) /\ output = MergeTileOutputs
  BY DEF TilingInv, MergeInv, MaskNow
<1>2. output = MaskOf(Len(windows))
  BY <1>1 DEF MergeTileOutputs
<1>3. output[p] = IF \E n \in 1 .. Len(windows) : answers[n] # Absent /\ p \in Shown(n) THEN p ELSE Nothing
  BY <1>2 DEF MaskOf
<1>4. (\E n \in Answered : p \in Shown(n))
        <=> \E n \in 1 .. Len(windows) : answers[n] # Absent /\ p \in Shown(n)
  BY DEF Answered
<1> QED
  BY <1>3, <1>4

(* It does not matter which of two boxes comes first.                       *)
LEMMA OverlapsEitherWay ==
  ASSUME NEW a \in [x : Int, y : Int, width : Int, height : Int],
         NEW b \in [x : Int, y : Int, width : Int, height : Int], NEW percent
  PROVE  Overlaps(a, b, percent) <=> Overlaps(b, a, percent)
<1>1. \A i, j \in Int : Larger(i, j) = Larger(j, i) /\ Smaller(i, j) = Smaller(j, i)
  BY DEF Larger, Smaller
<1>2. /\ a.x \in Int /\ a.y \in Int /\ a.x + a.width \in Int /\ a.y + a.height \in Int
      /\ b.x \in Int /\ b.y \in Int /\ b.x + b.width \in Int /\ b.y + b.height \in Int
  OBVIOUS
<1>3. Intersection(a, b) = Intersection(b, a) /\ Intersection(a, b) \in Int
  <2>1. /\ Larger(a.x, b.x) = Larger(b.x, a.x) /\ Larger(a.y, b.y) = Larger(b.y, a.y)
        /\ Smaller(a.x + a.width, b.x + b.width) = Smaller(b.x + b.width, a.x + a.width)
        /\ Smaller(a.y + a.height, b.y + b.height) = Smaller(b.y + b.height, a.y + a.height)
    BY <1>1, <1>2
  <2>2. \A i, j \in Int : Larger(i, j) \in Int /\ Smaller(i, j) \in Int
    BY DEF Larger, Smaller
  <2>3. \A i, j \in Int : Larger(0, i) * Larger(0, j) \in Int
    BY DEF Larger
  <2> DEFINE width == Smaller(a.x + a.width, b.x + b.width) - Larger(a.x, b.x)
             height == Smaller(a.y + a.height, b.y + b.height) - Larger(a.y, b.y)
  <2>4. width \in Int /\ height \in Int
    <3>1. /\ Smaller(a.x + a.width, b.x + b.width) \in Int /\ Larger(a.x, b.x) \in Int
          /\ Smaller(a.y + a.height, b.y + b.height) \in Int /\ Larger(a.y, b.y) \in Int
      BY <1>2, <2>2
    <3> QED
      BY <3>1
  <2>5. /\ Intersection(a, b) = Larger(0, width) * Larger(0, height)
        /\ Intersection(b, a) = Larger(0, width) * Larger(0, height)
    BY <2>1 DEF Intersection
  <2> HIDE DEF width, height
  <2> QED
    BY <2>3, <2>4, <2>5
<1>4. UnionArea(a, b) = UnionArea(b, a)
  <2>1. a.width * a.height \in Int /\ b.width * b.height \in Int
    OBVIOUS
  <2>2. \A i, j, k \in Int : i + j - k = j + i - k
    OBVIOUS
  <2> QED
    BY <1>3, <2>1, <2>2 DEF UnionArea
<1> QED
  BY <1>3, <1>4 DEF Overlaps

LEMMA DetectionsKept == TilingInv => DetectionsMerged
<1> DEFINE seen == {DetectionOf(Sight(s), s[2]) : s \in Sights}
           kept == IF output = Absent THEN <<>> ELSE output
<1> SUFFICES ASSUME TilingInv, stage = "returned", Detects, Packed
             PROVE  /\ \A n \in DOMAIN kept : kept[n] \in seen
                    /\ \A m, n \in DOMAIN kept :
                         m # n => ~Suppresses(kept[m], kept[n], IouThreshold)
                    /\ \A d \in seen : \E n \in DOMAIN kept :
                         \/ kept[n] = d
                         \/ kept[n].score >= d.score /\ Suppresses(kept[n], d, IouThreshold)
  BY DEF DetectionsMerged, Detects
<1>1. /\ DetectionsOf(gathered, Len(windows)) /\ output = MergeTileOutputs
      /\ gathered \in Seq(Detections)
  BY DEF TilingInv, MergeInv, DetectionsNow, DetectionsOf
<1>2. \A d : d \in seen <=> \E i \in 1 .. Len(gathered) : gathered[i] = d
  <2> DEFINE Found(n, k) == answers[n] # Absent /\ Sight(<<n, k>>) # {}
             At(n, k) == DetectionOf(Sight(<<n, k>>), k)
             D == DOMAIN Objects
             W == 1 .. Len(windows)
  <2>1. /\ \A i \in 1 .. Len(gathered) : \E n \in W, k \in D : Found(n, k) /\ gathered[i] = At(n, k)
        /\ \A n \in W, k \in D :
             Found(n, k) => \E i \in 1 .. Len(gathered) : gathered[i] = At(n, k)
    BY <1>1 DEF DetectionsOf
  <2>2. \A n, k : <<n, k>> \in Sights <=> (n \in W /\ k \in D /\ Found(n, k))
    BY DEF Sights, Answered
  <2>3. \A s \in Sights : s = <<s[1], s[2]>>
    BY DEF Sights
  <2>4. ASSUME NEW d \in seen PROVE \E n \in W, k \in D : Found(n, k) /\ d = At(n, k)
    <3>1. PICK s \in Sights : d = DetectionOf(Sight(s), s[2])
      OBVIOUS
    <3>2. d = At(s[1], s[2]) /\ <<s[1], s[2]>> \in Sights
      BY <2>3, <3>1
    <3> HIDE DEF Found, At
    <3> QED
      BY <2>2, <3>2
  <2>5. ASSUME NEW n \in W, NEW k \in D, Found(n, k) PROVE At(n, k) \in seen
    <3>1. <<n, k>> \in Sights
      BY <2>2, <2>5
    <3> QED
      BY <3>1
  <2> HIDE DEF Found, At, seen, D, W
  <2> QED
    BY <2>1, <2>4, <2>5
<1> HIDE DEF seen
<1> DEFINE result == NonMaximumSuppression(gathered, IouThreshold)
<1>3. /\ gathered = <<>> => output = Absent
      /\ gathered # <<>> => output = result
  BY <1>1 DEF MergeTileOutputs, GatheredSoFar, Detects, Absent
<1>4. result \in Seq(Detections) /\ GreedySelection(result, gathered, IouThreshold)
  <2>1. \A c \in Detections : c.score \in Int
    BY DEF Detections
  <2> QED
    BY <1>1, <2>1, SuppressionIsGreedy
<1> HIDE DEF result
<1>5. CASE gathered = <<>>
  BY <1>2, <1>3, <1>5
<1>6. CASE gathered # <<>>
  <2>1. kept = result
    BY <1>3, <1>6 DEF Absent
  <2>2. DOMAIN kept = 1 .. Len(kept) /\ Len(kept) \in Nat
    BY <1>4, <2>1
  <2>3. \A n \in DOMAIN kept : kept[n] \in Detections
    BY <1>4, <2>1
  <2> HIDE DEF kept
  <2>4. \A n \in DOMAIN kept : kept[n] \in seen
    BY <1>2, <1>4, <2>1, <2>2 DEF GreedySelection
  <2>5. \A m, n \in DOMAIN kept : m < n => ~Suppresses(kept[m], kept[n], IouThreshold)
    BY <1>4, <2>1, <2>2 DEF GreedySelection, Suppresses
  <2>6. ASSUME NEW m \in DOMAIN kept, NEW n \in DOMAIN kept, m # n
        PROVE  ~Suppresses(kept[m], kept[n], IouThreshold)
    <3>1. CASE m < n
      BY <2>5, <3>1
    <3>2. CASE n < m
      <4>1. ~Suppresses(kept[n], kept[m], IouThreshold)
        BY <2>5, <3>2
      <4>2. /\ kept[m].box \in [x : Int, y : Int, width : Int, height : Int]
            /\ kept[n].box \in [x : Int, y : Int, width : Int, height : Int]
        BY <2>3 DEF Detections
      <4> QED
        BY <4>1, <4>2, OverlapsEitherWay DEF Suppresses
    <3> QED
      BY <2>2, <2>6, <3>1, <3>2
  <2>7. ASSUME NEW d \in seen
        PROVE  \E n \in DOMAIN kept :
                 \/ kept[n] = d
                 \/ kept[n].score >= d.score /\ Suppresses(kept[n], d, IouThreshold)
    <3>1. PICK i \in 1 .. Len(gathered) : gathered[i] = d
      BY <1>2
    <3>2. \/ \E n \in 1 .. Len(result) : result[n] = gathered[i]
          \/ \E n \in 1 .. Len(result) :
               /\ result[n].score >= gathered[i].score
               /\ result[n].class_id = gathered[i].class_id
               /\ Overlaps(result[n].box, gathered[i].box, IouThreshold)
      BY <1>4 DEF GreedySelection
    <3> QED
      BY <2>1, <2>2, <3>1, <3>2 DEF Suppresses
  <2> QED
    BY <2>4, <2>6, <2>7
<1> QED
  BY <1>5, <1>6

LEMMA TilingTypes == TilingInv => TypeOK
  BY WindowsCount DEF TilingInv, AnswersInv, MergeInv, TypeOK

(* The type invariant of the tiled run: no more tiles answer and no more    *)
(* are merged than there are windows.                                       *)
THEOREM TilingTyped == Spec => []TypeOK
  BY TilingAlways, TilingTypes, PTL

(* No tile is cropped beyond the data of its frame, whatever the sizes, the *)
(* overlaps and the stride.                                                 *)
THEOREM CropsStayInside == Spec => []CropsInsideData
  BY TilingAlways, CropsFit, PTL

(* The merged mask of a packed frame has each pixel some tile with a mask   *)
(* covers in its place and nothing elsewhere.                               *)
THEOREM MasksInPlace == Spec => []MaskInPlace
  BY TilingAlways, MaskMerged, PTL

(* The detections returned for a packed frame are those of its tiles, in    *)
(* the frame, none twice, and each one left out overlaps a better one.      *)
THEOREM DetectionsRight == Spec => []DetectionsMerged
  BY TilingAlways, DetectionsKept, PTL
=============================================================================
