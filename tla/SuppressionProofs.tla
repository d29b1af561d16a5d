-------------------------- MODULE SuppressionProofs -------------------------
(***************************************************************************)
(* What non_maximum_suppression selects, whatever the candidates: a greedy *)
(* selection of them.  The tiled run and the pipelines rest on it.         *)
(***************************************************************************)
EXTENDS Suppression, FiniteSetTheorems, WellFoundedInduction, TLAPS

(* The smallest element of a set of naturals.                               *)
LEMMA Smallest == ASSUME NEW T \in SUBSET Nat, T # {} PROVE \E x \in T : \A y \in T : x <= y
<1>1. PICK x \in T : \A y \in T : ~(<<y, x>> \in OpToRel(<, Nat))
  BY NatLessThanWellFounded, WFMin
<1>2. \A y \in T : ~(y < x)
  BY <1>1 DEF OpToRel
<1> QED
  BY <1>2

-----------------------------------------------------------------------------
(* Of a finite set with a strict total order, InOrder lists every element   *)
(* once, the smaller before the larger.  The place of an element is the     *)
(* number of those before it: it grows along the order, so no two share a   *)
(* place, and as many places as elements leave none of them empty.          *)
TotallyOrders(before, S) ==
  /\ \A a \in S : <<a, a>> \notin before
  /\ \A a, b, c \in S : <<a, b>> \in before /\ <<b, c>> \in before => <<a, c>> \in before
  /\ \A a, b \in S : a = b \/ <<a, b>> \in before \/ <<b, a>> \in before

(* InOrder lists each element once, in the order given.                     *)
LEMMA InOrderLists ==
  ASSUME NEW S, IsFiniteSet(S), NEW before, TotallyOrders(before, S)
  PROVE  LET s == InOrder(S, before) IN
         /\ s \in Seq(S) /\ Len(s) = Cardinality(S) /\ DOMAIN s = 1 .. Cardinality(S)
         /\ \A c \in S : \E k \in DOMAIN s : s[k] = c
         /\ \A j, k \in DOMAIN s : j < k => <<s[j], s[k]>> \in before
<1> DEFINE Below(c) == {b \in S : <<b, c>> \in before}
           n == Cardinality(S)
           place == [c \in S |-> Cardinality(Below(c)) + 1]
           s == InOrder(S, before)
<1>1. n \in Nat
  BY FS_CardinalityType
<1>2. ASSUME NEW c \in S
      PROVE  /\ IsFiniteSet(Below(c)) /\ Cardinality(Below(c)) \in Nat
             /\ Cardinality(Below(c)) < n
  <2>1. Below(c) \in SUBSET S /\ c \notin Below(c)
    BY DEF TotallyOrders
  <2>2. IsFiniteSet(Below(c)) /\ Cardinality(Below(c)) <= n /\ (n = Cardinality(Below(c)) => S = Below(c))
    BY <2>1, FS_Subset
  <2> HIDE DEF Below, n
  <2>3. Cardinality(Below(c)) \in Nat
    BY <2>2, FS_CardinalityType
  <2> QED
    BY <1>1, <2>1, <2>2, <2>3
<1>3. ASSUME NEW a \in S, NEW b \in S, <<a, b>> \in before
      PROVE  Cardinality(Below(a)) < Cardinality(Below(b))
  <2>1. Below(a) \in SUBSET Below(b) /\ a \notin Below(a) /\ a \in Below(b)
    BY <1>3 DEF TotallyOrders
  <2> HIDE DEF Below
  <2>2. Cardinality(Below(a)) <= Cardinality(Below(b))
        /\ (Cardinality(Below(b)) = Cardinality(Below(a)) => Below(b) = Below(a))
    BY <1>2, <2>1, FS_Subset
  <2> QED
    BY <1>2, <2>1, <2>2
<1>4. place \in [S -> 1 .. n]
  <2>1. ASSUME NEW c \in S PROVE Cardinality(Below(c)) + 1 \in 1 .. n
    <3> HIDE DEF Below, n
    <3> QED
      BY <1>1, <1>2
  <2> HIDE DEF Below, n
  <2> QED
    BY <2>1
<1>5. \A a, b \in S : a # b => place[a] # place[b]
  <2> SUFFICES ASSUME NEW a \in S, NEW b \in S, a # b PROVE place[a] # place[b]
    OBVIOUS
  <2>1. <<a, b>> \in before \/ <<b, a>> \in before
    BY DEF TotallyOrders
  <2> HIDE DEF Below, n
  <2>2. Cardinality(Below(a)) # Cardinality(Below(b))
        /\ Cardinality(Below(a)) \in Nat /\ Cardinality(Below(b)) \in Nat
    BY <1>2, <1>3, <2>1
  <2> QED
    BY <2>2
<1>6. \A k \in 1 .. n : \E c \in S : place[c] = k
  <2> HIDE DEF place, n
  <2>1. place \in Injection(S, 1 .. n)
    BY <1>4, <1>5 DEF Injection, IsInjective
  <2>2. IsFiniteSet(1 .. n) /\ Cardinality(1 .. n) = n
    BY <1>1, FS_Interval
  <2>3. place \in Surjection(S, 1 .. n)
    BY <2>1, <2>2, FS_Injection DEF n
  <2> QED
    BY <2>3 DEF Surjection
<1>7. s = [k \in 1 .. n |-> CHOOSE c \in S : Cardinality(Below(c)) = k - 1]
  BY DEF InOrder
<1>8. ASSUME NEW k \in 1 .. n PROVE s[k] \in S /\ place[s[k]] = k
  <2>1. PICK c \in S : Cardinality(Below(c)) + 1 = k
    BY <1>6
  <2> HIDE DEF Below, n
  <2>2. Cardinality(Below(c)) = k - 1
    BY <1>1, <1>2, <2>1
  <2> DEFINE d == CHOOSE c_1 \in S : Cardinality(Below(c_1)) = k - 1
  <2>3. d \in S /\ Cardinality(Below(d)) = k - 1
    BY <2>2
  <2>4. s[k] = d
    BY <1>7
  <2> HIDE DEF d, s
  <2> QED
    BY <1>1, <2>3, <2>4
<1> HIDE DEF s
<1>9. /\ DOMAIN s = 1 .. n /\ s \in [1 .. n -> S]
  <2> HIDE DEF n, Below, place
  <2>1. DOMAIN s = 1 .. n /\ s = [k \in 1 .. n |-> s[k]]
    BY <1>7
  <2> QED
    BY <1>8, <2>1
<1>10. s \in Seq(S) /\ Len(s) = n
  <2> HIDE DEF n, Below, place
  <2> QED
    BY <1>1, <1>9
<1>11. ASSUME NEW c \in S PROVE \E k \in DOMAIN s : s[k] = c
  <2> HIDE DEF n, Below, place
  <2>1. place[c] \in 1 .. n
    BY <1>4
  <2>2. s[place[c]] \in S /\ place[s[place[c]]] = place[c]
    BY <1>8, <2>1
  <2> QED
    BY <1>5, <1>9, <2>1, <2>2
<1>12. ASSUME NEW j \in DOMAIN s, NEW k \in DOMAIN s, j < k PROVE <<s[j], s[k]>> \in before
  <2> DEFINE a == s[j]
             b == s[k]
  <2>1. a \in S /\ b \in S /\ place[a] = j /\ place[b] = k
    BY <1>8, <1>9
  <2>2. Cardinality(Below(a)) + 1 = j /\ Cardinality(Below(b)) + 1 = k
    BY <2>1
  <2> HIDE DEF Below, n, place, a, b
  <2>3. Cardinality(Below(a)) \in Nat /\ Cardinality(Below(b)) \in Nat
    BY <1>2, <2>1
  <2>4. a # b /\ ~(<<b, a>> \in before)
    BY <1>3, <1>12, <2>1, <2>2, <2>3
  <2>5. <<a, b>> \in before
    BY <2>1, <2>4 DEF TotallyOrders
  <2> QED
    BY <2>5 DEF a, b
<1>13. /\ s \in Seq(S) /\ Len(s) = n /\ DOMAIN s = 1 .. n
       /\ \A c \in S : \E k \in DOMAIN s : s[k] = c
       /\ \A j, k \in DOMAIN s : j < k => <<s[j], s[k]>> \in before
  BY <1>9, <1>10, <1>11, <1>12
<1> QED
  BY <1>13 DEF s

-----------------------------------------------------------------------------
(* The candidates by falling score.                                         *)
LEMMA ByScoreSorts ==
  ASSUME NEW Candidates, \A c \in Candidates : c.score \in Int,
         NEW s \in Seq(Candidates)
  PROVE  LET r == ByScore(s) IN
         /\ r \in Seq(Candidates) /\ Len(r) = Len(s)
         /\ \A n \in 1 .. Len(r) : \E c \in 1 .. Len(s) : s[c] = r[n]
         /\ \A c \in 1 .. Len(s) : \E n \in 1 .. Len(r) : r[n] = s[c]
         /\ \A m, n \in 1 .. Len(r) : m < n => r[m].score >= r[n].score
<1> DEFINE N == Len(s)
           place == InOrder(DOMAIN s, Precedes(s))
<1>1. N \in Nat /\ DOMAIN s = 1 .. N /\ \A n \in 1 .. N : s[n] \in Candidates
  OBVIOUS
<1>2. \A a, b \in 1 .. N : <<a, b>> \in Precedes(s) <=>
         s[a].score > s[b].score \/ (s[a].score = s[b].score /\ a < b)
  BY <1>1 DEF Precedes
<1>3. \A a \in 1 .. N : s[a].score \in Int
  BY <1>1
<1>4. TotallyOrders(Precedes(s), 1 .. N)
  BY <1>1, <1>2, <1>3 DEF TotallyOrders
<1>5. IsFiniteSet(1 .. N) /\ Cardinality(1 .. N) = N
  BY <1>1, FS_Interval
<1>6. /\ place \in Seq(1 .. N) /\ Len(place) = N /\ DOMAIN place = 1 .. N
      /\ \A c \in 1 .. N : \E k \in 1 .. N : place[k] = c
      /\ \A j, k \in 1 .. N : j < k => <<place[j], place[k]>> \in Precedes(s)
  <2> DEFINE D == 1 .. N
  <2> HIDE DEF N
  <2>1. place = InOrder(D, Precedes(s))
    BY <1>1
  <2> DEFINE B == Precedes(s)
  <2> HIDE DEF D, place, B
  <2>5. IsFiniteSet(D) /\ TotallyOrders(B, D) /\ place = InOrder(D, B)
    BY <1>4, <1>5, <2>1 DEF D, B
  <2>2. place \in Seq(D) /\ Len(place) = Cardinality(D) /\ DOMAIN place = 1 .. Cardinality(D)
        /\ (\A c \in D : \E k \in DOMAIN place : place[k] = c)
        /\ (\A j, k \in DOMAIN place : j < k => <<place[j], place[k]>> \in B)
    BY <2>5, InOrderLists
  <2> QED
    BY <1>5, <2>2 DEF D, B
<1> DEFINE r == [n \in 1 .. N |-> s[place[n]]]
<1>7. ByScore(s) = r
  BY <1>1 DEF ByScore
<1> HIDE DEF N, place
<1>8. \A k \in 1 .. N : place[k] \in 1 .. N
  BY <1>1, <1>6
<1>9. r \in Seq(Candidates) /\ Len(r) = N
  BY <1>1, <1>8
<1>10. \A n \in 1 .. N : r[n] = s[place[n]]
  OBVIOUS
<1> HIDE DEF r
<1>11. \A n \in 1 .. N : \E c \in 1 .. N : s[c] = r[n]
  BY <1>8, <1>10
<1>12. \A c \in 1 .. N : \E n \in 1 .. N : r[n] = s[c]
  BY <1>6, <1>10
<1>13. ASSUME NEW m \in 1 .. N, NEW n \in 1 .. N, m < n PROVE r[m].score >= r[n].score
  <2>1. <<place[m], place[n]>> \in Precedes(s)
    BY <1>6, <1>13
  <2>2. place[m] \in 1 .. N /\ place[n] \in 1 .. N
    BY <1>8
  <2>3. s[place[m]].score \in Int /\ s[place[n]].score \in Int
    BY <1>3, <2>2
  <2>4. s[place[m]].score > s[place[n]].score \/ s[place[m]].score = s[place[n]].score
    BY <1>2, <2>1, <2>2
  <2>5. s[place[m]].score >= s[place[n]].score
    BY <2>3, <2>4
  <2> QED
    BY <1>10, <2>5
<1> QED
  BY <1>7, <1>9, <1>11, <1>12, <1>13 DEF N

(* The recursive function of the loop exists: it exists for every length,   *)
(* or there would be a least length for which it does not.                  *)
LEMMA KeptOfTurns ==
  ASSUME NEW sorted, Len(sorted) \in Nat, NEW percent
  PROVE  LET kept == KeptOf(sorted, percent) IN
         /\ kept[0] = <<>>
         /\ \A n \in 1 .. Len(sorted) :
              kept[n] = KeepUnlessSuppressed(kept[n - 1], sorted[n], percent)
<1> DEFINE N == Len(sorted)
           Turns(f, m) == f = [n \in 0 .. m |-> IF n = 0 THEN <<>>
                                ELSE KeepUnlessSuppressed(f[n - 1], sorted[n], percent)]
           Missing == {m \in Nat : \A f : ~Turns(f, m)}
<1>1. Missing = {}
  <2> SUFFICES ASSUME Missing # {} PROVE FALSE
    OBVIOUS
  <2>1. PICK x \in Missing : \A y \in Missing : x <= y
    BY Smallest
  <2>2. x \in Nat /\ \A f : ~Turns(f, x)
    OBVIOUS
  <2>3. x # 0
    <3> DEFINE f == [n \in 0 .. 0 |-> <<>>]
    <3>1. Turns(f, 0)
      OBVIOUS
    <3> QED
      BY <2>2, <3>1
  <2>4. x - 1 \in Nat /\ x - 1 \notin Missing
    BY <2>1, <2>2, <2>3
  <2>5. PICK g : Turns(g, x - 1)
    BY <2>4
  <2> DEFINE h == [n \in 0 .. x |-> IF n = x THEN KeepUnlessSuppressed(g[x - 1], sorted[x], percent)
                                   ELSE g[n]]
  <2>6. \A n \in 0 .. x - 1 : h[n] = g[n]
    BY <2>2
  <2>7. \A n \in 0 .. x : h[n] = IF n = 0 THEN <<>>
                                ELSE KeepUnlessSuppressed(h[n - 1], sorted[n], percent)
    <3> SUFFICES ASSUME NEW n \in 0 .. x
                 PROVE  h[n] = IF n = 0 THEN <<>>
                               ELSE KeepUnlessSuppressed(h[n - 1], sorted[n], percent)
      OBVIOUS
    <3>1. CASE n = x
      <4>1. h[x - 1] = g[x - 1] /\ h[x] = KeepUnlessSuppressed(g[x - 1], sorted[x], percent)
        BY <2>2, <2>3, <2>6
      <4> HIDE DEF h
      <4> QED
        BY <2>3, <3>1, <4>1
    <3>2. CASE n # x
      <4>1. n \in 0 .. x - 1 /\ (n # 0 => n - 1 \in 0 .. x - 1)
        BY <2>2, <3>2
      <4>2. g[n] = IF n = 0 THEN <<>>
                   ELSE KeepUnlessSuppressed(g[n - 1], sorted[n], percent)
        BY <2>5, <4>1
      <4> HIDE DEF h
      <4> QED
        BY <2>6, <4>1, <4>2
    <3> QED
      BY <3>1, <3>2
  <2>8. Turns(h, x)
    <3>1. h = [n \in 0 .. x |-> h[n]]
      OBVIOUS
    <3> HIDE DEF h
    <3> QED
      BY <2>7, <3>1
  <2> QED
    BY <2>2, <2>8
<1>2. \E f : Turns(f, N)
  BY <1>1
<1>3. Turns(KeptOf(sorted, percent), N)
  BY <1>2 DEF KeptOf
<1> DEFINE kept == KeptOf(sorted, percent)
<1> HIDE DEF kept
<1>4. Turns(kept, N)
  BY <1>3 DEF kept
<1>5. kept[0] = <<>> /\ \A n \in 1 .. N : kept[n] = KeepUnlessSuppressed(kept[n - 1], sorted[n], percent)
  BY <1>4
<1> QED
  BY <1>5 DEF kept

(* What is kept of the first n candidates.                                  *)
Selects(kept, sorted, n, percent) ==
  /\ \A i \in 1 .. Len(kept) : \E c \in 1 .. n : sorted[c] = kept[i]
  /\ \A i, j \in 1 .. Len(kept) : i < j =>
       kept[i].score >= kept[j].score /\ ~Suppresses(kept[i], kept[j], percent)
  /\ \A c \in 1 .. n : \E i \in 1 .. Len(kept) :
       \/ kept[i] = sorted[c]
       \/ kept[i].score >= sorted[c].score /\ Suppresses(kept[i], sorted[c], percent)

(* One more turn of the loop keeps the selection greedy.                    *)
LEMMA SelectsOneMore ==
  ASSUME NEW Candidates, \A c \in Candidates : c.score \in Int,
         NEW sorted \in Seq(Candidates), NEW percent,
         \A c, d \in 1 .. Len(sorted) : c < d => sorted[c].score >= sorted[d].score,
         NEW n \in 1 .. Len(sorted), NEW kept \in Seq(Candidates),
         Selects(kept, sorted, n - 1, percent)
  PROVE  LET more == KeepUnlessSuppressed(kept, sorted[n], percent)
         IN  more \in Seq(Candidates) /\ Selects(more, sorted, n, percent)
<1> DEFINE new == sorted[n]
           k == Len(kept)
<1>1. /\ new \in Candidates /\ k \in Nat /\ DOMAIN kept = 1 .. k
      /\ \A c \in 1 .. Len(sorted) : sorted[c] \in Candidates /\ sorted[c].score \in Int
      /\ \A i \in 1 .. k : kept[i] \in Candidates /\ kept[i].score \in Int
  OBVIOUS
<1>2. \A i \in 1 .. k : kept[i].score >= new.score
  <2> SUFFICES ASSUME NEW i \in 1 .. k PROVE kept[i].score >= new.score
    OBVIOUS
  <2>1. PICK c \in 1 .. n - 1 : sorted[c] = kept[i]
    BY DEF Selects
  <2>2. c \in 1 .. Len(sorted) /\ c < n
    OBVIOUS
  <2> QED
    BY <2>1, <2>2
<1>3. CASE \E i \in 1 .. k : Suppresses(kept[i], new, percent)
  <2>1. KeepUnlessSuppressed(kept, new, percent) = kept
    BY <1>1, <1>3 DEF KeepUnlessSuppressed
  <2>2. PICK i \in 1 .. k : Suppresses(kept[i], new, percent)
    BY <1>3
  <2> HIDE DEF k, new
  <2>3. ASSUME NEW c \in 1 .. n
        PROVE  \E h \in 1 .. k :
                 \/ kept[h] = sorted[c]
                 \/ kept[h].score >= sorted[c].score /\ Suppresses(kept[h], sorted[c], percent)
    <3>1. CASE c = n
      BY <1>2, <2>2, <3>1 DEF new
    <3>2. CASE c # n
      <4>1. c \in 1 .. n - 1
        BY <3>2
      <4> QED
        BY <4>1 DEF Selects, k
    <3> QED
      BY <3>1, <3>2
  <2>4. \A h \in 1 .. k : \E c \in 1 .. n : sorted[c] = kept[h]
    <3>1. \A h \in 1 .. k : \E c \in 1 .. n - 1 : sorted[c] = kept[h]
      BY DEF Selects, k
    <3> QED
      BY <3>1
  <2>5. Selects(kept, sorted, n, percent)
    BY <2>3, <2>4 DEF Selects, k
  <2> QED
    BY <2>1, <2>5 DEF new
<1>4. CASE ~(\E i \in 1 .. k : Suppresses(kept[i], new, percent))
  <2> DEFINE more == Append(kept, new)
  <2>1. KeepUnlessSuppressed(kept, new, percent) = more
    BY <1>1, <1>4 DEF KeepUnlessSuppressed
  <2>2. /\ more \in Seq(Candidates) /\ Len(more) = k + 1 /\ more[k + 1] = new
        /\ \A i \in 1 .. k : more[i] = kept[i]
    BY <1>1
  <2> HIDE DEF k, new, more
  <2>3. ASSUME NEW i \in 1 .. k + 1 PROVE \E c \in 1 .. n : sorted[c] = more[i]
    <3>1. CASE i = k + 1
      BY <2>2, <3>1 DEF new
    <3>2. CASE i \in 1 .. k
      <4>1. PICK c \in 1 .. n - 1 : sorted[c] = kept[i]
        BY <3>2 DEF Selects, k
      <4> QED
        BY <2>2, <3>2, <4>1
    <3> QED
      BY <1>1, <3>1, <3>2
  <2>4. ASSUME NEW i \in 1 .. k + 1, NEW j \in 1 .. k + 1, i < j
        PROVE  more[i].score >= more[j].score /\ ~Suppresses(more[i], more[j], percent)
    <3>1. i \in 1 .. k /\ more[i] = kept[i]
      BY <1>1, <2>2, <2>4
    <3>2. CASE j = k + 1
      BY <1>2, <1>4, <2>2, <3>1, <3>2
    <3>3. CASE j # k + 1
      <4>1. j \in 1 .. k /\ more[j] = kept[j]
        BY <1>1, <2>2, <3>3
      <4>2. kept[i].score >= kept[j].score /\ ~Suppresses(kept[i], kept[j], percent)
        BY <2>4, <3>1, <4>1 DEF Selects, k
      <4> QED
        BY <3>1, <4>1, <4>2
    <3> QED
      BY <3>2, <3>3
  <2>5. ASSUME NEW c \in 1 .. n
        PROVE  \E h \in 1 .. k + 1 :
                 \/ more[h] = sorted[c]
                 \/ more[h].score >= sorted[c].score /\ Suppresses(more[h], sorted[c], percent)
    <3>1. CASE c = n
      BY <1>1, <2>2, <3>1 DEF new
    <3>2. CASE c # n
      <4>1. c \in 1 .. n - 1
        BY <3>2
      <4>2. PICK h \in 1 .. k :
                 \/ kept[h] = sorted[c]
                 \/ kept[h].score >= sorted[c].score /\ Suppresses(kept[h], sorted[c], percent)
        BY <4>1 DEF Selects, k
      <4>3. h \in 1 .. k + 1 /\ more[h] = kept[h]
        BY <1>1, <2>2
      <4> QED
        BY <4>2, <4>3
    <3> QED
      BY <3>1, <3>2
  <2>6. Selects(more, sorted, n, percent)
    BY <2>2, <2>3, <2>4, <2>5 DEF Selects
  <2> QED
    BY <2>1, <2>2, <2>6 DEF new
<1> QED
  BY <1>3, <1>4

(* Non-maximum suppression selects greedily, whatever the candidates: by    *)
(* falling score, none kept that one before it suppresses, and for each     *)
(* left out one as good that suppresses it.                                 *)
THEOREM SuppressionIsGreedy ==
  ASSUME NEW Candidates, \A c \in Candidates : c.score \in Int,
         NEW candidates \in Seq(Candidates), NEW percent
  PROVE  LET kept == NonMaximumSuppression(candidates, percent)
         IN  kept \in Seq(Candidates) /\ GreedySelection(kept, candidates, percent)
<1> DEFINE sorted == ByScore(candidates)
           kept == KeptOf(sorted, percent)
           N == Len(sorted)
<1>1. /\ sorted \in Seq(Candidates) /\ N = Len(candidates)
      /\ \A n \in 1 .. N : \E c \in 1 .. Len(candidates) : candidates[c] = sorted[n]
      /\ \A c \in 1 .. Len(candidates) : \E n \in 1 .. N : sorted[n] = candidates[c]
      /\ \A m, n \in 1 .. N : m < n => sorted[m].score >= sorted[n].score
  BY ByScoreSorts
<1> HIDE DEF sorted
<1>2. N \in Nat
  BY <1>1
<1>3. /\ kept[0] = <<>>
      /\ \A n \in 1 .. N : kept[n] = KeepUnlessSuppressed(kept[n - 1], sorted[n], percent)
  BY <1>2, KeptOfTurns
<1> HIDE DEF kept
<1> DEFINE Good(n) == kept[n] \in Seq(Candidates) /\ Selects(kept[n], sorted, n, percent)
           Bad == {n \in 0 .. N : ~Good(n)}
<1>4. Bad = {}
  <2> SUFFICES ASSUME Bad # {} PROVE FALSE
    OBVIOUS
  <2>1. PICK n \in Bad : \A m \in Bad : n <= m
    <3>1. Bad \in SUBSET Nat
      OBVIOUS
    <3> HIDE DEF Bad
    <3> QED
      BY <3>1, Smallest
  <2>2. n \in 0 .. N /\ ~Good(n)
    OBVIOUS
  <2>3. Good(0)
    <3>1. kept[0] \in Seq(Candidates) /\ Len(kept[0]) = 0
      BY <1>3
    <3> QED
      BY <3>1 DEF Selects
  <2>4. n \in 1 .. N
    BY <1>2, <2>2, <2>3
  <2>5. Good(n - 1)
    BY <1>2, <2>1, <2>4
  <2>6. Good(n)
    <3>1. kept[n] = KeepUnlessSuppressed(kept[n - 1], sorted[n], percent)
      BY <1>3, <2>4
    <3>2. kept[n - 1] \in Seq(Candidates) /\ Selects(kept[n - 1], sorted, n - 1, percent)
      BY <2>5
    <3> HIDE DEF Good
    <3> DEFINE last == kept[n - 1]
    <3>4. /\ last \in Seq(Candidates) /\ Selects(last, sorted, n - 1, percent)
          /\ sorted \in Seq(Candidates) /\ n \in 1 .. Len(sorted)
          /\ kept[n] = KeepUnlessSuppressed(last, sorted[n], percent)
          /\ \A c, d \in 1 .. Len(sorted) : c < d => sorted[c].score >= sorted[d].score
      BY <1>1, <2>4, <3>1, <3>2
    <3> HIDE DEF last
    <3>3. kept[n] \in Seq(Candidates) /\ Selects(kept[n], sorted, n, percent)
      BY <3>4, SelectsOneMore
    <3> QED
      BY <3>3 DEF Good
  <2> QED
    BY <2>2, <2>6
<1> DEFINE result == kept[N]
<1>5. result \in Seq(Candidates) /\ Selects(result, sorted, N, percent)
  BY <1>2, <1>4
<1>6. NonMaximumSuppression(candidates, percent) = result
  BY DEF NonMaximumSuppression, kept, sorted
<1> HIDE DEF result
<1>7. GreedySelection(result, candidates, percent)
  <2>1. \A i \in 1 .. Len(result) : \E c \in 1 .. Len(candidates) : candidates[c] = result[i]
    <3> SUFFICES ASSUME NEW i \in 1 .. Len(result)
                 PROVE  \E c \in 1 .. Len(candidates) : candidates[c] = result[i]
      OBVIOUS
    <3>1. PICK n \in 1 .. N : sorted[n] = result[i]
      BY <1>5 DEF Selects
    <3> QED
      BY <1>1, <3>1
  <2>2. \A m, n \in 1 .. Len(result) : m < n =>
          /\ result[m].score >= result[n].score
          /\ ~(/\ result[m].class_id = result[n].class_id
               /\ Overlaps(result[m].box, result[n].box, percent))
    BY <1>5 DEF Selects, Suppresses
  <2>3. ASSUME NEW c \in 1 .. Len(candidates)
        PROVE  \/ \E n \in 1 .. Len(result) : result[n] = candidates[c]
               \/ \E n \in 1 .. Len(result) :
                    /\ result[n].score >= candidates[c].score
                    /\ result[n].class_id = candidates[c].class_id
                    /\ Overlaps(result[n].box, candidates[c].box, percent)
    <3>1. PICK n \in 1 .. N : sorted[n] = candidates[c]
      BY <1>1
    <3>2. PICK i \in 1 .. Len(result) :
            \/ result[i] = sorted[n]
            \/ result[i].score >= sorted[n].score /\ Suppresses(result[i], sorted[n], percent)
      BY <1>5 DEF Selects
    <3> QED
      BY <3>1, <3>2 DEF Suppresses
  <2> QED
    BY <2>1, <2>2, <2>3 DEF GreedySelection
<1> QED
  BY <1>5, <1>6, <1>7
=============================================================================
