-------------------------- MODULE TaskGraphProofs --------------------------
(***************************************************************************)
(* Task graphs of any size and any wiring.  What execution_order returns   *)
(* is a topological order of all nodes, empty exactly when there is none:  *)
(* one of the orders that the runs start from.  A packet is in one node at *)
(* a time, comes back only when it has passed them all, and either way of  *)
(* running it is a run through the nodes one by one (SequentialRun).       *)
(***************************************************************************)
EXTENDS TaskGraph, GraphOrder, FiniteSetTheorems, SequenceTheorems,
        WellFoundedInduction, TLAPS

-----------------------------------------------------------------------------
(* The smallest element of a set of naturals.                               *)
LEMMA Least == ASSUME NEW T \in SUBSET Nat, T # {} PROVE \E x \in T : \A y \in T : x <= y
<1>1. PICK x \in T : \A y \in T : ~(<<y, x>> \in OpToRel(<, Nat))
  BY NatLessThanWellFounded, WFMin
<1>2. \A y \in T : ~(y < x)
  BY <1>1 DEF OpToRel
<1> QED
  BY <1>2

-----------------------------------------------------------------------------
(* The order.                                                               *)
(* The edges are finitely many, so the counts are natural numbers.          *)
LEMMA EdgesFinite ==
  ASSUME NEW g, Len(g) \in Nat
  PROVE  IsFiniteSet(Edges(g))
<1>1. IsFiniteSet(Index(g))
  BY FS_Interval DEF Index
<1>2. IsFiniteSet(Names \cup Keys)
  BY GraphAssumption, FS_Union
<1> DEFINE Triples == Index(g) \X Index(g) \X (Names \cup Keys)
           Nested == (Index(g) \X Index(g)) \X (Names \cup Keys)
<1>3. IsFiniteSet(Index(g) \X Index(g))
  BY <1>1, FS_Product
<1>4. IsFiniteSet(Nested)
  BY <1>2, <1>3, FS_Product
<1> DEFINE f == [p \in Nested |-> <<p[1][1], p[1][2], p[2]>>]
<1>5. f \in Surjection(Nested, Triples)
  <2>1. f \in [Nested -> Triples]
    OBVIOUS
  <2>2. ASSUME NEW e \in Triples
        PROVE  \E p \in Nested : f[p] = e
    <3>1. <<<<e[1], e[2]>>, e[3]>> \in Nested
      OBVIOUS
    <3>2. f[<<<<e[1], e[2]>>, e[3]>>] = e
      BY <3>1
    <3> QED
      BY <3>1, <3>2
  <2> QED
    BY <2>1, <2>2 DEF Surjection
<1>6. IsFiniteSet(Triples)
  BY <1>4, <1>5, FS_Surjection
<1> QED
  BY <1>6, FS_Subset DEF Edges

LEMMA CountsAreNatural ==
  ASSUME nodes_ \in Seq(Nodes), NEW j
  PROVE  /\ IsFiniteSet(EdgesInto(j))
         /\ IsFiniteSet(PendingInto(j))
         /\ Cardinality(EdgesInto(j)) \in Nat
         /\ Cardinality(PendingInto(j)) \in Nat
         /\ \A i : /\ IsFiniteSet(EdgesFromTo(i, j))
                   /\ Cardinality(EdgesFromTo(i, j)) \in Nat
<1>1. IsFiniteSet(Edges(nodes_))
  BY EdgesFinite, LenProperties
<1>2. IsFiniteSet(EdgesInto(j)) /\ IsFiniteSet(PendingInto(j))
  BY <1>1, FS_Subset DEF EdgesInto, PendingInto
<1>3. ASSUME NEW i
      PROVE  IsFiniteSet(EdgesFromTo(i, j))
  BY <1>1, FS_Subset DEF EdgesFromTo
<1> QED
  BY <1>2, <1>3, FS_CardinalityType

(* A sequence of AscendingSeqs lists a set without repetition.              *)
LEMMA AscendingProperties ==
  ASSUME NEW s \in SUBSET Nat, IsFiniteSet(s), NEW q \in AscendingSeqs(s)
  PROVE  /\ q \in Seq(s)
         /\ \A m, n \in 1 .. Len(q) : q[m] = q[n] => m = n
         /\ \A x : x \in s <=> \E n \in 1 .. Len(q) : q[n] = x
<1>1. Cardinality(s) \in Nat
  BY FS_CardinalityType
<1>2. q \in [1 .. Cardinality(s) -> s] /\ Ascending(q, s)
  BY DEF AscendingSeqs
<1>3. q \in Seq(s) /\ Len(q) \in Nat
  BY <1>1, <1>2
<1>4. \A n \in 1 .. Len(q) : q[n] \in Nat
  BY <1>3, ElementOfSeq
<1>5. \A m, n \in 1 .. Len(q) : q[m] = q[n] => m = n
  BY <1>2, <1>3, <1>4 DEF Ascending
<1> QED
  BY <1>2, <1>3, <1>5 DEF Ascending

-----------------------------------------------------------------------------
OrderInv == OrderTypeOK /\ IndegreesExact /\ LoopInvariant

LEMMA InitInv == OrderInit => OrderInv
<1> SUFFICES ASSUME OrderInit
             PROVE  OrderInv
  OBVIOUS
<1> QED
  BY EmptySeq
     DEF OrderInit, OrderInv, OrderTypeOK, IndegreesExact, LoopInvariant, Phases

LEMMA AddStep ==
  ASSUME OrderInv, NEW node \in NodeChoices,
         AddNode(node) \/ AddNodeDependingOn(node)
  PROVE  OrderInv'
<1>1. node \in Nodes
  BY ChoicesAssumption
<1>2. nodes_' \in Seq(Nodes)
  <2>1. CASE AddNodeDependingOn(node)
    BY <1>1, <2>1, AppendProperties DEF AddNodeDependingOn, OrderInv, OrderTypeOK
  <2>2. CASE AddNode(node)
    <3> DEFINE deps == IF nodes_ = <<>> THEN {} ELSE {nodes_[Len(nodes_)].name}
               new == [node EXCEPT !.depends_on = deps]
    <3>1. deps \subseteq Names
      <4>1. CASE nodes_ # <<>>
        <5>1. Len(nodes_) \in 1 .. Len(nodes_)
          BY <4>1, EmptySeq DEF OrderInv, OrderTypeOK
        <5>2. nodes_[Len(nodes_)] \in Nodes
          BY <5>1, ElementOfSeq DEF OrderInv, OrderTypeOK
        <5> QED
          BY <4>1, <5>2 DEF Nodes
      <4> QED
        BY <4>1
    <3>2. new \in Nodes
      BY <1>1, <3>1 DEF Nodes
    <3>3. nodes_' = Append(nodes_, new)
      BY <2>2 DEF AddNode
    <3> QED
      BY <3>2, <3>3, AppendProperties DEF OrderInv, OrderTypeOK
  <2> QED
    BY <2>1, <2>2
<1>3. phase = "building" /\ UNCHANGED <<phase, sorted, ready, indegree>>
  BY DEF AddNode, AddNodeDependingOn
<1>4. sorted = <<>> /\ ready = <<>>
  BY <1>3 DEF OrderInv, LoopInvariant
<1> QED
  BY <1>2, <1>3, <1>4, EmptySeq
     DEF OrderInv, OrderTypeOK, IndegreesExact, LoopInvariant, Phases

LEMMA RejectStep ==
  ASSUME OrderInv, Reject
  PROVE  OrderInv'
<1>1. sorted = <<>> /\ ready = <<>>
  BY DEF Reject, OrderInv, LoopInvariant
<1>2. Unorderable(nodes_')
  BY DEF Reject, Unorderable
<1> QED
  BY <1>1, <1>2, EmptySeq
     DEF Reject, OrderInv, OrderTypeOK, IndegreesExact, LoopInvariant, Phases

LEMMA PrepareStep ==
  ASSUME OrderInv, Prepare
  PROVE  OrderInv'
<1> USE DEF Prepare
<1>1. sorted = <<>> /\ Len(sorted) = 0 /\ nodes_ \in Seq(Nodes)
  BY EmptySeq DEF OrderInv, LoopInvariant, OrderTypeOK
<1>2. \A j \in Index(nodes_) : indegree'[j] = Cardinality(EdgesInto(j))
  OBVIOUS
<1>3. indegree' \in [Index(nodes_) -> Nat]
  BY <1>1, <1>2, CountsAreNatural
<1> DEFINE s == {j \in Index(nodes_) : indegree'[j] = 0}
<1>4. s \in SUBSET Nat /\ IsFiniteSet(s)
  <2>1. IsFiniteSet(Index(nodes_))
    BY <1>1, FS_Interval, LenProperties DEF Index
  <2> QED
    BY <2>1, FS_Subset DEF Index
<1>5. /\ ready' \in Seq(s)
      /\ \A m, n \in 1 .. Len(ready') : ready'[m] = ready'[n] => m = n
      /\ \A x : x \in s <=> \E n \in 1 .. Len(ready') : ready'[n] = x
  <2>1. ready' \in AscendingSeqs(s)
    OBVIOUS
  <2> HIDE DEF s
  <2> QED
    BY <1>4, <2>1, AscendingProperties
<1>6. ready' \in Seq(Index(nodes_))
  BY <1>5, SeqMonotonic
<1>7. \A j : ~Ordered(j)' /\ PendingInto(j)' = EdgesInto(j)
  BY <1>1 DEF Ordered, PendingInto, EdgesInto
<1>8. OrderTypeOK'
  BY <1>1, <1>3, <1>6 DEF OrderInv, OrderTypeOK, Phases
<1>9. IndegreesExact'
  <2>1. \A j \in Index(nodes_) : Queued(j)' <=> indegree'[j] = 0
    BY <1>5 DEF Queued
  <2> QED
    BY <1>2, <1>7, <2>1 DEF IndegreesExact
<1>10. LoopInvariant'
  <2>1. Respects(sorted', nodes_')
    BY <1>1 DEF Respects
  <2> QED
    BY <1>1, <1>5, <1>7, <2>1 DEF LoopInvariant
<1> QED
  BY <1>8, <1>9, <1>10 DEF OrderInv

(* One turn of the loop.  c is the node that is popped.                     *)
LEMMA PopStep ==
  ASSUME OrderInv, Pop
  PROVE  OrderInv'
<1> USE DEF Pop
<1>1. /\ nodes_ \in Seq(Nodes) /\ sorted \in Seq(Index(nodes_))
      /\ ready \in Seq(Index(nodes_)) /\ ready # <<>>
      /\ indegree \in [Index(nodes_) -> Nat]
      /\ Len(sorted) \in Nat /\ Len(ready) \in Nat \ {0}
  BY LenProperties, EmptySeq DEF OrderInv, OrderTypeOK
<1>2. PICK c \in Index(nodes_) : c = Head(ready)
  BY <1>1, HeadTailProperties
<1>3. Queued(c) /\ ~Ordered(c) /\ c = ready[1]
  BY <1>1, <1>2, HeadTailProperties DEF Queued, OrderInv, LoopInvariant
<1>4. indegree[c] = 0 /\ PendingInto(c) = {}
  <2>1. indegree[c] = 0 /\ Cardinality(PendingInto(c)) = 0
    BY <1>3 DEF OrderInv, IndegreesExact
  <2> QED
    BY <1>1, <2>1, CountsAreNatural, FS_EmptySet
<1>5. /\ sorted' \in Seq(Index(nodes_))
      /\ Len(sorted') = Len(sorted) + 1
      /\ sorted'[Len(sorted) + 1] = c
      /\ \A n \in 1 .. Len(sorted) : sorted'[n] = sorted[n]
  BY <1>1, <1>2, AppendProperties
<1>6. \A j : Ordered(j)' <=> Ordered(j) \/ j = c
  BY <1>1, <1>5 DEF Ordered
(* The indegrees. *)
<1>7. ASSUME NEW j \in Index(nodes_)
      PROVE  /\ indegree'[j] = Cardinality(PendingInto(j)')
             /\ indegree'[j] \in Nat
             /\ indegree[j] = 0 => indegree'[j] = 0
  <2>1. PendingInto(j)' = PendingInto(j) \ EdgesFromTo(c, j)
    BY <1>6 DEF PendingInto, EdgesInto, EdgesFromTo
  <2>2. PendingInto(j) \cap EdgesFromTo(c, j) = EdgesFromTo(c, j)
    BY <1>3 DEF PendingInto, EdgesInto, EdgesFromTo
  <2>3. Cardinality(PendingInto(j)') =
          Cardinality(PendingInto(j)) - Cardinality(EdgesFromTo(c, j))
    BY <1>1, <2>1, <2>2, CountsAreNatural, FS_Difference
  <2>4. Cardinality(PendingInto(j)') \in Nat
    BY <1>1, <2>1, CountsAreNatural, FS_Difference, FS_CardinalityType
  <2>5. indegree'[j] = indegree[j] - Cardinality(EdgesFromTo(c, j))
    BY <1>2
  <2>6. indegree[j] = Cardinality(PendingInto(j))
    BY DEF OrderInv, IndegreesExact
  <2>7. Cardinality(EdgesFromTo(c, j)) \in Nat
    BY <1>1, CountsAreNatural
  <2> QED
    BY <1>1, <2>3, <2>4, <2>5, <2>6, <2>7
(* The nodes released by the removal of c's edges. *)
<1> DEFINE s == {j \in Index(nodes_) : indegree[j] # 0 /\ indegree'[j] = 0}
<1>8. PICK released \in AscendingSeqs(s) : ready' = Tail(ready) \o released
  OBVIOUS
<1>9. s \in SUBSET Nat /\ IsFiniteSet(s)
  <2>1. IsFiniteSet(Index(nodes_))
    BY <1>1, FS_Interval, LenProperties DEF Index
  <2>2. s \subseteq Index(nodes_) /\ Index(nodes_) \subseteq Nat
    BY DEF Index
  <2> HIDE DEF s
  <2> QED
    BY <2>1, <2>2, FS_Subset
<1>10. /\ released \in Seq(s)
       /\ \A m, n \in 1 .. Len(released) : released[m] = released[n] => m = n
       /\ \A x : x \in s <=> \E n \in 1 .. Len(released) : released[n] = x
  <2> HIDE DEF s
  <2> QED
    BY <1>9, AscendingProperties
<1>11. released \in Seq(Index(nodes_)) /\ Len(released) \in Nat
  BY <1>10, SeqMonotonic, LenProperties
<1>12. /\ Tail(ready) \in Seq(Index(nodes_))
       /\ Len(Tail(ready)) = Len(ready) - 1
       /\ \A n \in 1 .. Len(ready) - 1 : Tail(ready)[n] = ready[n + 1]
  BY <1>1, HeadTailProperties
<1>13. /\ ready' \in Seq(Index(nodes_))
       /\ Len(ready') = (Len(ready) - 1) + Len(released)
       /\ \A n \in 1 .. Len(ready') :
            ready'[n] = IF n <= Len(ready) - 1
                        THEN ready[n + 1]
                        ELSE released[n - (Len(ready) - 1)]
  <2>1. ready' = Tail(ready) \o released
    BY <1>8
  <2> HIDE DEF Pop, s
  <2>2. /\ ready' \in Seq(Index(nodes_))
        /\ Len(ready') = Len(Tail(ready)) + Len(released)
        /\ \A n \in 1 .. Len(Tail(ready)) + Len(released) :
             ready'[n] = IF n <= Len(Tail(ready)) THEN Tail(ready)[n]
                         ELSE released[n - Len(Tail(ready))]
    BY <1>11, <1>12, <2>1, ConcatProperties
  <2> QED
    BY <1>1, <1>11, <1>12, <2>2
<1>14. ASSUME NEW j \in Index(nodes_)
       PROVE  Queued(j)' <=> (Queued(j) /\ j # c) \/ j \in s
  <2>1. ASSUME NEW n \in 1 .. Len(ready'), ready'[n] = j
        PROVE  (Queued(j) /\ j # c) \/ j \in s
    <3>1. CASE n <= Len(ready) - 1
      <4>1. n + 1 \in 1 .. Len(ready) /\ ready[n + 1] = j /\ n + 1 # 1
        BY <1>1, <1>13, <2>1, <3>1
      <4>2. j # c
        BY <1>1, <1>3, <4>1 DEF OrderInv, LoopInvariant
      <4> QED
        BY <4>1, <4>2 DEF Queued
    <3>2. CASE ~(n <= Len(ready) - 1)
      <4>1. n - (Len(ready) - 1) \in 1 .. Len(released)
        BY <1>1, <1>11, <1>13, <3>2
      <4> QED
        BY <1>10, <1>13, <2>1, <3>2, <4>1
    <3> QED
      BY <3>1, <3>2
  <2>2. ASSUME Queued(j), j # c
        PROVE  Queued(j)'
    <3>1. PICK n \in 1 .. Len(ready) : ready[n] = j
      BY <2>2 DEF Queued
    <3>2. n - 1 \in 1 .. Len(ready) - 1 /\ (n - 1) + 1 = n
      BY <1>1, <1>3, <2>2, <3>1
    <3>3. n - 1 \in 1 .. Len(ready') /\ ready'[n - 1] = j
      BY <1>1, <1>11, <1>13, <3>1, <3>2
    <3> QED
      BY <3>3 DEF Queued
  <2>3. ASSUME j \in s
        PROVE  Queued(j)'
    <3>1. PICK n \in 1 .. Len(released) : released[n] = j
      BY <1>10, <2>3
    <3> DEFINE k == Len(ready) - 1
    <3>2. k \in Nat /\ Len(ready') = k + Len(released)
      BY <1>1, <1>13
    <3>3. \A i \in 1 .. Len(ready') :
            ready'[i] = IF i <= k THEN ready[i + 1] ELSE released[i - k]
      BY <1>13
    <3> HIDE DEF k, s, Pop
    <3>4. k + n \in 1 .. Len(ready') /\ ~(k + n <= k) /\ (k + n) - k = n
      BY <1>11, <3>1, <3>2
    <3>5. ready'[k + n] = j
      BY <3>1, <3>4, <3>3
    <3> QED
      BY <3>4, <3>5 DEF Queued
  <2> QED
    BY <2>1, <2>2, <2>3 DEF Queued
<1>15. OrderTypeOK'
  <2>1. indegree' \in [Index(nodes_) -> Nat]
    BY <1>7
  <2> QED
    BY <1>1, <1>5, <1>13, <2>1 DEF OrderInv, OrderTypeOK, Phases
<1>16. IndegreesExact'
  <2>1. ASSUME NEW j \in Index(nodes_)
        PROVE  indegree'[j] = 0 <=> Ordered(j)' \/ Queued(j)'
    <3>1. CASE indegree[j] = 0
      BY <1>6, <1>7, <1>14, <3>1 DEF OrderInv, IndegreesExact
    <3>2. CASE indegree[j] # 0
      <4>1. ~Ordered(j) /\ ~Queued(j) /\ j # c
        BY <1>4, <3>2 DEF OrderInv, IndegreesExact
      <4> QED
        BY <1>6, <1>14, <3>2, <4>1
    <3> QED
      BY <3>1, <3>2
  <2> QED
    BY <1>7, <2>1 DEF IndegreesExact
(* No repetitions, and the edges are respected. *)
<1>17. \A m, n \in 1 .. Len(sorted') : sorted'[m] = sorted'[n] => m = n
  BY <1>1, <1>3, <1>5 DEF OrderInv, LoopInvariant, Ordered
<1>18. \A m, n \in 1 .. Len(ready') : ready'[m] = ready'[n] => m = n
  <2>1. \A m \in 1 .. Len(ready) : ready[m] \notin s
    <3>1. \A m \in 1 .. Len(ready) : ready[m] \in Index(nodes_)
      BY <1>1, ElementOfSeq
    <3> QED
      BY <3>1 DEF OrderInv, IndegreesExact, Queued
  <2> SUFFICES ASSUME NEW m \in 1 .. Len(ready'), NEW n \in 1 .. Len(ready'),
                      ready'[m] = ready'[n]
               PROVE  m = n
    OBVIOUS
  <2> DEFINE k == Len(ready) - 1
  <2>2. k \in Nat /\ Len(ready') = k + Len(released) /\ Len(ready) = k + 1
    BY <1>1, <1>13
  <2>3. \A i \in 1 .. Len(released) : released[i] \in s
    BY <1>10
  <2>4. \A i \in 1 .. Len(ready') :
          ready'[i] = IF i <= k THEN ready[i + 1] ELSE released[i - k]
    BY <1>13
  <2>5. \A i, j \in 1 .. Len(ready) : ready[i] = ready[j] => i = j
    BY DEF OrderInv, LoopInvariant
  <2> HIDE DEF k, s
  <2>6. CASE m <= k /\ n <= k
    BY <1>1, <2>2, <2>4, <2>5, <2>6
  <2>7. CASE m > k /\ n > k
    <3>1. m - k \in 1 .. Len(released) /\ n - k \in 1 .. Len(released)
      BY <1>11, <2>2, <2>7
    <3>2. released[m - k] = released[n - k]
      BY <2>2, <2>4, <2>7
    <3>3. m - k = n - k
      BY <1>10, <3>1, <3>2
    <3> QED
      BY <2>2, <3>3
  <2>8. CASE m <= k /\ n > k
    <3>1. n - k \in 1 .. Len(released) /\ m + 1 \in 1 .. Len(ready)
      BY <1>11, <2>2, <2>8
    <3>2. ready[m + 1] = released[n - k]
      BY <2>2, <2>4, <2>8
    <3> QED
      BY <2>1, <2>3, <3>1, <3>2
  <2>9. CASE m > k /\ n <= k
    <3>1. m - k \in 1 .. Len(released) /\ n + 1 \in 1 .. Len(ready)
      BY <1>11, <2>2, <2>9
    <3>2. ready[n + 1] = released[m - k]
      BY <2>2, <2>4, <2>9
    <3> QED
      BY <2>1, <2>3, <3>1, <3>2
  <2> QED
    BY <2>2, <2>6, <2>7, <2>8, <2>9
<1>19. \A j \in Index(nodes_) : ~(Ordered(j)' /\ Queued(j)')
  <2>1. ASSUME NEW j \in Index(nodes_), j \in s
        PROVE  ~Ordered(j) /\ j # c
    BY <1>4, <2>1 DEF OrderInv, IndegreesExact
  <2> QED
    BY <1>6, <1>14, <2>1 DEF OrderInv, LoopInvariant
<1>20. Respects(sorted', nodes_')
  <2> SUFFICES ASSUME NEW e \in Edges(nodes_), NEW n \in 1 .. Len(sorted'),
                      sorted'[n] = e[2]
               PROVE  \E m \in 1 .. n - 1 : sorted'[m] = e[1]
    BY DEF Respects
  <2>1. CASE n \in 1 .. Len(sorted)
    <3>1. PICK m \in 1 .. n - 1 : sorted[m] = e[1]
      BY <1>5, <2>1 DEF OrderInv, LoopInvariant, Respects
    <3>2. m \in 1 .. Len(sorted)
      BY <1>1, <2>1, <3>1
    <3> QED
      BY <1>5, <3>1, <3>2
  <2>2. CASE n = Len(sorted) + 1
    <3>1. e \in EdgesInto(c)
      BY <1>5, <2>2 DEF EdgesInto
    <3>2. Ordered(e[1])
      BY <1>4, <3>1 DEF PendingInto
    <3>3. PICK m \in 1 .. Len(sorted) : sorted[m] = e[1]
      BY <3>2 DEF Ordered
    <3> QED
      BY <1>1, <1>5, <2>2, <3>3
  <2> QED
    BY <1>1, <1>5, <2>1, <2>2
<1>21. LoopInvariant'
  BY <1>17, <1>18, <1>19, <1>20 DEF OrderInv, LoopInvariant
<1> QED
  BY <1>15, <1>16, <1>21 DEF OrderInv

-----------------------------------------------------------------------------
(* A sequence of nodes without repetition lists them all exactly when it is *)
(* as long as the graph.                                                    *)
LEMMA FullLength ==
  ASSUME NEW g, Len(g) \in Nat, NEW o \in Seq(Index(g)),
         \A m, n \in 1 .. Len(o) : o[m] = o[n] => m = n
  PROVE  Len(o) = Len(g) <=> \A j \in Index(g) : \E n \in 1 .. Len(o) : o[n] = j
<1>1. Len(o) \in Nat /\ o \in [1 .. Len(o) -> Index(g)]
  BY LenProperties
<1>2. o \in Injection(1 .. Len(o), Index(g))
  BY <1>1 DEF Injection, IsInjective
<1>3. ASSUME NEW k \in Nat
      PROVE  IsFiniteSet(1 .. k) /\ Cardinality(1 .. k) = k
  <2> k \in Int /\ 1 \in Int
    OBVIOUS
  <2>1. /\ IsFiniteSet(1 .. k)
        /\ Cardinality(1 .. k) = IF 1 > k THEN 0 ELSE k - 1 + 1
    BY FS_Interval, Zenon
  <2> QED
    BY <2>1
<1>4. /\ IsFiniteSet(Index(g)) /\ Cardinality(Index(g)) = Len(g)
      /\ Cardinality(1 .. Len(o)) = Len(o)
  BY <1>1, <1>3 DEF Index
<1>5. Len(o) = Len(g) <=> o \in Surjection(1 .. Len(o), Index(g))
  BY <1>2, <1>4, FS_Injection
<1> QED
  BY <1>1, <1>5 DEF Surjection

(* A graph that has a topological order has no cycle.                       *)
LEMMA TopologicalIsAcyclic ==
  ASSUME NEW g, Len(g) \in Nat, NEW o, Topological(o, g)
  PROVE  ~Cyclic(g)
<1> SUFFICES ASSUME NEW R \in SUBSET Index(g), R # {},
                    \A j \in R : \E e \in Edges(g) : e[2] = j /\ e[1] \in R
             PROVE  FALSE
  BY DEF Cyclic
<1> DEFINE T == {n \in 1 .. Len(o) : o[n] \in R}
<1>1. \A j \in Index(g) : \E n \in 1 .. Len(o) : o[n] = j
  BY FullLength DEF Topological, Orders
<1>2. T \in SUBSET Nat /\ T # {}
  BY <1>1
<1>3. PICK n \in T : \A m \in T : n <= m
  <2> HIDE DEF T
  <2> QED
    BY <1>2, Least
<1>4. PICK e \in Edges(g) : e[2] = o[n] /\ e[1] \in R
  BY <1>3
<1>5. PICK m \in 1 .. n - 1 : o[m] = e[1]
  BY <1>3, <1>4 DEF Topological, Respects
<1>6. Len(o) \in Nat
  BY LenProperties DEF Topological, Orders
<1>7. m \in T /\ m < n
  BY <1>3, <1>4, <1>5, <1>6
<1> QED
  BY <1>2, <1>3, <1>7

LEMMA ReturnStep ==
  ASSUME OrderInv, Return
  PROVE  OrderInv'
<1> USE DEF Return
<1>1. /\ nodes_ \in Seq(Nodes) /\ Len(nodes_) \in Nat
      /\ sorted \in Seq(Index(nodes_)) /\ Len(sorted) \in Nat
      /\ \A m, n \in 1 .. Len(sorted) : sorted[m] = sorted[n] => m = n
  BY LenProperties DEF OrderInv, OrderTypeOK, LoopInvariant
<1>2. OrderTypeOK'
  BY <1>1, EmptySeq DEF OrderInv, OrderTypeOK, Phases
<1>3. CASE Len(sorted) = Len(nodes_)
  <2>1. sorted' = sorted /\ Topological(sorted, nodes_)
    BY <1>1, <1>3 DEF Topological, Orders, OrderInv, LoopInvariant
  <2>2. ~DuplicateProducer(nodes_) /\ ~MissingDependency(nodes_)
    BY DEF OrderInv, LoopInvariant
  <2>3. sorted = <<>> => nodes_ = <<>>
    BY <1>1, <1>3, EmptySeq
  <2>4. LoopInvariant'
    BY <2>1, <2>2, <2>3 DEF LoopInvariant
  <2> QED
    BY <1>2, <2>4 DEF OrderInv, IndegreesExact
<1>4. CASE Len(sorted) # Len(nodes_)
  <2> DEFINE R == {j \in Index(nodes_) : ~Ordered(j)}
  <2>1. R # {}
    BY <1>1, <1>4, FullLength DEF Ordered
  <2>2. ASSUME NEW j \in R
        PROVE  \E e \in Edges(nodes_) : e[2] = j /\ e[1] \in R
    <3>1. ~Ordered(j) /\ ~Queued(j)
      BY EmptySeq DEF Queued
    <3>2. Cardinality(PendingInto(j)) # 0
      BY <3>1 DEF OrderInv, IndegreesExact
    <3>3. PICK e \in PendingInto(j) : TRUE
      BY <3>2, FS_EmptySet
    <3>4. e \in Edges(nodes_) /\ e[2] = j /\ ~Ordered(e[1])
      BY <3>3 DEF PendingInto, EdgesInto
    <3>5. e[1] \in Index(nodes_)
      BY <3>4 DEF Edges
    <3> QED
      BY <3>4, <3>5
  <2>3. R \in SUBSET Index(nodes_)
    OBVIOUS
  <2>4. Cyclic(nodes_)
    <3> HIDE DEF R
    <3> QED
      BY <2>1, <2>2, <2>3 DEF Cyclic
  <2>5. LoopInvariant'
    BY <1>4, <2>4 DEF LoopInvariant, Unorderable
  <2> QED
    BY <1>2, <2>5 DEF OrderInv, IndegreesExact
<1> QED
  BY <1>3, <1>4

LEMMA NextStep ==
  ASSUME OrderInv, [OrderNext]_orderVars
  PROVE  OrderInv'
<1>1. CASE UNCHANGED orderVars
  <2>1. /\ nodes_' = nodes_ /\ phase' = phase /\ sorted' = sorted
        /\ ready' = ready /\ indegree' = indegree
    BY <1>1 DEF orderVars
  <2>2. OrderTypeOK'
    BY <2>1 DEF OrderInv, OrderTypeOK
  <2>3. \A j : /\ Ordered(j)' = Ordered(j) /\ Queued(j)' = Queued(j)
              /\ PendingInto(j)' = PendingInto(j)
    BY <2>1 DEF Ordered, Queued, PendingInto, EdgesInto
  <2>4. IndegreesExact'
    BY <2>1, <2>3 DEF OrderInv, IndegreesExact
  <2>5. LoopInvariant'
    BY <2>1, <2>3 DEF OrderInv, LoopInvariant
  <2> QED
    BY <2>2, <2>4, <2>5 DEF OrderInv
<1>2. CASE \E node \in NodeChoices : AddNode(node) \/ AddNodeDependingOn(node)
  BY <1>2, AddStep
<1>3. CASE Sort
  BY <1>3, RejectStep, PrepareStep, PopStep, ReturnStep DEF Sort
<1> QED
  BY <1>1, <1>2, <1>3 DEF OrderNext

-----------------------------------------------------------------------------
(* Every state the program reaches satisfies the invariant of the loop.     *)
THEOREM InvariantHolds == OrderSpec => []OrderInv
<1>1. OrderInit => OrderInv
  BY InitInv
<1>2. OrderInv /\ [OrderNext]_orderVars => OrderInv'
  BY NextStep
<1> QED
  BY <1>1, <1>2, PTL DEF OrderSpec

(* The indegrees of execution_order count exactly the edges still to be     *)
(* removed, whatever the graph: the unsigned subtraction never wraps.       *)
THEOREM IndegreesCount == OrderSpec => []IndegreesExact
<1>1. OrderInv => IndegreesExact
  BY DEF OrderInv
<1> QED
  BY <1>1, InvariantHolds, PTL

(* A nonempty order contains every node once, after what it depends on.     *)
THEOREM OrderIsTopological == OrderSpec => []ResultIsTopological
<1>1. OrderInv => ResultIsTopological
  BY DEF OrderInv, LoopInvariant, ResultIsTopological
<1> QED
  BY <1>1, InvariantHolds, PTL

LEMMA EmptyIsRefused == OrderInv => EmptyMeansUnorderable
<1> SUFFICES ASSUME OrderInv, phase = "done", nodes_ # <<>>
             PROVE  sorted = <<>> <=> Unorderable(nodes_)
  BY DEF EmptyMeansUnorderable
<1>1. CASE sorted = <<>>
  BY <1>1 DEF OrderInv, LoopInvariant
<1>2. CASE sorted # <<>>
  <2>1. Len(nodes_) \in Nat
    BY LenProperties DEF OrderInv, OrderTypeOK
  <2>2. Topological(sorted, nodes_)
    BY <1>2 DEF OrderInv, LoopInvariant
  <2>3. ~Cyclic(nodes_)
    BY <2>1, <2>2, TopologicalIsAcyclic
  <2> QED
    BY <1>2, <2>3 DEF OrderInv, LoopInvariant, Unorderable
<1> QED
  BY <1>1, <1>2

(* The order of a graph with nodes is empty exactly when the graph cannot   *)
(* be ordered: Kahn's algorithm is complete as it is written here.          *)
THEOREM EmptyOrderIsRefusal == OrderSpec => []EmptyMeansUnorderable
  BY EmptyIsRefused, InvariantHolds, PTL

(* Nodes added by add_node(node) under distinct names run in the order they *)
(* were added, even when keys wire them as well.                            *)
THEOREM ChainsKeepTheirOrder == OrderSpec => []ChainRunsInOrder
<1>1. OrderInv => ChainRunsInOrder
  <2> SUFFICES ASSUME OrderInv, phase = "done", sorted # <<>>, Chained(nodes_),
                      NEW T, T = {n \in 1 .. Len(sorted) : sorted[n] # n}
               PROVE  T = {}
    BY DEF ChainRunsInOrder
  <2>1. Topological(sorted, nodes_) /\ nodes_ \in Seq(Nodes)
    BY DEF OrderInv, LoopInvariant, OrderTypeOK
  <2>2. Len(nodes_) \in Nat /\ Len(sorted) = Len(nodes_)
    BY <2>1, LenProperties DEF Topological, Orders
  <2>3. \A n \in 1 .. Len(sorted) : sorted[n] \in Index(nodes_)
    BY <2>1, ElementOfSeq DEF Topological, Orders
  <2>4. SUFFICES ASSUME T # {}
                 PROVE  FALSE
    OBVIOUS
  <2>5. T \in SUBSET Nat
    OBVIOUS
  <2>6. PICK n \in T : \A m \in T : n <= m
    BY <2>4, <2>5, Least
  <2>7. n \in 1 .. Len(sorted) /\ \A m \in 1 .. n - 1 : sorted[m] = m
    BY <2>2, <2>6
  <2> DEFINE v == sorted[n]
  <2>8. v \in Index(nodes_) /\ v # n
    BY <2>3, <2>6
  <2>9. v > n
    <3>1. ~(v \in 1 .. n - 1)
      <4>1. \A m \in 1 .. Len(sorted) : sorted[m] = sorted[n] => m = n
        BY <2>1, <2>7 DEF Topological, Orders
      <4> QED
        BY <2>2, <2>7, <2>8, <4>1
    <3> QED
      BY <2>2, <2>7, <2>8, <3>1 DEF Index
  (* The edge from the node added before v puts that node before v. *)
  <2> DEFINE what == nodes_[v - 1].name
             e == <<v - 1, v, what>>
  <2>10. v - 1 \in Index(nodes_) /\ v # 1
    BY <2>2, <2>7, <2>8, <2>9 DEF Index
  <2>11. nodes_[v - 1] \in Nodes
    BY <2>1, <2>10, ElementOfSeq DEF Index
  <2>12. what \in nodes_[v].depends_on /\ FirstNamed(nodes_, v - 1, what)
    <3>1. nodes_[v].depends_on = {what}
      BY <2>8, <2>10 DEF Chained
    <3>2. \A k \in 1 .. v - 2 : k \in Index(nodes_) /\ k # v - 1
      BY <2>2, <2>8, <2>10 DEF Index
    <3>3. FirstNamed(nodes_, v - 1, what)
      BY <2>8, <2>10, <3>2 DEF Chained, FirstNamed, Index
    <3> QED
      BY <3>1, <3>3
  <2>13. e \in Edges(nodes_)
    <3>1. what \in Names
      BY <2>11 DEF Nodes
    <3> QED
      BY <2>8, <2>10, <2>12, <3>1 DEF Edges
  <2>14. PICK m \in 1 .. n - 1 : sorted[m] = v - 1
    BY <2>1, <2>7, <2>13 DEF Topological, Respects
  <2>15. m = v - 1
    BY <2>7, <2>14
  <2> QED
    BY <2>2, <2>7, <2>8, <2>9, <2>14, <2>15 DEF Index
<1> QED
  BY <1>1, InvariantHolds, PTL

(* A node that execution_order has placed finds each key it consumes: the   *)
(* key comes from the outside by boundary(), from a node placed before it,  *)
(* or from no other node at all (graph.cpp:448-491, 548-568).               *)
ConsumersAreServed ==
  phase = "done" /\ sorted # <<>> =>
    \A n \in 1 .. Len(sorted) : \A key \in nodes_[sorted[n]].consumes :
      \/ key \in BoundaryInputs(nodes_)
      \/ \E m \in 1 .. n - 1 : Produces(nodes_, sorted[m], key)
      \/ \A i \in Index(nodes_) \ {sorted[n]} : ~Produces(nodes_, i, key)

(* No node is placed before another one that makes what it consumes.        *)
THEOREM KeysComeInOrder == OrderSpec => []ConsumersAreServed
<1>1. OrderInv => ConsumersAreServed
  <2> SUFFICES ASSUME OrderInv, phase = "done", sorted # <<>>,
                      NEW n \in 1 .. Len(sorted), NEW key \in nodes_[sorted[n]].consumes,
                      key \notin BoundaryInputs(nodes_),
                      NEW i \in Index(nodes_) \ {sorted[n]}, Produces(nodes_, i, key)
               PROVE  \E m \in 1 .. n - 1 : Produces(nodes_, sorted[m], key)
    BY DEF ConsumersAreServed
  <2>1. Topological(sorted, nodes_) /\ nodes_ \in Seq(Nodes)
    BY DEF OrderInv, LoopInvariant, OrderTypeOK
  <2>2. sorted[n] \in Index(nodes_)
    BY <2>1, ElementOfSeq DEF Topological, Orders
  <2>3. key \in Keys \ InputKeys
    <3>1. nodes_[sorted[n]] \in Nodes
      BY <2>1, <2>2, ElementOfSeq DEF Index
    <3>2. key \in Keys
      BY <3>1 DEF Nodes
    <3>3. key \in Consumed(nodes_)
      BY <2>2 DEF Consumed
    <3> QED
      BY <3>2, <3>3 DEF BoundaryInputs
  (* The edge of the key puts its producer before n. *)
  <2>4. <<i, sorted[n], key>> \in Edges(nodes_)
    BY <2>2, <2>3 DEF Edges
  <2>5. PICK m \in 1 .. n - 1 : sorted[m] = i
    BY <2>1, <2>4 DEF Topological, Respects
  <2> QED
    BY <2>5
<1> QED
  BY <1>1, InvariantHolds, PTL

(* What execution_order returns, for whatever graph add_node has built, is  *)
(* one of the orders that run_sync and submit_packet start from in          *)
(* TaskGraph (graph.cpp:490-560, 616, 638).                                 *)
THEOREM RunsStartFromTheOrder ==
  OrderSpec => [](phase = "done" => sorted \in ExecutionOrders(nodes_))
<1>1. ASSUME OrderInv, phase = "done"
      PROVE  sorted \in ExecutionOrders(nodes_)
  <2>1. nodes_ \in Seq(Nodes) /\ sorted \in Seq(Index(nodes_)) /\ Len(nodes_) \in Nat
    BY <1>1 DEF OrderInv, OrderTypeOK
  <2>2. CASE Unorderable(nodes_)
    <3>1. nodes_ # <<>>
      <4> SUFFICES ASSUME nodes_ = <<>> PROVE FALSE
        OBVIOUS
      <4>1. Index(nodes_) = {}
        BY DEF Index
      <4> QED
        BY <2>2, <4>1 DEF Unorderable, DuplicateProducer, MissingDependency, Cyclic
    <3>2. sorted = <<>>
      BY <1>1, <2>2, <3>1, EmptyIsRefused DEF EmptyMeansUnorderable
    <3> QED
      BY <2>2, <3>2 DEF ExecutionOrders
  <2>3. CASE ~Unorderable(nodes_)
    <3>1. Topological(sorted, nodes_)
      <4>1. CASE nodes_ = <<>>
        <5>1. Index(nodes_) = {} /\ Edges(nodes_) = {}
          BY <4>1 DEF Index, Edges
        <5>2. sorted = <<>>
          BY <2>1, <5>1
        <5> QED
          BY <2>1, <4>1, <5>1, <5>2 DEF Topological, Orders, Respects
      <4>2. CASE nodes_ # <<>>
        <5>1. sorted # <<>>
          BY <1>1, <2>3, <4>2, EmptyIsRefused DEF EmptyMeansUnorderable
        <5> QED
          BY <1>1, <5>1 DEF OrderInv, LoopInvariant
      <4> QED
        BY <4>1, <4>2
    <3>2. sorted \in [Index(nodes_) -> Index(nodes_)]
      BY <2>1, <3>1 DEF Topological, Orders, Index
    <3> QED
      BY <2>3, <3>1, <3>2 DEF ExecutionOrders
  <2> QED
    BY <2>2, <2>3
<1> QED
  BY <1>1, InvariantHolds, PTL

-----------------------------------------------------------------------------
(* The runs.                                                                *)
(* The entries of the trace are those of the first k positions.             *)
Passes(p, k) ==
  /\ Len(value[p][k]) = k
  /\ \A i \in 1 .. k : value[p][k][i].node = order[i]

Unlinked(p) == \A k \in Positions : link[p][k] = "absent"
Linked(p) == \A k \in Positions : link[p][k] # "absent" <=> k <= turn[p]
Settled(p) == \A k \in Positions : link[p][k] \in {"absent", "done", "thrown"}

(* A link has started only when all before it have finished, and is in its  *)
(* node only when they are done.                                            *)
ChainInv(p) ==
  \A j, k \in Positions :
    j < k =>
      /\ link[p][k] \notin {"absent", "waiting"} => link[p][j] \in Resolved
      /\ link[p][k] \in InNode \cup {"done"} => link[p][j] = "done"

(* What a link has done, and what the loop has: the one numbers the trace by*)
(* the index of the node, the other by the position.                        *)
ValueInv(p) ==
  /\ value[p][0] = <<>>
  /\ \A k \in Positions :
       link[p][k] = "done" =>
         Passes(p, k) /\ \A i \in 1 .. k : value[p][k][i].sequence = order[i] - 1
  /\ Unlinked(p) =>
       \A k \in 0 .. turn[p] :
         Passes(p, k) /\ \A i \in 1 .. k : value[p][k][i].sequence = i - 1

CallerInv(p) ==
  /\ caller[p] = "idle" => turn[p] = 0
  /\ caller[p] \in {"idle", "looping"} => Unlinked(p)
  /\ caller[p] \in {"launching", "unwinding", "holding", "invalid", "dropping", "dropped"} =>
       Linked(p)
  /\ caller[p] = "looping" => ~Refusing
  /\ caller[p] = "unwinding" => turn[p] < Len(order)
  /\ caller[p] = "holding" => turn[p] = Len(order)
  /\ caller[p] = "invalid" => Refusing
  /\ caller[p] = "returned" =>
       turn[p] = Len(order) /\ (Unlinked(p) \/ link[p][turn[p]] = "done")
  /\ caller[p] = "threw" => Settled(p)

PacketInv(p) == ChainInv(p) /\ ValueInv(p) /\ CallerInv(p)

GraphInv ==
  /\ nodes \in Graphs /\ order \in ExecutionOrders(nodes) /\ async \subseteq Index(nodes)

PacketTypes ==
  /\ caller \in [Packets -> CallerStates] /\ turn \in [Packets -> 0 .. Len(order)]
  /\ link \in [Packets -> [Positions -> LinkStates]]
  /\ value \in [Packets -> [0 .. Len(order) -> Seq(Traces)]]

RunInv == GraphInv /\ PacketTypes /\ \A p \in Packets : PacketInv(p)

-----------------------------------------------------------------------------
(* The order.                                                               *)
LEMMA OrderFacts ==
  ASSUME GraphInv
  PROVE  /\ nodes \in Seq(Nodes) /\ order \in Seq(Index(nodes)) /\ Len(order) \in Nat
         /\ order # <<>> => Topological(order, nodes) /\ Len(order) = Len(nodes)
<1>1. nodes \in Seq(Nodes) /\ Len(nodes) \in Nat
  BY RunAssumption DEF GraphInv
<1>2. CASE Unorderable(nodes)
  <2>1. order = <<>>
    BY <1>2 DEF GraphInv, ExecutionOrders
  <2> QED
    BY <1>1, <2>1
<1>3. CASE ~Unorderable(nodes)
  <2>1. Topological(order, nodes)
    BY <1>3 DEF GraphInv, ExecutionOrders
  <2>2. order \in Seq(Index(nodes)) /\ Len(order) = Len(nodes)
    BY <2>1 DEF Topological, Orders
  <2> QED
    BY <1>1, <2>1, <2>2
<1> QED
  BY <1>2, <1>3

LEMMA PositionFacts ==
  ASSUME GraphInv, NEW k \in Positions
  PROVE  /\ k \in Nat /\ k >= 1 /\ k <= Len(order) /\ Len(order) \in Nat
         /\ k - 1 \in 0 .. Len(order) /\ k \in 0 .. Len(order)
         /\ order[k] \in Index(nodes) /\ Len(order) = Len(nodes) /\ ~Refusing
<1>1. order \in Seq(Index(nodes)) /\ Len(order) \in Nat
  BY OrderFacts
<1>2. k \in Nat /\ k >= 1 /\ k <= Len(order)
  BY <1>1 DEF Positions
<1>3. order # <<>>
  BY <1>2
<1>4. order[k] \in Index(nodes)
  BY <1>1, <1>2
<1> QED
  BY <1>1, <1>2, <1>3, <1>4, OrderFacts DEF Refusing

(* In a chain every node has an edge from the node before it.               *)
LEMMA ChainEdges ==
  ASSUME NEW g \in Seq(Nodes), Chained(g), NEW i \in Index(g), i > 1
  PROVE  <<i - 1, i, g[i - 1].name>> \in Edges(g)
<1>1. Len(g) \in Nat /\ i - 1 \in Index(g) /\ i \in Nat
  BY DEF Index
<1>2. g[i - 1].name \in Names
  <2>1. g[i - 1] \in Nodes
    BY <1>1 DEF Index
  <2> QED
    BY <2>1 DEF Nodes
<1>3. g[i - 1].name \in g[i].depends_on
  <2>1. g[i].depends_on = IF i = 1 THEN {} ELSE {g[i - 1].name}
    BY DEF Chained
  <2>2. i # 1
    BY <1>1
  <2> QED
    BY <2>1, <2>2
<1>4. FirstNamed(g, i - 1, g[i - 1].name)
  <2>1. ASSUME NEW k \in 1 .. (i - 1) - 1 PROVE g[k].name # g[i - 1].name
    <3>1. k \in Index(g) /\ k # i - 1
      BY <1>1 DEF Index
    <3> QED
      BY <1>1, <3>1 DEF Chained
  <2> QED
    BY <2>1 DEF FirstNamed
<1> QED
  BY <1>1, <1>2, <1>3, <1>4 DEF Edges

(* So its only order is that of the insertion.                              *)
LEMMA ChainOrder ==
  ASSUME NEW g \in Seq(Nodes), Chained(g), NEW o, Topological(o, g)
  PROVE  \A k \in 1 .. Len(g) : o[k] = k
<1> DEFINE T == {k \in 1 .. Len(g) : o[k] # k}
<1>1. /\ Len(g) \in Nat /\ Len(o) = Len(g) /\ o \in Seq(Index(g))
      /\ \A m, n \in 1 .. Len(o) : o[m] = o[n] => m = n
  BY DEF Topological, Orders
<1>2. SUFFICES ASSUME T # {} PROVE FALSE
  OBVIOUS
<1>3. PICK k \in T : \A y \in T : k <= y
  <2>1. T \in SUBSET Nat
    BY <1>1
  <2> QED
    BY <1>2, <2>1, Least
<1>4. k \in 1 .. Len(g) /\ k \in Nat /\ o[k] # k /\ \A j \in 1 .. Len(g) : j < k => o[j] = j
  BY <1>1, <1>3
<1>5. o[k] \in Index(g) /\ o[k] \in Nat /\ o[k] >= 1 /\ o[k] <= Len(g)
  BY <1>1, <1>4 DEF Index
<1>6. o[k] > k
  <2>1. ASSUME o[k] < k PROVE FALSE
    <3>1. o[k] \in 1 .. Len(g) /\ o[o[k]] = o[k]
      BY <1>1, <1>4, <1>5, <2>1
    <3> QED
      BY <1>1, <1>4, <2>1, <3>1
  <2> QED
    BY <1>4, <1>5, <2>1
<1> DEFINE e == <<o[k] - 1, o[k], g[o[k] - 1].name>>
<1>7. e \in Edges(g)
  BY <1>4, <1>5, <1>6, ChainEdges
<1>8. PICK m \in 1 .. k - 1 : o[m] = o[k] - 1
  <2>1. \A n \in 1 .. Len(o) : o[n] = e[2] => \E m \in 1 .. n - 1 : o[m] = e[1]
    BY <1>7 DEF Topological, Respects
  <2>2. e[2] = o[k] /\ e[1] = o[k] - 1
    OBVIOUS
  <2> HIDE DEF e
  <2> QED
    BY <1>1, <1>4, <2>1, <2>2
<1>9. m \in 1 .. Len(g) /\ m < k /\ o[m] = m
  BY <1>1, <1>4
<1> QED
  BY <1>4, <1>5, <1>6, <1>8, <1>9

-----------------------------------------------------------------------------
(* Nothing of a packet changes.                                             *)
Same(q) ==
  /\ caller'[q] = caller[q] /\ turn'[q] = turn[q]
  /\ link'[q] = link[q] /\ value'[q] = value[q]

Fixed == UNCHANGED <<nodes, order, async>>

LEMMA PacketKeeps ==
  ASSUME NEW q \in Packets, PacketInv(q), Same(q), Fixed
  PROVE  PacketInv(q)'
<1>1. UNCHANGED <<nodes, order, async>> /\ Positions' = Positions /\ (Refusing' <=> Refusing)
  BY DEF Fixed, Positions, Refusing
<1>2. ChainInv(q)'
  BY <1>1 DEF PacketInv, ChainInv, Same
<1>3. ValueInv(q)'
  BY <1>1 DEF PacketInv, ValueInv, Same, Passes, Unlinked
<1>4. CallerInv(q)'
  BY <1>1 DEF PacketInv, CallerInv, Same, Unlinked, Linked, Settled
<1> QED
  BY <1>2, <1>3, <1>4 DEF PacketInv

LEMMA PacketStep ==
  ASSUME RunInv, NEW p \in Packets, Fixed, \A q \in Packets \ {p} : Same(q),
         PacketTypes', PacketInv(p)'
  PROVE  RunInv'
<1>1. GraphInv'
  BY DEF RunInv, GraphInv, Fixed
<1>2. \A q \in Packets \ {p} : PacketInv(q)'
  BY PacketKeeps DEF RunInv
<1> QED
  BY <1>1, <1>2 DEF RunInv

(* Only the call goes on.                                                   *)
LEMMA CallerStep ==
  ASSUME RunInv, NEW p \in Packets, NEW s \in CallerStates,
         caller' = [caller EXCEPT ![p] = s],
         UNCHANGED <<nodes, order, async, turn, link, value>>,
         s # "idle",
         s = "looping" => Unlinked(p) /\ ~Refusing,
         s \in {"launching", "unwinding", "holding", "invalid", "dropping", "dropped"} =>
           Linked(p),
         s = "unwinding" => turn[p] < Len(order),
         s = "holding" => turn[p] = Len(order),
         s = "invalid" => Refusing,
         s = "returned" => turn[p] = Len(order) /\ (Unlinked(p) \/ link[p][turn[p]] = "done"),
         s = "threw" => Settled(p)
  PROVE  RunInv'
<1>1. PacketTypes /\ PacketInv(p) /\ Fixed
  BY DEF RunInv, Fixed
<1>2. caller'[p] = s /\ \A q \in Packets \ {p} : Same(q)
  BY <1>1 DEF PacketTypes, Same
<1>3. PacketTypes'
  BY <1>1 DEF PacketTypes, Positions, Traces
<1>4. ChainInv(p)' /\ ValueInv(p)'
  BY <1>1 DEF PacketInv, ChainInv, ValueInv, Passes, Unlinked, Positions
<1>5. CallerInv(p)'
  BY <1>2 DEF CallerInv, Unlinked, Linked, Settled, Refusing, Positions
<1> QED
  BY <1>1, <1>2, <1>3, <1>4, <1>5, PacketStep DEF PacketInv

(* A link goes on, without an end of its node.                              *)
LEMMA LinkStep ==
  ASSUME RunInv, NEW p \in Packets, NEW k \in Positions,
         link[p][k] \in {"waiting", "running", "awaiting", "answered", "failed"},
         NEW s \in {"running", "awaiting", "answered", "failed", "thrown"},
         link' = [link EXCEPT ![p][k] = s],
         UNCHANGED <<nodes, order, async, caller, turn, value>>,
         \A j \in 1 .. k - 1 : link[p][j] \in Resolved,
         s # "thrown" => \A j \in 1 .. k - 1 : link[p][j] = "done"
  PROVE  RunInv'
<1>1. PacketTypes /\ PacketInv(p) /\ Fixed /\ GraphInv
  BY DEF RunInv, Fixed
<1>2. /\ link'[p][k] = s /\ \A j \in Positions \ {k} : link'[p][j] = link[p][j]
      /\ \A q \in Packets \ {p} : Same(q)
  BY <1>1 DEF PacketTypes, Same
<1>3. PacketTypes'
  <2>1. s \in LinkStates
    BY DEF LinkStates
  <2>2. link' \in [Packets -> [Positions -> LinkStates]]
    BY <1>1, <2>1 DEF PacketTypes
  <2> QED
    BY <1>1, <2>2 DEF PacketTypes, Positions, Traces
<1>4. k \in Nat /\ Len(order) \in Nat /\ Positions' = Positions /\ Positions \subseteq Nat
  BY <1>1, PositionFacts DEF Positions
<1>5. ChainInv(p)'
  <2> SUFFICES ASSUME NEW i \in Positions, NEW j \in Positions, i < j
               PROVE  /\ link'[p][j] \notin {"absent", "waiting"} => link'[p][i] \in Resolved
                      /\ link'[p][j] \in InNode \cup {"done"} => link'[p][i] = "done"
    BY <1>4 DEF ChainInv
  <2>1. CASE j = k
    <3>1. i \in 1 .. k - 1 /\ i # k
      BY <1>4, <2>1 DEF Positions
    <3> QED
      BY <1>2, <2>1, <3>1 DEF InNode
  <2>2. CASE i = k
    <3>1. link[p][j] \in {"absent", "waiting"} /\ j # k
      BY <1>1, <1>4, <2>2 DEF PacketInv, ChainInv, Resolved
    <3> QED
      BY <1>2, <3>1 DEF InNode
  <2>3. CASE i # k /\ j # k
    BY <1>1, <1>2, <2>3 DEF PacketInv, ChainInv
  <2> QED
    BY <2>1, <2>2, <2>3
<1>6. ~Unlinked(p) /\ ~Unlinked(p)' /\ ~Settled(p) /\ (Linked(p) => Linked(p)')
  BY <1>2, <1>4 DEF Unlinked, Settled, Linked
<1>7. ValueInv(p)'
  <2>1. \A j \in Positions : link'[p][j] = "done" => link[p][j] = "done"
    BY <1>2
  <2> QED
    BY <1>1, <1>4, <1>6, <2>1 DEF PacketInv, ValueInv, Passes
<1>8. CallerInv(p)'
  <2>1. CallerInv(p) /\ caller[p] # "threw"
    BY <1>1, <1>6 DEF PacketInv, CallerInv
  <2>2. caller[p] = "returned" => link'[p][turn[p]] = "done"
    <3> SUFFICES ASSUME caller[p] = "returned" PROVE link'[p][turn[p]] = "done"
      OBVIOUS
    <3>1. link[p][turn[p]] = "done" /\ turn[p] = Len(order)
      BY <1>6, <2>1 DEF CallerInv
    <3>2. turn[p] \in Positions
      BY <1>1, <1>4, <3>1, PositionFacts DEF Positions
    <3> QED
      BY <1>2, <3>1, <3>2
  <2> QED
    BY <1>6, <2>1, <2>2 DEF CallerInv, Refusing
<1> QED
  BY <1>1, <1>2, <1>3, <1>5, <1>7, <1>8, PacketStep DEF PacketInv

(* One more node has been passed.                                           *)
LEMMA OneMore ==
  ASSUME GraphInv, PacketTypes, NEW p \in Packets, NEW k \in Positions, Passes(p, k - 1),
         NEW n \in Nat, n <= Len(nodes) - 1, NEW t, t = Traced(p, k, n)
  PROVE  /\ t \in Seq(Traces) /\ Len(t) = k
         /\ t[k] = [node |-> order[k], sequence |-> n]
         /\ \A i \in 1 .. k - 1 : t[i] = value[p][k - 1][i]
         /\ \A i \in 1 .. k : t[i].node = order[i]
<1> DEFINE e == [node |-> order[k], sequence |-> n]
<1>1. value[p][k - 1] \in Seq(Traces) /\ Len(value[p][k - 1]) = k - 1 /\ k \in Nat /\ k >= 1
  BY PositionFacts DEF PacketTypes, Passes
<1>2. e \in Traces /\ e.node = order[k]
  <2>1. order[k] \in Index(nodes) /\ n \in 0 .. Len(nodes) - 1
    BY PositionFacts
  <2> QED
    BY <2>1 DEF Traces
<1>3. t = Append(value[p][k - 1], e)
  BY DEF Traced
<1> HIDE DEF e
<1>4. t \in Seq(Traces) /\ Len(t) = k /\ t[k] = e
      /\ \A i \in 1 .. k - 1 : t[i] = value[p][k - 1][i]
  BY <1>1, <1>2, <1>3
<1>5. \A i \in 1 .. k : i = k \/ i \in 1 .. k - 1
  BY <1>1
<1> QED
  BY <1>1, <1>2, <1>4, <1>5 DEF Passes, e

LEMMA CompleteHolds ==
  ASSUME RunInv, NEW p \in Packets, NEW k \in Positions,
         link[p][k] \in {"running", "answered"}, Complete(p, k)
  PROVE  RunInv'
<1>1. PacketTypes /\ PacketInv(p) /\ GraphInv
  BY DEF RunInv
<1>2. /\ link' = [link EXCEPT ![p][k] = "done"]
      /\ value' = [value EXCEPT ![p][k] = Traced(p, k, order[k] - 1)]
      /\ UNCHANGED <<nodes, order, async, caller, turn>>
  BY DEF Complete
<1>3. /\ k \in Nat /\ k >= 1 /\ Len(order) \in Nat /\ Positions' = Positions
      /\ Positions \subseteq Nat /\ k - 1 \in 0 .. Len(order) /\ order[k] \in Index(nodes)
      /\ k \in 0 .. Len(order) /\ k # 0 /\ Len(order) = Len(nodes)
  BY <1>1, <1>2, PositionFacts DEF Positions
<1>4. \A j \in 1 .. k - 1 : j \in Positions /\ link[p][j] = "done"
  <2> TAKE j \in 1 .. k - 1
  <2>1. j \in Positions /\ j < k
    BY <1>3 DEF Positions
  <2> QED
    BY <1>1, <2>1 DEF PacketInv, ChainInv, InNode
<1>5. /\ Passes(p, k - 1)
      /\ \A i \in 1 .. k - 1 : value[p][k - 1][i].sequence = order[i] - 1
  <2>1. CASE k = 1
    <3>1. value[p][k - 1] = <<>> /\ k - 1 = 0
      BY <1>1, <2>1 DEF PacketInv, ValueInv
    <3> QED
      BY <3>1 DEF Passes
  <2>2. CASE k # 1
    <3>1. k - 1 \in 1 .. k - 1
      BY <1>3, <2>2
    <3> QED
      BY <1>1, <1>4, <3>1 DEF PacketInv, ValueInv
  <2> QED
    BY <2>1, <2>2
<1> DEFINE t == Traced(p, k, order[k] - 1)
<1>6. /\ t \in Seq(Traces) /\ Len(t) = k
      /\ t[k] = [node |-> order[k], sequence |-> order[k] - 1]
      /\ \A i \in 1 .. k - 1 : t[i] = value[p][k - 1][i]
      /\ \A i \in 1 .. k : t[i].node = order[i]
  <2>1. order[k] - 1 \in Nat /\ order[k] - 1 <= Len(nodes) - 1
    BY <1>1, <1>3, OrderFacts DEF Index
  <2> QED
    BY <1>1, <1>5, <2>1, OneMore
<1> HIDE DEF t
<1>7. /\ link'[p][k] = "done" /\ \A j \in Positions \ {k} : link'[p][j] = link[p][j]
      /\ value'[p][k] = t /\ \A j \in 0 .. Len(order) : j # k => value'[p][j] = value[p][j]
      /\ \A q \in Packets \ {p} : Same(q)
  <2>1. value' = [value EXCEPT ![p][k] = t]
    BY <1>2 DEF t
  <2> QED
    BY <1>1, <1>2, <1>3, <2>1 DEF PacketTypes, Same
<1>8. PacketTypes'
  <2>1. link' \in [Packets -> [Positions -> LinkStates]]
    BY <1>1, <1>2 DEF PacketTypes, LinkStates
  <2>2. value' \in [Packets -> [0 .. Len(order) -> Seq(Traces)]]
    <3>1. value' = [value EXCEPT ![p][k] = t]
      BY <1>2 DEF t
    <3> QED
      BY <1>1, <1>6, <3>1 DEF PacketTypes
  <2> QED
    BY <1>1, <1>2, <2>1, <2>2 DEF PacketTypes, Positions, Traces
<1>9. ChainInv(p)'
  <2> SUFFICES ASSUME NEW i \in Positions, NEW j \in Positions, i < j
               PROVE  /\ link'[p][j] \notin {"absent", "waiting"} => link'[p][i] \in Resolved
                      /\ link'[p][j] \in InNode \cup {"done"} => link'[p][i] = "done"
    BY <1>3 DEF ChainInv
  <2>1. CASE j = k
    <3>1. i \in 1 .. k - 1 /\ i # k
      BY <1>3, <2>1 DEF Positions
    <3> QED
      BY <1>4, <1>7, <3>1 DEF Resolved
  <2>2. CASE i = k
    BY <1>7, <2>2 DEF Resolved
  <2>3. CASE i # k /\ j # k
    BY <1>1, <1>7, <2>3 DEF PacketInv, ChainInv
  <2> QED
    BY <2>1, <2>2, <2>3
<1>10. ~Unlinked(p) /\ ~Unlinked(p)' /\ ~Settled(p) /\ (Linked(p) => Linked(p)')
  BY <1>2, <1>3, <1>7 DEF Unlinked, Settled, Linked
<1>11. ValueInv(p)'
  <2>1. value'[p][0] = <<>>
    BY <1>1, <1>3, <1>7 DEF PacketInv, ValueInv
  <2>2. ASSUME NEW j \in Positions, link'[p][j] = "done"
        PROVE  /\ Len(value'[p][j]) = j
               /\ \A i \in 1 .. j : value'[p][j][i].node = order[i]
               /\ \A i \in 1 .. j : value'[p][j][i].sequence = order[i] - 1
    <3>1. CASE j = k
      <4>1. ASSUME NEW i \in 1 .. k PROVE t[i].sequence = order[i] - 1
        <5>1. CASE i = k
          BY <1>6, <5>1
        <5>2. CASE i \in 1 .. k - 1
          BY <1>5, <1>6, <5>2
        <5> QED
          BY <1>3, <5>1, <5>2
      <4> QED
        BY <1>6, <1>7, <3>1, <4>1
    <3>2. CASE j # k
      <4>1. link[p][j] = "done" /\ value'[p][j] = value[p][j]
        BY <1>3, <1>7, <2>2, <3>2 DEF Positions
      <4> QED
        BY <1>1, <4>1 DEF PacketInv, ValueInv, Passes
    <3> QED
      BY <3>1, <3>2
  <2> QED
    BY <1>2, <1>3, <1>10, <2>1, <2>2 DEF ValueInv, Passes
<1>12. CallerInv(p)'
  <2>1. CallerInv(p) /\ caller[p] # "threw"
    BY <1>1, <1>10 DEF PacketInv, CallerInv
  <2>2. caller[p] = "returned" => link'[p][turn[p]] = "done"
    <3> SUFFICES ASSUME caller[p] = "returned" PROVE link'[p][turn[p]] = "done"
      OBVIOUS
    <3>1. link[p][turn[p]] = "done" /\ turn[p] = Len(order)
      BY <1>10, <2>1 DEF CallerInv
    <3>2. turn[p] \in Positions
      BY <1>1, <1>3, <3>1, PositionFacts DEF Positions
    <3> QED
      BY <1>7, <3>1, <3>2
  <2> QED
    BY <1>2, <1>10, <2>1, <2>2 DEF CallerInv, Refusing
<1> QED
  BY <1>1, <1>2, <1>7, <1>8, <1>9, <1>11, <1>12, PacketStep DEF PacketInv, Fixed

LEMMA RunNodeHolds == ASSUME RunInv, NEW p \in Packets, RunNode(p) PROVE RunInv'
<1> DEFINE k == turn[p] + 1  t == Traced(p, turn[p] + 1, turn[p])
<1>1. PacketTypes /\ PacketInv(p) /\ GraphInv
  BY DEF RunInv
<1>2. /\ caller[p] = "looping" /\ turn[p] < Len(order)
      /\ turn' = [turn EXCEPT ![p] = turn[p] + 1]
      /\ value' = [value EXCEPT ![p][k] = t]
      /\ UNCHANGED <<nodes, order, async, caller, link>>
  BY DEF RunNode
<1>3. /\ turn[p] \in Nat /\ k \in Positions /\ Len(order) \in Nat /\ Positions' = Positions
      /\ k \in 0 .. Len(order) /\ k # 0
  BY <1>1, <1>2, OrderFacts DEF PacketTypes, Positions
<1>4. /\ Unlinked(p) /\ ~Refusing
      /\ \A j \in 0 .. turn[p] :
           Passes(p, j) /\ \A i \in 1 .. j : value[p][j][i].sequence = i - 1
  BY <1>1, <1>2 DEF PacketInv, CallerInv, ValueInv
<1>5. /\ t \in Seq(Traces) /\ Len(t) = k
      /\ t[k] = [node |-> order[k], sequence |-> turn[p]]
      /\ \A i \in 1 .. turn[p] : t[i] = value[p][turn[p]][i]
      /\ \A i \in 1 .. k : t[i].node = order[i]
  <2>1. k - 1 = turn[p] /\ turn[p] <= Len(nodes) - 1
    BY <1>1, <1>2, <1>3, PositionFacts
  <2>2. Passes(p, k - 1)
    BY <1>3, <1>4, <2>1
  <2>3. /\ t \in Seq(Traces) /\ Len(t) = k
        /\ t[k] = [node |-> order[k], sequence |-> turn[p]]
        /\ \A i \in 1 .. k - 1 : t[i] = value[p][k - 1][i]
        /\ \A i \in 1 .. k : t[i].node = order[i]
    <3> HIDE DEF k
    <3>1. turn[p] + 1 = k
      BY DEF k
    <3>2. t = Traced(p, k, turn[p])
      BY <3>1
    <3> HIDE DEF t
    <3> QED
      BY <1>1, <1>3, <2>1, <2>2, <3>2, OneMore
  <2> QED
    BY <2>1, <2>3
<1> HIDE DEF t
<1>6. /\ turn'[p] = k /\ value'[p][k] = t
      /\ \A j \in 0 .. Len(order) : j # k => value'[p][j] = value[p][j]
      /\ \A q \in Packets \ {p} : Same(q)
  BY <1>1, <1>2, <1>3 DEF PacketTypes, Same
<1>7. PacketTypes'
  <2>1. value' \in [Packets -> [0 .. Len(order) -> Seq(Traces)]]
    BY <1>1, <1>2, <1>5 DEF PacketTypes
  <2>2. turn' \in [Packets -> 0 .. Len(order)]
    BY <1>1, <1>2, <1>3 DEF PacketTypes
  <2> QED
    BY <1>1, <1>2, <2>1, <2>2 DEF PacketTypes, Positions, Traces
<1>8. ChainInv(p)' /\ Unlinked(p)'
  BY <1>1, <1>2, <1>3, <1>4 DEF PacketInv, ChainInv, Unlinked
<1>9. ValueInv(p)'
  <2>1. value'[p][0] = <<>>
    BY <1>1, <1>3, <1>6 DEF PacketInv, ValueInv
  <2>2. \A j \in Positions : link'[p][j] # "done"
    BY <1>3, <1>8 DEF Unlinked
  <2>3. ASSUME NEW j \in 0 .. k
        PROVE  /\ Len(value'[p][j]) = j
               /\ \A i \in 1 .. j : value'[p][j][i].node = order[i]
               /\ \A i \in 1 .. j : value'[p][j][i].sequence = i - 1
    <3>1. CASE j = k
      <4>1. ASSUME NEW i \in 1 .. k PROVE t[i].sequence = i - 1
        <5>1. CASE i = k
          BY <1>3, <1>5, <5>1
        <5>2. CASE i \in 1 .. turn[p]
          <6>1. turn[p] \in 0 .. turn[p]
            BY <1>3
          <6>2. value[p][turn[p]][i].sequence = i - 1
            BY <1>4, <5>2, <6>1
          <6> QED
            BY <1>5, <5>2, <6>2
        <5> QED
          BY <1>3, <5>1, <5>2
      <4> QED
        BY <1>5, <1>6, <3>1, <4>1
    <3>2. CASE j # k
      <4>1. j \in 0 .. turn[p] /\ j \in 0 .. Len(order)
        BY <1>2, <1>3, <3>2
      <4> QED
        BY <1>4, <1>6, <3>2, <4>1 DEF Passes
    <3> QED
      BY <3>1, <3>2
  <2> HIDE DEF k
  <2> QED
    BY <1>2, <1>3, <1>6, <2>1, <2>2, <2>3 DEF ValueInv, Passes
<1>10. CallerInv(p)'
  BY <1>2, <1>4, <1>8 DEF CallerInv, Refusing
<1> QED
  BY <1>1, <1>2, <1>6, <1>7, <1>8, <1>9, <1>10, PacketStep DEF PacketInv, Fixed

LEMMA LaunchHolds == ASSUME RunInv, NEW p \in Packets, Launch(p) PROVE RunInv'
<1> DEFINE k == turn[p] + 1
<1>1. PacketTypes /\ PacketInv(p) /\ GraphInv
  BY DEF RunInv
<1>2. /\ caller[p] = "launching" /\ turn[p] < Len(order)
      /\ turn' = [turn EXCEPT ![p] = turn[p] + 1]
      /\ link' = [link EXCEPT ![p][k] = "waiting"]
      /\ UNCHANGED <<nodes, order, async, caller, value>>
  BY DEF Launch
<1>3. /\ turn[p] \in Nat /\ k \in Positions /\ Len(order) \in Nat /\ Positions' = Positions
      /\ Positions \subseteq Nat
  BY <1>1, <1>2, OrderFacts DEF PacketTypes, Positions
<1>4. Linked(p)
  BY <1>1, <1>2 DEF PacketInv, CallerInv
<1>5. /\ turn'[p] = k /\ link'[p][k] = "waiting"
      /\ \A j \in Positions \ {k} : link'[p][j] = link[p][j]
      /\ \A q \in Packets \ {p} : Same(q)
  BY <1>1, <1>2, <1>3 DEF PacketTypes, Same
<1>6. PacketTypes'
  <2>1. link' \in [Packets -> [Positions -> LinkStates]]
    BY <1>1, <1>2 DEF PacketTypes, LinkStates
  <2>2. turn' \in [Packets -> 0 .. Len(order)]
    BY <1>1, <1>2, <1>3 DEF PacketTypes
  <2> QED
    BY <1>1, <1>2, <2>1, <2>2 DEF PacketTypes, Positions, Traces
<1>7. ChainInv(p)'
  <2> SUFFICES ASSUME NEW i \in Positions, NEW j \in Positions, i < j
               PROVE  /\ link'[p][j] \notin {"absent", "waiting"} => link'[p][i] \in Resolved
                      /\ link'[p][j] \in InNode \cup {"done"} => link'[p][i] = "done"
    BY <1>3 DEF ChainInv
  <2>1. CASE j = k
    BY <1>5, <2>1 DEF InNode
  <2>2. CASE i = k
    <3>1. link[p][j] = "absent" /\ j # k
      BY <1>3, <1>4, <2>2 DEF Linked
    <3> QED
      BY <1>5, <3>1 DEF InNode
  <2>3. CASE i # k /\ j # k
    BY <1>1, <1>5, <2>3 DEF PacketInv, ChainInv
  <2> QED
    BY <2>1, <2>2, <2>3
<1>8. ~Unlinked(p)'
  BY <1>3, <1>5 DEF Unlinked
<1>9. ValueInv(p)'
  <2>1. \A j \in Positions : link'[p][j] = "done" => link[p][j] = "done"
    BY <1>5
  <2> QED
    BY <1>1, <1>2, <1>3, <1>8, <2>1 DEF PacketInv, ValueInv, Passes
<1>10. Linked(p)'
  <2> SUFFICES ASSUME NEW j \in Positions PROVE link'[p][j] # "absent" <=> j <= turn'[p]
    BY <1>3 DEF Linked
  <2>1. CASE j = k
    BY <1>3, <1>5, <2>1
  <2>2. CASE j # k
    BY <1>3, <1>4, <1>5, <2>2 DEF Linked
  <2> QED
    BY <2>1, <2>2
<1>11. CallerInv(p)'
  BY <1>2, <1>10 DEF CallerInv
<1> QED
  BY <1>1, <1>2, <1>5, <1>6, <1>7, <1>9, <1>11, PacketStep DEF PacketInv, Fixed

(* When the last link launched has finished, all have.                      *)
LEMMA AllSettled ==
  ASSUME RunInv, NEW p \in Packets, Linked(p), LastResolved(p)
  PROVE  Settled(p)
<1>1. PacketTypes /\ GraphInv /\ ChainInv(p) /\ Len(order) \in Nat /\ turn[p] \in 0 .. Len(order)
  BY OrderFacts DEF RunInv, PacketInv, PacketTypes
<1> SUFFICES ASSUME NEW k \in Positions PROVE link[p][k] \in {"absent", "done", "thrown"}
  BY DEF Settled
<1>2. k \in Nat /\ k >= 1
  BY <1>1 DEF Positions
<1>3. CASE k > turn[p]
  BY <1>1, <1>2, <1>3 DEF Linked
<1>4. CASE k = turn[p]
  BY <1>2, <1>4 DEF LastResolved, Resolved
<1>5. CASE k < turn[p]
  <2>1. turn[p] \in Positions /\ turn[p] > 0
    BY <1>1, <1>2, <1>5 DEF Positions
  <2>2. link[p][turn[p]] \in Resolved
    BY <2>1 DEF LastResolved
  <2> QED
    BY <1>1, <1>5, <2>1, <2>2 DEF ChainInv, Resolved
<1> QED
  BY <1>1, <1>2, <1>3, <1>4, <1>5

LEMMA CallHolds ==
  ASSUME RunInv, NEW p \in Packets,
         \/ RunSync(p) \/ RunNodeThrows(p) \/ RunSyncReturns(p) \/ SubmitPacket(p)
         \/ LaunchFails(p) \/ Unwind(p) \/ SubmitReturns(p) \/ Drop(p) \/ DropEnds(p)
  PROVE  RunInv'
<1>1. PacketTypes /\ CallerInv(p) /\ GraphInv /\ Len(order) \in Nat
      /\ turn[p] \in 0 .. Len(order)
  BY OrderFacts DEF RunInv, PacketInv, PacketTypes
<1>2. Refusing => order = <<>> /\ Len(order) = 0 /\ Positions = {}
  BY <1>1 DEF Refusing, Positions
<1>3. turn[p] = 0 /\ Unlinked(p) => Linked(p)
  BY <1>1 DEF Unlinked, Linked, Positions
<1>4. Unlinked(p) => Settled(p)
  BY DEF Unlinked, Settled
<1>5. CASE RunSync(p) /\ Refusing
  <2>1. turn[p] = Len(order) /\ Unlinked(p)
    BY <1>1, <1>2, <1>5 DEF RunSync, CallerInv
  <2>2. caller' = [caller EXCEPT ![p] = "returned"]
    BY <1>5 DEF RunSync
  <2> QED
    BY <1>5, <2>1, <2>2, CallerStep DEF RunSync, CallerStates
<1>6. CASE RunSync(p) /\ ~Refusing
  <2>1. caller' = [caller EXCEPT ![p] = "looping"] /\ Unlinked(p)
    BY <1>1, <1>6 DEF RunSync, CallerInv
  <2> QED
    BY <1>6, <2>1, CallerStep DEF RunSync, CallerStates
<1>7. CASE RunNodeThrows(p)
  <2>1. Settled(p)
    BY <1>1, <1>4, <1>7 DEF RunNodeThrows, CallerInv
  <2> QED
    BY <1>7, <2>1, CallerStep DEF RunNodeThrows, CallerStates
<1>8. CASE RunSyncReturns(p)
  <2>1. Unlinked(p)
    BY <1>1, <1>8 DEF RunSyncReturns, CallerInv
  <2> QED
    BY <1>8, <2>1, CallerStep DEF RunSyncReturns, CallerStates
<1>9. CASE SubmitPacket(p)
  <2>1. Linked(p)
    BY <1>1, <1>3, <1>9 DEF SubmitPacket, CallerInv
  <2>2. CASE Refusing
    <3>1. caller' = [caller EXCEPT ![p] = "invalid"]
      BY <1>9, <2>2 DEF SubmitPacket
    <3> QED
      BY <1>9, <2>1, <2>2, <3>1, CallerStep DEF SubmitPacket, CallerStates
  <2>3. CASE ~Refusing
    <3>1. caller' = [caller EXCEPT ![p] = "launching"]
      BY <1>9, <2>3 DEF SubmitPacket
    <3> QED
      BY <1>9, <2>1, <2>3, <3>1, CallerStep DEF SubmitPacket, CallerStates
  <2> QED
    BY <2>2, <2>3
<1>10. CASE LaunchFails(p)
  <2>1. Linked(p)
    BY <1>1, <1>10 DEF LaunchFails, CallerInv
  <2> QED
    BY <1>10, <2>1, CallerStep DEF LaunchFails, CallerStates
<1>11. CASE Unwind(p)
  <2>1. Settled(p)
    BY <1>1, <1>11, AllSettled DEF Unwind, CallerInv
  <2> QED
    BY <1>11, <2>1, CallerStep DEF Unwind, CallerStates
<1>12. CASE SubmitReturns(p)
  <2>1. Linked(p)
    BY <1>1, <1>12 DEF SubmitReturns, CallerInv
  <2> QED
    BY <1>12, <2>1, CallerStep DEF SubmitReturns, CallerStates
<1>13. CASE Drop(p)
  <2>1. Linked(p)
    BY <1>1, <1>13 DEF Drop, CallerInv
  <2> QED
    BY <1>13, <2>1, CallerStep DEF Drop, CallerStates
<1>14. CASE DropEnds(p)
  <2>1. Linked(p)
    BY <1>1, <1>14 DEF DropEnds, CallerInv
  <2> QED
    BY <1>14, <2>1, CallerStep DEF DropEnds, CallerStates
<1> QED
  BY <1>5, <1>6, <1>7, <1>8, <1>9, <1>10, <1>11, <1>12, <1>13, <1>14

(* The result is there when the last link is done, or there is none.        *)
LEMMA GetHolds == ASSUME RunInv, NEW p \in Packets, Get(p) PROVE RunInv'
<1>1. PacketTypes /\ CallerInv(p) /\ GraphInv /\ Len(order) \in Nat
      /\ turn[p] \in 0 .. Len(order)
  BY OrderFacts DEF RunInv, PacketInv, PacketTypes
<1>2. UNCHANGED <<nodes, order, async, turn, link, value>>
  BY DEF Get
<1>3. CASE caller[p] = "holding" /\ (turn[p] > 0 => link[p][turn[p]] = "done")
  <2>1. caller' = [caller EXCEPT ![p] = "returned"]
    BY <1>3 DEF Get
  <2>2. turn[p] = Len(order) /\ Linked(p)
    BY <1>1, <1>3 DEF CallerInv
  <2>3. Unlinked(p) \/ link[p][turn[p]] = "done"
    <3>1. CASE turn[p] > 0
      BY <1>3, <3>1
    <3>2. CASE turn[p] = 0
      BY <1>1, <2>2, <3>2 DEF Unlinked, Positions
    <3> QED
      BY <1>1, <3>1, <3>2
  <2> QED
    BY <1>2, <2>1, <2>2, <2>3, CallerStep DEF CallerStates
<1>4. CASE ~(caller[p] = "holding" /\ (turn[p] > 0 => link[p][turn[p]] = "done"))
  <2>1. caller' = [caller EXCEPT ![p] = "threw"]
    BY <1>4 DEF Get
  <2>2. Settled(p)
    <3>1. CASE caller[p] = "holding" /\ LastResolved(p)
      BY <1>1, <3>1, AllSettled DEF CallerInv
    <3>2. CASE caller[p] = "invalid"
      <4>1. Len(order) = 0 /\ Positions = {}
        BY <1>1, <3>2 DEF CallerInv, Refusing, Positions
      <4> QED
        BY <4>1 DEF Settled
    <3> QED
      BY <3>1, <3>2 DEF Get
  <2> QED
    BY <1>2, <2>1, <2>2, CallerStep DEF CallerStates
<1> QED
  BY <1>3, <1>4

LEMMA LinkHolds ==
  ASSUME RunInv, NEW p \in Packets, NEW k \in Positions, Link(p, k)
  PROVE  RunInv'
<1>1. PacketTypes /\ ChainInv(p) /\ GraphInv
  BY DEF RunInv, PacketInv
<1>2. k \in Nat /\ k >= 1 /\ Len(order) \in Nat /\ Positions = 1 .. Len(order)
      /\ \A j \in 1 .. k - 1 : j \in Positions /\ j < k
  BY <1>1, PositionFacts DEF Positions
<1>3. ASSUME link[p][k] \in InNode
      PROVE  \A j \in 1 .. k - 1 : link[p][j] = "done" /\ link[p][j] \in Resolved
  BY <1>1, <1>2, <1>3 DEF ChainInv, Resolved
<1>4. CASE GetPrevious(p, k)
  <2>1. UNCHANGED <<nodes, order, async, caller, turn, value>> /\ link[p][k] = "waiting"
    BY <1>4 DEF GetPrevious
  <2>2. ASSUME k > 1
        PROVE  /\ k - 1 \in Positions /\ link[p][k - 1] \in Resolved
               /\ \A j \in 1 .. k - 1 : link[p][j] \in Resolved
               /\ link[p][k - 1] = "done" => \A j \in 1 .. k - 1 : link[p][j] = "done"
    <3>1. k - 1 \in 1 .. k - 1
      BY <1>2, <2>2
    <3>2. k - 1 \in Positions /\ link[p][k - 1] \in Resolved
      BY <1>2, <1>4, <2>2, <3>1 DEF GetPrevious
    <3>3. ASSUME NEW j \in 1 .. k - 1
          PROVE  /\ link[p][j] \in Resolved
                 /\ link[p][k - 1] = "done" => link[p][j] = "done"
      <4>1. CASE j = k - 1
        BY <3>2, <4>1
      <4>2. CASE j # k - 1
        <5>1. j \in Positions /\ j < k - 1
          BY <1>2, <4>2
        <5> QED
          BY <1>1, <3>2, <5>1 DEF ChainInv, Resolved
      <4> QED
        BY <4>1, <4>2
    <3> QED
      BY <3>2, <3>3
  <2>3. CASE k > 1 /\ link[p][k - 1] = "thrown"
    <3>1. link' = [link EXCEPT ![p][k] = "thrown"]
      BY <1>4, <2>3 DEF GetPrevious
    <3> QED
      BY <2>1, <2>2, <2>3, <3>1, LinkStep
  <2>4. CASE ~(k > 1 /\ link[p][k - 1] = "thrown")
    <3>1. link' = [link EXCEPT ![p][k] = "running"]
      BY <1>4, <2>4 DEF GetPrevious
    <3>2. \A j \in 1 .. k - 1 : link[p][j] \in Resolved /\ link[p][j] = "done"
      <4>1. CASE k > 1
        BY <2>2, <2>4, <4>1 DEF Resolved
      <4>2. CASE k = 1
        BY <4>2
      <4> QED
        BY <1>2, <4>1, <4>2
    <3> QED
      BY <2>1, <3>1, <3>2, LinkStep
  <2> QED
    BY <2>3, <2>4
<1>5. CASE Process(p, k) \/ Collect(p, k)
  BY <1>5, CompleteHolds DEF Process, Collect
<1>6. CASE SubmitNode(p, k)
  <2>1. link[p][k] = "running" /\ link' = [link EXCEPT ![p][k] = "awaiting"]
        /\ UNCHANGED <<nodes, order, async, caller, turn, value>>
    BY <1>6 DEF SubmitNode
  <2> QED
    BY <1>3, <2>1, LinkStep DEF InNode
<1>7. CASE NodeAnswers(p, k)
  <2>1. PICK s \in {"answered", "failed"} : link' = [link EXCEPT ![p][k] = s]
    BY <1>7 DEF NodeAnswers
  <2>2. link[p][k] = "awaiting" /\ UNCHANGED <<nodes, order, async, caller, turn, value>>
    BY <1>7 DEF NodeAnswers
  <2>3. \A j \in 1 .. k - 1 : link[p][j] = "done" /\ link[p][j] \in Resolved
    BY <1>3, <2>2 DEF InNode
  <2> QED
    BY <2>1, <2>2, <2>3, LinkStep
<1>8. CASE LinkThrows(p, k)
  <2>1. link[p][k] \in {"running", "failed"} /\ link' = [link EXCEPT ![p][k] = "thrown"]
        /\ UNCHANGED <<nodes, order, async, caller, turn, value>>
    BY <1>8 DEF LinkThrows
  <2> QED
    BY <1>3, <2>1, LinkStep DEF InNode
<1> QED
  BY <1>4, <1>5, <1>6, <1>7, <1>8 DEF Link

-----------------------------------------------------------------------------
LEMMA RunInit == Init => RunInv
<1> SUFFICES ASSUME Init PROVE RunInv
  OBVIOUS
<1>1. GraphInv
  BY DEF Init, GraphInv
<1>2. Len(order) \in Nat /\ 0 \in 0 .. Len(order)
  BY <1>1, OrderFacts
<1>3. PacketTypes
  <2>1. <<>> \in Seq(Traces)
    OBVIOUS
  <2> QED
    BY <1>2, <2>1 DEF Init, PacketTypes, CallerStates, LinkStates
<1>4. ASSUME NEW p \in Packets PROVE PacketInv(p)
  <2>1. /\ caller[p] = "idle" /\ turn[p] = 0 /\ \A k \in Positions : link[p][k] = "absent"
        /\ value[p][0] = <<>>
    BY <1>2 DEF Init
  <2>2. ChainInv(p)
    BY <2>1 DEF ChainInv, InNode
  <2>3. ValueInv(p)
    <3>1. Passes(p, 0) /\ \A k \in 0 .. turn[p] : k = 0
      BY <2>1 DEF Passes
    <3> QED
      BY <2>1, <3>1 DEF ValueInv
  <2>4. CallerInv(p)
    BY <2>1 DEF CallerInv, Unlinked
  <2> QED
    BY <2>2, <2>3, <2>4 DEF PacketInv
<1> QED
  BY <1>1, <1>3, <1>4 DEF RunInv

LEMMA RunStep == RunInv /\ [Next]_vars => RunInv'
<1> SUFFICES ASSUME RunInv, [Next]_vars PROVE RunInv'
  OBVIOUS
<1>1. CASE UNCHANGED vars
  <2>1. Fixed /\ \A p \in Packets : Same(p)
    BY <1>1 DEF vars, Fixed, Same
  <2>2. GraphInv' /\ PacketTypes'
    BY <1>1 DEF vars, RunInv, GraphInv, PacketTypes, Positions, Traces
  <2>3. \A p \in Packets : PacketInv(p)'
    BY <2>1, PacketKeeps DEF RunInv
  <2> QED
    BY <2>2, <2>3 DEF RunInv
<1>2. CASE Next
  <2>1. PICK p \in Packets :
          \/ RunSync(p) \/ SubmitPacket(p) \/ Get(p) \/ Drop(p)
          \/ Caller(p)
          \/ \E k \in Positions : Link(p, k)
    BY <1>2 DEF Next
  <2>2. CASE \E k \in Positions : Link(p, k)
    BY <2>2, LinkHolds
  <2> QED
    BY <2>1, <2>2, CallHolds, GetHolds, RunNodeHolds, LaunchHolds DEF Caller
<1> QED
  BY <1>1, <1>2

LEMMA RunAlways == Spec => []RunInv
  BY RunInit, RunStep, PTL DEF Spec

(* The state of every call and link is of its type: run_sync and            *)
(* submit_packet of graph.cpp never go past the last position.              *)
THEOREM RunTypeCorrect == Spec => []TypeOK
<1>1. RunInv => TypeOK
  <2> SUFFICES ASSUME RunInv PROVE TypeOK
    OBVIOUS
  <2>1. GraphInv /\ PacketTypes
    BY DEF RunInv
  <2>2. order \in Seq(Index(nodes))
    BY <2>1, OrderFacts
  <2> QED
    BY <2>1, <2>2 DEF TypeOK, GraphInv, PacketTypes
<1> QED
  BY <1>1, RunAlways, PTL

(* No two nodes work on the same packet, although every link of             *)
(* submit_packet is a thread of its own.                                    *)
THEOREM PacketInOneNode == Spec => []OneNodeAtATime
<1>1. RunInv => OneNodeAtATime
  <2> SUFFICES ASSUME RunInv, NEW p \in Packets, NEW j \in Positions, NEW k \in Positions,
                      link[p][j] \in InNode, link[p][k] \in InNode
               PROVE  j = k
    BY DEF OneNodeAtATime
  <2>1. ChainInv(p) /\ j \in Nat /\ k \in Nat
    BY PositionFacts DEF RunInv, PacketInv
  <2>2. ~(j < k) /\ ~(k < j)
    BY <2>1 DEF ChainInv, InNode
  <2> QED
    BY <2>1, <2>2
<1> QED
  BY <1>1, RunAlways, PTL

(* What run_sync or PacketFuture::get returns has passed every node of the  *)
(* order once, numbered by position whenever add_node(node) built the graph.*)
THEOREM PacketsComeBackComplete == Spec => []ReturnedIsComplete
<1>1. RunInv => ReturnedIsComplete
  <2> SUFFICES ASSUME RunInv, NEW p \in Packets, caller[p] = "returned"
               PROVE  /\ NodesOf(Result(p)) = order
                      /\ (Launched(p) => Chained(nodes)) => Numbered(p)
    BY DEF ReturnedIsComplete
  <2>1. /\ GraphInv /\ PacketTypes /\ ValueInv(p) /\ CallerInv(p)
        /\ order \in Seq(Index(nodes)) /\ Len(order) \in Nat
    BY OrderFacts DEF RunInv, PacketInv
  <2>2. turn[p] = Len(order) /\ (Unlinked(p) \/ link[p][turn[p]] = "done")
    BY <2>1 DEF CallerInv
  <2>3. CASE Unlinked(p)
    <3>1. turn[p] \in 0 .. turn[p]
      BY <2>1, <2>2
    <3>2. Passes(p, turn[p]) /\ \A i \in 1 .. turn[p] : Result(p)[i].sequence = i - 1
      BY <2>1, <2>3, <3>1 DEF ValueInv, Result
    <3> QED
      BY <2>1, <2>2, <3>2 DEF Passes, NodesOf, Numbered, Result
  <2>4. CASE ~Unlinked(p) /\ link[p][turn[p]] = "done"
    <3>1. turn[p] \in Positions /\ Launched(p) /\ order # <<>>
      BY <2>1, <2>2, <2>4 DEF Unlinked, Positions, Launched
    <3>2. /\ Len(Result(p)) = Len(order)
          /\ \A i \in 1 .. Len(order) :
               Result(p)[i].node = order[i] /\ Result(p)[i].sequence = order[i] - 1
      BY <2>1, <2>2, <2>4, <3>1 DEF ValueInv, Passes, Result
    <3>3. NodesOf(Result(p)) = order
      BY <2>1, <3>2 DEF NodesOf
    <3>4. ASSUME Chained(nodes) PROVE \A i \in 1 .. Len(order) : order[i] = i
      BY <2>1, <3>1, <3>4, OrderFacts, ChainOrder
    <3>5. ASSUME Chained(nodes) PROVE Numbered(p)
      BY <3>2, <3>4, <3>5 DEF Numbered
    <3> QED
      BY <3>1, <3>3, <3>5
  <2> QED
    BY <2>2, <2>3, <2>4
<1> QED
  BY <1>1, RunAlways, PTL

-----------------------------------------------------------------------------
(* The refinement.  n is how far packet p has come: the links that are done *)
(* are the first n, and without links the loop has done n turns.            *)
Reached(p, n) ==
  /\ n \in 0 .. Len(order)
  /\ Launched(p) => \A k \in Positions : link[p][k] = "done" <=> k <= n
  /\ ~Launched(p) => n = turn[p]

Prefix(n) == [i \in 1 .. n |-> order[i]]
Thrown(p) == \E k \in Positions : link[p][k] = "thrown"

StageAt(p, n) ==
  IF caller[p] = "idle" THEN "idle"
  ELSE IF Refusing THEN "refused"
  ELSE IF n = Len(order) THEN "finished"
  ELSE IF caller[p] = "threw" \/ Thrown(p) THEN "failed"
  ELSE "running"

View ==
  \A p \in Packets : \A n \in 0 .. Len(order) :
    Reached(p, n) => Passed(p) = Prefix(n) /\ Stage(p) = StageAt(p, n)

LEMMA ReachedExists ==
  ASSUME RunInv, NEW p \in Packets
  PROVE  \E n \in 0 .. Len(order) : Reached(p, n)
<1>1. PacketTypes /\ ChainInv(p) /\ GraphInv /\ Len(order) \in Nat
      /\ turn[p] \in 0 .. Len(order)
  BY OrderFacts DEF RunInv, PacketInv, PacketTypes
<1>2. CASE ~Launched(p)
  BY <1>1, <1>2 DEF Reached
<1>3. CASE Launched(p)
  <2> DEFINE T == {k \in Positions : link[p][k] # "done"}
  <2>1. CASE T = {}
    <3>1. \A k \in Positions : link[p][k] = "done" /\ k <= Len(order)
      BY <1>1, <2>1 DEF Positions
    <3>2. Len(order) \in 0 .. Len(order)
      BY <1>1
    <3> QED
      BY <1>3, <3>1, <3>2 DEF Reached
  <2>2. CASE T # {}
    <3>1. T \in SUBSET Nat
      BY <1>1 DEF Positions
    <3>2. PICK m \in T : \A k \in T : m <= k
      BY <2>2, <3>1, Least
    <3>3. m \in Positions /\ m \in Nat /\ m >= 1 /\ link[p][m] # "done" /\ m - 1 \in 0 .. Len(order)
      BY <1>1, <3>2 DEF Positions
    <3>4. ASSUME NEW k \in Positions PROVE link[p][k] = "done" <=> k <= m - 1
      <4>1. k \in Nat
        BY <1>1 DEF Positions
      <4>2. CASE k < m
        BY <3>2, <3>3, <4>1, <4>2
      <4>3. CASE k = m
        BY <3>3, <4>3
      <4>4. CASE m < k
        BY <1>1, <3>3, <4>1, <4>4 DEF ChainInv
      <4> QED
        BY <3>3, <4>1, <4>2, <4>3, <4>4
    <3> QED
      BY <1>3, <3>3, <3>4 DEF Reached
  <2> QED
    BY <2>1, <2>2
<1> QED
  BY <1>2, <1>3

(* The first n positions are done: there are n of them.                     *)
LEMMA DoneCount ==
  ASSUME Len(order) \in Nat, NEW p \in Packets, NEW n \in 0 .. Len(order),
         \A k \in Positions : link[p][k] = "done" <=> k <= n
  PROVE  Cardinality({k \in Positions : link[p][k] = "done"}) = n
<1>1. {k \in Positions : link[p][k] = "done"} = 1 .. n
  BY DEF Positions
<1>2. Cardinality(1 .. n) = n
  BY FS_Interval
<1> QED
  BY <1>1, <1>2

LEMMA ViewHolds == RunInv => View
<1> SUFFICES ASSUME RunInv, NEW p \in Packets, NEW n \in 0 .. Len(order), Reached(p, n)
             PROVE  Passed(p) = Prefix(n) /\ Stage(p) = StageAt(p, n)
  BY DEF View
<1>1. /\ PacketTypes /\ ValueInv(p) /\ CallerInv(p) /\ GraphInv /\ Len(order) \in Nat
      /\ order \in Seq(Index(nodes)) /\ turn[p] \in 0 .. Len(order) /\ n \in Nat
  BY OrderFacts DEF RunInv, PacketInv, PacketTypes
<1>2. ASSUME NEW k \in 0 .. Len(order), Passes(p, k)
      PROVE  NodesOf(value[p][k]) = Prefix(k)
  BY <1>2 DEF Passes, NodesOf, Prefix
<1>3. value[p][0] = <<>> /\ Passes(p, 0) /\ 0 \in 0 .. Len(order) /\ Prefix(0) = <<>>
  BY <1>1 DEF ValueInv, Passes, Prefix
<1>4. Passed(p) = Prefix(n)
  <2>1. CASE Launched(p)
    <3>1. Cardinality({k \in Positions : link[p][k] = "done"}) = n
      BY <1>1, <2>1, DoneCount DEF Reached
    <3>2. Passes(p, n)
      <4>1. CASE n = 0
        BY <1>3, <4>1
      <4>2. CASE n # 0
        <5>1. n \in Positions /\ n <= n
          BY <1>1, <4>2 DEF Positions
        <5> QED
          BY <1>1, <2>1, <5>1 DEF ValueInv, Reached
      <4> QED
        BY <4>1, <4>2
    <3>3. Passed(p) = NodesOf(value[p][n])
      BY <2>1, <3>1 DEF Passed
    <3> QED
      BY <1>2, <3>2, <3>3
  <2>2. CASE ~Launched(p)
    <3>1. Unlinked(p) /\ n = turn[p] /\ n \in 0 .. turn[p]
      BY <1>1, <2>2 DEF Launched, Unlinked, Reached
    <3>2. Passes(p, n) /\ NodesOf(Result(p)) = Prefix(n)
      BY <1>1, <1>2, <3>1 DEF ValueInv, Result
    <3>3. CASE caller[p] \in {"looping", "returned", "threw"}
      BY <2>2, <3>2, <3>3 DEF Passed
    <3>4. CASE caller[p] \notin {"looping", "returned", "threw"}
      <4>1. n = 0
        <5>1. CASE caller[p] = "idle"
          BY <1>1, <3>1, <5>1 DEF CallerInv
        <5>2. CASE caller[p] # "idle"
          <6>1. Linked(p)
            BY <1>1, <3>4, <5>2 DEF CallerInv, PacketTypes, CallerStates
          <6>2. ASSUME turn[p] # 0 PROVE FALSE
            <7>1. turn[p] \in Positions /\ turn[p] <= turn[p]
              BY <1>1, <6>2 DEF Positions
            <7> QED
              BY <3>1, <6>1, <7>1 DEF Linked, Unlinked
          <6> QED
            BY <3>1, <6>2
        <5> QED
          BY <5>1, <5>2
      <4> QED
        BY <1>3, <2>2, <3>4, <4>1 DEF Passed
    <3> QED
      BY <3>3, <3>4
  <2> QED
    BY <2>1, <2>2
<1>5. Prefix(n) = order <=> n = Len(order)
  <2>1. order = [i \in 1 .. Len(order) |-> order[i]] /\ Len(Prefix(n)) = n
    BY <1>1 DEF Prefix
  <2> QED
    BY <2>1 DEF Prefix
<1> QED
  BY <1>4, <1>5 DEF Stage, StageAt, Thrown

LEMMA ViewNext == RunInv' => View'
  BY ViewHolds, PTL

-----------------------------------------------------------------------------
(* What a step of SequentialRun is, packet by packet.                       *)
Stutters(q) == Stage(q)' = Stage(q) /\ Passed(q)' = Passed(q)

LEMMA OthersStutter ==
  ASSUME NEW q \in Packets, Same(q), Fixed
  PROVE  Stutters(q)
<1>1. /\ UNCHANGED <<nodes, order, async>> /\ Positions' = Positions /\ (Refusing' <=> Refusing)
      /\ caller'[q] = caller[q] /\ turn'[q] = turn[q]
      /\ link'[q] = link[q] /\ value'[q] = value[q]
  BY DEF Fixed, Positions, Refusing, Same
<1>2. Passed(q)' = Passed(q)
  BY <1>1 DEF Passed, Launched, Result, NodesOf
<1> QED
  BY <1>1, <1>2 DEF Stutters, Stage

LEMMA NoMove ==
  ASSUME Fixed, \A q \in Packets : Stutters(q)
  PROVE  UNCHANGED Run!vars
<1>1. order' = order /\ Refusing' = Refusing
  BY DEF Fixed, Refusing
<1>2. [p \in Packets |-> Stage(p)]' = [p \in Packets |-> Stage(p)]
  BY DEF Stutters
<1>3. [p \in Packets |-> Passed(p)]' = [p \in Packets |-> Passed(p)]
  BY DEF Stutters
<1> QED
  BY <1>1, <1>2, <1>3 DEF Run!vars

(* The move of one packet: from stage s to t, with u passed afterwards.     *)
LEMMA OneMove ==
  ASSUME NEW p \in Packets, \A q \in Packets \ {p} : Stutters(q),
         NEW t, Stage(p)' = t, NEW u, Passed(p)' = u
  PROVE  /\ [q \in Packets |-> Stage(q)]' = [[q \in Packets |-> Stage(q)] EXCEPT ![p] = t]
         /\ [q \in Packets |-> Passed(q)]' = [[q \in Packets |-> Passed(q)] EXCEPT ![p] = u]
         /\ u = Passed(p) =>
              [q \in Packets |-> Passed(q)]' = [q \in Packets |-> Passed(q)]
         /\ [q \in Packets |-> Stage(q)][p] = Stage(p)
         /\ [q \in Packets |-> Passed(q)][p] = Passed(p)
  BY DEF Stutters

LEMMA Begins ==
  ASSUME Fixed, NEW p \in Packets, \A q \in Packets \ {p} : Stutters(q),
         Stage(p) = "idle", Passed(p)' = Passed(p),
         Stage(p)' = IF Refusing THEN "refused"
                     ELSE IF order = <<>> THEN "finished" ELSE "running"
  PROVE  Run!Next
<1>1. order' = order /\ Refusing' = Refusing
  BY DEF Fixed, Refusing
<1> DEFINE t == IF Refusing THEN "refused"
                ELSE IF order = <<>> THEN "finished" ELSE "running"
<1>2. /\ [q \in Packets |-> Stage(q)]' = [[q \in Packets |-> Stage(q)] EXCEPT ![p] = t]
      /\ [q \in Packets |-> Passed(q)]' = [q \in Packets |-> Passed(q)]
      /\ [q \in Packets |-> Stage(q)][p] = "idle"
  BY OneMove
<1>3. Run!Begin(p)
  BY <1>1, <1>2 DEF Run!Begin
<1> QED
  BY <1>3 DEF Run!Next

LEMMA Fails ==
  ASSUME Fixed, NEW p \in Packets, \A q \in Packets \ {p} : Stutters(q),
         Stage(p) = "running", Passed(p)' = Passed(p), Stage(p)' = "failed"
  PROVE  Run!Next
<1>1. order' = order /\ Refusing' = Refusing
  BY DEF Fixed, Refusing
<1>2. /\ [q \in Packets |-> Stage(q)]' = [[q \in Packets |-> Stage(q)] EXCEPT ![p] = "failed"]
      /\ [q \in Packets |-> Passed(q)]' = [q \in Packets |-> Passed(q)]
      /\ [q \in Packets |-> Stage(q)][p] = "running"
  BY OneMove
<1>3. Run!Fail(p)
  BY <1>1, <1>2 DEF Run!Fail
<1> QED
  BY <1>3 DEF Run!Next

LEMMA PassesOne ==
  ASSUME GraphInv, Fixed, NEW p \in Packets, \A q \in Packets \ {p} : Stutters(q),
         NEW n \in Nat, n + 1 <= Len(order), Stage(p) = "running",
         Passed(p) = Prefix(n), Passed(p)' = Prefix(n + 1),
         Stage(p)' = IF n + 1 = Len(order) THEN "finished" ELSE "running"
  PROVE  Run!Next
<1>1. order' = order /\ Refusing' = Refusing /\ order \in Seq(Index(nodes)) /\ Len(order) \in Nat
  BY OrderFacts DEF Fixed, Refusing
<1>2. Len(Prefix(n)) = n /\ Prefix(n + 1) = Append(Prefix(n), order[n + 1])
  <2>1. Prefix(n) \in Seq(Index(nodes)) /\ Len(Prefix(n)) = n
    BY <1>1 DEF Prefix
  <2>2. Prefix(n + 1) \in Seq(Index(nodes)) /\ Len(Prefix(n + 1)) = n + 1
    BY <1>1 DEF Prefix
  <2>3. \A i \in 1 .. n + 1 : Prefix(n + 1)[i] = Append(Prefix(n), order[n + 1])[i]
    BY <1>1, <2>1 DEF Prefix
  <2>4. order[n + 1] \in Index(nodes)
    BY <1>1
  <2> QED
    BY <2>1, <2>2, <2>3, <2>4
<1> DEFINE t == IF n + 1 = Len(order) THEN "finished" ELSE "running"
           u == Append(Prefix(n), order[n + 1])
<1>3. /\ [q \in Packets |-> Stage(q)]' = [[q \in Packets |-> Stage(q)] EXCEPT ![p] = t]
      /\ [q \in Packets |-> Passed(q)]' = [[q \in Packets |-> Passed(q)] EXCEPT ![p] = u]
      /\ [q \in Packets |-> Stage(q)][p] = "running"
      /\ [q \in Packets |-> Passed(q)][p] = Prefix(n)
  BY <1>2, OneMove
<1>4. Run!Pass(p)
  BY <1>1, <1>2, <1>3 DEF Run!Pass
<1> QED
  BY <1>4 DEF Run!Next

-----------------------------------------------------------------------------
LEMMA Seen ==
  ASSUME RunInv, RunInv', Fixed, NEW p \in Packets, NEW m \in 0 .. Len(order), Reached(p, m),
         NEW n \in 0 .. Len(order), Reached(p, n)'
  PROVE  /\ Passed(p) = Prefix(m) /\ Stage(p) = StageAt(p, m)
         /\ Passed(p)' = Prefix(n) /\ Stage(p)' = StageAt(p, n)'
<1>1. View /\ View'
  BY ViewHolds, ViewNext
<1>2. Passed(p) = Prefix(m) /\ Stage(p) = StageAt(p, m)
  BY <1>1 DEF View
<1>3. order' = order /\ n \in 0 .. Len(order')
  BY DEF Fixed
<1>4. Passed(p)' = Prefix(n)' /\ Stage(p)' = StageAt(p, n)'
  BY <1>1, <1>3 DEF View
<1>5. Prefix(n)' = Prefix(n)
  BY <1>3 DEF Prefix
<1> QED
  BY <1>2, <1>4, <1>5

(* The steps of a call that has begun and does not fail now.                *)
LEMMA CallSteps ==
  ASSUME RunInv, RunInv', NEW p \in Packets, NEW s,
         caller' = [caller EXCEPT ![p] = s],
         UNCHANGED <<nodes, order, async, turn, link, value>>,
         caller[p] \notin {"idle", "threw"}, s # "idle",
         s = "threw" => Refusing \/ Thrown(p) \/ (~Launched(p) /\ turn[p] = Len(order))
  PROVE  UNCHANGED Run!vars
<1>1. PacketTypes /\ Fixed
  BY DEF RunInv, Fixed
<1>2. caller'[p] = s /\ \A q \in Packets \ {p} : Same(q)
  BY <1>1 DEF PacketTypes, Same
<1>3. PICK n \in 0 .. Len(order) : Reached(p, n)
  BY ReachedExists
<1>4. Reached(p, n)' /\ (Thrown(p)' <=> Thrown(p)) /\ (Refusing' <=> Refusing)
  BY <1>3 DEF Reached, Launched, Thrown, Refusing, Positions
<1>5. Passed(p)' = Passed(p) /\ Stage(p) = StageAt(p, n) /\ Stage(p)' = StageAt(p, n)'
  BY <1>1, <1>3, <1>4, Seen
<1>6. StageAt(p, n)' = StageAt(p, n)
  <2>1. s = "threw" => Refusing \/ Thrown(p) \/ n = Len(order)
    BY <1>3 DEF Reached
  <2> QED
    BY <1>2, <1>4, <2>1 DEF StageAt
<1> QED
  BY <1>1, <1>2, <1>5, <1>6, OthersStutter, NoMove DEF Stutters

LEMMA BeginSteps ==
  ASSUME RunInv, RunInv', NEW p \in Packets, RunSync(p) \/ SubmitPacket(p)
  PROVE  Run!Next
<1>1. PacketTypes /\ CallerInv(p) /\ Fixed /\ Len(order) \in Nat /\ GraphInv
  BY OrderFacts DEF RunInv, PacketInv, Fixed, RunSync, SubmitPacket
<1>2. PICK s \in {"looping", "launching", "returned", "invalid"} :
        /\ caller' = [caller EXCEPT ![p] = s]
        /\ caller[p] = "idle"
        /\ UNCHANGED <<nodes, order, async, turn, link, value>>
  BY DEF RunSync, SubmitPacket
<1>3. caller'[p] = s /\ \A q \in Packets \ {p} : Same(q)
  BY <1>1, <1>2 DEF PacketTypes, Same
<1>4. Unlinked(p) /\ turn[p] = 0
  BY <1>1, <1>2 DEF CallerInv
<1>5. Reached(p, 0) /\ Reached(p, 0)' /\ 0 \in 0 .. Len(order)
  BY <1>1, <1>2, <1>4 DEF Reached, Launched, Unlinked, Positions
<1>6. ~Thrown(p)' /\ (Refusing' <=> Refusing) /\ order' = order
  BY <1>2, <1>4 DEF Thrown, Unlinked, Refusing, Positions
<1>7. Passed(p)' = Passed(p) /\ Stage(p) = StageAt(p, 0) /\ Stage(p)' = StageAt(p, 0)'
  BY <1>1, <1>5, Seen
<1>8. 0 = Len(order) <=> order = <<>>
  <2>1. order \in Seq(Index(nodes))
    BY <1>1, OrderFacts
  <2> QED
    BY <2>1
<1>9. Stage(p) = "idle"
      /\ Stage(p)' = IF Refusing THEN "refused"
                     ELSE IF order = <<>> THEN "finished" ELSE "running"
  BY <1>2, <1>3, <1>6, <1>7, <1>8 DEF StageAt
<1> QED
  BY <1>1, <1>3, <1>7, <1>9, OthersStutter, Begins

LEMMA LoopSteps ==
  ASSUME RunInv, RunInv', NEW p \in Packets, RunNode(p) \/ RunNodeThrows(p)
  PROVE  Run!Next
<1>1. PacketTypes /\ CallerInv(p) /\ Fixed /\ Len(order) \in Nat /\ GraphInv
      /\ order' = order /\ link' = link /\ (Refusing' <=> Refusing)
  BY OrderFacts DEF RunInv, PacketInv, Fixed, RunNode, RunNodeThrows, Refusing
<1>2. caller[p] = "looping" /\ turn[p] < Len(order) /\ turn[p] \in Nat /\ ~Refusing
  BY <1>1 DEF RunNode, RunNodeThrows, PacketTypes, CallerInv
<1>3. Unlinked(p) /\ ~Launched(p) /\ ~Launched(p)' /\ ~Thrown(p) /\ ~Thrown(p)'
  BY <1>1, <1>2 DEF CallerInv, Unlinked, Launched, Thrown, Positions
<1>4. turn[p] \in 0 .. Len(order) /\ Reached(p, turn[p])
  BY <1>1, <1>2, <1>3 DEF Reached
<1>5. Stage(p) = "running" /\ Passed(p) = Prefix(turn[p])
  <2>1. View
    BY ViewHolds
  <2> QED
    BY <1>2, <1>3, <1>4, <2>1 DEF View, StageAt
<1>6. PICK m \in Nat : turn[p] = m
  BY <1>2
<1>7. CASE RunNode(p)
  <2>1. turn'[p] = m + 1 /\ caller' = caller /\ \A q \in Packets \ {p} : Same(q)
    BY <1>1, <1>6, <1>7 DEF RunNode, PacketTypes, Same
  <2>2. PICK n \in 0 .. Len(order) : n = m + 1
    BY <1>1, <1>2, <1>6
  <2>3. Reached(p, n)'
    BY <1>1, <1>3, <2>1, <2>2 DEF Reached
  <2>4. Passed(p)' = Prefix(n) /\ Stage(p)' = StageAt(p, n)'
    BY <1>1, <1>4, <2>3, Seen
  <2>5. Stage(p)' = IF n = Len(order) THEN "finished" ELSE "running"
    BY <1>1, <1>2, <1>3, <2>1, <2>4 DEF StageAt
  <2> QED
    BY <1>1, <1>2, <1>5, <1>6, <2>1, <2>2, <2>4, <2>5, OthersStutter, PassesOne
<1>8. CASE RunNodeThrows(p)
  <2>1. turn' = turn /\ caller'[p] = "threw" /\ \A q \in Packets \ {p} : Same(q)
    BY <1>1, <1>8 DEF RunNodeThrows, PacketTypes, Same
  <2>2. PICK n \in 0 .. Len(order) : n = turn[p]
    BY <1>4
  <2>3. Reached(p, n)'
    BY <1>1, <1>3, <2>1, <2>2 DEF Reached
  <2>4. Passed(p)' = Prefix(n) /\ Stage(p)' = StageAt(p, n)'
    BY <1>1, <1>4, <2>3, Seen
  <2>5. Stage(p)' = "failed"
    BY <1>1, <1>2, <2>1, <2>2, <2>4 DEF StageAt
  <2> QED
    BY <1>1, <1>5, <2>1, <2>2, <2>4, <2>5, OthersStutter, Fails
<1> QED
  BY <1>7, <1>8

LEMMA LaunchSteps ==
  ASSUME RunInv, RunInv', NEW p \in Packets, Launch(p)
  PROVE  UNCHANGED Run!vars
<1> DEFINE k == turn[p] + 1
<1>1. /\ PacketTypes /\ CallerInv(p) /\ Fixed /\ Len(order) \in Nat /\ GraphInv
      /\ order' = order /\ caller' = caller /\ (Refusing' <=> Refusing) /\ Positions' = Positions
  BY OrderFacts DEF RunInv, PacketInv, Fixed, Launch, Refusing, Positions
<1>2. caller[p] = "launching" /\ turn[p] < Len(order) /\ turn[p] \in Nat /\ k \in Positions
  BY <1>1 DEF Launch, PacketTypes, Positions
<1>3. Linked(p) /\ Positions \subseteq Nat
  BY <1>1, <1>2 DEF CallerInv, Positions
<1>4. /\ link'[p][k] = "waiting" /\ link[p][k] = "absent"
      /\ \A j \in Positions \ {k} : link'[p][j] = link[p][j]
      /\ \A q \in Packets \ {p} : Same(q)
  <2>1. link' = [link EXCEPT ![p][k] = "waiting"] /\ turn' = [turn EXCEPT ![p] = turn[p] + 1]
        /\ value' = value
    BY DEF Launch
  <2>2. link[p][k] = "absent"
    BY <1>2, <1>3 DEF Linked
  <2> QED
    BY <1>1, <1>2, <2>1, <2>2 DEF PacketTypes, Same
<1> HIDE DEF k
<1>5. PICK n \in 0 .. Len(order) : Reached(p, n)
  BY ReachedExists
<1>6. Launched(p)' /\ (Thrown(p)' <=> Thrown(p))
  BY <1>1, <1>2, <1>4 DEF Launched, Thrown
<1>7. \A j \in Positions : link'[p][j] = "done" <=> link[p][j] = "done"
  BY <1>4
<1>8. Reached(p, n)'
  <2>1. \A j \in Positions : link[p][j] = "done" <=> j <= n
    <3>1. CASE Launched(p)
      BY <1>5, <3>1 DEF Reached
    <3>2. CASE ~Launched(p)
      <4>1. ASSUME NEW j \in Positions PROVE link[p][j] = "absent" /\ j \in Nat /\ j > turn[p]
        <5>1. j \in Nat /\ link[p][j] = "absent"
          BY <1>3, <3>2 DEF Launched
        <5>2. ~(j <= turn[p])
          BY <1>3, <5>1 DEF Linked
        <5> QED
          BY <1>2, <5>1, <5>2
      <4>2. n = turn[p]
        BY <1>5, <3>2 DEF Reached
      <4> QED
        BY <1>2, <1>3, <4>1, <4>2
    <3> QED
      BY <3>1, <3>2
  <2> QED
    BY <1>1, <1>5, <1>6, <1>7, <2>1 DEF Reached
<1>9. Passed(p)' = Passed(p) /\ Stage(p) = StageAt(p, n) /\ Stage(p)' = StageAt(p, n)'
  BY <1>1, <1>5, <1>8, Seen
<1>10. StageAt(p, n)' = StageAt(p, n)
  BY <1>1, <1>6 DEF StageAt
<1> QED
  BY <1>1, <1>4, <1>9, <1>10, OthersStutter, NoMove DEF Stutters

(* The unwinding ends: it failed before, unless all that was launched ran.  *)
LEMMA UnwindSteps ==
  ASSUME RunInv, RunInv', NEW p \in Packets, Unwind(p)
  PROVE  Run!Next \/ UNCHANGED Run!vars
<1>1. /\ PacketTypes /\ CallerInv(p) /\ ChainInv(p) /\ Fixed /\ Len(order) \in Nat /\ GraphInv
      /\ order' = order /\ link' = link /\ turn' = turn /\ (Refusing' <=> Refusing)
      /\ order \in Seq(Index(nodes))
  BY OrderFacts DEF RunInv, PacketInv, Fixed, Unwind, Refusing
<1>2. /\ caller[p] = "unwinding" /\ turn[p] < Len(order) /\ turn[p] \in Nat /\ Linked(p)
      /\ caller' = [caller EXCEPT ![p] = "threw"] /\ LastResolved(p)
      /\ UNCHANGED <<nodes, order, async, turn, link, value>>
  BY <1>1 DEF Unwind, PacketTypes, CallerInv
<1>3. CASE Thrown(p)
  BY <1>2, <1>3, CallSteps
<1>4. CASE ~Thrown(p)
  <2>1. PICK n \in 0 .. Len(order) : Reached(p, n)
    BY ReachedExists
  <2>2. Reached(p, n)' /\ ~Thrown(p)'
    BY <1>1, <1>4, <2>1 DEF Reached, Launched, Thrown, Positions
  <2>3. n # Len(order) /\ ~Refusing
    <3>1. CASE Launched(p)
      <4>1. Len(order) \in Positions /\ link[p][Len(order)] = "absent"
        BY <1>1, <1>2 DEF Positions, Linked
      <4> QED
        BY <1>1, <2>1, <3>1, <4>1 DEF Reached, Refusing, Positions
    <3>2. CASE ~Launched(p)
      BY <1>1, <1>2, <2>1, <3>2 DEF Reached, Refusing
    <3> QED
      BY <3>1, <3>2
  <2>4. caller'[p] = "threw" /\ \A q \in Packets \ {p} : Same(q)
    BY <1>1, <1>2 DEF PacketTypes, Same
  <2>5. Passed(p)' = Passed(p) /\ Stage(p) = StageAt(p, n) /\ Stage(p)' = StageAt(p, n)'
    BY <1>1, <2>1, <2>2, Seen
  <2>6. Stage(p) = "running" /\ Stage(p)' = "failed"
    BY <1>1, <1>2, <1>4, <2>2, <2>3, <2>4, <2>5 DEF StageAt
  <2> QED
    BY <1>1, <2>4, <2>5, <2>6, OthersStutter, Fails
<1> QED
  BY <1>3, <1>4

LEMMA GetSteps ==
  ASSUME RunInv, RunInv', NEW p \in Packets, Get(p)
  PROVE  UNCHANGED Run!vars
<1>1. PacketTypes /\ CallerInv(p) /\ Len(order) \in Nat /\ GraphInv
      /\ UNCHANGED <<nodes, order, async, turn, link, value>>
  BY OrderFacts DEF RunInv, PacketInv, Get
<1>2. CASE caller[p] = "invalid"
  <2>1. caller' = [caller EXCEPT ![p] = "threw"] /\ Refusing
    BY <1>1, <1>2 DEF Get, CallerInv
  <2> QED
    BY <1>1, <1>2, <2>1, CallSteps
<1>3. CASE caller[p] = "holding" /\ (turn[p] > 0 => link[p][turn[p]] = "done")
  <2>1. caller' = [caller EXCEPT ![p] = "returned"]
    BY <1>3 DEF Get
  <2> QED
    BY <1>1, <1>3, <2>1, CallSteps
<1>4. CASE caller[p] = "holding" /\ ~(turn[p] > 0 => link[p][turn[p]] = "done")
  <2>1. caller' = [caller EXCEPT ![p] = "threw"]
    BY <1>4 DEF Get
  <2>2. Thrown(p)
    <3>1. link[p][turn[p]] = "thrown" /\ turn[p] \in Positions
      BY <1>1, <1>4 DEF Get, LastResolved, Resolved, PacketTypes, Positions
    <3> QED
      BY <3>1 DEF Thrown
  <2> QED
    BY <1>1, <1>4, <2>1, <2>2, CallSteps
<1> QED
  BY <1>2, <1>3, <1>4 DEF Get

(* A link in its node: those before are done, those after have not started. *)
LEMMA LinkFacts ==
  ASSUME RunInv, NEW p \in Packets, NEW k \in Positions,
         link[p][k] \in InNode \cup {"waiting"}
  PROVE  /\ caller[p] \notin {"idle", "threw"} /\ ~Refusing /\ Launched(p)
         /\ k \in Nat /\ k >= 1 /\ Len(order) \in Nat /\ k <= Len(order)
         /\ k - 1 \in 0 .. Len(order) /\ k \in 0 .. Len(order) /\ Positions \subseteq Nat
         /\ link[p][k] \in InNode =>
              /\ \A j \in Positions : link[p][j] = "done" <=> j <= k - 1
              /\ ~Thrown(p) /\ Stage(p) = "running" /\ Passed(p) = Prefix(k - 1)
              /\ Reached(p, k - 1)
<1>1. ChainInv(p) /\ CallerInv(p) /\ GraphInv
  BY DEF RunInv, PacketInv
<1>2. /\ k \in Nat /\ k >= 1 /\ Len(order) \in Nat /\ k <= Len(order) /\ ~Refusing
      /\ k - 1 \in 0 .. Len(order) /\ k \in 0 .. Len(order) /\ Positions \subseteq Nat
  BY <1>1, PositionFacts DEF Positions
<1>3. caller[p] \notin {"idle", "threw"} /\ Launched(p)
  <2>1. ~Unlinked(p) /\ ~Settled(p) /\ Launched(p)
    BY DEF Unlinked, Settled, Launched, InNode
  <2> QED
    BY <1>1, <2>1 DEF CallerInv
<1>4. ASSUME link[p][k] \in InNode
      PROVE  /\ \A j \in Positions : link[p][j] = "done" <=> j <= k - 1
             /\ ~Thrown(p) /\ Stage(p) = "running" /\ Passed(p) = Prefix(k - 1)
             /\ Reached(p, k - 1)
  <2>1. ASSUME NEW j \in Positions
        PROVE  (link[p][j] = "done" <=> j <= k - 1) /\ link[p][j] # "thrown"
    <3> j \in Nat
      BY <1>2
    <3>1. CASE j < k
      <4>1. link[p][j] = "done"
        BY <1>1, <1>4, <3>1 DEF ChainInv
      <4> QED
        BY <1>2, <3>1, <4>1
    <3>2. CASE j = k
      BY <1>2, <1>4, <3>2 DEF InNode
    <3>3. CASE k < j
      <4>1. link[p][k] \notin Resolved
        BY <1>4 DEF InNode, Resolved
      <4>2. link[p][j] \in {"absent", "waiting"}
        BY <1>1, <3>3, <4>1 DEF ChainInv
      <4> QED
        BY <1>2, <3>3, <4>2
    <3> QED
      BY <1>2, <3>1, <3>2, <3>3
  <2>2. ~Thrown(p) /\ Reached(p, k - 1)
    BY <1>2, <1>3, <2>1 DEF Thrown, Reached
  <2>3. Passed(p) = Prefix(k - 1) /\ Stage(p) = StageAt(p, k - 1)
    BY <1>2, <2>2, ViewHolds DEF View
  <2> QED
    BY <1>2, <1>3, <2>1, <2>2, <2>3 DEF StageAt
<1> QED
  BY <1>2, <1>3, <1>4

LEMMA CompleteSteps ==
  ASSUME RunInv, RunInv', NEW p \in Packets, NEW k \in Positions,
         link[p][k] \in {"running", "answered"}, Complete(p, k)
  PROVE  Run!Next
<1>1. /\ PacketTypes /\ GraphInv /\ Fixed /\ Positions' = Positions /\ (Refusing' <=> Refusing)
      /\ order' = order /\ caller' = caller /\ turn' = turn
  BY DEF RunInv, Complete, Fixed, Positions, Refusing
<1>2. /\ caller[p] \notin {"idle", "threw"} /\ ~Refusing
      /\ k \in Nat /\ k >= 1 /\ Len(order) \in Nat /\ k <= Len(order)
      /\ k - 1 \in 0 .. Len(order) /\ k \in 0 .. Len(order) /\ Positions \subseteq Nat
      /\ \A j \in Positions : link[p][j] = "done" <=> j <= k - 1
      /\ ~Thrown(p) /\ Stage(p) = "running" /\ Passed(p) = Prefix(k - 1)
      /\ Reached(p, k - 1)
  BY LinkFacts DEF InNode
<1>3. /\ link'[p][k] = "done" /\ \A j \in Positions \ {k} : link'[p][j] = link[p][j]
      /\ \A q \in Packets \ {p} : Same(q)
  BY <1>1, <1>2 DEF Complete, PacketTypes, Same
<1>4. ASSUME NEW j \in Positions PROVE link'[p][j] = "done" <=> j <= k
  <2>1. j \in Nat
    BY <1>2
  <2>2. CASE j = k
    BY <1>2, <1>3, <2>2
  <2>3. CASE j # k
    <3>1. link'[p][j] = "done" <=> j <= k - 1
      BY <1>2, <1>3, <2>3
    <3> QED
      BY <1>2, <2>1, <2>3, <3>1
  <2> QED
    BY <2>2, <2>3
<1>5. ~Thrown(p)' /\ Reached(p, k)'
  BY <1>1, <1>2, <1>3, <1>4 DEF Thrown, Reached, Launched
<1>6. Passed(p)' = Prefix(k) /\ Stage(p)' = StageAt(p, k)'
  BY <1>1, <1>2, <1>5, Seen
<1>7. Stage(p)' = IF k = Len(order) THEN "finished" ELSE "running"
  BY <1>1, <1>2, <1>5, <1>6 DEF StageAt
<1>8. PICK n \in Nat : n = k - 1 /\ n + 1 = k
  BY <1>2
<1> QED
  BY <1>1, <1>2, <1>3, <1>6, <1>7, <1>8, OthersStutter, PassesOne

(* A link goes on without an end of its node, or hands an exception on.     *)
LEMMA QuietSteps ==
  ASSUME RunInv, RunInv', NEW p \in Packets, NEW k \in Positions,
         link[p][k] \in InNode \cup {"waiting"}, NEW s \in InNode \cup {"thrown"},
         link' = [link EXCEPT ![p][k] = s],
         UNCHANGED <<nodes, order, async, caller, turn, value>>,
         s = "thrown" => Thrown(p)
  PROVE  UNCHANGED Run!vars
<1>1. /\ PacketTypes /\ GraphInv /\ Fixed /\ Positions' = Positions /\ (Refusing' <=> Refusing)
      /\ order' = order
  BY DEF RunInv, Fixed, Positions, Refusing
<1>2. Launched(p)
  BY LinkFacts
<1>3. /\ link'[p][k] = s /\ \A j \in Positions \ {k} : link'[p][j] = link[p][j]
      /\ \A q \in Packets \ {p} : Same(q) /\ link[p][k] \notin {"done", "thrown"}
  BY <1>1 DEF PacketTypes, Same, InNode
<1>4. /\ Launched(p)' /\ \A j \in Positions : link'[p][j] = "done" <=> link[p][j] = "done"
      /\ Thrown(p)' <=> Thrown(p)
  BY <1>1, <1>3 DEF Launched, Thrown, InNode
<1>5. PICK n \in 0 .. Len(order) : Reached(p, n)
  BY ReachedExists
<1>6. Reached(p, n)'
  BY <1>1, <1>2, <1>4, <1>5 DEF Reached
<1>7. Passed(p)' = Passed(p) /\ Stage(p) = StageAt(p, n) /\ Stage(p)' = StageAt(p, n)'
  BY <1>1, <1>5, <1>6, Seen
<1>8. StageAt(p, n)' = StageAt(p, n)
  BY <1>1, <1>4 DEF StageAt
<1> QED
  BY <1>1, <1>3, <1>7, <1>8, OthersStutter, NoMove DEF Stutters

LEMMA ThrowSteps ==
  ASSUME RunInv, RunInv', NEW p \in Packets, NEW k \in Positions, LinkThrows(p, k)
  PROVE  Run!Next
<1>1. /\ PacketTypes /\ GraphInv /\ Fixed /\ Positions' = Positions /\ (Refusing' <=> Refusing)
      /\ order' = order /\ caller' = caller /\ turn' = turn
  BY DEF RunInv, LinkThrows, Fixed, Positions, Refusing
<1>2. /\ caller[p] \notin {"idle", "threw"} /\ ~Refusing
      /\ k \in Nat /\ k >= 1 /\ Len(order) \in Nat /\ k <= Len(order)
      /\ k - 1 \in 0 .. Len(order)
      /\ \A j \in Positions : link[p][j] = "done" <=> j <= k - 1
      /\ Stage(p) = "running" /\ Passed(p) = Prefix(k - 1) /\ Reached(p, k - 1)
  BY LinkFacts DEF LinkThrows, InNode
<1>3. /\ link'[p][k] = "thrown" /\ \A j \in Positions \ {k} : link'[p][j] = link[p][j]
      /\ \A q \in Packets \ {p} : Same(q) /\ link[p][k] # "done"
  BY <1>1 DEF LinkThrows, PacketTypes, Same
<1>4. ASSUME NEW j \in Positions PROVE link'[p][j] = "done" <=> j <= k - 1
  <2>1. CASE j = k
    BY <1>2, <1>3, <2>1
  <2>2. CASE j # k
    BY <1>2, <1>3, <2>2
  <2> QED
    BY <2>1, <2>2
<1>5. Thrown(p)' /\ Reached(p, k - 1)'
  BY <1>1, <1>2, <1>3, <1>4 DEF Thrown, Reached, Launched
<1>6. Passed(p)' = Prefix(k - 1) /\ Stage(p)' = StageAt(p, k - 1)'
  BY <1>1, <1>2, <1>5, Seen
<1>7. Stage(p)' = "failed"
  BY <1>1, <1>2, <1>5, <1>6 DEF StageAt
<1> QED
  BY <1>1, <1>2, <1>3, <1>6, <1>7, OthersStutter, Fails

LEMMA LinkSteps ==
  ASSUME RunInv, RunInv', NEW p \in Packets, NEW k \in Positions, Link(p, k)
  PROVE  Run!Next \/ UNCHANGED Run!vars
<1>1. CASE GetPrevious(p, k)
  <2>1. k \in Nat /\ Len(order) \in Nat /\ GraphInv
    BY PositionFacts DEF RunInv
  <2>2. CASE k > 1 /\ link[p][k - 1] = "thrown"
    <3>1. link' = [link EXCEPT ![p][k] = "thrown"] /\ k - 1 \in Positions
      BY <1>1, <2>1, <2>2 DEF GetPrevious, Positions
    <3>2. Thrown(p)
      BY <2>2, <3>1 DEF Thrown
    <3> QED
      BY <1>1, <3>1, <3>2, QuietSteps DEF GetPrevious
  <2>3. CASE ~(k > 1 /\ link[p][k - 1] = "thrown")
    <3>1. link' = [link EXCEPT ![p][k] = "running"]
      BY <1>1, <2>3 DEF GetPrevious
    <3>2. PICK s \in InNode : s = "running" /\ s # "thrown"
      BY DEF InNode
    <3> QED
      BY <1>1, <3>1, <3>2, QuietSteps DEF GetPrevious
  <2> QED
    BY <2>2, <2>3
<1>2. CASE Process(p, k) \/ Collect(p, k)
  BY <1>2, CompleteSteps DEF Process, Collect
<1>3. CASE SubmitNode(p, k)
  <2>1. /\ link[p][k] = "running" /\ link' = [link EXCEPT ![p][k] = "awaiting"]
        /\ UNCHANGED <<nodes, order, async, caller, turn, value>>
    BY <1>3 DEF SubmitNode
  <2>2. "running" \in InNode /\ \E s \in InNode : s = "awaiting" /\ s # "thrown"
    BY DEF InNode
  <2> QED
    BY <2>1, <2>2, QuietSteps
<1>4. CASE NodeAnswers(p, k)
  <2>1. PICK s \in {"answered", "failed"} : link' = [link EXCEPT ![p][k] = s]
    BY <1>4 DEF NodeAnswers
  <2>2. link[p][k] = "awaiting" /\ UNCHANGED <<nodes, order, async, caller, turn, value>>
    BY <1>4 DEF NodeAnswers
  <2>3. s \in InNode \cup {"thrown"} /\ s # "thrown" /\ link[p][k] \in InNode \cup {"waiting"}
    BY <2>1, <2>2 DEF InNode
  <2> QED
    BY <2>1, <2>2, <2>3, QuietSteps
<1>5. CASE LinkThrows(p, k)
  BY <1>5, ThrowSteps
<1> QED
  BY <1>1, <1>2, <1>3, <1>4, <1>5 DEF Link

LEMMA RunImplements == RunInv /\ RunInv' /\ [Next]_vars => [Run!Next]_Run!vars
<1> SUFFICES ASSUME RunInv, RunInv', [Next]_vars PROVE Run!Next \/ UNCHANGED Run!vars
  OBVIOUS
<1>1. CASE UNCHANGED vars
  <2>1. Fixed /\ \A p \in Packets : Same(p)
    BY <1>1 DEF vars, Fixed, Same
  <2> QED
    BY <2>1, OthersStutter, NoMove
<1>2. CASE Next
  <2>1. PICK p \in Packets :
          \/ RunSync(p) \/ SubmitPacket(p) \/ Get(p) \/ Drop(p)
          \/ Caller(p)
          \/ \E k \in Positions : Link(p, k)
    BY <1>2 DEF Next
  <2>2. CASE RunSyncReturns(p) \/ LaunchFails(p) \/ SubmitReturns(p) \/ Drop(p) \/ DropEnds(p)
    <3>1. PICK s \in {"returned", "unwinding", "holding", "dropping", "dropped"} :
            caller' = [caller EXCEPT ![p] = s]
      BY <2>2 DEF RunSyncReturns, LaunchFails, SubmitReturns, Drop, DropEnds
    <3>2. caller[p] \notin {"idle", "threw"}
          /\ UNCHANGED <<nodes, order, async, turn, link, value>>
      BY <2>2 DEF RunSyncReturns, LaunchFails, SubmitReturns, Drop, DropEnds
    <3> QED
      BY <3>1, <3>2, CallSteps
  <2>3. CASE \E k \in Positions : Link(p, k)
    BY <2>3, LinkSteps
  <2> QED
    BY <2>1, <2>2, <2>3, BeginSteps, LoopSteps, LaunchSteps, UnwindSteps, GetSteps DEF Caller
<1> QED
  BY <1>1, <1>2

LEMMA RunBegins == Init => Run!Init
<1> SUFFICES ASSUME Init PROVE Run!Init
  OBVIOUS
<1>1. RunInv /\ View
  BY RunInit, ViewHolds
<1>2. ASSUME NEW p \in Packets PROVE Stage(p) = "idle" /\ Passed(p) = <<>>
  <2>1. caller[p] = "idle" /\ \A k \in Positions : link[p][k] = "absent"
    BY DEF Init
  <2> QED
    BY <2>1 DEF Stage, Passed, Launched
<1> QED
  BY <1>2 DEF Run!Init, Refusing

(* run_sync and submit_packet alike take a packet through the nodes one by  *)
(* one, in the order of the graph, until it has passed them all or one      *)
(* fails.  That it gets to the end is left to the runs.                     *)
THEOREM PacketsRunNodeByNode == Spec => Run!Safety
<1>1. RunInv /\ RunInv' /\ [Next]_vars => [Run!Next]_Run!vars
  BY RunImplements
<1> QED
  BY <1>1, RunBegins, RunAlways, PTL DEF Spec, Run!Safety
=============================================================================
