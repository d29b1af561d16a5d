----------------------------- MODULE GraphOrder -----------------------------
(***************************************************************************)
(* TaskGraph::add_node and TaskGraph::execution_order of                   *)
(* src/infer/graph/graph.cpp.  A graph is built node by node; then the     *)
(* order is computed: the checks of the keys and names, the indegrees, and *)
(* the loop that pops one ready node at a time from a FIFO queue.          *)
(***************************************************************************)
EXTENDS Graph

CONSTANTS
  NodeChoices,    (* the nodes a program may add                            *)
  MaxAdded        (* bound: size of the graph                               *)

ASSUME ChoicesAssumption ==
  /\ NodeChoices \subseteq Nodes
  /\ MaxAdded \in Nat

VARIABLES
  nodes_,      (* nodes_                                                    *)
  phase,       (* where execution_order is                                  *)
  sorted,      (* order, and at the end its return value                    *)
  ready,       (* the queue ready                                           *)
  indegree     (* indegree                                                  *)

orderVars == <<nodes_, phase, sorted, ready, indegree>>

Phases == {"building", "sorting", "done"}

OrderInit ==
  /\ nodes_ = <<>>
  /\ phase = "building"
  /\ sorted = <<>>
  /\ ready = <<>>
  /\ indegree = <<>>

-----------------------------------------------------------------------------
(* add_node(node): the new node depends on the one added before it.         *)
AddNode(node) ==
  /\ phase = "building"
  /\ Len(nodes_) < MaxAdded
  /\ nodes_' = Append(nodes_,
       [node EXCEPT !.depends_on =
          IF nodes_ = <<>> THEN {} ELSE {nodes_[Len(nodes_)].name}])
  /\ UNCHANGED <<phase, sorted, ready, indegree>>

(* add_node(node, depends_on)                                               *)
AddNodeDependingOn(node) ==
  /\ phase = "building"
  /\ Len(nodes_) < MaxAdded
  /\ nodes_' = Append(nodes_, node)
  /\ UNCHANGED <<phase, sorted, ready, indegree>>

-----------------------------------------------------------------------------
(* The entries s holds, in ascending order: indices are pushed by loops     *)
(* over ascending indices.                                                  *)
Ascending(q, s) ==
  /\ {q[n] : n \in 1 .. Len(q)} = s
  /\ \A m, n \in 1 .. Len(q) : m < n => q[m] < q[n]

AscendingSeqs(s) == {q \in [1 .. Cardinality(s) -> s] : Ascending(q, s)}

EdgesInto(j) == {e \in Edges(nodes_) : e[2] = j}
EdgesFromTo(i, j) == {e \in Edges(nodes_) : e[1] = i /\ e[2] = j}

(* A key produced twice or an unknown dependency: return {}.                *)
Reject ==
  /\ phase = "building"
  /\ DuplicateProducer(nodes_) \/ MissingDependency(nodes_)
  /\ phase' = "done"
  /\ UNCHANGED <<nodes_, sorted, ready, indegree>>

PrepareWith(count) ==
  /\ phase = "building"
  /\ ~DuplicateProducer(nodes_)
  /\ ~MissingDependency(nodes_)
  /\ phase' = "sorting"
  /\ indegree' = count
  /\ ready' \in AscendingSeqs({j \in Index(nodes_) : count[j] = 0})
  /\ UNCHANGED <<nodes_, sorted>>

PrepareByName ==   (* slip: no ++indegree for the consumed keys *)
  PrepareWith([j \in Index(nodes_) |->
                 Cardinality({e \in EdgesInto(j) : e[3] \in Names})])

(* Count the edges into each node and queue the nodes that have none.       *)
Prepare ==
  /\ phase = "building"
  /\ ~DuplicateProducer(nodes_)
  /\ ~MissingDependency(nodes_)
  /\ phase' = "sorting"
  /\ indegree' = [j \in Index(nodes_) |-> Cardinality(EdgesInto(j))]
  /\ ready' \in AscendingSeqs({j \in Index(nodes_) : indegree'[j] = 0})
  /\ UNCHANGED <<nodes_, sorted>>

(* One turn of while (!ready.empty()): the node joins the order, the edges  *)
(* that leave it are removed, and the nodes that lose their last edge by    *)
(* that are queued.                                                         *)
Pop ==
  /\ phase = "sorting"
  /\ ready # <<>>
  /\ sorted' = Append(sorted, Head(ready))
  /\ indegree' = [j \in Index(nodes_) |->
       indegree[j] - Cardinality(EdgesFromTo(Head(ready), j))]
  /\ \E released \in AscendingSeqs({j \in Index(nodes_) :
                                      indegree[j] # 0 /\ indegree'[j] = 0}) :
       ready' = Tail(ready) \o released
  /\ UNCHANGED <<nodes_, phase>>

ReturnPartial ==   (* slip: the order is not compared with the nodes *)
  /\ phase = "sorting"
  /\ ready = <<>>
  /\ phase' = "done"
  /\ UNCHANGED <<nodes_, sorted, ready, indegree>>

ReturnReversed ==   (* slip: reversed, as after a depth-first search *)
  /\ phase = "sorting"
  /\ ready = <<>>
  /\ sorted' = IF Len(sorted) # Len(nodes_) THEN <<>>
              ELSE [n \in 1 .. Len(sorted) |-> sorted[Len(sorted) + 1 - n]]
  /\ phase' = "done"
  /\ UNCHANGED <<nodes_, ready, indegree>>

(* Fewer nodes ordered than there are: a cycle, return {}.                  *)
Return ==
  /\ phase = "sorting"
  /\ ready = <<>>
  /\ sorted' = IF Len(sorted) # Len(nodes_) THEN <<>> ELSE sorted
  /\ phase' = "done"
  /\ UNCHANGED <<nodes_, ready, indegree>>

-----------------------------------------------------------------------------
Sort == Reject \/ Prepare \/ Pop \/ Return

OrderNext ==
  \/ \E node \in NodeChoices : AddNode(node) \/ AddNodeDependingOn(node)
  \/ Sort

OrderSpec == OrderInit /\ [][OrderNext]_orderVars

-----------------------------------------------------------------------------
OrderTypeOK ==
  /\ nodes_ \in Seq(Nodes)
  /\ phase \in Phases
  /\ sorted \in Seq(Index(nodes_))
  /\ ready \in Seq(Index(nodes_))
  /\ phase = "sorting" => indegree \in [Index(nodes_) -> Nat]

(* A nonempty result runs every node exactly once, and none before a node   *)
(* it depends on by name or by a key it consumes.                           *)
ResultIsTopological ==
  phase = "done" /\ sorted # <<>> => Topological(sorted, nodes_)

(* The empty result, on which run_sync hands the packet back untouched,     *)
(* means exactly that no order exists: the loop never gives up a graph that *)
(* can be run, and never orders one that cannot.                            *)
EmptyMeansUnorderable ==
  phase = "done" /\ nodes_ # <<>> => (sorted = <<>> <=> Unorderable(nodes_))

Ordered(j) == \E n \in 1 .. Len(sorted) : sorted[n] = j
Queued(j) == \E n \in 1 .. Len(ready) : ready[n] = j
PendingInto(j) == {e \in EdgesInto(j) : ~Ordered(e[1])}

(* The indegrees count exactly the edges from nodes not yet ordered, and a  *)
(* node is queued or ordered exactly when none is left: no multiple edge or *)
(* repeated decrement makes the size_t wrap below zero.                     *)
IndegreesExact ==
  phase = "sorting" =>
    \A j \in Index(nodes_) :
      /\ indegree[j] = Cardinality(PendingInto(j))
      /\ indegree[j] = 0 <=> Ordered(j) \/ Queued(j)

(* A graph built with add_node(node) alone, names distinct, runs in the     *)
(* order of insertion if it runs at all.                                    *)
ChainRunsInOrder ==
  phase = "done" /\ sorted # <<>> /\ Chained(nodes_) =>
    \A n \in 1 .. Len(sorted) : sorted[n] = n

(* What the loop keeps besides: nothing is ordered or queued twice, and the *)
(* order so far respects the edges.                                         *)
LoopInvariant ==
  /\ phase = "building" => sorted = <<>> /\ ready = <<>>
  /\ phase = "sorting" =>
       /\ ~DuplicateProducer(nodes_)
       /\ ~MissingDependency(nodes_)
       /\ \A m, n \in 1 .. Len(sorted) : sorted[m] = sorted[n] => m = n
       /\ \A m, n \in 1 .. Len(ready) : ready[m] = ready[n] => m = n
       /\ \A j \in Index(nodes_) : ~(Ordered(j) /\ Queued(j))
       /\ Respects(sorted, nodes_)
  /\ phase = "done" =>
       IF sorted = <<>>
       THEN nodes_ = <<>> \/ Unorderable(nodes_)
       ELSE /\ Topological(sorted, nodes_)
            /\ ~DuplicateProducer(nodes_)
            /\ ~MissingDependency(nodes_)
=============================================================================
