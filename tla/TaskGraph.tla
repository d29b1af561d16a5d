------------------------------ MODULE TaskGraph ------------------------------
(***************************************************************************)
(* TaskGraph::run_sync and TaskGraph::submit_packet of                     *)
(* src/infer/graph/graph.cpp.  run_sync loops over the nodes in the thread *)
(* of its caller; submit_packet starts one std::async thread per node,     *)
(* a link, that waits for the future of the link before it.  The order is  *)
(* one that GraphOrder allows.  A node that supports_async() answers       *)
(* through a future of its own, which the link waits for as well.          *)
(***************************************************************************)
EXTENDS Graph

CONSTANTS
  Graphs,      (* the graphs a program may run packets through              *)
  MaxNodes,    (* bound: size of the largest of them                        *)
  Packets      (* the calls of run_sync and submit_packet, a packet each    *)

ASSUME RunAssumption ==
  /\ MaxNodes \in Nat
  /\ \A g \in Graphs : g \in Seq(Nodes) /\ Len(g) <= MaxNodes
  /\ IsFiniteSet(Packets)

VARIABLES
  nodes,       (* nodes_, which const calls do not change                   *)
  order,       (* what execution_order returns for nodes_                   *)
  async,       (* the nodes whose supports_async() holds                    *)
  caller,      (* where the call on each packet is                          *)
  turn,        (* turns done of the loop over the order                     *)
  link,        (* link[p][k]: the std::async task at position k             *)
  value        (* value[p][k]: the packet after position k, a list of traces*)

vars == <<nodes, order, async, caller, turn, link, value>>

(* "looping": in run_sync; "launching", "unwinding": in submit_packet;      *)
(* "holding", "invalid": has a PacketFuture; "dropping": destroys it.       *)
CallerStates == {"idle", "looping", "launching", "unwinding", "holding",
                 "invalid", "dropping", "dropped", "returned", "threw"}

(* "waiting": in previous.get(); "running": in the node; "awaiting": in the *)
(* node's own future, "answered" or "failed" once that is ready; "done",    *)
(* "thrown": the link's future is ready with a packet or an exception.      *)
LinkStates == {"absent", "waiting", "running", "awaiting", "answered",
               "failed", "done", "thrown"}

Positions == 1 .. Len(order)
Resolved == {"done", "thrown"}

(* execution_order returns {} for a graph that has nodes.                   *)
Refusing == order = <<>> /\ nodes # <<>>

ExecutionOrders(g) ==
  IF Unorderable(g) THEN {<<>>}
  ELSE {o \in [Index(g) -> Index(g)] : Topological(o, g)}

Init ==
  /\ nodes \in Graphs
  /\ order \in ExecutionOrders(nodes)
  /\ async \in SUBSET Index(nodes)
  /\ caller = [p \in Packets |-> "idle"]
  /\ turn = [p \in Packets |-> 0]
  /\ link = [p \in Packets |-> [k \in Positions |-> "absent"]]
  /\ value = [p \in Packets |-> [k \in 0 .. Len(order) |-> <<>>]]

-----------------------------------------------------------------------------
(* apply_node_with_trace and apply_async_node_with_trace: the packet that   *)
(* left position k - 1, processed, with one more trace entry.               *)
Traced(p, k, sequence) ==
  Append(value[p][k - 1], [node |-> order[k], sequence |-> sequence])

-----------------------------------------------------------------------------
(* run_sync.  Without an order the packet comes back as it was.             *)
RunSync(p) ==
  /\ caller[p] = "idle"
  /\ caller' = [caller EXCEPT ![p] = IF Refusing THEN "returned" ELSE "looping"]
  /\ UNCHANGED <<nodes, order, async, turn, link, value>>

(* The trace entry gets the position, counted from 0.                       *)
RunNode(p) ==
  /\ caller[p] = "looping"
  /\ turn[p] < Len(order)
  /\ turn' = [turn EXCEPT ![p] = @ + 1]
  /\ value' = [value EXCEPT ![p][turn[p] + 1] = Traced(p, turn[p] + 1, turn[p])]
  /\ UNCHANGED <<nodes, order, async, caller, link>>

RunNodeSkipped(p) ==   (* slip: the exception is caught and the loop goes on *)
  /\ caller[p] = "looping"
  /\ turn[p] < Len(order)
  /\ turn' = [turn EXCEPT ![p] = @ + 1]
  /\ value' = [value EXCEPT ![p][turn[p] + 1] = value[p][turn[p]]]
  /\ UNCHANGED <<nodes, order, async, caller, link>>

(* A node throws: the exception leaves run_sync.                            *)
RunNodeThrows(p) ==
  /\ caller[p] = "looping"
  /\ turn[p] < Len(order)
  /\ caller' = [caller EXCEPT ![p] = "threw"]
  /\ UNCHANGED <<nodes, order, async, turn, link, value>>

RunSyncReturns(p) ==
  /\ caller[p] = "looping"
  /\ turn[p] = Len(order)
  /\ caller' = [caller EXCEPT ![p] = "returned"]
  /\ UNCHANGED <<nodes, order, async, turn, link, value>>

-----------------------------------------------------------------------------
(* submit_packet.  Without an order it returns a PacketFuture without state.*)
SubmitPacket(p) ==
  /\ caller[p] = "idle"
  /\ caller' = [caller EXCEPT ![p] = IF Refusing THEN "invalid" ELSE "launching"]
  /\ UNCHANGED <<nodes, order, async, turn, link, value>>

Launch(p) ==
  /\ caller[p] = "launching"
  /\ turn[p] < Len(order)
  /\ turn' = [turn EXCEPT ![p] = @ + 1]
  /\ link' = [link EXCEPT ![p][turn[p] + 1] = "waiting"]
  /\ UNCHANGED <<nodes, order, async, caller, value>>

(* std::async finds no thread and throws: the future of the link before,    *)
(* moved into the lost lambda, is destroyed and waits for its thread.       *)
LaunchFails(p) ==
  /\ caller[p] = "launching"
  /\ turn[p] < Len(order)
  /\ caller' = [caller EXCEPT ![p] = "unwinding"]
  /\ UNCHANGED <<nodes, order, async, turn, link, value>>

(* The last link launched so far has finished, or none was launched.        *)
LastResolved(p) == turn[p] > 0 => link[p][turn[p]] \in Resolved

Unwind(p) ==
  /\ caller[p] = "unwinding"
  /\ LastResolved(p)
  /\ caller' = [caller EXCEPT ![p] = "threw"]
  /\ UNCHANGED <<nodes, order, async, turn, link, value>>

SubmitReturns(p) ==
  /\ caller[p] = "launching"
  /\ turn[p] = Len(order)
  /\ caller' = [caller EXCEPT ![p] = "holding"]
  /\ UNCHANGED <<nodes, order, async, turn, link, value>>

(* PacketFuture::get.                                                       *)
Get(p) ==
  /\ \/ caller[p] = "holding" /\ LastResolved(p)
     \/ caller[p] = "invalid"
  /\ caller' = [caller EXCEPT ![p] =
       IF /\ caller[p] = "holding"
          /\ turn[p] > 0 => link[p][turn[p]] = "done"
       THEN "returned" ELSE "threw"]
  /\ UNCHANGED <<nodes, order, async, turn, link, value>>

(* The last reference to a future of std::async waits for its thread.       *)
Drop(p) ==
  /\ caller[p] \in {"holding", "invalid"}
  /\ caller' = [caller EXCEPT ![p] = "dropping"]
  /\ UNCHANGED <<nodes, order, async, turn, link, value>>

DropEnds(p) ==
  /\ caller[p] = "dropping"
  /\ LastResolved(p)
  /\ caller' = [caller EXCEPT ![p] = "dropped"]
  /\ UNCHANGED <<nodes, order, async, turn, link, value>>

-----------------------------------------------------------------------------
GetPreviousUnready(p, k) ==   (* slip: no wait for the link before *)
  /\ link[p][k] = "waiting"
  /\ link' = [link EXCEPT ![p][k] = "running"]
  /\ UNCHANGED <<nodes, order, async, caller, turn, value>>

GetPreviousIgnoring(p, k) ==   (* slip: what the link before threw is dropped *)
  /\ link[p][k] = "waiting"
  /\ k > 1 => link[p][k - 1] \in Resolved
  /\ link' = [link EXCEPT ![p][k] = "running"]
  /\ UNCHANGED <<nodes, order, async, caller, turn, value>>

GetPreviousValue(p, k) ==   (* slip: a link that threw never counts as ready *)
  /\ link[p][k] = "waiting"
  /\ k > 1 => link[p][k - 1] = "done"
  /\ link' = [link EXCEPT ![p][k] = "running"]
  /\ UNCHANGED <<nodes, order, async, caller, turn, value>>

(* A link: previous.get(), which throws again what the link before threw.   *)
GetPrevious(p, k) ==
  /\ link[p][k] = "waiting"
  /\ k > 1 => link[p][k - 1] \in Resolved
  /\ link' = [link EXCEPT ![p][k] =
       IF k > 1 /\ link[p][k - 1] = "thrown" THEN "thrown" ELSE "running"]
  /\ UNCHANGED <<nodes, order, async, caller, turn, value>>

(* The trace entry gets the index of the node, counted from 0.              *)
Complete(p, k) ==
  /\ link' = [link EXCEPT ![p][k] = "done"]
  /\ value' = [value EXCEPT ![p][k] = Traced(p, k, order[k] - 1)]
  /\ UNCHANGED <<nodes, order, async, caller, turn>>

(* node->process(...)                                                       *)
Process(p, k) ==
  /\ link[p][k] = "running"
  /\ order[k] \notin async
  /\ Complete(p, k)

(* node->submit(...).get(): the link waits for the future of the node.      *)
SubmitNode(p, k) ==
  /\ link[p][k] = "running"
  /\ order[k] \in async
  /\ link' = [link EXCEPT ![p][k] = "awaiting"]
  /\ UNCHANGED <<nodes, order, async, caller, turn, value>>

NodeAnswers(p, k) ==
  /\ link[p][k] = "awaiting"
  /\ \E outcome \in {"answered", "failed"} :
       link' = [link EXCEPT ![p][k] = outcome]
  /\ UNCHANGED <<nodes, order, async, caller, turn, value>>

Collect(p, k) ==
  /\ link[p][k] = "answered"
  /\ Complete(p, k)

(* process or submit throws, or the node's future holds an exception.       *)
LinkThrows(p, k) ==
  /\ link[p][k] \in {"running", "failed"}
  /\ link' = [link EXCEPT ![p][k] = "thrown"]
  /\ UNCHANGED <<nodes, order, async, caller, turn, value>>

-----------------------------------------------------------------------------
Caller(p) ==
  \/ RunNode(p) \/ RunNodeThrows(p) \/ RunSyncReturns(p)
  \/ Launch(p) \/ LaunchFails(p) \/ Unwind(p) \/ SubmitReturns(p)
  \/ DropEnds(p)

Link(p, k) ==
  \/ GetPrevious(p, k) \/ Process(p, k) \/ SubmitNode(p, k)
  \/ NodeAnswers(p, k) \/ Collect(p, k) \/ LinkThrows(p, k)

Next ==
  \E p \in Packets :
    \/ RunSync(p) \/ SubmitPacket(p) \/ Get(p) \/ Drop(p)
    \/ Caller(p)
    \/ \E k \in Positions : Link(p, k)

Spec == Init /\ [][Next]_vars

(* Threads and calls that have begun go on, and a node and its future come  *)
(* to an end; beginning a call, get() and the destruction of a PacketFuture *)
(* are up to the program.                                                   *)
Fairness ==
  \A p \in Packets :
    /\ WF_vars(Caller(p))
    /\ \A k \in 1 .. MaxNodes : WF_vars(k \in Positions /\ Link(p, k))

FairSpec == Spec /\ Fairness

-----------------------------------------------------------------------------
Traces == [node : Index(nodes), sequence : 0 .. Len(nodes) - 1]

TypeOK ==
  /\ nodes \in Graphs
  /\ order \in Seq(Index(nodes))
  /\ async \subseteq Index(nodes)
  /\ caller \in [Packets -> CallerStates]
  /\ turn \in [Packets -> 0 .. Len(order)]
  /\ link \in [Packets -> [Positions -> LinkStates]]
  /\ value \in [Packets -> [0 .. Len(order) -> Seq(Traces)]]

NodesOf(traces) == [n \in 1 .. Len(traces) |-> traces[n].node]

(* A packet is in one node at a time, although every link has a thread of   *)
(* its own and the threads start while submit_packet still launches others. *)
InNode == {"running", "awaiting", "answered", "failed"}

OneNodeAtATime ==
  \A p \in Packets : \A j, k \in Positions :
    link[p][j] \in InNode /\ link[p][k] \in InNode => j = k

(* The entries of the trace count 0, 1, 2, ...                              *)
Result(p) == value[p][turn[p]]
Numbered(p) == \A n \in 1 .. Len(Result(p)) : Result(p)[n].sequence = n - 1

Launched(p) == \E k \in Positions : link[p][k] # "absent"

(* A packet that comes back has passed every node of the order once: what a *)
(* node threw is never taken for a result, and submit_packet(...).get() is  *)
(* run_sync(...).  Its trace is numbered by position, from submit_packet at *)
(* least for the chains that add_node(node) builds                          *)
(* (tests/test_infer.cpp:1569-1572).                                        *)
ReturnedIsComplete ==
  \A p \in Packets :
    caller[p] = "returned" =>
      /\ NodesOf(Result(p)) = order
      /\ (Launched(p) => Chained(nodes)) => Numbered(p)

(* The numbers for every graph, which submit_packet does not keep.          *)
AllTracesNumbered ==
  \A p \in Packets : caller[p] = "returned" => Numbered(p)

(* A packet handed to submit_packet meets its end: the call returns or      *)
(* throws, the PacketFuture becomes ready, its destructor gets through.     *)
EveryPacketEnds ==
  \A p \in Packets :
    /\ caller[p] \in {"looping", "launching", "unwinding"} ~>
         caller[p] \in {"holding", "returned", "threw"}
    /\ caller[p] = "holding" ~> LastResolved(p)
    /\ caller[p] = "dropping" ~> caller[p] = "dropped"

-----------------------------------------------------------------------------
(* The links together do what the loop of run_sync does.                    *)
Passed(p) ==
  IF Launched(p)
  THEN LET done == {k \in Positions : link[p][k] = "done"}
       IN  NodesOf(value[p][Cardinality(done)])
  ELSE IF caller[p] \in {"looping", "returned", "threw"}
       THEN NodesOf(Result(p)) ELSE <<>>

Stage(p) ==
  IF caller[p] = "idle" THEN "idle"
  ELSE IF Refusing THEN "refused"
  ELSE IF Passed(p) = order THEN "finished"
  ELSE IF \/ caller[p] = "threw"
          \/ \E k \in Positions : link[p][k] = "thrown"
       THEN "failed"
  ELSE "running"

Run == INSTANCE SequentialRun
         WITH refusing <- Refusing,
              stage <- [p \in Packets |-> Stage(p)],
              passed <- [p \in Packets |-> Passed(p)]

(* Either way of running a packet is a run through the nodes one by one     *)
(* that stops at the first failure and otherwise gets to the end.           *)
ImplementsRun == Run!Spec
=============================================================================
