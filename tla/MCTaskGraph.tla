---------------------------- MODULE MCTaskGraph ----------------------------
(* Task graphs, in two halves that never run in one behaviour.  The order:  *)
(* up to three nodes, wired by keys and by names; names repeat, a node may  *)
(* consume what it produces itself, a key may be produced twice, and cycles *)
(* run through keys, names or both.  The runs: the graph of a detection     *)
(* model and the one of tests/test_infer.cpp with explicit dependencies, an *)
(* empty graph, two with a choice of orders and one without any; one packet,*)
(* because packets share nothing but the nodes.                             *)
EXTENDS TaskGraph, GraphOrder

CONSTANTS a, b, c, d, in, raw, dets

MCKeyedChoices ==
  [name : {a, b}, depends_on : {{}, {a}, {b}},
   consumes : {{}, {raw}, {in, dets}}, produces : {<<>>, <<raw>>, <<dets, in>>}]

MCNamedChoices ==
  [name : {a, b, c}, depends_on : {{}, {a}, {b, c}},
   consumes : {{}}, produces : {<<>>}]

MCChoices == MCKeyedChoices \cup MCNamedChoices

Node(name, depends_on, consumes, produces) ==
  [name |-> name, depends_on |-> depends_on,
   consumes |-> consumes, produces |-> produces]

(* create_pipeline_graph for TaskKind::detection *)
Detection == <<Node(a, {}, {in}, <<raw>>), Node(b, {a}, {in, raw}, <<dets>>)>>

(* "task graph honors explicit node dependencies" *)
Explicit == <<Node(a, {b}, {}, <<>>), Node(c, {}, {}, <<>>), Node(b, {c}, {}, <<>>)>>

Join == <<Node(a, {}, {raw, dets}, <<>>), Node(b, {}, {}, <<raw>>), Node(c, {}, {}, <<dets>>)>>

Diamond ==
  <<Node(d, {b, c}, {}, <<>>), Node(b, {a}, {}, <<>>),
    Node(a, {}, {in}, <<raw>>), Node(c, {}, {raw}, <<dets>>)>>

Cycle == <<Node(a, {b}, {}, <<>>), Node(b, {a}, {}, <<>>)>>

MCGraphs == {<<>>, Detection, Explicit, Join, Diamond, Cycle}
MCExplicit == {Explicit}

-----------------------------------------------------------------------------
(* Phase "parked": execution_order is not called, the packets run.          *)
MCInit ==
  /\ Init
  /\ \/ OrderInit /\ nodes = <<>>
     \/ nodes_ = <<>> /\ phase = "parked" /\ sorted = <<>> /\ ready = <<>> /\ indegree = <<>>

MCNext ==
  \/ phase = "parked" /\ Next /\ UNCHANGED orderVars
  \/ OrderNext /\ UNCHANGED vars

MCSpec == MCInit /\ [][MCNext]_<<vars, orderVars>> /\ Fairness
=============================================================================
