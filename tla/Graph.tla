-------------------------------- MODULE Graph --------------------------------
(***************************************************************************)
(* Task graphs as src/infer/graph/graph.cpp keeps them: the vector nodes_, *)
(* in the order of add_node, each entry with the node's name, the names it *)
(* depends on and the keys it consumes and produces.  Positions count from *)
(* 1 here and from 0 in the code.  Repeating an entry of depends_on or of  *)
(* consumes() adds an edge twice and removes it twice, so both are sets.   *)
(***************************************************************************)
EXTENDS Naturals, Sequences, FiniteSets

CONSTANTS
  Names,        (* what INode::name() may return                            *)
  Keys,         (* what consumes() and produces() may list                  *)
  InputKeys,    (* the keys that begin with "input:"                        *)
  OutputKeys    (* the keys that begin with "output:"                       *)

ASSUME GraphAssumption ==
  /\ IsFiniteSet(Names)
  /\ IsFiniteSet(Keys)
  /\ Names \cap Keys = {}
  /\ InputKeys \subseteq Keys
  /\ OutputKeys \subseteq Keys

Nodes == [name : Names, depends_on : SUBSET Names,
          consumes : SUBSET Keys, produces : Seq(Keys)]

Index(g) == 1 .. Len(g)

(* name_to_index.emplace keeps the first node of a name.                    *)
FirstNamed(g, i, name) ==
  /\ g[i].name = name
  /\ \A k \in 1 .. i - 1 : g[k].name # name

Produces(g, i, key) == \E n \in 1 .. Len(g[i].produces) : g[i].produces[n] = key

(* produced_by.emplace fails: the key was listed before, by any node.       *)
DuplicateProducer(g) ==
  \E i, j \in Index(g) :
    \E m \in 1 .. Len(g[i].produces), n \in 1 .. Len(g[j].produces) :
      /\ g[i].produces[m] = g[j].produces[n]
      /\ <<i, m>> # <<j, n>>

MissingDependency(g) ==
  \E j \in Index(g) : \E name \in g[j].depends_on :
    \A i \in Index(g) : g[i].name # name

(* The edges of execution_order: <<from, to, what>>, one for each name in   *)
(* depends_on and one for each consumed key another node produces.          *)
Edges(g) ==
  {e \in Index(g) \X Index(g) \X (Names \cup Keys) :
     \/ e[3] \in g[e[2]].depends_on /\ FirstNamed(g, e[1], e[3])
     \/ /\ e[3] \in g[e[2]].consumes \ InputKeys
        /\ e[1] # e[2]
        /\ Produces(g, e[1], e[3])}

(* boundary(): what the graph takes from and leaves to the outside.         *)
Consumed(g) == UNION {g[i].consumes : i \in Index(g)}
Produced(g) == {key \in Keys : \E i \in Index(g) : Produces(g, i, key)}
BoundaryInputs(g) == Consumed(g) \cap InputKeys
BoundaryOutputs(g) == (Produced(g) \cap OutputKeys) \cup (Produced(g) \ Consumed(g))

-----------------------------------------------------------------------------
(* What an order of the nodes has to be, independently of how it is found.  *)
Orders(o, g) ==
  /\ o \in Seq(Index(g))
  /\ Len(o) = Len(g)
  /\ \A m, n \in 1 .. Len(o) : o[m] = o[n] => m = n

(* Every edge leads from an earlier to a later position of o.               *)
Respects(o, g) ==
  \A e \in Edges(g) : \A n \in 1 .. Len(o) :
    o[n] = e[2] => \E m \in 1 .. n - 1 : o[m] = e[1]

Topological(o, g) == Orders(o, g) /\ Respects(o, g)

(* Some nodes wait for each other: none of them can be the first to run.    *)
Cyclic(g) ==
  \E R \in SUBSET Index(g) :
    /\ R # {}
    /\ \A j \in R : \E e \in Edges(g) : e[2] = j /\ e[1] \in R

Unorderable(g) == DuplicateProducer(g) \/ MissingDependency(g) \/ Cyclic(g)

(* What add_node(node) alone builds: distinct names, each node depending on *)
(* the one before it.                                                       *)
Chained(g) ==
  /\ \A i, j \in Index(g) : g[i].name = g[j].name => i = j
  /\ \A i \in Index(g) :
       g[i].depends_on = IF i = 1 THEN {} ELSE {g[i - 1].name}
=============================================================================
