--------------------------- MODULE SequentialRun ---------------------------
(***************************************************************************)
(* What running packets through a task graph promises, without threads and *)
(* futures: a packet passes one node at a time, in the order of the graph, *)
(* until it has passed them all or a node fails.  A graph without an order *)
(* passes no packet at all.                                                *)
(***************************************************************************)
EXTENDS Naturals, Sequences

CONSTANT Packets     (* the packets, one per call                          *)

VARIABLES
  order,             (* the nodes, in the order in which they run          *)
  refusing,          (* the graph has nodes and no order                   *)
  stage,             (* how far each packet has come                       *)
  passed             (* the nodes each packet has passed                   *)

vars == <<order, refusing, stage, passed>>

Init ==
  /\ refusing => order = <<>>
  /\ stage = [p \in Packets |-> "idle"]
  /\ passed = [p \in Packets |-> <<>>]

Begin(p) ==
  /\ stage[p] = "idle"
  /\ stage' = [stage EXCEPT ![p] = IF refusing THEN "refused"
                                   ELSE IF order = <<>> THEN "finished"
                                   ELSE "running"]
  /\ UNCHANGED <<order, refusing, passed>>

Pass(p) ==
  /\ stage[p] = "running"
  /\ passed' = [passed EXCEPT ![p] = Append(@, order[Len(@) + 1])]
  /\ stage' = [stage EXCEPT ![p] =
                 IF Len(passed[p]) + 1 = Len(order) THEN "finished" ELSE @]
  /\ UNCHANGED <<order, refusing>>

Fail(p) ==
  /\ stage[p] = "running"
  /\ stage' = [stage EXCEPT ![p] = "failed"]
  /\ UNCHANGED <<order, refusing, passed>>

Next == \E p \in Packets : Begin(p) \/ Pass(p) \/ Fail(p)

(* A packet that has set out finishes or fails.                             *)
Fairness == \A p \in Packets : WF_vars(Pass(p) \/ Fail(p))

Safety == Init /\ [][Next]_vars

Spec == Safety /\ Fairness
=============================================================================
