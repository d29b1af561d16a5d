---------------------------- MODULE TaskService ----------------------------
(***************************************************************************)
(* What the shared executor of cvkit promises to its callers, without      *)
(* threads, locks or wake-ups: a task handed to submit() is accepted while *)
(* the service is open and refused once it is closed; accepted tasks start *)
(* in the order of their acceptance, each exactly once; whatever was       *)
(* accepted is completed, also after the service was closed.               *)
(***************************************************************************)
EXTENDS Sequences

CONSTANT Tasks       (* the calls of submit(), one per task handed over *)

VARIABLES
  status,            (* how far each task has come                      *)
  line,              (* accepted tasks that have not started, in order  *)
  open               (* FALSE once the service is being closed          *)

vars == <<status, line, open>>

Statuses == {"new", "waiting", "running", "done", "refused"}

Init ==
  /\ status = [t \in Tasks |-> "new"]
  /\ line = <<>>
  /\ open = TRUE

Accept(t) ==
  /\ open
  /\ status[t] = "new"
  /\ status' = [status EXCEPT ![t] = "waiting"]
  /\ line' = Append(line, t)
  /\ UNCHANGED open

Refuse(t) ==
  /\ ~open
  /\ status[t] = "new"
  /\ status' = [status EXCEPT ![t] = "refused"]
  /\ UNCHANGED <<line, open>>

Start(t) ==
  /\ line # <<>>
  /\ t = Head(line)
  /\ status' = [status EXCEPT ![t] = "running"]
  /\ line' = Tail(line)
  /\ UNCHANGED open

Complete(t) ==
  /\ status[t] = "running"
  /\ status' = [status EXCEPT ![t] = "done"]
  /\ UNCHANGED <<line, open>>

Close ==
  /\ open
  /\ open' = FALSE
  /\ UNCHANGED <<status, line>>

Next ==
  \/ \E t \in Tasks : Accept(t) \/ Refuse(t) \/ Start(t) \/ Complete(t)
  \/ Close

(* Callers and the closing of the service owe nothing; the service owes    *)
(* the start of the next task in line and the completion of a started one. *)
Fairness ==
  /\ WF_vars(\E t \in Tasks : Start(t))
  /\ \A t \in Tasks : WF_vars(Complete(t))

Safety == Init /\ [][Next]_vars

Spec == Safety /\ Fairness
=============================================================================
