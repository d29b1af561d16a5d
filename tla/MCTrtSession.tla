---------------------------- MODULE MCTrtSession ----------------------------
(* Two processes with every policy, and four states of the legacy file: not *)
(* there, fit for the model, torn by a crash, left by an earlier model.     *)
EXTENDS TrtSession

S(policy, profile, own_dir) == [policy |-> policy, profile |-> profile, own_dir |-> own_dir]

MCSpecs ==
  {S("default", "p", FALSE), S("default", "p", TRUE), S("read_only", "p", FALSE),
   S("rebuild", "p", FALSE), S("disabled", "p", FALSE)}

MCTwoProfiles == {S("default", "p", FALSE), S("default", "q", FALSE)}

MCLegacies == {Absent, FileOf(Plan(1, "p"), 1), FileOf(Torn, 1), FileOf(Plan(9, "p"), 0)}
=============================================================================
