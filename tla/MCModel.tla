------------------------------ MODULE MCModel ------------------------------
(* The instance of Model that MCModel.cfg gives its constants: two calls,   *)
(* two loads, two changes of the options or the labels.                     *)
EXTENDS Model
=============================================================================
