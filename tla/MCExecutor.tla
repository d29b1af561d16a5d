---------------------------- MODULE MCExecutor ----------------------------
(* Small instances of Executor: up to three threads, three submissions.     *)
EXTENDS Executor

(* CVKIT_EXECUTOR_THREADS unset or unparsable, zero, one, three.            *)
MCThreadSettings == {-1, 0, 1, 3}

(* hardware_concurrency() unknown, or two.                                  *)
MCDetectedThreads == {0, 2}
=============================================================================
