------------------------------ MODULE MCExecutor ------------------------------
(* The executor with two children and a few bytes of output.               *)
EXTENDS Executor
=============================================================================
