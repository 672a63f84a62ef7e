----------------------------- MODULE MCExecutor -----------------------------
(***************************************************************************)
(* The instances of Executor that exec_stop.cfg and exec_wait.cfg give to  *)
(* TLC.                                                                    *)
(***************************************************************************)
EXTENDS Executor
=============================================================================
