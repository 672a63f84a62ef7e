------------------------ MODULE MCEnclaveChaincode ------------------------
(***************************************************************************)
(* Instances of EnclaveChaincode for TLC.  The goroutines are no symmetry  *)
(* set: the runs check liveness.                                           *)
(***************************************************************************)
EXTENDS EnclaveChaincode
=============================================================================
