------------------------- MODULE MCEnclaveRegistry -------------------------
(***************************************************************************)
(* Two enclaves of one build of chaincode c and one of another build, a    *)
(* third of the first build beside the other one's file, and an enclave of *)
(* a second chaincode.                                                     *)
(***************************************************************************)
EXTENDS EnclaveRegistry

MCOf == [e \in Enclaves |-> IF e = "d1" THEN "d" ELSE "c"]
MCMr == [e \in Enclaves |-> IF e = "c3" THEN "m2" ELSE "m1"]
MCFileMr == [e \in Enclaves |-> IF e \in {"c3", "c4"} THEN "m2" ELSE "m1"]
=============================================================================
