-------------------------- MODULE EnclaveChaincode --------------------------
(***************************************************************************)
(* The chaincode process that hosts a chaincode enclave (ecc).             *)
(*                                                                         *)
(* The peer runs every transaction in a goroutine of its own.  They share  *)
(* one EnclaveChaincode (ecc/enclave_chaincode.go) and its enclave stub    *)
(* (ecc/enclave/enclave_stub.go): the id of the enclave, a semaphore with  *)
(* as many permits as the enclave has thread control structures, and the   *)
(* registry through which an ocall finds the Fabric stub of the            *)
(* transaction it belongs to.                                              *)
(*                                                                         *)
(* A transaction is a sequence of stub calls:                              *)
(*   setup   "create", "quote", "target", "bind"                           *)
(*   invoke  "invoke", "pk"                                                *)
(*   getpk   "getpk"                                                       *)
(* For each call the goroutine acquires a permit ("wait"), reads the       *)
(* enclave id and enters the enclave ("in").  Between two calls of setup   *)
(* it asks the peer, ercc and tlcc ("local").  What a goroutine no longer  *)
(* uses (used, idx, call) is reset.                                *)
(***************************************************************************)
EXTENDS Integers, FiniteSets

CONSTANTS
  Threads,      \* goroutines: transactions the peer runs at a time
  None,         \* no goroutine
  TCS,          \* ENCLAVE_TCS_NUM
  MaxSetups,    \* bound: setup transactions per process
  MaxIndex,     \* bound: invocations per process
  MaxFailures,  \* bound: failures of sgxcc_create_enclave and sgxcc_get_target_info per process
  MaxCrashes    \* bound: restarts of the process

ASSUME EnclaveChaincodeAssumption ==
  /\ IsFiniteSet(Threads)
  /\ None \notin Threads
  /\ TCS \in Nat \ {0}
  /\ MaxSetups \in Nat /\ MaxIndex \in Nat /\ MaxFailures \in Nat /\ MaxCrashes \in Nat

VARIABLES
  eid,          \* StubImpl.eid; 0 before the first Create
  sem,          \* permits left in StubImpl.sem
  index,        \* Registry.index
  internal,     \* Registry.internal
  at,           \* where each goroutine is: "idle", "local", "wait" or "in"
  call,         \* its stub call
  used,         \* the enclave id it read when it entered
  idx,          \* its key in the registry
  made,         \* enclaves this process created; enclave n is the n-th
  alive,        \* the enclaves that were not aborted
  setups,       \* setup transactions of this process
  failures,     \* permits lost by this process
  crashes       \* restarts so far

stub == <<eid, sem>>
registry == <<index, internal>>
enclaves == <<made, alive>>
thread == <<at, call, used, idx>>
vars == <<stub, registry, thread, enclaves, setups, failures, crashes>>

Calls == {"none", "create", "quote", "target", "bind", "invoke", "pk", "getpk"}

\* The variables range over their types.
TypeOK ==
  /\ made \in Nat
  /\ eid \in 0 .. made
  /\ sem \in 0 .. TCS
  /\ index \in 0 .. MaxIndex
  /\ internal \in [1 .. MaxIndex -> Threads \cup {None}]
  /\ at \in [Threads -> {"idle", "local", "wait", "in"}]
  /\ call \in [Threads -> Calls]
  /\ used \in [Threads -> 0 .. made]
  /\ idx \in [Threads -> 0 .. MaxIndex]
  /\ alive \subseteq 1 .. made
  /\ setups \in 0 .. MaxSetups
  /\ failures \in 0 .. MaxFailures
  /\ crashes \in 0 .. MaxCrashes

\* The goroutines that are in an enclave.
Inside == {t \in Threads : at[t] = "in"}
-----------------------------------------------------------------------------
(***************************************************************************)
(* Transactions arrive.                                                    *)
(***************************************************************************)

\* A setup while there is an enclave: the test meant to refuse it compares the
\* stub, which is never nil.
Setup(t) ==
  /\ at[t] = "idle"
  /\ setups < MaxSetups
  /\ setups' = setups + 1
  /\ at' = [at EXCEPT ![t] = "wait"]
  /\ call' = [call EXCEPT ![t] = "create"]
  /\ UNCHANGED <<stub, registry, used, idx, enclaves, failures, crashes>>

\* Mutant: the counter of keys is not incremented.
Invoke_SameKey(t) ==
  /\ at[t] = "idle"
  /\ index < MaxIndex
  /\ internal' = [internal EXCEPT ![index + 1] = t]
  /\ idx' = [idx EXCEPT ![t] = index + 1]
  /\ at' = [at EXCEPT ![t] = "wait"]
  /\ call' = [call EXCEPT ![t] = "invoke"]
  /\ UNCHANGED <<stub, index, used, enclaves, setups, failures, crashes>>

\* StubImpl.Invoke registers the transaction before it waits for a permit.
Invoke(t) ==
  /\ at[t] = "idle"
  /\ index < MaxIndex
  /\ index' = index + 1
  /\ internal' = [internal EXCEPT ![index + 1] = t]
  /\ idx' = [idx EXCEPT ![t] = index + 1]
  /\ at' = [at EXCEPT ![t] = "wait"]
  /\ call' = [call EXCEPT ![t] = "invoke"]
  /\ UNCHANGED <<stub, used, enclaves, setups, failures, crashes>>

GetEnclavePk(t) ==
  /\ at[t] = "idle"
  /\ at' = [at EXCEPT ![t] = "wait"]
  /\ call' = [call EXCEPT ![t] = "getpk"]
  /\ UNCHANGED <<stub, registry, used, idx, enclaves, setups, failures, crashes>>
-----------------------------------------------------------------------------
(***************************************************************************)
(* The semaphore.                                                          *)
(***************************************************************************)

\* Mutant: the permit is not waited for.
Acquire_NoWait(t) ==
  /\ at[t] = "wait"
  /\ sem' = IF sem > 0 THEN sem - 1 ELSE 0
  /\ at' = [at EXCEPT ![t] = "in"]
  /\ used' = [used EXCEPT ![t] = eid]
  /\ UNCHANGED <<eid, registry, call, idx, enclaves, setups, failures, crashes>>

\* The enclave id is read after the permit is acquired, under no lock.
Acquire(t) ==
  /\ at[t] = "wait"
  /\ sem > 0
  /\ sem' = sem - 1
  /\ at' = [at EXCEPT ![t] = "in"]
  /\ used' = [used EXCEPT ![t] = eid]
  /\ UNCHANGED <<eid, registry, call, idx, enclaves, setups, failures, crashes>>

\* The call c of t is over and its permit released; t goes on with call next.
Leave(t, c, place, next) ==
  /\ at[t] = "in" /\ call[t] = c
  /\ sem' = sem + 1
  /\ at' = [at EXCEPT ![t] = place]
  /\ call' = [call EXCEPT ![t] = next]
  /\ used' = [used EXCEPT ![t] = 0]
  /\ UNCHANGED <<failures, crashes>>

\* Create and GetTargetInfo return on an error before they release the permit.
LosePermit(t, c) ==
  /\ at[t] = "in" /\ call[t] = c
  /\ failures < MaxFailures
  /\ failures' = failures + 1
  /\ at' = [at EXCEPT ![t] = "idle"]
  /\ call' = [call EXCEPT ![t] = "none"]
  /\ used' = [used EXCEPT ![t] = 0]
  /\ UNCHANGED <<stub, registry, idx, enclaves, setups, crashes>>
-----------------------------------------------------------------------------
(***************************************************************************)
(* setup.                                                                  *)
(***************************************************************************)

\* Mutant: no path releases the permit.
Create_NoRelease(t) ==
  /\ at[t] = "in" /\ call[t] = "create"
  /\ at' = [at EXCEPT ![t] = "local"]
  /\ call' = [call EXCEPT ![t] = "quote"]
  /\ used' = [used EXCEPT ![t] = 0]
  /\ made' = made + 1
  /\ alive' = alive \cup {made + 1}
  /\ eid' = made + 1
  /\ UNCHANGED <<sem, registry, idx, setups, failures, crashes>>

Create(t) ==
  /\ Leave(t, "create", "local", "quote")
  /\ made' = made + 1
  /\ alive' = alive \cup {made + 1}
  /\ eid' = made + 1
  /\ UNCHANGED <<registry, idx, setups>>

CreateFails(t) == LosePermit(t, "create")

\* The peer, ercc or tlcc answers.
SetupGoesOn(t) ==
  /\ at[t] = "local"
  /\ at' = [at EXCEPT ![t] = "wait"]
  /\ UNCHANGED <<stub, registry, call, used, idx, enclaves, setups, failures, crashes>>

\* One of them returns an error (MRENCLAVE differs, no SPID, registration
\* refused, no report of tlcc): setup returns it and leaves the new enclave.
SetupFails(t) ==
  /\ at[t] = "local"
  /\ at' = [at EXCEPT ![t] = "idle"]
  /\ call' = [call EXCEPT ![t] = "none"]
  /\ UNCHANGED <<stub, registry, used, idx, enclaves, setups, failures, crashes>>

GetRemoteAttestationReport(t) ==
  /\ \/ used[t] \in alive /\ Leave(t, "quote", "local", "target")
     \/ Leave(t, "quote", "idle", "none")
  /\ UNCHANGED <<eid, registry, idx, enclaves, setups>>

GetTargetInfo(t) ==
  /\ Leave(t, "target", "local", "bind")
  /\ UNCHANGED <<eid, registry, idx, enclaves, setups>>

GetTargetInfoFails(t) == LosePermit(t, "target")

\* Mutant: the permit is released again by a deferred call.
Bind_ReleaseTwice(t) ==
  /\ at[t] = "in" /\ call[t] = "bind"
  /\ sem' = sem + 2
  /\ at' = [at EXCEPT ![t] = "idle"]
  /\ call' = [call EXCEPT ![t] = "none"]
  /\ used' = [used EXCEPT ![t] = 0]
  /\ UNCHANGED <<eid, registry, idx, enclaves, setups, failures, crashes>>

\* The result of sgxcc_bind is dropped.
Bind(t) ==
  /\ Leave(t, "bind", "idle", "none")
  /\ UNCHANGED <<eid, registry, idx, enclaves, setups>>
-----------------------------------------------------------------------------
(***************************************************************************)
(* invoke and getEnclavePk.                                                *)
(***************************************************************************)

\* Registry.Release, deferred by Invoke.
Release(t) ==
  /\ internal' = [internal EXCEPT ![idx[t]] = None]
  /\ idx' = [idx EXCEPT ![t] = 0]
  /\ UNCHANGED index

\* The chaincode ran and the enclave signed, or it returned an error, or there is
\* no such enclave: in each case invoke goes on to ask for the public key.
InvokeReturns(t) ==
  /\ Leave(t, "invoke", "wait", "pk")
  /\ Release(t)
  /\ UNCHANGED <<eid, enclaves, setups>>

\* An exception leaves the chaincode: the enclave aborts.
EnclaveAborts(t) ==
  /\ Leave(t, "invoke", "wait", "pk")
  /\ used[t] \in alive
  /\ Release(t)
  /\ alive' = alive \ {used[t]}
  /\ UNCHANGED <<eid, made, setups>>

\* The last call of invoke.
GetPublicKey(t) ==
  /\ Leave(t, "pk", "idle", "none")
  /\ UNCHANGED <<eid, registry, idx, enclaves, setups>>

ReturnPk(t) ==
  /\ Leave(t, "getpk", "idle", "none")
  /\ UNCHANGED <<eid, registry, idx, enclaves, setups>>

\* An ocall panics, or the peer stops the chaincode (Destroy): the process and
\* its enclaves are gone; the peer starts it again for the next transaction.
ProcessCrash ==
  /\ crashes < MaxCrashes
  /\ crashes' = crashes + 1
  /\ eid' = 0 /\ sem' = TCS
  /\ index' = 0 /\ internal' = [i \in 1 .. MaxIndex |-> None]
  /\ at' = [t \in Threads |-> "idle"]
  /\ call' = [t \in Threads |-> "none"]
  /\ used' = [t \in Threads |-> 0]
  /\ idx' = [t \in Threads |-> 0]
  /\ made' = 0 /\ alive' = {}
  /\ setups' = 0 /\ failures' = 0
-----------------------------------------------------------------------------
Init ==
  /\ eid = 0 /\ sem = TCS
  /\ index = 0 /\ internal = [i \in 1 .. MaxIndex |-> None]
  /\ at = [t \in Threads |-> "idle"]
  /\ call = [t \in Threads |-> "none"]
  /\ used = [t \in Threads |-> 0]
  /\ idx = [t \in Threads |-> 0]
  /\ made = 0 /\ alive = {}
  /\ setups = 0 /\ failures = 0 /\ crashes = 0

Arrive(t) == Setup(t) \/ Invoke(t) \/ GetEnclavePk(t)

\* A goroutine that is in an enclave or asks others goes on.
Proceed(t) ==
  \/ Create(t) \/ CreateFails(t)
  \/ SetupGoesOn(t) \/ SetupFails(t)
  \/ GetRemoteAttestationReport(t)
  \/ GetTargetInfo(t) \/ GetTargetInfoFails(t)
  \/ Bind(t)
  \/ InvokeReturns(t) \/ EnclaveAborts(t)
  \/ GetPublicKey(t) \/ ReturnPk(t)

Next ==
  \/ \E t \in Threads : Arrive(t) \/ Acquire(t) \/ Proceed(t)
  \/ ProcessCrash

Spec == Init /\ [][Next]_vars

\* The semaphore serves its waiters in the order of their calls, and the
\* chaincode, the peer, ercc and tlcc answer.
FairSpec == Spec /\ \A t \in Threads : SF_vars(Acquire(t)) /\ WF_vars(Proceed(t))
-----------------------------------------------------------------------------
(***************************************************************************)
(* Properties.                                                             *)
(***************************************************************************)

\* The goroutines in the enclave never need more thread control structures than
\* it has: permits are neither forged nor returned twice, whatever fails.
TcsBound == Cardinality(Inside) <= TCS

\* Every permit is free, held by a goroutine in the enclave, or lost by a failed
\* Create or GetTargetInfo.
PermitsAccounted == sem + Cardinality(Inside) + failures = TCS

\* An ocall of an invocation finds the Fabric stub of its own transaction, however
\* invocations overlap.
OwnStubs ==
  \A t \in Threads : at[t] = "in" /\ call[t] = "invoke" => internal[idx[t]] = t

\* Every transaction is answered.
Responds == \A t \in Threads : at[t] # "idle" ~> at[t] = "idle"
=============================================================================
