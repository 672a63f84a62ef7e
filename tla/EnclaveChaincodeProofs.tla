----------------------- MODULE EnclaveChaincodeProofs -----------------------
(***************************************************************************)
(* The semaphore and the registry of the chaincode process, for every      *)
(* number of goroutines, permits, setups and invocations.                  *)
(***************************************************************************)
EXTENDS EnclaveChaincode, FiniteSetTheorems, TLAPS

(***************************************************************************)
(* Permits.                                                                *)
(***************************************************************************)
PermitsInv ==
  /\ sem \in Nat /\ failures \in Nat
  /\ at \in [Threads -> {"idle", "local", "wait", "in"}]
  /\ PermitsAccounted

\* Steps that neither take nor give a permit: t goes from one place outside the
\* enclave to another.
Stays(t) ==
  \E place \in {"idle", "local", "wait"} :
     at[t] # "in" /\ at' = [at EXCEPT ![t] = place] /\ UNCHANGED <<sem, failures>>

\* The goroutines in the enclave can be counted.
LEMMA InsideFinite == IsFiniteSet(Inside) /\ Cardinality(Inside) \in Nat
  <1>1. Inside \subseteq Threads
    BY DEF Inside
  <1>2. IsFiniteSet(Inside)
    BY <1>1, EnclaveChaincodeAssumption, FS_Subset
  <1> QED
    BY <1>2, FS_CardinalityType

\* A goroutine that enters adds one to those inside.
LEMMA Enters ==
  ASSUME NEW t \in Threads, at \in [Threads -> {"idle", "local", "wait", "in"}],
         at[t] # "in", at' = [at EXCEPT ![t] = "in"]
  PROVE  Cardinality(Inside') = Cardinality(Inside) + 1
  <1>1. Inside' = Inside \cup {t} /\ t \notin Inside
    BY DEF Inside
  <1> QED
    BY <1>1, InsideFinite, FS_AddElement

\* A goroutine that leaves takes one away.
LEMMA Leaves ==
  ASSUME NEW t \in Threads, at \in [Threads -> {"idle", "local", "wait", "in"}],
         at[t] = "in", NEW place \in {"idle", "local", "wait"}, at' = [at EXCEPT ![t] = place]
  PROVE  Cardinality(Inside') = Cardinality(Inside) - 1
  <1>1. Inside' = Inside \ {t} /\ t \in Inside
    BY DEF Inside
  <1> QED
    BY <1>1, InsideFinite, FS_RemoveElement

\* A goroutine that stays outside changes nothing.
LEMMA Outside ==
  ASSUME NEW t \in Threads, at \in [Threads -> {"idle", "local", "wait", "in"}],
         at[t] # "in", NEW place \in {"idle", "local", "wait"}, at' = [at EXCEPT ![t] = place]
  PROVE  Inside' = Inside
  BY DEF Inside

\* Leave gives the permit back.
LEMMA LeaveKeeps ==
  ASSUME PermitsInv, NEW t \in Threads, NEW c, NEW place \in {"idle", "local", "wait"}, NEW next,
         Leave(t, c, place, next)
  PROVE  PermitsInv'
  <1>1. at[t] = "in" /\ at' = [at EXCEPT ![t] = place] /\ sem' = sem + 1 /\ failures' = failures
    BY DEF Leave
  <1>2. at' \in [Threads -> {"idle", "local", "wait", "in"}]
    BY <1>1 DEF PermitsInv
  <1>3. Cardinality(Inside') = Cardinality(Inside) - 1
    BY <1>1, Leaves DEF PermitsInv
  <1>4. Cardinality(Inside) \in Nat
    BY InsideFinite
  <1>5. sem' + Cardinality(Inside') + failures' = TCS
    BY <1>1, <1>3, <1>4 DEF PermitsInv, PermitsAccounted
  <1>6. sem' \in Nat /\ failures' \in Nat
    BY <1>1 DEF PermitsInv
  <1> QED
    BY <1>2, <1>5, <1>6 DEF PermitsInv, PermitsAccounted

\* LosePermit turns a permit that is held into one that is lost.
LEMMA LoseKeeps ==
  ASSUME PermitsInv, NEW t \in Threads, NEW c, LosePermit(t, c)
  PROVE  PermitsInv'
  <1>1. at[t] = "in" /\ at' = [at EXCEPT ![t] = "idle"] /\ sem' = sem /\ failures' = failures + 1
    BY DEF LosePermit, stub
  <1>2. at' \in [Threads -> {"idle", "local", "wait", "in"}]
    BY <1>1 DEF PermitsInv
  <1>3. Cardinality(Inside') = Cardinality(Inside) - 1
    BY <1>1, Leaves DEF PermitsInv
  <1>4. Cardinality(Inside) \in Nat
    BY InsideFinite
  <1>5. sem' + Cardinality(Inside') + failures' = TCS
    BY <1>1, <1>3, <1>4 DEF PermitsInv, PermitsAccounted
  <1>6. sem' \in Nat /\ failures' \in Nat
    BY <1>1 DEF PermitsInv
  <1> QED
    BY <1>2, <1>5, <1>6 DEF PermitsInv, PermitsAccounted

\* A step outside the enclave keeps the permits.
LEMMA StayKeeps ==
  ASSUME PermitsInv, NEW t \in Threads, Stays(t)
  PROVE  PermitsInv'
  <1>1. PICK place \in {"idle", "local", "wait"} :
          at[t] # "in" /\ at' = [at EXCEPT ![t] = place] /\ UNCHANGED <<sem, failures>>
    BY DEF Stays
  <1>2. Inside' = Inside
    BY <1>1, Outside DEF PermitsInv
  <1>3. at' \in [Threads -> {"idle", "local", "wait", "in"}]
    BY <1>1 DEF PermitsInv
  <1> QED
    BY <1>1, <1>2, <1>3 DEF PermitsInv, PermitsAccounted

\* The invariant of the permits is inductive.
LEMMA PermitsInvariant == Spec => []PermitsInv
  <1>1. Init => PermitsInv
    <2> SUFFICES ASSUME Init
                 PROVE  PermitsInv
      OBVIOUS
    <2>1. Inside = {}
      BY DEF Init, Inside
    <2>2. Cardinality(Inside) = 0
      BY <2>1, FS_EmptySet
    <2> QED
      BY <2>2, EnclaveChaincodeAssumption DEF Init, PermitsInv, PermitsAccounted
  <1>2. PermitsInv /\ [Next]_vars => PermitsInv'
    <2> SUFFICES ASSUME PermitsInv, [Next]_vars
                 PROVE  PermitsInv'
      OBVIOUS
    <2>1. ASSUME NEW t \in Threads, Arrive(t)
          PROVE  PermitsInv'
      <3>1. Stays(t)
        BY <2>1 DEF Arrive, Setup, Invoke, GetEnclavePk, Stays, stub
      <3> QED
        BY <3>1, StayKeeps
    <2>2. ASSUME NEW t \in Threads, Acquire(t)
          PROVE  PermitsInv'
      <3>1. /\ at[t] # "in" /\ at' = [at EXCEPT ![t] = "in"]
            /\ sem > 0 /\ sem' = sem - 1 /\ failures' = failures
        BY <2>2 DEF Acquire
      <3>2. at' \in [Threads -> {"idle", "local", "wait", "in"}]
        BY <3>1 DEF PermitsInv
      <3>3. Cardinality(Inside') = Cardinality(Inside) + 1
        BY <3>1, Enters DEF PermitsInv
      <3>4. Cardinality(Inside) \in Nat
        BY InsideFinite
      <3>5. sem' + Cardinality(Inside') + failures' = TCS
        BY <3>1, <3>3, <3>4 DEF PermitsInv, PermitsAccounted
      <3>6. sem' \in Nat /\ failures' \in Nat
        BY <3>1 DEF PermitsInv
      <3> QED
        BY <3>2, <3>5, <3>6 DEF PermitsInv, PermitsAccounted
    <2>3. ASSUME NEW t \in Threads, Proceed(t)
          PROVE  PermitsInv'
      <3>1. CASE CreateFails(t) \/ GetTargetInfoFails(t)
        BY <3>1, LoseKeeps DEF CreateFails, GetTargetInfoFails
      <3>2. CASE SetupGoesOn(t) \/ SetupFails(t)
        <4>1. Stays(t)
          BY <3>2 DEF SetupGoesOn, SetupFails, Stays, stub
        <4> QED
          BY <4>1, StayKeeps
      <3>3. CASE Create(t) \/ GetTargetInfo(t)
        BY <3>3, LeaveKeeps DEF Create, GetTargetInfo
      <3>4. CASE GetRemoteAttestationReport(t)
        BY <3>4, LeaveKeeps DEF GetRemoteAttestationReport
      <3>5. CASE Bind(t) \/ GetPublicKey(t) \/ ReturnPk(t)
        BY <3>5, LeaveKeeps DEF Bind, GetPublicKey, ReturnPk
      <3>6. CASE InvokeReturns(t) \/ EnclaveAborts(t)
        BY <3>6, LeaveKeeps DEF InvokeReturns, EnclaveAborts
      <3> QED
        BY <2>3, <3>1, <3>2, <3>3, <3>4, <3>5, <3>6 DEF Proceed
    <2>4. CASE ProcessCrash
      <3>1. at' = [t \in Threads |-> "idle"] /\ sem' = TCS /\ failures' = 0
        BY <2>4 DEF ProcessCrash
      <3>2. Inside' = {}
        BY <3>1 DEF Inside
      <3>3. Cardinality(Inside') = 0
        BY <3>2, FS_EmptySet
      <3> QED
        BY <3>1, <3>3, EnclaveChaincodeAssumption DEF PermitsInv, PermitsAccounted
    <2>5. CASE UNCHANGED vars
      BY <2>5 DEF vars, stub, thread, PermitsInv, PermitsAccounted, Inside
    <2> QED
      BY <2>1, <2>2, <2>3, <2>4, <2>5 DEF Next
  <1> QED
    BY <1>1, <1>2, PTL DEF Spec

\* The permits taken, held and lost always add up, however calls interleave and
\* fail, so that the enclave never runs out of thread control structures.
THEOREM PermitsCorrect == Spec => [](PermitsAccounted /\ TcsBound)
  <1>1. PermitsInv => PermitsAccounted /\ TcsBound
    <2> SUFFICES ASSUME PermitsInv
                 PROVE  TcsBound
      BY DEF PermitsInv
    <2>1. Cardinality(Inside) \in Nat /\ TCS \in Nat
      BY InsideFinite, EnclaveChaincodeAssumption
    <2> QED
      BY <2>1 DEF PermitsInv, PermitsAccounted, TcsBound
  <1> QED
    BY <1>1, PermitsInvariant, PTL

\* In particular no more goroutines are in the enclave than it has thread control
\* structures.
THEOREM TcsBoundCorrect == Spec => []TcsBound
  BY PermitsCorrect, PTL
-----------------------------------------------------------------------------
(***************************************************************************)
(* The registry.  A transaction is in the registry under its key from the  *)
(* time it is registered until its call of the enclave has returned, and   *)
(* keys are never used again.                                              *)
(***************************************************************************)
RegistryInv ==
  /\ index \in Nat /\ index <= MaxIndex
  /\ internal \in [1 .. MaxIndex -> Threads \cup {None}]
  /\ call \in [Threads -> Calls]
  /\ idx \in [Threads -> Nat]
  /\ \A t \in Threads : call[t] = "invoke" => idx[t] \in 1 .. index /\ internal[idx[t]] = t

\* Steps that do not touch the registry and do not start an invocation.
Bystander(t) ==
  \E c \in Calls \ {"invoke"} :
     /\ call' = [call EXCEPT ![t] = c] \/ call' = call
     /\ UNCHANGED <<index, internal, idx>>

\* A step apart from the registry of calls keeps it.
LEMMA BystanderKeeps ==
  ASSUME RegistryInv, NEW t \in Threads, Bystander(t)
  PROVE  RegistryInv'
  BY DEF RegistryInv, Bystander, Calls

\* Registering takes a key nobody has.
LEMMA InvokeKeeps ==
  ASSUME RegistryInv, NEW t \in Threads, Invoke(t)
  PROVE  RegistryInv'
  <1>1. /\ index < MaxIndex /\ index' = index + 1
        /\ internal' = [internal EXCEPT ![index + 1] = t]
        /\ idx' = [idx EXCEPT ![t] = index + 1]
        /\ call' = [call EXCEPT ![t] = "invoke"]
    BY DEF Invoke
  <1>2. MaxIndex \in Nat
    BY EnclaveChaincodeAssumption
  <1>3. index + 1 \in 1 .. MaxIndex /\ index' \in Nat /\ index' <= MaxIndex
    BY <1>1, <1>2 DEF RegistryInv
  <1>4. internal' \in [1 .. MaxIndex -> Threads \cup {None}]
    BY <1>1 DEF RegistryInv
  <1>5. call' \in [Threads -> Calls]
    BY <1>1 DEF RegistryInv, Calls
  <1>6. idx' \in [Threads -> Nat]
    BY <1>1, <1>3 DEF RegistryInv
  <1>7. ASSUME NEW u \in Threads, call'[u] = "invoke"
        PROVE  idx'[u] \in 1 .. index' /\ internal'[idx'[u]] = u
    <2>1. CASE u = t
      <3>1. idx'[u] = index + 1
        BY <2>1, <1>1 DEF RegistryInv
      <3>2. internal'[index + 1] = t
        BY <1>1, <1>3 DEF RegistryInv
      <3>3. index + 1 \in 1 .. index'
        BY <1>1 DEF RegistryInv
      <3> QED
        BY <3>1, <3>2, <3>3, <2>1
    <2>2. CASE u # t
      <3>1. call[u] = "invoke" /\ idx'[u] = idx[u]
        BY <2>2, <1>1, <1>7 DEF RegistryInv
      <3>2. idx[u] \in 1 .. index /\ internal[idx[u]] = u
        BY <3>1 DEF RegistryInv
      <3>3. idx[u] # index + 1 /\ idx[u] \in 1 .. index'
        BY <3>2, <1>1 DEF RegistryInv
      <3>4. internal'[idx[u]] = internal[idx[u]]
        BY <3>2, <3>3, <1>1, <1>2 DEF RegistryInv
      <3> QED
        BY <3>1, <3>2, <3>3, <3>4
    <2> QED
      BY <2>1, <2>2
  <1> QED
    BY <1>3, <1>4, <1>5, <1>6, <1>7 DEF RegistryInv

\* Releasing frees the key of t and of no other transaction.
LEMMA ReleaseKeeps ==
  ASSUME RegistryInv, NEW t \in Threads, Leave(t, "invoke", "wait", "pk"), Release(t)
  PROVE  RegistryInv'
  <1>1. /\ call[t] = "invoke" /\ call' = [call EXCEPT ![t] = "pk"]
        /\ internal' = [internal EXCEPT ![idx[t]] = None]
        /\ idx' = [idx EXCEPT ![t] = 0]
        /\ index' = index
    BY DEF Leave, Release
  <1>2. internal' \in [1 .. MaxIndex -> Threads \cup {None}]
    BY <1>1 DEF RegistryInv
  <1>3. call' \in [Threads -> Calls] /\ idx' \in [Threads -> Nat]
    BY <1>1 DEF RegistryInv, Calls
  <1>4. ASSUME NEW u \in Threads, call'[u] = "invoke"
        PROVE  idx'[u] \in 1 .. index' /\ internal'[idx'[u]] = u
    <2>1. u # t
      BY <1>1, <1>4 DEF RegistryInv
    <2>2. call[u] = "invoke" /\ idx'[u] = idx[u]
      BY <2>1, <1>1, <1>4 DEF RegistryInv
    <2>3. idx[u] \in 1 .. index /\ internal[idx[u]] = u /\ internal[idx[t]] = t
      BY <2>2, <1>1 DEF RegistryInv
    <2>4. idx[u] # idx[t]
      BY <2>1, <2>3
    <2>5. internal'[idx[u]] = internal[idx[u]]
      BY <2>3, <2>4, <1>1 DEF RegistryInv
    <2> QED
      BY <2>2, <2>3, <2>5, <1>1
  <1> QED
    BY <1>1, <1>2, <1>3, <1>4 DEF RegistryInv

\* The invariant of the registry is inductive.
LEMMA RegistryInvariant == Spec => []RegistryInv
  <1>1. Init => RegistryInv
    BY EnclaveChaincodeAssumption DEF Init, RegistryInv, Calls
  <1>2. RegistryInv /\ [Next]_vars => RegistryInv'
    <2> SUFFICES ASSUME RegistryInv, [Next]_vars
                 PROVE  RegistryInv'
      OBVIOUS
    <2>1. ASSUME NEW t \in Threads, Arrive(t)
          PROVE  RegistryInv'
      <3>1. CASE Invoke(t)
        BY <3>1, InvokeKeeps
      <3>2. CASE Setup(t) \/ GetEnclavePk(t)
        <4>1. Bystander(t)
          BY <3>2 DEF Setup, GetEnclavePk, Bystander, Calls, registry
        <4> QED
          BY <4>1, BystanderKeeps
      <3> QED
        BY <2>1, <3>1, <3>2 DEF Arrive
    <2>2. ASSUME NEW t \in Threads, Acquire(t)
          PROVE  RegistryInv'
      <3>1. Bystander(t)
        BY <2>2 DEF Acquire, Bystander, Calls, registry
      <3> QED
        BY <3>1, BystanderKeeps
    <2>3. ASSUME NEW t \in Threads, Proceed(t)
          PROVE  RegistryInv'
      <3>1. CASE InvokeReturns(t) \/ EnclaveAborts(t)
        BY <3>1, ReleaseKeeps DEF InvokeReturns, EnclaveAborts
      <3>2. CASE CreateFails(t) \/ GetTargetInfoFails(t) \/ SetupGoesOn(t) \/ SetupFails(t)
        <4>1. Bystander(t)
          BY <3>2 DEF CreateFails, GetTargetInfoFails, LosePermit, SetupGoesOn, SetupFails, Bystander, Calls, registry
        <4> QED
          BY <4>1, BystanderKeeps
      <3>3. CASE Create(t) \/ GetTargetInfo(t) \/ GetRemoteAttestationReport(t)
        <4>1. Bystander(t)
          BY <3>3 DEF Create, GetTargetInfo, GetRemoteAttestationReport, Leave, Bystander, Calls, registry
        <4> QED
          BY <4>1, BystanderKeeps
      <3>4. CASE Bind(t) \/ GetPublicKey(t) \/ ReturnPk(t)
        <4>1. Bystander(t)
          BY <3>4 DEF Bind, GetPublicKey, ReturnPk, Leave, Bystander, Calls, registry
        <4> QED
          BY <4>1, BystanderKeeps
      <3> QED
        BY <2>3, <3>1, <3>2, <3>3, <3>4 DEF Proceed
    <2>4. CASE ProcessCrash
      BY <2>4, EnclaveChaincodeAssumption DEF ProcessCrash, RegistryInv, Calls
    <2>5. CASE UNCHANGED vars
      BY <2>5 DEF vars, registry, thread, RegistryInv
    <2> QED
      BY <2>1, <2>2, <2>3, <2>4, <2>5 DEF Next
  <1> QED
    BY <1>1, <1>2, PTL DEF Spec

\* Every ocall finds the Fabric stub of the transaction it was made for.
THEOREM OwnStubsCorrect == Spec => []OwnStubs
  <1>1. RegistryInv => OwnStubs
    BY DEF RegistryInv, OwnStubs
  <1> QED
    BY <1>1, RegistryInvariant, PTL
-----------------------------------------------------------------------------
(***************************************************************************)
(* Types.  A goroutine only ever uses an enclave that this process made;   *)
(* that the semaphore stays within its permits follows from their account. *)
(***************************************************************************)
EnclavesInv ==
  /\ made \in Nat
  /\ eid \in 0 .. made
  /\ used \in [Threads -> 0 .. made]
  /\ idx \in [Threads -> 0 .. MaxIndex]
  /\ alive \subseteq 1 .. made
  /\ setups \in 0 .. MaxSetups
  /\ failures \in 0 .. MaxFailures
  /\ crashes \in 0 .. MaxCrashes

\* Steps that make no enclave, start nothing and lose nothing.
Quiet(t) ==
  /\ used' \in {used, [used EXCEPT ![t] = 0], [used EXCEPT ![t] = eid]}
  /\ idx' \in {idx, [idx EXCEPT ![t] = 0]}
  /\ alive' \subseteq alive
  /\ UNCHANGED <<made, eid, setups, failures, crashes>>

\* A step apart from setup and restart keeps the enclaves.
LEMMA QuietKeeps ==
  ASSUME EnclavesInv, NEW t \in Threads, Quiet(t)
  PROVE  EnclavesInv'
  BY EnclaveChaincodeAssumption DEF EnclavesInv, Quiet

\* Every step keeps the enclave ids among those that were made.
LEMMA EnclavesStep ==
  ASSUME EnclavesInv, RegistryInv, [Next]_vars
  PROVE  EnclavesInv'
  <1>0. MaxSetups \in Nat /\ MaxIndex \in Nat /\ MaxFailures \in Nat /\ MaxCrashes \in Nat
    BY EnclaveChaincodeAssumption
  <1>1. ASSUME NEW t \in Threads, Setup(t)
        PROVE  EnclavesInv'
    <2>1. setups' \in 0 .. MaxSetups /\ UNCHANGED <<made, eid, used, idx, alive, failures, crashes>>
      BY <1>0, <1>1 DEF Setup, stub, enclaves, EnclavesInv
    <2> QED
      BY <2>1 DEF EnclavesInv
  <1>2. ASSUME NEW t \in Threads, Invoke(t)
        PROVE  EnclavesInv'
    <2>1. /\ idx' = [idx EXCEPT ![t] = index + 1] /\ index < MaxIndex
          /\ UNCHANGED <<made, eid, used, alive, setups, failures, crashes>>
      BY <1>2 DEF Invoke, stub, enclaves
    <2>2. index + 1 \in 0 .. MaxIndex
      BY <1>0, <2>1 DEF RegistryInv
    <2> QED
      BY <2>1, <2>2 DEF EnclavesInv
  <1>3. ASSUME NEW t \in Threads, GetEnclavePk(t) \/ Acquire(t) \/ SetupGoesOn(t) \/ SetupFails(t)
        PROVE  EnclavesInv'
    <2>1. Quiet(t)
      BY <1>3 DEF GetEnclavePk, Acquire, SetupGoesOn, SetupFails, Quiet, stub, enclaves
    <2> QED
      BY <2>1, QuietKeeps
  <1>4. ASSUME NEW t \in Threads, Create(t)
        PROVE  EnclavesInv'
    <2>1. /\ made' = made + 1 /\ eid' = made + 1 /\ alive' = alive \cup {made + 1}
          /\ used' = [used EXCEPT ![t] = 0]
          /\ UNCHANGED <<idx, setups, failures, crashes>>
      BY <1>4 DEF Create, Leave
    <2>2. made' \in Nat /\ eid' \in 0 .. made' /\ alive' \subseteq 1 .. made'
      BY <2>1 DEF EnclavesInv
    <2>3. used' \in [Threads -> 0 .. made']
      BY <2>1 DEF EnclavesInv
    <2> QED
      BY <2>1, <2>2, <2>3 DEF EnclavesInv
  <1>5. ASSUME NEW t \in Threads, CreateFails(t) \/ GetTargetInfoFails(t)
        PROVE  EnclavesInv'
    <2>1. /\ failures < MaxFailures /\ failures' = failures + 1 /\ used' = [used EXCEPT ![t] = 0]
          /\ UNCHANGED <<made, eid, idx, alive, setups, crashes>>
      BY <1>5 DEF CreateFails, GetTargetInfoFails, LosePermit, stub, enclaves
    <2> QED
      BY <1>0, <2>1 DEF EnclavesInv
  <1>6. ASSUME NEW t \in Threads, GetRemoteAttestationReport(t) \/ GetTargetInfo(t) \/ Bind(t)
                                  \/ GetPublicKey(t) \/ ReturnPk(t)
        PROVE  EnclavesInv'
    <2>1. Quiet(t)
      BY <1>6 DEF GetRemoteAttestationReport, GetTargetInfo, Bind, GetPublicKey, ReturnPk, Leave,
        Quiet, enclaves
    <2> QED
      BY <2>1, QuietKeeps
  <1>7. ASSUME NEW t \in Threads, InvokeReturns(t) \/ EnclaveAborts(t)
        PROVE  EnclavesInv'
    <2>1. Quiet(t)
      BY <1>7 DEF InvokeReturns, EnclaveAborts, Leave, Release, Quiet, enclaves
    <2> QED
      BY <2>1, QuietKeeps
  <1>8. CASE ProcessCrash
    BY <1>0, <1>8 DEF ProcessCrash, EnclavesInv
  <1>9. CASE UNCHANGED vars
    BY <1>9 DEF vars, stub, thread, enclaves, EnclavesInv
  <1> QED
    BY <1>1, <1>2, <1>3, <1>4, <1>5, <1>6, <1>7, <1>8, <1>9 DEF Next, Arrive, Proceed

\* No goroutine enters an enclave of an earlier process, however setups, aborts and
\* restarts interleave, and the semaphore never holds more than its permits.
THEOREM EnclaveChaincodeTypeCorrect == Spec => []TypeOK
  <1>1. Init => EnclavesInv
    BY EnclaveChaincodeAssumption DEF Init, EnclavesInv
  <1>2. EnclavesInv /\ RegistryInv /\ [Next]_vars => EnclavesInv'
    BY EnclavesStep
  <1>3. EnclavesInv /\ RegistryInv /\ PermitsInv => TypeOK
    <2> SUFFICES ASSUME EnclavesInv, RegistryInv, PermitsInv
                 PROVE  TypeOK
      OBVIOUS
    <2>1. Cardinality(Inside) \in Nat /\ TCS \in Nat /\ MaxIndex \in Nat
      BY InsideFinite, EnclaveChaincodeAssumption
    <2>2. sem \in 0 .. TCS
      BY <2>1 DEF PermitsInv, PermitsAccounted
    <2>3. index \in 0 .. MaxIndex
      BY <2>1 DEF RegistryInv
    <2> QED
      BY <2>2, <2>3 DEF EnclavesInv, RegistryInv, PermitsInv, TypeOK
  <1> QED
    BY <1>1, <1>2, <1>3, PermitsInvariant, RegistryInvariant, PTL DEF Spec
=============================================================================
