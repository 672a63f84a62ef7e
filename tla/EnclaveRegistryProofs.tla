------------------------ MODULE EnclaveRegistryProofs ------------------------
(***************************************************************************)
(* Proofs about EnclaveRegistry, for all sets of chaincodes and enclaves,  *)
(* blocks of any size and any number of transactions.                      *)
(***************************************************************************)
EXTENDS EnclaveRegistry, TLAPS

\* A MRENCLAVE is there if and only if it has a version, and versions are blocks.
Versioned ==
  \A c \in Chaincodes :
    /\ mrenclave[c].version <= height
    /\ mrenclave[c].value = Absent <=> mrenclave[c].version = 0

\* A setup that found no MRENCLAVE writes the one of its file; one that found one
\* found the one of its file, and it is still there.
Honest(tx) ==
  /\ tx.enclave \in Genuine
  /\ tx.version = 0 => tx.writes = FileMr[tx.enclave]
  /\ tx.version # 0 =>
       tx.writes = Absent /\ mrenclave[Of[tx.enclave]].value = FileMr[tx.enclave]

HonestPool == \A tx \in pool : tx.fn = "__setup" => Honest(tx)

RegisteredInBlock == \A e \in Enclaves : registry[e] <= height

Inv ==
  /\ TypeOK /\ Versioned /\ HonestPool /\ RegisteredCodeIsCommitted
  /\ RegisteredInBlock /\ AcceptedAfterRegistration

ValidIn(block) == {block[i] : i \in {j \in DOMAIN block : Valid(block, j)}}
-----------------------------------------------------------------------------
\* A transaction of the pool is one of the two kinds.
LEMMA PoolTypes ==
  ASSUME TypeOK, NEW tx \in pool
  PROVE  /\ tx.enclave \in Enclaves
         /\ tx.fn \in {"__setup", "registerEnclave", "invoke"}
         /\ tx.fn = "__setup" =>
              /\ tx.version \in Nat
              /\ tx.writes \in {FileMr[e] : e \in Enclaves} \cup {Absent}
BY DEF TypeOK, Transactions, Setups, Others

\* The valid transactions of a block come from the pool and pass the checks.
LEMMA ValidTransactions ==
  ASSUME NEW block \in Blocks, NEW tx \in ValidIn(block)
  PROVE  tx \in pool /\ Passes(tx)
<1>1. PICK n \in 1 .. MaxBlock : block \in [1 .. n -> pool]
  BY DEF Blocks
<1>2. PICK i \in DOMAIN block : Valid(block, i) /\ tx = block[i]
  BY DEF ValidIn
<1> QED
  BY <1>1, <1>2 DEF Valid

\* At most one valid transaction of a block defines a chaincode's MRENCLAVE.
LEMMA OneDefiner ==
  ASSUME RegistryAssumption, NEW block \in Blocks, NEW c \in Chaincodes,
         NEW s \in ValidIn(block), NEW t \in ValidIn(block),
         Defines(s, c), Defines(t, c)
  PROVE  s = t
<1>1. PICK n \in 1 .. MaxBlock : block \in [1 .. n -> pool]
  BY DEF Blocks
<1>2. PICK i \in 1 .. n : Valid(block, i) /\ s = block[i]
  BY <1>1 DEF ValidIn
<1>3. PICK j \in 1 .. n : Valid(block, j) /\ t = block[j]
  BY <1>1 DEF ValidIn
<1>4. n \in Nat
  BY <1>1 DEF RegistryAssumption
<1>5. ~ (i < j)
  <2>1. SUFFICES ASSUME i < j PROVE FALSE
    OBVIOUS
  <2>2. i \in 1 .. j - 1
    BY <2>1, <1>4
  <2> QED
    BY <1>2, <1>3, <2>2 DEF Valid, Defines
<1>6. ~ (j < i)
  <2>1. SUFFICES ASSUME j < i PROVE FALSE
    OBVIOUS
  <2>2. j \in 1 .. i - 1
    BY <2>1, <1>4
  <2> QED
    BY <1>2, <1>3, <2>2 DEF Valid, Defines
<1>7. i = j
  BY <1>4, <1>5, <1>6
<1> QED
  BY <1>2, <1>3, <1>7

\* A valid transaction that defines a MRENCLAVE finds none.
LEMMA DefinerFindsNone ==
  ASSUME RegistryAssumption, Inv, NEW block \in Blocks, NEW tx \in ValidIn(block),
         NEW c \in Chaincodes, Defines(tx, c)
  PROVE  mrenclave[c].value = Absent
<1>1. tx \in pool /\ Passes(tx)
  BY ValidTransactions
<1>2. tx.fn = "__setup" /\ Of[tx.enclave] = c /\ tx.writes # Absent
  BY DEF Defines
<1>3. tx.enclave \in Enclaves
  BY <1>1, PoolTypes DEF Inv
<1>4. tx.version = 0
  BY <1>1, <1>2 DEF Inv, HonestPool, Honest
<1>5. mrenclave[c].version = 0
  BY <1>1, <1>2, <1>4 DEF Passes, Current
<1> QED
  BY <1>4, <1>5 DEF Inv, Versioned

\* What a block does to the MRENCLAVE of a chaincode.
LEMMA BlockDefines ==
  ASSUME RegistryAssumption, Inv, NEW block \in Blocks, CommitBlock(block),
         NEW c \in Chaincodes
  PROVE  /\ mrenclave'[c] = mrenclave[c]
            \/ /\ mrenclave[c].value = Absent
               /\ \E tx \in ValidIn(block) :
                    /\ Defines(tx, c)
                    /\ mrenclave'[c] = [value |-> tx.writes, version |-> height + 1]
         /\ \A tx \in ValidIn(block) :
              Defines(tx, c) => mrenclave'[c].value = tx.writes
<1> DEFINE chosen == CHOOSE tx \in ValidIn(block) : Defines(tx, c)
<1>1. mrenclave'[c] = IF \E tx \in ValidIn(block) : Defines(tx, c)
                        THEN [value |-> chosen.writes, version |-> height + 1]
                        ELSE mrenclave[c]
  BY DEF CommitBlock, ValidIn
<1>2. CASE ~ \E tx \in ValidIn(block) : Defines(tx, c)
  BY <1>1, <1>2
<1>3. CASE \E tx \in ValidIn(block) : Defines(tx, c)
  <2>1. chosen \in ValidIn(block) /\ Defines(chosen, c)
    BY <1>3
  <2> HIDE DEF chosen
  <2>2. mrenclave'[c] = [value |-> chosen.writes, version |-> height + 1]
    BY <1>1, <1>3
  <2>3. mrenclave[c].value = Absent
    BY <2>1, DefinerFindsNone
  <2>4. \A tx \in ValidIn(block) : Defines(tx, c) => tx = chosen
    BY <2>1, OneDefiner
  <2> QED
    BY <2>1, <2>2, <2>3, <2>4
<1> QED
  BY <1>2, <1>3
-----------------------------------------------------------------------------
\* The invariant holds in the beginning.
LEMMA InitInv == ASSUME RegistryAssumption, Init PROVE Inv
<1>1. TypeOK
  BY DEF Init, TypeOK, RegistryAssumption
<1>2. Versioned /\ HonestPool /\ RegisteredInBlock
  BY DEF Init, Versioned, HonestPool, RegisteredInBlock
<1>3. RegisteredCodeIsCommitted /\ AcceptedAfterRegistration
  BY DEF Init, RegisteredCodeIsCommitted, AcceptedAfterRegistration
<1> QED
  BY <1>1, <1>2, <1>3 DEF Inv

\* Submitting a transaction of the right kind preserves the invariant.
LEMMA SubmitInv ==
  ASSUME Inv, NEW tx \in Transactions, Submit(tx), tx.fn = "__setup" => Honest(tx)
  PROVE  Inv'
<1>1. UNCHANGED <<height, mrenclave, registry, bySetup, accepted>>
  BY DEF Submit, state
<1>2. pool' = pool \cup {tx} /\ calls' = calls \cup {<<tx.fn, tx.enclave>>}
  BY DEF Submit
<1>3. TypeOK'
  <2>1. tx.enclave \in Enclaves /\ tx.fn \in {"__setup", "registerEnclave", "invoke"}
    BY DEF Transactions, Setups, Others
  <2> QED
    BY <1>1, <1>2, <2>1 DEF Inv, TypeOK
<1>4. HonestPool'
  BY <1>1, <1>2 DEF Inv, HonestPool, Honest
<1>5. Versioned' /\ RegisteredInBlock'
  BY <1>1 DEF Inv, Versioned, RegisteredInBlock
<1>6. RegisteredCodeIsCommitted' /\ AcceptedAfterRegistration'
  BY <1>1 DEF Inv, RegisteredCodeIsCommitted, AcceptedAfterRegistration
<1> QED
  BY <1>3, <1>4, <1>5, <1>6 DEF Inv

\* setup keeps it.
LEMMA SetupInv == ASSUME RegistryAssumption, Inv, NEW e \in Enclaves, Setup(e) PROVE Inv'
<1> DEFINE c == Of[e]
           tx == [fn |-> "__setup", enclave |-> e, version |-> mrenclave[c].version,
                  writes |-> IF mrenclave[c].value = Absent THEN FileMr[e] ELSE Absent]
<1>1. Submit(tx) /\ e \in Genuine /\ mrenclave[c].value \in {Absent, FileMr[e]}
  BY DEF Setup, VerifyAttestationReport, MrEnclaveFits
<1>2. c \in Chaincodes
  BY DEF RegistryAssumption
<1>3. mrenclave[c].version \in Nat
  BY <1>2 DEF Inv, TypeOK
<1>4. tx \in Transactions
  BY <1>3 DEF Transactions, Setups
<1>5. Honest(tx)
  BY <1>1, <1>2 DEF Honest, Inv, Versioned
<1> HIDE DEF tx
<1> QED
  BY <1>1, <1>4, <1>5, SubmitInv

\* So do the other calls.
LEMMA OtherCallsInv ==
  ASSUME Inv, NEW e \in Enclaves, RegisterEnclave(e) \/ Invoke(e) PROVE Inv'
<1>1. PICK fn \in {"registerEnclave", "invoke"} : Submit([fn |-> fn, enclave |-> e])
  BY DEF RegisterEnclave, Invoke
<1> DEFINE tx == [fn |-> fn, enclave |-> e]
<1>2. tx \in Transactions /\ tx.fn # "__setup"
  BY DEF Transactions, Others
<1>3. Submit(tx)
  BY <1>1
<1> HIDE DEF tx
<1> QED
  BY <1>2, <1>3, SubmitInv

\* Once defined a MRENCLAVE stays, with its version.
LEMMA BlockKeeps ==
  ASSUME RegistryAssumption, Inv, NEW block \in Blocks, CommitBlock(block),
         NEW c \in Chaincodes, mrenclave[c].value # Absent
  PROVE  mrenclave'[c] = mrenclave[c]
BY BlockDefines

\* A commit keeps the types.
LEMMA CommitTypes ==
  ASSUME RegistryAssumption, Inv, NEW block \in Blocks, CommitBlock(block)
  PROVE  TypeOK'
<1>1. height \in Nat /\ height' = height + 1
  BY DEF CommitBlock, Inv, TypeOK
<1>2. \A tx \in ValidIn(block) :
        /\ tx.enclave \in Enclaves
        /\ tx.fn = "__setup" => tx.writes \in {FileMr[e] : e \in Enclaves} \cup {Absent}
  BY ValidTransactions, PoolTypes DEF Inv
<1>3. mrenclave' \in [Chaincodes -> [value : {FileMr[e] : e \in Enclaves} \cup {Absent},
                                     version : Nat]]
  <2>1. DOMAIN mrenclave' = Chaincodes /\ mrenclave' = [c \in Chaincodes |-> mrenclave'[c]]
    BY DEF CommitBlock
  <2>2. \A c \in Chaincodes :
          mrenclave'[c] \in [value : {FileMr[e] : e \in Enclaves} \cup {Absent}, version : Nat]
    <3>1. SUFFICES ASSUME NEW c \in Chaincodes
                   PROVE  mrenclave'[c] \in [value : {FileMr[e] : e \in Enclaves} \cup {Absent},
                                             version : Nat]
      OBVIOUS
    <3>2. CASE mrenclave'[c] = mrenclave[c]
      BY <3>2 DEF Inv, TypeOK
    <3>3. CASE \E tx \in ValidIn(block) :
                 Defines(tx, c) /\ mrenclave'[c] = [value |-> tx.writes, version |-> height + 1]
      BY <3>3, <1>1, <1>2 DEF Defines
    <3> QED
      BY <3>2, <3>3, BlockDefines
  <2> QED
    BY <2>1, <2>2
<1>4. registry' \in [Enclaves -> Nat]
  BY <1>1 DEF CommitBlock, Inv, TypeOK
<1>5. bySetup' \subseteq Enclaves /\ accepted' \subseteq Enclaves \X Nat
  <2>1. /\ bySetup' = bySetup \cup {tx.enclave : tx \in {t \in ValidIn(block) : t.fn = "__setup"}}
        /\ accepted' = accepted \cup {<<tx.enclave, height + 1>> :
                                        tx \in {t \in ValidIn(block) : t.fn = "invoke"}}
    BY DEF CommitBlock, ValidIn
  <2> QED
    BY <2>1, <1>1, <1>2 DEF Inv, TypeOK
<1>6. pool' \subseteq Transactions /\ calls' = calls
  BY DEF CommitBlock, Inv, TypeOK
<1> QED
  BY <1>1, <1>3, <1>4, <1>5, <1>6 DEF Inv, TypeOK

\* A commit keeps the invariant.
LEMMA CommitInv ==
  ASSUME RegistryAssumption, Inv, NEW block \in Blocks, CommitBlock(block)
  PROVE  Inv'
<1>1. height \in Nat /\ height' = height + 1 /\ pool' \subseteq pool
  BY DEF CommitBlock, Inv, TypeOK
<1>2. Versioned'
  <2>1. SUFFICES ASSUME NEW c \in Chaincodes
                 PROVE  /\ mrenclave'[c].version <= height'
                        /\ mrenclave'[c].value = Absent <=> mrenclave'[c].version = 0
    BY DEF Versioned
  <2>2. CASE mrenclave'[c] = mrenclave[c]
    BY <2>2, <1>1 DEF Inv, Versioned, TypeOK
  <2>3. CASE \E tx \in ValidIn(block) :
               Defines(tx, c) /\ mrenclave'[c] = [value |-> tx.writes, version |-> height + 1]
    BY <2>3, <1>1 DEF Defines
  <2> QED
    BY <2>2, <2>3, BlockDefines
<1>3. HonestPool'
  <2>1. SUFFICES ASSUME NEW tx \in pool, tx.fn = "__setup" PROVE Honest(tx)'
    BY <1>1 DEF HonestPool
  <2>2. Honest(tx) /\ tx.enclave \in Enclaves
    BY <2>1, PoolTypes DEF Inv, HonestPool
  <2>3. Of[tx.enclave] \in Chaincodes /\ FileMr[tx.enclave] # Absent
    BY <2>2 DEF RegistryAssumption
  <2>4. mrenclave[Of[tx.enclave]].value = FileMr[tx.enclave] =>
          mrenclave'[Of[tx.enclave]].value = FileMr[tx.enclave]
    BY <2>3, BlockKeeps
  <2> QED
    BY <2>2, <2>4 DEF Honest
<1>4. RegisteredCodeIsCommitted'
  <2>1. SUFFICES ASSUME NEW e \in bySetup' PROVE mrenclave'[Of[e]].value = Mr[e]
    BY DEF RegisteredCodeIsCommitted
  <2>2. e \in bySetup \/ \E tx \in ValidIn(block) : tx.fn = "__setup" /\ tx.enclave = e
    BY DEF CommitBlock, ValidIn
  <2>3. e \in Enclaves /\ Of[e] \in Chaincodes /\ Mr[e] # Absent
    BY CommitTypes DEF TypeOK, RegistryAssumption
  <2>4. mrenclave[Of[e]].value = Mr[e] => mrenclave'[Of[e]].value = Mr[e]
    BY <2>3, BlockKeeps
  <2>5. CASE e \in bySetup
    BY <2>4, <2>5 DEF Inv, RegisteredCodeIsCommitted
  <2>6. CASE \E tx \in ValidIn(block) : tx.fn = "__setup" /\ tx.enclave = e
    <3>1. PICK tx \in ValidIn(block) : tx.fn = "__setup" /\ tx.enclave = e
      BY <2>6
    <3>2. ExpectedMr(tx) = Mr[e]
      BY <3>1, ValidTransactions DEF Passes, checkAttestation
    <3>3. CASE mrenclave[Of[e]].value # Absent
      BY <3>1, <3>2, <3>3, <2>4 DEF ExpectedMr
    <3>4. CASE mrenclave[Of[e]].value = Absent
      <4>1. tx.writes = Mr[e]
        BY <3>1, <3>2, <3>4 DEF ExpectedMr
      <4>2. Defines(tx, Of[e])
        BY <3>1, <4>1, <2>3 DEF Defines
      <4> QED
        BY <4>1, <4>2, <2>3, BlockDefines
    <3> QED
      BY <3>3, <3>4
  <2> QED
    BY <2>2, <2>5, <2>6
<1>5. \A e \in Enclaves : /\ registry[e] # 0 => registry'[e] = registry[e]
                          /\ registry'[e] \in {registry[e], height + 1}
  BY DEF CommitBlock
<1>6. RegisteredInBlock'
  BY <1>1, <1>5 DEF Inv, RegisteredInBlock, TypeOK
<1>7. AcceptedAfterRegistration'
  <2>1. SUFFICES ASSUME NEW a \in accepted'
                 PROVE  registry'[a[1]] \in 1 .. a[2] - 1
    BY DEF AcceptedAfterRegistration
  <2>2. CASE a \in accepted
    <3>1. registry[a[1]] \in 1 .. a[2] - 1 /\ a[1] \in Enclaves
      BY <2>2 DEF Inv, AcceptedAfterRegistration, TypeOK
    <3> QED
      BY <3>1, <1>5
  <2>3. CASE \E tx \in ValidIn(block) : tx.fn = "invoke" /\ a = <<tx.enclave, height + 1>>
    <3>1. PICK tx \in ValidIn(block) : tx.fn = "invoke" /\ a = <<tx.enclave, height + 1>>
      BY <2>3
    <3>2. tx.enclave \in Enclaves /\ registry[tx.enclave] # 0
      BY <3>1, ValidTransactions, PoolTypes DEF Inv, Passes, KeyRegistered
    <3>3. registry[tx.enclave] \in Nat /\ registry[tx.enclave] <= height
      BY <3>2 DEF Inv, TypeOK, RegisteredInBlock
    <3> QED
      BY <3>1, <3>2, <3>3, <1>1, <1>5
  <2> QED
    BY <2>2, <2>3 DEF CommitBlock, ValidIn
<1> QED
  BY <1>2, <1>3, <1>4, <1>6, <1>7, CommitTypes DEF Inv

\* Every step keeps the invariant.
LEMMA NextInv == ASSUME RegistryAssumption, Inv, [Next]_vars PROVE Inv'
<1>1. CASE UNCHANGED vars
  <2>1. UNCHANGED <<height, mrenclave, registry, bySetup, accepted, calls, pool>>
    BY <1>1 DEF vars, state
  <2>2. TypeOK' /\ RegisteredInBlock' /\ AcceptedAfterRegistration'
    BY <2>1 DEF Inv, TypeOK, RegisteredInBlock, AcceptedAfterRegistration
  <2> QED
    BY <2>1, <2>2 DEF Inv, Versioned, HonestPool, Honest, RegisteredCodeIsCommitted
<1>2. CASE Order
  BY <1>2, CommitInv DEF Order
<1>3. ASSUME NEW e \in Enclaves, Setup(e) PROVE Inv'
  BY <1>3, SetupInv
<1>4. ASSUME NEW e \in Enclaves, RegisterEnclave(e) \/ Invoke(e) PROVE Inv'
  BY <1>4, OtherCallsInv
<1> QED
  BY <1>1, <1>2, <1>3, <1>4 DEF Next

\* The invariant always holds.
LEMMA InvAlways == ASSUME RegistryAssumption PROVE Spec => []Inv
<1>1. Init => Inv
  BY InitInv
<1>2. Inv /\ [Next]_vars => Inv'
  BY NextInv
<1> QED
  BY <1>1, <1>2, PTL DEF Spec
-----------------------------------------------------------------------------
\* Type correctness.
THEOREM RegistryTypeCorrect == Spec => []TypeOK
<1>1. Inv => TypeOK
  BY DEF Inv
<1> QED
  BY <1>1, RegistryAssumption, InvAlways, PTL

\* For all setups that race, checkAttestation and the version check together let
\* only enclaves with the committed MRENCLAVE register through setup.
THEOREM RegisteredCodeCorrect == Spec => []RegisteredCodeIsCommitted
<1>1. Inv => RegisteredCodeIsCommitted
  BY DEF Inv
<1> QED
  BY <1>1, RegistryAssumption, InvAlways, PTL

\* Invocations are accepted only after the block that registered their enclave.
THEOREM AcceptedCorrect == Spec => []AcceptedAfterRegistration
<1>1. Inv => AcceptedAfterRegistration
  BY DEF Inv
<1> QED
  BY <1>1, RegistryAssumption, InvAlways, PTL

\* However setups race, the plugin tells a current setup with a wrong file from one
\* with the right file, from the state or from the write set.
THEOREM PluginChecksFileCorrect == Spec => []PluginChecksFile
<1>1. ASSUME Inv PROVE PluginChecksFile
  <2>1. SUFFICES ASSUME NEW tx \in pool, tx.fn = "__setup", Current(tx)
                 PROVE  checkAttestation(tx) <=> FileMr[tx.enclave] = Mr[tx.enclave]
    BY DEF PluginChecksFile
  <2>2. Honest(tx) /\ tx.enclave \in Enclaves
    BY <1>1, <2>1, PoolTypes DEF Inv, HonestPool
  <2>3. Of[tx.enclave] \in Chaincodes /\ FileMr[tx.enclave] # Absent
    BY <2>2, RegistryAssumption DEF RegistryAssumption
  <2>4. mrenclave[Of[tx.enclave]].value = Absent <=> tx.version = 0
    BY <1>1, <2>1, <2>3 DEF Inv, Versioned, Current
  <2>5. ExpectedMr(tx) = FileMr[tx.enclave]
    BY <2>2, <2>3, <2>4 DEF Honest, ExpectedMr
  <2> QED
    BY <2>1, <2>2, <2>5 DEF checkAttestation, VerifyAttestationReport, Honest
<1> QED
  BY <1>1, RegistryAssumption, InvAlways, PTL

\* Whatever the blocks contain, a MRENCLAVE that is on the ledger never changes.
THEOREM MrEnclaveNeverChanges == Spec => MrEnclaveFixed
<1> DEFINE Fixed == \A c \in Chaincodes :
                      mrenclave[c].value # Absent => mrenclave'[c] = mrenclave[c]
<1>1. ASSUME Inv, [Next]_vars PROVE [Fixed]_vars
  <2>1. CASE UNCHANGED vars
    BY <2>1
  <2>2. CASE Order
    BY <1>1, <2>2, RegistryAssumption, BlockKeeps DEF Order
  <2>3. ASSUME NEW e \in Enclaves, Setup(e) \/ RegisterEnclave(e) \/ Invoke(e)
        PROVE  Fixed
    BY <2>3 DEF Setup, RegisterEnclave, Invoke, Submit, state
  <2> QED
    BY <1>1, <2>1, <2>2, <2>3 DEF Next
<1>2. Spec => [][Fixed]_vars
  BY <1>1, RegistryAssumption, InvAlways, PTL DEF Spec
<1> QED
  BY <1>2 DEF MrEnclaveFixed
=============================================================================
