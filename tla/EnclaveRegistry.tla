--------------------------- MODULE EnclaveRegistry ---------------------------
(***************************************************************************)
(* Registration of chaincode enclaves: the __setup call of a chaincode     *)
(* (ecc), the enclave registry it calls (ercc), the validation plugin of   *)
(* the registry (plugins/ercc-vscc) and the lookup of the signing key by   *)
(* the one of the chaincodes (plugins/ecc-vscc).                           *)
(*                                                                         *)
(* Peers simulate transactions on their committed state, the orderer puts  *)
(* them into blocks some time later, and the plugins validate all          *)
(* transactions of a block against the state before it; then the versions  *)
(* of the reads are checked in order (external: Fabric).  An enclave       *)
(* stands for its key, whose hash is the registry's key: every setup       *)
(* creates an enclave with a new one.  Genuine enclaves are the ones the   *)
(* attestation service has signed a report about, whatever quote status    *)
(* (IsvEnclaveQuoteStatus) the report gives: the verifier checks the       *)
(* signature, and that the report holds the enclave's key and measurement. *)
(* The MRENCLAVE that setup handles is not the measurement of the enclave  *)
(* but what the file mrenclave beside it says.                             *)
(***************************************************************************)
EXTENDS Integers, Sequences, FiniteSets

CONSTANTS
  Chaincodes,
  Enclaves,
  Of,           \* the chaincode an enclave is set up for
  Mr,           \* the measurement of an enclave, as the attestation service reports it
  FileMr,       \* what the file mrenclave says where the enclave is created (hex in
                \* one case: setup compares strings, the plugin bytes)
  Genuine,      \* enclaves the attestation service signs a report about
  MaxBlock,     \* bound: transactions in a block
  MaxCalls,     \* bound: transactions submitted
  Absent

ASSUME RegistryAssumption ==
  /\ Of \in [Enclaves -> Chaincodes]
  /\ Genuine \subseteq Enclaves
  /\ MaxBlock \in Nat \ {0} /\ MaxCalls \in Nat
  /\ \A e \in Enclaves : FileMr[e] # Absent /\ Mr[e] # Absent

VARIABLES
  height,     \* blocks committed
  mrenclave,  \* committed MRENCLAVE of each chaincode, with its version
  registry,   \* ercc's state: the block that first registered each key, 0 if none did
  bySetup,    \* the keys registered through __setup
  calls,      \* transactions submitted so far
  pool,       \* the ones not yet ordered
  accepted    \* the enclaves of the invocations accepted, with their block

state == <<height, mrenclave, registry, bySetup, accepted>>
vars == <<state, calls, pool>>

\* writes: the MRENCLAVE the transaction writes, Absent if it writes none;
\* version: the version of the MRENCLAVE it read.
Setups == [fn : {"__setup"}, enclave : Enclaves, version : Nat,
           writes : {FileMr[e] : e \in Enclaves} \cup {Absent}]
Others == [fn : {"registerEnclave", "invoke"}, enclave : Enclaves]
Transactions == Setups \cup Others

\* The variables range over their types.
TypeOK ==
  /\ height \in Nat
  /\ mrenclave \in [Chaincodes -> [value : {FileMr[e] : e \in Enclaves} \cup {Absent},
                                   version : Nat]]
  /\ registry \in [Enclaves -> Nat]
  /\ bySetup \subseteq Enclaves
  /\ calls \subseteq {"__setup", "registerEnclave", "invoke"} \X Enclaves
  /\ pool \subseteq Transactions
  /\ accepted \subseteq Enclaves \X Nat

Init ==
  /\ height = 0
  /\ mrenclave = [c \in Chaincodes |-> [value |-> Absent, version |-> 0]]
  /\ registry = [e \in Enclaves |-> 0]
  /\ bySetup = {} /\ calls = {} /\ pool = {} /\ accepted = {}
-----------------------------------------------------------------------------
(***************************************************************************)
(* Simulation.                                                             *)
(***************************************************************************)
Submit(tx) ==
  /\ <<tx.fn, tx.enclave>> \notin calls /\ Cardinality(calls) < MaxCalls
  /\ calls' = calls \cup {<<tx.fn, tx.enclave>>}
  /\ pool' = pool \cup {tx}
  /\ UNCHANGED state

\* What the verifier checks of a report: the attestation service signed it, and it
\* is about this enclave's key and measurement.
VerifyAttestationReport(e) == e \in Genuine

\* Mutant: setup does not compare with the MRENCLAVE on the ledger.
MrEnclaveFits_Any(e) == TRUE

\* setup goes on if the MRENCLAVE is not on the ledger or is the one in the file.
MrEnclaveFits(e) == mrenclave[Of[e]].value \in {Absent, FileMr[e]}

\* Mutant: the enclave's key is written instead of its MRENCLAVE.
Setup_WritesKey(e) ==
  /\ VerifyAttestationReport(e)
  /\ MrEnclaveFits(e)
  /\ Submit([fn |-> "__setup", enclave |-> e, version |-> mrenclave[Of[e]].version,
             writes |-> IF mrenclave[Of[e]].value = Absent THEN e ELSE Absent])

\* setup: create the enclave, write the MRENCLAVE of the file if there is none on
\* the ledger, register the enclave at ercc, bind it.  An error of any of these
\* leaves no transaction.
Setup(e) ==
  /\ VerifyAttestationReport(e)
  /\ MrEnclaveFits(e)
  /\ Submit([fn |-> "__setup", enclave |-> e, version |-> mrenclave[Of[e]].version,
             writes |-> IF mrenclave[Of[e]].value = Absent THEN FileMr[e] ELSE Absent])

\* registerEnclave called without a setup.
RegisterEnclave(e) ==
  /\ VerifyAttestationReport(e)
  /\ Submit([fn |-> "registerEnclave", enclave |-> e])

\* An invocation, signed by the enclave the stub holds: also one whose setup went
\* wrong after Create, or was never committed.
Invoke(e) == Submit([fn |-> "invoke", enclave |-> e])
-----------------------------------------------------------------------------
(***************************************************************************)
(* Validation and commit of a block.                                       *)
(***************************************************************************)

\* Mutant: the plugin looks for the MRENCLAVE in the state only.
ExpectedMr_State(tx) == mrenclave[Of[tx.enclave]].value

\* The MRENCLAVE checkAttestation expects: the one on the ledger, else the one in
\* the write set.
ExpectedMr(tx) ==
  LET committed == mrenclave[Of[tx.enclave]].value
  IN  IF committed = Absent THEN tx.writes ELSE committed

\* checkAttestation: for __setup only.
checkAttestation(tx) ==
  tx.fn = "__setup" =>
    VerifyAttestationReport(tx.enclave) /\ ExpectedMr(tx) = Mr[tx.enclave]

\* Mutant: the key is not looked up.
KeyRegistered_Any(tx) == TRUE

\* The first check of checkEnclaveEndorsement (the rest is in Endorsement).
KeyRegistered(tx) == tx.fn = "invoke" => registry[tx.enclave] # 0

\* Mutant: the read of the MRENCLAVE is not in the read set.
Current_Any(tx) == TRUE

\* What the version check compares (external).
Current(tx) == tx.fn = "__setup" => tx.version = mrenclave[Of[tx.enclave]].version

Passes(tx) == checkAttestation(tx) /\ KeyRegistered(tx) /\ Current(tx)

Defines(tx, c) == tx.fn = "__setup" /\ Of[tx.enclave] = c /\ tx.writes # Absent

\* Mutant: the version check looks at the state before the block only.
Valid_Parallel(block, i) == Passes(block[i])

\* Transaction i of the block is valid: no valid one before it wrote the
\* MRENCLAVE it read.
Valid(block, i) ==
  /\ Passes(block[i])
  /\ block[i].fn = "__setup" =>
       \A j \in 1 .. i - 1 :
         ~ (Passes(block[j]) /\ Defines(block[j], Of[block[i].enclave]))

Registers(tx) == tx.fn \in {"__setup", "registerEnclave"}

CommitBlock(block) ==
  LET valid == {block[i] : i \in {j \in DOMAIN block : Valid(block, j)}}
      definer(c) == CHOOSE tx \in valid : Defines(tx, c)
  IN  /\ height' = height + 1
      /\ mrenclave' = [c \in Chaincodes |->
           IF \E tx \in valid : Defines(tx, c)
             THEN [value |-> definer(c).writes, version |-> height + 1]
             ELSE mrenclave[c]]
      /\ registry' = [e \in Enclaves |->
           IF registry[e] = 0 /\ \E tx \in valid : Registers(tx) /\ tx.enclave = e
             THEN height + 1 ELSE registry[e]]
      /\ bySetup' = bySetup \cup {tx.enclave : tx \in {t \in valid : t.fn = "__setup"}}
      /\ accepted' = accepted \cup
           {<<tx.enclave, height + 1>> : tx \in {t \in valid : t.fn = "invoke"}}
      /\ pool' = pool \ {block[i] : i \in DOMAIN block}
      /\ UNCHANGED calls

\* The blocks the orderer may cut.
Blocks ==
  {block \in UNION {[1 .. n -> pool] : n \in 1 .. MaxBlock} :
     \A i, j \in DOMAIN block : block[i] = block[j] => i = j}

Order == \E block \in Blocks : CommitBlock(block)

Next ==
  \/ \E e \in Enclaves : Setup(e) \/ RegisterEnclave(e) \/ Invoke(e)
  \/ Order

Spec == Init /\ [][Next]_vars

\* The orderer goes on as long as something waits (external).
FairSpec == Spec /\ WF_vars(Order)
-----------------------------------------------------------------------------
(***************************************************************************)
(* Properties.                                                             *)
(***************************************************************************)

\* The MRENCLAVE that setup writes when it finds none is defined once: of two
\* setups that both found none, simulated together or in one block, the second
\* changes nothing.
MrEnclaveFixed ==
  [][\A c \in Chaincodes :
       mrenclave[c].value # Absent => mrenclave'[c] = mrenclave[c]]_vars

\* A key registered through setup belongs to an enclave with the MRENCLAVE its
\* chaincode has on the ledger, now and not only when setup read it.
RegisteredCodeIsCommitted ==
  \A e \in bySetup : mrenclave[Of[e]].value = Mr[e]

\* Of the setups that are not too late, checkAttestation refuses those whose file
\* did not give the measurement of their enclave, and no others: with the MRENCLAVE
\* taken from the state or from the write set, the plugin finds out about a wrong
\* file although setup compared it with what was on the ledger before.
PluginChecksFile ==
  \A tx \in pool :
    tx.fn = "__setup" /\ Current(tx) =>
      (checkAttestation(tx) <=> FileMr[tx.enclave] = Mr[tx.enclave])

\* An invocation is accepted only if its enclave was registered in an earlier
\* block; one in the same block as the registration is not.
AcceptedAfterRegistration ==
  \A a \in accepted : registry[a[1]] \in 1 .. a[2] - 1

\* A chaincode gets its MRENCLAVE once one of its setups that found none and had
\* the right file was submitted, whatever setups with wrong files come before it.
MrEnclaveDefined ==
  \A c \in Chaincodes :
    (\E tx \in pool : Defines(tx, c) /\ FileMr[tx.enclave] = Mr[tx.enclave])
      ~> mrenclave[c].value # Absent
=============================================================================
