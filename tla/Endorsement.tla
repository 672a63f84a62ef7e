---------------------------- MODULE Endorsement ----------------------------
(***************************************************************************)
(* One invocation of a private chaincode, from its first state access to   *)
(* the verdict on its signature.                                           *)
(*                                                                         *)
(* The chaincode runs in an enclave (ecc_enclave/enclave) and accesses the *)
(* state through the shim, whose ocalls (ecc/enclave/enclave_stub.go) turn *)
(* into calls of the Fabric shim and of tlcc.  Two books are kept of what  *)
(* it reads and writes: the shim's read_set and write_set, which the       *)
(* enclave signs, and the read-write set of the peer's transaction         *)
(* simulator, which is submitted.  The validation plugin                   *)
(* (plugins/ecc-vscc) and the ledger enclave rebuild the signed message    *)
(* from the second book.                                                   *)
(*                                                                         *)
(* The hash that is signed is the list of its parts: two lists have one    *)
(* hash only if they are equal.  (The code concatenates them; a collision  *)
(* would only make the plugin accept more.)  The hash of a range query is  *)
(* the one of a text, RangeText, in which nothing separates keys and       *)
(* values.  A key stands for its name in the enclave; composite keys are   *)
(* the ones of the form ".a.b.".  The chaincode's name starts with "ecc":  *)
(* the ledger enclave keeps no keys of other ones.                         *)
(***************************************************************************)
EXTENDS Integers, FiniteSets

CONSTANTS
  Keys,        \* keys of the chaincode
  Composite,   \* the composite ones
  Prefixes,    \* partial composite keys the chaincode queries
  Match,       \* Match[p]: the keys that extend prefix p
  Values,      \* plain values
  Large,       \* values longer than the buffer the chaincode reads them into
  RangeText(_),\* the text that keys and values of a range answer come to, one after another
  MaxRange,    \* size of a range answer that fits into the shim's buffer
  RawLimit,    \* results of a range query the peer lists; it hashes longer ones (external)
  Functions,   \* functions clients call: "invoke" stands for the chaincode's own
  MaxOps,      \* bound: state accesses of the invocation
  MaxMoves,    \* bound: changes of the ledger enclave's map meanwhile
  Absent

ASSUME EndorsementAssumption ==
  /\ Composite \subseteq Keys
  /\ Match \in [Prefixes -> SUBSET Composite]
  /\ \A p \in Prefixes : IsFiniteSet(Match[p])
  /\ Keys \cap Prefixes = {} /\ "point" \notin Prefixes
  /\ Large \subseteq Values
  /\ MaxRange \in Nat /\ RawLimit \in Nat /\ MaxOps \in Nat /\ MaxMoves \in Nat
  /\ Functions \subseteq {"invoke", "__init"}

\* A stored value: put_state encrypts under a fresh nonce, put_public_state does
\* not.  Nonce 0 is one of an earlier transaction.
Stored == [val : Values, encrypted : BOOLEAN, iv : 0 .. MaxOps]
Db == [Keys -> Stored \cup {Absent}]
ASSUME AbsentAssumption == Absent \notin Stored

VARIABLES
  db,          \* the state database the transaction is simulated on; locked meanwhile
  led,         \* the map of the ledger enclave, which may be behind or ahead
  moves,       \* changes of led so far
  function,    \* the function the client called
  pc,          \* "run", "signed", "failed" or "judged"
  ops,         \* state accesses so far
  read_set,    \* the shim's read set: a std::set of keys
  write_set,   \* the shim's write set: a std::map
  json,        \* what the shim's buffer for range queries holds: a set of <<key, value>>
  simReads,    \* the simulator's point reads
  simRanges,   \* the simulator's range queries
  simWrites,   \* the simulator's writes
  puts,        \* how often the chaincode wrote each key
  seen,        \* what the last read told the chaincode, what the ledger enclave held,
               \* and whether the shim logged "cmac does not match"
  verdict      \* of the validation plugin

ledger == <<led, moves>>
shimBooks == <<read_set, write_set>>
simBooks == <<simReads, simRanges, simWrites>>
vars == <<db, ledger, function, pc, ops, shimBooks, json, simBooks, puts, seen, verdict>>

Told == [by : Keys \cup Prefixes, key : Keys, told : Stored \cup {Absent},
         held : Stored \cup {Absent}, alarm : BOOLEAN]

\* The keys the peer finds for prefix p, whether their JSON fits into the buffer of
\* the shim (a large value takes the room of three), and the part of them the peer
\* lists in the read-write set.
Results(p) == {k \in Match[p] : db[k] # Absent}
Fits(p) ==
  Cardinality(Results(p)) + 2 * Cardinality({k \in Results(p) : db[k].val \in Large}) <= MaxRange
RawReads(p) == IF Cardinality(Results(p)) <= RawLimit THEN Results(p) ELSE {}

\* The variables range over their types.
TypeOK ==
  /\ db \in Db /\ led \in Db
  /\ moves \in 0 .. MaxMoves
  /\ function \in Functions
  /\ pc \in {"run", "signed", "failed", "judged"}
  /\ ops \in 0 .. MaxOps
  /\ read_set \subseteq Keys
  /\ write_set \in Db /\ simWrites \in Db
  /\ json \subseteq Keys \X Stored
  /\ simReads \subseteq Keys
  /\ simRanges \subseteq Prefixes
  /\ puts \in [Keys -> Nat]
  /\ seen \subseteq Told
  /\ verdict \in {"none", "valid", "invalid", "unregistered"}
-----------------------------------------------------------------------------
(***************************************************************************)
(* Execution.                                                              *)
(***************************************************************************)
Access == pc = "run" /\ ops < MaxOps /\ ops' = ops + 1

\* The ledger enclave parses another block.  The peer keeps a block before it
\* updates its state, so the map may also run ahead of db.
LedgerMoves(k, s) ==
  /\ pc = "run"
  /\ moves < MaxMoves
  /\ moves' = moves + 1
  /\ led' = [led EXCEPT ![k] = s]
  /\ UNCHANGED <<db, function, pc, ops, shimBooks, json, simBooks, puts, seen, verdict>>

\* A value longer than the caller's buffer.
TooLong(k) == db[k] # Absent /\ db[k].val \in Large

\* What get_public_state returns: val_len = 0 for no value.
Returned(k) == IF TooLong(k) THEN Absent ELSE db[k]

\* The hash the shim computes; val_len > 0 tests the pointer, so that no value
\* is hashed as the empty string, here <<Absent>>.
ShimHash(k) == <<Returned(k)>>

\* The hash of ledger_get_state_hash: zeros, here <<>>, for a key it does not find.
LedgerHash(k) == IF led[k] = Absent THEN <<>> ELSE <<led[k]>>

\* Mutant: a value that is too long is reported absent after its cmac is checked.
CmacMatches_AnyLength(k) == k \notin Composite /\ <<db[k]>> = LedgerHash(k)

\* check_cmac of a point read.  For a value that is too long no cmac is fetched;
\* a composite key is cut off at its leading zero byte on its way to the ledger.
CmacMatches(k) == ~ TooLong(k) /\ k \notin Composite /\ ShimHash(k) = LedgerHash(k)

\* The entries of the ledger enclave under prefix p.
Held(p) == {<<k, led[k]>> : k \in {j \in Match[p] : led[j] # Absent}}

\* check_cmac of a range query: the shim hashes the pairs of the answer, and
\* ledger_get_multi_state_hash the entries that extend the prefix, key and value,
\* one pair after another without lengths.  No cmac is fetched for results that do
\* not fit.
RangeCmacMatches(p, answer) == Fits(p) /\ RangeText(answer) = RangeText(Held(p))

\* get_state throws on a value that was not encrypted; nothing catches it.
Throws(decrypt, answer) == decrypt /\ \E kv \in answer : ~ kv[2].encrypted

\* get_state (decrypt) and get_public_state.  A mismatch is logged, and the
\* value is returned all the same.
GetState(k, decrypt) ==
  /\ Access
  /\ read_set' = read_set \cup {k}
  /\ simReads' = simReads \cup {k}
  /\ seen' = {[by |-> k, key |-> k, told |-> Returned(k), held |-> led[k],
               alarm |-> ~ CmacMatches(k)]}
  /\ pc' = IF Returned(k) # Absent /\ Throws(decrypt, {<<k, Returned(k)>>}) THEN "failed" ELSE pc
  /\ UNCHANGED <<db, ledger, function, write_set, json, simRanges, simWrites, puts, verdict>>

\* The first value stays in write_set (std::map::insert), the last one in the
\* write set of the peer.
PutState(k, v, encrypt) ==
  /\ Access
  /\ puts' = [puts EXCEPT ![k] = @ + 1]
  /\ LET value == [val |-> v, encrypted |-> encrypt, iv |-> IF encrypt THEN ops + 1 ELSE 0]
     IN  /\ write_set' = IF write_set[k] = Absent THEN [write_set EXCEPT ![k] = value] ELSE write_set
         /\ simWrites' = [simWrites EXCEPT ![k] = value]
  /\ UNCHANGED <<db, ledger, function, pc, read_set, json, simReads, simRanges, seen, verdict>>

\* What unmarshal_values finds for prefix p.  Results that do not fit are not
\* copied, and the shim parses its uninitialized buffer: nothing, or what an
\* earlier range query left on the stack.
Answers(p) == IF Fits(p) THEN {{<<k, db[k]>> : k \in Results(p)}} ELSE {{}, json}

\* Mutant: the partial key goes into the read set instead of the keys it finds.
GetStateByPartialCompositeKey_PartialKey(p, decrypt, answer) ==
  /\ Access
  /\ simRanges' = simRanges \cup {p}
  /\ json' = answer
  /\ read_set' = read_set \cup {p}
  /\ UNCHANGED <<db, ledger, function, pc, write_set, simReads, simWrites, puts, seen, verdict>>

\* get_state_by_partial_composite_key (decrypt) and its public form.
GetStateByPartialCompositeKey(p, decrypt, answer) ==
  /\ Access
  /\ simRanges' = simRanges \cup {p}
  /\ json' = answer
  /\ read_set' = read_set \cup {kv[1] : kv \in answer}
  /\ seen' =
        {[by |-> p, key |-> kv[1], told |-> kv[2], held |-> led[kv[1]],
          alarm |-> ~ RangeCmacMatches(p, answer)] : kv \in answer} \cup
        {[by |-> p, key |-> k, told |-> Absent, held |-> led[k],
          alarm |-> ~ RangeCmacMatches(p, answer)] :
            k \in {j \in Match[p] : \A kv \in answer : kv[1] # j}}
  /\ pc' = IF Throws(decrypt, answer) THEN "failed" ELSE pc
  /\ UNCHANGED <<db, ledger, function, write_set, simReads, simWrites, puts, verdict>>

\* The chaincode returns an error, or an ocall panics because the peer or tlcc
\* answered with one: nothing is signed, nothing is submitted.
InvokeFails ==
  /\ pc = "run"
  /\ pc' = "failed"
  /\ UNCHANGED <<db, ledger, function, ops, shimBooks, json, simBooks, puts, seen, verdict>>

\* gen_response signs the books of the shim as an "invoke".
GenResponse ==
  /\ pc = "run"
  /\ pc' = "signed"
  /\ UNCHANGED <<db, ledger, function, ops, shimBooks, json, simBooks, puts, seen, verdict>>
-----------------------------------------------------------------------------
(***************************************************************************)
(* Validation.                                                             *)
(***************************************************************************)

\* Mutant: the plugin does not look into range queries.
Occurrences_PointReads(k) == IF k \in simReads THEN {"point"} ELSE {}

\* The places where the plugin finds key k among the reads; each one adds k to
\* its sorted list.
Occurrences(k) ==
  (IF k \in simReads THEN {"point"} ELSE {}) \cup {p \in simRanges : k \in RawReads(p)}

\* The plugin's list of reads is the sorted read set of the enclave.
ReadsAgree ==
  \A k \in Keys : /\ k \in read_set <=> Occurrences(k) # {}
                  /\ \A x, y \in Occurrences(k) : x = y

\* For "__init" the plugin expects another type and other arguments than the
\* enclave signed.
SignatureVerifies == function = "invoke" /\ ReadsAgree /\ simWrites = write_set

\* checkEnclaveEndorsement; registered: ercc's state has the enclave's key.
checkEnclaveEndorsement(registered) ==
  /\ pc = "signed"
  /\ pc' = "judged"
  /\ verdict' = IF ~ registered THEN "unregistered" ELSE IF SignatureVerifies THEN "valid" ELSE "invalid"
  /\ UNCHANGED <<db, ledger, function, ops, shimBooks, json, simBooks, puts, seen>>
-----------------------------------------------------------------------------
Before == [val : Values, encrypted : BOOLEAN, iv : {0}]

Init ==
  /\ db \in [Keys -> Before \cup {Absent}]
  /\ led = db
  /\ moves = 0
  /\ function \in Functions
  /\ pc = "run"
  /\ ops = 0
  /\ read_set = {}
  /\ write_set = [k \in Keys |-> Absent]
  /\ json = {}
  /\ simReads = {}
  /\ simRanges = {}
  /\ simWrites = [k \in Keys |-> Absent]
  /\ puts = [k \in Keys |-> 0]
  /\ seen = {}
  /\ verdict = "none"

Next ==
  \/ \E k \in Keys, s \in Before \cup {Absent} : LedgerMoves(k, s)
  \/ \E k \in Keys, decrypt \in BOOLEAN : GetState(k, decrypt)
  \/ \E k \in Keys, v \in Values, encrypt \in BOOLEAN : PutState(k, v, encrypt)
  \/ \E p \in Prefixes, decrypt \in BOOLEAN :
        \E answer \in Answers(p) : GetStateByPartialCompositeKey(p, decrypt, answer)
  \/ InvokeFails
  \/ GenResponse
  \/ \E registered \in BOOLEAN : checkEnclaveEndorsement(registered)

Spec == Init /\ [][Next]_vars
-----------------------------------------------------------------------------
(***************************************************************************)
(* Properties.                                                             *)
(***************************************************************************)

\* A key was read in two ways: by name and in a range query, or in two of them.
ReadTwice ==
  \E p \in simRanges : \/ Results(p) \cap simReads # {}
                       \/ \E q \in simRanges \ {p} : Results(p) \cap Results(q) # {}

\* A range query found more than the shim's buffer holds, or than the peer lists.
BeyondLimits == \E p \in simRanges : ~ Fits(p) \/ RawReads(p) # Results(p)

\* What gen_response signed over the books of the shim, checkEnclaveEndorsement
\* verifies over the books of the peer.  Of the invocations of an honest peer and
\* enclave it refuses only those that put a key twice (the enclave signs the first
\* value, the peer submits the last), read one in two ways (the plugin counts it
\* twice), exceed a limit, or are an "__init".
SignatureAccepted ==
  verdict = "invalid" =>
    \/ \E k \in Keys : puts[k] > 1
    \/ ReadTwice
    \/ BeyondLimits
    \/ function = "__init"

\* The contents a range query can meet are told apart by the text that is hashed.
\* This is a demand on the chaincode's keys and values: the entry ".a.b." with the
\* public value "x.a.c.y" reads like the two entries ".a.b." with "x" and ".a.c."
\* with "y".
Contents(p) ==
  {{<<k, f[k]>> : k \in {j \in Match[p] : f[j] # Absent}} : f \in [Match[p] -> Before \cup {Absent}]}
Unambiguous ==
  \A p \in Prefixes : \A c, d \in Contents(p) : RangeText(c) = RangeText(d) => c = d

\* Whatever the peer hands to get_state or get_state_by_partial_composite_key
\* (a stale value, no value, a leftover of another query), the shim notices when
\* it is not what the ledger enclave holds; for range queries as far as the text
\* that is hashed is unambiguous.
MismatchDetected == \A s \in seen : s.told # s.held => s.alarm
=============================================================================
