---------------------------- MODULE LedgerState ----------------------------
(***************************************************************************)
(* The data of the trusted ledger enclave (tlcc_enclave/enclave/ledger.cpp)*)
(* and the function it computes for one transaction of a block, next to    *)
(* the function the Fabric peer computes for the same transaction.         *)
(*                                                                         *)
(* A key stands for the string "namespace.key" the enclave indexes its     *)
(* std::map with.  Keys are numbered in the byte order of their names,     *)
(* which is the order in which a Fabric write set lists them.  A value is  *)
(* an opaque model value: the enclave only hashes it.                      *)
(***************************************************************************)
EXTENDS Integers, Sequences

CONSTANTS
  Keys,        \* the keys transactions read and write
  Values,      \* the values they write
  Absent,      \* what a map holds for a key it does not contain
  Ns,          \* Ns[k]: the namespace (chaincode) key k belongs to
  Composite,   \* the composite keys: their names start with, and are split by, 0x00
  Shapes       \* the transactions clients can submit, before endorsement

Namespaces == {"lscc", "ercc", "ecc", "other"}

\* Transaction forms: an endorser transaction, a config transaction, an
\* envelope without content, bytes that are no Envelope or Payload, and an
\* envelope whose Transaction does not decode.
Forms == {"endorser", "config", "nil", "garbled", "badtx"}

Version == [block_num : Nat, tx_num : Nat]
Entry == [val : Values, ver : Version]

\* A map from keys to S, as a total function.
Map(S) == [Keys -> S \cup {Absent}]
EmptyMap == [k \in Keys |-> Absent]
KeysOf(map) == {k \in Keys : map[k] # Absent}
KVS == Map(Entry)

\* The version a protobuf read without a version decodes to: the reader found
\* no such key.  No transaction has it: block 0 is the genesis block.
ZeroVersion == [block_num |-> 0, tx_num |-> 0]

Shape == [form : Forms, vscc : BOOLEAN, rd : SUBSET Keys, rg : SUBSET Composite,
          wr : Map(Values)]

\* reads: the point reads; range: every key of the range queries, with
\* ZeroVersion for those the query did not return.
Tx == [form : Forms, vscc : BOOLEAN, reads : Map(Version), range : Map(Version),
       writes : Map(Values)]

ASSUME KeyAssumption == Keys \subseteq Nat
ASSUME AbsentAssumption == Absent \notin Entry /\ Absent \notin Version /\ Absent \notin Values
ASSUME NsAssumption == Ns \in [Keys -> Namespaces]
ASSUME CompositeAssumption == \A k \in Composite : k \in Keys /\ Ns[k] \in {"ecc", "other"}
ASSUME ShapesAssumption == Shapes \subseteq Shape
-----------------------------------------------------------------------------
(***************************************************************************)
(* Versions and maps.                                                      *)
(***************************************************************************)

cmp_version(v1, v2) ==
  CASE v1.block_num > v2.block_num -> 1
    [] v1.block_num < v2.block_num -> -1
    [] v1.block_num = v2.block_num /\ v1.tx_num > v2.tx_num -> 1
    [] v1.block_num = v2.block_num /\ v1.tx_num < v2.tx_num -> -1
    [] v1 = v2 -> 0

has_version_conflict(key, kvs, v) ==
  /\ kvs[key] # Absent
  /\ cmp_version(v, kvs[key].ver) = -1

\* for (auto pair : *updates) state[pair.first] = pair.second
Override(kvs, updates) ==
  [k \in Keys |-> IF updates[k] # Absent THEN updates[k] ELSE kvs[k]]
-----------------------------------------------------------------------------
(***************************************************************************)
(* What the enclave does with one endorser transaction.                    *)
(***************************************************************************)

\* Mutant: the updates of the block are not looked at.
FreshRead_StateOnly(k, v, state, updates) == ~ has_version_conflict(k, state, v)

\* A read of key k at version v passes the enclave's check.
FreshRead(k, v, state, updates) ==
  /\ ~ has_version_conflict(k, state, v)
  /\ ~ has_version_conflict(k, updates, v)

\* The read phase.  A point read is looked up under ns + "." + key; a composite
\* key is a C string that ends at its leading 0x00, so the lookup finds nothing
\* and the read always passes.  Of a range query only the keys it returned are
\* looked up, under their full name.
valid_tx(tx, state, updates) ==
  /\ \A k \in KeysOf(tx.reads) \ Composite : FreshRead(k, tx.reads[k], state, updates)
  /\ \A k \in KeysOf(tx.range) :
       tx.range[k] # ZeroVersion => FreshRead(k, tx.range[k], state, updates)

InNs(S, ns) == {k \in S : Ns[k] = ns}

\* The keys of the namespaces the enclave keeps.
Tracked == {k \in Keys : Ns[k] # "other"}

\* writes[0] of the ercc namespace.
FirstErccWrite(tx) ==
  {k \in InNs(KeysOf(tx.writes), "ercc") :
     \A j \in InNs(KeysOf(tx.writes), "ercc") : k <= j}

\* The writes that reach updates: all of lscc and ecc, the first one of ercc.
RecordedWrites(tx) ==
  InNs(KeysOf(tx.writes), "lscc") \cup InNs(KeysOf(tx.writes), "ecc") \cup FirstErccWrite(tx)

\* Mutant: the ercc branch runs for every transaction.
DereferencesNull_AnyNs(tx) == InNs(KeysOf(tx.writes), "ercc") = {}

\* The ercc branch reads writes[0] of an ercc read-write set that has none.
DereferencesNull(tx) ==
  /\ InNs(KeysOf(tx.reads) \cup KeysOf(tx.range), "ercc") # {}
  /\ InNs(KeysOf(tx.writes), "ercc") = {}

\* std::map::insert leaves an entry that is already there.
InsertWrites(tx, updates, version) ==
  [k \in Keys |-> IF updates[k] = Absent /\ k \in RecordedWrites(tx)
                  THEN [val |-> tx.writes[k], ver |-> version]
                  ELSE updates[k]]

parse_endorser_transaction(tx, state, updates, version) ==
  IF valid_tx(tx, state, updates) THEN InsertWrites(tx, updates, version) ELSE updates
-----------------------------------------------------------------------------
(***************************************************************************)
(* What the Fabric peer does with the same transaction (external): its     *)
(* validation code, and the update batch of the block, in which the last   *)
(* write of a key wins.                                                    *)
(***************************************************************************)
VALID == 0
NIL_ENVELOPE == 1
BAD_PAYLOAD == 2
ENDORSEMENT_POLICY_FAILURE == 10
MVCC_READ_CONFLICT == 11
PHANTOM_READ_CONFLICT == 12

Codes == {VALID, NIL_ENVELOPE, BAD_PAYLOAD, ENDORSEMENT_POLICY_FAILURE,
          MVCC_READ_CONFLICT, PHANTOM_READ_CONFLICT}

VersionOf(kvs, k) == IF kvs[k] = Absent THEN ZeroVersion ELSE kvs[k].ver

\* An endorsing peer runs the chaincode against the state db and records the
\* version of every key it read.
Endorse(shape, db) ==
  [form |-> shape.form, vscc |-> shape.vscc,
   reads |-> [k \in Keys |-> IF k \in shape.rd THEN VersionOf(db, k) ELSE Absent],
   range |-> [k \in Keys |-> IF k \in shape.rg THEN VersionOf(db, k) ELSE Absent],
   writes |-> shape.wr]

Unchanged(k, v, db, batch) == batch[k] = Absent /\ VersionOf(db, k) = v

\* The checks in the order the peer makes them.
PeerCode(tx, db, batch) ==
  IF tx.form = "nil" THEN NIL_ENVELOPE
  ELSE IF tx.form \in {"garbled", "badtx"} THEN BAD_PAYLOAD
  ELSE IF tx.form = "config" THEN VALID
  ELSE IF ~ tx.vscc THEN ENDORSEMENT_POLICY_FAILURE
  ELSE IF \E k \in KeysOf(tx.reads) : ~ Unchanged(k, tx.reads[k], db, batch)
       THEN MVCC_READ_CONFLICT
  ELSE IF \E k \in KeysOf(tx.range) : ~ Unchanged(k, tx.range[k], db, batch)
       THEN PHANTOM_READ_CONFLICT
  ELSE VALID

PeerBatch(tx, db, batch, version) ==
  IF PeerCode(tx, db, batch) = VALID /\ tx.form = "endorser"
  THEN [k \in Keys |-> IF k \in KeysOf(tx.writes)
                       THEN [val |-> tx.writes[k], ver |-> version]
                       ELSE batch[k]]
  ELSE batch
-----------------------------------------------------------------------------
\* The part of a state database the enclave keeps a copy of.
Track(kvs) == [k \in Keys |-> IF k \in Tracked THEN kvs[k] ELSE Absent]

\* Chaincodes that read every key before they write it, in transactions the
\* validation plugins accept, with point reads of plain keys in the namespaces
\* the enclave keeps, and that write exactly one ercc key if they touch ercc.
ReadModifyWrite ==
  \A s \in Shapes :
    /\ s.form = "endorser" => s.vscc
    /\ s.rg = {}
    /\ s.rd \subseteq Tracked \ Composite
    /\ KeysOf(s.wr) \cap Tracked \subseteq s.rd
    /\ InNs(s.rd, "ercc") # {} => InNs(KeysOf(s.wr), "ercc") # {}
    /\ \A j, k \in InNs(KeysOf(s.wr), "ercc") : j = k
=============================================================================
