--------------------- MODULE TrustedLedgerMirrorProofs ---------------------
(***************************************************************************)
(* If every transaction reads what it writes, the map of a ledger enclave  *)
(* is the peer's state database after the block it committed last.  The    *)
(* argument: while a caller parses the next block of its enclave nobody    *)
(* else can commit to it without making that block an old one, so the map  *)
(* it checks reads against is the database the peer checked against, and   *)
(* its updates are, transaction by transaction, the tracked part of the    *)
(* peer's batch.                                                           *)
(***************************************************************************)
EXTENDS TrustedLedgerProofs

\* The order of versions.
Leq(v, w) ==
  \/ v.block_num < w.block_num
  \/ v.block_num = w.block_num /\ v.tx_num <= w.tx_num

\* cmp_version(v, w) is -1 exactly when v is before w.
LEMMA CmpVersion ==
  ASSUME NEW v \in Version, NEW w \in Version
  PROVE  cmp_version(v, w) = -1 <=> Leq(v, w) /\ v # w
<1>1. v = w <=> v.block_num = w.block_num /\ v.tx_num = w.tx_num
  BY DEF Version
<1> QED BY <1>1 DEF cmp_version, Leq, Version

\* The state database the transactions of block n of chain ch are validated against.
Before(ch, n) == IF n = 0 THEN EmptyMap ELSE ch[n].post

\* Every entry of the map was written in a block before block n.
OlderThan(kvs, n) == \A k \in Keys : kvs[k] # Absent => kvs[k].ver.block_num < n

\* An endorsed transaction of a chaincode that reads what it writes.
Careful(tx, db) ==
  tx.form = "endorser" =>
    /\ tx.vscc
    /\ KeysOf(tx.range) = {}
    /\ KeysOf(tx.reads) \subseteq Tracked \ Composite
    /\ KeysOf(tx.writes) \cap Tracked \subseteq KeysOf(tx.reads)
    /\ RecordedWrites(tx) = KeysOf(tx.writes) \cap Tracked
    /\ ~ DereferencesNull(tx)
    /\ \A k \in KeysOf(tx.reads) : Leq(tx.reads[k], VersionOf(db, k))

\* A read is fresh for the enclave exactly when it is unchanged for the peer.
LEMMA SameReadCheck ==
  ASSUME NEW db \in KVS, NEW batch \in KVS, NEW n \in Nat, n > 0,
         OlderThan(db, n), WrittenIn(batch, n),
         NEW k \in Tracked, NEW v \in Version, Leq(v, VersionOf(db, k))
  PROVE  FreshRead(k, v, Track(db), Track(batch)) <=> Unchanged(k, v, db, batch)
<1>1. k \in Keys /\ Track(db)[k] = db[k] /\ Track(batch)[k] = batch[k]
  BY DEF Tracked, Track
<1>2. VersionOf(db, k) \in Version /\ VersionOf(db, k).block_num < n
  <2>1. CASE db[k] = Absent
    BY <2>1 DEF VersionOf, ZeroVersion, Version
  <2>2. CASE db[k] # Absent
    BY <1>1, <2>2, VersionOfType DEF VersionOf, OlderThan
  <2> QED BY <2>1, <2>2
<1>3. v.block_num < n
  BY <1>2 DEF Leq, Version
<1>4. has_version_conflict(k, Track(batch), v) <=> batch[k] # Absent
  <2>1. CASE batch[k] = Absent
    BY <1>1, <2>1 DEF has_version_conflict
  <2>2. CASE batch[k] # Absent
    <3>1. batch[k].ver \in Version /\ batch[k].ver.block_num = n
      BY <1>1, <2>2 DEF KVS, Map, Entry, WrittenIn
    <3>2. Leq(v, batch[k].ver) /\ v # batch[k].ver
      BY <1>3, <3>1 DEF Leq
    <3> QED BY <1>1, <2>2, <3>1, <3>2, CmpVersion DEF has_version_conflict
  <2> QED BY <2>1, <2>2
<1>5. has_version_conflict(k, Track(db), v) <=> VersionOf(db, k) # v
  <2>1. CASE db[k] = Absent
    <3>1. v = ZeroVersion
      BY <2>1 DEF VersionOf, Leq, ZeroVersion, Version
    <3> QED BY <1>1, <2>1, <3>1 DEF has_version_conflict, VersionOf
  <2>2. CASE db[k] # Absent
    <3>1. db[k].ver \in Version /\ VersionOf(db, k) = db[k].ver
      BY <1>1, <2>2 DEF KVS, Map, Entry, VersionOf
    <3> QED BY <1>1, <2>2, <3>1, CmpVersion DEF has_version_conflict
  <2> QED BY <2>1, <2>2
<1> QED BY <1>4, <1>5 DEF FreshRead, Unchanged

\* On the same database the enclave records what the peer records.
LEMMA SameUpdates ==
  ASSUME NEW tx \in Tx, tx.form = "endorser", NEW db \in KVS, NEW batch \in KVS,
         NEW n \in Nat, n > 0, OlderThan(db, n), WrittenIn(batch, n), Careful(tx, db),
         NEW version \in Version
  PROVE  parse_endorser_transaction(tx, Track(db), Track(batch), version)
           = Track(PeerBatch(tx, db, batch, version))
<1>1. \A k \in KeysOf(tx.reads) :
        FreshRead(k, tx.reads[k], Track(db), Track(batch)) <=> Unchanged(k, tx.reads[k], db, batch)
  <2> TAKE k \in KeysOf(tx.reads)
  <2>1. k \in Tracked /\ Leq(tx.reads[k], VersionOf(db, k))
    BY DEF Careful
  <2>2. tx.reads[k] \in Version
    BY DEF KeysOf, Tx, Map
  <2> QED BY <2>1, <2>2, SameReadCheck
<1>2. valid_tx(tx, Track(db), Track(batch))
        <=> \A k \in KeysOf(tx.reads) : Unchanged(k, tx.reads[k], db, batch)
  <2>1. KeysOf(tx.reads) \ Composite = KeysOf(tx.reads) /\ KeysOf(tx.range) = {}
    BY DEF Careful
  <2> QED BY <1>1, <2>1 DEF valid_tx
<1>3. PeerCode(tx, db, batch) = VALID
        <=> \A k \in KeysOf(tx.reads) : Unchanged(k, tx.reads[k], db, batch)
  BY DEF PeerCode, Careful, VALID, MVCC_READ_CONFLICT, PHANTOM_READ_CONFLICT
<1>4. CASE valid_tx(tx, Track(db), Track(batch))
  <2>1. ASSUME NEW k \in Keys
        PROVE  InsertWrites(tx, Track(batch), version)[k]
                 = Track(PeerBatch(tx, db, batch, version))[k]
    <3>1. CASE k \notin Tracked
      BY <3>1 DEF InsertWrites, Track, Careful
    <3>2. CASE k \in Tracked /\ k \in KeysOf(tx.writes)
      <4>1. batch[k] = Absent
        BY <1>2, <1>4, <3>2 DEF Careful, Unchanged
      <4> QED BY <1>2, <1>3, <1>4, <3>2, <4>1 DEF InsertWrites, Track, Careful, PeerBatch
    <3>3. CASE k \in Tracked /\ k \notin KeysOf(tx.writes)
      BY <1>2, <1>3, <1>4, <3>3 DEF InsertWrites, Track, Careful, PeerBatch
    <3> QED BY <3>1, <3>2, <3>3
  <2> QED BY <1>4, <2>1 DEF parse_endorser_transaction, InsertWrites, Track
<1>5. CASE ~ valid_tx(tx, Track(db), Track(batch))
  BY <1>2, <1>3, <1>5 DEF parse_endorser_transaction, PeerBatch
<1> QED BY <1>4, <1>5
-----------------------------------------------------------------------------
(***************************************************************************)
(* The peer's side of the invariant.                                       *)
(***************************************************************************)

\* Block b, numbered n, is a replay of its transactions on database db.
Replays(b, n, db) ==
  /\ b.batches[1] = EmptyMap
  /\ \A i \in 1 .. Len(b.txs) + 1 : WrittenIn(b.batches[i], n)
  /\ \A i \in 1 .. Len(b.txs) :
       /\ b.codes[i] = PeerCode(b.txs[i], db, b.batches[i])
       /\ b.batches[i + 1]
            = PeerBatch(b.txs[i], db, b.batches[i], [block_num |-> n, tx_num |-> i - 1])
       /\ Careful(b.txs[i], db)

Grows(db1, db2) == \A k \in Keys : Leq(VersionOf(db1, k), VersionOf(db2, k))

ReplayedChain(ch) ==
  /\ ch[1] = Genesis
  /\ \A n \in 1 .. Len(ch) :
       /\ Replays(ch[n], n - 1, Before(ch, n - 1))
       /\ ch[n].post = Override(Before(ch, n - 1), ch[n].batches[Len(ch[n].txs) + 1])
       /\ OlderThan(ch[n].post, n)
       /\ Grows(ch[n].post, ch[Len(ch)].post)

PeerReplays == ReplayedChain(chain) /\ Replays(pend, Len(chain), CurrentDb)

\* What chaincodes that read what they write get endorsed.
LEMMA EndorseCareful ==
  ASSUME ReadModifyWrite, NEW shape \in Shapes, NEW db1 \in KVS, NEW db2 \in KVS, Grows(db1, db2)
  PROVE  Careful(Endorse(shape, db1), db2)
<1> DEFINE tx == Endorse(shape, db1)
<1>1. shape \in Shape
  BY ShapesAssumption
<1>2. ASSUME NEW k \in Keys PROVE VersionOf(db1, k) # Absent
  BY VersionOfType, AbsentAssumption
<1>3. KeysOf(tx.reads) = shape.rd
  BY <1>1, <1>2 DEF Endorse, KeysOf, Shape
<1>4. KeysOf(tx.range) = {}
  BY DEF Endorse, KeysOf, ReadModifyWrite
<1>5. tx.writes = shape.wr /\ tx.form = shape.form /\ tx.vscc = shape.vscc
  BY DEF Endorse
<1>6. \A k \in KeysOf(tx.reads) : tx.reads[k] = VersionOf(db1, k)
  BY <1>1, <1>3 DEF Endorse, Shape
<1> HIDE DEF tx
<1>7. RecordedWrites(tx) = KeysOf(tx.writes) \cap Tracked
  <2>1. FirstErccWrite(tx) = InNs(KeysOf(tx.writes), "ercc")
    <3>1. \A j, k \in InNs(KeysOf(tx.writes), "ercc") : j = k /\ k \in Nat
      BY <1>5, KeyAssumption, ZenonT(60) DEF ReadModifyWrite, InNs, KeysOf
    <3>2. \A j, k \in InNs(KeysOf(tx.writes), "ercc") : k <= j
      BY <3>1
    <3> QED BY <3>2 DEF FirstErccWrite
  <2> QED BY <2>1, NsAssumption DEF RecordedWrites, InNs, KeysOf, Tracked, Namespaces
<1>8. ~ DereferencesNull(tx)
  BY <1>3, <1>4, <1>5 DEF DereferencesNull, ReadModifyWrite, InNs
<1>9. \A k \in KeysOf(tx.reads) : Leq(tx.reads[k], VersionOf(db2, k))
  BY <1>6 DEF Grows, KeysOf
<1>10. Careful(tx, db2)
  BY <1>3, <1>4, <1>5, <1>7, <1>8, <1>9, ZenonT(60) DEF Careful, ReadModifyWrite
<1> QED BY <1>10 DEF tx

\* A batch holds writes of its own block only.
LEMMA BatchWrittenIn ==
  ASSUME NEW tx, NEW db, NEW batch, NEW n, NEW i, WrittenIn(batch, n)
  PROVE  WrittenIn(PeerBatch(tx, db, batch, [block_num |-> n, tx_num |-> i]), n)
  BY DEF WrittenIn, PeerBatch

\* A new block only moves versions forward.
LEMMA OverrideGrows ==
  ASSUME NEW db \in KVS, NEW batch \in KVS, NEW n \in Nat, OlderThan(db, n), WrittenIn(batch, n), n > 0
  PROVE  Grows(db, Override(db, batch)) /\ OlderThan(Override(db, batch), n + 1)
<1>1. OlderThan(Override(db, batch), n + 1)
  BY DEF OlderThan, WrittenIn, Override, KVS, Map, Entry, Version
<1>2. ASSUME NEW k \in Keys PROVE Leq(VersionOf(db, k), VersionOf(Override(db, batch), k))
  <2>1. VersionOf(db, k) \in Version /\ VersionOf(db, k).block_num < n
    BY VersionOfType DEF VersionOf, OlderThan, ZeroVersion
  <2>2. CASE batch[k] = Absent
    BY <2>1, <2>2 DEF Override, VersionOf, Leq, Version
  <2>3. CASE batch[k] # Absent
    <3>1. VersionOf(Override(db, batch), k).block_num = n
      BY <2>3 DEF Override, VersionOf, WrittenIn
    <3> QED BY <2>1, <3>1 DEF Leq
  <2> QED BY <2>2, <2>3
<1> QED BY <1>1, <1>2 DEF Grows

\* Grows is transitive.
LEMMA GrowsTransitive ==
  ASSUME NEW db1 \in KVS, NEW db2 \in KVS, NEW db3 \in KVS, Grows(db1, db2), Grows(db2, db3)
  PROVE  Grows(db1, db3)
<1>1. ASSUME NEW u \in Version, NEW v \in Version, NEW w \in Version, Leq(u, v), Leq(v, w)
      PROVE  Leq(u, w)
  BY <1>1 DEF Leq, Version
<1> QED BY <1>1, VersionOfType DEF Grows

\* An empty block is a replay of nothing.
LEMMA NoPendingReplays ==
  ASSUME NEW n, NEW db
  PROVE  Replays(NoPending, n, db)
  BY DEF Replays, NoPending, WrittenIn, EmptyMap

\* Every step of the peer keeps the chain a replay.
LEMMA PeerReplaysStep ==
  ASSUME ReadModifyWrite, PeerTypeOK, ChainShape, PeerReplays, [Next]_vars
  PROVE  PeerReplays'
<1>1. Len(chain) \in Nat /\ Len(chain) >= 1 /\ CurrentDb \in KVS
  BY BlockFields DEF PeerTypeOK, ChainShape, CurrentDb
<1>2. OlderThan(CurrentDb, Len(chain))
  BY <1>1 DEF PeerReplays, ReplayedChain, CurrentDb
<1>3. CASE UNCHANGED chain /\ pend' = NoPending
  BY <1>3, NoPendingReplays DEF PeerReplays
<1>4. CASE UNCHANGED <<chain, pend>>
  BY <1>4 DEF PeerReplays, CurrentDb
<1>5. CASE \E shape \in Shapes, h \in 1 .. Height : ValidateTx(shape, h)
  <2>1. PICK shape \in Shapes, h \in 1 .. Height : ValidateTx(shape, h)
    BY <1>5
  <2> DEFINE tx == Endorse(shape, chain[h].post)
             n == Len(pend.txs)
             batch == pend.batches[n + 1]
             version == [block_num |-> Len(chain), tx_num |-> n]
             code == PeerCode(tx, CurrentDb, batch)
             next == PeerBatch(tx, CurrentDb, batch, version)
  <2>2. pend' = [txs |-> Append(pend.txs, tx), codes |-> Append(pend.codes, code),
                 batches |-> Append(pend.batches, next)] /\ chain' = chain
    BY <2>1 DEF ValidateTx, Height
  <2>3. Careful(tx, CurrentDb)
    <3>1. chain[h].post \in KVS /\ Grows(chain[h].post, CurrentDb)
      BY BlockFields DEF PeerTypeOK, PeerReplays, ReplayedChain, CurrentDb, Height
    <3> QED BY <1>1, <3>1, EndorseCareful
  <2>4. WrittenIn(next, Len(chain))
    <3>1. WrittenIn(batch, Len(chain))
      BY DEF PeerReplays, Replays, PeerTypeOK
    <3> QED BY <3>1, BatchWrittenIn
  <2>5. /\ pend.txs \in Seq(Tx) /\ pend.codes \in Seq(Codes) /\ pend.batches \in Seq(KVS)
        /\ n \in Nat /\ Len(pend.codes) = n /\ Len(pend.batches) = n + 1
    BY DEF PeerTypeOK, ChainShape, Filled
  <2>6. Replays(pend, Len(chain), CurrentDb)
    BY DEF PeerReplays
  <2> HIDE DEF tx, code, next
  <2>7. /\ Len(pend'.txs) = n + 1
        /\ pend'.txs[n + 1] = tx /\ pend'.codes[n + 1] = code /\ pend'.batches[n + 2] = next
        /\ \A i \in 1 .. n : pend'.txs[i] = pend.txs[i] /\ pend'.codes[i] = pend.codes[i]
        /\ \A i \in 1 .. n + 1 : pend'.batches[i] = pend.batches[i]
    BY <2>2, <2>5, SMTT(60)
  <2>8. Replays(pend', Len(chain), CurrentDb)
    <3>1. pend'.batches[1] = EmptyMap
      BY <2>5, <2>6, <2>7 DEF Replays
    <3>2. ASSUME NEW i \in 1 .. n + 2 PROVE WrittenIn(pend'.batches[i], Len(chain))
      <4>1. CASE i \in 1 .. n + 1
        BY <2>6, <2>7, <4>1 DEF Replays
      <4>2. CASE i = n + 2
        BY <2>4, <2>7, <4>2
      <4> QED BY <2>5, <4>1, <4>2
    <3>3. ASSUME NEW i \in 1 .. n + 1
          PROVE  /\ pend'.codes[i] = PeerCode(pend'.txs[i], CurrentDb, pend'.batches[i])
                 /\ pend'.batches[i + 1]
                      = PeerBatch(pend'.txs[i], CurrentDb, pend'.batches[i],
                                  [block_num |-> Len(chain), tx_num |-> i - 1])
                 /\ Careful(pend'.txs[i], CurrentDb)
      <4>1. CASE i \in 1 .. n
        BY <2>5, <2>6, <2>7, <4>1 DEF Replays
      <4>2. CASE i = n + 1
        <5>1. n + 1 - 1 = n /\ n + 1 + 1 = n + 2 /\ n + 1 \in 1 .. n + 1
          BY <2>5
        <5> QED BY <2>3, <2>7, <4>2, <5>1 DEF code, next
      <4> QED BY <2>5, <4>1, <4>2
    <3>4. n + 1 + 1 = n + 2
      BY <2>5
    <3> QED BY <2>7, <3>1, <3>2, <3>3, <3>4 DEF Replays
  <2> QED BY <2>2, <2>8 DEF PeerReplays, CurrentDb
<1>6. CASE AppendBlock
  <2> DEFINE last == pend.batches[Len(pend.txs) + 1]
             b == [txs |-> pend.txs, codes |-> pend.codes, batches |-> pend.batches,
                   post |-> Override(CurrentDb, last)]
             h == Len(chain)
  <2>1. chain' = Append(chain, b) /\ pend' = NoPending
    BY <1>6 DEF AppendBlock
  <2>2. last \in KVS /\ WrittenIn(last, h)
    BY DEF PeerTypeOK, ChainShape, Filled, PeerReplays, Replays
  <2>3. b.post \in KVS /\ Grows(CurrentDb, b.post) /\ OlderThan(b.post, h + 1)
    BY <1>1, <1>2, <2>2, OverrideGrows, OverrideType
  <2>4. Replays(b, h, CurrentDb) /\ b.post = Override(CurrentDb, b.batches[Len(b.txs) + 1])
    BY DEF PeerReplays, Replays
  <2> HIDE DEF b
  <2>5. /\ Len(chain') = h + 1 /\ chain'[h + 1] = b
        /\ \A n \in 1 .. h : chain'[n] = chain[n]
    BY <2>1 DEF PeerTypeOK
  <2>6. ASSUME NEW n \in 1 .. h + 1 PROVE Before(chain', n - 1) = Before(chain, n - 1)
    BY <1>1, <2>5 DEF Before
  <2>7. Before(chain, h) = CurrentDb
    BY <1>1 DEF Before, CurrentDb
  <2>8. ASSUME NEW n \in 1 .. h + 1
        PROVE  /\ Replays(chain'[n], n - 1, Before(chain', n - 1))
               /\ chain'[n].post = Override(Before(chain', n - 1), chain'[n].batches[Len(chain'[n].txs) + 1])
               /\ OlderThan(chain'[n].post, n)
               /\ Grows(chain'[n].post, b.post)
    <3>1. CASE n \in 1 .. h
      <4>1. chain[n].post \in KVS /\ Grows(chain[n].post, CurrentDb)
        BY <3>1, BlockFields DEF PeerTypeOK, PeerReplays, ReplayedChain, CurrentDb
      <4>2. Grows(chain[n].post, b.post)
        BY <1>1, <2>3, <4>1, GrowsTransitive
      <4> QED BY <2>5, <2>6, <3>1, <4>2 DEF PeerReplays, ReplayedChain
    <3>2. CASE n = h + 1
      <4>1. n - 1 = h /\ Before(chain', n - 1) = CurrentDb /\ chain'[n] = b
        BY <1>1, <2>5, <2>6, <2>7, <3>2
      <4>2. Grows(b.post, b.post)
        <5>1. \A k \in Keys : VersionOf(b.post, k) \in Version
          BY <2>3, VersionOfType
        <5> QED BY <5>1 DEF Grows, Leq, Version
      <4> QED BY <2>3, <2>4, <3>2, <4>1, <4>2
    <3> QED BY <1>1, <3>1, <3>2
  <2>9. ReplayedChain(chain')
    BY <1>1, <2>5, <2>8 DEF ReplayedChain, PeerReplays
  <2> QED BY <2>1, <2>9, NoPendingReplays DEF PeerReplays
<1> QED BY <1>3, <1>4, <1>5, <1>6, PeerFrame
-----------------------------------------------------------------------------
(***************************************************************************)
(* The enclave's side.                                                     *)
(***************************************************************************)

EnclaveMirrors(e) ==
  status[e] = "up" =>
    /\ seqno[e] < Len(chain)
    /\ state[e] = Track(Before(chain, seqno[e] + 1))

\* A caller that parses has not passed its enclave, and if its block is the
\* next one, its updates are the peer's batch so far.
CallerMirrors(c) ==
  pc[c] = "txs" /\ status[tgt[c]] = "up" =>
    /\ blk[c] <= seqno[tgt[c]] + 1
    /\ blk[c] = seqno[tgt[c]] + 1 => updates[c] = Track(chain[blk[c] + 1].batches[idx[c]])

ReadersMirror ==
  /\ \A e \in Callers : EnclaveMirrors(e)
  /\ \A c \in Callers : CallerMirrors(c)

\* Track of the empty map, and of a map with updates.
LEMMA TrackEmpty == Track(EmptyMap) = EmptyMap
  BY DEF Track, EmptyMap

\* Keeping the tracked keys and overriding commute.
LEMMA TrackOverride ==
  ASSUME NEW db \in KVS, NEW batch \in KVS
  PROVE  Override(Track(db), Track(batch)) = Track(Override(db, batch))
  BY DEF Override, Track

\* A return of parse_block without a commit: the enclaves that are up stay as
\* they are, and the caller parses no more.
LEMMA ReturnMirrors ==
  ASSUME ReaderTypeOK, ReaderShape, ReadersMirror, NEW c \in Callers, NEW success, Return(c, success),
         status' \in [Callers -> {"none", "up", "crashed"}],
         \A e \in Callers : status'[e] = "up" => status[e] = "up",
         UNCHANGED <<seqno, state>>
  PROVE  ReadersMirror'
<1>1. pc' = [pc EXCEPT ![c] = "read"] /\ updates' = [updates EXCEPT ![c] = EmptyMap]
      /\ idx' = [idx EXCEPT ![c] = 1] /\ UNCHANGED <<chain, tgt, blk>>
  BY DEF Return, Goto, ForgetParse, peerVars
<1>2. ASSUME NEW e \in Callers PROVE EnclaveMirrors(e)'
  BY <1>1 DEF ReadersMirror, EnclaveMirrors
<1>3. ASSUME NEW d \in Callers PROVE CallerMirrors(d)'
  <2>1. CASE d = c
    BY <1>1, <2>1 DEF CallerMirrors, ReaderTypeOK
  <2>2. CASE d # c
    <3>1. pc'[d] = pc[d] /\ updates'[d] = updates[d] /\ idx'[d] = idx[d]
      BY <1>1, <2>2 DEF ReaderTypeOK
    <3>2. pc[d] = "txs" => tgt[d] \in Callers
      BY DEF ReaderShape, CallerShape
    <3> QED BY <1>1, <3>1, <3>2 DEF CallerMirrors, ReadersMirror
  <2> QED BY <2>1, <2>2
<1> QED BY <1>2, <1>3 DEF ReadersMirror

\* A step of a caller that moves on to its next transaction.
LEMMA TxMirrors ==
  ASSUME PeerTypeOK, ReaderTypeOK, ChainShape, ReaderShape, PeerReplays, ReadersMirror,
         NEW c \in Callers, PassTx(c) \/ ApplyTx(c)
  PROVE  ReadersMirror'
<1> DEFINE n == blk[c]
           b == chain[n + 1]
           i == idx[c]
           version == [block_num |-> n, tx_num |-> i - 1]
           db == Before(chain, n)
<1>1. /\ pc[c] = "txs" /\ status[tgt[c]] = "up" /\ tgt[c] \in Callers
      /\ n \in Nat /\ n + 1 \in 1 .. Len(chain) /\ i \in 1 .. Len(b.txs)
  <2>1. pc[c] = "txs" /\ status[tgt[c]] = "up" /\ i <= Len(b.txs)
    BY DEF PassTx, ApplyTx, AtTx, BlockAt
  <2>2. tgt[c] \in Callers /\ n < Len(chain) /\ n \in Nat /\ i \in Nat \ {0}
    BY <2>1 DEF ReaderShape, CallerShape, InBlock, ReaderTypeOK
  <2>3. n + 1 \in 1 .. Len(chain)
    BY <2>2 DEF PeerTypeOK
  <2>4. Len(b.txs) \in Nat
    BY <2>3, BlockFields DEF PeerTypeOK
  <2> QED BY <2>1, <2>2, <2>3, <2>4
<1>2. /\ idx' = [idx EXCEPT ![c] = @ + 1]
      /\ UNCHANGED <<chain, status, seqno, state, pc, tgt, blk>>
  BY DEF PassTx, ApplyTx, peerVars, enclaveVars
<1>3. /\ b.txs[i] \in Tx /\ b.batches[i] \in KVS /\ db \in KVS /\ version \in Version
  <2>1. b.txs \in Seq(Tx) /\ b.batches \in Seq(KVS) /\ Len(b.batches) = Len(b.txs) + 1
    BY <1>1, BlockFields DEF PeerTypeOK, ChainShape, Filled
  <2>2. db \in KVS
    <3>1. CASE n = 0
      BY <3>1, EmptyMapType DEF Before, KVS
    <3>2. CASE n # 0
      <4>1. n \in 1 .. Len(chain)
        BY <1>1, <3>2 DEF PeerTypeOK
      <4> QED BY <3>2, <4>1, BlockFields DEF Before, PeerTypeOK
    <3> QED BY <3>1, <3>2
  <2>3. version \in Version
    BY <1>1 DEF Version
  <2>4. i \in 1 .. Len(b.batches)
    BY <1>1, <2>1
  <2>5. b.txs[i] \in Tx
    BY <1>1, <2>1
  <2>6. b.batches[i] \in KVS
    BY <2>1, <2>4
  <2> HIDE DEF b, i, db, version
  <2> QED BY <2>2, <2>3, <2>5, <2>6
<1>4. /\ b.codes[i] = PeerCode(b.txs[i], db, b.batches[i])
      /\ b.batches[i + 1] = PeerBatch(b.txs[i], db, b.batches[i], version)
      /\ Careful(b.txs[i], db) /\ WrittenIn(b.batches[i], n)
  <2>1. Replays(b, n, db)
    BY <1>1 DEF PeerReplays, ReplayedChain
  <2>2. i \in 1 .. Len(b.txs) + 1
    BY <1>1
  <2> QED BY <1>1, <2>1, <2>2 DEF Replays
<1>5. \A d \in Callers : d # c => updates'[d] = updates[d]
  <2>1. CASE PassTx(c)
    BY <2>1 DEF PassTx
  <2>2. CASE ApplyTx(c)
    <3>1. PICK upd : updates' = [updates EXCEPT ![c] = upd]
      BY <2>2 DEF ApplyTx
    <3> QED BY <3>1 DEF ReaderTypeOK
  <2> QED BY <2>1, <2>2
<1>6. CallerMirrors(c)'
  <2>1. SUFFICES ASSUME n = seqno[tgt[c]] + 1
                 PROVE  updates'[c] = Track(b.batches[i + 1])
    BY <1>1, <1>2 DEF CallerMirrors, ReadersMirror, ReaderTypeOK
  <2>2. updates[c] = Track(b.batches[i]) /\ state[tgt[c]] = Track(db)
    BY <1>1, <2>1 DEF ReadersMirror, CallerMirrors, EnclaveMirrors
  <2>3. CASE PassTx(c)
    <3>1. PeerBatch(b.txs[i], db, b.batches[i], version) = b.batches[i]
      <4>1. b.codes[i] = 1 \/ b.txs[i].form \in {"config", "badtx"}
        BY <2>3 DEF PassTx, Skipped, CurCode, CurTx, BlockAt, NIL_ENVELOPE
      <4> HIDE DEF b, i, db, version
      <4> QED BY <1>4, <4>1 DEF PeerBatch, VALID
    <3>2. updates'[c] = updates[c]
      BY <2>3 DEF PassTx
    <3> QED BY <1>4, <2>2, <3>1, <3>2
  <2>4. CASE ApplyTx(c)
    <3>1. b.txs[i].form = "endorser"
      BY <2>4 DEF ApplyTx, CurTx, BlockAt
    <3>2. n > 0
      <4>1. chain[1] = Genesis
        BY DEF PeerReplays, ReplayedChain
      <4>2. CASE n = 0
        <5>1. b.txs = <<ConfigTx>>
          BY <4>1, <4>2 DEF Genesis
        <5>2. i = 1
          BY <1>1, <5>1
        <5> QED BY <3>1, <5>1, <5>2 DEF ConfigTx
      <4> QED BY <1>1, <4>2
    <3>3. OlderThan(db, n)
      BY <1>1, <3>2 DEF PeerReplays, ReplayedChain, Before
    <3>4. parse_endorser_transaction(b.txs[i], Track(db), Track(b.batches[i]), version)
            = Track(PeerBatch(b.txs[i], db, b.batches[i], version))
      BY <1>1, <1>3, <1>4, <3>1, <3>2, <3>3, SameUpdates
    <3>5. updates'[c] = parse_endorser_transaction(b.txs[i], state[tgt[c]], updates[c], version)
      BY <2>4 DEF ApplyTx, CurTx, BlockAt, ReaderTypeOK
    <3> QED BY <1>4, <2>2, <3>4, <3>5
  <2> QED BY <2>3, <2>4
<1>7. ASSUME NEW d \in Callers, d # c PROVE CallerMirrors(d)'
  BY <1>2, <1>5, <1>7 DEF CallerMirrors, ReadersMirror, ReaderTypeOK
<1>8. ASSUME NEW e \in Callers PROVE EnclaveMirrors(e)'
  BY <1>2 DEF EnclaveMirrors, ReadersMirror
<1> QED BY <1>6, <1>7, <1>8 DEF ReadersMirror

\* The commit of the next block: the other callers of the enclave are behind it now.
LEMMA CommitMirrors ==
  ASSUME PeerTypeOK, ReaderTypeOK, ChainShape, ReaderShape, PeerReplays, ReadersMirror,
         NEW c \in Callers, CommitStateUpdates(c)
  PROVE  ReadersMirror'
<1> DEFINE n == blk[c]
           b == chain[n + 1]
           t == tgt[c]
           db == Before(chain, n)
           last == b.batches[Len(b.txs) + 1]
<1>1. /\ pc[c] = "txs" /\ status[t] = "up" /\ idx[c] > Len(b.txs) /\ n = seqno[t] + 1
      /\ seqno' = [seqno EXCEPT ![t] = n]
      /\ state' = [state EXCEPT ![t] = Override(@, updates[c])]
      /\ pc' = [pc EXCEPT ![c] = "read"] /\ updates' = [updates EXCEPT ![c] = EmptyMap]
      /\ idx' = [idx EXCEPT ![c] = 1] /\ UNCHANGED <<chain, tgt, blk, status>>
  BY DEF CommitStateUpdates, AtCommit, BlockAt, Return, Goto, ForgetParse, peerVars
<1>2. /\ t \in Callers /\ n \in Nat /\ n < Len(chain) /\ n + 1 \in 1 .. Len(chain)
      /\ idx[c] = Len(b.txs) + 1
  <2>1. /\ t \in Callers /\ n < Len(chain) /\ n \in Nat /\ idx[c] \in Nat
        /\ idx[c] <= Len(b.txs) + 1
    BY <1>1 DEF ReaderShape, CallerShape, InBlock, ReaderTypeOK
  <2>2. n + 1 \in 1 .. Len(chain)
    BY <2>1 DEF PeerTypeOK
  <2>3. Len(b.txs) \in Nat
    BY <2>2, BlockFields DEF PeerTypeOK
  <2> QED BY <1>1, <2>1, <2>2, <2>3
<1>3. db \in KVS /\ last \in KVS
  <2>1. db \in KVS
    <3>1. CASE n = 0
      BY <3>1, EmptyMapType DEF Before, KVS
    <3>2. CASE n # 0
      <4>1. n \in 1 .. Len(chain)
        BY <1>2, <3>2 DEF PeerTypeOK
      <4> QED BY <3>2, <4>1, BlockFields DEF Before, PeerTypeOK
    <3> QED BY <3>1, <3>2
  <2>3. b.txs \in Seq(Tx) /\ b.batches \in Seq(KVS) /\ Len(b.batches) = Len(b.txs) + 1
    BY <1>2, BlockFields DEF PeerTypeOK, ChainShape, Filled
  <2>4. last \in KVS
    BY <2>3
  <2> QED BY <2>1, <2>4
<1>4. state[t] = Track(db) /\ updates[c] = Track(last)
  BY <1>1, <1>2 DEF ReadersMirror, EnclaveMirrors, CallerMirrors
<1>5. Override(state[t], updates[c]) = Track(Before(chain, n + 1))
  <2>1. b.post = Override(db, last)
    <3>1. n + 1 - 1 = n
      BY <1>2
    <3> QED BY <1>2, <3>1 DEF PeerReplays, ReplayedChain
  <2>2. Before(chain, n + 1) = b.post
    BY <1>2 DEF Before
  <2> QED BY <1>3, <1>4, <2>1, <2>2, TrackOverride
<1>6. ASSUME NEW e \in Callers PROVE EnclaveMirrors(e)'
  <2>1. CASE e = t
    BY <1>1, <1>2, <1>5, <2>1 DEF EnclaveMirrors, ReaderTypeOK
  <2>2. CASE e # t
    <3>1. seqno'[e] = seqno[e] /\ state'[e] = state[e]
      BY <1>1, <2>2 DEF ReaderTypeOK
    <3> QED BY <1>1, <3>1 DEF EnclaveMirrors, ReadersMirror
  <2> QED BY <2>1, <2>2
<1>7. ASSUME NEW d \in Callers PROVE CallerMirrors(d)'
  <2>1. CASE d = c
    BY <1>1, <2>1 DEF CallerMirrors, ReaderTypeOK
  <2>2. CASE d # c
    <3>1. /\ pc'[d] = pc[d] /\ updates'[d] = updates[d] /\ idx'[d] = idx[d]
          /\ tgt'[d] = tgt[d] /\ blk'[d] = blk[d] /\ blk[d] \in Nat
      BY <1>1, <2>2 DEF ReaderTypeOK
    <3>2. SUFFICES ASSUME pc[d] = "txs", status[tgt[d]] = "up" PROVE CallerMirrors(d)'
      BY <1>1, <3>1 DEF CallerMirrors
    <3>3. tgt[d] \in Callers /\ blk[d] <= seqno[tgt[d]] + 1
      BY <3>2 DEF ReaderShape, CallerShape, CallerMirrors, ReadersMirror
    <3>4. CASE tgt[d] = t
      <4>1. seqno'[tgt[d]] = n /\ blk[d] <= n
        BY <1>1, <1>2, <3>3, <3>4 DEF ReaderTypeOK
      <4>2. blk[d] <= n + 1 /\ blk[d] # n + 1
        BY <1>2, <3>1, <4>1
      <4> QED BY <3>1, <4>1, <4>2 DEF CallerMirrors
    <3>5. CASE tgt[d] # t
      <4>1. seqno'[tgt[d]] = seqno[tgt[d]]
        BY <1>1, <3>3, <3>5 DEF ReaderTypeOK
      <4> QED BY <1>1, <3>1, <4>1 DEF CallerMirrors, ReadersMirror
    <3> QED BY <3>4, <3>5
  <2> QED BY <2>1, <2>2
<1> QED BY <1>6, <1>7 DEF ReadersMirror

\* Every step keeps the enclaves mirrors of the peer.
LEMMA ReadersMirrorStep ==
  ASSUME PeerTypeOK, ReaderTypeOK, ChainShape, ReaderShape, PeerReplays, ReadersMirror, [Next]_vars
  PROVE  ReadersMirror'
<1> USE DEF ReaderTypeOK, ReaderShape, CallerShape, InBlock
<1>1. ASSUME UNCHANGED <<enclaveVars, pc, parseVars>>
      PROVE  ReadersMirror'
  <2>1. Len(chain') >= Len(chain) /\ \A n \in 1 .. Len(chain) : chain'[n] = chain[n]
    BY PeerStep
  <2>2. Len(chain) \in Nat /\ Len(chain') \in Nat
    BY PeerStep DEF PeerTypeOK
  <2>3. UNCHANGED <<status, seqno, state, pc, tgt, blk, idx, updates>>
    BY <1>1 DEF enclaveVars, parseVars
  <2>4. ASSUME NEW e \in Callers PROVE EnclaveMirrors(e)'
    <3>1. SUFFICES ASSUME status[e] = "up" PROVE EnclaveMirrors(e)'
      BY <2>3 DEF EnclaveMirrors
    <3>2. seqno[e] < Len(chain) /\ seqno[e] \in Nat \cup {-1}
      BY <3>1 DEF ReadersMirror, EnclaveMirrors
    <3>3. Before(chain', seqno[e] + 1) = Before(chain, seqno[e] + 1)
      <4>1. seqno[e] + 1 = 0 \/ seqno[e] + 1 \in 1 .. Len(chain)
        BY <2>2, <3>2
      <4> QED BY <2>1, <4>1 DEF Before
    <3>4. seqno[e] < Len(chain')
      BY <2>1, <2>2, <3>2
    <3> QED BY <2>3, <3>3, <3>4 DEF EnclaveMirrors, ReadersMirror
  <2>5. ASSUME NEW c \in Callers PROVE CallerMirrors(c)'
    <3>1. SUFFICES ASSUME pc[c] = "txs" PROVE CallerMirrors(c)'
      BY <2>3 DEF CallerMirrors
    <3>2. blk[c] + 1 \in 1 .. Len(chain)
      BY <2>2, <3>1
    <3>3. chain'[blk[c] + 1] = chain[blk[c] + 1]
      BY <2>1, <3>2
    <3> QED BY <2>3, <3>3 DEF CallerMirrors, ReadersMirror
  <2> QED BY <2>4, <2>5 DEF ReadersMirror
<1>2. CASE UNCHANGED vars
  BY <1>1, <1>2 DEF vars, enclaveVars, parseVars
<1>3. CASE \/ \E shape \in Shapes, h \in 1 .. Height : ValidateTx(shape, h)
           \/ AppendBlock \/ PeerCrash
  BY <1>1, <1>3 DEF ValidateTx, AppendBlock, PeerCrash
<1>4. CASE PeerRestart
  BY <1>4 DEF PeerRestart, ReadersMirror, EnclaveMirrors, CallerMirrors
<1>5. ASSUME NEW c \in Callers, CreateFails(c)
      PROVE  ReadersMirror'
  BY <1>1, <1>5 DEF CreateFails
<1>6. ASSUME NEW c \in Callers, NEW to \in PC \ {"txs"}, Goto(c, to),
             UNCHANGED <<chain, enclaveVars, idx, updates>>,
             tgt' \in [Callers -> Callers \cup {NoEnclave}], blk' \in [Callers -> Nat],
             \A d \in Callers : d # c => tgt'[d] = tgt[d] /\ blk'[d] = blk[d]
      PROVE  ReadersMirror'
  <2>1. /\ UNCHANGED <<chain, status, seqno, state, idx, updates>>
        /\ pc' = [pc EXCEPT ![c] = to]
    BY <1>6 DEF Goto, enclaveVars
  <2>2. ASSUME NEW d \in Callers PROVE CallerMirrors(d)'
    <3>1. CASE d = c
      BY <1>6, <2>1, <3>1 DEF CallerMirrors
    <3>2. CASE d # c
      BY <1>6, <2>1, <3>2 DEF CallerMirrors, ReadersMirror
    <3> QED BY <3>1, <3>2
  <2>3. ASSUME NEW e \in Callers PROVE EnclaveMirrors(e)'
    BY <2>1 DEF EnclaveMirrors, ReadersMirror
  <2> QED BY <2>2, <2>3 DEF ReadersMirror
<1>7. ASSUME NEW c \in Callers, JoinChannel(c)
      PROVE  ReadersMirror'
  <2>1. Goto(c, "create") /\ "create" \in PC \ {"txs"}
    BY <1>7 DEF JoinChannel, PC
  <2>2. UNCHANGED <<chain, enclaveVars, tgt, blk, idx, updates>>
    BY <1>7 DEF JoinChannel, peerVars, parseVars
  <2> QED BY <1>6, <2>1, <2>2
<1>8. ASSUME NEW c \in Callers, InitWithGenesis(c)
      PROVE  ReadersMirror'
  <2>1. Goto(c, "check") /\ "check" \in PC \ {"txs"}
    BY <1>8 DEF InitWithGenesis, PC
  <2>2. /\ UNCHANGED <<chain, enclaveVars, idx, updates>>
        /\ tgt' = [tgt EXCEPT ![c] = eid]
        /\ blk' = [blk EXCEPT ![c] = 0]
    BY <1>8 DEF InitWithGenesis, peerVars
  <2>3. /\ tgt' \in [Callers -> Callers \cup {NoEnclave}] /\ blk' \in [Callers -> Nat]
        /\ \A d \in Callers : d # c => tgt'[d] = tgt[d] /\ blk'[d] = blk[d]
    BY <2>2
  <2> QED BY <1>6, <2>1, <2>2, <2>3
<1>9. ASSUME NEW c \in Callers, NextBlock(c)
      PROVE  ReadersMirror'
  <2>1. Goto(c, "check") /\ "check" \in PC \ {"txs"}
    BY <1>9 DEF NextBlock, PC
  <2>2. /\ UNCHANGED <<chain, enclaveVars, idx, updates>>
        /\ tgt' = [tgt EXCEPT ![c] = eid]
        /\ blk' = [blk EXCEPT ![c] = @ + 1]
    BY <1>9 DEF NextBlock, peerVars
  <2>3. /\ tgt' \in [Callers -> Callers \cup {NoEnclave}] /\ blk' \in [Callers -> Nat]
        /\ \A d \in Callers : d # c => tgt'[d] = tgt[d] /\ blk'[d] = blk[d]
    BY <2>2
  <2> QED BY <1>6, <2>1, <2>2, <2>3
<1>10. ASSUME NEW c \in Callers, Create(c)
       PROVE  ReadersMirror'
  <2>1. /\ pc[c] = "create" /\ status[c] = "none"
        /\ status' = [status EXCEPT ![c] = "up"] /\ seqno' = [seqno EXCEPT ![c] = -1]
        /\ state' = [state EXCEPT ![c] = EmptyMap] /\ pc' = [pc EXCEPT ![c] = "init"]
        /\ UNCHANGED <<chain, tgt, blk, idx, updates>>
    BY <1>10 DEF Create, Goto, peerVars, parseVars
  <2>2. ASSUME NEW e \in Callers PROVE EnclaveMirrors(e)'
    <3>1. CASE e = c
      <4>1. Len(chain) \in Nat /\ Before(chain, -1 + 1) = EmptyMap
        BY DEF PeerTypeOK, Before
      <4> QED BY <2>1, <3>1, <4>1, TrackEmpty DEF EnclaveMirrors
    <3>2. CASE e # c
      BY <2>1, <3>2 DEF EnclaveMirrors, ReadersMirror
    <3> QED BY <3>1, <3>2
  <2>3. ASSUME NEW d \in Callers PROVE CallerMirrors(d)'
    <3>1. CASE pc[d] = "txs"
      <4>1. tgt[d] # c /\ tgt[d] \in Callers /\ d # c
        BY <2>1, <3>1
      <4> QED BY <2>1, <4>1 DEF CallerMirrors, ReadersMirror
    <3>2. CASE pc[d] # "txs"
      BY <2>1, <3>2 DEF CallerMirrors
    <3> QED BY <3>1, <3>2
  <2> QED BY <2>2, <2>3 DEF ReadersMirror
<1>11. ASSUME NEW c \in Callers, CheckNumber(c)
       PROVE  ReadersMirror'
  <2>1. /\ pc[c] = "check" /\ blk[c] = seqno[tgt[c]] + 1
        /\ pc' = [pc EXCEPT ![c] = "txs"]
        /\ UNCHANGED <<chain, status, seqno, state, tgt, blk, idx, updates>>
    BY <1>11 DEF CheckNumber, Goto, peerVars, enclaveVars, parseVars
  <2>2. ASSUME NEW e \in Callers PROVE EnclaveMirrors(e)'
    BY <2>1 DEF EnclaveMirrors, ReadersMirror
  <2>3. updates[c] = Track(chain[blk[c] + 1].batches[idx[c]])
    <3>1. blk[c] + 1 \in 1 .. Len(chain) /\ idx[c] = 1 /\ updates[c] = EmptyMap
      BY <2>1 DEF PeerTypeOK
    <3>2. chain[blk[c] + 1].batches[1] = EmptyMap
      BY <3>1 DEF PeerReplays, ReplayedChain, Replays
    <3> QED BY <3>1, <3>2, TrackEmpty
  <2>4. ASSUME NEW d \in Callers PROVE CallerMirrors(d)'
    <3>1. CASE d = c
      BY <2>1, <2>3, <3>1 DEF CallerMirrors
    <3>2. CASE d # c
      BY <2>1, <3>2 DEF CallerMirrors, ReadersMirror
    <3> QED BY <3>1, <3>2
  <2> QED BY <2>2, <2>4 DEF ReadersMirror
<1>12. ASSUME NEW c \in Callers, RejectNumber(c) \/ EcallFails(c) \/ FailDecode(c)
       PROVE  ReadersMirror'
  BY <1>12, ReturnMirrors DEF RejectNumber, EcallFails, FailDecode, enclaveVars
<1>13. ASSUME NEW c \in Callers, ApplyTxFaults(c) \/ AssertFails(c)
       PROVE  ReadersMirror'
  <2>1. /\ pc[c] = "txs" /\ status' = [status EXCEPT ![tgt[c]] = "crashed"]
        /\ Return(c, FALSE) /\ UNCHANGED <<seqno, state>>
    BY <1>13 DEF ApplyTxFaults, AssertFails, AtTx, AtCommit
  <2>2. /\ status' \in [Callers -> {"none", "up", "crashed"}]
        /\ \A e \in Callers : status'[e] = "up" => status[e] = "up"
    BY <2>1
  <2> QED BY <2>1, <2>2, ReturnMirrors
<1> QED BY <1>2, <1>3, <1>4, <1>5, <1>7, <1>8, <1>9, <1>10, <1>11, <1>12, <1>13,
           TxMirrors, CommitMirrors DEF Next, Peer, Reader, Parse

\* Initially there is no enclave, and the chain is the genesis block.
LEMMA InitMirrors == Init => PeerReplays /\ ReadersMirror
<1> SUFFICES ASSUME Init PROVE PeerReplays /\ ReadersMirror
  OBVIOUS
<1>1. chain = <<Genesis>> /\ pend = NoPending
  BY DEF Init
<1>2. Genesis.txs = <<ConfigTx>> /\ Genesis.codes = <<0>> /\ Genesis.batches = <<EmptyMap, EmptyMap>>
      /\ Genesis.post = EmptyMap /\ ConfigTx.form = "config"
  BY DEF Genesis, ConfigTx, VALID
<1>3. PeerCode(ConfigTx, EmptyMap, EmptyMap) = 0
  BY <1>2 DEF PeerCode, VALID
<1>4. \A v : PeerBatch(ConfigTx, EmptyMap, EmptyMap, v) = EmptyMap
  BY <1>2 DEF PeerBatch
<1>5. Careful(ConfigTx, EmptyMap) /\ \A n : WrittenIn(EmptyMap, n) /\ OlderThan(EmptyMap, n)
  BY <1>2 DEF Careful, WrittenIn, OlderThan, EmptyMap
<1>6. Override(EmptyMap, EmptyMap) = EmptyMap
  BY DEF Override, EmptyMap
<1>7. Grows(EmptyMap, EmptyMap)
  BY DEF Grows, Leq, VersionOf, ZeroVersion, EmptyMap
<1>8. Replays(Genesis, 0, EmptyMap)
  BY <1>2, <1>3, <1>4, <1>5 DEF Replays
<1>9. PeerReplays
  <2>1. Before(chain, 0) = EmptyMap /\ Len(chain) = 1 /\ chain[1] = Genesis
    BY <1>1 DEF Before
  <2>2. ReplayedChain(chain)
    <3>1. Genesis.batches[Len(Genesis.txs) + 1] = EmptyMap
      BY <1>2
    <3>2. Genesis.post = Override(EmptyMap, Genesis.batches[Len(Genesis.txs) + 1])
      BY <1>2, <1>6, <3>1
    <3>3. \A n \in 1 .. Len(chain) : n = 1 /\ n - 1 = 0 /\ chain[n] = Genesis
      BY <2>1
    <3>4. OlderThan(Genesis.post, 1) /\ Grows(Genesis.post, chain[Len(chain)].post)
      BY <1>2, <1>5, <1>7, <2>1
    <3> QED BY <1>8, <2>1, <3>2, <3>3, <3>4 DEF ReplayedChain
  <2> QED BY <1>1, <2>2, NoPendingReplays DEF PeerReplays
<1>10. ReadersMirror
  BY DEF Init, ReadersMirror, EnclaveMirrors, CallerMirrors
<1> QED BY <1>9, <1>10

\* The inductive invariant of this module.
MirrorInv == WellFormed /\ PeerReplays /\ ReadersMirror

\* It holds at first,
LEMMA InitMirrorInv == Init => MirrorInv
  BY InitShape, InitMirrors DEF MirrorInv

\* is kept by every step,
LEMMA NextMirrorInv ==
  ASSUME ReadModifyWrite
  PROVE  MirrorInv /\ [Next]_vars => MirrorInv'
<1> SUFFICES ASSUME MirrorInv, [Next]_vars PROVE MirrorInv'
  OBVIOUS
<1>1. PeerTypeOK /\ ReaderTypeOK /\ ChainShape /\ ReaderShape /\ PeerReplays /\ ReadersMirror
  BY SplitTypeOK DEF MirrorInv, WellFormed
<1>2. WellFormed'
  BY NextShape DEF MirrorInv
<1>3. PeerReplays'
  BY <1>1, PeerReplaysStep
<1>4. ReadersMirror'
  BY <1>1, ReadersMirrorStep
<1> QED BY <1>2, <1>3, <1>4 DEF MirrorInv

\* and says that a working enclave shows the state after its last block.
LEMMA MirrorInvMirrors == MirrorInv => MirrorsPeer
<1> SUFFICES ASSUME MirrorInv, NEW e \in Callers, Working(e)
             PROVE  seqno[e] < Height /\ state[e] = Track(BlockAt(seqno[e]).post)
  BY DEF MirrorsPeer
<1>1. status[e] = "up" /\ seqno[e] \in Nat
  BY DEF Working, MirrorInv, WellFormed, TypeOK
<1>2. seqno[e] < Len(chain) /\ state[e] = Track(Before(chain, seqno[e] + 1))
  BY <1>1 DEF MirrorInv, ReadersMirror, EnclaveMirrors
<1>3. Before(chain, seqno[e] + 1) = chain[seqno[e] + 1].post
  BY <1>1 DEF Before
<1> QED BY <1>2, <1>3 DEF Height, BlockAt

\* Where every transaction reads what it writes, the enclave's map is the
\* peer's state database after the block the enclave committed last, for every
\* number of JOIN_CHANNEL calls, readers, blocks and crashes.
THEOREM MirrorCorrect ==
  ASSUME ReadModifyWrite
  PROVE  Spec => []MirrorsPeer
  BY InitMirrorInv, NextMirrorInv, MirrorInvMirrors, PTL DEF Spec
-----------------------------------------------------------------------------
(***************************************************************************)
(* The refinement: AppendBlock publishes, commit_state_updates advances,   *)
(* and what any other step does to an enclave is to lose it or nothing.    *)
(***************************************************************************)

\* Steps other than these two change no block, and no map of an enclave that works
\* after them.
LEMMA QuietSteps ==
  ASSUME MirrorInv, [Next]_vars, ~ AppendBlock, \A c \in Callers : ~ CommitStateUpdates(c)
  PROVE  /\ UNCHANGED chain
         /\ \A e \in Callers :
              Working(e)' => Working(e) /\ seqno'[e] = seqno[e] /\ state'[e] = state[e]
<1>0. PeerTypeOK /\ ReaderTypeOK /\ ChainShape /\ ReaderShape
  BY SplitTypeOK DEF MirrorInv, WellFormed
<1>1. UNCHANGED chain
  <2>1. ASSUME NEW shape \in Shapes, NEW h \in 1 .. Height, ValidateTx(shape, h)
        PROVE  UNCHANGED chain
    BY <2>1 DEF ValidateTx
  <2> QED BY <2>1, PeerFrame
<1>2. ASSUME NEW e \in Callers, Working(e)', status[e] # "up"
      PROVE  FALSE
  <2>0. status'[e] = "up" /\ seqno'[e] >= 0
    BY <1>2 DEF Working
  <2> USE DEF ReaderTypeOK
  <2>1. CASE UNCHANGED vars
    BY <1>0, <1>2, <2>0, <2>1 DEF vars
  <2>2. CASE Peer
    BY <1>0, <1>2, <2>0, <2>2 DEF Peer, ValidateTx, AppendBlock, PeerCrash, PeerRestart, enclaveVars
  <2>3. ASSUME NEW c \in Callers, Create(c)
        PROVE  FALSE
    BY <1>0, <1>2, <2>0, <2>3 DEF Create
  <2>4. ASSUME NEW c \in Callers, JoinChannel(c) \/ CreateFails(c) \/ Reader(c)
        PROVE  FALSE
    BY <1>0, <1>2, <2>0, <2>3, <2>4 DEF JoinChannel, CreateFails, Reader, InitWithGenesis, NextBlock,
      Parse, CheckNumber, RejectNumber, EcallFails, PassTx, FailDecode, ApplyTx, ApplyTxFaults,
      AssertFails, enclaveVars
  <2> QED BY <2>1, <2>2, <2>4 DEF Next
<1>3. ASSUME NEW e \in Callers, Working(e)'
      PROVE  Working(e) /\ seqno'[e] = seqno[e] /\ state'[e] = state[e]
  <2>1. status[e] = "up" /\ status'[e] = "up" /\ seqno'[e] >= 0
    BY <1>2, <1>3 DEF Working
  <2>2. seqno'[e] = seqno[e] /\ state'[e] = state[e]
    BY <1>0, <2>1, OnlyCommitChanges
  <2> QED BY <2>1, <2>2 DEF Working
<1> QED BY <1>1, <1>3

\* Where every transaction reads what it writes, the readers and the enclave
\* implement the abstract ledger: for every interleaving of JOIN_CHANNEL calls,
\* blocks and crashes an enclave shows the channel's state after block 0, 1, 2, ...
\* until it is lost.
THEOREM ViewImplemented ==
  ASSUME ReadModifyWrite
  PROVE  Spec => ImplementsView
<1> DEFINE H == Height
           C == [n \in 0 .. Height - 1 |-> Track(BlockAt(n).post)]
           A == [e \in Callers |-> IF Working(e) THEN seqno[e] ELSE -1]
           S == [e \in Callers |-> IF Working(e) THEN state[e] ELSE EmptyMap]
<1>1. Init => View!Init
  <2> SUFFICES ASSUME Init PROVE View!Init
    OBVIOUS
  <2>1. chain = <<Genesis>> /\ Height = 1 /\ Genesis.post = EmptyMap
    BY DEF Init, Height, Genesis
  <2>2. \A e \in Callers : ~ Working(e)
    BY DEF Init, Working
  <2>3. C = [n \in {0} |-> EmptyMap]
    BY <2>1, TrackEmpty DEF BlockAt
  <2> QED BY <2>1, <2>2, <2>3 DEF View!Init
<1>2. ASSUME MirrorInv, MirrorsPeer', [Next]_vars
      PROVE  [View!Next]_View!vars
  <2>0. PeerTypeOK /\ ReaderTypeOK /\ ChainShape /\ ReaderShape
    BY <1>2, SplitTypeOK DEF MirrorInv, WellFormed
  <2>1. CASE AppendBlock
    <3>1. UNCHANGED <<status, seqno, state>>
      BY <2>1 DEF AppendBlock, enclaveVars
    <3>2. Height' = Height + 1 /\ Height \in Nat
      BY <2>0, <2>1 DEF AppendBlock, Height, PeerTypeOK
    <3>3. \A n \in 0 .. Height - 1 : BlockAt(n)' = BlockAt(n)
      BY <2>0, <1>2, <3>2, PeerStep DEF BlockAt, Height, PeerTypeOK
    <3>4. A' = A /\ S' = S
      BY <3>1 DEF Working
    <3>5. DOMAIN C' = 0 .. Height /\ \A n \in 0 .. Height - 1 : C'[n] = C[n]
      BY <3>2, <3>3
    <3>6. View!Publish
      BY <3>2, <3>4, <3>5 DEF View!Publish
    <3> QED BY <3>6 DEF View!Next
  <2>2. CASE \E c \in Callers : CommitStateUpdates(c)
    <3>1. PICK c \in Callers : CommitStateUpdates(c)
      BY <2>2
    <3>t. PICK t \in Callers : t = tgt[c]
      BY <2>0, <3>1 DEF CommitStateUpdates, AtCommit, ReaderShape, CallerShape
    <3>2. /\ status[t] = "up" /\ seqno[t] + 1 = blk[c]
          /\ seqno' = [seqno EXCEPT ![t] = blk[c]] /\ UNCHANGED <<chain, status>>
          /\ state' = [state EXCEPT ![t] = Override(@, updates[c])]
      BY <3>1, <3>t DEF CommitStateUpdates, AtCommit, Return, peerVars
    <3>3. seqno'[t] = seqno[t] + 1 /\ seqno[t] \in Nat \cup {-1} /\ Working(t)'
      BY <2>0, <3>2 DEF ReaderTypeOK, Working
    <3>4. seqno'[t] < Height /\ state'[t] = Track(BlockAt(seqno'[t]).post)
      <4>1. (seqno[t] < Height /\ state[t] = Track(BlockAt(seqno[t]).post))'
        BY <1>2, <3>3 DEF MirrorsPeer
      <4> QED BY <4>1, <3>2 DEF Height, BlockAt
    <3>5. UNCHANGED <<H, C>>
      BY <3>2 DEF Height, BlockAt
    <3>6. A[t] = seqno[t]
      BY <3>2, <3>3 DEF Working
    <3>7. A' = [A EXCEPT ![t] = seqno[t] + 1]
      BY <2>0, <3>2, <3>3 DEF Working, ReaderTypeOK
    <3>8. S' = [S EXCEPT ![t] = C[seqno[t] + 1]]
      <4>1. seqno[t] + 1 \in 0 .. Height - 1
        BY <3>3, <3>4, <2>0 DEF Height, PeerTypeOK
      <4>2. C[seqno[t] + 1] = state'[t]
        BY <3>3, <3>4, <4>1
      <4> QED BY <2>0, <3>2, <3>3, <4>2 DEF Working, ReaderTypeOK
    <3>9. View!Advance(t)
      BY <3>3, <3>4, <3>5, <3>6, <3>7, <3>8 DEF View!Advance
    <3> QED BY <3>2, <3>9 DEF View!Next
  <2>3. CASE ~ AppendBlock /\ \A c \in Callers : ~ CommitStateUpdates(c)
    <3>0. PICK lost \in SUBSET Callers :
            lost = {e \in Callers : ~ (status'[e] = "up" /\ seqno'[e] >= 0)}
      OBVIOUS
    <3>1. /\ UNCHANGED chain
          /\ \A e \in Callers :
               Working(e)' => Working(e) /\ seqno'[e] = seqno[e] /\ state'[e] = state[e]
      BY <1>2, <2>3, QuietSteps
    <3>2. UNCHANGED <<H, C>>
      BY <3>1 DEF Height, BlockAt
    <3>3. A' = [e \in Callers |-> IF e \in lost THEN -1 ELSE A[e]]
      BY <3>0, <3>1 DEF Working
    <3>4. S' = [e \in Callers |-> IF e \in lost THEN EmptyMap ELSE S[e]]
      BY <3>0, <3>1 DEF Working, EmptyMap
    <3>5. View!Lose(lost)
      BY <3>2, <3>3, <3>4 DEF View!Lose
    <3> QED BY <3>5 DEF View!Next
  <2> QED BY <2>1, <2>2, <2>3
<1> QED BY <1>1, <1>2, InitMirrorInv, NextMirrorInv, MirrorInvMirrors, PTL DEF Spec, ImplementsView, View!Spec
=============================================================================
