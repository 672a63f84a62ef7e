------------------------ MODULE TrustedLedgerProofs ------------------------
(***************************************************************************)
(* Theorems about TrustedLedger for every set of keys, callers and         *)
(* transactions and for every value of the bounds.                         *)
(***************************************************************************)
EXTENDS TrustedLedger, SequenceTheorems, TLAPS

\* An empty map is a map.
LEMMA EmptyMapType == \A S : EmptyMap \in Map(S)
  BY DEF EmptyMap, Map

\* Applying updates to a map gives a map (commit_state_updates).
LEMMA OverrideType ==
  ASSUME NEW kvs \in KVS, NEW upd \in KVS
  PROVE  Override(kvs, upd) \in KVS
  BY DEF Override, KVS, Map

\* parse_endorser_transaction extends updates to a map again.
LEMMA ParseType ==
  ASSUME NEW tx \in Tx, NEW st \in KVS, NEW upd \in KVS, NEW version \in Version
  PROVE  parse_endorser_transaction(tx, st, upd, version) \in KVS
<1>1. ASSUME NEW k \in RecordedWrites(tx)
      PROVE  [val |-> tx.writes[k], ver |-> version] \in Entry
  BY <1>1 DEF RecordedWrites, InNs, FirstErccWrite, KeysOf, Tx, Map, Entry
<1>2. InsertWrites(tx, upd, version) \in KVS
  BY <1>1 DEF InsertWrites, KVS, Map
<1> QED BY <1>2 DEF parse_endorser_transaction

\* The peer's update batch is a map.
LEMMA PeerBatchType ==
  ASSUME NEW tx \in Tx, NEW db \in KVS, NEW batch \in KVS, NEW version \in Version
  PROVE  PeerBatch(tx, db, batch, version) \in KVS
<1>1. ASSUME NEW k \in KeysOf(tx.writes)
      PROVE  [val |-> tx.writes[k], ver |-> version] \in Entry
  BY <1>1 DEF KeysOf, Tx, Map, Entry
<1> QED BY <1>1 DEF PeerBatch, KVS, Map

\* The peer's validation code is one of the codes.
LEMMA PeerCodeType ==
  ASSUME NEW tx, NEW db, NEW batch
  PROVE  PeerCode(tx, db, batch) \in Codes
  BY DEF PeerCode, Codes

\* The version of a key of a map, ZeroVersion if there is none.
LEMMA VersionOfType ==
  ASSUME NEW db \in KVS, NEW k \in Keys
  PROVE  VersionOf(db, k) \in Version
  BY DEF VersionOf, KVS, Map, Entry, Version, ZeroVersion

\* Endorsing a shape gives a transaction.
LEMMA EndorseType ==
  ASSUME NEW shape \in Shapes, NEW db \in KVS
  PROVE  Endorse(shape, db) \in Tx
<1>1. shape \in Shape
  BY ShapesAssumption
<1>2. \A k \in Keys : VersionOf(db, k) \in Version
  BY VersionOfType
<1> QED BY <1>1, <1>2 DEF Endorse, Tx, Shape, Map
-----------------------------------------------------------------------------
(***************************************************************************)
(* The type invariant.  It is inductive together with two facts: a block   *)
(* has a code per transaction and a batch before and after each, and a     *)
(* caller works on a block the peer has, in an enclave that was created.   *)
(***************************************************************************)

PeerTypeOK ==
  /\ chain \in Seq(Block)
  /\ pend \in [txs : Seq(Tx), codes : Seq(Codes), batches : Seq(KVS)]

Filled(b) == Len(b.codes) = Len(b.txs) /\ Len(b.batches) = Len(b.txs) + 1

ChainShape ==
  /\ Len(chain) >= 1
  /\ Filled(pend)
  /\ \A n \in 1 .. Len(chain) : Filled(chain[n])

InBlock == {"check", "txs", "read"}

CallerShape(c) ==
  /\ pc[c] \in {"idle", "create"} => status[c] = "none"
  /\ pc[c] \notin {"idle", "create"} => eid \in Callers
  /\ pc[c] \in InBlock => blk[c] < Len(chain)
  /\ pc[c] \in {"check", "txs"} => tgt[c] \in Callers /\ status[tgt[c]] # "none"
  /\ pc[c] = "txs" => idx[c] <= Len(chain[blk[c] + 1].txs) + 1
  /\ pc[c] # "txs" => idx[c] = 1 /\ updates[c] = EmptyMap

ReaderShape ==
  /\ eid \in Callers => status[eid] # "none"
  /\ \A c \in Callers : CallerShape(c)

\* What a block of the chain is made of.
LEMMA BlockFields ==
  ASSUME chain \in Seq(Block), NEW n \in 1 .. Len(chain)
  PROVE  /\ chain[n].txs \in Seq(Tx)
         /\ chain[n].codes \in Seq(Codes)
         /\ chain[n].batches \in Seq(KVS)
         /\ chain[n].post \in KVS
<1>1. chain[n] \in Block
  OBVIOUS
<1> QED BY <1>1 DEF Block

\* Only the peer's actions change the block store and the pending block.
LEMMA PeerFrame ==
  ASSUME [Next]_vars
  PROVE  \/ \E shape \in Shapes, h \in 1 .. Height : ValidateTx(shape, h)
         \/ AppendBlock
         \/ UNCHANGED chain /\ pend' = NoPending
         \/ UNCHANGED <<chain, pend>>
<1>1. CASE UNCHANGED vars
  BY <1>1 DEF vars
<1>2. CASE Peer
  BY <1>2 DEF Peer, PeerCrash, PeerRestart
<1>3. ASSUME NEW c \in Callers, JoinChannel(c) \/ CreateFails(c) \/ Reader(c)
      PROVE  UNCHANGED <<chain, pend>>
  BY <1>3 DEF JoinChannel, CreateFails, Reader, Create, InitWithGenesis, NextBlock, Parse,
    CheckNumber, RejectNumber, EcallFails, PassTx, FailDecode, ApplyTx, ApplyTxFaults,
    CommitStateUpdates, AssertFails, Return, peerVars
<1> QED BY <1>1, <1>2, <1>3 DEF Next

\* A block that the peer validates stays well formed, and so does the chain.
LEMMA PeerStep ==
  ASSUME PeerTypeOK, ChainShape, [Next]_vars
  PROVE  PeerTypeOK' /\ ChainShape' /\ Len(chain') >= Len(chain)
         /\ \A n \in 1 .. Len(chain) : chain'[n] = chain[n]
<1> DEFINE Pending == [txs : Seq(Tx), codes : Seq(Codes), batches : Seq(KVS)]
<1>1. CASE \E shape \in Shapes, h \in 1 .. Height : ValidateTx(shape, h)
  <2>1. PICK shape \in Shapes, h \in 1 .. Height : ValidateTx(shape, h)
    BY <1>1
  <2> DEFINE tx == Endorse(shape, chain[h].post)
             n == Len(pend.txs)
             batch == pend.batches[n + 1]
             version == [block_num |-> Height, tx_num |-> n]
  <2>2. /\ pend' = [txs |-> Append(pend.txs, tx),
                    codes |-> Append(pend.codes, PeerCode(tx, CurrentDb, batch)),
                    batches |-> Append(pend.batches, PeerBatch(tx, CurrentDb, batch, version))]
        /\ chain' = chain
    BY <2>1 DEF ValidateTx
  <2>3. tx \in Tx /\ CurrentDb \in KVS
    <3>1. chain[h].post \in KVS /\ chain[Len(chain)].post \in KVS
      BY BlockFields DEF PeerTypeOK, ChainShape, Height
    <3> QED BY <3>1, EndorseType DEF CurrentDb
  <2>4. n \in Nat /\ batch \in KVS /\ version \in Version
    BY DEF PeerTypeOK, ChainShape, Filled, Version, Height
  <2>5. PeerCode(tx, CurrentDb, batch) \in Codes /\ PeerBatch(tx, CurrentDb, batch, version) \in KVS
    BY <2>3, <2>4, PeerCodeType, PeerBatchType
  <2>6. pend' \in Pending /\ Filled(pend)'
    BY <2>2, <2>3, <2>5 DEF PeerTypeOK, ChainShape, Filled
  <2> QED BY <2>2, <2>6 DEF PeerTypeOK, ChainShape
<1>2. CASE AppendBlock
  <2> DEFINE b == [txs |-> pend.txs, codes |-> pend.codes, batches |-> pend.batches,
                   post |-> Override(CurrentDb, pend.batches[Len(pend.txs) + 1])]
  <2>1. chain' = Append(chain, b) /\ pend' = NoPending
    BY <1>2 DEF AppendBlock
  <2>2. b.post \in KVS
    <3>1. CurrentDb \in KVS
      BY BlockFields DEF PeerTypeOK, ChainShape, CurrentDb
    <3>2. pend.batches[Len(pend.txs) + 1] \in KVS
      BY DEF PeerTypeOK, ChainShape, Filled
    <3> QED BY <3>1, <3>2, OverrideType
  <2>3. b \in Block /\ Filled(b)
    BY <2>2 DEF Block, Filled, PeerTypeOK, ChainShape
  <2>4. NoPending \in Pending /\ Filled(NoPending)
    BY EmptyMapType DEF NoPending, Filled, KVS
  <2>5. \A n \in 1 .. Len(chain) : chain'[n] = chain[n]
    BY <2>1 DEF PeerTypeOK
  <2>6. Len(chain') = Len(chain) + 1 /\ chain'[Len(chain')] = b
    BY <2>1, <2>3 DEF PeerTypeOK
  <2>7. \A n \in 1 .. Len(chain') : Filled(chain'[n])
    BY <2>3, <2>5, <2>6, SMTT(60) DEF PeerTypeOK, ChainShape
  <2> QED BY <2>1, <2>3, <2>4, <2>5, <2>6, <2>7 DEF PeerTypeOK, ChainShape
<1>3. CASE UNCHANGED chain /\ pend' = NoPending
  <2>1. NoPending \in Pending /\ Filled(NoPending)
    BY EmptyMapType DEF NoPending, Filled, KVS
  <2> QED BY <1>3, <2>1 DEF PeerTypeOK, ChainShape
<1>4. CASE UNCHANGED <<chain, pend>>
  BY <1>4 DEF PeerTypeOK, ChainShape
<1> QED BY <1>1, <1>2, <1>3, <1>4, PeerFrame

ReaderTypeOK ==
  /\ crashes \in Nat
  /\ eid \in Callers \cup {NoEnclave}
  /\ status \in [Callers -> {"none", "up", "crashed"}]
  /\ seqno \in [Callers -> Nat \cup {-1}]
  /\ state \in [Callers -> KVS]
  /\ pc \in [Callers -> PC]
  /\ tgt \in [Callers -> Callers \cup {NoEnclave}]
  /\ blk \in [Callers -> Nat]
  /\ idx \in [Callers -> Nat \ {0}]
  /\ updates \in [Callers -> KVS]

\* The type invariant in three parts, one per kind of reasoning it takes.
LEMMA SplitTypeOK == TypeOK <=> PeerTypeOK /\ ReaderTypeOK /\ peerUp \in BOOLEAN
  BY DEF TypeOK, PeerTypeOK, ReaderTypeOK

\* The return of parse_block, whatever it did to the enclave.
LEMMA ReturnStep ==
  ASSUME ReaderTypeOK, ReaderShape, NEW c \in Callers, NEW success \in BOOLEAN,
         pc[c] \in {"check", "txs"}, Return(c, success),
         status' \in [Callers -> {"none", "up", "crashed"}],
         \A e \in Callers : status'[e] = "none" <=> status[e] = "none",
         seqno' \in [Callers -> Nat \cup {-1}], state' \in [Callers -> KVS]
  PROVE  ReaderTypeOK' /\ ReaderShape'
<1>0. /\ pc' = [pc EXCEPT ![c] = "read"]
      /\ idx' = [idx EXCEPT ![c] = 1]
      /\ updates' = [updates EXCEPT ![c] = EmptyMap]
      /\ UNCHANGED <<chain, crashes, eid, tgt, blk>>
  BY DEF Return, Goto, ForgetParse, peerVars
<1>1. EmptyMap \in KVS
  BY EmptyMapType DEF KVS
<1>2. ReaderTypeOK'
  BY <1>0, <1>1 DEF ReaderTypeOK, PC
<1>3. ReaderShape'
  <2>1. (eid \in Callers => status[eid] # "none")'
    BY <1>0 DEF ReaderShape, ReaderTypeOK
  <2>2. ASSUME NEW d \in Callers PROVE CallerShape(d)'
    <3>1. CASE d = c
      BY <1>0, <3>1 DEF CallerShape, ReaderShape, ReaderTypeOK, InBlock
    <3>2. CASE d # c
      BY <1>0, <3>2 DEF CallerShape, ReaderShape, ReaderTypeOK, InBlock
    <3> QED BY <3>1, <3>2
  <2> QED BY <2>1, <2>2 DEF ReaderShape
<1> QED BY <1>2, <1>3

\* Callers stay within the chain and within enclaves that exist.
LEMMA ReaderStep ==
  ASSUME PeerTypeOK, ReaderTypeOK, ChainShape, ReaderShape, [Next]_vars
  PROVE  ReaderTypeOK' /\ ReaderShape'
<1> USE DEF ReaderTypeOK, ReaderShape, CallerShape, InBlock
<1>0. EmptyMap \in KVS
  BY EmptyMapType DEF KVS
<1>1. CASE UNCHANGED vars
  BY <1>1 DEF vars
<1>2. ASSUME UNCHANGED <<eid, enclaveVars, pc, parseVars>>, crashes' \in Nat
      PROVE  ReaderTypeOK' /\ ReaderShape'
  <2>1. Len(chain') >= Len(chain) /\ \A n \in 1 .. Len(chain) : chain'[n] = chain[n]
    BY PeerStep
  <2>2. Len(chain) \in Nat /\ Len(chain') \in Nat
    BY PeerStep DEF PeerTypeOK
  <2>3. ReaderTypeOK'
    BY <1>2 DEF enclaveVars, parseVars
  <2>4. UNCHANGED <<eid, status, pc, tgt, blk, idx, updates>>
    BY <1>2 DEF enclaveVars, parseVars
  <2>5. ASSUME NEW c \in Callers, pc[c] \in InBlock
        PROVE  blk[c] < Len(chain') /\ chain'[blk[c] + 1] = chain[blk[c] + 1]
    <3>1. blk[c] \in Nat /\ blk[c] < Len(chain)
      BY <2>5
    <3>2. blk[c] + 1 \in 1 .. Len(chain)
      BY <2>2, <3>1
    <3> QED BY <2>1, <2>2, <3>1, <3>2
  <2> QED BY <2>3, <2>4, <2>5
<1>3. CASE \E shape \in Shapes, h \in 1 .. Height : ValidateTx(shape, h)
  BY <1>2, <1>3 DEF ValidateTx
<1>4. CASE AppendBlock
  BY <1>2, <1>4 DEF AppendBlock
<1>5. CASE PeerCrash
  <2>1. crashes' \in Nat
    BY <1>5 DEF PeerCrash
  <2> QED BY <1>2, <1>5, <2>1 DEF PeerCrash
<1>6. CASE PeerRestart
  BY <1>0, <1>6, CallersAssumption DEF PeerRestart, PC
<1>7. ASSUME NEW c \in Callers, JoinChannel(c)
      PROVE  ReaderTypeOK' /\ ReaderShape'
  BY <1>7 DEF JoinChannel, Goto, peerVars, enclaveVars, parseVars, PC
<1>8. ASSUME NEW c \in Callers, CreateFails(c)
      PROVE  ReaderTypeOK' /\ ReaderShape'
  BY <1>2, <1>8 DEF CreateFails, peerVars
<1>9. ASSUME NEW c \in Callers, Create(c)
      PROVE  ReaderTypeOK' /\ ReaderShape'
  BY <1>0, <1>9 DEF Create, Goto, peerVars, parseVars, PC
<1>10. ASSUME NEW c \in Callers, InitWithGenesis(c)
      PROVE  ReaderTypeOK' /\ ReaderShape'
  BY <1>10 DEF InitWithGenesis, Goto, peerVars, enclaveVars, PC, ChainShape
<1>11. ASSUME NEW c \in Callers, NextBlock(c)
      PROVE  ReaderTypeOK' /\ ReaderShape'
  BY <1>11 DEF NextBlock, Goto, peerVars, enclaveVars, PC, ChainShape, Height
<1>12. ASSUME NEW c \in Callers, CheckNumber(c)
      PROVE  ReaderTypeOK' /\ ReaderShape'
  <2>1. Len(chain[blk[c] + 1].txs) \in Nat
    BY <1>12, BlockFields, SMTT(60) DEF CheckNumber, PeerTypeOK
  <2> QED BY <1>12, <2>1, SMTT(60) DEF CheckNumber, Goto, peerVars, enclaveVars, parseVars, PC
<1>13. ASSUME NEW c \in Callers, RejectNumber(c) \/ EcallFails(c) \/ FailDecode(c)
      PROVE  ReaderTypeOK' /\ ReaderShape'
  BY <1>13, ReturnStep DEF RejectNumber, EcallFails, FailDecode, AtTx, enclaveVars
<1>14. ASSUME NEW c \in Callers, PassTx(c)
      PROVE  ReaderTypeOK' /\ ReaderShape'
  <2>1. Len(chain[blk[c] + 1].txs) \in Nat
    BY <1>14, BlockFields, SMTT(60) DEF PassTx, AtTx, PeerTypeOK
  <2>2. /\ pc[c] = "txs" /\ idx[c] <= Len(chain[blk[c] + 1].txs)
        /\ idx' = [idx EXCEPT ![c] = @ + 1]
        /\ UNCHANGED <<chain, crashes, eid, status, seqno, state, pc, tgt, blk, updates>>
    BY <1>14 DEF PassTx, AtTx, BlockAt, peerVars, enclaveVars
  <2>3. ReaderTypeOK'
    BY <2>2 DEF PC
  <2>4. ASSUME NEW d \in Callers PROVE CallerShape(d)'
    <3>1. CASE d = c
      BY <2>1, <2>2, <3>1
    <3>2. CASE d # c
      BY <2>2, <3>2
    <3> QED BY <3>1, <3>2
  <2> QED BY <2>2, <2>3, <2>4
<1>15. ASSUME NEW c \in Callers, ApplyTx(c)
      PROVE  ReaderTypeOK' /\ ReaderShape'
  <2>1. pc[c] = "txs" /\ tgt[c] \in Callers
    BY <1>15 DEF ApplyTx, AtTx
  <2>2. chain[blk[c] + 1].txs \in Seq(Tx) /\ idx[c] \in 1 .. Len(chain[blk[c] + 1].txs)
    BY <1>15, <2>1, BlockFields, SMTT(60) DEF ApplyTx, AtTx, PeerTypeOK, BlockAt
  <2>3. CurTx(c) \in Tx
    BY <2>2 DEF CurTx, BlockAt
  <2> DEFINE version == [block_num |-> blk[c], tx_num |-> idx[c] - 1]
             upd == parse_endorser_transaction(CurTx(c), state[tgt[c]], updates[c], version)
  <2>4. version \in Version
    BY DEF Version
  <2>5. upd \in KVS
    BY <2>1, <2>3, <2>4, ParseType
  <2>6. updates' = [updates EXCEPT ![c] = upd] /\ idx' = [idx EXCEPT ![c] = @ + 1]
    BY <1>15 DEF ApplyTx
  <2>7. UNCHANGED <<chain, crashes, eid, status, seqno, state, pc, tgt, blk>>
    BY <1>15 DEF ApplyTx, peerVars, enclaveVars
  <2>8. Len(chain[blk[c] + 1].txs) \in Nat
    BY <2>2
  <2> HIDE DEF upd, version
  <2>9. ReaderTypeOK'
    BY <2>5, <2>6, <2>7 DEF PC
  <2>10. ASSUME NEW d \in Callers PROVE CallerShape(d)'
    <3>1. CASE d = c
      BY <2>1, <2>2, <2>6, <2>7, <2>8, <3>1
    <3>2. CASE d # c
      BY <2>6, <2>7, <3>2
    <3> QED BY <3>1, <3>2
  <2> QED BY <2>7, <2>9, <2>10
<1>16. ASSUME NEW c \in Callers, ApplyTxFaults(c) \/ AssertFails(c)
      PROVE  ReaderTypeOK' /\ ReaderShape'
  <2>1. /\ pc[c] = "txs" /\ status[tgt[c]] = "up"
        /\ status' = [status EXCEPT ![tgt[c]] = "crashed"]
        /\ Return(c, FALSE)
        /\ UNCHANGED <<seqno, state>>
    BY <1>16 DEF ApplyTxFaults, AssertFails, AtTx, AtCommit
  <2>2. /\ status' \in [Callers -> {"none", "up", "crashed"}]
        /\ \A e \in Callers : status'[e] = "none" <=> status[e] = "none"
    BY <2>1
  <2> QED BY <2>1, <2>2, ReturnStep
<1>17. ASSUME NEW c \in Callers, CommitStateUpdates(c)
      PROVE  ReaderTypeOK' /\ ReaderShape'
  <2>1. pc[c] = "txs" /\ tgt[c] \in Callers
    BY <1>17 DEF CommitStateUpdates, AtCommit
  <2>2. Override(state[tgt[c]], updates[c]) \in KVS
    BY <2>1, OverrideType
  <2> QED BY <1>17, <2>1, <2>2, ReturnStep DEF CommitStateUpdates
<1> QED BY <1>1, <1>3, <1>4, <1>5, <1>6, <1>7, <1>8, <1>9, <1>10, <1>11, <1>12, <1>13, <1>14,
           <1>15, <1>16, <1>17 DEF Next, Peer, Reader, Parse

\* peerUp is a Boolean: it is set to constants and to the success of a join.
LEMMA PeerUpStep ==
  ASSUME peerUp \in BOOLEAN, [Next]_vars
  PROVE  peerUp' \in BOOLEAN
<1>1. CASE UNCHANGED vars
  BY <1>1 DEF vars
<1>2. CASE Peer
  BY <1>2 DEF Peer, ValidateTx, AppendBlock, PeerCrash, PeerRestart
<1>3. ASSUME NEW c \in Callers, NEW success \in BOOLEAN, Return(c, success)
      PROVE  peerUp' \in BOOLEAN
  BY <1>3, Zenon DEF Return
<1>4. ASSUME NEW c \in Callers, JoinChannel(c) \/ CreateFails(c) \/ Reader(c)
      PROVE  peerUp' \in BOOLEAN
  BY <1>3, <1>4, Zenon DEF JoinChannel, CreateFails, Reader, Create, InitWithGenesis, NextBlock, Parse,
    CheckNumber, RejectNumber, EcallFails, PassTx, FailDecode, ApplyTx, ApplyTxFaults,
    CommitStateUpdates, AssertFails
<1> QED BY <1>1, <1>2, <1>4 DEF Next

WellFormed == TypeOK /\ ChainShape /\ ReaderShape

\* The initial state is well formed.
LEMMA InitShape == Init => WellFormed
<1> SUFFICES ASSUME Init PROVE WellFormed
  OBVIOUS
<1>1. EmptyMap \in KVS /\ EmptyMap \in Map(Version) /\ EmptyMap \in Map(Values)
  BY EmptyMapType DEF KVS
<1>2. ConfigTx \in Tx
  BY <1>1 DEF ConfigTx, Tx, Forms
<1>3. Genesis \in Block /\ Filled(Genesis)
  BY <1>1, <1>2 DEF Genesis, Block, Filled, Codes
<1>4. NoPending \in [txs : Seq(Tx), codes : Seq(Codes), batches : Seq(KVS)] /\ Filled(NoPending)
  BY <1>1 DEF NoPending, Filled
<1>5. PeerTypeOK /\ ChainShape
  BY <1>3, <1>4 DEF Init, PeerTypeOK, ChainShape
<1>6. ReaderTypeOK /\ ReaderShape
  BY <1>1, CallersAssumption DEF Init, ReaderTypeOK, ReaderShape, CallerShape, PC, InBlock
<1>7. peerUp \in BOOLEAN
  BY DEF Init
<1> QED BY <1>5, <1>6, <1>7, SplitTypeOK DEF WellFormed

\* Every step keeps the state well formed.
LEMMA NextShape == WellFormed /\ [Next]_vars => WellFormed'
<1> SUFFICES ASSUME WellFormed, [Next]_vars PROVE WellFormed'
  OBVIOUS
<1>1. PeerTypeOK /\ ReaderTypeOK /\ peerUp \in BOOLEAN /\ ChainShape /\ ReaderShape
  BY SplitTypeOK DEF WellFormed
<1>2. PeerTypeOK' /\ ChainShape'
  BY <1>1, PeerStep
<1>3. ReaderTypeOK' /\ ReaderShape'
  BY <1>1, ReaderStep
<1>4. peerUp' \in BOOLEAN
  BY <1>1, PeerUpStep
<1>5. TypeOK'
  BY <1>2, <1>3, <1>4 DEF TypeOK, PeerTypeOK, ReaderTypeOK
<1> QED BY <1>2, <1>3, <1>5 DEF WellFormed

\* TypeOK holds in every reachable state: the readers of tlcc never work on a
\* block the peer does not have, and never in an enclave that was not created.
THEOREM TypeCorrect == Spec => []TypeOK
<1>1. Spec => []WellFormed
  BY InitShape, NextShape, PTL DEF Spec
<1>2. WellFormed => TypeOK
  BY DEF WellFormed
<1> QED BY <1>1, <1>2, PTL
-----------------------------------------------------------------------------
(***************************************************************************)
(* No rollback: the updates a caller collects are writes of its own block, *)
(* and only commit_state_updates changes a map.                            *)
(***************************************************************************)

\* Every entry of the map was written in block n.
WrittenIn(kvs, n) == \A k \in Keys : kvs[k] # Absent => kvs[k].ver.block_num = n

OwnUpdates == \A c \in Callers : WrittenIn(updates[c], blk[c])

\* Every step keeps the updates of a caller those of its block.
LEMMA OwnUpdatesStep ==
  ASSUME ReaderTypeOK, ReaderShape, OwnUpdates, [Next]_vars
  PROVE  OwnUpdates'
<1> USE DEF ReaderTypeOK, OwnUpdates
<1>0. \A n : WrittenIn(EmptyMap, n)
  BY DEF WrittenIn, EmptyMap
<1>1. CASE UNCHANGED <<blk, updates>>
  BY <1>1
<1>2. CASE PeerRestart
  BY <1>0, <1>2 DEF PeerRestart
<1>3. ASSUME NEW c \in Callers, NEW success, Return(c, success)
      PROVE  OwnUpdates'
  BY <1>0, <1>3 DEF Return, ForgetParse
<1>4. ASSUME NEW c \in Callers, InitWithGenesis(c) \/ NextBlock(c)
      PROVE  OwnUpdates'
  <2>1. updates[c] = EmptyMap /\ updates' = updates
    BY <1>4 DEF InitWithGenesis, NextBlock, ReaderShape, CallerShape
  <2>2. ASSUME NEW d \in Callers, d # c PROVE blk'[d] = blk[d]
    BY <1>4, <2>2 DEF InitWithGenesis, NextBlock
  <2> QED BY <1>0, <2>1, <2>2
<1>5. ASSUME NEW c \in Callers, ApplyTx(c)
      PROVE  OwnUpdates'
  <2> DEFINE version == [block_num |-> blk[c], tx_num |-> idx[c] - 1]
             upd == parse_endorser_transaction(CurTx(c), state[tgt[c]], updates[c], version)
  <2>1. updates' = [updates EXCEPT ![c] = upd] /\ blk' = blk
    BY <1>5 DEF ApplyTx
  <2>2. WrittenIn(upd, blk[c])
    BY DEF parse_endorser_transaction, InsertWrites, WrittenIn
  <2> HIDE DEF upd
  <2> QED BY <2>1, <2>2
<1>6. CASE Peer
  BY <1>1, <1>2, <1>6 DEF Peer, ValidateTx, AppendBlock, PeerCrash, parseVars
<1>7. ASSUME NEW c \in Callers, JoinChannel(c) \/ CreateFails(c) \/ Reader(c)
      PROVE  OwnUpdates'
  BY <1>1, <1>3, <1>4, <1>5, <1>7 DEF JoinChannel, CreateFails, Reader, Create, Parse,
    CheckNumber, RejectNumber, EcallFails, PassTx, FailDecode, ApplyTxFaults,
    CommitStateUpdates, AssertFails, parseVars
<1> QED BY <1>1, <1>6, <1>7 DEF Next, vars

\* A step changes the map of a working enclave only in commit_state_updates.
LEMMA OnlyCommitChanges ==
  ASSUME ReaderTypeOK, ReaderShape, [Next]_vars, NEW e \in Callers,
         status[e] = "up", status'[e] = "up"
  PROVE  \/ seqno'[e] = seqno[e] /\ state'[e] = state[e]
         \/ \E c \in Callers : tgt[c] = e /\ CommitStateUpdates(c)
<1> USE DEF ReaderTypeOK
<1>1. CASE UNCHANGED vars
  BY <1>1 DEF vars
<1>2. CASE Peer
  BY <1>2 DEF Peer, ValidateTx, AppendBlock, PeerCrash, PeerRestart, enclaveVars
<1>3. ASSUME NEW c \in Callers, Create(c)
      PROVE  seqno'[e] = seqno[e] /\ state'[e] = state[e]
  BY <1>3 DEF Create, ReaderShape, CallerShape
<1>4. ASSUME NEW c \in Callers, CommitStateUpdates(c), tgt[c] # e
      PROVE  seqno'[e] = seqno[e] /\ state'[e] = state[e]
  BY <1>4 DEF CommitStateUpdates
<1>5. ASSUME NEW c \in Callers, JoinChannel(c) \/ CreateFails(c) \/ Reader(c)
      PROVE  \/ seqno'[e] = seqno[e] /\ state'[e] = state[e]
             \/ tgt[c] = e /\ CommitStateUpdates(c)
  BY <1>3, <1>4, <1>5 DEF JoinChannel, CreateFails, Reader, InitWithGenesis, NextBlock, Parse,
    CheckNumber, RejectNumber, EcallFails, PassTx, FailDecode, ApplyTx, ApplyTxFaults,
    AssertFails, enclaveVars
<1> QED BY <1>1, <1>2, <1>5 DEF Next

\* The ledger of an enclave is never rolled back, whatever blocks hold and
\* however many readers feed the enclave.
THEOREM NoRollbackCorrect == Spec => NoRollback
<1> DEFINE Inv == WellFormed /\ OwnUpdates
           Forward(e) ==
             \/ seqno'[e] = seqno[e] /\ state'[e] = state[e]
             \/ /\ seqno'[e] = seqno[e] + 1
                /\ \A k \in Keys :
                     state'[e][k] # state[e][k] => state'[e][k].ver.block_num = seqno'[e]
<1>1. Init => Inv
  <2>1. Init => OwnUpdates
    BY DEF Init, OwnUpdates, WrittenIn, EmptyMap
  <2> QED BY <2>1, InitShape
<1>2. Inv /\ [Next]_vars => Inv'
  <2> SUFFICES ASSUME Inv, [Next]_vars PROVE Inv'
    OBVIOUS
  <2>1. ReaderTypeOK /\ ReaderShape
    BY SplitTypeOK DEF WellFormed
  <2> QED BY <2>1, NextShape, OwnUpdatesStep
<1>3. Inv /\ [Next]_vars
        => \A e \in Callers : status[e] = "up" /\ status'[e] = "up" => Forward(e)
  <2> SUFFICES ASSUME Inv, [Next]_vars, NEW e \in Callers, status[e] = "up", status'[e] = "up"
               PROVE  Forward(e)
    OBVIOUS
  <2>1. ReaderTypeOK /\ ReaderShape
    BY SplitTypeOK DEF WellFormed
  <2>2. CASE seqno'[e] = seqno[e] /\ state'[e] = state[e]
    BY <2>2
  <2>3. CASE \E c \in Callers : tgt[c] = e /\ CommitStateUpdates(c)
    <3>1. PICK c \in Callers : tgt[c] = e /\ CommitStateUpdates(c)
      BY <2>3
    <3>2. seqno'[e] = seqno[e] + 1 /\ seqno'[e] = blk[c]
      BY <2>1, <3>1 DEF CommitStateUpdates, ReaderTypeOK
    <3>3. state'[e] = Override(state[e], updates[c])
      BY <2>1, <3>1 DEF CommitStateUpdates, ReaderTypeOK
    <3>4. WrittenIn(updates[c], blk[c])
      BY DEF OwnUpdates
    <3> QED BY <3>2, <3>3, <3>4 DEF Override, WrittenIn
  <2> QED BY <2>1, <2>2, <2>3, OnlyCommitChanges
<1> HIDE DEF Inv
<1> QED BY <1>1, <1>2, <1>3, PTL DEF Spec, NoRollback
-----------------------------------------------------------------------------
(***************************************************************************)
(* Origin: what parse_block collects was written by a transaction of its   *)
(* block, and a map is made of what was collected.                         *)
(***************************************************************************)

\* Entry x of key k was written by a transaction of the chain ch that is not filtered out.
FromChain(ch, x, k) ==
  LET n == x.ver.block_num
      i == x.ver.tx_num + 1
  IN  /\ n < Len(ch)
      /\ i <= Len(ch[n + 1].txs)
      /\ k \in KeysOf(ch[n + 1].txs[i].writes)
      /\ x.val = ch[n + 1].txs[i].writes[k]
      /\ ch[n + 1].codes[i] # NIL_ENVELOPE

\* Every entry of the map comes from the chain ch.
MapFromChain(ch, kvs) == \A k \in Keys : kvs[k] # Absent => FromChain(ch, kvs[k], k)

UpdatesFromChain == \A c \in Callers : MapFromChain(chain, updates[c])

StateFromChain ==
  \A e \in Callers :
    /\ MapFromChain(chain, state[e])
    /\ \A k \in Keys : state[e][k] # Absent => state[e][k].ver.block_num <= seqno[e]

Origin == UpdatesFromChain /\ StateFromChain

\* Blocks that were appended stay, and so does the origin of an entry.
LEMMA FromChainStays ==
  ASSUME PeerTypeOK, ChainShape, [Next]_vars, NEW kvs \in KVS, MapFromChain(chain, kvs)
  PROVE  MapFromChain(chain', kvs)
<1>1. /\ Len(chain') >= Len(chain) /\ Len(chain) \in Nat /\ Len(chain') \in Nat
      /\ \A n \in 1 .. Len(chain) : chain'[n] = chain[n]
  BY PeerStep DEF PeerTypeOK
<1>2. ASSUME NEW k \in Keys, kvs[k] # Absent
      PROVE  FromChain(chain', kvs[k], k)
  <2>1. kvs[k] \in Entry /\ FromChain(chain, kvs[k], k)
    BY <1>2 DEF KVS, Map, MapFromChain
  <2>2. kvs[k].ver.block_num \in Nat /\ kvs[k].ver.block_num < Len(chain)
    BY <2>1 DEF Entry, Version, FromChain
  <2>3. /\ chain'[kvs[k].ver.block_num + 1] = chain[kvs[k].ver.block_num + 1]
        /\ kvs[k].ver.block_num < Len(chain')
    BY <1>1, <2>2
  <2> QED BY <2>1, <2>3 DEF FromChain
<1> QED BY <1>2 DEF MapFromChain

\* The empty map has nothing to come from anywhere.
LEMMA EmptyFromChain == \A ch : MapFromChain(ch, EmptyMap)
  BY DEF MapFromChain, EmptyMap

\* The updates of a caller stay writes of the chain: the one new case is ApplyTx.
LEMMA UpdatesOriginStep ==
  ASSUME PeerTypeOK, ReaderTypeOK, ChainShape, ReaderShape, UpdatesFromChain, [Next]_vars
  PROVE  UpdatesFromChain'
<1>a. \A c \in Callers : MapFromChain(chain', updates[c])
  BY FromChainStays DEF UpdatesFromChain, ReaderTypeOK
<1>1. CASE UNCHANGED updates
  BY <1>1, <1>a DEF UpdatesFromChain
<1>2. CASE PeerRestart
  BY <1>2, EmptyFromChain DEF PeerRestart, UpdatesFromChain
<1>3. ASSUME NEW c \in Callers, NEW success, Return(c, success)
      PROVE  UpdatesFromChain'
  <2>1. updates' = [updates EXCEPT ![c] = EmptyMap]
    BY <1>3 DEF Return, ForgetParse
  <2> QED BY <1>a, <2>1, EmptyFromChain DEF UpdatesFromChain, ReaderTypeOK
<1>4. ASSUME NEW c \in Callers, ApplyTx(c)
      PROVE  UpdatesFromChain'
  <2> DEFINE tx == CurTx(c)
             version == [block_num |-> blk[c], tx_num |-> idx[c] - 1]
             upd == parse_endorser_transaction(tx, state[tgt[c]], updates[c], version)
  <2>1. updates' = [updates EXCEPT ![c] = upd] /\ chain' = chain
    BY <1>4 DEF ApplyTx, peerVars
  <2>2. /\ blk[c] \in Nat /\ blk[c] < Len(chain) /\ idx[c] \in Nat
        /\ idx[c] <= Len(chain[blk[c] + 1].txs)
        /\ chain[blk[c] + 1].codes[idx[c]] # NIL_ENVELOPE
    BY <1>4 DEF ApplyTx, AtTx, Skipped, CurCode, BlockAt, ReaderTypeOK, ReaderShape,
      CallerShape, InBlock
  <2>3. tx = chain[blk[c] + 1].txs[idx[c]]
    BY DEF CurTx, BlockAt
  <2>4. version.block_num = blk[c] /\ version.tx_num + 1 = idx[c]
    BY <2>2
  <2>5. ASSUME NEW k \in Keys, upd[k] # Absent
        PROVE  FromChain(chain, upd[k], k)
    <3>1. CASE upd[k] = updates[c][k]
      BY <2>5, <3>1 DEF UpdatesFromChain, MapFromChain
    <3>2. CASE upd[k] # updates[c][k]
      <4>1. upd[k] = [val |-> tx.writes[k], ver |-> version] /\ k \in RecordedWrites(tx)
        BY <3>2 DEF parse_endorser_transaction, InsertWrites
      <4>2. k \in KeysOf(tx.writes)
        BY <4>1 DEF RecordedWrites, InNs, FirstErccWrite
      <4>3. /\ upd[k].val = tx.writes[k]
            /\ upd[k].ver.block_num = blk[c] /\ upd[k].ver.tx_num + 1 = idx[c]
        BY <2>4, <4>1
      <4> HIDE DEF upd, tx
      <4> QED BY <2>2, <2>3, <4>2, <4>3 DEF FromChain
    <3> QED BY <3>1, <3>2
  <2>6. MapFromChain(chain, upd)
    BY <2>5 DEF MapFromChain
  <2> HIDE DEF upd
  <2> QED BY <1>a, <2>1, <2>6 DEF UpdatesFromChain, ReaderTypeOK
<1>5. CASE Peer
  BY <1>1, <1>2, <1>5 DEF Peer, ValidateTx, AppendBlock, PeerCrash, parseVars
<1>6. ASSUME NEW c \in Callers, JoinChannel(c) \/ CreateFails(c) \/ Reader(c)
      PROVE  UpdatesFromChain'
  BY <1>1, <1>3, <1>4, <1>6 DEF JoinChannel, CreateFails, Reader, Create, InitWithGenesis, NextBlock,
    Parse, CheckNumber, RejectNumber, EcallFails, PassTx, FailDecode, ApplyTxFaults,
    CommitStateUpdates, AssertFails, parseVars
<1> QED BY <1>1, <1>5, <1>6 DEF Next, vars

\* The map of an enclave stays made of writes of the chain: commit_state_updates
\* adds the updates of the block it makes the last one.
LEMMA StateOriginStep ==
  ASSUME PeerTypeOK, ReaderTypeOK, ChainShape, ReaderShape, OwnUpdates, Origin, [Next]_vars
  PROVE  StateFromChain'
<1> USE DEF ReaderTypeOK
<1>a. \A e \in Callers : MapFromChain(chain', state[e])
  BY FromChainStays DEF Origin, StateFromChain
<1>b. \A n : \A k \in Keys : EmptyMap[k] # Absent => EmptyMap[k].ver.block_num <= n
  BY DEF EmptyMap
<1>1. CASE UNCHANGED <<seqno, state>>
  BY <1>1, <1>a DEF Origin, StateFromChain
<1>2. CASE PeerRestart
  BY <1>2, <1>b, EmptyFromChain DEF PeerRestart, StateFromChain
<1>3. ASSUME NEW c \in Callers, Create(c)
      PROVE  StateFromChain'
  BY <1>3, <1>a, <1>b, EmptyFromChain DEF Create, Origin, StateFromChain
<1>4. ASSUME NEW c \in Callers, CommitStateUpdates(c)
      PROVE  StateFromChain'
  <2>1. tgt[c] \in Callers
    BY <1>4 DEF CommitStateUpdates, AtCommit, ReaderShape, CallerShape
  <2>2. /\ seqno' = [seqno EXCEPT ![tgt[c]] = blk[c]]
        /\ state' = [state EXCEPT ![tgt[c]] = Override(@, updates[c])]
        /\ blk[c] = seqno[tgt[c]] + 1 /\ chain' = chain
    BY <1>4 DEF CommitStateUpdates, Return, peerVars
  <2>3. ASSUME NEW e \in Callers, e # tgt[c]
        PROVE  seqno'[e] = seqno[e] /\ state'[e] = state[e]
    BY <2>2, <2>3
  <2> DEFINE e == tgt[c]
             new == Override(state[e], updates[c])
  <2>4. seqno'[e] = blk[c] /\ state'[e] = new
    BY <2>1, <2>2
  <2>5. ASSUME NEW k \in Keys, new[k] # Absent
        PROVE  new[k] = state[e][k] \/ (updates[c][k] # Absent /\ new[k] = updates[c][k])
    BY <2>5 DEF Override
  <2>6. MapFromChain(chain, new)
    BY <2>1, <2>5 DEF MapFromChain, Origin, UpdatesFromChain, StateFromChain
  <2>7. ASSUME NEW k \in Keys, new[k] # Absent
        PROVE  new[k].ver.block_num <= blk[c]
    <3>1. CASE new[k] = state[e][k]
      <4>1. state[e][k] \in Entry
        BY <2>1, <2>7, <3>1 DEF KVS, Map
      <4>2. state[e][k].ver.block_num <= seqno[e] /\ state[e][k].ver.block_num \in Nat
        BY <2>1, <2>7, <3>1, <4>1 DEF Origin, StateFromChain, Entry, Version
      <4> QED BY <2>1, <2>2, <3>1, <4>2
    <3>2. CASE updates[c][k] # Absent /\ new[k] = updates[c][k]
      BY <3>2 DEF OwnUpdates, WrittenIn
    <3> QED BY <2>5, <2>7, <3>1, <3>2
  <2> HIDE DEF new
  <2> QED BY <2>1, <2>2, <2>3, <2>4, <2>6, <2>7 DEF Origin, StateFromChain
<1>5. CASE Peer
  BY <1>1, <1>2, <1>5 DEF Peer, ValidateTx, AppendBlock, PeerCrash, enclaveVars
<1>6. ASSUME NEW c \in Callers, JoinChannel(c) \/ CreateFails(c) \/ Reader(c)
      PROVE  StateFromChain'
  BY <1>1, <1>3, <1>4, <1>6 DEF JoinChannel, CreateFails, Reader, InitWithGenesis, NextBlock,
    Parse, CheckNumber, RejectNumber, EcallFails, PassTx, FailDecode, ApplyTx, ApplyTxFaults,
    AssertFails, enclaveVars
<1> QED BY <1>1, <1>5, <1>6 DEF Next, vars

\* Whatever several readers send to an enclave, every entry of its map was written
\* by the transaction of the chain its version names: no update of one parse_block
\* reaches the commit of another under a version of its own.
THEOREM EntriesHaveOriginCorrect == Spec => []EntriesHaveOrigin
<1> DEFINE Inv == WellFormed /\ OwnUpdates /\ Origin
<1>1. Init => Inv
  <2> SUFFICES ASSUME Init PROVE Inv
    OBVIOUS
  <2>1. OwnUpdates
    BY DEF Init, OwnUpdates, WrittenIn, EmptyMap
  <2>2. Origin
    BY EmptyFromChain DEF Init, Origin, UpdatesFromChain, StateFromChain, EmptyMap
  <2> QED BY <2>1, <2>2, InitShape
<1>2. Inv /\ [Next]_vars => Inv'
  <2> SUFFICES ASSUME Inv, [Next]_vars PROVE Inv'
    OBVIOUS
  <2>1. PeerTypeOK /\ ReaderTypeOK /\ ChainShape /\ ReaderShape
    BY SplitTypeOK DEF WellFormed
  <2>2. WellFormed'
    BY NextShape
  <2>3. OwnUpdates'
    BY <2>1, OwnUpdatesStep
  <2>4. UpdatesFromChain' /\ StateFromChain'
    BY <2>1, UpdatesOriginStep, StateOriginStep DEF Origin
  <2> QED BY <2>2, <2>3, <2>4 DEF Origin
<1>3. Inv => EntriesHaveOrigin
  BY ZenonT(60) DEF Origin, StateFromChain, MapFromChain, FromChain, EntriesHaveOrigin, BlockAt, Height
<1> HIDE DEF Inv
<1> QED BY <1>1, <1>2, <1>3, PTL DEF Spec
-----------------------------------------------------------------------------
(***************************************************************************)
(* One reader: as long as the other callers have not started, what the     *)
(* caller found when it checked the block number still holds when it       *)
(* commits.                                                                *)
(***************************************************************************)

Alone(c) == \A d \in Callers \ {c} : pc[d] = "idle"

OneReader == \A c \in Callers : pc[c] = "txs" /\ Alone(c) => blk[c] = seqno[tgt[c]] + 1

\* A caller that has started is never idle again, unless the peer restarts.
LEMMA NotIdle ==
  ASSUME ReaderTypeOK, NEW d \in Callers, JoinChannel(d) \/ CreateFails(d) \/ Reader(d)
  PROVE  pc'[d] # "idle"
  BY DEF ReaderTypeOK, JoinChannel, CreateFails, Reader, Create, InitWithGenesis, NextBlock, Parse,
    CheckNumber, RejectNumber, EcallFails, PassTx, FailDecode, ApplyTx, ApplyTxFaults,
    CommitStateUpdates, AssertFails, AtTx, AtCommit, Return, Goto

\* The number a single reader checked is still the next one after every step.
LEMMA OneReaderStep ==
  ASSUME ReaderTypeOK, ReaderShape, OneReader, [Next]_vars
  PROVE  OneReader'
<1> SUFFICES ASSUME NEW c \in Callers, pc'[c] = "txs", Alone(c)'
             PROVE  blk'[c] = seqno'[tgt'[c]] + 1
  BY DEF OneReader
<1> USE DEF ReaderTypeOK
<1>1. CASE UNCHANGED <<seqno, pc, tgt, blk>>
  BY <1>1 DEF OneReader, Alone
<1>2. CASE PeerRestart
  BY <1>2 DEF PeerRestart
<1>3. CASE Peer
  BY <1>1, <1>2, <1>3 DEF Peer, ValidateTx, AppendBlock, PeerCrash, enclaveVars, parseVars
<1>4. ASSUME NEW d \in Callers, d # c, JoinChannel(d) \/ CreateFails(d) \/ Reader(d)
      PROVE  FALSE
  BY <1>4, NotIdle DEF Alone
<1>5. CASE CheckNumber(c)
  BY <1>5 DEF CheckNumber, enclaveVars, parseVars
<1>6. CASE PassTx(c) \/ ApplyTx(c)
  BY <1>1, <1>6 DEF PassTx, ApplyTx, enclaveVars
<1>7. CASE JoinChannel(c) \/ CreateFails(c) \/ Reader(c)
  BY <1>1, <1>5, <1>6, <1>7 DEF JoinChannel, CreateFails, Reader, Create, InitWithGenesis, NextBlock,
    Parse, RejectNumber, EcallFails, FailDecode, ApplyTxFaults, CommitStateUpdates, AssertFails,
    Return, Goto, enclaveVars, parseVars
<1> QED BY <1>1, <1>3, <1>4, <1>7 DEF Next, vars

\* The assertion of commit_state_updates holds while there is one reader, whatever
\* the blocks hold, also after blocks that parse_block gave up on.
THEOREM OneReaderCommitsCorrect == Spec => []OneReaderCommits
<1> DEFINE Inv == WellFormed /\ OneReader
<1>1. Init => Inv
  <2>1. Init => OneReader
    BY DEF Init, OneReader
  <2> QED BY <2>1, InitShape
<1>2. Inv /\ [Next]_vars => Inv'
  <2> SUFFICES ASSUME Inv, [Next]_vars PROVE Inv'
    OBVIOUS
  <2>1. ReaderTypeOK /\ ReaderShape
    BY SplitTypeOK DEF WellFormed
  <2> QED BY <2>1, NextShape, OneReaderStep
<1>3. Inv => OneReaderCommits
  BY DEF OneReader, Alone, OneReaderCommits, AtCommit
<1> HIDE DEF Inv
<1> QED BY <1>1, <1>2, <1>3, PTL DEF Spec
-----------------------------------------------------------------------------
(***************************************************************************)
(* No block lost.  This depends on what clients submit: the transactions   *)
(* of the chain are those that the shapes give.                            *)
(***************************************************************************)

\* The transactions of the chain and of the pending block are in S.
TxsIn(S) ==
  /\ pend.txs \in Seq(S)
  /\ \A n \in 1 .. Len(chain) : chain[n].txs \in Seq(S)

\* Whatever holds of every transaction clients submit holds of those of the chain.
LEMMA TxsInStep ==
  ASSUME NEW CONSTANT S, \A shape \in Shapes, db \in KVS : Endorse(shape, db) \in S,
         PeerTypeOK, ChainShape, TxsIn(S), [Next]_vars
  PROVE  TxsIn(S)'
<1>1. CASE \E shape \in Shapes, h \in 1 .. Height : ValidateTx(shape, h)
  <2>1. PICK shape \in Shapes, h \in 1 .. Height : ValidateTx(shape, h)
    BY <1>1
  <2>2. Endorse(shape, chain[h].post) \in S
    BY BlockFields DEF PeerTypeOK, Height
  <2>3. pend'.txs = Append(pend.txs, Endorse(shape, chain[h].post)) /\ chain' = chain
    BY <2>1 DEF ValidateTx
  <2>4. pend'.txs \in Seq(S)
    BY <2>2, <2>3 DEF TxsIn
  <2> QED BY <2>3, <2>4 DEF TxsIn
<1>2. CASE AppendBlock
  <2>1. /\ chain' = Append(chain, [txs |-> pend.txs, codes |-> pend.codes, batches |-> pend.batches,
                            post |-> Override(CurrentDb, pend.batches[Len(pend.txs) + 1])])
        /\ pend' = NoPending
    BY <1>2 DEF AppendBlock
  <2>2. /\ \A n \in 1 .. Len(chain) : chain'[n] = chain[n]
        /\ Len(chain') = Len(chain) + 1 /\ Len(chain) \in Nat
        /\ chain'[Len(chain')].txs = pend.txs
    BY <2>1 DEF PeerTypeOK
  <2>3. pend'.txs \in Seq(S)
    BY <2>1 DEF NoPending
  <2>4. \A n \in 1 .. Len(chain') : n \in 1 .. Len(chain) \/ n = Len(chain')
    BY <2>2
  <2> QED BY <2>2, <2>3, <2>4 DEF TxsIn
<1>3. CASE UNCHANGED chain /\ pend' = NoPending
  BY <1>3 DEF TxsIn, NoPending
<1>4. CASE UNCHANGED <<chain, pend>>
  BY <1>4 DEF TxsIn
<1> QED BY <1>1, <1>2, <1>3, <1>4, PeerFrame

\* The chain starts with the genesis block, which has a config transaction.
LEMMA TxsInInit ==
  ASSUME NEW CONSTANT S, ConfigTx \in S, Init
  PROVE  TxsIn(S)
<1>1. chain = <<Genesis>> /\ pend = NoPending
  BY DEF Init
<1>2. Genesis.txs \in Seq(S) /\ NoPending.txs \in Seq(S)
  BY DEF Genesis, NoPending
<1>3. \A n \in 1 .. Len(chain) : chain[n] = Genesis
  BY <1>1
<1> QED BY <1>1, <1>2, <1>3 DEF TxsIn

\* The transaction a caller is at is one of the chain.
LEMMA CurTxIn ==
  ASSUME NEW CONSTANT S, PeerTypeOK, ReaderTypeOK, ReaderShape, TxsIn(S), NEW c \in Callers, AtTx(c)
  PROVE  CurTx(c) \in S
<1>1. /\ blk[c] \in Nat /\ blk[c] < Len(chain) /\ Len(chain) \in Nat
      /\ idx[c] \in Nat \ {0} /\ idx[c] <= Len(chain[blk[c] + 1].txs)
  BY DEF AtTx, BlockAt, PeerTypeOK, ReaderTypeOK, ReaderShape, CallerShape, InBlock
<1>2. chain[blk[c] + 1].txs \in Seq(S)
  BY <1>1 DEF TxsIn
<1> QED BY <1>1, <1>2 DEF CurTx, BlockAt

\* Every transaction decodes as an Envelope with a Payload.
Decodable == \A s \in Shapes : s.form # "garbled"
DecodableTx == {tx \in Tx : tx.form # "garbled"}

\* The enclave that tlcc created last is fed by its own reader, in order: every
\* block before the one the reader has in hand is committed.
Fed ==
  \A c \in Callers : eid = c /\ status[c] = "up" =>
    /\ pc[c] \in {"check", "txs"} => tgt[c] = c /\ seqno[c] >= blk[c] - 1
    /\ pc[c] = "read" => seqno[c] >= blk[c]

\* Every step keeps the enclave fed: a rejected block is one it has already.
LEMMA FedStep ==
  ASSUME PeerTypeOK, ReaderTypeOK, ChainShape, ReaderShape, TxsIn(DecodableTx), Fed, [Next]_vars
  PROVE  Fed'
<1> SUFFICES ASSUME NEW c \in Callers, eid' = c, status'[c] = "up"
             PROVE  /\ pc'[c] \in {"check", "txs"} => tgt'[c] = c /\ seqno'[c] >= blk'[c] - 1
                    /\ pc'[c] = "read" => seqno'[c] >= blk'[c]
  BY DEF Fed
<1> USE DEF ReaderTypeOK
<1>1. CASE UNCHANGED <<eid, status, seqno, pc, tgt, blk>>
  BY <1>1 DEF Fed
<1>2. CASE PeerRestart
  BY <1>2 DEF PeerRestart
<1>3. CASE Peer
  BY <1>1, <1>2, <1>3 DEF Peer, ValidateTx, AppendBlock, PeerCrash, enclaveVars, parseVars
<1>4. CASE Create(c)
  BY <1>4 DEF Create, Goto
<1>5. ASSUME NEW d \in Callers, d # c, JoinChannel(d) \/ CreateFails(d) \/ Reader(d)
      PROVE  /\ eid = c /\ pc'[c] = pc[c] /\ tgt'[c] = tgt[c] /\ blk'[c] = blk[c]
             /\ status[c] = "up" /\ seqno'[c] >= seqno[c]
  <2>1. CASE CommitStateUpdates(d)
    <3>1. tgt[d] \in Callers
      BY <2>1 DEF CommitStateUpdates, AtCommit, ReaderShape, CallerShape
    <3>2. seqno'[c] >= seqno[c]
      BY <2>1, <3>1 DEF CommitStateUpdates
    <3> QED BY <1>5, <2>1, <3>2 DEF CommitStateUpdates, Return, Goto
  <2>2. CASE ApplyTxFaults(d) \/ AssertFails(d)
    <3>1. tgt[d] \in Callers
      BY <2>2 DEF ApplyTxFaults, AtTx, AssertFails, AtCommit, ReaderShape, CallerShape
    <3> QED BY <1>5, <2>2, <3>1 DEF ApplyTxFaults, AssertFails, Return, Goto
  <2> QED BY <1>5, <2>1, <2>2 DEF JoinChannel, CreateFails, Reader, Create, InitWithGenesis, NextBlock,
      Parse, CheckNumber, RejectNumber, EcallFails, PassTx, FailDecode, ApplyTx, Return, Goto,
      enclaveVars, parseVars
<1>6. CASE RejectNumber(c) \/ EcallFails(c)
  BY <1>6 DEF RejectNumber, EcallFails, Return, Goto, enclaveVars, Fed
<1>7. CASE FailDecode(c)
  BY <1>7, CurTxIn DEF FailDecode, DecodableTx
<1>8. CASE ApplyTxFaults(c) \/ AssertFails(c)
  <2>1. eid = c /\ pc[c] = "txs" /\ tgt[c] \in Callers /\ status[tgt[c]] = "up"
        /\ status' = [status EXCEPT ![tgt[c]] = "crashed"]
    BY <1>8 DEF ApplyTxFaults, AssertFails, AtTx, AtCommit, Return, ReaderShape, CallerShape
  <2>2. status[c] = "up"
    BY <2>1
  <2> QED BY <2>1, <2>2 DEF Fed
<1>9. CASE CommitStateUpdates(c)
  <2>1. /\ eid = c /\ status[c] = "up" /\ pc[c] = "txs"
        /\ seqno' = [seqno EXCEPT ![tgt[c]] = blk[c]]
        /\ pc' = [pc EXCEPT ![c] = "read"] /\ blk' = blk
    BY <1>9 DEF CommitStateUpdates, AtCommit, Return, Goto
  <2> QED BY <2>1 DEF Fed
<1>10. CASE JoinChannel(c) \/ CreateFails(c) \/ InitWithGenesis(c) \/ NextBlock(c) \/ CheckNumber(c)
            \/ PassTx(c) \/ ApplyTx(c)
  BY <1>10 DEF JoinChannel, CreateFails, InitWithGenesis, NextBlock, CheckNumber, PassTx, ApplyTx,
    Goto, enclaveVars, parseVars, Fed
<1>11. ASSUME NEW d \in Callers, d # c, JoinChannel(d) \/ CreateFails(d) \/ Reader(d)
       PROVE  /\ pc'[c] \in {"check", "txs"} => tgt'[c] = c /\ seqno'[c] >= blk'[c] - 1
              /\ pc'[c] = "read" => seqno'[c] >= blk'[c]
  <2>1. seqno'[c] \in Int /\ seqno[c] \in Int /\ blk[c] \in Nat
    <3>1. ReaderTypeOK'
      BY ReaderStep
    <3> QED BY <3>1
  <2> QED BY <1>5, <1>11, <2>1 DEF Fed
<1> QED BY <1>1, <1>3, <1>4, <1>6, <1>7, <1>8, <1>9, <1>10, <1>11 DEF Next, Reader, Parse, vars

\* The transactions of decodable shapes decode.
LEMMA DecodableStays ==
  ASSUME Decodable
  PROVE  /\ ConfigTx \in DecodableTx
         /\ \A shape \in Shapes, db \in KVS : Endorse(shape, db) \in DecodableTx
<1>1. ConfigTx \in DecodableTx
  BY EmptyMapType DEF ConfigTx, DecodableTx, Tx, Forms
<1>2. ASSUME NEW shape \in Shapes, NEW db \in KVS
      PROVE  Endorse(shape, db) \in DecodableTx
  <2>1. Endorse(shape, db) \in Tx
    BY EndorseType
  <2> QED BY <2>1 DEF Decodable, DecodableTx, Endorse
<1> QED BY <1>1, <1>2

\* If the envelopes of the chain decode, then the enclave tlcc uses has every block
\* its reader handed over, although NextBlock drops the return code of parse_block
\* and older readers feed the same enclave.
THEOREM NoBlockLostCorrect ==
  ASSUME Decodable
  PROVE  Spec => []NoBlockLost
<1> DEFINE Inv == WellFormed /\ TxsIn(DecodableTx) /\ Fed
<1>1. Init => Inv
  <2> SUFFICES ASSUME Init PROVE Inv
    OBVIOUS
  <2>1. Fed
    BY DEF Init, Fed
  <2> QED BY <2>1, InitShape, TxsInInit, DecodableStays
<1>2. Inv /\ [Next]_vars => Inv'
  <2> SUFFICES ASSUME Inv, [Next]_vars PROVE Inv'
    OBVIOUS
  <2>1. PeerTypeOK /\ ReaderTypeOK /\ ChainShape /\ ReaderShape
    BY SplitTypeOK DEF WellFormed
  <2>2. TxsIn(DecodableTx)'
    BY <2>1, DecodableStays, TxsInStep
  <2> QED BY <2>1, <2>2, NextShape, FedStep
<1>3. Inv => NoBlockLost
  BY DEF Fed, NoBlockLost
<1> HIDE DEF Inv
<1> QED BY <1>1, <1>2, <1>3, PTL DEF Spec

-----------------------------------------------------------------------------
(***************************************************************************)
(* Lost enclaves.  The causes stay as long as the enclave is lost: blocks  *)
(* are only appended, sequence_number of a lost enclave does not move, and *)
(* a caller is idle again only when the peer restarts.                     *)
(***************************************************************************)

\* Block n + 1 of the chain has an endorser transaction that only looks up the
\* registry, and two callers have started.
HasLookup(n) ==
  /\ n + 1 < Height
  /\ \E i \in 1 .. Len(BlockAt(n + 1).txs) :
       /\ BlockAt(n + 1).codes[i] # NIL_ENVELOPE
       /\ BlockAt(n + 1).txs[i].form = "endorser"
       /\ LookupOnly(BlockAt(n + 1).txs[i])
TwoCallers == \E c, d \in Callers : c # d /\ pc[c] # "idle" /\ pc[d] # "idle"

LEMMA LossExplainedMeans ==
  EnclaveLossExplained <=>
    \A e \in Callers : status[e] = "crashed" => HasLookup(seqno[e]) \/ TwoCallers
  BY DEF EnclaveLossExplained, HasLookup, TwoCallers

\* A caller that loses its enclave shows a cause.
LEMMA LossHasCause ==
  ASSUME PeerTypeOK, ReaderTypeOK, ReaderShape, OneReader, NEW c \in Callers,
         ApplyTxFaults(c) \/ AssertFails(c)
  PROVE  HasLookup(seqno[tgt[c]]) \/ TwoCallers
<1>1. pc[c] = "txs"
  BY DEF ApplyTxFaults, AssertFails, AtTx, AtCommit
<1>2. CASE ~ Alone(c)
  BY <1>1, <1>2 DEF Alone, TwoCallers
<1>3. CASE Alone(c)
  <2>1. blk[c] = seqno[tgt[c]] + 1
    BY <1>1, <1>3 DEF OneReader
  <2>2. ApplyTxFaults(c)
    BY <2>1 DEF AssertFails
  <2>3. /\ blk[c] \in Nat /\ blk[c] < Len(chain) /\ Len(chain) \in Nat
        /\ idx[c] \in Nat \ {0} /\ idx[c] <= Len(BlockAt(blk[c]).txs)
        /\ BlockAt(blk[c]).txs \in Seq(Tx)
    <3>1. blk[c] \in Nat /\ blk[c] < Len(chain) /\ Len(chain) \in Nat
      BY <1>1 DEF PeerTypeOK, ReaderTypeOK, ReaderShape, CallerShape, InBlock
    <3>2. chain[blk[c] + 1].txs \in Seq(Tx)
      BY <3>1, BlockFields DEF PeerTypeOK
    <3> QED BY <2>2, <3>1, <3>2 DEF ApplyTxFaults, AtTx, ReaderTypeOK, BlockAt
  <2>4. /\ CurCode(c) # NIL_ENVELOPE /\ CurTx(c).form = "endorser" /\ DereferencesNull(CurTx(c))
    BY <2>2 DEF ApplyTxFaults, Skipped
  <2>5. LookupOnly(CurTx(c))
    BY <2>4 DEF DereferencesNull, LookupOnly, InNs
  <2>6. Len(BlockAt(blk[c]).txs) \in Nat /\ idx[c] \in 1 .. Len(BlockAt(blk[c]).txs)
    BY <2>3
  <2> QED BY <2>1, <2>3, <2>4, <2>5, <2>6 DEF HasLookup, CurTx, CurCode, Height
<1> QED BY <1>2, <1>3

\* A block of the chain stays.
LEMMA LookupStays ==
  ASSUME PeerTypeOK, ChainShape, [Next]_vars, NEW n \in Nat \cup {-1}, HasLookup(n)
  PROVE  HasLookup(n)'
<1>1. CASE AppendBlock
  <2>1. /\ \A m \in 1 .. Len(chain) : chain'[m] = chain[m]
        /\ Len(chain') = Len(chain) + 1 /\ Len(chain) \in Nat
    BY <1>1 DEF AppendBlock, PeerTypeOK
  <2>2. n + 2 \in 1 .. Len(chain)
    BY <2>1 DEF HasLookup, Height
  <2>3. BlockAt(n + 1)' = BlockAt(n + 1)
    BY <2>1, <2>2 DEF BlockAt
  <2>4. n + 1 < Height'
    BY <2>1, <2>2 DEF Height
  <2> QED BY <2>3, <2>4 DEF HasLookup, LookupOnly, KeysOf
<1>2. CASE UNCHANGED chain
  BY <1>2 DEF HasLookup, BlockAt, Height
<1> QED BY <1>1, <1>2, PeerFrame DEF ValidateTx

\* Callers that have started stay so, unless the peer restarts.
LEMMA CallersStay ==
  ASSUME ReaderTypeOK, [Next]_vars, TwoCallers, ~ PeerRestart
  PROVE  TwoCallers'
<1>1. CASE UNCHANGED pc
  BY <1>1 DEF TwoCallers
<1>2. CASE Peer
  BY <1>1, <1>2 DEF Peer, ValidateTx, AppendBlock, PeerCrash
<1>3. ASSUME NEW d \in Callers, JoinChannel(d) \/ CreateFails(d) \/ Reader(d)
      PROVE  TwoCallers'
  <2>1. pc'[d] # "idle"
    BY <1>3, NotIdle
  <2>2. \A e \in Callers \ {d} : pc'[e] = pc[e]
    BY <1>3 DEF ReaderTypeOK, JoinChannel, CreateFails, Reader, Create, InitWithGenesis, NextBlock, Parse,
      CheckNumber, RejectNumber, EcallFails, PassTx, FailDecode, ApplyTx, ApplyTxFaults,
      CommitStateUpdates, AssertFails, Return, Goto
  <2> QED BY <2>1, <2>2 DEF TwoCallers
<1> QED BY <1>1, <1>2, <1>3 DEF Next, vars

\* An enclave that is lost was lost before, or is lost in this step.
LEMMA LossStep ==
  ASSUME ReaderTypeOK, ReaderShape, [Next]_vars, NEW e \in Callers, status'[e] = "crashed"
  PROVE  /\ ~ PeerRestart
         /\ seqno'[e] = seqno[e]
         /\ \/ status[e] = "crashed"
            \/ \E c \in Callers : tgt[c] = e /\ (ApplyTxFaults(c) \/ AssertFails(c))
<1> USE DEF ReaderTypeOK
<1>1. CASE UNCHANGED <<status, seqno>>
  BY <1>1 DEF PeerRestart
<1>2. CASE PeerRestart
  BY <1>2 DEF PeerRestart
<1>3. CASE Peer
  BY <1>1, <1>2, <1>3 DEF Peer, ValidateTx, AppendBlock, PeerCrash, PeerRestart, enclaveVars
<1>4. ASSUME NEW c \in Callers, JoinChannel(c) \/ CreateFails(c) \/ Reader(c)
      PROVE  /\ ~ PeerRestart
             /\ seqno'[e] = seqno[e]
             /\ \/ status[e] = "crashed"
                \/ \E d \in Callers : tgt[d] = e /\ (ApplyTxFaults(d) \/ AssertFails(d))
  <2>0. ~ PeerRestart
    BY DEF PeerRestart
  <2>1. CASE Create(c)
    BY <2>0, <2>1 DEF Create
  <2>2. CASE CommitStateUpdates(c)
    <3>1. tgt[c] \in Callers /\ status[tgt[c]] = "up" /\ status' = status
      BY <2>2 DEF CommitStateUpdates, AtCommit, ReaderShape, CallerShape
    <3>2. seqno' = [seqno EXCEPT ![tgt[c]] = blk[c]]
      BY <2>2 DEF CommitStateUpdates
    <3>3. tgt[c] # e
      BY <3>1
    <3> QED BY <2>0, <3>1, <3>2, <3>3
  <2>3. CASE ApplyTxFaults(c) \/ AssertFails(c)
    <3>1. status' = [status EXCEPT ![tgt[c]] = "crashed"] /\ seqno' = seqno
      BY <2>3 DEF ApplyTxFaults, AssertFails
    <3>2. status[e] = "crashed" \/ tgt[c] = e
      BY <3>1
    <3> QED BY <2>0, <2>3, <3>1, <3>2
  <2> QED BY <1>1, <1>4, <2>0, <2>1, <2>2, <2>3 DEF JoinChannel, CreateFails, Reader, InitWithGenesis,
      NextBlock, Parse, CheckNumber, RejectNumber, EcallFails, PassTx, FailDecode, ApplyTx, enclaveVars
<1> QED BY <1>1, <1>3, <1>4 DEF Next, vars

\* Whatever clients submit and however often the peer restarts, an enclave is lost
\* only to a transaction of its next block that reads the registry without writing
\* to it, or after a second JOIN_CHANNEL call.
THEOREM EnclaveLossAlwaysExplained == Spec => []EnclaveLossExplained
<1> DEFINE Inv == WellFormed /\ OneReader /\ EnclaveLossExplained
<1>1. Init => Inv
  <2> SUFFICES ASSUME Init PROVE Inv
    OBVIOUS
  <2>1. OneReader /\ EnclaveLossExplained
    BY DEF Init, OneReader, EnclaveLossExplained
  <2> QED BY <2>1, InitShape
<1>2. Inv /\ [Next]_vars => Inv'
  <2> SUFFICES ASSUME Inv, [Next]_vars PROVE Inv'
    OBVIOUS
  <2>1. PeerTypeOK /\ ReaderTypeOK /\ ChainShape /\ ReaderShape
    BY SplitTypeOK DEF WellFormed
  <2>2. ASSUME NEW e \in Callers, status'[e] = "crashed"
        PROVE  (HasLookup(seqno[e]) \/ TwoCallers)'
    <3>1. ~ PeerRestart /\ seqno'[e] = seqno[e] /\ seqno[e] \in Nat \cup {-1}
      BY <2>1, <2>2, LossStep DEF ReaderTypeOK
    <3>2. PICK n \in Nat \cup {-1} : n = seqno[e]
      BY <3>1
    <3>3. HasLookup(n) \/ TwoCallers
      <4>1. HasLookup(seqno[e]) \/ TwoCallers
        BY <2>1, <2>2, LossStep, LossHasCause, LossExplainedMeans
      <4> QED BY <3>2, <4>1
    <3>4. HasLookup(n) => HasLookup(n)'
      BY <2>1, LookupStays
    <3>5. TwoCallers => TwoCallers'
      BY <2>1, <3>1, CallersStay
    <3>6. HasLookup(n)' => HasLookup(seqno[e])'
      BY <3>1, <3>2 DEF HasLookup, BlockAt, Height
    <3> QED BY <3>3, <3>4, <3>5, <3>6
  <2>3. EnclaveLossExplained'
    BY <2>2 DEF EnclaveLossExplained, HasLookup, TwoCallers
  <2> QED BY <2>1, <2>3, NextShape, OneReaderStep
<1>3. Inv => EnclaveLossExplained
  OBVIOUS
<1> HIDE DEF Inv
<1> QED BY <1>1, <1>2, <1>3, PTL DEF Spec
=============================================================================
