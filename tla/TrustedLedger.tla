--------------------------- MODULE TrustedLedger ---------------------------
(***************************************************************************)
(* The trusted ledger of a peer: the system chaincode tlcc (tlcc/tlcc.go)  *)
(* creates a ledger enclave for every JOIN_CHANNEL call, feeds it the      *)
(* genesis block and then, from a goroutine of its own, every later block  *)
(* of the peer's block store.  The enclave (tlcc_enclave/enclave) parses a *)
(* block transaction by transaction and commits its updates.               *)
(*                                                                         *)
(* A caller c stands for one JOIN_CHANNEL call and the goroutine it leaves *)
(* behind; the enclave the call creates is named c as well.  All callers   *)
(* share tlcc's enclave stub, whose eid is the enclave created last.       *)
(*                                                                         *)
(* The peer (external) orders and validates transactions one at a time and *)
(* appends blocks.  A block remembers, for the properties, the update      *)
(* batch before each transaction and the state database after the block.   *)
(***************************************************************************)
EXTENDS LedgerState

CONSTANTS
  Callers,      \* JOIN_CHANNEL calls in the life of one peer process
  MaxBlocks,    \* bound: blocks in the chain, the genesis block included
  MaxTxs,       \* bound: transactions in a block
  MaxCrashes    \* bound: spontaneous crashes of the peer

ASSUME BoundsAssumption == MaxBlocks \in Nat /\ MaxTxs \in Nat /\ MaxCrashes \in Nat

NoEnclave == "no enclave"
ASSUME CallersAssumption == NoEnclave \notin Callers

VARIABLES
  chain,      \* the peer's block store; block number n is chain[n + 1]
  pend,       \* the block the peer is validating
  peerUp,     \* the peer process runs
  crashes,    \* spontaneous crashes so far
  eid,        \* StubImpl.eid: the enclave the next ecall goes to
  status,     \* status[e]: "none", "up" or "crashed"
  seqno,      \* seqno[e]: sequence_number of enclave e
  state,      \* state[e]: the map of enclave e
  pc,         \* pc[c]: what caller c does next
  tgt,        \* tgt[c]: the enclave caller c's ecall runs in
  blk,        \* blk[c]: number of the block caller c read last
  idx,        \* idx[c]: next transaction of that block, counted from 1
  updates     \* updates[c]: the updates of parse_block

peerVars == <<chain, pend, crashes>>
enclaveVars == <<status, seqno, state>>
parseVars == <<tgt, blk, idx, updates>>
vars == <<chain, pend, peerUp, crashes, eid, status, seqno, state, pc, tgt, blk, idx, updates>>

Block == [txs : Seq(Tx), codes : Seq(Codes), batches : Seq(KVS), post : KVS]
ConfigTx ==
  [form |-> "config", vscc |-> TRUE, reads |-> EmptyMap, range |-> EmptyMap, writes |-> EmptyMap]
Genesis == [txs |-> <<ConfigTx>>, codes |-> <<VALID>>,
            batches |-> <<EmptyMap, EmptyMap>>, post |-> EmptyMap]
NoPending == [txs |-> <<>>, codes |-> <<>>, batches |-> <<EmptyMap>>]

BlockAt(n) == chain[n + 1]
Height == Len(chain)
CurrentDb == chain[Len(chain)].post

PC == {"idle", "create", "init", "check", "txs", "read"}

\* The variables range over their types.
TypeOK ==
  /\ chain \in Seq(Block)
  /\ pend \in [txs : Seq(Tx), codes : Seq(Codes), batches : Seq(KVS)]
  /\ peerUp \in BOOLEAN
  /\ crashes \in Nat
  /\ eid \in Callers \cup {NoEnclave}
  /\ status \in [Callers -> {"none", "up", "crashed"}]
  /\ seqno \in [Callers -> Nat \cup {-1}]
  /\ state \in [Callers -> KVS]
  /\ pc \in [Callers -> PC]
  /\ tgt \in [Callers -> Callers \cup {NoEnclave}]
  /\ blk \in [Callers -> Nat]
  /\ idx \in [Callers -> Nat \ {0}]
  /\ updates \in [Callers -> KVS]
-----------------------------------------------------------------------------
(***************************************************************************)
(* The peer (external).                                                    *)
(***************************************************************************)

Init ==
  /\ chain = <<Genesis>>
  /\ pend = NoPending
  /\ peerUp = TRUE
  /\ crashes = 0
  /\ eid = NoEnclave
  /\ status = [c \in Callers |-> "none"]
  /\ seqno = [c \in Callers |-> -1]
  /\ state = [c \in Callers |-> EmptyMap]
  /\ pc = [c \in Callers |-> "idle"]
  /\ tgt = [c \in Callers |-> NoEnclave]
  /\ blk = [c \in Callers |-> 0]
  /\ idx = [c \in Callers |-> 1]
  /\ updates = [c \in Callers |-> EmptyMap]

\* The next transaction of the block: endorsed against the state database at
\* some earlier height h, validated against the current one.
ValidateTx(shape, h) ==
  /\ peerUp
  /\ Height < MaxBlocks
  /\ Len(pend.txs) < MaxTxs
  /\ LET tx == Endorse(shape, chain[h].post)
         n == Len(pend.txs)
         batch == pend.batches[n + 1]
         version == [block_num |-> Height, tx_num |-> n]
     IN  pend' = [txs |-> Append(pend.txs, tx),
                  codes |-> Append(pend.codes, PeerCode(tx, CurrentDb, batch)),
                  batches |-> Append(pend.batches, PeerBatch(tx, CurrentDb, batch, version))]
  /\ UNCHANGED <<chain, peerUp, crashes, eid, enclaveVars, pc, parseVars>>

AppendBlock ==
  /\ peerUp
  /\ Len(pend.txs) > 0
  /\ chain' = Append(chain,
       [txs |-> pend.txs, codes |-> pend.codes, batches |-> pend.batches,
        post |-> Override(CurrentDb, pend.batches[Len(pend.txs) + 1])])
  /\ pend' = NoPending
  /\ UNCHANGED <<peerUp, crashes, eid, enclaveVars, pc, parseVars>>

PeerCrash ==
  /\ peerUp
  /\ crashes < MaxCrashes
  /\ crashes' = crashes + 1
  /\ peerUp' = FALSE
  /\ UNCHANGED <<chain, pend, eid, enclaveVars, pc, parseVars>>

\* The block store is on disk; nothing of tlcc and of the enclaves is, and
\* tlcc only joins the channel when JOIN_CHANNEL is called again.
PeerRestart ==
  /\ ~ peerUp
  /\ peerUp' = TRUE
  /\ pend' = NoPending
  /\ eid' = NoEnclave
  /\ status' = [c \in Callers |-> "none"]
  /\ seqno' = [c \in Callers |-> -1]
  /\ state' = [c \in Callers |-> EmptyMap]
  /\ pc' = [c \in Callers |-> "idle"]
  /\ tgt' = [c \in Callers |-> NoEnclave]
  /\ blk' = [c \in Callers |-> 0]
  /\ idx' = [c \in Callers |-> 1]
  /\ updates' = [c \in Callers |-> EmptyMap]
  /\ UNCHANGED <<chain, crashes>>
-----------------------------------------------------------------------------
(***************************************************************************)
(* JOIN_CHANNEL and the reader goroutine.                                  *)
(***************************************************************************)

Goto(c, to) == pc' = [pc EXCEPT ![c] = to]

\* joinChannel opens the ledger and reads the genesis block.
JoinChannel(c) ==
  /\ peerUp
  /\ pc[c] = "idle"
  /\ Goto(c, "create")
  /\ UNCHANGED <<peerVars, peerUp, eid, enclaveVars, parseVars>>

\* A new enclave has fresh statics: sequence_number is (uint32_t)-1, so that
\* sequence_number + 1 is 0.  Its eid replaces the one in the stub.
Create(c) ==
  /\ peerUp
  /\ pc[c] = "create"
  /\ status' = [status EXCEPT ![c] = "up"]
  /\ seqno' = [seqno EXCEPT ![c] = -1]
  /\ state' = [state EXCEPT ![c] = EmptyMap]
  /\ eid' = c
  /\ Goto(c, "init")
  /\ UNCHANGED <<peerVars, peerUp, parseVars>>

\* A failure of initNewEnclave is a panic of the peer process.
CreateFails(c) ==
  /\ peerUp
  /\ pc[c] = "create"
  /\ peerUp' = FALSE
  /\ UNCHANGED <<peerVars, eid, enclaveVars, pc, parseVars>>

\* The ecall is dispatched to the eid the stub holds now.
InitWithGenesis(c) ==
  /\ peerUp
  /\ pc[c] = "init"
  /\ tgt' = [tgt EXCEPT ![c] = eid]
  /\ blk' = [blk EXCEPT ![c] = 0]
  /\ Goto(c, "check")
  /\ UNCHANGED <<peerVars, peerUp, eid, enclaveVars, idx, updates>>

\* readBlocks: iter.Next() blocks until the peer has the next block.
NextBlock(c) ==
  /\ peerUp
  /\ pc[c] = "read"
  /\ blk[c] + 1 < Height
  /\ blk' = [blk EXCEPT ![c] = @ + 1]
  /\ tgt' = [tgt EXCEPT ![c] = eid]
  /\ Goto(c, "check")
  /\ UNCHANGED <<peerVars, peerUp, eid, enclaveVars, idx, updates>>
-----------------------------------------------------------------------------
(***************************************************************************)
(* parse_block, run by caller c in enclave tgt[c].                         *)
(***************************************************************************)

\* Mutant: the index is reset to 0.
ForgetParse_IndexZero(c) ==
  /\ idx' = [idx EXCEPT ![c] = 0]
  /\ updates' = [updates EXCEPT ![c] = EmptyMap]

ForgetParse(c) ==
  /\ idx' = [idx EXCEPT ![c] = 1]
  /\ updates' = [updates EXCEPT ![c] = EmptyMap]

\* The ecall returns.  joinChannel panics on an error; readBlocks never sees
\* one, because NextBlock drops the return code, and reads the next block.
Return(c, success) ==
  /\ Goto(c, "read")
  /\ peerUp' = (success \/ blk[c] # 0)
  /\ ForgetParse(c)
  /\ UNCHANGED <<peerVars, eid, tgt, blk>>

\* Mutant: any block but the genesis block is taken.
CheckNumber_AnyNumber(c) ==
  /\ peerUp
  /\ pc[c] = "check"
  /\ status[tgt[c]] = "up"
  /\ blk[c] > 0 \/ blk[c] = seqno[tgt[c]] + 1
  /\ Goto(c, "txs")
  /\ UNCHANGED <<peerVars, peerUp, eid, enclaveVars, parseVars>>

CheckNumber(c) ==
  /\ peerUp
  /\ pc[c] = "check"
  /\ status[tgt[c]] = "up"
  /\ blk[c] = seqno[tgt[c]] + 1
  /\ Goto(c, "txs")
  /\ UNCHANGED <<peerVars, peerUp, eid, enclaveVars, parseVars>>

\* LEDGER_INVALID_BLOCK_NUMBER
RejectNumber(c) ==
  /\ peerUp
  /\ pc[c] = "check"
  /\ status[tgt[c]] = "up"
  /\ blk[c] # seqno[tgt[c]] + 1
  /\ Return(c, FALSE)
  /\ UNCHANGED enclaveVars

\* Every ecall into a crashed enclave, and every thread in one, fails.
EcallFails(c) ==
  /\ peerUp
  /\ pc[c] \in {"check", "txs"}
  /\ status[tgt[c]] = "crashed"
  /\ Return(c, FALSE)
  /\ UNCHANGED enclaveVars

CurTx(c) == BlockAt(blk[c]).txs[idx[c]]
CurCode(c) == BlockAt(blk[c]).codes[idx[c]]

AtTx(c) ==
  /\ peerUp
  /\ pc[c] = "txs"
  /\ status[tgt[c]] = "up"
  /\ idx[c] <= Len(BlockAt(blk[c]).txs)

\* The transactions parse_block passes over: marked invalid in the
\* transaction filter with code 1.
Skipped(c) == CurCode(c) = NIL_ENVELOPE

\* A transaction that leaves updates alone: skipped, no endorser transaction,
\* or one that does not decode (parse_block ignores the error).
PassTx(c) ==
  /\ AtTx(c)
  /\ Skipped(c) \/ CurTx(c).form \in {"config", "badtx"}
  /\ idx' = [idx EXCEPT ![c] = @ + 1]
  /\ UNCHANGED <<peerVars, peerUp, eid, enclaveVars, pc, tgt, blk, updates>>

\* decode_pb returns LEDGER_ERROR_DECODING from parse_block.
FailDecode(c) ==
  /\ AtTx(c)
  /\ ~ Skipped(c) /\ CurTx(c).form = "garbled"
  /\ Return(c, FALSE)
  /\ UNCHANGED enclaveVars

\* Mutant: transactions are numbered from 1.
ApplyTx_CountFromOne(c) ==
  /\ AtTx(c)
  /\ ~ Skipped(c) /\ CurTx(c).form = "endorser"
  /\ LET tx == CurTx(c)
         version == [block_num |-> blk[c], tx_num |-> idx[c]]
     IN  /\ ~ (valid_tx(tx, state[tgt[c]], updates[c]) /\ DereferencesNull(tx))
         /\ updates' = [updates EXCEPT
              ![c] = parse_endorser_transaction(tx, state[tgt[c]], @, version)]
  /\ idx' = [idx EXCEPT ![c] = @ + 1]
  /\ UNCHANGED <<peerVars, peerUp, eid, enclaveVars, pc, tgt, blk>>

\* One endorser transaction, under the lock, against the map as it is now.
ApplyTx(c) ==
  /\ AtTx(c)
  /\ ~ Skipped(c) /\ CurTx(c).form = "endorser"
  /\ LET tx == CurTx(c)
         version == [block_num |-> blk[c], tx_num |-> idx[c] - 1]
     IN  /\ ~ (valid_tx(tx, state[tgt[c]], updates[c]) /\ DereferencesNull(tx))
         /\ updates' = [updates EXCEPT
              ![c] = parse_endorser_transaction(tx, state[tgt[c]], @, version)]
  /\ idx' = [idx EXCEPT ![c] = @ + 1]
  /\ UNCHANGED <<peerVars, peerUp, eid, enclaveVars, pc, tgt, blk>>

\* The same, when the ercc branch reads through a null pointer.
ApplyTxFaults(c) ==
  /\ AtTx(c)
  /\ ~ Skipped(c) /\ CurTx(c).form = "endorser"
  /\ valid_tx(CurTx(c), state[tgt[c]], updates[c]) /\ DereferencesNull(CurTx(c))
  /\ status' = [status EXCEPT ![tgt[c]] = "crashed"]
  /\ Return(c, FALSE)
  /\ UNCHANGED <<seqno, state>>

AtCommit(c) ==
  /\ peerUp
  /\ pc[c] = "txs"
  /\ status[tgt[c]] = "up"
  /\ idx[c] > Len(BlockAt(blk[c]).txs)

\* Mutant: sequence_number is not advanced.
CommitStateUpdates_KeepNumber(c) ==
  /\ AtCommit(c)
  /\ blk[c] = seqno[tgt[c]] + 1
  /\ state' = [state EXCEPT ![tgt[c]] = Override(@, updates[c])]
  /\ Return(c, TRUE)
  /\ UNCHANGED <<status, seqno>>

\* Mutant: without the assertion.
CommitStateUpdates_NoAssert(c) ==
  /\ AtCommit(c)
  /\ seqno' = [seqno EXCEPT ![tgt[c]] = blk[c]]
  /\ state' = [state EXCEPT ![tgt[c]] = Override(@, updates[c])]
  /\ Return(c, TRUE)
  /\ UNCHANGED status

\* commit_state_updates, under the lock.
CommitStateUpdates(c) ==
  /\ AtCommit(c)
  /\ blk[c] = seqno[tgt[c]] + 1
  /\ seqno' = [seqno EXCEPT ![tgt[c]] = blk[c]]
  /\ state' = [state EXCEPT ![tgt[c]] = Override(@, updates[c])]
  /\ Return(c, TRUE)
  /\ UNCHANGED status

\* The assertion of commit_state_updates does not hold: the enclave aborts.
AssertFails(c) ==
  /\ AtCommit(c)
  /\ blk[c] # seqno[tgt[c]] + 1
  /\ status' = [status EXCEPT ![tgt[c]] = "crashed"]
  /\ Return(c, FALSE)
  /\ UNCHANGED <<seqno, state>>
-----------------------------------------------------------------------------
Peer ==
  \/ \E shape \in Shapes, h \in 1 .. Height : ValidateTx(shape, h)
  \/ AppendBlock
  \/ PeerCrash
  \/ PeerRestart

Parse(c) ==
  \/ CheckNumber(c) \/ RejectNumber(c) \/ EcallFails(c)
  \/ PassTx(c) \/ FailDecode(c) \/ ApplyTx(c) \/ ApplyTxFaults(c)
  \/ CommitStateUpdates(c) \/ AssertFails(c)

Reader(c) == Create(c) \/ InitWithGenesis(c) \/ NextBlock(c) \/ Parse(c)

Next ==
  \/ Peer
  \/ \E c \in Callers : JoinChannel(c) \/ CreateFails(c) \/ Reader(c)

Spec == Init /\ [][Next]_vars

\* A goroutine that can run runs, and an enclave call returns.
Fairness == \A c \in Callers : WF_vars(Reader(c))

FairSpec == Spec /\ Fairness
-----------------------------------------------------------------------------
(***************************************************************************)
(* Properties.                                                             *)
(***************************************************************************)

\* Working(e): enclave e exists and has committed the genesis block.
Working(e) == status[e] = "up" /\ seqno[e] >= 0

\* The enclave's map is, for the namespaces it keeps, exactly the state
\* database of the peer after the block the enclave committed last: however far
\* it lags, whatever other reader feeds it, commit_state_updates applies the
\* transactions the peer held valid and no others.
MirrorsPeer ==
  \A e \in Callers : Working(e) =>
    /\ seqno[e] < Height
    /\ state[e] = Track(BlockAt(seqno[e]).post)

\* An entry of the map comes from the chain: its version names a committed
\* block and a transaction of it, not filtered out, that wrote this value to
\* this key.  updates of one parse_block never leak into another's commit.
EntriesHaveOrigin ==
  \A e \in Callers, k \in Keys :
    status[e] = "up" /\ state[e][k] # Absent =>
      LET n == state[e][k].ver.block_num
          i == state[e][k].ver.tx_num + 1
      IN  /\ n <= seqno[e] /\ n < Height
          /\ i <= Len(BlockAt(n).txs)
          /\ k \in KeysOf(BlockAt(n).txs[i].writes)
          /\ state[e][k].val = BlockAt(n).txs[i].writes[k]
          /\ BlockAt(n).codes[i] # NIL_ENVELOPE

\* The map and sequence_number of an enclave change together, one block at a
\* time, and an entry is only ever replaced by a write of the new block:
\* a second reader that is behind cannot roll the ledger back.
NoRollback ==
  [][\A e \in Callers :
       status[e] = "up" /\ status'[e] = "up" =>
         \/ seqno'[e] = seqno[e] /\ state'[e] = state[e]
         \/ /\ seqno'[e] = seqno[e] + 1
            /\ \A k \in Keys :
                 state'[e][k] # state[e][k] => state'[e][k].ver.block_num = seqno'[e]]_vars

\* assert(block_sequence_number == sequence_number + 1) in commit_state_updates.
CommitAssertion ==
  \A c \in Callers : AtCommit(c) => blk[c] = seqno[tgt[c]] + 1

\* The assertion holds as long as no second JOIN_CHANNEL call was made in the life
\* of the peer process, also after blocks that parse_block gave up on.
OneReaderCommits ==
  \A c \in Callers :
    AtCommit(c) /\ (\A d \in Callers \ {c} : pc[d] = "idle") => blk[c] = seqno[tgt[c]] + 1

\* Although NextBlock drops the return code of parse_block, a rejected block is
\* never missing: the enclave tlcc uses has committed every block that the
\* reader started with it has handed over, whatever older readers send to it.
NoBlockLost ==
  \A c \in Callers :
    eid = c /\ status[c] = "up" /\ pc[c] = "read" /\ peerUp => seqno[c] >= blk[c]

\* The ledger enclaves as the abstract ledger has them: one that committed the
\* genesis block shows its map at the block it committed last.
View ==
  INSTANCE LedgerView WITH
    Enclaves <- Callers,
    Empty <- EmptyMap,
    height <- Height,
    content <- [n \in 0 .. Height - 1 |-> Track(BlockAt(n).post)],
    at <- [e \in Callers |-> IF Working(e) THEN seqno[e] ELSE -1],
    shown <- [e \in Callers |-> IF Working(e) THEN state[e] ELSE EmptyMap]

\* For chaincodes that read what they write, the enclave and its readers implement
\* the abstract ledger: parse_block and commit_state_updates take an enclave from
\* the channel's state after one block to the state after the next, in one step,
\* or change nothing.
ImplementsView == View!Spec

\* A transaction that reads the registry and writes nothing to it.
LookupOnly(tx) ==
  /\ \E k \in KeysOf(tx.reads) \cup KeysOf(tx.range) : Ns[k] = "ercc"
  /\ \A k \in KeysOf(tx.writes) : Ns[k] # "ercc"

\* An enclave is lost in two ways only.  Either the block after the last one it
\* committed has an endorser transaction, not filtered out, that only looks up the
\* registry (writes[0] is read through null, ledger.cpp:659); or a second
\* JOIN_CHANNEL call was made in the life of the peer process.  In particular no
\* block that parse_block gave up on makes a later commit fail.
EnclaveLossExplained ==
  \A e \in Callers : status[e] = "crashed" =>
    \/ /\ seqno[e] + 1 < Height
       /\ LET block == BlockAt(seqno[e] + 1)
          IN  \E i \in 1 .. Len(block.txs) :
                /\ block.codes[i] # NIL_ENVELOPE
                /\ block.txs[i].form = "endorser"
                /\ LookupOnly(block.txs[i])
    \/ \E c, d \in Callers : c # d /\ pc[c] # "idle" /\ pc[d] # "idle"

\* Block n has an envelope that does not decode.
Undecodable(n) ==
  /\ n < Height
  /\ \E i \in 1 .. Len(BlockAt(n).txs) :
       BlockAt(n).codes[i] # NIL_ENVELOPE /\ BlockAt(n).txs[i].form = "garbled"

\* The enclave tlcc uses catches up with every block the peer has, until the peer
\* stops or the enclave is lost; a block that does not decode is the only one at
\* which it gets stuck, for good.
CatchesUp ==
  \A n \in 0 .. MaxBlocks - 1 :
    (Height > n /\ eid # NoEnclave) ~>
      \/ ~ peerUp
      \/ /\ eid # NoEnclave
         /\ \/ seqno[eid] >= n
            \/ status[eid] = "crashed"
            \/ Undecodable(seqno[eid] + 1)
=============================================================================
