# A TLA+ model of Fabric Private Chaincode

This directory models the parts of this repository that decide whether a private
chaincode is executed, endorsed, validated and mirrored correctly: the ledger
enclave and the system chaincode that feeds it, one invocation of a chaincode
enclave up to the verdict on its signature, the registration of enclaves and its
validation, the process that hosts the chaincode enclave, the two auction
chaincodes that are built, and the task executor of the tests. TLC checks small instances; TLAPS
proves the safety properties for every value of the constants.

The repository is a fork of Hyperledger Fabric Private Chaincode with auction
chaincodes added to it. Nearly all of its files are vendored or generated
(`common/crypto/pdo`, `microgrid/vendor`, `integration/test-network`, `protos`,
the `_build` directories); the program itself is some 12,000 lines, and as many
again are earlier versions of the auction chaincodes.

## 1. Inventory

### The parts and how they interact

```
 client --proposal--> peer --Invoke--> ecc (Go) --ecall--> chaincode enclave
                       ^  |             |   ^                   |
                       |  |             |   +----- ocalls ------+
                       |  |             +-- GetState/PutState --> simulator of the peer
                       |  |             +-- InvokeChaincode ----> tlcc (cmac), ercc (registration)
                       |  +--> orderer --> block --> vscc plugins --> MVCC --> block store, state db
                       |                                                        |
                       +--- JOIN_CHANNEL --> tlcc (Go) --- every block ---------+
                                              +--ecall--> ledger enclave
```

| part | source | state it keeps | operations |
|---|---|---|---|
| ledger enclave | `tlcc_enclave/enclave` | `state` (map from `ns.key` to value hash and version), `sequence_number`, a lock | `parse_block`, `parse_endorser_transaction`, `commit_state_updates`, `ledger_get_state_hash`, `ledger_get_multi_state_hash`, local attestation report |
| trusted ledger chaincode | `tlcc`, `tlcc_enclave/trusted_ledger` | enclave id of the stub; one reader goroutine per JOIN_CHANNEL | `joinChannel`, `readBlocks`, `getStateMetadata`, `getLocalAttestationReport` |
| chaincode enclave | `ecc_enclave` | key pair, state key, session key shared with the ledger enclave; per invocation `read_set`, `write_set` | shim calls, `gen_response`, `ecall_bind_tlcc`, quotes |
| chaincode wrapper | `ecc` | enclave id, semaphore of `ENCLAVE_TCS_NUM` permits, registry of ocall contexts | `setup`, `invoke`, `getEnclavePk`; ocalls `get_state`, `put_state`, `get_state_by_partial_composite_key` |
| transaction validator | `plugins/ecc-vscc` | none; reads ercc's committed state | `checkEnclaveEndorsement` |
| enclave registry | `ercc`, `plugins/ercc-vscc`, `plugins/ercc-decorator` | attestation reports by key hash in ercc's namespace, MRENCLAVE in the chaincode's | `registerEnclave`, `getAttestationReport`, `getSPID`, `checkAttestation` |
| task executor | `internal/testing/executor` | task queue, two wait groups, pool of workers | `Start`, `Submit`, `SubmitDelayed`, `Wait`, `Stop` |
| composite keys | `internal/utils` | none | `IsFPCCompositeKey`, `TransformToFPCKey`, `SplitFPCCompositeKey` |
| chaincodes | `examples`, `demo/chaincode/fpc`, `july_15_2021`, `auction*.cpp` at the root | records in the ledger; `july15.cpp` also globals of the enclave | auction phases |

### What is hard

* **Two readers, one enclave.** Every JOIN_CHANNEL call leaves a goroutine
  behind and replaces the enclave id that all of them use. `parse_block` checks
  the block number before it takes the lock and commits under the lock much
  later.
* **Dropped return codes.** `NextBlock`, `Bind`, the errors of single
  transactions in `parse_block`, `PutState` in `registerEnclave`, `Submit` in
  `SubmitDelayed`.
* **Everything is computed twice.** The ledger enclave repeats the peer's
  validation; the shim and the peer's simulator both record an invocation; a
  bidder's eligibility is found by its id and by its place in a list. Each pair
  must agree.
* **Two clocks.** The value a chaincode reads comes from the peer's state
  database, its cmac from the ledger enclave, which follows the block store.
* **Buffers of fixed size** between Go and the enclave.
* **Permits.** A semaphore that two error paths do not give back.
* **Memory that is lost.** Enclaves keep nothing on disk: after a restart of the
  peer the ledger enclave must be rebuilt from the chain, the chaincode enclave
  set up again.
* **Check now, commit later.** Setups, bids and evaluations are simulated on one
  state and committed on another; only the versions of what they read stand
  between the two, and the plugins look at the state before the block.
* **A loop that restarts.** The spectrum auction applies bids in part, in an order
  that random values decide, and starts again after each; excess demand,
  eligibility and price must stay right through all of it, over several rounds.
* **Shutdown** of the executor while tasks are submitted, queued, delayed and
  run.

`PROJECT.json` lists these as hazards, each at its line, with the properties
aimed at it, or with a note on why no property covers it.

### What makes each part correct

* Ledger enclave: its map is the peer's state at the block it committed last; it
  never goes back; no block is left out; it keeps up.
* Invocation: whatever the enclave signed, the validator accepts; whatever the
  peer answers, the shim notices when the ledger enclave disagrees.
* Chaincode process: never more threads in the enclave than it has thread
  control structures; permits are accounted for; an ocall finds its own
  transaction; every transaction is answered.
* Registry: a committed registration carries a report over its own key, from an
  enclave with the chaincode's MRENCLAVE; MRENCLAVE never changes; a wrong
  MRENCLAVE file does not get past the plugin.
* Executor: no task runs twice; what was accepted before `Stop` completes;
  `Stop` returns.
* Auctions: a bid after closing has no effect; the winner is the highest bidder;
  nobody holds more licenses than it is eligible for; eligibility never grows; a
  territory hands out as many channels as licenses and never more than it has;
  what is stored can be loaded again.

## 2. Modules

| module | what it models |
|---|---|
| `LedgerState` | Data of the ledger enclave and, as operators, what it does with one transaction (`valid_tx`, `RecordedWrites`, `InsertWrites`, `parse_endorser_transaction`), next to what the peer does with it (`PeerCode`, `PeerBatch`; external). |
| `TrustedLedger` | `tlcc` and its enclaves: JOIN_CHANNEL calls, reader goroutines, `parse_block` transaction by transaction, the commit; the peer that validates, appends, crashes and restarts. |
| `Endorsement` | One invocation: shim calls, both books, the ledger enclave's map moving meanwhile, the signature, the verdict of the plugin. |
| `EnclaveChaincode` | The chaincode process: goroutines, semaphore, enclave id, registry, `setup`, `invoke`, `getEnclavePk`, aborts and restarts. |
| `LedgerView` | Abstract specification of what the ledger enclaves show; `TrustedLedger` implements it (`ImplementsView`). |
| `EnclaveRegistry` | Simulation of `__setup`, `registerEnclave` and invocations, blocks of them, `checkAttestation`, the lookup of the signing key, the version check. |
| `SpectrumAuction` | The clock auction of `demo/chaincode/fpc`, from `createAuction` to the published assignment, with the bid processing loop step by step. |
| `Auction` | The example auction as simulated transactions that overlap. |
| `Executor` | Clients, dispatcher, workers, `Wait` and `Stop`. |
| `MC*` | Instances for TLC: transaction shapes, matches of prefixes, symmetry. |
| `TrustedLedgerProofs`, `TrustedLedgerMirrorProofs`, `EndorsementProofs`, `EnclaveChaincodeProofs`, `EnclaveRegistryProofs`, `ExecutorProofs`, `SpectrumAuctionProofs`, `AuctionProofs` | Theorems. |

### LedgerState and TrustedLedger

A key is a number; the order of the numbers is the byte order of the names,
which is the order of a write set. `Ns[k]` is its namespace; `Composite` keys
start with a zero byte. A value is opaque, since the enclave only hashes it.
`Absent` marks a key that a map does not have.

A transaction is *shaped* by a client (what it reads, queries and writes, its
form, whether the plugin will accept it), *endorsed* against the state database
at some earlier height (`Endorse` records the versions), and *validated* against
the current one (`ValidateTx`). So a stale transaction is one that was endorsed
some blocks ago, as in the real system. A block remembers the update batch
before each transaction and the database after it; only the properties look at
these.

| state | code |
|---|---|
| `eid` | `StubImpl.eid` (`tlcc/enclave/enclave_stub.go`), shared by all readers |
| `seqno[e]`, `state[e]` | `sequence_number`, `state` (`ledger.cpp`); -1 is the unsigned -1 of the code, of which only `+ 1` is used |
| `status[e]` | `"crashed"` after a failed `assert` or a null pointer |
| `pc[c]`, `tgt[c]`, `blk[c]`, `idx[c]`, `updates[c]` | where a reader is, the enclave its ecall entered, the block and transaction it parses, the local `updates` of `parse_block` |

A reader's steps are: `JoinChannel`, `Create`, `InitWithGenesis` (ecall entry),
`CheckNumber` or `RejectNumber`, one of `PassTx`, `ApplyTx`, `ApplyTxFaults` or
`FailDecode` per transaction, `CommitStateUpdates` or `AssertFails`, then
`NextBlock`. Each is one critical section of the code or a piece without shared
state. The lock is held once per endorser transaction and once in the commit, so
these are the atomic steps.

### LedgerView

A ledger enclave shows the channel's state after some block (`at`, `shown`). It
moves on by one block at a time (`Advance`) and is lost with the peer or by a
fault (`Lose`); blocks are added to the channel (`Publish`). In the refinement
mapping an enclave that has not committed the genesis block, or is down, shows
nothing; every reader step except the commit of a new block is a stutter.

### Endorsement

`db` is the state database under the simulation, which the peer locks; `led` is
the ledger enclave's map, which may move at any moment (`LedgerMoves`).
`GetState`, `PutState` and `GetStateByPartialCompositeKey` are the shim call and
its ocall together, each in the encrypted and the public form: nothing else
changes these books in between. The hash that is signed, and that of a point
read, is the tuple of what is hashed. (The code hashes the parts one after
another, as `enclave.cpp:87-89` remarks; a collision could only make the validator
accept more, and `SignatureAccepted` is about what it refuses.) The hash of a range
query is the one of a text in which keys and values follow one another without
lengths (`shim.cpp:232`, `ledger.cpp:935`); the constant `RangeText` says which
text that is, and different answers may have one. A ciphertext carries the number
of the access as its nonce, so two encryptions of one value differ. `json` is what
the shim's stack buffer holds: when an answer does not fit, it is parsed
uninitialised, and the model takes nothing or the last contents.

`verdict` is what `checkEnclaveEndorsement` decides by rebuilding the message
from the peer's books (`Occurrences`, `ReadsAgree`, `SignatureVerifies`).

### EnclaveChaincode

A transaction is a chain of stub calls. `at[t]` is `"wait"` before
`sem.Acquire`, `"in"` inside the enclave, `"local"` while `setup` talks to the
peer, ercc or tlcc. `Leave` is the release; `LosePermit` the two error returns
without one (`Create`, `GetTargetInfo`). Enclaves are numbered in the order of
their creation; a process restart takes all of it away.

### EnclaveRegistry

An enclave stands for its key pair, and the registry is keyed by its hash. `Mr` is
its measurement, which the attestation report holds; `FileMr` is what the file
`mrenclave` beside the library says, which is what `setup` compares and writes
(`enclave_stub.go:507`). A `Genuine` enclave is one with a report that the
attestation service signed: the verifier does not look at the quote status in it
(`IsvEnclaveQuoteStatus`). A
`__setup` transaction carries the version of the MRENCLAVE it read and the value
it writes, if it found none. `CommitBlock` validates all transactions of a block
against the state before it (the plugins run in parallel) and then, in order,
compares versions with the writes of the valid ones before (`Valid`; external).
`Invoke` is also possible for an enclave whose setup failed after `Create`: the
stub keeps it, and only the lookup of its key refuses what it signs.
`mrenclave`, `registry` are the committed states of the chaincode's and ercc's
namespaces; `bySetup` and `accepted` are history.

### SpectrumAuction

One auction. Each variable is a field of the dynamic state for the current round
(`floor` is the posted price of the round before). `EndRound` fills in missing
bids, presets prices and puts the demands that change something into a queue
(`rank`: any order that the sort by price point allows, since random values
decide between equal ones). `ApplyBid` is one turn of the loop that applies a
bid; the turns that skip one change nothing and are in its guard (it is the first
that can be applied). `FailFinalStageRule`, `NextRound` and `CloseAuction` are
the three ends of the call. Prices are counted in fractions (`Unit`) of 1, since
the code keeps them as `double` and reads demands back as integers; `Readable`
is that conversion. A bidder is looked up in the list `Eligibilities` by its id
(`getEligibilityNumber`, which for a bidder that is not in it ends without a
`return`: any value), while the rounds take the list in its own order
(`getInitialEligibilities`). Unsigned integers wrap at `UIntSize`: `cap` does, and
the negative price that `isInteger` lets pass. Sums are cardinalities (`Total`), so that no RECURSIVE
operator is needed. A call whose evaluation fails stores nothing. Two calls on
one auction read and write the same key, so of two that overlap the version check
leaves one, and calls are atomic here.

### Auction

The keys of one auction: `"house"` (the two keys `init` writes), `"auction"`, the
bid of each bidder, `"outcome"`. A call reads versions and puts one value; it
waits in `pool` and is committed if the versions still hold. `Search` is the
loop of `auction_eval` over the bids in key order, a recursive function of the
number of bidders it has passed; `Result` is what `auction_eval` publishes.
`atClose` is history: the bids committed when `close` was.

### Executor

Unbuffered channels are joint steps of both ends, buffered ones sequences, wait
groups counters. A submission goes through the state check, `wg.Add` and the
send as separate steps; a delayed one also through its timer. With `QueueLength`
0 the channel `tasks` has no buffer, and a send is a joint step with the
dispatcher. `stopFor` and
`waitFor` record what was accepted when `Stop` and `Wait` were called.

## 3. What TLC checks

States are distinct states of the complete search. `ecc_threads`, `ledger_any`,
`endorse_books` and `spectrum_rounds` take one to three minutes, the others less
than one.

| run | instance | shows | states |
|---|---|---|---|
| `ledger_mirror` | 2 JOIN_CHANNEL calls, blocks of up to 2 of an increment and a transfer, 3 blocks | `TypeOK`; `MirrorsPeer`; `NoBlockLost` although return codes are dropped; `ImplementsView`, the refinement of `LedgerView` | 184,589 |
| `ledger_any` | 2 calls, every form of transaction (blind, ranged, rejected, ercc, a lookup of ercc, config, empty, garbled, undecodable), 3 blocks of one, a crash of the peer, fairness | `EntriesHaveOrigin`; `NoRollback`; `OneReaderCommits`: the assertion of `commit_state_updates` holds until a second call; `EnclaveLossExplained`: an enclave dies of a lookup of ercc or of a second call, of nothing else; `CatchesUp`: it follows the chain until then, or until a block that does not decode | 324,893 |
| `endorse_books` | 1 plain, 2 composite keys, 2 overlapping prefixes, any 2 accesses, a value that is too long, a range buffer of 2, one listed result, `__init`, the ledger enclave moves | `TypeOK`; `SignatureAccepted`: the four kinds of invocation that are refused, and no other; `MismatchDetected` | 5,361,900 |
| `ecc_threads` | 3 goroutines, 2 permits, 2 setups, 2 invocations, 1 failure, 1 restart, fairness | `TypeOK`; `TcsBound`; `PermitsAccounted`; `OwnStubs`; `Responds`, with fewer failures than permits | 179,572 |
| `registry_setup` | 2 builds of one chaincode (3 enclaves, and one with the other build's file), a second chaincode, an enclave that is not attested, 4 transactions, blocks of up to 3, fairness of the orderer | `TypeOK`; `MrEnclaveFixed`; `RegisteredCodeIsCommitted`; `PluginChecksFile`; `AcceptedAfterRegistration`; `MrEnclaveDefined` | 199,026 |
| `spectrum_rounds` | 2 bidders with 2 and 1 by place and 1 and 2 by id, 16 unsigned integers, territories of 1 and 2 channels, 3 rounds, 3 prices and a negative one, every bid the checks admit | `TypeOK`; `EligibilityKept`; `ExcessAgrees`; `PricesInRange`; `FinalStageDecidedFirst`; `ChannelsMatchLicenses`; `EligibilityNeverGrows`; `EvaluationEnds` | 109,723 |
| `auction_close` | 3 bidders, values -1, 0 and 1, 8 calls | `TypeOK`; `OutcomeOfBidsAtClose` | 2,067,357 |
| `exec_stop` | 3 tasks (1 delayed), 2 workers, a queue of 1, fairness | `TypeOK`; `RunsOnce`; `StopCompletes`; `StopAlwaysReturns`; `AcceptedRuns` | 124,179 |

Four runs end in a violation; they state what a comment or an assertion of the
code says (quoted under `findings`):

| run | what it shows |
|---|---|
| `ledger_rejoin` | `CommitAssertion`: with a second JOIN_CHANNEL two readers pass the check of the block number, one commits, the assertion of the other aborts the enclave. |
| `exec_wait` | `WaitCompletes`: `Wait` "waits for all outstanding tasks to complete" (`executor.go:131`); it returns when the last one has been handed to a worker, which still runs it. |
| `spectrum_order` | `CapWithinEligibility`: with the eligibilities in another order than the bidders, which `checkValidity` admits, round 1 checks a bid against another bidder's number; the licenses it grants exceed the eligibility of the round, and `eligibilityCap` wraps. |
| `spectrum_reload` | `StateReadable`: with an increment of 50 percent the posted price is fractional; the bid that `endRound` fills in for a bidder who made none carries it, `Demand::fromJsonObject` refuses it, and no later call can load the auction. (With a negative offer, as in `spectrum_rounds`, a bid of round 1 does the same.) |

### Why the bounds are enough to see the interesting cases

* *Ledger.* Two readers are the fewest that can feed one enclave. With three
  blocks (genesis and two more) one reader can be a block ahead of the other, a
  transaction can be endorsed a block early, and with two transactions a block a
  conflict can arise within a block and across blocks. The proofs cover all
  sizes.
* *Endorsement.* Two overlapping prefixes and a plain key give every way in
  which a key can be read twice, and two accesses are enough for each of them, for
  a key that is put twice and for a leftover buffer. A range buffer of 2 holds two
  short results and not a long one, and the list of 1 is exceeded by two. Longer
  invocations are covered by the proofs.
* *Chaincode process.* Three goroutines for two permits: one always waits. Two
  setups: one before and one after a restart, or one during an invocation of the
  other's enclave. That keys of the registry are not used again after more
  invocations is proved.
* *Registry.* Three setups of one chaincode from two builds can be in one block,
  in two or simulated after the first was committed, one of them with the wrong
  file, with an invocation or a direct registration as the fourth transaction. The safety properties are
  proved for all sizes.
* *Spectrum auction.* Round 1 grants without regard to supply, so excess demand,
  its removal by decreases, increases that wait for eligibility and the cut of
  eligibility all occur in rounds 2 and 3; with two territories a bidder moves
  licenses from one to the other within a round. The two bidders can have all
  ties, and the sum of their demands exceeds the supply. In `spectrum_rounds` the
  list is consistent about one bidder and the cap of the other wraps, so that
  `EligibilityKept` is checked next to a bidder without a limit.
* *Example auction.* Eight calls: init, create, three bids of which two can be a
  draw below the third, a second bid or a bid that overlaps with close, close and
  eval.
* *Executor.* The queue is full with one task, both workers can be busy, a third
  task waits with the dispatcher, and one timer can fire before or after `Stop`.
  The proofs cover every capacity, 0 included.

`CHECK_DEADLOCK FALSE` is set everywhere: a chain that has reached its bound, an
invocation that was judged and an executor that was stopped have no further
step. That a system which should go on does go on is stated as liveness.

### Fairness

* `TrustedLedger`: weak fairness of each reader (`Create`, ecalls, `NextBlock`).
  A goroutine that can run is scheduled, and an ecall returns. Nobody promises
  that a client calls JOIN_CHANNEL or that the peer produces blocks, and
  `CreateFails` is never forced.
* `EnclaveChaincode`: strong fairness of `Acquire` for each goroutine, because
  `golang.org/x/sync/semaphore` serves its waiters in FIFO order, so a waiter
  cannot be passed by for ever; weak fairness of `Proceed`, because the
  chaincode and the peer answer.
* `EnclaveRegistry`: weak fairness of the orderer (external): as long as something
  waits, a block is cut.
* `SpectrumAuction`: weak fairness of `Evaluate`, the steps of one call of
  `endRound`, which runs to its end. Owners and bidders need never call.
* `Executor`: weak fairness of each submission that has begun, each worker, the
  dispatcher and the goroutine in `Stop`. Clients need never call.

## 4. What is proved

Every theorem holds for all values of the constants that satisfy the named
assumptions (which TLC evaluates in the runs).

* **`TrustedLedgerProofs!TypeCorrect`**: `Spec => []TypeOK`, and
  **`NoRollbackCorrect`**: `Spec => NoRollback`, for any number of callers,
  blocks and transactions, and for every kind of transaction. The invariant is
  `WellFormed`: the types, the shape of the chain (a block has as many codes as
  transactions and one batch more) and of the readers (an ecall is in an enclave
  that exists; `blk` is a block of the chain; updates are empty outside
  `parse_block`). `NoRollback` also needs `OwnUpdates`: what a reader has in
  `updates` has the number of the block it parses.
* **`TrustedLedgerProofs!EntriesHaveOriginCorrect`**: `Spec =>
  []EntriesHaveOrigin`, with no hypothesis on the chain. The invariant adds
  `Origin`: what a reader has in `updates` was written by the transaction that its
  version names, in a block the reader has parsed up to there. A block of the chain
  never changes, so this survives every other reader's commit.
* **`TrustedLedgerProofs!OneReaderCommitsCorrect`**: `Spec =>
  []OneReaderCommits`. The invariant `OneReader` is about states with one reader:
  if it parses a block, the block follows the one the enclave has committed,
  because the number was compared under that same reader.
* **`TrustedLedgerProofs!NoBlockLostCorrect`**: `ASSUME Decodable PROVE Spec =>
  []NoBlockLost`. `Decodable` (no transaction of form `"garbled"`) holds in run
  `ledger_mirror`; the invariant `Fed` says that the enclave created last has
  committed every block before the one its own reader has in hand.
* **`TrustedLedgerProofs!EnclaveLossAlwaysExplained`**: `Spec =>
  []EnclaveLossExplained`, with no hypothesis on the chain or the callers. A fault
  of `parse_block` needs a transaction that only looks up ercc in the block after
  the last committed one; the assertion fails only with two readers, by
  `OneReader`. Blocks and readers stay, so the explanation does too.
* **`TrustedLedgerMirrorProofs!MirrorCorrect`**: `ASSUME ReadModifyWrite PROVE
  Spec => []MirrorsPeer`. The hypothesis says that transactions are accepted by
  the plugins, read the plain keys they write, make no range query, and write
  exactly one ercc key if they touch ercc. The invariant adds `PeerReplays` (a
  block's batches are what the peer's function yields, one transaction after the
  other, and the versions of its reads are not later than the chain) and
  `ReadersMirror` (a reader whose block follows the one its enclave committed
  has in `updates` exactly the tracked part of the peer's batch at that
  transaction). The main lemma is that under these conditions the enclave's
  check of the versions (`<`, on the map and on the updates) accepts exactly
  what the peer's check (`=`, on the database and the batch) accepts.
* **`TrustedLedgerMirrorProofs!ViewImplemented`**: `ASSUME ReadModifyWrite PROVE
  Spec => ImplementsView`. With the same invariant, the initial states map to the
  initial state of `LedgerView`; an appended block is `Publish` (the states after
  earlier blocks stay), a commit is `Advance`, a crash or a fault is `Lose`, and
  lemma `QuietSteps` shows that all other steps change nothing that is mapped.
* **`EndorsementProofs!MismatchAlwaysDetected`**: `ASSUME Unambiguous PROVE Spec =>
  []MismatchDetected`. `Unambiguous` says that the contents a query can meet have
  different texts; TLC evaluates it for the instance of `endorse_books`, and
  section 5 says which keys and values break it. The rest is about what the peer
  may answer: a stale value, none, or the leftover of another query.
* **`EndorsementProofs!SignatureAlwaysAccepted`**: `Spec => []SignatureAccepted`,
  with no hypothesis on the chaincode, for every number of accesses. The
  invariant says that, as long as none of the four cases has occurred, the shim's
  read set is the union of the point reads and the results of the queries, and the
  write sets are equal (`BooksAgree`); `PutsCounted` ties the entries of the write
  set to the number of puts.
  **`EndorsementTypeCorrect`**: `Spec => []TypeOK`.
* **`EnclaveChaincodeProofs!PermitsCorrect`**: `Spec => [](PermitsAccounted /\
  TcsBound)` for any number of goroutines. The lemmas follow
  `Cardinality(Inside)` through entering, leaving and losing a permit.
  **`TcsBoundCorrect`** states the second part by itself.
* **`EnclaveChaincodeProofs!OwnStubsCorrect`**: `Spec => []OwnStubs`.
  `RegistryInv` says that an invocation in progress has a key between 1 and
  `index`, that the registry holds it there, and hence that no two have the same
  key. **`EnclaveChaincodeTypeCorrect`**: `Spec => []TypeOK`, from both
  invariants and `EnclavesInv` (enclave ids are of enclaves this process made).
* **`EnclaveRegistryProofs`**: `RegistryTypeCorrect`, `RegisteredCodeCorrect`,
  `MrEnclaveNeverChanges`, `PluginChecksFileCorrect` and `AcceptedCorrect`, for
  all chaincodes, enclaves, files and block sizes. The invariant adds `Versioned` (a
  MRENCLAVE is there exactly if it has a version) and `HonestPool` (a setup that
  found none writes the MRENCLAVE of its file; one that found one found the same,
  which is still there). The lemmas are that at most one valid transaction of a block
  defines a chaincode's MRENCLAVE (`OneDefiner`) and that it does so only where
  there is none (`DefinerFindsNone`), so that the choice in `CommitBlock` is no
  choice (`BlockDefines`).

* **`ExecutorProofs`**: `ExecutorTypeCorrect`, `RunsOnceCorrect` and
  `StopCompletesCorrect`, for any number of tasks, workers and places in the
  queue. The heart of the invariant is `OnePlace` (an
  accepted task is in the queue, with the dispatcher, with one worker or
  completed, and only in one of these) and `Counters`, which says what each wait
  group counts: `wg` the submissions from `Add` until a worker has the task (a
  delayed one twice while its `Submit` waits for room), `taskWg` the busy workers
  and the task in the dispatcher's hands, the pool's the workers not yet stopped.
  That a counter is zero when `Stop` goes on then says that the set is
  empty, and `Promises` carries this to the return of the call.
* **`SpectrumAuctionProofs`**: `SpectrumTypeCorrect`, `EligibilityKeptCorrect`,
  `ExcessAgreesCorrect`, `PricesInRangeCorrect`, `FinalStageCorrect`,
  `ChannelsCorrect` and `EligibilityNeverGrowsCorrect`, for all bidders,
  territories, supplies, prices, percentages and lists of eligibilities of
  `AuctionAssumption`. `EligibilityKept` is about the bidders the list is
  `Consistent` about (looked up by id with no more than their place gives them,
  which in a list in the order of the bidders are all), next to others whose cap
  wraps. The
  properties are parts of one invariant, `AuctionInv`: the cap of a consistent
  bidder follows its licenses, which bounds a move from above and keeps it from
  wrapping (`Wrapped`, `WithinStep`); demand that
  has reached the supply stays there (`Stage`), which bounds it from below; bids
  of later rounds are within the prices of the round (`Clocks`), from which the
  posted prices are; the first round, which grants what was asked for, is a case
  of its own (`FirstRound`). The lemmas on `Total` take it as the number of
  elements of a set of units, so that moving one license (`TotalUpdate`),
  comparing (`TotalMonotone`) and extending with zeros (`TotalPadded`) follow from
  facts on cardinality, with no induction. The rounding of percentages is in
  `ClockAbove`, `ActivityKept` and `ActivityCuts`. For the channels, the owners
  in the order of the list occupy disjoint intervals of places
  (`OwnerByInterval`), and the shuffle is a bijection.
* **`AuctionProofs`**: `AuctionTypeCorrect` and `OutcomeCorrect`, for any list of
  bidders, any integers as bids and any number of calls. Two arguments meet. One is
  about versions: `submit` and `close` have read the auction while it was open
  (`ReadOpen`), so neither is current once it is closed, the committed bids stay
  `atClose` (`Frozen`), and every `eval` that waits has computed on just these.
  The other is about the loop: `Found` says what `high`, `draw` and `winner` mean
  after `i` bidders (the highest bid met or -1, whether there is another one like
  it, the first one that made it), `TurnFinds` that a turn keeps it, and
  `SearchFinds` concludes by induction. The library's induction rules take an
  operator and cannot be used, so `SetInduction` states induction for a *set* of
  numbers and is derived from the well-foundedness of `<` (`WFMin`), and
  `RunExists` shows that the function that `Search` defines by its own values
  exists.

All safety properties of the runs, invariants and action properties, are thereby
proved, as is the refinement. Only model-checked: the liveness properties
`CatchesUp`, `Responds`, `MrEnclaveDefined`, `StopAlwaysReturns`, `AcceptedRuns`
and `EvaluationEnds`, since liveness under fairness and ENABLED are out of the
prover's reach. The four runs that find a violation show it on their instance.
The models declare no RECURSIVE operator.

## 5. Limits: where the hypotheses are needed

Where a passing run or a theorem is restricted, the code goes on to do something
else beyond the restriction. The first list is of behaviours that the modules
contain: another value of a constant, or the property without its exception, shows
them. The second is of what the modules leave out.

* `MirrorsPeer`, `ImplementsView`. A transaction the validation plugin rejected
  has code 10; the enclave skips code 1 only (`ledger.cpp:168`) and applies its
  writes, although the comment there says that invalidated transactions are
  skipped. Two blind writes of one key in a block: `updates.insert` keeps
  the first, the peer the last. Range queries: the enclave does not notice
  phantoms. A submitted transaction that only reads ercc: `writes[0]` of an
  empty write set is dereferenced (`ApplyTxFaults`). A point read of a composite
  key is cut off at its zero byte and never checked. A block with an envelope
  that does not decode is never committed, and neither is any later one
  (`CatchesUp`). Since its runs have no code 10, `MirrorsPeer` does not speak of
  the rejected transactions; `EntriesHaveOrigin` does, and holds with them.
* `SignatureAccepted`. A key written twice: the enclave
  signs the first value, `insert` keeping it (`shim.cpp:153`), the peer submits the
  second; a key read by
  name and in a range query, or in two range queries, is listed twice by the
  plugin and once by the enclave; more range results than the peer lists are
  hashed and skipped by the plugin; for `__init` the plugin expects another type
  than was signed.
* `MismatchDetected` is one-sided: the alarm is also raised where nothing is
  wrong (every absent key, values that are too long, composite keys read by
  name), and it is a log line; the value is returned to the chaincode all the
  same.
* `MismatchDetected` also needs `Unambiguous`: the public value `x.a.c.y` under
  `.a.b.` has the text of two entries `.a.b.` with `x` and `.a.c.` with `y`, one
  hash, and no alarm.
* `OwnStubs` is about ocalls. The *key* in a response may be another enclave's: the
  test against a second `__setup` (`enclave_chaincode.go:93`) never holds, and one
  between `Invoke` and `GetPublicKey` (line 206) replaces the enclave id. The
  validator refuses such a response.
* `RegisteredCodeIsCommitted` is about keys registered through `__setup`: the
  plugin checks no other call, and `registerEnclave` called directly registers any
  attested enclave, of whatever MRENCLAVE.
* `OutcomeOfBidsAtClose` needs a bid that is not negative: the search starts at -1,
  so a single bid of -1 is a draw, and if all are lower the winner is a `bid_t`
  whose value nobody set. Two bidders whose names make one key are one bidder.
* `EligibilityKept` is about bidders the list of eligibilities is consistent about;
  run `spectrum_order` shows the others.
* A territory whose excess demand jumps from below to above zero in one step keeps
  its old posted price for the round. Of the bids in one block all but the first
  are invalidated, since all write one key; a bidder that does not try again has
  made no bid.
* `PluginChecksFile`: a chaincode whose file is wrong on every peer gets no
  MRENCLAVE, and with a right one on the ledger its setups are refused before they
  are submitted.
* `Responds` needs fewer failures of `Create` and `GetTargetInfo` than permits;
  `PermitsAccounted` counts the lost permits and does not object to them.
* `StopCompletes`. A `Submit` that is past its state check when `Stop` is called
  may be accepted and never run; a delayed task whose timer fires after `Stop`
  is dropped.

Left out:

* Deletes. The ledger enclave dereferences the value of every write
  (`ledger.cpp:600, 662, 697`), and that of a delete is null; the comment at 599
  says that deletes are not supported, and shapes have none.
* The ledger enclave's own check of a chaincode enclave's signature
  (`ledger.cpp:730-823`): its verdict is a log line and changes no state. It
  re-encodes the arguments with parson (762), where the enclave signed what Go
  encoded, and reads the list of range results of a union that may hold a hash
  (493); nothing is claimed about its agreement with the plugin.
* Two concurrent calls of `Stop`: both can pass the state check
  (`executor.go:140`), and the second blocks on `terminating`. The model has one
  caller.
* Hexadecimal digits in two cases: `setup` compares MRENCLAVE as strings, the
  plugin as bytes; files are taken to be in one case.
* In the spectrum auction: prices, activity and increment of 0, which
  `checkValidity` admits (with an increment of 0 the price point is 0 / 0); two
  territories or two bidders with one id; `double` rounding (prices are exact
  where `Unit` is fine enough). The conversion of a negative `double` to
  `uint32_t` is taken to wrap; the language leaves it undefined.
* More than one example auction: keys are put together with dots, so that a bid in
  auction `a` and one in `a.b` can have one key.

## 6. Not modelled

* Third-party code: `common/crypto/pdo` (with tinyscheme, a WebAssembly runtime
  and the CCF transaction processor), `protos`, `microgrid/vendor`, Fabric samples
  in `integration/test-network`, `common/json`. It is nearly all of the code in
  the repository by lines and none of its logic; the modules take what is used of
  it as given (cryptography is ideal).
* Cryptography, base64, JSON, ASN.1 and protobuf decoding: ideal, except where a
  conversion loses information that a property depends on (the zero byte of
  composite keys, the pointer that is tested in place of a length, the hash of
  an absent value, the price that must be an integer).
* `parse_config` and the certificate checks of the ledger enclave, which log and
  change no state.
* Composite keys as strings (`internal/utils`): conversions without state; keys
  are distinct values in all modules.
* `july15.cpp` and its earlier versions (`june*`, the auction files at the root):
  inline assembly whose operands and clobbers are not declared, and reads of
  buffers and registers that were not set. What a build of it does is not
  determined by the source, and a model would be of one compiler's output. The
  hazards of its globals are listed.
* HTTP to the attestation service, the demo client and its front end, build
  scripts, patches and containers, the stub in `microgrid`.

## 7. What is left

1. Proofs under weaker hypotheses, if a larger class of chains and chaincodes has
   the property: `MirrorsPeer` with blind writes as long as a block writes a key
   once.
2. Composition of `Endorsement` with `LedgerView`: `led` as what the enclave
   shows, with namespaces, so that a chaincode's read is compared with a block
   height.

## 8. Running it

```
tlc -workers 2 -config ledger_mirror.cfg MCTrustedLedger
tlc -workers 2 -config endorse_books.cfg MCEndorsement
tlc -workers 2 -config ecc_threads.cfg MCEnclaveChaincode
tlc -workers 2 -config exec_stop.cfg MCExecutor
tlc -workers 2 -config registry_setup.cfg MCEnclaveRegistry
tlc -workers 2 -config spectrum_rounds.cfg MCSpectrumAuction
tlc -workers 2 -config auction_close.cfg MCAuction
tlapm TrustedLedgerMirrorProofs.tla
tlapm AuctionProofs.tla
```

`PROJECT.json` lists the runs with their modules and configurations, the source
lines behind every definition, and for each property a mutant: a definition with
a plausible mistake (`Create_NoRelease`, `FreshRead_StateOnly`, ...) under which
TLC finds the property violated.
