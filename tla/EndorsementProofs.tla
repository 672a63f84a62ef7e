------------------------- MODULE EndorsementProofs -------------------------
(***************************************************************************)
(* What the plugin refuses is explained, and a wrong answer of the peer is *)
(* noticed, for every set of keys, prefixes and values, and for every      *)
(* number of accesses.                                                     *)
(***************************************************************************)
EXTENDS Endorsement, TLAPS

(***************************************************************************)
(* Types.  The type invariant is inductive: what a read tells the chaincode*)
(* comes from the state database or from an earlier range query.           *)
(***************************************************************************)

\* The keys under a prefix are keys, and the answers to a range query are lists
\* of keys and stored values.
LEMMA AnswersType ==
  ASSUME TypeOK, NEW p \in Prefixes, NEW answer \in Answers(p)
  PROVE  /\ Match[p] \subseteq Keys
         /\ answer \subseteq Keys \X Stored
  <1>1. Match[p] \subseteq Keys
    BY EndorsementAssumption
  <1>2. ASSUME NEW k \in Results(p)
        PROVE  <<k, db[k]>> \in Keys \X Stored
    BY <1>1, <1>2 DEF Results, TypeOK, Db
  <1>3. {<<k, db[k]>> : k \in Results(p)} \subseteq Keys \X Stored
    BY <1>2
  <1> QED
    BY <1>1, <1>3 DEF Answers, TypeOK

\* What a point read records of the answer.
LEMMA PointToldType ==
  ASSUME TypeOK, NEW k \in Keys
  PROVE  [by |-> k, key |-> k, told |-> Returned(k), held |-> led[k], alarm |-> ~ CmacMatches(k)] \in Told
  <1>1. Returned(k) \in Stored \cup {Absent} /\ led[k] \in Stored \cup {Absent}
    BY DEF Returned, TypeOK, Db
  <1>2. (~ CmacMatches(k)) \in BOOLEAN
    OBVIOUS
  <1> QED
    BY <1>1, <1>2 DEF Told

\* What a range query records.
LEMMA RangeToldType ==
  ASSUME TypeOK, NEW p \in Prefixes, NEW k \in Keys, NEW v \in Stored \cup {Absent}, NEW answer
  PROVE  [by |-> p, key |-> k, told |-> v, held |-> led[k], alarm |-> ~ RangeCmacMatches(p, answer)] \in Told
  <1>1. led[k] \in Stored \cup {Absent}
    BY DEF TypeOK, Db
  <1>2. (~ RangeCmacMatches(p, answer)) \in BOOLEAN
    OBVIOUS
  <1> QED
    BY <1>1, <1>2 DEF Told

\* The books hold keys and stored values of the chaincode, whatever the peer
\* answers and whatever is left in the buffer of range queries.
THEOREM EndorsementTypeCorrect == Spec => []TypeOK
  <1>0. MaxOps \in Nat /\ MaxMoves \in Nat
    BY EndorsementAssumption
  <1>a. Before \subseteq Stored
    BY <1>0 DEF Before, Stored
  <1>1. Init => TypeOK
    BY <1>0, <1>a DEF Init, TypeOK, Db
  <1>2. TypeOK /\ [Next]_vars => TypeOK'
    <2> SUFFICES ASSUME TypeOK, [Next]_vars
                 PROVE  TypeOK'
      OBVIOUS
    <2> USE <1>0 DEF TypeOK, ledger, shimBooks, simBooks
    <2>1. ASSUME NEW k \in Keys, NEW decrypt \in BOOLEAN, GetState(k, decrypt)
          PROVE  TypeOK'
      <3>1. seen' \subseteq Told
        BY <2>1, PointToldType DEF GetState
      <3>2. ops' \in 0 .. MaxOps /\ pc' \in {"run", "signed", "failed", "judged"}
        BY <2>1 DEF GetState, Access
      <3> QED
        BY <2>1, <3>1, <3>2 DEF GetState
    <2>2. ASSUME NEW p \in Prefixes, NEW decrypt \in BOOLEAN, NEW answer \in Answers(p),
                 GetStateByPartialCompositeKey(p, decrypt, answer)
          PROVE  TypeOK'
      <3> DEFINE found == {[by |-> p, key |-> kv[1], told |-> kv[2], held |-> led[kv[1]],
                            alarm |-> ~ RangeCmacMatches(p, answer)] : kv \in answer}
                 missing == {j \in Match[p] : \A kv \in answer : kv[1] # j}
                 lost == {[by |-> p, key |-> k, told |-> Absent, held |-> led[k],
                           alarm |-> ~ RangeCmacMatches(p, answer)] : k \in missing}
      <3>1. Match[p] \subseteq Keys /\ answer \subseteq Keys \X Stored
        BY AnswersType
      <3>2. \A kv \in answer : kv[1] \in Keys /\ kv[2] \in Stored
        BY <3>1
      <3>3. found \subseteq Told
        BY <3>2, RangeToldType
      <3>4. lost \subseteq Told
        BY <3>1, RangeToldType
      <3>5. seen' = found \cup lost
        BY <2>2 DEF GetStateByPartialCompositeKey
      <3>6. read_set' = read_set \cup {kv[1] : kv \in answer}
        BY <2>2 DEF GetStateByPartialCompositeKey
      <3>7. read_set' \subseteq Keys
        BY <3>2, <3>6
      <3>8. ops' \in 0 .. MaxOps /\ pc' \in {"run", "signed", "failed", "judged"}
        BY <2>2 DEF GetStateByPartialCompositeKey, Access
      <3> HIDE DEF found, lost
      <3> QED
        BY <2>2, <3>1, <3>3, <3>4, <3>5, <3>7, <3>8 DEF GetStateByPartialCompositeKey
    <2>3. ASSUME NEW k \in Keys, NEW v \in Values, NEW encrypt \in BOOLEAN, PutState(k, v, encrypt)
          PROVE  TypeOK'
      <3> DEFINE value == [val |-> v, encrypted |-> encrypt, iv |-> IF encrypt THEN ops + 1 ELSE 0]
      <3>1. ops' \in 0 .. MaxOps /\ ops + 1 \in 0 .. MaxOps
        BY <2>3 DEF PutState, Access
      <3>2. value \in Stored
        BY <3>1 DEF Stored
      <3>3. /\ write_set' = IF write_set[k] = Absent THEN [write_set EXCEPT ![k] = value] ELSE write_set
            /\ simWrites' = [simWrites EXCEPT ![k] = value]
        BY <2>3 DEF PutState
      <3> HIDE DEF value
      <3>4. write_set' \in Db /\ simWrites' \in Db
        BY <3>2, <3>3 DEF Db
      <3>5. puts' \in [Keys -> Nat]
        BY <2>3 DEF PutState
      <3> QED
        BY <2>3, <3>1, <3>4, <3>5 DEF PutState
    <2>4. ASSUME NEW k \in Keys, NEW s \in Before \cup {Absent}, LedgerMoves(k, s)
          PROVE  TypeOK'
      <3>1. led' \in Db /\ moves' \in 0 .. MaxMoves
        BY <2>4, <1>a DEF LedgerMoves, Db
      <3> QED
        BY <2>4, <3>1 DEF LedgerMoves
    <2>5. CASE InvokeFails
      BY <2>5 DEF InvokeFails
    <2>6. CASE GenResponse
      BY <2>6 DEF GenResponse
    <2>7. ASSUME NEW registered \in BOOLEAN, checkEnclaveEndorsement(registered)
          PROVE  TypeOK'
      BY <2>7 DEF checkEnclaveEndorsement
    <2>8. CASE UNCHANGED vars
      BY <2>8 DEF vars
    <2> QED
      BY <2>1, <2>2, <2>3, <2>4, <2>5, <2>6, <2>7, <2>8 DEF Next
  <1> QED
    BY <1>1, <1>2, PTL DEF Spec
-----------------------------------------------------------------------------
(***************************************************************************)
(* The shim notices.  Given the entries that are compared, the property is *)
(* inductive as it stands: the records of a read are covered by its own    *)
(* check.                                                                  *)
(***************************************************************************)

\* Both maps hold what earlier transactions left.
Earlier == db \in [Keys -> Before \cup {Absent}] /\ led \in [Keys -> Before \cup {Absent}]

LEMMA EarlierStep ==
  ASSUME Earlier, [Next]_vars
  PROVE  Earlier'
  <1>1. ASSUME UNCHANGED <<db, led>>
        PROVE  Earlier'
    BY <1>1 DEF Earlier
  <1>2. ASSUME NEW k \in Keys, NEW s \in Before \cup {Absent}, LedgerMoves(k, s)
        PROVE  Earlier'
    BY <1>2 DEF LedgerMoves, Earlier
  <1> QED
    BY <1>1, <1>2 DEF Next, vars, ledger, GetState, PutState, GetStateByPartialCompositeKey, InvokeFails,
      GenResponse, checkEnclaveEndorsement

\* get_state: when the cmac matches, the value that is returned is the one the
\* ledger enclave holds.
LEMMA PointReadNoticed ==
  ASSUME NEW k \in Keys, CmacMatches(k)
  PROVE  Returned(k) = led[k]
  BY DEF CmacMatches, ShimHash, LedgerHash

\* The entries of a map under a prefix are contents a range query can meet.
LEMMA IsContents ==
  ASSUME NEW p \in Prefixes, NEW map \in [Keys -> Before \cup {Absent}]
  PROVE  {<<k, map[k]>> : k \in {j \in Match[p] : map[j] # Absent}} \in Contents(p)
  <1> DEFINE f == [k \in Match[p] |-> map[k]]
  <1>1. Match[p] \subseteq Keys
    BY EndorsementAssumption
  <1>2. f \in [Match[p] -> Before \cup {Absent}]
    BY <1>1
  <1>3. {j \in Match[p] : f[j] # Absent} = {j \in Match[p] : map[j] # Absent}
    OBVIOUS
  <1>4. {<<k, f[k]>> : k \in {j \in Match[p] : f[j] # Absent}}
          = {<<k, map[k]>> : k \in {j \in Match[p] : map[j] # Absent}}
    BY <1>3
  <1> HIDE DEF f
  <1> QED
    BY <1>2, <1>4 DEF Contents

\* get_state_by_partial_composite_key: when the cmac matches and the text that is
\* hashed is unambiguous, the answer is the part of the ledger enclave's map under
\* the prefix.
LEMMA RangeReadNoticed ==
  ASSUME Unambiguous, Earlier, NEW p \in Prefixes, NEW answer \in Answers(p),
         RangeCmacMatches(p, answer)
  PROVE  /\ \A kv \in answer : kv[2] = led[kv[1]]
         /\ \A k \in Match[p] : (\A kv \in answer : kv[1] # k) => led[k] = Absent
  <1>1. answer = {<<k, db[k]>> : k \in {j \in Match[p] : db[j] # Absent}}
    BY DEF Answers, RangeCmacMatches, Results
  <1>2. answer \in Contents(p) /\ Held(p) \in Contents(p)
    BY <1>1, IsContents DEF Held, Earlier
  <1>3. answer = Held(p)
    BY <1>2 DEF Unambiguous, RangeCmacMatches
  <1>4. ASSUME NEW kv \in answer
        PROVE  kv[2] = led[kv[1]]
    BY <1>3 DEF Held
  <1>5. ASSUME NEW k \in Match[p], \A kv \in answer : kv[1] # k
        PROVE  led[k] = Absent
    <2>1. led[k] # Absent => <<k, led[k]>> \in answer
      BY <1>3 DEF Held
    <2> QED
      BY <1>5, <2>1
  <1> QED
    BY <1>4, <1>5

\* For a chaincode whose keys and values make the hashed text unambiguous, no read
\* of the shim returns, without an integrity error, anything but what the ledger
\* enclave holds.
THEOREM MismatchAlwaysDetected ==
  ASSUME Unambiguous
  PROVE  Spec => []MismatchDetected
  <1> DEFINE Inv == Earlier /\ MismatchDetected
  <1>1. Init => Inv
    BY DEF Init, MismatchDetected, Earlier
  <1>2. Inv /\ [Next]_vars => Inv'
    <2> SUFFICES ASSUME Inv, [Next]_vars
                 PROVE  MismatchDetected'
      BY EarlierStep
    <2>0. ASSUME UNCHANGED seen
          PROVE  MismatchDetected'
      BY <2>0 DEF MismatchDetected
    <2>1. ASSUME NEW k \in Keys, NEW decrypt \in BOOLEAN, GetState(k, decrypt)
          PROVE  MismatchDetected'
      <3> DEFINE new == [by |-> k, key |-> k, told |-> Returned(k), held |-> led[k], alarm |-> ~ CmacMatches(k)]
      <3>1. seen' = {new}
        BY <2>1 DEF GetState
      <3>2. new.told # new.held => new.alarm
        BY PointReadNoticed
      <3> QED
        BY <3>1, <3>2 DEF MismatchDetected
    <2>2. ASSUME NEW p \in Prefixes, NEW decrypt \in BOOLEAN, NEW answer \in Answers(p),
                 GetStateByPartialCompositeKey(p, decrypt, answer)
          PROVE  MismatchDetected'
      <3> DEFINE found == {[by |-> p, key |-> kv[1], told |-> kv[2], held |-> led[kv[1]],
                            alarm |-> ~ RangeCmacMatches(p, answer)] : kv \in answer}
                 missing == {j \in Match[p] : \A kv \in answer : kv[1] # j}
                 lost == {[by |-> p, key |-> k, told |-> Absent, held |-> led[k],
                           alarm |-> ~ RangeCmacMatches(p, answer)] : k \in missing}
      <3>1. seen' = found \cup lost
        BY <2>2 DEF GetStateByPartialCompositeKey
      <3>2. ASSUME NEW s \in found
            PROVE  s.told # s.held => s.alarm
        <4>1. PICK kv \in answer : s = [by |-> p, key |-> kv[1], told |-> kv[2], held |-> led[kv[1]],
                                       alarm |-> ~ RangeCmacMatches(p, answer)]
          OBVIOUS
        <4>2. s.told = kv[2] /\ s.held = led[kv[1]] /\ s.alarm = ~ RangeCmacMatches(p, answer)
          BY <4>1
        <4>3. RangeCmacMatches(p, answer) => kv[2] = led[kv[1]]
          BY RangeReadNoticed
        <4> QED
          BY <4>2, <4>3
      <3>3. ASSUME NEW s \in lost
            PROVE  s.told # s.held => s.alarm
        <4>1. PICK k \in missing : s = [by |-> p, key |-> k, told |-> Absent, held |-> led[k],
                                       alarm |-> ~ RangeCmacMatches(p, answer)]
          OBVIOUS
        <4>2. s.told = Absent /\ s.held = led[k] /\ s.alarm = ~ RangeCmacMatches(p, answer)
          BY <4>1
        <4>3. RangeCmacMatches(p, answer) => led[k] = Absent
          BY RangeReadNoticed
        <4> QED
          BY <4>2, <4>3
      <3> HIDE DEF found, lost
      <3> QED
        BY <3>1, <3>2, <3>3 DEF MismatchDetected
    <2>3. ASSUME NEW k \in Keys, NEW v \in Values, NEW encrypt \in BOOLEAN, PutState(k, v, encrypt)
          PROVE  MismatchDetected'
      BY <2>3, <2>0 DEF PutState
    <2>4. ASSUME NEW k \in Keys, NEW s \in Before \cup {Absent}, LedgerMoves(k, s)
          PROVE  MismatchDetected'
      BY <2>4, <2>0 DEF LedgerMoves
    <2>5. CASE InvokeFails
      BY <2>5, <2>0 DEF InvokeFails
    <2>6. CASE GenResponse
      BY <2>6, <2>0 DEF GenResponse
    <2>7. ASSUME NEW registered \in BOOLEAN, checkEnclaveEndorsement(registered)
          PROVE  MismatchDetected'
      BY <2>7, <2>0 DEF checkEnclaveEndorsement
    <2>8. CASE UNCHANGED vars
      BY <2>8, <2>0 DEF vars
    <2> QED
      BY <2>1, <2>2, <2>3, <2>4, <2>5, <2>6, <2>7, <2>8 DEF Next
  <1>3. Inv => MismatchDetected
    OBVIOUS
  <1> HIDE DEF Inv
  <1> QED
    BY <1>1, <1>2, <1>3, PTL DEF Spec
-----------------------------------------------------------------------------
(***************************************************************************)
(* Refusals are explained.  Unless one of the causes is there, and a cause *)
(* never goes away, the two books agree: the writes are equal, and the     *)
(* shim has the reads of the simulator.                                    *)
(***************************************************************************)

Excused == (\E k \in Keys : puts[k] > 1) \/ ReadTwice \/ BeyondLimits \/ function = "__init"

BooksAgree ==
  /\ simWrites = write_set
  /\ read_set = simReads \cup UNION {Results(p) : p \in simRanges}

\* A key that was not put has no entry in the write sets.
PutsCounted == \A k \in Keys : puts[k] = 0 => write_set[k] = Absent

RefusalInv ==
  /\ PutsCounted
  /\ Excused \/ BooksAgree
  /\ SignatureAccepted

\* Books that agree carry one signature: the plugin rebuilds what was signed.
LEMMA AgreeingBooksVerify ==
  ASSUME TypeOK, BooksAgree, ~ Excused
  PROVE  SignatureVerifies
  <1>1. \A p \in simRanges : RawReads(p) = Results(p)
    BY DEF Excused, BeyondLimits
  <1>2. "point" \notin simRanges
    BY EndorsementAssumption DEF TypeOK
  <1>3. ASSUME NEW k \in Keys
        PROVE  /\ k \in read_set <=> Occurrences(k) # {}
               /\ \A x, y \in Occurrences(k) : x = y
    <2>1. Occurrences(k) = (IF k \in simReads THEN {"point"} ELSE {}) \cup {p \in simRanges : k \in Results(p)}
      BY <1>1 DEF Occurrences
    <2>2. k \in read_set <=> (k \in simReads \/ \E p \in simRanges : k \in Results(p))
      BY DEF BooksAgree
    <2>3. k \in read_set <=> Occurrences(k) # {}
      BY <2>1, <2>2
    <2>4. k \in simReads => \A p \in simRanges : k \notin Results(p)
      BY DEF Excused, ReadTwice
    <2>5. \A p, q \in simRanges : k \in Results(p) /\ k \in Results(q) => p = q
      BY DEF Excused, ReadTwice
    <2>6. \A x, y \in Occurrences(k) : x = y
      BY <2>1, <2>4, <2>5
    <2> QED
      BY <2>3, <2>6
  <1>4. function = "invoke"
    BY EndorsementAssumption DEF TypeOK, Excused
  <1> QED
    BY <1>3, <1>4 DEF SignatureVerifies, ReadsAgree, BooksAgree

\* What a range query finds and how it is listed depends on the database alone.
LEMMA ResultsStay ==
  ASSUME UNCHANGED db
  PROVE  /\ \A p : Results(p)' = Results(p)
         /\ \A p : Fits(p)' <=> Fits(p)
         /\ \A p : RawReads(p)' = RawReads(p)
  <1>1. \A p : Results(p)' = Results(p)
    BY DEF Results
  <1>2. \A p : Fits(p)' <=> Fits(p)
    BY <1>1 DEF Fits
  <1>3. \A p : RawReads(p)' = RawReads(p)
    BY <1>1 DEF RawReads
  <1> QED
    BY <1>1, <1>2, <1>3

\* A cause stays.
LEMMA ExcusedStays ==
  ASSUME TypeOK, Excused, UNCHANGED <<db, function>>,
         simReads \subseteq simReads', simRanges \subseteq simRanges',
         \A k \in Keys : puts'[k] >= puts[k], puts' \in [Keys -> Nat]
  PROVE  Excused'
  <1>1. CASE \E k \in Keys : puts[k] > 1
    BY <1>1 DEF TypeOK, Excused
  <1>2. CASE ReadTwice
    BY <1>2, ResultsStay DEF Excused, ReadTwice
  <1>3. CASE BeyondLimits
    BY <1>3, ResultsStay DEF Excused, BeyondLimits
  <1>4. CASE function = "__init"
    BY <1>4 DEF Excused
  <1> QED
    BY <1>1, <1>2, <1>3, <1>4 DEF Excused

\* A step that leaves the books alone.
LEMMA RefusalFrame ==
  ASSUME RefusalInv, UNCHANGED <<db, function, read_set, write_set, simReads, simRanges, simWrites, puts>>
  PROVE  /\ Excused' <=> Excused
         /\ PutsCounted' /\ (Excused \/ BooksAgree)'
  <1>1. ReadTwice' <=> ReadTwice
    BY ResultsStay DEF ReadTwice
  <1>2. BeyondLimits' <=> BeyondLimits
    BY ResultsStay DEF BeyondLimits
  <1>3. Excused' <=> Excused
    BY <1>1, <1>2 DEF Excused
  <1>4. BooksAgree' <=> BooksAgree
    BY ResultsStay DEF BooksAgree
  <1>5. PutsCounted'
    BY DEF RefusalInv, PutsCounted
  <1> QED
    BY <1>3, <1>4, <1>5 DEF RefusalInv

\* Of the invocations of an honest peer and enclave checkEnclaveEndorsement refuses
\* only those that put a key twice, read one in two ways, exceed a limit of the shim
\* or of the peer, or are an "__init".
THEOREM SignatureAlwaysAccepted == Spec => []SignatureAccepted
  <1>1. Init => RefusalInv
    BY DEF Init, RefusalInv, PutsCounted, BooksAgree, SignatureAccepted
  <1>2. TypeOK /\ TypeOK' /\ RefusalInv /\ [Next]_vars => RefusalInv'
    <2> SUFFICES ASSUME TypeOK, TypeOK', RefusalInv, [Next]_vars
                 PROVE  RefusalInv'
      OBVIOUS
    <2>0. ASSUME UNCHANGED <<db, function, read_set, write_set, simReads, simRanges, simWrites, puts, verdict>>
          PROVE  RefusalInv'
      <3>1. (Excused' <=> Excused) /\ PutsCounted' /\ (Excused \/ BooksAgree)'
        BY <2>0, RefusalFrame
      <3>2. SignatureAccepted'
        BY <2>0, <3>1 DEF RefusalInv, SignatureAccepted, Excused
      <3> QED
        BY <3>1, <3>2 DEF RefusalInv
    <2>1. ASSUME NEW k \in Keys, NEW decrypt \in BOOLEAN, GetState(k, decrypt)
          PROVE  RefusalInv'
      <3>1. /\ UNCHANGED <<db, function, write_set, simRanges, simWrites, puts, verdict>>
            /\ read_set' = read_set \cup {k} /\ simReads' = simReads \cup {k}
        BY <2>1 DEF GetState
      <3>2. Excused => Excused'
        BY <3>1, ExcusedStays DEF TypeOK
      <3>3. BooksAgree => BooksAgree'
        BY <3>1, ResultsStay DEF BooksAgree
      <3>4. SignatureAccepted'
        BY <3>1, <3>2 DEF RefusalInv, SignatureAccepted, Excused
      <3> QED
        BY <3>1, <3>2, <3>3, <3>4 DEF RefusalInv, PutsCounted
    <2>2. ASSUME NEW p \in Prefixes, NEW decrypt \in BOOLEAN, NEW answer \in Answers(p),
                 GetStateByPartialCompositeKey(p, decrypt, answer)
          PROVE  RefusalInv'
      <3>1. /\ UNCHANGED <<db, function, write_set, simReads, simWrites, puts, verdict>>
            /\ read_set' = read_set \cup {kv[1] : kv \in answer}
            /\ simRanges' = simRanges \cup {p}
        BY <2>2 DEF GetStateByPartialCompositeKey
      <3>2. Excused => Excused'
        BY <3>1, ExcusedStays DEF TypeOK
      <3>3. ASSUME ~ Excused', BooksAgree
            PROVE  BooksAgree'
        <4>1. Fits(p)
          BY <3>1, <3>3, ResultsStay DEF Excused, BeyondLimits
        <4>2. answer = {<<k, db[k]>> : k \in Results(p)}
          BY <4>1 DEF Answers
        <4>3. {kv[1] : kv \in answer} = Results(p)
          <5>1. \A kv \in answer : kv[1] \in Results(p)
            BY <4>2
          <5>2. \A k \in Results(p) : <<k, db[k]>> \in answer /\ <<k, db[k]>>[1] = k
            BY <4>2
          <5> QED
            BY <5>1, <5>2
        <4>4. read_set' = simReads' \cup UNION {Results(q) : q \in simRanges'}
          BY <3>1, <3>3, <4>3 DEF BooksAgree
        <4>5. {Results(q)' : q \in simRanges'} = {Results(q) : q \in simRanges'}
          BY <3>1, ResultsStay
        <4> QED
          BY <3>1, <3>3, <4>4, <4>5 DEF BooksAgree
      <3>4. SignatureAccepted'
        BY <3>1, <3>2 DEF RefusalInv, SignatureAccepted, Excused
      <3> QED
        BY <3>1, <3>2, <3>3, <3>4 DEF RefusalInv, PutsCounted
    <2>3. ASSUME NEW k \in Keys, NEW v \in Values, NEW encrypt \in BOOLEAN, PutState(k, v, encrypt)
          PROVE  RefusalInv'
      <3> DEFINE value == [val |-> v, encrypted |-> encrypt, iv |-> IF encrypt THEN ops + 1 ELSE 0]
      <3>1. /\ UNCHANGED <<db, function, read_set, simReads, simRanges, verdict>>
            /\ puts' = [puts EXCEPT ![k] = @ + 1]
            /\ write_set' = IF write_set[k] = Absent THEN [write_set EXCEPT ![k] = value] ELSE write_set
            /\ simWrites' = [simWrites EXCEPT ![k] = value]
        BY <2>3 DEF PutState
      <3> HIDE DEF value
      <3>2. puts \in [Keys -> Nat] /\ puts' \in [Keys -> Nat] /\ write_set \in Db
        BY DEF TypeOK
      <3>3. Excused => Excused'
        BY <3>1, <3>2, ExcusedStays
      <3>4. PutsCounted'
        BY <3>1, <3>2 DEF RefusalInv, PutsCounted, Db
      <3>5. ASSUME ~ Excused', BooksAgree
            PROVE  BooksAgree'
        <4>1. puts[k] = 0
          BY <3>1, <3>2, <3>5 DEF Excused
        <4>2. write_set[k] = Absent
          BY <4>1 DEF RefusalInv, PutsCounted
        <4>3. simWrites' = write_set'
          BY <3>1, <3>5, <4>2 DEF BooksAgree
        <4>4. {Results(q)' : q \in simRanges'} = {Results(q) : q \in simRanges}
          BY <3>1, ResultsStay
        <4>5. read_set' = simReads' \cup UNION {Results(q)' : q \in simRanges'}
          BY <3>1, <3>5, <4>4 DEF BooksAgree
        <4> QED
          BY <4>3, <4>5 DEF BooksAgree
      <3>6. SignatureAccepted'
        BY <3>1, <3>3 DEF RefusalInv, SignatureAccepted, Excused
      <3> QED
        BY <3>3, <3>4, <3>5, <3>6 DEF RefusalInv
    <2>4. ASSUME NEW k \in Keys, NEW s \in Before \cup {Absent}, LedgerMoves(k, s)
          PROVE  RefusalInv'
      BY <2>4, <2>0 DEF LedgerMoves, shimBooks, simBooks
    <2>5. CASE InvokeFails
      BY <2>5, <2>0 DEF InvokeFails, shimBooks, simBooks
    <2>6. CASE GenResponse
      BY <2>6, <2>0 DEF GenResponse, shimBooks, simBooks
    <2>7. ASSUME NEW registered \in BOOLEAN, checkEnclaveEndorsement(registered)
          PROVE  RefusalInv'
      <3>1. UNCHANGED <<db, function, read_set, write_set, simReads, simRanges, simWrites, puts>>
        BY <2>7 DEF checkEnclaveEndorsement, shimBooks, simBooks
      <3>2. (Excused' <=> Excused) /\ PutsCounted' /\ (Excused \/ BooksAgree)'
        BY <3>1, RefusalFrame
      <3>3. ~ Excused => SignatureVerifies
        BY AgreeingBooksVerify DEF RefusalInv
      <3>4. verdict' = "invalid" => Excused
        BY <2>7, <3>3 DEF checkEnclaveEndorsement
      <3>5. SignatureAccepted'
        BY <3>2, <3>4 DEF SignatureAccepted, Excused
      <3> QED
        BY <3>2, <3>5 DEF RefusalInv
    <2>8. CASE UNCHANGED vars
      BY <2>8, <2>0 DEF vars, shimBooks, simBooks
    <2> QED
      BY <2>1, <2>2, <2>3, <2>4, <2>5, <2>6, <2>7, <2>8 DEF Next
  <1>3. RefusalInv => SignatureAccepted
    BY DEF RefusalInv
  <1> QED
    BY <1>1, <1>2, <1>3, EndorsementTypeCorrect, PTL DEF Spec
=============================================================================
