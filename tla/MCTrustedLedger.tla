-------------------------- MODULE MCTrustedLedger --------------------------
(***************************************************************************)
(* Instances of TrustedLedger for TLC.  Keys 1 and 2 belong to a private   *)
(* chaincode, key 3 to the enclave registry, key 4 is a composite key of   *)
(* the private chaincode.                                                  *)
(***************************************************************************)
EXTENDS TrustedLedger

MCNs == [k \in Keys |-> IF k = 3 THEN "ercc" ELSE "ecc"]
MCComposite == {4} \cap Keys

Put(k, v) == [j \in Keys |-> IF j = k THEN v ELSE Absent]
Of(form, rd, rg, wr) == [form |-> form, vscc |-> TRUE, rd |-> rd, rg |-> rg, wr |-> wr]
Endorser(rd, wr) == Of("endorser", rd, {}, wr)

\* Transactions that read what they write.
Increment(k, v) == Endorser({k}, Put(k, v))
Transfer(j, k, v) == Endorser({j, k}, Put(k, v))

\* The other forms a block can hold.
Config == Of("config", {}, {}, EmptyMap)
Nil == Of("nil", {}, {}, EmptyMap)
BadTx == Of("badtx", {}, {}, EmptyMap)
Garbled == Of("garbled", {}, {}, EmptyMap)

\* Transactions that do not.
BlindWrite(k, v) == Endorser({}, Put(k, v))
Rejected(k, v) == [BlindWrite(k, v) EXCEPT !.vscc = FALSE]
LookUpEnclave == Endorser({3}, EmptyMap)
ListThenWrite(k, v) == Of("endorser", {k}, {4}, Put(k, v))

PlainShapes == {Increment(1, "a"), Transfer(1, 2, "b")}
AnyShapes ==
  {Transfer(1, 3, "b"), BlindWrite(4, "a"), ListThenWrite(1, "a"), Rejected(1, "b"), LookUpEnclave,
   Config, Nil, BadTx, Garbled}
CounterShapes == {Increment(1, "a")}
=============================================================================
