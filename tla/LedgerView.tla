----------------------------- MODULE LedgerView -----------------------------
(***************************************************************************)
(* What the trusted ledger promises to the chaincode enclaves that query   *)
(* it: a ledger enclave shows the state the channel had after some block.  *)
(* It starts to show one at the genesis block, moves on by exactly one     *)
(* block at a time and never back, and shows nothing after it was lost.    *)
(* How blocks are parsed, by whom and how often, is not visible.           *)
(***************************************************************************)
EXTENDS Integers

CONSTANTS
  Enclaves,
  Empty         \* the contents of an enclave that shows nothing

VARIABLES
  height,       \* number of blocks of the channel
  content,      \* content[n]: the channel's state after block n
  at,           \* at[e]: the block whose state enclave e shows, -1 for none
  shown         \* shown[e]: that state

vars == <<height, content, at, shown>>

Init ==
  /\ height = 1
  /\ content = [n \in {0} |-> Empty]
  /\ at = [e \in Enclaves |-> -1]
  /\ shown = [e \in Enclaves |-> Empty]

\* The channel gets a block; the states after earlier ones are what they were.
Publish ==
  /\ height' = height + 1
  /\ DOMAIN content' = 0 .. height
  /\ \A n \in 0 .. height - 1 : content'[n] = content[n]
  /\ UNCHANGED <<at, shown>>

Advance(e) ==
  /\ at[e] + 1 < height
  /\ at' = [at EXCEPT ![e] = @ + 1]
  /\ shown' = [shown EXCEPT ![e] = content[at[e] + 1]]
  /\ UNCHANGED <<height, content>>

\* Enclaves are lost: one to a fault, all of them to a crash of the peer.
Lose(lost) ==
  /\ at' = [e \in Enclaves |-> IF e \in lost THEN -1 ELSE at[e]]
  /\ shown' = [e \in Enclaves |-> IF e \in lost THEN Empty ELSE shown[e]]
  /\ UNCHANGED <<height, content>>

Next ==
  \/ Publish
  \/ \E e \in Enclaves : Advance(e)
  \/ \E lost \in SUBSET Enclaves : Lose(lost)

Spec == Init /\ [][Next]_vars
=============================================================================
