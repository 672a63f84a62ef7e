------------------------------- MODULE Auction -------------------------------
(***************************************************************************)
(* The example auction (examples/auction): init, create, submit, close and *)
(* eval of one auction.                                                    *)
(*                                                                         *)
(* Each call runs in the enclave on the committed state, and its write is  *)
(* committed later, in an order the orderer chooses, if the versions it    *)
(* read are still the committed ones (external: Fabric; the range query of *)
(* eval is checked for bids that came or went as well).  The keys of a     *)
(* block are checked one transaction after the other, so that committing   *)
(* single transactions covers blocks of every size.  A call that ends with *)
(* one of the error answers writes nothing and is no step.                 *)
(***************************************************************************)
EXTENDS Integers, Sequences, FiniteSets, Functions

CONSTANTS
  Order,      \* the bidders in the order of their keys, in which eval meets their bids
  Values,     \* the values of bids: any int that stoi accepts
  MaxCalls,   \* bound: calls that write
  Absent

Bidders == Range(Order)

\* INITIALIZED_KEY and AUCTION_HOUSE_NAME_KEY are written together: "house".
Keys == {"house", "auction", "outcome"} \cup Bidders

\* An outcome without a bidder is marshalled from a bid_t nobody assigned to.
Outcomes == {<<"NO_BIDS">>, <<"DRAW">>, << >>} \cup Bidders \X Values

ASSUME AuctionAssumption ==
  /\ Order \in Seq(Bidders) /\ IsInjective(Order)
  /\ \A key \in {"house", "auction", "outcome"} : key \notin Bidders
  /\ Values \subseteq Int
  /\ Absent \notin {"initialized", "open", "closed"} \cup Outcomes \cup Values
  /\ MaxCalls \in Nat

VARIABLES
  store,      \* the committed value and version of each key
  commits,    \* transactions committed, the source of versions
  calls,      \* calls so far
  pool,       \* their transactions that wait to be ordered
  atClose     \* history: the bids committed when the auction was closed

vars == <<store, commits, calls, pool, atClose>>

ValuesOf(key) ==
  CASE key = "house" -> {"initialized"}
    [] key = "auction" -> {"open", "closed"}
    [] key = "outcome" -> Outcomes
    [] OTHER -> Values

\* The variables range over their types; in particular every key holds values of
\* its own kind only.
TypeOK ==
  /\ DOMAIN store = Keys
  /\ \A k \in Keys :
       /\ store[k].value \in ValuesOf(k) \cup {Absent}
       /\ store[k].version \in 0 .. commits
       /\ store[k].version = 0 <=> store[k].value = Absent
  /\ commits \in 0 .. calls /\ calls \in 0 .. MaxCalls
  /\ \A tx \in pool : tx.key \in Keys /\ tx.value \in ValuesOf(tx.key)
  /\ atClose = Absent \/ \A b \in Bidders : atClose[b] \in Values \cup {Absent}

Init ==
  /\ store = [k \in Keys |-> [value |-> Absent, version |-> 0]]
  /\ commits = 0 /\ calls = 0 /\ pool = {} /\ atClose = Absent
-----------------------------------------------------------------------------
(***************************************************************************)
(* Calls.                                                                  *)
(***************************************************************************)
Value(key) == store[key].value

\* A call that read the keys, "house" among them, and puts a value.
Invoke(fn, keys, key, value) ==
  /\ calls < MaxCalls
  /\ calls' = calls + 1
  /\ pool' = pool \cup {[fn |-> fn, key |-> key, value |-> value,
                         reads |-> [k \in keys \cup {"house"} |-> store[k].version]]}
  /\ UNCHANGED <<store, commits, atClose>>

\* Not refused when the house is initialized already.
InitAuctionHouse == Invoke("init", {}, "house", "initialized")

Initialized == Value("house") # Absent

Create ==
  /\ Initialized
  /\ Value("auction") = Absent
  /\ Invoke("create", {"auction"}, "auction", "open")

\* A bidder's new bid overwrites its old one, which is not read.
Submit(b, v) ==
  /\ Initialized
  /\ Value("auction") = "open"
  /\ Invoke("submit", {"auction"}, b, v)

\* Mutant: the auction is deleted instead of being marked as closed.
Close_Deletes ==
  /\ Initialized
  /\ Value("auction") = "open"
  /\ Invoke("close", {"auction"}, "auction", Absent)

Close ==
  /\ Initialized
  /\ Value("auction") = "open"
  /\ Invoke("close", {"auction"}, "auction", "closed")

\* The bids that eval reads; no entry for a bidder is no bid.
Bids == [b \in Bidders |-> Value(b)]

\* Mutant: a draw between lower bids is remembered.
Consider_KeepDraw(best, b, v) ==
  CASE v > best.high -> [best EXCEPT !.high = v, !.winner = <<b, v>>]
    [] v = best.high -> [best EXCEPT !.draw = TRUE]
    [] v < best.high -> best

\* One turn of the search for the highest bid: the bid v of b.
Consider(best, b, v) ==
  CASE v > best.high -> [high |-> v, draw |-> FALSE, winner |-> <<b, v>>]
    [] v = best.high -> [best EXCEPT !.draw = TRUE]
    [] v < best.high -> best

\* The search, after i of the bidders.
Search(bids) ==
  LET best[i \in 0 .. Len(Order)] ==
        IF i = 0 THEN [high |-> -1, draw |-> FALSE, winner |-> << >>]
        ELSE IF bids[Order[i]] = Absent THEN best[i - 1]
        ELSE Consider(best[i - 1], Order[i], bids[Order[i]])
  IN  best

Result(bids) ==
  LET best == Search(bids)[Len(Order)]
  IN  IF \A b \in Bidders : bids[b] = Absent THEN <<"NO_BIDS">>
      ELSE IF best.draw THEN <<"DRAW">>
      ELSE best.winner

\* eval may be called again and again; it reads all bids and publishes the result.
Eval ==
  /\ Initialized
  /\ Value("auction") = "closed"
  /\ Invoke("eval", {"auction"} \cup Bidders, "outcome", Result(Bids))
-----------------------------------------------------------------------------
(***************************************************************************)
(* Ordering and commit (external).                                         *)
(***************************************************************************)

Current(tx) == \A k \in DOMAIN tx.reads : tx.reads[k] = store[k].version

Commit(tx) ==
  /\ Current(tx)
  /\ pool' = pool \ {tx}
  /\ store' = [store EXCEPT ![tx.key] = [value |-> tx.value, version |-> commits + 1]]
  /\ commits' = commits + 1
  /\ atClose' = IF tx.fn = "close" THEN Bids ELSE atClose
  /\ UNCHANGED calls

\* A transaction that is too late is in the chain and changes nothing.
Invalidate(tx) ==
  /\ ~ Current(tx)
  /\ pool' = pool \ {tx}
  /\ UNCHANGED <<store, commits, calls, atClose>>

Next ==
  \/ InitAuctionHouse \/ Create \/ Close \/ Eval
  \/ \E b \in Bidders, v \in Values : Submit(b, v)
  \/ \E tx \in pool : Commit(tx) \/ Invalidate(tx)

Spec == Init /\ [][Next]_vars
-----------------------------------------------------------------------------
(***************************************************************************)
(* Properties.                                                             *)
(***************************************************************************)

\* The published outcome is the one of the bids that were committed when the
\* auction was closed: calls to submit that overlap with close are in time for
\* eval or do not count at all.  It names the bidder whose bid exceeds all others,
\* and is a draw if there are two such bids, as long as some bid is not negative
\* (the search starts at -1).
OutcomeOfBidsAtClose ==
  Value("outcome") # Absent =>
    LET bidding == {b \in Bidders : atClose[b] # Absent}
        highest == {b \in bidding : \A c \in bidding : atClose[c] <= atClose[b]}
    IN  /\ Value("outcome") = <<"NO_BIDS">> <=> bidding = {}
        /\ \A b \in highest :
             atClose[b] >= 0 =>
               Value("outcome") = IF highest = {b} THEN <<b, atClose[b]>> ELSE <<"DRAW">>
=============================================================================
