----------------------- MODULE SpectrumAuctionProofs -----------------------
(***************************************************************************)
(* The spectrum auction for every number of bidders, every finite set of   *)
(* territories and every price, supply, eligibility and percentage that    *)
(* checkValidity admits.                                                   *)
(***************************************************************************)
EXTENDS SpectrumAuction, FiniteSetTheorems, TLAPS

(***************************************************************************)
(* Totals.  Total(f) counts the units <<x, i>>, i in 1 .. f[x].            *)
(***************************************************************************)
Units(f) == UNION {{x} \X (1 .. f[x]) : x \in DOMAIN f}

\* f has a finite domain and natural values.
Countable(f) == IsFiniteSet(DOMAIN f) /\ \A x \in DOMAIN f : f[x] \in Nat

\* The units of a function.
LEMMA UnitsMember ==
  ASSUME NEW f, NEW u
  PROVE  u \in Units(f) <=> \E x \in DOMAIN f : \E i \in 1 .. f[x] : u = <<x, i>>
  BY DEF Units

\* The units of one element are as many as its value.
LEMMA ColumnSize ==
  ASSUME NEW x, NEW n \in Nat
  PROVE  IsFiniteSet({x} \X (1 .. n)) /\ Cardinality({x} \X (1 .. n)) = n
<1>1. IsFiniteSet({x}) /\ Cardinality({x}) = 1
  BY FS_Singleton
<1>2. IsFiniteSet(1 .. n) /\ Cardinality(1 .. n) = n
  BY FS_Interval
<1>3. /\ IsFiniteSet({x} \X (1 .. n))
      /\ Cardinality({x} \X (1 .. n)) = Cardinality({x}) * Cardinality(1 .. n)
  BY <1>1, <1>2, FS_Product, Zenon
<1> QED BY <1>1, <1>2, <1>3

\* There are finitely many.
LEMMA UnitsFinite ==
  ASSUME NEW f, Countable(f)
  PROVE  IsFiniteSet(Units(f)) /\ Total(f) = Cardinality(Units(f)) /\ Total(f) \in Nat
<1> DEFINE S == {{x} \X (1 .. f[x]) : x \in DOMAIN f}
           g == [x \in DOMAIN f |-> {x} \X (1 .. f[x])]
<1>1. g \in Surjection(DOMAIN f, S)
  BY DEF Surjection
<1>2. IsFiniteSet(S)
  BY <1>1, FS_Surjection DEF Countable
<1>3. ASSUME NEW x \in DOMAIN f
      PROVE  IsFiniteSet({x} \X (1 .. f[x]))
  BY ColumnSize DEF Countable
<1>4. \A T \in S : IsFiniteSet(T)
  BY <1>3
<1>5. IsFiniteSet(Units(f))
  BY <1>2, <1>4, FS_UNION DEF Units
<1>6. Total(f) = Cardinality(Units(f))
  BY DEF Total, Units
<1> QED BY <1>5, <1>6, FS_CardinalityType

\* Where two functions differ at z only, so do their totals.
LEMMA TotalUpdate ==
  ASSUME NEW f, NEW g, Countable(f), Countable(g), DOMAIN g = DOMAIN f,
         NEW z \in DOMAIN f, \A x \in DOMAIN f \ {z} : g[x] = f[x]
  PROVE  Total(g) = Total(f) + g[z] - f[z]
<1> DEFINE Rest(h) == {u \in Units(h) : \E x \in DOMAIN h \ {z} : \E i \in 1 .. h[x] : u = <<x, i>>}
           Column(h) == {z} \X (1 .. h[z])
<1>1. ASSUME NEW h, Countable(h), DOMAIN h = DOMAIN f
      PROVE  /\ IsFiniteSet(Rest(h)) /\ Cardinality(Rest(h)) \in Nat
             /\ Total(h) = Cardinality(Rest(h)) + h[z]
  <2>1. IsFiniteSet(Units(h)) /\ Total(h) = Cardinality(Units(h))
    BY <1>1, UnitsFinite
  <2>2. Rest(h) \in SUBSET Units(h)
    OBVIOUS
  <2>3. IsFiniteSet(Rest(h)) /\ Cardinality(Rest(h)) \in Nat
    BY <2>1, <2>2, FS_Subset, FS_CardinalityType
  <2>4. h[z] \in Nat
    BY <1>1 DEF Countable
  <2>5. IsFiniteSet(Column(h)) /\ Cardinality(Column(h)) = h[z]
    BY <2>4, ColumnSize
  <2>6. Units(h) = Rest(h) \cup Column(h)
    BY <1>1, UnitsMember
  <2>7. Rest(h) \cap Column(h) = {}
    OBVIOUS
  <2>8. Cardinality(Rest(h) \cap Column(h)) = 0
    BY <2>7, FS_EmptySet
  <2> HIDE DEF Rest, Column
  <2>9. Cardinality(Rest(h) \cup Column(h))
          = Cardinality(Rest(h)) + Cardinality(Column(h)) - Cardinality(Rest(h) \cap Column(h))
    BY <2>3, <2>5, FS_Union
  <2> QED BY <2>1, <2>3, <2>4, <2>5, <2>6, <2>8, <2>9
<1>2. Rest(f) = Rest(g)
  BY UnitsMember
<1>3. Total(f) = Cardinality(Rest(f)) + f[z] /\ Total(g) = Cardinality(Rest(g)) + g[z]
  BY <1>1
<1>4. f[z] \in Nat /\ g[z] \in Nat /\ Cardinality(Rest(f)) \in Nat
  BY <1>1 DEF Countable
<1> HIDE DEF Rest
<1> QED BY <1>2, <1>3, <1>4

\* A function that is nowhere above another has no greater total.
LEMMA TotalMonotone ==
  ASSUME NEW f, NEW g, Countable(f), Countable(g), DOMAIN f \subseteq DOMAIN g,
         \A x \in DOMAIN f : f[x] <= g[x]
  PROVE  Total(f) <= Total(g)
<1>1. Units(f) \subseteq Units(g)
  <2> SUFFICES ASSUME NEW x \in DOMAIN f, NEW i \in 1 .. f[x]
               PROVE  <<x, i>> \in Units(g)
    BY UnitsMember
  <2>1. i \in 1 .. g[x]
    BY DEF Countable
  <2> QED BY <2>1, UnitsMember
<1> QED BY <1>1, UnitsFinite, FS_Subset

\* Elements of value zero do not count.
LEMMA TotalPadded ==
  ASSUME NEW f, NEW g, Countable(f), Countable(g), DOMAIN f \subseteq DOMAIN g,
         \A x \in DOMAIN f : g[x] = f[x], \A x \in DOMAIN g \ DOMAIN f : g[x] = 0
  PROVE  Total(g) = Total(f)
<1>1. Units(f) = Units(g)
  <2>1. ASSUME NEW x \in DOMAIN f, NEW i \in 1 .. f[x]
        PROVE  <<x, i>> \in Units(g)
    BY <2>1, UnitsMember
  <2>2. ASSUME NEW x \in DOMAIN g, NEW i \in 1 .. g[x]
        PROVE  <<x, i>> \in Units(f)
    BY <2>2, UnitsMember
  <2>3. Units(f) \subseteq Units(g)
    BY <2>1, UnitsMember
  <2>4. Units(g) \subseteq Units(f)
    BY <2>2, UnitsMember
  <2> QED BY <2>3, <2>4
<1> QED BY <1>1, UnitsFinite

\* The total of zeros is zero.
LEMMA TotalZero ==
  ASSUME NEW f, Countable(f), \A x \in DOMAIN f : f[x] = 0
  PROVE  Total(f) = 0
<1>1. Units(f) = {}
  BY UnitsMember
<1> QED BY <1>1, UnitsFinite, FS_EmptySet
-----------------------------------------------------------------------------
(***************************************************************************)
(* Arithmetic of the percentages.                                          *)
(***************************************************************************)

\* The clock price is not below the price the round opens at.
LEMMA ClockAbove ==
  ASSUME NEW p \in Nat
  PROVE  ClockOf(p) \in Nat /\ p <= ClockOf(p)
  BY AuctionAssumption DEF ClockOf

\* What a bidder's activity of a licenses earns it is not less than a.
LEMMA ActivityKept ==
  ASSUME NEW a \in Nat
  PROVE  (a * 100) \div ActivityPercentage \in Nat /\ a <= (a * 100) \div ActivityPercentage
  BY AuctionAssumption

\* An activity below the requirement earns no more than the eligibility was.
LEMMA ActivityCuts ==
  ASSUME NEW a \in Nat, NEW e \in Nat, a < (e * ActivityPercentage) \div 100
  PROVE  (a * 100) \div ActivityPercentage <= e
  BY AuctionAssumption

\* Unsigned integers wrap, and those in range are themselves.
LEMMA Wrapped ==
  ASSUME NEW i \in Int
  PROVE  /\ i % UIntSize \in 0 .. UIntSize - 1
         /\ i \in 0 .. UIntSize - 1 => i % UIntSize = i
<1>1. UIntSize \in Nat \ {0}
  BY AuctionAssumption
<1>2. i % UIntSize \in 0 .. UIntSize - 1
  BY <1>1
<1>3. i \in 0 .. UIntSize - 1 => i % UIntSize = i
  BY <1>1
<1> QED BY <1>2, <1>3

\* The initial eligibilities by place, and those a bidder may be looked up with.
LEMMA EligibilityNumbers ==
  /\ getInitialEligibilities \in [Bidders -> 0 .. UIntSize - 1]
  /\ \A b \in Bidders : /\ getInitialEligibilities[b] = Eligibilities[b].number
                        /\ getEligibilityNumber(b) \subseteq 0 .. UIntSize - 1
<1>1. \A i \in Bidders : Eligibilities[i].number \in 0 .. UIntSize - 1
  BY AuctionAssumption
<1> QED BY <1>1 DEF getInitialEligibilities, getEligibilityNumber
-----------------------------------------------------------------------------
(***************************************************************************)
(* The inductive invariant.                                                *)
(***************************************************************************)

\* The quantities of a bid.
Quantities(bid) == [t \in DOMAIN bid |-> bid[t].qty]

Nothing == [b \in Bidders |-> Zero]

Typed ==
  /\ auctionState \in {"NONE", "CLOCK", "FSR_FAILED", "CLOSED"}
  /\ clockRound \in Nat
  /\ DOMAIN bids = Bidders
  /\ \A b \in Bidders :
       DOMAIN bids[b] \subseteq Territories /\ bids[b] \in [DOMAIN bids[b] -> Demands]
  /\ floor \in [Territories -> Nat] /\ posted \in [Territories -> Nat]
  /\ clock \in [Territories -> Nat]
  /\ eligibility \in [Bidders -> 0 .. UIntSize - 1]
  /\ licenses \in [Bidders -> [Territories -> Nat]]
  /\ excess \in [Territories -> Int]
  /\ rank \in [Bidders -> [Territories -> Nat]]
  /\ cap \in [Bidders -> 0 .. UIntSize - 1]

\* What the state of the auction says about the rest: demands wait in the queue only
\* while a later round is evaluated, and then every bid is complete.
Phases ==
  /\ roundActive \in BOOLEAN /\ evaluating \in BOOLEAN
  /\ auctionState = "NONE" => clockRound = 0 /\ ~ roundActive /\ ~ evaluating
  /\ auctionState # "NONE" => clockRound >= 1
  /\ evaluating => auctionState = "CLOCK" /\ ~ roundActive
  /\ roundActive => auctionState = "CLOCK"
  /\ ~ evaluating \/ clockRound = 1 => rank = Nothing
  /\ evaluating => \A b \in Bidders : DOMAIN bids[b] = Territories

\* What holds until round 1 is evaluated.
FirstRound ==
  /\ clockRound = 0 => licenses = Nothing /\ bids = [b \in Bidders |-> NoBid]
  /\ clockRound = 1 /\ ~ evaluating /\ auctionState = "CLOCK" => licenses = Nothing
  /\ clockRound = 1 =>
       /\ eligibility = getInitialEligibilities /\ floor = MinPrice
       /\ \A b \in Bidders : Consistent(b) => Total(Quantities(bids[b])) <= Eligibilities[b].number

\* Bids of the later rounds stay within the prices of the round.
Clocks ==
  /\ clockRound >= 1 => \A t \in Territories : floor[t] <= clock[t]
  /\ clockRound > 1 /\ (roundActive \/ evaluating) =>
       \A b \in Bidders : \A t \in DOMAIN bids[b] : bids[b][t].price \in floor[t] .. clock[t]

\* After round 1 no territory in high demand is short of demand again.
Stage == clockRound > 1 => \A t \in HighDemand : excess[t] >= 0

\* ApplyBid as a move of licenses: what changes, and within which limits.
Moves(b, t, moved) ==
  /\ licenses' = [licenses EXCEPT ![b] = [licenses[b] EXCEPT ![t] = licenses[b][t] + moved]]
  /\ excess' = [excess EXCEPT ![t] = excess[t] + moved]
  /\ cap' = [cap EXCEPT ![b] = (cap[b] - moved) % UIntSize]
  /\ licenses[b][t] + moved \in Nat
  /\ cap[b] - moved \in Nat
  /\ moved < 0 => excess[t] + moved >= 0

\* The loop moves a demand by at most what the eligibility and the excess allow.
LEMMA ApplyBidMoves ==
  ASSUME Typed, Phases, NEW b \in Bidders, NEW t \in Territories, ApplyBid(b, t)
  PROVE  \E moved \in Int : Moves(b, t, moved)
<1> DEFINE increase == bids[b][t].qty > licenses[b][t]
           n == Movable(b, t)
           moved == IF increase THEN n ELSE -n
<1>1. t \in DOMAIN bids[b] /\ bids[b][t].qty \in Nat
  <2>1. evaluating
    BY DEF ApplyBid
  <2>2. DOMAIN bids[b] = Territories
    BY <2>1 DEF Phases
  <2>3. bids[b][t] \in Demands
    BY <2>2 DEF Typed
  <2> QED BY <2>2, <2>3 DEF Demands
<1>2. licenses[b][t] \in Nat /\ cap[b] \in Nat /\ excess[t] \in Int
  BY AuctionAssumption DEF Typed
<1>3. /\ moved \in Int
      /\ licenses[b][t] + moved \in Nat
      /\ cap[b] - moved \in Nat
      /\ moved < 0 => excess[t] + moved >= 0
  BY <1>1, <1>2 DEF Movable, Least
<1>4. /\ licenses' = [licenses EXCEPT ![b][t] = @ + moved]
      /\ excess' = [excess EXCEPT ![t] = @ + moved]
      /\ cap' = [cap EXCEPT ![b] = (@ - moved) % UIntSize]
  BY DEF ApplyBid
<1> HIDE DEF moved
<1>5. licenses' = [licenses EXCEPT ![b] = [licenses[b] EXCEPT ![t] = licenses[b][t] + moved]]
  BY <1>4
<1>6. excess' = [excess EXCEPT ![t] = excess[t] + moved] /\ cap' = [cap EXCEPT ![b] = (cap[b] - moved) % UIntSize]
  BY <1>4
<1>7. Moves(b, t, moved)
  BY <1>3, <1>5, <1>6 DEF Moves
<1> QED BY <1>3, <1>7

\* A territory's licenses, by bidder, and a bidder's, by territory, are countable.
LEMMA LicensesCountable ==
  ASSUME Typed
  PROVE  /\ \A b \in Bidders : Countable(licenses[b])
         /\ \A t \in Territories : Countable([b \in Bidders |-> licenses[b][t]])
<1>1. IsFiniteSet(Territories) /\ IsFiniteSet(Bidders)
  BY AuctionAssumption, FS_Interval DEF Bidders
<1> QED BY <1>1 DEF Typed, Countable

\* A move changes the two totals it is about and no other.
LEMMA MovedTotals ==
  ASSUME Typed, NEW b \in Bidders, NEW t \in Territories, NEW moved \in Int, Moves(b, t, moved)
  PROVE  /\ licenses' \in [Bidders -> [Territories -> Nat]]
         /\ Total(licenses'[b]) = Total(licenses[b]) + moved
         /\ \A c \in Bidders \ {b} : licenses'[c] = licenses[c]
         /\ Total([c \in Bidders |-> licenses'[c][t]]) = Total([c \in Bidders |-> licenses[c][t]]) + moved
         /\ \A u \in Territories \ {t} :
              [c \in Bidders |-> licenses'[c][u]] = [c \in Bidders |-> licenses[c][u]]
<1>1. /\ licenses' = [licenses EXCEPT ![b] = [licenses[b] EXCEPT ![t] = licenses[b][t] + moved]]
      /\ licenses[b][t] + moved \in Nat
  BY DEF Moves
<1>2. licenses' \in [Bidders -> [Territories -> Nat]]
  BY <1>1 DEF Typed
<1>3. /\ licenses'[b] = [licenses[b] EXCEPT ![t] = licenses[b][t] + moved]
      /\ \A c \in Bidders \ {b} : licenses'[c] = licenses[c]
  BY <1>1 DEF Typed
<1>4. IsFiniteSet(Territories) /\ IsFiniteSet(Bidders)
  BY AuctionAssumption, FS_Interval DEF Bidders
<1>5. licenses[b][t] \in Nat /\ licenses'[b][t] = licenses[b][t] + moved
  BY <1>3 DEF Typed
<1>6. Total(licenses'[b]) = Total(licenses[b]) + moved
  <2>1. Countable(licenses[b]) /\ Countable(licenses'[b])
    BY <1>2, <1>4 DEF Countable, Typed
  <2>2. DOMAIN licenses[b] = Territories /\ DOMAIN licenses'[b] = Territories
    BY <1>2 DEF Typed
  <2>3. \A u \in Territories \ {t} : licenses'[b][u] = licenses[b][u]
    BY <1>3 DEF Typed
  <2>4. Total(licenses'[b]) = Total(licenses[b]) + licenses'[b][t] - licenses[b][t]
    BY <2>1, <2>2, <2>3, TotalUpdate
  <2>5. Total(licenses[b]) \in Nat
    BY <2>1, UnitsFinite
  <2> QED BY <1>5, <2>4, <2>5
<1> DEFINE old == [c \in Bidders |-> licenses[c][t]]
           new == [c \in Bidders |-> licenses'[c][t]]
<1>7. Total(new) = Total(old) + moved
  <2>1. Countable(old) /\ Countable(new)
    BY <1>2, <1>4 DEF Countable, Typed
  <2>2. DOMAIN old = Bidders /\ DOMAIN new = Bidders
    OBVIOUS
  <2>3. \A c \in Bidders \ {b} : new[c] = old[c]
    BY <1>3
  <2>4. new[b] = licenses'[b][t] /\ old[b] = licenses[b][t]
    OBVIOUS
  <2> HIDE DEF old, new
  <2>5. Total(new) = Total(old) + new[b] - old[b]
    BY <2>1, <2>2, <2>3, TotalUpdate
  <2>6. Total(old) \in Nat
    BY <2>1, UnitsFinite
  <2> QED BY <1>5, <2>4, <2>5, <2>6
<1>8. ASSUME NEW u \in Territories \ {t}
      PROVE  [c \in Bidders |-> licenses'[c][u]] = [c \in Bidders |-> licenses[c][u]]
  <2>1. \A c \in Bidders : licenses'[c][u] = licenses[c][u]
    BY <1>3, SMTT(60) DEF Typed
  <2> QED BY <2>1
<1> QED BY <1>2, <1>3, <1>6, <1>7, <1>8
-----------------------------------------------------------------------------
(***************************************************************************)
(* Types.                                                                  *)
(***************************************************************************)

\* fillMissingBids completes every bid.
LEMMA FilledType ==
  ASSUME Typed
  PROVE  /\ DOMAIN FillMissingBids = Bidders
         /\ \A b \in Bidders : FillMissingBids[b] \in [Territories -> Demands]
<1>1. ASSUME NEW b \in Bidders, NEW t \in Territories
      PROVE  (IF t \in DOMAIN bids[b] THEN bids[b][t] ELSE [qty |-> 0, price |-> floor[t]]) \in Demands
  <2>1. CASE t \in DOMAIN bids[b]
    BY <2>1 DEF Typed
  <2>2. CASE t \notin DOMAIN bids[b]
    <3>1. [qty |-> 0, price |-> floor[t]] \in Demands
      BY DEF Typed, Demands
    <3> QED BY <2>2, <3>1
  <2> QED BY <2>1, <2>2
<1> QED BY <1>1 DEF FillMissingBids

\* The excess demand of a table of licenses.
LEMMA ExcessType ==
  ASSUME NEW lic \in [Bidders -> [Territories -> Nat]]
  PROVE  ExcessOf(lic) \in [Territories -> Int]
<1>1. ASSUME NEW t \in Territories
      PROVE  Total([b \in Bidders |-> lic[b][t]]) - Supply[t] \in Int
  <2>1. IsFiniteSet(Bidders)
    BY AuctionAssumption, FS_Interval DEF Bidders
  <2>2. Countable([b \in Bidders |-> lic[b][t]])
    BY <2>1 DEF Countable
  <2> QED BY <2>2, UnitsFinite, AuctionAssumption
<1> QED BY <1>1 DEF ExcessOf

\* The eligibility that the activity rule leaves is not more than it was, and is
\* enough for the licenses held if it was before.
LEMMA NewEligibilityRange ==
  ASSUME Typed, NEW b \in Bidders
  PROVE  /\ NewEligibility(b) \in Nat
         /\ NewEligibility(b) <= eligibility[b]
         /\ Total(licenses[b]) <= eligibility[b] => Total(licenses[b]) <= NewEligibility(b)
<1> DEFINE a == Total(licenses[b])
           e == eligibility[b]
<1>1. a \in Nat /\ e \in Nat
  BY LicensesCountable, UnitsFinite, AuctionAssumption DEF Typed
<1>2. (e * ActivityPercentage) \div 100 \in Int
  BY <1>1, AuctionAssumption
<1>3. NewEligibility(b) = IF a >= (e * ActivityPercentage) \div 100
                            THEN e ELSE (a * 100) \div ActivityPercentage
  BY DEF NewEligibility
<1> HIDE DEF a, e
<1>4. CASE a >= (e * ActivityPercentage) \div 100
  <2>1. NewEligibility(b) = e
    BY <1>3, <1>4
  <2> QED BY <1>1, <2>1 DEF a, e
<1>5. CASE ~ (a >= (e * ActivityPercentage) \div 100)
  <2>1. NewEligibility(b) = (a * 100) \div ActivityPercentage
    BY <1>3, <1>5
  <2>2. a < (e * ActivityPercentage) \div 100
    BY <1>1, <1>2, <1>5
  <2>3. (a * 100) \div ActivityPercentage <= e
    BY <1>1, <2>2, ActivityCuts
  <2>4. (a * 100) \div ActivityPercentage \in Nat /\ a <= (a * 100) \div ActivityPercentage
    BY <1>1, ActivityKept
  <2> QED BY <2>1, <2>3, <2>4 DEF a, e
<1> QED BY <1>4, <1>5

\* A bid that submitClockBid takes.
LEMMA SubmitType ==
  ASSUME NEW b \in Bidders, SubmitClockBid(b)
  PROVE  \E bid : /\ DOMAIN bid \subseteq Territories /\ bid \in [DOMAIN bid -> Demands]
                  /\ IsValidBid(b, bid)
                  /\ bids' = [bids EXCEPT ![b] = bid]
<1>1. PICK D \in SUBSET Territories \ {{}} :
        \E bid \in [D -> [qty : 0 .. Total(Supply), price : UNION {Prices(t) : t \in D}]] :
            /\ \A t \in D : bid[t].price \in Prices(t)
            /\ IsValidBid(b, bid)
            /\ bids' = [bids EXCEPT ![b] = bid]
  BY DEF SubmitClockBid
<1>2. PICK bid \in [D -> [qty : 0 .. Total(Supply), price : UNION {Prices(t) : t \in D}]] :
            /\ \A t \in D : bid[t].price \in Prices(t)
            /\ IsValidBid(b, bid)
            /\ bids' = [bids EXCEPT ![b] = bid]
  BY <1>1
<1>3. ASSUME NEW t \in D
      PROVE  bid[t] \in Demands
  <2>1. bid[t] \in [qty : 0 .. Total(Supply), price : UNION {Prices(u) : u \in D}]
    BY <1>2
  <2>2. bid[t] = [qty |-> bid[t].qty, price |-> bid[t].price] /\ bid[t].qty \in 0 .. Total(Supply)
    BY <2>1
  <2>3. bid[t].price \in Prices(t)
    BY <1>2
  <2>4. bid[t].price \in Nat
    <3>1. MinPrice[t] \in Nat /\ Unit \in Nat /\ UIntSize \in Nat
      BY AuctionAssumption
    <3>2. ASSUME NEW p \in Offers PROVE Unit * (p % UIntSize) \in Nat
      <4>1. p % UIntSize \in Nat
        BY <3>1, Wrapped, AuctionAssumption
      <4> QED BY <3>1, <4>1
    <3>3. \A p \in Stored : p \in Nat
      BY <3>2 DEF Stored
    <3> QED BY <2>3, <3>1, <3>3 DEF Prices
  <2> QED BY <2>2, <2>4 DEF Demands
<1>4. DOMAIN bid = D /\ bid \in [D -> Demands]
  BY <1>2, <1>3
<1> QED BY <1>1, <1>2, <1>4

\* What a round that is over leaves alone.
LEMMA LoopEndsFrame ==
  ASSUME LoopEnds
  PROVE  /\ rank' = Nothing /\ cap' = [b \in Bidders |-> 0]
         /\ UNCHANGED <<bids, licenses, excess>>
  BY DEF LoopEnds, Nothing

\* Every step keeps the types.
LEMMA TypedStep ==
  ASSUME Typed, Phases, [Next]_vars
  PROVE  Typed'
<1> USE DEF Typed, roundVars, resultVars, closeVars, loopVars
<1>0. IsFiniteSet(Territories) /\ IsFiniteSet(Bidders)
  BY AuctionAssumption, FS_Interval DEF Bidders
<1>1. CASE UNCHANGED vars
  BY <1>1 DEF vars
<1>2. CASE CreateAuction
  <2>1. MinPrice \in [Territories -> Nat] /\ getInitialEligibilities \in [Bidders -> 0 .. UIntSize - 1]
    BY AuctionAssumption, EligibilityNumbers
  <2>2. \A t \in Territories : ClockOf(MinPrice[t]) \in Nat
    BY <2>1, ClockAbove
  <2> QED BY <1>2, <2>1, <2>2 DEF CreateAuction
<1>3. CASE StartNextRound
  <2>1. DOMAIN NoBid \subseteq Territories /\ NoBid \in [DOMAIN NoBid -> Demands]
    BY DEF NoBid
  <2> QED BY <1>3, <2>1 DEF StartNextRound
<1>4. ASSUME NEW b \in Bidders, SubmitClockBid(b)
      PROVE  Typed'
  <2>1. PICK bid : /\ DOMAIN bid \subseteq Territories /\ bid \in [DOMAIN bid -> Demands]
                   /\ bids' = [bids EXCEPT ![b] = bid]
    BY <1>4, SubmitType
  <2>2. /\ DOMAIN bids' = Bidders
        /\ \A c \in Bidders : DOMAIN bids'[c] \subseteq Territories /\ bids'[c] \in [DOMAIN bids'[c] -> Demands]
    <3>1. DOMAIN bids' = Bidders /\ bids'[b] = bid /\ \A c \in Bidders \ {b} : bids'[c] = bids[c]
      BY <2>1
    <3> QED BY <2>1, <3>1
  <2>3. UNCHANGED <<auctionState, clockRound, floor, posted, clock, eligibility, licenses, excess, rank, cap>>
    BY <1>4 DEF SubmitClockBid
  <2> QED BY <2>2, <2>3
<1>5. CASE EndRound
  <2>1. /\ DOMAIN bids' = Bidders
        /\ \A c \in Bidders : DOMAIN bids'[c] = Territories /\ bids'[c] \in [Territories -> Demands]
    BY <1>5, FilledType DEF EndRound
  <2>2. UNCHANGED <<auctionState, clockRound, floor, clock, eligibility>>
    BY <1>5 DEF EndRound
  <2>3. CASE ProcessInitialRoundBids(FillMissingBids)
    <3>1. licenses' \in [Bidders -> [Territories -> Nat]]
      BY <2>3, FilledType DEF ProcessInitialRoundBids, Demands
    <3>2. excess' \in [Territories -> Int]
      BY <2>3, <3>1, ExcessType DEF ProcessInitialRoundBids
    <3>3. posted' \in [Territories -> Nat] /\ UNCHANGED <<rank, cap>>
      BY <2>3, AuctionAssumption DEF ProcessInitialRoundBids
    <3> QED BY <2>1, <2>2, <3>1, <3>2, <3>3
  <2>4. CASE ProcessRegularRoundBids(FillMissingBids)
    <3>1. posted' \in [Territories -> Nat]
      BY <2>4 DEF ProcessRegularRoundBids
    <3>2. rank' \in [Bidders -> [Territories -> Nat]]
      <4>1. PICK r \in [Bidders -> [Territories -> 0 .. Cardinality(Queued(FillMissingBids))]] : rank' = r
        BY <2>4 DEF ProcessRegularRoundBids
      <4>2. \A c \in Bidders : r[c] \in [Territories -> Nat]
        BY <4>1
      <4> QED BY <4>1, <4>2
    <3>3. cap' \in [Bidders -> 0 .. UIntSize - 1]
      <4>1. ASSUME NEW c \in Bidders
            PROVE  EligibilityCap(c) \in 0 .. UIntSize - 1
        <5>1. Total(licenses[c]) \in Nat /\ eligibility[c] \in Int
          BY LicensesCountable, UnitsFinite, AuctionAssumption
        <5> QED BY <5>1, Wrapped DEF EligibilityCap
      <4> QED BY <2>4, <4>1 DEF ProcessRegularRoundBids
    <3>4. UNCHANGED <<licenses, excess>>
      BY <2>4 DEF ProcessRegularRoundBids
    <3> QED BY <2>1, <2>2, <3>1, <3>2, <3>3, <3>4
  <2> QED BY <1>5, <2>3, <2>4 DEF EndRound
<1>6. ASSUME NEW b \in Bidders, NEW t \in Territories, ApplyBid(b, t)
      PROVE  Typed'
  <2>1. PICK moved \in Int : Moves(b, t, moved)
    BY <1>6, ApplyBidMoves
  <2>2. licenses' \in [Bidders -> [Territories -> Nat]]
    BY <2>1, MovedTotals
  <2>3. excess' \in [Territories -> Int] /\ cap' \in [Bidders -> 0 .. UIntSize - 1]
    <3>1. (cap[b] - moved) % UIntSize \in 0 .. UIntSize - 1
      BY <2>1, Wrapped DEF Moves
    <3> QED BY <2>1, <3>1 DEF Moves
  <2>4. posted' \in [Territories -> Nat]
    <3>1. DOMAIN bids[b] = Territories
      BY <1>6 DEF ApplyBid, Phases
    <3>2. bids[b][t] \in Demands
      BY <3>1
    <3>3. bids[b][t].price \in Nat /\ clock[t] \in Nat
      BY <3>2 DEF Demands
    <3>4. \E p \in {posted[t], clock[t], bids[b][t].price} : posted' = [posted EXCEPT ![t] = p]
      BY <1>6 DEF ApplyBid
    <3> QED BY <3>3, <3>4
  <2>5. rank' \in [Bidders -> [Territories -> Nat]]
    <3>1. rank' = rank \/ rank' = [rank EXCEPT ![b][t] = 0]
      BY <1>6 DEF ApplyBid
    <3>2. [rank[b] EXCEPT ![t] = 0] \in [Territories -> Nat]
      OBVIOUS
    <3>3. [rank EXCEPT ![b] = [rank[b] EXCEPT ![t] = 0]] \in [Bidders -> [Territories -> Nat]]
      BY <3>2
    <3> QED BY <3>1, <3>3
  <2>6. UNCHANGED <<auctionState, clockRound, bids, floor, clock, eligibility>>
    BY <1>6 DEF ApplyBid
  <2> QED BY <2>2, <2>3, <2>4, <2>5, <2>6
<1>7. CASE FailFinalStageRule \/ CloseAuction
  <2>1. UNCHANGED <<clockRound, bids, floor, posted, clock, eligibility, licenses, excess>>
    BY <1>7, LoopEndsFrame DEF FailFinalStageRule, CloseAuction
  <2>2. rank' = Nothing /\ cap' = [b \in Bidders |-> 0]
        /\ auctionState' \in {"NONE", "CLOCK", "FSR_FAILED", "CLOSED"}
    BY <1>7, LoopEndsFrame DEF FailFinalStageRule, CloseAuction
  <2> QED BY <2>1, <2>2, AuctionAssumption DEF Nothing, Zero
<1>8. CASE NextRound
  <2>1. UNCHANGED <<auctionState, bids, licenses, excess>> /\ clockRound' \in Nat
    BY <1>8, LoopEndsFrame DEF NextRound
  <2>2. rank' = Nothing /\ cap' = [b \in Bidders |-> 0]
    BY <1>8, LoopEndsFrame DEF NextRound
  <2>3. floor' \in [Territories -> Nat] /\ posted' \in [Territories -> Nat] /\ clock' \in [Territories -> Nat]
    <3>1. \A t \in Territories : ClockOf(posted[t]) \in Nat
      BY ClockAbove
    <3> QED BY <1>8, <3>1 DEF NextRound, Zero
  <2>4. eligibility' \in [Bidders -> 0 .. UIntSize - 1]
    <3>1. ASSUME NEW b \in Bidders PROVE NewEligibility(b) \in 0 .. UIntSize - 1
      BY NewEligibilityRange, AuctionAssumption
    <3> QED BY <1>8, <3>1 DEF NextRound
  <2> QED BY <2>1, <2>2, <2>3, <2>4, AuctionAssumption DEF Nothing, Zero
<1>9. CASE PublishAssignmentResults
  BY <1>9 DEF PublishAssignmentResults
<1> QED BY <1>1, <1>2, <1>3, <1>4, <1>5, <1>6, <1>7, <1>8, <1>9 DEF Next, Evaluate

\* The types are those of TypeOK.
LEMMA TypedIsTypeOK == Typed /\ Phases => TypeOK
  BY AuctionAssumption DEF Typed, Phases, TypeOK
-----------------------------------------------------------------------------
(***************************************************************************)
(* The course of the auction.                                              *)
(***************************************************************************)

\* The loop applies bids in later rounds only.
LEMMA ApplyBidLater ==
  ASSUME Typed, Phases, NEW b \in Bidders, NEW t \in Territories, ApplyBid(b, t)
  PROVE  evaluating /\ auctionState = "CLOCK" /\ clockRound > 1
<1>1. evaluating /\ rank[b][t] # 0
  BY DEF ApplyBid, Applicable
<1>2. clockRound # 1
  BY <1>1 DEF Phases, Nothing, Zero
<1>3. auctionState = "CLOCK" /\ clockRound >= 1
  BY <1>1 DEF Phases
<1> QED BY <1>1, <1>2, <1>3 DEF Typed

\* Every step keeps the phases apart.
LEMMA PhasesStep ==
  ASSUME Typed, Phases, [Next]_vars
  PROVE  Phases'
<1> USE DEF Phases, roundVars, resultVars, closeVars, loopVars
<1>1. CASE UNCHANGED vars
  BY <1>1 DEF vars
<1>2. CASE CreateAuction
  BY <1>2 DEF CreateAuction
<1>3. CASE StartNextRound
  BY <1>3 DEF StartNextRound, Loads
<1>4. ASSUME NEW b \in Bidders, SubmitClockBid(b)
      PROVE  Phases'
  BY <1>4 DEF SubmitClockBid, Loads
<1>5. CASE EndRound
  <2>1. auctionState = "CLOCK" /\ ~ evaluating /\ clockRound >= 1 /\ rank = Nothing
    BY <1>5 DEF EndRound, Loads
  <2>2. clockRound' = 1 => rank' = Nothing
    BY <1>5, <2>1 DEF EndRound, ProcessInitialRoundBids, ProcessRegularRoundBids
  <2>3. \A b \in Bidders : DOMAIN bids'[b] = Territories
    BY <1>5 DEF EndRound, FillMissingBids
  <2>4. roundActive' = FALSE /\ evaluating' = TRUE /\ UNCHANGED <<auctionState, clockRound>>
    BY <1>5 DEF EndRound
  <2> QED BY <2>1, <2>2, <2>3, <2>4
<1>6. ASSUME NEW b \in Bidders, NEW t \in Territories, ApplyBid(b, t)
      PROVE  Phases'
  <2>1. evaluating /\ auctionState = "CLOCK" /\ clockRound > 1
    BY <1>6, ApplyBidLater
  <2>2. UNCHANGED <<auctionState, clockRound, roundActive, bids, evaluating>>
    BY <1>6 DEF ApplyBid
  <2> QED BY <2>1, <2>2 DEF Typed
<1>7. CASE FailFinalStageRule \/ NextRound \/ CloseAuction
  <2>1. LoopEnds
    BY <1>7 DEF FailFinalStageRule, NextRound, CloseAuction
  <2>2. evaluating /\ evaluating' = FALSE /\ roundActive' = roundActive /\ rank' = Nothing
    BY <2>1, LoopEndsFrame DEF LoopEnds
  <2>3. auctionState = "CLOCK" /\ ~ roundActive /\ clockRound >= 1
    BY <2>2
  <2>4. auctionState' \in {"CLOCK", "FSR_FAILED", "CLOSED"} /\ clockRound' >= 1
    BY <1>7, <2>3 DEF FailFinalStageRule, NextRound, CloseAuction, Typed
  <2> QED BY <2>2, <2>3, <2>4
<1>8. CASE PublishAssignmentResults
  BY <1>8 DEF PublishAssignmentResults
<1> QED BY <1>1, <1>2, <1>3, <1>4, <1>5, <1>6, <1>7, <1>8 DEF Next, Evaluate

\* The quantities of a bid are countable, those of no bid amount to nothing.
LEMMA QuantitiesCountable ==
  ASSUME NEW bid, DOMAIN bid \subseteq Territories, bid \in [DOMAIN bid -> Demands]
  PROVE  Countable(Quantities(bid))
<1>1. IsFiniteSet(DOMAIN bid)
  BY AuctionAssumption, FS_Subset
<1>2. \A t \in DOMAIN bid : bid[t].qty \in Nat
  BY DEF Demands
<1> QED BY <1>1, <1>2 DEF Quantities, Countable

\* A bidder without a bid asks for nothing.
LEMMA NoBidTotal == Total(Quantities(NoBid)) = 0
<1>1. DOMAIN Quantities(NoBid) = {}
  BY DEF Quantities, NoBid
<1>2. Countable(Quantities(NoBid))
  BY <1>1, FS_EmptySet DEF Countable
<1> QED BY <1>1, <1>2, TotalZero

\* The empty table of licenses amounts to nothing.
LEMMA NothingTotal ==
  ASSUME NEW b \in Bidders
  PROVE  Total(Nothing[b]) = 0
<1>1. Nothing[b] = Zero /\ DOMAIN Zero = Territories /\ \A t \in Territories : Zero[t] = 0
  BY DEF Nothing, Zero
<1>2. Countable(Zero)
  BY <1>1, AuctionAssumption DEF Countable
<1> QED BY <1>1, <1>2, TotalZero

\* fillMissingBids adds no quantity.
LEMMA FilledTotal ==
  ASSUME Typed, NEW b \in Bidders
  PROVE  Total(Quantities(FillMissingBids[b])) = Total(Quantities(bids[b]))
<1> DEFINE f == Quantities(bids[b])
           g == Quantities(FillMissingBids[b])
<1>1. DOMAIN f = DOMAIN bids[b] /\ DOMAIN f \subseteq Territories /\ DOMAIN g = Territories
  BY FilledType DEF Quantities, Typed
<1>2. Countable(f)
  BY QuantitiesCountable DEF Typed
<1>3. Countable(g)
  <2>1. FillMissingBids[b] \in [Territories -> Demands] /\ DOMAIN FillMissingBids[b] = Territories
    BY FilledType
  <2> QED BY <2>1, QuantitiesCountable
<1>4. ASSUME NEW t \in DOMAIN f PROVE g[t] = f[t]
  BY <1>1 DEF Quantities, FillMissingBids
<1>5. ASSUME NEW t \in DOMAIN g \ DOMAIN f PROVE g[t] = 0
  BY <1>1 DEF Quantities, FillMissingBids
<1> HIDE DEF f, g
<1>6. Total(g) = Total(f)
  BY <1>1, <1>2, <1>3, <1>4, <1>5, TotalPadded
<1> QED BY <1>6 DEF f, g

\* Every step keeps what is known of round 1.
LEMMA FirstRoundStep ==
  ASSUME Typed, Phases, FirstRound, [Next]_vars
  PROVE  FirstRound'
<1> USE DEF FirstRound, roundVars, resultVars, closeVars, loopVars
<1>0. \A b \in Bidders : Eligibilities[b].number \in Nat
  BY AuctionAssumption
<1>1. CASE UNCHANGED vars
  BY <1>1 DEF vars
<1>2. CASE CreateAuction
  <2>1. licenses = Nothing /\ bids = [b \in Bidders |-> NoBid] /\ UNCHANGED <<licenses, bids>>
    BY <1>2 DEF CreateAuction, Phases
  <2>2. clockRound' = 1 /\ eligibility' = getInitialEligibilities /\ floor' = MinPrice
    BY <1>2 DEF CreateAuction
  <2>3. \A b \in Bidders : Total(Quantities(bids'[b])) <= Eligibilities[b].number
    BY <1>0, <2>1, NoBidTotal
  <2> QED BY <2>1, <2>2, <2>3
<1>3. CASE StartNextRound
  <2>1. bids' = [b \in Bidders |-> NoBid]
        /\ UNCHANGED <<auctionState, clockRound, licenses, evaluating, eligibility, floor>>
    BY <1>3 DEF StartNextRound
  <2>2. \A b \in Bidders : Total(Quantities(bids'[b])) <= Eligibilities[b].number
    BY <1>0, <2>1, NoBidTotal
  <2> QED BY <2>1, <2>2
<1>4. ASSUME NEW b \in Bidders, SubmitClockBid(b)
      PROVE  FirstRound'
  <2>1. PICK bid : /\ DOMAIN bid \subseteq Territories /\ bid \in [DOMAIN bid -> Demands]
                   /\ IsValidBid(b, bid) /\ bids' = [bids EXCEPT ![b] = bid]
    BY <1>4, SubmitType
  <2>2. UNCHANGED <<auctionState, clockRound, licenses, evaluating, eligibility, floor>>
    BY <1>4 DEF SubmitClockBid
  <2>3. clockRound >= 1
    BY <1>4 DEF SubmitClockBid, Loads, Phases
  <2>4. ASSUME clockRound = 1, Consistent(b)
        PROVE  Total(Quantities(bid)) <= Eligibilities[b].number
    <3>1. PICK elig \in getEligibilityNumber(b) : Total(Quantities(bid)) <= elig
      BY <2>1, <2>4 DEF IsValidBid, Quantities
    <3>2. elig <= Eligibilities[b].number
      BY <2>4, <3>1 DEF Consistent
    <3>3. elig \in Int /\ Total(Quantities(bid)) \in Nat
      BY <2>1, <3>1, EligibilityNumbers, QuantitiesCountable, UnitsFinite
    <3> QED BY <1>0, <3>1, <3>2, <3>3
  <2>5. bids'[b] = bid /\ \A c \in Bidders \ {b} : bids'[c] = bids[c]
    BY <2>1 DEF Typed
  <2>6. clockRound = 1 =>
          \A c \in Bidders : Consistent(c) => Total(Quantities(bids'[c])) <= Eligibilities[c].number
    BY <2>4, <2>5
  <2> QED BY <2>2, <2>3, <2>6
<1>5. CASE EndRound
  <2>1. /\ bids' = FillMissingBids /\ evaluating' = TRUE
        /\ UNCHANGED <<auctionState, clockRound, floor, eligibility>>
    BY <1>5 DEF EndRound
  <2>2. clockRound >= 1
    BY <1>5 DEF EndRound, Loads, Phases
  <2>3. clockRound = 1 =>
          \A b \in Bidders : Consistent(b) => Total(Quantities(bids'[b])) <= Eligibilities[b].number
    BY <2>1, FilledTotal
  <2> QED BY <2>1, <2>2, <2>3
<1>6. ASSUME NEW b \in Bidders, NEW t \in Territories, ApplyBid(b, t)
      PROVE  FirstRound'
  <2>1. clockRound > 1 /\ clockRound' = clockRound
    BY <1>6, ApplyBidLater DEF ApplyBid
  <2> QED BY <2>1 DEF Typed
<1>7. CASE FailFinalStageRule \/ CloseAuction
  <2>1. UNCHANGED <<clockRound, eligibility, floor, bids, licenses>> /\ auctionState' # "CLOCK"
    BY <1>7, LoopEndsFrame DEF FailFinalStageRule, CloseAuction
  <2> QED BY <2>1
<1>8. CASE NextRound
  <2>1. clockRound >= 1 /\ clockRound' = clockRound + 1
    BY <1>8 DEF NextRound, LoopEnds, Phases
  <2> QED BY <2>1 DEF Typed
<1>9. CASE PublishAssignmentResults
  BY <1>9 DEF PublishAssignmentResults
<1> QED BY <1>1, <1>2, <1>3, <1>4, <1>5, <1>6, <1>7, <1>8, <1>9 DEF Next, Evaluate
-----------------------------------------------------------------------------
(***************************************************************************)
(* Eligibility.                                                            *)
(***************************************************************************)

\* What EligibilityKept says of one bidder.
Within(b) ==
  /\ Total(licenses[b]) <= eligibility[b]
  /\ evaluating /\ clockRound > 1 => cap[b] = eligibility[b] - Total(licenses[b])

\* No step grants a bidder more than its eligibility, if the list is consistent
\* about it.
LEMMA WithinStep ==
  ASSUME Typed, Phases, FirstRound, [Next]_vars,
         NEW b \in Bidders, Consistent(b), Within(b)
  PROVE  Within(b)'
<1> USE DEF Within, roundVars, resultVars, closeVars, loopVars
<1>0. Total(licenses[b]) \in Nat /\ eligibility[b] \in 0 .. UIntSize - 1 /\ UIntSize \in Nat
  BY LicensesCountable, UnitsFinite, AuctionAssumption DEF Typed
<1>1. CASE UNCHANGED <<clockRound, evaluating, licenses, eligibility, cap>>
  BY <1>1
<1>2. CASE CreateAuction
  <2>1. licenses = Nothing /\ licenses' = licenses /\ eligibility' = getInitialEligibilities /\ ~ evaluating'
    BY <1>2 DEF CreateAuction, Phases, FirstRound
  <2>2. getInitialEligibilities[b] \in 0 .. UIntSize - 1
    BY EligibilityNumbers
  <2> QED BY <1>0, <2>1, <2>2, NothingTotal
<1>3. CASE EndRound
  <2>1. UNCHANGED <<clockRound, eligibility>>
    BY <1>3 DEF EndRound
  <2>2. CASE ProcessInitialRoundBids(FillMissingBids)
    <3>1. clockRound = 1 /\ eligibility = getInitialEligibilities
      BY <2>2 DEF ProcessInitialRoundBids, FirstRound
    <3>2. licenses'[b] = Quantities(FillMissingBids[b])
      <4>1. DOMAIN FillMissingBids[b] = Territories
        BY FilledType
      <4> QED BY <2>2, <4>1 DEF ProcessInitialRoundBids, Quantities
    <3>3. Total(licenses'[b]) <= Eligibilities[b].number
      BY <3>1, <3>2, FilledTotal DEF FirstRound
    <3>4. eligibility'[b] = Eligibilities[b].number
      BY <2>1, <3>1, EligibilityNumbers
    <3> QED BY <2>1, <3>1, <3>3, <3>4
  <2>3. CASE ProcessRegularRoundBids(FillMissingBids)
    <3>1. licenses' = licenses /\ cap'[b] = EligibilityCap(b)
      BY <2>3 DEF ProcessRegularRoundBids
    <3>2. eligibility[b] - Total(licenses[b]) \in 0 .. UIntSize - 1
      BY <1>0
    <3>3. EligibilityCap(b) = eligibility[b] - Total(licenses[b])
      BY <3>2, Wrapped DEF EligibilityCap
    <3> QED BY <2>1, <3>1, <3>3
  <2> QED BY <1>3, <2>2, <2>3 DEF EndRound
<1>4. ASSUME NEW c \in Bidders, NEW t \in Territories, ApplyBid(c, t)
      PROVE  Within(b)'
  <2>1. evaluating /\ clockRound > 1 /\ UNCHANGED <<clockRound, evaluating, eligibility>>
    BY <1>4, ApplyBidLater DEF ApplyBid
  <2>2. PICK moved \in Int : Moves(c, t, moved)
    BY <1>4, ApplyBidMoves
  <2>3. /\ Total(licenses'[c]) = Total(licenses[c]) + moved
        /\ \A d \in Bidders \ {c} : licenses'[d] = licenses[d]
    BY <2>2, MovedTotals
  <2>4. /\ cap'[c] = (cap[c] - moved) % UIntSize /\ cap[c] - moved \in Nat
        /\ \A d \in Bidders \ {c} : cap'[d] = cap[d]
    BY <2>2 DEF Moves, Typed
  <2>5. CASE c = b
    <3>1. licenses'[b] \in [Territories -> Nat]
      BY <2>2, MovedTotals
    <3>2. IsFiniteSet(Territories)
      BY AuctionAssumption
    <3>3. Countable(licenses'[b])
      BY <3>1, <3>2 DEF Countable
    <3>4. Total(licenses'[b]) \in Nat
      BY <3>3, UnitsFinite
    <3>5. cap[b] = eligibility[b] - Total(licenses[b])
      BY <2>1
    <3>6. cap[b] - moved = eligibility[b] - Total(licenses'[b])
      BY <1>0, <2>3, <2>5, <3>5
    <3>7. cap[b] - moved \in 0 .. UIntSize - 1
      BY <1>0, <2>4, <2>5, <3>4, <3>6
    <3>8. cap'[b] = cap[b] - moved
      BY <2>4, <2>5, <3>7, Wrapped
    <3> QED BY <1>0, <2>1, <3>4, <3>6, <3>7, <3>8
  <2>6. CASE c # b
    BY <2>1, <2>3, <2>4, <2>6
  <2> QED BY <2>5, <2>6
<1>5. CASE FailFinalStageRule \/ CloseAuction
  <2>1. ~ evaluating' /\ UNCHANGED <<licenses, eligibility>>
    BY <1>5, LoopEndsFrame DEF FailFinalStageRule, CloseAuction, LoopEnds
  <2> QED BY <2>1
<1>6. CASE NextRound
  <2>1. ~ evaluating' /\ licenses' = licenses /\ eligibility' = [c \in Bidders |-> NewEligibility(c)]
    BY <1>6, LoopEndsFrame DEF NextRound, LoopEnds
  <2> QED BY <2>1, NewEligibilityRange
<1>7. CASE StartNextRound \/ PublishAssignmentResults \/ \E c \in Bidders : SubmitClockBid(c)
  BY <1>1, <1>7 DEF StartNextRound, PublishAssignmentResults, SubmitClockBid
<1>8. CASE UNCHANGED vars
  BY <1>1, <1>8 DEF vars
<1> QED BY <1>2, <1>3, <1>4, <1>5, <1>6, <1>7, <1>8 DEF Next, Evaluate

\* Every step keeps the bidders within their eligibilities.
LEMMA EligibilityStep ==
  ASSUME Typed, Phases, FirstRound, EligibilityKept, [Next]_vars
  PROVE  EligibilityKept'
<1>1. \A b \in Bidders : Consistent(b) => Within(b)'
  BY WithinStep DEF EligibilityKept, Within
<1> QED BY <1>1 DEF EligibilityKept, Within, Consistent, getEligibilityNumber
-----------------------------------------------------------------------------
(***************************************************************************)
(* Demand.                                                                 *)
(***************************************************************************)

\* Every step keeps the excess demand that of the licenses, and where there was
\* enough demand there stays enough.
LEMMA DemandStep ==
  ASSUME Typed, Phases, ExcessAgrees, Stage, FinalStageDecidedFirst, [Next]_vars
  PROVE  ExcessAgrees' /\ Stage' /\ FinalStageDecidedFirst'
<1> USE DEF ExcessAgrees, Stage, FinalStageDecidedFirst, roundVars, resultVars, closeVars, loopVars
<1>1. CASE UNCHANGED <<auctionState, clockRound, evaluating, licenses, excess>>
  BY <1>1 DEF ExcessOf
<1>2. CASE CreateAuction
  <2>1. clockRound' = 1 /\ ~ evaluating'
    BY <1>2 DEF CreateAuction, Phases
  <2> QED BY <2>1
<1>3. CASE EndRound
  <2>1. UNCHANGED <<auctionState, clockRound>> /\ auctionState = "CLOCK"
    BY <1>3 DEF EndRound, Loads
  <2>2. CASE ProcessInitialRoundBids(FillMissingBids)
    BY <2>1, <2>2 DEF ProcessInitialRoundBids, ExcessOf
  <2>3. CASE ProcessRegularRoundBids(FillMissingBids)
    BY <2>1, <2>3 DEF ProcessRegularRoundBids, ExcessOf
  <2> QED BY <1>3, <2>2, <2>3 DEF EndRound
<1>4. ASSUME NEW b \in Bidders, NEW t \in Territories, ApplyBid(b, t)
      PROVE  ExcessAgrees' /\ Stage' /\ FinalStageDecidedFirst'
  <2>1. evaluating /\ auctionState = "CLOCK" /\ clockRound > 1 /\ UNCHANGED <<auctionState, clockRound, evaluating>>
    BY <1>4, ApplyBidLater DEF ApplyBid
  <2>2. PICK moved \in Int : Moves(b, t, moved)
    BY <1>4, ApplyBidMoves
  <2>3. /\ Total([c \in Bidders |-> licenses'[c][t]]) = Total([c \in Bidders |-> licenses[c][t]]) + moved
        /\ \A u \in Territories \ {t} :
              [c \in Bidders |-> licenses'[c][u]] = [c \in Bidders |-> licenses[c][u]]
    BY <2>2, MovedTotals
  <2>4. excess' = [excess EXCEPT ![t] = excess[t] + moved] /\ (moved < 0 => excess[t] + moved >= 0)
    BY <2>2 DEF Moves
  <2>5. excess = ExcessOf(licenses)
    BY <2>1
  <2>6. ASSUME NEW u \in Territories
        PROVE  excess'[u] = Total([c \in Bidders |-> licenses'[c][u]]) - Supply[u]
    <3>1. excess[u] = Total([c \in Bidders |-> licenses[c][u]]) - Supply[u]
      BY <2>5 DEF ExcessOf
    <3>2. CASE u = t
      <4>1. Total([c \in Bidders |-> licenses[c][t]]) \in Nat /\ Supply[t] \in Nat
        BY LicensesCountable, UnitsFinite, AuctionAssumption
      <4>2. excess'[t] = excess[t] + moved
        BY <2>4 DEF Typed
      <4> QED BY <2>3, <3>1, <3>2, <4>1, <4>2
    <3>3. CASE u # t
      <4>1. excess'[u] = excess[u]
        BY <2>4, <3>3 DEF Typed
      <4> QED BY <2>3, <3>1, <3>3, <4>1
    <3> QED BY <3>2, <3>3
  <2>7. excess' = ExcessOf(licenses')
    <3>1. excess' = [u \in Territories |-> excess'[u]]
      BY <2>4 DEF Typed
    <3> QED BY <2>6, <3>1 DEF ExcessOf
  <2>8. ASSUME NEW u \in HighDemand
        PROVE  excess'[u] >= 0
    <3>1. u \in Territories /\ excess[u] >= 0 /\ excess[u] \in Int
      BY <2>1, AuctionAssumption DEF Typed
    <3> QED BY <2>4, <3>1 DEF Typed
  <2> QED BY <2>1, <2>7, <2>8 DEF ExcessOf
<1>5. CASE FailFinalStageRule
  <2>1. evaluating /\ ~ evaluating' /\ UNCHANGED <<clockRound, licenses, excess>> /\ excess = ExcessOf(licenses)
    BY <1>5, LoopEndsFrame DEF FailFinalStageRule, LoopEnds
  <2>2. PICK t \in HighDemand : excess[t] < 0
    BY <1>5 DEF FailFinalStageRule, FinalStageRuleFails
  <2>3. t \in Territories /\ excess[t] \in Int
    BY AuctionAssumption DEF Typed
  <2>4. ~ (clockRound > 1)
    BY <2>2, <2>3
  <2>5. clockRound = 1
    BY <2>1, <2>4 DEF Phases, Typed
  <2> QED BY <2>1, <2>5 DEF ExcessOf
<1>6. CASE NextRound \/ CloseAuction
  <2>1. UNCHANGED <<licenses, excess>> /\ excess = ExcessOf(licenses) /\ auctionState' # "FSR_FAILED"
    BY <1>6, LoopEndsFrame DEF NextRound, CloseAuction, LoopEnds, Phases
  <2>2. \A t \in HighDemand : excess[t] >= 0
    BY <1>6, AuctionAssumption DEF NextRound, CloseAuction, FinalStageRuleFails, Typed
  <2> QED BY <2>1, <2>2 DEF ExcessOf
<1>7. CASE StartNextRound \/ PublishAssignmentResults \/ \E b \in Bidders : SubmitClockBid(b)
  BY <1>1, <1>7 DEF StartNextRound, PublishAssignmentResults, SubmitClockBid
<1>8. CASE UNCHANGED vars
  BY <1>1, <1>8 DEF vars
<1> QED BY <1>2, <1>3, <1>4, <1>5, <1>6, <1>7, <1>8 DEF Next, Evaluate
-----------------------------------------------------------------------------
(***************************************************************************)
(* Prices.                                                                 *)
(***************************************************************************)

\* Every step keeps the posted price between the opening and the clock price.
LEMMA PriceStep ==
  ASSUME Typed, Phases, FirstRound, Clocks, PricesInRange, [Next]_vars
  PROVE  Clocks' /\ PricesInRange'
<1> USE DEF Clocks, PricesInRange, Evaluated, roundVars, resultVars, closeVars, loopVars
<1>1. CASE UNCHANGED <<auctionState, clockRound, roundActive, evaluating, bids, floor, clock, posted>>
  BY <1>1
<1>2. CASE CreateAuction
  <2>1. /\ clockRound' = 1 /\ ~ evaluating' /\ auctionState' = "CLOCK"
        /\ floor' = MinPrice /\ clock' = [t \in Territories |-> ClockOf(MinPrice[t])]
    BY <1>2 DEF CreateAuction, Phases
  <2>2. \A t \in Territories : MinPrice[t] <= ClockOf(MinPrice[t])
    BY ClockAbove, AuctionAssumption
  <2> QED BY <2>1, <2>2
<1>3. CASE StartNextRound
  <2>1. /\ bids' = [b \in Bidders |-> NoBid] /\ auctionState = "CLOCK" /\ ~ evaluating
        /\ UNCHANGED <<auctionState, clockRound, evaluating, floor, clock, posted>>
    BY <1>3 DEF StartNextRound, Loads
  <2>2. \A b \in Bidders : DOMAIN bids'[b] = {}
    BY <2>1 DEF NoBid
  <2> QED BY <2>1, <2>2
<1>4. ASSUME NEW b \in Bidders, SubmitClockBid(b)
      PROVE  Clocks' /\ PricesInRange'
  <2>1. PICK bid : IsValidBid(b, bid) /\ bids' = [bids EXCEPT ![b] = bid]
    BY <1>4, SubmitType
  <2>2. /\ roundActive
        /\ UNCHANGED <<auctionState, clockRound, roundActive, evaluating, floor, clock, posted>>
    BY <1>4 DEF SubmitClockBid
  <2>3. clockRound > 1 => \A t \in DOMAIN bid : bid[t].price \in floor[t] .. clock[t]
    BY <2>1 DEF IsValidBid
  <2>4. bids'[b] = bid /\ \A c \in Bidders \ {b} : bids'[c] = bids[c]
    BY <2>1 DEF Typed
  <2> QED BY <2>2, <2>3, <2>4
<1>5. CASE EndRound
  <2>1. /\ bids' = FillMissingBids /\ roundActive /\ auctionState = "CLOCK"
        /\ UNCHANGED <<auctionState, clockRound, floor, clock>>
    BY <1>5 DEF EndRound, Loads
  <2>2. \A t \in Territories : floor[t] <= clock[t] /\ floor[t] \in Nat /\ clock[t] \in Nat
    BY <2>1 DEF Phases, Typed
  <2>3. ASSUME clockRound > 1, NEW b \in Bidders, NEW t \in Territories
        PROVE  FillMissingBids[b][t].price \in floor[t] .. clock[t]
    <3>1. CASE t \in DOMAIN bids[b]
      BY <2>1, <2>3, <3>1 DEF FillMissingBids
    <3>2. CASE t \notin DOMAIN bids[b]
      BY <2>2, <3>2 DEF FillMissingBids
    <3> QED BY <3>1, <3>2
  <2>4. \A b \in Bidders : DOMAIN bids'[b] = Territories
    BY <2>1 DEF FillMissingBids
  <2>5. Clocks'
    BY <2>1, <2>2, <2>3, <2>4
  <2>6. ASSUME NEW t \in Territories
        PROVE  posted'[t] \in floor[t] .. clock[t]
    <3>1. CASE ProcessInitialRoundBids(FillMissingBids)
      <4>1. posted' = MinPrice /\ floor = MinPrice
        BY <3>1 DEF ProcessInitialRoundBids, FirstRound
      <4> QED BY <2>2, <4>1
    <3>2. CASE ProcessRegularRoundBids(FillMissingBids)
      BY <2>2, <3>2 DEF ProcessRegularRoundBids
    <3> QED BY <1>5, <3>1, <3>2 DEF EndRound
  <2> QED BY <2>1, <2>5, <2>6
<1>6. ASSUME NEW b \in Bidders, NEW t \in Territories, ApplyBid(b, t)
      PROVE  Clocks' /\ PricesInRange'
  <2>1. evaluating /\ clockRound > 1
    BY <1>6, ApplyBidLater
  <2>2. UNCHANGED <<auctionState, clockRound, roundActive, evaluating, bids, floor, clock>>
    BY <1>6 DEF ApplyBid
  <2>3. DOMAIN bids[b] = Territories
    BY <2>1 DEF Phases
  <2>4. bids[b][t].price \in floor[t] .. clock[t]
    BY <2>1, <2>3
  <2>5. floor[t] <= clock[t] /\ floor[t] \in Nat /\ clock[t] \in Nat
    BY <2>1 DEF Typed
  <2>6. \E p \in {posted[t], clock[t], bids[b][t].price} : posted' = [posted EXCEPT ![t] = p]
    BY <1>6 DEF ApplyBid
  <2>7. \A u \in Territories : posted'[u] \in floor[u] .. clock[u]
    BY <2>1, <2>4, <2>5, <2>6 DEF Typed
  <2> QED BY <2>2, <2>7
<1>7. CASE FailFinalStageRule \/ CloseAuction
  <2>1. evaluating /\ ~ evaluating' /\ UNCHANGED <<clockRound, roundActive, bids, floor, clock, posted>>
    BY <1>7, LoopEndsFrame DEF FailFinalStageRule, CloseAuction, LoopEnds
  <2> QED BY <2>1
<1>8. CASE NextRound
  <2>1. /\ ~ evaluating' /\ ~ roundActive' /\ auctionState' = "CLOCK"
        /\ floor' = posted /\ clock' = [t \in Territories |-> ClockOf(posted[t])]
    BY <1>8 DEF NextRound, LoopEnds, Phases
  <2>2. \A t \in Territories : posted[t] <= ClockOf(posted[t])
    BY ClockAbove DEF Typed
  <2> QED BY <2>1, <2>2
<1>9. CASE PublishAssignmentResults
  BY <1>1, <1>9 DEF PublishAssignmentResults
<1>10. CASE UNCHANGED vars
  BY <1>1, <1>10 DEF vars
<1> QED BY <1>2, <1>3, <1>4, <1>5, <1>6, <1>7, <1>8, <1>9, <1>10 DEF Next, Evaluate
-----------------------------------------------------------------------------
(***************************************************************************)
(* Channels.  The bidders' licenses of a territory, one bidder after the   *)
(* other, are disjoint intervals of the places 1 .. Supply[t], and a       *)
(* shuffle of the channels is a bijection onto the places.                 *)
(***************************************************************************)

\* The licenses of territory t of the bidders before b.
Prefix(b, t) == [c \in 1 .. (b - 1) |-> licenses[c][t]]
Before(b, t) == Total(Prefix(b, t))

\* The licenses of the bidders before b are finitely many.
LEMMA PrefixCountable ==
  ASSUME Typed, NEW t \in Territories, NEW b \in 1 .. (NBidders + 1)
  PROVE  Countable(Prefix(b, t)) /\ Before(b, t) \in Nat
<1>0. NBidders \in Nat
  BY AuctionAssumption
<1>1. DOMAIN Prefix(b, t) = 1 .. (b - 1) /\ IsFiniteSet(1 .. (b - 1))
  BY <1>0, FS_Interval DEF Prefix
<1>2. \A c \in 1 .. (b - 1) : c \in Bidders /\ Prefix(b, t)[c] = licenses[c][t]
  BY <1>0 DEF Prefix, Bidders
<1>3. Countable(Prefix(b, t))
  BY <1>1, <1>2 DEF Countable, Typed
<1> QED BY <1>3, UnitsFinite DEF Before

\* The next bidder's interval starts where that of b ends.
LEMMA PrefixNext ==
  ASSUME Typed, NEW t \in Territories, NEW b \in Bidders
  PROVE  Before(b + 1, t) = Before(b, t) + licenses[b][t]
<1>0. NBidders \in Nat /\ b \in 1 .. NBidders /\ (b + 1) - 1 = b
  BY AuctionAssumption DEF Bidders
<1>1. b \in 1 .. (NBidders + 1) /\ b + 1 \in 1 .. (NBidders + 1)
  BY <1>0
<1> DEFINE f == Prefix(b, t)
           g == Prefix(b + 1, t)
           h == [c \in 1 .. b |-> IF c = b THEN 0 ELSE licenses[c][t]]
<1>2. Countable(f) /\ Countable(g) /\ Total(f) \in Nat
  BY <1>1, PrefixCountable DEF Before
<1>3. /\ DOMAIN f = 1 .. (b - 1) /\ DOMAIN g = 1 .. b /\ DOMAIN h = 1 .. b
      /\ \A c \in 1 .. (b - 1) : f[c] = licenses[c][t]
      /\ \A c \in 1 .. b : g[c] = licenses[c][t]
  BY <1>0 DEF Prefix
<1>4. licenses[b][t] \in Nat
  BY DEF Typed
<1>5. Countable(h)
  BY <1>2, <1>3 DEF Countable
<1>6. Total(h) = Total(f)
  <2>1. DOMAIN f \subseteq DOMAIN h
    BY <1>0, <1>3
  <2>2. \A c \in DOMAIN f : h[c] = f[c]
    BY <1>0, <1>3
  <2>3. \A c \in DOMAIN h \ DOMAIN f : h[c] = 0
    BY <1>0, <1>3
  <2> HIDE DEF f, h
  <2> QED BY <1>2, <1>5, <2>1, <2>2, <2>3, TotalPadded
<1>7. Total(g) = Total(h) + licenses[b][t]
  <2>1. \A c \in 1 .. b : c # b => g[c] = h[c]
    BY <1>3
  <2>2. h[b] = 0 /\ g[b] = licenses[b][t] /\ b \in DOMAIN h
    BY <1>0, <1>3
  <2> HIDE DEF f, g, h
  <2>3. Total(g) = Total(h) + g[b] - h[b]
    BY <1>2, <1>3, <1>5, <2>1, <2>2, TotalUpdate
  <2>4. Total(h) \in Nat
    BY <1>2, <1>6
  <2> QED BY <1>4, <2>2, <2>3, <2>4
<1> HIDE DEF f, g, h
<1> QED BY <1>6, <1>7 DEF f, g, Before

\* Bidders further on start no earlier, and all licenses together come last.
LEMMA PrefixMonotone ==
  ASSUME Typed, NEW t \in Territories, NEW b \in 1 .. (NBidders + 1), NEW c \in 1 .. (NBidders + 1), b <= c
  PROVE  Before(b, t) <= Before(c, t)
<1>0. NBidders \in Nat
  BY AuctionAssumption
<1>1. Countable(Prefix(b, t)) /\ Countable(Prefix(c, t))
  BY PrefixCountable
<1>2. DOMAIN Prefix(b, t) \subseteq DOMAIN Prefix(c, t)
  BY <1>0 DEF Prefix
<1>3. \A d \in DOMAIN Prefix(b, t) : Prefix(b, t)[d] <= Prefix(c, t)[d]
  <2> SUFFICES ASSUME NEW d \in 1 .. (b - 1)
               PROVE  Prefix(b, t)[d] <= Prefix(c, t)[d]
    BY DEF Prefix
  <2>1. d \in Bidders /\ d \in 1 .. (c - 1)
    BY <1>0 DEF Bidders
  <2>2. Prefix(b, t)[d] = licenses[d][t] /\ Prefix(c, t)[d] = licenses[d][t] /\ licenses[d][t] \in Nat
    BY <2>1 DEF Prefix, Typed
  <2> QED BY <2>2
<1> QED BY <1>1, <1>2, <1>3, TotalMonotone DEF Before

\* A place belongs to the bidder whose interval it is in.
LEMMA OwnerByInterval ==
  ASSUME Typed, NEW t \in Territories, NEW k \in Int, NEW b \in Bidders
  PROVE  OwnerOfPlace(t, k) = b <=> k > Before(b, t) /\ k <= Before(b, t) + licenses[b][t]
<1>0. NBidders \in Nat /\ \A c \in Bidders : c \in 1 .. (NBidders + 1) /\ c + 1 \in 1 .. (NBidders + 1)
  BY AuctionAssumption DEF Bidders
<1> DEFINE owners == {c \in Bidders : k > Before(c, t) /\ k <= Before(c, t) + licenses[c][t]}
<1>1. OwnerOfPlace(t, k) = IF owners = {} THEN 0 ELSE CHOOSE c \in owners : TRUE
  BY DEF OwnerOfPlace, Before, Prefix
<1>2. ASSUME NEW c \in owners, NEW d \in owners, c < d
      PROVE  FALSE
  <2>1. Before(c, t) + licenses[c][t] = Before(c + 1, t)
    BY PrefixNext
  <2>2. c + 1 <= d
    BY <1>2 DEF Bidders
  <2>3. Before(c + 1, t) <= Before(d, t)
    BY <1>0, <2>2, PrefixMonotone
  <2>4. Before(c + 1, t) \in Nat /\ Before(d, t) \in Nat
    BY <1>0, PrefixCountable
  <2> QED BY <2>1, <2>3, <2>4
<1>3. \A c, d \in owners : c = d
  BY <1>2 DEF Bidders
<1>4. b \in owners <=> k > Before(b, t) /\ k <= Before(b, t) + licenses[b][t]
  OBVIOUS
<1>5. b # 0
  BY DEF Bidders
<1>6. owners # {} => (CHOOSE c \in owners : TRUE) \in owners
  OBVIOUS
<1> HIDE DEF owners
<1> QED BY <1>1, <1>3, <1>4, <1>5, <1>6

\* processAssignmentRound hands out exactly the licenses.
LEMMA ChannelsHandedOut ==
  ASSUME Typed, NEW t \in Territories, NEW b \in Bidders,
         NEW place \in Bijection(1 .. Supply[t], 1 .. Supply[t]),
         Total([c \in Bidders |-> licenses[c][t]]) <= Supply[t]
  PROVE  Cardinality({c \in 1 .. Supply[t] : OwnerOfPlace(t, place[c]) = b}) = licenses[b][t]
<1>0. NBidders \in Nat /\ b \in 1 .. (NBidders + 1) /\ b + 1 \in 1 .. (NBidders + 1) /\ b + 1 <= NBidders + 1
      /\ NBidders + 1 \in 1 .. (NBidders + 1) /\ Supply[t] \in Nat
  BY AuctionAssumption DEF Bidders
<1> DEFINE lo == Before(b, t)
           hi == lo + licenses[b][t]
           S == {c \in 1 .. Supply[t] : OwnerOfPlace(t, place[c]) = b}
           T == (lo + 1) .. hi
           f == [c \in S |-> place[c]]
<1>1. lo \in Nat /\ licenses[b][t] \in Nat /\ hi \in Nat
  <2>1. lo \in Nat
    BY <1>0, PrefixCountable
  <2>2. licenses[b][t] \in Nat
    BY DEF Typed
  <2> HIDE DEF lo
  <2> QED BY <2>1, <2>2
<1>2. hi <= Supply[t]
  <2>1. hi = Before(b + 1, t)
    BY PrefixNext
  <2>2. Before(b + 1, t) <= Before(NBidders + 1, t)
    BY <1>0, PrefixMonotone
  <2>3. Prefix(NBidders + 1, t) = [c \in Bidders |-> licenses[c][t]]
    <3>1. (NBidders + 1) - 1 = NBidders
      BY <1>0
    <3> QED BY <3>1 DEF Prefix, Bidders
  <2>4. Before(NBidders + 1, t) <= Supply[t]
    BY <2>3 DEF Before
  <2>5. Before(b + 1, t) \in Nat /\ Before(NBidders + 1, t) \in Nat
    BY <1>0, PrefixCountable
  <2> QED BY <1>0, <2>1, <2>2, <2>4, <2>5
<1>3. /\ \A c \in 1 .. Supply[t] : place[c] \in 1 .. Supply[t]
      /\ \A c, d \in 1 .. Supply[t] : place[c] = place[d] => c = d
      /\ \A k \in 1 .. Supply[t] : \E c \in 1 .. Supply[t] : place[c] = k
  BY DEF Bijection, Injection, Surjection, IsInjective
<1>4. \A c \in 1 .. Supply[t] : c \in S <=> place[c] \in T
  <2> SUFFICES ASSUME NEW c \in 1 .. Supply[t]
               PROVE  OwnerOfPlace(t, place[c]) = b <=> place[c] \in T
    OBVIOUS
  <2>1. place[c] \in Int
    BY <1>3
  <2>2. OwnerOfPlace(t, place[c]) = b <=> place[c] > lo /\ place[c] <= hi
    BY <2>1, OwnerByInterval
  <2> HIDE DEF lo, hi
  <2> QED BY <1>1, <2>1, <2>2
<1> HIDE DEF lo, hi
<1>5. T \subseteq 1 .. Supply[t]
  BY <1>0, <1>1, <1>2
<1>6. S \subseteq 1 .. Supply[t]
  OBVIOUS
<1> HIDE DEF S, T
<1>7. f \in Bijection(S, T)
  <2>1. f \in [S -> T]
    BY <1>4, <1>6
  <2>2. \A c, d \in S : f[c] = f[d] => c = d
    BY <1>3, <1>6
  <2>3. \A k \in T : \E c \in S : f[c] = k
    BY <1>3, <1>4, <1>5
  <2> HIDE DEF f
  <2> QED BY <2>1, <2>2, <2>3 DEF Bijection, Injection, Surjection, IsInjective
<1>8. IsFiniteSet(S)
  <2>1. IsFiniteSet(1 .. Supply[t])
    BY <1>0, FS_Interval
  <2> QED BY <1>6, <2>1, FS_Subset
<1>9. Cardinality(T) = licenses[b][t]
  <2>1. Cardinality(T) = IF lo + 1 > hi THEN 0 ELSE hi - (lo + 1) + 1
    BY <1>1, FS_Interval DEF T
  <2>2. hi = lo + licenses[b][t]
    BY DEF hi
  <2> QED BY <1>1, <2>1, <2>2
<1>10. ExistsBijection(S, T)
  BY <1>7 DEF ExistsBijection
<1>11. Cardinality(T) = Cardinality(S)
  BY <1>8, <1>10, FS_Bijection
<1> QED BY <1>9, <1>11 DEF S

\* The assignment of a closed auction is final, and matches the licenses.
LEMMA ChannelsStep ==
  ASSUME Typed, Phases, ChannelsMatchLicenses, [Next]_vars
  PROVE  ChannelsMatchLicenses'
<1> USE DEF roundVars, resultVars, closeVars, loopVars
<1>1. CASE CloseAuction
  <2>1. /\ licenses' = licenses /\ excess = ExcessOf(licenses) /\ \A t \in Territories : excess[t] <= 0
    BY <1>1, LoopEndsFrame DEF CloseAuction, LoopEnds, ClockPhaseOver
  <2>2. PICK place \in [Territories -> UNION {[1 .. Supply[t] -> 1 .. Supply[t]] : t \in Territories}] :
          /\ \A t \in Territories : place[t] \in Bijection(1 .. Supply[t], 1 .. Supply[t])
          /\ winAssign' = [t \in Territories |->
                [c \in 1 .. Supply[t] |-> OwnerOfPlace(t, place[t][c])]]
    BY <1>1 DEF CloseAuction
  <2>3. ASSUME NEW b \in Bidders, NEW t \in Territories
        PROVE  Cardinality({c \in 1 .. Supply[t] : winAssign'[t][c] = b}) = licenses[b][t]
    <3>1. Total([c \in Bidders |-> licenses[c][t]]) <= Supply[t]
      <4>1. excess[t] = Total([c \in Bidders |-> licenses[c][t]]) - Supply[t] /\ excess[t] <= 0
        BY <2>1 DEF ExcessOf
      <4>2. Total([c \in Bidders |-> licenses[c][t]]) \in Nat /\ Supply[t] \in Nat
        BY LicensesCountable, UnitsFinite, AuctionAssumption
      <4> QED BY <4>1, <4>2
    <3>2. place[t] \in Bijection(1 .. Supply[t], 1 .. Supply[t])
      BY <2>2
    <3>3. Cardinality({c \in 1 .. Supply[t] : OwnerOfPlace(t, place[t][c]) = b}) = licenses[b][t]
      BY <3>1, <3>2, ChannelsHandedOut
    <3>4. \A c \in 1 .. Supply[t] : winAssign'[t][c] = OwnerOfPlace(t, place[t][c])
      BY <2>2
    <3>5. {c \in 1 .. Supply[t] : winAssign'[t][c] = b}
            = {c \in 1 .. Supply[t] : OwnerOfPlace(t, place[t][c]) = b}
      BY <3>4
    <3> QED BY <3>3, <3>5
  <2> QED BY <2>1, <2>3 DEF ChannelsMatchLicenses
<1>2. CASE PublishAssignmentResults
  BY <1>2 DEF PublishAssignmentResults, ChannelsMatchLicenses
<1>3. CASE UNCHANGED vars
  BY <1>3 DEF vars, ChannelsMatchLicenses
<1>4. CASE CreateAuction \/ StartNextRound \/ EndRound \/ \E b \in Bidders : SubmitClockBid(b)
  <2>1. auctionState' # "CLOSED"
    BY <1>4 DEF CreateAuction, StartNextRound, EndRound, SubmitClockBid, Loads
  <2> QED BY <2>1 DEF ChannelsMatchLicenses
<1>5. ASSUME NEW b \in Bidders, NEW t \in Territories, ApplyBid(b, t)
      PROVE  ChannelsMatchLicenses'
  <2>1. auctionState' # "CLOSED"
    BY <1>5, ApplyBidLater DEF ApplyBid
  <2> QED BY <2>1 DEF ChannelsMatchLicenses
<1>6. CASE FailFinalStageRule \/ NextRound
  <2>1. auctionState' # "CLOSED"
    BY <1>6 DEF FailFinalStageRule, NextRound, LoopEnds, Phases
  <2> QED BY <2>1 DEF ChannelsMatchLicenses
<1> QED BY <1>1, <1>2, <1>3, <1>4, <1>5, <1>6 DEF Next, Evaluate
-----------------------------------------------------------------------------
(***************************************************************************)
(* The theorems.                                                           *)
(***************************************************************************)
AuctionInv ==
  /\ Typed /\ Phases /\ FirstRound /\ EligibilityKept
  /\ ExcessAgrees /\ Stage /\ FinalStageDecidedFirst
  /\ Clocks /\ PricesInRange
  /\ ChannelsMatchLicenses

\* Before createAuction there is nothing.
LEMMA InitAuctionInv == Init => AuctionInv
<1> SUFFICES ASSUME Init PROVE AuctionInv
  OBVIOUS
<1>1. DOMAIN NoBid = {} /\ NoBid \in [{} -> Demands]
  BY DEF NoBid
<1>2. Zero \in [Territories -> Nat] /\ Zero \in [Territories -> Int]
  BY DEF Zero
<1>3. Typed
  BY <1>1, <1>2, AuctionAssumption DEF Init, Typed
<1>4. Phases /\ FirstRound
  <2>1. Phases
    BY DEF Init, Phases, Nothing
  <2>2. FirstRound
    BY DEF Init, FirstRound, Nothing
  <2> QED BY <2>1, <2>2
<1>5. EligibilityKept
  BY NothingTotal DEF Init, EligibilityKept, Nothing
<1>6. ExcessAgrees /\ Stage /\ FinalStageDecidedFirst /\ Clocks /\ PricesInRange /\ ChannelsMatchLicenses
  BY DEF Init, ExcessAgrees, Stage, FinalStageDecidedFirst, Clocks, PricesInRange, Evaluated,
    ChannelsMatchLicenses
<1> QED BY <1>3, <1>4, <1>5, <1>6 DEF AuctionInv

\* The invariant of the auction is inductive.
LEMMA AuctionInvariant == Spec => []AuctionInv
<1>1. AuctionInv /\ [Next]_vars => AuctionInv'
  BY TypedStep, PhasesStep, FirstRoundStep, EligibilityStep, DemandStep, PriceStep, ChannelsStep
     DEF AuctionInv
<1> QED BY <1>1, InitAuctionInv, PTL DEF Spec

\* The stored state stays well formed, whatever the order of the eligibilities: the
\* loop takes no bidder below zero licenses even when an eligibilityCap has wrapped.
THEOREM SpectrumTypeCorrect == Spec => []TypeOK
<1>1. AuctionInv => TypeOK
  BY TypedIsTypeOK DEF AuctionInv
<1> QED BY <1>1, AuctionInvariant, PTL

\* For every list of eligibilities that checkValidity admits: a bidder it is
\* consistent about never holds more licenses than its eligibility, and its
\* eligibilityCap never wraps, through all rounds and whatever the others do.
THEOREM EligibilityKeptCorrect == Spec => []EligibilityKept
<1>1. AuctionInv => EligibilityKept
  BY DEF AuctionInv
<1> QED BY <1>1, AuctionInvariant, PTL

\* The check at the end of processBidsPostamble never fails a round.
THEOREM ExcessAgreesCorrect == Spec => []ExcessAgrees
<1>1. AuctionInv => ExcessAgrees
  BY DEF AuctionInv
<1> QED BY <1>1, AuctionInvariant, PTL

\* The posted price lies between the opening and the clock price of its round.
THEOREM PricesInRangeCorrect == Spec => []PricesInRange
<1>1. AuctionInv => PricesInRange
  BY DEF AuctionInv
<1> QED BY <1>1, AuctionInvariant, PTL

\* The final stage rule fails in the first round or never.
THEOREM FinalStageCorrect == Spec => []FinalStageDecidedFirst
<1>1. AuctionInv => FinalStageDecidedFirst
  BY DEF AuctionInv
<1> QED BY <1>1, AuctionInvariant, PTL

\* A closed auction gave every bidder the channels of its licenses, whatever the
\* shuffle.
THEOREM ChannelsCorrect == Spec => []ChannelsMatchLicenses
<1>1. AuctionInv => ChannelsMatchLicenses
  BY DEF AuctionInv
<1> QED BY <1>1, AuctionInvariant, PTL

\* The activity rule never gives eligibility back.
THEOREM EligibilityNeverGrowsCorrect == Spec => EligibilityNeverGrows
<1>1. AuctionInv /\ [Next]_vars
        => (auctionState # "NONE" => \A b \in Bidders : eligibility'[b] <= eligibility[b])
  <2> SUFFICES ASSUME AuctionInv, [Next]_vars, auctionState # "NONE", NEW b \in Bidders
               PROVE  eligibility'[b] <= eligibility[b]
    OBVIOUS
  <2>0. eligibility[b] \in Nat /\ Typed
    BY AuctionAssumption DEF AuctionInv, Typed
  <2>1. CASE UNCHANGED eligibility
    BY <2>0, <2>1
  <2>2. CASE NextRound
    BY <2>0, <2>2, NewEligibilityRange DEF NextRound
  <2> QED BY <2>1, <2>2 DEF Next, vars, roundVars, CreateAuction, StartNextRound, EndRound,
    SubmitClockBid, Evaluate, ApplyBid, FailFinalStageRule, CloseAuction, PublishAssignmentResults
<1> QED BY <1>1, AuctionInvariant, PTL DEF Spec, EligibilityNeverGrows
=============================================================================
