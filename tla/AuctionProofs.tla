---------------------------- MODULE AuctionProofs ----------------------------
(***************************************************************************)
(* The example auction for every list of bidders, every set of values and  *)
(* every number of calls: the outcome that eval publishes is the one of    *)
(* the bids that close found, and the search of eval finds it.             *)
(***************************************************************************)
EXTENDS Auction, FiniteSetTheorems, WellFoundedInduction, TLAPS

(***************************************************************************)
(* Induction over a set of numbers, and what it says of a function that    *)
(* is defined by its own values.                                           *)
(***************************************************************************)

\* The numbers are the only set that holds 0 and every successor.
LEMMA SetInduction ==
  ASSUME NEW P, 0 \in P, \A n \in Nat : n \in P => n + 1 \in P
  PROVE  \A n \in Nat : n \in P
<1> SUFFICES ASSUME NEW m \in Nat, m \notin P
             PROVE  FALSE
  OBVIOUS
<1> DEFINE T == Nat \ P
           R == OpToRel(<, Nat)
<1>1. T \subseteq Nat /\ T # {}
  OBVIOUS
<1>2. IsWellFoundedOn(R, Nat)
  BY NatLessThanWellFounded
<1>3. PICK x \in T : \A y \in T : ~ (<<y, x>> \in R)
  <2> HIDE DEF T, R
  <2> QED BY <1>1, <1>2, WFMin
<1>4. x \in Nat /\ x # 0
  BY <1>3
<1>5. x - 1 \in Nat /\ (x - 1) + 1 = x /\ x - 1 < x
  BY <1>4
<1>6. <<x - 1, x>> \in R
  BY <1>4, <1>5 DEF OpToRel
<1>7. x - 1 \in T
  BY <1>3, <1>5
<1> QED BY <1>3, <1>6, <1>7

IsRun(g, X, start, n, turn) ==
  /\ g \in [0 .. n -> X] /\ g[0] = start
  /\ \A i \in 1 .. n : g[i] = turn[i][g[i - 1]]

\* A function on 0 .. n whose values follow from one another exists.
LEMMA RunExists ==
  ASSUME NEW X, NEW start \in X, NEW n \in Nat, NEW turn \in [1 .. n -> [X -> X]]
  PROVE  \E g : IsRun(g, X, start, n, turn)
<1> DEFINE Runs(k) == {g \in [0 .. k -> X] :
                         g[0] = start /\ \A i \in 1 .. k : g[i] = turn[i][g[i - 1]]}
           P == {k \in Nat : k <= n => Runs(k) # {}}
<1>1. 0 \in P
  <2>1. [i \in 0 .. 0 |-> start] \in Runs(0)
    OBVIOUS
  <2> QED BY <2>1
<1>2. ASSUME NEW k \in Nat, k \in P
      PROVE  k + 1 \in P
  <2> SUFFICES ASSUME k + 1 <= n
               PROVE  Runs(k + 1) # {}
    OBVIOUS
  <2>1. PICK g \in Runs(k) : TRUE
    BY <1>2
  <2>2. /\ g \in [0 .. k -> X] /\ g[0] = start
        /\ \A i \in 1 .. k : g[i] = turn[i][g[i - 1]]
    BY <2>1
  <2>3. turn[k + 1] \in [X -> X] /\ g[k] \in X
    BY <2>2
  <2> DEFINE h == [i \in 0 .. (k + 1) |-> IF i = k + 1 THEN turn[k + 1][g[k]] ELSE g[i]]
  <2>4. h \in [0 .. (k + 1) -> X]
    BY <2>2, <2>3
  <2>5. h[0] = start
    BY <2>2
  <2>6. ASSUME NEW i \in 1 .. (k + 1)
        PROVE  h[i] = turn[i][h[i - 1]]
    <3>1. CASE i = k + 1
      <4>1. h[i] = turn[k + 1][g[k]]
        BY <3>1
      <4>2. i - 1 = k /\ h[k] = g[k]
        BY <3>1
      <4> QED BY <3>1, <4>1, <4>2
    <3>2. CASE i # k + 1
      <4>1. i \in 1 .. k /\ i - 1 \in 0 .. k
        BY <3>2
      <4>2. h[i] = g[i] /\ h[i - 1] = g[i - 1]
        BY <4>1
      <4> QED BY <2>2, <4>1, <4>2
    <3> QED BY <3>1, <3>2
  <2> HIDE DEF h
  <2> QED BY <2>4, <2>5, <2>6
<1> HIDE DEF P
<1>3. n \in P
  BY <1>1, <1>2, SetInduction
<1>4. Runs(n) # {}
  BY <1>3 DEF P
<1> QED BY <1>4 DEF IsRun
-----------------------------------------------------------------------------
(***************************************************************************)
(* The search of eval.                                                     *)
(***************************************************************************)
AllBids == [Bidders -> Values \cup {Absent}]

\* The variables of the loop; nobody has won as long as no bid exceeds -1.
Bests == [high : Int, draw : BOOLEAN, winner : {<< >>} \cup Bidders \X Values]

NoBest == [high |-> -1, draw |-> FALSE, winner |-> << >>]

\* The i-th turn of the loop.
Turn(bids, i, best) ==
  IF bids[Order[i]] = Absent THEN best ELSE Consider(best, Order[i], bids[Order[i]])

\* The keys are in one list, each once.
LEMMA OrderFacts ==
  /\ Len(Order) \in Nat
  /\ \A i \in 1 .. Len(Order) : Order[i] \in Bidders
  /\ \A b \in Bidders : \E i \in 1 .. Len(Order) : Order[i] = b
  /\ \A i, j \in 1 .. Len(Order) : Order[i] = Order[j] => i = j
<1>1. Order \in Seq(Bidders) /\ IsInjective(Order)
  BY AuctionAssumption
<1>2. DOMAIN Order = 1 .. Len(Order) /\ Len(Order) \in Nat
  BY <1>1
<1> QED BY <1>1, <1>2 DEF Bidders, Range, IsInjective

\* A turn keeps the types of the loop's variables.
LEMMA TurnType ==
  ASSUME NEW bids \in AllBids, NEW i \in 1 .. Len(Order), NEW best \in Bests
  PROVE  Turn(bids, i, best) \in Bests
<1>1. Order[i] \in Bidders
  BY OrderFacts
<1>2. CASE bids[Order[i]] = Absent
  BY <1>2 DEF Turn
<1>3. CASE bids[Order[i]] # Absent
  <2> DEFINE v == bids[Order[i]]
  <2>1. v \in Values /\ v \in Int
    BY <1>1, <1>3, AuctionAssumption DEF AllBids
  <2>2. <<Order[i], v>> \in Bidders \X Values
    BY <1>1, <2>1
  <2>3. best.high \in Int
    BY DEF Bests
  <2>4. Turn(bids, i, best) = Consider(best, Order[i], v)
    BY <1>3 DEF Turn
  <2> HIDE DEF v
  <2>5. CASE v > best.high
    <3>1. Consider(best, Order[i], v) = [high |-> v, draw |-> FALSE, winner |-> <<Order[i], v>>]
      BY <2>1, <2>3, <2>5 DEF Consider
    <3> QED BY <2>1, <2>2, <2>4, <3>1 DEF Bests
  <2>6. CASE v = best.high
    <3>1. Consider(best, Order[i], v) = [best EXCEPT !.draw = TRUE]
      BY <2>1, <2>3, <2>6 DEF Consider
    <3> QED BY <2>4, <3>1 DEF Bests
  <2>7. CASE v < best.high
    <3>1. Consider(best, Order[i], v) = best
      BY <2>1, <2>3, <2>7 DEF Consider
    <3> QED BY <2>4, <3>1
  <2> QED BY <2>1, <2>3, <2>5, <2>6, <2>7
<1> QED BY <1>2, <1>3

\* Search is the run of the loop: it starts at NoBest and takes its turns.
LEMMA SearchRuns ==
  ASSUME NEW bids \in AllBids
  PROVE  /\ Search(bids) \in [0 .. Len(Order) -> Bests]
         /\ Search(bids)[0] = NoBest
         /\ \A i \in 1 .. Len(Order) : Search(bids)[i] = Turn(bids, i, Search(bids)[i - 1])
<1> DEFINE n == Len(Order)
           turn == [i \in 1 .. n |-> [best \in Bests |-> Turn(bids, i, best)]]
           Body(g) == [i \in 0 .. n |-> IF i = 0 THEN NoBest ELSE Turn(bids, i, g[i - 1])]
<1>0. n \in Nat
  BY OrderFacts
<1>1. NoBest \in Bests
  BY DEF NoBest, Bests
<1>2. turn \in [1 .. n -> [Bests -> Bests]]
  BY TurnType
<1>3. PICK g : IsRun(g, Bests, NoBest, n, turn)
  <2> HIDE DEF turn, n
  <2> QED BY <1>0, <1>1, <1>2, RunExists
<1>4. /\ g \in [0 .. n -> Bests] /\ g[0] = NoBest
      /\ \A i \in 1 .. n : g[i] = turn[i][g[i - 1]]
  BY <1>3 DEF IsRun
<1>5. g = Body(g)
  <2>1. ASSUME NEW i \in 1 .. n
        PROVE  g[i] = Turn(bids, i, g[i - 1])
    <3>1. i - 1 \in 0 .. n
      BY <1>0
    <3> QED BY <1>4, <3>1
  <2>2. \A i \in 0 .. n : i # 0 => i \in 1 .. n
    BY <1>0
  <2>3. \A i \in 0 .. n : g[i] = IF i = 0 THEN NoBest ELSE Turn(bids, i, g[i - 1])
    BY <1>4, <2>1, <2>2
  <2> QED BY <1>4, <2>3
<1>6. Search(bids) = CHOOSE best : best = Body(best)
  BY DEF Search, Turn, NoBest
<1>7. Search(bids) = Body(Search(bids))
  BY <1>5, <1>6
<1> DEFINE s == Search(bids)
<1>8. s[0] = NoBest /\ DOMAIN s = 0 .. n /\ s = [i \in 0 .. n |-> s[i]]
  BY <1>0, <1>7
<1>9. \A i \in 1 .. n : s[i] = Turn(bids, i, s[i - 1])
  BY <1>0, <1>7
<1> HIDE DEF s, n
<1>10. \A i \in 0 .. n : s[i] \in Bests
  <2> DEFINE P == {i \in Nat : i <= n => s[i] \in Bests}
  <2>1. 0 \in P
    BY <1>1, <1>8
  <2>2. ASSUME NEW i \in Nat, i \in P
        PROVE  i + 1 \in P
    <3> SUFFICES ASSUME i + 1 <= n
                 PROVE  s[i + 1] \in Bests
      OBVIOUS
    <3>1. i + 1 \in 1 .. n /\ (i + 1) - 1 = i /\ i <= n
      BY <1>0
    <3>2. s[i] \in Bests
      BY <2>2, <3>1
    <3>3. s[i + 1] = Turn(bids, i + 1, s[i])
      BY <1>9, <3>1
    <3> QED BY <3>1, <3>2, <3>3, TurnType DEF n
  <2> HIDE DEF P
  <2>3. \A i \in Nat : i \in P
    BY <2>1, <2>2, SetInduction
  <2> QED BY <1>0, <2>3 DEF P
<1> QED BY <1>8, <1>9, <1>10 DEF s, n

\* The bids the first i turns have met.
Seen(bids, i) == {j \in 1 .. i : bids[Order[j]] # Absent}

\* What the loop knows after i turns: high is the highest bid it has met or -1; the
\* first bid of that value is the winner, and draw tells whether there is another.
Found(bids, i, best) ==
  /\ best.high >= -1
  /\ \A j \in Seen(bids, i) : bids[Order[j]] <= best.high
  /\ best.high >= 0 =>
       \E j \in Seen(bids, i) :
         /\ bids[Order[j]] = best.high /\ best.winner = <<Order[j], best.high>>
         /\ best.draw <=> \E k \in Seen(bids, i) : k # j /\ bids[Order[k]] = best.high

\* Bids that are met are numbers.
LEMMA SeenIsBid ==
  ASSUME NEW bids \in AllBids, NEW i \in 0 .. Len(Order), NEW j \in Seen(bids, i)
  PROVE  j \in 1 .. i /\ j \in 1 .. Len(Order) /\ bids[Order[j]] \in Values /\ bids[Order[j]] \in Int
<1>1. j \in 1 .. i /\ bids[Order[j]] # Absent
  BY DEF Seen
<1>2. j \in 1 .. Len(Order)
  BY <1>1, OrderFacts
<1>3. Order[j] \in Bidders
  BY <1>2, OrderFacts
<1> QED BY <1>1, <1>2, <1>3, AuctionAssumption DEF AllBids

\* A turn keeps what the loop knows up to date.
LEMMA TurnFinds ==
  ASSUME NEW bids \in AllBids, NEW i \in 1 .. Len(Order), NEW best \in Bests,
         Found(bids, i - 1, best)
  PROVE  Found(bids, i, Turn(bids, i, best))
<1> DEFINE v == bids[Order[i]]
           next == Turn(bids, i, best)
<1>0. Len(Order) \in Nat /\ i - 1 \in 0 .. Len(Order) /\ i \in 0 .. Len(Order)
  BY OrderFacts
<1>1. best.high \in Int /\ best.high >= -1
  BY DEF Bests, Found
<1>2. Seen(bids, i - 1) = Seen(bids, i) \ {i}
  BY <1>0 DEF Seen
<1>3. CASE v = Absent
  <2>1. Seen(bids, i) = Seen(bids, i - 1)
    BY <1>2, <1>3 DEF Seen
  <2>2. next = best
    BY <1>3 DEF Turn
  <2> QED BY <2>1, <2>2 DEF Found
<1>4. CASE v # Absent
  <2>1. i \in Seen(bids, i)
    BY <1>0, <1>4 DEF Seen
  <2>2. v \in Int
    BY <1>0, <2>1, SeenIsBid
  <2>3. next = Consider(best, Order[i], v)
    BY <1>4 DEF Turn
  <2>4. \A j \in Seen(bids, i) : j = i \/ j \in Seen(bids, i - 1)
    BY <1>2
  <2>5. \A j \in Seen(bids, i - 1) : j # i /\ j \in Seen(bids, i)
    BY <1>2
  <2>6. \A j \in Seen(bids, i) : bids[Order[j]] \in Int
    BY <1>0, SeenIsBid
  <2>7. \A j \in Seen(bids, i - 1) : bids[Order[j]] <= best.high
    BY DEF Found
  <2>8. CASE v > best.high
    <3>1. next = [high |-> v, draw |-> FALSE, winner |-> <<Order[i], v>>]
      BY <1>1, <2>2, <2>3, <2>8 DEF Consider
    <3>2. next.high = v /\ next.draw = FALSE /\ next.winner = <<Order[i], v>>
      BY <3>1
    <3>3. \A j \in Seen(bids, i) : bids[Order[j]] <= v /\ (j # i => bids[Order[j]] # v)
      BY <1>1, <2>2, <2>4, <2>6, <2>7, <2>8
    <3> HIDE DEF next
    <3>4. Found(bids, i, next)
      BY <1>1, <2>1, <2>2, <2>8, <3>2, <3>3 DEF Found
    <3> QED BY <3>4 DEF next
  <2>9. CASE v = best.high
    <3>1. next = [best EXCEPT !.draw = TRUE]
      BY <1>1, <2>2, <2>3, <2>9 DEF Consider
    <3>2. next.high = best.high /\ next.draw = TRUE /\ next.winner = best.winner
      BY <3>1 DEF Bests
    <3>3. \A j \in Seen(bids, i) : bids[Order[j]] <= best.high
      BY <1>1, <2>4, <2>7, <2>9
    <3>4. ASSUME best.high >= 0
          PROVE  \E j \in Seen(bids, i) :
                   /\ bids[Order[j]] = best.high /\ best.winner = <<Order[j], best.high>>
                   /\ \E k \in Seen(bids, i) : k # j /\ bids[Order[k]] = best.high
      <4>1. PICK j \in Seen(bids, i - 1) :
               bids[Order[j]] = best.high /\ best.winner = <<Order[j], best.high>>
        BY <3>4 DEF Found
      <4> QED BY <2>1, <2>5, <2>9, <4>1
    <3> HIDE DEF next
    <3>5. Found(bids, i, next)
      BY <1>1, <3>2, <3>3, <3>4 DEF Found
    <3> QED BY <3>5 DEF next
  <2>10. CASE v < best.high
    <3>1. next = best
      BY <1>1, <2>2, <2>3, <2>10 DEF Consider
    <3>2. \A j \in Seen(bids, i) : bids[Order[j]] <= best.high
      BY <1>1, <2>2, <2>4, <2>7, <2>10
    <3>3. ASSUME best.high >= 0
          PROVE  \E j \in Seen(bids, i) :
                   /\ bids[Order[j]] = best.high /\ best.winner = <<Order[j], best.high>>
                   /\ best.draw <=> \E k \in Seen(bids, i) : k # j /\ bids[Order[k]] = best.high
      <4>1. PICK j \in Seen(bids, i - 1) :
               /\ bids[Order[j]] = best.high /\ best.winner = <<Order[j], best.high>>
               /\ best.draw <=> \E k \in Seen(bids, i - 1) : k # j /\ bids[Order[k]] = best.high
        BY <3>3 DEF Found
      <4>2. v # best.high
        BY <1>1, <2>2, <2>10
      <4>3. (\E k \in Seen(bids, i - 1) : k # j /\ bids[Order[k]] = best.high)
            <=> \E k \in Seen(bids, i) : k # j /\ bids[Order[k]] = best.high
        BY <2>4, <2>5, <4>2
      <4> QED BY <2>5, <4>1, <4>3
    <3> HIDE DEF next
    <3>4. Found(bids, i, next)
      BY <1>1, <3>1, <3>2, <3>3 DEF Found
    <3> QED BY <3>4 DEF next
  <2> QED BY <1>1, <2>2, <2>8, <2>9, <2>10
<1> QED BY <1>3, <1>4

\* The search ends with the highest bid.
LEMMA SearchFinds ==
  ASSUME NEW bids \in AllBids
  PROVE  /\ Search(bids)[Len(Order)] \in Bests
         /\ Found(bids, Len(Order), Search(bids)[Len(Order)])
<1> DEFINE n == Len(Order)
           s == Search(bids)
           P == {i \in Nat : i <= n => Found(bids, i, s[i])}
<1>0. /\ n \in Nat /\ s \in [0 .. n -> Bests] /\ s[0] = NoBest
      /\ \A i \in 1 .. n : s[i] = Turn(bids, i, s[i - 1])
  BY OrderFacts, SearchRuns
<1> HIDE DEF s
<1>1. 0 \in P
  <2>1. Seen(bids, 0) = {}
    BY DEF Seen
  <2>2. s[0].high = -1
    BY <1>0 DEF NoBest
  <2> QED BY <2>1, <2>2 DEF Found
<1>2. ASSUME NEW i \in Nat, i \in P
      PROVE  i + 1 \in P
  <2> SUFFICES ASSUME i + 1 <= n
               PROVE  Found(bids, i + 1, s[i + 1])
    OBVIOUS
  <2>1. i + 1 \in 1 .. n /\ (i + 1) - 1 = i /\ i <= n /\ i \in 0 .. n
    BY <1>0
  <2>2. Found(bids, i, s[i]) /\ s[i] \in Bests
    BY <1>0, <1>2, <2>1
  <2>3. s[i + 1] = Turn(bids, i + 1, s[i])
    BY <1>0, <2>1
  <2> QED BY <2>1, <2>2, <2>3, TurnFinds
<1> HIDE DEF P
<1>3. n \in P
  BY <1>0, <1>1, <1>2, SetInduction
<1> QED BY <1>0, <1>3 DEF P, s

\* The outcome that OutcomeOfBidsAtClose asks for.
Proper(bids, outcome) ==
  LET bidding == {b \in Bidders : bids[b] # Absent}
      highest == {b \in bidding : \A c \in bidding : bids[c] <= bids[b]}
  IN  /\ outcome = <<"NO_BIDS">> <=> bidding = {}
      /\ \A b \in highest :
           bids[b] >= 0 => outcome = IF highest = {b} THEN <<b, bids[b]>> ELSE <<"DRAW">>

\* eval computes an outcome, and the proper one.
LEMMA ResultIsProper ==
  ASSUME NEW bids \in AllBids
  PROVE  Result(bids) \in Outcomes /\ Proper(bids, Result(bids))
<1> DEFINE n == Len(Order)
           best == Search(bids)[n]
           bidding == {b \in Bidders : bids[b] # Absent}
           highest == {b \in bidding : \A c \in bidding : bids[c] <= bids[b]}
           none == \A b \in Bidders : bids[b] = Absent
<1>1. best \in Bests /\ Found(bids, n, best)
  BY SearchFinds
<1>2. Result(bids) = IF none THEN <<"NO_BIDS">> ELSE IF best.draw THEN <<"DRAW">> ELSE best.winner
  BY DEF Result
<1> HIDE DEF best
<1>3. best.winner \in {<< >>} \cup Bidders \X Values /\ best.high \in Int /\ best.draw \in BOOLEAN
  BY <1>1 DEF Bests
<1>4. Result(bids) \in Outcomes
  BY <1>2, <1>3 DEF Outcomes
<1>5. Result(bids) = <<"NO_BIDS">> <=> bidding = {}
  <2>1. none <=> bidding = {}
    OBVIOUS
  <2>2. <<"DRAW">> # <<"NO_BIDS">>
    OBVIOUS
  <2>3. best.winner # <<"NO_BIDS">>
    <3>1. << >> # <<"NO_BIDS">>
      OBVIOUS
    <3>2. \A x, y : <<x, y>> # <<"NO_BIDS">>
      <4> SUFFICES ASSUME NEW x, NEW y, <<x, y>> = <<"NO_BIDS">>
                   PROVE  FALSE
        OBVIOUS
      <4>1. Len(<<x, y>>) = 2 /\ Len(<<"NO_BIDS">>) = 1
        OBVIOUS
      <4> QED BY <4>1
    <3>3. \A w \in Bidders \X Values : w = <<w[1], w[2]>>
      OBVIOUS
    <3>4. \A w \in Bidders \X Values : w # <<"NO_BIDS">>
      BY <3>2, <3>3, Zenon
    <3> QED BY <1>3, <3>1, <3>4, Zenon
  <2> QED BY <1>2, <2>1, <2>2, <2>3
<1>6. ASSUME NEW b \in highest, bids[b] >= 0
      PROVE  Result(bids) = IF highest = {b} THEN <<b, bids[b]>> ELSE <<"DRAW">>
  <2>0. n \in Nat /\ n \in 0 .. n
    BY OrderFacts
  <2>1. ~ none /\ b \in bidding
    OBVIOUS
  <2>2. PICK m \in 1 .. n : Order[m] = b
    BY <2>1, OrderFacts
  <2>3. m \in Seen(bids, n)
    BY <2>1, <2>2 DEF Seen
  <2>4. bids[b] \in Int /\ bids[b] <= best.high
    BY <1>1, <2>0, <2>2, <2>3, SeenIsBid DEF Found
  <2>5. PICK j \in Seen(bids, n) :
           /\ bids[Order[j]] = best.high /\ best.winner = <<Order[j], best.high>>
           /\ best.draw <=> \E k \in Seen(bids, n) : k # j /\ bids[Order[k]] = best.high
    BY <1>1, <1>3, <1>6, <2>4 DEF Found
  <2>6. \A k \in Seen(bids, n) : k \in 1 .. n /\ Order[k] \in bidding
    BY OrderFacts DEF Seen
  <2>7. best.high <= bids[b]
    BY <2>5, <2>6
  <2>8. best.high = bids[b]
    BY <1>3, <2>4, <2>7
  <2>9. \A c \in bidding : bids[c] = bids[b] => c \in highest
    OBVIOUS
  <2>10. \A c \in highest : bids[c] = bids[b]
    <3> SUFFICES ASSUME NEW c \in highest
                 PROVE  bids[c] = bids[b]
      OBVIOUS
    <3>1. bids[c] \in Int
      BY AuctionAssumption DEF AllBids
    <3>2. bids[c] <= bids[b] /\ bids[b] <= bids[c]
      OBVIOUS
    <3> QED BY <2>4, <3>1, <3>2
  <2>11. \A c \in highest : \E k \in Seen(bids, n) : Order[k] = c
    <3> SUFFICES ASSUME NEW c \in highest
                 PROVE  \E k \in Seen(bids, n) : Order[k] = c
      OBVIOUS
    <3>1. PICK k \in 1 .. n : Order[k] = c
      BY OrderFacts
    <3> QED BY <3>1 DEF Seen
  <2>12. Order[j] \in highest
    BY <2>5, <2>6, <2>8, <2>9
  <2> HIDE DEF highest, bidding, none
  <2>13. CASE best.draw
    <3>1. PICK k \in Seen(bids, n) : k # j /\ bids[Order[k]] = best.high
      BY <2>5, <2>13
    <3>2. Order[k] \in highest
      BY <2>6, <2>8, <2>9, <3>1
    <3>3. Order[k] # Order[j]
      BY <2>5, <2>6, <3>1, OrderFacts
    <3>4. highest # {b}
      BY <2>12, <3>2, <3>3
    <3> QED BY <1>2, <2>1, <2>13, <3>4
  <2>14. CASE ~ best.draw
    <3>1. \A k \in Seen(bids, n) : bids[Order[k]] = best.high => k = j
      BY <2>5, <2>14
    <3>2. \A c \in highest : c = Order[j]
      BY <2>8, <2>10, <2>11, <3>1
    <3>3. b = Order[j]
      BY <1>6, <3>2
    <3>4. highest = {b}
      BY <1>6, <3>2, <3>3
    <3> QED BY <1>2, <2>1, <2>5, <2>8, <2>14, <3>3, <3>4
  <2> QED BY <2>13, <2>14
<1> QED BY <1>4, <1>5, <1>6 DEF Proper
-----------------------------------------------------------------------------
(***************************************************************************)
(* The invariant.  submit and close have read the auction while it was     *)
(* open, so that neither is current any more once it is closed; then the   *)
(* bids stay what close found, and every eval has read just these.         *)
(***************************************************************************)
Stored ==
  /\ DOMAIN store = Keys
  /\ \A k \in Keys :
       /\ store[k].value \in ValuesOf(k) \cup {Absent}
       /\ store[k].version \in 0 .. commits
       /\ store[k].version = 0 <=> store[k].value = Absent

\* Each waiting transaction is one of a call, so that no more are committed.
Counted ==
  /\ commits \in Nat /\ calls \in 0 .. MaxCalls
  /\ IsFiniteSet(pool) /\ Cardinality(pool) + commits <= calls

\* The transaction has read the auction while it was open.
ReadOpen(tx) ==
  /\ "auction" \in DOMAIN tx.reads /\ tx.reads["auction"] # 0
  /\ Value("auction") = "closed" => tx.reads["auction"] # store["auction"].version

\* A transaction as its call has left it.
Called(tx) ==
  \/ tx.fn = "init" /\ tx.key = "house" /\ tx.value = "initialized"
  \/ /\ tx.fn = "create" /\ tx.key = "auction" /\ tx.value = "open"
     /\ "auction" \in DOMAIN tx.reads /\ tx.reads["auction"] = 0
  \/ tx.fn = "submit" /\ tx.key \in Bidders /\ tx.value \in Values /\ ReadOpen(tx)
  \/ tx.fn = "close" /\ tx.key = "auction" /\ tx.value = "closed" /\ ReadOpen(tx)
  \/ /\ tx.fn = "eval" /\ tx.key = "outcome" /\ tx.value = Result(atClose)
     /\ Value("auction") = "closed"

Waiting ==
  \A tx \in pool :
    /\ DOMAIN tx.reads \subseteq Keys
    /\ \A k \in DOMAIN tx.reads : tx.reads[k] \in 0 .. store[k].version
    /\ Called(tx)

\* The bids are frozen by close.
Frozen ==
  /\ Value("auction") = "closed" => atClose = Bids
  /\ Value("auction") # "closed" => atClose = Absent /\ Value("outcome") = Absent
  /\ Value("outcome") # Absent => Value("outcome") = Result(atClose)

AuctionInv == Stored /\ Counted /\ Waiting /\ Frozen

\* Every key has values of its own.
LEMMA KeyFacts ==
  /\ "house" \in Keys /\ "auction" \in Keys /\ "outcome" \in Keys /\ Bidders \subseteq Keys
  /\ "house" \notin Bidders /\ "auction" \notin Bidders /\ "outcome" \notin Bidders
  /\ ValuesOf("house") = {"initialized"} /\ ValuesOf("auction") = {"open", "closed"}
  /\ ValuesOf("outcome") = Outcomes
  /\ \A b \in Bidders : ValuesOf(b) = Values
<1>1. \A key \in {"house", "auction", "outcome"} : key \notin Bidders
  BY AuctionAssumption
<1>2. \A b \in Bidders : b # "house" /\ b # "auction" /\ b # "outcome"
  BY <1>1
<1>3. \A b \in Bidders : ValuesOf(b) = Values
  BY <1>2 DEF ValuesOf
<1> QED BY <1>1, <1>3 DEF Keys, ValuesOf

\* No key holds Absent as a value.
LEMMA ValuesPresent ==
  ASSUME NEW k \in Keys
  PROVE  Absent \notin ValuesOf(k)
<1>1. Absent \notin {"initialized", "open", "closed"} \cup Outcomes \cup Values
  BY AuctionAssumption
<1>2. k = "house" \/ k = "auction" \/ k = "outcome" \/ k \in Bidders
  BY DEF Keys
<1> QED BY <1>1, <1>2, KeyFacts

\* The committed bids are bids.
LEMMA BidsTyped ==
  ASSUME Stored
  PROVE  Bids \in AllBids
  BY KeyFacts DEF Stored, Bids, AllBids, Value

\* What a waiting transaction writes is a value of its key.
LEMMA CalledWrites ==
  ASSUME Stored, Frozen, NEW tx, Called(tx)
  PROVE  tx.key \in Keys /\ tx.value \in ValuesOf(tx.key)
<1>1. CASE tx.fn = "eval" /\ tx.key = "outcome" /\ tx.value = Result(atClose) /\ Value("auction") = "closed"
  <2>1. atClose \in AllBids
    BY <1>1, BidsTyped DEF Frozen
  <2>2. tx.value \in Outcomes
    BY <1>1, <2>1, ResultIsProper
  <2> QED BY <1>1, <2>2, KeyFacts
<1>2. CASE tx.fn = "init" /\ tx.key = "house" /\ tx.value = "initialized"
  BY <1>2, KeyFacts
<1>3. CASE tx.key = "auction" /\ tx.value \in {"open", "closed"}
  BY <1>3, KeyFacts
<1>4. CASE tx.key \in Bidders /\ tx.value \in Values
  BY <1>4, KeyFacts
<1> QED BY <1>1, <1>2, <1>3, <1>4 DEF Called

\* A call adds a transaction that has read the committed versions.
LEMMA InvokeKeeps ==
  ASSUME AuctionInv, NEW fn, NEW keys \in SUBSET Keys, NEW key, NEW value, NEW tx,
         tx = [fn |-> fn, key |-> key, value |-> value,
               reads |-> [k \in keys \cup {"house"} |-> store[k].version]],
         Called(tx), Invoke(fn, keys, key, value)
  PROVE  AuctionInv'
<1>1. /\ pool' = pool \cup {tx} /\ calls' = calls + 1 /\ calls < MaxCalls
      /\ store' = store /\ commits' = commits /\ atClose' = atClose
  BY DEF Invoke
<1>2. Stored'
  BY <1>1 DEF AuctionInv, Stored
<1>3. Counted'
  <2>1. /\ IsFiniteSet(pool) /\ Cardinality(pool) + commits <= calls
        /\ commits \in Nat /\ calls \in 0 .. MaxCalls /\ MaxCalls \in Nat
    BY AuctionAssumption DEF AuctionInv, Counted
  <2>2. /\ IsFiniteSet(pool \cup {tx}) /\ Cardinality(pool) \in Nat
        /\ Cardinality(pool \cup {tx}) = Cardinality(pool) \/ Cardinality(pool \cup {tx}) = Cardinality(pool) + 1
    BY <2>1, FS_AddElement, FS_CardinalityType
  <2>3. Cardinality(pool') + commits' <= calls'
    BY <1>1, <2>1, <2>2
  <2> QED BY <1>1, <2>1, <2>2, <2>3 DEF Counted
<1>4. Waiting'
  <2>1. DOMAIN tx.reads = keys \cup {"house"} /\ \A k \in keys \cup {"house"} : tx.reads[k] = store[k].version
    OBVIOUS
  <2>2. \A k \in Keys : store[k].version \in 0 .. store[k].version
    BY DEF AuctionInv, Stored
  <2>3. DOMAIN tx.reads \subseteq Keys /\ \A k \in DOMAIN tx.reads : tx.reads[k] \in 0 .. store[k].version
    BY <2>1, <2>2, KeyFacts
  <2>4. ASSUME NEW t \in pool \cup {tx}
        PROVE  /\ DOMAIN t.reads \subseteq Keys
               /\ \A k \in DOMAIN t.reads : t.reads[k] \in 0 .. store[k].version
               /\ Called(t)
    BY <2>3 DEF AuctionInv, Waiting
  <2>5. ASSUME NEW t, Called(t)
        PROVE  Called(t)'
    BY <1>1, <2>5 DEF Called, ReadOpen, Value
  <2> QED BY <1>1, <2>4, <2>5 DEF Waiting
<1>5. Frozen'
  BY <1>1 DEF AuctionInv, Frozen, Bids, Value
<1> QED BY <1>2, <1>3, <1>4, <1>5 DEF AuctionInv

\* The calls.
LEMMA CallsKeep ==
  ASSUME AuctionInv,
         \/ InitAuctionHouse \/ Create \/ Close \/ Eval
         \/ \E b \in Bidders, v \in Values : Submit(b, v)
  PROVE  AuctionInv'
<1> DEFINE Tx(fn, keys, key, value) ==
             [fn |-> fn, key |-> key, value |-> value,
              reads |-> [k \in keys \cup {"house"} |-> store[k].version]]
<1>0. store["auction"].version \in Nat /\ (store["auction"].version = 0 <=> Value("auction") = Absent)
  BY KeyFacts DEF AuctionInv, Stored, Value
<1>1. CASE InitAuctionHouse
  <2>1. PICK tx : tx = Tx("init", {}, "house", "initialized")
    OBVIOUS
  <2>2. Called(tx)
    BY <2>1 DEF Called
  <2> QED BY <1>1, <2>1, <2>2, InvokeKeeps DEF InitAuctionHouse
<1>2. CASE Create
  <2>1. PICK tx : tx = Tx("create", {"auction"}, "auction", "open")
    OBVIOUS
  <2>2. Called(tx)
    BY <1>0, <1>2, <2>1 DEF Called, Create
  <2>3. {"auction"} \in SUBSET Keys
    BY KeyFacts
  <2> QED BY <1>2, <2>1, <2>2, <2>3, InvokeKeeps DEF Create
<1>3. ASSUME Value("auction") = "open", NEW tx, "auction" \in DOMAIN tx.reads,
             tx.reads["auction"] = store["auction"].version
      PROVE  ReadOpen(tx)
  <2>1. Value("auction") # Absent
    BY <1>3, AuctionAssumption
  <2> QED BY <1>0, <1>3, <2>1 DEF ReadOpen
<1>4. CASE Close
  <2>1. PICK tx : tx = Tx("close", {"auction"}, "auction", "closed")
    OBVIOUS
  <2>2. ReadOpen(tx)
    BY <1>3, <1>4, <2>1 DEF Close
  <2>3. Called(tx)
    BY <2>1, <2>2 DEF Called
  <2>4. {"auction"} \in SUBSET Keys
    BY KeyFacts
  <2> QED BY <1>4, <2>1, <2>3, <2>4, InvokeKeeps DEF Close
<1>5. ASSUME NEW b \in Bidders, NEW v \in Values, Submit(b, v)
      PROVE  AuctionInv'
  <2>1. PICK tx : tx = Tx("submit", {"auction"}, b, v)
    OBVIOUS
  <2>2. ReadOpen(tx)
    BY <1>3, <1>5, <2>1 DEF Submit
  <2>3. Called(tx)
    BY <2>1, <2>2 DEF Called
  <2>4. {"auction"} \in SUBSET Keys
    BY KeyFacts
  <2> QED BY <1>5, <2>1, <2>3, <2>4, InvokeKeeps DEF Submit
<1>6. CASE Eval
  <2>1. PICK tx : tx = Tx("eval", {"auction"} \cup Bidders, "outcome", Result(Bids))
    OBVIOUS
  <2>2. Called(tx)
    BY <1>6, <2>1 DEF Called, Eval, AuctionInv, Frozen
  <2>3. {"auction"} \cup Bidders \in SUBSET Keys
    BY KeyFacts
  <2>4. PICK value : value = Result(Bids)
    OBVIOUS
  <2> QED BY <1>6, <2>1, <2>2, <2>3, <2>4, InvokeKeeps DEF Eval
<1> QED BY <1>1, <1>2, <1>4, <1>5, <1>6

\* What a committed transaction does to the state.
LEMMA CommitWrites ==
  ASSUME AuctionInv, NEW tx \in pool, Commit(tx)
  PROVE  /\ tx.key \in Keys /\ DOMAIN store' = Keys /\ Called(tx)
         /\ store'[tx.key].value = tx.value /\ store'[tx.key].version = commits + 1
         /\ \A k \in Keys : k # tx.key => store'[k] = store[k]
         /\ \A k \in DOMAIN tx.reads : tx.reads[k] = store[k].version
         /\ pool' = pool \ {tx} /\ commits' = commits + 1 /\ calls' = calls
         /\ tx.fn # "close" => atClose' = atClose
<1>1. Called(tx) /\ tx.key \in Keys
  BY CalledWrites DEF AuctionInv, Waiting
<1>2. DOMAIN store = Keys
  BY DEF AuctionInv, Stored
<1> QED BY <1>1, <1>2 DEF Commit, Current

\* The store and the counters after a commit.
LEMMA CommitStored ==
  ASSUME AuctionInv, NEW tx \in pool, Commit(tx)
  PROVE  Stored' /\ Counted'
<1>1. tx.key \in Keys /\ tx.value \in ValuesOf(tx.key) /\ tx.value # Absent
  BY CalledWrites, ValuesPresent DEF AuctionInv, Waiting
<1>2. commits \in Nat
  BY DEF AuctionInv, Counted
<1>3. Stored'
  <2>1. \A k \in Keys : /\ store[k].value \in ValuesOf(k) \cup {Absent}
                        /\ store[k].version \in 0 .. commits
                        /\ store[k].version = 0 <=> store[k].value = Absent
    BY DEF AuctionInv, Stored
  <2>2. ASSUME NEW k \in Keys
        PROVE  /\ store'[k].value \in ValuesOf(k) \cup {Absent}
               /\ store'[k].version \in 0 .. (commits + 1)
               /\ store'[k].version = 0 <=> store'[k].value = Absent
    <3>1. CASE k = tx.key
      <4>1. store'[k].value = tx.value /\ store'[k].version = commits + 1
        BY <3>1, CommitWrites
      <4>2. commits + 1 \in 0 .. (commits + 1) /\ commits + 1 # 0
        BY <1>2
      <4> QED BY <1>1, <3>1, <4>1, <4>2
    <3>2. CASE k # tx.key
      <4>1. store'[k] = store[k]
        BY <3>2, CommitWrites
      <4>2. store[k].version \in 0 .. (commits + 1)
        BY <1>2, <2>1
      <4> QED BY <2>1, <4>1, <4>2
    <3> QED BY <3>1, <3>2
  <2> QED BY <2>2, CommitWrites DEF Stored
<1>4. Counted'
  <2>1. /\ IsFiniteSet(pool) /\ Cardinality(pool) + commits <= calls
        /\ calls \in 0 .. MaxCalls /\ MaxCalls \in Nat
    BY AuctionAssumption DEF AuctionInv, Counted
  <2>2. /\ IsFiniteSet(pool \ {tx}) /\ Cardinality(pool) \in Nat
        /\ Cardinality(pool \ {tx}) = Cardinality(pool) - 1
    BY <2>1, FS_RemoveElement, FS_CardinalityType
  <2>3. pool' = pool \ {tx} /\ commits' = commits + 1 /\ calls' = calls
    BY CommitWrites
  <2>4. Cardinality(pool \ {tx}) + (commits + 1) <= calls
    BY <1>2, <2>1, <2>2
  <2> QED BY <1>2, <2>1, <2>2, <2>3, <2>4 DEF Counted
<1> QED BY <1>3, <1>4

\* The versions that were read stay behind the committed ones.
LEMMA CommitReads ==
  ASSUME AuctionInv, NEW tx \in pool, Commit(tx), NEW t \in pool'
  PROVE  /\ DOMAIN t.reads \subseteq Keys
         /\ \A k \in DOMAIN t.reads : t.reads[k] \in 0 .. store'[k].version
         /\ \A k \in DOMAIN t.reads : k = tx.key => t.reads[k] # store'[k].version
         /\ Called(t)
<1>1. /\ t \in pool /\ DOMAIN t.reads \subseteq Keys /\ Called(t)
      /\ \A k \in DOMAIN t.reads : t.reads[k] \in 0 .. store[k].version
  BY CommitWrites DEF AuctionInv, Waiting
<1>2. ASSUME NEW k \in DOMAIN t.reads
      PROVE  /\ t.reads[k] \in 0 .. store'[k].version
             /\ k = tx.key => t.reads[k] # store'[k].version
  <2>1. t.reads[k] \in 0 .. store[k].version /\ store[k].version \in 0 .. commits /\ commits \in Nat
    BY <1>1 DEF AuctionInv, Stored, Counted
  <2>2. t.reads[k] \in 0 .. (commits + 1) /\ t.reads[k] # commits + 1
    BY <2>1
  <2>3. IF k = tx.key THEN store'[k].version = commits + 1 ELSE store'[k] = store[k]
    BY <1>1, CommitWrites
  <2> QED BY <2>1, <2>2, <2>3
<1> QED BY <1>1, <1>2

\* A commit keeps the bids of a closed auction.
LEMMA CommitFreezes ==
  ASSUME AuctionInv, NEW tx \in pool, Commit(tx)
  PROVE  Frozen' /\ \A t \in pool' : Called(t)'
<1> DEFINE open == Value("auction")
<1>0. /\ "auction" \in Keys /\ "outcome" \in Keys /\ Bidders \subseteq Keys
      /\ "auction" \notin Bidders /\ "outcome" \notin Bidders
  BY KeyFacts
<1>1. /\ store["auction"].version = 0 <=> open = Absent
      /\ open \in {"open", "closed", Absent} /\ Absent # "open" /\ Absent # "closed"
  BY KeyFacts, AuctionAssumption DEF AuctionInv, Stored, Value
<1>2. CASE tx.fn = "init" /\ tx.key = "house"
  <2>1. /\ \A b \in Bidders : store'[b] = store[b] /\ atClose' = atClose
        /\ store'["auction"] = store["auction"] /\ store'["outcome"] = store["outcome"]
    BY <1>0, <1>2, CommitWrites, KeyFacts
  <2>2. /\ Bids' = Bids /\ Value("auction")' = Value("auction") /\ Value("outcome")' = Value("outcome")
        /\ atClose' = atClose
    BY <1>2, <2>1, CommitWrites DEF Bids, Value
  <2>3. ASSUME NEW t \in pool'
        PROVE  Called(t)'
    <3>1. Called(t)
      BY CommitReads
    <3> QED BY <2>1, <2>2, <3>1 DEF Called, ReadOpen
  <2> QED BY <2>2, <2>3 DEF AuctionInv, Frozen
<1>3. CASE tx.fn = "create" /\ tx.key = "auction" /\ tx.value = "open"
           /\ "auction" \in DOMAIN tx.reads /\ tx.reads["auction"] = 0
  <2>1. open = Absent
    BY <1>1, <1>3, CommitWrites
  <2>2. atClose = Absent /\ Value("outcome") = Absent
    BY <1>1, <2>1 DEF AuctionInv, Frozen
  <2>3. Value("auction")' = "open" /\ Value("outcome")' = Absent /\ atClose' = Absent
    BY <1>0, <1>3, <2>2, CommitWrites DEF Value
  <2>4. ASSUME NEW t \in pool'
        PROVE  Called(t)'
    <3>1. Called(t)
      BY CommitReads
    <3> QED BY <1>1, <2>1, <2>3, <3>1 DEF Called, ReadOpen
  <2> QED BY <2>3, <2>4 DEF Frozen
<1>4. CASE tx.fn = "submit" /\ tx.key \in Bidders /\ ReadOpen(tx)
  <2>1. open # "closed"
    BY <1>4, CommitWrites DEF ReadOpen
  <2>2. atClose = Absent /\ Value("outcome") = Absent
    BY <2>1 DEF AuctionInv, Frozen
  <2>3. store'["auction"] = store["auction"] /\ store'["outcome"] = store["outcome"] /\ atClose' = atClose
    BY <1>0, <1>4, CommitWrites
  <2>4. Value("auction")' = open /\ Value("outcome")' = Absent /\ atClose' = Absent
    BY <2>2, <2>3 DEF Value
  <2>5. ASSUME NEW t \in pool'
        PROVE  Called(t)'
    <3>1. Called(t)
      BY CommitReads
    <3> QED BY <2>1, <2>3, <2>4, <3>1 DEF Called, ReadOpen
  <2> QED BY <2>1, <2>4, <2>5 DEF Frozen
<1>5. CASE tx.fn = "close" /\ tx.key = "auction" /\ tx.value = "closed" /\ ReadOpen(tx)
  <2>1. open # "closed"
    BY <1>5, CommitWrites DEF ReadOpen
  <2>2. Value("outcome") = Absent
    BY <2>1 DEF AuctionInv, Frozen
  <2>3. Value("auction")' = "closed" /\ Value("outcome")' = Absent
    BY <1>0, <1>5, <2>2, CommitWrites DEF Value
  <2>4. atClose' = Bids
    BY <1>5 DEF Commit
  <2>5. Bids' = Bids
    <3>1. \A b \in Bidders : store'[b] = store[b]
      BY <1>0, <1>5, CommitWrites
    <3> QED BY <3>1 DEF Bids, Value
  <2>6. ASSUME NEW t \in pool'
        PROVE  Called(t)'
    <3>1. Called(t) /\ ("auction" \in DOMAIN t.reads => t.reads["auction"] # store'["auction"].version)
      BY <1>5, CommitReads
    <3> QED BY <2>1, <3>1 DEF Called, ReadOpen
  <2> QED BY <2>3, <2>4, <2>5, <2>6 DEF Frozen
<1>6. CASE tx.fn = "eval" /\ tx.key = "outcome" /\ tx.value = Result(atClose) /\ open = "closed"
  <2>1. store'["auction"] = store["auction"] /\ atClose' = atClose /\ \A b \in Bidders : store'[b] = store[b]
    BY <1>0, <1>6, CommitWrites
  <2>2. Value("auction")' = "closed" /\ Bids' = Bids /\ Value("outcome")' = Result(atClose)
    BY <1>6, <2>1, CommitWrites DEF Bids, Value
  <2>3. atClose = Bids
    BY <1>6 DEF AuctionInv, Frozen
  <2>4. ASSUME NEW t \in pool'
        PROVE  Called(t)'
    <3>1. Called(t)
      BY CommitReads
    <3> QED BY <1>6, <2>1, <2>2, <3>1 DEF Called, ReadOpen
  <2> QED BY <2>1, <2>2, <2>3, <2>4 DEF Frozen
<1> QED BY <1>2, <1>3, <1>4, <1>5, <1>6, CommitWrites DEF Called

\* The invariant holds in the beginning.
LEMMA InitAuctionInv == Init => AuctionInv
<1> SUFFICES ASSUME Init PROVE AuctionInv
  OBVIOUS
<1>1. \A k \in Keys : store[k].value = Absent /\ store[k].version = 0
  BY DEF Init
<1>2. Stored
  BY <1>1 DEF Init, Stored
<1>3. Counted
  <2>1. IsFiniteSet(pool) /\ Cardinality(pool) = 0
    BY FS_EmptySet DEF Init
  <2> QED BY <2>1, AuctionAssumption DEF Init, Counted
<1>4. Waiting
  BY DEF Init, Waiting
<1>5. Frozen
  <2>1. Value("auction") = Absent /\ Value("outcome") = Absent /\ Absent # "closed"
    BY <1>1, KeyFacts, AuctionAssumption DEF Value
  <2> QED BY <2>1 DEF Init, Frozen
<1> QED BY <1>2, <1>3, <1>4, <1>5 DEF AuctionInv

\* Every step keeps it.
LEMMA AuctionInvariant == Spec => []AuctionInv
<1>1. ASSUME AuctionInv, [Next]_vars
      PROVE  AuctionInv'
  <2>1. ASSUME NEW tx \in pool, Commit(tx)
        PROVE  AuctionInv'
    <3>1. Stored' /\ Counted'
      BY <1>1, <2>1, CommitStored
    <3>2. Waiting' /\ Frozen'
      BY <1>1, <2>1, CommitReads, CommitFreezes DEF Waiting
    <3> QED BY <3>1, <3>2 DEF AuctionInv
  <2>2. ASSUME NEW tx \in pool, Invalidate(tx)
        PROVE  AuctionInv'
    <3>1. /\ pool' = pool \ {tx} /\ store' = store /\ commits' = commits
          /\ calls' = calls /\ atClose' = atClose
      BY <2>2 DEF Invalidate
    <3>2. Counted'
      <4>1. /\ IsFiniteSet(pool) /\ Cardinality(pool) + commits <= calls /\ commits \in Nat
            /\ calls \in 0 .. MaxCalls /\ MaxCalls \in Nat
        BY <1>1, AuctionAssumption DEF AuctionInv, Counted
      <4>2. /\ IsFiniteSet(pool \ {tx}) /\ Cardinality(pool) \in Nat
            /\ Cardinality(pool \ {tx}) = Cardinality(pool) - 1
        BY <4>1, FS_RemoveElement, FS_CardinalityType
      <4>3. Cardinality(pool \ {tx}) + commits <= calls
        BY <4>1, <4>2
      <4> QED BY <3>1, <4>1, <4>2, <4>3 DEF Counted
    <3>3. Stored' /\ Frozen'
      BY <1>1, <3>1 DEF AuctionInv, Stored, Frozen, Bids, Value
    <3>4. ASSUME NEW t, Called(t)
          PROVE  Called(t)'
      BY <3>1, <3>4 DEF Called, ReadOpen, Value
    <3>5. Waiting'
      BY <1>1, <3>1, <3>4 DEF AuctionInv, Waiting
    <3> QED BY <3>2, <3>3, <3>5 DEF AuctionInv
  <2>3. CASE UNCHANGED vars
    <3>1. /\ pool' = pool /\ store' = store /\ commits' = commits
          /\ calls' = calls /\ atClose' = atClose
      BY <2>3 DEF vars
    <3>2. Stored' /\ Frozen' /\ Counted'
      BY <1>1, <3>1 DEF AuctionInv, Stored, Frozen, Counted, Bids, Value
    <3>3. ASSUME NEW t, Called(t)
          PROVE  Called(t)'
      BY <3>1, <3>3 DEF Called, ReadOpen, Value
    <3>4. Waiting'
      BY <1>1, <3>1, <3>3 DEF AuctionInv, Waiting
    <3> QED BY <3>2, <3>4 DEF AuctionInv
  <2> QED BY <1>1, <2>1, <2>2, <2>3, CallsKeep DEF Next
<1> QED BY <1>1, InitAuctionInv, PTL DEF Spec

\* The committed values and those that wait are of the kind of their key; a call is
\* committed once at most.
THEOREM AuctionTypeCorrect == Spec => []TypeOK
<1>1. ASSUME AuctionInv
      PROVE  TypeOK
  <2>1. \A tx \in pool : tx.key \in Keys /\ tx.value \in ValuesOf(tx.key)
    BY <1>1, CalledWrites DEF AuctionInv, Waiting
  <2>2. commits \in 0 .. calls /\ calls \in 0 .. MaxCalls
    <3>1. Cardinality(pool) \in Nat
      BY <1>1, FS_CardinalityType DEF AuctionInv, Counted
    <3> QED BY <1>1, <3>1, AuctionAssumption DEF AuctionInv, Counted
  <2>3. atClose = Absent \/ \A b \in Bidders : atClose[b] \in Values \cup {Absent}
    BY <1>1, BidsTyped DEF AuctionInv, Frozen, AllBids
  <2> QED BY <1>1, <2>1, <2>2, <2>3 DEF AuctionInv, Stored, TypeOK
<1> QED BY <1>1, AuctionInvariant, PTL

\* auction_eval publishes the outcome of the bids that auction_close found: the bidder
\* whose bid exceeds all others, or a draw.
THEOREM OutcomeCorrect == Spec => []OutcomeOfBidsAtClose
<1>1. ASSUME AuctionInv
      PROVE  OutcomeOfBidsAtClose
  <2> SUFFICES ASSUME Value("outcome") # Absent
               PROVE  Proper(atClose, Value("outcome"))
    BY DEF OutcomeOfBidsAtClose, Proper
  <2>1. Value("outcome") = Result(atClose) /\ atClose = Bids
    BY <1>1 DEF AuctionInv, Frozen
  <2>2. Bids \in AllBids
    BY <1>1, BidsTyped DEF AuctionInv
  <2> QED BY <2>1, <2>2, ResultIsProper
<1> QED BY <1>1, AuctionInvariant, PTL
=============================================================================
