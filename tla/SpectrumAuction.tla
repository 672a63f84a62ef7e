--------------------------- MODULE SpectrumAuction ---------------------------
(***************************************************************************)
(* The spectrum auction chaincode (demo/chaincode/fpc): one clock auction. *)
(* A transaction loads the static and the dynamic state of the auction,    *)
(* checks, changes the dynamic state and stores it; the version of the one *)
(* state key makes two transactions of the same auction exclude each       *)
(* other, so a handler is one action.  endRound is the exception: its bid  *)
(* processing loop is one step per applied bid, between EndRound, which    *)
(* enters it, and the step that ends it.  No other handler of the auction  *)
(* commits in between (evaluating).  Calls a handler refuses store nothing *)
(* and are no step.                                                        *)
(*                                                                         *)
(* A bidder is its index in the static state, a territory its id.  Prices  *)
(* are whole multiples of 1/Unit, Unit fine enough for ClockOf to be exact *)
(* within MaxRound.  Unsigned integers have UIntSize values (2^32 in the   *)
(* code).                                                                  *)
(***************************************************************************)
EXTENDS Integers, FiniteSets, Functions

CONSTANTS
    NBidders,             \* number of bidders
    Territories,
    Supply,               \* channels of each territory
    MinPrice,             \* initial price of each territory
    HighDemand,           \* the territories the final stage rule is about
    Eligibilities,        \* initialEligibilities_: a list of bidder and number
    ActivityPercentage,   \* activityRequirementPercentage_
    IncrementPercentage,  \* clockPriceIncrementPercentage_
    Unit,                 \* the units of price in 1
    UIntSize,             \* number of the unsigned integers
    Offers,               \* the whole prices bidders may offer (an input bound)
    MaxRound              \* bound on the rounds the owner starts

Bidders == 1 .. NBidders

(* What checkValidity admits, with different territories, and with prices   *)
(* and percentages that leave no price point or activity divided by zero.   *)
(* The list of eligibilities is as long as the one of the bidders; it may   *)
(* be in another order, name a bidder twice, or name somebody else.         *)
ASSUME AuctionAssumption ==
    /\ NBidders \in Nat \ {0} /\ MaxRound \in Nat /\ Unit \in Nat \ {0}
    /\ IsFiniteSet(Territories) /\ Territories # {}
    /\ Supply \in [Territories -> Nat \ {0}]
    /\ MinPrice \in [Territories -> Nat \ {0}]
    /\ \A t \in Territories : MinPrice[t] % Unit = 0
    /\ HighDemand \subseteq Territories
    /\ UIntSize \in Nat \ {0}
    /\ Eligibilities \in [Bidders -> [bidder : Nat, number : 0 .. UIntSize - 1]]
    /\ ActivityPercentage \in 1 .. 100
    /\ IncrementPercentage \in 1 .. 100
    /\ Offers \subseteq Int

VARIABLES
    auctionState,   \* auctionState_, "NONE" before createAuction
    clockRound,
    roundActive,
    bids,           \* clockBids_ of the round: territory -> [qty, price]
    floor,          \* postedPrice_[clockRound_ - 1]
    posted,         \* postedPrice_[clockRound_]
    clock,          \* clockPrice_[clockRound_]
    eligibility,    \* eligibility_[clockRound_]
    licenses,       \* processedLicenses_, latest row
    excess,         \* excessDemand_, latest row
    winAssign,      \* winAssign_: territory -> channel -> bidder or 0
    published,      \* the public results
    evaluating,     \* endRound is in its bid processing loop
    rank,           \* place in eBidContainer of each bidder's demand, 0: none
    cap             \* eligibilityCap

roundVars == <<bids, floor, clock, eligibility>>
resultVars == <<posted, licenses, excess>>
closeVars == <<winAssign, published>>
loopVars == <<evaluating, rank, cap>>
vars == <<auctionState, clockRound, roundActive, roundVars, resultVars,
          closeVars, loopVars>>

Zero == [t \in Territories |-> 0]
NoBid == [t \in {} |-> 0]

(* The sum of f's values, counted as the set of the units they consist of.  *)
Total(f) == Cardinality(UNION {{x} \X (1 .. f[x]) : x \in DOMAIN f})

ClockOf(p) == (p * (100 + IncrementPercentage)) \div 100

----------------------------------------------------------------------------

Init ==
    /\ auctionState = "NONE" /\ clockRound = 0 /\ roundActive = FALSE
    /\ bids = [b \in Bidders |-> NoBid]
    /\ floor = Zero /\ posted = Zero /\ clock = Zero
    /\ eligibility = [b \in Bidders |-> 0]
    /\ licenses = [b \in Bidders |-> Zero]
    /\ excess = Zero
    /\ winAssign = NoBid /\ published = NoBid
    /\ evaluating = FALSE
    /\ rank = [b \in Bidders |-> Zero]
    /\ cap = [b \in Bidders |-> 0]

(* getInitialEligibilities takes the numbers by their places in the list.   *)
getInitialEligibilities == [i \in Bidders |-> Eligibilities[i].number]

(* createAuction: round 1 opens at the minimum prices. *)
CreateAuction ==
    /\ auctionState = "NONE"
    /\ auctionState' = "CLOCK" /\ clockRound' = 1
    /\ floor' = MinPrice
    /\ clock' = [t \in Territories |-> ClockOf(MinPrice[t])]
    /\ eligibility' = getInitialEligibilities
    /\ UNCHANGED <<roundActive, bids, resultVars, closeVars, loopVars>>

(* JsonUtils::isInteger: the whole numbers a signed integer can hold.       *)
IsInteger(price) == price % Unit = 0 /\ price < Unit * (UIntSize \div 2)

(* loadAuctionState: a stored demand is read back only if its price is an   *)
(* integer (Demand::fromJsonObject), else every call is refused.            *)
Readable ==
    \A b \in Bidders : \A t \in DOMAIN bids[b] : IsInteger(bids[b][t].price)

Loads(state) == auctionState = state /\ Readable /\ ~evaluating

(* startNextRound, by the owner. *)
StartNextRound ==
    /\ Loads("CLOCK") /\ ~roundActive /\ clockRound <= MaxRound
    /\ roundActive' = TRUE
    /\ bids' = [b \in Bidders |-> NoBid]
    /\ UNCHANGED <<auctionState, clockRound, floor, clock, eligibility,
                   resultVars, closeVars, loopVars>>

(* Mutant: the sum of the quantities is not compared with the eligibility.  *)
IsValidBid_NoSum(b, bid) ==
    /\ \A t \in DOMAIN bid : bid[t].qty <= Supply[t]
    /\ clockRound > 1 => \A t \in DOMAIN bid : bid[t].price \in floor[t] .. clock[t]

(* getEligibilityNumber looks the bidder up in the list: the first entry    *)
(* that names it counts.  If none does, the function ends without a return, *)
(* and any value may come out of it.                                        *)
getEligibilityNumber(b) ==
    LET named == {i \in Bidders : Eligibilities[i].bidder = b}
    IN  IF named = {} THEN 0 .. UIntSize - 1
          ELSE {Eligibilities[i].number : i \in {j \in named : \A k \in named : j <= k}}

(* isValidBid: in round 1 only the quantities count, later only the prices. *)
IsValidBid(b, bid) ==
    /\ \A t \in DOMAIN bid : bid[t].qty <= Supply[t]
    /\ IF clockRound = 1
         THEN \E elig \in getEligibilityNumber(b) :
                Total([t \in DOMAIN bid |-> bid[t].qty]) <= elig
         ELSE \A t \in DOMAIN bid : bid[t].price \in floor[t] .. clock[t]

(* The prices of offers as they are stored: a negative one passes for an    *)
(* integer and becomes a large unsigned one.  In round 1 prices are         *)
(* compared with nothing: of those that can be read back, one is enough.    *)
Stored == {Unit * (p % UIntSize) : p \in Offers}
Prices(t) ==
    IF clockRound = 1 THEN {MinPrice[t]} \cup {p \in Stored : ~IsInteger(p)}
                      ELSE Stored

(* submitClockBid: a later bid of the round replaces the earlier one. *)
SubmitClockBid(b) ==
    /\ Loads("CLOCK") /\ roundActive
    /\ \E D \in SUBSET Territories \ {{}} :
         \E bid \in [D -> [qty : 0 .. Total(Supply),
                           price : UNION {Prices(t) : t \in D}]] :
            /\ \A t \in D : bid[t].price \in Prices(t)
            /\ IsValidBid(b, bid)
            /\ bids' = [bids EXCEPT ![b] = bid]
    /\ UNCHANGED <<auctionState, clockRound, roundActive, floor, clock,
                   eligibility, resultVars, closeVars, loopVars>>

----------------------------------------------------------------------------
(* endRound *)

(* Mutant: missing bids are filled in at the minimum price. *)
FillMissingBids_MinPrice ==
    [b \in Bidders |-> [t \in Territories |->
        IF t \in DOMAIN bids[b] THEN bids[b][t]
                                ELSE [qty |-> 0, price |-> MinPrice[t]]]]

(* fillMissingBids: no demand at the price the round opened at. *)
FillMissingBids ==
    [b \in Bidders |-> [t \in Territories |->
        IF t \in DOMAIN bids[b] THEN bids[b][t]
                                ELSE [qty |-> 0, price |-> floor[t]]]]

ExcessOf(lic) ==
    [t \in Territories |-> Total([b \in Bidders |-> lic[b][t]]) - Supply[t]]

(* processInitialRoundBids: every demand of round 1 is granted. *)
ProcessInitialRoundBids(filled) ==
    /\ clockRound = 1
    /\ licenses' = [b \in Bidders |-> [t \in Territories |-> filled[b][t].qty]]
    /\ posted' = MinPrice
    /\ excess' = ExcessOf(licenses')
    /\ UNCHANGED <<rank, cap>>

(* std::lround of where the price lies between the opening price and the    *)
(* clock price, in percent.                                                 *)
PricePoint(t, p) ==
    LET span == clock[t] - floor[t]
    IN  (200 * (p - floor[t]) + span) \div (2 * span)

(* The demands that enter the queue: those that change the licenses. *)
Queued(filled) ==
    {e \in Bidders \X Territories :
        filled[e[1]][e[2]].qty # licenses[e[1]][e[2]]}

(* The orders the sort may give: by ascending price point, and a random     *)
(* value decides between equal ones.                                        *)
IsQueueOrder(r, filled) ==
    /\ \A b \in Bidders, t \in Territories :
         r[b][t] # 0 <=> <<b, t>> \in Queued(filled)
    /\ \A d, e \in Queued(filled) :
         /\ r[d[1]][d[2]] = r[e[1]][e[2]] => d = e
         /\ r[d[1]][d[2]] < r[e[1]][e[2]] =>
              PricePoint(d[2], filled[d[1]][d[2]].price)
                <= PricePoint(e[2], filled[e[1]][e[2]].price)

(* Mutant: eligibilityCap is a signed integer. *)
EligibilityCap_Signed(b) == eligibility[b] - Total(licenses[b])

(* eligibilityCap is unsigned: it wraps if a bidder holds more licenses     *)
(* than its eligibility.                                                    *)
EligibilityCap(b) == (eligibility[b] - Total(licenses[b])) % UIntSize

(* Mutant: the excess demand of the round starts from zero. *)
ProcessRegularRoundBids_Zero(filled) ==
    /\ clockRound > 1
    /\ posted' = [t \in Territories |-> IF excess[t] > 0 THEN clock[t]
                                                         ELSE floor[t]]
    /\ \E r \in [Bidders -> [Territories -> 0 .. Cardinality(Queued(filled))]] :
          /\ IsQueueOrder(r, filled)
          /\ rank' = r
    /\ cap' = [b \in Bidders |-> EligibilityCap(b)]
    /\ excess' = Zero
    /\ UNCHANGED licenses

(* processRegularRoundBids, up to its loop. *)
ProcessRegularRoundBids(filled) ==
    /\ clockRound > 1
    /\ posted' = [t \in Territories |-> IF excess[t] > 0 THEN clock[t]
                                                         ELSE floor[t]]
    /\ \E r \in [Bidders -> [Territories -> 0 .. Cardinality(Queued(filled))]] :
          /\ IsQueueOrder(r, filled)
          /\ rank' = r
    /\ cap' = [b \in Bidders |-> EligibilityCap(b)]
    /\ UNCHANGED <<licenses, excess>>

(* endRound, by the owner, up to the loop. *)
EndRound ==
    /\ Loads("CLOCK") /\ roundActive
    /\ roundActive' = FALSE
    /\ evaluating' = TRUE
    /\ bids' = FillMissingBids
    /\ \/ ProcessInitialRoundBids(FillMissingBids)
       \/ ProcessRegularRoundBids(FillMissingBids)
    /\ UNCHANGED <<auctionState, clockRound, floor, clock, eligibility,
                   closeVars>>

Least(x, y) == IF x <= y THEN x ELSE y

(* Mutant: a decrease needs no excess demand. *)
Movable_Free(b, t) ==
    IF bids[b][t].qty > licenses[b][t]
      THEN Least(bids[b][t].qty - licenses[b][t], cap[b])
      ELSE licenses[b][t] - bids[b][t].qty

(* What one look at a queued demand would move: an increase needs           *)
(* eligibility, a decrease needs excess demand.                             *)
Movable(b, t) ==
    IF bids[b][t].qty > licenses[b][t]
      THEN Least(bids[b][t].qty - licenses[b][t], cap[b])
      ELSE IF excess[t] > 0 THEN Least(licenses[b][t] - bids[b][t].qty, excess[t])
                            ELSE 0

(* Mutant: a demand is never skipped. *)
Applicable_Any(b, t) == rank[b][t] # 0

Applicable(b, t) == rank[b][t] # 0 /\ Movable(b, t) # 0

(* One round of the while loop that applies a demand: the first one in the  *)
(* queue that can be, as far as it can; the search then starts again.       *)
ApplyBid(b, t) ==
    LET increase == bids[b][t].qty > licenses[b][t]
        n == Movable(b, t)
        moved == IF increase THEN n ELSE -n
    IN  /\ evaluating /\ Applicable(b, t)
        /\ \A c \in Bidders, u \in Territories :
              Applicable(c, u) => rank[b][t] <= rank[c][u]
        /\ licenses' = [licenses EXCEPT ![b][t] = @ + moved]
        /\ excess' = [excess EXCEPT ![t] = @ + moved]
        /\ cap' = [cap EXCEPT ![b] = (@ - moved) % UIntSize]
        /\ posted' = [posted EXCEPT ![t] =
              IF increase THEN IF excess[t] = 0 THEN clock[t] ELSE @
                          ELSE IF excess[t] = n THEN bids[b][t].price ELSE @]
        /\ rank' = IF licenses'[b][t] = bids[b][t].qty
                     THEN [rank EXCEPT ![b][t] = 0] ELSE rank
        /\ UNCHANGED <<auctionState, clockRound, roundActive, roundVars,
                       closeVars, evaluating>>

(* The loop is over and the excess demand computed anew agrees with the one *)
(* kept up to date (else the transaction fails and stores nothing).         *)
LoopEnds ==
    /\ evaluating
    /\ \A b \in Bidders, t \in Territories : ~Applicable(b, t)
    /\ excess = ExcessOf(licenses)
    /\ evaluating' = FALSE
    /\ rank' = [b \in Bidders |-> Zero] /\ cap' = [b \in Bidders |-> 0]
    /\ UNCHANGED <<roundActive, bids, licenses, excess, published>>

FinalStageRuleFails == \E t \in HighDemand : excess[t] < 0

(* Mutant: one territory without excess demand ends the clock phase. *)
ClockPhaseOver_Some == \E t \in Territories : excess[t] <= 0

ClockPhaseOver == \A t \in Territories : excess[t] <= 0

(* processBidsPostamble, the final stage rule. *)
FailFinalStageRule ==
    /\ LoopEnds /\ FinalStageRuleFails
    /\ auctionState' = "FSR_FAILED"
    /\ UNCHANGED <<clockRound, floor, posted, clock, eligibility, winAssign>>

(* Mutant: the activity alone decides. *)
NewEligibility_Activity(b) == (Total(licenses[b]) * 100) \div ActivityPercentage

(* processBidsPostamble: the activity of a bidder decides its eligibility.  *)
NewEligibility(b) ==
    LET activity == Total(licenses[b])
    IN  IF activity >= (eligibility[b] * ActivityPercentage) \div 100
          THEN eligibility[b] ELSE (activity * 100) \div ActivityPercentage

(* processBidsPostamble, to be continued. *)
NextRound ==
    /\ LoopEnds /\ ~FinalStageRuleFails /\ ~ClockPhaseOver
    /\ eligibility' = [b \in Bidders |-> NewEligibility(b)]
    /\ floor' = posted
    /\ clock' = [t \in Territories |-> ClockOf(posted[t])]
    /\ posted' = Zero
    /\ clockRound' = clockRound + 1
    /\ UNCHANGED <<auctionState, winAssign>>

(* processAssignmentRound counts licenses: the k-th place of the shuffled   *)
(* channels goes to the bidder whose licenses the count has reached.        *)
OwnerOfPlace(t, k) ==
    LET before(b) == Total([c \in 1 .. (b - 1) |-> licenses[c][t]])
        owners == {b \in Bidders : k > before(b) /\ k <= before(b) + licenses[b][t]}
    IN  IF owners = {} THEN 0 ELSE CHOOSE b \in owners : TRUE

(* endRound, when the clock phase is over: the assignment phase starts,     *)
(* hands out the channels and closes the auction in the same transaction.   *)
CloseAuction ==
    /\ LoopEnds /\ ~FinalStageRuleFails /\ ClockPhaseOver
    /\ auctionState' = "CLOSED"
    /\ \E place \in [Territories -> UNION {[1 .. Supply[t] -> 1 .. Supply[t]] :
                                             t \in Territories}] :
          /\ \A t \in Territories :
                place[t] \in Bijection(1 .. Supply[t], 1 .. Supply[t])
          /\ winAssign' = [t \in Territories |->
                [c \in 1 .. Supply[t] |-> OwnerOfPlace(t, place[t][c])]]
    /\ UNCHANGED <<clockRound, floor, posted, clock, eligibility>>

(* publishAssignmentResults, by anybody. *)
PublishAssignmentResults ==
    /\ Loads("CLOSED")
    /\ published' = winAssign
    /\ UNCHANGED <<auctionState, clockRound, roundActive, roundVars,
                   resultVars, winAssign, loopVars>>

Evaluate ==
    \/ \E b \in Bidders, t \in Territories : ApplyBid(b, t)
    \/ FailFinalStageRule \/ NextRound \/ CloseAuction

Next ==
    \/ CreateAuction \/ StartNextRound \/ EndRound
    \/ \E b \in Bidders : SubmitClockBid(b)
    \/ Evaluate \/ PublishAssignmentResults

Spec == Init /\ [][Next]_vars

(* The loop of endRound runs in one call: it goes on while it can. *)
FairSpec == Spec /\ WF_vars(Evaluate)

----------------------------------------------------------------------------
(* Properties *)

Demands == [qty : Nat, price : Nat]

(* The stored state is well formed: no count of licenses goes below zero,   *)
(* and ASSIGNMENT_PHASE is never stored, endRound passes through it.        *)
TypeOK ==
    /\ auctionState \in {"NONE", "CLOCK", "FSR_FAILED", "CLOSED"}
    /\ clockRound \in Nat /\ roundActive \in BOOLEAN /\ evaluating \in BOOLEAN
    /\ \A b \in Bidders :
         DOMAIN bids[b] \subseteq Territories
         /\ \A t \in DOMAIN bids[b] : bids[b][t] \in Demands
    /\ {floor, posted, clock} \subseteq [Territories -> Nat]
    /\ eligibility \in [Bidders -> Nat]
    /\ licenses \in [Bidders -> [Territories -> Nat]]
    /\ excess \in [Territories -> Int]
    /\ rank \in [Bidders -> [Territories -> Nat]]
    /\ cap \in [Bidders -> 0 .. UIntSize - 1]

Evaluated == evaluating \/ auctionState \in {"FSR_FAILED", "CLOSED"}

(* The number a bidder is looked up with in round 1 is not above the number *)
(* its place in the list gave it.                                           *)
Consistent(b) == \A elig \in getEligibilityNumber(b) : elig <= Eligibilities[b].number

(* A bidder that the list is consistent about never holds more licenses     *)
(* than its eligibility of the round, and its unsigned eligibilityCap does  *)
(* not wrap, whatever was granted in round 1, moved by the loop, or cut by  *)
(* the activity rule in between, and whatever bidders do whose cap wraps.   *)
EligibilityKept ==
    \A b \in Bidders : Consistent(b) =>
        /\ Total(licenses[b]) <= eligibility[b]
        /\ evaluating /\ clockRound > 1 =>
              cap[b] = eligibility[b] - Total(licenses[b])

(* isValidBid is to "check demand does not exceed eligibility"              *)
(* (auction-state.cpp:990), so that what is left of it, eligibilityCap, is  *)
(* a part of it.                                                            *)
CapWithinEligibility ==
    evaluating /\ clockRound > 1 => \A b \in Bidders : cap[b] <= eligibility[b]

(* The excess demand kept up to date by the loop is the one computed anew:  *)
(* the evaluation error of processBidsPostamble, which would leave the      *)
(* round open for ever, is never met.                                       *)
ExcessAgrees == evaluating \/ clockRound > 1 => excess = ExcessOf(licenses)

(* Whatever the order in which bids raise and lower demand, the posted      *)
(* price of the round stays between its opening price and its clock price.  *)
PricesInRange ==
    Evaluated => \A t \in Territories : posted[t] \in floor[t] .. clock[t]

(* Processing never drives a territory below its supply, so the final stage *)
(* rule can fail only in the first round.                                   *)
FinalStageDecidedFirst == auctionState = "FSR_FAILED" => clockRound = 1

(* A closed auction gave every bidder as many channels of each territory as *)
(* it holds licenses: the count over the shuffled channels never runs past  *)
(* their number.                                                            *)
ChannelsMatchLicenses ==
    auctionState = "CLOSED" =>
        \A b \in Bidders, t \in Territories :
            Cardinality({c \in 1 .. Supply[t] : winAssign[t][c] = b})
              = licenses[b][t]

(* The activity rule cuts eligibility and never restores it. *)
EligibilityNeverGrows ==
    [][auctionState # "NONE" =>
         \A b \in Bidders : eligibility'[b] <= eligibility[b]]_vars

(* The loop that starts again after every applied bid ends. *)
EvaluationEnds == evaluating ~> ~evaluating

(* What endRound stores can be loaded by the next transaction: missing bids *)
(* are stored and retrieved like others (bid.cpp:71-73).                    *)
StateReadable == ~evaluating => Readable

=============================================================================
