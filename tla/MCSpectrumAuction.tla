------------------------- MODULE MCSpectrumAuction -------------------------
(* Small auctions: t1 is in high demand, t2 is not.  The list of            *)
(* eligibilities is in the order of the bidders, or in another one: then    *)
(* bidder 1 is looked up with less than its place gave it, bidder 2 with    *)
(* more.                                                                    *)
EXTENDS SpectrumAuction, TLC

CONSTANTS t1, t2

SupplyDef == (t1 :> 1) @@ (t2 :> 2)
MinPriceDef == (t1 :> Unit) @@ (t2 :> Unit)
AnyOffers == {-1, 1, 2, 4}
InOrder == <<[bidder |-> 1, number |-> 2], [bidder |-> 2, number |-> 3]>>
OutOfOrder == <<[bidder |-> 2, number |-> 2], [bidder |-> 1, number |-> 1]>>
=============================================================================
