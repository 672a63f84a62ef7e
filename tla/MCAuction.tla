----------------------------- MODULE MCAuction -----------------------------
(***************************************************************************)
(* Three bidders; the values have a negative one among them.               *)
(***************************************************************************)
EXTENDS Auction

MCOrder == <<"b1", "b2", "b3">>
MCValues == {-1, 0, 1}
=============================================================================
