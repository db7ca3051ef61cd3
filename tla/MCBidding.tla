------------------------------ MODULE MCBidding ------------------------------
(***************************************************************************)
(* Values for the constants of Bidding: one article and three pages.  The  *)
(* first is used with the nickname field empty and as ann, the two others  *)
(* as bob.  Bids reach from below the opening prices up to the largest     *)
(* int, so that the ceiling of the price is among the cases.               *)
(***************************************************************************)
EXTENDS Bidding

CONSTANTS art, c1, c2, c3, anon, ann, bob

MCArticles == {art}
MCClients == {c1, c2, c3}
MCNicknames == {anon, ann, bob}
MCPages == {<<c1, anon>>, <<c1, ann>>, <<c2, bob>>, <<c3, bob>>}
MCMinInt == -1
MCMaxInt == 4
MCBids == MCMinInt..MCMaxInt
MCOpeningPrices == {0, 1}
=============================================================================
