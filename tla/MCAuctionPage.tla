--------------------------- MODULE MCAuctionPage ----------------------------
(***************************************************************************)
(* Values for the constants of AuctionPage: two articles, so that the      *)
(* detail view can change from one to the other.                           *)
(***************************************************************************)
EXTENDS AuctionPage, TLC

CONSTANTS art1, art2, bids1, bids2, title1, title2, old, new

MCArticle == <<art1>>
MCArticles == <<art1, art2>>
MCBidTopic == art1 :> bids1 @@ art2 :> bids2
MCTitleTopic == art1 :> title1 @@ art2 :> title2
MCTitles == {old, new}
=============================================================================
