---------------------------- MODULE ProxyAuction ----------------------------
(***************************************************************************)
(* What an auction with secret maximum bids promises, whatever program     *)
(* runs it.  A bidder names the most they would pay; the highest offer     *)
(* leads, the earliest one on a tie; the public price rises just enough to *)
(* cover every other offer, by at most one unit more, and never beyond     *)
(* what the leader offered.  Module Bidding is shown to implement this     *)
(* specification.                                                          *)
(***************************************************************************)
EXTENDS Integers

CONSTANTS
  Articles,     \* the articles on auction
  Bidders,      \* those who bid
  Amounts       \* the amounts a bidder may offer

VARIABLES
  offers,       \* the highest amount each bidder has offered for each article
  leader,       \* who would get the article now
  price         \* the public price

vars == <<offers, leader, price>>

(* The offers made before the first bid are those of the seller.           *)
Init ==
  /\ offers \in [Articles -> [Bidders -> Int]]
  /\ leader \in [Articles -> Bidders]
  /\ price \in [Articles -> Int]
  /\ \A a \in Articles :
       /\ price[a] <= offers[a][leader[a]]
       /\ \A n \in Bidders \ {leader[a]} : offers[a][n] <= price[a]

(* The price stays, or follows one of the offers that do not lead, to it   *)
(* or to one unit above it; it covers them all.                            *)
FairPrices(old, top, others) ==
  {p \in {old} \cup others \cup {o + 1 : o \in others} :
     old <= p /\ p <= top /\ \A o \in others : o <= p}

Offer(a, n, b) ==
  /\ offers' = [offers EXCEPT ![a][n] = IF b > @ THEN b ELSE @]
  /\ leader' = [leader EXCEPT ![a] = IF b > offers[a][@] THEN n ELSE @]
  /\ \E p \in FairPrices(price[a], offers'[a][leader'[a]],
                          {offers'[a][m] : m \in Bidders \ {leader'[a]}}) :
       price' = [price EXCEPT ![a] = p]

Next == \E a \in Articles, n \in Bidders, b \in Amounts : Offer(a, n, b)

Spec == Init /\ [][Next]_vars
=============================================================================
