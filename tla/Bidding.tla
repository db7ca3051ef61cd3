------------------------------- MODULE Bidding -------------------------------
(***************************************************************************)
(* The "bid" request of the auction, as the Mosquitto plugin handles it in *)
(* callback_message (mosquitto_plugin/plugin.cpp).  The auction data live  *)
(* in the YottaDB global ^articles; the broker is single-threaded and the  *)
(* handler runs to completion, so that one request is one step, unless the *)
(* broker process dies between two of its database stores (Crash).         *)
(*                                                                         *)
(* A nickname proves nothing: whoever types it bids under it, and an empty *)
(* input field bids under "", the winner of an article nobody has bid on.  *)
(***************************************************************************)
EXTENDS Integers

CONSTANTS
  Articles,        \* articles whose auction data are in the database
  Nicknames,       \* values of the page's nickname field
  NoName,          \* the empty nickname, "winner" of a fresh article
  Clients,         \* MQTT client ids, one per loaded page
  NoClient,        \* the empty "client" of a fresh article
  Pages,           \* which nicknames are typed on which page
  Bids,            \* what stoi makes of the bids (a bid it cannot convert
                   \* throws out of the handler and ends the broker: Crash)
  OpeningPrices,   \* prices an article is put up for
  MinInt, MaxInt   \* the range of a C++ int

ASSUME BiddingAssumption ==
  /\ MinInt \in Int /\ MaxInt \in Int
  /\ Bids \subseteq MinInt..MaxInt
  /\ OpeningPrices \subseteq MinInt..MaxInt
  /\ NoName \in Nicknames
  /\ NoClient \notin Clients
  /\ Pages \subseteq Clients \X Nicknames

VARIABLES
  articles,        \* ^articles(id): bid, maxbid, winner and client
  notified,        \* last price published on aabay/bids/<id> (or seeded)
  leaders,         \* pages last told that a nickname of theirs leads
  offers,          \* history: highest bid of each nickname so far
  opening          \* history: price the article was put up for

vars == <<articles, notified, leaders, offers, opening>>

Int32 == MinInt..MaxInt

Article ==
  [bid : Int32, maxbid : Int32, winner : Nicknames, client : Clients \cup {NoClient}]

TypeOK ==
  /\ articles \in [Articles -> Article]
  /\ notified \in [Articles -> Int32]
  /\ leaders \in [Articles -> SUBSET (Clients \X Nicknames)]
  /\ offers \in [Articles -> [Nicknames -> Int32]]
  /\ opening \in [Articles -> Int32]

-----------------------------------------------------------------------------
(* An article as it is entered into the database: a price, the seller's    *)
(* maximum, and no bidder.                                                 *)
FreshArticle ==
  {r \in [bid : OpeningPrices, maxbid : OpeningPrices, winner : {NoName}, client : {NoClient}] :
     r.bid <= r.maxbid}

Init ==
  /\ articles \in [Articles -> FreshArticle]
  /\ opening = [a \in Articles |-> articles[a].bid]
  /\ notified = opening
  /\ leaders = [a \in Articles |-> {}]
  /\ offers = [a \in Articles |->
                 [n \in Nicknames |-> IF n = NoName THEN articles[a].maxbid ELSE MinInt]]

(* `bid >= maxbid + 1' on C++ ints.  At maxbid = INT_MAX the sum is        *)
(* undefined; g++ folds the comparison into bid > maxbid at every level of *)
(* optimisation, so that nothing overbids the largest int.                 *)
(* Mutants: the sum wraps around; an equal bid is enough.                  *)
OverbidsWrapped(b, maxbid) == b >= (IF maxbid = MaxInt THEN MinInt ELSE maxbid + 1)
OverbidsOnTie(b, maxbid) == b >= maxbid

Overbids(b, maxbid) == b > maxbid

-----------------------------------------------------------------------------
(* The stores of each branch, in their order: what the article looks like  *)
(* once the first k of them are done.                                      *)
RaiseStores == 2
AfterRaise(r, k, c, b) ==
  [r EXCEPT !.maxbid = IF k >= 1 THEN b ELSE @,
            !.client = IF k >= 2 THEN c ELSE @]

OverbidStores == 4

(* Mutants: the client is not stored; the price becomes the bid itself;    *)
(* the winner is stored before price and maximum.                          *)
AfterOverbidNoClient(r, k, c, n, b) ==
  [bid |-> IF k >= 1 THEN r.maxbid + 1 ELSE r.bid, maxbid |-> IF k >= 2 THEN b ELSE r.maxbid,
   winner |-> IF k >= 3 THEN n ELSE r.winner, client |-> r.client]
AfterOverbidFirstPrice(r, k, c, n, b) ==
  [bid |-> IF k >= 1 THEN b ELSE r.bid, maxbid |-> IF k >= 2 THEN b ELSE r.maxbid,
   winner |-> IF k >= 3 THEN n ELSE r.winner, client |-> IF k >= 4 THEN c ELSE r.client]
AfterOverbidWinnerFirst(r, k, c, n, b) ==
  [bid |-> IF k >= 2 THEN r.maxbid + 1 ELSE r.bid, maxbid |-> IF k >= 3 THEN b ELSE r.maxbid,
   winner |-> IF k >= 1 THEN n ELSE r.winner, client |-> IF k >= 4 THEN c ELSE r.client]

AfterOverbid(r, k, c, n, b) ==
  [bid    |-> IF k >= 1 THEN r.maxbid + 1 ELSE r.bid,
   maxbid |-> IF k >= 2 THEN b ELSE r.maxbid,
   winner |-> IF k >= 3 THEN n ELSE r.winner,
   client |-> IF k >= 4 THEN c ELSE r.client]

PriceStores == 1
AfterPrice(r, k, b) == [r EXCEPT !.bid = IF k >= 1 THEN b ELSE @]

(* The branch a request takes.                                             *)
IsRaiseUnguarded(r, n, b) == n = r.winner   \* mutant: the leader's bid is not compared
IsRaise(r, n, b)   == n = r.winner /\ Overbids(b, r.maxbid)
IsOverbid(r, n, b) == n # r.winner /\ Overbids(b, r.maxbid)
IsPrice(r, n, b)   == n # r.winner /\ ~Overbids(b, r.maxbid) /\ b > r.bid

(* History: the nickname has now offered b.                                *)
Offered(a, n, b) ==
  /\ offers' = [offers EXCEPT ![a][n] = IF b > @ THEN b ELSE @]
  /\ UNCHANGED opening

-----------------------------------------------------------------------------
(* The leader raises its own maximum: rc 0, the price stays.               *)
RaiseMaximum(a, c, n, b) ==
  /\ IsRaise(articles[a], n, b)
  /\ articles' = [articles EXCEPT ![a] = AfterRaise(@, RaiseStores, c, b)]
  /\ leaders' = [leaders EXCEPT ![a] = @ \cup {<<c, n>>}]
  /\ Offered(a, n, b)
  /\ UNCHANGED notified

(* The leader offers no more than before: rc -1, it goes on leading.       *)
RejectOwnBid(a, c, n, b) ==
  /\ n = articles[a].winner
  /\ ~Overbids(b, articles[a].maxbid)
  /\ Offered(a, n, b)
  /\ UNCHANGED <<articles, notified, leaders>>

(* Mutants of Overbid: the notice is computed after the stores; the status *)
(* to the previous winner is sent to the client just stored.               *)
OverbidNoticeAfterStores(a, c, n, b) ==
  /\ IsOverbid(articles[a], n, b)
  /\ articles' = [articles EXCEPT ![a] = AfterOverbid(@, OverbidStores, c, n, b)]
  /\ leaders' = [leaders EXCEPT
       ![a] = (@ \cup {<<c, n>>}) \ {<<articles[a].client, articles[a].winner>>}]
  /\ notified' = [notified EXCEPT ![a] = b]
  /\ Offered(a, n, b)

OverbidTellsNewClient(a, c, n, b) ==
  /\ IsOverbid(articles[a], n, b)
  /\ articles' = [articles EXCEPT ![a] = AfterOverbid(@, OverbidStores, c, n, b)]
  /\ leaders' = [leaders EXCEPT ![a] = @ \cup {<<c, n>>}]
  /\ notified' = [notified EXCEPT ![a] = articles[a].maxbid + 1]
  /\ Offered(a, n, b)

(* rc 1 to the new leader, then rc -1 on topic .../to/-1 of the client on  *)
(* record, then the new price, then the stores.                            *)
Overbid(a, c, n, b) ==
  /\ IsOverbid(articles[a], n, b)
  /\ articles' = [articles EXCEPT ![a] = AfterOverbid(@, OverbidStores, c, n, b)]
  /\ leaders' = [leaders EXCEPT
       ![a] = (@ \cup {<<c, n>>}) \ {<<articles[a].client, articles[a].winner>>}]
  /\ notified' = [notified EXCEPT ![a] = articles[a].maxbid + 1]
  /\ Offered(a, n, b)

(* Not enough to lead, enough to drive the price: the new price, rc -2.    *)
RaisePrice(a, c, n, b) ==
  /\ IsPrice(articles[a], n, b)
  /\ articles' = [articles EXCEPT ![a] = AfterPrice(@, PriceStores, b)]
  /\ notified' = [notified EXCEPT ![a] = b]
  /\ leaders' = [leaders EXCEPT ![a] = @ \ {<<c, n>>}]
  /\ Offered(a, n, b)

(* A bid at or below the price falls through to the last return of the     *)
(* branch: nothing is stored, and nothing at all is answered.              *)
IgnoreLowBid(a, c, n, b) ==
  /\ n # articles[a].winner
  /\ ~Overbids(b, articles[a].maxbid)
  /\ b <= articles[a].bid
  /\ Offered(a, n, b)
  /\ UNCHANGED <<articles, notified, leaders>>

(* The broker dies inside the handler, after k of the stores; what it had  *)
(* published is lost with it, and the request counts as never made.  The   *)
(* stores done are durable and are what the restarted broker works on.     *)
Crash(a, c, n, b) ==
  /\ \/ /\ IsRaise(articles[a], n, b)
        /\ \E k \in 0..RaiseStores :
             articles' = [articles EXCEPT ![a] = AfterRaise(@, k, c, b)]
     \/ /\ IsOverbid(articles[a], n, b)
        /\ \E k \in 0..OverbidStores :
             articles' = [articles EXCEPT ![a] = AfterOverbid(@, k, c, n, b)]
     \/ /\ IsPrice(articles[a], n, b)
        /\ \E k \in 0..PriceStores :
             articles' = [articles EXCEPT ![a] = AfterPrice(@, k, b)]
  /\ UNCHANGED <<notified, leaders, offers, opening>>

Request(a, c, n, b) ==
  \/ RaiseMaximum(a, c, n, b)
  \/ RejectOwnBid(a, c, n, b)
  \/ Overbid(a, c, n, b)
  \/ RaisePrice(a, c, n, b)
  \/ IgnoreLowBid(a, c, n, b)

Next == \E a \in Articles, p \in Pages, b \in Bids : Request(a, p[1], p[2], b)

Spec == Init /\ [][Next]_vars

NextOrCrash ==
  Next \/ \E a \in Articles, p \in Pages, b \in Bids : Crash(a, p[1], p[2], b)

CrashSpec == Init /\ [][NextOrCrash]_vars

-----------------------------------------------------------------------------
(* The stored maximum is the winner's own highest bid and nobody has bid   *)
(* more: the handler never takes an article from the bidder who offered    *)
(* most, or who offered it first (bid >= maxbid + 1, plugin.cpp:254,267).  *)
LeaderHoldsMaximum ==
  \A a \in Articles :
    /\ articles[a].maxbid = offers[a][articles[a].winner]
    /\ \A n \in Nicknames : offers[a][n] <= articles[a].maxbid

(* The price is the opening price or the highest bid of those who do not   *)
(* lead, or one unit above it, and the winner can afford it: the two       *)
(* branches that store "bid" (plugin.cpp:283,292) agree on one rule.       *)
SecondPrice ==
  \A a \in Articles :
    LET r == articles[a]
        losers == Nicknames \ {r.winner}
    IN /\ r.bid <= r.maxbid
       /\ \A n \in losers : offers[a][n] <= r.bid
       /\ r.bid = opening[a] \/ \E n \in losers : r.bid \in {offers[a][n], offers[a][n] + 1}

(* The last price published on aabay/bids/<id> is the stored price, though *)
(* each branch publishes and stores it separately.                         *)
NoticeAgreesWithPrice ==
  \A a \in Articles : notified[a] = articles[a].bid

(* The page the next rc -1 status will go to (the stored "client") is one  *)
(* that was told it leads under the stored winner's name.                  *)
RecordedClientKnows ==
  \A a \in Articles :
    articles[a].client # NoClient => <<articles[a].client, articles[a].winner>> \in leaders[a]

(* A page goes on believing that a nickname leads only while it does, or   *)
(* when the same nickname is in use on another page: then the handler has  *)
(* overwritten "client" and only the other page is told.                   *)
StaleLeadersShareNickname ==
  \A a \in Articles : \A p \in leaders[a] :
    p[2] # articles[a].winner => \E d \in Clients \ {p[1]} : <<d, p[2]>> \in Pages

(* The handler implements the proxy auction.                               *)
Proxy == INSTANCE ProxyAuction WITH
  Bidders <- Nicknames,
  Amounts <- Bids,
  leader <- [a \in Articles |-> articles[a].winner],
  price <- [a \in Articles |-> articles[a].bid]

ImplementsProxyAuction == Proxy!Spec

(* Whatever stores a crash cut short, no completed bid is forgotten: the   *)
(* stored maximum covers all of them, the price those that do not lead.    *)
NoOfferForgotten ==
  \A a \in Articles :
    /\ \A n \in Nicknames : offers[a][n] <= articles[a].maxbid
    /\ \A n \in Nicknames \ {articles[a].winner} : offers[a][n] <= articles[a].bid

(* A crash between the stores of "bid" and "maxbid" (plugin.cpp:283-284)   *)
(* leaves the price one above the maximum, never more.                     *)
PriceWithinOneOfMaximum ==
  \A a \in Articles : articles[a].bid <= articles[a].maxbid + 1

(* No request and no crash lowers a price or a maximum.                    *)
NoFall ==
  \A a \in Articles : /\ articles'[a].bid >= articles[a].bid
                      /\ articles'[a].maxbid >= articles[a].maxbid

PriceNeverFalls == [][NoFall]_vars
=============================================================================
