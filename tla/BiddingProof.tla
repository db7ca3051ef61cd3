---------------------------- MODULE BiddingProof ----------------------------
(***************************************************************************)
(* Proofs about module Bidding, for any articles, pages, nicknames, bids   *)
(* and opening prices, and any range of int.                               *)
(*                                                                         *)
(* The types come first, with and without crashes.  The two invariants of  *)
(* the auction, LeaderHoldsMaximum and SecondPrice, are inductive together *)
(* with the types; what the pages know needs a strengthening, Knowledge.   *)
(***************************************************************************)
EXTENDS Bidding, TLAPS

(* What a request on article a leaves alone: every other article.          *)
LEMMA OtherArticles ==
  ASSUME TypeOK,
         NEW a \in Articles, NEW c, NEW n, NEW b, NEW x \in Articles, x # a,
         Request(a, c, n, b) \/ Crash(a, c, n, b)
  PROVE  /\ articles'[x] = articles[x] /\ notified'[x] = notified[x]
         /\ leaders'[x] = leaders[x] /\ offers'[x] = offers[x]
         /\ opening'[x] = opening[x]
<1>1. CASE RaiseMaximum(a, c, n, b)
  BY <1>1 DEF RaiseMaximum, Offered, TypeOK
<1>2. CASE RejectOwnBid(a, c, n, b)
  BY <1>2 DEF RejectOwnBid, Offered, TypeOK
<1>3. CASE Overbid(a, c, n, b)
  BY <1>3 DEF Overbid, Offered, TypeOK
<1>4. CASE RaisePrice(a, c, n, b)
  BY <1>4 DEF RaisePrice, Offered, TypeOK
<1>5. CASE IgnoreLowBid(a, c, n, b)
  BY <1>5 DEF IgnoreLowBid, Offered, TypeOK
<1>6. CASE Crash(a, c, n, b)
  BY <1>6 DEF Crash, TypeOK
<1> QED  BY <1>1, <1>2, <1>3, <1>4, <1>5, <1>6 DEF Request

(* The history of offers after a request.                                  *)
LEMMA OffersAfter ==
  ASSUME TypeOK, NEW a \in Articles, NEW n \in Nicknames, NEW b \in Int32,
         Offered(a, n, b)
  PROVE  /\ offers' \in [Articles -> [Nicknames -> Int32]]
         /\ \A m \in Nicknames :
              offers'[a][m] = IF m = n /\ b > offers[a][m] THEN b ELSE offers[a][m]
         /\ opening' = opening
BY DEF Offered, TypeOK

-----------------------------------------------------------------------------
(* Types                                                                   *)

(* Before the first request every article has its types.                   *)
LEMMA TypeInit == Init => TypeOK
<1> SUFFICES ASSUME Init PROVE TypeOK
  OBVIOUS
<1> USE BiddingAssumption DEF Init
<1>1. \A a \in Articles :
        /\ articles[a] \in Article
        /\ articles[a].maxbid \in Int32 /\ articles[a].bid \in Int32
        /\ MinInt \in Int32
  <2> SUFFICES ASSUME NEW a \in Articles
               PROVE  /\ articles[a] \in Article
                      /\ articles[a].maxbid \in Int32 /\ articles[a].bid \in Int32
                      /\ MinInt \in Int32
    OBVIOUS
  <2>1. articles[a] \in FreshArticle
    OBVIOUS
  <2>2. articles[a] \in [bid : OpeningPrices, maxbid : OpeningPrices,
                        winner : {NoName}, client : {NoClient}]
    BY <2>1 DEF FreshArticle
  <2>3. articles[a].bid \in Int32 /\ articles[a].maxbid \in Int32
    BY <2>2 DEF Int32
  <2>4. MinInt \in Int32
    BY <2>3 DEF Int32
  <2>5. articles[a] \in Article
    BY <2>2, <2>3 DEF Article
  <2> QED  BY <2>3, <2>4, <2>5
<1>2. articles \in [Articles -> Article]
  BY <1>1
<1>3. opening \in [Articles -> Int32] /\ notified \in [Articles -> Int32]
  BY <1>1
<1>4. offers \in [Articles -> [Nicknames -> Int32]]
  BY <1>1
<1>5. leaders \in [Articles -> SUBSET (Clients \X Nicknames)]
  OBVIOUS
<1> QED  BY <1>2, <1>3, <1>4, <1>5 DEF TypeOK

(* The sum stored as the new price fits an int: something overbid it.      *)
LEMMA RecordTypes ==
  ASSUME NEW r \in Article, NEW k \in Nat, NEW c \in Clients, NEW n \in Nicknames,
         NEW b \in Int32
  PROVE  /\ AfterRaise(r, k, c, b) \in Article
         /\ Overbids(b, r.maxbid) => AfterOverbid(r, k, c, n, b) \in Article
         /\ AfterPrice(r, k, b) \in Article
<1> USE BiddingAssumption DEF Article, Int32
<1>1. AfterRaise(r, k, c, b) \in Article
  BY DEF AfterRaise
<1>2. Overbids(b, r.maxbid) => AfterOverbid(r, k, c, n, b) \in Article
  BY DEF Overbids, AfterOverbid
<1>3. AfterPrice(r, k, b) \in Article
  BY DEF AfterPrice
<1> QED  BY <1>1, <1>2, <1>3

(* A request or a crash keeps the types.                                   *)
LEMMA TypeStep == TypeOK /\ [NextOrCrash]_vars => TypeOK'
<1> SUFFICES ASSUME TypeOK, [NextOrCrash]_vars PROVE TypeOK'
  OBVIOUS
<1>1. CASE UNCHANGED vars
  BY <1>1 DEF TypeOK, vars
<1>2. ASSUME NEW a \in Articles, NEW p \in Pages, NEW b \in Bids,
             Request(a, p[1], p[2], b) \/ Crash(a, p[1], p[2], b)
      PROVE  TypeOK'
  <2> DEFINE c == p[1]
             n == p[2]
             r == articles[a]
  <2>1. c \in Clients /\ n \in Nicknames /\ b \in Int32 /\ r \in Article
        /\ <<c, n>> \in Clients \X Nicknames
    BY BiddingAssumption DEF TypeOK, Int32
  <2> HIDE DEF c, n
  <2>2. /\ 2 \in Nat /\ 4 \in Nat /\ 1 \in Nat
        /\ 0..2 \subseteq Nat /\ 0..4 \subseteq Nat /\ 0..1 \subseteq Nat
    OBVIOUS
  <2>3. \A k \in Nat : /\ AfterRaise(r, k, c, b) \in Article
                       /\ Overbids(b, r.maxbid) => AfterOverbid(r, k, c, n, b) \in Article
                       /\ AfterPrice(r, k, b) \in Article
    BY <2>1, RecordTypes
  <2>4. CASE RaiseMaximum(a, c, n, b)
    BY <2>1, <2>2, <2>3, <2>4, OffersAfter DEF RaiseMaximum, RaiseStores, TypeOK
  <2>5. CASE RejectOwnBid(a, c, n, b)
    BY <2>1, <2>5, OffersAfter DEF RejectOwnBid, TypeOK
  <2>6. CASE Overbid(a, c, n, b)
    <3>1. r.maxbid + 1 \in Int32
      BY <2>1, <2>6, BiddingAssumption DEF Overbid, IsOverbid, Overbids, Int32, Article
    <3>2. articles' \in [Articles -> Article]
      BY <2>1, <2>2, <2>3, <2>6 DEF Overbid, IsOverbid, OverbidStores, TypeOK
    <3> QED  BY <2>1, <2>6, <3>1, <3>2, OffersAfter DEF Overbid, TypeOK
  <2>7. CASE RaisePrice(a, c, n, b)
    BY <2>1, <2>2, <2>3, <2>7, OffersAfter DEF RaisePrice, PriceStores, TypeOK
  <2>8. CASE IgnoreLowBid(a, c, n, b)
    BY <2>1, <2>8, OffersAfter DEF IgnoreLowBid, TypeOK
  <2>9. CASE Crash(a, c, n, b)
    <3>1. ASSUME NEW k \in 0..RaiseStores,
                 articles' = [articles EXCEPT ![a] = AfterRaise(@, k, c, b)]
          PROVE  articles' \in [Articles -> Article]
      BY <2>2, <2>3, <3>1 DEF RaiseStores, TypeOK
    <3>2. ASSUME NEW k \in 0..OverbidStores, IsOverbid(r, n, b),
                 articles' = [articles EXCEPT ![a] = AfterOverbid(@, k, c, n, b)]
          PROVE  articles' \in [Articles -> Article]
      BY <2>2, <2>3, <3>2 DEF OverbidStores, IsOverbid, TypeOK
    <3>3. ASSUME NEW k \in 0..PriceStores,
                 articles' = [articles EXCEPT ![a] = AfterPrice(@, k, b)]
          PROVE  articles' \in [Articles -> Article]
      BY <2>2, <2>3, <3>3 DEF PriceStores, TypeOK
    <3>4. articles' \in [Articles -> Article]
      BY <2>9, <3>1, <3>2, <3>3 DEF Crash
    <3> QED  BY <2>9, <3>4 DEF Crash, TypeOK
  <2> QED  BY <1>2, <2>4, <2>5, <2>6, <2>7, <2>8, <2>9 DEF Request, c, n
<1> QED  BY <1>1, <1>2 DEF NextOrCrash, Next

(* The stored auction data stay in the range of int and of the names in    *)
(* use, whatever is bid and whenever the broker dies.                      *)
THEOREM CrashTypeCorrect == CrashSpec => []TypeOK
BY TypeInit, TypeStep, PTL DEF CrashSpec

(* The same without crashes.                                               *)
THEOREM TypeCorrect == Spec => []TypeOK
<1>1. TypeOK /\ [Next]_vars => TypeOK'
  BY TypeStep DEF NextOrCrash
<1> QED  BY TypeInit, <1>1, PTL DEF Spec

-----------------------------------------------------------------------------
(* The auction                                                             *)

(* The two invariants at one article.                                      *)
Led(r, made) ==
  /\ r.maxbid = made[r.winner]
  /\ \A n \in Nicknames : made[n] <= r.maxbid

Priced(r, made, start) ==
  /\ r.bid <= r.maxbid
  /\ \A n \in Nicknames \ {r.winner} : made[n] <= r.bid
  /\ r.bid = start \/ \E n \in Nicknames \ {r.winner} : r.bid \in {made[n], made[n] + 1}

Auction == \A a \in Articles :
  Led(articles[a], offers[a]) /\ Priced(articles[a], offers[a], opening[a])

(* The invariant of an article is the two properties, taken together.      *)
LEMMA AuctionIs == Auction <=> LeaderHoldsMaximum /\ SecondPrice
BY DEF Auction, Led, Priced, LeaderHoldsMaximum, SecondPrice

(* An article nobody has bid on is in order.                               *)
LEMMA AuctionInit == Init => Auction
<1> SUFFICES ASSUME Init, NEW a \in Articles
             PROVE  Led(articles[a], offers[a]) /\ Priced(articles[a], offers[a], opening[a])
  BY DEF Auction
<1> DEFINE r == articles[a]
<1>1. /\ r.winner = NoName /\ r.bid <= r.maxbid
      /\ opening[a] = r.bid
      /\ r.bid \in Int32 /\ r.maxbid \in Int32
  <2>1. r \in FreshArticle
    BY DEF Init
  <2>2. r \in [bid : OpeningPrices, maxbid : OpeningPrices,
              winner : {NoName}, client : {NoClient}] /\ r.bid <= r.maxbid
    BY <2>1 DEF FreshArticle
  <2> QED  BY <2>2, BiddingAssumption DEF Init, Int32
<1>2. \A n \in Nicknames : offers[a][n] = IF n = NoName THEN r.maxbid ELSE MinInt
  BY DEF Init
<1> HIDE DEF r
<1> QED  BY <1>1, <1>2, BiddingAssumption DEF Led, Priced, Int32, r

(* One request, seen from the article it is about.                         *)
LEMMA AuctionRequest ==
  ASSUME TypeOK, NEW a \in Articles, NEW c \in Clients, NEW n \in Nicknames, NEW b \in Int32,
         Led(articles[a], offers[a]), Priced(articles[a], offers[a], opening[a]),
         Request(a, c, n, b)
  PROVE  /\ Led(articles'[a], offers'[a])
         /\ Priced(articles'[a], offers'[a], opening'[a])
<1> DEFINE r == articles[a]
           s == articles'[a]
           made == offers[a]
           now == offers'[a]
<1>1. /\ r.bid \in Int /\ r.maxbid \in Int /\ b \in Int
      /\ r.winner \in Nicknames
      /\ \A m \in Nicknames : made[m] \in Int
  BY BiddingAssumption DEF TypeOK, Article, Int32
<1>2. Offered(a, n, b)
  BY DEF Request, RaiseMaximum, RejectOwnBid, Overbid, RaisePrice, IgnoreLowBid
<1>3. /\ \A m \in Nicknames : now[m] = IF m = n /\ b > made[m] THEN b ELSE made[m]
      /\ opening'[a] = opening[a]
  BY <1>2, OffersAfter
<1>4. CASE RaiseMaximum(a, c, n, b)
  <2>1. s.maxbid = b /\ s.bid = r.bid /\ s.winner = r.winner /\ n = r.winner /\ b > r.maxbid
    BY <1>4 DEF RaiseMaximum, IsRaise, Overbids, AfterRaise, RaiseStores, TypeOK, Article
  <2> HIDE DEF r, s, made, now
  <2> QED  BY <1>1, <1>3, <2>1 DEF Led, Priced, r, s, made, now
<1>5. CASE RejectOwnBid(a, c, n, b)
  <2>1. s = r /\ n = r.winner /\ ~(b > r.maxbid)
    BY <1>5 DEF RejectOwnBid, Overbids
  <2> HIDE DEF r, s, made, now
  <2> QED  BY <1>1, <1>3, <2>1 DEF Led, Priced, r, s, made, now
<1>6. CASE Overbid(a, c, n, b)
  <2>1. /\ s.bid = r.maxbid + 1 /\ s.maxbid = b /\ s.winner = n
        /\ n # r.winner /\ b > r.maxbid
    BY <1>6 DEF Overbid, IsOverbid, Overbids, AfterOverbid, OverbidStores, TypeOK, Article
  <2>2. s.bid = now[r.winner] + 1
    BY <1>1, <1>3, <2>1 DEF Led
  <2>3. \A m \in Nicknames \ {n} : now[m] <= r.maxbid
    BY <1>1, <1>3, <2>1 DEF Led
  <2>4. now[n] = b
    BY <1>1, <1>3, <2>1 DEF Led
  <2> HIDE DEF r, s, made, now
  <2>5. Led(s, now)
    BY <1>1, <1>3, <2>1, <2>3, <2>4 DEF Led
  <2>6. Priced(s, now, opening'[a])
    <3>1. s.bid <= s.maxbid
      BY <1>1, <2>1
    <3>2. \A m \in Nicknames \ {s.winner} : now[m] <= s.bid
      <4> SUFFICES ASSUME NEW m \in Nicknames \ {n} PROVE now[m] <= s.bid
        BY <2>1
      <4>1. now[m] \in Int
        BY <1>1, <1>3
      <4> QED  BY <1>1, <2>1, <2>3, <4>1
    <3>3. r.winner \in Nicknames \ {s.winner}
      BY <1>1, <2>1
    <3> QED  BY <2>2, <3>1, <3>2, <3>3 DEF Priced
  <2> QED  BY <2>5, <2>6 DEF s, now
<1>7. CASE RaisePrice(a, c, n, b)
  <2>1. /\ s.bid = b /\ s.maxbid = r.maxbid /\ s.winner = r.winner
        /\ n # r.winner /\ ~(b > r.maxbid) /\ b > r.bid
    BY <1>7 DEF RaisePrice, IsPrice, Overbids, AfterPrice, PriceStores, TypeOK, Article
  <2>2. now[n] = b
    BY <1>1, <1>3, <2>1 DEF Priced
  <2> HIDE DEF r, s, made, now
  <2>3. Led(s, now)
    BY <1>1, <1>3, <2>1 DEF Led, r, made
  <2>4. Priced(s, now, opening'[a])
    BY <1>1, <1>3, <2>1, <2>2 DEF Priced, r, made
  <2> QED  BY <2>3, <2>4 DEF s, now
<1>8. CASE IgnoreLowBid(a, c, n, b)
  <2>1. s = r /\ n # r.winner /\ ~(b > r.maxbid) /\ b <= r.bid
    BY <1>8 DEF IgnoreLowBid, Overbids
  <2> HIDE DEF r, s, made, now
  <2>2. Led(s, now)
    BY <1>1, <1>3, <2>1 DEF Led, r, made
  <2>3. Priced(s, now, opening'[a])
    <3>1. \A m \in Nicknames \ {r.winner} : now[m] <= r.bid
      BY <1>1, <1>3, <2>1 DEF Priced, r, made
    <3>2. ASSUME NEW m \in Nicknames \ {r.winner}, r.bid \in {made[m], made[m] + 1}
          PROVE  r.bid \in {now[m], now[m] + 1}
      BY <1>1, <1>3, <2>1, <3>2
    <3> QED  BY <1>1, <1>3, <2>1, <3>1, <3>2 DEF Priced, r, made
  <2> QED  BY <2>2, <2>3 DEF s, now
<1> QED  BY <1>4, <1>5, <1>6, <1>7, <1>8 DEF Request

(* A request keeps every article in order, the one it is about and the     *)
(* others.                                                                 *)
LEMMA AuctionStep == TypeOK /\ Auction /\ [Next]_vars => Auction'
<1> SUFFICES ASSUME TypeOK, Auction, [Next]_vars PROVE Auction'
  OBVIOUS
<1>1. CASE UNCHANGED vars
  BY <1>1 DEF Auction, vars
<1>2. ASSUME NEW a \in Articles, NEW p \in Pages, NEW b \in Bids,
             Request(a, p[1], p[2], b)
      PROVE  Auction'
  <2>1. p[1] \in Clients /\ p[2] \in Nicknames /\ b \in Int32
    BY BiddingAssumption DEF Int32
  <2>2. ASSUME NEW x \in Articles
        PROVE  /\ Led(articles'[x], offers'[x])
               /\ Priced(articles'[x], offers'[x], opening'[x])
    <3>1. CASE x = a
      BY <1>2, <2>1, <3>1, AuctionRequest DEF Auction
    <3>2. CASE x # a
      <4>1. articles'[x] = articles[x] /\ offers'[x] = offers[x] /\ opening'[x] = opening[x]
        BY <1>2, <3>2, OtherArticles
      <4> QED  BY <4>1 DEF Auction
    <3> QED  BY <3>1, <3>2
  <2> QED  BY <2>2 DEF Auction
<1> QED  BY <1>1, <1>2 DEF Next

(* The price and the leader of every article are in order: the inductive   *)
(* invariant behind LeaderCorrect and PriceCorrect.                        *)
THEOREM AuctionInvariant == Spec => [](TypeOK /\ Auction)
<1>1. Init => TypeOK /\ Auction
  BY TypeInit, AuctionInit
<1>2. TypeOK /\ Auction /\ [Next]_vars => (TypeOK /\ Auction)'
  BY TypeStep, AuctionStep DEF NextOrCrash
<1> QED  BY <1>1, <1>2, PTL DEF Spec

(* The stored maximum is always the winner's own highest bid, and nobody   *)
(* has bid more: the handler gives no article away to a lower bid.         *)
THEOREM LeaderCorrect == Spec => []LeaderHoldsMaximum
BY AuctionInvariant, AuctionIs, PTL

(* The price always covers the bids of those who do not lead, by at most   *)
(* one unit more, and never exceeds the winner's maximum.                  *)
THEOREM PriceCorrect == Spec => []SecondPrice
BY AuctionInvariant, AuctionIs, PTL

-----------------------------------------------------------------------------
(* What the pages are told                                                 *)

(* The messages of a request agree with the price it stores.               *)
LEMMA NoticeStep == TypeOK /\ NoticeAgreesWithPrice /\ [Next]_vars => NoticeAgreesWithPrice'
<1> SUFFICES ASSUME TypeOK, NoticeAgreesWithPrice, [Next]_vars,
                    NEW x \in Articles
             PROVE  notified'[x] = articles'[x].bid
  BY DEF NoticeAgreesWithPrice
<1> USE DEF NoticeAgreesWithPrice
<1>1. CASE UNCHANGED vars
  BY <1>1 DEF vars
<1>2. ASSUME NEW a \in Articles, NEW c, NEW n, NEW b, Request(a, c, n, b)
      PROVE  notified'[x] = articles'[x].bid
  <2>1. CASE x # a
    BY <1>2, <2>1, OtherArticles
  <2>2. CASE x = a /\ RaiseMaximum(a, c, n, b)
    BY <2>2 DEF RaiseMaximum, AfterRaise, TypeOK, Article
  <2>3. CASE x = a /\ RejectOwnBid(a, c, n, b)
    BY <2>3 DEF RejectOwnBid
  <2>4. CASE x = a /\ Overbid(a, c, n, b)
    BY <2>4 DEF Overbid, AfterOverbid, OverbidStores, TypeOK
  <2>5. CASE x = a /\ RaisePrice(a, c, n, b)
    BY <2>5 DEF RaisePrice, AfterPrice, PriceStores, TypeOK, Article
  <2>6. CASE x = a /\ IgnoreLowBid(a, c, n, b)
    BY <2>6 DEF IgnoreLowBid
  <2> QED  BY <1>2, <2>1, <2>2, <2>3, <2>4, <2>5, <2>6 DEF Request
<1> QED  BY <1>1, <1>2 DEF Next

(* The price last published is the price stored: each branch publishes the *)
(* sum or the bid that it stores.                                          *)
THEOREM NoticeCorrect == Spec => []NoticeAgreesWithPrice
<1>1. Init => NoticeAgreesWithPrice
  <2> SUFFICES ASSUME Init, NEW a \in Articles PROVE notified[a] = articles[a].bid
    BY DEF NoticeAgreesWithPrice
  <2>1. notified = [x \in Articles |-> articles[x].bid]
    BY DEF Init
  <2> QED  BY <2>1
<1>2. TypeOK /\ NoticeAgreesWithPrice /\ [Next]_vars => NoticeAgreesWithPrice'
  BY NoticeStep
<1> QED  BY <1>1, <1>2, TypeCorrect, PTL DEF Spec

(* The strengthening: apart from the page on record, whoever was told that *)
(* it leads shares its nickname with another page.                         *)
Shared(p) == \E d \in Clients \ {p[1]} : <<d, p[2]>> \in Pages

Knows(r, told) ==
  /\ told \subseteq Pages
  /\ r.client = NoClient => told = {}
  /\ r.client # NoClient => <<r.client, r.winner>> \in told
  /\ \A p \in told : p = <<r.client, r.winner>> \/ Shared(p)

Knowledge == \A a \in Articles : Knows(articles[a], leaders[a])

(* What the pages know after one request, seen from its article.           *)
LEMMA KnowledgeRequest ==
  ASSUME TypeOK, NEW a \in Articles, NEW c, NEW n, NEW b, <<c, n>> \in Pages,
         Knows(articles[a], leaders[a]), Request(a, c, n, b)
  PROVE  Knows(articles'[a], leaders'[a])
<1> DEFINE r == articles[a]
           s == articles'[a]
<1>1. /\ c \in Clients /\ n \in Nicknames /\ c # NoClient
      /\ r.client \in Clients \cup {NoClient}
  BY BiddingAssumption DEF TypeOK, Article
<1>2. CASE RaiseMaximum(a, c, n, b)
  <2>1. s.client = c /\ s.winner = n /\ n = r.winner /\ leaders'[a] = leaders[a] \cup {<<c, n>>}
    BY <1>2 DEF RaiseMaximum, IsRaise, AfterRaise, RaiseStores, TypeOK, Article
  <2>2. ASSUME NEW p \in leaders[a], p # <<c, n>> PROVE Shared(p)
    <3>1. CASE p = <<r.client, r.winner>>
      BY <1>1, <2>1, <2>2, <3>1 DEF Shared
    <3>2. CASE p # <<r.client, r.winner>>
      BY <3>2 DEF Knows
    <3> QED  BY <3>1, <3>2
  <2> QED  BY <1>1, <2>1, <2>2 DEF Knows
<1>3. CASE RejectOwnBid(a, c, n, b)
  BY <1>3 DEF RejectOwnBid
<1>4. CASE Overbid(a, c, n, b)
  <2>1. /\ s.client = c /\ s.winner = n
        /\ leaders'[a] = (leaders[a] \cup {<<c, n>>}) \ {<<r.client, r.winner>>}
        /\ n # r.winner
    BY <1>4 DEF Overbid, IsOverbid, AfterOverbid, OverbidStores, TypeOK
  <2> QED  BY <1>1, <2>1 DEF Knows
<1>5. CASE RaisePrice(a, c, n, b)
  <2>1. /\ s.client = r.client /\ s.winner = r.winner
        /\ leaders'[a] = leaders[a] \ {<<c, n>>}
        /\ n # r.winner
    BY <1>5 DEF RaisePrice, IsPrice, AfterPrice, PriceStores, TypeOK, Article
  <2> QED  BY <1>1, <2>1 DEF Knows
<1>6. CASE IgnoreLowBid(a, c, n, b)
  BY <1>6 DEF IgnoreLowBid
<1> QED  BY <1>2, <1>3, <1>4, <1>5, <1>6 DEF Request

(* A request keeps what is known about every article.                      *)
LEMMA KnowledgeStep == TypeOK /\ Knowledge /\ [Next]_vars => Knowledge'
<1> SUFFICES ASSUME TypeOK, Knowledge, [Next]_vars, NEW x \in Articles
             PROVE  Knows(articles'[x], leaders'[x])
  BY DEF Knowledge
<1>1. CASE UNCHANGED vars
  BY <1>1 DEF Knowledge, vars
<1>2. ASSUME NEW a \in Articles, NEW p \in Pages, NEW b \in Bids,
             Request(a, p[1], p[2], b)
      PROVE  Knows(articles'[x], leaders'[x])
  <2>1. <<p[1], p[2]>> \in Pages
    BY BiddingAssumption
  <2>2. CASE x = a
    BY <1>2, <2>1, <2>2, KnowledgeRequest DEF Knowledge
  <2>3. CASE x # a
    BY <1>2, <2>3, OtherArticles DEF Knowledge
  <2> QED  BY <2>2, <2>3
<1> QED  BY <1>1, <1>2 DEF Next

(* The record of the leader's page and the pages' belief agree: the        *)
(* inductive invariant behind RecordCorrect and StaleLeadersCorrect.       *)
THEOREM KnowledgeInvariant == Spec => []Knowledge
<1>1. Init => Knowledge
  <2> SUFFICES ASSUME Init, NEW a \in Articles PROVE Knows(articles[a], leaders[a])
    BY DEF Knowledge
  <2>1. articles[a] \in FreshArticle /\ leaders[a] = {}
    BY DEF Init
  <2>2. articles[a].client = NoClient
    BY <2>1 DEF FreshArticle
  <2> QED  BY <2>1, <2>2 DEF Knows
<1>2. TypeOK /\ Knowledge /\ [Next]_vars => Knowledge'
  BY KnowledgeStep
<1> QED  BY <1>1, <1>2, TypeCorrect, PTL DEF Spec

(* The page on record for the leader has been told that it leads.          *)
THEOREM RecordCorrect == Spec => []RecordedClientKnows
<1>1. Knowledge => RecordedClientKnows
  BY DEF Knowledge, Knows, RecordedClientKnows
<1> QED  BY <1>1, KnowledgeInvariant, PTL

(* Only a page that shares its nickname with another one can go on         *)
(* believing that it leads.                                                *)
THEOREM StaleLeadersCorrect == Spec => []StaleLeadersShareNickname
<1>1. Knowledge => StaleLeadersShareNickname
  <2> SUFFICES ASSUME Knowledge, NEW a \in Articles, NEW p \in leaders[a],
                      p[2] # articles[a].winner
               PROVE  Shared(p)
    BY DEF StaleLeadersShareNickname, Shared
  <2>1. p = <<articles[a].client, articles[a].winner>> \/ Shared(p)
    BY DEF Knowledge, Knows
  <2>2. p # <<articles[a].client, articles[a].winner>>
    OBVIOUS
  <2> QED  BY <2>1, <2>2
<1> QED  BY <1>1, KnowledgeInvariant, PTL

-----------------------------------------------------------------------------
(* The refinement of ProxyAuction                                          *)

(* The database starts as the abstract auction does.                       *)
LEMMA ProxyInit == Init => Proxy!Init
<1> SUFFICES ASSUME Init PROVE Proxy!Init
  OBVIOUS
<1>1. TypeOK /\ Auction
  BY TypeInit, AuctionInit
<1>2. /\ offers \in [Articles -> [Nicknames -> Int]]
      /\ \A a \in Articles : articles[a].winner \in Nicknames /\ articles[a].bid \in Int
  BY <1>1, BiddingAssumption DEF TypeOK, Article, Int32
<1> QED  BY <1>1, <1>2 DEF Proxy!Init, Auction, Led, Priced

(* The outcome of one request is one the abstract auction allows.          *)
LEMMA ProxyRequest ==
  ASSUME TypeOK, Auction,
         NEW a \in Articles, NEW c \in Clients, NEW n \in Nicknames, NEW b \in Int32,
         Request(a, c, n, b)
  PROVE  Proxy!Offer(a, n, b)
<1> DEFINE r == articles[a]
           s == articles'[a]
           now == offers'[a]
           price == [x \in Articles |-> articles[x].bid]
           price2 == [x \in Articles |-> articles'[x].bid]
           leader == [x \in Articles |-> articles[x].winner]
           leader2 == [x \in Articles |-> articles'[x].winner]
           others == {now[m] : m \in Nicknames \ {s.winner}}
<1>1. /\ r.bid \in Int /\ r.maxbid \in Int /\ b \in Int /\ r.winner \in Nicknames
      /\ \A m \in Nicknames : offers[a][m] \in Int
  BY BiddingAssumption DEF TypeOK, Article, Int32
<1>2. Offered(a, n, b)
  BY DEF Request, RaiseMaximum, RejectOwnBid, Overbid, RaisePrice, IgnoreLowBid
<1>3. /\ \A m \in Nicknames : now[m] = IF m = n /\ b > offers[a][m] THEN b ELSE offers[a][m]
      /\ opening'[a] = opening[a]
  BY <1>2, OffersAfter
<1>4. Led(r, offers[a]) /\ Priced(r, offers[a], opening[a])
  BY DEF Auction
<1>5. Led(s, now) /\ Priced(s, now, opening'[a])
  BY <1>4, AuctionRequest
<1>6. \A x \in Articles \ {a} : articles'[x] = articles[x]
  BY OtherArticles
<1>7. /\ s.winner = IF b > r.maxbid THEN n ELSE r.winner
      /\ r.bid <= s.bid
      /\ s.bid \in {r.bid} \cup others \cup {o + 1 : o \in others}
  <2>1. CASE RaiseMaximum(a, c, n, b)
    BY <2>1, <1>1 DEF RaiseMaximum, IsRaise, Overbids, AfterRaise, RaiseStores, TypeOK, Article
  <2>2. CASE RejectOwnBid(a, c, n, b)
    BY <2>2, <1>1 DEF RejectOwnBid, Overbids
  <2>3. CASE Overbid(a, c, n, b)
    <3>1. /\ s.bid = r.maxbid + 1 /\ s.winner = n /\ n # r.winner /\ b > r.maxbid
      BY <2>3 DEF Overbid, IsOverbid, Overbids, AfterOverbid, OverbidStores, TypeOK
    <3>2. now[r.winner] = r.maxbid
      BY <1>1, <1>3, <1>4, <3>1 DEF Led
    <3>3. r.maxbid \in others
      BY <1>1, <3>1, <3>2
    <3>4. r.bid <= r.maxbid + 1
      BY <1>1, <1>4 DEF Priced
    <3> HIDE DEF others, r, s
    <3> QED  BY <3>1, <3>3, <3>4
  <2>4. CASE RaisePrice(a, c, n, b)
    <3>1. /\ s.bid = b /\ s.winner = r.winner /\ n # r.winner /\ ~(b > r.maxbid) /\ b > r.bid
      BY <2>4 DEF RaisePrice, IsPrice, Overbids, AfterPrice, PriceStores, TypeOK, Article
    <3>2. now[n] = b
      BY <1>1, <1>3, <1>4, <3>1 DEF Priced
    <3>3. b \in others
      BY <3>1, <3>2
    <3> HIDE DEF others, r, s
    <3> QED  BY <1>1, <3>1, <3>3 DEF r
  <2>5. CASE IgnoreLowBid(a, c, n, b)
    BY <2>5, <1>1 DEF IgnoreLowBid, Overbids
  <2> QED  BY <2>1, <2>2, <2>3, <2>4, <2>5 DEF Request
<1>8. price2 = [price EXCEPT ![a] = s.bid]
  BY <1>6
<1>9. leader2 = [leader EXCEPT ![a] = IF b > offers[a][leader[a]] THEN n ELSE leader[a]]
  <2>1. offers[a][leader[a]] = r.maxbid
    BY <1>4 DEF Led
  <2> QED  BY <1>6, <1>7, <2>1
<1>10. s.bid \in Proxy!FairPrices(price[a], now[leader2[a]],
                                {now[m] : m \in Nicknames \ {leader2[a]}})
  <2>1. leader2[a] = s.winner /\ price[a] = r.bid
    OBVIOUS
  <2>2. s.bid <= now[s.winner] /\ \A o \in others : o <= s.bid
    BY <1>5 DEF Led, Priced
  <2> HIDE DEF r, s, now, leader2, price
  <2> QED  BY <1>7, <2>1, <2>2 DEF Proxy!FairPrices
<1>11. offers' = [offers EXCEPT ![a][n] = IF b > offers[a][n] THEN b ELSE offers[a][n]]
  BY <1>2 DEF Offered
<1> HIDE DEF r, s, now, others
<1> QED  BY <1>8, <1>9, <1>10, <1>11 DEF Proxy!Offer, s, now

(* Every request is an offer of the proxy auction.                         *)
THEOREM ProxyCorrect == Spec => ImplementsProxyAuction
<1>1. TypeOK /\ Auction /\ [Next]_vars => [Proxy!Next]_(Proxy!vars)
  <2> SUFFICES ASSUME TypeOK, Auction, [Next]_vars PROVE [Proxy!Next]_(Proxy!vars)
    OBVIOUS
  <2>1. CASE UNCHANGED vars
    BY <2>1 DEF vars, Proxy!vars
  <2>2. ASSUME NEW a \in Articles, NEW p \in Pages, NEW b \in Bids,
               Request(a, p[1], p[2], b)
        PROVE  Proxy!Next
    <3>1. p[1] \in Clients /\ p[2] \in Nicknames /\ b \in Int32
      BY BiddingAssumption DEF Int32
    <3>2. Proxy!Offer(a, p[2], b)
      BY <2>2, <3>1, ProxyRequest
    <3> QED  BY <3>1, <3>2 DEF Proxy!Next
  <2> QED  BY <2>1, <2>2 DEF Next
<1> QED  BY ProxyInit, <1>1, AuctionInvariant, PTL DEF Spec, Proxy!Spec, ImplementsProxyAuction

-----------------------------------------------------------------------------
(* Crashes                                                                 *)

(* What a crash leaves intact at one article.                              *)
Remembers(r, made) ==
  /\ \A n \in Nicknames : made[n] <= r.maxbid
  /\ \A n \in Nicknames \ {r.winner} : made[n] <= r.bid
  /\ r.bid <= r.maxbid + 1

Memory == \A a \in Articles : Remembers(articles[a], offers[a])

(* The invariant across crashes is the two properties, taken together.     *)
LEMMA MemoryIs == Memory <=> NoOfferForgotten /\ PriceWithinOneOfMaximum
BY DEF Memory, Remembers, NoOfferForgotten, PriceWithinOneOfMaximum

(* Any number of the stores of a branch, done on r, gives s: the price and *)
(* the maximum do not fall, and what was offered stays covered.            *)
LEMMA StoresRemember ==
  ASSUME NEW r \in Article, NEW k \in Nat, NEW c \in Clients, NEW n \in Nicknames,
         NEW b \in Int32, NEW made \in [Nicknames -> Int32], Remembers(r, made),
         NEW s \in Article,
         \/ IsRaise(r, n, b) /\ s = AfterRaise(r, k, c, b)
         \/ IsOverbid(r, n, b) /\ s = AfterOverbid(r, k, c, n, b)
         \/ IsPrice(r, n, b) /\ s = AfterPrice(r, k, b)
  PROVE  Remembers(s, made) /\ s.bid >= r.bid /\ s.maxbid >= r.maxbid
<1>1. /\ r.bid \in Int /\ r.maxbid \in Int /\ b \in Int /\ r.winner \in Nicknames
      /\ s.bid \in Int /\ s.maxbid \in Int
      /\ \A m \in Nicknames : made[m] \in Int
  BY BiddingAssumption DEF Article, Int32
<1>2. CASE IsRaise(r, n, b) /\ s = AfterRaise(r, k, c, b)
  <2>1. /\ s.bid = r.bid /\ s.winner = r.winner /\ s.maxbid \in {r.maxbid, b}
        /\ b > r.maxbid
    BY <1>2 DEF AfterRaise, IsRaise, Overbids, Article
  <2> QED  BY <1>1, <2>1 DEF Remembers
<1>3. CASE IsOverbid(r, n, b) /\ s = AfterOverbid(r, k, c, n, b)
  <2>1. /\ s.bid = (IF k >= 1 THEN r.maxbid + 1 ELSE r.bid)
        /\ s.maxbid = (IF k >= 2 THEN b ELSE r.maxbid)
        /\ s.winner = (IF k >= 3 THEN n ELSE r.winner)
        /\ b > r.maxbid
    BY <1>3 DEF AfterOverbid, IsOverbid, Overbids
  <2> QED  BY <1>1, <2>1 DEF Remembers
<1>4. CASE IsPrice(r, n, b) /\ s = AfterPrice(r, k, b)
  <2>1. /\ s.bid \in {r.bid, b} /\ s.winner = r.winner /\ s.maxbid = r.maxbid
        /\ b > r.bid /\ ~(b > r.maxbid)
    BY <1>4 DEF AfterPrice, IsPrice, Overbids, Article
  <2> QED  BY <1>1, <2>1 DEF Remembers
<1> QED  BY <1>2, <1>3, <1>4

(* A request on an article a crash may have left half stored.              *)
LEMMA MemoryRequest ==
  ASSUME TypeOK, TypeOK', NEW a \in Articles, NEW c \in Clients, NEW n \in Nicknames,
         NEW b \in Int32, Remembers(articles[a], offers[a]),
         Request(a, c, n, b) \/ Crash(a, c, n, b)
  PROVE  /\ Remembers(articles'[a], offers'[a])
         /\ articles'[a].bid >= articles[a].bid
         /\ articles'[a].maxbid >= articles[a].maxbid
<1> DEFINE r == articles[a]
           s == articles'[a]
<1>1. /\ r \in Article /\ s \in Article
      /\ offers[a] \in [Nicknames -> Int32]
      /\ 1 \in Nat /\ 2 \in Nat /\ 4 \in Nat
      /\ r.bid \in Int /\ r.maxbid \in Int /\ b \in Int /\ r.winner \in Nicknames
      /\ \A m \in Nicknames : offers[a][m] \in Int
  BY BiddingAssumption DEF TypeOK, Article, Int32
<1>2. CASE Crash(a, c, n, b)
  <2>1. PICK k \in Nat : \/ IsRaise(r, n, b) /\ s = AfterRaise(r, k, c, b)
                         \/ IsOverbid(r, n, b) /\ s = AfterOverbid(r, k, c, n, b)
                         \/ IsPrice(r, n, b) /\ s = AfterPrice(r, k, b)
    <3>1. ASSUME NEW k \in 0..2, IsRaise(r, n, b), s = AfterRaise(r, k, c, b) PROVE k \in Nat
      OBVIOUS
    <3>2. ASSUME NEW k \in 0..4, IsOverbid(r, n, b), s = AfterOverbid(r, k, c, n, b) PROVE k \in Nat
      OBVIOUS
    <3>3. ASSUME NEW k \in 0..1, IsPrice(r, n, b), s = AfterPrice(r, k, b) PROVE k \in Nat
      OBVIOUS
    <3>4. \/ IsRaise(r, n, b) /\ \E k \in 0..2 : s = AfterRaise(r, k, c, b)
          \/ IsOverbid(r, n, b) /\ \E k \in 0..4 : s = AfterOverbid(r, k, c, n, b)
          \/ IsPrice(r, n, b) /\ \E k \in 0..1 : s = AfterPrice(r, k, b)
      BY <1>2 DEF Crash, RaiseStores, OverbidStores, PriceStores, TypeOK
    <3> HIDE DEF r, s
    <3> QED  BY <3>1, <3>2, <3>3, <3>4
  <2>2. offers'[a] = offers[a]
    BY <1>2 DEF Crash
  <2>3. Remembers(s, offers[a]) /\ s.bid >= r.bid /\ s.maxbid >= r.maxbid
    BY <1>1, <2>1, StoresRemember
  <2> QED  BY <2>2, <2>3
<1>3. ASSUME Offered(a, n, b), Remembers(s, offers[a]), s.maxbid >= b,
             n = s.winner \/ s.bid >= b
      PROVE  Remembers(s, offers'[a])
  <2>1. \A m \in Nicknames :
          offers'[a][m] = IF m = n /\ b > offers[a][m] THEN b ELSE offers[a][m]
    BY <1>3, OffersAfter
  <2> QED  BY <1>3, <2>1 DEF Remembers
<1>4. CASE RaiseMaximum(a, c, n, b)
  <2>1. s = AfterRaise(r, 2, c, b) /\ IsRaise(r, n, b) /\ Offered(a, n, b)
    BY <1>4 DEF RaiseMaximum, RaiseStores, TypeOK
  <2>2. s.maxbid = b /\ s.winner = n
    BY <1>1, <2>1 DEF AfterRaise, IsRaise, Article
  <2>3. Remembers(s, offers[a]) /\ s.bid >= r.bid /\ s.maxbid >= r.maxbid
    BY <1>1, <2>1, StoresRemember
  <2> QED  BY <1>1, <1>3, <2>1, <2>2, <2>3
<1>5. CASE RejectOwnBid(a, c, n, b)
  <2>1. s = r /\ n = r.winner /\ ~(b > r.maxbid) /\ Offered(a, n, b)
    BY <1>5 DEF RejectOwnBid, Overbids
  <2> QED  BY <1>1, <1>3, <2>1
<1>6. CASE Overbid(a, c, n, b)
  <2>1. s = AfterOverbid(r, 4, c, n, b) /\ IsOverbid(r, n, b) /\ Offered(a, n, b)
    BY <1>6 DEF Overbid, OverbidStores, TypeOK
  <2>2. s.maxbid = b /\ s.winner = n
    BY <2>1 DEF AfterOverbid
  <2>3. Remembers(s, offers[a]) /\ s.bid >= r.bid /\ s.maxbid >= r.maxbid
    BY <1>1, <2>1, StoresRemember
  <2> QED  BY <1>1, <1>3, <2>1, <2>2, <2>3
<1>7. CASE RaisePrice(a, c, n, b)
  <2>1. s = AfterPrice(r, 1, b) /\ IsPrice(r, n, b) /\ Offered(a, n, b)
    BY <1>7 DEF RaisePrice, PriceStores, TypeOK
  <2>2. s.bid = b /\ s.maxbid = r.maxbid /\ ~(b > r.maxbid)
    BY <1>1, <2>1 DEF AfterPrice, IsPrice, Overbids, Article
  <2>3. Remembers(s, offers[a]) /\ s.bid >= r.bid /\ s.maxbid >= r.maxbid
    BY <1>1, <2>1, StoresRemember
  <2> QED  BY <1>1, <1>3, <2>1, <2>2, <2>3
<1>8. CASE IgnoreLowBid(a, c, n, b)
  <2>1. s = r /\ ~(b > r.maxbid) /\ b <= r.bid /\ Offered(a, n, b)
    BY <1>8 DEF IgnoreLowBid, Overbids
  <2> QED  BY <1>1, <1>3, <2>1
<1> QED  BY <1>2, <1>4, <1>5, <1>6, <1>7, <1>8 DEF Request

(* A request, and a crash at any of its stores, keep the memory.           *)
LEMMA MemoryStep ==
  TypeOK /\ TypeOK' /\ Memory /\ [NextOrCrash]_vars => Memory' /\ NoFall
<1> SUFFICES ASSUME TypeOK, TypeOK', Memory, [NextOrCrash]_vars, NEW x \in Articles
             PROVE  /\ Remembers(articles'[x], offers'[x])
                    /\ articles'[x].bid >= articles[x].bid
                    /\ articles'[x].maxbid >= articles[x].maxbid
  BY DEF Memory, NoFall
<1>1. articles[x].bid \in Int /\ articles[x].maxbid \in Int
  BY BiddingAssumption DEF TypeOK, Article, Int32
<1>2. CASE UNCHANGED vars
  BY <1>1, <1>2 DEF Memory, vars
<1>3. ASSUME NEW a \in Articles, NEW p \in Pages, NEW b \in Bids,
             Request(a, p[1], p[2], b) \/ Crash(a, p[1], p[2], b)
      PROVE  /\ Remembers(articles'[x], offers'[x])
             /\ articles'[x].bid >= articles[x].bid
             /\ articles'[x].maxbid >= articles[x].maxbid
  <2>1. p[1] \in Clients /\ p[2] \in Nicknames /\ b \in Int32
    BY BiddingAssumption DEF Int32
  <2>2. CASE x = a
    BY <1>3, <2>1, <2>2, MemoryRequest DEF Memory
  <2>3. CASE x # a
    <3>1. articles'[x] = articles[x] /\ offers'[x] = offers[x]
      BY <1>3, <2>3, OtherArticles
    <3> QED  BY <1>1, <3>1 DEF Memory
  <2> QED  BY <2>2, <2>3
<1> QED  BY <1>2, <1>3 DEF NextOrCrash, Next

(* Whatever a crash leaves half stored, the completed offers are covered:  *)
(* the inductive invariant behind the two theorems below.                  *)
THEOREM MemoryInvariant == CrashSpec => [](TypeOK /\ Memory)
<1>1. Init => Memory
  <2> SUFFICES ASSUME Init, NEW a \in Articles PROVE Remembers(articles[a], offers[a])
    BY DEF Memory
  <2>1. Led(articles[a], offers[a]) /\ Priced(articles[a], offers[a], opening[a])
    BY AuctionInit DEF Auction
  <2>2. articles[a].bid \in Int /\ articles[a].maxbid \in Int
    BY TypeInit, BiddingAssumption DEF TypeOK, Article, Int32
  <2> QED  BY <2>1, <2>2 DEF Led, Priced, Remembers
<1>2. TypeOK /\ Memory /\ [NextOrCrash]_vars => (TypeOK /\ Memory)'
  BY TypeStep, MemoryStep
<1> QED  BY TypeInit, <1>1, <1>2, PTL DEF CrashSpec

(* Whatever stores a crash cut short, the maximum covers every bid that    *)
(* was completed, and the price those that do not lead.                    *)
THEOREM CrashForgetsNoOffer == CrashSpec => []NoOfferForgotten
BY MemoryInvariant, MemoryIs, PTL

(* A crash leaves the price at most one above the maximum.                 *)
THEOREM CrashPriceBound == CrashSpec => []PriceWithinOneOfMaximum
BY MemoryInvariant, MemoryIs, PTL

(* Neither a request nor a crash lowers a price or a maximum.              *)
THEOREM PriceMonotonic == CrashSpec => PriceNeverFalls
<1>1. TypeOK /\ Memory /\ [NextOrCrash]_vars => [NoFall]_vars
  BY TypeStep, MemoryStep
<1> QED  BY <1>1, MemoryInvariant, PTL DEF CrashSpec, PriceNeverFalls
=============================================================================
