-------------------------- MODULE AuctionPageProof --------------------------
(***************************************************************************)
(* Proofs about module AuctionPage, for any articles and titles, and any   *)
(* number of clicks and changes.                                           *)
(*                                                                         *)
(* The invariant is in layers, each proved with those before it:           *)
(*   Types, Numbered  a call is entered and answered under its number;     *)
(*   Heeds            the page listens to what it is subscribed to, when   *)
(*                    the notices come;                                    *)
(*   Posted, Placed   the connection keeps the order of what it carries,   *)
(*                    so a request for an article is answered when all the *)
(*                    subscriptions are made;                              *)
(*   InOrder          the last title in the feed is the stored one;        *)
(*   Fresh            what the page shows, or is on its way to it, is what *)
(*                    is stored, or there is news of it behind.            *)
(***************************************************************************)
EXTENDS AuctionPage, TLAPS

-----------------------------------------------------------------------------
(* Types                                                                   *)

Item == [title : Titles, bid : Nat]
Detail == [article : Articles, title : Titles, bid : Nat, class : Articles]
ToBroker == Fetch!Subscription \cup Fetch!Request
Answer == [kind : {"answer"}, nr : Nat, call : Nat, body : [Articles -> Item] \cup Item]
Notice ==
  [kind : {"notice"}, topic : {BidTopic[a] : a \in Articles}, body : Nat]
  \cup [kind : {"notice"}, topic : {TitleTopic[a] : a \in Articles}, body : Titles]
ToPage == Answer \cup Fetch!Acknowledgement \cup Notice

Types ==
  /\ link \in {"connecting", "up"}
  /\ mqtt_topicIndex \in Nat
  /\ timers \subseteq Fetch!Timer
  /\ resumed \in Seq(Fetch!Acknowledgement)
  /\ toBroker \in Seq(ToBroker) /\ toPage \in Seq(ToPage)
  /\ subscriptions \subseteq Topics \cup {Replies}
  /\ promises \in Seq(Int)
  /\ price \in [Articles -> Nat] /\ title \in [Articles -> Titles]
  /\ feed \in Seq([article : Articles, title : Titles])
  /\ asked \in Seq(Articles \cup {All})
  /\ list \in [{} -> Item] \cup [Articles -> Item]
  /\ todo \in Seq(Topics)

(* Call c goes under number c - 1, and is answered under it.               *)
Request(p) == p.kind = "request"
IsAnswer(p) == p.kind = "answer"
IsNotice(p) == p.kind = "notice"
IsConfirmed(p, t) == p.kind = "subscribed" /\ p.topic = t

Belongs(calls, p) == p.call = p.nr + 1 /\ p.call \in DOMAIN calls
Asks(calls, p) == Request(p) => Belongs(calls, p) /\ p.body = calls[p.call]
Answers(calls, p) ==
  IsAnswer(p) =>
    /\ Belongs(calls, p)
    /\ p.body \in IF calls[p.call] = All THEN [Articles -> Item] ELSE Item
Entered(map) == \A k \in Nat \cap DOMAIN map : map[k] = k + 1

Numbered ==
  /\ mqtt_topicIndex = Len(promises) /\ Len(asked) = Len(promises)
  /\ Entered(mqtt_topicMap)
  /\ \A i \in DOMAIN toBroker : Asks(asked, toBroker[i])
  /\ \A i \in DOMAIN toPage : Answers(asked, toPage[i])

-----------------------------------------------------------------------------
(* The page listens to what it is subscribed to, once the confirmations    *)
(* among the first k packets have come.                                    *)
Listening(map, awaited, q, t, k) ==
  \/ t \in DOMAIN map
  \/ \E i \in DOMAIN awaited : IsConfirmed(awaited[i], t)
  \/ \E i \in DOMAIN q : i <= k /\ IsConfirmed(q[i], t)
Listens(t, k) == Listening(mqtt_topicMap, resumed, toPage, t, k)

Heeds ==
  /\ \A i \in DOMAIN toBroker : toBroker[i].kind # "unsubscribe"
  /\ \A i \in DOMAIN toPage : toPage[i].kind \notin {"refused", "unsubscribed"}
  /\ \A i \in DOMAIN resumed : resumed[i].kind = "subscribed"
  /\ \A t \in Topics \cap subscriptions : Listens(t, Len(toPage))
  /\ \A i \in DOMAIN toPage :
       IsNotice(toPage[i]) => toPage[i].topic \in subscriptions /\ Listens(toPage[i].topic, i)

(* t is subscribed to, or will be when the broker has handled k packets.   *)
Subscribing(subscribed, q, t, k) ==
  \/ t \in subscribed
  \/ \E i \in DOMAIN q : i <= k /\ q[i].kind = "subscribe" /\ q[i].topic = t
Awaits(t, k) == Subscribing(subscriptions, toBroker, t, k)

(* A request for an article is sent after the subscriptions.               *)
Posted ==
  /\ link = "connecting" => toBroker = <<>> /\ toPage = <<>> /\ DOMAIN list = {}
  /\ DOMAIN list # {} => \A t \in Topics : Awaits(t, Len(toBroker)) \/ t \in Range(todo)
  /\ \A i \in DOMAIN toBroker :
       Request(toBroker[i]) /\ toBroker[i].body # All => \A t \in Topics : Awaits(t, i)

(* So it is answered, and the article shown, with all of them made; the    *)
(* list comes with the answer to get_articles.                             *)
Placed ==
  /\ \A i \in DOMAIN toPage :
       IsAnswer(toPage[i]) /\ asked[toPage[i].call] # All => Topics \subseteq subscriptions
  /\ detail # None => /\ Topics \subseteq subscriptions
                      /\ detail \in Detail /\ detail.class = detail.article
  /\ ~listed => /\ DOMAIN list = {} /\ unheard = {}
                /\ \A i \in DOMAIN toPage : IsAnswer(toPage[i]) => asked[toPage[i].call] # All

-----------------------------------------------------------------------------
(* The two fields of an item, where they are stored, and the topics that   *)
(* tell of them.                                                           *)
Fields == {"bid", "title"}
TopicOf(f, a) == IF f = "bid" THEN BidTopic[a] ELSE TitleTopic[a]
Value(f, a) == IF f = "bid" THEN price[a] ELSE title[a]

Tells(calls, missed, p, f, a) ==
  \/ IsNotice(p) /\ p.topic = TopicOf(f, a)
  \/ IsAnswer(p) /\ calls[p.call] = a
  \/ IsAnswer(p) /\ calls[p.call] = All /\ TopicOf(f, a) \notin missed

ValueIn(calls, p, f, a) ==
  IF IsNotice(p) THEN p.body ELSE IF calls[p.call] = All THEN p.body[a][f] ELSE p.body[f]

(* There is news of topic t behind packet i, of a title in the feed.       *)
News(q, t, i) == \E j \in DOMAIN q : i < j /\ IsNotice(q[j]) /\ q[j].topic = t
Due(q, f, a, i) == f = "title" /\ \E j \in DOMAIN q : i < j /\ q[j].article = a
Current(q, due, f, a, i, v, value) == News(q, TopicOf(f, a), i) \/ Due(due, f, a, 0) \/ v = value

Fresh ==
  \A f \in Fields, a \in Articles :
    /\ \A i \in DOMAIN toPage :
         Tells(asked, unheard, toPage[i], f, a) =>
           Current(toPage, feed, f, a, i, ValueIn(asked, toPage[i], f, a), Value(f, a))
    /\ a \in DOMAIN list /\ TopicOf(f, a) \notin unheard =>
         Current(toPage, feed, f, a, 0, list[a][f], Value(f, a))
    /\ detail # None /\ detail.article = a /\ f = "bid" =>
         Current(toPage, feed, f, a, 0, detail.bid, Value(f, a))

(* The last title of an article in the feed is the stored one.             *)
InOrder ==
  \A i \in DOMAIN feed :
    Due(feed, "title", feed[i].article, i) \/ feed[i].title = title[feed[i].article]

-----------------------------------------------------------------------------
(* Sequences                                                               *)

(* What is left of a queue when its first packet is taken.                 *)
LEMMA TakeFirst ==
  ASSUME NEW S, NEW q \in Seq(S), q # <<>>
  PROVE  /\ Len(q) \in Nat /\ Len(q) >= 1 /\ DOMAIN q = 1..Len(q)
         /\ 1 \in DOMAIN q /\ Head(q) = q[1] /\ Head(q) \in S
         /\ Tail(q) \in Seq(S) /\ Len(Tail(q)) = Len(q) - 1 /\ DOMAIN Tail(q) = 1..(Len(q) - 1)
         /\ \A i \in DOMAIN Tail(q) : i + 1 \in DOMAIN q /\ Tail(q)[i] = q[i + 1]
<1>1. Len(q) \in Nat /\ Len(q) >= 1 /\ DOMAIN q = 1..Len(q)
  OBVIOUS
<1>2. /\ Tail(q) \in Seq(S) /\ Len(Tail(q)) = Len(q) - 1
      /\ \A i \in 1..(Len(q) - 1) : Tail(q)[i] = q[i + 1]
  BY <1>1
<1>3. DOMAIN Tail(q) = 1..(Len(q) - 1)
  BY <1>1, <1>2
<1> QED  BY <1>1, <1>2, <1>3

(* What a queue is when a packet is put at its end.                        *)
LEMMA PutLast ==
  ASSUME NEW S, NEW q \in Seq(S), NEW p \in S
  PROVE  /\ Len(q) \in Nat /\ DOMAIN q = 1..Len(q)
         /\ Append(q, p) \in Seq(S)
         /\ Len(Append(q, p)) = Len(q) + 1 /\ DOMAIN Append(q, p) = 1..(Len(q) + 1)
         /\ \A i \in DOMAIN q : i \in DOMAIN Append(q, p) /\ Append(q, p)[i] = q[i]
         /\ Append(q, p)[Len(q) + 1] = p
OBVIOUS

(* What is at a place of a sequence is of its type.                        *)
LEMMA ElementOf ==
  ASSUME NEW S, NEW q \in Seq(S), NEW i \in DOMAIN q
  PROVE  q[i] \in S
OBVIOUS

(* The callbacks of a list are set for all topics, and for no other.       *)
LEMMA CallbacksOfAll == Callbacks \in Seq(Topics) /\ Range(Callbacks) = Topics
<1> DEFINE n == Len(ArticleList)
<1>1. n \in Nat /\ DOMAIN ArticleList = 1..n /\ Articles = {ArticleList[i] : i \in 1..n}
  BY AuctionPageAssumption DEF Articles, Range
<1>2. ASSUME NEW i \in 1..2 * n PROVE (i + 1) \div 2 \in 1..n
  BY <1>1, <1>2
<1>3. \A i \in 1..2 * n : Callbacks[i] \in Topics
  BY <1>1, <1>2 DEF Callbacks, Topics
<1>4. Callbacks \in [1..2 * n -> Topics]
  BY <1>3 DEF Callbacks
<1>5. ASSUME NEW k \in 1..n
      PROVE  /\ 2 * k - 1 \in 1..2 * n /\ Callbacks[2 * k - 1] = BidTopic[ArticleList[k]]
             /\ 2 * k \in 1..2 * n /\ Callbacks[2 * k] = TitleTopic[ArticleList[k]]
  <2>1. /\ 2 * k - 1 \in 1..2 * n /\ (2 * k - 1 + 1) \div 2 = k /\ (2 * k - 1) % 2 = 1
        /\ 2 * k \in 1..2 * n /\ (2 * k + 1) \div 2 = k /\ (2 * k) % 2 = 0
    BY <1>1
  <2> QED  BY <2>1 DEF Callbacks
<1>6. DOMAIN Callbacks = 1..2 * n
  BY DEF Callbacks
<1>7. \A t \in Topics : \E i \in DOMAIN Callbacks : Callbacks[i] = t
  <2>1. ASSUME NEW a \in Articles
        PROVE  /\ \E i \in DOMAIN Callbacks : Callbacks[i] = BidTopic[a]
               /\ \E i \in DOMAIN Callbacks : Callbacks[i] = TitleTopic[a]
    <3>1. PICK k \in 1..n : a = ArticleList[k]
      BY <1>1
    <3> QED  BY <1>5, <1>6, <3>1
  <2> QED  BY <2>1 DEF Topics
<1>8. Range(Callbacks) = Topics
  BY <1>3, <1>6, <1>7 DEF Range
<1>9. 2 * n \in Nat
  BY <1>1
<1> QED  BY <1>4, <1>8, <1>9

-----------------------------------------------------------------------------
(* A packet is what its kind says.                                         *)
LEMMA Kinds ==
  /\ \A p \in ToBroker :
       /\ Request(p) => p.nr \in Nat /\ p.call \in Nat /\ p.body \in Articles \cup {All}
       /\ p.kind \in {"subscribe", "unsubscribe"} => p.topic \in Topics \cup {Replies}
       /\ p.kind \in {"request", "subscribe", "unsubscribe"}
  /\ \A p \in ToPage :
       /\ IsAnswer(p) => p.nr \in Nat /\ p.call \in Nat
       /\ p.kind \in {"subscribed", "refused", "unsubscribed"} =>
            p \in Fetch!Acknowledgement /\ p.topic \in Topics \cup {Replies}
       /\ IsNotice(p) => p.topic \in Topics /\ p \in Notice
       /\ p.kind \in {"answer", "subscribed", "refused", "unsubscribed", "notice"}
BY DEF ToBroker, ToPage, Answer, Notice, Fetch!Subscription, Fetch!Request, Fetch!Acknowledgement,
       Request, IsAnswer, IsNotice, Topics

(* A notice of a price has a price, one of a title a title.                *)
LEMMA NoticeIs ==
  ASSUME NEW p \in Notice, NEW a \in Articles
  PROVE  /\ p.topic = BidTopic[a] => p.body \in Nat
         /\ p.topic = TitleTopic[a] => p.body \in Titles
BY AuctionPageAssumption DEF Notice

(* The page sends a packet, takes one, or the broker takes one.            *)
LEMMA Sends ==
  ASSUME Types, NEW p \in ToBroker, Fetch!Transmit(p)
  PROVE  toBroker' \in Seq(ToBroker)
BY PutLast DEF Types, Fetch!Transmit

(* A handler of the page takes the first packet, and that alone.           *)
LEMMA Takes ==
  ASSUME Types, NEW kinds, Fetch!Arrives(kinds)
  PROVE  /\ toPage # <<>> /\ toPage' = Tail(toPage) /\ toPage' \in Seq(ToPage)
         /\ Head(toPage) \in ToPage /\ Head(toPage).kind \in kinds
         /\ UNCHANGED <<link, toBroker, subscriptions, loaded, mqtt_topicIndex, expired>>
BY TakeFirst DEF Types, Fetch!Arrives

(* So does a handler of the broker.                                        *)
LEMMA Handled ==
  ASSUME Types, NEW kind, Fetch!Handles(kind)
  PROVE  /\ toBroker # <<>> /\ toBroker' = Tail(toBroker) /\ toBroker' \in Seq(ToBroker)
         /\ Head(toBroker) \in ToBroker /\ Head(toBroker).kind = kind
         /\ UNCHANGED <<link, loaded, mqtt_topicIndex, mqtt_topicMap, timers, resumed, promises>>
BY TakeFirst DEF Types, Fetch!Handles, Fetch!page

(* At the start the page shows nothing.                                    *)
LEMMA TypeInit == Init => Types
<1> SUFFICES ASSUME Init PROVE Types
  OBVIOUS
<1>1. Fetch!Init
  BY DEF Init
<1>2. /\ link = "connecting" /\ mqtt_topicIndex = 0 /\ timers = {}
      /\ resumed = <<>> /\ toBroker = <<>>
      /\ toPage = <<>> /\ subscriptions = {} /\ promises = <<>>
  BY <1>1 DEF Fetch!Init
<1>3. /\ price \in [Articles -> Nat] /\ title \in [Articles -> Titles]
      /\ feed = <<>> /\ asked = <<>> /\ todo = <<>>
  BY DEF Init
<1>4. list \in [{} -> Item]
  BY DEF Init
<1> QED  BY <1>2, <1>3, <1>4 DEF Types

(* A call of send keeps the types; the request goes under its number.      *)
LEMMA SendTypes ==
  ASSUME Types, NEW v \in Articles \cup {All}, Fetch!Send(v)
  PROVE  /\ mqtt_topicIndex' \in Nat /\ timers' \subseteq Fetch!Timer
         /\ toBroker' \in Seq(ToBroker) /\ promises' \in Seq(Int)
         /\ UNCHANGED <<link, resumed, toPage, subscriptions>>
<1>1. mqtt_topicIndex \in Nat /\ Len(promises) \in Nat
  BY DEF Types
<1>2. Fetch!RequestOf(v) \in ToBroker
  BY <1>1 DEF Fetch!RequestOf, ToBroker, Fetch!Request
<1>3. toBroker' \in Seq(ToBroker)
  BY <1>2, Sends DEF Fetch!Send
<1>4. timers' \subseteq Fetch!Timer
  BY <1>1 DEF Fetch!Send, Fetch!Enter, Fetch!Timer, Types
<1>5. promises' \in Seq(Int)
  BY PutLast DEF Fetch!Send, Fetch!Enter, Fetch!Open, Types
<1> QED  BY <1>1, <1>3, <1>4, <1>5 DEF Fetch!Send, Fetch!Enter

(* So does taking an answer.                                               *)
LEMMA AnswerTypes ==
  ASSUME Types, Fetch!RxAnswer
  PROVE  /\ timers' \subseteq timers /\ promises' \in Seq(Int)
         /\ Len(promises') = Len(promises)
         /\ UNCHANGED resumed
<1>1. Head(toPage) \in ToPage /\ IsAnswer(Head(toPage))
  BY Takes DEF Fetch!RxAnswer, IsAnswer
<1>2. Head(toPage).call \in Int /\ Head(toPage).nr \in Nat
  BY <1>1, Kinds
<1>3. /\ timers' \subseteq timers /\ UNCHANGED resumed
      /\ promises' = [promises EXCEPT ![mqtt_topicMap[Head(toPage).nr]] = Head(toPage).call]
  BY <1>2 DEF Fetch!RxAnswer
<1>4. ASSUME NEW k, NEW c \in Int
      PROVE  LET q == [promises EXCEPT ![k] = c] IN q \in Seq(Int) /\ Len(q) = Len(promises)
  <2>1. Len(promises) \in Nat /\ promises \in [1..Len(promises) -> Int]
    BY DEF Types
  <2>2. [promises EXCEPT ![k] = c] \in [1..Len(promises) -> Int]
    BY <2>1
  <2> QED  BY <2>1, <2>2
<1> QED  BY <1>2, <1>3, <1>4

(* The answer is that to the call it resolves, and says what was asked.    *)
LEMMA AnswerIs ==
  ASSUME Types, Numbered, Fetch!RxAnswer
  PROVE  /\ Head(toPage) = toPage[1] /\ 1 \in DOMAIN toPage /\ IsAnswer(toPage[1])
         /\ toPage[1].nr \in Nat
         /\ Answered = asked[toPage[1].call] /\ Answered \in Articles \cup {All}
         /\ Head(toPage).body \in IF Answered = All THEN [Articles -> Item] ELSE Item
<1>1. Head(toPage) \in ToPage /\ IsAnswer(Head(toPage)) /\ toPage # <<>>
  BY Takes DEF Fetch!RxAnswer, IsAnswer
<1>2. Head(toPage) = toPage[1] /\ 1 \in DOMAIN toPage
  BY <1>1, TakeFirst DEF Types
<1>3. Head(toPage).nr \in Nat /\ Head(toPage).nr \in DOMAIN mqtt_topicMap
  BY <1>1, Kinds DEF Fetch!RxAnswer
<1>4. /\ Belongs(asked, Head(toPage))
      /\ Head(toPage).body \in IF asked[Head(toPage).call] = All THEN [Articles -> Item] ELSE Item
  BY <1>1, <1>2 DEF Numbered, Answers
<1>5. Answered = asked[toPage[1].call] /\ toPage[1].call \in DOMAIN asked
  BY <1>2, <1>3, <1>4 DEF Answered, Numbered, Entered, Belongs
<1>6. Answered \in Articles \cup {All}
  BY <1>5 DEF Types
<1> QED  BY <1>1, <1>2, <1>3, <1>4, <1>5, <1>6

(* A price or a title in the list is changed.                              *)
LEMMA ListChanges ==
  ASSUME Types, NEW a \in Articles, NEW v
  PROVE  /\ v \in Nat => [list EXCEPT ![a].bid = v] \in [{} -> Item] \cup [Articles -> Item]
         /\ v \in Titles => [list EXCEPT ![a].title = v] \in [{} -> Item] \cup [Articles -> Item]
<1>1. list \in [{} -> Item] \cup [Articles -> Item]
  BY DEF Types
<1>2. ASSUME NEW x \in Item
      PROVE  /\ v \in Nat => [x EXCEPT !.bid = v] \in Item
             /\ v \in Titles => [x EXCEPT !.title = v] \in Item
  BY DEF Item
<1> QED  BY <1>1, <1>2

(* The page's list has no article or all of them.                          *)
LEMMA ListDomain ==
  ASSUME NEW a, NEW v
  PROVE  /\ DOMAIN [list EXCEPT ![a].bid = v] = DOMAIN list
         /\ DOMAIN [list EXCEPT ![a].title = v] = DOMAIN list
OBVIOUS

(* And what the broker puts on the way to the page.                        *)
LEMMA PutsTypes ==
  ASSUME Types, NEW p \in ToPage, toPage' = Append(toPage, p)
  PROVE  toPage' \in Seq(ToPage)
BY PutLast DEF Types

(* A publication keeps the types of the two directions.                    *)
LEMMA PublishTypes ==
  ASSUME Types, NEW t, NEW v, [kind |-> "notice", topic |-> t, body |-> v] \in Notice,
         Publish(t, v)
  PROVE  /\ toPage' \in Seq(ToPage)
         /\ UNCHANGED <<link, loaded, mqtt_topicIndex, mqtt_topicMap, timers, resumed, toBroker,
                        subscriptions, promises, expired, dropped, stray>>
<1>1. [kind |-> "notice", topic |-> t, body |-> v] \in ToPage
  BY DEF ToPage
<1>2. CASE Fetch!BrokerPublishes(t, v)
  BY <1>1, <1>2, PutsTypes DEF Fetch!BrokerPublishes, Fetch!page
<1>3. CASE UNCHANGED fetch
  BY <1>3 DEF fetch, Types
<1> QED  BY <1>2, <1>3 DEF Publish

(* So does an answer of the broker.                                        *)
LEMMA BrokerAnswersTypes ==
  ASSUME Types, NEW v \in Item \cup [Articles -> Item], Fetch!BrokerAnswers(v)
  PROVE  toPage' \in Seq(ToPage) /\ toBroker' \in Seq(ToBroker)
<1>1. Head(toBroker) \in ToBroker /\ Request(Head(toBroker)) /\ toBroker' \in Seq(ToBroker)
  BY Handled DEF Fetch!BrokerAnswers, Request
<1>2. [kind |-> "answer", nr |-> Head(toBroker).nr, call |-> Head(toBroker).call, body |-> v]
        \in ToPage
  BY <1>1, Kinds DEF ToPage, Answer
<1> QED  BY <1>1, <1>2, PutsTypes DEF Fetch!BrokerAnswers

(* Every step keeps the types.                                             *)
LEMMA TypeStep == Types /\ Numbered /\ [Next]_vars => Types'
<1> SUFFICES ASSUME Types, Numbered, [Next]_vars PROVE Types'
  OBVIOUS
<1> USE DEF fetch, database, view, Fetch!page, Fetch!wire
<1>1. CASE UNCHANGED vars
  BY <1>1 DEF vars, Types
<1>2. CASE Connect
  <2>1. [kind |-> "subscribe", topic |-> Replies] \in ToBroker
    BY DEF ToBroker, Fetch!Subscription
  <2>2. toBroker' \in Seq(ToBroker)
    BY <1>2, <2>1 DEF Connect, Fetch!ConnectSucceeds
  <2> QED  BY <1>2, <2>2 DEF Connect, Fetch!ConnectSucceeds, Types
<1>3. CASE SetStatusCallback
  BY <1>3 DEF SetStatusCallback, Fetch!SetStatusCallback, Types
<1>4. CASE AskForList
  <2>1. asked' \in Seq(Articles \cup {All})
    BY <1>4 DEF AskForList
  <2> QED  BY <1>4, <2>1, SendTypes DEF AskForList, Types
<1>5. CASE MakeList
  <2>1. timers' \subseteq timers /\ promises' \in Seq(Int) /\ UNCHANGED resumed
    BY <1>5, AnswerTypes DEF MakeList
  <2>2. toPage' \in Seq(ToPage) /\ UNCHANGED <<link, toBroker, subscriptions, mqtt_topicIndex>>
    BY <1>5, Takes DEF MakeList, Fetch!RxAnswer
  <2>3. list' \in [Articles -> Item]
    BY <1>5, AnswerIs DEF MakeList
  <2>4. todo' \in Seq(Topics)
    BY <1>5, CallbacksOfAll DEF MakeList
  <2> QED  BY <1>5, <2>1, <2>2, <2>3, <2>4 DEF MakeList, Types
<1>6. CASE SetNextCallback
  <2>1. Head(todo) \in Topics /\ todo' \in Seq(Topics)
    BY <1>6, TakeFirst DEF SetNextCallback, Types
  <2>2. [kind |-> "subscribe", topic |-> Head(todo)] \in ToBroker
    BY <2>1 DEF ToBroker, Fetch!Subscription
  <2>3. toBroker' \in Seq(ToBroker)
    BY <1>6, <2>2, Sends DEF SetNextCallback, Fetch!SetCallback
  <2> QED  BY <1>6, <2>1, <2>3 DEF SetNextCallback, Fetch!SetCallback, Types
<1>7. CASE Show
  <2>1. timers' \subseteq timers /\ promises' \in Seq(Int) /\ UNCHANGED resumed
    BY <1>7, AnswerTypes DEF Show
  <2>2. toPage' \in Seq(ToPage) /\ UNCHANGED <<link, toBroker, subscriptions, mqtt_topicIndex>>
    BY <1>7, Takes DEF Show, Fetch!RxAnswer
  <2> QED  BY <1>7, <2>1, <2>2 DEF Show, Types
<1>8. CASE FetchOnly
  <2>1. CASE Fetch!RxDiscard
    BY <1>8, <2>1, Takes DEF FetchOnly, Fetch!RxDiscard, Types
  <2>2. CASE Fetch!RxAcknowledgement
    <3>1. Head(toPage) \in Fetch!Acknowledgement
      BY <2>2, Takes, Kinds DEF Fetch!RxAcknowledgement
    <3>2. resumed' \in Seq(Fetch!Acknowledgement)
      BY <2>2, <3>1, PutLast DEF Fetch!RxAcknowledgement, Types
    <3> QED  BY <1>8, <2>2, <3>2, Takes DEF FetchOnly, Fetch!RxAcknowledgement, Types
  <2>3. CASE Fetch!Resume
    <3>1. resumed' \in Seq(Fetch!Acknowledgement)
      BY <2>3, TakeFirst DEF Fetch!Resume, Types
    <3> QED  BY <1>8, <2>3, <3>1 DEF FetchOnly, Fetch!Resume, Types
  <2>4. CASE Fetch!Timeout
    <3>1. timers' \subseteq timers
      BY <2>4 DEF Fetch!Timeout
    <3> QED  BY <1>8, <2>4, <3>1 DEF FetchOnly, Fetch!Timeout, Types
  <2> QED  BY <1>8, <2>1, <2>2, <2>3, <2>4 DEF FetchOnly
<1>9. ASSUME NEW a \in Articles, Click(a) PROVE Types'
  <2>1. asked' \in Seq(Articles \cup {All})
    BY <1>9 DEF Click, Types
  <2> QED  BY <1>9, <2>1, SendTypes DEF Click, Types
<1>10. ASSUME NEW a \in Articles, RxBid(a) PROVE Types'
  <2>1. /\ toPage' \in Seq(ToPage) /\ Head(toPage) \in ToPage /\ IsNotice(Head(toPage))
        /\ UNCHANGED <<link, toBroker, subscriptions, mqtt_topicIndex>>
    BY <1>10, Takes DEF RxBid, Fetch!RxNotice, IsNotice
  <2>2. Head(toPage).body \in Nat
    BY <1>10, <2>1, NoticeIs, Kinds DEF RxBid
  <2>3. list' \in [{} -> Item] \cup [Articles -> Item]
    BY <1>10, <2>2, ListChanges DEF RxBid, Types
  <2> QED  BY <1>10, <2>1, <2>3 DEF RxBid, Fetch!RxNotice, Types
<1>11. ASSUME NEW a \in Articles, RxTitle(a) PROVE Types'
  <2>1. /\ toPage' \in Seq(ToPage) /\ Head(toPage) \in ToPage /\ IsNotice(Head(toPage))
        /\ UNCHANGED <<link, toBroker, subscriptions, mqtt_topicIndex>>
    BY <1>11, Takes DEF RxTitle, Fetch!RxNotice, IsNotice
  <2>2. Head(toPage).body \in Titles
    BY <1>11, <2>1, NoticeIs, Kinds DEF RxTitle
  <2>3. list' \in [{} -> Item] \cup [Articles -> Item]
    BY <1>11, <2>2, ListChanges DEF RxTitle, Types
  <2> QED  BY <1>11, <2>1, <2>3 DEF RxTitle, Fetch!RxNotice, Types
<1>12. CASE Subscribe
  <2>1. toBroker' \in Seq(ToBroker) /\ Head(toBroker).topic \in Topics \cup {Replies}
    BY <1>12, Handled, Kinds DEF Subscribe, Fetch!BrokerSubscribes
  <2>2. [kind |-> "subscribed", topic |-> Head(toBroker).topic] \in ToPage
    BY <2>1 DEF ToPage, Fetch!Acknowledgement
  <2>3. toPage' \in Seq(ToPage)
    BY <1>12, <2>2, PutsTypes DEF Subscribe, Fetch!BrokerSubscribes
  <2> QED  BY <1>12, <2>1, <2>3, Handled DEF Subscribe, Fetch!BrokerSubscribes, Types
<1>13. CASE AnswerList
  <2>1. [a \in Articles |-> Stored(a)] \in [Articles -> Item]
    BY DEF Stored, Item, Types
  <2>2. toPage' \in Seq(ToPage) /\ toBroker' \in Seq(ToBroker)
    BY <1>13, <2>1, BrokerAnswersTypes DEF AnswerList
  <2> QED  BY <1>13, <2>2, Handled DEF AnswerList, Fetch!BrokerAnswers, Types
<1>14. CASE AnswerArticle
  <2>1. Head(toBroker).body \in Articles
    BY <1>14, Handled, Kinds DEF AnswerArticle, Request
  <2>2. Stored(Head(toBroker).body) \in Item
    BY <2>1 DEF Stored, Item, Types
  <2>3. toPage' \in Seq(ToPage) /\ toBroker' \in Seq(ToBroker)
    BY <1>14, <2>2, BrokerAnswersTypes DEF AnswerArticle
  <2> QED  BY <1>14, <2>3, Handled DEF AnswerArticle, Fetch!BrokerAnswers, Types
<1>15. CASE PublishTitle
  <2>1. /\ Head(feed) \in [article : Articles, title : Titles]
        /\ feed' \in Seq([article : Articles, title : Titles])
    BY <1>15, TakeFirst DEF PublishTitle, Types
  <2>2. [kind |-> "notice", topic |-> TitleTopic[Head(feed).article], body |-> Head(feed).title]
          \in Notice
    BY <2>1 DEF Notice
  <2> QED  BY <1>15, <2>1, <2>2, PublishTypes DEF PublishTitle, Types
<1>16. ASSUME NEW a \in Articles, Bid(a) PROVE Types'
  <2>1. price[a] + 1 \in Nat /\ price' \in [Articles -> Nat]
    BY <1>16 DEF Bid, Types
  <2>2. [kind |-> "notice", topic |-> BidTopic[a], body |-> price[a] + 1] \in Notice
    BY <2>1 DEF Notice
  <2> QED  BY <1>16, <2>1, <2>2, PublishTypes DEF Bid, Types
<1>17. ASSUME NEW a \in Articles, NEW t \in Titles, SetTitle(a, t) PROVE Types'
  <2>1. feed' \in Seq([article : Articles, title : Titles])
    <3>1. [article |-> a, title |-> t] \in [article : Articles, title : Titles]
      OBVIOUS
    <3> QED  BY <1>17, <3>1, PutLast DEF SetTitle, Types
  <2> QED  BY <1>17, <2>1 DEF SetTitle, Types
<1> QED
  BY <1>1, <1>2, <1>3, <1>4, <1>5, <1>6, <1>7, <1>8, <1>9, <1>10, <1>11, <1>12, <1>13, <1>14,
     <1>15, <1>16, <1>17 DEF Next

-----------------------------------------------------------------------------
(* Numbers                                                                 *)

(* Nothing is asked at first.                                              *)
LEMMA NumberInit == Init => Numbered
<1> SUFFICES ASSUME Init PROVE Numbered
  OBVIOUS
<1>1. /\ mqtt_topicIndex = 0 /\ mqtt_topicMap = [k \in {} |-> 0] /\ promises = <<>>
      /\ toBroker = <<>> /\ toPage = <<>> /\ asked = <<>>
  BY DEF Init, Fetch!Init, Fetch!Callback
<1>2. DOMAIN mqtt_topicMap = {}
  BY <1>1
<1> QED  BY <1>1, <1>2 DEF Numbered, Entered

(* Callbacks are not entered under numbers, and deleting disturbs none.    *)
LEMMA EnteredKept ==
  ASSUME NEW map, Entered(map), NEW k
  PROVE  /\ Entered(Fetch!Without(map, k))
         /\ k \notin Nat => \A c : Entered(Fetch!With(map, k, c))
         /\ k \in Nat => Entered(Fetch!With(map, k, k + 1))
BY DEF Entered, Fetch!With, Fetch!Without

(* What was asked stays so, whatever is asked next.                        *)
LEMMA AskedStays ==
  ASSUME NEW p, NEW v, Types, asked' = Append(asked, v)
  PROVE  /\ Asks(asked, p) => Asks(asked', p)
         /\ Answers(asked, p) => Answers(asked', p)
<1>1. DOMAIN asked = 1..Len(asked) /\ Len(asked) \in Nat
  BY DEF Types
<1>2. \A c \in DOMAIN asked : c \in DOMAIN asked' /\ asked'[c] = asked[c]
  BY <1>1
<1> QED  BY <1>2 DEF Asks, Answers, Belongs

(* Packets that go, or come, without a call keep the numbers.              *)
LEMMA SentNumbers ==
  ASSUME Types, Numbered, NEW p \in ToBroker, Fetch!Transmit(p), Asks(asked, p)
  PROVE  \A i \in DOMAIN toBroker' : Asks(asked, toBroker'[i])
BY PutLast DEF Fetch!Transmit, Types, Numbered

(* The packets behind one taken by the page keep their numbers.            *)
LEMMA TakenNumbers ==
  ASSUME Types, Numbered, NEW kinds, Fetch!Arrives(kinds)
  PROVE  /\ \A i \in DOMAIN toPage' : Answers(asked, toPage'[i])
         /\ UNCHANGED <<toBroker, mqtt_topicIndex>>
<1>1. toPage # <<>> /\ toPage' = Tail(toPage) /\ UNCHANGED <<toBroker, mqtt_topicIndex>>
  BY Takes
<1> QED  BY <1>1, TakeFirst DEF Types, Numbered

(* So do those behind one taken by the broker.                             *)
LEMMA HandledNumbers ==
  ASSUME Types, Numbered, NEW kind, Fetch!Handles(kind)
  PROVE  \A i \in DOMAIN toBroker' : Asks(asked, toBroker'[i])
<1>1. toBroker # <<>> /\ toBroker' = Tail(toBroker)
  BY Handled
<1> QED  BY <1>1, TakeFirst DEF Types, Numbered

(* A further packet keeps the rest, if it is an answer under its number.   *)
LEMMA PutNumbers ==
  ASSUME Types, Numbered, NEW p \in ToPage, toPage' = Append(toPage, p), Answers(asked, p)
  PROVE  \A i \in DOMAIN toPage' : Answers(asked, toPage'[i])
BY PutLast DEF Types, Numbered

(* So does a publication: a notice has no number.                          *)
LEMMA PublishNumbers ==
  ASSUME Types, Numbered, NEW t, NEW v, [kind |-> "notice", topic |-> t, body |-> v] \in Notice,
         Publish(t, v)
  PROVE  \A i \in DOMAIN toPage' : Answers(asked, toPage'[i])
<1> DEFINE p == [kind |-> "notice", topic |-> t, body |-> v]
<1>1. p \in ToPage /\ Answers(asked, p)
  BY DEF ToPage, Answers, IsAnswer
<1>2. CASE Fetch!BrokerPublishes(t, v)
  BY <1>1, <1>2, PutNumbers DEF Fetch!BrokerPublishes
<1>3. CASE UNCHANGED fetch
  BY <1>3 DEF fetch, Numbered
<1> QED  BY <1>2, <1>3 DEF Publish

(* A call is entered under the number after the last one's.                *)
LEMMA SendNumbers ==
  ASSUME Types, Numbered, NEW v \in Articles \cup {All}, Fetch!Send(v), asked' = Append(asked, v)
  PROVE  Numbered'
<1>1. mqtt_topicIndex \in Nat /\ mqtt_topicIndex = Len(promises) /\ Len(asked) = Len(promises)
  BY DEF Types, Numbered
<1>2. /\ promises' = Append(promises, 0) /\ mqtt_topicIndex' = mqtt_topicIndex + 1
      /\ mqtt_topicMap' = Fetch!With(mqtt_topicMap, mqtt_topicIndex, mqtt_topicIndex + 1)
      /\ toPage' = toPage
  <2>1. Fetch!Enter(Fetch!Open) /\ mqtt_topicIndex' = mqtt_topicIndex + 1
    BY DEF Fetch!Send
  <2>2. promises' = Append(promises, 0) /\ toPage' = toPage
    BY <2>1 DEF Fetch!Enter, Fetch!Open
  <2>3. mqtt_topicMap' = Fetch!With(mqtt_topicMap, mqtt_topicIndex, Len(promises) + 1)
    BY <2>1 DEF Fetch!Enter
  <2> QED  BY <1>1, <2>1, <2>2, <2>3
<1>3. mqtt_topicIndex' = Len(promises') /\ Len(asked') = Len(promises')
  <2>1. promises \in Seq(Int) /\ asked \in Seq(Articles \cup {All})
    BY DEF Types
  <2>2. Len(promises') = Len(promises) + 1
    BY <1>2, <2>1
  <2>3. Len(asked') = Len(asked) + 1
    BY <2>1
  <2> QED  BY <1>1, <1>2, <2>2, <2>3
<1>4. Entered(mqtt_topicMap)'
  BY <1>1, <1>2, EnteredKept DEF Numbered
<1>5. Fetch!RequestOf(v) \in ToBroker
  BY <1>1 DEF Fetch!RequestOf, ToBroker, Fetch!Request
<1>6. Asks(asked', Fetch!RequestOf(v))
  <2>1. Len(asked) + 1 \in DOMAIN asked' /\ asked'[Len(asked) + 1] = v
    BY DEF Types
  <2> QED  BY <1>1, <2>1 DEF Asks, Belongs, Fetch!RequestOf
<1>7. \A i \in DOMAIN toBroker : Asks(asked', toBroker[i])
  BY AskedStays DEF Numbered
<1>8. \A i \in DOMAIN toBroker' : Asks(asked', toBroker'[i])
  BY <1>5, <1>6, <1>7, PutLast DEF Fetch!Send, Fetch!Transmit, Types
<1>9. \A i \in DOMAIN toPage' : Answers(asked', toPage'[i])
  BY <1>2, AskedStays DEF Numbered
<1> QED  BY <1>3, <1>4, <1>8, <1>9 DEF Numbered

(* An answer takes its call's entry away.                                  *)
LEMMA AnswerNumbers ==
  ASSUME Types, Numbered, Fetch!RxAnswer, asked' = asked
  PROVE  Numbered'
<1>1. Head(toPage).nr \in Nat
  BY AnswerIs
<1>2. mqtt_topicMap' = Fetch!Without(mqtt_topicMap, Head(toPage).nr)
  BY <1>1 DEF Fetch!RxAnswer
<1>3. Entered(mqtt_topicMap)'
  BY <1>2, EnteredKept DEF Numbered
<1> QED  BY <1>3, AnswerTypes, TakenNumbers DEF Fetch!RxAnswer, Numbered

(* The broker answers what was asked.                                      *)
LEMMA BrokerAnswersNumbers ==
  ASSUME Types, Numbered, Fetch!Handles("request"), asked' = asked,
         NEW v \in IF Head(toBroker).body = All THEN [Articles -> Item] ELSE Item,
         Fetch!BrokerAnswers(v)
  PROVE  Numbered'
<1>1. Head(toBroker) \in ToBroker /\ Request(Head(toBroker)) /\ toBroker # <<>>
  BY Handled DEF Request
<1> DEFINE p == [kind |-> "answer", nr |-> Head(toBroker).nr, call |-> Head(toBroker).call,
                 body |-> v]
<1>2. p \in ToPage
  BY <1>1, Kinds DEF ToPage, Answer
<1>3. Asks(asked, Head(toBroker))
  BY <1>1, TakeFirst DEF Types, Numbered
<1>4. Answers(asked, p)
  BY <1>1, <1>3 DEF Asks, Answers, Belongs
<1>5. \A i \in DOMAIN toPage' : Answers(asked, toPage'[i])
  BY <1>2, <1>4, PutNumbers DEF Fetch!BrokerAnswers
<1> QED  BY <1>5, Handled, HandledNumbers DEF Numbered

(* Every step keeps the numbers.                                           *)
LEMMA NumberStep == Types /\ Numbered /\ [Next]_vars => Numbered'
<1> SUFFICES ASSUME Types, Numbered, [Next]_vars PROVE Numbered'
  OBVIOUS
<1> USE DEF fetch, database, view, Fetch!page, Fetch!wire
<1>1. CASE UNCHANGED vars
  BY <1>1 DEF vars, Numbered
<1>2. CASE Connect
  <2>1. \A i \in DOMAIN toBroker' : Asks(asked, toBroker'[i])
    BY <1>2 DEF Connect, Fetch!ConnectSucceeds, Asks, Request
  <2> QED  BY <1>2, <2>1 DEF Connect, Fetch!ConnectSucceeds, Numbered
<1>3. CASE SetStatusCallback
  <2>1. mqtt_topicMap' = Fetch!With(mqtt_topicMap, -1, 0)
    BY <1>3 DEF SetStatusCallback, Fetch!SetStatusCallback, Fetch!Status, Fetch!Callback
  <2>2. Entered(mqtt_topicMap)'
    <3>1. -1 \notin Nat
      OBVIOUS
    <3> QED  BY <2>1, <3>1, EnteredKept DEF Numbered
  <2> QED  BY <1>3, <2>2 DEF SetStatusCallback, Fetch!SetStatusCallback, Numbered
<1>4. CASE AskForList
  BY <1>4, SendNumbers DEF AskForList
<1>5. CASE MakeList
  BY <1>5, AnswerNumbers DEF MakeList
<1>6. CASE SetNextCallback
  <2>1. Head(todo) \in Topics
    BY <1>6, TakeFirst DEF SetNextCallback, Types
  <2> DEFINE p == [kind |-> "subscribe", topic |-> Head(todo)]
  <2>2. p \in ToBroker /\ Asks(asked, p)
    BY <2>1 DEF ToBroker, Fetch!Subscription, Asks, Request
  <2>3. \A i \in DOMAIN toBroker' : Asks(asked, toBroker'[i])
    BY <1>6, <2>2, SentNumbers DEF SetNextCallback, Fetch!SetCallback
  <2> QED  BY <1>6, <2>3 DEF SetNextCallback, Fetch!SetCallback, Numbered
<1>7. CASE Show
  BY <1>7, AnswerNumbers DEF Show
<1>8. CASE FetchOnly
  <2>1. CASE Fetch!RxDiscard
    BY <1>8, <2>1, TakenNumbers DEF FetchOnly, Fetch!RxDiscard, Numbered
  <2>2. CASE Fetch!RxAcknowledgement
    BY <1>8, <2>2, TakenNumbers DEF FetchOnly, Fetch!RxAcknowledgement, Numbered
  <2>3. CASE Fetch!Resume
    <3>1. Head(resumed).topic \in Topics \cup {Replies}
      <4>1. Head(resumed) \in Fetch!Acknowledgement
        BY <2>3, TakeFirst DEF Fetch!Resume, Types
      <4> QED  BY <4>1 DEF Fetch!Acknowledgement
    <3>2. Head(resumed).topic # Replies => Head(resumed).topic \notin Nat
      BY <3>1, AuctionPageAssumption
    <3>3. Entered(mqtt_topicMap)'
      BY <2>3, <3>1, <3>2, EnteredKept DEF Fetch!Resume, Numbered
    <3> QED  BY <1>8, <2>3, <3>3 DEF FetchOnly, Fetch!Resume, Numbered
  <2>4. CASE Fetch!Timeout
    <3>1. Entered(mqtt_topicMap)'
      BY <2>4, EnteredKept DEF Fetch!Timeout, Numbered
    <3> QED  BY <1>8, <2>4, <3>1 DEF FetchOnly, Fetch!Timeout, Numbered
  <2> QED  BY <1>8, <2>1, <2>2, <2>3, <2>4 DEF FetchOnly
<1>9. ASSUME NEW a \in Articles, Click(a) PROVE Numbered'
  BY <1>9, SendNumbers DEF Click
<1>10. ASSUME NEW a \in Articles, RxBid(a) \/ RxTitle(a) PROVE Numbered'
  BY <1>10, TakenNumbers DEF RxBid, RxTitle, Fetch!RxNotice, Numbered
<1>11. CASE Subscribe
  <2>1. Head(toBroker).topic \in Topics \cup {Replies}
    BY <1>11, Handled, Kinds DEF Subscribe, Fetch!BrokerSubscribes
  <2> DEFINE p == [kind |-> "subscribed", topic |-> Head(toBroker).topic]
  <2>2. p \in ToPage /\ Answers(asked, p)
    BY <2>1 DEF ToPage, Fetch!Acknowledgement, Answers, IsAnswer
  <2>3. \A i \in DOMAIN toPage' : Answers(asked, toPage'[i])
    BY <1>11, <2>2, PutNumbers DEF Subscribe, Fetch!BrokerSubscribes
  <2> QED  BY <1>11, <2>3, Handled, HandledNumbers DEF Subscribe, Fetch!BrokerSubscribes, Numbered
<1>12. CASE AnswerList
  <2>1. [a \in Articles |-> Stored(a)] \in [Articles -> Item]
    BY DEF Stored, Item, Types
  <2> QED  BY <1>12, <2>1, BrokerAnswersNumbers DEF AnswerList
<1>13. CASE AnswerArticle
  <2>1. Head(toBroker).body \in Articles
    BY <1>13, Handled, Kinds DEF AnswerArticle, Request
  <2>2. Stored(Head(toBroker).body) \in Item
    BY <2>1 DEF Stored, Item, Types
  <2> QED  BY <1>13, <2>2, BrokerAnswersNumbers DEF AnswerArticle
<1>14. CASE PublishTitle
  <2>1. Head(feed) \in [article : Articles, title : Titles]
    BY <1>14, TakeFirst DEF PublishTitle, Types
  <2>2. [kind |-> "notice", topic |-> TitleTopic[Head(feed).article], body |-> Head(feed).title]
          \in Notice
    BY <2>1 DEF Notice
  <2> QED  BY <1>14, <2>2, PublishTypes, PublishNumbers DEF PublishTitle, Numbered
<1>15. ASSUME NEW a \in Articles, Bid(a) PROVE Numbered'
  <2>1. [kind |-> "notice", topic |-> BidTopic[a], body |-> price[a] + 1] \in Notice
    BY DEF Notice, Types
  <2> QED  BY <1>15, <2>1, PublishTypes, PublishNumbers DEF Bid, Numbered
<1>16. ASSUME NEW a \in Articles, NEW t \in Titles, SetTitle(a, t) PROVE Numbered'
  BY <1>16 DEF SetTitle, Numbered
<1> QED
  BY <1>1, <1>2, <1>3, <1>4, <1>5, <1>6, <1>7, <1>8, <1>9, <1>10, <1>11, <1>12, <1>13, <1>14,
     <1>15, <1>16 DEF Next

-----------------------------------------------------------------------------
(* What the page listens to                                                *)

(* Nothing is subscribed to at first.                                      *)
LEMMA HeedsInit == Init => Heeds
<1> SUFFICES ASSUME Init PROVE Heeds
  OBVIOUS
<1>1. toBroker = <<>> /\ toPage = <<>> /\ resumed = <<>> /\ subscriptions = {}
  BY DEF Init, Fetch!Init
<1> QED  BY <1>1 DEF Heeds

(* The page only subscribes, and the broker takes one packet after another.*)
LEMMA SentKinds ==
  ASSUME Types, Heeds, NEW p \in ToBroker, Fetch!Transmit(p), p.kind # "unsubscribe"
  PROVE  \A i \in DOMAIN toBroker' : toBroker'[i].kind # "unsubscribe"
BY PutLast DEF Fetch!Transmit, Types, Heeds

(* No unsubscription is left behind a packet that the broker takes.        *)
LEMMA HandledKinds ==
  ASSUME Types, Heeds, NEW kind, Fetch!Handles(kind)
  PROVE  \A i \in DOMAIN toBroker' : toBroker'[i].kind # "unsubscribe"
<1>1. toBroker # <<>> /\ toBroker' = Tail(toBroker)
  BY Handled
<1> QED  BY <1>1, TakeFirst DEF Types, Heeds

(* What is in the map of the callbacks, as they are only set.              *)
MoreCallbacks == Topics \cap DOMAIN mqtt_topicMap \subseteq DOMAIN mqtt_topicMap'

(* What the page listens to after a step.                                  *)
Hears(t, k) == Listening(mqtt_topicMap', resumed', toPage', t, k)

(* To enter or to delete a number deletes no callback of a topic.          *)
LEMMA CallbacksStay ==
  ASSUME NEW k
  PROVE  /\ k \in Nat /\ mqtt_topicMap' = Fetch!Without(mqtt_topicMap, k) => MoreCallbacks
         /\ \A c : mqtt_topicMap' = Fetch!With(mqtt_topicMap, k, c) => MoreCallbacks
<1>1. \A t \in Topics : t \notin Nat
  BY AuctionPageAssumption
<1> QED  BY <1>1 DEF MoreCallbacks, Fetch!With, Fetch!Without

(* A step that only sends, or enters a callback.                           *)
LEMMA HeedsSending ==
  ASSUME Types, Heeds, MoreCallbacks, UNCHANGED <<resumed, toPage, subscriptions>>,
         \A i \in DOMAIN toBroker' : toBroker'[i].kind # "unsubscribe"
  PROVE  Heeds'
<1>1. \A t \in Topics : \A k : Listens(t, k) => Hears(t, k)
  BY DEF Listens, Hears, Listening, MoreCallbacks
<1>2. \A t \in Topics \cap subscriptions : Hears(t, Len(toPage))
  BY <1>1 DEF Heeds
<1>3. \A i \in DOMAIN toPage : IsNotice(toPage[i]) =>
        toPage[i].topic \in subscriptions /\ Hears(toPage[i].topic, i)
  BY <1>1, Kinds DEF Types, Heeds
<1> QED  BY <1>2, <1>3 DEF Heeds, Listens, Hears

(* A step that takes a packet: a confirmation is left to what awaits it.   *)
LEMMA HeedsTaking ==
  ASSUME Types, Heeds, MoreCallbacks, UNCHANGED <<toBroker, subscriptions>>,
         toPage # <<>>, toPage' = Tail(toPage),
         \/ UNCHANGED resumed /\ Head(toPage).kind \in {"answer", "notice"}
         \/ resumed' = Append(resumed, Head(toPage)) /\ Head(toPage) \in Fetch!Acknowledgement
  PROVE  Heeds'
<1>1. /\ Len(toPage) \in Nat /\ Len(toPage) >= 1 /\ Len(toPage') = Len(toPage) - 1
      /\ DOMAIN toPage = 1..Len(toPage) /\ DOMAIN toPage' = 1..(Len(toPage) - 1)
      /\ Head(toPage) = toPage[1] /\ 1 \in DOMAIN toPage
      /\ \A i \in DOMAIN toPage' : i + 1 \in DOMAIN toPage /\ toPage'[i] = toPage[i + 1]
  BY TakeFirst DEF Types
<1>2. /\ \A i \in DOMAIN resumed : i \in DOMAIN resumed' /\ resumed'[i] = resumed[i]
      /\ \/ UNCHANGED resumed /\ toPage[1].kind # "subscribed"
         \/ /\ Len(resumed) + 1 \in DOMAIN resumed' /\ resumed'[Len(resumed) + 1] = toPage[1]
            /\ DOMAIN resumed' = DOMAIN resumed \cup {Len(resumed) + 1}
            /\ toPage[1] \in Fetch!Acknowledgement
  <2>1. CASE UNCHANGED resumed /\ Head(toPage).kind \in {"answer", "notice"}
    BY <1>1, <2>1
  <2>2. CASE /\ resumed' = Append(resumed, Head(toPage))
             /\ Head(toPage) \in Fetch!Acknowledgement
    <3>1. /\ Len(resumed) \in Nat /\ DOMAIN resumed = 1..Len(resumed)
          /\ DOMAIN resumed' = 1..(Len(resumed) + 1) /\ resumed'[Len(resumed) + 1] = toPage[1]
          /\ \A i \in DOMAIN resumed : i \in DOMAIN resumed' /\ resumed'[i] = resumed[i]
      <4>1. resumed \in Seq(Fetch!Acknowledgement) /\ toPage[1] \in Fetch!Acknowledgement
        BY <1>1, <2>2 DEF Types
      <4> QED  BY <1>1, <2>2, <4>1, PutLast
    <3>2. DOMAIN resumed' = DOMAIN resumed \cup {Len(resumed) + 1}
      BY <3>1
    <3>3. Len(resumed) + 1 \in DOMAIN resumed'
      BY <3>1
    <3> QED  BY <1>1, <2>2, <3>1, <3>2, <3>3
  <2> QED  BY <2>1, <2>2
<1>3. \A t : IsConfirmed(toPage[1], t) => \E i \in DOMAIN resumed' : IsConfirmed(resumed'[i], t)
  BY <1>2 DEF IsConfirmed
<1>4. ASSUME NEW t \in Topics, NEW k \in Nat, Listens(t, k + 1) PROVE Hears(t, k)
  <2>1. CASE t \in DOMAIN mqtt_topicMap
    BY <2>1 DEF MoreCallbacks, Listens, Hears, Listening
  <2>2. CASE \E i \in DOMAIN resumed : IsConfirmed(resumed[i], t)
    BY <1>2, <2>2 DEF Listens, Hears, Listening
  <2>3. ASSUME NEW i \in DOMAIN toPage, i <= k + 1, IsConfirmed(toPage[i], t)
        PROVE  Hears(t, k)
    <3>1. CASE i = 1
      BY <1>3, <2>3, <3>1 DEF Listens, Hears, Listening
    <3>2. CASE i # 1
      <4>1. i - 1 \in DOMAIN toPage' /\ i - 1 <= k /\ toPage'[i - 1] = toPage[i]
        BY <1>1, <2>3, <3>2
      <4> QED  BY <2>3, <4>1 DEF Listens, Hears, Listening
    <3> QED  BY <3>1, <3>2
  <2> QED  BY <1>4, <2>1, <2>2, <2>3 DEF Listens, Hears, Listening
<1>5. \A i \in DOMAIN resumed' : resumed'[i].kind = "subscribed"
  <2>1. Head(toPage).kind \notin {"refused", "unsubscribed"}
    BY <1>1 DEF Heeds
  <2>2. Head(toPage) \in Fetch!Acknowledgement => Head(toPage).kind = "subscribed"
    BY <2>1 DEF Fetch!Acknowledgement
  <2> QED  BY <1>1, <1>2, <2>2 DEF Heeds
<1>6. \A i \in DOMAIN toPage' : toPage'[i].kind \notin {"refused", "unsubscribed"}
  BY <1>1 DEF Heeds
<1>7. \A t \in Topics \cap subscriptions : Hears(t, Len(toPage'))
  <2>1. Len(toPage') \in Nat /\ Len(toPage') + 1 = Len(toPage)
    BY <1>1
  <2>2. \A t \in Topics \cap subscriptions : Listens(t, Len(toPage') + 1)
    BY <2>1 DEF Heeds
  <2>3. PICK l \in Nat : l = Len(toPage')
    BY <2>1
  <2>4. \A t \in Topics \cap subscriptions : Hears(t, l)
    BY <1>4, <2>2, <2>3
  <2> QED  BY <2>3, <2>4 DEF Listens, Hears, Listening
<1>8. ASSUME NEW i \in DOMAIN toPage', IsNotice(toPage'[i])
      PROVE  toPage'[i].topic \in subscriptions /\ Hears(toPage'[i].topic, i)
  <2>1. i \in Nat /\ i + 1 \in DOMAIN toPage /\ toPage'[i] = toPage[i + 1]
    BY <1>1
  <2>2. toPage[i + 1].topic \in subscriptions /\ Listens(toPage[i + 1].topic, i + 1)
    BY <1>8, <2>1 DEF Heeds
  <2>3. PICK t \in Topics : t = toPage[i + 1].topic
    BY <1>8, <2>1, Kinds DEF Types
  <2>4. Hears(t, i)
    BY <1>4, <2>1, <2>2, <2>3
  <2> QED  BY <2>1, <2>2, <2>3, <2>4 DEF Listens, Hears, Listening
<1> QED  BY <1>5, <1>6, <1>7, <1>8 DEF Heeds, Listens, Hears

(* A step of the broker that puts a packet on the way.                     *)
LEMMA HeedsPutting ==
  ASSUME Types, Heeds, UNCHANGED <<mqtt_topicMap, resumed>>,
         NEW p \in ToPage, toPage' = Append(toPage, p), p.kind \notin {"refused", "unsubscribed"},
         IsNotice(p) => p.topic \in subscriptions,
         subscriptions \subseteq subscriptions',
         \A t \in Topics \cap subscriptions' : t \in subscriptions \/ IsConfirmed(p, t),
         \A i \in DOMAIN toBroker' : toBroker'[i].kind # "unsubscribe"
  PROVE  Heeds'
<1>1. /\ Len(toPage) \in Nat /\ DOMAIN toPage = 1..Len(toPage) /\ Len(toPage') = Len(toPage) + 1
      /\ DOMAIN toPage' = 1..(Len(toPage) + 1) /\ toPage'[Len(toPage) + 1] = p
      /\ \A i \in DOMAIN toPage : i \in DOMAIN toPage' /\ toPage'[i] = toPage[i]
  BY PutLast DEF Types
<1>2. ASSUME NEW t, NEW k \in Nat, NEW l \in Nat, k <= l, Listens(t, k) PROVE Hears(t, l)
  BY <1>1, <1>2 DEF Listens, Hears, Listening
<1>3. \A t : IsConfirmed(p, t) => Hears(t, Len(toPage'))
  BY <1>1 DEF Listens, Hears, Listening
<1>4. \A t \in Topics \cap subscriptions' : Hears(t, Len(toPage'))
  <2>1. PICK l \in Nat : l = Len(toPage')
    BY <1>1
  <2>2. \A t \in Topics \cap subscriptions : Hears(t, l)
    BY <1>1, <1>2, <2>1 DEF Heeds
  <2>3. \A t \in Topics \cap subscriptions : Hears(t, Len(toPage'))
    BY <2>1, <2>2 DEF Listens, Hears, Listening
  <2> QED  BY <1>3, <2>3
<1>5. ASSUME NEW i \in DOMAIN toPage', IsNotice(toPage'[i])
      PROVE  toPage'[i].topic \in subscriptions' /\ Hears(toPage'[i].topic, i)
  <2>1. i \in Nat
    BY <1>1
  <2>2. CASE i \in DOMAIN toPage
    <3>1. PICK t : t = toPage[i].topic
      OBVIOUS
    <3>2. toPage'[i] = toPage[i] /\ t \in subscriptions /\ Listens(t, i)
      BY <1>1, <1>5, <2>2, <3>1 DEF Heeds
    <3>3. Hears(t, i)
      BY <1>2, <2>1, <3>2
    <3> QED  BY <3>1, <3>2, <3>3 DEF Listens, Hears, Listening
  <2>3. CASE i \notin DOMAIN toPage
    <3>1. i = Len(toPage) + 1 /\ toPage'[i] = p
      BY <1>1, <2>3
    <3>2. PICK t : t = p.topic
      OBVIOUS
    <3>3. t \in Topics /\ t \in subscriptions
      BY <1>5, <3>1, <3>2, Kinds
    <3>4. Listens(t, Len(toPage))
      BY <3>3 DEF Heeds
    <3>5. Hears(t, i)
      <4>1. PICK k \in Nat : k = Len(toPage)
        BY <1>1
      <4>2. Listens(t, k) /\ k <= i
        BY <3>1, <3>4, <4>1
      <4> QED  BY <1>2, <2>1, <4>2
    <3> QED  BY <3>1, <3>2, <3>3, <3>5 DEF Listens, Hears, Listening
  <2> QED  BY <2>2, <2>3
<1>6. \A i \in DOMAIN toPage' : toPage'[i].kind \notin {"refused", "unsubscribed"}
  BY <1>1 DEF Heeds
<1> QED  BY <1>4, <1>5, <1>6 DEF Heeds, Listens, Hears

(* A call keeps the topics listened to.                                    *)
LEMMA SendHeeds ==
  ASSUME Types, Heeds, NEW v \in Articles \cup {All}, Fetch!Send(v)
  PROVE  Heeds'
<1>1. mqtt_topicIndex \in Nat /\ Len(promises) \in Nat
  BY DEF Types
<1>2. Fetch!RequestOf(v) \in ToBroker /\ Fetch!RequestOf(v).kind # "unsubscribe"
  BY <1>1 DEF Fetch!RequestOf, ToBroker, Fetch!Request
<1>3. \A i \in DOMAIN toBroker' : toBroker'[i].kind # "unsubscribe"
  BY <1>2, SentKinds DEF Fetch!Send
<1>4. MoreCallbacks
  BY CallbacksStay DEF Fetch!Send, Fetch!Enter
<1> QED  BY <1>3, <1>4, HeedsSending DEF Fetch!Send, Fetch!Enter

(* So does an answer on the page.                                          *)
LEMMA AnswerHeeds ==
  ASSUME Types, Numbered, Heeds, Fetch!RxAnswer
  PROVE  Heeds'
<1>1. /\ toPage # <<>> /\ toPage' = Tail(toPage) /\ UNCHANGED <<toBroker, subscriptions>>
      /\ Head(toPage).kind \in {"answer"}
  BY Takes DEF Fetch!RxAnswer
<1>2. Head(toPage).nr \in Nat
  BY AnswerIs
<1>3. MoreCallbacks
  BY <1>2, CallbacksStay DEF Fetch!RxAnswer
<1> QED  BY <1>1, <1>3, HeedsTaking DEF Fetch!RxAnswer

(* So does an answer of the broker.                                        *)
LEMMA BrokerAnswersHeeds ==
  ASSUME Types, Heeds, NEW v \in Item \cup [Articles -> Item], Fetch!BrokerAnswers(v)
  PROVE  Heeds'
<1>1. Head(toBroker) \in ToBroker /\ Request(Head(toBroker))
  BY Handled DEF Fetch!BrokerAnswers, Request
<1> DEFINE p == [kind |-> "answer", nr |-> Head(toBroker).nr, call |-> Head(toBroker).call,
                 body |-> v]
<1>2. p \in ToPage /\ p.kind \notin {"refused", "unsubscribed"} /\ ~IsNotice(p)
  BY <1>1, Kinds DEF ToPage, Answer, IsNotice
<1>3. toPage' = Append(toPage, p) /\ UNCHANGED <<mqtt_topicMap, resumed, subscriptions>>
  BY Handled DEF Fetch!BrokerAnswers
<1>4. \A i \in DOMAIN toBroker' : toBroker'[i].kind # "unsubscribe"
  BY HandledKinds DEF Fetch!BrokerAnswers
<1> QED  BY <1>2, <1>3, <1>4, HeedsPutting

(* A notice is only of what is subscribed to, which the page listens to.   *)
LEMMA PublishHeeds ==
  ASSUME Types, Heeds, NEW t, NEW v, [kind |-> "notice", topic |-> t, body |-> v] \in Notice,
         Publish(t, v)
  PROVE  Heeds'
<1> DEFINE p == [kind |-> "notice", topic |-> t, body |-> v]
<1>1. p \in ToPage /\ p.kind \notin {"refused", "unsubscribed"}
  BY DEF ToPage
<1>2. CASE Fetch!BrokerPublishes(t, v)
  <2>1. /\ toPage' = Append(toPage, p) /\ t \in subscriptions
        /\ UNCHANGED <<mqtt_topicMap, resumed, toBroker, subscriptions>>
    BY <1>2 DEF Fetch!BrokerPublishes, Fetch!page
  <2>2. \A i \in DOMAIN toBroker' : toBroker'[i].kind # "unsubscribe"
    BY <2>1 DEF Heeds
  <2> QED  BY <1>1, <2>1, <2>2, HeedsPutting
<1>3. CASE UNCHANGED fetch
  BY <1>3 DEF fetch, Heeds, Listens
<1> QED  BY <1>2, <1>3 DEF Publish

(* What awaited a confirmation enters the callback.                        *)
LEMMA ResumeHeeds ==
  ASSUME Types, Heeds, Fetch!Resume
  PROVE  Heeds'
<1>1. /\ resumed # <<>> /\ resumed' = Tail(resumed)
      /\ UNCHANGED <<toPage, toBroker, subscriptions>>
  BY DEF Fetch!Resume, Fetch!wire
<1>2. /\ DOMAIN resumed = 1..Len(resumed) /\ Len(resumed) \in Nat /\ Head(resumed) = resumed[1]
      /\ 1 \in DOMAIN resumed /\ DOMAIN resumed' = 1..(Len(resumed) - 1)
      /\ \A i \in DOMAIN resumed' : i + 1 \in DOMAIN resumed /\ resumed'[i] = resumed[i + 1]
  BY <1>1, TakeFirst DEF Types
<1>3. Head(resumed).kind = "subscribed"
  BY <1>2 DEF Heeds
<1>4. \/ Head(resumed).topic = Replies /\ UNCHANGED mqtt_topicMap
      \/ mqtt_topicMap' = Fetch!With(mqtt_topicMap, Head(resumed).topic, Fetch!Callback)
  BY <1>3 DEF Fetch!Resume
<1>5. MoreCallbacks
  BY <1>4, CallbacksStay DEF MoreCallbacks
<1>6. \A t \in Topics : IsConfirmed(resumed[1], t) => t \in DOMAIN mqtt_topicMap'
  BY <1>2, <1>4, AuctionPageAssumption DEF IsConfirmed, Fetch!With
<1>7. ASSUME NEW t \in Topics, NEW k, Listens(t, k) PROVE Hears(t, k)
  <2>1. CASE t \in DOMAIN mqtt_topicMap
    BY <1>5, <2>1 DEF MoreCallbacks, Hears, Listening
  <2>2. ASSUME NEW i \in DOMAIN resumed, IsConfirmed(resumed[i], t) PROVE Hears(t, k)
    <3>1. CASE i = 1
      BY <1>6, <2>2, <3>1 DEF Hears, Listening
    <3>2. CASE i # 1
      <4>1. i - 1 \in DOMAIN resumed' /\ resumed'[i - 1] = resumed[i]
        BY <1>2, <2>2, <3>2
      <4> QED  BY <2>2, <4>1 DEF Hears, Listening
    <3> QED  BY <3>1, <3>2
  <2> QED  BY <1>1, <1>7, <2>1, <2>2 DEF Listens, Hears, Listening
<1>8. \A t \in Topics \cap subscriptions : Hears(t, Len(toPage))
  BY <1>7 DEF Heeds
<1>9. \A i \in DOMAIN toPage : IsNotice(toPage[i]) =>
        toPage[i].topic \in subscriptions /\ Hears(toPage[i].topic, i)
  BY <1>7, Kinds DEF Types, Heeds
<1>10. \A i \in DOMAIN resumed' : resumed'[i].kind = "subscribed"
  BY <1>2 DEF Heeds
<1> QED  BY <1>1, <1>8, <1>9, <1>10 DEF Heeds, Listens, Hears

(* Every step keeps the page listening to what it is subscribed to.        *)
LEMMA HeedsStep == Types /\ Numbered /\ Heeds /\ [Next]_vars => Heeds'
<1> SUFFICES ASSUME Types, Numbered, Heeds, [Next]_vars PROVE Heeds'
  OBVIOUS
<1> USE DEF fetch, database, view, Fetch!page, Fetch!wire
<1>1. CASE UNCHANGED vars
  BY <1>1 DEF vars, Heeds, Listens
<1>2. CASE Connect
  <2>1. \A i \in DOMAIN toBroker' : toBroker'[i].kind # "unsubscribe"
    BY <1>2 DEF Connect, Fetch!ConnectSucceeds
  <2>2. MoreCallbacks
    BY <1>2 DEF Connect, Fetch!ConnectSucceeds, MoreCallbacks
  <2> QED  BY <1>2, <2>1, <2>2, HeedsSending DEF Connect, Fetch!ConnectSucceeds
<1>3. CASE SetStatusCallback
  <2>1. MoreCallbacks
    BY <1>3, CallbacksStay DEF SetStatusCallback, Fetch!SetStatusCallback
  <2>2. UNCHANGED <<resumed, toPage, subscriptions, toBroker>>
    BY <1>3 DEF SetStatusCallback, Fetch!SetStatusCallback
  <2>3. \A i \in DOMAIN toBroker' : toBroker'[i].kind # "unsubscribe"
    BY <2>2 DEF Heeds
  <2> QED  BY <2>1, <2>2, <2>3, HeedsSending
<1>4. CASE AskForList
  BY <1>4, SendHeeds DEF AskForList
<1>5. CASE MakeList
  BY <1>5, AnswerHeeds DEF MakeList
<1>6. CASE SetNextCallback
  <2>1. Head(todo) \in Topics
    BY <1>6, TakeFirst DEF SetNextCallback, Types
  <2>2. [kind |-> "subscribe", topic |-> Head(todo)] \in ToBroker
    BY <2>1 DEF ToBroker, Fetch!Subscription
  <2>3. \A i \in DOMAIN toBroker' : toBroker'[i].kind # "unsubscribe"
    BY <1>6, <2>2, SentKinds DEF SetNextCallback, Fetch!SetCallback
  <2>4. MoreCallbacks
    BY <1>6 DEF SetNextCallback, Fetch!SetCallback, MoreCallbacks
  <2> QED  BY <1>6, <2>3, <2>4, HeedsSending DEF SetNextCallback, Fetch!SetCallback
<1>7. CASE Show
  BY <1>7, AnswerHeeds DEF Show
<1>8. CASE FetchOnly
  <2>1. CASE Fetch!RxDiscard
    <3>1. MoreCallbacks
      BY <2>1 DEF Fetch!RxDiscard, MoreCallbacks
    <3> QED  BY <2>1, <3>1, Takes, HeedsTaking DEF Fetch!RxDiscard
  <2>2. CASE Fetch!RxAcknowledgement
    <3>1. MoreCallbacks
      BY <2>2 DEF Fetch!RxAcknowledgement, MoreCallbacks
    <3>2. Head(toPage) \in Fetch!Acknowledgement
      BY <2>2, Takes, Kinds DEF Fetch!RxAcknowledgement
    <3> QED  BY <2>2, <3>1, <3>2, Takes, HeedsTaking DEF Fetch!RxAcknowledgement
  <2>3. CASE Fetch!Resume
    BY <2>3, ResumeHeeds
  <2>4. CASE Fetch!Timeout
    <3>1. MoreCallbacks
      BY <2>4, CallbacksStay DEF Fetch!Timeout, Fetch!Timer, Types
    <3>2. UNCHANGED <<resumed, toPage, subscriptions, toBroker>>
      BY <2>4 DEF Fetch!Timeout
    <3>3. \A i \in DOMAIN toBroker' : toBroker'[i].kind # "unsubscribe"
      BY <3>2 DEF Heeds
    <3> QED  BY <3>1, <3>2, <3>3, HeedsSending
  <2> QED  BY <1>8, <2>1, <2>2, <2>3, <2>4 DEF FetchOnly
<1>9. ASSUME NEW a \in Articles, Click(a) PROVE Heeds'
  BY <1>9, SendHeeds DEF Click
<1>10. ASSUME NEW a \in Articles, RxBid(a) \/ RxTitle(a) PROVE Heeds'
  <2>1. Fetch!RxNotice
    BY <1>10 DEF RxBid, RxTitle
  <2>2. MoreCallbacks
    BY <2>1 DEF Fetch!RxNotice, MoreCallbacks
  <2> QED  BY <2>1, <2>2, Takes, HeedsTaking DEF Fetch!RxNotice
<1>11. CASE Subscribe
  <2>1. Head(toBroker).topic \in Topics \cup {Replies}
    BY <1>11, Handled, Kinds DEF Subscribe, Fetch!BrokerSubscribes
  <2> DEFINE p == [kind |-> "subscribed", topic |-> Head(toBroker).topic]
  <2>2. p \in ToPage /\ p.kind \notin {"refused", "unsubscribed"} /\ ~IsNotice(p)
    BY <2>1 DEF ToPage, Fetch!Acknowledgement, IsNotice
  <2>3. /\ toPage' = Append(toPage, p) /\ UNCHANGED <<mqtt_topicMap, resumed>>
        /\ subscriptions' = subscriptions \cup {p.topic}
    BY <1>11, Handled DEF Subscribe, Fetch!BrokerSubscribes
  <2>4. \A i \in DOMAIN toBroker' : toBroker'[i].kind # "unsubscribe"
    BY <1>11, HandledKinds DEF Subscribe, Fetch!BrokerSubscribes
  <2>5. \A t \in Topics \cap subscriptions' : t \in subscriptions \/ IsConfirmed(p, t)
    BY <2>3 DEF IsConfirmed
  <2> QED  BY <2>2, <2>3, <2>4, <2>5, HeedsPutting
<1>12. CASE AnswerList
  <2>1. [a \in Articles |-> Stored(a)] \in [Articles -> Item]
    BY DEF Stored, Item, Types
  <2> QED  BY <1>12, <2>1, BrokerAnswersHeeds DEF AnswerList
<1>13. CASE AnswerArticle
  <2>1. Head(toBroker).body \in Articles
    BY <1>13, Handled, Kinds DEF AnswerArticle, Request
  <2>2. Stored(Head(toBroker).body) \in Item
    BY <2>1 DEF Stored, Item, Types
  <2> QED  BY <1>13, <2>2, BrokerAnswersHeeds DEF AnswerArticle
<1>14. CASE PublishTitle
  <2>1. Head(feed) \in [article : Articles, title : Titles]
    BY <1>14, TakeFirst DEF PublishTitle, Types
  <2>2. [kind |-> "notice", topic |-> TitleTopic[Head(feed).article], body |-> Head(feed).title]
          \in Notice
    BY <2>1 DEF Notice
  <2> QED  BY <1>14, <2>2, PublishHeeds DEF PublishTitle
<1>15. ASSUME NEW a \in Articles, Bid(a) PROVE Heeds'
  <2>1. [kind |-> "notice", topic |-> BidTopic[a], body |-> price[a] + 1] \in Notice
    BY DEF Notice, Types
  <2> QED  BY <1>15, <2>1, PublishHeeds DEF Bid
<1>16. ASSUME NEW a \in Articles, NEW t \in Titles, SetTitle(a, t) PROVE Heeds'
  BY <1>16 DEF SetTitle, Heeds, Listens
<1> QED
  BY <1>1, <1>2, <1>3, <1>4, <1>5, <1>6, <1>7, <1>8, <1>9, <1>10, <1>11, <1>12, <1>13, <1>14,
     <1>15, <1>16 DEF Next

-----------------------------------------------------------------------------
(* Requests after subscriptions                                            *)

(* Nothing is sent at first.                                               *)
LEMMA PostedInit == Init => Posted
<1> SUFFICES ASSUME Init PROVE Posted
  OBVIOUS
<1>1. toBroker = <<>> /\ toPage = <<>>
  BY DEF Init, Fetch!Init
<1>2. DOMAIN list = {}
  BY DEF Init
<1> QED  BY <1>1, <1>2 DEF Posted

(* What will be subscribed to after a step.                                *)
WillAwait(t, k) == Subscribing(subscriptions', toBroker', t, k)

(* A packet is sent behind all others.                                     *)
LEMMA PostedSending ==
  ASSUME Types, Posted, NEW p \in ToBroker, Fetch!Transmit(p), Fetch!Connected,
         UNCHANGED <<link, toPage, subscriptions, list>>,
         Request(p) /\ p.body # All => todo = <<>> /\ DOMAIN list # {},
         \A t \in Range(todo) : t \in Range(todo') \/ (p.kind = "subscribe" /\ p.topic = t)
  PROVE  Posted'
<1>1. toBroker' = Append(toBroker, p) /\ link = "up" /\ link' = "up"
  BY DEF Types, Fetch!Transmit, Fetch!Connected
<1>2. /\ Len(toBroker) \in Nat /\ DOMAIN toBroker = 1..Len(toBroker)
      /\ Len(toBroker') = Len(toBroker) + 1 /\ DOMAIN toBroker' = 1..(Len(toBroker) + 1)
      /\ toBroker'[Len(toBroker) + 1] = p
      /\ \A i \in DOMAIN toBroker : i \in DOMAIN toBroker' /\ toBroker'[i] = toBroker[i]
  BY <1>1, PutLast DEF Types
<1>3. ASSUME NEW t, NEW k \in Nat, NEW l \in Nat, k <= l, Awaits(t, k) PROVE WillAwait(t, l)
  BY <1>2, <1>3 DEF Awaits, WillAwait, Subscribing
<1>4. ASSUME NEW t, p.kind = "subscribe", p.topic = t PROVE WillAwait(t, Len(toBroker'))
  BY <1>2, <1>4 DEF WillAwait, Subscribing
<1>5. ASSUME DOMAIN list # {}, NEW t \in Topics
      PROVE  WillAwait(t, Len(toBroker')) \/ t \in Range(todo')
  <2>1. CASE Awaits(t, Len(toBroker))
    <3>1. PICK k \in Nat : k = Len(toBroker)
      BY <1>2
    <3>2. PICK l \in Nat : l = Len(toBroker')
      BY <1>2
    <3> QED  BY <1>2, <1>3, <2>1, <3>1, <3>2
  <2>2. CASE t \in Range(todo)
    BY <1>4, <2>2
  <2> QED  BY <1>5, <2>1, <2>2 DEF Posted
<1>6. ASSUME NEW i \in DOMAIN toBroker', Request(toBroker'[i]), toBroker'[i].body # All,
             NEW t \in Topics
      PROVE  WillAwait(t, i)
  <2>1. CASE i \in DOMAIN toBroker
    BY <1>2, <1>3, <1>6, <2>1 DEF Posted
  <2>2. CASE i \notin DOMAIN toBroker
    <3>1. i \in Nat /\ i = Len(toBroker) + 1 /\ toBroker'[i] = p
      BY <1>2, <2>2
    <3>2. todo = <<>> /\ DOMAIN list # {}
      BY <1>6, <3>1
    <3>3. t \notin Range(todo)
      BY <3>2 DEF Range
    <3>4. PICK k \in Nat : k = Len(toBroker)
      BY <1>2
    <3>5. Awaits(t, k) /\ k <= i
      BY <3>1, <3>2, <3>3, <3>4 DEF Posted
    <3> QED  BY <1>3, <3>1, <3>5
  <2> QED  BY <2>1, <2>2
<1> QED  BY <1>1, <1>5, <1>6 DEF Posted, Awaits, WillAwait

(* The broker takes the first packet.                                      *)
LEMMA PostedHandling ==
  ASSUME Types, Posted, NEW kind, Fetch!Handles(kind), UNCHANGED <<list, todo>>,
         subscriptions \subseteq subscriptions',
         Head(toBroker).kind = "subscribe" => Head(toBroker).topic \in subscriptions'
  PROVE  Posted'
<1>1. /\ toBroker # <<>> /\ toBroker' = Tail(toBroker) /\ link = "up" /\ link' = "up"
  BY Handled DEF Fetch!Handles
<1>2. /\ Len(toBroker) \in Nat /\ Len(toBroker) >= 1 /\ Len(toBroker') = Len(toBroker) - 1
      /\ DOMAIN toBroker = 1..Len(toBroker) /\ DOMAIN toBroker' = 1..(Len(toBroker) - 1)
      /\ Head(toBroker) = toBroker[1]
      /\ \A i \in DOMAIN toBroker' : i + 1 \in DOMAIN toBroker /\ toBroker'[i] = toBroker[i + 1]
  BY <1>1, TakeFirst DEF Types
<1>3. ASSUME NEW t, NEW k \in Nat, Awaits(t, k + 1) PROVE WillAwait(t, k)
  <2>1. CASE t \in subscriptions
    BY <2>1 DEF WillAwait, Subscribing
  <2>2. ASSUME NEW i \in DOMAIN toBroker, i <= k + 1, toBroker[i].kind = "subscribe",
               toBroker[i].topic = t
        PROVE  WillAwait(t, k)
    <3>1. CASE i = 1
      BY <1>2, <2>2, <3>1 DEF WillAwait, Subscribing
    <3>2. CASE i # 1
      <4>1. i - 1 \in DOMAIN toBroker' /\ i - 1 <= k /\ toBroker'[i - 1] = toBroker[i]
        BY <1>2, <2>2, <3>2
      <4> QED  BY <2>2, <4>1 DEF WillAwait, Subscribing
    <3> QED  BY <3>1, <3>2
  <2> QED  BY <1>3, <2>1, <2>2 DEF Awaits, Subscribing
<1>4. ASSUME DOMAIN list # {}, NEW t \in Topics
      PROVE  WillAwait(t, Len(toBroker')) \/ t \in Range(todo)
  <2>1. PICK l \in Nat : l = Len(toBroker') /\ l + 1 = Len(toBroker)
    BY <1>2
  <2> QED  BY <1>3, <1>4, <2>1 DEF Posted
<1>5. ASSUME NEW i \in DOMAIN toBroker', Request(toBroker'[i]), toBroker'[i].body # All,
             NEW t \in Topics
      PROVE  WillAwait(t, i)
  <2>1. i \in Nat /\ i + 1 \in DOMAIN toBroker /\ toBroker'[i] = toBroker[i + 1]
    BY <1>2
  <2> QED  BY <1>3, <1>5, <2>1 DEF Posted
<1> QED  BY <1>1, <1>4, <1>5 DEF Posted, Awaits, WillAwait

(* A step at the other end.                                                *)
LEMMA PostedElsewhere ==
  ASSUME Types, Posted, UNCHANGED <<link, toBroker, subscriptions>>,
         link = "connecting" => toPage' = <<>> /\ DOMAIN list' = {},
         \/ DOMAIN list' = DOMAIN list /\ UNCHANGED todo
         \/ Range(todo') = Topics
  PROVE  Posted'
BY DEF Posted, Awaits

(* Every step keeps the order.                                             *)
LEMMA PostedStep == Types /\ Numbered /\ Posted /\ Placed /\ [Next]_vars => Posted'
<1> SUFFICES ASSUME Types, Numbered, Posted, Placed, [Next]_vars PROVE Posted'
  OBVIOUS
<1> USE DEF fetch, database, view, Fetch!page, Fetch!wire
<1>1. CASE UNCHANGED vars
  BY <1>1 DEF vars, Posted, Awaits
<1>2. CASE Connect
  <2>1. /\ link' = "up" /\ toBroker' = <<[kind |-> "subscribe", topic |-> Replies]>>
        /\ DOMAIN list' = {}
    BY <1>2 DEF Connect, Fetch!ConnectSucceeds, Posted
  <2>2. \A i \in DOMAIN toBroker' : ~Request(toBroker'[i])
    BY <2>1 DEF Request
  <2> QED  BY <2>1, <2>2 DEF Posted
<1>3. CASE SetStatusCallback
  BY <1>3, PostedElsewhere DEF SetStatusCallback, Fetch!SetStatusCallback, Posted
<1>4. CASE AskForList
  <2>1. Fetch!RequestOf(All) \in ToBroker /\ Fetch!RequestOf(All).body = All
    BY DEF Types, Fetch!RequestOf, ToBroker, Fetch!Request
  <2>2. Fetch!Transmit(Fetch!RequestOf(All)) /\ Fetch!Connected
    BY <1>4 DEF AskForList, Fetch!Send
  <2>3. UNCHANGED <<link, toPage, subscriptions, list, todo>>
    BY <1>4 DEF AskForList, Fetch!Send, Fetch!Enter
  <2> QED  BY <2>1, <2>2, <2>3, PostedSending
<1>5. CASE MakeList
  <2>1. toPage # <<>> /\ UNCHANGED <<link, toBroker, subscriptions>>
    BY <1>5, Takes DEF MakeList, Fetch!RxAnswer
  <2>2. link # "connecting"
    BY <2>1 DEF Posted
  <2>3. Range(todo') = Topics
    BY <1>5, CallbacksOfAll DEF MakeList
  <2> QED  BY <2>1, <2>2, <2>3, PostedElsewhere
<1>6. CASE SetNextCallback
  <2> DEFINE p == [kind |-> "subscribe", topic |-> Head(todo)]
  <2>1. /\ Head(todo) = todo[1] /\ Head(todo) \in Topics
        /\ \A i \in DOMAIN todo : i = 1 \/ (i - 1 \in DOMAIN todo' /\ todo'[i - 1] = todo[i])
    BY <1>6, TakeFirst DEF SetNextCallback, Types
  <2>2. p \in ToBroker /\ ~Request(p)
    BY <2>1 DEF ToBroker, Fetch!Subscription, Request
  <2>3. Fetch!Transmit(p) /\ Fetch!Connected /\ UNCHANGED <<link, toPage, subscriptions, list>>
    BY <1>6 DEF SetNextCallback, Fetch!SetCallback
  <2>4. \A t \in Range(todo) : t \in Range(todo') \/ (p.kind = "subscribe" /\ p.topic = t)
    BY <2>1 DEF Range
  <2> QED  BY <2>2, <2>3, <2>4, PostedSending
<1>7. CASE Show
  <2>1. toPage # <<>> /\ UNCHANGED <<link, toBroker, subscriptions>>
    BY <1>7, Takes DEF Show, Fetch!RxAnswer
  <2> QED  BY <1>7, <2>1, PostedElsewhere DEF Show, Posted
<1>8. CASE FetchOnly
  <2>1. UNCHANGED <<link, toBroker, subscriptions, list, todo>>
    BY <1>8, Takes DEF FetchOnly, Fetch!RxDiscard, Fetch!RxAcknowledgement, Fetch!Resume,
                       Fetch!Timeout
  <2>2. toPage # <<>> \/ UNCHANGED toPage
    BY <1>8, Takes DEF FetchOnly, Fetch!RxDiscard, Fetch!RxAcknowledgement, Fetch!Resume,
                       Fetch!Timeout
  <2> QED  BY <2>1, <2>2, PostedElsewhere DEF Posted
<1>9. ASSUME NEW a \in Articles, Click(a) PROVE Posted'
  <2>1. Fetch!RequestOf(a) \in ToBroker
    BY DEF Types, Fetch!RequestOf, ToBroker, Fetch!Request
  <2>2. Fetch!Transmit(Fetch!RequestOf(a)) /\ Fetch!Connected
    BY <1>9 DEF Click, Fetch!Send
  <2>3. UNCHANGED <<link, toPage, subscriptions, list, todo>> /\ todo = <<>> /\ DOMAIN list # {}
    BY <1>9 DEF Click, Free, Fetch!Send, Fetch!Enter
  <2> QED  BY <2>1, <2>2, <2>3, PostedSending
<1>10. ASSUME NEW a \in Articles, RxBid(a) \/ RxTitle(a) PROVE Posted'
  <2>1. toPage # <<>> /\ UNCHANGED <<link, toBroker, subscriptions>>
    BY <1>10, Takes DEF RxBid, RxTitle, Fetch!RxNotice
  <2>2. DOMAIN list' = DOMAIN list /\ UNCHANGED todo
    BY <1>10, ListDomain DEF RxBid, RxTitle
  <2> QED  BY <2>1, <2>2, PostedElsewhere DEF Posted
<1>11. CASE Subscribe
  BY <1>11, PostedHandling DEF Subscribe, Fetch!BrokerSubscribes
<1>12. CASE AnswerList
  <2>1. Head(toBroker).kind # "subscribe"
    BY <1>12, Handled DEF AnswerList
  <2> QED  BY <1>12, <2>1, PostedHandling DEF AnswerList, Fetch!BrokerAnswers
<1>13. CASE AnswerArticle
  <2>1. Head(toBroker).kind # "subscribe"
    BY <1>13, Handled DEF AnswerArticle
  <2> QED  BY <1>13, <2>1, PostedHandling DEF AnswerArticle, Fetch!BrokerAnswers
<1>14. ASSUME NEW t, NEW v, Publish(t, v), UNCHANGED view PROVE Posted'
  <2>1. UNCHANGED <<link, toBroker, subscriptions, list, todo>>
    BY <1>14 DEF Publish, Fetch!BrokerPublishes
  <2>2. link = "up" \/ UNCHANGED toPage
    BY <1>14 DEF Publish, Fetch!BrokerPublishes
  <2> QED  BY <2>1, <2>2, PostedElsewhere DEF Posted
<1>15. CASE PublishTitle
  BY <1>14, <1>15 DEF PublishTitle
<1>16. ASSUME NEW a \in Articles, Bid(a) PROVE Posted'
  BY <1>14, <1>16 DEF Bid
<1>17. ASSUME NEW a \in Articles, NEW t \in Titles, SetTitle(a, t) PROVE Posted'
  BY <1>17 DEF SetTitle, Posted, Awaits
<1> QED
  BY <1>1, <1>2, <1>3, <1>4, <1>5, <1>6, <1>7, <1>8, <1>9, <1>10, <1>11, <1>12, <1>13, <1>15,
     <1>16, <1>17 DEF Next

-----------------------------------------------------------------------------
(* Answers and what is shown                                               *)

(* Nothing is shown at first.                                              *)
LEMMA PlacedInit == Init => Placed
<1> SUFFICES ASSUME Init PROVE Placed
  OBVIOUS
<1>1. toPage = <<>>
  BY DEF Init, Fetch!Init
<1>2. DOMAIN list = {} /\ detail = None /\ unheard = {}
  BY DEF Init
<1> QED  BY <1>1, <1>2 DEF Placed

(* What was asked for is not asked anew by the next call.                  *)
LEMMA CallsStay ==
  ASSUME Types, Numbered, NEW v, asked' = Append(asked, v)
  PROVE  \A i \in DOMAIN toPage :
           IsAnswer(toPage[i]) => asked'[toPage[i].call] = asked[toPage[i].call]
<1>1. \A c \in DOMAIN asked : asked'[c] = asked[c]
  BY DEF Types
<1> QED  BY <1>1 DEF Numbered, Answers, Belongs

(* Taking a packet leaves the remaining ones placed.                       *)
LEMMA PlacedTaking ==
  ASSUME Types, Placed, UNCHANGED <<asked, subscriptions, listed, unheard>>,
         toPage # <<>>, toPage' = Tail(toPage),
         detail' # None => /\ Topics \subseteq subscriptions
                          /\ detail' \in Detail /\ detail'.class = detail'.article,
         ~listed => DOMAIN list' = {}
  PROVE  Placed'
<1>1. \A i \in DOMAIN toPage' : i + 1 \in DOMAIN toPage /\ toPage'[i] = toPage[i + 1]
  BY TakeFirst DEF Types
<1> QED  BY <1>1 DEF Placed

(* A further packet does too, if it comes where an answer may.             *)
LEMMA PlacedPutting ==
  ASSUME Types, Placed, UNCHANGED <<asked, detail, list>>, subscriptions \subseteq subscriptions',
         NEW p \in ToPage, toPage' = Append(toPage, p),
         IsAnswer(p) /\ asked[p.call] # All => Topics \subseteq subscriptions,
         ~listed' => ~listed /\ unheard' = {} /\ (IsAnswer(p) => asked[p.call] # All)
  PROVE  Placed'
<1>1. \A i \in DOMAIN toPage' : (i \in DOMAIN toPage /\ toPage'[i] = toPage[i]) \/ toPage'[i] = p
  BY PutLast DEF Types
<1> QED  BY <1>1 DEF Placed

(* Once the page is subscribed to everything, it may ask for an article.   *)
LEMMA AnswerIsPlaced ==
  ASSUME Types, Numbered, Posted, Fetch!Handles("request"), Head(toBroker).body # All
  PROVE  Topics \subseteq subscriptions
<1>1. toBroker # <<>> /\ Head(toBroker).kind = "request"
  BY Handled
<1>2. 1 \in DOMAIN toBroker /\ Head(toBroker) = toBroker[1] /\ DOMAIN toBroker \subseteq Nat
      /\ \A i \in DOMAIN toBroker : i <= 1 => i = 1
  BY <1>1, TakeFirst DEF Types
<1>3. \A t \in Topics : Awaits(t, 1)
  BY <1>1, <1>2 DEF Posted, Request
<1> QED  BY <1>1, <1>2, <1>3 DEF Awaits, Subscribing

(* The answer the broker puts on the way.                                  *)
LEMMA BrokerPuts ==
  ASSUME Types, Numbered, NEW v \in Item \cup [Articles -> Item], Fetch!BrokerAnswers(v)
  PROVE  \E p \in ToPage : /\ toPage' = Append(toPage, p) /\ IsAnswer(p) /\ p.body = v
                           /\ p.call \in DOMAIN asked /\ asked[p.call] = Head(toBroker).body
<1>1. Head(toBroker) \in ToBroker /\ Request(Head(toBroker)) /\ toBroker # <<>>
  BY Handled DEF Fetch!BrokerAnswers, Request
<1> DEFINE p == [kind |-> "answer", nr |-> Head(toBroker).nr, call |-> Head(toBroker).call,
                 body |-> v]
<1>2. p \in ToPage /\ IsAnswer(p) /\ p.body = v /\ toPage' = Append(toPage, p)
  BY <1>1, Kinds DEF ToPage, Answer, IsAnswer, Fetch!BrokerAnswers
<1>3. Asks(asked, Head(toBroker))
  BY <1>1, TakeFirst DEF Types, Numbered
<1>4. p.call \in DOMAIN asked /\ asked[p.call] = Head(toBroker).body
  BY <1>1, <1>3 DEF Asks, Belongs
<1> QED  BY <1>2, <1>4

(* So does a publication.                                                  *)
LEMMA PublishPlaced ==
  ASSUME Types, Placed, NEW t, NEW v, [kind |-> "notice", topic |-> t, body |-> v] \in Notice,
         Publish(t, v), UNCHANGED <<listed, view>>
  PROVE  Placed'
<1> DEFINE p == [kind |-> "notice", topic |-> t, body |-> v]
<1>1. p \in ToPage /\ ~IsAnswer(p)
  BY DEF ToPage, IsAnswer
<1>2. ~listed => unheard' = {}
  BY DEF Publish, Placed
<1>3. CASE Fetch!BrokerPublishes(t, v)
  <2>1. toPage' = Append(toPage, p) /\ UNCHANGED subscriptions
    BY <1>3 DEF Fetch!BrokerPublishes
  <2> QED  BY <1>1, <1>2, <2>1, PlacedPutting DEF view
<1>4. CASE UNCHANGED fetch
  BY <1>2, <1>4 DEF fetch, view, Placed
<1> QED  BY <1>3, <1>4 DEF Publish

(* Every step of the page, of the broker and of the store keeps Placed.    *)
LEMMA PlacedStep == Types /\ Numbered /\ Posted /\ Placed /\ [Next]_vars => Placed'
<1> SUFFICES ASSUME Types, Numbered, Posted, Placed, [Next]_vars PROVE Placed'
  OBVIOUS
<1> USE DEF fetch, database, view, Fetch!page, Fetch!wire
<1>1. CASE UNCHANGED vars
  BY <1>1 DEF vars, Placed
<1>2. CASE Connect
  BY <1>2 DEF Connect, Fetch!ConnectSucceeds, Placed
<1>3. CASE SetStatusCallback
  BY <1>3 DEF SetStatusCallback, Fetch!SetStatusCallback, Placed
<1>4. CASE AskForList
  <2>1. asked' = Append(asked, All)
    BY <1>4 DEF AskForList
  <2> QED  BY <1>4, <2>1, CallsStay DEF AskForList, Fetch!Send, Fetch!Enter, Placed
<1>5. CASE MakeList
  <2>1. toPage # <<>> /\ toPage' = Tail(toPage) /\ UNCHANGED subscriptions
    BY <1>5, Takes DEF MakeList, Fetch!RxAnswer
  <2>2. asked[toPage[1].call] = All /\ 1 \in DOMAIN toPage /\ IsAnswer(toPage[1])
    BY <1>5, AnswerIs DEF MakeList
  <2>3. listed
    BY <2>2 DEF Placed
  <2> QED  BY <1>5, <2>1, <2>3, PlacedTaking DEF MakeList, Placed
<1>6. CASE SetNextCallback
  BY <1>6 DEF SetNextCallback, Fetch!SetCallback, Placed
<1>7. CASE Show
  <2>1. toPage # <<>> /\ toPage' = Tail(toPage) /\ UNCHANGED subscriptions
    BY <1>7, Takes DEF Show, Fetch!RxAnswer
  <2>2. /\ Answered = asked[toPage[1].call] /\ 1 \in DOMAIN toPage /\ IsAnswer(toPage[1])
        /\ Answered \in Articles /\ Head(toPage).body \in Item
    BY <1>7, AnswerIs DEF Show
  <2>3. Topics \subseteq subscriptions
    BY <1>7, <2>2 DEF Show, Placed
  <2>4. detail' \in Detail /\ detail'.class = detail'.article
    BY <1>7, <2>2 DEF Show, Detail, Item
  <2> QED  BY <1>7, <2>1, <2>3, <2>4, PlacedTaking DEF Show, Placed
<1>8. CASE FetchOnly
  <2>1. UNCHANGED <<asked, subscriptions, listed, unheard, detail, list>>
    BY <1>8, Takes DEF FetchOnly, Fetch!RxDiscard, Fetch!RxAcknowledgement, Fetch!Resume,
                       Fetch!Timeout
  <2>2. (toPage # <<>> /\ toPage' = Tail(toPage)) \/ UNCHANGED toPage
    BY <1>8, Takes DEF FetchOnly, Fetch!RxDiscard, Fetch!RxAcknowledgement, Fetch!Resume,
                       Fetch!Timeout
  <2>3. CASE UNCHANGED toPage
    BY <2>1, <2>3 DEF Placed
  <2> QED  BY <2>1, <2>2, <2>3, PlacedTaking DEF Placed
<1>9. ASSUME NEW a \in Articles, Click(a) PROVE Placed'
  <2>1. asked' = Append(asked, a)
    BY <1>9 DEF Click
  <2> QED  BY <1>9, <2>1, CallsStay DEF Click, Fetch!Send, Fetch!Enter, Placed
<1>10. ASSUME NEW a \in Articles, RxBid(a) PROVE Placed'
  <2>1. /\ toPage # <<>> /\ toPage' = Tail(toPage) /\ UNCHANGED subscriptions
        /\ Head(toPage) \in ToPage /\ IsNotice(Head(toPage))
    BY <1>10, Takes DEF RxBid, Fetch!RxNotice, IsNotice
  <2>2. DOMAIN list' = DOMAIN list
    BY <1>10, ListDomain DEF RxBid
  <2>3. Head(toPage).body \in Nat
    BY <1>10, <2>1, NoticeIs, Kinds DEF RxBid
  <2>4. ASSUME detail' # None
        PROVE  /\ Topics \subseteq subscriptions
               /\ detail' \in Detail /\ detail'.class = detail'.article
    <3>1. CASE UNCHANGED detail
      BY <2>4, <3>1 DEF Placed
    <3>2. CASE detail # None /\ detail' = [detail EXCEPT !.bid = Head(toPage).body]
      <4>1. Topics \subseteq subscriptions /\ detail \in Detail /\ detail.class = detail.article
        BY <3>2 DEF Placed
      <4> QED  BY <2>3, <3>2, <4>1 DEF Detail
    <3> QED  BY <1>10, <3>1, <3>2 DEF RxBid
  <2> QED  BY <1>10, <2>1, <2>2, <2>4, PlacedTaking DEF RxBid, Placed
<1>11. ASSUME NEW a \in Articles, RxTitle(a) PROVE Placed'
  <2>1. toPage # <<>> /\ toPage' = Tail(toPage) /\ UNCHANGED subscriptions
    BY <1>11, Takes DEF RxTitle, Fetch!RxNotice
  <2>2. DOMAIN list' = DOMAIN list
    BY <1>11, ListDomain DEF RxTitle
  <2> QED  BY <1>11, <2>1, <2>2, PlacedTaking DEF RxTitle, Placed
<1>12. CASE Subscribe
  <2>1. Head(toBroker).topic \in Topics \cup {Replies}
    BY <1>12, Handled, Kinds DEF Subscribe, Fetch!BrokerSubscribes
  <2> DEFINE p == [kind |-> "subscribed", topic |-> Head(toBroker).topic]
  <2>2. p \in ToPage /\ ~IsAnswer(p)
    BY <2>1 DEF ToPage, Fetch!Acknowledgement, IsAnswer
  <2>3. toPage' = Append(toPage, p) /\ subscriptions \subseteq subscriptions'
    BY <1>12 DEF Subscribe, Fetch!BrokerSubscribes
  <2> QED  BY <1>12, <2>2, <2>3, PlacedPutting DEF Subscribe, Placed
<1>13. CASE AnswerList
  <2>1. [a \in Articles |-> Stored(a)] \in [Articles -> Item]
    BY DEF Stored, Item, Types
  <2>2. PICK p \in ToPage : toPage' = Append(toPage, p) /\ IsAnswer(p) /\ asked[p.call] = All
    BY <1>13, <2>1, BrokerPuts DEF AnswerList
  <2> QED  BY <1>13, <2>2, PlacedPutting DEF AnswerList, Fetch!BrokerAnswers
<1>14. CASE AnswerArticle
  <2>1. Head(toBroker).body \in Articles
    BY <1>14, Handled, Kinds DEF AnswerArticle, Request
  <2>2. Stored(Head(toBroker).body) \in Item
    BY <2>1 DEF Stored, Item, Types
  <2>3. PICK p \in ToPage : /\ toPage' = Append(toPage, p) /\ IsAnswer(p)
                            /\ asked[p.call] = Head(toBroker).body
    BY <1>14, <2>2, BrokerPuts DEF AnswerArticle
  <2>4. Topics \subseteq subscriptions /\ asked[p.call] # All
    BY <1>14, <2>3, AnswerIsPlaced DEF AnswerArticle
  <2> QED  BY <1>14, <2>3, <2>4, PlacedPutting DEF AnswerArticle, Fetch!BrokerAnswers, Placed
<1>15. CASE PublishTitle
  <2>1. Head(feed) \in [article : Articles, title : Titles]
    BY <1>15, TakeFirst DEF PublishTitle, Types
  <2>2. [kind |-> "notice", topic |-> TitleTopic[Head(feed).article], body |-> Head(feed).title]
          \in Notice
    BY <2>1 DEF Notice
  <2> QED  BY <1>15, <2>2, PublishPlaced DEF PublishTitle
<1>16. ASSUME NEW a \in Articles, Bid(a) PROVE Placed'
  <2>1. [kind |-> "notice", topic |-> BidTopic[a], body |-> price[a] + 1] \in Notice
    BY DEF Notice, Types
  <2> QED  BY <1>16, <2>1, PublishPlaced DEF Bid
<1>17. ASSUME NEW a \in Articles, NEW t \in Titles, SetTitle(a, t) PROVE Placed'
  BY <1>17 DEF SetTitle, Placed
<1> QED
  BY <1>1, <1>2, <1>3, <1>4, <1>5, <1>6, <1>7, <1>8, <1>9, <1>10, <1>11, <1>12, <1>13, <1>14,
     <1>15, <1>16, <1>17 DEF Next

-----------------------------------------------------------------------------
(* The feed                                                                *)

(* No title is in the feed at first.                                       *)
LEMMA InOrderInit == Init => InOrder
BY DEF Init, InOrder

(* A title is set and goes to the end of the feed.                         *)
LEMMA FeedGrows ==
  ASSUME Types, NEW a \in Articles, NEW t \in Titles, SetTitle(a, t)
  PROVE  /\ \A b : \A i : Due(feed, "title", b, i) => Due(feed', "title", b, i)
         /\ \A i \in DOMAIN feed : Due(feed', "title", a, i)
         /\ Due(feed', "title", a, 0)
         /\ \A i \in DOMAIN feed' :
              \/ i \in DOMAIN feed /\ feed'[i] = feed[i]
              \/ feed'[i] = [article |-> a, title |-> t]
         /\ title' = [title EXCEPT ![a] = t] /\ title'[a] = t
<1> DEFINE p == [article |-> a, title |-> t]
<1>1. p \in [article : Articles, title : Titles] /\ feed' = Append(feed, p)
  BY DEF SetTitle
<1>2. /\ Len(feed) \in Nat /\ DOMAIN feed = 1..Len(feed) /\ DOMAIN feed' = 1..(Len(feed) + 1)
      /\ \A i \in DOMAIN feed : i \in DOMAIN feed' /\ feed'[i] = feed[i]
      /\ feed'[Len(feed) + 1] = p
  BY <1>1, PutLast DEF Types
<1>3. \A i : i \in DOMAIN feed \/ i = 0 => Due(feed', "title", a, i)
  BY <1>2 DEF Due
<1>4. title' = [title EXCEPT ![a] = t] /\ title'[a] = t
  BY DEF SetTitle, Types
<1>5. \A b : \A i : Due(feed, "title", b, i) => Due(feed', "title", b, i)
  BY <1>2 DEF Due
<1> QED  BY <1>2, <1>3, <1>4, <1>5

(* The first title of the feed is published.                               *)
LEMMA FeedShrinks ==
  ASSUME Types, feed # <<>>, feed' = Tail(feed)
  PROVE  /\ 1 \in DOMAIN feed /\ Head(feed) = feed[1]
         /\ Head(feed) \in [article : Articles, title : Titles]
         /\ \A i \in DOMAIN feed' : i \in Nat /\ i + 1 \in DOMAIN feed /\ feed'[i] = feed[i + 1]
         /\ \A b : \A i \in Nat : Due(feed, "title", b, i + 1) => Due(feed', "title", b, i)
         /\ \A b : b # feed[1].article /\ Due(feed, "title", b, 0) => Due(feed', "title", b, 0)
<1>1. /\ Len(feed) \in Nat /\ DOMAIN feed = 1..Len(feed) /\ DOMAIN feed' = 1..(Len(feed) - 1)
      /\ 1 \in DOMAIN feed /\ Head(feed) = feed[1]
      /\ Head(feed) \in [article : Articles, title : Titles]
      /\ \A i \in DOMAIN feed' : i + 1 \in DOMAIN feed /\ feed'[i] = feed[i + 1]
  BY TakeFirst DEF Types
<1>2. \A j \in DOMAIN feed : j # 1 => j - 1 \in DOMAIN feed' /\ feed'[j - 1] = feed[j]
  BY <1>1
<1>3. ASSUME NEW b, NEW i \in Nat, Due(feed, "title", b, i + 1) PROVE Due(feed', "title", b, i)
  <2>1. PICK j \in DOMAIN feed : i + 1 < j /\ feed[j].article = b
    BY <1>3 DEF Due
  <2>2. j - 1 \in DOMAIN feed' /\ feed'[j - 1] = feed[j] /\ i < j - 1
    BY <1>1, <1>2, <2>1
  <2> QED  BY <2>1, <2>2 DEF Due
<1>4. ASSUME NEW b, b # feed[1].article, Due(feed, "title", b, 0) PROVE Due(feed', "title", b, 0)
  <2>1. PICK j \in DOMAIN feed : feed[j].article = b
    BY <1>4 DEF Due
  <2>2. j - 1 \in DOMAIN feed' /\ feed'[j - 1] = feed[j] /\ 0 < j - 1
    BY <1>1, <1>2, <1>4, <2>1
  <2> QED  BY <2>1, <2>2 DEF Due
<1>5. \A i \in DOMAIN feed' : i \in Nat
  BY <1>1
<1> QED  BY <1>1, <1>3, <1>4, <1>5

(* Titles are only set and published.                                      *)
LEMMA FeedChanges ==
  ASSUME [Next]_vars
  PROVE  \/ UNCHANGED <<feed, title>>
         \/ PublishTitle
         \/ \E a \in Articles, t \in Titles : SetTitle(a, t)
<1> USE DEF database
<1>1. CASE UNCHANGED vars
  BY <1>1 DEF vars
<1>2. CASE Connect \/ SetStatusCallback \/ AskForList \/ MakeList \/ SetNextCallback \/ Show
  BY <1>2 DEF Connect, SetStatusCallback, AskForList, MakeList, SetNextCallback, Show
<1>3. CASE FetchOnly \/ Subscribe \/ AnswerList \/ AnswerArticle
  BY <1>3 DEF FetchOnly, Subscribe, AnswerList, AnswerArticle
<1>4. ASSUME NEW a \in Articles, Click(a) \/ RxBid(a) \/ RxTitle(a) \/ Bid(a)
      PROVE  UNCHANGED <<feed, title>>
  BY <1>4 DEF Click, RxBid, RxTitle, Bid
<1> QED  BY <1>1, <1>2, <1>3, <1>4 DEF Next

(* Every step keeps the last title of the feed the stored one.             *)
LEMMA InOrderStep == Types /\ InOrder /\ [Next]_vars => InOrder'
<1> SUFFICES ASSUME Types, InOrder, [Next]_vars PROVE InOrder'
  OBVIOUS
<1>1. CASE UNCHANGED <<feed, title>>
  BY <1>1 DEF InOrder
<1>2. CASE PublishTitle
  <2>1. feed # <<>> /\ feed' = Tail(feed) /\ UNCHANGED title
    BY <1>2 DEF PublishTitle
  <2> QED  BY <2>1, FeedShrinks DEF InOrder
<1>3. ASSUME NEW a \in Articles, NEW t \in Titles, SetTitle(a, t) PROVE InOrder'
  <2>1. ASSUME NEW i \in DOMAIN feed'
        PROVE  Due(feed', "title", feed'[i].article, i)
               \/ feed'[i].title = title'[feed'[i].article]
    <3>1. CASE feed'[i] = [article |-> a, title |-> t]
      BY <1>3, <3>1, FeedGrows
    <3>2. CASE i \in DOMAIN feed /\ feed'[i] = feed[i]
      <4>1. feed[i].article # a => title'[feed[i].article] = title[feed[i].article]
        <5>1. title' = [title EXCEPT ![a] = t]
          BY <1>3, FeedGrows
        <5>2. feed[i] \in [article : Articles, title : Titles] /\ title \in [Articles -> Titles]
          <6>1. /\ feed \in Seq([article : Articles, title : Titles])
                /\ title \in [Articles -> Titles] /\ i \in DOMAIN feed
            BY <3>2 DEF Types
          <6> QED  BY <6>1, ElementOf
        <5>3. feed[i].article \in Articles
          BY <5>2
        <5> QED  BY <5>1, <5>2, <5>3
      <4>2. CASE feed[i].article = a
        BY <1>3, <3>2, <4>2, FeedGrows
      <4>3. CASE feed[i].article # a
        BY <1>3, <3>2, <4>1, <4>3, FeedGrows DEF InOrder
      <4> QED  BY <4>2, <4>3
    <3> QED  BY <1>3, <2>1, <3>1, <3>2, FeedGrows
  <2> QED  BY <2>1 DEF InOrder
<1> QED  BY <1>1, <1>2, <1>3, FeedChanges

-----------------------------------------------------------------------------
(* Prices and titles                                                       *)

(* A topic tells of one field of one article.                              *)
LEMMA TopicsApart ==
  \A f, g \in Fields, a, b \in Articles :
    /\ TopicOf(f, a) \in Topics
    /\ TopicOf(f, a) = TopicOf(g, b) => f = g /\ a = b
BY AuctionPageAssumption DEF Fields, TopicOf, Topics

(* Nothing is shown or under way at first.                                 *)
LEMMA FreshInit == Init => Fresh
<1> SUFFICES ASSUME Init PROVE Fresh
  OBVIOUS
<1>1. toPage = <<>>
  BY DEF Init, Fetch!Init
<1>2. DOMAIN list = {} /\ detail = None
  BY DEF Init
<1> QED  BY <1>1, <1>2 DEF Fresh

(* Behind one packet, and with one more at the end.                        *)
LEMMA NewsTaken ==
  ASSUME Types, toPage # <<>>, toPage' = Tail(toPage), NEW t
  PROVE  /\ \A i \in Nat : News(toPage, t, i + 1) => News(toPage', t, i)
         /\ News(toPage, t, 0) =>
              News(toPage', t, 0) \/ (IsNotice(toPage[1]) /\ toPage[1].topic = t)
<1>1. /\ DOMAIN toPage \subseteq Nat /\ \A j \in DOMAIN toPage : j >= 1
      /\ \A j \in DOMAIN toPage : j # 1 => j - 1 \in DOMAIN toPage' /\ toPage'[j - 1] = toPage[j]
  BY TakeFirst DEF Types
<1>2. ASSUME NEW i \in Nat, News(toPage, t, i + 1) PROVE News(toPage', t, i)
  <2>1. PICK j \in DOMAIN toPage : i + 1 < j /\ IsNotice(toPage[j]) /\ toPage[j].topic = t
    BY <1>2 DEF News
  <2>2. j - 1 \in DOMAIN toPage' /\ toPage'[j - 1] = toPage[j] /\ i < j - 1
    BY <1>1, <2>1
  <2> QED  BY <2>1, <2>2 DEF News
<1>3. ASSUME News(toPage, t, 0)
      PROVE  News(toPage', t, 0) \/ (IsNotice(toPage[1]) /\ toPage[1].topic = t)
  <2>1. PICK j \in DOMAIN toPage : IsNotice(toPage[j]) /\ toPage[j].topic = t
    BY <1>3 DEF News
  <2>2. CASE j # 1
    <3>1. j - 1 \in DOMAIN toPage' /\ toPage'[j - 1] = toPage[j] /\ 0 < j - 1
      BY <1>1, <2>1, <2>2
    <3> QED  BY <2>1, <3>1 DEF News
  <2> QED  BY <2>1, <2>2
<1> QED  BY <1>2, <1>3

(* A further packet takes no news away, and may be news.                   *)
LEMMA NewsPut ==
  ASSUME Types, NEW p \in ToPage, toPage' = Append(toPage, p), NEW t, NEW i,
         News(toPage, t, i) \/ (IsNotice(p) /\ p.topic = t /\ i \in 0..Len(toPage))
  PROVE  News(toPage', t, i)
<1>1. /\ Len(toPage) \in Nat /\ DOMAIN toPage' = 1..(Len(toPage) + 1)
      /\ toPage'[Len(toPage) + 1] = p
      /\ \A j \in DOMAIN toPage : j \in DOMAIN toPage' /\ toPage'[j] = toPage[j]
  BY PutLast DEF Types
<1> QED  BY <1>1 DEF News

(* A packet is taken; what is shown afterwards was shown before, and the   *)
(* packet is no news of it, or it is what the packet tells.                *)
LEMMA FreshTaking ==
  ASSUME Types, Fresh, UNCHANGED <<asked, unheard, feed, price, title>>,
         toPage # <<>>, toPage' = Tail(toPage),
         \A f \in Fields, a \in Articles :
           a \in DOMAIN list' /\ TopicOf(f, a) \notin unheard =>
             \/ /\ a \in DOMAIN list /\ list'[a][f] = list[a][f]
                /\ ~(IsNotice(toPage[1]) /\ toPage[1].topic = TopicOf(f, a))
             \/ /\ Tells(asked, unheard, toPage[1], f, a)
                /\ list'[a][f] = ValueIn(asked, toPage[1], f, a),
         \A a \in Articles :
           detail' # None /\ detail'.article = a =>
             \/ /\ detail # None /\ detail.article = a /\ detail'.bid = detail.bid
                /\ ~(IsNotice(toPage[1]) /\ toPage[1].topic = TopicOf("bid", a))
             \/ /\ Tells(asked, unheard, toPage[1], "bid", a)
                /\ detail'.bid = ValueIn(asked, toPage[1], "bid", a)
  PROVE  Fresh'
<1>1. /\ 1 \in DOMAIN toPage
      /\ \A i \in DOMAIN toPage' :
           i \in Nat /\ i + 1 \in DOMAIN toPage /\ toPage'[i] = toPage[i + 1]
  BY TakeFirst DEF Types
<1>2. ASSUME NEW f, NEW a, NEW i \in Nat, NEW v, NEW w, Current(toPage, feed, f, a, i + 1, v, w)
      PROVE  Current(toPage', feed, f, a, i, v, w)
  BY <1>2, NewsTaken DEF Current
<1>3. ASSUME NEW f, NEW a, NEW v, NEW w, Current(toPage, feed, f, a, 0, v, w),
             ~(IsNotice(toPage[1]) /\ toPage[1].topic = TopicOf(f, a))
      PROVE  Current(toPage', feed, f, a, 0, v, w)
  BY <1>3, NewsTaken DEF Current
<1>4. ASSUME NEW f \in Fields, NEW a \in Articles, Tells(asked, unheard, toPage[1], f, a)
      PROVE  Current(toPage', feed, f, a, 0, ValueIn(asked, toPage[1], f, a), Value(f, a))
  <2>1. Current(toPage, feed, f, a, 0 + 1, ValueIn(asked, toPage[1], f, a), Value(f, a))
    BY <1>1, <1>4 DEF Fresh
  <2> QED  BY <1>2, <2>1
<1>5. \A f, a : Value(f, a)' = Value(f, a)
  BY DEF Value
<1> SUFFICES ASSUME NEW f \in Fields, NEW a \in Articles
    PROVE /\ \A i \in DOMAIN toPage' :
                Tells(asked, unheard, toPage'[i], f, a) =>
                  Current(toPage', feed, f, a, i, ValueIn(asked, toPage'[i], f, a), Value(f, a))
          /\ a \in DOMAIN list' /\ TopicOf(f, a) \notin unheard =>
                Current(toPage', feed, f, a, 0, list'[a][f], Value(f, a))
          /\ detail' # None /\ detail'.article = a /\ f = "bid" =>
                Current(toPage', feed, f, a, 0, detail'.bid, Value(f, a))
  BY <1>5 DEF Fresh
<1>6. ASSUME NEW i \in DOMAIN toPage', Tells(asked, unheard, toPage'[i], f, a)
      PROVE  Current(toPage', feed, f, a, i, ValueIn(asked, toPage'[i], f, a), Value(f, a))
  <2>1. i \in Nat /\ i + 1 \in DOMAIN toPage /\ toPage'[i] = toPage[i + 1]
    BY <1>1
  <2>2. Current(toPage, feed, f, a, i + 1, ValueIn(asked, toPage[i + 1], f, a), Value(f, a))
    BY <1>6, <2>1 DEF Fresh
  <2> QED  BY <1>2, <2>1, <2>2
<1>7. ASSUME a \in DOMAIN list', TopicOf(f, a) \notin unheard
      PROVE  Current(toPage', feed, f, a, 0, list'[a][f], Value(f, a))
  <2>1. CASE /\ a \in DOMAIN list /\ list'[a][f] = list[a][f]
             /\ ~(IsNotice(toPage[1]) /\ toPage[1].topic = TopicOf(f, a))
    <3>1. Current(toPage, feed, f, a, 0, list[a][f], Value(f, a))
      BY <1>7, <2>1 DEF Fresh
    <3> QED  BY <1>3, <2>1, <3>1
  <2>2. CASE /\ Tells(asked, unheard, toPage[1], f, a)
             /\ list'[a][f] = ValueIn(asked, toPage[1], f, a)
    BY <1>4, <2>2
  <2> QED  BY <1>7, <2>1, <2>2
<1>8. ASSUME detail' # None, detail'.article = a, f = "bid"
      PROVE  Current(toPage', feed, f, a, 0, detail'.bid, Value(f, a))
  <2>1. CASE /\ detail # None /\ detail.article = a /\ detail'.bid = detail.bid
             /\ ~(IsNotice(toPage[1]) /\ toPage[1].topic = TopicOf("bid", a))
    <3>1. Current(toPage, feed, f, a, 0, detail.bid, Value(f, a))
      BY <1>8, <2>1 DEF Fresh
    <3> QED  BY <1>3, <1>8, <2>1, <3>1
  <2>2. CASE /\ Tells(asked, unheard, toPage[1], "bid", a)
             /\ detail'.bid = ValueIn(asked, toPage[1], "bid", a)
    BY <1>4, <1>8, <2>2
  <2> QED  BY <1>8, <2>1, <2>2
<1> QED  BY <1>6, <1>7, <1>8

(* Nothing that is shown or told of changes.                               *)
LEMMA FreshKept ==
  ASSUME Types, Numbered, Fresh, UNCHANGED <<toPage, unheard, feed, price, title, list, detail>>,
         \/ UNCHANGED asked
         \/ \E v : asked' = Append(asked, v)
  PROVE  Fresh'
<1>1. \A i \in DOMAIN toPage :
        IsAnswer(toPage[i]) => asked'[toPage[i].call] = asked[toPage[i].call]
  BY CallsStay
<1>2. \A f, a : Value(f, a)' = Value(f, a)
  BY DEF Value
<1>3. \A i \in DOMAIN toPage : IsAnswer(toPage[i]) \/ IsNotice(toPage[i]) =>
        \A f, a : /\ Tells(asked', unheard, toPage[i], f, a)
                       <=> Tells(asked, unheard, toPage[i], f, a)
                  /\ ValueIn(asked', toPage[i], f, a) = ValueIn(asked, toPage[i], f, a)
  BY <1>1 DEF Tells, ValueIn, IsAnswer, IsNotice
<1>4. \A i \in DOMAIN toPage : \A c, f, a :
        Tells(c, unheard, toPage[i], f, a) => IsAnswer(toPage[i]) \/ IsNotice(toPage[i])
  BY DEF Tells
<1> QED  BY <1>2, <1>3, <1>4 DEF Fresh

(* The broker puts a packet on the way, which tells what is stored.        *)
LEMMA FreshPutting ==
  ASSUME Types, Fresh, UNCHANGED <<asked, unheard, feed, price, title, list, detail>>,
         NEW p \in ToPage, toPage' = Append(toPage, p),
         \A f \in Fields, a \in Articles :
           Tells(asked, unheard, p, f, a) => ValueIn(asked, p, f, a) = Value(f, a)
  PROVE  Fresh'
<1>1. \A i \in DOMAIN toPage' : (i \in DOMAIN toPage /\ toPage'[i] = toPage[i]) \/ toPage'[i] = p
  BY PutLast DEF Types
<1>2. \A f, a, i, v, w :
        Current(toPage, feed, f, a, i, v, w) => Current(toPage', feed, f, a, i, v, w)
  BY NewsPut DEF Current
<1>3. \A f, a : Value(f, a)' = Value(f, a)
  BY DEF Value
<1>4. ASSUME NEW f \in Fields, NEW a \in Articles, NEW i \in DOMAIN toPage',
             Tells(asked, unheard, toPage'[i], f, a)
      PROVE  Current(toPage', feed, f, a, i, ValueIn(asked, toPage'[i], f, a), Value(f, a))
  <2>1. CASE i \in DOMAIN toPage /\ toPage'[i] = toPage[i]
    <3>1. Current(toPage, feed, f, a, i, ValueIn(asked, toPage[i], f, a), Value(f, a))
      BY <1>4, <2>1 DEF Fresh
    <3> QED  BY <1>2, <2>1, <3>1
  <2>2. CASE toPage'[i] = p
    BY <1>4, <2>2 DEF Current
  <2> QED  BY <1>1, <1>4, <2>1, <2>2
<1> QED  BY <1>2, <1>3, <1>4 DEF Fresh

(* A value is changed, or comes out of the feed, and is published.         *)
LEMMA FreshPublishing ==
  ASSUME Types, Heeds, Placed, Fresh, NEW g \in Fields, NEW b \in Articles, NEW v,
         [kind |-> "notice", topic |-> TopicOf(g, b), body |-> v] \in Notice,
         Publish(TopicOf(g, b), v), UNCHANGED <<listed, view>>,
         \A f \in Fields, a \in Articles : f # g \/ a # b =>
           Value(f, a)' = Value(f, a) /\ (Due(feed, f, a, 0) => Due(feed', f, a, 0)),
         v = Value(g, b)' \/ Due(feed', g, b, 0)
  PROVE  Fresh'
<1> DEFINE t == TopicOf(g, b)
           p == [kind |-> "notice", topic |-> t, body |-> v]
<1>1. p \in ToPage /\ IsNotice(p)
  BY DEF ToPage, IsNotice
<1>2. UNCHANGED <<asked, list, detail>>
  BY DEF view
<1>3. \A f \in Fields, a \in Articles : f # g \/ a # b => TopicOf(f, a) # t
  BY TopicsApart
<1>4. \A u : u # t => (u \in unheard' <=> u \in unheard)
  BY DEF Publish
<1>5. ASSUME NEW f \in Fields, NEW a \in Articles, f # g \/ a # b
      PROVE  /\ TopicOf(f, a) \in unheard' <=> TopicOf(f, a) \in unheard
             /\ Value(f, a)' = Value(f, a)
             /\ \A q : Tells(asked, unheard', q, f, a) <=> Tells(asked, unheard, q, f, a)
             /\ \A q, i, w, x : Current(q, feed, f, a, i, w, x) => Current(q, feed', f, a, i, w, x)
  BY <1>3, <1>4, <1>5 DEF Tells, Current
<1>6. CASE Fetch!BrokerPublishes(t, v)
  <2>1. toPage' = Append(toPage, p)
    BY <1>6 DEF Fetch!BrokerPublishes
  <2>2. \A i \in DOMAIN toPage' : \/ /\ i \in DOMAIN toPage /\ toPage'[i] = toPage[i]
                                    /\ i \in 0..Len(toPage)
                                 \/ toPage'[i] = p
    <3>1. /\ Len(toPage) \in Nat /\ DOMAIN toPage = 1..Len(toPage)
          /\ DOMAIN toPage' = 1..(Len(toPage) + 1) /\ toPage'[Len(toPage) + 1] = p
          /\ \A i \in DOMAIN toPage : toPage'[i] = toPage[i]
      BY <1>1, <2>1, PutLast DEF Types
    <3> QED  BY <3>1
  <2>3. \A u, i : News(toPage, u, i) => News(toPage', u, i)
    BY <1>1, <2>1, NewsPut
  <2>4. \A i \in 0..Len(toPage) : News(toPage', t, i)
    BY <1>1, <2>1, NewsPut
  <2>5. 0 \in 0..Len(toPage)
    BY DEF Types
  <2>6. \A i, w, x : News(toPage', t, i) => Current(toPage', feed', g, b, i, w, x)
    BY DEF Current
  <2>7. \A f, a, i, w, x :
          Current(toPage, feed', f, a, i, w, x) => Current(toPage', feed', f, a, i, w, x)
    BY <2>3 DEF Current
  <2>8. ASSUME NEW f \in Fields, NEW a \in Articles, NEW i \in DOMAIN toPage',
               Tells(asked, unheard', toPage'[i], f, a)
        PROVE  Current(toPage', feed', f, a, i, ValueIn(asked, toPage'[i], f, a), Value(f, a)')
    <3>1. CASE toPage'[i] = p
      <4>1. f = g /\ a = b
        BY <1>1, <1>3, <2>8, <3>1 DEF Tells, IsAnswer, IsNotice
      <4>2. ValueIn(asked, p, f, a) = v
        BY <1>1 DEF ValueIn
      <4> QED  BY <3>1, <4>1, <4>2 DEF Current
    <3>2. CASE f = g /\ a = b /\ toPage'[i] # p
      BY <2>2, <2>4, <2>6, <3>2
    <3>3. CASE (f # g \/ a # b) /\ toPage'[i] # p
      <4>1. i \in DOMAIN toPage /\ toPage'[i] = toPage[i]
        BY <2>2, <3>3
      <4>2. Current(toPage, feed, f, a, i, ValueIn(asked, toPage[i], f, a), Value(f, a))
        BY <1>5, <2>8, <3>3, <4>1 DEF Fresh
      <4> QED  BY <1>5, <2>7, <3>3, <4>1, <4>2
    <3> QED  BY <3>1, <3>2, <3>3
  <2>9. ASSUME NEW f \in Fields, NEW a \in Articles,
               a \in DOMAIN list, TopicOf(f, a) \notin unheard'
        PROVE  Current(toPage', feed', f, a, 0, list[a][f], Value(f, a)')
    <3>1. CASE f = g /\ a = b
      BY <2>4, <2>5, <2>6, <3>1
    <3>2. CASE f # g \/ a # b
      <4>1. Current(toPage, feed, f, a, 0, list[a][f], Value(f, a))
        BY <1>5, <2>9, <3>2 DEF Fresh
      <4> QED  BY <1>5, <2>7, <3>2, <4>1
    <3> QED  BY <3>1, <3>2
  <2>10. ASSUME NEW f \in Fields, NEW a \in Articles, detail # None, detail.article = a, f = "bid"
         PROVE  Current(toPage', feed', f, a, 0, detail.bid, Value(f, a)')
    <3>1. CASE f = g /\ a = b
      BY <2>4, <2>5, <2>6, <3>1
    <3>2. CASE f # g \/ a # b
      <4>1. Current(toPage, feed, f, a, 0, detail.bid, Value(f, a))
        BY <2>10 DEF Fresh
      <4> QED  BY <1>5, <2>7, <3>2, <4>1
    <3> QED  BY <3>1, <3>2
  <2> QED  BY <1>2, <2>8, <2>9, <2>10 DEF Fresh
<1>7. CASE t \notin subscriptions /\ UNCHANGED fetch
  <2>1. /\ toPage' = toPage /\ t \notin subscriptions
        /\ unheard' = IF listed THEN unheard \cup {t} ELSE unheard
    BY <1>7 DEF Publish, Fetch!BrokerPublishes, fetch
  <2>2. t \in Topics
    BY TopicsApart
  <2>3. detail = None
    BY <2>1, <2>2 DEF Placed
  <2>4. \A i \in DOMAIN toPage : ~Tells(asked, unheard', toPage[i], g, b)
    <3>1. ASSUME NEW i \in DOMAIN toPage, IsNotice(toPage[i]) PROVE toPage[i].topic # t
      BY <2>1, <3>1 DEF Heeds
    <3>2. ASSUME NEW i \in DOMAIN toPage, IsAnswer(toPage[i])
          PROVE  asked[toPage[i].call] = All /\ t \in unheard'
      BY <2>1, <2>2, <3>2 DEF Placed
    <3>3. All # b
      BY AuctionPageAssumption
    <3> QED  BY <3>1, <3>2, <3>3 DEF Tells
  <2>5. DOMAIN list = {} \/ t \in unheard'
    BY <2>1 DEF Placed
  <2>6. ASSUME NEW f \in Fields, NEW a \in Articles, NEW i \in DOMAIN toPage,
               Tells(asked, unheard', toPage[i], f, a)
        PROVE  Current(toPage, feed', f, a, i, ValueIn(asked, toPage[i], f, a), Value(f, a)')
    <3>1. f # g \/ a # b
      BY <2>4, <2>6
    <3>2. Current(toPage, feed, f, a, i, ValueIn(asked, toPage[i], f, a), Value(f, a))
      BY <1>5, <2>6, <3>1 DEF Fresh
    <3> QED  BY <1>5, <3>1, <3>2
  <2>7. ASSUME NEW f \in Fields, NEW a \in Articles,
               a \in DOMAIN list, TopicOf(f, a) \notin unheard'
        PROVE  Current(toPage, feed', f, a, 0, list[a][f], Value(f, a)')
    <3>1. f # g \/ a # b
      BY <2>5, <2>7
    <3>2. Current(toPage, feed, f, a, 0, list[a][f], Value(f, a))
      BY <1>5, <2>7, <3>1 DEF Fresh
    <3> QED  BY <1>5, <3>1, <3>2
  <2> QED  BY <1>2, <2>1, <2>3, <2>6, <2>7 DEF Fresh
<1> QED  BY <1>6, <1>7 DEF Publish

(* A message finds its callback.                                           *)
LEMMA NoticeHeard ==
  ASSUME Types, Heeds, Free, Fetch!RxNotice
  PROVE  /\ Heard /\ toPage # <<>> /\ toPage' = Tail(toPage)
         /\ Head(toPage) = toPage[1] /\ IsNotice(toPage[1]) /\ toPage[1] \in ToPage
<1>1. toPage # <<>> /\ toPage' = Tail(toPage) /\ Head(toPage) \in ToPage /\ IsNotice(Head(toPage))
  BY Takes DEF Fetch!RxNotice, IsNotice
<1>2. /\ Head(toPage) = toPage[1] /\ 1 \in DOMAIN toPage
      /\ \A i \in DOMAIN toPage : i <= 1 => i = 1
  BY <1>1, TakeFirst DEF Types
<1>3. Listens(toPage[1].topic, 1)
  BY <1>1, <1>2 DEF Heeds
<1>4. DOMAIN resumed = {} /\ ~IsConfirmed(toPage[1], toPage[1].topic)
  BY <1>1, <1>2 DEF Free, IsConfirmed, IsNotice
<1>5. toPage[1].topic \in DOMAIN mqtt_topicMap
  BY <1>2, <1>3, <1>4 DEF Listens, Listening
<1> QED  BY <1>1, <1>2, <1>5 DEF Heard

(* Each step that takes an answer or a notice shows what it tells.         *)
LEMMA MakeListFresh ==
  ASSUME Types, Numbered, Fresh, MakeList
  PROVE  Fresh'
<1>1. /\ toPage # <<>> /\ toPage' = Tail(toPage)
      /\ UNCHANGED <<asked, unheard, feed, price, title, detail>>
  BY Takes DEF MakeList, Fetch!RxAnswer, database
<1>2. IsAnswer(toPage[1]) /\ asked[toPage[1].call] = All /\ list' = toPage[1].body
  BY AnswerIs DEF MakeList
<1>3. ~IsNotice(toPage[1])
  BY <1>2 DEF IsAnswer, IsNotice
<1>4. \A f \in Fields, a \in Articles : TopicOf(f, a) \notin unheard =>
        /\ Tells(asked, unheard, toPage[1], f, a)
        /\ list'[a][f] = ValueIn(asked, toPage[1], f, a)
  BY <1>2, <1>3 DEF Tells, ValueIn
<1> QED  BY <1>1, <1>3, <1>4, FreshTaking

(* Showing the answer to get_article leaves everything fresh.              *)
LEMMA ShowFresh ==
  ASSUME Types, Numbered, Fresh, Show
  PROVE  Fresh'
<1>1. /\ toPage # <<>> /\ toPage' = Tail(toPage)
      /\ UNCHANGED <<asked, unheard, feed, price, title, list>>
  BY Takes DEF Show, Fetch!RxAnswer, database
<1>2. /\ IsAnswer(toPage[1]) /\ asked[toPage[1].call] = Answered /\ Answered # All
      /\ detail'.article = Answered /\ detail'.bid = toPage[1].body.bid
  BY AnswerIs DEF Show
<1>3. ~IsNotice(toPage[1])
  BY <1>2 DEF IsAnswer, IsNotice
<1>4. \A a \in Articles : detail'.article = a =>
        /\ Tells(asked, unheard, toPage[1], "bid", a)
        /\ detail'.bid = ValueIn(asked, toPage[1], "bid", a)
  BY <1>2, <1>3 DEF Tells, ValueIn
<1> QED  BY <1>1, <1>3, <1>4, FreshTaking

(* So does the notice of a bid, in the list and the detail view.           *)
LEMMA RxBidFresh ==
  ASSUME Types, Heeds, Placed, Fresh, NEW b \in Articles, RxBid(b)
  PROVE  Fresh'
<1>1. /\ toPage # <<>> /\ toPage' = Tail(toPage) /\ Head(toPage) = toPage[1]
      /\ IsNotice(toPage[1]) /\ Heard /\ toPage[1].topic = TopicOf("bid", b)
      /\ UNCHANGED <<asked, unheard, feed, price, title>>
  BY NoticeHeard DEF RxBid, TopicOf, database
<1>2. \A f \in Fields, a \in Articles :
        toPage[1].topic = TopicOf(f, a) => f = "bid" /\ a = b
  BY <1>1, TopicsApart DEF Fields
<1>3. /\ Tells(asked, unheard, toPage[1], "bid", b)
      /\ ValueIn(asked, toPage[1], "bid", b) = toPage[1].body
  BY <1>1 DEF Tells, ValueIn
<1>4. list' = [list EXCEPT ![b].bid = toPage[1].body]
  BY <1>1 DEF RxBid
<1>5. /\ DOMAIN list' = DOMAIN list
      /\ \A a \in DOMAIN list : list[a] \in Item
  BY <1>4, ListDomain DEF Types
<1>6. ASSUME NEW a \in DOMAIN list, NEW f \in Fields
      PROVE  list'[a][f] = IF a = b /\ f = "bid" THEN toPage[1].body ELSE list[a][f]
  <2>1. CASE a # b
    BY <1>4, <2>1
  <2>2. CASE a = b
    <3>1. list'[a] = [list[a] EXCEPT !.bid = toPage[1].body]
      BY <1>4, <2>2
    <3> QED  BY <1>5, <2>2, <3>1 DEF Item, Fields
  <2> QED  BY <2>1, <2>2
<1>7. ASSUME NEW a \in Articles, detail' # None, detail'.article = a
      PROVE  \/ /\ detail # None /\ detail.article = a /\ detail'.bid = detail.bid
                /\ ~(IsNotice(toPage[1]) /\ toPage[1].topic = TopicOf("bid", a))
             \/ /\ Tells(asked, unheard, toPage[1], "bid", a)
                /\ detail'.bid = ValueIn(asked, toPage[1], "bid", a)
  <2>1. CASE detail # None /\ detail.class = b
    <3>1. detail' = [detail EXCEPT !.bid = toPage[1].body]
      BY <1>1, <2>1 DEF RxBid
    <3>2. detail \in Detail /\ detail.article = b
      BY <2>1 DEF Placed
    <3>3. detail'.article = b /\ detail'.bid = toPage[1].body
      BY <3>1, <3>2 DEF Detail
    <3> QED  BY <1>3, <1>7, <3>3
  <2>2. CASE ~(detail # None /\ detail.class = b)
    <3>1. detail' = detail
      BY <2>2 DEF RxBid
    <3>2. detail.article # b
      BY <1>7, <2>2, <3>1 DEF Placed
    <3> QED  BY <1>2, <1>7, <3>1, <3>2 DEF Fields
  <2> QED  BY <2>1, <2>2
<1>8. ASSUME NEW f \in Fields, NEW a \in Articles, a \in DOMAIN list', TopicOf(f, a) \notin unheard
      PROVE  \/ /\ a \in DOMAIN list /\ list'[a][f] = list[a][f]
                /\ ~(IsNotice(toPage[1]) /\ toPage[1].topic = TopicOf(f, a))
             \/ /\ Tells(asked, unheard, toPage[1], f, a)
                /\ list'[a][f] = ValueIn(asked, toPage[1], f, a)
  BY <1>2, <1>3, <1>5, <1>6, <1>8
<1> QED  BY <1>1, <1>7, <1>8, FreshTaking

(* So does the notice of a title, which changes the list.                  *)
LEMMA RxTitleFresh ==
  ASSUME Types, Heeds, Fresh, NEW b \in Articles, RxTitle(b)
  PROVE  Fresh'
<1>1. /\ toPage # <<>> /\ toPage' = Tail(toPage) /\ Head(toPage) = toPage[1]
      /\ IsNotice(toPage[1]) /\ Heard /\ toPage[1].topic = TopicOf("title", b)
      /\ UNCHANGED <<asked, unheard, feed, price, title, detail>>
  BY NoticeHeard DEF RxTitle, TopicOf, database
<1>2. \A f \in Fields, a \in Articles :
        toPage[1].topic = TopicOf(f, a) => f = "title" /\ a = b
  BY <1>1, TopicsApart DEF Fields
<1>3. /\ Tells(asked, unheard, toPage[1], "title", b)
      /\ ValueIn(asked, toPage[1], "title", b) = toPage[1].body
  BY <1>1 DEF Tells, ValueIn
<1>4. list' = [list EXCEPT ![b].title = toPage[1].body]
  BY <1>1 DEF RxTitle
<1>5. /\ DOMAIN list' = DOMAIN list
      /\ \A a \in DOMAIN list : list[a] \in Item
  BY <1>4, ListDomain DEF Types
<1>6. ASSUME NEW a \in DOMAIN list, NEW f \in Fields
      PROVE  list'[a][f] = IF a = b /\ f = "title" THEN toPage[1].body ELSE list[a][f]
  <2>1. CASE a # b
    BY <1>4, <2>1
  <2>2. CASE a = b
    <3>1. list'[a] = [list[a] EXCEPT !.title = toPage[1].body]
      BY <1>4, <2>2
    <3> QED  BY <1>5, <2>2, <3>1 DEF Item, Fields
  <2> QED  BY <2>1, <2>2
<1>7. \A a \in Articles : ~(IsNotice(toPage[1]) /\ toPage[1].topic = TopicOf("bid", a))
  BY <1>2 DEF Fields
<1>8. ASSUME NEW f \in Fields, NEW a \in Articles, a \in DOMAIN list', TopicOf(f, a) \notin unheard
      PROVE  \/ /\ a \in DOMAIN list /\ list'[a][f] = list[a][f]
                /\ ~(IsNotice(toPage[1]) /\ toPage[1].topic = TopicOf(f, a))
             \/ /\ Tells(asked, unheard, toPage[1], f, a)
                /\ list'[a][f] = ValueIn(asked, toPage[1], f, a)
  BY <1>2, <1>3, <1>5, <1>6, <1>8
<1> QED  BY <1>1, <1>7, <1>8, FreshTaking

(* Each step that changes what is stored has it published, or puts it into *)
(* the feed.                                                               *)
LEMMA BidFresh ==
  ASSUME Types, Heeds, Placed, Fresh, NEW b \in Articles, Bid(b)
  PROVE  Fresh'
<1>1. [kind |-> "notice", topic |-> TopicOf("bid", b), body |-> price[b] + 1] \in Notice
  BY DEF Notice, Types, TopicOf
<1>2. Publish(TopicOf("bid", b), price[b] + 1) /\ UNCHANGED <<listed, view, feed, title>>
  BY DEF Bid, TopicOf
<1>3. price' = [price EXCEPT ![b] = price[b] + 1] /\ price'[b] = price[b] + 1
  BY DEF Bid, Types
<1>4. \A f \in Fields, a \in Articles : f # "bid" \/ a # b =>
        Value(f, a)' = Value(f, a) /\ (Due(feed, f, a, 0) => Due(feed', f, a, 0))
  BY <1>2, <1>3 DEF Value, Fields, Types
<1>5. price[b] + 1 = Value("bid", b)'
  BY <1>3 DEF Value
<1>6. "bid" \in Fields
  BY DEF Fields
<1> QED  BY <1>1, <1>2, <1>4, <1>5, <1>6, FreshPublishing

(* So does the publication of a title, the first of the feed.              *)
LEMMA PublishTitleFresh ==
  ASSUME Types, Heeds, Placed, Fresh, InOrder, PublishTitle
  PROVE  Fresh'
<1>1. /\ feed # <<>> /\ feed' = Tail(feed) /\ Head(feed) = feed[1] /\ 1 \in DOMAIN feed
      /\ feed[1] \in [article : Articles, title : Titles]
  BY FeedShrinks DEF PublishTitle
<1>2. PICK b \in Articles : b = feed[1].article
  BY <1>1
<1>3. PICK v \in Titles : v = feed[1].title
  BY <1>1
<1>4. [kind |-> "notice", topic |-> TopicOf("title", b), body |-> v] \in Notice
  BY DEF Notice, TopicOf
<1>5. Publish(TopicOf("title", b), v) /\ UNCHANGED <<listed, view, price, title>>
  BY <1>1, <1>2, <1>3 DEF PublishTitle, TopicOf
<1>6. \A f \in Fields, a \in Articles : f # "title" \/ a # b =>
        Value(f, a)' = Value(f, a) /\ (Due(feed, f, a, 0) => Due(feed', f, a, 0))
  <2>1. \A a \in Articles : a # b /\ Due(feed, "title", a, 0) => Due(feed', "title", a, 0)
    BY <1>1, <1>2, FeedShrinks
  <2> QED  BY <1>5, <2>1 DEF Value, Due
<1>7. v = Value("title", b)' \/ Due(feed', "title", b, 0)
  <2>1. Due(feed, "title", b, 0 + 1) \/ v = title[b]
    BY <1>1, <1>2, <1>3 DEF InOrder
  <2>2. Due(feed, "title", b, 0 + 1) => Due(feed', "title", b, 0)
    BY <1>1, FeedShrinks
  <2> QED  BY <1>5, <2>1, <2>2 DEF Value
<1>8. "title" \in Fields
  BY DEF Fields
<1> QED  BY <1>4, <1>5, <1>6, <1>7, <1>8, FreshPublishing

(* So does a change of a title: it is due in the feed.                     *)
LEMMA SetTitleFresh ==
  ASSUME Types, Fresh, NEW b \in Articles, NEW t \in Titles, SetTitle(b, t)
  PROVE  Fresh'
<1>1. UNCHANGED <<asked, unheard, toPage, list, detail, price>>
  BY DEF SetTitle, fetch, view
<1>2. \A f \in Fields, a \in Articles :
        \/ Due(feed', f, a, 0)
        \/ Value(f, a)' = Value(f, a) /\ (Due(feed, f, a, 0) => Due(feed', f, a, 0))
  <2>1. \A a \in Articles : Due(feed, "title", a, 0) => Due(feed', "title", a, 0)
    BY FeedGrows
  <2>2. Due(feed', "title", b, 0)
    BY FeedGrows
  <2>3. title' = [title EXCEPT ![b] = t] /\ title \in [Articles -> Titles]
    BY FeedGrows DEF Types
  <2>4. \A a \in Articles : a # b => title'[a] = title[a]
    BY <2>3
  <2> QED  BY <1>1, <2>1, <2>2, <2>4 DEF Value, Fields, Due
<1>3. \A f \in Fields, a \in Articles : \A q, i, v :
        Current(q, feed, f, a, i, v, Value(f, a)) => Current(q, feed', f, a, i, v, Value(f, a)')
  BY <1>2 DEF Current
<1> QED  BY <1>1, <1>3 DEF Fresh

(* An answer of the broker tells what is stored.                           *)
LEMMA AnswerListFresh ==
  ASSUME Types, Numbered, Fresh, AnswerList
  PROVE  Fresh'
<1>1. [a \in Articles |-> Stored(a)] \in [Articles -> Item]
  BY DEF Stored, Item, Types
<1>2. PICK p \in ToPage :
        /\ toPage' = Append(toPage, p) /\ IsAnswer(p) /\ p.body = [a \in Articles |-> Stored(a)]
        /\ asked[p.call] = All
  BY <1>1, BrokerPuts DEF AnswerList
<1>3. \A f \in Fields, a \in Articles : ValueIn(asked, p, f, a) = Value(f, a)
  BY <1>2 DEF ValueIn, Value, Stored, Fields, IsAnswer, IsNotice
<1> QED  BY <1>2, <1>3, FreshPutting DEF AnswerList, view

(* So does the broker's answer to get_article: it is what is stored.       *)
LEMMA AnswerArticleFresh ==
  ASSUME Types, Numbered, Fresh, AnswerArticle
  PROVE  Fresh'
<1>1. Head(toBroker).body \in Articles
  BY Handled, Kinds DEF AnswerArticle, Request
<1>2. PICK b \in Articles : b = Head(toBroker).body
  BY <1>1
<1>3. Stored(b) \in Item
  BY DEF Stored, Item, Types
<1>4. PICK p \in ToPage : /\ toPage' = Append(toPage, p) /\ IsAnswer(p) /\ p.body = Stored(b)
                          /\ asked[p.call] = b
  BY <1>2, <1>3, BrokerPuts DEF AnswerArticle
<1>5. b # All
  BY AuctionPageAssumption
<1>6. \A f \in Fields, a \in Articles :
        Tells(asked, unheard, p, f, a) => a = b /\ ValueIn(asked, p, f, a) = Value(f, a)
  BY <1>4, <1>5 DEF Tells, ValueIn, Value, Stored, Fields, IsAnswer, IsNotice
<1> QED  BY <1>4, <1>6, FreshPutting DEF AnswerArticle, database, view

(* Every step keeps what is shown and under way fresh.                     *)
LEMMA FreshStep ==
  Types /\ Numbered /\ Heeds /\ Placed /\ InOrder /\ Fresh /\ [Next]_vars => Fresh'
<1> SUFFICES ASSUME Types, Numbered, Heeds, Placed, InOrder, Fresh, [Next]_vars PROVE Fresh'
  OBVIOUS
<1> USE DEF fetch, database, view, Fetch!page, Fetch!wire
<1>1. CASE UNCHANGED vars
  BY <1>1, FreshKept DEF vars
<1>2. CASE Connect
  BY <1>2, FreshKept DEF Connect, Fetch!ConnectSucceeds
<1>3. CASE SetStatusCallback
  BY <1>3, FreshKept DEF SetStatusCallback, Fetch!SetStatusCallback
<1>4. CASE AskForList
  <2>1. asked' = Append(asked, All)
    BY <1>4 DEF AskForList
  <2> QED  BY <1>4, <2>1, FreshKept DEF AskForList, Fetch!Send, Fetch!Enter
<1>5. CASE MakeList
  BY <1>5, MakeListFresh
<1>6. CASE SetNextCallback
  BY <1>6, FreshKept DEF SetNextCallback, Fetch!SetCallback
<1>7. CASE Show
  BY <1>7, ShowFresh
<1>8. CASE FetchOnly
  <2>1. UNCHANGED <<asked, unheard, feed, price, title, list, detail>>
    BY <1>8 DEF FetchOnly
  <2>2. CASE Fetch!RxDiscard \/ Fetch!RxAcknowledgement
    <3>1. /\ toPage # <<>> /\ toPage' = Tail(toPage)
          /\ Head(toPage).kind \in {"answer", "subscribed", "refused", "unsubscribed"}
      BY <2>2, Takes DEF Fetch!RxDiscard, Fetch!RxAcknowledgement
    <3>2. ~IsNotice(toPage[1])
      BY <3>1, TakeFirst DEF Types, IsNotice
    <3> QED  BY <2>1, <3>1, <3>2, FreshTaking
  <2>3. CASE Fetch!Resume \/ Fetch!Timeout
    BY <2>1, <2>3, FreshKept DEF Fetch!Resume, Fetch!Timeout
  <2> QED  BY <1>8, <2>2, <2>3 DEF FetchOnly
<1>9. ASSUME NEW a \in Articles, Click(a) PROVE Fresh'
  BY <1>9, FreshKept DEF Click, Fetch!Send, Fetch!Enter
<1>10. ASSUME NEW a \in Articles, RxBid(a) PROVE Fresh'
  BY <1>10, RxBidFresh
<1>11. ASSUME NEW a \in Articles, RxTitle(a) PROVE Fresh'
  BY <1>11, RxTitleFresh
<1>12. CASE Subscribe
  <2>1. Head(toBroker).topic \in Topics \cup {Replies}
    BY <1>12, Handled, Kinds DEF Subscribe, Fetch!BrokerSubscribes
  <2> DEFINE p == [kind |-> "subscribed", topic |-> Head(toBroker).topic]
  <2>2. p \in ToPage /\ ~IsAnswer(p) /\ ~IsNotice(p)
    BY <2>1 DEF ToPage, Fetch!Acknowledgement, IsAnswer, IsNotice
  <2>3. /\ toPage' = Append(toPage, p)
        /\ UNCHANGED <<asked, unheard, feed, price, title, list, detail>>
    BY <1>12 DEF Subscribe, Fetch!BrokerSubscribes
  <2>4. \A f \in Fields, a \in Articles : ~Tells(asked, unheard, p, f, a)
    BY <2>2 DEF Tells
  <2> QED  BY <2>2, <2>3, <2>4, FreshPutting
<1>13. CASE AnswerList
  BY <1>13, AnswerListFresh
<1>14. CASE AnswerArticle
  BY <1>14, AnswerArticleFresh
<1>15. CASE PublishTitle
  BY <1>15, PublishTitleFresh
<1>16. ASSUME NEW a \in Articles, Bid(a) PROVE Fresh'
  BY <1>16, BidFresh
<1>17. ASSUME NEW a \in Articles, NEW t \in Titles, SetTitle(a, t) PROVE Fresh'
  BY <1>17, SetTitleFresh
<1> QED
  BY <1>1, <1>2, <1>3, <1>4, <1>5, <1>6, <1>7, <1>8, <1>9, <1>10, <1>11, <1>12, <1>13, <1>14,
     <1>15, <1>16, <1>17 DEF Next

-----------------------------------------------------------------------------
(* The page and the database agree in the end                              *)

IInv == Types /\ Numbered /\ Heeds /\ Posted /\ Placed /\ InOrder /\ Fresh

(* What the page shows, or has under way, is what is stored or has news    *)
(* behind it, in every reachable state: the inductive invariant of the     *)
(* page.                                                                   *)
THEOREM FreshInvariant == Spec => []IInv
<1>1. Init => IInv
  BY TypeInit, NumberInit, HeedsInit, PostedInit, PlacedInit, InOrderInit, FreshInit DEF IInv
<1>2. IInv /\ [Next]_vars => IInv'
  BY TypeStep, NumberStep, HeedsStep, PostedStep, PlacedStep, InOrderStep, FreshStep DEF IInv
<1> QED  BY <1>1, <1>2, PTL DEF Spec

(* The detail view always ends up with the price of the article it shows   *)
(* (show and rx_bid, aabay.js), with any number of articles and clicks.    *)
THEOREM DetailShowsPriceCorrect == Spec => []DetailShowsPrice
<1>1. IInv => DetailShowsPrice
  <2> SUFFICES ASSUME IInv, Quiet, detail # None
               PROVE  detail.bid = price[detail.article]
    BY DEF DetailShowsPrice
  <2>1. detail.article \in Articles
    BY DEF IInv, Placed, Detail
  <2>2. "bid" \in Fields
    BY DEF Fields
  <2>3. PICK a \in Articles : a = detail.article
    BY <2>1
  <2>4. Current(toPage, feed, "bid", a, 0, detail.bid, Value("bid", a))
    BY <2>2, <2>3 DEF IInv, Fresh
  <2>5. ~News(toPage, TopicOf("bid", a), 0) /\ ~Due(feed, "bid", a, 0)
    BY DEF Quiet, News, Due
  <2> QED  BY <2>3, <2>4, <2>5 DEF Current, Value
<1> QED  BY <1>1, FreshInvariant, PTL

(* With nothing under way, the list shows what the database holds, but for *)
(* changes published between the answer to get_articles and the            *)
(* subscriptions (make_list, aabay.js).                                    *)
THEOREM ListAgreesCorrect == Spec => []ListAgrees
<1>1. IInv => ListAgrees
  <2> SUFFICES ASSUME IInv, Quiet, NEW a \in DOMAIN list
               PROVE  /\ ~Missed(BidTopic[a]) => list[a].bid = price[a]
                      /\ ~Missed(TitleTopic[a]) => list[a].title = title[a]
    BY DEF ListAgrees
  <2>1. a \in Articles
    BY DEF IInv, Types
  <2>2. Topics \subseteq subscriptions
    BY DEF IInv, Posted, Awaits, Subscribing, Quiet, Free, Range
  <2>3. ASSUME NEW f \in Fields, ~Missed(TopicOf(f, a)) PROVE list[a][f] = Value(f, a)
    <3>1. TopicOf(f, a) \notin unheard
      BY <2>1, <2>2, <2>3, TopicsApart DEF Missed
    <3>2. Current(toPage, feed, f, a, 0, list[a][f], Value(f, a))
      BY <2>1, <3>1 DEF IInv, Fresh
    <3>3. ~News(toPage, TopicOf(f, a), 0) /\ ~Due(feed, f, a, 0)
      BY DEF Quiet, News, Due
    <3> QED  BY <3>2, <3>3 DEF Current
  <2>4. /\ TopicOf("bid", a) = BidTopic[a] /\ Value("bid", a) = price[a]
        /\ TopicOf("title", a) = TitleTopic[a] /\ Value("title", a) = title[a]
        /\ "bid" \in Fields /\ "title" \in Fields
    BY DEF TopicOf, Value, Fields
  <2> QED  BY <2>3, <2>4
<1> QED  BY <1>1, FreshInvariant, PTL
=============================================================================
