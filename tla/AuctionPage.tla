---------------------------- MODULE AuctionPage -----------------------------
(***************************************************************************)
(* The auction page (frontend/aabay.js) on top of its request layer        *)
(* (MqttFetch), with the broker and the database at the other end: the     *)
(* page asks for all articles once, sets callbacks for the price and the   *)
(* title of each, and shows an article when it is clicked; the plugin      *)
(* answers from the database (callback_message, plugin.cpp).               *)
(*                                                                         *)
(* Prices rise by bids, of this page or another, and the new price is      *)
(* published as it is stored (see Bidding); titles are set in the database *)
(* and published some time later, in order (see TitleFeed), as in mode     *)
(* "global": in the others a title may even be published before it is      *)
(* stored.  The broker grants every subscription, as with mosquitto.conf,  *)
(* which lets anybody in and names no access list.  Left out: the lines of *)
(* the page that show the answer to a bid and the status, unknown articles,*)
(* and broken connections.                                                 *)
(***************************************************************************)
EXTENDS Integers, Sequences, Functions

CONSTANTS
  ArticleList,   \* the articles, in the order of nextSibling
  Titles,        \* the titles they are given
  BidTopic, TitleTopic,  \* the two topics of each article
  Replies,       \* as in MqttFetch
  All,           \* the request get_articles, among those that name an article
  None,          \* no article is shown yet
  MaxClicks,     \* bound: articles clicked
  MaxChanges,    \* bound: changes of a price or a title
  MaxInFlight    \* bound, as in MqttFetch

Articles == Range(ArticleList)
Topics == {BidTopic[a] : a \in Articles} \cup {TitleTopic[a] : a \in Articles}

ASSUME AuctionPageAssumption ==
  /\ ArticleList \in Seq(Articles)
  /\ {All, None} \cap Articles = {}
  /\ \A a, b \in Articles : BidTopic[a] # TitleTopic[b]
  /\ \A a, b \in Articles : a # b => BidTopic[a] # BidTopic[b] /\ TitleTopic[a] # TitleTopic[b]
  /\ Replies \notin Topics /\ Topics \cap Int = {}
  /\ MaxClicks \in Nat /\ MaxChanges \in Nat /\ MaxInFlight \in Nat

VARIABLES
  link, loaded, mqtt_topicIndex, mqtt_topicMap, timers, resumed, toBroker, toPage,
  subscriptions, promises, expired, dropped, stray,   \* see MqttFetch
  price, title,  \* ^articles(id): "bid" and "title"
  feed,          \* titles set and not yet published
  asked,         \* what each call of send asks for
  list,          \* the list items: title and bid of an article
  detail,        \* the detail view; class is that of its element "bid"
  todo,          \* topics make_list has still to set a callback for
  changes,       \* how many changes there were
  listed,        \* history: the broker has answered get_articles
  unheard        \* history: topics whose last message, published after
                 \* that, went out before the page had subscribed

Fetch == INSTANCE MqttFetch WITH
  Bodies <- Articles \cup {All}, OnePerFrame <- TRUE, MaxCalls <- MaxClicks + 1,
  refused <- {}

fetch == <<link, loaded, mqtt_topicIndex, mqtt_topicMap, timers, resumed, toBroker, toPage,
           subscriptions, promises, expired, dropped, stray>>
database == <<price, title, feed, changes, listed, unheard>>
view == <<asked, list, detail, todo>>
vars == <<fetch, database, view>>

Init ==
  /\ Fetch!Init
  /\ price = [a \in Articles |-> 0] /\ title \in [Articles -> Titles] /\ feed = <<>>
  /\ asked = <<>> /\ list = [a \in {} |-> 0] /\ detail = None /\ todo = <<>>
  /\ changes = 0 /\ listed = FALSE /\ unheard = {}

-----------------------------------------------------------------------------
(* The page.  A task begins when the one before has come to its end.       *)
Free == todo = <<>> /\ resumed = <<>>

Connect ==
  /\ Fetch!ConnectSucceeds
  /\ UNCHANGED <<database, view>>

(* onload, once init has returned: the status callback, then make_list.    *)
SetStatusCallback ==
  /\ Free /\ -1 \notin DOMAIN mqtt_topicMap
  /\ Fetch!SetStatusCallback
  /\ UNCHANGED <<database, view>>

AskForList ==
  /\ Free /\ -1 \in DOMAIN mqtt_topicMap /\ asked = <<>>
  /\ Fetch!Send(All)
  /\ asked' = <<All>>
  /\ UNCHANGED <<database, list, detail, todo>>

Answered == asked[mqtt_topicMap[Head(toPage).nr]]

(* The callbacks that are set for a list, two for each article.  Mutant:   *)
(* those of titles are not.                                                *)
CallbacksOfBids == [i \in DOMAIN ArticleList |-> BidTopic[ArticleList[i]]]
Callbacks ==
  [i \in 1..2 * Len(ArticleList) |->
     LET a == ArticleList[(i + 1) \div 2]
     IN IF i % 2 = 1 THEN BidTopic[a] ELSE TitleTopic[a]]

MakeList ==
  /\ Free
  /\ Fetch!RxAnswer
  /\ Answered = All
  /\ list' = Head(toPage).body
  /\ todo' = Callbacks
  /\ UNCHANGED <<database, asked, detail>>

SetNextCallback ==
  /\ todo # <<>>
  /\ Fetch!SetCallback(Head(todo))
  /\ todo' = Tail(todo)
  /\ UNCHANGED <<database, asked, list, detail>>

(* show: the click ...                                                     *)
Click(a) ==
  /\ Free /\ a \in DOMAIN list
  /\ Fetch!Send(a)
  /\ asked' = Append(asked, a)
  /\ UNCHANGED <<database, list, detail, todo>>

(* ... and what follows the answer.  Mutant: the class stays.              *)
ShowKeepsClass ==
  /\ Free
  /\ Fetch!RxAnswer
  /\ Answered # All
  /\ LET item == Head(toPage).body
     IN detail' = [article |-> Answered, title |-> item.title, bid |-> item.bid,
                   class |-> IF detail = None THEN Answered ELSE detail.class]
  /\ UNCHANGED <<database, asked, list, todo>>

Show ==
  /\ Free
  /\ Fetch!RxAnswer
  /\ Answered # All
  /\ LET item == Head(toPage).body
     IN detail' = [article |-> Answered, title |-> item.title, bid |-> item.bid,
                   class |-> Answered]
  /\ UNCHANGED <<database, asked, list, todo>>

Heard == Head(toPage).topic \in DOMAIN mqtt_topicMap

(* rx_bid: the price, wherever it is shown.                                *)
RxBid(a) ==
  /\ Free
  /\ Fetch!RxNotice
  /\ Head(toPage).topic = BidTopic[a]
  /\ list' = IF Heard THEN [list EXCEPT ![a].bid = Head(toPage).body] ELSE list
  /\ detail' = IF Heard /\ detail # None /\ detail.class = a
               THEN [detail EXCEPT !.bid = Head(toPage).body] ELSE detail
  /\ UNCHANGED <<database, asked, todo>>

(* rx_title: the title in the list.                                        *)
RxTitle(a) ==
  /\ Free
  /\ Fetch!RxNotice
  /\ Head(toPage).topic = TitleTopic[a]
  /\ list' = IF Heard THEN [list EXCEPT ![a].title = Head(toPage).body] ELSE list
  /\ UNCHANGED <<database, asked, detail, todo>>

(* The other steps of the request layer change nothing that is shown.      *)
FetchOnly ==
  /\ todo = <<>>
  /\ Fetch!RxDiscard \/ Fetch!RxAcknowledgement \/ Fetch!Resume \/ Fetch!Timeout
  /\ UNCHANGED <<database, view>>

-----------------------------------------------------------------------------
(* The broker and the database.                                            *)
Subscribe ==
  /\ Fetch!BrokerSubscribes
  /\ UNCHANGED <<database, view>>

Stored(a) == [title |-> title[a], bid |-> price[a]]

(* get_articles; a title set between its reads is published after it.      *)
AnswerList ==
  /\ Fetch!Handles("request") /\ Head(toBroker).body = All
  /\ Fetch!BrokerAnswers([a \in Articles |-> Stored(a)])
  /\ listed' = TRUE
  /\ UNCHANGED <<price, title, feed, changes, unheard, view>>

(* get_article                                                             *)
AnswerArticle ==
  /\ Fetch!Handles("request") /\ Head(toBroker).body # All
  /\ Fetch!BrokerAnswers(Stored(Head(toBroker).body))
  /\ UNCHANGED <<database, view>>

Publish(t, body) ==
  \/ /\ Fetch!BrokerPublishes(t, body)
     /\ unheard' = unheard \ {t}
  \/ /\ t \notin subscriptions
     /\ unheard' = IF listed THEN unheard \cup {t} ELSE unheard
     /\ UNCHANGED fetch

(* A bid raises the price.                                                 *)
Bid(a) ==
  /\ changes < MaxChanges
  /\ price' = [price EXCEPT ![a] = @ + 1]
  /\ Publish(BidTopic[a], price[a] + 1)
  /\ changes' = changes + 1
  /\ UNCHANGED <<title, feed, listed, view>>

(* A title is set ...                                                      *)
SetTitle(a, t) ==
  /\ changes < MaxChanges
  /\ title' = [title EXCEPT ![a] = t]
  /\ feed' = Append(feed, [article |-> a, title |-> t])
  /\ changes' = changes + 1
  /\ UNCHANGED <<price, listed, unheard, view, fetch>>

(* ... and published by one of the modes of synchronisation.               *)
PublishTitle ==
  /\ feed # <<>>
  /\ Publish(TitleTopic[Head(feed).article], Head(feed).title)
  /\ feed' = Tail(feed)
  /\ UNCHANGED <<price, title, changes, listed, view>>

-----------------------------------------------------------------------------
Next ==
  \/ Connect \/ SetStatusCallback \/ AskForList \/ MakeList \/ SetNextCallback \/ Show
  \/ FetchOnly
  \/ \E a \in Articles : Click(a) \/ RxBid(a) \/ RxTitle(a)
  \/ Subscribe \/ AnswerList \/ AnswerArticle \/ PublishTitle
  \/ \E a \in Articles : Bid(a) \/ \E t \in Titles \ {title[a]} : SetTitle(a, t)

Spec == Init /\ [][Next]_vars

-----------------------------------------------------------------------------
Quiet == Free /\ toBroker = <<>> /\ toPage = <<>> /\ feed = <<>>

(* With nothing under way, the list shows what the database holds.  The    *)
(* exception: the last change of it was published after get_articles had   *)
(* been answered, and before the subscription of its topic (aabay.js:12-28)*)
Missed(t) == t \in unheard /\ t \in subscriptions

ListAgrees ==
  Quiet => \A a \in DOMAIN list :
             /\ ~Missed(BidTopic[a]) => list[a].bid = price[a]
             /\ ~Missed(TitleTopic[a]) => list[a].title = title[a]

(* The detail view always ends up with the price of the article it shows,  *)
(* though one message carries that price and another the article, and the  *)
(* view changes from article to article (aabay.js:39-40,47-49).            *)
DetailShowsPrice ==
  Quiet /\ detail # None => detail.bid = price[detail.article]

(* "Bei der Aenderung des Titels eines Angebots in der Datenbank werden    *)
(* die Daten automatisch auch im Frontend aktualisiert" (README.md:6).     *)
ListShowsTitle ==
  Quiet => \A a \in DOMAIN list : list[a].title = title[a]
=============================================================================
