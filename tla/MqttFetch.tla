----------------------------- MODULE MqttFetch ------------------------------
(***************************************************************************)
(* The request layer of the page, class mqtt_fetch (frontend/mqtt-fetch.js)*)
(* over an MQTT client, with the broker at the other end.  A request goes  *)
(* out under a running number; mqtt_topicMap keeps its resolver under that *)
(* number until the answer or the timeout comes, and callbacks under the   *)
(* topics they are subscribed to and under -1, the status messages.        *)
(*                                                                         *)
(* The page has one thread: messages, timers and clicks are tasks that run *)
(* to their end, and what follows an await runs before the next task.  The *)
(* client hands over all packets of one WebSocket frame in one task        *)
(* (_on_socket_message); OnePerFrame says whether the broker puts each     *)
(* packet into a frame of its own.  Packets keep their order in both       *)
(* directions; when the connection breaks, those under way are lost.       *)
(***************************************************************************)
EXTENDS Integers, Sequences

CONSTANTS
  Topics,        \* topics that callbacks are set for
  Bodies,        \* what requests and messages say
  Replies,       \* the topic filter <prefix><clientId>/to/+
  OnePerFrame,   \* each packet from the broker is a task of its own
  MaxCalls,      \* bound: calls of send
  MaxInFlight    \* bound: packets under way in either direction

ASSUME MqttFetchAssumption ==
  /\ Replies \notin Topics
  /\ Topics \cap Int = {}
  /\ OnePerFrame \in BOOLEAN
  /\ MaxCalls \in Nat /\ MaxInFlight \in Nat

VARIABLES
  link,            \* the connection, see LinkStates
  loaded,          \* the promise of init is resolved: the page goes on
  mqtt_topicIndex, \* the next request number
  mqtt_topicMap,   \* resolvers by number, callbacks by topic or -1
  timers,          \* timers that have not fired
  resumed,         \* continuations of awaits, to run before the next task
  toBroker,        \* packets under way to the broker
  toPage,          \* packets under way to the page
  subscriptions,   \* what the broker has the page subscribed to
  refused,         \* history: topics the broker last refused to subscribe to
  promises,        \* of each call of send: Open, Rejected, or the call
                   \* whose answer resolved it
  expired,         \* history: calls whose timer has fired
  dropped,         \* history: calls whose answer was thrown away
  stray            \* history: a message "that should never happen" came

page == <<loaded, mqtt_topicIndex, mqtt_topicMap, timers, resumed, promises, expired, dropped,
          stray>>
wire == <<link, toBroker, toPage, subscriptions, refused>>
vars == <<page, wire>>

\* "broken": the connection is gone and the client has not noticed.
LinkStates == {"connecting", "up", "broken", "down"}
Connected == link \in {"up", "broken"}

Open == 0
Rejected == -1
Callback == 0      \* what the map holds where it holds no resolver
Status == -1       \* the key of rx_status

Timer == [nr : Nat, call : Nat]
Subscription == [kind : {"subscribe", "unsubscribe"}, topic : Topics \cup {Replies}]
Request == [kind : {"request"}, nr : Nat, call : Nat, body : Bodies]
Answer == [kind : {"answer"}, nr : Nat \cup {Status}, call : Nat, body : Bodies]
Acknowledgement == [kind : {"subscribed", "refused", "unsubscribed"},
                    topic : Topics \cup {Replies}]
Notice == [kind : {"notice"}, topic : Topics, body : Bodies]

TypeOK ==
  /\ link \in LinkStates /\ loaded \in BOOLEAN
  /\ mqtt_topicIndex \in Nat
  /\ DOMAIN mqtt_topicMap \subseteq Nat \cup {Status} \cup Topics
  /\ \A k \in DOMAIN mqtt_topicMap :
       mqtt_topicMap[k] \in IF k \in Nat THEN DOMAIN promises ELSE {Callback}
  /\ timers \subseteq Timer
  /\ resumed \in Seq(Acknowledgement)
  /\ toBroker \in Seq(Subscription \cup Request)
  /\ toPage \in Seq(Answer \cup Acknowledgement \cup Notice)
  /\ subscriptions \subseteq Topics \cup {Replies} /\ refused \subseteq Topics \cup {Replies}
  /\ promises \in Seq({Rejected} \cup Nat)
  /\ expired \subseteq Nat /\ dropped \subseteq Nat /\ stray \in BOOLEAN

Init ==
  /\ link = "connecting" /\ loaded = FALSE
  /\ mqtt_topicIndex = 0 /\ mqtt_topicMap = [k \in {} |-> Callback]
  /\ timers = {} /\ resumed = <<>>
  /\ toBroker = <<>> /\ toPage = <<>> /\ subscriptions = {} /\ refused = {}
  /\ promises = <<>> /\ expired = {} /\ dropped = {} /\ stray = FALSE

(* mqtt_topicMap.set and .delete                                           *)
With(map, k, entry) == [j \in DOMAIN map \cup {k} |-> IF j = k THEN entry ELSE map[j]]
Without(map, k) == [j \in DOMAIN map \ {k} |-> map[j]]

(* A packet leaves the page; on a broken connection it goes nowhere.       *)
Transmit(p) ==
  /\ Len(toBroker) < MaxInFlight
  /\ toBroker' = IF link = "up" THEN Append(toBroker, p) ELSE toBroker

-----------------------------------------------------------------------------
(* init                                                                    *)

(* onSuccess: subscribes to the answers.                                   *)
ConnectSucceeds ==
  /\ link = "connecting"
  /\ link' = "up"
  /\ toBroker' = <<[kind |-> "subscribe", topic |-> Replies]>>
  /\ UNCHANGED <<page, toPage, subscriptions, refused>>

(* onFailure: init resolves to -1, which the page does not look at.        *)
ConnectFails ==
  /\ link = "connecting"
  /\ link' = "down"
  /\ loaded' = TRUE
  /\ UNCHANGED <<mqtt_topicIndex, mqtt_topicMap, timers, resumed, promises, expired, dropped,
                 stray, toBroker, toPage, subscriptions, refused>>

-----------------------------------------------------------------------------
(* send                                                                    *)

Enter(promise) ==
  LET call == Len(promises) + 1
  IN /\ loaded /\ Len(promises) < MaxCalls
     /\ mqtt_topicMap' = With(mqtt_topicMap, mqtt_topicIndex, call)
     /\ timers' = timers \cup {[nr |-> mqtt_topicIndex, call |-> call]}
     /\ promises' = Append(promises, promise)
     /\ UNCHANGED <<loaded, resumed, expired, dropped, stray, link, toPage, subscriptions,
                    refused>>

RequestOf(v) ==
  [kind |-> "request", nr |-> mqtt_topicIndex, call |-> Len(promises) + 1, body |-> v]

(* Mutant of Send: the index stays.                                        *)
SendSameIndex(v) ==
  /\ Connected
  /\ Enter(Open)
  /\ Transmit(RequestOf(v))
  /\ UNCHANGED mqtt_topicIndex

Send(v) ==
  /\ Connected
  /\ Enter(Open)
  /\ Transmit(RequestOf(v))
  /\ mqtt_topicIndex' = mqtt_topicIndex + 1

(* mqtt_client.send throws when it is not connected: the promise is        *)
(* rejected, the entry and its timer stay, and so does the index.          *)
SendThrows ==
  /\ ~Connected
  /\ Enter(Rejected)
  /\ UNCHANGED <<mqtt_topicIndex, toBroker>>

-----------------------------------------------------------------------------
(* set_callback and delete_callback                                        *)

(* A number needs no subscription: nothing is awaited.                     *)
SetStatusCallback ==
  /\ loaded
  /\ mqtt_topicMap' = With(mqtt_topicMap, Status, Callback)
  /\ UNCHANGED <<loaded, mqtt_topicIndex, timers, resumed, promises, expired, dropped, stray, wire>>

(* A topic is subscribed to first; without a connection the client throws  *)
(* and nothing happens.                                                    *)
SetCallback(t) ==
  /\ loaded /\ Connected
  /\ Transmit([kind |-> "subscribe", topic |-> t])
  /\ UNCHANGED <<page, link, toPage, subscriptions, refused>>

(* Mutant of DeleteCallback: the entry goes before the subscription does.  *)
DeleteCallbackFirst(t) ==
  /\ loaded /\ Connected
  /\ Transmit([kind |-> "unsubscribe", topic |-> t])
  /\ mqtt_topicMap' = Without(mqtt_topicMap, t)
  /\ UNCHANGED <<loaded, mqtt_topicIndex, timers, resumed, promises, expired, dropped, stray,
                 link, toPage, subscriptions, refused>>

DeleteCallback(t) ==
  /\ loaded /\ Connected
  /\ Transmit([kind |-> "unsubscribe", topic |-> t])
  /\ UNCHANGED <<page, link, toPage, subscriptions, refused>>

-----------------------------------------------------------------------------
(* What the client hands over: mqtt_fetch_rx, onSuccess                    *)

Arrives(kinds) ==
  /\ toPage # <<>> /\ Head(toPage).kind \in kinds
  /\ OnePerFrame => resumed = <<>>
  /\ toPage' = Tail(toPage)
  /\ UNCHANGED <<link, toBroker, subscriptions, refused, loaded, mqtt_topicIndex, expired>>

(* An answer whose number is in the map: the resolver goes, a callback      *)
(* stays.                                                                  *)
RxAnswer ==
  /\ Arrives({"answer"})
  /\ LET nr == Head(toPage).nr
         call == mqtt_topicMap[nr]
     IN /\ nr \in DOMAIN mqtt_topicMap
        /\ IF nr >= 0
           THEN /\ timers' = {t \in timers : t.call # call}
                /\ promises' = [promises EXCEPT ![call] = Head(toPage).call]
                /\ mqtt_topicMap' = Without(mqtt_topicMap, nr)
           ELSE UNCHANGED <<timers, promises, mqtt_topicMap>>
  /\ UNCHANGED <<resumed, dropped, stray>>

(* "Verworfenes Topic"                                                     *)
RxDiscard ==
  /\ Arrives({"answer"})
  /\ Head(toPage).nr \notin DOMAIN mqtt_topicMap
  /\ dropped' = dropped \cup {Head(toPage).call}
  /\ UNCHANGED <<timers, promises, mqtt_topicMap, resumed, stray>>

(* A message on a topic; with no callback there, "Sollte nie passieren".   *)
RxNotice ==
  /\ Arrives({"notice"})
  /\ stray' = (stray \/ Head(toPage).topic \notin DOMAIN mqtt_topicMap)
  /\ UNCHANGED <<timers, promises, mqtt_topicMap, resumed, dropped>>

(* The promise of subscribe or unsubscribe resolves, to 0 by onSuccess or  *)
(* to 1 by onFailure, which a refused subscription calls ...               *)
RxAcknowledgement ==
  /\ Arrives({"subscribed", "refused", "unsubscribed"})
  /\ resumed' = Append(resumed, Head(toPage))
  /\ UNCHANGED <<timers, promises, mqtt_topicMap, dropped, stray>>

(* Mutants of Resume: init enters a callback too; delete_callback does not *)
(* delete.                                                                 *)
ResumeEntersReplies ==
  /\ resumed # <<>>
  /\ resumed' = Tail(resumed)
  /\ loaded' = (loaded \/ Head(resumed).topic = Replies)
  /\ mqtt_topicMap' = IF Head(resumed).kind # "unsubscribed"
                      THEN With(mqtt_topicMap, Head(resumed).topic, Callback)
                      ELSE Without(mqtt_topicMap, Head(resumed).topic)
  /\ UNCHANGED <<mqtt_topicIndex, timers, promises, expired, dropped, stray, wire>>

ResumeKeepsCallback ==
  /\ resumed # <<>>
  /\ resumed' = Tail(resumed)
  /\ loaded' = (loaded \/ Head(resumed).topic = Replies)
  /\ mqtt_topicMap' = IF Head(resumed).kind # "unsubscribed" /\ Head(resumed).topic # Replies
                      THEN With(mqtt_topicMap, Head(resumed).topic, Callback)
                      ELSE mqtt_topicMap
  /\ UNCHANGED <<mqtt_topicIndex, timers, promises, expired, dropped, stray, wire>>

(* ... and what awaited it goes on: init, set_callback, delete_callback.   *)
(* None looks at what the promise resolved to: a callback is entered for a *)
(* subscription that was refused, and the page goes on without answers.    *)
Resume ==
  /\ resumed # <<>>
  /\ resumed' = Tail(resumed)
  /\ LET a == Head(resumed)
     IN \/ /\ a.topic = Replies
           /\ loaded' = TRUE /\ UNCHANGED mqtt_topicMap
        \/ /\ a.topic # Replies /\ a.kind \in {"subscribed", "refused"}
           /\ mqtt_topicMap' = With(mqtt_topicMap, a.topic, Callback) /\ UNCHANGED loaded
        \/ /\ a.topic # Replies /\ a.kind = "unsubscribed"
           /\ mqtt_topicMap' = Without(mqtt_topicMap, a.topic) /\ UNCHANGED loaded
  /\ UNCHANGED <<mqtt_topicIndex, timers, promises, expired, dropped, stray, wire>>

(* Mutants of Timeout: the entry of the last request goes; none goes.      *)
TimeoutOfLast ==
  /\ resumed = <<>>
  /\ \E t \in timers :
       /\ \A u \in timers : t.call <= u.call
       /\ timers' = timers \ {t}
       /\ mqtt_topicMap' = Without(mqtt_topicMap, mqtt_topicIndex - 1)
       /\ expired' = expired \cup {t.call}
  /\ UNCHANGED <<loaded, mqtt_topicIndex, resumed, promises, dropped, stray, wire>>

TimeoutKeepsEntry ==
  /\ resumed = <<>>
  /\ \E t \in timers :
       /\ \A u \in timers : t.call <= u.call
       /\ timers' = timers \ {t}
       /\ expired' = expired \cup {t.call}
  /\ UNCHANGED <<loaded, mqtt_topicIndex, mqtt_topicMap, resumed, promises, dropped, stray, wire>>

(* mqtt_fetch_error: timers all last as long, the oldest fires first.      *)
Timeout ==
  /\ resumed = <<>>
  /\ \E t \in timers :
       /\ \A u \in timers : t.call <= u.call
       /\ timers' = timers \ {t}
       /\ mqtt_topicMap' = Without(mqtt_topicMap, t.nr)
       /\ expired' = expired \cup {t.call}
  /\ UNCHANGED <<loaded, mqtt_topicIndex, resumed, promises, dropped, stray, wire>>

-----------------------------------------------------------------------------
(* The broker, which handles one packet after the other.                   *)

Handles(kind) ==
  /\ link = "up"
  /\ toBroker # <<>> /\ Head(toBroker).kind = kind
  /\ Len(toPage) < MaxInFlight
  /\ toBroker' = Tail(toBroker)
  /\ UNCHANGED <<page, link>>

BrokerSubscribes ==
  /\ Handles("subscribe")
  /\ subscriptions' = subscriptions \cup {Head(toBroker).topic}
  /\ refused' = refused \ {Head(toBroker).topic}
  /\ toPage' = Append(toPage, [kind |-> "subscribed", topic |-> Head(toBroker).topic])

(* SUBACK with return code 0x80: an older subscription stays.              *)
BrokerRefuses ==
  /\ Handles("subscribe")
  /\ refused' = refused \cup {Head(toBroker).topic}
  /\ toPage' = Append(toPage, [kind |-> "refused", topic |-> Head(toBroker).topic])
  /\ UNCHANGED subscriptions

BrokerUnsubscribes ==
  /\ Handles("unsubscribe")
  /\ subscriptions' = subscriptions \ {Head(toBroker).topic}
  /\ refused' = refused \ {Head(toBroker).topic}
  /\ toPage' = Append(toPage, [kind |-> "unsubscribed", topic |-> Head(toBroker).topic])

(* /fr/<nr> is answered on /to/<nr>, or not at all (a low bid, bad JSON).  *)
BrokerAnswers(v) ==
  /\ Handles("request")
  /\ Replies \in subscriptions
  /\ toPage' = Append(toPage, [kind |-> "answer", nr |-> Head(toBroker).nr,
                              call |-> Head(toBroker).call, body |-> v])
  /\ UNCHANGED <<subscriptions, refused>>

BrokerIgnores ==
  /\ Handles("request")
  /\ UNCHANGED <<toPage, subscriptions, refused>>

(* A message for the page's client on /to/-1.                              *)
BrokerSendsStatus(v) ==
  /\ link = "up" /\ Replies \in subscriptions
  /\ Len(toPage) < MaxInFlight
  /\ toPage' = Append(toPage, [kind |-> "answer", nr |-> Status, call |-> 0, body |-> v])
  /\ UNCHANGED <<page, link, toBroker, subscriptions, refused>>

(* A message on a topic, if the page is subscribed to it.                  *)
BrokerPublishes(t, v) ==
  /\ link = "up" /\ t \in subscriptions
  /\ Len(toPage) < MaxInFlight
  /\ toPage' = Append(toPage, [kind |-> "notice", topic |-> t, body |-> v])
  /\ UNCHANGED <<page, link, toBroker, subscriptions, refused>>

(* The connection breaks; the page notices later, by onConnectionLost.     *)
ConnectionBreaks ==
  /\ link = "up"
  /\ link' = "broken"
  /\ \E k \in 0..Len(toPage) : toPage' = SubSeq(toPage, 1, k)
  /\ toBroker' = <<>> /\ subscriptions' = {} /\ refused' = {}
  /\ UNCHANGED page

ConnectionLost ==
  /\ link = "broken"
  /\ link' = "down" /\ toPage' = <<>>
  /\ UNCHANGED <<page, toBroker, subscriptions, refused>>

-----------------------------------------------------------------------------
Callbacks == SetStatusCallback \/ \E t \in Topics : SetCallback(t) \/ DeleteCallback(t)
Rx == RxAnswer \/ RxDiscard \/ RxNotice \/ RxAcknowledgement \/ Resume

Broker ==
  \/ BrokerSubscribes \/ BrokerRefuses \/ BrokerUnsubscribes \/ BrokerIgnores
  \/ \E v \in Bodies : BrokerAnswers(v) \/ BrokerSendsStatus(v)
  \/ \E t \in Topics, v \in Bodies : BrokerPublishes(t, v)

Next ==
  \/ ConnectSucceeds \/ ConnectFails \/ ConnectionBreaks \/ ConnectionLost
  \/ SendThrows \/ \E v \in Bodies : Send(v)
  \/ Callbacks \/ Rx \/ Timeout \/ Broker

Spec == Init /\ [][Next]_vars

(* The browser runs continuations at once, and does not put timers off for *)
(* ever, though messages keep it busy.                                     *)
FairSpec == Spec /\ WF_vars(Resume) /\ SF_vars(Timeout)

-----------------------------------------------------------------------------
(* Every promise is resolved by the answer to its own request and never    *)
(* again, though numbers are reused once send has thrown (line 78).        *)
Layer == INSTANCE Requests
ImplementsRequests == Layer!Spec

(* "Sollte nie passieren" (line 105): a message on a topic finds its       *)
(* callback, whatever calls of set_callback and delete_callback overlap.   *)
NothingStray == ~stray

(* Only answers that come after the timeout of their request are thrown    *)
(* away (line 97); 0 stands for status messages.                           *)
DiscardedWereLate == dropped \subseteq expired \cup {0}

(* With nothing under way for a topic, the page has a callback for it just *)
(* when the broker has it subscribed, though each call changes the two at  *)
(* two times (121-124) and calls overlap; save that the callback is also   *)
(* there, with nothing to serve it, when the broker has refused: onFailure *)
(* resolves to 1 (line 48) and set_callback enters the callback all the    *)
(* same.                                                                   *)
UnderWay(t) ==
  \/ \E i \in DOMAIN toBroker : toBroker[i].kind # "request" /\ toBroker[i].topic = t
  \/ \E i \in DOMAIN toPage :
       toPage[i].kind \in {"subscribed", "refused", "unsubscribed"} /\ toPage[i].topic = t
  \/ \E i \in DOMAIN resumed : resumed[i].topic = t

CallbacksAgree ==
  \A t \in Topics :
    link = "up" /\ ~UnderWay(t) =>
      (t \in DOMAIN mqtt_topicMap <=> t \in subscriptions \cup refused)

(* No request stays in the map for ever, answered or not.                  *)
EntriesEnd ==
  \A c \in 1..MaxCalls :
    (\E k \in Nat \cap DOMAIN mqtt_topicMap : mqtt_topicMap[k] = c)
      ~> ~(\E k \in Nat \cap DOMAIN mqtt_topicMap : mqtt_topicMap[k] = c)
=============================================================================
