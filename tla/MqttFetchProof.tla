---------------------------- MODULE MqttFetchProof ----------------------------
(***************************************************************************)
(* Proofs about module MqttFetch, for any topics, bodies and number of     *)
(* calls, and any number of packets under way.                             *)
(*                                                                         *)
(* First what belongs to which call, as long as there is a connection      *)
(* (Linked, Numbered, Outstanding): from it the promises of Requests       *)
(* follow, and that only late answers are thrown away.  Then what the page *)
(* will listen to once the packets on their way have come (Told): from it  *)
(* follows that page and broker agree on the callbacks.                    *)
(***************************************************************************)
EXTENDS MqttFetch, TLAPS

(* Nothing is under way before the connection is there, or after the page  *)
(* has noticed that it is gone; a send can throw only then.                *)
Linked ==
  /\ link = "connecting" =>
       /\ ~loaded /\ resumed = <<>> /\ subscriptions = {} /\ refused = {}
       /\ DOMAIN mqtt_topicMap = {}
  /\ link # "up" => toBroker = <<>>
  /\ link \in {"connecting", "down"} => toPage = <<>>

(* Until a send throws, call c goes under number c - 1.  Its entry and its *)
(* timer are set together, and the entry goes with the answer or the timer.*)
Numbered ==
  link # "down" =>
    /\ mqtt_topicIndex = Len(promises)
    /\ \A k \in Nat \cap DOMAIN mqtt_topicMap : mqtt_topicMap[k] = k + 1 /\ promises[k + 1] = Open
    /\ \A t \in timers : t.call = t.nr + 1
    /\ \A c \in DOMAIN promises :
         c - 1 \in DOMAIN mqtt_topicMap \/ c \in expired \/ promises[c] # Open

(* A packet that concerns a call: its request or the answer to it.         *)
Concerns(p) == p.kind = "request" \/ (p.kind = "answer" /\ p.nr # Status)
OfOpenCall(calls, p) ==
  /\ p.nr \in Nat /\ p.call = p.nr + 1
  /\ p.call \in DOMAIN calls /\ calls[p.call] = Open
AllOpen(q, calls) == \A i \in DOMAIN q : Concerns(q[i]) => OfOpenCall(calls, q[i])

Apart(q) ==
  \A i, j \in DOMAIN q :
    Concerns(q[i]) /\ Concerns(q[j]) /\ i # j => q[i].call # q[j].call
NotIn(p, q) == \A i \in DOMAIN q : Concerns(p) /\ Concerns(q[i]) => p.call # q[i].call
StatusIn(q) == \A i \in DOMAIN q : q[i].kind = "answer" /\ q[i].nr = Status => q[i].call = 0

(* Every call that has a packet under way is open, and has only one.       *)
Outstanding(calls, requests, answers) ==
  /\ AllOpen(requests, calls) /\ AllOpen(answers, calls)
  /\ Apart(requests) /\ Apart(answers)
  /\ \A i \in DOMAIN requests : NotIn(requests[i], answers)
  /\ StatusIn(answers)

Calls == Numbered /\ Outstanding(promises, toBroker, toPage) /\ DiscardedWereLate

-----------------------------------------------------------------------------
(* What the first k packets of q say about t: the last one that says       *)
(* anything says that t is subscribed to, or was refused, which the page   *)
(* does not tell apart; none says anything.                                *)
Confirms(p, t) == p.kind \in {"subscribed", "refused"} /\ p.topic = t
Revokes(p, t) == p.kind = "unsubscribed" /\ p.topic = t

ConfirmedIn(q, t, k) ==
  \E i \in DOMAIN q :
    /\ i <= k /\ Confirms(q[i], t)
    /\ \A j \in DOMAIN q : i < j /\ j <= k => ~Revokes(q[j], t)

SilentIn(q, t, k) ==
  \A i \in DOMAIN q : i <= k => ~Confirms(q[i], t) /\ ~Revokes(q[i], t)

(* Whether t will have a callback when the continuations have run, and     *)
(* when the first k packets have come.                                     *)
Heard(t) ==
  \/ ConfirmedIn(resumed, t, Len(resumed))
  \/ SilentIn(resumed, t, Len(resumed)) /\ t \in DOMAIN mqtt_topicMap

Listening(t, k) ==
  \/ ConfirmedIn(toPage, t, k)
  \/ SilentIn(toPage, t, k) /\ Heard(t)

Expects(t) == Listening(t, Len(toPage))

(* In the end the page listens to what the broker has it subscribed to or  *)
(* has refused, and when a message comes it listens to the topic of the message.        *)
Told ==
  \A t \in Topics :
    /\ link = "up" => (t \in subscriptions \cup refused <=> Expects(t))
    /\ \A i \in DOMAIN toPage :
         toPage[i].kind = "notice" /\ toPage[i].topic = t => Listening(t, i)
-----------------------------------------------------------------------------
(* Sequences                                                               *)

(* What is left of a queue when its first packet is taken.                 *)
LEMMA TakeFirst ==
  ASSUME NEW S, NEW q \in Seq(S), q # <<>>
  PROVE  /\ Len(q) \in Nat /\ Len(q) >= 1 /\ DOMAIN q = 1..Len(q)
         /\ Head(q) = q[1] /\ Head(q) \in S
         /\ Tail(q) \in Seq(S) /\ Len(Tail(q)) = Len(q) - 1 /\ DOMAIN Tail(q) = 1..(Len(q) - 1)
         /\ \A i \in DOMAIN Tail(q) : i + 1 \in DOMAIN q /\ Tail(q)[i] = q[i + 1]
<1>1. Len(q) \in Nat /\ Len(q) >= 1 /\ DOMAIN q = 1..Len(q)
  OBVIOUS
<1>2. /\ Tail(q) \in Seq(S) /\ Len(Tail(q)) = Len(q) - 1
      /\ \A i \in 1..(Len(q) - 1) : Tail(q)[i] = q[i + 1]
  BY <1>1
<1>3. DOMAIN Tail(q) = 1..(Len(q) - 1)
  BY <1>1, <1>2
<1> QED  BY <1>1, <1>2, <1>3

(* What a queue is when a packet is put at its end.                        *)
LEMMA PutLast ==
  ASSUME NEW S, NEW q \in Seq(S), NEW p \in S
  PROVE  /\ Len(q) \in Nat /\ DOMAIN q = 1..Len(q)
         /\ Append(q, p) \in Seq(S)
         /\ Len(Append(q, p)) = Len(q) + 1 /\ DOMAIN Append(q, p) = 1..(Len(q) + 1)
         /\ \A i \in DOMAIN q : i \in DOMAIN Append(q, p) /\ Append(q, p)[i] = q[i]
         /\ Append(q, p)[Len(q) + 1] = p
OBVIOUS

(* What a queue is when its last packets are lost.                         *)
LEMMA KeepFirst ==
  ASSUME NEW S, NEW q \in Seq(S), NEW k \in 0..Len(q)
  PROVE  /\ SubSeq(q, 1, k) \in Seq(S) /\ Len(SubSeq(q, 1, k)) = k
         /\ DOMAIN SubSeq(q, 1, k) = 1..k
         /\ \A i \in 1..k : i \in DOMAIN q /\ SubSeq(q, 1, k)[i] = q[i]
<1>1. k \in Nat /\ Len(q) \in Nat /\ k <= Len(q)
  OBVIOUS
<1>2. /\ SubSeq(q, 1, k) \in Seq(S) /\ Len(SubSeq(q, 1, k)) = k
      /\ \A i \in 1..k : SubSeq(q, 1, k)[i] = q[i]
  BY <1>1
<1> QED  BY <1>1, <1>2

-----------------------------------------------------------------------------
(* Types                                                                   *)

ToBroker == Subscription \cup Request
ToPage == Answer \cup Acknowledgement \cup Notice

(* A packet is what its kind says.                                         *)
LEMMA Kinds ==
  /\ \A p \in ToBroker :
       /\ p.kind = "request" => p.nr \in Nat /\ p.call \in Nat
       /\ p.kind # "request" => p.kind \in {"subscribe", "unsubscribe"}
                                 /\ p.topic \in Topics \cup {Replies}
  /\ \A p \in ToPage :
       /\ p.kind = "answer" => p.nr \in Nat \cup {Status} /\ p.call \in Nat
       /\ p.kind \in {"subscribed", "refused", "unsubscribed"} =>
            p \in Acknowledgement /\ p.topic \in Topics \cup {Replies}
       /\ p.kind = "notice" => p.topic \in Topics
       /\ p.kind \in {"answer", "subscribed", "refused", "unsubscribed", "notice"}
BY DEF ToBroker, ToPage, Subscription, Request, Answer, Acknowledgement, Notice

(* The map holds calls under numbers and callbacks under the other keys.   *)
MapOK(map, calls) ==
  /\ DOMAIN map \subseteq Nat \cup {Status} \cup Topics
  /\ \A k \in DOMAIN map : map[k] \in IF k \in Nat THEN calls ELSE {Callback}

(* Entering and deleting keep it so.                                       *)
LEMMA MapKept ==
  ASSUME NEW map, NEW calls, MapOK(map, calls), NEW more, calls \subseteq more, NEW k
  PROVE  /\ MapOK(map, more)
         /\ MapOK(Without(map, k), calls)
         /\ \A entry : k \in Nat /\ entry \in more => MapOK(With(map, k, entry), more)
         /\ k \in {Status} \cup Topics => MapOK(With(map, k, Callback), calls)
<1>1. \A t \in Topics : t \notin Nat
  BY MqttFetchAssumption
<1>2. Status \notin Nat
  BY DEF Status
<1>3. MapOK(map, more)
  BY DEF MapOK
<1>4. MapOK(Without(map, k), calls)
  BY DEF MapOK, Without
<1>5. ASSUME NEW entry, k \in Nat, entry \in more PROVE MapOK(With(map, k, entry), more)
  BY <1>5 DEF MapOK, With
<1>6. ASSUME k \in {Status} \cup Topics PROVE MapOK(With(map, k, Callback), calls)
  BY <1>1, <1>2, <1>6 DEF MapOK, With
<1> QED  BY <1>3, <1>4, <1>5, <1>6

Types ==
  /\ link \in LinkStates /\ loaded \in BOOLEAN /\ stray \in BOOLEAN
  /\ mqtt_topicIndex \in Nat
  /\ MapOK(mqtt_topicMap, DOMAIN promises)
  /\ timers \subseteq Timer
  /\ resumed \in Seq(Acknowledgement)
  /\ toBroker \in Seq(ToBroker)
  /\ toPage \in Seq(ToPage)
  /\ subscriptions \subseteq Topics \cup {Replies} /\ refused \subseteq Topics \cup {Replies}
  /\ promises \in Seq({Rejected} \cup Nat)
  /\ expired \subseteq Nat /\ dropped \subseteq Nat

(* The type invariant, with a name for the parts that are operators.       *)
LEMMA TypesAre == TypeOK <=> Types
BY DEF TypeOK, Types, MapOK, ToBroker, ToPage

(* At the start nothing is under way.                                      *)
LEMMA TypeInit == Init => Types
<1> SUFFICES ASSUME Init PROVE Types
  OBVIOUS
<1>1. DOMAIN mqtt_topicMap = {}
  BY DEF Init
<1>2. MapOK(mqtt_topicMap, DOMAIN promises)
  BY <1>1 DEF MapOK
<1>3. /\ link \in LinkStates /\ loaded \in BOOLEAN /\ stray \in BOOLEAN
      /\ mqtt_topicIndex \in Nat
  BY DEF Init, LinkStates
<1>4. /\ resumed \in Seq(Acknowledgement) /\ promises \in Seq({Rejected} \cup Nat)
      /\ toBroker \in Seq(ToBroker) /\ toPage \in Seq(ToPage)
  BY DEF Init
<1>5. /\ timers = {} /\ subscriptions = {} /\ refused = {} /\ expired = {} /\ dropped = {}
  BY DEF Init
<1> QED  BY <1>2, <1>3, <1>4, <1>5 DEF Types

(* Transmitting a packet keeps the types.                                  *)
LEMMA TransmitTypes ==
  ASSUME Types, NEW p \in ToBroker, Transmit(p)
  PROVE  toBroker' \in Seq(ToBroker)
BY PutLast DEF Types, Transmit

(* Calling send keeps the types, whether it throws or not.                 *)
LEMMA EnterTypes ==
  ASSUME Types, NEW promise \in {Open, Rejected}, Enter(promise)
  PROVE  /\ promises' \in Seq({Rejected} \cup Nat) /\ timers' \subseteq Timer
         /\ MapOK(mqtt_topicMap', DOMAIN promises')
<1>1. promise \in {Rejected} \cup Nat
  BY DEF Open, Rejected
<1>2. /\ promises \in Seq({Rejected} \cup Nat) /\ promises' = Append(promises, promise)
      /\ mqtt_topicMap' = With(mqtt_topicMap, mqtt_topicIndex, Len(promises) + 1)
      /\ timers' = timers \cup {[nr |-> mqtt_topicIndex, call |-> Len(promises) + 1]}
      /\ mqtt_topicIndex \in Nat
  BY DEF Types, Enter
<1>3. /\ promises' \in Seq({Rejected} \cup Nat) /\ Len(promises) \in Nat
      /\ DOMAIN promises \subseteq DOMAIN promises' /\ Len(promises) + 1 \in DOMAIN promises'
  BY <1>1, <1>2, PutLast
<1>4. MapOK(mqtt_topicMap', DOMAIN promises')
  BY <1>2, <1>3, MapKept DEF Types
<1>5. timers' \subseteq Timer
  BY <1>2, <1>3 DEF Types, Timer
<1> QED  BY <1>3, <1>4, <1>5

(* Taking a packet from the broker keeps the types.                        *)
LEMMA ArrivesTypes ==
  ASSUME Types, NEW kinds, Arrives(kinds)
  PROVE  toPage' \in Seq(ToPage) /\ Head(toPage) \in ToPage /\ Head(toPage).kind \in kinds
BY TakeFirst DEF Types, Arrives

(* Taking a packet from the page keeps the types.                          *)
LEMMA HandlesTypes ==
  ASSUME Types, NEW kind, Handles(kind)
  PROVE  toBroker' \in Seq(ToBroker) /\ Head(toBroker) \in ToBroker /\ Head(toBroker).kind = kind
BY TakeFirst DEF Types, Handles

(* Every step keeps the types.                                             *)
LEMMA TypeStep == Types /\ [Next]_vars => Types'
<1> SUFFICES ASSUME Types, [Next]_vars PROVE Types'
  OBVIOUS
<1> USE DEF page, wire
<1>1. CASE UNCHANGED vars
  BY <1>1 DEF vars, Types
<1>2. CASE ConnectSucceeds
  <2>1. [kind |-> "subscribe", topic |-> Replies] \in ToBroker
    BY DEF ToBroker, Subscription
  <2>2. toBroker' \in Seq(ToBroker)
    BY <1>2, <2>1 DEF ConnectSucceeds
  <2> QED  BY <1>2, <2>2 DEF ConnectSucceeds, Types, LinkStates
<1>3. CASE ConnectFails
  BY <1>3 DEF ConnectFails, Types, LinkStates
<1>4. CASE ConnectionBreaks
  <2>1. toPage' \in Seq(ToPage)
    BY <1>4, KeepFirst DEF ConnectionBreaks, Types
  <2> QED  BY <1>4, <2>1 DEF ConnectionBreaks, Types, LinkStates
<1>5. CASE ConnectionLost
  BY <1>5 DEF ConnectionLost, Types, LinkStates
<1>6. CASE SendThrows
  BY <1>6, EnterTypes DEF SendThrows, Enter, Types
<1>7. ASSUME NEW v \in Bodies, Send(v) PROVE Types'
  <2>1. Len(promises) \in Nat /\ mqtt_topicIndex \in Nat
    BY DEF Types
  <2>2. RequestOf(v) \in ToBroker
    BY <2>1 DEF RequestOf, ToBroker, Request
  <2>3. toBroker' \in Seq(ToBroker)
    BY <1>7, <2>2, TransmitTypes DEF Send
  <2>4. /\ promises' \in Seq({Rejected} \cup Nat) /\ timers' \subseteq Timer
        /\ MapOK(mqtt_topicMap', DOMAIN promises')
    BY <1>7, EnterTypes DEF Send
  <2> QED  BY <1>7, <2>1, <2>3, <2>4 DEF Send, Enter, Types
<1>8. CASE SetStatusCallback
  BY <1>8, MapKept DEF SetStatusCallback, Types
<1>9. ASSUME NEW t \in Topics, SetCallback(t) \/ DeleteCallback(t) PROVE Types'
  <2>1. /\ [kind |-> "subscribe", topic |-> t] \in ToBroker
        /\ [kind |-> "unsubscribe", topic |-> t] \in ToBroker
    BY DEF ToBroker, Subscription
  <2>2. toBroker' \in Seq(ToBroker)
    BY <1>9, <2>1, TransmitTypes DEF SetCallback, DeleteCallback
  <2> QED  BY <1>9, <2>2 DEF SetCallback, DeleteCallback, Types
<1>10. CASE RxAnswer
  <2> DEFINE nr == Head(toPage).nr
             call == mqtt_topicMap[nr]
  <2>1. toPage' \in Seq(ToPage) /\ Head(toPage) \in ToPage /\ Head(toPage).kind = "answer"
    BY <1>10, ArrivesTypes DEF RxAnswer
  <2>2. Head(toPage).call \in Nat /\ nr \in Nat \cup {Status}
    BY <2>1, Kinds
  <2>3. nr >= 0 => nr \in Nat /\ call \in DOMAIN promises
    BY <1>10, <2>2 DEF RxAnswer, Types, MapOK, Status
  <2>4. nr >= 0 => DOMAIN promises' = DOMAIN promises /\ promises' \in Seq({Rejected} \cup Nat)
    <3>1. promises \in Seq({Rejected} \cup Nat)
      BY DEF Types
    <3>2. nr >= 0 => promises' = [promises EXCEPT ![call] = Head(toPage).call]
      BY <1>10 DEF RxAnswer
    <3> HIDE DEF nr, call
    <3> QED  BY <2>2, <2>3, <3>1, <3>2
  <2>5. /\ promises' \in Seq({Rejected} \cup Nat) /\ timers' \subseteq Timer
        /\ MapOK(mqtt_topicMap', DOMAIN promises')
    BY <1>10, <2>2, <2>4, MapKept DEF RxAnswer, Types
  <2> QED  BY <1>10, <2>1, <2>5 DEF RxAnswer, Arrives, Types
<1>11. CASE RxDiscard
  <2>1. toPage' \in Seq(ToPage) /\ Head(toPage) \in ToPage /\ Head(toPage).kind = "answer"
    BY <1>11, ArrivesTypes DEF RxDiscard
  <2>2. Head(toPage).call \in Nat
    BY <2>1, Kinds
  <2> QED  BY <1>11, <2>1, <2>2 DEF RxDiscard, Arrives, Types
<1>12. CASE RxNotice
  <2>1. toPage' \in Seq(ToPage)
    BY <1>12, ArrivesTypes DEF RxNotice
  <2> QED  BY <1>12, <2>1 DEF RxNotice, Arrives, Types
<1>13. CASE RxAcknowledgement
  <2>1. toPage' \in Seq(ToPage) /\ Head(toPage) \in Acknowledgement
    BY <1>13, ArrivesTypes, Kinds DEF RxAcknowledgement
  <2>2. resumed' \in Seq(Acknowledgement)
    BY <1>13, <2>1, PutLast DEF RxAcknowledgement, Types
  <2> QED  BY <1>13, <2>1, <2>2 DEF RxAcknowledgement, Arrives, Types
<1>14. CASE Resume
  <2>1. resumed' \in Seq(Acknowledgement) /\ Head(resumed) \in Acknowledgement
    BY <1>14, TakeFirst DEF Resume, Types
  <2>2. Head(resumed).topic \in Topics \cup {Replies}
    BY <2>1 DEF Acknowledgement
  <2>3. MapOK(mqtt_topicMap', DOMAIN promises)
    <3>1. MapOK(mqtt_topicMap, DOMAIN promises)
      BY DEF Types
    <3>2. \/ mqtt_topicMap' = mqtt_topicMap
          \/ mqtt_topicMap' = Without(mqtt_topicMap, Head(resumed).topic)
          \/ /\ Head(resumed).topic \in Topics
             /\ mqtt_topicMap' = With(mqtt_topicMap, Head(resumed).topic, Callback)
      BY <1>14, <2>2 DEF Resume
    <3> QED  BY <3>1, <3>2, MapKept
  <2>4. loaded' \in BOOLEAN
    BY <1>14 DEF Resume, Types
  <2> QED  BY <1>14, <2>1, <2>3, <2>4 DEF Resume, Types
<1>15. CASE Timeout
  <2>1. PICK t \in timers :
          /\ timers' = timers \ {t} /\ mqtt_topicMap' = Without(mqtt_topicMap, t.nr)
          /\ expired' = expired \cup {t.call}
    BY <1>15 DEF Timeout
  <2>2. t.call \in Nat
    BY DEF Types, Timer
  <2>3. MapOK(mqtt_topicMap', DOMAIN promises)
    BY <2>1, MapKept DEF Types
  <2> QED  BY <1>15, <2>1, <2>2, <2>3 DEF Timeout, Types
<1>16. CASE BrokerSubscribes \/ BrokerRefuses \/ BrokerUnsubscribes
  <2>1. /\ toBroker' \in Seq(ToBroker) /\ Head(toBroker) \in ToBroker
        /\ Head(toBroker).kind # "request"
    BY <1>16, HandlesTypes DEF BrokerSubscribes, BrokerRefuses, BrokerUnsubscribes
  <2>2. Head(toBroker).topic \in Topics \cup {Replies}
    BY <2>1, Kinds
  <2>3. /\ [kind |-> "subscribed", topic |-> Head(toBroker).topic] \in ToPage
        /\ [kind |-> "refused", topic |-> Head(toBroker).topic] \in ToPage
        /\ [kind |-> "unsubscribed", topic |-> Head(toBroker).topic] \in ToPage
    BY <2>2 DEF ToPage, Acknowledgement
  <2>4. toPage' \in Seq(ToPage)
    <3>1. toPage \in Seq(ToPage)
      BY DEF Types
    <3>2. CASE BrokerSubscribes
      BY <2>3, <3>1, <3>2, PutLast DEF BrokerSubscribes
    <3>3. CASE BrokerUnsubscribes
      BY <2>3, <3>1, <3>3, PutLast DEF BrokerUnsubscribes
    <3>4. CASE BrokerRefuses
      BY <2>3, <3>1, <3>4, PutLast DEF BrokerRefuses
    <3> QED  BY <1>16, <3>2, <3>3, <3>4
  <2> QED
    BY <1>16, <2>1, <2>2, <2>4
       DEF BrokerSubscribes, BrokerRefuses, BrokerUnsubscribes, Handles, Types
<1>17. CASE BrokerIgnores
  BY <1>17, HandlesTypes DEF BrokerIgnores, Handles, Types
<1>18. ASSUME NEW v \in Bodies, BrokerAnswers(v) PROVE Types'
  <2>1. /\ toBroker' \in Seq(ToBroker) /\ Head(toBroker) \in ToBroker
        /\ Head(toBroker).kind = "request"
    BY <1>18, HandlesTypes DEF BrokerAnswers
  <2>2. [kind |-> "answer", nr |-> Head(toBroker).nr, call |-> Head(toBroker).call, body |-> v]
          \in ToPage
    BY <2>1, Kinds DEF ToPage, Answer
  <2>3. toPage' \in Seq(ToPage)
    BY <1>18, <2>2, PutLast DEF BrokerAnswers, Types
  <2> QED  BY <1>18, <2>1, <2>3 DEF BrokerAnswers, Handles, Types
<1>19. ASSUME NEW v \in Bodies, BrokerSendsStatus(v) PROVE Types'
  <2>1. [kind |-> "answer", nr |-> Status, call |-> 0, body |-> v] \in ToPage
    BY DEF ToPage, Answer
  <2>2. toPage' \in Seq(ToPage)
    BY <1>19, <2>1, PutLast DEF BrokerSendsStatus, Types
  <2> QED  BY <1>19, <2>2 DEF BrokerSendsStatus, Types
<1>20. ASSUME NEW t \in Topics, NEW v \in Bodies, BrokerPublishes(t, v) PROVE Types'
  <2>1. [kind |-> "notice", topic |-> t, body |-> v] \in ToPage
    BY DEF ToPage, Notice
  <2>2. toPage' \in Seq(ToPage)
    BY <1>20, <2>1, PutLast DEF BrokerPublishes, Types
  <2> QED  BY <1>20, <2>2 DEF BrokerPublishes, Types
<1> QED
  BY <1>1, <1>2, <1>3, <1>4, <1>5, <1>6, <1>7, <1>8, <1>9, <1>10, <1>11, <1>12, <1>13,
     <1>14, <1>15, <1>16, <1>17, <1>18, <1>19, <1>20
     DEF Next, Callbacks, Rx, Broker

(* The packets, the map and the promises are what the code takes them for: *)
(* what the map holds under a number is always a call of send.             *)
THEOREM TypeCorrect == Spec => []TypeOK
<1>1. Spec => []Types
  BY TypeInit, TypeStep, PTL DEF Spec
<1> QED  BY <1>1, TypesAre, PTL
-----------------------------------------------------------------------------
(* Calls                                                                   *)

(* Before the connection is made nothing is sent, and afterwards a send    *)
(* throws only when no answer can come any more.                           *)
LEMMA LinkedStep == Types /\ Linked /\ [Next]_vars => Linked'
<1> SUFFICES ASSUME Types, Linked, [Next]_vars PROVE Linked'
  OBVIOUS
<1> USE DEF page, wire, Connected
<1>0. Types /\ Linked
  OBVIOUS
<1>1. CASE UNCHANGED vars
  BY <1>1 DEF vars, Linked
<1>2. CASE ConnectSucceeds \/ ConnectFails \/ ConnectionBreaks \/ ConnectionLost
  BY <1>2 DEF ConnectSucceeds, ConnectFails, ConnectionBreaks, ConnectionLost, Linked
<1>3. CASE SendThrows
  BY <1>3 DEF SendThrows, Enter, Linked
<1>4. ASSUME NEW v \in Bodies, Send(v) PROVE Linked'
  BY <1>4 DEF Send, Enter, Transmit, Linked
<1>5. CASE SetStatusCallback
  BY <1>5 DEF SetStatusCallback, Linked
<1>6. ASSUME NEW t \in Topics, SetCallback(t) \/ DeleteCallback(t) PROVE Linked'
  BY <1>6 DEF SetCallback, DeleteCallback, Transmit, Linked
<1>7. CASE RxAnswer \/ RxDiscard \/ RxNotice \/ RxAcknowledgement
  <2>1. toPage # <<>> /\ UNCHANGED <<link, toBroker>>
    BY <1>7 DEF RxAnswer, RxDiscard, RxNotice, RxAcknowledgement, Arrives
  <2> QED  BY <2>1 DEF Linked
<1>8. CASE Resume
  BY <1>8 DEF Resume, Linked
<1>9. CASE Timeout
  <2>1. PICK t \in timers : mqtt_topicMap' = Without(mqtt_topicMap, t.nr)
    BY <1>9 DEF Timeout
  <2>2. DOMAIN mqtt_topicMap' \subseteq DOMAIN mqtt_topicMap
    BY <2>1 DEF Without
  <2>3. UNCHANGED <<loaded, resumed, wire>>
    BY <1>9 DEF Timeout
  <2> QED  BY <2>2, <2>3 DEF Linked
<1>10. CASE Broker
  <2>1. link = "up" /\ link' = link
    BY <1>10 DEF Broker, BrokerSubscribes, BrokerRefuses, BrokerUnsubscribes, BrokerIgnores,
                 BrokerAnswers, BrokerSendsStatus, BrokerPublishes, Handles
  <2> QED  BY <2>1 DEF Linked
<1> QED
  BY <1>1, <1>2, <1>3, <1>4, <1>5, <1>6, <1>7, <1>8, <1>9, <1>10 DEF Next, Callbacks, Rx

(* Taking the first packet of a queue keeps the calls under way apart.     *)
LEMMA TakeApart ==
  ASSUME NEW S, NEW q \in Seq(S), q # <<>>, Apart(q)
  PROVE  /\ Apart(Tail(q)) /\ NotIn(q[1], Tail(q))
         /\ \A calls : AllOpen(q, calls) =>
              AllOpen(Tail(q), calls) /\ (Concerns(q[1]) => OfOpenCall(calls, q[1]))
         /\ \A p : NotIn(p, q) => NotIn(p, Tail(q))
         /\ StatusIn(q) => StatusIn(Tail(q))
<1>1. /\ 1 \in DOMAIN q
      /\ \A i \in DOMAIN Tail(q) :
           i \in Nat /\ i >= 1 /\ i + 1 \in DOMAIN q /\ Tail(q)[i] = q[i + 1]
  BY TakeFirst
<1>2. Apart(Tail(q))
  BY <1>1 DEF Apart
<1>3. NotIn(q[1], Tail(q))
  BY <1>1 DEF Apart, NotIn
<1>4. \A calls : AllOpen(q, calls) =>
        AllOpen(Tail(q), calls) /\ (Concerns(q[1]) => OfOpenCall(calls, q[1]))
  BY <1>1 DEF AllOpen
<1>5. \A p : NotIn(p, q) => NotIn(p, Tail(q))
  BY <1>1 DEF NotIn
<1>6. StatusIn(q) => StatusIn(Tail(q))
  BY <1>1 DEF StatusIn
<1> QED  BY <1>2, <1>3, <1>4, <1>5, <1>6

(* So does losing the last packets.                                        *)
LEMMA KeepApart ==
  ASSUME NEW S, NEW q \in Seq(S), NEW k \in 0..Len(q), Apart(q)
  PROVE  /\ Apart(SubSeq(q, 1, k))
         /\ \A calls : AllOpen(q, calls) => AllOpen(SubSeq(q, 1, k), calls)
         /\ StatusIn(q) => StatusIn(SubSeq(q, 1, k))
<1> DEFINE r == SubSeq(q, 1, k)
<1>1. \A i \in DOMAIN r : i \in DOMAIN q /\ r[i] = q[i]
  BY KeepFirst
<1> HIDE DEF r
<1>2. Apart(r)
  BY <1>1 DEF Apart
<1>3. \A calls : AllOpen(q, calls) => AllOpen(r, calls)
  BY <1>1 DEF AllOpen
<1>4. StatusIn(q) => StatusIn(r)
  BY <1>1 DEF StatusIn
<1> QED  BY <1>2, <1>3, <1>4 DEF r

(* So does adding a packet for a call that has none under way.             *)
LEMMA AddApart ==
  ASSUME NEW S, NEW q \in Seq(S), NEW p \in S, Apart(q), NotIn(p, q)
  PROVE  /\ Apart(Append(q, p))
         /\ \A calls : AllOpen(q, calls) /\ (Concerns(p) => OfOpenCall(calls, p)) =>
              AllOpen(Append(q, p), calls)
         /\ \A o : NotIn(o, q) /\ (Concerns(o) /\ Concerns(p) => o.call # p.call) =>
              NotIn(o, Append(q, p))
         /\ StatusIn(q) /\ (p.kind = "answer" /\ p.nr = Status => p.call = 0) =>
              StatusIn(Append(q, p))
         /\ \A r : (\A i \in DOMAIN q : NotIn(q[i], r)) /\ NotIn(p, r) =>
              \A i \in DOMAIN Append(q, p) : NotIn(Append(q, p)[i], r)
<1> DEFINE r == Append(q, p)
<1>1. \A i \in DOMAIN r : (i \in DOMAIN q /\ r[i] = q[i]) \/ (i = Len(q) + 1 /\ r[i] = p)
  <2>1. /\ Len(q) \in Nat /\ DOMAIN q = 1..Len(q) /\ DOMAIN r = 1..(Len(q) + 1)
        /\ \A i \in DOMAIN q : r[i] = q[i]
        /\ r[Len(q) + 1] = p
    BY PutLast
  <2> HIDE DEF r
  <2> QED  BY <2>1
<1> HIDE DEF r
<1>2. Apart(r)
  BY <1>1 DEF Apart, NotIn
<1>3. \A calls : AllOpen(q, calls) /\ (Concerns(p) => OfOpenCall(calls, p)) => AllOpen(r, calls)
  BY <1>1 DEF AllOpen
<1>4. \A o : NotIn(o, q) /\ (Concerns(o) /\ Concerns(p) => o.call # p.call) => NotIn(o, r)
  BY <1>1 DEF NotIn
<1>5. StatusIn(q) /\ (p.kind = "answer" /\ p.nr = Status => p.call = 0) => StatusIn(r)
  BY <1>1 DEF StatusIn
<1>6. \A s : (\A i \in DOMAIN q : NotIn(q[i], s)) /\ NotIn(p, s) =>
               \A i \in DOMAIN r : NotIn(r[i], s)
  BY <1>1
<1> QED  BY <1>2, <1>3, <1>4, <1>5, <1>6 DEF r
(* The broker takes a request: nothing else is under way for its call.     *)
LEMMA RequestTaken ==
  ASSUME NEW b \in Seq(ToBroker), b # <<>>, NEW p, NEW calls, Outstanding(calls, b, p)
  PROVE  /\ Outstanding(calls, Tail(b), p)
         /\ NotIn(b[1], Tail(b)) /\ NotIn(b[1], p)
         /\ Concerns(b[1]) => OfOpenCall(calls, b[1])
<1>1. /\ 1 \in DOMAIN b
      /\ \A i \in DOMAIN Tail(b) : i + 1 \in DOMAIN b /\ Tail(b)[i] = b[i + 1]
  BY TakeFirst
<1>2. /\ Apart(Tail(b)) /\ NotIn(b[1], Tail(b))
      /\ AllOpen(Tail(b), calls) /\ (Concerns(b[1]) => OfOpenCall(calls, b[1]))
  BY TakeApart DEF Outstanding
<1>3. NotIn(b[1], p) /\ \A i \in DOMAIN Tail(b) : NotIn(Tail(b)[i], p)
  BY <1>1 DEF Outstanding
<1> QED  BY <1>2, <1>3 DEF Outstanding

(* The page takes an answer: nothing else is under way for its call.       *)
LEMMA AnswerTaken ==
  ASSUME NEW p \in Seq(ToPage), p # <<>>, NEW b, NEW calls, Outstanding(calls, b, p)
  PROVE  /\ Outstanding(calls, b, Tail(p))
         /\ NotIn(p[1], Tail(p)) /\ NotIn(p[1], b)
         /\ Concerns(p[1]) => OfOpenCall(calls, p[1])
         /\ p[1].kind = "answer" /\ p[1].nr = Status => p[1].call = 0
<1>1. 1 \in DOMAIN p
  BY TakeFirst
<1>2. /\ Apart(Tail(p)) /\ NotIn(p[1], Tail(p)) /\ StatusIn(Tail(p))
      /\ AllOpen(Tail(p), calls) /\ (Concerns(p[1]) => OfOpenCall(calls, p[1]))
      /\ \A x : NotIn(x, p) => NotIn(x, Tail(p))
  BY TakeApart DEF Outstanding
<1>3. NotIn(p[1], b)
  BY <1>1 DEF Outstanding, NotIn
<1>4. p[1].kind = "answer" /\ p[1].nr = Status => p[1].call = 0
  BY <1>1 DEF Outstanding, StatusIn
<1> QED  BY <1>2, <1>3, <1>4 DEF Outstanding

(* The page sends a packet that concerns no call, or a new one.            *)
LEMMA RequestSent ==
  ASSUME NEW b \in Seq(ToBroker), NEW x \in ToBroker, NEW p, NEW calls, Outstanding(calls, b, p),
         NotIn(x, b), NotIn(x, p), Concerns(x) => OfOpenCall(calls, x)
  PROVE  Outstanding(calls, Append(b, x), p)
<1>1. Apart(b)
  BY DEF Outstanding
<1>2. /\ Apart(Append(b, x)) /\ AllOpen(Append(b, x), calls)
      /\ \A i \in DOMAIN Append(b, x) : NotIn(Append(b, x)[i], p)
  BY <1>1, AddApart DEF Outstanding
<1> QED  BY <1>2 DEF Outstanding

(* The broker sends a packet that concerns no call, or one for which       *)
(* nothing else is under way.                                              *)
LEMMA AnswerSent ==
  ASSUME NEW p \in Seq(ToPage), NEW x \in ToPage, NEW b, NEW calls, Outstanding(calls, b, p),
         NotIn(x, p), NotIn(x, b), Concerns(x) => OfOpenCall(calls, x),
         x.kind = "answer" /\ x.nr = Status => x.call = 0
  PROVE  Outstanding(calls, b, Append(p, x))
<1>1. Apart(p)
  BY DEF Outstanding
<1>2. /\ Apart(Append(p, x)) /\ AllOpen(Append(p, x), calls) /\ StatusIn(Append(p, x))
      /\ \A o : NotIn(o, p) /\ (Concerns(o) /\ Concerns(x) => o.call # x.call) =>
           NotIn(o, Append(p, x))
  BY <1>1, AddApart DEF Outstanding
<1>3. \A i \in DOMAIN b : Concerns(b[i]) /\ Concerns(x) => b[i].call # x.call
  BY DEF NotIn
<1>4. \A i \in DOMAIN b : NotIn(b[i], Append(p, x))
  BY <1>2, <1>3 DEF Outstanding
<1> QED  BY <1>2, <1>4 DEF Outstanding

(* The promises of calls that are under way do not change.                 *)
LEMMA PromisesMove ==
  ASSUME NEW b, NEW p, NEW calls, NEW later, Outstanding(calls, b, p),
         \A i \in DOMAIN b : OfOpenCall(calls, b[i]) /\ Concerns(b[i]) => OfOpenCall(later, b[i]),
         \A i \in DOMAIN p : OfOpenCall(calls, p[i]) /\ Concerns(p[i]) => OfOpenCall(later, p[i])
  PROVE  Outstanding(later, b, p)
BY DEF Outstanding, AllOpen

(* A packet that concerns no call is not in the way of any.                *)
LEMMA Unconcerned ==
  ASSUME NEW x, x.kind \notin {"request", "answer"}
  PROVE  ~Concerns(x) /\ \A q : NotIn(x, q)
BY DEF Concerns, NotIn

-----------------------------------------------------------------------------
(* A step that leaves the promises, the timers and the entries under       *)
(* numbers alone leaves them numbered.                                     *)
LEMMA NumbersStay ==
  ASSUME Numbered, UNCHANGED <<mqtt_topicIndex, promises, timers, expired>>,
         link' # "down" => link # "down",
         Nat \cap DOMAIN mqtt_topicMap' = Nat \cap DOMAIN mqtt_topicMap,
         \A k \in Nat \cap DOMAIN mqtt_topicMap : mqtt_topicMap'[k] = mqtt_topicMap[k],
         Types
  PROVE  Numbered'
<1>1. \A c \in DOMAIN promises : c - 1 \in Nat
  BY DEF Types
<1> QED  BY <1>1 DEF Numbered

(* Entries under other keys than numbers come and go as they like.         *)
LEMMA OtherKeys ==
  ASSUME NEW map, NEW k, k \notin Nat
  PROVE  /\ Nat \cap DOMAIN With(map, k, Callback) = Nat \cap DOMAIN map
         /\ Nat \cap DOMAIN Without(map, k) = Nat \cap DOMAIN map
         /\ \A n \in Nat \cap DOMAIN map :
              With(map, k, Callback)[n] = map[n] /\ Without(map, k)[n] = map[n]
BY DEF With, Without

(* At the start there are no calls.                                        *)
LEMMA CallsInit == Init => Linked /\ Calls
BY DEF Init, Linked, Calls, Numbered, Outstanding, AllOpen, Apart, StatusIn, DiscardedWereLate
(* A call of send: its number is new, and so its packet is in the way of   *)
(* none.                                                                   *)
LEMMA SendCalls ==
  ASSUME Types, Linked, Calls, NEW v \in Bodies, Send(v)
  PROVE  Calls'
<1> DEFINE n == Len(promises)
           x == RequestOf(v)
<1>1. /\ link \in {"up", "broken"} /\ UNCHANGED <<link, toPage, expired, dropped>>
      /\ promises' = Append(promises, Open) /\ mqtt_topicIndex' = mqtt_topicIndex + 1
      /\ mqtt_topicMap' = With(mqtt_topicMap, mqtt_topicIndex, n + 1)
      /\ timers' = timers \cup {[nr |-> mqtt_topicIndex, call |-> n + 1]}
      /\ toBroker' = Append(toBroker, x) \/ toBroker' = toBroker
  BY DEF Send, Enter, Transmit, Connected
<1>2. /\ n \in Nat /\ mqtt_topicIndex = n /\ DOMAIN promises = 1..n
      /\ promises \in Seq({Rejected} \cup Nat) /\ toBroker \in Seq(ToBroker)
      /\ DOMAIN toBroker \subseteq Nat /\ DOMAIN toPage \subseteq Nat
  BY <1>1 DEF Types, Calls, Numbered
<1>3. /\ DOMAIN promises' = 1..(n + 1) /\ Len(promises') = n + 1
      /\ \A c \in 1..n : promises'[c] = promises[c]
      /\ promises'[n + 1] = Open
  BY <1>1, <1>2 DEF Open
<1>4. \A k \in Nat \cap DOMAIN mqtt_topicMap :
        k + 1 \in 1..n /\ mqtt_topicMap[k] = k + 1 /\ promises[k + 1] = Open
  BY <1>1, <1>2 DEF Types, MapOK, Calls, Numbered
<1>5. /\ DOMAIN mqtt_topicMap' = DOMAIN mqtt_topicMap \cup {n} /\ mqtt_topicMap'[n] = n + 1
      /\ \A k \in DOMAIN mqtt_topicMap : k # n => mqtt_topicMap'[k] = mqtt_topicMap[k]
  BY <1>1, <1>2 DEF With
<1>6. Numbered'
  <2>1. mqtt_topicIndex' = Len(promises')
    BY <1>1, <1>2, <1>3
  <2>2. ASSUME NEW k \in Nat \cap DOMAIN mqtt_topicMap'
        PROVE  mqtt_topicMap'[k] = k + 1 /\ promises'[k + 1] = Open
    <3>1. CASE k = n
      BY <1>3, <1>5, <3>1
    <3>2. CASE k # n
      BY <1>3, <1>4, <1>5, <2>2, <3>2
    <3> QED  BY <3>1, <3>2
  <2>3. \A t \in timers' : t.call = t.nr + 1
    BY <1>1, <1>2 DEF Calls, Numbered
  <2>4. ASSUME NEW c \in DOMAIN promises'
        PROVE  c - 1 \in DOMAIN mqtt_topicMap' \/ c \in expired' \/ promises'[c] # Open
    <3>1. CASE c = n + 1
      BY <1>2, <1>5, <3>1
    <3>2. CASE c # n + 1
      <4>1. c \in DOMAIN promises /\ promises'[c] = promises[c]
        BY <1>2, <1>3, <3>2
      <4> QED  BY <1>1, <1>5, <4>1 DEF Calls, Numbered
    <3> QED  BY <3>1, <3>2
  <2> QED  BY <2>1, <2>2, <2>3, <2>4 DEF Numbered
<1>7. Outstanding(promises, toBroker, toPage)
  BY DEF Calls
<1>8. \A p : OfOpenCall(promises, p) => OfOpenCall(promises', p) /\ p.call # n + 1
  BY <1>2, <1>3 DEF OfOpenCall
<1>9. Outstanding(promises', toBroker, toPage)
  BY <1>7, <1>8, PromisesMove
<1>10. /\ x \in ToBroker /\ x.nr = n /\ x.call = n + 1
  BY <1>2 DEF RequestOf, ToBroker, Request
<1>11. OfOpenCall(promises', x)
  BY <1>2, <1>3, <1>10 DEF OfOpenCall
<1>12. NotIn(x, toBroker) /\ NotIn(x, toPage)
  BY <1>7, <1>8, <1>10 DEF NotIn, Outstanding, AllOpen
<1> HIDE DEF x
<1>13. Outstanding(promises', Append(toBroker, x), toPage)
  BY <1>2, <1>9, <1>10, <1>11, <1>12, RequestSent
<1>14. Outstanding(promises', toBroker', toPage')
  BY <1>1, <1>9, <1>13
<1> QED  BY <1>1, <1>6, <1>14 DEF Calls, DiscardedWereLate

(* An answer for a number in the map resolves its own call, which is open: *)
(* from this step everything about promises follows.                       *)
LEMMA AnswerMatches ==
  ASSUME Types, Linked, Calls, Arrives({"answer"}), NEW nr, nr = Head(toPage).nr
  PROVE  /\ link # "down" /\ nr \in Nat \cup {Status}
         /\ nr = Status => Head(toPage).call = 0
         /\ nr # Status => Concerns(Head(toPage)) /\ OfOpenCall(promises, Head(toPage))
         /\ nr \in Nat /\ nr \in DOMAIN mqtt_topicMap =>
              mqtt_topicMap[nr] = Head(toPage).call
         /\ Outstanding(promises, toBroker, Tail(toPage))
         /\ NotIn(Head(toPage), Tail(toPage)) /\ NotIn(Head(toPage), toBroker)
<1>1. /\ toPage \in Seq(ToPage) /\ toPage # <<>> /\ Head(toPage) = toPage[1]
      /\ Head(toPage) \in ToPage /\ Head(toPage).kind = "answer"
  BY TakeFirst DEF Types, Arrives
<1>2. link # "down"
  BY <1>1 DEF Linked
<1>3. nr \in Nat \cup {Status}
  BY <1>1, Kinds
<1>4. /\ Outstanding(promises, toBroker, Tail(toPage))
      /\ NotIn(toPage[1], Tail(toPage)) /\ NotIn(toPage[1], toBroker)
      /\ Concerns(toPage[1]) => OfOpenCall(promises, toPage[1])
      /\ toPage[1].kind = "answer" /\ toPage[1].nr = Status => toPage[1].call = 0
  BY <1>1, AnswerTaken DEF Calls
<1>5. nr # Status => Concerns(Head(toPage))
  BY <1>1 DEF Concerns
<1>6. nr \in Nat => nr # Status
  BY DEF Status
<1>7. nr \in Nat /\ nr \in DOMAIN mqtt_topicMap => mqtt_topicMap[nr] = Head(toPage).call
  BY <1>1, <1>2, <1>4, <1>5, <1>6 DEF Calls, Numbered, OfOpenCall
<1> QED  BY <1>1, <1>2, <1>3, <1>4, <1>5, <1>7

(* The answer takes the entry and the timer of its call with it.           *)
LEMMA RxAnswerCalls ==
  ASSUME Types, Linked, Calls, RxAnswer
  PROVE  Calls'
<1> DEFINE p == Head(toPage)
           nr == p.nr
<1>1. /\ Arrives({"answer"}) /\ nr \in DOMAIN mqtt_topicMap
      /\ toPage' = Tail(toPage)
      /\ UNCHANGED <<link, toBroker, mqtt_topicIndex, expired, dropped>>
  BY DEF RxAnswer, Arrives
<1>2. /\ link # "down" /\ nr \in Nat \cup {Status}
      /\ nr # Status => Concerns(p) /\ OfOpenCall(promises, p)
      /\ nr \in Nat => mqtt_topicMap[nr] = p.call
      /\ Outstanding(promises, toBroker, Tail(toPage))
      /\ NotIn(p, Tail(toPage)) /\ NotIn(p, toBroker)
  BY <1>1, AnswerMatches
<1>3. CASE nr = Status
  <2>1. UNCHANGED <<timers, promises, mqtt_topicMap>>
    BY <1>3 DEF RxAnswer, Status
  <2>2. Numbered'
    BY <1>1, <2>1 DEF Calls, Numbered
  <2> QED  BY <1>1, <1>2, <2>1, <2>2 DEF Calls, DiscardedWereLate
<1>4. CASE nr # Status
  <2>1. nr \in Nat /\ nr >= 0
    BY <1>2, <1>4
  <2>2. /\ p.call = nr + 1 /\ p.call \in DOMAIN promises /\ promises[p.call] = Open
        /\ Concerns(p)
    BY <1>2, <1>4 DEF OfOpenCall
  <2>3. /\ timers' \subseteq timers
        /\ promises' = [promises EXCEPT ![p.call] = p.call]
        /\ mqtt_topicMap' = Without(mqtt_topicMap, nr)
    BY <1>2, <2>1 DEF RxAnswer
  <2> HIDE DEF p
  <2>4. /\ promises \in Seq({Rejected} \cup Nat) /\ Len(promises) \in Nat
        /\ DOMAIN promises = 1..Len(promises)
    BY DEF Types
  <2>5. /\ DOMAIN promises' = DOMAIN promises /\ Len(promises') = Len(promises)
        /\ promises'[p.call] # Open
        /\ \A c \in DOMAIN promises : c # p.call => promises'[c] = promises[c]
    BY <2>1, <2>2, <2>3, <2>4 DEF Open
  <2>6. /\ DOMAIN mqtt_topicMap' = DOMAIN mqtt_topicMap \ {nr}
        /\ \A k \in DOMAIN mqtt_topicMap' : mqtt_topicMap'[k] = mqtt_topicMap[k]
    BY <2>3 DEF Without
  <2>7. \A k \in Nat \cap DOMAIN mqtt_topicMap : k + 1 \in DOMAIN promises
    BY <1>2 DEF Types, MapOK, Calls, Numbered
  <2>8. Numbered'
    <3>1. ASSUME NEW k \in Nat \cap DOMAIN mqtt_topicMap'
          PROVE  mqtt_topicMap'[k] = k + 1 /\ promises'[k + 1] = Open
      <4>1. k + 1 # p.call /\ k + 1 \in DOMAIN promises
        BY <2>1, <2>2, <2>6, <2>7
      <4> QED  BY <1>2, <2>5, <2>6, <4>1 DEF Calls, Numbered
    <3>2. ASSUME NEW c \in DOMAIN promises'
          PROVE  c - 1 \in DOMAIN mqtt_topicMap' \/ c \in expired' \/ promises'[c] # Open
      <4>1. CASE c = p.call
        BY <2>5, <4>1
      <4>2. CASE c # p.call
        <5>1. c - 1 # nr
          BY <2>1, <2>2, <2>4, <2>5, <4>2
        <5> QED  BY <1>1, <1>2, <2>5, <2>6, <4>2, <5>1 DEF Calls, Numbered
      <4> QED  BY <4>1, <4>2
    <3> QED  BY <1>1, <1>2, <2>3, <2>5, <3>1, <3>2 DEF Calls, Numbered
  <2>9. \A x : OfOpenCall(promises, x) /\ x.call # p.call => OfOpenCall(promises', x)
    BY <2>5 DEF OfOpenCall
  <2>10. Outstanding(promises', toBroker, Tail(toPage))
    BY <1>2, <2>2, <2>9, PromisesMove DEF NotIn
  <2> QED  BY <1>1, <2>8, <2>10 DEF Calls, DiscardedWereLate
<1> QED  BY <1>3, <1>4

(* An answer thrown away is one whose call is still open and whose entry   *)
(* is gone: its timer has fired.                                           *)
LEMMA RxDiscardCalls ==
  ASSUME Types, Linked, Calls, RxDiscard
  PROVE  Calls'
<1> DEFINE p == Head(toPage)
<1>1. /\ Arrives({"answer"}) /\ p.nr \notin DOMAIN mqtt_topicMap
      /\ toPage' = Tail(toPage) /\ dropped' = dropped \cup {p.call}
      /\ UNCHANGED <<link, toBroker, mqtt_topicIndex, expired, timers, promises, mqtt_topicMap>>
  BY DEF RxDiscard, Arrives
<1>2. /\ link # "down" /\ p.nr \in Nat \cup {Status}
      /\ p.nr = Status => p.call = 0
      /\ p.nr # Status => OfOpenCall(promises, p)
      /\ Outstanding(promises, toBroker, Tail(toPage))
  BY <1>1, AnswerMatches
<1>3. p.call \in expired \cup {0}
  <2>1. CASE p.nr = Status
    BY <1>2, <2>1
  <2>2. CASE p.nr # Status
    <3>1. /\ p.nr \in Nat /\ p.call = p.nr + 1 /\ p.call \in DOMAIN promises
          /\ promises[p.call] = Open
      BY <1>2, <2>2 DEF OfOpenCall
    <3>2. p.call - 1 = p.nr
      BY <3>1
    <3> QED  BY <1>1, <1>2, <3>1, <3>2 DEF Calls, Numbered
  <2> QED  BY <2>1, <2>2
<1>4. Numbered'
  BY <1>1 DEF Calls, Numbered
<1> QED  BY <1>1, <1>2, <1>3, <1>4 DEF Calls, DiscardedWereLate
(* A timer takes the entry of its own call away.                           *)
LEMMA TimeoutCalls ==
  ASSUME Types, Linked, Calls, Timeout
  PROVE  Calls'
<1>1. PICK t \in timers :
        /\ timers' = timers \ {t} /\ mqtt_topicMap' = Without(mqtt_topicMap, t.nr)
        /\ expired' = expired \cup {t.call}
  BY DEF Timeout
<1>2. UNCHANGED <<mqtt_topicIndex, promises, dropped, link, toBroker, toPage>>
  BY DEF Timeout, wire
<1>3. t.nr \in Nat
  BY DEF Types, Timer
<1>4. /\ DOMAIN mqtt_topicMap' = DOMAIN mqtt_topicMap \ {t.nr}
      /\ \A k \in DOMAIN mqtt_topicMap' : mqtt_topicMap'[k] = mqtt_topicMap[k]
  BY <1>1 DEF Without
<1>5. ASSUME link # "down", NEW c \in DOMAIN promises
      PROVE  c - 1 \in DOMAIN mqtt_topicMap' \/ c \in expired' \/ promises[c] # Open
  <2>1. c - 1 \in DOMAIN mqtt_topicMap \/ c \in expired \/ promises[c] # Open
    BY <1>5 DEF Calls, Numbered
  <2>2. c - 1 = t.nr => c = t.call
    <3>1. t.call = t.nr + 1 /\ c \in Nat
      BY <1>5 DEF Calls, Numbered, Types
    <3> QED  BY <1>3, <3>1
  <2> QED  BY <1>1, <1>4, <2>1, <2>2
<1>6. Numbered'
  BY <1>1, <1>2, <1>4, <1>5 DEF Calls, Numbered
<1> QED  BY <1>1, <1>2, <1>6 DEF Calls, DiscardedWereLate

(* Every step keeps the calls and what is under way for them in order.     *)
LEMMA CallsStep == Types /\ Linked /\ Calls /\ [Next]_vars => Calls'
<1> SUFFICES ASSUME Types, Linked, Calls, [Next]_vars PROVE Calls'
  OBVIOUS
<1> USE DEF page, wire
<1>0. /\ Numbered /\ Outstanding(promises, toBroker, toPage) /\ DiscardedWereLate
      /\ toBroker \in Seq(ToBroker) /\ toPage \in Seq(ToPage)
  BY DEF Calls, Types
<1>1. ASSUME UNCHANGED <<mqtt_topicIndex, promises, timers, expired, dropped, mqtt_topicMap>>,
             link' # "down" => link # "down",
             Outstanding(promises, toBroker', toPage')
      PROVE  Calls'
  <2>1. Numbered'
    BY <1>0, <1>1 DEF Numbered
  <2> QED  BY <1>0, <1>1, <2>1 DEF Calls, DiscardedWereLate
<1>2. CASE UNCHANGED vars
  BY <1>0, <1>1, <1>2 DEF vars
<1>3. CASE ConnectSucceeds
  <2>1. toBroker = <<>> /\ toBroker' = Append(toBroker, [kind |-> "subscribe", topic |-> Replies])
    BY <1>3 DEF ConnectSucceeds, Linked
  <2>2. [kind |-> "subscribe", topic |-> Replies] \in ToBroker
    BY DEF ToBroker, Subscription
  <2>3. Outstanding(promises, toBroker', toPage)
    BY <1>0, <2>1, <2>2, Unconcerned, RequestSent
  <2> QED  BY <1>1, <1>3, <2>3 DEF ConnectSucceeds
<1>4. CASE ConnectFails
  BY <1>0, <1>1, <1>4 DEF ConnectFails
<1>5. CASE ConnectionBreaks
  <2>1. PICK k \in 0..Len(toPage) : toPage' = SubSeq(toPage, 1, k)
    BY <1>5 DEF ConnectionBreaks
  <2>2. toBroker' = <<>>
    BY <1>5 DEF ConnectionBreaks
  <2>3. Apart(toPage') /\ AllOpen(toPage', promises) /\ StatusIn(toPage')
    BY <1>0, <2>1, KeepApart DEF Outstanding
  <2>4. Apart(toBroker') /\ AllOpen(toBroker', promises)
    BY <2>2 DEF Apart, AllOpen
  <2>5. Outstanding(promises, toBroker', toPage')
    BY <2>2, <2>3, <2>4 DEF Outstanding
  <2> QED  BY <1>1, <1>5, <2>5 DEF ConnectionBreaks
<1>6. CASE ConnectionLost
  <2>1. toPage' = <<>> /\ toBroker' = toBroker
    BY <1>6 DEF ConnectionLost
  <2>2. Outstanding(promises, toBroker', toPage')
    BY <1>0, <2>1 DEF Outstanding, Apart, AllOpen, StatusIn, NotIn
  <2> QED  BY <1>1, <1>6, <2>2 DEF ConnectionLost
<1>7. CASE SendThrows
  <2>1. link = "down" /\ toBroker = <<>> /\ toPage = <<>>
    BY <1>7 DEF SendThrows, Enter, Connected, Linked, Types, LinkStates
  <2>2. UNCHANGED <<link, toBroker, toPage, expired, dropped>>
    BY <1>7 DEF SendThrows, Enter
  <2>3. Outstanding(promises', toBroker', toPage')
    BY <2>1, <2>2 DEF Outstanding, Apart, AllOpen, StatusIn
  <2> QED  BY <1>0, <2>1, <2>2, <2>3 DEF Calls, Numbered, DiscardedWereLate
<1>8. ASSUME NEW v \in Bodies, Send(v) PROVE Calls'
  BY <1>8, SendCalls
<1>9. ASSUME NEW k, k \notin Nat,
             UNCHANGED <<mqtt_topicIndex, promises, timers, expired, dropped, wire>>,
             \/ mqtt_topicMap' = mqtt_topicMap
             \/ mqtt_topicMap' = With(mqtt_topicMap, k, Callback)
             \/ mqtt_topicMap' = Without(mqtt_topicMap, k)
      PROVE  Calls'
  <2>1. /\ Nat \cap DOMAIN mqtt_topicMap' = Nat \cap DOMAIN mqtt_topicMap
        /\ \A n \in Nat \cap DOMAIN mqtt_topicMap : mqtt_topicMap'[n] = mqtt_topicMap[n]
    BY <1>9, OtherKeys
  <2>2. Numbered'
    BY <1>0, <1>9, <2>1, NumbersStay
  <2> QED  BY <1>0, <1>9, <2>2 DEF Calls, DiscardedWereLate
<1>10. CASE SetStatusCallback
  <2>1. Status \notin Nat
    BY DEF Status
  <2> QED  BY <1>9, <1>10, <2>1 DEF SetStatusCallback
<1>11. ASSUME NEW t \in Topics, SetCallback(t) \/ DeleteCallback(t) PROVE Calls'
  <2>1. PICK x \in ToBroker : x.kind \notin {"request", "answer"} /\ Transmit(x)
    <3>1. /\ [kind |-> "subscribe", topic |-> t] \in ToBroker
          /\ [kind |-> "unsubscribe", topic |-> t] \in ToBroker
      BY DEF ToBroker, Subscription
    <3> QED  BY <1>11, <3>1 DEF SetCallback, DeleteCallback
  <2>2. Outstanding(promises, Append(toBroker, x), toPage)
    BY <1>0, <2>1, Unconcerned, RequestSent
  <2>3. Outstanding(promises, toBroker', toPage)
    BY <1>0, <2>1, <2>2 DEF Transmit
  <2> QED  BY <1>1, <1>11, <2>3 DEF SetCallback, DeleteCallback
<1>12. CASE RxAnswer
  BY <1>12, RxAnswerCalls
<1>13. CASE RxDiscard
  BY <1>13, RxDiscardCalls
<1>14. CASE RxNotice \/ RxAcknowledgement
  <2>1. toPage # <<>> /\ toPage' = Tail(toPage) /\ UNCHANGED <<toBroker, promises>>
    BY <1>14 DEF RxNotice, RxAcknowledgement, Arrives
  <2>2. Outstanding(promises, toBroker', toPage')
    BY <1>0, <2>1, AnswerTaken
  <2> QED  BY <1>1, <1>14, <2>2 DEF RxNotice, RxAcknowledgement, Arrives
<1>15. CASE Resume
  <2> DEFINE t == Head(resumed).topic
  <2>1. Head(resumed) \in Acknowledgement
    BY <1>15, TakeFirst DEF Resume, Types
  <2>2. t \in Topics \cup {Replies}
    BY <2>1 DEF Acknowledgement
  <2>3. t # Replies => t \notin Nat
    BY <2>2, MqttFetchAssumption
  <2>4. UNCHANGED <<mqtt_topicIndex, promises, timers, expired, dropped, wire>>
    BY <1>15 DEF Resume
  <2>5. CASE t = Replies
    <3>1. mqtt_topicMap' = mqtt_topicMap
      BY <1>15, <2>5 DEF Resume
    <3> QED  BY <1>0, <1>1, <2>4, <3>1
  <2>6. CASE t # Replies
    <3>1. \/ mqtt_topicMap' = With(mqtt_topicMap, t, Callback)
          \/ mqtt_topicMap' = Without(mqtt_topicMap, t)
      BY <1>15, <2>6 DEF Resume
    <3> QED  BY <1>9, <2>3, <2>4, <2>6, <3>1
  <2> QED  BY <2>5, <2>6
<1>16. CASE Timeout
  BY <1>16, TimeoutCalls
<1>17. ASSUME NEW kind, Handles(kind)
       PROVE  /\ toBroker \in Seq(ToBroker) /\ toBroker # <<>>
              /\ toBroker' = Tail(toBroker) /\ toBroker[1].kind = kind
              /\ Head(toBroker) = toBroker[1] /\ toBroker[1] \in ToBroker
              /\ Outstanding(promises, Tail(toBroker), toPage)
              /\ UNCHANGED <<page, link>>
  BY <1>0, <1>17, TakeFirst, RequestTaken DEF Handles
<1>18. CASE BrokerSubscribes \/ BrokerRefuses \/ BrokerUnsubscribes
  <2>1. PICK kind \in {"subscribe", "unsubscribe"} : Handles(kind)
    BY <1>18 DEF BrokerSubscribes, BrokerRefuses, BrokerUnsubscribes
  <2>2. toBroker[1].topic \in Topics \cup {Replies} /\ Head(toBroker) = toBroker[1]
    BY <1>17, <2>1, Kinds
  <2>3. PICK x \in ToPage : x.kind \notin {"request", "answer"} /\ toPage' = Append(toPage, x)
    <3>1. /\ [kind |-> "subscribed", topic |-> Head(toBroker).topic] \in ToPage
          /\ [kind |-> "refused", topic |-> Head(toBroker).topic] \in ToPage
          /\ [kind |-> "unsubscribed", topic |-> Head(toBroker).topic] \in ToPage
      BY <2>2 DEF ToPage, Acknowledgement
    <3> QED  BY <1>18, <3>1 DEF BrokerSubscribes, BrokerRefuses, BrokerUnsubscribes
  <2>4. Outstanding(promises, toBroker', toPage')
    BY <1>0, <1>17, <2>1, <2>3, Unconcerned, AnswerSent
  <2> QED  BY <1>1, <1>17, <2>1, <2>4
<1>19. CASE BrokerIgnores
  <2>1. Handles("request") /\ toPage' = toPage
    BY <1>19 DEF BrokerIgnores
  <2> QED  BY <1>1, <1>17, <2>1
<1>20. ASSUME NEW v \in Bodies, BrokerAnswers(v) PROVE Calls'
  <2> DEFINE x == [kind |-> "answer", nr |-> Head(toBroker).nr, call |-> Head(toBroker).call,
                   body |-> v]
  <2>1. Handles("request") /\ toPage' = Append(toPage, x)
    BY <1>20 DEF BrokerAnswers
  <2>2. /\ toBroker # <<>> /\ toBroker[1].kind = "request" /\ Head(toBroker) = toBroker[1]
        /\ toBroker[1].nr \in Nat /\ toBroker[1].call \in Nat
        /\ toBroker' = Tail(toBroker) /\ UNCHANGED <<page, link>>
    BY <1>17, <2>1, Kinds
  <2>3. /\ x \in ToPage /\ x.kind = "answer" /\ x.nr = toBroker[1].nr /\ x.call = toBroker[1].call
        /\ x.nr # Status
    BY <2>2 DEF ToPage, Answer, Status
  <2>4. Concerns(toBroker[1]) /\ Concerns(x)
    BY <2>2, <2>3 DEF Concerns
  <2>5. /\ Outstanding(promises, Tail(toBroker), toPage)
        /\ NotIn(toBroker[1], Tail(toBroker)) /\ NotIn(toBroker[1], toPage)
        /\ OfOpenCall(promises, toBroker[1])
    BY <1>0, <2>2, <2>4, RequestTaken
  <2> HIDE DEF x
  <2>6. /\ NotIn(x, Tail(toBroker)) /\ NotIn(x, toPage) /\ OfOpenCall(promises, x)
    BY <2>3, <2>4, <2>5 DEF NotIn, OfOpenCall
  <2>7. Outstanding(promises, Tail(toBroker), Append(toPage, x))
    BY <1>0, <2>3, <2>5, <2>6, AnswerSent
  <2> QED  BY <1>1, <2>1, <2>2, <2>7
<1>21. ASSUME NEW v \in Bodies, BrokerSendsStatus(v) PROVE Calls'
  <2> DEFINE x == [kind |-> "answer", nr |-> Status, call |-> 0, body |-> v]
  <2>1. toPage' = Append(toPage, x) /\ UNCHANGED <<page, link, toBroker>>
    BY <1>21 DEF BrokerSendsStatus
  <2>2. /\ x \in ToPage /\ x.call = 0 /\ ~Concerns(x)
    BY DEF ToPage, Answer, Concerns
  <2> HIDE DEF x
  <2>3. Outstanding(promises, toBroker, Append(toPage, x))
    BY <1>0, <2>2, AnswerSent DEF NotIn
  <2> QED  BY <1>1, <2>1, <2>3
<1>22. ASSUME NEW t \in Topics, NEW v \in Bodies, BrokerPublishes(t, v) PROVE Calls'
  <2> DEFINE x == [kind |-> "notice", topic |-> t, body |-> v]
  <2>1. toPage' = Append(toPage, x) /\ UNCHANGED <<page, link, toBroker>>
    BY <1>22 DEF BrokerPublishes
  <2>2. x \in ToPage /\ x.kind \notin {"request", "answer"}
    BY DEF ToPage, Notice
  <2> HIDE DEF x
  <2>3. Outstanding(promises, toBroker, Append(toPage, x))
    BY <1>0, <2>2, Unconcerned, AnswerSent
  <2> QED  BY <1>1, <2>1, <2>3
<1> QED
  BY <1>2, <1>3, <1>4, <1>5, <1>6, <1>7, <1>8, <1>10, <1>11, <1>12, <1>13, <1>14, <1>15,
     <1>16, <1>18, <1>19, <1>20, <1>21, <1>22
     DEF Next, Callbacks, Rx, Broker

(* The inductive invariant behind the promises.                            *)
THEOREM CallsInvariant == Spec => [](Types /\ Linked /\ Calls)
BY TypeInit, TypeStep, LinkedStep, CallsInit, CallsStep, PTL DEF Spec

(* Only answers whose timer has fired, and status messages nobody listens  *)
(* to, are thrown away.                                                    *)
THEOREM DiscardedCorrect == Spec => []DiscardedWereLate
<1>1. Calls => DiscardedWereLate
  BY DEF Calls
<1> QED  BY <1>1, CallsInvariant, PTL

(* The promise of a call is fulfilled by the answer to that very call, at  *)
(* most once, and only while it is open.                                   *)
THEOREM RequestsCorrect == Spec => ImplementsRequests
<1>1. Init => Layer!Init
  BY DEF Init, Layer!Init
<1>2. Types /\ Linked /\ Calls /\ [Next]_vars => [Layer!Next]_promises
  <2> SUFFICES ASSUME Types, Linked, Calls, [Next]_vars, promises' # promises
               PROVE  Layer!Next
    OBVIOUS
  <2> USE DEF page, wire
  <2>1. ASSUME NEW p \in {Open, Rejected}, Enter(p) PROVE Layer!Next
    BY <2>1 DEF Enter, Open, Rejected, Layer!Next, Layer!Call, Layer!Open, Layer!Rejected
  <2>2. CASE RxAnswer
    <3> DEFINE p == Head(toPage)
    <3>1. Arrives({"answer"}) /\ p.nr \in DOMAIN mqtt_topicMap /\ p.nr >= 0
      BY <2>2 DEF RxAnswer
    <3>2. p.nr \in Nat /\ p.nr # Status
      BY <3>1, AnswerMatches DEF Status
    <3>3. /\ OfOpenCall(promises, p) /\ mqtt_topicMap[p.nr] = p.call
      BY <3>1, <3>2, AnswerMatches
    <3>4. promises' = [promises EXCEPT ![p.call] = p.call]
      BY <2>2, <3>1, <3>3 DEF RxAnswer
    <3> QED
      BY <3>3, <3>4 DEF OfOpenCall, Open, Layer!Next, Layer!Answer, Layer!Open
  <2>3. ASSUME ~RxAnswer, \A p \in {Open, Rejected} : ~Enter(p) PROVE promises' = promises
    BY <2>3 DEF vars, Next, Callbacks, Rx, Broker, ConnectSucceeds, ConnectFails, ConnectionBreaks,
                ConnectionLost, SendThrows, Send, SetStatusCallback, SetCallback, DeleteCallback,
                RxDiscard, RxNotice, RxAcknowledgement, Resume, Timeout, BrokerSubscribes,
                BrokerRefuses, BrokerUnsubscribes, BrokerIgnores, BrokerAnswers, BrokerSendsStatus,
                BrokerPublishes, Handles
  <2> QED  BY <2>1, <2>2, <2>3
<1> QED  BY <1>1, <1>2, CallsInvariant, PTL DEF Spec, Layer!Spec, ImplementsRequests
-----------------------------------------------------------------------------
(* Callbacks                                                               *)

(* What a queue says of t when its first packet has been taken.            *)
LEMMA HearTail ==
  ASSUME NEW S, NEW q \in Seq(S), q # <<>>, NEW t, NEW k \in Nat
  PROVE  /\ Confirms(q[1], t) =>
              (ConfirmedIn(q, t, k + 1) <=> ConfirmedIn(Tail(q), t, k) \/ SilentIn(Tail(q), t, k))
         /\ ~Confirms(q[1], t) => (ConfirmedIn(q, t, k + 1) <=> ConfirmedIn(Tail(q), t, k))
         /\ SilentIn(q, t, k + 1) <=>
              ~Confirms(q[1], t) /\ ~Revokes(q[1], t) /\ SilentIn(Tail(q), t, k)
<1> DEFINE r == Tail(q)
<1>1. /\ 1 \in DOMAIN q /\ DOMAIN q \subseteq Nat \ {0} /\ DOMAIN r \subseteq Nat \ {0}
      /\ \A i \in DOMAIN r : i + 1 \in DOMAIN q /\ r[i] = q[i + 1]
      /\ \A i \in DOMAIN q : i # 1 => i - 1 \in DOMAIN r /\ r[i - 1] = q[i]
  <2>1. /\ Len(q) \in Nat /\ Len(q) >= 1 /\ DOMAIN q = 1..Len(q)
        /\ DOMAIN r = 1..(Len(q) - 1)
        /\ \A i \in DOMAIN r : i + 1 \in DOMAIN q /\ r[i] = q[i + 1]
    BY TakeFirst
  <2> HIDE DEF r
  <2>2. ASSUME NEW i \in DOMAIN q, i # 1 PROVE i - 1 \in DOMAIN r /\ r[i - 1] = q[i]
    <3>1. i - 1 \in DOMAIN r
      BY <2>1, <2>2
    <3>2. r[i - 1] = q[(i - 1) + 1] /\ (i - 1) + 1 = i
      BY <2>1, <3>1
    <3> QED  BY <3>1, <3>2
  <2> QED  BY <2>1, <2>2
<1> HIDE DEF r
<1>2. ConfirmedIn(r, t, k) => ConfirmedIn(q, t, k + 1)
  <2> SUFFICES ASSUME NEW i \in DOMAIN r, i <= k, Confirms(r[i], t),
                      \A j \in DOMAIN r : i < j /\ j <= k => ~Revokes(r[j], t)
               PROVE  ConfirmedIn(q, t, k + 1)
    BY DEF ConfirmedIn
  <2>1. i + 1 \in DOMAIN q /\ i + 1 <= k + 1 /\ Confirms(q[i + 1], t)
    BY <1>1
  <2>2. ASSUME NEW j \in DOMAIN q, i + 1 < j, j <= k + 1 PROVE ~Revokes(q[j], t)
    <3>1. j - 1 \in DOMAIN r /\ i < j - 1 /\ j - 1 <= k /\ r[j - 1] = q[j]
      BY <1>1, <2>2
    <3> QED  BY <3>1
  <2> QED  BY <2>1, <2>2 DEF ConfirmedIn
<1>3. Confirms(q[1], t) /\ SilentIn(r, t, k) => ConfirmedIn(q, t, k + 1)
  <2> SUFFICES ASSUME Confirms(q[1], t), SilentIn(r, t, k),
                      NEW j \in DOMAIN q, 1 < j, j <= k + 1
               PROVE  ~Revokes(q[j], t)
    BY <1>1 DEF ConfirmedIn
  <2>1. j - 1 \in DOMAIN r /\ j - 1 <= k /\ r[j - 1] = q[j]
    BY <1>1
  <2> QED  BY <2>1 DEF SilentIn
<1>4. ASSUME ConfirmedIn(q, t, k + 1)
      PROVE  ConfirmedIn(r, t, k) \/ (Confirms(q[1], t) /\ SilentIn(r, t, k))
  <2>1. PICK i \in DOMAIN q : /\ i <= k + 1 /\ Confirms(q[i], t)
                              /\ \A j \in DOMAIN q : i < j /\ j <= k + 1 => ~Revokes(q[j], t)
    BY <1>4 DEF ConfirmedIn
  <2>2. CASE i # 1
    <3>1. i - 1 \in DOMAIN r /\ i - 1 <= k /\ Confirms(r[i - 1], t)
      BY <1>1, <2>1, <2>2
    <3>2. ASSUME NEW j \in DOMAIN r, i - 1 < j, j <= k PROVE ~Revokes(r[j], t)
      <4>1. j + 1 \in DOMAIN q /\ i < j + 1 /\ j + 1 <= k + 1 /\ r[j] = q[j + 1]
        BY <1>1, <3>2
      <4> QED  BY <2>1, <4>1
    <3> QED  BY <3>1, <3>2 DEF ConfirmedIn
  <2>3. CASE i = 1
    <3>1. ASSUME NEW j \in DOMAIN r, j <= k PROVE ~Revokes(r[j], t)
      <4>1. j + 1 \in DOMAIN q /\ i < j + 1 /\ j + 1 <= k + 1 /\ r[j] = q[j + 1]
        BY <1>1, <2>3, <3>1
      <4> QED  BY <2>1, <4>1
    <3>2. CASE \E j \in DOMAIN r : j <= k /\ Confirms(r[j], t)
      BY <3>1, <3>2 DEF ConfirmedIn
    <3>3. CASE \A j \in DOMAIN r : j <= k => ~Confirms(r[j], t)
      BY <2>1, <2>3, <3>1, <3>3 DEF SilentIn
    <3> QED  BY <3>2, <3>3
  <2> QED  BY <2>2, <2>3
<1>5. SilentIn(q, t, k + 1) <=> ~Confirms(q[1], t) /\ ~Revokes(q[1], t) /\ SilentIn(r, t, k)
  <2>1. ASSUME SilentIn(q, t, k + 1)
        PROVE  ~Confirms(q[1], t) /\ ~Revokes(q[1], t) /\ SilentIn(r, t, k)
    <3>1. 1 <= k + 1
      OBVIOUS
    <3>2. \A j \in DOMAIN r : j <= k => j + 1 <= k + 1
      BY <1>1
    <3> QED  BY <1>1, <2>1, <3>1, <3>2 DEF SilentIn
  <2>2. ASSUME ~Confirms(q[1], t), ~Revokes(q[1], t), SilentIn(r, t, k),
               NEW j \in DOMAIN q, j <= k + 1
        PROVE  ~Confirms(q[j], t) /\ ~Revokes(q[j], t)
    <3>1. j # 1 => j - 1 \in DOMAIN r /\ j - 1 <= k /\ r[j - 1] = q[j]
      BY <1>1, <2>2
    <3> QED  BY <2>2, <3>1 DEF SilentIn
  <2> QED  BY <2>1, <2>2 DEF SilentIn
<1> QED  BY <1>2, <1>3, <1>4, <1>5 DEF r

(* What queues with the same first k packets say of t is the same.         *)
LEMMA HearSame ==
  ASSUME NEW q, NEW r, NEW t, NEW k,
         \A i : i \in DOMAIN q /\ i <= k <=> i \in DOMAIN r /\ i <= k,
         \A i \in DOMAIN q : i <= k => r[i] = q[i]
  PROVE  /\ ConfirmedIn(r, t, k) <=> ConfirmedIn(q, t, k)
         /\ SilentIn(r, t, k) <=> SilentIn(q, t, k)
BY DEF ConfirmedIn, SilentIn

(* What a queue says of t when a packet has been put at its end.           *)
LEMMA HearAppend ==
  ASSUME NEW S, NEW q \in Seq(S), NEW p \in S, NEW t
  PROVE  /\ \A k \in DOMAIN q :
              /\ ConfirmedIn(Append(q, p), t, k) <=> ConfirmedIn(q, t, k)
              /\ SilentIn(Append(q, p), t, k) <=> SilentIn(q, t, k)
         /\ ConfirmedIn(Append(q, p), t, Len(q) + 1) <=>
              Confirms(p, t) \/ (~Revokes(p, t) /\ ConfirmedIn(q, t, Len(q)))
         /\ SilentIn(Append(q, p), t, Len(q) + 1) <=>
              ~Confirms(p, t) /\ ~Revokes(p, t) /\ SilentIn(q, t, Len(q))
<1> DEFINE r == Append(q, p)
           n == Len(q)
<1>1. /\ n \in Nat /\ DOMAIN q = 1..n /\ DOMAIN r = 1..(n + 1)
      /\ \A i \in DOMAIN q : r[i] = q[i]
      /\ r[n + 1] = p
  BY PutLast
<1> HIDE DEF r, n
<1>2. ASSUME NEW k \in DOMAIN q
      PROVE  /\ ConfirmedIn(r, t, k) <=> ConfirmedIn(q, t, k)
             /\ SilentIn(r, t, k) <=> SilentIn(q, t, k)
  <2>1. \A i : i \in DOMAIN q /\ i <= k <=> i \in DOMAIN r /\ i <= k
    BY <1>1
  <2>2. \A i \in DOMAIN q : i <= k => r[i] = q[i]
    BY <1>1
  <2> QED  BY <2>1, <2>2, HearSame
<1>3. ~(Confirms(p, t) /\ Revokes(p, t))
  BY DEF Confirms, Revokes
<1>4. ConfirmedIn(r, t, n + 1) =>
        Confirms(p, t) \/ (~Revokes(p, t) /\ ConfirmedIn(q, t, n))
  <2> SUFFICES ASSUME NEW i \in DOMAIN r, Confirms(r[i], t), ~Confirms(p, t),
                      \A j \in DOMAIN r : i < j /\ j <= n + 1 => ~Revokes(r[j], t)
               PROVE  ~Revokes(p, t) /\ ConfirmedIn(q, t, n)
    BY DEF ConfirmedIn
  <2>1. i # n + 1
    BY <1>1
  <2>2. i \in DOMAIN q /\ i <= n /\ i < n + 1 /\ n + 1 \in DOMAIN r /\ n + 1 <= n + 1
    BY <1>1, <2>1
  <2>3. ~Revokes(p, t)
    BY <1>1, <2>2
  <2>4. \A j \in DOMAIN q : j \in DOMAIN r /\ j <= n + 1
    BY <1>1
  <2>5. ConfirmedIn(q, t, n)
    BY <1>1, <2>2, <2>4 DEF ConfirmedIn
  <2> QED  BY <2>3, <2>5
<1>5. Confirms(p, t) => ConfirmedIn(r, t, n + 1)
  <2>1. n + 1 \in DOMAIN r /\ n + 1 <= n + 1 /\ \A j \in DOMAIN r : ~(n + 1 < j)
    BY <1>1
  <2> QED  BY <1>1, <2>1 DEF ConfirmedIn
<1>6. ~Revokes(p, t) /\ ConfirmedIn(q, t, n) => ConfirmedIn(r, t, n + 1)
  <2> SUFFICES ASSUME ~Revokes(p, t), NEW i \in DOMAIN q, Confirms(q[i], t),
                      \A j \in DOMAIN q : i < j /\ j <= n => ~Revokes(q[j], t)
               PROVE  ConfirmedIn(r, t, n + 1)
    BY DEF ConfirmedIn
  <2>1. i \in DOMAIN r /\ i <= n + 1 /\ Confirms(r[i], t)
    BY <1>1
  <2>2. ASSUME NEW j \in DOMAIN r, i < j PROVE ~Revokes(r[j], t)
    <3>1. CASE j = n + 1
      BY <1>1, <3>1
    <3>2. CASE j # n + 1
      <4>1. j \in DOMAIN q /\ j <= n
        BY <1>1, <3>2
      <4> QED  BY <1>1, <2>2, <4>1
    <3> QED  BY <3>1, <3>2
  <2> QED  BY <2>1, <2>2 DEF ConfirmedIn
<1>7. SilentIn(r, t, n + 1) <=> ~Confirms(p, t) /\ ~Revokes(p, t) /\ SilentIn(q, t, n)
  <2>1. /\ n + 1 \in DOMAIN r /\ n + 1 <= n + 1
        /\ \A i \in DOMAIN q : i \in DOMAIN r /\ i <= n /\ i <= n + 1
        /\ \A i \in DOMAIN r : i \in DOMAIN q \/ i = n + 1
    BY <1>1
  <2> QED  BY <1>1, <2>1 DEF SilentIn
<1> QED  BY <1>2, <1>3, <1>4, <1>5, <1>6, <1>7 DEF r, n
(* With the continuations and the keys of the map that are topics the same,*)
(* the page has heard the same.                                            *)
LEMMA HeardStays ==
  ASSUME NEW t, UNCHANGED resumed, t \in DOMAIN mqtt_topicMap' <=> t \in DOMAIN mqtt_topicMap
  PROVE  Heard(t)' <=> Heard(t)
BY DEF Heard

(* A continuation does what its acknowledgement said.                      *)
LEMMA ResumeHeard ==
  ASSUME Types, Resume, NEW t \in Topics
  PROVE  Heard(t)' <=> Heard(t)
<1> DEFINE a == Head(resumed)
           n == Len(resumed)
<1>1. /\ resumed \in Seq(Acknowledgement) /\ resumed # <<>> /\ resumed' = Tail(resumed)
  BY DEF Types, Resume
<1>2. /\ n \in Nat /\ n >= 1 /\ Len(resumed') = n - 1 /\ n - 1 \in Nat /\ (n - 1) + 1 = n
      /\ a = resumed[1] /\ a \in Acknowledgement
  BY <1>1, TakeFirst
<1>3. t # Replies
  BY MqttFetchAssumption
<1>4. /\ Confirms(a, t) => t \in DOMAIN mqtt_topicMap'
      /\ Revokes(a, t) => t \notin DOMAIN mqtt_topicMap'
      /\ ~Confirms(a, t) /\ ~Revokes(a, t) =>
           (t \in DOMAIN mqtt_topicMap' <=> t \in DOMAIN mqtt_topicMap)
  BY <1>3 DEF Resume, With, Without, Confirms, Revokes
<1>5. ~(Confirms(a, t) /\ Revokes(a, t))
  BY DEF Confirms, Revokes
<1>6. /\ Confirms(a, t) =>
           (ConfirmedIn(resumed, t, n) <=>
              ConfirmedIn(resumed', t, n - 1) \/ SilentIn(resumed', t, n - 1))
      /\ ~Confirms(a, t) => (ConfirmedIn(resumed, t, n) <=> ConfirmedIn(resumed', t, n - 1))
      /\ SilentIn(resumed, t, n) <=>
           ~Confirms(a, t) /\ ~Revokes(a, t) /\ SilentIn(resumed', t, n - 1)
  BY <1>1, <1>2, HearTail
<1>7. Heard(t) <=> ConfirmedIn(resumed, t, n)
                   \/ (SilentIn(resumed, t, n) /\ t \in DOMAIN mqtt_topicMap)
  BY DEF Heard
<1>8. Heard(t)' <=> ConfirmedIn(resumed', t, n - 1)
                    \/ (SilentIn(resumed', t, n - 1) /\ t \in DOMAIN mqtt_topicMap')
  BY <1>2 DEF Heard
<1> HIDE DEF a
<1> QED  BY <1>4, <1>5, <1>6, <1>7, <1>8

(* A packet is taken: the page will hear the rest as it would have.        *)
LEMMA TakenTold ==
  ASSUME Types, Told, NEW kinds, Arrives(kinds), NEW p, p = Head(toPage),
         \A t \in Topics :
           Heard(t)' <=> Confirms(p, t) \/ (~Revokes(p, t) /\ Heard(t))
  PROVE  Told'
<1>1. /\ toPage \in Seq(ToPage) /\ toPage # <<>> /\ toPage' = Tail(toPage)
      /\ UNCHANGED <<link, subscriptions, refused>>
  BY DEF Types, Arrives
<1>2. /\ Len(toPage) \in Nat /\ Len(toPage') = Len(toPage) - 1
      /\ Len(toPage') \in Nat /\ Len(toPage') + 1 = Len(toPage)
      /\ p = toPage[1]
      /\ \A i \in DOMAIN toPage' :
           i \in Nat /\ i + 1 \in DOMAIN toPage /\ toPage'[i] = toPage[i + 1]
  BY <1>1, TakeFirst
<1>3. ASSUME NEW t \in Topics, NEW k \in Nat
      PROVE  (ConfirmedIn(toPage', t, k) \/ (SilentIn(toPage', t, k) /\ Heard(t)'))
               <=> (ConfirmedIn(toPage, t, k + 1) \/ (SilentIn(toPage, t, k + 1) /\ Heard(t)))
  <2>1. /\ Confirms(p, t) =>
             (ConfirmedIn(toPage, t, k + 1) <=>
                ConfirmedIn(toPage', t, k) \/ SilentIn(toPage', t, k))
        /\ ~Confirms(p, t) => (ConfirmedIn(toPage, t, k + 1) <=> ConfirmedIn(toPage', t, k))
        /\ SilentIn(toPage, t, k + 1) <=>
             ~Confirms(p, t) /\ ~Revokes(p, t) /\ SilentIn(toPage', t, k)
    BY <1>1, <1>2, HearTail
  <2>2. Heard(t)' <=> Confirms(p, t) \/ (~Revokes(p, t) /\ Heard(t))
    OBVIOUS
  <2> QED  BY <2>1, <2>2
<1>4. ASSUME NEW t \in Topics PROVE Expects(t)' <=> Expects(t)
  BY <1>2, <1>3 DEF Expects, Listening
<1>5. ASSUME NEW t \in Topics, NEW i \in DOMAIN toPage',
             toPage'[i].kind = "notice", toPage'[i].topic = t
      PROVE  Listening(t, i)'
  <2>1. i \in Nat /\ Listening(t, i + 1)
    BY <1>2, <1>5 DEF Told
  <2> QED  BY <1>3, <2>1 DEF Listening
<1> QED  BY <1>1, <1>4, <1>5 DEF Told

(* A packet is put at the end: the page will hear it last.                 *)
LEMMA PutTold ==
  ASSUME Types, Told, NEW x \in ToPage, toPage' = Append(toPage, x), UNCHANGED page,
         \A t \in Topics :
           link' = "up" => link = "up" /\
             (t \in subscriptions' \cup refused' <=>
                Confirms(x, t) \/ (~Revokes(x, t) /\ t \in subscriptions \cup refused)),
         x.kind = "notice" => link = "up" /\ x.topic \in subscriptions
  PROVE  Told'
<1> DEFINE n == Len(toPage)
<1>1. /\ toPage \in Seq(ToPage) /\ n \in Nat /\ Len(toPage') = n + 1
      /\ DOMAIN toPage = 1..n /\ DOMAIN toPage' = 1..(n + 1) /\ toPage'[n + 1] = x
      /\ \A i \in DOMAIN toPage : toPage'[i] = toPage[i]
  BY PutLast DEF Types
<1>2. \A t : Heard(t)' <=> Heard(t)
  BY HeardStays DEF page
<1>3. ASSUME NEW t
      PROVE  /\ \A k \in DOMAIN toPage :
                  /\ ConfirmedIn(toPage', t, k) <=> ConfirmedIn(toPage, t, k)
                  /\ SilentIn(toPage', t, k) <=> SilentIn(toPage, t, k)
             /\ ConfirmedIn(toPage', t, n + 1) <=>
                  Confirms(x, t) \/ (~Revokes(x, t) /\ ConfirmedIn(toPage, t, n))
             /\ SilentIn(toPage', t, n + 1) <=>
                  ~Confirms(x, t) /\ ~Revokes(x, t) /\ SilentIn(toPage, t, n)
  BY <1>1, HearAppend
<1>4. ASSUME NEW t
      PROVE  Expects(t)' <=> Confirms(x, t) \/ (~Revokes(x, t) /\ Expects(t))
  <2>1. ~(Confirms(x, t) /\ Revokes(x, t))
    BY DEF Confirms, Revokes
  <2>2. Expects(t) <=> ConfirmedIn(toPage, t, n) \/ (SilentIn(toPage, t, n) /\ Heard(t))
    BY DEF Expects, Listening
  <2>3. Expects(t)' <=> ConfirmedIn(toPage', t, n + 1)
                        \/ (SilentIn(toPage', t, n + 1) /\ Heard(t)')
    BY <1>1 DEF Expects, Listening
  <2> QED  BY <1>2, <1>3, <2>1, <2>2, <2>3
<1>5. ASSUME NEW t \in Topics, NEW i \in DOMAIN toPage',
             toPage'[i].kind = "notice", toPage'[i].topic = t
      PROVE  Listening(t, i)'
  <2>1. CASE i \in DOMAIN toPage
    <3>1. Listening(t, i)
      BY <1>1, <1>5, <2>1 DEF Told
    <3> QED  BY <1>2, <1>3, <2>1, <3>1 DEF Listening
  <2>2. CASE i = n + 1
    <3>1. x.kind = "notice" /\ x.topic = t
      BY <1>1, <1>5, <2>2
    <3>2. Expects(t) /\ ~Revokes(x, t)
      BY <3>1 DEF Told, Revokes
    <3>3. Expects(t)'
      BY <1>4, <3>2
    <3> QED  BY <1>1, <2>2, <3>3 DEF Expects, Listening
  <2> QED  BY <1>1, <2>1, <2>2
<1>6. ASSUME NEW t \in Topics, link' = "up" PROVE t \in subscriptions' \cup refused' <=> Expects(t)'
  <2>1. t \in subscriptions \cup refused <=> Expects(t)
    BY <1>6 DEF Told
  <2> QED  BY <1>4, <1>6, <2>1
<1> QED  BY <1>5, <1>6 DEF Told
(* At the start nobody listens to anything.                                *)
LEMMA ToldInit == Init => Told
BY DEF Init, Told, Expects, Listening, Heard, ConfirmedIn

(* Every step keeps what the page will hear in agreement with the broker.  *)
LEMMA ToldStep == Types /\ Linked /\ Told /\ [Next]_vars => Told'
<1> SUFFICES ASSUME Types, Linked, Told, [Next]_vars PROVE Told'
  OBVIOUS
<1> USE DEF page, wire
<1>1. ASSUME UNCHANGED <<toPage, subscriptions, refused>>, link' = "up" => link = "up",
             \A t \in Topics : Heard(t)' <=> Heard(t)
      PROVE  Told'
  <2>1. \A t \in Topics : Expects(t)' <=> Expects(t)
    BY <1>1 DEF Expects, Listening
  <2>2. ASSUME NEW t \in Topics, NEW i \in DOMAIN toPage,
               toPage[i].kind = "notice", toPage[i].topic = t
        PROVE  Listening(t, i)'
    <3>1. Listening(t, i)
      BY <2>2 DEF Told
    <3> QED  BY <1>1, <3>1 DEF Listening
  <2> QED  BY <1>1, <2>1, <2>2 DEF Told
<1>2. ASSUME UNCHANGED <<toPage, subscriptions, refused, resumed, link>>,
             \A t \in Topics : t \in DOMAIN mqtt_topicMap' <=> t \in DOMAIN mqtt_topicMap
      PROVE  Told'
  BY <1>1, <1>2, HeardStays
<1>3. ASSUME NEW t \in Topics, NEW k \in Int, NEW map, NEW entry
      PROVE  /\ t \in DOMAIN With(map, k, entry) <=> t \in DOMAIN map
             /\ t \in DOMAIN Without(map, k) <=> t \in DOMAIN map
  BY MqttFetchAssumption DEF With, Without
<1>4. CASE UNCHANGED vars
  BY <1>2, <1>4 DEF vars
<1>5. CASE ConnectSucceeds
  <2>1. /\ subscriptions' = {} /\ refused' = {} /\ toPage' = <<>> /\ resumed' = <<>>
        /\ DOMAIN mqtt_topicMap' = {}
    BY <1>5 DEF ConnectSucceeds, Linked
  <2>2. \A t \in Topics : ~Expects(t)'
    BY <2>1 DEF Expects, Listening, Heard, ConfirmedIn
  <2> QED  BY <2>1, <2>2 DEF Told
<1>6. CASE ConnectFails
  BY <1>1, <1>6, HeardStays DEF ConnectFails
<1>7. CASE ConnectionBreaks
  <2>1. PICK k \in 0..Len(toPage) : toPage' = SubSeq(toPage, 1, k)
    BY <1>7 DEF ConnectionBreaks
  <2>2. link' = "broken" /\ UNCHANGED page
    BY <1>7 DEF ConnectionBreaks
  <2>3. /\ DOMAIN toPage' = 1..k /\ k \in Nat /\ DOMAIN toPage \subseteq Nat \ {0}
        /\ \A i \in 1..k : i \in DOMAIN toPage /\ toPage'[i] = toPage[i]
    BY <2>1, KeepFirst DEF Types
  <2>4. ASSUME NEW t \in Topics, NEW i \in DOMAIN toPage',
               toPage'[i].kind = "notice", toPage'[i].topic = t
        PROVE  Listening(t, i)'
    <3>1. Listening(t, i)
      BY <2>3, <2>4 DEF Told
    <3>2. /\ \A j : j \in DOMAIN toPage /\ j <= i <=> j \in DOMAIN toPage' /\ j <= i
          /\ \A j \in DOMAIN toPage : j <= i => toPage'[j] = toPage[j]
      BY <2>3
    <3>3. /\ ConfirmedIn(toPage', t, i) <=> ConfirmedIn(toPage, t, i)
          /\ SilentIn(toPage', t, i) <=> SilentIn(toPage, t, i)
      BY <3>2, HearSame
    <3>4. Heard(t)' <=> Heard(t)
      BY <2>2, HeardStays
    <3> QED  BY <3>1, <3>3, <3>4 DEF Listening
  <2> QED  BY <2>2, <2>4 DEF Told
<1>8. CASE ConnectionLost
  BY <1>8 DEF ConnectionLost, Told
<1>9. CASE SendThrows \/ \E v \in Bodies : Send(v)
  <2>1. PICK call : mqtt_topicMap' = With(mqtt_topicMap, mqtt_topicIndex, call)
    BY <1>9 DEF SendThrows, Send, Enter
  <2>2. mqtt_topicIndex \in Int /\ UNCHANGED <<toPage, subscriptions, refused, resumed, link>>
    BY <1>9 DEF SendThrows, Send, Enter, Types
  <2> QED  BY <1>2, <1>3, <2>1, <2>2
<1>10. CASE SetStatusCallback
  <2>1. Status \in Int
    BY DEF Status
  <2> QED  BY <1>2, <1>3, <1>10, <2>1 DEF SetStatusCallback
<1>11. ASSUME NEW t \in Topics, SetCallback(t) \/ DeleteCallback(t) PROVE Told'
  BY <1>2, <1>11 DEF SetCallback, DeleteCallback
<1>12. CASE RxAnswer \/ RxDiscard \/ RxNotice
  <2>1. PICK kinds \in {{"answer"}, {"notice"}} : Arrives(kinds)
    BY <1>12 DEF RxAnswer, RxDiscard, RxNotice
  <2>2. \A t : ~Confirms(Head(toPage), t) /\ ~Revokes(Head(toPage), t)
    BY <2>1 DEF Arrives, Confirms, Revokes
  <2>3. \A t \in Topics : t \in DOMAIN mqtt_topicMap' <=> t \in DOMAIN mqtt_topicMap
    <3>1. CASE mqtt_topicMap' = mqtt_topicMap
      BY <3>1
    <3>2. CASE RxAnswer /\ mqtt_topicMap' # mqtt_topicMap
      <4>1. /\ Head(toPage) \in ToPage /\ Head(toPage).kind = "answer"
            /\ mqtt_topicMap' = Without(mqtt_topicMap, Head(toPage).nr)
        BY <3>2, ArrivesTypes DEF RxAnswer
      <4>2. Head(toPage).nr \in Int
        BY <4>1, Kinds DEF Status
      <4> QED  BY <1>3, <4>1, <4>2
    <3> QED  BY <1>12, <3>1, <3>2 DEF RxDiscard, RxNotice
  <2>4. UNCHANGED resumed
    BY <1>12 DEF RxAnswer, RxDiscard, RxNotice
  <2>5. \A t \in Topics : Heard(t)' <=> Heard(t)
    BY <2>3, <2>4, HeardStays
  <2> QED  BY <2>1, <2>2, <2>5, TakenTold
<1>13. CASE RxAcknowledgement
  <2> DEFINE p == Head(toPage)
             n == Len(resumed)
  <2>1. Arrives({"subscribed", "refused", "unsubscribed"}) /\ UNCHANGED mqtt_topicMap
    BY <1>13 DEF RxAcknowledgement
  <2>2. p \in Acknowledgement /\ resumed \in Seq(Acknowledgement) /\ resumed' = Append(resumed, p)
    BY <1>13, <2>1, ArrivesTypes, Kinds DEF RxAcknowledgement, Types
  <2> HIDE DEF p
  <2>3. Len(resumed') = n + 1
    BY <2>2, PutLast
  <2>4. ASSUME NEW t \in Topics
        PROVE  Heard(t)' <=> Confirms(p, t) \/ (~Revokes(p, t) /\ Heard(t))
    <3>1. /\ ConfirmedIn(resumed', t, n + 1) <=>
               Confirms(p, t) \/ (~Revokes(p, t) /\ ConfirmedIn(resumed, t, n))
          /\ SilentIn(resumed', t, n + 1) <=>
               ~Confirms(p, t) /\ ~Revokes(p, t) /\ SilentIn(resumed, t, n)
      BY <2>2, HearAppend
    <3>2. ~(Confirms(p, t) /\ Revokes(p, t))
      BY DEF Confirms, Revokes
    <3>3. Heard(t) <=> ConfirmedIn(resumed, t, n)
                       \/ (SilentIn(resumed, t, n) /\ t \in DOMAIN mqtt_topicMap)
      BY DEF Heard
    <3>4. Heard(t)' <=> ConfirmedIn(resumed', t, n + 1)
                        \/ (SilentIn(resumed', t, n + 1) /\ t \in DOMAIN mqtt_topicMap)
      BY <2>1, <2>3 DEF Heard
    <3> QED  BY <3>1, <3>2, <3>3, <3>4
  <2> QED  BY <2>1, <2>4, TakenTold DEF p
<1>14. CASE Resume
  <2>1. \A t \in Topics : Heard(t)' <=> Heard(t)
    BY <1>14, ResumeHeard
  <2> QED  BY <1>1, <1>14, <2>1 DEF Resume
<1>15. CASE Timeout
  <2>1. PICK t \in timers : mqtt_topicMap' = Without(mqtt_topicMap, t.nr)
    BY <1>15 DEF Timeout
  <2>2. t.nr \in Int
    BY DEF Types, Timer
  <2> QED  BY <1>2, <1>3, <1>15, <2>1, <2>2 DEF Timeout
<1>16. ASSUME Handles("subscribe") \/ Handles("unsubscribe")
       PROVE  /\ Head(toBroker).topic \in Topics \cup {Replies}
              /\ UNCHANGED <<page, link>> /\ link = "up"
  BY <1>16, HandlesTypes, Kinds DEF Handles
<1>17. CASE BrokerSubscribes
  <2> DEFINE x == [kind |-> "subscribed", topic |-> Head(toBroker).topic]
  <2>1. /\ toPage' = Append(toPage, x) /\ subscriptions' = subscriptions \cup {x.topic}
        /\ refused' = refused \ {x.topic} /\ x \in ToPage
    BY <1>16, <1>17 DEF BrokerSubscribes, ToPage, Acknowledgement
  <2>2. x.kind = "subscribed" /\ \A t : (Confirms(x, t) <=> t = x.topic) /\ ~Revokes(x, t)
    BY DEF Confirms, Revokes
  <2>3. UNCHANGED <<page, link>> /\ link = "up"
    BY <1>16, <1>17 DEF BrokerSubscribes
  <2> HIDE DEF x
  <2> QED  BY <2>1, <2>2, <2>3, PutTold
<1>18. CASE BrokerUnsubscribes
  <2> DEFINE x == [kind |-> "unsubscribed", topic |-> Head(toBroker).topic]
  <2>1. /\ toPage' = Append(toPage, x) /\ subscriptions' = subscriptions \ {x.topic}
        /\ refused' = refused \ {x.topic} /\ x \in ToPage
    BY <1>16, <1>18 DEF BrokerUnsubscribes, ToPage, Acknowledgement
  <2>2. x.kind = "unsubscribed" /\ \A t : (Revokes(x, t) <=> t = x.topic) /\ ~Confirms(x, t)
    BY DEF Confirms, Revokes
  <2>3. UNCHANGED <<page, link>> /\ link = "up"
    BY <1>16, <1>18 DEF BrokerUnsubscribes
  <2> HIDE DEF x
  <2> QED  BY <2>1, <2>2, <2>3, PutTold
<1>24. CASE BrokerRefuses
  <2> DEFINE x == [kind |-> "refused", topic |-> Head(toBroker).topic]
  <2>1. /\ toPage' = Append(toPage, x) /\ refused' = refused \cup {x.topic}
        /\ UNCHANGED subscriptions /\ x \in ToPage
    BY <1>16, <1>24 DEF BrokerRefuses, ToPage, Acknowledgement
  <2>2. x.kind = "refused" /\ \A t : (Confirms(x, t) <=> t = x.topic) /\ ~Revokes(x, t)
    BY DEF Confirms, Revokes
  <2>3. UNCHANGED <<page, link>> /\ link = "up"
    BY <1>16, <1>24 DEF BrokerRefuses
  <2> HIDE DEF x
  <2> QED  BY <2>1, <2>2, <2>3, PutTold
<1>19. CASE BrokerIgnores
  BY <1>2, <1>19 DEF BrokerIgnores, Handles
<1>20. ASSUME NEW x \in ToPage, x.kind \notin {"subscribed", "refused", "unsubscribed"},
              toPage' = Append(toPage, x), UNCHANGED <<page, link, subscriptions, refused>>,
              link = "up",
              x.kind = "notice" => x.topic \in subscriptions
       PROVE  Told'
  <2>1. \A t : ~Confirms(x, t) /\ ~Revokes(x, t)
    BY <1>20 DEF Confirms, Revokes
  <2> QED  BY <1>20, <2>1, PutTold
<1>21. ASSUME NEW v \in Bodies, BrokerAnswers(v) PROVE Told'
  <2> DEFINE x == [kind |-> "answer", nr |-> Head(toBroker).nr, call |-> Head(toBroker).call,
                   body |-> v]
  <2>1. /\ Handles("request") /\ toPage' = Append(toPage, x)
        /\ UNCHANGED <<subscriptions, refused>>
    BY <1>21 DEF BrokerAnswers
  <2>2. x \in ToPage
    BY <2>1, HandlesTypes, Kinds DEF ToPage, Answer
  <2> QED  BY <1>20, <2>1, <2>2 DEF Handles
<1>22. ASSUME NEW v \in Bodies, BrokerSendsStatus(v) PROVE Told'
  <2>1. [kind |-> "answer", nr |-> Status, call |-> 0, body |-> v] \in ToPage
    BY DEF ToPage, Answer
  <2> QED  BY <1>20, <1>22, <2>1 DEF BrokerSendsStatus
<1>23. ASSUME NEW t \in Topics, NEW v \in Bodies, BrokerPublishes(t, v) PROVE Told'
  <2>1. [kind |-> "notice", topic |-> t, body |-> v] \in ToPage
    BY DEF ToPage, Notice
  <2> QED  BY <1>20, <1>23, <2>1 DEF BrokerPublishes
<1> QED
  BY <1>4, <1>5, <1>6, <1>7, <1>8, <1>9, <1>10, <1>11, <1>12, <1>13, <1>14, <1>15, <1>17,
     <1>18, <1>19, <1>21, <1>22, <1>23, <1>24
     DEF Next, Callbacks, Rx, Broker

(* The inductive invariant behind the callbacks.                           *)
THEOREM ToldInvariant == Spec => [](Types /\ Linked /\ Told)
<1>1. Types /\ Linked /\ Told /\ [Next]_vars => Types' /\ Linked' /\ Told'
  BY TypeStep, LinkedStep, ToldStep
<1> QED  BY TypeInit, CallsInit, ToldInit, <1>1, PTL DEF Spec

(* With nothing under way for a topic, the page has a callback for it just *)
(* when the broker has it subscribed or refused to, whatever calls of      *)
(* set_callback and delete_callback overlapped.                            *)
THEOREM CallbacksAgreeCorrect == Spec => []CallbacksAgree
<1>1. Told => CallbacksAgree
  <2> SUFFICES ASSUME Told, NEW t \in Topics, link = "up", ~UnderWay(t)
               PROVE  t \in DOMAIN mqtt_topicMap <=> t \in subscriptions \cup refused
    BY DEF CallbacksAgree
  <2>1. \A k : SilentIn(toPage, t, k) /\ ~ConfirmedIn(toPage, t, k)
    BY DEF UnderWay, SilentIn, ConfirmedIn, Confirms, Revokes
  <2>2. \A k : SilentIn(resumed, t, k) /\ ~ConfirmedIn(resumed, t, k)
    BY DEF UnderWay, SilentIn, ConfirmedIn, Confirms, Revokes
  <2>3. Expects(t) <=> t \in DOMAIN mqtt_topicMap
    BY <2>1, <2>2 DEF Expects, Listening, Heard
  <2> QED  BY <2>3 DEF Told
<1> QED  BY <1>1, ToldInvariant, PTL

(* "Sollte nie passieren": when the broker puts each packet into a frame   *)
(* of its own, every message on a topic finds its callback.                *)
THEOREM NothingStrayCorrect ==
  ASSUME OnePerFrame
  PROVE  Spec => []NothingStray
<1>1. Init => NothingStray
  BY DEF Init, NothingStray
<1>2. Types /\ Linked /\ Told /\ NothingStray /\ [Next]_vars => NothingStray'
  <2> SUFFICES ASSUME Types, Told, NothingStray, [Next]_vars PROVE stray' = FALSE
    BY DEF NothingStray
  <2> USE DEF page, wire
  <2>1. stray = FALSE
    BY DEF NothingStray, Types
  <2>2. CASE RxNotice
    <3> DEFINE t == Head(toPage).topic
    <3>1. Arrives({"notice"}) /\ resumed = <<>>
      BY <2>2 DEF RxNotice, Arrives
    <3>2. /\ toPage \in Seq(ToPage) /\ toPage # <<>> /\ Head(toPage) \in ToPage
          /\ Head(toPage).kind = "notice"
      BY <3>1, ArrivesTypes DEF Types, Arrives
    <3>3. /\ t \in Topics /\ Head(toPage) = toPage[1] /\ 1 \in DOMAIN toPage
          /\ DOMAIN toPage \subseteq Nat \ {0}
      BY <3>2, Kinds, TakeFirst
    <3>4. Listening(t, 1)
      BY <3>2, <3>3 DEF Told
    <3>5. ~ConfirmedIn(toPage, t, 1)
      <4>1. \A i \in DOMAIN toPage : i <= 1 => i = 1
        BY <3>3
      <4> QED  BY <3>2, <3>3, <4>1 DEF ConfirmedIn, Confirms
    <3>6. ~ConfirmedIn(resumed, t, Len(resumed))
      BY <3>1 DEF ConfirmedIn
    <3>7. t \in DOMAIN mqtt_topicMap
      BY <3>4, <3>5, <3>6 DEF Listening, Heard
    <3> QED  BY <2>1, <2>2, <3>7 DEF RxNotice
  <2>3. CASE ~RxNotice
    BY <2>1, <2>3 DEF vars, Next, Callbacks, Rx, Broker, ConnectSucceeds, ConnectFails,
                ConnectionBreaks, ConnectionLost, SendThrows, Send, Enter, SetStatusCallback,
                SetCallback, DeleteCallback, RxAnswer, RxDiscard, RxAcknowledgement, Resume,
                Timeout, BrokerSubscribes, BrokerRefuses, BrokerUnsubscribes, BrokerIgnores,
                BrokerAnswers, BrokerSendsStatus, BrokerPublishes, Handles
  <2> QED  BY <2>2, <2>3
<1> QED  BY <1>1, <1>2, ToldInvariant, PTL DEF Spec
=============================================================================
