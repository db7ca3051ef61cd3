--------------------------- MODULE QueueSyncProof ---------------------------
(***************************************************************************)
(* Proofs about module QueueSync, for any number of articles, titles and   *)
(* writers, any size of the queue and of a tick, and any faults.           *)
(*                                                                         *)
(* First the types and the order of the messages through the queue and the *)
(* plugin's hands (Ordered), then where the page and the database will     *)
(* agree when what is under way has come (Settled).                        *)
(***************************************************************************)
EXTENDS QueueSync, TLAPS

(* Messages are numbered in the order they are sent, and leave the queue   *)
(* in that order: published before in hand before still in the queue.      *)
Ordered ==
  /\ \A i \in DOMAIN published : published[i] \in 1..sent
  /\ \A i \in DOMAIN queue : queue[i].ordinal \in 1..sent
  /\ \A i, j \in DOMAIN queue : i < j => queue[i].ordinal < queue[j].ordinal
  /\ \A i \in DOMAIN published, j \in DOMAIN queue : published[i] < queue[j].ordinal
  /\ tick = "publishing" =>
       /\ received < MaxPerTick
       /\ message.ordinal \in 1..sent
       /\ \A i \in DOMAIN published : published[i] < message.ordinal
       /\ \A j \in DOMAIN queue : message.ordinal < queue[j].ordinal

-----------------------------------------------------------------------------
(* Types and order                                                         *)

(* There is a setting to be out of scope.                                  *)
LEMMA Scope == NoSetting \in Setting /\ NoMessage \in Message
<1>1. \E s : s \in Setting
  <2>1. PICK a \in Articles, t \in Titles : TRUE
    BY QueueSyncAssumption
  <2>2. [article |-> a, title |-> t] \in Setting
    BY DEF Setting
  <2> QED  BY <2>2
<1>2. NoSetting \in Setting
  BY <1>1 DEF NoSetting
<1> QED  BY <1>2 DEF NoMessage, Message, Setting

(* What a receive does: the first message moves from the queue to the      *)
(* plugin's hands, the others move up.                                     *)
LEMMA Taken ==
  ASSUME TypeOK, Receive
  PROVE  /\ 1 \in DOMAIN queue /\ message' = queue[1]
         /\ queue' \in Seq(Message) /\ Len(queue') <= MaxMsg
         /\ \A i \in DOMAIN queue' : i + 1 \in DOMAIN queue /\ queue'[i] = queue[i + 1]
         /\ \A i \in DOMAIN queue : i = 1 \/ i - 1 \in DOMAIN queue'
         /\ DOMAIN queue \subseteq Nat \ {0} /\ DOMAIN queue' \subseteq Nat \ {0}
<1>1. /\ queue \in Seq(Message) /\ Len(queue) <= MaxMsg /\ queue # <<>>
      /\ message' = Head(queue) /\ queue' = Tail(queue)
  BY DEF TypeOK, Receive
<1>2. /\ Len(queue) \in Nat /\ Len(queue) >= 1 /\ DOMAIN queue = 1..Len(queue)
  BY <1>1
<1>3. /\ queue' \in Seq(Message) /\ Len(queue') = Len(queue) - 1
      /\ \A i \in 1..(Len(queue) - 1) : queue'[i] = queue[i + 1]
  BY <1>1, <1>2
<1>4. DOMAIN queue' = 1..(Len(queue) - 1)
  BY <1>2, <1>3
<1> QED  BY <1>1, <1>2, <1>3, <1>4, QueueSyncAssumption

(* What a send does: the writer's setting comes last, the others stay.     *)
LEMMA Put ==
  ASSUME TypeOK, NEW w \in Writers, Send(w)
  PROVE  /\ sent' = sent + 1 /\ sent' \in Nat
         /\ queue' \in Seq(Message) /\ Len(queue') <= MaxMsg
         /\ DOMAIN queue = 1..Len(queue) /\ DOMAIN queue' = 1..(Len(queue) + 1)
         /\ Len(queue) \in Nat
         /\ \A i \in DOMAIN queue : queue'[i] = queue[i]
         /\ queue'[Len(queue) + 1] =
              [article |-> setting[w].article, title |-> setting[w].title, ordinal |-> sent + 1]
<1> DEFINE m == [article |-> setting[w].article, title |-> setting[w].title, ordinal |-> sent + 1]
<1>1. /\ queue \in Seq(Message) /\ Len(queue) < MaxMsg /\ sent \in Nat
      /\ sent' = sent + 1 /\ queue' = Append(queue, m)
  BY DEF TypeOK, Send
<1>2. m \in Message
  BY <1>1 DEF TypeOK, Setting, Message
<1> HIDE DEF m
<1>3. /\ queue' \in Seq(Message) /\ Len(queue') = Len(queue) + 1
      /\ \A i \in 1..Len(queue) : queue'[i] = queue[i]
      /\ queue'[Len(queue) + 1] = m
  BY <1>1, <1>2
<1>4. Len(queue) \in Nat /\ DOMAIN queue = 1..Len(queue) /\ DOMAIN queue' = 1..Len(queue')
  BY <1>1, <1>3
<1>5. Len(queue') <= MaxMsg
  BY <1>1, <1>3, <1>4, QueueSyncAssumption
<1> QED  BY <1>1, <1>3, <1>4, <1>5 DEF m

(* The empty queue is in order.                                            *)
LEMMA TypeInit == Init => TypeOK /\ Ordered
BY Scope, QueueSyncAssumption DEF Init, TypeOK, Ordered, WriterStates

(* Every step keeps the types: what the plugin holds has been sent, and it *)
(* never takes more than it may in one tick.                               *)
LEMMA TypeStep == TypeOK /\ Ordered /\ [Next]_vars => TypeOK'
<1> SUFFICES ASSUME TypeOK, Ordered, [Next]_vars PROVE TypeOK'
  OBVIOUS
<1> USE Scope, QueueSyncAssumption
    DEF TypeOK, WriterStates, database, plugin, losses, history, Fault
<1>0. /\ \A w \in Writers : setting[w].article \in Articles /\ setting[w].title \in Titles
      /\ message.article \in Articles /\ message.title \in Titles /\ message.ordinal \in Nat
  BY DEF Setting, Message
<1>1. CASE UNCHANGED vars
  BY <1>1 DEF vars
<1>2. ASSUME NEW w \in Writers, NEW s \in Setting, SetTitle(w, s) PROVE TypeOK'
  BY <1>2 DEF SetTitle
<1>3. ASSUME NEW w \in Writers, Open(w) PROVE TypeOK'
  BY <1>3 DEF Open
<1>4. ASSUME NEW w \in Writers, OpenFails(w) PROVE TypeOK'
  BY <1>0, <1>4 DEF OpenFails
<1>5. ASSUME NEW w \in Writers, Send(w) PROVE TypeOK'
  <2>1. sent' = sent + 1 /\ queue' \in Seq(Message) /\ Len(queue') <= MaxMsg
    BY <1>5, Put
  <2>2. lost \subseteq 1..(sent + 1)
    OBVIOUS
  <2> QED  BY <1>5, <2>1, <2>2 DEF Send
<1>6. ASSUME NEW w \in Writers, Interrupt(w) PROVE TypeOK'
  BY <1>6 DEF Interrupt
<1>7. ASSUME NEW w \in Writers, SendFails(w) PROVE TypeOK'
  BY <1>0, <1>7 DEF SendFails
<1>8. ASSUME NEW w \in Writers, Commit(w) PROVE TypeOK'
  <2>1. outdated' \subseteq Writers
    BY <1>8 DEF Commit
  <2> QED  BY <1>0, <1>8, <2>1 DEF Commit
<1>9. ASSUME NEW w \in Writers, Restart(w) PROVE TypeOK'
  BY <1>9 DEF Restart
<1>10. ASSUME NEW w \in Writers, WriterDies(w) PROVE TypeOK'
  BY <1>0, <1>10 DEF WriterDies
<1>11. CASE BeginTick
  BY <1>11 DEF BeginTick
<1>12. CASE Receive
  <2>1. message' \in Message
    BY <1>12, Taken
  <2> QED  BY <1>12, <2>1, Taken DEF Receive
<1>13. CASE Publish
  <2>1. received < MaxPerTick
    BY <1>13 DEF Publish, Ordered
  <2> QED  BY <1>0, <1>13, <2>1 DEF Publish
<1>14. CASE EndTick
  BY <1>14 DEF EndTick
<1>15. CASE BrokerDies
  <2>1. message.ordinal \in 1..sent
    BY <1>15 DEF BrokerDies, Ordered
  <2>2. lost \cup {message.ordinal} \subseteq 1..sent
    BY <2>1
  <2> QED  BY <1>0, <1>15, <2>2 DEF BrokerDies
<1> QED
  BY <1>1, <1>2, <1>3, <1>4, <1>5, <1>6, <1>7, <1>8, <1>9, <1>10, <1>11, <1>12, <1>13,
     <1>14, <1>15
     DEF Next, Tick, Faults, AddMqttMessage

(* Every step keeps the order of the messages.                             *)
LEMMA OrderedStep == TypeOK /\ Ordered /\ [Next]_vars => Ordered'
<1> SUFFICES ASSUME TypeOK, Ordered, [Next]_vars PROVE Ordered'
  OBVIOUS
<1> USE DEF database, plugin, losses, history, Fault
<1>0. /\ sent \in Nat /\ received \in Nat /\ published \in Seq(Nat)
      /\ DOMAIN published = 1..Len(published) /\ Len(published) \in Nat
      /\ \A i \in DOMAIN published : published[i] \in Nat
      /\ DOMAIN queue = 1..Len(queue) /\ Len(queue) \in Nat
      /\ \A i \in DOMAIN queue : queue[i].ordinal \in Nat
      /\ message.ordinal \in Nat
  <2>1. \A m \in Message : m.ordinal \in Nat
    BY DEF Message
  <2> QED  BY <2>1 DEF TypeOK
<1>1. CASE UNCHANGED vars
  BY <1>1 DEF vars, Ordered
<1>2. ASSUME UNCHANGED <<queue, tick, received, message, sent, published>> PROVE Ordered'
  BY <1>2 DEF Ordered
<1>3. ASSUME NEW w \in Writers,
             \/ Open(w) \/ OpenFails(w) \/ Interrupt(w) \/ SendFails(w)
             \/ Commit(w) \/ Restart(w) \/ WriterDies(w)
             \/ \E s \in Setting : SetTitle(w, s)
      PROVE  Ordered'
  BY <1>2, <1>3 DEF SetTitle, Open, OpenFails, Interrupt, SendFails, Commit, Restart, WriterDies
<1>4. ASSUME NEW w \in Writers, Send(w) PROVE Ordered'
  <2>1. /\ sent' = sent + 1 /\ UNCHANGED <<tick, received, message, published>>
        /\ DOMAIN queue' = 1..(Len(queue) + 1)
        /\ \A i \in DOMAIN queue : queue'[i].ordinal = queue[i].ordinal
        /\ queue'[Len(queue) + 1].ordinal = sent + 1
    BY <1>4, Put DEF Send
  <2>2. \A i \in DOMAIN queue' : i \in DOMAIN queue \/ i = Len(queue) + 1
    BY <1>0, <2>1
  <2>3. \A i \in DOMAIN published : published[i] \in 1..sent'
    BY <1>0, <2>1 DEF Ordered
  <2>4. \A i \in DOMAIN queue' : queue'[i].ordinal \in 1..sent'
    BY <1>0, <2>1, <2>2 DEF Ordered
  <2>5. ASSUME NEW i \in DOMAIN queue', NEW j \in DOMAIN queue', i < j
        PROVE  queue'[i].ordinal < queue'[j].ordinal
    <3>1. i \in DOMAIN queue
      BY <1>0, <2>1, <2>5
    <3>2. CASE j \in DOMAIN queue
      BY <2>1, <2>5, <3>1, <3>2 DEF Ordered
    <3>3. CASE j = Len(queue) + 1
      BY <1>0, <2>1, <3>1, <3>3 DEF Ordered
    <3> QED  BY <2>2, <3>2, <3>3
  <2>6. ASSUME NEW n, n \in 1..sent, \A j \in DOMAIN queue : n < queue[j].ordinal,
               NEW j \in DOMAIN queue'
        PROVE  n < queue'[j].ordinal
    <3>1. CASE j \in DOMAIN queue
      BY <2>1, <2>6, <3>1
    <3>2. CASE j = Len(queue) + 1
      BY <1>0, <2>1, <2>6, <3>2
    <3> QED  BY <2>2, <3>1, <3>2
  <2>7. \A i \in DOMAIN published, j \in DOMAIN queue' : published[i] < queue'[j].ordinal
    BY <2>6 DEF Ordered
  <2>8. tick = "publishing" => \A j \in DOMAIN queue' : message.ordinal < queue'[j].ordinal
    BY <2>6 DEF Ordered
  <2> QED  BY <1>0, <2>1, <2>3, <2>4, <2>5, <2>7, <2>8 DEF Ordered
<1>5. CASE BeginTick
  BY <1>5 DEF BeginTick, Ordered
<1>6. CASE Receive
  <2>1. /\ 1 \in DOMAIN queue /\ message' = queue[1]
        /\ \A i \in DOMAIN queue' : i + 1 \in DOMAIN queue /\ queue'[i] = queue[i + 1]
        /\ DOMAIN queue' \subseteq Nat \ {0}
    BY <1>6, Taken
  <2>2. received < MaxPerTick /\ UNCHANGED <<received, sent, published>>
    BY <1>6 DEF Receive
  <2>3. \A i, j \in DOMAIN queue' : i < j => queue'[i].ordinal < queue'[j].ordinal
    BY <2>1 DEF Ordered
  <2>4. \A j \in DOMAIN queue' : message'.ordinal < queue'[j].ordinal
    BY <2>1 DEF Ordered
  <2> QED  BY <2>1, <2>2, <2>3, <2>4 DEF Ordered
<1>7. CASE Publish
  <2>1. /\ tick = "publishing" /\ tick' = "receiving"
        /\ published' = Append(published, message.ordinal) /\ UNCHANGED <<queue, sent>>
    BY <1>7 DEF Publish
  <2>2. /\ DOMAIN published' = 1..(Len(published) + 1)
        /\ \A i \in DOMAIN published : published'[i] = published[i]
        /\ published'[Len(published) + 1] = message.ordinal
    BY <1>0, <2>1
  <2>3. \A i \in DOMAIN published' :
          (i \in DOMAIN published /\ published'[i] = published[i]) \/ published'[i] = message.ordinal
    BY <1>0, <2>2
  <2> QED  BY <2>1, <2>3 DEF Ordered
<1>8. CASE EndTick
  BY <1>8 DEF EndTick, Ordered
<1>9. CASE BrokerDies
  BY <1>9 DEF BrokerDies, Ordered
<1> QED
  BY <1>1, <1>3, <1>4, <1>5, <1>6, <1>7, <1>8, <1>9 DEF Next, Tick, Faults, AddMqttMessage

(* The inductive invariant behind everything the queue keeps.              *)
THEOREM OrderedInvariant == Spec => [](TypeOK /\ Ordered)
BY TypeInit, TypeStep, OrderedStep, PTL DEF Spec

(* The queue never holds more than it may, a tick never takes more than it *)
(* may, and the broker loses only what was sent.                           *)
THEOREM TypeCorrect == Spec => []TypeOK
BY OrderedInvariant, PTL

(* Titles sent through the queue come out as from a channel that may lose  *)
(* some of them: in order, none twice and none that was not sent.          *)
THEOREM LossyFeedCorrect == Spec => ImplementsLossyTitleFeed
<1>1. Init => LossyFeed!Init
  BY DEF Init, LossyFeed!Init
<1>2. TypeOK /\ Ordered /\ [Next]_vars => [LossyFeed!Next]_(LossyFeed!vars)
  <2> SUFFICES ASSUME TypeOK, Ordered, [Next]_vars PROVE [LossyFeed!Next]_(LossyFeed!vars)
    OBVIOUS
  <2> USE DEF database, plugin, losses, history, Fault, LossyFeed!vars
  <2>1. ASSUME NEW w \in Writers, Send(w) PROVE LossyFeed!Send
    BY <2>1 DEF Send, LossyFeed!Send
  <2>2. CASE Publish
    <3>1. /\ message.ordinal \in 1..sent
          /\ \A i \in DOMAIN published : published[i] < message.ordinal
      BY <2>2 DEF Publish, Ordered
    <3> QED  BY <2>2, <3>1 DEF Publish, LossyFeed!Publish, LossyFeed!Next
  <2>3. ASSUME ~Publish, \A w \in Writers : ~Send(w) PROVE UNCHANGED <<sent, published>>
    BY <2>3 DEF vars, Next, Tick, Faults, AddMqttMessage, SetTitle, Open, OpenFails, Interrupt,
                SendFails, Commit, Restart, WriterDies, BeginTick, Receive, EndTick, BrokerDies
  <2> QED  BY <2>1, <2>2, <2>3 DEF LossyFeed!Next
<1> QED  BY <1>1, <1>2, OrderedInvariant, PTL DEF Spec, LossyFeed!Spec, ImplementsLossyTitleFeed

-----------------------------------------------------------------------------
(* The page will show the title t for a once all that is under way is out. *)
InQueue(a) == \E i \in DOMAIN queue : queue[i].article = a
LastInQueue(a, t) ==
  \E i \in DOMAIN queue :
    /\ queue[i].article = a /\ queue[i].title = t
    /\ \A j \in DOMAIN queue : j > i => queue[j].article # a
InHand(a) == tick = "publishing" /\ message.article = a

WillShow(a, t) ==
  \/ LastInQueue(a, t)
  \/ ~InQueue(a) /\ InHand(a) /\ message.title = t
  \/ ~InQueue(a) /\ ~InHand(a) /\ shown[a] = t

Coming(a) == {t \in Titles : WillShow(a, t)}

(* The sets of the title of a that are in progress, and of those the ones  *)
(* that may commit as they are.                                            *)
Setters(a) == {w \in Writers : writer[w] # "idle" /\ setting[w].article = a}
Ready(w) == writer[w] = "returned" /\ w \notin outdated

(* Of an article that no fault concerns, the page will show what is        *)
(* committed when no set is in progress, and what is about to be committed *)
(* when one set only is in progress and ready.  With more of them, the     *)
(* first to commit makes the others send again.                            *)
Settled ==
  \A a \in Articles :
    /\ a \notin disturbed /\ Setters(a) = {} => title[a] \in Coming(a)
    /\ \A w \in Writers :
         Setters(a) = {w} /\ Ready(w) /\ (a \notin disturbed \/ w \in fresh)
           => setting[w].title \in Coming(a)

(* What an article's last message says is what the page will show; nobody  *)
(* sets the title of the others.                                           *)
LEMMA SendShows ==
  ASSUME TypeOK, NEW w \in Writers, Send(w), NEW a \in Articles, NEW t \in Titles
  PROVE  /\ a = setting[w].article /\ t = setting[w].title => WillShow(a, t)'
         /\ a # setting[w].article /\ WillShow(a, t) => WillShow(a, t)'
<1>1. /\ DOMAIN queue = 1..Len(queue) /\ DOMAIN queue' = 1..(Len(queue) + 1)
      /\ Len(queue) \in Nat
      /\ \A i \in DOMAIN queue : queue'[i] = queue[i]
      /\ queue'[Len(queue) + 1] =
           [article |-> setting[w].article, title |-> setting[w].title, ordinal |-> sent + 1]
  BY Put
<1>2. /\ queue'[Len(queue) + 1].article = setting[w].article
      /\ queue'[Len(queue) + 1].title = setting[w].title
  BY <1>1
<1>3. UNCHANGED <<tick, message, shown>>
  BY DEF Send, plugin
<1>4. a = setting[w].article /\ t = setting[w].title => LastInQueue(a, t)'
  BY <1>1, <1>2 DEF LastInQueue
<1>5. ASSUME a # setting[w].article, WillShow(a, t) PROVE WillShow(a, t)'
  <2>1. InQueue(a)' <=> InQueue(a)
    BY <1>1, <1>2, <1>5 DEF InQueue
  <2>2. InHand(a)' <=> InHand(a)
    BY <1>3 DEF InHand
  <2>3. LastInQueue(a, t) => LastInQueue(a, t)'
    BY <1>1, <1>2, <1>5 DEF LastInQueue
  <2> QED  BY <1>3, <1>5, <2>1, <2>2, <2>3 DEF WillShow
<1> QED  BY <1>4, <1>5 DEF WillShow

(* A receive takes a message nearer to the page and changes nothing else.  *)
LEMMA ReceiveShows ==
  ASSUME TypeOK, Receive, NEW a, NEW t, WillShow(a, t)
  PROVE  WillShow(a, t)'
<1>1. /\ 1 \in DOMAIN queue /\ message' = queue[1]
      /\ \A i \in DOMAIN queue' : i + 1 \in DOMAIN queue /\ queue'[i] = queue[i + 1]
      /\ \A i \in DOMAIN queue : i = 1 \/ i - 1 \in DOMAIN queue'
      /\ DOMAIN queue \subseteq Nat \ {0} /\ DOMAIN queue' \subseteq Nat \ {0}
  BY Taken
<1>2. tick = "receiving" /\ tick' = "publishing" /\ UNCHANGED shown
  BY DEF Receive
<1>3. CASE LastInQueue(a, t)
  <2>1. PICK i \in DOMAIN queue :
          /\ queue[i].article = a /\ queue[i].title = t
          /\ \A j \in DOMAIN queue : j > i => queue[j].article # a
    BY <1>3 DEF LastInQueue
  <2>2. CASE i = 1
    <3>1. ~InQueue(a)'
      <4> SUFFICES ASSUME NEW j \in DOMAIN queue', queue'[j].article = a PROVE FALSE
        BY DEF InQueue
      <4>1. j + 1 \in DOMAIN queue /\ j + 1 > i /\ queue[j + 1].article = a
        BY <1>1, <2>2
      <4> QED  BY <2>1, <4>1
    <3> QED  BY <1>1, <1>2, <2>1, <2>2, <3>1 DEF WillShow, InHand
  <2>3. CASE i # 1
    <3>1. i - 1 \in DOMAIN queue' /\ queue'[i - 1] = queue[i]
      BY <1>1, <2>3
    <3>2. ASSUME NEW j \in DOMAIN queue', j > i - 1 PROVE queue'[j].article # a
      <4>1. j + 1 \in DOMAIN queue /\ j + 1 > i /\ queue'[j] = queue[j + 1]
        BY <1>1, <3>2
      <4> QED  BY <2>1, <4>1
    <3> QED  BY <2>1, <3>1, <3>2 DEF WillShow, LastInQueue
  <2> QED  BY <2>2, <2>3
<1>4. CASE ~LastInQueue(a, t)
  <2>1. ~InQueue(a) /\ ~InHand(a) /\ shown[a] = t
    BY <1>2, <1>4 DEF WillShow, InHand
  <2>2. ~InQueue(a)' /\ message'.article # a
    BY <1>1, <2>1 DEF InQueue
  <2> QED  BY <1>2, <2>1, <2>2 DEF WillShow, InHand
<1> QED  BY <1>3, <1>4

(* So does the publication.                                                *)
LEMMA PublishShows ==
  ASSUME TypeOK, Publish, NEW a \in Articles, NEW t, WillShow(a, t)
  PROVE  WillShow(a, t)'
<1>1. /\ tick = "publishing" /\ tick' = "receiving" /\ queue' = queue
      /\ shown' = [shown EXCEPT ![message.article] = message.title]
  BY DEF Publish
<1>2. shown'[a] = IF a = message.article THEN message.title ELSE shown[a]
  BY <1>1 DEF TypeOK
<1>3. (InQueue(a)' <=> InQueue(a)) /\ (LastInQueue(a, t)' <=> LastInQueue(a, t))
  BY <1>1 DEF InQueue, LastInQueue
<1> QED  BY <1>1, <1>2, <1>3 DEF WillShow, InHand

(* A step that is not the database's, and after which the page will show   *)
(* what it would have shown, leaves everything settled.                    *)
LEMMA StaysSettled ==
  ASSUME TypeOK, Settled, UNCHANGED <<title, writer, setting, outdated, disturbed, fresh>>,
         \A a \in Articles : Coming(a) \subseteq Coming(a)'
  PROVE  Settled'
<1>1. \A a \in Articles : Setters(a)' = Setters(a)
  BY DEF Setters
<1>2. \A w \in Writers : Ready(w)' <=> Ready(w)
  BY DEF Ready
<1> QED  BY <1>1, <1>2 DEF Settled

(* So does a step of a writer that does not touch the title, the queue or  *)
(* what the plugin holds: if it is not ready afterwards and stays or comes *)
(* among the setters of its article, or if a fault concerns the article.   *)
LEMMA SettersMove ==
  ASSUME TypeOK, Settled, NEW w \in Writers, UNCHANGED <<title, queue, tick, message, shown>>,
         \A v \in Writers \ {w} :
           /\ writer'[v] = writer[v] /\ setting'[v] = setting[v]
           /\ v \in outdated' <=> v \in outdated,
         \/ /\ disturbed' = disturbed
            /\ \A v \in Writers \ {w} : v \in fresh' => v \in fresh
            /\ writer[w] # "idle" => setting'[w] = setting[w]
            /\ writer'[w] \notin {"idle", "returned"}
         \/ /\ Fault(setting[w].article)
            /\ writer[w] # "idle"
            /\ writer'[w] = "idle" \/ setting'[w] = setting[w]
  PROVE  Settled'
<1> SUFFICES ASSUME NEW a \in Articles
             PROVE  /\ a \notin disturbed' /\ Setters(a)' = {} => title'[a] \in Coming(a)'
                    /\ \A v \in Writers :
                         Setters(a)' = {v} /\ Ready(v)' /\ (a \notin disturbed' \/ v \in fresh')
                           => setting'[v].title \in Coming(a)'
  BY DEF Settled
<1>1. Coming(a)' = Coming(a)
  BY DEF Coming, WillShow, InQueue, LastInQueue, InHand
<1>2. Setters(a) \subseteq Setters(a)' \cup {w} /\ Setters(a)' \subseteq Setters(a) \cup {w}
  BY DEF Setters
<1>3. CASE Fault(setting[w].article) /\ a = setting[w].article
  <2>1. a \in disturbed'
    BY <1>3 DEF Fault
  <2>2. \A v \in Setters(a)' : v \notin fresh'
    BY <1>3 DEF Fault, Setters
  <2> QED  BY <2>1, <2>2
<1>4. CASE ~(Fault(setting[w].article) /\ a = setting[w].article)
  <2>1. Setters(a) \subseteq Setters(a)'
    BY <1>4 DEF Setters
  <2>2. /\ a \notin disturbed' => a \notin disturbed
        /\ \A v \in Writers \ {w} : v \in fresh' => v \in fresh
    BY <1>4 DEF Fault
  <2>3. w \in Setters(a)' => ~Ready(w)'
    BY <1>4 DEF Setters, Ready
  <2>4. ASSUME a \notin disturbed', Setters(a)' = {} PROVE title'[a] \in Coming(a)'
    BY <1>1, <2>1, <2>2, <2>4 DEF Settled
  <2>5. ASSUME NEW v \in Writers, Setters(a)' = {v}, Ready(v)', a \notin disturbed' \/ v \in fresh'
        PROVE  setting'[v].title \in Coming(a)'
    <3>1. v # w
      BY <2>3, <2>5
    <3>2. Setters(a) = {v}
      BY <1>2, <2>1, <2>5, <3>1
    <3>3. Ready(v) /\ (a \notin disturbed \/ v \in fresh) /\ setting'[v] = setting[v]
      BY <2>2, <2>5, <3>1 DEF Ready
    <3> QED  BY <1>1, <3>2, <3>3 DEF Settled
  <2> QED  BY <2>4, <2>5
<1> QED  BY <1>3, <1>4
(* At the start the page shows what is committed.                          *)
LEMMA SettledInit == Init => Settled
<1> SUFFICES ASSUME Init PROVE Settled
  OBVIOUS
<1>1. \A a \in Articles : title[a] \in Coming(a)
  BY DEF Init, Coming, WillShow, InQueue, LastInQueue, InHand
<1>2. \A w \in Writers : ~Ready(w)
  BY DEF Init, Ready
<1> QED  BY <1>1, <1>2 DEF Settled

(* Every step leaves things settled: a trigger sends before its set can    *)
(* commit, and the commit makes every other set of the title send again.   *)
LEMMA SettledStep == TypeOK /\ Settled /\ [Next]_vars => Settled'
<1> SUFFICES ASSUME TypeOK, Settled, [Next]_vars PROVE Settled'
  OBVIOUS
<1> USE DEF database, plugin, losses, history
<1>0. /\ writer \in [Writers -> WriterStates]
      /\ setting \in [Writers -> Setting]
  BY DEF TypeOK
<1>1. ASSUME UNCHANGED <<title, writer, setting, outdated, disturbed, fresh>>,
             UNCHANGED <<queue, tick, message, shown>>
             \/ (UNCHANGED <<queue, message, shown>>
                  /\ tick # "publishing" /\ tick' # "publishing")
      PROVE  Settled'
  <2>1. \A a \in Articles : Coming(a)' = Coming(a)
    BY <1>1 DEF Coming, WillShow, InQueue, LastInQueue, InHand
  <2> QED  BY <1>1, <2>1, StaysSettled
<1>2. CASE UNCHANGED vars
  BY <1>1, <1>2 DEF vars
<1>3. ASSUME NEW w \in Writers, NEW s \in Setting, SetTitle(w, s) PROVE Settled'
  BY <1>0, <1>3, SettersMove DEF SetTitle
<1>4. ASSUME NEW w \in Writers, Open(w) PROVE Settled'
  BY <1>1, <1>4 DEF Open
<1>5. ASSUME NEW w \in Writers, OpenFails(w) PROVE Settled'
  BY <1>0, <1>5, SettersMove DEF OpenFails
<1>6. ASSUME NEW w \in Writers, Send(w) PROVE Settled'
  <2>1. /\ UNCHANGED <<title, setting, outdated, disturbed, fresh>>
        /\ writer' = [writer EXCEPT ![w] = "returned"] /\ writer[w] # "idle"
    BY <1>6 DEF Send
  <2>2. \A a \in Articles : Setters(a)' = Setters(a)
    BY <1>0, <2>1 DEF Setters
  <2> SUFFICES ASSUME NEW a \in Articles
               PROVE  /\ a \notin disturbed' /\ Setters(a)' = {} => title'[a] \in Coming(a)'
                      /\ \A v \in Writers :
                           Setters(a)' = {v} /\ Ready(v)' /\ (a \notin disturbed' \/ v \in fresh')
                             => setting'[v].title \in Coming(a)'
    BY DEF Settled
  <2>3. CASE a = setting[w].article
    <3>1. w \in Setters(a)'
      BY <1>0, <2>1, <2>3 DEF Setters
    <3>2. setting[w].title \in Titles
      BY <1>0 DEF Setting
    <3>3. \A t \in Titles : t = setting[w].title => t \in Coming(a)'
      BY <1>6, <2>3, SendShows DEF Coming
    <3>4. setting'[w].title \in Coming(a)'
      BY <2>1, <3>2, <3>3
    <3> QED  BY <3>1, <3>4
  <2>4. CASE a # setting[w].article
    <3>1. Coming(a) \subseteq Coming(a)'
      BY <1>6, <2>4, SendShows DEF Coming
    <3>2. \A v \in Setters(a) : Ready(v)' => Ready(v)
      BY <1>0, <2>1, <2>4 DEF Ready, Setters
    <3> QED  BY <2>1, <2>2, <3>1, <3>2 DEF Settled
  <2> QED  BY <2>3, <2>4
<1>7. ASSUME NEW w \in Writers, Interrupt(w) PROVE Settled'
  BY <1>0, <1>7, SettersMove DEF Interrupt
<1>8. ASSUME NEW w \in Writers, SendFails(w) PROVE Settled'
  BY <1>0, <1>8, SettersMove DEF SendFails
<1>9. ASSUME NEW w \in Writers, Commit(w) PROVE Settled'
  <2> DEFINE b == setting[w].article
  <2>1. /\ Ready(w) /\ writer' = [writer EXCEPT ![w] = "idle"]
        /\ title' = [title EXCEPT ![b] = setting[w].title]
        /\ UNCHANGED <<queue, tick, message, shown>>
        /\ disturbed' = IF w \in fresh THEN disturbed \ {b} ELSE disturbed
        /\ fresh' = fresh \ {w}
    BY <1>9 DEF Commit, Ready
  <2>2. outdated \subseteq outdated'
    BY <1>9 DEF Commit
  <2>3. \A v \in Setters(b) : v # w => v \in outdated'
    BY <1>9 DEF Commit, Setters
  <2>4. /\ \A v \in Writers \ {w} : writer'[v] = writer[v] /\ setting'[v] = setting[v]
        /\ writer'[w] = "idle"
    BY <1>0, <1>9 DEF Commit
  <2>5. \A a \in Articles : Setters(a)' = Setters(a) \ {w}
    BY <2>4 DEF Setters
  <2>6. \A a \in Articles : Coming(a)' = Coming(a)
    BY <2>1 DEF Coming, WillShow, InQueue, LastInQueue, InHand
  <2>7. w \in Setters(b)
    BY <2>1 DEF Setters, Ready
  <2>8. \A a \in Articles : a # b => w \notin Setters(a) /\ title'[a] = title[a]
    BY <2>1 DEF Setters, TypeOK
  <2>9. b \in Articles
    BY <1>0 DEF Setting
  <2>10. title'[b] = setting[w].title
    BY <2>1, <2>9 DEF TypeOK
  <2> HIDE DEF b
  <2> SUFFICES ASSUME NEW a \in Articles
               PROVE  /\ a \notin disturbed' /\ Setters(a)' = {} => title'[a] \in Coming(a)'
                      /\ \A v \in Writers :
                           Setters(a)' = {v} /\ Ready(v)' /\ (a \notin disturbed' \/ v \in fresh')
                             => setting'[v].title \in Coming(a)'
    BY DEF Settled
  <2>11. CASE a = b
    <3>1. ASSUME a \notin disturbed', Setters(a)' = {} PROVE title'[a] \in Coming(a)'
      <4>1. Setters(a) = {w} /\ (a \notin disturbed \/ w \in fresh)
        BY <2>1, <2>5, <2>7, <2>11, <3>1
      <4>2. setting[w].title \in Coming(a)
        BY <2>1, <4>1 DEF Settled
      <4> QED  BY <2>6, <2>10, <2>11, <4>2
    <3>2. ASSUME NEW v \in Writers, Setters(a)' = {v}, Ready(v)' PROVE FALSE
      BY <2>3, <2>5, <2>11, <3>2 DEF Ready
    <3> QED  BY <3>1, <3>2
  <2>12. CASE a # b
    <3>1. /\ Setters(a)' = Setters(a)
          /\ title'[a] = title[a] /\ Coming(a)' = Coming(a)
          /\ a \in disturbed' <=> a \in disturbed
      BY <2>1, <2>5, <2>6, <2>8, <2>12
    <3>2. \A v \in Setters(a) : /\ v # w /\ setting'[v] = setting[v]
                               /\ (Ready(v)' => Ready(v)) /\ (v \in fresh' => v \in fresh)
      BY <2>1, <2>2, <2>4, <2>8, <2>12 DEF Ready, Setters
    <3> QED  BY <3>1, <3>2 DEF Settled
  <2> QED  BY <2>11, <2>12
<1>10. ASSUME NEW w \in Writers, Restart(w) PROVE Settled'
  BY <1>0, <1>10, SettersMove DEF Restart
<1>11. ASSUME NEW w \in Writers, WriterDies(w) PROVE Settled'
  BY <1>0, <1>11, SettersMove DEF WriterDies
<1>12. CASE BeginTick
  BY <1>1, <1>12 DEF BeginTick
<1>13. CASE Receive
  <2>1. \A a \in Articles : Coming(a) \subseteq Coming(a)'
    BY <1>13, ReceiveShows DEF Coming
  <2> QED  BY <1>13, <2>1, StaysSettled DEF Receive
<1>14. CASE Publish
  <2>1. \A a \in Articles : Coming(a) \subseteq Coming(a)'
    BY <1>14, PublishShows DEF Coming
  <2> QED  BY <1>14, <2>1, StaysSettled DEF Publish
<1>15. CASE EndTick
  BY <1>1, <1>15 DEF EndTick
<1>16. CASE BrokerDies
  <2> DEFINE b == message.article
  <2>1. /\ tick = "publishing" /\ tick' = "idle"
        /\ UNCHANGED <<title, writer, setting, outdated, queue, shown>>
        /\ disturbed' = disturbed \cup {b}
        /\ fresh' = fresh \ {v \in Writers : setting[v].article = b}
    BY <1>16 DEF BrokerDies, Fault
  <2>2. \A a \in Articles : Setters(a)' = Setters(a) /\ (a # b => Coming(a)' = Coming(a))
    BY <2>1 DEF Setters, Coming, WillShow, InQueue, LastInQueue, InHand
  <2>3. \A v \in Writers : Ready(v)' <=> Ready(v)
    BY <2>1 DEF Ready
  <2>4. \A v \in Setters(b) : v \notin fresh'
    BY <2>1 DEF Setters
  <2> QED  BY <2>1, <2>2, <2>3, <2>4 DEF Settled
<1> QED
  BY <1>2, <1>3, <1>4, <1>5, <1>6, <1>7, <1>8, <1>9, <1>10, <1>11, <1>12, <1>13, <1>14,
     <1>15, <1>16
     DEF Next, Tick, Faults, AddMqttMessage

(* When everything has come to rest, the page was last told what the       *)
(* database holds, except for the articles a fault concerns: titles leave  *)
(* before their sets commit, but the last set to commit sent last.         *)
THEOREM QuietAgreementCorrect == Spec => []QuietAgreement
<1>1. TypeOK /\ Settled => QuietAgreement
  <2> SUFFICES ASSUME TypeOK, Settled, Quiet, NEW a \in Articles \ disturbed
               PROVE  shown[a] = title[a]
    BY DEF QuietAgreement
  <2>1. Setters(a) = {} /\ ~InHand(a)
    BY DEF Quiet, Setters, InHand
  <2>2. ~InQueue(a) /\ \A t : ~LastInQueue(a, t)
    BY DEF Quiet, InQueue, LastInQueue
  <2>3. title[a] \in Coming(a)
    BY <2>1 DEF Settled
  <2> QED  BY <2>1, <2>2, <2>3 DEF Coming, WillShow
<1>2. Init => Settled
  BY SettledInit
<1>3. (TypeOK /\ Ordered) /\ Settled /\ [Next]_vars => Settled'
  BY SettledStep
<1> QED  BY <1>1, <1>2, <1>3, OrderedInvariant, PTL DEF Spec
=============================================================================
