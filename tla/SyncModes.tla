------------------------------ MODULE SyncModes ------------------------------
(***************************************************************************)
(* The three ways from a set of a title to the page, and the switches      *)
(* between them.  Which trigger is installed in the database               *)
(* (triggers/trigger_definition_files) and which mode the plugin is in     *)
(* (mosquitto.conf) are two decisions nobody checks against each other,    *)
(* and the queue and the buffer outlive both.                              *)
(*                                                                         *)
(* A title on its way is in one of the lanes: the client of the process    *)
(* that set it, the queue, or the buffer.  GlobalSync and QueueSync have   *)
(* the steps inside the latter two; here a tick is a step and so is the    *)
(* trigger, unless it waits for room in the queue.  A title that comes by  *)
(* the queue need not arrive whole (QueueText).                            *)
(***************************************************************************)
EXTENDS ClientSync, PluginLifecycle

CONSTANTS
  Articles, Titles,
  Numbers,       \* the titles that are numbers: clock readings
  Blanks,        \* the titles of spaces only, or empty
  MaxMsg,        \* mq_maxmsg
  MaxEvents      \* bound: titles set, triggers installed, ends of processes

ASSUME SyncModesAssumption ==
  /\ Articles # {} /\ Titles # {}
  /\ Numbers \subseteq Titles /\ Blanks \subseteq Titles
  /\ {"mq", "global"} \cap Writers = {}   \* they name the other lanes
  /\ MaxMsg \in Nat \ {0}

VARIABLES
  installed,     \* the trigger in the database
  title,         \* ^articles(id,"title"), as committed
  writer,        \* where each writer is in its set
  setting,       \* what it sets
  outdated,      \* writers whose transaction read what has changed since
  queue,         \* /mqsync
  buffer,        \* ^globalSyncBuffer
  shown,         \* what was last published for each article
  disturbed,     \* history: articles whose page may not agree, and
  fresh,         \*   writers whose set in progress puts that right
  events         \* bound: how many so far

database == <<installed, title, writer, setting, outdated>>
history == <<disturbed, fresh>>
vars == <<client, plugin, database, queue, buffer, shown, history, events>>

Triggers == Modes \cup {"none"}
Setting == [article : Articles, title : Titles, trigger : Triggers]
Message == [article : Articles, title : Titles]
Text == [title : Titles, whole : BOOLEAN]   \* the title, or what the queue left of it
NoSetting == CHOOSE s \in Setting : TRUE

TypeOK ==
  /\ ClientTypeOK(Message) /\ PluginTypeOK
  /\ installed \in Triggers
  /\ title \in [Articles -> Titles] /\ shown \in [Articles -> Text]
  /\ writer \in [Writers -> {"idle", "firing", "returned"}]
  /\ setting \in [Writers -> Setting]
  /\ outdated \subseteq Writers /\ fresh \subseteq Writers
  /\ queue \in Seq(Message) /\ Len(queue) <= MaxMsg
  /\ buffer \in Seq(Message)
  /\ disturbed \subseteq Articles

(* Which titles there are at first makes no difference.                    *)
Init ==
  /\ ClientInit /\ PluginInit
  /\ installed \in Triggers
  /\ title = [a \in Articles |-> NoSetting.title]
  /\ shown = [a \in Articles |-> [title |-> title[a], whole |-> TRUE]]
  /\ writer = [w \in Writers |-> "idle"]
  /\ setting = [w \in Writers |-> NoSetting]
  /\ outdated = {} /\ fresh = {}
  /\ queue = <<>> /\ buffer = <<>>
  /\ disturbed = {}
  /\ events = 0

-----------------------------------------------------------------------------
(* The messages under way in the lanes but one.                            *)
Elsewhere(lane) ==
  (UNION {Range(outbox[w]) : w \in Writers \ {lane}})
    \cup (IF lane = "mq" THEN {} ELSE Range(queue))
    \cup (IF lane = "global" THEN {} ELSE Range(buffer))

(* History: something went wrong for these articles, or overtaking became  *)
(* possible.                                                               *)
Disturb(articles) ==
  /\ disturbed' = disturbed \cup articles
  /\ fresh' = {w \in fresh : setting[w].article \notin articles}

Overtakes(w, lane) == \E m \in Elsewhere(lane) : m.article = setting[w].article

(* History: a message is handed over to a lane.  Nothing of its article is *)
(* under way on another one, or the two may overtake each other.           *)
HandOver(w, lane) ==
  IF Overtakes(w, lane)
  THEN Disturb({setting[w].article})
  ELSE fresh' = fresh \cup {w} /\ UNCHANGED disturbed

MessageOf(w) == [article |-> setting[w].article, title |-> setting[w].title]

-----------------------------------------------------------------------------
(* The set of a title, or its transaction run again, fires the trigger.    *)
Fire(w, s) ==
  /\ writer' = [writer EXCEPT ![w] = "firing"]
  /\ setting' = [setting EXCEPT ![w] = [article |-> s.article, title |-> s.title,
                                       trigger |-> installed]]
  /\ outdated' = outdated \ {w} /\ fresh' = fresh \ {w}
  /\ UNCHANGED <<client, plugin, installed, title, queue, buffer, shown, 
                 disturbed>>

(* set_global_var, or anybody else, sets a title.                          *)
SetTitle(w) ==
  /\ writer[w] = "idle" /\ events < MaxEvents /\ events' = events + 1
  /\ \E a \in Articles, t \in Titles : Fire(w, [article |-> a, title |-> t])

Restart(w) ==
  writer[w] = "returned" /\ w \in outdated /\ Fire(w, setting[w]) /\ UNCHANGED events

(* The trigger returns to the transaction.                                 *)
Returns(w, trigger) ==
  /\ writer[w] = "firing" /\ setting[w].trigger = trigger
  /\ writer' = [writer EXCEPT ![w] = "returned"]
  /\ UNCHANGED <<plugin, installed, title, setting, outdated, shown, events>>

(* No trigger: the change goes unnoticed.                                  *)
TriggerNone(w) ==
  /\ Returns(w, "none")
  /\ Disturb({setting[w].article})
  /\ UNCHANGED <<client, queue, buffer>>

TriggerClient(w) ==
  /\ Returns(w, "client")
  /\ \/ PublishThroughClient(w, MessageOf(w)) /\ HandOver(w, w)
     \/ (ConnectFails(w) \/ PublishFails(w)) /\ Disturb({setting[w].article})
  /\ UNCHANGED <<queue, buffer>>

(* Mutant of TriggerMq: the last place of the queue is left free.          *)
TriggerMqKeepsPlace(w) ==
  /\ Returns(w, "mq") /\ Len(queue) + 1 < MaxMsg
  /\ queue' = Append(queue, MessageOf(w))
  /\ HandOver(w, "mq")
  /\ UNCHANGED <<client, buffer>>

(* mq_send waits for room, and the transaction with it.                    *)
TriggerMq(w) ==
  /\ Returns(w, "mq") /\ Len(queue) < MaxMsg
  /\ queue' = Append(queue, MessageOf(w))
  /\ HandOver(w, "mq")
  /\ UNCHANGED <<client, buffer>>

(* The queue cannot be opened, which the next set tries again, or refuses  *)
(* the message, a long one for instance: the trigger gives it up, and the  *)
(* set goes on.  Only EINTR is answered by another mq_send.                *)
TriggerMqFails(w) ==
  /\ Returns(w, "mq")
  /\ Disturb({setting[w].article})
  /\ UNCHANGED <<client, queue, buffer>>

(* What is appended to the buffer is seen when the transaction commits.    *)
TriggerGlobal(w) ==
  Returns(w, "global") /\ UNCHANGED <<client, queue, buffer, disturbed, fresh>>

(* The set takes effect; open transactions on the same article have read   *)
(* what it changes.                                                        *)
Commit(w) ==
  /\ writer[w] = "returned" /\ w \notin outdated
  /\ LET a == setting[w].article
         rivals == {v \in Writers \ {w} : writer[v] # "idle" /\ setting[v].article = a}
     IN /\ title' = [title EXCEPT ![a] = setting[w].title]
        /\ outdated' = outdated \cup rivals
        /\ IF setting[w].trigger = "global"
           THEN /\ buffer' = Append(buffer, MessageOf(w))
                /\ IF Overtakes(w, "global")
                   THEN Disturb({a}) ELSE disturbed' = disturbed \ {a} /\ UNCHANGED fresh
           ELSE /\ disturbed' = IF w \in fresh THEN disturbed \ {a} ELSE disturbed
                /\ fresh' = fresh \ {w}
                /\ UNCHANGED buffer
  /\ writer' = [writer EXCEPT ![w] = "idle"]
  /\ setting' = [setting EXCEPT ![w] = NoSetting]
  /\ UNCHANGED <<client, plugin, installed, queue, shown, events>>

(* The process ends: set_global_var after its last set, or any process at  *)
(* any time.  What its client has not sent is gone, its open set undone.   *)
WriterEnds(w) ==
  /\ events < MaxEvents /\ events' = events + 1
  /\ ClientEnds(w)
  /\ Disturb({m.article : m \in Range(outbox[w])}
               \cup IF writer[w] = "idle" THEN {} ELSE {setting[w].article})
  /\ writer' = [writer EXCEPT ![w] = "idle"]
  /\ setting' = [setting EXCEPT ![w] = NoSetting]
  /\ UNCHANGED <<plugin, installed, title, outdated, queue, buffer, shown>>

(* Each definition file deletes all triggers ("-*") before it adds its own *)
(* one; open transactions are run again with it.                           *)
InstallTrigger(trigger) ==
  /\ events < MaxEvents /\ events' = events + 1
  /\ trigger # installed
  /\ installed' = trigger
  /\ outdated' = outdated \cup {w \in Writers : writer[w] # "idle"}
  /\ UNCHANGED <<client, plugin, title, writer, setting, queue, buffer, shown, history>>

-----------------------------------------------------------------------------
(* What the broker does with messages, in their order: the page is told of *)
(* them, but for those lost, and whole but for those out of the queue.  Of *)
(* a title that was in the queue strtok leaves the first word, with what   *)
(* the receive buffer happens to hold behind a title of one word; what     *)
(* that can be is said in QueueText.                                       *)
(* Mutant of TitleShown: the last message is published first.              *)
TitleShownReversed(messages, whole, lost, a) ==
  LET mine == {i \in DOMAIN messages \ lost : messages[i].article = a}
  IN IF mine = {} THEN shown[a] ELSE [title |-> messages[Min(mine)].title, whole |-> whole]

TitleShown(messages, whole, lost, a) ==
  LET mine == {i \in DOMAIN messages \ lost : messages[i].article = a}
  IN IF mine = {} THEN shown[a] ELSE [title |-> messages[Max(mine)].title, whole |-> whole]

Publish(messages, whole, lost) ==
  shown' = [a \in Articles |-> TitleShown(messages, whole, lost, a)]

About(messages, places) == {messages[i].article : i \in places}

(* The plugin takes the time of all messages instead of publishing them,   *)
(* or the broker cannot publish one and nobody asks.                       *)
Lost(messages) ==
  {places \in SUBSET DOMAIN messages : measuring => places = DOMAIN messages}

(* A message of a client is published in any mode; in mode "client" the    *)
(* plugin counts it as well.                                               *)
Delivers(w) ==
  /\ broker = "up" /\ ClientSends(w)
  /\ Publish(<<Head(outbox[w])>>, TRUE, {})
  /\ counter' = IF sync_mode = "client" /\ measuring THEN Counted(1) ELSE counter
  /\ UNCHANGED <<broker, sync_mode, measuring, descriptor, registered, database, queue,
                 buffer, disturbed, fresh, events>>

Connects(w) ==
  /\ broker = "up" /\ ClientConnects(w)
  /\ UNCHANGED <<plugin, database, queue, buffer, shown, history, events>>

(* What a tick takes out of the queue or the buffer.                       *)
Processed(messages, whole) ==
  /\ \E lost \in Lost(messages) :
       Publish(messages, whole, lost) /\ Disturb(About(messages, lost))
  /\ counter' = IF measuring THEN Counted(Len(messages)) ELSE counter

Ticks(mode) == broker = "up" /\ "TICK" \in registered /\ sync_mode = mode

Tick ==
  /\ \/ /\ Ticks("mq") /\ queue # <<>>
        /\ Processed(queue, FALSE)
        /\ queue' = <<>> /\ UNCHANGED buffer
     \/ /\ Ticks("global") /\ buffer # <<>>
        /\ measuring => \A m \in Range(buffer) : m.title \in Numbers
        /\ Processed(buffer, TRUE)
        /\ buffer' = <<>> /\ UNCHANGED queue
  /\ UNCHANGED <<client, broker, sync_mode, measuring, descriptor, registered, database,
                 events>>

-----------------------------------------------------------------------------
StartBroker ==
  /\ \E options \in OptionLists : PluginStarts(options) \/ PluginRefuses(options)
  /\ UNCHANGED <<client, database, queue, buffer, shown, history, events>>

(* The broker goes, with what its clients had half sent.  It sends what    *)
(* the plugin publishes after the tick: of the messages taken in a tick    *)
(* that does not end, any may be lost.                                     *)
BrokerGoes(taken, whole, lost) ==
  /\ \E losers \in SUBSET Writers :
       /\ ConnectionsBreak(losers)
       /\ Disturb({Head(outbox[w]).article : w \in losers} \cup About(taken, lost))
  /\ Publish(taken, whole, lost)
  /\ UNCHANGED database

DiesAtMessage(n, lost) ==
  LET taken == SubSeq(queue, 1, n)
  IN /\ Ticks("mq") /\ PluginDies
     /\ lost \in Lost(taken)
     /\ BrokerGoes(taken, FALSE, lost)
     /\ queue' = SubSeq(queue, n + 1, Len(queue)) /\ UNCHANGED buffer

DiesAfterKill ==
  /\ Ticks("global") /\ PluginDies
  /\ \E lost \in Lost(buffer) : BrokerGoes(buffer, TRUE, lost)
  /\ buffer' = <<>> /\ UNCHANGED queue

(* Between two ticks, or in the midst of one.                              *)
BrokerEnds ==
  /\ events < MaxEvents /\ events' = events + 1
  /\ \/ /\ PluginStops \/ PluginDies
        /\ BrokerGoes(<<>>, TRUE, {}) /\ UNCHANGED <<queue, buffer>>
     \/ \E n \in DOMAIN queue, lost \in SUBSET DOMAIN queue : DiesAtMessage(n, lost)
     \/ buffer # <<>> /\ DiesAfterKill

(* Of a blank title strtok finds nothing, unless remains follow it: NULL   *)
(* is no std::string, nor anything strtoll can read, and the broker ends   *)
(* with the message in hand.                                               *)
TickAborts ==
  /\ \E n \in DOMAIN queue, lost \in SUBSET DOMAIN queue :
       queue[n].title \in Blanks /\ n \in lost /\ DiesAtMessage(n, lost)
  /\ UNCHANGED events

(* In mode "global" the time is measured with stoll, which throws at a     *)
(* title that is no number: the broker ends after the buffer is killed.    *)
TickThrows ==
  /\ measuring /\ \E m \in Range(buffer) : m.title \notin Numbers
  /\ DiesAfterKill
  /\ UNCHANGED events

Trigger(w) == TriggerNone(w) \/ TriggerClient(w) \/ TriggerMq(w) \/ TriggerGlobal(w)

Next ==
  \/ \E w \in Writers : SetTitle(w) \/ Trigger(w) \/ Commit(w) \/ Restart(w) \/ WriterEnds(w)
  \/ \E w \in Writers : TriggerMqFails(w)
  \/ \E w \in Writers : Connects(w) \/ Delivers(w)
  \/ Tick \/ TickAborts \/ TickThrows
  \/ StartBroker \/ BrokerEnds
  \/ \E trigger \in Triggers : InstallTrigger(trigger)

Spec == Init /\ [][Next]_vars

(* A running broker ticks and a network thread runs for ever, a trigger    *)
(* and its transaction go on when they can; the queue need not ever fail.  *)
(* Nobody has to set a title, start a broker or install a trigger.         *)
FairSpec ==
  /\ Spec
  /\ WF_vars(Tick) /\ WF_vars(TickThrows)
  /\ \A w \in Writers :
       /\ WF_vars(Trigger(w) \/ Commit(w) \/ Restart(w))
       /\ WF_vars(Connects(w)) /\ WF_vars(Delivers(w))

-----------------------------------------------------------------------------
Lane(lane) ==
  CASE lane = "mq" -> queue [] lane = "global" -> buffer [] OTHER -> outbox[lane]

Quiet ==
  /\ queue = <<>> /\ buffer = <<>>
  /\ \A w \in Writers : writer[w] = "idle" /\ outbox[w] = <<>>

(* When nothing is under way, page and database agree on a title, unless   *)
(* since the last set that was handed over while the article had nothing   *)
(* under way on another lane, and that went through, one of these has      *)
(* happened to it:                                                         *)
(*  - a message was handed over to a second lane (another process in mode  *)
(*    "client", another mode after a switch) and may have been overtaken;  *)
(*  - no trigger was installed, or the trigger could not hand the message  *)
(*    over: its client could not connect or publish, the queue could not   *)
(*    be opened or refused it (mqttClient.c:17-26,42, mq_trigger.c:35,49); *)
(*  - the process that set the title ended with the message in its client  *)
(*    or the set open, or the broker ended with the message in hand: half  *)
(*    received from a client, or taken by a tick in which it was killed,   *)
(*    found a blank title (plugin.cpp:400) or threw (plugin.cpp:365);      *)
(*  - the broker could not publish it, or the time was measured instead.   *)
(* They agree on which title is shown.  That it is shown as it was set is  *)
(* not said of one that came by the queue, which is not whole.             *)
Agreement == Quiet => \A a \in Articles \ disturbed : shown[a].title = title[a]

Served(lane) == broker = "up" /\ (lane \in Modes => sync_mode = lane)

(* Once the broker stays up in a mode, what was left over for that mode    *)
(* comes out, whichever mode it was before; what waits in a client comes   *)
(* out in every mode, and a client that could not connect once is no       *)
(* obstacle to the next (mqttClient.c:17).                                 *)
LanesDrain ==
  \A lane \in Writers \cup {"mq", "global"} : <>[]Served(lane) => <>[](Lane(lane) = <<>>)

(* A set that never returns waits for room in the queue, and nobody reads  *)
(* the queue: the one way to block the database is to leave the trigger of *)
(* mode "mq" with a plugin in another mode or a broker that is down        *)
(* (mq_trigger.c:33,47).                                                   *)
WaitsOnlyForReader ==
  \A w \in Writers :
    <>[](writer[w] = "firing") => <>[](Len(queue) = MaxMsg /\ ~Served("mq"))
==============================================================================
