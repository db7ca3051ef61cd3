---------------------------- MODULE SyncModesProof ----------------------------
(***************************************************************************)
(* Proofs about module SyncModes, for any number of writers, articles and  *)
(* titles, any options of the plugin and any length of the queue.          *)
(*                                                                         *)
(* The lanes are looked at as one function.  An article of which nothing   *)
(* has gone wrong has messages in at most one of them, and what the page   *)
(* will show when they are through is the title in the database, unless    *)
(* somebody is about to set another (Settled); for a set that puts an      *)
(* article right the same holds of the title it is going to commit         *)
(* (Promised).  How the steps move messages is said once for each kind of  *)
(* step: one is handed over, some are lost, some are published.            *)
(***************************************************************************)
EXTENDS SyncModes, Extremes, TLAPS

Lanes == Writers \cup {"mq", "global"}
Ways == [l \in Lanes |-> Lane(l)]

Lacks(s, a) == \A i \in DOMAIN s : s[i].article # a
EndsIn(s, a, t) ==
  \E i \in DOMAIN s :
    /\ s[i].article = a /\ s[i].title = t
    /\ \A j \in DOMAIN s : j > i => s[j].article # a

(* The messages of an article are all on one lane.                         *)
Single(ways, a) == \E l \in Lanes : \A k \in Lanes \ {l} : Lacks(ways[k], a)

(* What the page shows of an article once its messages are through.        *)
WillShow(ways, now, a, t) ==
  \/ \E l \in Lanes : EndsIn(ways[l], a, t) /\ \A k \in Lanes \ {l} : Lacks(ways[k], a)
  \/ now = t /\ \A k \in Lanes : Lacks(ways[k], a)

(* Messages were moved, and the page may have been shown some, without a   *)
(* change of what there is to come of an article.                          *)
Moves(W, now, V, then, a) ==
  /\ Single(W, a) => Single(V, a)
  /\ \A t : WillShow(W, now, a, t) => WillShow(V, then, a, t)

Open(w, a) == writer[w] # "idle" /\ setting[w].article = a

Settled(a) ==
  /\ Single(Ways, a)
  /\ WillShow(Ways, shown[a].title, a, title[a]) \/ \E w \in Writers : Open(w, a)

Promised(w) ==
  LET a == setting[w].article
  IN /\ Single(Ways, a)
     /\ \/ WillShow(Ways, shown[a].title, a, setting[w].title)
        \/ \E v \in Writers \ {w} : Open(v, a)

(* A transaction that can commit either puts its article right or leaves   *)
(* it disturbed.                                                           *)
Handed(w) ==
  writer[w] = "returned" /\ w \notin outdated /\ setting[w].trigger # "global" =>
    w \in fresh \/ setting[w].article \in disturbed

Agreed ==
  /\ \A w \in fresh : writer[w] = "returned" /\ setting[w].trigger # "global"
  /\ \A w \in Writers : Handed(w)
  /\ \A w \in fresh \ outdated : Promised(w)
  /\ \A a \in Articles \ disturbed : Settled(a)

Agreeing == TypeOK /\ Agreed

-----------------------------------------------------------------------------
(* Types.                                                                  *)

(* There is a setting for idle writers to have.                            *)
LEMMA NoSettingTyped == NoSetting \in Setting
<1>1. \E s : s \in Setting
  <2>1. PICK a \in Articles, t \in Titles : TRUE
    BY SyncModesAssumption
  <2>2. [article |-> a, title |-> t, trigger |-> "none"] \in Setting
    BY <2>1 DEF Setting, Triggers
  <2> QED  BY <2>2
<1> QED  BY <1>1 DEF NoSetting

(* What is handed over is a message.                                       *)
LEMMA MessageTyped ==
  ASSUME TypeOK, NEW w \in Writers
  PROVE  /\ setting[w].article \in Articles /\ setting[w].title \in Titles
         /\ setting[w].trigger \in Triggers
         /\ MessageOf(w) \in Message
BY DEF TypeOK, Setting, MessageOf, Message

(* Whatever options the plugin is given, it is in one of its modes.        *)
LEMMA ModeTyped ==
  ASSUME NEW options \in OptionLists
  PROVE  ModeOf(options) \in Modes
<1> DEFINE given == {i \in DOMAIN options : options[i][1] = "sync_mode" /\ options[i][2] \in Modes}
<1>1. options \in Seq(STRING \X STRING)
  BY PluginLifecycleAssumption
<1>2. Len(options) \in Nat /\ given \subseteq 1..Len(options)
  BY <1>1
<1>3. CASE given = {}
  BY <1>3, PluginLifecycleAssumption DEF ModeOf
<1>4. CASE given # {}
  <2>1. Max(given) \in given
    BY <1>2, <1>4, MaxIsGreatest
  <2> QED  BY <1>4, <2>1 DEF ModeOf
<1> QED  BY <1>3, <1>4

(* What the page is shown of an article by some messages: the last title,  *)
(* or what it showed before.                                               *)
LEMMA TitleShownIs ==
  ASSUME NEW messages \in Seq(Message), NEW whole \in BOOLEAN, NEW lost, NEW a \in Articles
  PROVE  LET then == TitleShown(messages, whole, lost, a)
         IN /\ then = shown[a] \/ then \in Text
            /\ Lacks(messages, a) => then = shown[a]
            /\ a \notin About(messages, lost) /\ ~Lacks(messages, a) =>
                 EndsIn(messages, a, then.title)
<1> DEFINE mine == {i \in DOMAIN messages \ lost : messages[i].article = a}
           then == TitleShown(messages, whole, lost, a)
<1>1. Len(messages) \in Nat /\ DOMAIN messages = 1..Len(messages)
  OBVIOUS
<1>2. Lacks(messages, a) => mine = {}
  BY DEF Lacks
<1>3. mine = {} => then = shown[a]
  BY DEF TitleShown
<1>4. ASSUME mine # {}
      PROVE  /\ then \in Text
             /\ a \notin About(messages, lost) => EndsIn(messages, a, then.title)
  <2> DEFINE last == Max(mine)
  <2>1. mine \subseteq 1..Len(messages)
    BY <1>1
  <2>2. last \in mine /\ \A i \in mine : last >= i
    BY <1>1, <1>4, <2>1, MaxIsGreatest
  <2>3. then = [title |-> messages[last].title, whole |-> whole]
    BY <1>4 DEF TitleShown
  <2> HIDE DEF last, then
  <2>4. messages[last] \in Message
    BY <1>1, <2>2
  <2>5. a \notin About(messages, lost) =>
          \A i \in DOMAIN messages : messages[i].article = a => i \in mine
    BY DEF About
  <2>6. a \notin About(messages, lost) =>
          \A j \in DOMAIN messages : j > last => messages[j].article # a
    BY <1>1, <2>2, <2>5
  <2>7. then.title = messages[last].title /\ then \in Text
    BY <2>3, <2>4 DEF Message, Text
  <2> QED  BY <2>2, <2>6, <2>7 DEF EndsIn
<1>5. a \notin About(messages, lost) /\ ~Lacks(messages, a) => mine # {}
  BY DEF About, Lacks
<1> HIDE DEF mine, then
<1>6. /\ then = shown[a] \/ then \in Text
      /\ Lacks(messages, a) => then = shown[a]
      /\ a \notin About(messages, lost) /\ ~Lacks(messages, a) => EndsIn(messages, a, then.title)
  BY <1>2, <1>3, <1>4, <1>5
<1> QED  BY <1>6 DEF then

(* The page shows titles only.                                             *)
LEMMA PublishTyped ==
  ASSUME TypeOK, NEW messages \in Seq(Message), NEW whole \in BOOLEAN, NEW lost,
         Publish(messages, whole, lost)
  PROVE  shown' \in [Articles -> Text]
<1>1. \A a \in Articles : TitleShown(messages, whole, lost, a) \in Text
  BY TitleShownIs DEF TypeOK
<1> QED  BY <1>1 DEF Publish

(* The counter of the measurement starts anew in time.                     *)
LEMMA CountedTyped ==
  ASSUME TypeOK, NEW n \in Nat
  PROVE  Counted(n) \in 0..(Maximum - 1)
<1>1. Maximum \in Nat \ {0} /\ counter + n \in Nat
  BY PluginLifecycleAssumption DEF TypeOK, PluginTypeOK
<1>2. \A i, k \in Int : k > 0 => i % k \in 0..(k - 1)
  OBVIOUS
<1> QED  BY <1>1, <1>2 DEF Counted

(* Types hold at the start.                                                *)
LEMMA TypeInit == Init => TypeOK
<1> SUFFICES ASSUME Init PROVE TypeOK
  OBVIOUS
<1> USE DEF Init
<1>1. ClientTypeOK(Message)
  BY DEF ClientInit, ClientTypeOK
<1>2. PluginTypeOK
  <2>1. 0 \in 0..(Maximum - 1) /\ "client" \in Modes
    BY PluginLifecycleAssumption
  <2> QED  BY <2>1 DEF PluginInit, PluginTypeOK
<1>3. NoSetting.title \in Titles
  BY NoSettingTyped DEF Setting
<1>4. shown \in [Articles -> Text]
  BY <1>3 DEF Text
<1>5. /\ installed \in Triggers /\ title \in [Articles -> Titles]
      /\ writer \in [Writers -> {"idle", "firing", "returned"}]
      /\ setting \in [Writers -> Setting]
      /\ outdated \subseteq Writers /\ fresh \subseteq Writers /\ disturbed \subseteq Articles
  BY <1>3, NoSettingTyped
<1>6. queue \in Seq(Message) /\ Len(queue) <= MaxMsg /\ buffer \in Seq(Message)
  BY SyncModesAssumption
<1> HIDE DEF Init
<1> QED  BY <1>1, <1>2, <1>4, <1>5, <1>6 DEF TypeOK

(* The fields of the client are typed whatever it does.                    *)
LEMMA ClientStepTyped ==
  ASSUME TypeOK, NEW w \in Writers, NEW m \in Message, NEW losers,
         \/ PublishThroughClient(w, m) \/ PublishFails(w) \/ ConnectFails(w) \/ ClientConnects(w)
         \/ ClientSends(w) \/ ConnectionsBreak(losers) \/ ClientEnds(w)
         \/ UNCHANGED client
  PROVE  ClientTypeOK(Message)'
<1> USE DEF TypeOK, ClientTypeOK
<1>1. CASE PublishThroughClient(w, m)
  BY <1>1 DEF PublishThroughClient, HasClient
<1>7. CASE PublishFails(w)
  BY <1>7 DEF PublishFails, HasClient
<1>2. CASE ConnectFails(w) \/ UNCHANGED client
  BY <1>2 DEF ConnectFails, client
<1>3. CASE ClientConnects(w)
  BY <1>3 DEF ClientConnects
<1>4. CASE ClientSends(w)
  <2>1. Tail(outbox[w]) \in Seq(Message)
    BY <1>4 DEF ClientSends
  <2> QED  BY <1>4, <2>1 DEF ClientSends
<1>5. CASE ConnectionsBreak(losers)
  <2>1. \A v \in losers : v \in Writers /\ Tail(outbox[v]) \in Seq(Message)
    BY <1>5 DEF ConnectionsBreak
  <2> QED  BY <1>5, <2>1 DEF ConnectionsBreak
<1>6. CASE ClientEnds(w)
  BY <1>6 DEF ClientEnds
<1> QED  BY <1>1, <1>2, <1>3, <1>4, <1>5, <1>6, <1>7

(* The fields of the plugin are typed when it starts and when it ends.     *)
LEMMA PluginStepTyped ==
  ASSUME TypeOK,
         \/ \E options \in OptionLists : PluginStarts(options) \/ PluginRefuses(options)
         \/ PluginStops \/ PluginDies \/ UNCHANGED plugin
  PROVE  PluginTypeOK'
<1>1. 0 \in 0..(Maximum - 1) /\ "client" \in Modes
  BY PluginLifecycleAssumption
<1>2. ASSUME NEW options \in OptionLists, PluginStarts(options) PROVE PluginTypeOK'
  <2>1. ModeOf(options) \in Modes /\ MeasuringOf(options) \in BOOLEAN
    BY ModeTyped DEF MeasuringOf
  <2> QED  BY <1>1, <1>2, <2>1 DEF PluginStarts, PluginTypeOK
<1>3. ASSUME NEW options \in OptionLists, PluginRefuses(options) PROVE PluginTypeOK'
  BY <1>3 DEF PluginRefuses, TypeOK, PluginTypeOK
<1>4. CASE PluginStops \/ PluginDies
  BY <1>1, <1>4 DEF PluginStops, PluginDies, Unloaded, PluginTypeOK
<1>5. CASE UNCHANGED plugin
  BY <1>5 DEF plugin, TypeOK, PluginTypeOK
<1> QED  BY <1>2, <1>3, <1>4, <1>5

(* The messages of a lane are about articles.                              *)
LEMMA ArticlesOf ==
  ASSUME NEW s \in Seq(Message)
  PROVE  /\ {m.article : m \in Range(s)} \subseteq Articles
         /\ s # <<>> => Head(s).article \in Articles
<1>1. \A i \in DOMAIN s : s[i] \in Message
  OBVIOUS
<1>2. \A m \in Range(s) : m.article \in Articles
  BY <1>1 DEF Range, Message
<1>3. s # <<>> => Head(s) \in Message
  OBVIOUS
<1> QED  BY <1>2, <1>3 DEF Message

(* So are those at some of its places.                                     *)
LEMMA AboutTyped ==
  ASSUME NEW s \in Seq(Message), NEW places \in SUBSET DOMAIN s
  PROVE  About(s, places) \subseteq Articles
<1>1. \A i \in DOMAIN s : s[i].article \in Articles
  <2>1. \A i \in DOMAIN s : s[i] \in Message
    OBVIOUS
  <2> QED  BY <2>1 DEF Message
<1> QED  BY <1>1 DEF About

(* The queue is taken up to a message.                                     *)
LEMMA Split ==
  ASSUME NEW s \in Seq(Message), NEW n \in DOMAIN s
  PROVE  /\ SubSeq(s, 1, n) \in Seq(Message) /\ Len(SubSeq(s, 1, n)) = n
         /\ \A i \in 1..n : SubSeq(s, 1, n)[i] = s[i]
         /\ SubSeq(s, n + 1, Len(s)) \in Seq(Message)
         /\ Len(SubSeq(s, n + 1, Len(s))) = Len(s) - n
         /\ \A i \in 1..(Len(s) - n) : SubSeq(s, n + 1, Len(s))[i] = s[n + i]
         /\ Len(s) \in Nat /\ n \in 1..Len(s) /\ DOMAIN s = 1..Len(s)
<1>1. Len(s) \in Nat /\ n \in 1..Len(s) /\ DOMAIN s = 1..Len(s)
  OBVIOUS
<1>2. \A i \in 1..Len(s) : s[i] \in Message
  OBVIOUS
<1>3. /\ SubSeq(s, 1, n) \in Seq(Message) /\ Len(SubSeq(s, 1, n)) = n
      /\ \A i \in 1..n : SubSeq(s, 1, n)[i] = s[i]
  BY <1>1, <1>2
<1> DEFINE rest == SubSeq(s, n + 1, Len(s))
<1>4. \A i \in (n + 1)..Len(s) : s[i] \in Message
  BY <1>1, <1>2
<1>5. rest \in Seq(Message)
  BY <1>1, <1>4
<1>6. Len(rest) = Len(s) - n
  BY <1>1
<1>7. \A i \in 1..(Len(s) - n) : rest[i] = s[n + i]
  BY <1>1
<1> QED  BY <1>1, <1>3, <1>5, <1>6, <1>7

(* Setting a title, and beginning again, keep the types.                   *)
LEMMA FireTyped ==
  ASSUME TypeOK, NEW w \in Writers, NEW s, s.article \in Articles, s.title \in Titles,
         Fire(w, s)
  PROVE  TypeOK'
<1> USE DEF Fire
<1>1. ClientTypeOK(Message)' /\ PluginTypeOK'
  BY DEF TypeOK, ClientTypeOK, PluginTypeOK, client, plugin
<1>2. setting' \in [Writers -> Setting]
  BY DEF TypeOK, Setting
<1> QED  BY <1>1, <1>2 DEF TypeOK

(* So does a trigger.                                                      *)
LEMMA TriggerTyped ==
  ASSUME TypeOK, NEW w \in Writers, Trigger(w) \/ TriggerMqFails(w)
  PROVE  TypeOK'
<1>1. MessageOf(w) \in Message /\ setting[w].article \in Articles
  BY MessageTyped
<1> USE DEF Returns
<1>2. /\ PluginTypeOK'
      /\ installed' \in Triggers
      /\ title' \in [Articles -> Titles] /\ shown' \in [Articles -> Text]
      /\ writer' \in [Writers -> {"idle", "firing", "returned"}]
      /\ setting' \in [Writers -> Setting]
      /\ outdated' \subseteq Writers
  BY DEF Trigger, TriggerNone, TriggerClient, TriggerMq, TriggerMqFails, TriggerGlobal, TypeOK,
         PluginTypeOK, plugin
<1>3. /\ ClientTypeOK(Message)'
      /\ queue' \in Seq(Message) /\ Len(queue') <= MaxMsg
      /\ buffer' \in Seq(Message)
      /\ disturbed' \subseteq Articles /\ fresh' \subseteq Writers
  <2>1. CASE TriggerNone(w) \/ TriggerMqFails(w)
    <3>1. ClientTypeOK(Message)'
      BY <1>1, <2>1, ClientStepTyped DEF TriggerNone, TriggerMqFails
    <3> QED  BY <1>1, <2>1, <3>1 DEF TriggerNone, TriggerMqFails, Disturb, TypeOK
  <2>2. CASE TriggerClient(w)
    <3>1. ClientTypeOK(Message)'
      BY <1>1, <2>2, ClientStepTyped DEF TriggerClient
    <3>2. disturbed' \subseteq Articles /\ fresh' \subseteq Writers
      BY <1>1, <2>2 DEF TriggerClient, HandOver, Disturb, TypeOK
    <3> QED  BY <2>2, <3>1, <3>2 DEF TriggerClient, TypeOK
  <2>3. CASE TriggerMq(w)
    <3>1. Len(queue) < MaxMsg /\ queue' = Append(queue, MessageOf(w)) /\ queue \in Seq(Message)
      BY <2>3 DEF TriggerMq, TypeOK
    <3>2. queue' \in Seq(Message) /\ Len(queue') <= MaxMsg
      BY <1>1, <3>1, SyncModesAssumption
    <3>3. ClientTypeOK(Message)'
      BY <1>1, <2>3, ClientStepTyped DEF TriggerMq
    <3>4. disturbed' \subseteq Articles /\ fresh' \subseteq Writers
      BY <1>1, <2>3 DEF TriggerMq, HandOver, Disturb, TypeOK
    <3> QED  BY <2>3, <3>2, <3>3, <3>4 DEF TriggerMq, TypeOK
  <2>4. CASE TriggerGlobal(w)
    BY <2>4, <1>1, ClientStepTyped DEF TriggerGlobal, TypeOK
  <2> QED  BY <2>1, <2>2, <2>3, <2>4 DEF Trigger
<1> QED  BY <1>2, <1>3 DEF TypeOK

(* And a commit.                                                           *)
LEMMA CommitTyped ==
  ASSUME TypeOK, NEW w \in Writers, Commit(w)
  PROVE  TypeOK'
<1> USE DEF Commit
<1>1. MessageOf(w) \in Message /\ setting[w].article \in Articles /\ setting[w].title \in Titles
  BY MessageTyped
<1>2. ClientTypeOK(Message)' /\ PluginTypeOK'
  BY ClientStepTyped, PluginStepTyped, <1>1
<1>3. title' \in [Articles -> Titles] /\ outdated' \subseteq Writers
  BY <1>1 DEF TypeOK
<1>4. writer' \in [Writers -> {"idle", "firing", "returned"}] /\ setting' \in [Writers -> Setting]
  BY NoSettingTyped DEF TypeOK
<1>5. buffer' \in Seq(Message)
  <2>1. buffer \in Seq(Message) /\ Append(buffer, MessageOf(w)) \in Seq(Message)
    BY <1>1 DEF TypeOK
  <2>2. buffer' = buffer \/ buffer' = Append(buffer, MessageOf(w))
    OBVIOUS
  <2> QED  BY <2>1, <2>2
<1>6. disturbed' \subseteq Articles /\ fresh' \subseteq Writers
  BY <1>1 DEF TypeOK, Disturb
<1> QED  BY <1>2, <1>3, <1>4, <1>5, <1>6 DEF TypeOK

(* And what a tick does with the messages it takes.                        *)
LEMMA ProcessedTyped ==
  ASSUME TypeOK, NEW messages \in Seq(Message), NEW whole \in BOOLEAN,
         Processed(messages, whole)
  PROVE  /\ counter' \in 0..(Maximum - 1) /\ shown' \in [Articles -> Text]
         /\ disturbed' \subseteq Articles /\ fresh' \subseteq Writers
<1>1. PICK lost \in Lost(messages) :
        Publish(messages, whole, lost) /\ Disturb(About(messages, lost))
  BY DEF Processed
<1>2. About(messages, lost) \subseteq Articles
  BY AboutTyped DEF Lost
<1>3. counter' \in 0..(Maximum - 1)
  BY CountedTyped DEF Processed, TypeOK, PluginTypeOK
<1>4. disturbed' \subseteq Articles /\ fresh' \subseteq Writers
  BY <1>1, <1>2 DEF Disturb, TypeOK
<1> QED  BY <1>1, <1>3, <1>4, PublishTyped

(* And a broker that goes.                                                 *)
LEMMA BreakTyped ==
  ASSUME TypeOK, NEW losers \in SUBSET Writers, ConnectionsBreak(losers)
  PROVE  /\ ClientTypeOK(Message)'
         /\ {Head(outbox[w]).article : w \in losers} \subseteq Articles
<1>1. \A w \in losers : Head(outbox[w]).article \in Articles
  BY ArticlesOf DEF ConnectionsBreak, TypeOK, ClientTypeOK
<1>2. ClientTypeOK(Message)'
  <2>1. \A v \in losers : v \in Writers /\ Tail(outbox[v]) \in Seq(Message)
    BY DEF ConnectionsBreak, TypeOK, ClientTypeOK
  <2> QED  BY <2>1 DEF ConnectionsBreak, TypeOK, ClientTypeOK
<1> QED  BY <1>1, <1>2

(* ... in the midst of a tick as well.                                     *)
LEMMA BrokerGoesTyped ==
  ASSUME TypeOK, NEW taken \in Seq(Message), NEW whole \in BOOLEAN,
         NEW lost \in SUBSET DOMAIN taken, BrokerGoes(taken, whole, lost),
         PluginStops \/ PluginDies,
         queue' \in Seq(Message), Len(queue') <= MaxMsg, buffer' \in Seq(Message)
  PROVE  TypeOK'
<1>1. PICK losers \in SUBSET Writers :
        /\ ConnectionsBreak(losers)
        /\ Disturb({Head(outbox[w]).article : w \in losers} \cup About(taken, lost))
  BY DEF BrokerGoes
<1>2. /\ ClientTypeOK(Message)'
      /\ {Head(outbox[w]).article : w \in losers} \cup About(taken, lost) \subseteq Articles
  BY <1>1, BreakTyped, AboutTyped
<1>3. disturbed' \subseteq Articles /\ fresh' \subseteq Writers
  BY <1>1, <1>2 DEF Disturb, TypeOK
<1>4. PluginTypeOK'
  BY PluginStepTyped
<1>5. shown' \in [Articles -> Text]
  BY PublishTyped DEF BrokerGoes
<1> QED  BY <1>2, <1>3, <1>4, <1>5 DEF BrokerGoes, database, TypeOK

(* Every step keeps the types.                                             *)
LEMMA TypeStep == TypeOK /\ [Next]_vars => TypeOK'
<1> SUFFICES ASSUME TypeOK, [Next]_vars PROVE TypeOK'
  OBVIOUS
<1>1. CASE UNCHANGED vars
  <2>1. ClientTypeOK(Message)' /\ PluginTypeOK'
    BY <1>1 DEF vars, client, plugin, TypeOK, ClientTypeOK, PluginTypeOK
  <2> QED  BY <1>1, <2>1 DEF vars, database, history, TypeOK
<1>2. ASSUME NEW w \in Writers, SetTitle(w) PROVE TypeOK'
  <2>1. PICK a \in Articles, t \in Titles : Fire(w, [article |-> a, title |-> t])
    BY <1>2 DEF SetTitle
  <2> QED  BY <2>1, FireTyped
<1>3. ASSUME NEW w \in Writers, Restart(w) PROVE TypeOK'
  BY <1>3, MessageTyped, FireTyped DEF Restart
<1>4. ASSUME NEW w \in Writers, Trigger(w) \/ TriggerMqFails(w) PROVE TypeOK'
  BY <1>4, TriggerTyped
<1>5. ASSUME NEW w \in Writers, Commit(w) PROVE TypeOK'
  BY <1>5, CommitTyped
<1>6. ASSUME NEW w \in Writers, WriterEnds(w) PROVE TypeOK'
  <2>1. ClientTypeOK(Message)'
    BY <1>6 DEF WriterEnds, ClientEnds, TypeOK, ClientTypeOK
  <2>2. PluginTypeOK'
    BY <1>6 DEF WriterEnds, plugin, TypeOK, PluginTypeOK
  <2>3. {m.article : m \in Range(outbox[w])} \subseteq Articles /\ setting[w].article \in Articles
    BY ArticlesOf, MessageTyped DEF TypeOK, ClientTypeOK
  <2>4. disturbed' \subseteq Articles /\ fresh' \subseteq Writers
    BY <1>6, <2>3 DEF WriterEnds, Disturb, TypeOK
  <2>5. /\ writer' \in [Writers -> {"idle", "firing", "returned"}]
        /\ setting' \in [Writers -> Setting]
    BY <1>6, NoSettingTyped DEF WriterEnds, TypeOK
  <2> QED  BY <1>6, <2>1, <2>2, <2>4, <2>5 DEF WriterEnds, TypeOK
<1>7. ASSUME NEW w \in Writers, Connects(w) PROVE TypeOK'
  <2>1. ClientTypeOK(Message)'
    BY <1>7 DEF Connects, ClientConnects, TypeOK, ClientTypeOK
  <2>2. PluginTypeOK'
    BY <1>7 DEF Connects, plugin, TypeOK, PluginTypeOK
  <2> QED  BY <1>7, <2>1, <2>2 DEF Connects, database, history, TypeOK
<1>8. ASSUME NEW w \in Writers, Delivers(w) PROVE TypeOK'
  <2>1. Tail(outbox[w]) \in Seq(Message) /\ <<Head(outbox[w])>> \in Seq(Message)
    BY <1>8 DEF Delivers, ClientSends, TypeOK, ClientTypeOK
  <2>2. ClientTypeOK(Message)'
    BY <1>8, <2>1 DEF Delivers, ClientSends, TypeOK, ClientTypeOK
  <2>3. counter' \in 0..(Maximum - 1)
    BY <1>8, CountedTyped DEF Delivers, TypeOK, PluginTypeOK
  <2>4. PluginTypeOK'
    BY <1>8, <2>3 DEF Delivers, TypeOK, PluginTypeOK
  <2>5. shown' \in [Articles -> Text]
    BY <1>8, <2>1, PublishTyped DEF Delivers
  <2> QED  BY <1>8, <2>2, <2>4, <2>5 DEF Delivers, database, TypeOK
<1>9. CASE Tick
  <2>1. PICK messages \in Seq(Message), whole \in BOOLEAN : Processed(messages, whole)
    BY <1>9 DEF Tick, TypeOK
  <2>2. /\ counter' \in 0..(Maximum - 1) /\ shown' \in [Articles -> Text]
        /\ disturbed' \subseteq Articles /\ fresh' \subseteq Writers
    BY <2>1, ProcessedTyped
  <2>3. PluginTypeOK' /\ ClientTypeOK(Message)'
    BY <1>9, <2>2 DEF Tick, client, TypeOK, PluginTypeOK, ClientTypeOK
  <2>4. queue' \in Seq(Message) /\ Len(queue') <= MaxMsg /\ buffer' \in Seq(Message)
    <3>1. <<>> \in Seq(Message) /\ Len(<<>>) <= MaxMsg
      BY SyncModesAssumption
    <3>2. (queue' = queue \/ queue' = <<>>) /\ (buffer' = buffer \/ buffer' = <<>>)
      BY <1>9 DEF Tick
    <3> QED  BY <3>1, <3>2 DEF TypeOK
  <2> QED  BY <1>9, <2>2, <2>3, <2>4 DEF Tick, database, TypeOK
<1>10. ASSUME NEW n \in DOMAIN queue, NEW lost, DiesAtMessage(n, lost) PROVE TypeOK'
  <2> DEFINE taken == SubSeq(queue, 1, n)
             rest == SubSeq(queue, n + 1, Len(queue))
  <2>1. queue \in Seq(Message) /\ Len(queue) <= MaxMsg /\ MaxMsg \in Nat
    BY SyncModesAssumption DEF TypeOK
  <2>2. /\ taken \in Seq(Message) /\ rest \in Seq(Message)
        /\ Len(rest) = Len(queue) - n /\ Len(queue) \in Nat /\ n \in 1..Len(queue)
    BY <2>1, Split
  <2>3. /\ PluginDies /\ BrokerGoes(taken, FALSE, lost)
        /\ lost \in SUBSET DOMAIN taken
        /\ queue' = rest /\ buffer' = buffer
    BY <1>10 DEF DiesAtMessage, Lost
  <2> HIDE DEF taken, rest
  <2>4. Len(queue') <= MaxMsg
    BY <2>1, <2>2, <2>3
  <2>5. buffer' \in Seq(Message)
    BY <2>3 DEF TypeOK
  <2> QED  BY <2>2, <2>3, <2>4, <2>5, BrokerGoesTyped
<1>14. CASE DiesAfterKill
  <2>1. PICK lost \in Lost(buffer) : BrokerGoes(buffer, TRUE, lost)
    BY <1>14 DEF DiesAfterKill
  <2>2. lost \in SUBSET DOMAIN buffer /\ buffer \in Seq(Message)
    BY <2>1 DEF Lost, TypeOK
  <2>3. PluginDies /\ buffer' = <<>> /\ queue' = queue
    BY <1>14 DEF DiesAfterKill
  <2>4. queue' \in Seq(Message) /\ Len(queue') <= MaxMsg /\ buffer' \in Seq(Message)
    BY <2>3 DEF TypeOK
  <2> QED  BY <2>1, <2>2, <2>3, <2>4, BrokerGoesTyped
<1>11. CASE StartBroker
  <2>1. PluginTypeOK'
    BY <1>11, PluginStepTyped DEF StartBroker
  <2>2. ClientTypeOK(Message)'
    BY <1>11 DEF StartBroker, client, TypeOK, ClientTypeOK
  <2> QED  BY <1>11, <2>1, <2>2 DEF StartBroker, database, history, TypeOK
<1>12. CASE TickAborts \/ TickThrows \/ BrokerEnds
  <2>1. CASE /\ PluginStops \/ PluginDies
             /\ BrokerGoes(<<>>, TRUE, {}) /\ UNCHANGED <<queue, buffer>>
    <3>1. <<>> \in Seq(Message) /\ {} \in SUBSET DOMAIN <<>>
      OBVIOUS
    <3>2. queue' \in Seq(Message) /\ Len(queue') <= MaxMsg /\ buffer' \in Seq(Message)
      BY <2>1 DEF TypeOK
    <3> QED  BY <2>1, <3>1, <3>2, BrokerGoesTyped
  <2> QED  BY <1>10, <1>12, <1>14, <2>1 DEF TickAborts, TickThrows, BrokerEnds
<1>13. ASSUME NEW trigger \in Triggers, InstallTrigger(trigger) PROVE TypeOK'
  <2>1. ClientTypeOK(Message)' /\ PluginTypeOK'
    BY <1>13 DEF InstallTrigger, client, plugin, TypeOK, ClientTypeOK, PluginTypeOK
  <2> QED  BY <1>13, <2>1 DEF InstallTrigger, history, TypeOK
<1> QED
  BY <1>1, <1>2, <1>3, <1>4, <1>5, <1>6, <1>7, <1>8, <1>9, <1>11, <1>12, <1>13 DEF Next

-----------------------------------------------------------------------------
(* Messages on their lanes.                                                *)

(* What a message at the end of a lane changes there.                      *)
LEMMA Appended ==
  ASSUME NEW s \in Seq(Message), NEW m \in Message
  PROVE  /\ EndsIn(Append(s, m), m.article, m.title)
         /\ \A a : a # m.article =>
              /\ Lacks(s, a) => Lacks(Append(s, m), a)
              /\ \A t : EndsIn(s, a, t) => EndsIn(Append(s, m), a, t)
<1> DEFINE z == Append(s, m)
           n == Len(s)
<1>1. /\ n \in Nat /\ DOMAIN s = 1..n /\ DOMAIN z = 1..(n + 1)
      /\ z[n + 1] = m /\ \A i \in 1..n : z[i] = s[i]
  OBVIOUS
<1> HIDE DEF z, n
<1>2. EndsIn(z, m.article, m.title)
  BY <1>1 DEF EndsIn
<1>3. ASSUME NEW a, a # m.article, Lacks(s, a) PROVE Lacks(z, a)
  BY <1>1, <1>3 DEF Lacks
<1>4. ASSUME NEW a, a # m.article, NEW t, EndsIn(s, a, t) PROVE EndsIn(z, a, t)
  <2>1. PICK i \in 1..n : /\ s[i].article = a /\ s[i].title = t
                          /\ \A j \in 1..n : j > i => s[j].article # a
    BY <1>1, <1>4 DEF EndsIn
  <2>2. i \in 1..(n + 1) /\ z[i].article = a /\ z[i].title = t
    BY <1>1, <2>1
  <2>3. \A j \in 1..(n + 1) : j > i => z[j].article # a
    BY <1>1, <1>4, <2>1
  <2> QED  BY <1>1, <2>2, <2>3 DEF EndsIn
<1> QED  BY <1>2, <1>3, <1>4 DEF z

(* What the first message of a lane leaves behind.                         *)
LEMMA Tailed ==
  ASSUME NEW s \in Seq(Message), s # <<>>
  PROVE  \A a : /\ Lacks(s, a) => Lacks(Tail(s), a) /\ Head(s).article # a
                /\ \A t : EndsIn(s, a, t) =>
                     \/ EndsIn(Tail(s), a, t)
                     \/ /\ Lacks(Tail(s), a)
                        /\ Head(s).article = a /\ Head(s).title = t
<1> DEFINE z == Tail(s)
           n == Len(s)
<1>1. /\ n \in Nat \ {0} /\ DOMAIN s = 1..n /\ DOMAIN z = 1..(n - 1)
      /\ Head(s) = s[1] /\ \A i \in 1..(n - 1) : z[i] = s[i + 1]
  OBVIOUS
<1> HIDE DEF z, n
<1>2. ASSUME NEW a, Lacks(s, a) PROVE Lacks(z, a) /\ Head(s).article # a
  <2>1. \A i \in 1..n : s[i].article # a
    BY <1>1, <1>2 DEF Lacks
  <2>2. 1 \in 1..n /\ \A i \in 1..(n - 1) : i + 1 \in 1..n
    BY <1>1
  <2>3. \A i \in 1..(n - 1) : z[i].article # a
    BY <1>1, <2>1, <2>2
  <2> QED  BY <1>1, <2>1, <2>2, <2>3 DEF Lacks
<1>3. ASSUME NEW a, NEW t, EndsIn(s, a, t)
      PROVE  \/ EndsIn(z, a, t)
             \/ (Lacks(z, a) /\ Head(s).article = a /\ Head(s).title = t)
  <2>1. PICK i \in 1..n : /\ s[i].article = a /\ s[i].title = t
                          /\ \A j \in 1..n : j > i => s[j].article # a
    BY <1>1, <1>3 DEF EndsIn
  <2>2. CASE i = 1
    BY <1>1, <2>1, <2>2 DEF Lacks
  <2>3. CASE i > 1
    <3>1. i - 1 \in 1..(n - 1) /\ z[i - 1] = s[i]
      BY <1>1, <2>1, <2>3
    <3>2. \A j \in 1..(n - 1) : j > i - 1 => z[j].article # a
      BY <1>1, <2>1, <2>3
    <3> QED  BY <1>1, <2>1, <3>1, <3>2 DEF EndsIn
  <2> QED  BY <1>1, <2>1, <2>2, <2>3
<1> QED  BY <1>2, <1>3 DEF z

(* Messages are taken off a lane: of an article the last message is among  *)
(* them, or among the rest.                                                *)
Parts(s, taken, rest, a) ==
  /\ Lacks(s, a) => Lacks(taken, a) /\ Lacks(rest, a)
  /\ \A t : EndsIn(s, a, t) => EndsIn(rest, a, t) \/ (Lacks(rest, a) /\ EndsIn(taken, a, t))

(* None are taken, or all.                                                 *)
LEMMA PartsWhole ==
  ASSUME NEW s, NEW a
  PROVE  Parts(s, <<>>, s, a) /\ Parts(s, s, <<>>, a)
BY DEF Parts, Lacks, EndsIn

(* The first is.                                                           *)
LEMMA PartsFirst ==
  ASSUME NEW s \in Seq(Message), s # <<>>, NEW a
  PROVE  Parts(s, <<Head(s)>>, Tail(s), a)
<1> DEFINE m == Head(s)
<1>1. m.article # a => Lacks(<<m>>, a)
  BY DEF Lacks
<1>2. m.article = a => EndsIn(<<m>>, a, m.title)
  BY DEF EndsIn
<1> HIDE DEF m
<1>3. Lacks(s, a) => Lacks(Tail(s), a) /\ m.article # a
  BY Tailed DEF m
<1>4. \A t : EndsIn(s, a, t) =>
        EndsIn(Tail(s), a, t) \/ (Lacks(Tail(s), a) /\ m.article = a /\ m.title = t)
  BY Tailed DEF m
<1>5. Parts(s, <<m>>, Tail(s), a)
  BY <1>1, <1>2, <1>3, <1>4 DEF Parts
<1> QED  BY <1>5 DEF m

(* The first n are.                                                        *)
LEMMA PartsAt ==
  ASSUME NEW s \in Seq(Message), NEW n \in DOMAIN s, NEW a
  PROVE  Parts(s, SubSeq(s, 1, n), SubSeq(s, n + 1, Len(s)), a)
<1> DEFINE x == SubSeq(s, 1, n)
           y == SubSeq(s, n + 1, Len(s))
           k == Len(s)
<1>1. /\ k \in Nat /\ n \in 1..k /\ DOMAIN s = 1..k
      /\ DOMAIN x = 1..n /\ \A i \in 1..n : x[i] = s[i]
      /\ DOMAIN y = 1..(k - n) /\ \A i \in 1..(k - n) : y[i] = s[n + i]
  BY Split
<1> HIDE DEF x, y, k
<1>2. ASSUME Lacks(s, a) PROVE Lacks(x, a) /\ Lacks(y, a)
  <2>1. \A i \in 1..n : i \in 1..k
    BY <1>1
  <2>2. \A i \in 1..(k - n) : n + i \in 1..k
    BY <1>1
  <2>3. \A i \in 1..k : s[i].article # a
    BY <1>1, <1>2 DEF Lacks
  <2> QED  BY <1>1, <2>1, <2>2, <2>3 DEF Lacks
<1>3. ASSUME NEW t, EndsIn(s, a, t)
      PROVE  EndsIn(y, a, t) \/ (Lacks(y, a) /\ EndsIn(x, a, t))
  <2>1. PICK i \in 1..k : /\ s[i].article = a /\ s[i].title = t
                          /\ \A j \in 1..k : j > i => s[j].article # a
    BY <1>1, <1>3 DEF EndsIn
  <2>2. CASE i <= n
    <3>1. \A j \in 1..(k - n) : n + j \in 1..k /\ n + j > i
      BY <1>1, <2>2
    <3>2. Lacks(y, a)
      BY <1>1, <2>1, <3>1 DEF Lacks
    <3>3. i \in 1..n /\ \A j \in 1..n : j \in 1..k
      BY <1>1, <2>1, <2>2
    <3> QED  BY <1>1, <2>1, <3>2, <3>3 DEF EndsIn
  <2>3. CASE i > n
    <3>1. PICK h \in 1..(k - n) : n + h = i
      <4>1. i - n \in 1..(k - n) /\ n + (i - n) = i
        BY <1>1, <2>1, <2>3
      <4> QED  BY <4>1
    <3>2. \A j \in 1..(k - n) : j > h => n + j \in 1..k /\ n + j > i
      BY <1>1, <3>1
    <3>3. y[h] = s[i] /\ \A j \in 1..(k - n) : j > h => y[j].article # a
      BY <1>1, <2>1, <3>1, <3>2
    <3> QED  BY <1>1, <2>1, <3>1, <3>3 DEF EndsIn
  <2> QED  BY <1>1, <2>1, <2>2, <2>3
<1>4. Parts(s, x, y, a)
  BY <1>2, <1>3 DEF Parts
<1> QED  BY <1>4 DEF x, y, k

(* There is one last message of an article.                                *)
LEMMA EndsOnce ==
  ASSUME NEW s \in Seq(Message), NEW a, NEW t, EndsIn(s, a, t)
  PROVE  ~Lacks(s, a) /\ \A u : EndsIn(s, a, u) => u = t
<1> DEFINE n == Len(s)
<1>1. n \in Nat /\ DOMAIN s = 1..n
  OBVIOUS
<1> HIDE DEF n
<1>2. PICK i \in 1..n : /\ s[i].article = a /\ s[i].title = t
                        /\ \A j \in 1..n : j > i => s[j].article # a
  BY <1>1 DEF EndsIn
<1>3. ~Lacks(s, a)
  BY <1>1, <1>2 DEF Lacks
<1>4. ASSUME NEW u, EndsIn(s, a, u) PROVE u = t
  <2>1. PICK k \in 1..n : /\ s[k].article = a /\ s[k].title = u
                          /\ \A j \in 1..n : j > k => s[j].article # a
    BY <1>1, <1>4 DEF EndsIn
  <2>2. ~(k > i) /\ ~(i > k)
    BY <1>2, <2>1
  <2>3. i = k
    BY <1>1, <2>2
  <2> QED  BY <1>2, <2>1, <2>3
<1> QED  BY <1>3, <1>4

(* An article none of whose messages leave or join a lane.                 *)
LEMMA Undisturbed ==
  ASSUME NEW W, NEW V, NEW a,
         \A k \in Lanes : /\ Lacks(W[k], a) => Lacks(V[k], a)
                          /\ \A t : EndsIn(W[k], a, t) => EndsIn(V[k], a, t)
  PROVE  \A now : Moves(W, now, V, now, a)
BY DEF Moves, Single, WillShow

(* A message joins the one lane its article is on.                         *)
LEMMA Joins ==
  ASSUME NEW W, NEW V, NEW l \in Lanes, NEW m \in Message, W[l] \in Seq(Message),
         V[l] = Append(W[l], m), \A k \in Lanes \ {l} : V[k] = W[k]
  PROVE  /\ (\A k \in Lanes \ {l} : Lacks(W[k], m.article)) =>
              /\ Single(V, m.article)
              /\ \A now : WillShow(V, now, m.article, m.title)
         /\ \A a : a # m.article => \A now : Moves(W, now, V, now, a)
<1>1. EndsIn(V[l], m.article, m.title)
  BY Appended
<1>2. ASSUME \A k \in Lanes \ {l} : Lacks(W[k], m.article)
      PROVE  Single(V, m.article) /\ \A now : WillShow(V, now, m.article, m.title)
  BY <1>1, <1>2 DEF Single, WillShow
<1>3. ASSUME NEW a, a # m.article
      PROVE  \A k \in Lanes : /\ Lacks(W[k], a) => Lacks(V[k], a)
                              /\ \A t : EndsIn(W[k], a, t) => EndsIn(V[k], a, t)
  BY <1>3, Appended
<1> QED  BY <1>2, <1>3, Undisturbed

(* Messages leave a lane and are published.                                *)
LEMMA Leaves ==
  ASSUME NEW W, NEW V, NEW l \in Lanes, NEW a, NEW now, NEW then,
         \A k \in Lanes \ {l} : /\ Lacks(W[k], a) => Lacks(V[k], a)
                               /\ \A t : EndsIn(W[k], a, t) => EndsIn(V[k], a, t),
         Lacks(W[l], a) => Lacks(V[l], a) /\ then = now,
         \A t : EndsIn(W[l], a, t) =>
           EndsIn(V[l], a, t) \/ (Lacks(V[l], a) /\ then = t)
  PROVE  Moves(W, now, V, then, a)
<1>1. Single(W, a) => Single(V, a)
  BY DEF Single
<1>2. ASSUME NEW t, WillShow(W, now, a, t) PROVE WillShow(V, then, a, t)
  <2>1. CASE now = t /\ \A k \in Lanes : Lacks(W[k], a)
    BY <2>1 DEF WillShow
  <2>2. ASSUME NEW o \in Lanes, EndsIn(W[o], a, t), \A k \in Lanes \ {o} : Lacks(W[k], a)
        PROVE  WillShow(V, then, a, t)
    <3>1. CASE o = l
      BY <2>2, <3>1 DEF WillShow
    <3>2. CASE o # l
      BY <2>2, <3>2 DEF WillShow
    <3> QED  BY <3>1, <3>2
  <2> QED  BY <1>2, <2>1, <2>2 DEF WillShow
<1> QED  BY <1>1, <1>2 DEF Moves

(* The lanes by their names, before and after a step.                      *)
LEMMA WaysAre ==
  /\ \A w \in Writers : w \in Lanes /\ w # "mq" /\ w # "global" /\ Ways[w] = outbox[w]
  /\ "mq" \in Lanes /\ Ways["mq"] = queue
  /\ "global" \in Lanes /\ Ways["global"] = buffer
  /\ \A l \in Lanes : l \in Writers \/ l = "mq" \/ l = "global"
  /\ TypeOK => \A l \in Lanes : Ways[l] \in Seq(Message)
<1>1. \A w \in Writers : w \in Lanes /\ w # "mq" /\ w # "global"
  BY SyncModesAssumption DEF Lanes
<1>2. "mq" \in Lanes /\ "global" \in Lanes
  BY DEF Lanes
<1>3. \A l \in Lanes : l \in Writers \/ l = "mq" \/ l = "global"
  BY DEF Lanes
<1>4. \A l \in Lanes : Ways[l] = Lane(l)
  BY DEF Ways
<1>5. Lane("mq") = queue /\ Lane("global") = buffer
  BY DEF Lane
<1>6. \A w \in Writers : Lane(w) = outbox[w]
  BY <1>1 DEF Lane
<1>7. TypeOK => \A l \in Lanes : Ways[l] \in Seq(Message)
  BY <1>1, <1>2, <1>3, <1>4, <1>5, <1>6 DEF TypeOK, ClientTypeOK
<1> QED  BY <1>1, <1>2, <1>3, <1>4, <1>5, <1>6, <1>7

(* The same of the lanes after a step.                                     *)
LEMMA WaysAreNext ==
  /\ \A w \in Writers : Ways'[w] = outbox'[w]
  /\ Ways'["mq"] = queue' /\ Ways'["global"] = buffer'
<1>1. \A w \in Writers : w \in Lanes /\ w # "mq" /\ w # "global"
  BY SyncModesAssumption DEF Lanes
<1>2. \A l \in Lanes : Ways'[l] = Lane(l)'
  BY DEF Ways
<1>3. Lane("mq")' = queue' /\ Lane("global")' = buffer'
  BY DEF Lane
<1>4. \A w \in Writers : Lane(w)' = outbox'[w]
  BY <1>1 DEF Lane
<1> QED  BY <1>1, <1>2, <1>3, <1>4, WaysAre

(* Nothing of an article is elsewhere when nothing is overtaken.           *)
LEMMA NotOvertaking ==
  ASSUME NEW w \in Writers, NEW l \in Lanes, ~Overtakes(w, l)
  PROVE  \A k \in Lanes \ {l} : Lacks(Ways[k], setting[w].article)
<1> DEFINE a == setting[w].article
<1>1. \A m \in Elsewhere(l) : m.article # a
  BY DEF Overtakes
<1>2. ASSUME NEW s, \A m \in Range(s) : m.article # a PROVE Lacks(s, a)
  BY <1>2 DEF Lacks, Range
<1>3. ASSUME NEW k \in Writers \ {l} PROVE Lacks(Ways[k], a)
  BY <1>1, <1>2, <1>3, WaysAre DEF Elsewhere
<1>4. ASSUME l # "mq" PROVE Lacks(Ways["mq"], a)
  <2>1. Range(queue) \subseteq Elsewhere(l)
    BY <1>4 DEF Elsewhere
  <2> QED  BY <1>1, <1>2, <2>1, WaysAre
<1>5. ASSUME l # "global" PROVE Lacks(Ways["global"], a)
  <2>1. Range(buffer) \subseteq Elsewhere(l)
    BY <1>5 DEF Elsewhere
  <2> QED  BY <1>1, <1>2, <2>1, WaysAre
<1> QED  BY <1>3, <1>4, <1>5, WaysAre

(* Of the articles not in D, nobody begins or gives up a set, and no       *)
(* trigger returns but that of mode "global".                              *)
Going(D) ==
  \A w \in Writers :
    /\ writer[w] # "idle" /\ setting[w].article \notin D =>
         writer'[w] # "idle" /\ setting'[w] = setting[w]
    /\ writer[w] = "returned" /\ setting[w].article \notin D => writer'[w] = "returned"
    /\ writer'[w] = "returned" =>
         /\ setting'[w] = setting[w]
         /\ \/ writer[w] = "returned"
            \/ setting[w].trigger = "global"
            \/ setting[w].article \in D

(* A step in which nothing is set nor committed, and which disturbs the    *)
(* articles in D: the messages of the others stay where they are or are    *)
(* published in their order, and so do the sets in progress.               *)
LEMMA Moving ==
  ASSUME TypeOK, Agreed, NEW D,
         title' = title, outdated \subseteq outdated',
         disturbed' = disturbed \cup D,
         fresh' = {w \in fresh : setting[w].article \notin D},
         \A a \in Articles \ D : Moves(Ways, shown[a].title, Ways', shown'[a].title, a),
         Going(D)
  PROVE  Agreed'
<1> USE DEF Going
<1>1. \A w \in Writers : setting[w].article \in Articles
  BY MessageTyped
<1>2. fresh \subseteq Writers
  BY DEF TypeOK
<1>3. ASSUME NEW w \in Writers, NEW a \in Articles \ D, Open(w, a)
      PROVE  Open(w, a)'
  BY <1>3 DEF Open
<1>4. ASSUME NEW w \in fresh'
      PROVE  writer'[w] = "returned" /\ setting'[w].trigger # "global"
             /\ setting'[w] = setting[w] /\ w \in fresh /\ w \in Writers
             /\ setting[w].article \in Articles \ D
  BY <1>1, <1>2, <1>4 DEF Agreed
<1>5. ASSUME NEW w \in Writers PROVE Handed(w)'
  <2> SUFFICES ASSUME writer'[w] = "returned", w \notin outdated',
                      setting'[w].trigger # "global"
               PROVE  w \in fresh' \/ setting'[w].article \in disturbed'
    BY DEF Handed
  <2>1. setting'[w] = setting[w]
    OBVIOUS
  <2>2. CASE setting[w].article \in D
    BY <2>1, <2>2
  <2>3. CASE setting[w].article \notin D
    <3>1. Handed(w) /\ writer[w] = "returned" /\ w \notin outdated
      BY <2>1, <2>3 DEF Agreed
    <3> QED  BY <2>1, <2>3, <3>1 DEF Handed
  <2> QED  BY <2>2, <2>3
<1>6. ASSUME NEW w \in fresh' \ outdated' PROVE Promised(w)'
  <2> DEFINE a == setting[w].article
  <2>1. /\ w \in fresh \ outdated /\ w \in Writers /\ a \in Articles \ D
        /\ setting'[w] = setting[w]
    BY <1>4, <1>6
  <2>2. Single(Ways, a) /\ (WillShow(Ways, shown[a].title, a, setting[w].title)
                              \/ \E v \in Writers \ {w} : Open(v, a))
    BY <2>1 DEF Agreed, Promised
  <2>3. Single(Ways', a) /\ (WillShow(Ways', shown'[a].title, a, setting[w].title)
                               \/ \E v \in Writers \ {w} : Open(v, a)')
    BY <2>1, <2>2, <1>3 DEF Moves
  <2> QED  BY <2>1, <2>3 DEF Promised
<1>7. ASSUME NEW a \in Articles \ disturbed' PROVE Settled(a)'
  <2>1. a \in Articles \ D /\ a \in Articles \ disturbed
    BY <1>7
  <2>2. Single(Ways, a) /\ (WillShow(Ways, shown[a].title, a, title[a])
                              \/ \E v \in Writers : Open(v, a))
    BY <2>1 DEF Agreed, Settled
  <2>3. Single(Ways', a) /\ (WillShow(Ways', shown'[a].title, a, title[a])
                               \/ \E v \in Writers : Open(v, a)')
    BY <2>1, <2>2, <1>3 DEF Moves
  <2> QED  BY <2>3 DEF Settled
<1> QED  BY <1>4, <1>5, <1>6, <1>7 DEF Agreed

(* A lane is emptied: of the articles on it, messages are lost.            *)
LEMMA Emptied ==
  ASSUME NEW s \in Seq(Message), NEW a, a \notin {m.article : m \in Range(s)}
  PROVE  Lacks(<<>>, a) /\ Lacks(s, a) /\ \A t : ~EndsIn(s, a, t)
BY DEF Lacks, EndsIn, Range

(* Messages are taken off a lane and published, but for those of other     *)
(* articles, which may be lost.                                            *)
LEMMA Published ==
  ASSUME TypeOK, NEW l \in Lanes, NEW taken \in Seq(Message), NEW whole \in BOOLEAN,
         NEW lost, Publish(taken, whole, lost),
         NEW a \in Articles \ About(taken, lost), Parts(Ways[l], taken, Ways'[l], a),
         \A k \in Lanes \ {l} :
           /\ Lacks(Ways[k], a) => Lacks(Ways'[k], a)
           /\ \A t : EndsIn(Ways[k], a, t) => EndsIn(Ways'[k], a, t)
  PROVE  Moves(Ways, shown[a].title, Ways', shown'[a].title, a)
<1> DEFINE then == TitleShown(taken, whole, lost, a)
<1>1. shown'[a] = then
  BY DEF Publish
<1>2. /\ Lacks(taken, a) => then = shown[a]
      /\ ~Lacks(taken, a) => EndsIn(taken, a, then.title)
  BY TitleShownIs
<1> HIDE DEF then
<1>3. \A t : EndsIn(taken, a, t) => then.title = t
  BY <1>2, EndsOnce
<1>4. Lacks(Ways[l], a) => Lacks(Ways'[l], a) /\ shown'[a].title = shown[a].title
  BY <1>1, <1>2 DEF Parts
<1>5. \A t : EndsIn(Ways[l], a, t) =>
        EndsIn(Ways'[l], a, t) \/ (Lacks(Ways'[l], a) /\ shown'[a].title = t)
  BY <1>1, <1>3 DEF Parts
<1> QED  BY <1>4, <1>5, Leaves

-----------------------------------------------------------------------------
(* The steps.                                                              *)

(* Setting a title and beginning again: what is open stays open, and a     *)
(* writer that begins again has promised nothing.                          *)
LEMMA FireStep ==
  ASSUME TypeOK, Agreed, NEW w \in Writers, NEW s, Fire(w, s),
         writer[w] # "idle" => s.article = setting[w].article
  PROVE  Agreed'
<1> USE DEF Fire
<1>1. Ways' = Ways
  BY DEF Ways, Lane, client
<1>2. fresh \subseteq Writers
  BY DEF TypeOK
<1>3. \A v \in Writers \ {w} : writer'[v] = writer[v] /\ setting'[v] = setting[v]
  BY DEF TypeOK
<1>4. writer'[w] = "firing" /\ setting'[w].article = s.article
  BY DEF TypeOK
<1>5. \A v \in Writers, a \in Articles : Open(v, a) => Open(v, a)'
  BY <1>3, <1>4 DEF Open
<1>6. \A v \in Writers : setting[v].article \in Articles
  BY MessageTyped
<1>7. \A v \in fresh' : writer'[v] = "returned" /\ setting'[v].trigger # "global"
  BY <1>2, <1>3 DEF Agreed
<1>8. \A v \in Writers : Handed(v)'
  BY <1>3, <1>4 DEF Agreed, Handed
<1>9. ASSUME NEW v \in fresh' \ outdated' PROVE Promised(v)'
  <2> DEFINE a == setting[v].article
  <2>1. v \in fresh \ outdated /\ v \in Writers \ {w} /\ a \in Articles /\ setting'[v] = setting[v]
    BY <1>2, <1>3, <1>6, <1>9
  <2>2. Single(Ways, a) /\ (WillShow(Ways, shown[a].title, a, setting[v].title)
                              \/ \E u \in Writers \ {v} : Open(u, a))
    BY <2>1 DEF Agreed, Promised
  <2>3. \A u \in Writers : Open(u, a) => Open(u, a)'
    BY <1>5, <2>1
  <2>4. Single(Ways', a) /\ (WillShow(Ways', shown'[a].title, a, setting[v].title)
                               \/ \E u \in Writers \ {v} : Open(u, a)')
    BY <1>1, <2>2, <2>3
  <2> HIDE DEF Fire
  <2> QED  BY <2>1, <2>4 DEF Promised
<1>10. ASSUME NEW a \in Articles \ disturbed' PROVE Settled(a)'
  BY <1>1, <1>5, <1>10 DEF Agreed, Settled
<1> QED  BY <1>7, <1>8, <1>9, <1>10 DEF Agreed

(* A message is handed over to a lane.                                     *)
LEMMA HandOverStep ==
  ASSUME TypeOK, Agreed, NEW w \in Writers, NEW l \in Lanes, HandOver(w, l),
         writer[w] = "firing", setting[w].trigger # "global",
         writer' = [writer EXCEPT ![w] = "returned"],
         setting' = setting, title' = title, outdated' = outdated, shown' = shown,
         Ways'[l] = Append(Ways[l], MessageOf(w)), \A k \in Lanes \ {l} : Ways'[k] = Ways[k]
  PROVE  Agreed'
<1> DEFINE a == setting[w].article
<1>1. /\ a \in Articles /\ MessageOf(w) \in Message /\ Ways[l] \in Seq(Message)
      /\ MessageOf(w).article = a /\ MessageOf(w).title = setting[w].title
  BY MessageTyped, WaysAre DEF MessageOf
<1>2. \A b \in Articles \ {a} : Moves(Ways, shown[b].title, Ways', shown'[b].title, b)
  BY <1>1, Joins
<1>3. \A v \in Writers : writer'[v] = IF v = w THEN "returned" ELSE writer[v]
  BY DEF TypeOK
<1>4. CASE Overtakes(w, l)
  <2>1. disturbed' = disturbed \cup {a} /\ fresh' = {v \in fresh : setting[v].article \notin {a}}
    BY <1>4 DEF HandOver, Disturb
  <2>2. Going({a})
    BY <1>3 DEF Going
  <2>3. title' = title /\ outdated \subseteq outdated'
    OBVIOUS
  <2> HIDE DEF a
  <2> QED  BY <1>2, <2>1, <2>2, <2>3, Moving
<1>5. CASE ~Overtakes(w, l)
  <2>1. fresh' = fresh \cup {w} /\ disturbed' = disturbed
    BY <1>5 DEF HandOver
  <2>2. Single(Ways', a) /\ WillShow(Ways', shown'[a].title, a, setting[w].title)
    BY <1>1, <1>5, NotOvertaking, Joins
  <2>3. fresh \subseteq Writers /\ w \notin fresh
    BY DEF TypeOK, Agreed
  <2>4. \A v \in Writers, b \in Articles : Open(v, b) => Open(v, b)'
    BY <1>3 DEF Open
  <2>5. Open(w, a)'
    BY <1>3 DEF Open
  <2>6. \A v \in Writers : setting[v].article \in Articles
    BY MessageTyped
  <2>7. \A v \in fresh' : writer'[v] = "returned" /\ setting'[v].trigger # "global"
    BY <1>3, <2>1, <2>3 DEF Agreed
  <2>8. \A v \in Writers : Handed(v)'
    BY <1>3, <2>1 DEF Agreed, Handed
  <2>9. ASSUME NEW v \in fresh' \ outdated' PROVE Promised(v)'
    <3>1. CASE v = w
      BY <2>2, <3>1 DEF Promised
    <3>2. CASE v # w /\ setting[v].article = a
      BY <2>2, <2>5, <3>2 DEF Promised
    <3>3. CASE v # w /\ setting[v].article # a
      <4> DEFINE b == setting[v].article
      <4>1. v \in fresh \ outdated /\ v \in Writers /\ b \in Articles \ {a}
        BY <2>1, <2>3, <2>6, <2>9, <3>3
      <4>2. Single(Ways, b) /\ (WillShow(Ways, shown[b].title, b, setting[v].title)
                                  \/ \E u \in Writers \ {v} : Open(u, b))
        BY <4>1 DEF Agreed, Promised
      <4>3. Single(Ways', b) /\ (WillShow(Ways', shown'[b].title, b, setting[v].title)
                                   \/ \E u \in Writers \ {v} : Open(u, b)')
        BY <1>2, <2>4, <4>1, <4>2 DEF Moves
      <4> QED  BY <4>3 DEF Promised
    <3> QED  BY <3>1, <3>2, <3>3
  <2>10. ASSUME NEW b \in Articles \ disturbed' PROVE Settled(b)'
    <3>1. CASE b = a
      BY <2>2, <2>5, <3>1 DEF Settled
    <3>2. CASE b # a
      <4>1. Single(Ways, b) /\ (WillShow(Ways, shown[b].title, b, title[b])
                                  \/ \E u \in Writers : Open(u, b))
        BY <2>1, <2>10 DEF Agreed, Settled
      <4>2. Single(Ways', b) /\ (WillShow(Ways', shown'[b].title, b, title[b])
                                   \/ \E u \in Writers : Open(u, b)')
        BY <1>2, <2>4, <3>2, <4>1 DEF Moves
      <4> QED  BY <4>2 DEF Settled
    <3> QED  BY <3>1, <3>2
  <2> QED  BY <2>7, <2>8, <2>9, <2>10 DEF Agreed
<1> QED  BY <1>4, <1>5

(* A set takes effect.                                                     *)
LEMMA CommitStep ==
  ASSUME TypeOK, Agreed, NEW w \in Writers, Commit(w)
  PROVE  Agreed'
<1>0. PICK a \in Articles : a = setting[w].article
  BY MessageTyped
<1>1. /\ a \in Articles /\ MessageOf(w) \in Message /\ buffer \in Seq(Message)
      /\ MessageOf(w).article = a /\ MessageOf(w).title = setting[w].title
  BY <1>0, MessageTyped DEF MessageOf, TypeOK
<1>2. /\ writer[w] = "returned" /\ w \notin outdated
      /\ title' = [title EXCEPT ![a] = setting[w].title]
      /\ shown' = shown /\ outbox' = outbox /\ queue' = queue
  BY <1>0 DEF Commit, client
<1>3. /\ title'[a] = setting[w].title
      /\ \A b \in Articles \ {a} : title'[b] = title[b]
  BY <1>1, <1>2 DEF TypeOK
<1>4. /\ writer'[w] = "idle"
      /\ \A v \in Writers \ {w} : writer'[v] = writer[v] /\ setting'[v] = setting[v]
  BY DEF Commit, TypeOK
<1>5. /\ outdated \subseteq outdated'
      /\ \A v \in Writers \ {w} : Open(v, a) => v \in outdated'
  BY <1>0 DEF Commit, Open
<1>7. \/ /\ setting[w].trigger = "global"
         /\ buffer' = Append(buffer, MessageOf(w))
         /\ \/ /\ Overtakes(w, "global") /\ disturbed' = disturbed \cup {a}
               /\ fresh' = {v \in fresh : setting[v].article \notin {a}}
            \/ /\ ~Overtakes(w, "global") /\ disturbed' = disturbed \ {a}
               /\ fresh' = fresh
      \/ /\ setting[w].trigger # "global" /\ buffer' = buffer /\ fresh' = fresh \ {w}
         /\ disturbed' = IF w \in fresh THEN disturbed \ {a} ELSE disturbed
  BY <1>0 DEF Commit, Disturb
<1>8. fresh \subseteq Writers /\ fresh' \subseteq fresh \ {w}
  BY <1>7 DEF TypeOK, Agreed
<1>9. \A b \in Articles \ {a} : Moves(Ways, shown[b].title, Ways', shown'[b].title, b)
  <2>1. CASE setting[w].trigger = "global"
    <3>1. /\ Ways'["global"] = Append(Ways["global"], MessageOf(w))
          /\ Ways["global"] \in Seq(Message) /\ "global" \in Lanes
          /\ \A k \in Lanes \ {"global"} : Ways'[k] = Ways[k]
      BY <1>1, <1>2, <1>7, <2>1, WaysAre, WaysAreNext
    <3> QED  BY <1>1, <1>2, <3>1, Joins
  <2>2. CASE setting[w].trigger # "global"
    <3>1. Ways' = Ways
      BY <1>2, <1>7, <2>2 DEF Ways, Lane
    <3> QED  BY <1>2, <3>1 DEF Moves
  <2> QED  BY <2>1, <2>2
<1>10. ASSUME NEW v \in Writers \ {w}, NEW b \in Articles, Open(v, b) PROVE Open(v, b)'
  BY <1>4, <1>10 DEF Open
<1>11. \A v \in Writers : setting[v].article \in Articles
  BY MessageTyped
<1>12. \A v \in fresh' : writer'[v] = "returned" /\ setting'[v].trigger # "global"
  BY <1>4, <1>8 DEF Agreed
<1>13. ASSUME NEW v \in Writers PROVE Handed(v)'
  <2> SUFFICES ASSUME writer'[v] = "returned", v \notin outdated', setting'[v].trigger # "global"
               PROVE  v \in fresh' \/ setting'[v].article \in disturbed'
    BY DEF Handed
  <2>1. v # w /\ writer[v] = "returned" /\ setting'[v] = setting[v] /\ v \notin outdated
    BY <1>4, <1>5
  <2>2. setting[v].article # a
    BY <1>5, <2>1 DEF Open
  <2>3. v \in fresh \/ setting[v].article \in disturbed
    BY <2>1 DEF Agreed, Handed
  <2> QED  BY <1>7, <2>1, <2>2, <2>3
<1>14. ASSUME NEW v \in fresh' \ outdated' PROVE Promised(v)'
  <2>1. v \in fresh \ outdated /\ v \in Writers \ {w} /\ setting'[v] = setting[v]
    BY <1>4, <1>5, <1>8, <1>14
  <2>2. PICK b \in Articles \ {a} : b = setting[v].article
    <3>1. writer[v] = "returned"
      BY <2>1 DEF Agreed
    <3> QED  BY <1>5, <1>11, <1>14, <2>1, <3>1 DEF Open
  <2>3. Single(Ways, b) /\ (WillShow(Ways, shown[b].title, b, setting[v].title)
                              \/ \E u \in Writers \ {v} : Open(u, b))
    BY <2>1, <2>2 DEF Agreed, Promised
  <2>4. \A u \in Writers : Open(u, b) => u # w
    BY <1>0, <2>2 DEF Open
  <2>5. Single(Ways', b) /\ (WillShow(Ways', shown'[b].title, b, setting[v].title)
                               \/ \E u \in Writers \ {v} : Open(u, b)')
    BY <1>9, <1>10, <2>2, <2>3, <2>4 DEF Moves
  <2> QED  BY <2>1, <2>2, <2>5 DEF Promised
<1>15. ASSUME NEW b \in Articles \ disturbed' PROVE Settled(b)'
  <2>1. CASE b # a
    <3>1. b \in Articles \ disturbed
      BY <1>7, <1>15, <2>1
    <3>2. Single(Ways, b) /\ (WillShow(Ways, shown[b].title, b, title[b])
                                \/ \E u \in Writers : Open(u, b))
      BY <3>1 DEF Agreed, Settled
    <3>3. \A u \in Writers : Open(u, b) => u # w
      BY <1>0, <2>1 DEF Open
    <3>4. Single(Ways', b) /\ (WillShow(Ways', shown'[b].title, b, title'[b])
                                 \/ \E u \in Writers : Open(u, b)')
      BY <1>3, <1>9, <1>10, <2>1, <3>1, <3>2, <3>3 DEF Moves
    <3> QED  BY <3>4 DEF Settled
  <2>2. CASE b = a /\ setting[w].trigger = "global"
    <3>1. ~Overtakes(w, "global")
      BY <1>7, <1>15, <2>2
    <3>2. /\ Ways'["global"] = Append(Ways["global"], MessageOf(w))
          /\ Ways["global"] \in Seq(Message) /\ "global" \in Lanes
          /\ \A k \in Lanes \ {"global"} : Ways'[k] = Ways[k]
      BY <1>1, <1>2, <1>7, <2>2, WaysAre, WaysAreNext
    <3>3. \A k \in Lanes \ {"global"} : Lacks(Ways[k], a)
      BY <1>0, <3>1, <3>2, NotOvertaking
    <3>4. Single(Ways', a) /\ WillShow(Ways', shown'[a].title, a, title'[a])
      BY <1>1, <1>3, <3>2, <3>3, Joins
    <3> QED  BY <2>2, <3>4 DEF Settled
  <2>3. CASE b = a /\ setting[w].trigger # "global"
    <3>1. w \in fresh
      BY <1>2, <1>0, <1>7, <1>15, <2>3 DEF Agreed, Handed
    <3>2. Single(Ways, a) /\ (WillShow(Ways, shown[a].title, a, setting[w].title)
                                \/ \E u \in Writers \ {w} : Open(u, a))
      BY <1>2, <1>0, <3>1 DEF Agreed, Promised
    <3>3. Ways' = Ways
      BY <1>2, <1>7, <2>3 DEF Ways, Lane
    <3>4. shown'[a].title = shown[a].title /\ title'[a] = setting[w].title
      BY <1>2, <1>3
    <3>5. \A u \in Writers \ {w} : Open(u, a) => Open(u, a)'
      BY <1>1, <1>10
    <3>6. Single(Ways', b) /\ (WillShow(Ways', shown'[b].title, b, title'[b])
                                 \/ \E u \in Writers : Open(u, b)')
      BY <2>3, <3>2, <3>3, <3>4, <3>5
    <3> QED  BY <3>6 DEF Settled
  <2> QED  BY <2>1, <2>2, <2>3
<1> QED  BY <1>12, <1>13, <1>14, <1>15 DEF Agreed

(* Triggers that hand over no message.                                     *)
LEMMA UnhandedStep ==
  ASSUME TypeOK, Agreed, NEW w \in Writers,
         \/ TriggerNone(w) \/ TriggerGlobal(w) \/ TriggerMqFails(w)
         \/ /\ TriggerClient(w) /\ (ConnectFails(w) \/ PublishFails(w))
            /\ Disturb({setting[w].article})
  PROVE  Agreed'
<1> DEFINE D == IF TriggerGlobal(w) THEN {} ELSE {setting[w].article}
<1>1. /\ outbox' = outbox /\ queue' = queue /\ buffer' = buffer /\ shown' = shown
      /\ title' = title /\ setting' = setting /\ outdated' = outdated
      /\ setting[w].trigger = "global" \/ setting[w].article \in D
      /\ writer' = [writer EXCEPT ![w] = "returned"] /\ writer[w] = "firing"
  BY DEF TriggerNone, TriggerGlobal, TriggerMqFails, TriggerClient, Returns, ConnectFails,
         PublishFails, client
<1>2. disturbed' = disturbed \cup D /\ fresh' = {v \in fresh : setting[v].article \notin D}
  BY DEF TriggerNone, TriggerGlobal, TriggerMqFails, Disturb
<1>3. Ways' = Ways
  BY <1>1 DEF Ways, Lane
<1>4. \A a \in Articles \ D : Moves(Ways, shown[a].title, Ways', shown'[a].title, a)
  BY <1>1, <1>3 DEF Moves
<1>5. \A v \in Writers : writer'[v] = IF v = w THEN "returned" ELSE writer[v]
  BY <1>1 DEF TypeOK
<1> HIDE DEF D
<1>6. Going(D)
  BY <1>1, <1>5 DEF Going
<1> QED  BY <1>1, <1>2, <1>4, <1>6, Moving

(* A trigger returns.                                                      *)
LEMMA TriggerStep ==
  ASSUME TypeOK, Agreed, NEW w \in Writers, Trigger(w) \/ TriggerMqFails(w)
  PROVE  Agreed'
<1>1. CASE TriggerNone(w) \/ TriggerGlobal(w) \/ TriggerMqFails(w)
  BY <1>1, UnhandedStep
<1>2. CASE TriggerClient(w) /\ PublishThroughClient(w, MessageOf(w)) /\ HandOver(w, w)
  <2>1. /\ writer[w] = "firing" /\ setting[w].trigger = "client"
        /\ writer' = [writer EXCEPT ![w] = "returned"]
        /\ setting' = setting /\ title' = title /\ outdated' = outdated /\ shown' = shown
        /\ outbox' = [outbox EXCEPT ![w] = Append(@, MessageOf(w))]
        /\ queue' = queue /\ buffer' = buffer
    BY <1>2 DEF TriggerClient, Returns, PublishThroughClient, HasClient
  <2>2. /\ w \in Lanes /\ Ways'[w] = Append(Ways[w], MessageOf(w))
        /\ \A k \in Lanes \ {w} : Ways'[k] = Ways[k]
    BY <2>1, WaysAre, WaysAreNext DEF TypeOK, ClientTypeOK
  <2> QED  BY <1>2, <2>1, <2>2, HandOverStep
<1>3. CASE TriggerClient(w) /\ (ConnectFails(w) \/ PublishFails(w)) /\ Disturb({setting[w].article})
  BY <1>3, UnhandedStep
<1>4. CASE TriggerMq(w)
  <2>1. /\ writer[w] = "firing" /\ setting[w].trigger = "mq" /\ HandOver(w, "mq")
        /\ writer' = [writer EXCEPT ![w] = "returned"]
        /\ setting' = setting /\ title' = title /\ outdated' = outdated /\ shown' = shown
        /\ queue' = Append(queue, MessageOf(w)) /\ outbox' = outbox /\ buffer' = buffer
    BY <1>4 DEF TriggerMq, Returns, client
  <2>2. /\ "mq" \in Lanes /\ Ways'["mq"] = Append(Ways["mq"], MessageOf(w))
        /\ \A k \in Lanes \ {"mq"} : Ways'[k] = Ways[k]
    BY <2>1, WaysAre, WaysAreNext
  <2> QED  BY <2>1, <2>2, HandOverStep
<1> QED  BY <1>1, <1>2, <1>3, <1>4 DEF Trigger, TriggerClient

(* A step of neither a writer nor the database, in which nothing is lost.  *)
LEMMA CalmStep ==
  ASSUME TypeOK, Agreed, title' = title, outdated \subseteq outdated',
         disturbed' = disturbed, fresh' = fresh, writer' = writer, setting' = setting,
         \A a \in Articles : Moves(Ways, shown[a].title, Ways', shown'[a].title, a)
  PROVE  Agreed'
<1>1. Going({})
  BY DEF Going
<1>2. disturbed' = disturbed \cup {} /\ fresh' = {w \in fresh : setting[w].article \notin {}}
  OBVIOUS
<1>3. \A a \in Articles \ {} : Moves(Ways, shown[a].title, Ways', shown'[a].title, a)
  OBVIOUS
<1> QED  BY <1>1, <1>2, <1>3, Moving

(* A step in which messages are lost, of the articles in D at most.        *)
LEMMA LossStep ==
  ASSUME TypeOK, Agreed, NEW D, Disturb(D), title' = title, shown' = shown,
         outdated' = outdated, Going(D),
         \A a \in Articles \ D, k \in Lanes :
           /\ Lacks(Ways[k], a) => Lacks(Ways'[k], a)
           /\ \A t : EndsIn(Ways[k], a, t) => EndsIn(Ways'[k], a, t)
  PROVE  Agreed'
<1>1. \A a \in Articles \ D : Moves(Ways, shown[a].title, Ways', shown'[a].title, a)
  BY Undisturbed
<1> QED  BY <1>1, Moving DEF Disturb

(* The process of a writer ends, with what its client had to send.         *)
LEMMA WriterEndsStep ==
  ASSUME TypeOK, Agreed, NEW w \in Writers, WriterEnds(w)
  PROVE  Agreed'
<1> DEFINE D == {m.article : m \in Range(outbox[w])}
                  \cup IF writer[w] = "idle" THEN {} ELSE {setting[w].article}
<1>1. /\ Disturb(D) /\ title' = title /\ shown' = shown /\ outdated' = outdated
      /\ outbox' = [outbox EXCEPT ![w] = <<>>] /\ queue' = queue /\ buffer' = buffer
      /\ writer' = [writer EXCEPT ![w] = "idle"]
      /\ setting' = [setting EXCEPT ![w] = NoSetting]
  BY DEF WriterEnds, ClientEnds
<1>2. Going(D)
  BY <1>1 DEF Going, TypeOK
<1>3. /\ Ways'[w] = <<>> /\ Ways[w] = outbox[w] /\ outbox[w] \in Seq(Message)
      /\ \A k \in Lanes \ {w} : Ways'[k] = Ways[k]
  BY <1>1, WaysAre, WaysAreNext DEF TypeOK, ClientTypeOK
<1>4. ASSUME NEW a \in Articles \ D, NEW k \in Lanes
      PROVE  /\ Lacks(Ways[k], a) => Lacks(Ways'[k], a)
             /\ \A t : EndsIn(Ways[k], a, t) => EndsIn(Ways'[k], a, t)
  <2>1. CASE k = w
    BY <1>3, <2>1, Emptied
  <2>2. CASE k # w
    BY <1>3, <2>2
  <2> QED  BY <2>1, <2>2
<1> HIDE DEF D
<1> QED  BY <1>1, <1>2, <1>4, LossStep

(* The network thread of a client sends a message, and it is published.    *)
LEMMA DeliversStep ==
  ASSUME TypeOK, Agreed, NEW w \in Writers, Delivers(w)
  PROVE  Agreed'
<1>1. /\ outbox[w] # <<>> /\ outbox' = [outbox EXCEPT ![w] = Tail(@)]
      /\ Publish(<<Head(outbox[w])>>, TRUE, {})
      /\ queue' = queue /\ buffer' = buffer
      /\ title' = title /\ outdated' = outdated /\ writer' = writer /\ setting' = setting
      /\ disturbed' = disturbed /\ fresh' = fresh
  BY DEF Delivers, ClientSends, database
<1>2. /\ w \in Lanes /\ Ways[w] = outbox[w] /\ Ways'[w] = Tail(Ways[w])
      /\ \A k \in Lanes \ {w} : Ways'[k] = Ways[k]
  BY <1>1, WaysAre, WaysAreNext DEF TypeOK, ClientTypeOK
<1>3. outbox[w] \in Seq(Message) /\ <<Head(outbox[w])>> \in Seq(Message)
  BY <1>1 DEF TypeOK, ClientTypeOK
<1>4. About(<<Head(outbox[w])>>, {}) = {}
  BY DEF About
<1>5. ASSUME NEW a \in Articles
      PROVE  Moves(Ways, shown[a].title, Ways', shown'[a].title, a)
  <2>1. Parts(Ways[w], <<Head(outbox[w])>>, Ways'[w], a)
    BY <1>1, <1>2, <1>3, PartsFirst
  <2> QED  BY <1>1, <1>2, <1>3, <1>4, <2>1, Published
<1> QED  BY <1>1, <1>5, CalmStep

(* A tick takes what is in the queue or the buffer.                        *)
LEMMA TickStep ==
  ASSUME TypeOK, Agreed, Tick
  PROVE  Agreed'
<1>1. PICK l \in {"mq", "global"} :
        /\ Processed(IF l = "mq" THEN queue ELSE buffer, l = "global")
        /\ queue' = IF l = "mq" THEN <<>> ELSE queue
        /\ buffer' = IF l = "global" THEN <<>> ELSE buffer
  BY DEF Tick
<1>2. /\ outbox' = outbox /\ title' = title /\ outdated' = outdated
      /\ writer' = writer /\ setting' = setting
  BY DEF Tick, client, database
<1>3. /\ l \in Lanes /\ Processed(Ways[l], l = "global") /\ Ways'[l] = <<>>
      /\ \A k \in Lanes \ {l} : Ways'[k] = Ways[k]
      /\ Ways[l] \in Seq(Message)
  BY <1>1, <1>2, WaysAre, WaysAreNext
<1>4. PICK lost : Publish(Ways[l], l = "global", lost) /\ Disturb(About(Ways[l], lost))
  BY <1>3 DEF Processed
<1> DEFINE D == About(Ways[l], lost)
           whole == l = "global"
<1>5. whole \in BOOLEAN /\ Publish(Ways[l], whole, lost)
  BY <1>4
<1> HIDE DEF whole
<1>6. ASSUME NEW a \in Articles \ D
      PROVE  Moves(Ways, shown[a].title, Ways', shown'[a].title, a)
  <2>1. Parts(Ways[l], Ways[l], Ways'[l], a)
    BY <1>3, PartsWhole
  <2> QED  BY <1>3, <1>5, <2>1, Published
<1> HIDE DEF D
<1>7. Going(D)
  BY <1>2 DEF Going
<1> QED  BY <1>2, <1>4, <1>6, <1>7, Moving DEF Disturb, D

(* The broker goes: clients lose a message each, and a tick in progress    *)
(* some of those it has taken.                                             *)
LEMMA BrokerGoesStep ==
  ASSUME TypeOK, Agreed, NEW l \in {"mq", "global"}, NEW taken \in Seq(Message),
         NEW whole \in BOOLEAN, NEW lost, BrokerGoes(taken, whole, lost),
         \A a : Parts(Ways[l], taken, Ways'[l], a),
         \A k \in {"mq", "global"} \ {l} : Ways'[k] = Ways[k]
  PROVE  Agreed'
<1>1. PICK losers \in SUBSET Writers :
        /\ ConnectionsBreak(losers)
        /\ Disturb({Head(outbox[w]).article : w \in losers} \cup About(taken, lost))
  BY DEF BrokerGoes
<1> DEFINE E == {Head(outbox[w]).article : w \in losers} \cup About(taken, lost)
<1>2. /\ Publish(taken, whole, lost)
      /\ title' = title /\ outdated' = outdated /\ writer' = writer /\ setting' = setting
  BY DEF BrokerGoes, database
<1>3. Going(E)
  BY <1>2 DEF Going
<1>4. ASSUME NEW a \in Articles \ E, NEW k \in Lanes \ {l}
      PROVE  /\ Lacks(Ways[k], a) => Lacks(Ways'[k], a)
             /\ \A t : EndsIn(Ways[k], a, t) => EndsIn(Ways'[k], a, t)
  <2>1. CASE k \in losers
    <3>1. /\ Ways[k] \in Seq(Message) /\ Ways[k] # <<>> /\ Ways'[k] = Tail(Ways[k])
          /\ Head(Ways[k]).article \in E
      BY <1>1, <2>1, WaysAre, WaysAreNext DEF ConnectionsBreak
    <3> QED  BY <1>4, <3>1, Tailed
  <2>2. CASE k \in Writers \ losers
    <3>1. Ways'[k] = Ways[k]
      BY <1>1, <2>2, WaysAre, WaysAreNext DEF ConnectionsBreak
    <3> QED  BY <3>1
  <2>3. CASE k \in {"mq", "global"}
    BY <1>4, <2>3
  <2> QED  BY <2>1, <2>2, <2>3, WaysAre
<1>5. ASSUME NEW a \in Articles \ E
      PROVE  Moves(Ways, shown[a].title, Ways', shown'[a].title, a)
  <2>1. a \in Articles \ About(taken, lost) /\ l \in Lanes
    BY <1>5, WaysAre
  <2> HIDE DEF E
  <2> QED  BY <1>2, <1>4, <1>5, <2>1, Published
<1> HIDE DEF E
<1>6. disturbed' = disturbed \cup E /\ fresh' = {w \in fresh : setting[w].article \notin E}
  BY <1>1 DEF E, Disturb
<1> QED  BY <1>2, <1>3, <1>5, <1>6, Moving

(* A tick ends with the broker, at a message of the queue.                 *)
LEMMA DiesAtMessageStep ==
  ASSUME TypeOK, Agreed, NEW n \in DOMAIN queue, NEW lost, DiesAtMessage(n, lost)
  PROVE  Agreed'
<1> DEFINE taken == SubSeq(queue, 1, n)
           rest == SubSeq(queue, n + 1, Len(queue))
<1>1. BrokerGoes(taken, FALSE, lost) /\ queue' = rest /\ buffer' = buffer
  BY DEF DiesAtMessage
<1>2. queue \in Seq(Message) /\ taken \in Seq(Message)
  BY Split DEF TypeOK
<1>3. \A a : Parts(queue, taken, rest, a)
  BY <1>2, PartsAt
<1> HIDE DEF taken, rest
<1>4. /\ \A a : Parts(Ways["mq"], taken, Ways'["mq"], a)
      /\ \A k \in {"mq", "global"} \ {"mq"} : Ways'[k] = Ways[k]
  BY <1>1, <1>3, WaysAre, WaysAreNext
<1> QED  BY <1>1, <1>2, <1>4, BrokerGoesStep

(* ... or after the buffer was killed.                                     *)
LEMMA DiesAfterKillStep ==
  ASSUME TypeOK, Agreed, DiesAfterKill
  PROVE  Agreed'
<1>1. PICK lost : BrokerGoes(buffer, TRUE, lost)
  BY DEF DiesAfterKill
<1>2. buffer' = <<>> /\ queue' = queue /\ buffer \in Seq(Message)
  BY DEF DiesAfterKill, TypeOK
<1>3. /\ \A a : Parts(Ways["global"], buffer, Ways'["global"], a)
      /\ \A k \in {"mq", "global"} \ {"global"} : Ways'[k] = Ways[k]
  BY <1>2, WaysAre, WaysAreNext, PartsWhole
<1> QED  BY <1>1, <1>2, <1>3, BrokerGoesStep

(* The broker is stopped or killed.                                        *)
LEMMA BrokerEndsStep ==
  ASSUME TypeOK, Agreed, BrokerEnds
  PROVE  Agreed'
<1>1. CASE BrokerGoes(<<>>, TRUE, {}) /\ UNCHANGED <<queue, buffer>>
  <2>1. /\ \A a : Parts(Ways["mq"], <<>>, Ways'["mq"], a)
        /\ \A k \in {"mq", "global"} \ {"mq"} : Ways'[k] = Ways[k]
    BY <1>1, WaysAre, WaysAreNext, PartsWhole
  <2>2. <<>> \in Seq(Message)
    OBVIOUS
  <2> QED  BY <1>1, <2>1, <2>2, BrokerGoesStep
<1> QED  BY <1>1, DiesAtMessageStep, DiesAfterKillStep DEF BrokerEnds

(* Steps that only the bounds, the plugin or the trigger in the database   *)
(* notice.                                                                 *)
LEMMA AsideStep ==
  ASSUME TypeOK, Agreed,
         \/ UNCHANGED vars \/ StartBroker
         \/ \E trigger \in Triggers : InstallTrigger(trigger)
         \/ \E w \in Writers : Connects(w)
  PROVE  Agreed'
<1>1. /\ outbox' = outbox /\ queue' = queue /\ buffer' = buffer /\ shown' = shown
      /\ title' = title /\ writer' = writer /\ setting' = setting
      /\ disturbed' = disturbed /\ fresh' = fresh
      /\ outdated \subseteq outdated'
  BY DEF vars, client, database, history, StartBroker, InstallTrigger, Connects, ClientConnects
<1>2. Ways' = Ways
  BY <1>1 DEF Ways, Lane
<1>3. \A a \in Articles : Moves(Ways, shown[a].title, Ways', shown'[a].title, a)
  BY <1>1, <1>2 DEF Moves
<1> QED  BY <1>1, <1>3, CalmStep

(* At the start page and database agree, and nothing is under way.         *)
LEMMA AgreedInit == Init => Agreed
<1> SUFFICES ASSUME Init PROVE Agreed
  OBVIOUS
<1>1. /\ fresh = {} /\ queue = <<>> /\ buffer = <<>>
      /\ \A a \in Articles : shown[a].title = title[a]
      /\ \A w \in Writers : outbox[w] = <<>> /\ writer[w] = "idle"
  BY DEF Init, ClientInit
<1>2. \A l \in Lanes : Ways[l] = <<>>
  BY <1>1, WaysAre
<1>3. \A a : \A l \in Lanes : Lacks(Ways[l], a)
  BY <1>2 DEF Lacks
<1>4. \A a \in Articles : Single(Ways, a) /\ WillShow(Ways, shown[a].title, a, title[a])
  BY <1>1, <1>3, WaysAre DEF Single, WillShow
<1> QED  BY <1>1, <1>4 DEF Agreed, Handed, Settled

(* Every step keeps the agreement to come.                                 *)
LEMMA AgreedStep == TypeOK /\ Agreed /\ [Next]_vars => Agreed'
<1> SUFFICES ASSUME TypeOK, Agreed, [Next]_vars PROVE Agreed'
  OBVIOUS
<1>1. CASE UNCHANGED vars \/ StartBroker
  BY <1>1, AsideStep
<1>2. ASSUME NEW w \in Writers, SetTitle(w) PROVE Agreed'
  <2>1. PICK a \in Articles, t \in Titles : Fire(w, [article |-> a, title |-> t])
    BY <1>2 DEF SetTitle
  <2> QED  BY <1>2, <2>1, FireStep DEF SetTitle
<1>3. ASSUME NEW w \in Writers, Restart(w) PROVE Agreed'
  BY <1>3, FireStep DEF Restart
<1>4. ASSUME NEW w \in Writers, Trigger(w) \/ TriggerMqFails(w) PROVE Agreed'
  BY <1>4, TriggerStep
<1>5. ASSUME NEW w \in Writers, Commit(w) PROVE Agreed'
  BY <1>5, CommitStep
<1>6. ASSUME NEW w \in Writers, WriterEnds(w) PROVE Agreed'
  BY <1>6, WriterEndsStep
<1>7. ASSUME NEW w \in Writers, Connects(w) PROVE Agreed'
  BY <1>7, AsideStep
<1>8. ASSUME NEW w \in Writers, Delivers(w) PROVE Agreed'
  BY <1>8, DeliversStep
<1>9. CASE Tick
  BY <1>9, TickStep
<1>10. CASE TickAborts \/ TickThrows
  BY <1>10, DiesAtMessageStep, DiesAfterKillStep DEF TickAborts, TickThrows
<1>11. CASE BrokerEnds
  BY <1>11, BrokerEndsStep
<1>12. ASSUME NEW trigger \in Triggers, InstallTrigger(trigger) PROVE Agreed'
  BY <1>12, AsideStep
<1> QED
  BY <1>1, <1>2, <1>3, <1>4, <1>5, <1>6, <1>7, <1>8, <1>9, <1>10, <1>11, <1>12 DEF Next

-----------------------------------------------------------------------------
(* All variables have their types, whatever the options of the plugin, the *)
(* order of installations, ends and starts; in particular the counter of   *)
(* the measurement stays below its maximum and the queue within its bound. *)
THEOREM TypeCorrect == Spec => []TypeOK
BY TypeInit, TypeStep, PTL DEF Spec

(* The inductive invariant behind the agreement.                           *)
THEOREM AgreeingInvariant == Spec => []Agreeing
<1>1. Init => Agreeing
  BY TypeInit, AgreedInit DEF Agreeing
<1>2. Agreeing /\ [Next]_vars => Agreeing'
  BY TypeStep, AgreedStep DEF Agreeing
<1> QED  BY <1>1, <1>2, PTL DEF Spec

(* When nothing is under way, page and database agree on which title each  *)
(* article has of which nothing has gone wrong since it was last put       *)
(* right, through all switches of trigger and mode, refused or lost        *)
(* messages, and ends of the broker between two messages of a tick.        *)
THEOREM AgreementCorrect == Spec => []Agreement
<1>1. Agreeing => Agreement
  <2> SUFFICES ASSUME Agreeing, Quiet, NEW a \in Articles \ disturbed
               PROVE  shown[a].title = title[a]
    BY DEF Agreement
  <2>1. \A l \in Lanes : Ways[l] = <<>>
    BY WaysAre DEF Quiet
  <2>2. \A l \in Lanes : \A t : ~EndsIn(Ways[l], a, t)
    BY <2>1 DEF EndsIn
  <2>3. \A w \in Writers : ~Open(w, a)
    BY DEF Quiet, Open
  <2>4. WillShow(Ways, shown[a].title, a, title[a])
    BY <2>3 DEF Agreeing, Agreed, Settled
  <2> QED  BY <2>2, <2>4 DEF WillShow
<1> QED  BY <1>1, AgreeingInvariant, PTL
=============================================================================
