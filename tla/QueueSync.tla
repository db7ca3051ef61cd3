----------------------------- MODULE QueueSync ------------------------------
(***************************************************************************)
(* The synchronisation mode "mq".  The trigger on the title of an article  *)
(* sends the title to the POSIX message queue /mqsync (addMqttMessage,     *)
(* triggers/messageQueue/mq_trigger.c), waiting while the queue is full;   *)
(* each tick of the plugin takes messages from the queue without waiting   *)
(* and publishes them (receive_and_publish_mq_messages, plugin.cpp).       *)
(*                                                                         *)
(* The trigger runs inside the transaction of the set that fired it.  A    *)
(* commit that finds its reads out of date runs the trigger again, and     *)
(* what the trigger sent before is not taken back.  The queue belongs to   *)
(* the kernel and outlives both processes.  What becomes of the text on    *)
(* its way through the receive buffer is modelled in QueueText.            *)
(***************************************************************************)
EXTENDS Naturals, Sequences

CONSTANTS
  Articles,      \* articles whose title is set
  Titles,        \* the titles they are given
  Writers,       \* database processes that set titles
  MaxMsg,        \* mq_maxmsg
  MaxPerTick,    \* max_mq_receive_per_tick
  MaxSent,       \* bound: messages sent in all
  MaxFaults      \* bound: errors of the queue and deaths of processes

ASSUME QueueSyncAssumption ==
  /\ Articles # {} /\ Titles # {}
  /\ MaxMsg \in Nat \ {0}
  /\ MaxPerTick \in Nat \ {0}
  /\ MaxSent \in Nat
  /\ MaxFaults \in Nat

VARIABLES
  title,         \* ^articles(id,"title"), as committed
  writer,        \* where each writer is in addMqttMessage
  setting,       \* what each writer last set: an article and a title
  opened,        \* writers with the static mq_descriptor open
  outdated,      \* writers whose transaction read a block since changed
  queue,         \* the message queue /mqsync
  tick,          \* where the plugin is in receive_and_publish_mq_messages
  received,      \* its loop counter i
  message,       \* the message it received last
  shown,         \* the last title published on aabay/title/<id> (or seeded)
  sent,          \* history: messages sent
  published,     \* history: the ordinals of the messages published
  lost,          \* history: the ordinals of the messages lost
  faults,        \* history: how many faults there were
  disturbed,     \* history: articles whose set or message met a fault
  fresh          \* history: writers whose trigger was fired after that

database == <<title, writer, setting, opened, outdated>>
plugin == <<tick, received, message>>
losses == <<lost, faults, disturbed>>
history == <<sent, published, losses, fresh>>
vars == <<database, queue, plugin, shown, history>>

WriterStates == {"idle", "sending", "interrupted", "returned"}
Setting == [article : Articles, title : Titles]
Message == [article : Articles, title : Titles, ordinal : Nat]

TypeOK ==
  /\ title \in [Articles -> Titles]
  /\ writer \in [Writers -> WriterStates]
  /\ setting \in [Writers -> Setting]
  /\ opened \subseteq Writers /\ outdated \subseteq Writers
  /\ queue \in Seq(Message) /\ Len(queue) <= MaxMsg
  /\ tick \in {"idle", "receiving", "publishing"}
  /\ received \in 0..MaxPerTick
  /\ message \in Message
  /\ shown \in [Articles -> Titles]
  /\ sent \in Nat
  /\ published \in Seq(Nat)
  /\ lost \subseteq 1..sent
  /\ faults \in 0..MaxFaults
  /\ disturbed \subseteq Articles /\ fresh \subseteq Writers

(* What a local variable holds when it is out of scope.                    *)
NoSetting == CHOOSE s \in Setting : TRUE
NoMessage == [article |-> NoSetting.article, title |-> NoSetting.title, ordinal |-> 0]

Init ==
  /\ title \in [Articles -> Titles] /\ shown = title
  /\ writer = [w \in Writers |-> "idle"]
  /\ setting = [w \in Writers |-> NoSetting]
  /\ message = NoMessage
  /\ opened = {} /\ outdated = {}
  /\ queue = <<>>
  /\ tick = "idle" /\ received = 0
  /\ sent = 0 /\ published = <<>> /\ lost = {}
  /\ faults = 0 /\ disturbed = {} /\ fresh = {}

-----------------------------------------------------------------------------
(* The trigger: addMqttMessage(count, topic, payload)                      *)

(* A set of a title fires the trigger; nothing is committed yet.           *)
SetTitle(w, s) ==
  /\ writer[w] = "idle" /\ sent < MaxSent
  /\ writer' = [writer EXCEPT ![w] = "sending"]
  /\ setting' = [setting EXCEPT ![w] = s]
  /\ outdated' = outdated \ {w}
  /\ fresh' = fresh \cup {w}
  /\ UNCHANGED <<title, opened, queue, plugin, shown, sent, published, losses>>

(* mq_open, once per process.                                              *)
Open(w) ==
  /\ writer[w] = "sending" /\ w \notin opened
  /\ opened' = opened \cup {w}
  /\ UNCHANGED <<title, writer, setting, outdated, queue, plugin, shown, history>>

(* What is known after a fault that concerns an article: page and database *)
(* may disagree about it, until a trigger fired later has gone through.    *)
Fault(a) ==
  /\ faults < MaxFaults /\ faults' = faults + 1
  /\ disturbed' = disturbed \cup {a}
  /\ fresh' = fresh \ {w \in Writers : setting[w].article = a}
  /\ UNCHANGED <<sent, published>>

(* mq_open fails, for instance where the queue was created by the user of  *)
(* the broker (S_IRWXU): the trigger returns, and no message is sent.      *)
OpenFails(w) ==
  /\ writer[w] = "sending" /\ w \notin opened
  /\ writer' = [writer EXCEPT ![w] = "returned"]
  /\ Fault(setting[w].article)
  /\ UNCHANGED <<title, setting, opened, outdated, queue, plugin, shown, lost>>

(* Mutant of Send: after an interruption it is not tried again.            *)
SendOnce(w) ==
  /\ writer[w] = "sending" /\ w \in opened
  /\ Len(queue) < MaxMsg /\ sent < MaxSent
  /\ sent' = sent + 1
  /\ queue' = Append(queue, [article |-> setting[w].article, title |-> setting[w].title,
                             ordinal |-> sent'])
  /\ writer' = [writer EXCEPT ![w] = "returned"]
  /\ UNCHANGED <<title, setting, opened, outdated, plugin, shown, published, losses, fresh>>

(* mq_send has room, or gets it while it waits.                            *)
Send(w) ==
  /\ writer[w] \in {"sending", "interrupted"} /\ w \in opened
  /\ Len(queue) < MaxMsg /\ sent < MaxSent
  /\ sent' = sent + 1
  /\ queue' = Append(queue, [article |-> setting[w].article, title |-> setting[w].title,
                             ordinal |-> sent'])
  /\ writer' = [writer EXCEPT ![w] = "returned"]
  /\ UNCHANGED <<title, setting, opened, outdated, plugin, shown, published, losses, fresh>>

(* Mutant of Interrupt: the message is given up as after other errors.     *)
InterruptGivesUp(w) ==
  /\ writer[w] = "sending" /\ w \in opened
  /\ Len(queue) = MaxMsg
  /\ writer' = [writer EXCEPT ![w] = "returned"]
  /\ UNCHANGED <<title, setting, opened, outdated, queue, plugin, shown, history>>

(* A signal interrupts mq_send while it waits (EINTR): it is tried again.  *)
Interrupt(w) ==
  /\ writer[w] = "sending" /\ w \in opened
  /\ Len(queue) = MaxMsg
  /\ writer' = [writer EXCEPT ![w] = "interrupted"]
  /\ UNCHANGED <<title, setting, opened, outdated, queue, plugin, shown, history>>

(* Any other error (EMSGSIZE for a title that makes the message longer     *)
(* than mq_msgsize): the message is given up, the trigger goes on as if it *)
(* had been sent.                                                          *)
SendFails(w) ==
  /\ writer[w] \in {"sending", "interrupted"} /\ w \in opened
  /\ writer' = [writer EXCEPT ![w] = "returned"]
  /\ Fault(setting[w].article)
  /\ UNCHANGED <<title, setting, opened, outdated, queue, plugin, shown, lost>>

(* The set takes effect.  Transactions open on the same article have read  *)
(* the block of its title; those on other articles may have.               *)
Commit(w) ==
  /\ writer[w] = "returned" /\ w \notin outdated
  /\ title' = [title EXCEPT ![setting[w].article] = setting[w].title]
  /\ writer' = [writer EXCEPT ![w] = "idle"]
  /\ LET others == {v \in Writers \ {w} : writer[v] # "idle"}
         rivals == {v \in others : setting[v].article = setting[w].article}
     IN \E shared \in SUBSET others : outdated' = outdated \cup rivals \cup shared
  /\ setting' = [setting EXCEPT ![w] = NoSetting]
  /\ disturbed' = IF w \in fresh THEN disturbed \ {setting[w].article} ELSE disturbed
  /\ fresh' = fresh \ {w}
  /\ UNCHANGED <<opened, queue, plugin, shown, sent, published, lost, faults>>

(* A transaction whose reads are out of date runs its trigger again.       *)
Restart(w) ==
  /\ writer[w] = "returned" /\ w \in outdated
  /\ writer' = [writer EXCEPT ![w] = "sending"]
  /\ outdated' = outdated \ {w}
  /\ fresh' = fresh \cup {w}
  /\ UNCHANGED <<title, setting, opened, queue, plugin, shown, sent, published, losses>>

(* The process ends inside the trigger: the set is undone, a message that  *)
(* it has sent is not.  The next process has to open the queue again.      *)
WriterDies(w) ==
  /\ writer[w] # "idle"
  /\ writer' = [writer EXCEPT ![w] = "idle"]
  /\ opened' = opened \ {w}
  /\ setting' = [setting EXCEPT ![w] = NoSetting]
  /\ Fault(setting[w].article)
  /\ UNCHANGED <<title, outdated, queue, plugin, shown, lost>>

-----------------------------------------------------------------------------
(* The tick: receive_and_publish_mq_messages()                             *)

BeginTick ==
  /\ tick = "idle"
  /\ tick' = "receiving" /\ received' = 0
  /\ UNCHANGED <<database, queue, message, shown, history>>

(* Mutants of Receive: one turn of the loop too many; the message is read  *)
(* and left in the queue.                                                  *)
ReceiveOneMore ==
  /\ tick = "receiving" /\ received <= MaxPerTick
  /\ queue # <<>>
  /\ message' = Head(queue)
  /\ queue' = Tail(queue)
  /\ tick' = "publishing"
  /\ UNCHANGED <<database, received, shown, history>>

ReceivePeeks ==
  /\ tick = "receiving" /\ received < MaxPerTick
  /\ queue # <<>>
  /\ message' = Head(queue)
  /\ tick' = "publishing"
  /\ UNCHANGED <<database, queue, received, shown, history>>

Receive ==
  /\ tick = "receiving" /\ received < MaxPerTick
  /\ queue # <<>>
  /\ message' = Head(queue)
  /\ queue' = Tail(queue)
  /\ tick' = "publishing"
  /\ UNCHANGED <<database, received, shown, history>>

Publish ==
  /\ tick = "publishing"
  /\ published' = Append(published, message.ordinal)
  /\ shown' = [shown EXCEPT ![message.article] = message.title]
  /\ received' = received + 1
  /\ tick' = "receiving" /\ message' = NoMessage
  /\ UNCHANGED <<database, queue, sent, losses, fresh>>

(* Mutant of EndTick: the counter is looked at after one more mq_receive.  *)
EndTickDropsMessage ==
  /\ tick = "receiving"
  /\ queue = <<>> \/ received = MaxPerTick
  /\ tick' = "idle" /\ received' = 0
  /\ queue' = IF queue = <<>> THEN queue ELSE Tail(queue)
  /\ UNCHANGED <<database, message, shown, history>>

(* The queue is empty (mq_receive does not wait), or the loop has run out. *)
EndTick ==
  /\ tick = "receiving"
  /\ queue = <<>> \/ received = MaxPerTick
  /\ tick' = "idle" /\ received' = 0
  /\ UNCHANGED <<database, queue, message, shown, history>>

(* The broker dies inside a tick: the message it had taken is gone.        *)
BrokerDies ==
  /\ tick = "publishing"
  /\ tick' = "idle" /\ received' = 0 /\ message' = NoMessage
  /\ lost' = lost \cup {message.ordinal}
  /\ Fault(message.article)
  /\ UNCHANGED <<database, queue, shown>>

-----------------------------------------------------------------------------
AddMqttMessage(w) ==
  Open(w) \/ Send(w) \/ Interrupt(w) \/ Commit(w) \/ Restart(w)

Tick == BeginTick \/ Receive \/ Publish \/ EndTick

Faults ==
  BrokerDies \/ \E w \in Writers : OpenFails(w) \/ SendFails(w) \/ WriterDies(w)

Next ==
  \/ Tick
  \/ \E w \in Writers : AddMqttMessage(w) \/ \E s \in Setting : SetTitle(w, s)
  \/ Faults

Spec == Init /\ [][Next]_vars

(* Mosquitto ticks for ever; a trigger goes on whenever it can, and the    *)
(* kernel lets a waiting mq_send have the room a receive made.  Nobody has *)
(* to set a title, and neither a signal nor a fault has to come.           *)
FairSpec ==
  /\ Spec
  /\ WF_vars(Tick)
  /\ \A w \in Writers : WF_vars(Open(w) \/ Send(w) \/ Commit(w) \/ Restart(w))

-----------------------------------------------------------------------------
Published == {published[i] : i \in DOMAIN published}
Quiet == queue = <<>> /\ tick # "publishing" /\ \A w \in Writers : writer[w] = "idle"

(* When everything has come to rest, the page was last told the title the  *)
(* database holds, but for the articles a fault concerned, and for those   *)
(* only until the next set of the title goes through.  Messages leave      *)
(* before their set commits and two sets of one article may commit in the  *)
(* other order; it is the trigger that runs again and sends again          *)
(* (mq_trigger.c:47) that puts it right.                                   *)
QuietAgreement == Quiet => \A a \in Articles \ disturbed : shown[a] = title[a]

(* Whatever blocks, is interrupted, dies or takes several ticks, no        *)
(* message comes twice or out of order: the queue is read by receive,      *)
(* never by looking at it (plugin.cpp:390).                                *)
LossyFeed == INSTANCE TitleFeed WITH MayLose <- TRUE

ImplementsLossyTitleFeed == LossyFeed!Spec

(* A queue full of messages delays the database, it does not stop it: a    *)
(* trigger that waits in mq_send gets its room (mq_trigger.c:47-64).       *)
TriggerReturns ==
  \A w \in Writers :
    sent < MaxSent /\ writer[w] = "sending" ~> sent = MaxSent \/ writer[w] = "idle"

(* Every message sent is published, if not in this tick then in a later    *)
(* one; the only one that may be lost is the one the plugin holds when the *)
(* broker dies.                                                            *)
EventuallyPublished ==
  \A m \in 1..MaxSent : sent >= m ~> m \in Published \cup lost
=============================================================================
