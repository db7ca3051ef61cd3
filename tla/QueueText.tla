------------------------------ MODULE QueueText ------------------------------
(***************************************************************************)
(* What becomes of a title on its way through the receive buffer of        *)
(* receive_and_publish_mq_messages (mosquitto_plugin/plugin.cpp).  The     *)
(* trigger sends "<topic> <title>" without a terminating NUL               *)
(* (mq_trigger.c:41-47); the plugin lets mq_receive write the bytes into a *)
(* buffer on its stack that it neither clears nor terminates, and takes    *)
(* two tokens from it with strtok.                                         *)
(*                                                                         *)
(* A byte is a NUL, a space, or any other; what matters of a token is from *)
(* where to where it reaches.  The buffer is uninitialised at the start of *)
(* a tick, and holds the messages before at the next turn of the loop.     *)
(***************************************************************************)
EXTENDS Naturals, Sequences, FiniteSetsExt

CONSTANTS
  TopicLengths,  \* lengths of "aabay/title/<id>": it contains no space
  TitleTexts,    \* the titles, as sequences of "text" and "space"
  Size           \* mq_attributes.mq_msgsize + 1

Byte == {"nul", "space", "text"}
Messages == [topic : TopicLengths, title : TitleTexts]

(* The bytes of a message: the topic, a space, the title.                  *)
MessageLength(m) == m.topic + 1 + Len(m.title)

(* Mutant of ByteOf: another DELIMITER.                                    *)
ByteOfNoSpace(m, i) == IF i <= m.topic + 1 THEN "text" ELSE m.title[i - m.topic - 1]

ByteOf(m, i) ==
  IF i <= m.topic THEN "text" ELSE IF i = m.topic + 1 THEN "space" ELSE m.title[i - m.topic - 1]

(* Whatever is longer is refused by mq_send.                               *)
ASSUME QueueTextAssumption ==
  /\ Size \in Nat
  /\ TopicLengths \subseteq Nat \ {0}
  /\ TitleTexts \subseteq Seq({"space", "text"})
  /\ \A m \in Messages : MessageLength(m) < Size

VARIABLES
  tick,          \* "idle", "receiving", or "aborted" with the broker
  buffer,        \* char buffer[], as the last strtok left it (NULs, for
                 \* want of it, between ticks)
  message,       \* the message received last
  topic, payload \* where its two tokens begin and end

vars == <<tick, buffer, message, topic, payload>>

Nothing == <<1, 0>>

NoBuffer == [i \in 1..Size |-> "nul"]

Init ==
  /\ tick = "idle"
  /\ buffer = NoBuffer
  /\ message \in Messages
  /\ topic = Nothing /\ payload = Nothing

-----------------------------------------------------------------------------
(* strtok(b, " ") from position k: skips spaces, then reaches up to the    *)
(* next space or NUL (past the end of the buffer nothing is defined; the   *)
(* token is taken to end there).                                           *)
Tokens(b, k) ==
  LET begins == {i \in k..Size : b[i] # "space"}
      ends(i) == {j \in i..Size : j = Size \/ b[j + 1] # "text"}
  IN {<<i, Min(ends(i))>> : i \in {j \in begins : j = Min(begins) /\ b[j] = "text"}}

(* ... and puts a NUL after it.                                            *)
Terminated(b, s) == [i \in 1..Size |-> IF i = s[2] + 1 THEN "nul" ELSE b[i]]

(* mq_receive: the bytes of the message over those that are there.         *)
ReceivedShort(b, m) ==   \* mutant: the length sent is one too small
  [i \in 1..Size |-> IF i < MessageLength(m) THEN ByteOf(m, i) ELSE b[i]]

Received(b, m) ==
  [i \in 1..Size |-> IF i <= MessageLength(m) THEN ByteOf(m, i) ELSE b[i]]

BeginTick ==
  /\ tick = "idle"
  /\ tick' = "receiving"
  /\ buffer' \in [1..Size -> Byte]
  /\ UNCHANGED <<message, topic, payload>>

Receive(m) ==
  /\ tick = "receiving"
  /\ message' = m
  /\ LET b == Received(buffer, m)
     IN \E s \in Tokens(b, 1) :
          /\ topic' = s
          /\ \/ \E p \in Tokens(b, s[2] + 2) :
                  /\ payload' = p
                  /\ buffer' = Terminated(Terminated(b, s), p)
                  /\ UNCHANGED tick
             \* No second token: strtok returns NULL, and the conversion of
             \* NULL to std::string throws out of the callback.
             \/ /\ Tokens(b, s[2] + 2) = {}
                /\ payload' = Nothing
                /\ buffer' = Terminated(b, s)
                /\ tick' = "aborted"

EndTick ==
  /\ tick = "receiving"
  /\ tick' = "idle" /\ buffer' = NoBuffer
  /\ topic' = Nothing /\ payload' = Nothing
  /\ UNCHANGED message

(* The broker is started again.                                            *)
RestartBroker ==
  /\ tick = "aborted"
  /\ tick' = "idle" /\ buffer' = NoBuffer
  /\ topic' = Nothing /\ payload' = Nothing
  /\ UNCHANGED message

Next == BeginTick \/ EndTick \/ RestartBroker \/ \E m \in Messages : Receive(m)

Spec == Init /\ [][Next]_vars

-----------------------------------------------------------------------------
HasText(m) == \E i \in DOMAIN m.title : m.title[i] = "text"
IsPublished == tick # "aborted" /\ payload # Nothing

(* The topic published is the topic sent, whatever messages were in the    *)
(* buffer before (plugin.cpp:399).                                         *)
TopicIsIntact == topic # Nothing => topic = <<1, message.topic>>

(* Of a title with any text, at least the first word is published, from    *)
(* its first byte on (plugin.cpp:400); remains of a longer message may     *)
(* stand behind it when it is also the last word.                          *)
FirstWordIsPublished ==
  IsPublished /\ HasText(message) =>
    LET start == message.topic + 2
        end == MessageLength(message)
    IN /\ payload[1] \in start..end
       /\ \A i \in start..(payload[1] - 1) : ByteOf(message, i) = "space"
       /\ payload[2] >= end \/ ByteOf(message, payload[2] + 1) = "space"

(* Only a title without any text ends the broker, and then only when the   *)
(* buffer holds no remains of a longer message behind it.                  *)
AbortsOnBlankTitleOnly == tick = "aborted" => ~HasText(message)

(* Every word of the title sent is in the title published.  What is        *)
(* published may have lost spaces in front or gained remains behind.       *)
EveryWordIsPublished ==
  IsPublished =>
    \A i \in DOMAIN message.title :
      message.title[i] = "text" => message.topic + 1 + i \in payload[1]..payload[2]
=============================================================================
