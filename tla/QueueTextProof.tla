---------------------------- MODULE QueueTextProof ----------------------------
(***************************************************************************)
(* Proofs about module QueueText, for topics and titles of any length and  *)
(* whatever is left in the receive buffer.                                 *)
(*                                                                         *)
(* What strtok returns is stated first (TokenIsWord, TokenExists), then    *)
(* what is in the buffer when a message has been received over its         *)
(* contents (ReceivedBytes); the properties follow from what the two       *)
(* tokens of a message can be (TopicToken, TitleToken, TitleHasToken).     *)
(***************************************************************************)
EXTENDS QueueText, Extremes, TLAPS

Buffers == [1..Size -> Byte]

(* A token begins at the first byte that is no space, and reaches up to a  *)
(* space, a NUL or the end of the buffer.                                  *)
LEMMA TokenIsWord ==
  ASSUME NEW b \in Buffers, NEW k \in Nat \ {0}, NEW p \in Tokens(b, k)
  PROVE  /\ p = <<p[1], p[2]>>
         /\ p[1] \in k..Size /\ b[p[1]] = "text"
         /\ \A i \in k..Size : i < p[1] => b[i] = "space"
         /\ p[2] \in p[1]..Size
         /\ \A j \in p[1]..Size : j < p[2] => b[j + 1] = "text"
         /\ p[2] = Size \/ b[p[2] + 1] # "text"
<1> DEFINE begins == {i \in k..Size : b[i] # "space"}
           ends(i) == {j \in i..Size : j = Size \/ b[j + 1] # "text"}
<1>1. Size \in Nat
  BY QueueTextAssumption
<1>2. PICK i \in begins : i = Min(begins) /\ b[i] = "text" /\ p = <<i, Min(ends(i))>>
  BY DEF Tokens
<1>3. begins \subseteq Nat /\ begins # {}
  BY <1>1, <1>2
<1>4. \A j \in begins : i <= j
  BY <1>2, <1>3, MinIsLeast
<1>5. i \in Nat /\ i \in k..Size
  BY <1>1, <1>2
<1>6. ends(i) \subseteq Nat /\ Size \in ends(i)
  BY <1>1, <1>5
<1>7. Min(ends(i)) \in ends(i) /\ \A j \in ends(i) : Min(ends(i)) <= j
  BY <1>6, MinIsLeast
<1>8. p[1] = i /\ p[2] = Min(ends(i))
  BY <1>2
<1>9. \A j \in k..Size : j < i => b[j] = "space"
  BY <1>1, <1>4, <1>5
<1>10. \A j \in i..Size : j < p[2] => b[j + 1] = "text"
  BY <1>1, <1>5, <1>7, <1>8
<1>11. p[2] \in i..Size /\ (p[2] = Size \/ b[p[2] + 1] # "text")
  BY <1>7, <1>8
<1> HIDE DEF ends, begins
<1> QED  BY <1>2, <1>5, <1>8, <1>9, <1>10, <1>11

(* There is a token when text comes before the first NUL.                  *)
LEMMA TokenExists ==
  ASSUME NEW b \in Buffers, NEW k \in Nat \ {0}, NEW i \in k..Size, b[i] = "text",
         \A j \in k..i : b[j] # "nul"
  PROVE  Tokens(b, k) # {}
<1> DEFINE begins == {j \in k..Size : b[j] # "space"}
           ends(j) == {l \in j..Size : l = Size \/ b[l + 1] # "text"}
           first == Min(begins)
<1>1. Size \in Nat
  BY QueueTextAssumption
<1>2. i \in begins /\ begins \subseteq Nat
  BY <1>1
<1>3. first \in begins /\ first <= i
  BY <1>2, MinIsLeast
<1>4. first \in k..i /\ first \in 1..Size
  BY <1>1, <1>2, <1>3
<1>5. b[first] = "text"
  BY <1>3, <1>4 DEF Buffers, Byte
<1> HIDE DEF first
<1>6. \E j \in begins : j = Min(begins) /\ b[j] = "text"
  BY <1>3, <1>5 DEF first
<1> QED  BY <1>6 DEF Tokens

-----------------------------------------------------------------------------
(* The bytes of a message that has been received over whatever was there.  *)
LEMMA ReceivedBytes ==
  ASSUME NEW b \in Buffers, NEW m \in Messages, NEW r, r = Received(b, m)
  PROVE  /\ m.topic \in Nat \ {0} /\ MessageLength(m) \in Nat
         /\ m.topic + 1 <= MessageLength(m) /\ MessageLength(m) < Size /\ Size \in Nat
         /\ r \in Buffers
         /\ \A i \in 1..m.topic : r[i] = "text"
         /\ r[m.topic + 1] = "space"
         /\ \A i \in (m.topic + 2)..MessageLength(m) :
              r[i] = ByteOf(m, i) /\ r[i] \in {"space", "text"}
         /\ HasText(m) => \E i \in (m.topic + 2)..MessageLength(m) : r[i] = "text"
<1>1. /\ m.topic \in Nat \ {0} /\ m.title \in Seq({"space", "text"}) /\ Size \in Nat
      /\ MessageLength(m) < Size
  BY QueueTextAssumption DEF Messages
<1> DEFINE n == Len(m.title)
<1>2. n \in Nat /\ DOMAIN m.title = 1..n /\ \A i \in 1..n : m.title[i] \in {"space", "text"}
  BY <1>1
<1>3. MessageLength(m) = m.topic + 1 + n
  BY DEF MessageLength
<1>4. \A i \in 1..Size : r[i] = IF i <= MessageLength(m) THEN ByteOf(m, i) ELSE b[i]
  BY DEF Received
<1>5. ASSUME NEW i \in (m.topic + 2)..MessageLength(m)
      PROVE  /\ i \in 1..Size /\ i - m.topic - 1 \in 1..n
             /\ ByteOf(m, i) = m.title[i - m.topic - 1]
  <2> HIDE DEF n
  <2>1. i \in 1..Size /\ i - m.topic - 1 \in 1..n
    BY <1>1, <1>2, <1>3
  <2>2. ~(i <= m.topic) /\ i # m.topic + 1
    BY <1>1, <1>2, <1>3
  <2> QED  BY <2>1, <2>2 DEF ByteOf
<1>6. \A i \in 1..m.topic : r[i] = "text"
  BY <1>1, <1>2, <1>3, <1>4 DEF ByteOf
<1>7. r[m.topic + 1] = "space"
  <2>1. m.topic + 1 \in 1..Size /\ m.topic + 1 <= MessageLength(m)
    BY <1>1, <1>2, <1>3
  <2>2. ByteOf(m, m.topic + 1) = "space"
    BY <1>1 DEF ByteOf
  <2> QED  BY <1>4, <2>1, <2>2
<1>8. ASSUME NEW i \in (m.topic + 2)..MessageLength(m)
      PROVE  r[i] = ByteOf(m, i) /\ r[i] \in {"space", "text"}
  <2>1. i \in 1..Size /\ i <= MessageLength(m)
    BY <1>1, <1>2, <1>3, <1>5
  <2>2. r[i] = ByteOf(m, i)
    BY <1>4, <2>1
  <2> QED  BY <1>2, <1>5, <2>2
<1>9. ASSUME NEW i \in 1..Size PROVE r[i] \in Byte
  <2>1. CASE i <= m.topic
    BY <1>1, <1>6, <2>1 DEF Byte
  <2>2. CASE i = m.topic + 1
    BY <1>7, <2>2 DEF Byte
  <2>3. CASE i > m.topic + 1 /\ i <= MessageLength(m)
    BY <1>1, <1>2, <1>3, <1>8, <2>3 DEF Byte
  <2>4. CASE i > MessageLength(m)
    BY <1>1, <1>2, <1>3, <1>4, <2>4 DEF Buffers
  <2> QED  BY <1>1, <1>2, <1>3, <2>1, <2>2, <2>3, <2>4
<1>10. r \in Buffers
  BY <1>9 DEF Received, Buffers
<1>11. ASSUME HasText(m) PROVE \E i \in (m.topic + 2)..MessageLength(m) : r[i] = "text"
  <2>1. PICK j \in 1..n : m.title[j] = "text"
    BY <1>2, <1>11 DEF HasText
  <2>2. /\ j + m.topic + 1 \in (m.topic + 2)..MessageLength(m)
        /\ (j + m.topic + 1) - m.topic - 1 = j
    BY <1>1, <1>2, <1>3
  <2>3. r[j + m.topic + 1] = "text"
    BY <1>5, <1>8, <2>1, <2>2
  <2> QED  BY <2>2, <2>3
<1> QED  BY <1>1, <1>2, <1>3, <1>6, <1>7, <1>8, <1>10, <1>11

(* The first token is the topic, whatever came before.                     *)
LEMMA TopicToken ==
  ASSUME NEW b \in Buffers, NEW m \in Messages, NEW s \in Tokens(Received(b, m), 1)
  PROVE  s = <<1, m.topic>>
<1> DEFINE r == Received(b, m)
<1>1. /\ m.topic \in Nat \ {0} /\ m.topic + 1 <= MessageLength(m)
      /\ MessageLength(m) \in Nat /\ MessageLength(m) < Size /\ Size \in Nat
      /\ r \in Buffers
      /\ \A i \in 1..m.topic : r[i] = "text"
      /\ r[m.topic + 1] = "space"
  BY ReceivedBytes
<1>2. /\ s = <<s[1], s[2]>>
      /\ s[1] \in 1..Size /\ \A i \in 1..Size : i < s[1] => r[i] = "space"
      /\ s[2] \in s[1]..Size
      /\ \A j \in s[1]..Size : j < s[2] => r[j + 1] = "text"
      /\ s[2] = Size \/ r[s[2] + 1] # "text"
  BY <1>1, TokenIsWord
<1> HIDE DEF r
<1>3. s[1] = 1
  <2>1. 1 \in 1..Size /\ r[1] # "space"
    BY <1>1
  <2> QED  BY <1>1, <1>2, <2>1
<1>4. s[2] <= m.topic
  BY <1>1, <1>2, <1>3
<1>5. s[2] >= m.topic
  <2>1. s[2] + 1 \notin 1..m.topic
    BY <1>1, <1>2, <1>4
  <2> QED  BY <1>1, <1>2, <1>3, <2>1
<1> QED  BY <1>1, <1>2, <1>3, <1>4, <1>5

WordOf(m, p) ==
  LET start == m.topic + 2
      end == MessageLength(m)
  IN /\ p[1] \in start..end
     /\ \A i \in start..(p[1] - 1) : ByteOf(m, i) = "space"
     /\ p[2] >= end \/ ByteOf(m, p[2] + 1) = "space"

(* The second token of a message whose title has text is its first word.   *)
LEMMA TitleToken ==
  ASSUME NEW b \in Buffers, NEW m \in Messages, HasText(m),
         NEW p \in Tokens(Received(b, m), m.topic + 2)
  PROVE  WordOf(m, p)
<1> DEFINE r == Received(b, m)
           start == m.topic + 2
           end == MessageLength(m)
<1>1. /\ start \in Nat \ {0} /\ end \in Nat /\ end < Size /\ Size \in Nat /\ r \in Buffers
      /\ \A i \in start..end : r[i] = ByteOf(m, i) /\ r[i] \in {"space", "text"}
  BY ReceivedBytes
<1>2. PICK i \in start..end : r[i] = "text"
  BY ReceivedBytes
<1>3. /\ p[1] \in start..Size
      /\ \A j \in start..Size : j < p[1] => r[j] = "space"
      /\ p[2] \in p[1]..Size
      /\ p[2] = Size \/ r[p[2] + 1] # "text"
  BY <1>1, TokenIsWord
<1> HIDE DEF r, start, end
<1>4. p[1] \in start..end
  <2>1. ~(i < p[1])
    BY <1>1, <1>2, <1>3
  <2> QED  BY <1>1, <1>2, <1>3, <2>1
<1>5. \A j \in start..(p[1] - 1) : ByteOf(m, j) = "space"
  BY <1>1, <1>3, <1>4
<1>6. p[2] >= end \/ ByteOf(m, p[2] + 1) = "space"
  <2>1. CASE p[2] < end
    <3>1. p[2] + 1 \in start..end /\ r[p[2] + 1] # "text"
      BY <1>1, <1>3, <2>1
    <3> QED  BY <1>1, <3>1
  <2>2. CASE ~(p[2] < end)
    BY <1>1, <1>3, <2>2
  <2> QED  BY <2>1, <2>2
<1> QED  BY <1>4, <1>5, <1>6 DEF WordOf, start, end

(* Such a message has a second token.                                      *)
LEMMA TitleHasToken ==
  ASSUME NEW b \in Buffers, NEW m \in Messages, HasText(m)
  PROVE  Tokens(Received(b, m), m.topic + 2) # {}
<1> DEFINE r == Received(b, m)
<1>1. /\ m.topic + 2 \in Nat \ {0} /\ MessageLength(m) \in Nat
      /\ MessageLength(m) < Size /\ Size \in Nat /\ r \in Buffers
      /\ \A i \in (m.topic + 2)..MessageLength(m) : r[i] \in {"space", "text"}
  BY ReceivedBytes
<1>2. PICK i \in (m.topic + 2)..MessageLength(m) : r[i] = "text"
  BY ReceivedBytes
<1> HIDE DEF r
<1>3. i \in (m.topic + 2)..Size
  BY <1>1, <1>2
<1>4. \A j \in (m.topic + 2)..i : r[j] # "nul"
  BY <1>1, <1>2
<1> QED  BY <1>1, <1>2, <1>3, <1>4, TokenExists DEF r

-----------------------------------------------------------------------------
(* What is in the buffer, and what the two tokens are of the message that  *)
(* was received last.                                                      *)
Tokenised ==
  /\ buffer \in Buffers /\ message \in Messages
  /\ topic # Nothing => topic = <<1, message.topic>>
  /\ payload # Nothing /\ HasText(message) => WordOf(message, payload)
  /\ tick = "aborted" => ~HasText(message)

(* At the start there are no tokens.                                       *)
LEMMA TokenisedInit == Init => Tokenised
BY DEF Init, Tokenised, Buffers, Byte, NoBuffer

(* Every message received is taken apart into its topic and, if its title  *)
(* has text, its first word.                                               *)
LEMMA TokenisedStep == Tokenised /\ [Next]_vars => Tokenised'
<1> SUFFICES ASSUME Tokenised, [Next]_vars PROVE Tokenised'
  OBVIOUS
<1>1. CASE UNCHANGED vars
  BY <1>1 DEF vars, Tokenised
<1>2. CASE BeginTick
  BY <1>2 DEF BeginTick, Tokenised, Buffers
<1>3. CASE EndTick \/ RestartBroker
  BY <1>3 DEF EndTick, RestartBroker, Tokenised, NoBuffer, Buffers, Byte
<1>4. ASSUME NEW m \in Messages, Receive(m) PROVE Tokenised'
  <2> DEFINE b == Received(buffer, m)
  <2>1. buffer \in Buffers /\ tick = "receiving" /\ message' = m
    BY <1>4 DEF Receive, Tokenised
  <2>2. PICK s \in Tokens(b, 1) :
          /\ topic' = s
          /\ \/ \E p \in Tokens(b, s[2] + 2) :
                  /\ payload' = p /\ buffer' = Terminated(Terminated(b, s), p)
                  /\ UNCHANGED tick
             \/ /\ Tokens(b, s[2] + 2) = {}
                /\ payload' = Nothing /\ buffer' = Terminated(b, s) /\ tick' = "aborted"
    BY <1>4 DEF Receive
  <2>3. s = <<1, m.topic>> /\ s[2] = m.topic
    BY <2>1, <2>2, TopicToken
  <2>4. b \in Buffers
    BY <2>1, ReceivedBytes
  <2>5. \A c \in Buffers : \A q : Terminated(c, q) \in Buffers
    BY DEF Terminated, Buffers, Byte
  <2> HIDE DEF b
  <2>6. buffer' \in Buffers
    BY <2>2, <2>4, <2>5
  <2>7. payload' # Nothing /\ HasText(m) => WordOf(m, payload')
    BY <2>1, <2>2, <2>3, TitleToken DEF b
  <2>8. tick' = "aborted" => ~HasText(m)
    BY <2>1, <2>2, <2>3, TitleHasToken DEF b
  <2> QED  BY <2>1, <2>2, <2>3, <2>6, <2>7, <2>8 DEF Tokenised
<1> QED  BY <1>1, <1>2, <1>3, <1>4 DEF Next

(* The inductive invariant behind what is published of a message.          *)
THEOREM TokenisedInvariant == Spec => []Tokenised
BY TokenisedInit, TokenisedStep, PTL DEF Spec

(* The topic published is the topic sent, whatever the buffer held before. *)
THEOREM TopicCorrect == Spec => []TopicIsIntact
<1>1. Tokenised => TopicIsIntact
  BY DEF Tokenised, TopicIsIntact
<1> QED  BY <1>1, TokenisedInvariant, PTL

(* Of a title with any text at least the first word is published.          *)
THEOREM FirstWordCorrect == Spec => []FirstWordIsPublished
<1>1. Tokenised => FirstWordIsPublished
  BY DEF Tokenised, FirstWordIsPublished, IsPublished, WordOf
<1> QED  BY <1>1, TokenisedInvariant, PTL

(* Only a title without any text ends the broker.                          *)
THEOREM AbortsCorrect == Spec => []AbortsOnBlankTitleOnly
<1>1. Tokenised => AbortsOnBlankTitleOnly
  BY DEF Tokenised, AbortsOnBlankTitleOnly
<1> QED  BY <1>1, TokenisedInvariant, PTL
=============================================================================
