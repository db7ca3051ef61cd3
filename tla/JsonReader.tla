------------------------------ MODULE JsonReader ------------------------------
(***************************************************************************)
(* The reader of JSON texts, OurReader behind CharReaderBuilder: its       *)
(* tokens, and the recursive descent over them with the recovery from      *)
(* errors.  A text is a sequence of the symbols of JsonValue.  Messages    *)
(* are named, not worded, and their places in the text are left out, as    *)
(* are the comments that the code attaches to values.                      *)
(***************************************************************************)
EXTENDS JsonValue

CONSTANTS
  StackLimit,   \* the setting "stackLimit", 1000 by default
  NameLimit     \* the bytes a name may not have, 2^30

DefaultFeatures ==
  [allowComments |-> TRUE, allowTrailingCommas |-> TRUE, strictRoot |-> FALSE,
   allowDroppedNullPlaceholders |-> FALSE, allowNumericKeys |-> FALSE,
   allowSingleQuotes |-> FALSE, stackLimit |-> StackLimit, failIfExtra |-> FALSE,
   rejectDupKeys |-> FALSE, allowSpecialFloats |-> FALSE, skipBom |-> TRUE]

StrictMode ==
  [DefaultFeatures EXCEPT !.allowComments = FALSE, !.allowTrailingCommas = FALSE,
                          !.strictRoot = TRUE, !.failIfExtra = TRUE, !.rejectDupKeys = TRUE]

-----------------------------------------------------------------------------
(* Tokens.  A token has a type, the position where it starts, and the      *)
(* position after it, from where reading goes on.                          *)
Spaces == {" ", "\t", "\r", "\n"}
DigitSymbols == {DigitSymbol[i] : i \in 1..10}
DigitOf(c) == CHOOSE n \in 0..9 : DigitSymbol[n + 1] = c
Words == {"true", "false", "null"}
SpecialWords == {"NaN", "Infinity"}

Char(t, p) == IF p <= Len(t) THEN t[p] ELSE "end"

(* The first position from p on whose symbol is not in S.                  *)
Past(t, p, S) ==
  CHOOSE q \in p..(Len(t) + 1) :
    Char(t, q) \notin S /\ \A r \in p..(q - 1) : t[r] \in S

NumberEnd(t, p) ==   \* p is after the first symbol
  LET whole == Past(t, p, DigitSymbols)
      point == IF Char(t, whole) = "." THEN Past(t, whole + 1, DigitSymbols) ELSE whole
      sign == IF Char(t, point + 1) \in {"+", "-"} THEN point + 2 ELSE point + 1
  IN IF Char(t, point) = "e" THEN Past(t, sign, DigitSymbols) ELSE point

RECURSIVE StringEnd(_, _, _)
StringEnd(t, p, quote) ==   \* 0 when the closing quote is missing
  IF p > Len(t) THEN 0
  ELSE IF t[p] = "\\" THEN StringEnd(t, p + 2, quote)
  ELSE IF t[p] = quote THEN p + 1
  ELSE StringEnd(t, p + 1, quote)

(* The comment whose second symbol is at p.  A comment of the C style that *)
(* is not closed still ends well when the last symbol of the text is "/".  *)
CStyleCommentEnd(t, p) ==
  LET closings == {q \in (p + 1)..(Len(t) - 1) : t[q] = "*" /\ t[q + 1] = "/"}
  IN IF closings # {} THEN Min(closings) + 2
     ELSE IF p < Len(t) /\ t[Len(t)] = "/" THEN Len(t) + 1
     ELSE 0

CppStyleCommentEnd(t, p) ==
  LET ends == {q \in (p + 1)..Len(t) : t[q] \in {"\n", "\r"}}
      q == Min(ends)
  IN IF ends = {} THEN Len(t) + 1
     ELSE IF t[q] = "\r" /\ Char(t, q + 1) = "\n" THEN q + 2
     ELSE q + 1

CommentEnd(t, p) ==
  CASE Char(t, p) = "*" -> CStyleCommentEnd(t, p)
    [] Char(t, p) = "/" -> CppStyleCommentEnd(t, p)
    [] OTHER -> 0

ReadToken(t, f, from) ==
  LET p == Past(t, from, Spaces)
      c == Char(t, p)
      token(type, next) == [type |-> type, start |-> p, next |-> next]
      closed(type, next, failed) ==
        IF next = 0 THEN token("error", failed) ELSE token(type, next)
      allowed(feature, type, next) == token(IF feature THEN type ELSE "error", next)
  IN CASE c \in {"{", "}", "[", "]", ",", ":"} \cup Words -> token(c, p + 1)
       [] c = "\"" -> closed("string", StringEnd(t, p + 1, c), Len(t) + 1)
       [] c = "'" -> IF f.allowSingleQuotes
                     THEN closed("string", StringEnd(t, p + 1, c), Len(t) + 1)
                     ELSE token("error", p + 1)
       [] c = "/" -> closed("comment", CommentEnd(t, p + 1),
                            IF Char(t, p + 1) = "*" THEN Len(t) + 1
                            ELSE Min({p + 2, Len(t) + 1}))
       [] c \in DigitSymbols -> token("number", NumberEnd(t, p + 1))
       [] c \in {"-", "+"} ->
            IF Char(t, p + 1) = "Infinity"
            THEN allowed(f.allowSpecialFloats,
                         IF c = "-" THEN "-Infinity" ELSE "Infinity", p + 2)
            ELSE token("number", NumberEnd(t, p + 1))
       [] c \in SpecialWords -> allowed(f.allowSpecialFloats, c, p + 1)
       [] c = "end" -> token("end", p)
       [] c = "nul" -> token("end", p + 1)
       [] OTHER -> token("error", p + 1)

RECURSIVE PastComments(_, _, _)
PastComments(t, f, p) ==
  LET token == ReadToken(t, f, p)
  IN IF token.type = "comment" THEN PastComments(t, f, token.next) ELSE token

(* skipCommentTokens: without allowComments a comment is what is found.    *)
FirstToken(t, f, p) == IF f.allowComments THEN PastComments(t, f, p) ELSE ReadToken(t, f, p)

RECURSIVE Recover(_, _, _, _)
Recover(t, f, p, type) ==   \* the position after the next token of that type
  LET token == ReadToken(t, f, p)
  IN IF token.type \in {type, "end"} THEN token.next ELSE Recover(t, f, token.next, type)

-----------------------------------------------------------------------------
(* What tokens stand for: a value and no error, or no value and an error.  *)
Decoded(v) == [value |-> v, error |-> <<>>]
Undecoded(message) == [value |-> Null, error |-> <<message>>]

Natural(s) == FoldLeft(LAMBDA n, c : 10 * n + DigitOf(c), 0, s)   \* of digits

(* istream >> double on the lexeme s: all of s must be a number.           *)
DecodeDouble(s) ==
  LET signed == s[1] \in {"+", "-"}
      whole == Past(s, IF signed THEN 2 ELSE 1, DigitSymbols)
      point == IF Char(s, whole) = "." THEN Past(s, whole + 1, DigitSymbols) ELSE whole
      fraction == SubSeq(s, whole + 1, point - 1)
      mantissa == SubSeq(s, IF signed THEN 2 ELSE 1, whole - 1) \o fraction
      hasExponent == Char(s, point) = "e"
      exponentAt == IF Char(s, point + 1) \in {"+", "-"} THEN point + 2 ELSE point + 1
      exponent == IF ~hasExponent THEN 0
                  ELSE (IF Char(s, point + 1) = "-" THEN -1 ELSE 1)
                       * Natural(SubSeq(s, exponentAt, Len(s)))
  IN IF mantissa = <<>> \/ (hasExponent /\ exponentAt > Len(s))
     THEN Undecoded("not a number")
     ELSE Decoded(MakeReal((IF s[1] = "-" THEN -1 ELSE 1) * Natural(mantissa),
                           exponent - Len(fraction)))

(* An integer as long as it fits one of the largest integer types; the     *)
(* test is made before each digit is added.  -1 stands for "does not fit". *)
(* Mutant: the largest integer itself is taken for a real.                 *)
DecodeNumberNarrow(s) ==
  LET negative == s[1] = "-"
      body == IF negative THEN Tail(s) ELSE s
      limit == IF negative THEN -MinLargestInt ELSE MaxLargestUInt
      n == Natural(body)
  IN IF ToSet(body) \subseteq DigitSymbols /\ n < limit
     THEN Decoded(IF negative THEN IntValue(-n)
                  ELSE IF n <= MaxLargestInt THEN IntValue(n) ELSE UIntValue(n))
     ELSE DecodeDouble(s)

DecodeNumber(s) ==
  LET negative == s[1] = "-"
      body == IF negative THEN Tail(s) ELSE s
      limit == IF negative THEN -MinLargestInt ELSE MaxLargestUInt
      threshold == limit \div 10
      addDigit(n, i) ==
        LET digit == DigitOf(body[i])
        IN IF n = -1 THEN -1
           ELSE IF n >= threshold /\ (n > threshold \/ i < Len(body) \/ digit > limit % 10)
           THEN -1
           ELSE 10 * n + digit
      value == FoldLeft(addDigit, 0, [i \in DOMAIN body |-> i])
  IN IF ToSet(body) \subseteq DigitSymbols /\ value # -1
     THEN Decoded(IF negative THEN IntValue(-value)
                  ELSE IF value <= MaxLargestInt THEN IntValue(value)
                  ELSE UIntValue(value))
     ELSE DecodeDouble(s)

Escapes ==
  [c \in {"\"", "/", "\\", "b", "f", "n", "r", "t"} |->
     CASE c = "b" -> "backspace" [] c = "f" -> "\f" [] c = "n" -> "\n" [] c = "r" -> "\r"
       [] c = "t" -> "\t" [] OTHER -> c]

(* The code point in UTF-8.                                                *)
CodePointToUTF8(cp) ==
  LET low(k) == 128 + ((cp \div 64^k) % 64)
  IN IF cp <= 127 THEN <<cp>>
     ELSE IF cp <= 2047 THEN <<192 + cp \div 64, low(0)>>
     ELSE IF cp <= 65535 THEN <<224 + cp \div 4096, low(1), low(0)>>
     ELSE <<240 + cp \div 262144, low(2), low(1), low(0)>>

HexDigits == "0123456789abcdef"
HexValue ==
  [c \in {SubSeq(s, i, i) : s \in {HexDigits, "0123456789ABCDEF"}, i \in 1..16} |->
     CHOOSE n \in 0..15 : c \in {SubSeq(HexDigits, n + 1, n + 1),
                                 SubSeq("0123456789ABCDEF", n + 1, n + 1)}]

(* What the escape \u at p stands for, -1 if it is none.  A high surrogate *)
(* needs a second escape, of which only the low ten bits are looked at; a  *)
(* low one by itself is taken as it is.                                    *)
FourDigits(t, p, end) ==
  IF /\ p + 5 < end /\ t[p] = "\\" /\ t[p + 1] = "u"
     /\ \A i \in 2..5 : t[p + i] \in DOMAIN HexValue
  THEN FoldLeft(LAMBDA n, c : 16 * n + HexValue[c], 0, SubSeq(t, p + 2, p + 5))
  ELSE -1

IsHighSurrogate(n) == n \in 55296..56319

DecodeCodePoint(t, p, end) ==
  LET first == FourDigits(t, p, end)
      second == FourDigits(t, p + 6, end)
  IN CASE ~IsHighSurrogate(first) -> [cp |-> first, next |-> p + 6]
       [] OTHER -> [cp |-> IF second = -1 THEN -1
                           ELSE 65536 + 1024 * (first % 1024) + (second % 1024),
                    next |-> p + 12]

RECURSIVE DecodeFrom(_, _, _, _)
DecodeFrom(t, p, end, soFar) ==
  LET symbol(i) == IF i < end THEN t[i] ELSE "end"
      more(next, bytes) == DecodeFrom(t, next, end, soFar \o bytes)
      escape == symbol(p + 1)
      decoded == DecodeCodePoint(t, p, end)
  IN IF p = end \/ symbol(p) = "\"" THEN Decoded(StringValue(soFar))
     ELSE IF symbol(p) # "\\" THEN more(p + 1, BytesOf(symbol(p)))
     ELSE IF escape \in DOMAIN Escapes THEN more(p + 2, BytesOf(Escapes[escape]))
     ELSE IF escape # "u" THEN Undecoded("escape")
     ELSE IF decoded.cp = -1 THEN Undecoded("unicode escape")
     ELSE more(decoded.next, CodePointToUTF8(decoded.cp))

DecodeString(t, token) == DecodeFrom(t, token.start + 1, token.next - 1, <<>>)

Lexeme(t, token) == SubSeq(t, token.start, token.next - 1)

WordValue(w) ==
  CASE w \in {"true", "false"} -> BoolValue(w = "true")
    [] w = "null" -> Null
    [] OTHER -> SpecialReal(w)

-----------------------------------------------------------------------------
(* The descent.  Each step yields where reading stopped, the value read so *)
(* far, the errors found and whether an exception left it.                 *)
Read(at, v) == [at |-> at, ok |-> TRUE, value |-> v, errors |-> <<>>, throws |-> FALSE]
FailedAsRead(at, v, errors) == Read(at, v)   \* mutant: what was recovered from counts as read
Failed(at, v, errors) == [at |-> at, ok |-> FALSE, value |-> v, errors |-> errors, throws |-> FALSE]
Exceeded(at, v) == [at |-> at, ok |-> FALSE, value |-> v, errors |-> <<>>, throws |-> TRUE]

RECURSIVE ReadValue(_, _, _, _, _), ReadMembers(_, _, _, _, _, _), ReadElements(_, _, _, _, _)

(* readValue into a value that was v before, depth values being open.      *)
ReadValue(t, f, p, v, depth) ==
  LET token == FirstToken(t, f, p)
      decoded(d) == IF d.error = <<>> THEN Read(token.next, d.value)
                    ELSE Failed(token.next, v, d.error)
  IN IF depth > f.stackLimit THEN Exceeded(p, v)
     ELSE CASE token.type = "{" ->
                 ReadMembers(t, f, token.next, ObjectValue(Nothing), <<>>, depth)
            [] token.type = "[" -> ReadElements(t, f, token.next, ArrayValue(Nothing), depth)
            [] token.type = "number" -> decoded(DecodeNumber(Lexeme(t, token)))
            [] token.type = "string" -> decoded(DecodeString(t, token))
            [] token.type \in Words \cup Specials -> Read(token.next, WordValue(token.type))
            [] token.type \in {",", "}", "]"} /\ f.allowDroppedNullPlaceholders ->
                 Read(token.next - 1, Null)
            [] OTHER -> Failed(token.next, v, <<"value expected">>)

(* The rest of an object from p on, name being the name before.  Comments  *)
(* are skipped here whatever the features say, and after a comment behind  *)
(* a member any token passes for the comma.                                *)
ReadMembers(t, f, p, object, name, depth) ==
  LET token == PastComments(t, f, p)
      isNumber == token.type = "number" /\ f.allowNumericKeys
      decoded == IF isNumber THEN DecodeNumber(Lexeme(t, token)) ELSE DecodeString(t, token)
      newName == AsString(decoded.value).string
      colon == ReadToken(t, f, token.next)
      member == ReadValue(t, f, colon.next, Find(object, newName), depth + 1)
      longer == SetMember(object, newName, member.value).value
      comma == ReadToken(t, f, member.at)
      separator == PastComments(t, f, member.at)
      failed(at, v, errors) == Failed(Recover(t, f, at, "}"), v, errors)
  IN IF token.type = "}" /\ (name = <<>> \/ f.allowTrailingCommas)
     THEN Read(token.next, object)
     ELSE IF token.type # "string" /\ ~isNumber
     THEN failed(token.next, object, <<"name or brace expected">>)
     ELSE IF decoded.error # <<>> THEN failed(token.next, object, decoded.error)
     ELSE IF Len(newName) >= NameLimit THEN Exceeded(token.next, object)
     ELSE IF f.rejectDupKeys /\ IsMember(object, newName)
     THEN failed(token.next, object, <<"duplicate key">>)
     ELSE IF colon.type # ":" THEN failed(colon.next, object, <<"colon expected">>)
     ELSE IF member.throws THEN [member EXCEPT !.value = longer]
     ELSE IF ~member.ok THEN failed(member.at, longer, member.errors)
     ELSE IF comma.type \notin {"}", ",", "comment"}
     THEN failed(comma.next, longer, <<"comma or brace expected">>)
     ELSE IF separator.type = "}" THEN Read(separator.next, longer)
     ELSE ReadMembers(t, f, separator.next, longer, newName, depth)

(* The rest of an array from p on.                                         *)
ReadElements(t, f, p, array, depth) ==
  LET index == Size(array)
      q == Past(t, p, Spaces)
      element == ReadValue(t, f, q, Null, depth + 1)
      longer == SetIndex(array, index, element.value).value
      separator == PastComments(t, f, element.at)
      failed(at, errors) == Failed(Recover(t, f, at, "]"), longer, errors)
      mayEnd == f.allowTrailingCommas /\ ~f.allowDroppedNullPlaceholders
  IN IF Char(t, q) = "]" /\ (index = 0 \/ mayEnd) THEN Read(q + 1, array)
     ELSE IF element.throws THEN [element EXCEPT !.value = longer]
     ELSE IF ~element.ok THEN failed(element.at, element.errors)
     ELSE IF separator.type \notin {",", "]"}
     THEN failed(separator.next, <<"comma or bracket expected">>)
     ELSE IF separator.type = "]" THEN Read(separator.next, longer)
     ELSE ReadElements(t, f, separator.next, longer, depth)

-----------------------------------------------------------------------------
(* parse of the text t into a root value.                                  *)
Parse(t, f, root) ==
  LET first == IF f.skipBom /\ Char(t, 1) = "byte order mark" THEN 2 ELSE 1
      r == ReadValue(t, f, first, root, 1)
      extra == f.failIfExtra /\ FirstToken(t, f, r.at).type # "end"
      badRoot == f.strictRoot /\ ~IsArray(r.value) /\ ~IsObject(r.value)
  IN IF r.throws THEN r
     ELSE IF extra THEN Failed(r.at, r.value, Append(r.errors, "extra"))
     ELSE IF badRoot THEN Failed(r.at, r.value, Append(r.errors, "root"))
     ELSE r
=============================================================================
