----------------------------- MODULE JsonGrammar -----------------------------
(***************************************************************************)
(* The JSON grammar of RFC 8259, which JSON.parse and JSON.stringify of    *)
(* the page keep to: the values a text stands for, one if it is a JSON     *)
(* text and none if it is not, told by how a text can be split rather than *)
(* by how it is scanned.  The reader and the writers of the plugin are     *)
(* compared with it.  Values and symbols are those of JsonValue.           *)
(***************************************************************************)
EXTENDS JsonValue

Blank == {" ", "\t", "\r", "\n"}
Digit == {"0", "1", "2", "3", "4", "5", "6", "7", "8", "9"}
Control == {SymbolOf[b] : b \in 0..31}

Inner(s) == SubSeq(s, 2, Len(s) - 1)
Part(s, i, j) == SubSeq(s, i, j)

RECURSIVE Trimmed(_)
Trimmed(s) ==
  IF s = <<>> THEN s
  ELSE IF Head(s) \in Blank THEN Trimmed(Tail(s))
  ELSE IF Last(s) \in Blank THEN Trimmed(Front(s))
  ELSE s

AllIn(s, S) == \A i \in DOMAIN s : s[i] \in S

-----------------------------------------------------------------------------
(* Numbers: a whole part without leading zeros, then perhaps a fraction,   *)
(* then perhaps an exponent.                                               *)
NumberOf(s) ==   \* of digits
  LET digit(c) == CHOOSE n \in 0..9 : DigitSymbol[n + 1] = c
      value[i \in 0..Len(s)] == IF i = 0 THEN 0 ELSE 10 * value[i - 1] + digit(s[i])
  IN value[Len(s)]

IsWhole(s) == s # <<>> /\ AllIn(s, Digit) /\ (s[1] = "0" => Len(s) = 1)

Unsigned(s) == IF s # <<>> /\ s[1] = "-" THEN Tail(s) ELSE s

Mantissas(s) ==   \* digits and how many of them are behind the point
  (IF IsWhole(s) THEN {[m |-> NumberOf(s), places |-> 0]} ELSE {}) \cup
  {[m |-> NumberOf(Part(s, 1, k - 1) \o Part(s, k + 1, Len(s))), places |-> Len(s) - k] :
     k \in {j \in DOMAIN s : /\ s[j] = "." /\ IsWhole(Part(s, 1, j - 1)) /\ j < Len(s)
                             /\ AllIn(Part(s, j + 1, Len(s)), Digit)}}

Exponents(s) ==
  LET unsigned == IF s # <<>> /\ s[1] \in {"+", "-"} THEN Tail(s) ELSE s
  IN IF unsigned # <<>> /\ AllIn(unsigned, Digit)
     THEN {IF s[1] = "-" THEN -NumberOf(unsigned) ELSE NumberOf(unsigned)}
     ELSE {}

NarrowestInteger(n) ==   \* an integer text: the narrowest type that holds it
  IF n \in MinLargestInt..MaxLargestInt THEN IntValue(n)
  ELSE IF n \in 0..MaxLargestUInt THEN UIntValue(n)
  ELSE MakeReal(n, 0)

Numbers(s) ==
  LET u == Unsigned(s)
      sign == IF u = s THEN 1 ELSE -1
      es == {k \in DOMAIN u : u[k] = "e"}
  IN IF IsWhole(u) THEN {NarrowestInteger(sign * NumberOf(u))}
     ELSE {MakeReal(sign * x.m, -x.places) : x \in Mantissas(u)} \cup
          UNION {{MakeReal(sign * x.m, e - x.places) :
                    x \in Mantissas(Part(u, 1, k - 1)), e \in Exponents(Part(u, k + 1, Len(u)))} :
                 k \in es}

-----------------------------------------------------------------------------
(* Strings: what stands between the quotes.                                *)
EscapeOf ==
  [c \in {"\"", "/", "\\", "b", "f", "n", "r", "t"} |->
     CASE c = "b" -> "backspace" [] c = "f" -> "\f" [] c = "n" -> "\n" [] c = "r" -> "\r"
       [] c = "t" -> "\t" [] OTHER -> c]

HexDigit == Digit \cup {"a", "b", "c", "d", "e", "f", "A", "B", "C", "D", "E", "F"}
HexNumber(s) ==   \* of hexadecimal digits
  LET digit(c) == CASE c \in {"a", "A"} -> 10 [] c \in {"b", "B"} -> 11 [] c \in {"c", "C"} -> 12
                    [] c \in {"d", "D"} -> 13 [] c \in {"e", "E"} -> 14 [] c \in {"f", "F"} -> 15
                    [] OTHER -> NumberOf(<<c>>)
  IN FoldLeft(LAMBDA n, c : 16 * n + digit(c), 0, s)

High == 55296..56319    \* the halves of a pair of surrogates
Low == 56320..57343

(* RFC 3629: the bytes that one code point is made of.                     *)
IsCharacter(s) ==
  /\ \A i \in 2..Len(s) : s[i] \in 128..191
  /\ \/ Len(s) = 1 /\ s[1] \in 0..127
     \/ Len(s) = 2 /\ s[1] \in 194..223
     \/ /\ Len(s) = 3 /\ s[1] \in 224..239
        /\ s[1] = 224 => s[2] >= 160
        /\ s[1] = 237 => s[2] <= 159
     \/ /\ Len(s) = 4 /\ s[1] \in 240..244
        /\ s[1] = 240 => s[2] >= 144
        /\ s[1] = 244 => s[2] <= 143

RECURSIVE WellFormedPart(_)
WellFormedPart(s) ==   \* the longest beginning of s that is UTF-8
  LET ends == {n \in 1..Min({4, Len(s)}) : IsCharacter(SubSeq(s, 1, n))}
      n == CHOOSE k \in ends : TRUE
  IN IF ends = {} THEN <<>>
     ELSE SubSeq(s, 1, n) \o WellFormedPart(SubSeq(s, n + 1, Len(s)))

IsUtf8(s) == WellFormedPart(s) = s

Utf8(n) ==   \* six bits to a byte, but for the first
  LET tail(k) == [i \in 1..k |-> 128 + ((n \div 64^(k - i)) % 64)]
  IN CASE n < 128 -> <<n>>
       [] n \in 128..2047 -> <<192 + n \div 64>> \o tail(1)
       [] n \in 2048..65535 -> <<224 + n \div 64^2>> \o tail(2)
       [] OTHER -> <<240 + n \div 64^3>> \o tail(3)

RECURSIVE Contents(_)
Contents(s) ==
  LET after(bytes, k) == {bytes \o r : r \in Contents(SubSeq(s, k + 1, Len(s)))}
      isEscape(i) == /\ i + 5 <= Len(s) /\ s[i] = "\\" /\ s[i + 1] = "u"
                     /\ AllIn(SubSeq(s, i + 2, i + 5), HexDigit)
      unit(i) == HexNumber(SubSeq(s, i + 2, i + 5))
  IN IF s = <<>> THEN {<<>>}
     ELSE IF s[1] # "\\" THEN IF s[1] \in Control \cup {"\""} THEN {} ELSE after(BytesOf(s[1]), 1)
     ELSE IF Len(s) > 1 /\ s[2] \in DOMAIN EscapeOf THEN after(BytesOf(EscapeOf[s[2]]), 2)
     ELSE IF ~isEscape(1) THEN {}
     ELSE IF unit(1) \notin High \cup Low THEN after(Utf8(unit(1)), 6)
     ELSE IF unit(1) \in High /\ isEscape(7) /\ unit(7) \in Low
     THEN after(Utf8(65536 + 1024 * (unit(1) - 55296) + unit(7) - 56320), 12)
     ELSE {}

Strings(s) ==
  IF Len(s) >= 2 /\ s[1] = "\"" /\ Last(s) = "\"" THEN Contents(Inner(s)) ELSE {}

-----------------------------------------------------------------------------
(* Values, and lists of values or members split at a comma.  Of members of *)
(* one name the last is kept.                                              *)
RECURSIVE Meanings(_), Lists(_), Members(_)

Meanings(text) ==
  LET s == Trimmed(text)
      enclosed(open, close) == Len(s) >= 2 /\ s[1] = open /\ Last(s) = close
      empty == Trimmed(Inner(s)) = <<>>
  IN IF s = <<>> THEN {}
     ELSE IF s \in {<<"null">>} THEN {Null}
     ELSE IF s \in {<<"true">>, <<"false">>} THEN {BoolValue(s = <<"true">>)}
     ELSE IF enclosed("[", "]")
     THEN IF empty THEN {ArrayValue(Nothing)}
          ELSE {ArrayValue([i \in 0..(Len(l) - 1) |-> l[i + 1]]) : l \in Lists(Inner(s))}
     ELSE IF enclosed("{", "}")
     THEN IF empty THEN {ObjectValue(Nothing)} ELSE {ObjectValue(f) : f \in Members(Inner(s))}
     ELSE Numbers(s) \cup {StringValue(c) : c \in Strings(s)}

Lists(s) ==
  {<<v>> : v \in Meanings(s)} \cup
  UNION {{Append(l, v) : l \in Lists(Part(s, 1, k - 1)), v \in Meanings(Part(s, k + 1, Len(s)))} :
         k \in {i \in DOMAIN s : s[i] = ","}}

Members(s) ==
  LET one(m) == UNION {{With(Nothing, n, v) : n \in Strings(Trimmed(Part(m, 1, k - 1))),
                                              v \in Meanings(Part(m, k + 1, Len(m)))} :
                       k \in {i \in DOMAIN m : m[i] = ":"}}
  IN one(s) \cup
     UNION {{[n \in DOMAIN f \cup DOMAIN g |-> IF n \in DOMAIN g THEN g[n] ELSE f[n]] :
               f \in Members(Part(s, 1, k - 1)), g \in one(Part(s, k + 1, Len(s)))} :
            k \in {i \in DOMAIN s : s[i] = ","}}

IsJsonText(s) == Meanings(s) # {}
=============================================================================
