------------------------------ MODULE JsonValue ------------------------------
(***************************************************************************)
(* Json::Value, the tree the plugin reads requests into and builds answers *)
(* from: types, order, conversions and the operations on arrays and        *)
(* objects.  A value is a record whose fields depend on its type.  An      *)
(* array is the map the code keeps: from some indices, not all, to values. *)
(* A string is a sequence of bytes, a text a sequence of symbols that name *)
(* them.  A real is m * 10^e with m not a multiple of ten, or one of       *)
(* Specials; rounding to 53 bits is left out except at the limits of the   *)
(* 64 bit integers.  The widths of the integer types are constants, so     *)
(* that small instances meet them.                                         *)
(* Comments and offsets of values, copies and the ownership of strings are *)
(* left out: a TLA+ value is its own copy.                                 *)
(***************************************************************************)
EXTENDS Integers, Sequences, FiniteSets, SequencesExt, Functions

CONSTANTS
  MaxInt,            \* Value::maxInt, 2^(w-1) - 1
  MaxLargestInt      \* Value::maxLargestInt, of 64 bits

MinInt == -MaxInt - 1
MaxUInt == 2 * MaxInt + 1
MinLargestInt == -MaxLargestInt - 1
MaxLargestUInt == 2 * MaxLargestInt + 1

-----------------------------------------------------------------------------
(* Values and their types, in the order of the enumeration ValueType.      *)
TypeOrder == <<"null", "int", "uint", "real", "string", "boolean", "array", "object">>
Specials == {"NaN", "Infinity", "-Infinity"}

Null == [type |-> "null"]
IntValue(n) == [type |-> "int", int |-> n]
UIntValue(n) == [type |-> "uint", uint |-> n]
Real(m, e) == [type |-> "real", m |-> m, e |-> e]
SpecialReal(s) == [type |-> "real", special |-> s]
StringValue(s) == [type |-> "string", string |-> s]
BoolValue(b) == [type |-> "boolean", bool |-> b]
ArrayValue(f) == [type |-> "array", at |-> f]
ObjectValue(f) == [type |-> "object", member |-> f]
Nothing == [k \in {} |-> Null]

IsNull(v) == v.type = "null"
IsArray(v) == v.type = "array"
IsObject(v) == v.type = "object"
IsSpecial(v) == v.type = "real" /\ "special" \in DOMAIN v
IsNumeric(v) == v.type \in {"int", "uint", "real"}

Magnitude(n) == IF n < 0 THEN -n ELSE n
DigitCount(n) == CHOOSE k \in 1..10 : Magnitude(n) < 10^k /\ (k > 1 => Magnitude(n) >= 10^(k - 1))

(* m * 10^e in normal form; beyond the range of a double it is infinite    *)
(* or zero.                                                                *)
RECURSIVE MakeReal(_, _)
MakeReal(m, e) ==
  IF m = 0 THEN Real(0, 0)
  ELSE IF m % 10 = 0 THEN MakeReal(m \div 10, e + 1)
  ELSE IF DigitCount(m) + e > 309 THEN SpecialReal(IF m > 0 THEN "Infinity" ELSE "-Infinity")
  ELSE IF DigitCount(m) + e < -323 THEN Real(0, 0)
  ELSE Real(m, e)

-----------------------------------------------------------------------------
(* Reals against integers.  Far exponents decide without a power of ten.   *)
RealLess(a, b) ==   \* of two finite reals
  LET sign(r) == IF r.m > 0 THEN 1 ELSE IF r.m < 0 THEN -1 ELSE 0
      scale(r) == DigitCount(r.m) + r.e
      low == IF a.e < b.e THEN a.e ELSE b.e
  IN IF sign(a) # sign(b) THEN sign(a) < sign(b)
     ELSE IF sign(a) = 0 THEN FALSE
     ELSE IF scale(a) # scale(b) THEN (scale(a) < scale(b)) = (sign(a) > 0)
     ELSE a.m * 10^(a.e - low) < b.m * 10^(b.e - low)

InRange(v, min, max) ==
  IF IsSpecial(v) THEN FALSE
  ELSE ~RealLess(v, MakeReal(min, 0)) /\ ~RealLess(MakeReal(max, 0), v)

IsIntegral(v) == ~IsSpecial(v) /\ v.e >= 0

(* The double nearest to maxInt64 and maxUInt64 is one above them.         *)
DoubleMaxInt64 == MaxLargestInt + 1
MaxUInt64AsDouble == MaxLargestUInt + 1

Truncated(v) ==   \* a finite real of a small exponent, as the casts do
  IF v.e >= 0 THEN v.m * 10^v.e
  ELSE IF DigitCount(v.m) + v.e <= 0 THEN 0
  ELSE LET whole == Magnitude(v.m) \div 10^(-v.e) IN IF v.m < 0 THEN -whole ELSE whole

IsInt(v) ==
  CASE v.type = "int" -> v.int \in MinInt..MaxInt
    [] v.type = "uint" -> v.uint <= MaxInt
    [] v.type = "real" -> InRange(v, MinInt, MaxInt) /\ IsIntegral(v)
    [] OTHER -> FALSE

IsUInt(v) ==
  CASE v.type = "int" -> v.int \in 0..MaxUInt
    [] v.type = "uint" -> v.uint <= MaxUInt
    [] v.type = "real" -> InRange(v, 0, MaxUInt) /\ IsIntegral(v)
    [] OTHER -> FALSE

(* Mutant of IsInt64: the double above the largest integer belongs to it.  *)
IsInt64Inclusive(v) ==
  CASE v.type = "int" -> TRUE
    [] v.type = "uint" -> v.uint <= MaxLargestInt
    [] v.type = "real" -> InRange(v, MinLargestInt, DoubleMaxInt64) /\ IsIntegral(v)
    [] OTHER -> FALSE

IsInt64(v) ==
  CASE v.type = "int" -> TRUE
    [] v.type = "uint" -> v.uint <= MaxLargestInt
    [] v.type = "real" -> /\ InRange(v, MinLargestInt, DoubleMaxInt64)
                          /\ RealLess(v, MakeReal(DoubleMaxInt64, 0))
                          /\ IsIntegral(v)
    [] OTHER -> FALSE

IsUInt64(v) ==
  CASE v.type = "int" -> v.int >= 0
    [] v.type = "uint" -> TRUE
    [] v.type = "real" -> /\ InRange(v, 0, MaxUInt64AsDouble)
                          /\ RealLess(v, MakeReal(MaxUInt64AsDouble, 0))
                          /\ IsIntegral(v)
    [] OTHER -> FALSE

(* The conversions: an integer as a value, or Throws, or AnyInt where the   *)
(* code casts a double that does not fit.                                  *)
Throws == [type |-> "throws"]
AnyInt == [type |-> "any int"]

AsIntegerOf(v, is(_), min, max, doubleMax) ==
  CASE v.type = "int" -> IF is(v) THEN v ELSE Throws
    [] v.type = "uint" -> IF is(v) THEN IntValue(v.uint) ELSE Throws
    [] v.type = "real" -> IF ~InRange(v, min, doubleMax) THEN Throws
                          ELSE IF Truncated(v) > max THEN AnyInt
                          ELSE IntValue(Truncated(v))
    [] v.type = "null" -> IntValue(0)
    [] v.type = "boolean" -> IntValue(IF v.bool THEN 1 ELSE 0)
    [] OTHER -> Throws

AsInt(v) == AsIntegerOf(v, IsInt, MinInt, MaxInt, MaxInt)
AsUInt(v) == AsIntegerOf(v, IsUInt, 0, MaxUInt, MaxUInt)
AsInt64(v) == AsIntegerOf(v, IsInt64, MinLargestInt, MaxLargestInt, DoubleMaxInt64)
AsUInt64(v) == AsIntegerOf(v, IsUInt64, 0, MaxLargestUInt, MaxUInt64AsDouble)

AsDouble(v) ==
  CASE v.type = "int" -> MakeReal(v.int, 0)
    [] v.type = "uint" -> MakeReal(v.uint, 0)
    [] v.type = "real" -> v
    [] v.type = "null" -> Real(0, 0)
    [] v.type = "boolean" -> Real(IF v.bool THEN 1 ELSE 0, 0)
    [] OTHER -> Throws

AsBool(v) ==
  CASE v.type = "boolean" -> v
    [] v.type = "null" -> BoolValue(FALSE)
    [] IsNumeric(v) -> BoolValue(AsDouble(v) \notin {Real(0, 0), SpecialReal("NaN")})
    [] OTHER -> Throws

-----------------------------------------------------------------------------
(* Symbols.  A byte has the character as its symbol, or a name; a word, of *)
(* which the reader takes all or nothing, is a symbol of several bytes.    *)
Ascii == " !\"#$%&'()*+,-./0123456789:;<=>?" \o
         "@ABCDEFGHIJKLMNOPQRSTUVWXYZ[\\]^_abcdefghijklmnopqrstuvwxyz{|}~"

SymbolOf ==
  [b \in 0..255 |->
     CASE b \in 32..95 -> SubSeq(Ascii, b - 31, b - 31)
       [] b \in 97..126 -> SubSeq(Ascii, b - 32, b - 32)
       [] b = 0 -> "nul" [] b = 8 -> "backspace" [] b = 9 -> "\t" [] b = 10 -> "\n"
       [] b = 12 -> "\f" [] b = 13 -> "\r" [] OTHER -> "byte " \o ToString(b)]

ByteOf == [c \in Range(SymbolOf) |-> CHOOSE b \in 0..255 : SymbolOf[b] = c]

WordBytes ==
  [w \in {"null", "true", "false", "NaN", "Infinity", "byte order mark"} |->
     CASE w = "byte order mark" -> <<239, 187, 191>>
       [] OTHER -> [i \in 1..Len(w) |-> ByteOf[SubSeq(w, i, i)]]]

BytesOf(c) == IF c \in DOMAIN WordBytes THEN WordBytes[c] ELSE <<ByteOf[c]>>
Bytes(text) == FlattenSeq([i \in DOMAIN text |-> BytesOf(text[i])])

-----------------------------------------------------------------------------
(* The text of a number, a sequence of symbols: an integer in decimal, a   *)
(* real as "%.17g" prints it, with ".0" added when it looks like an        *)
(* integer.  reps names what is printed for the specials.                  *)
DigitSymbol == <<"0", "1", "2", "3", "4", "5", "6", "7", "8", "9">>
Zeros(k) == [i \in 1..Max({k, 0}) |-> "0"]

Digits(n) ==
  LET k == DigitCount(n)
  IN [i \in 1..k |-> DigitSymbol[((Magnitude(n) \div 10^(k - i)) % 10) + 1]]

Sign(n) == IF n < 0 THEN <<"-">> ELSE <<>>
IntegerText(n) == Sign(n) \o Digits(n)

Precision == 17    \* the setting "precision" and the most a double prints

RealText(r) ==
  LET digits == Digits(r.m)
      exponent == Len(digits) + r.e - 1      \* of the first digit
      dotted(s, k) == IF k = Len(s) THEN s \o <<".", "0">>
                      ELSE SubSeq(s, 1, k) \o <<".">> \o SubSeq(s, k + 1, Len(s))
      two(n) == IF n < 10 THEN <<"0">> \o Digits(n) ELSE Digits(n)
  IN Sign(r.m) \o
     IF exponent \in 0..(Precision - 1)
     THEN dotted(digits \o Zeros(r.e), exponent + 1)
     ELSE IF exponent \in -4..-1
     THEN <<"0", ".">> \o Zeros(-exponent - 1) \o digits
     ELSE (IF Len(digits) = 1 THEN digits ELSE dotted(digits, 1))
          \o <<"e", IF exponent < 0 THEN "-" ELSE "+">> \o two(Magnitude(exponent))

SpecialText(s, useSpecialFloats) ==
  IF useSpecialFloats
  THEN CASE s = "NaN" -> <<"NaN">>
         [] s = "Infinity" -> <<"Infinity">>
         [] s = "-Infinity" -> <<"-", "Infinity">>
  ELSE CASE s = "NaN" -> <<"null">>
         [] s = "Infinity" -> <<"1", "e", "+", "9", "9", "9", "9">>
         [] s = "-Infinity" -> <<"-", "1", "e", "+", "9", "9", "9", "9">>

NumberText(v, useSpecialFloats) ==
  CASE v.type = "int" -> IntegerText(v.int)
    [] v.type = "uint" -> IntegerText(v.uint)
    [] IsSpecial(v) -> SpecialText(v.special, useSpecialFloats)
    [] OTHER -> RealText(v)

AsString(v) ==
  CASE v.type = "null" -> StringValue(<<>>)
    [] v.type = "string" -> v
    [] v.type = "boolean" -> StringValue(BytesOf(IF v.bool THEN "true" ELSE "false"))
    [] IsNumeric(v) -> StringValue(Bytes(NumberText(v, FALSE)))
    [] OTHER -> Throws

IsConvertibleTo(v, type) ==
  LET simple == v.type \in {"boolean", "null"}
  IN CASE type = "null" ->
            \/ v \in {Null, BoolValue(FALSE), StringValue(<<>>)}
            \/ IsNumeric(v) /\ AsDouble(v) = Real(0, 0)
            \/ v \in {ArrayValue(Nothing), ObjectValue(Nothing)}
       [] type = "int" ->
            IsInt(v) \/ (v.type = "real" /\ InRange(v, MinInt, MaxInt)) \/ simple
       [] type = "uint" ->
            IsUInt(v) \/ (v.type = "real" /\ InRange(v, 0, MaxUInt)) \/ simple
       [] type \in {"real", "boolean"} -> IsNumeric(v) \/ simple
       [] type = "string" -> IsNumeric(v) \/ v.type = "string" \/ simple
       [] OTHER -> v.type \in {type, "null"}

-----------------------------------------------------------------------------
(* Order and equality.                                                     *)
(* Mutant of StringLess: equal up to the shorter length is equal.          *)
StringLessByBytes(s, t) ==
  \E i \in DOMAIN s \cap DOMAIN t :
    SubSeq(s, 1, i - 1) = SubSeq(t, 1, i - 1) /\ s[i] < t[i]

StringLess(s, t) ==   \* memcmp of the common length, then the lengths
  \/ IsStrictPrefix(s, t)
  \/ \E i \in DOMAIN s \cap DOMAIN t :
       SubSeq(s, 1, i - 1) = SubSeq(t, 1, i - 1) /\ s[i] < t[i]

MemberNames(v) == SetToSortSeq(DOMAIN v.member, StringLess)
Indices(v) == SetToSortSeq(DOMAIN v.at, LAMBDA i, j : i < j)

RECURSIVE Less(_, _)
Less(a, b) ==   \* Value::operator<
  LET rank(v) == CHOOSE i \in DOMAIN TypeOrder : TypeOrder[i] = v.type
      inOrder(s, t, f, g, keyLess(_, _)) ==   \* std::map's lexicographic order
        LET less(k, x, l, y) == keyLess(k, l) \/ (~keyLess(l, k) /\ Less(x, y))
        IN \/ Len(s) < Len(t)
           \/ /\ Len(s) = Len(t)
              /\ \E i \in DOMAIN s :
                   /\ less(s[i], f[s[i]], t[i], g[t[i]])
                   /\ \A j \in 1..(i - 1) : ~less(t[j], g[t[j]], s[j], f[s[j]])
  IN IF a.type # b.type THEN rank(a) < rank(b)
     ELSE CASE a.type = "null" -> FALSE
            [] a.type = "int" -> a.int < b.int
            [] a.type = "uint" -> a.uint < b.uint
            [] a.type = "real" ->
                 IF IsSpecial(a) \/ IsSpecial(b)
                 THEN /\ {a, b} \cap {SpecialReal("NaN")} = {}
                      /\ a # b
                      /\ a = SpecialReal("-Infinity") \/ b = SpecialReal("Infinity")
                 ELSE RealLess(a, b)
            [] a.type = "string" -> StringLess(a.string, b.string)
            [] a.type = "boolean" -> ~a.bool /\ b.bool
            [] a.type = "array" ->
                 inOrder(Indices(a), Indices(b), a.at, b.at, LAMBDA i, j : i < j)
            [] a.type = "object" ->
                 inOrder(MemberNames(a), MemberNames(b), a.member, b.member, StringLess)

RECURSIVE Equal(_, _)
Equal(a, b) ==   \* Value::operator==
  /\ a.type = b.type
  /\ CASE a.type = "array" ->
            /\ DOMAIN a.at = DOMAIN b.at
            /\ \A i \in DOMAIN a.at : Equal(a.at[i], b.at[i])
       [] a.type = "object" ->
            /\ DOMAIN a.member = DOMAIN b.member
            /\ \A n \in DOMAIN a.member : Equal(a.member[n], b.member[n])
       [] OTHER -> a = b /\ a # SpecialReal("NaN")

Compare(a, b) == IF Less(a, b) THEN -1 ELSE IF Less(b, a) THEN 1 ELSE 0

-----------------------------------------------------------------------------
(* Operations.  Each yields the value afterwards, what the call returns,   *)
(* and whether it throws.                                                  *)
Effect(v, returns) == [value |-> v, returns |-> returns, throws |-> FALSE]
Thrown(v) == [value |-> v, returns |-> FALSE, throws |-> TRUE]

With(f, k, x) == [l \in DOMAIN f \cup {k} |-> IF l = k THEN x ELSE f[l]]

Size(v) ==   \* of an array: the highest index + 1
  CASE IsArray(v) -> IF DOMAIN v.at = {} THEN 0 ELSE Max(DOMAIN v.at) + 1
    [] IsObject(v) -> Cardinality(DOMAIN v.member)
    [] OTHER -> 0

IsEmpty(v) == v.type \in {"null", "array", "object"} /\ Size(v) = 0
IsValidIndex(v, i) == i < Size(v)

At(v, i) == IF IsArray(v) /\ i \in DOMAIN v.at THEN v.at[i] ELSE Null

(* Looking for a member throws on what is neither null nor an object.      *)
IsMember(v, n) ==
  CASE IsNull(v) -> FALSE [] IsObject(v) -> n \in DOMAIN v.member [] OTHER -> Throws
Get(v, n, default) ==
  IF v.type \notin {"null", "object"} THEN Throws
  ELSE IF IsMember(v, n) THEN v.member[n] ELSE default
Find(v, n) == Get(v, n, Null)

BecomesArray(v) == IF IsNull(v) THEN ArrayValue(Nothing) ELSE v
BecomesObject(v) == IF IsNull(v) THEN ObjectValue(Nothing) ELSE v

Clear(v) ==
  CASE IsArray(v) -> Effect(ArrayValue(Nothing), TRUE)
    [] IsObject(v) -> Effect(ObjectValue(Nothing), TRUE)
    [] IsNull(v) -> Effect(v, TRUE)
    [] OTHER -> Thrown(v)

(* v[i], which makes the entry when it is missing, and v[i] = x.           *)
Touch(v, i) ==
  IF v.type \notin {"null", "array"} THEN Thrown(v)
  ELSE LET a == BecomesArray(v) IN Effect(ArrayValue(With(a.at, i, At(a, i))), TRUE)

SetIndex(v, i, x) ==
  LET touched == Touch(v, i)
  IN IF touched.throws THEN touched
     ELSE Effect(ArrayValue(With(touched.value.at, i, x)), TRUE)

(* Making the array longer makes its entries; making it shorter removes    *)
(* entries, and the assertion at the end fails when the entry before the   *)
(* new end was never made.                                                 *)
Resize(v, n) ==
  IF v.type \notin {"null", "array"} THEN Thrown(v)
  ELSE LET a == BecomesArray(v)
           longer == ArrayValue([i \in DOMAIN a.at \cup Size(a)..(n - 1) |-> At(a, i)])
           shorter == ArrayValue(Restrict(a.at, DOMAIN a.at \cap 0..(n - 1)))
       IN IF n = 0 THEN Clear(a)
          ELSE IF n > Size(a) THEN Effect(longer, TRUE)
          ELSE IF Size(shorter) = n THEN Effect(shorter, TRUE) ELSE Thrown(shorter)

AppendTo(v, x) ==
  IF v.type \notin {"null", "array"} THEN Thrown(v)
  ELSE LET a == BecomesArray(v) IN Effect(ArrayValue(With(a.at, Size(a), x)), TRUE)

InsertIndex(v, i, x) ==
  LET shifted(j) == CASE j < i -> At(v, j) [] j = i -> x [] j > i -> At(v, j - 1)
      kept == {j \in DOMAIN BecomesArray(v).at : j < i}
  IN IF v.type \notin {"null", "array"} THEN Thrown(v)
     ELSE IF i > Size(v) THEN Effect(v, FALSE)
     ELSE Effect(ArrayValue([j \in kept \cup i..Size(v) |-> shifted(j)]), TRUE)

(* Mutant of RemoveIndex: the last entry stays after everything is moved.  *)
RemoveIndexKeepsLast(v, i) ==
  IF ~IsArray(v) \/ i \notin DOMAIN v.at THEN Effect(v, FALSE)
  ELSE Effect(ArrayValue([j \in {k \in DOMAIN v.at : k < i} \cup i..(Size(v) - 1) |->
                            IF j < i \/ j = Size(v) - 1 THEN At(v, j) ELSE At(v, j + 1)]), TRUE)

RemoveIndex(v, i) ==
  LET shifted(j) == IF j < i THEN At(v, j) ELSE At(v, j + 1)
      kept == {j \in DOMAIN v.at : j < i}
  IN IF ~IsArray(v) THEN Effect(v, FALSE)
     ELSE IF i \notin DOMAIN v.at THEN Effect(v, FALSE)
     ELSE Effect(ArrayValue([j \in kept \cup i..(Size(v) - 2) |-> shifted(j)]), TRUE)

(* v[n], which makes the member, v[n] = x, and removeMember(n, &removed).  *)
TouchMember(v, n) ==
  IF v.type \notin {"null", "object"} THEN Thrown(v)
  ELSE LET o == BecomesObject(v)
       IN Effect(ObjectValue(With(o.member, n, Find(o, n))), TRUE)

SetMember(v, n, x) ==
  LET touched == TouchMember(v, n)
  IN IF touched.throws THEN touched
     ELSE Effect(ObjectValue(With(touched.value.member, n, x)), TRUE)

RemoveMember(v, n) ==
  IF ~IsObject(v) THEN Effect(v, FALSE)
  ELSE IF ~IsMember(v, n) THEN Effect(v, FALSE)
  ELSE Effect(ObjectValue(Restrict(v.member, DOMAIN v.member \ {n})), TRUE)
=============================================================================
