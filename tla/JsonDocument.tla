----------------------------- MODULE JsonDocument -----------------------------
(***************************************************************************)
(* A value and a text in the hands of a program that uses the library: the *)
(* plugin reads the text of a request into a value, and builds a value by  *)
(* the operations on arrays and objects to write it as a text.  In a       *)
(* session of one kind a text comes in, piece by piece, and is read with   *)
(* the features of the session; in a session of the other kind a value is  *)
(* built, and written in every layout.                                     *)
(***************************************************************************)
EXTENDS JsonReader, JsonWriter, JsonGrammar

CONSTANTS
  Sessions,    \* what is done: the features of the reader, the symbols a text
               \* starts with, the pieces it goes on with and how many of them;
               \* without pieces a value is built
  Leaves,      \* the values that are stored
  Names,       \* the names of members
  MaxSize,     \* bound: entries of an array or an object that is built
  Layouts,     \* how values are written: the writer and its settings
  Comparands   \* the values a value is compared with

VARIABLES session, text, left, root, delivered
vars == <<session, text, left, root, delivered>>

Init == /\ session \in Sessions
        /\ text = session.start
        /\ left = session.length
        /\ root = Null
        /\ delivered = FALSE

Builds == session.pieces = {}

(* The next piece of the text arrives.                                     *)
Receive(piece) ==
  /\ left > 0 /\ ~delivered
  /\ left' = left - 1
  /\ text' = text \o piece
  /\ UNCHANGED <<session, root, delivered>>

(* A call that changes the value; one that throws may have changed it.     *)
Edit(effect) ==
  /\ Builds /\ ~delivered
  /\ Size(effect.value) <= MaxSize
  /\ root' = effect.value
  /\ UNCHANGED <<session, text, left, delivered>>

(* The text is complete and is read, or the value is and is written: the   *)
(* plugin calls CharReader::parse or Json::writeString.                    *)
Deliver ==
  /\ ~delivered
  /\ delivered' = TRUE
  /\ UNCHANGED <<session, text, left, root>>

StoreAt(i, x) == Edit(SetIndex(root, i, x))
UseIndex(i) == Edit(Touch(root, i))
AddEntry(x) == Edit(AppendTo(root, x))
Insert(i, x) == Edit(InsertIndex(root, i, x))
RemoveAtIndex(i) == Edit(RemoveIndex(root, i))
ResizeTo(n) == Edit(Resize(root, n))
StoreUnder(n, x) == Edit(SetMember(root, n, x))
UseName(n) == Edit(TouchMember(root, n))
RemoveName(n) == Edit(RemoveMember(root, n))
ClearValue == Edit(Clear(root))
Assign(x) == Edit(Effect(x, TRUE))

EditArray ==
  \/ \E i \in 0..(MaxSize - 1), x \in Leaves : StoreAt(i, x) \/ Insert(i, x)
  \/ \E i \in 0..(MaxSize - 1) : UseIndex(i) \/ RemoveAtIndex(i)
  \/ \E n \in 0..MaxSize : ResizeTo(n)
  \/ \E x \in Leaves : AddEntry(x)
EditObject ==
  \E n \in Names : \/ UseName(n) \/ RemoveName(n)
                   \/ \E x \in Leaves : StoreUnder(n, x)

Next == \/ \E piece \in session.pieces : Receive(piece)
        \/ EditArray \/ EditObject \/ ClearValue
        \/ \E x \in Leaves : Assign(x)
        \/ Deliver

Spec == Init /\ [][Next]_vars

(* The text as the reader leaves it.                                       *)
Outcome == Parse(text, session.features, Null)

-----------------------------------------------------------------------------
(* Reading.                                                                *)
RECURSIVE Depth(_)
Depth(v) ==   \* how many values stand around the innermost, and itself
  LET parts == IF IsArray(v) THEN Range(v.at) ELSE IF IsObject(v) THEN Range(v.member) ELSE {}
  IN 1 + Max({Depth(x) : x \in parts} \cup {0})

RECURSIVE Parts(_)
Parts(v) ==
  {v} \cup UNION {Parts(x) : x \in IF IsArray(v) THEN Range(v.at)
                                   ELSE IF IsObject(v) THEN Range(v.member) ELSE {}}

HasLongName(v) ==
  \E x \in Parts(v) : IsObject(x) /\ \E n \in DOMAIN x.member : Len(n) >= NameLimit

Opened(n) ==   \* the brackets open after n symbols
  LET count(S) == Cardinality({i \in 1..n : text[i] \in S})
  IN count({"{", "["}) - count({"}", "]"})

ReadsAs(v) ==
  LET f == session.features
      outcome == Outcome
      refused == \/ f.strictRoot /\ ~IsArray(v) /\ ~IsObject(v)
                 \/ f.rejectDupKeys /\ "duplicate key" \in ToSet(outcome.errors)
  IN /\ Depth(v) > f.stackLimit => outcome.throws \/ refused
     /\ HasLongName(v) => outcome.throws \/ refused
     /\ outcome.throws => \/ \E n \in DOMAIN text : Opened(n) >= f.stackLimit
                          \/ \E i, j \in DOMAIN text : i + NameLimit < j /\ text[i] = text[j]
     /\ ~outcome.throws /\ ~refused => outcome.ok /\ outcome.value = v

(* Every text of the JSON grammar is accepted, whatever liberties the      *)
(* features add, and as the value it stands for: integers in the narrowest *)
(* type that holds them, the last of two members of one name, pairs of     *)
(* surrogates as one code point.  Only a duplicate name and a root that is *)
(* neither array nor object are refused, where the features ask for it,    *)
(* and an exception leaves the reader exactly when the nesting exceeds its *)
(* limit.                                                                  *)
ReadsJson == [][Deliver => \A v \in Meanings(text) : ReadsAs(v)]_vars

(* What even the strict mode lets pass beyond the grammar.                 *)
NumberSymbols == Digit \cup {"+", "-", ".", "e"}
Runs == {r \in {<<i, j>> : i, j \in DOMAIN text} :
           /\ r[1] <= r[2]
           /\ \A k \in r[1]..r[2] : text[k] \in NumberSymbols
           /\ r[1] > 1 => text[r[1] - 1] \notin NumberSymbols
           /\ r[2] < Len(text) => text[r[2] + 1] \notin NumberSymbols}

IsLoose(s) ==   \* "-", or a sign, digits with a point anywhere but in front, an exponent
  LET u == IF s[1] \in {"+", "-"} THEN Tail(s) ELSE s
      es == {k \in DOMAIN u : u[k] = "e"}
      mantissa == IF es = {} THEN u ELSE SubSeq(u, 1, Min(es) - 1)
      points == {k \in DOMAIN mantissa : mantissa[k] = "."}
  IN \/ s = <<"-">>
     \/ /\ Cardinality(points) <= 1
        /\ AllIn(mantissa, Digit \cup {"."})
        /\ \E c \in ToSet(mantissa) : c \in Digit
        /\ s[1] # "."
        /\ es # {} => Exponents(SubSeq(u, Min(es) + 1, Len(u))) # {}

Liberties ==
  {"comment" : i \in {k \in DOMAIN text : text[k] = "/"}} \cup
  {"loose number" : r \in {q \in Runs : LET s == SubSeq(text, q[1], q[2])
                                         IN Numbers(s) = {} /\ IsLoose(s)}} \cup
  {"control character" : i \in {k \in DOMAIN text : text[k] \in Control}} \cup
  {"surrogate" : i \in {k \in 1..(Len(text) - 2) :
                          /\ text[k] = "u" /\ text[k + 1] \in {"d", "D"}
                          /\ text[k + 2] \notin {"0", "1", "2", "3", "4", "5", "6", "7"}}} \cup
  {"comma after an empty name" :
     i \in {k \in 1..(Len(text) - 1) : text[k] = "\"" /\ text[k + 1] = "\""}}

IsStrict(f) == f \in {StrictMode, [StrictMode EXCEPT !.strictRoot = FALSE]}

(* In the strict mode nothing but the texts of the grammar is accepted,    *)
(* except where the text takes one of the liberties.                       *)
AcceptsOnlyJson ==
  [][Deliver /\ IsStrict(session.features) /\ Outcome.ok /\ Liberties = {}
       => IsJsonText(text)]_vars

-----------------------------------------------------------------------------
(* Writing.                                                                *)
Written(v, l) ==
  CASE l.writer = "builder" -> WriteString(v, l.settings)
    [] l.writer = "fast" -> FastWriter(v, l.settings)
    [] l.writer = "styled" -> StyledWriter(v)
    [] l.writer = "styled stream" -> StyledStreamWriter(v)

(* The features of a reader that go with the settings of a writer.         *)
ReaderOf(l) ==
  [DefaultFeatures EXCEPT !.stackLimit = 10,
                          !.allowDroppedNullPlaceholders = l.settings.dropNullPlaceholders,
                          !.allowSpecialFloats = l.settings.useSpecialFloats]

(* What remains of a value that was written and read: gaps in arrays are   *)
(* null, a positive integer is signed if it fits, and NaN is null unless   *)
(* it has a word.  A string is as it was, but of one that is not UTF-8     *)
(* only the beginning that is; the writer, which has to write UTF-8, may   *)
(* lose or change what stands behind a stray byte as well.                 *)
RECURSIVE Remains(_, _, _)
Remains(v, r, l) ==
  CASE IsArray(v) -> /\ IsArray(r) /\ DOMAIN r.at = 0..(Size(v) - 1)
                     /\ \A i \in DOMAIN r.at : Remains(At(v, i), r.at[i], l)
    [] IsObject(v) -> /\ IsObject(r) /\ DOMAIN r.member = DOMAIN v.member
                      /\ \A n \in DOMAIN v.member : Remains(v.member[n], r.member[n], l)
    [] v.type = "string" /\ ~l.settings.emitUTF8 /\ ~IsUtf8(v.string) ->
         /\ r.type = "string"
         /\ IsUtf8(r.string)
         /\ IsStrictPrefix(WellFormedPart(v.string), r.string)
    [] v.type = "uint" -> r = NarrowestInteger(v.uint)
    [] v = SpecialReal("NaN") /\ ~l.settings.useSpecialFloats -> r = Null
    [] OTHER -> r = v

(* A dropped null cannot be told from nothing at all, the older styled     *)
(* writers cut a name at a zero byte, and names that are not UTF-8 may     *)
(* become one.                                                             *)
IsWritable(v, l) ==
  /\ l.settings.dropNullPlaceholders =>
       Null # v /\ \A x \in Parts(v) : IsArray(x) => ~(Size(x) = 1 /\ At(x, 0) = Null)
  /\ \A x \in Parts(v) : IsObject(x) => \A n \in DOMAIN x.member :
       /\ l.writer \in {"styled", "styled stream"} => 0 \notin ToSet(n)
       /\ l.settings.emitUTF8 \/ IsUtf8(n)

KeepsToGrammar(v, l) ==
  /\ ~l.settings.dropNullPlaceholders
  /\ l.settings.useSpecialFloats => \A x \in Parts(v) : ~IsSpecial(x)

ReadBack(v, l) ==
  LET written == Written(v, l)
      read == Parse(written, ReaderOf(l), Null)
  IN /\ read.ok /\ Remains(v, read.value, l)
     /\ KeepsToGrammar(v, l) => Meanings(written) = {read.value}

(* A value that was built in any way, with gaps, and is written in any     *)
(* layout, on one line or several, is read back as it was, strings that    *)
(* are not UTF-8 up to the first stray byte, and the text is of the JSON   *)
(* grammar with the meaning that was read, so that the page's JSON.parse   *)
(* reads what the plugin wrote.                                            *)
WrittenIsRead ==
  [][Deliver /\ Builds => \A l \in Layouts : IsWritable(root, l) => ReadBack(root, l)]_vars

-----------------------------------------------------------------------------
(* Arrays, conversions and order.                                          *)

(* An array, a map with gaps in the code, behaves as the sequence that     *)
(* JsonSequence describes, when it is built by any calls, some of which    *)
(* throw.                                                                  *)
EntriesOf(v) == IF IsArray(v) THEN Elements(v) ELSE <<>>
Sequence == INSTANCE JsonSequence WITH
  Filler <- Null, Entries <- Leaves, Ends <- 0..MaxSize,
  Others <- {EntriesOf(x) : x \in Leaves}, seq <- EntriesOf(root)
ImplementsSequence == Sequence!Spec

Converts(v) ==
  LET exact(is, as) == is => as.type = "int" /\ AsDouble(as) = AsDouble(v)
      cut(as) == as.type = "int" /\ v.type = "real" =>
                   /\ Magnitude(as.int) <= Magnitude(MaxLargestUInt) + 1
                   /\ ~RealLess(MakeReal(Magnitude(v.m), v.e), MakeReal(Magnitude(as.int), 0))
                   /\ RealLess(MakeReal(Magnitude(v.m), v.e), MakeReal(Magnitude(as.int) + 1, 0))
      converts(type, as) == IsConvertibleTo(v, type) <=> as \notin {Throws, AnyInt}
  IN /\ exact(IsInt(v), AsInt(v)) /\ exact(IsUInt(v), AsUInt(v))
     /\ exact(IsInt64(v), AsInt64(v)) /\ exact(IsUInt64(v), AsUInt64(v))
     /\ converts("int", AsInt(v)) /\ converts("uint", AsUInt(v))
     /\ converts("real", AsDouble(v)) /\ converts("boolean", AsBool(v))
     /\ converts("string", AsString(v))
     /\ cut(AsInt(v)) /\ cut(AsUInt(v)) /\ cut(AsInt64(v)) /\ cut(AsUInt64(v))
     /\ AsInt64(v) = AnyInt => v = MakeReal(DoubleMaxInt64, 0)
     /\ AsUInt64(v) = AnyInt => v = MakeReal(MaxUInt64AsDouble, 0)
     /\ AnyInt \notin {AsInt(v), AsUInt(v)}

(* A number for which a type test holds converts to that type and keeps    *)
(* its value; isConvertibleTo tells when the conversion does not throw;    *)
(* a real is cut towards zero; and a cast whose result the language leaves *)
(* open happens only for the double just above the largest 64 bit integer. *)
NumbersConvert == [][Deliver => Converts(IF Builds THEN root ELSE Outcome.value)]_vars

HasNaN(v) == SpecialReal("NaN") \in Parts(v)
Ordered == {c \in Comparands : ~HasNaN(c)}

InOrder(v, b) ==
  /\ Cardinality({i \in 1..3 : CASE i = 1 -> Less(v, b) [] i = 2 -> Less(b, v)
                                 [] i = 3 -> Equal(v, b)}) = 1
  /\ Compare(v, b) = 0 <=> Equal(v, b)
  /\ Less(v, b) => \A c \in Ordered : Less(b, c) => Less(v, c)
  /\ Less(b, v) => \A c \in Ordered : Less(v, c) => Less(b, c)

(* The order of values is strict and total and agrees with equality, as    *)
(* the maps that are keyed and compared with it need; only a NaN is        *)
(* neither before nor after nor equal to another real.                     *)
OrderIsTotal ==
  [][Deliver /\ Builds /\ ~HasNaN(root) => \A b \in Ordered : InOrder(root, b)]_vars
=============================================================================
