------------------------------ MODULE JsonWriter ------------------------------
(***************************************************************************)
(* The writers of JSON texts: the one StreamWriterBuilder makes, with      *)
(* which the plugin answers (Json::writeString), and the older FastWriter, *)
(* StyledWriter and StyledStreamWriter.  A writer decides for each array   *)
(* whether it fits a line by first writing its elements aside; that state  *)
(* is part of the model.  Comments of values are left out, and so is the   *)
(* setting "precision" below 17 and "precisionType".                       *)
(***************************************************************************)
EXTENDS JsonValue

CONSTANT RightMargin    \* the columns of a line, 74 in the code

BuilderDefaults ==   \* StreamWriterBuilder::setDefaults
  [commentStyle |-> "All", indentation |-> <<"\t">>, enableYAMLCompatibility |-> FALSE,
   dropNullPlaceholders |-> FALSE, useSpecialFloats |-> FALSE, emitUTF8 |-> FALSE]

-----------------------------------------------------------------------------
(* Strings.  With emitUTF8 bytes are written as they are; without it what  *)
(* is above 0x7F is written as \u and four digits, twice for a code point  *)
(* above 0xFFFF.                                                           *)
ShortEscapes ==
  [c \in {"\"", "\\", "backspace", "\f", "\n", "\r", "\t"} |->
     CASE c = "backspace" -> "b" [] c = "\f" -> "f" [] c = "\n" -> "n" [] c = "\r" -> "r"
       [] c = "\t" -> "t" [] OTHER -> c]

ReplacementCharacter == 65533

(* The code point at the front of s, and of how many bytes it is made.     *)
(* The first byte alone tells; the others need not be continuation bytes,  *)
(* so that a stray byte takes what stands behind it along.                 *)
Utf8ToCodepoint(s) ==
  LET first == s[1]
      bytes == CASE first < 128 -> 1 [] first \in 128..223 -> 2
                 [] first \in 224..239 -> 3 [] first \in 240..247 -> 4 [] OTHER -> 1
      smallest == <<0, 128, 2048, 65536>>[bytes]
      cp == FoldLeft(LAMBDA n, b : 64 * n + (b % 64), first % (2^(7 - bytes)), SubSeq(s, 2, bytes))
      isValid == cp >= smallest /\ cp \notin 55296..57343
  IN IF first < 128 THEN [cp |-> first, bytes |-> 1]
     ELSE IF first > 247 \/ Len(s) < bytes THEN [cp |-> ReplacementCharacter, bytes |-> 1]
     ELSE [cp |-> IF isValid THEN cp ELSE ReplacementCharacter, bytes |-> bytes]

HexEscape(n) ==
  <<"\\", "u">> \o [i \in 1..4 |-> LET digit == (n \div 16^(4 - i)) % 16
                                   IN SubSeq("0123456789abcdef", digit + 1, digit + 1)]

CodePointText(cp) ==
  IF cp < 32 THEN HexEscape(cp)
  ELSE IF cp < 128 THEN <<SymbolOf[cp]>>
  ELSE IF cp < 65536 THEN HexEscape(cp)
  ELSE HexEscape(55296 + ((cp \div 1024 - 64) % 1024)) \o HexEscape(56320 + (cp % 1024))

RECURSIVE Escaped(_, _)
Escaped(s, emitUTF8) ==
  LET c == SymbolOf[s[1]]
      decoded == Utf8ToCodepoint(s)
      after(text, bytes) == text \o Escaped(SubSeq(s, bytes + 1, Len(s)), emitUTF8)
  IN IF s = <<>> THEN <<>>
     ELSE IF c \in DOMAIN ShortEscapes THEN after(<<"\\", ShortEscapes[c]>>, 1)
     ELSE IF emitUTF8 THEN after(IF s[1] < 32 THEN HexEscape(s[1]) ELSE <<c>>, 1)
     ELSE after(CodePointText(decoded.cp), decoded.bytes)

Quoted(s, emitUTF8) == <<"\"">> \o Escaped(s, emitUTF8) \o <<"\"">>

(* The older styled writers pass a name on up to its first zero byte.      *)
CString(s) == IF 0 \in ToSet(s) THEN SubSeq(s, 1, SelectInSeq(s, LAMBDA b : b = 0) - 1) ELSE s

Joined(parts, separator) ==
  FlattenSeq([i \in DOMAIN parts |-> IF i = 1 THEN parts[i] ELSE separator \o parts[i]])

Elements(v) == [i \in 1..Size(v) |-> At(v, i - 1)]    \* of an array, gaps as null

ScalarText(v, s) ==
  CASE v.type = "null" -> IF s.dropNullPlaceholders THEN <<>> ELSE <<"null">>
    [] IsNumeric(v) -> NumberText(v, s.useSpecialFloats)
    [] v.type = "string" -> Quoted(v.string, s.emitUTF8)
    [] v.type = "boolean" -> <<IF v.bool THEN "true" ELSE "false">>

-----------------------------------------------------------------------------
(* FastWriter: no white space but the line feed at the end.                *)
RECURSIVE FastValue(_, _)
FastValue(v, s) ==
  CASE IsArray(v) ->
         LET parts == [i \in 1..Size(v) |-> FastValue(Elements(v)[i], s)]
         IN <<"[">> \o Joined(parts, <<",">>) \o <<"]">>
    [] IsObject(v) ->
         LET names == MemberNames(v)
             colon == IF s.enableYAMLCompatibility THEN <<":", " ">> ELSE <<":">>
             part(n) == Quoted(n, FALSE) \o colon \o FastValue(v.member[n], s)
         IN <<"{">> \o Joined([i \in DOMAIN names |-> part(names[i])], <<",">>) \o <<"}">>
    [] OTHER -> ScalarText(v, s)

FastWriter(v, s) ==
  FastValue(v, [s EXCEPT !.useSpecialFloats = FALSE, !.emitUTF8 = FALSE]) \o <<"\n">>

-----------------------------------------------------------------------------
(* The styled writers.  A writer w has the text written so far, the texts  *)
(* of an array's elements written aside, whether values go there, whether  *)
(* the line is indented already, and the depth of the indentation.         *)
NewWriter == [text |-> <<>>, children |-> <<>>, aside |-> FALSE, indented |-> TRUE, depth |-> 0]

Out(w, text) == [w EXCEPT !.text = @ \o text]
PushValue(w, text) ==
  IF w.aside THEN [w EXCEPT !.children = Append(@, text)] ELSE Out(w, text)

(* StyledWriter looks at what it wrote to see whether a line is indented,  *)
(* the others rely on the flag.  Without an indentation there are no lines.*)
WriteIndent(w, s) ==
  LET indentation == FlattenSeq([i \in 1..w.depth |-> s.indentation])
      last == w.text[Len(w.text)]
  IN IF s.looksBack
     THEN IF w.text = <<>> THEN w
          ELSE IF last = " " THEN w
          ELSE Out(w, (IF last = "\n" THEN <<>> ELSE <<"\n">>) \o indentation)
     ELSE IF w.indented \/ s.indentation = <<>> THEN w
     ELSE Out(w, <<"\n">> \o indentation)

WriteWithIndent(w, text, s) == [Out(WriteIndent(w, s), text) EXCEPT !.indented = FALSE]
Indent(w) == [w EXCEPT !.depth = @ + 1]
Unindent(w) == [w EXCEPT !.depth = @ - 1]

RECURSIVE WriteValue(_, _, _), WriteArray(_, _, _)

WriteValue(w, v, s) ==
  LET names == MemberNames(v)
      member(u, i) ==
        LET name == IF s.namesAsCStrings THEN CString(names[i]) ELSE names[i]
            named == Out(WriteWithIndent(u, Quoted(name, s.emitUTF8), s), s.colon)
            written == WriteValue(named, v.member[names[i]], s)
        IN IF i = Len(names) THEN written ELSE Out(written, <<",">>)
      opened == Indent(WriteWithIndent(w, <<"{">>, s))
      filled == FoldLeft(member, opened, [i \in DOMAIN names |-> i])
  IN IF IsArray(v) THEN WriteArray(w, v, s)
     ELSE IF ~IsObject(v) THEN PushValue(w, ScalarText(v, s))
     ELSE IF DOMAIN v.member = {} THEN PushValue(w, <<"{", "}">>)
     ELSE WriteWithIndent(Unindent(filled), <<"}">>, s)

(* isMultilineArray: the elements are written aside unless the array is    *)
(* known to need several lines.                                            *)
IsWide(v) == \/ 3 * Size(v) >= RightMargin
             \/ \E i \in DOMAIN v.at : v.at[i].type \in {"array", "object"} /\ ~IsEmpty(v.at[i])

(* Mutant: what an earlier array left aside is not cleared.                *)
WrittenAsideKeepsChildren(w, v, s) ==
  LET all == FoldLeft(LAMBDA u, e : WriteValue(u, e, s),
                      [w EXCEPT !.children = <<>>, !.aside = TRUE], Elements(v))
  IN IF IsWide(v) THEN w ELSE [all EXCEPT !.aside = FALSE]

WrittenAside(w, v, s) ==
  LET start == [w EXCEPT !.children = <<>>, !.aside = TRUE]
      all == FoldLeft(LAMBDA u, e : WriteValue(u, e, s), start, Elements(v))
  IN IF IsWide(v) THEN [w EXCEPT !.children = <<>>] ELSE [all EXCEPT !.aside = FALSE]

FitsLine(w, v) ==
  ~IsWide(v) /\ FoldLeft(LAMBDA n, text : n + Len(Bytes(text)), 4 + 2 * (Size(v) - 1), w.children)
                  < RightMargin

WriteArray(w, v, s) ==
  LET alwaysLines == s.commentStyle = "All"
      looked == IF alwaysLines THEN w ELSE WrittenAside(w, v, s)
      space == IF s.indentation = <<>> THEN <<>> ELSE <<" ">>
      line == <<"[">> \o space \o Joined(looked.children, <<",">> \o space) \o space \o <<"]">>
      element(u, i) ==
        LET written ==
              IF looked.children # <<>> THEN WriteWithIndent(u, looked.children[i], s)
              ELSE [WriteValue([WriteIndent(u, s) EXCEPT !.indented = TRUE], Elements(v)[i], s)
                      EXCEPT !.indented = FALSE]
        IN IF i = Size(v) THEN written ELSE Out(written, <<",">>)
      opened == Indent(WriteWithIndent(looked, <<"[">>, s))
      filled == FoldLeft(element, opened, [i \in 1..Size(v) |-> i])
  IN IF Size(v) = 0 THEN PushValue(w, <<"[", "]">>)
     ELSE IF ~alwaysLines /\ FitsLine(looked, v) THEN Out(looked, line)
     ELSE WriteWithIndent(Unindent(filled), <<"]">>, s)

(* What StreamWriterBuilder::newStreamWriter makes of its settings.        *)
Built(s) ==
  [commentStyle |-> s.commentStyle, indentation |-> s.indentation,
   colon |-> IF s.enableYAMLCompatibility THEN <<":", " ">>
             ELSE IF s.indentation = <<>> THEN <<":">> ELSE <<" ", ":", " ">>,
   dropNullPlaceholders |-> s.dropNullPlaceholders, useSpecialFloats |-> s.useSpecialFloats,
   emitUTF8 |-> s.emitUTF8, namesAsCStrings |-> FALSE, looksBack |-> FALSE]

WriteString(v, s) == WriteValue(NewWriter, v, Built(s)).text

(* StyledWriter and StyledStreamWriter, which have no settings.            *)
Styled ==
  [Built(BuilderDefaults) EXCEPT !.commentStyle = "None", !.namesAsCStrings = TRUE]

StyledWriter(v) ==
  WriteValue(NewWriter, v, [Styled EXCEPT !.indentation = <<" ", " ", " ">>,
                                          !.looksBack = TRUE]).text \o <<"\n">>

StyledStreamWriter(v) == WriteValue(NewWriter, v, Styled).text \o <<"\n">>
=============================================================================
