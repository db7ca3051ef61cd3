---------------------------- MODULE MCJsonDocument ----------------------------
(* Instances of JsonDocument for TLC: integers of 4 and 8 bits, lines of   *)
(* 12 columns, a stack of 3 values, and one session for each hazard of the *)
(* reader.                                                                 *)
EXTENDS JsonDocument

Quote == <<"\"">>
Single(symbols) == {<<c>> : c \in symbols}
Session(features, start, pieces, length) ==
  [features |-> features, start |-> start, pieces |-> pieces, length |-> length]

AnyRoot == [StrictMode EXCEPT !.strictRoot = FALSE]
Everything ==
  [DefaultFeatures EXCEPT !.allowDroppedNullPlaceholders = TRUE, !.allowNumericKeys = TRUE,
                          !.allowSingleQuotes = TRUE, !.allowSpecialFloats = TRUE]
ShortStack == [DefaultFeatures EXCEPT !.stackLimit = 2]
NameA == <<"\"", "a", "\"", ":">>
LongName == <<"\"", "a", "b", "a", "\"", ":">>
NoName == <<"\"", "\"", ":">>

MCSessions ==
  {Session(DefaultFeatures, <<>>, {}, 0),
   Session(AnyRoot, <<>>, Single({"0", "1", "2", "5", "8", "-", "+", ".", "e"}), 5),
   Session(StrictMode, <<>>,
           Single({"{", "}", "[", "]", ",", "1", " "}) \cup {NameA, NoName}, 5),
   Session(StrictMode, <<"{">>, Single({"{", "}", ",", "1"}) \cup {NameA, NoName}, 6),
   Session(StrictMode, <<"[">>, Single({"[", "]", ",", "1", "/", "*", "\n", "nul"}), 5),
   Session(AnyRoot, Quote,
           Single({"\"", "\\", "n", "\n", "a", "nul"}) \cup
             {<<"\\", "u">> \o q : q \in {<<"0", "0", "0", "0">>, <<"0", "0", "E", "9">>,
                                        <<"d", "8", "3", "d">>, <<"d", "e", "0", "0">>,
                                        <<"0", "a", "g", "0">>, <<"0">>}}, 4),
   Session(ShortStack, <<>>, Single({"[", "]", "{", "}", "1"}) \cup {NameA}, 6),
   Session(DefaultFeatures, <<"{">>, Single({"}", ",", "1", "null"}) \cup {NameA, LongName}, 6),
   Session(Everything, <<>>,
           Single({"[", "]", "{", "}", ",", "1", ":", " ", "NaN", "-", "Infinity", "'"}), 4)}

(* Bytes: an a, a line feed, a quote, a smiling face of four bytes; a lone  *)
(* continuation byte before an a, a lead byte before a quote, and the      *)
(* first two bytes of four at the end.                                     *)
Smile == StringValue(<<97, 10, 34, 240, 159, 152, 128>>)
Strays == StringValue(<<98, 128, 97, 195, 34, 31, 240, 159>>)

MCNames == {<<97>>, <<>>, <<98, 0>>}
MCLeaves ==
  {Null, IntValue(-8), UIntValue(5), UIntValue(200), Real(-15, -1), Real(1, 20),
   Smile, Strays, SpecialReal("NaN"),
   ArrayValue(Nothing), ArrayValue([i \in {1} |-> BoolValue(TRUE)]),
   ArrayValue([i \in {0} |-> ObjectValue([n \in {<<97>>} |-> IntValue(1)])])}
MCComparands == MCLeaves \cup {IntValue(7), StringValue(<<97>>), SpecialReal("Infinity"),
   ArrayValue([i \in {0, 2} |-> Null]), ObjectValue([n \in {<<>>, <<97>>} |-> Null])}

Layout(writer, settings) == [writer |-> writer, settings |-> settings]
MCLayouts ==
  LET d == BuilderDefaults
      short == [d EXCEPT !.commentStyle = "None"]
  IN {Layout("builder", d), Layout("builder", short),
      Layout("builder", [short EXCEPT !.indentation = <<>>, !.emitUTF8 = TRUE]),
      Layout("builder", [d EXCEPT !.indentation = <<>>, !.dropNullPlaceholders = TRUE]),
      Layout("builder", [short EXCEPT !.dropNullPlaceholders = TRUE, !.useSpecialFloats = TRUE,
                                      !.enableYAMLCompatibility = TRUE]),
      Layout("fast", d), Layout("styled", d), Layout("styled stream", d)}
=============================================================================
