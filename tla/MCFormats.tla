----------------------------- MODULE MCFormats -----------------------------
(* Replies of every type, alone and in pairs; nested arrays deeper than the *)
(* stack; every string of up to four of a few bytes in place of an integer; *)
(* malformed items; formatted commands; what Redis answers to the commands  *)
(* that have a JSON format of their own, and near misses of it.             *)
EXTENDS Formats

Root(type, val) == <<Node(<<>>, type, val)>>

Simple == {
    Root("STATUS", <<"O", "K">>), Root("ERROR", <<"E", "\r", "E">>), Root("INTEGER", 12),
    Root("NILBULK", <<>>), Root("STRING", <<>>), Root("STRING", <<"\r", "\n", ":">>),
    Root("ARRAY", 0), Root("NILARRAY", <<>>), Root("VERB", <<"v">>), Root("DOUBLE", <<"1", ".", "5">>) }

Nested == {
    <<Node(<<>>, "ARRAY", 2), Node(<<0>>, "STRING", <<"a">>), Node(<<1>>, "NILBULK", <<>>)>>,
    <<Node(<<>>, "MAP", 2), Node(<<0>>, "STATUS", <<"k">>), Node(<<1>>, "BOOL", 1)>>,
    <<Node(<<>>, "PUSH", 2), Node(<<0>>, "STRING", <<"m">>), Node(<<1>>, "SET", 1),
      Node(<<1, 0>>, "NIL", <<>>)>>,
    <<Node(<<>>, "ARRAY", 2), Node(<<0>>, "ARRAY", 1), Node(<<0, 0>>, "ARRAY", 2),
      Node(<<0, 0, 0>>, "ARRAY", 1), Node(<<0, 0, 0, 0>>, "DOUBLE", <<"3">>),
      Node(<<0, 0, 1>>, "ARRAY", 0), Node(<<1>>, "INTEGER", -3)>> }

Script(replies, junk, format) == [replies |-> replies, junk |-> junk, format |-> format]

Pairs == {Script(<<a, b>>, <<>>, <<>>) : a, b \in Simple \union Nested}

\* ":<digits>" for the strings of at most four of these bytes.
Spellings == UNION {[1..n -> {"-", "0", "1", "2", "8"}] : n \in 0..4}
Canonical == {signed(n) : n \in (-LLONG_MAX - 1)..LLONG_MAX}
ValueOf(s) == CHOOSE n \in (-LLONG_MAX - 1)..LLONG_MAX : signed(n) = s
IntegerScripts == {IF s \in Canonical
              THEN Script(<<Root("INTEGER", ValueOf(s))>>, <<>>, <<>>)
              ELSE Script(<<>>, <<":">> \o s \o CRLF, <<>>) : s \in Spellings}

Junk == {
    <<"x">>, <<"$", "-", "2", "\r", "\n">>, <<"$", "1", "x", "\r", "\n">>,
    <<"*", "9", "\r", "\n">>, <<"*", "-", "2", "\r", "\n">>, <<"*", "\r", "\n">>,
    <<",", "n", "a", "n", "\r", "\n">>, <<",", "1", "2", "3", "4", "\r", "\n">>,
    <<"=", "3", "\r", "\n", "t", "x", "t", "\r", "\n">>,
    <<"=", "4", "\r", "\n", "t", "x", "t", "-", "\r", "\n">>,
    <<"*", "2", "\r", "\n", ":", "1", "\r", "\n", "?">> }

Malformed == {Script(<<a>>, j, <<>>) : a \in {Root("STATUS", <<"O", "K">>), Root("ARRAY", 0)}, j \in Junk}

Command(argv) == <<Node(<<>>, "ARRAY", Len(argv))>>
                 \o [i \in DOMAIN argv |-> Node(<<i - 1>>, "STRING", argv[i])]

A10 == <<"a", "b", "c", "d", "e", "f", "g", "h", "i", "j">>
Commands == {
    Script(<<Command(<<<<"G">>, a>>)>>, <<>>, <<Literal("G"), Literal(" "), Directive(a)>>) :
        a \in {<<>>, <<"k", " ", "v">>, A10} }
    \union {Script(<<Command(<<<<"S">>, <<"k", "1", "%">>>>)>>, <<>>,
        <<Literal("S"), Literal(" "), Literal(" "), Literal("k"), Directive(<<"1">>),
          Directive(<<"%">>), Literal(" ")>>)}

\* A tree written as nested tuples: <<"a", ...>> is an array, <<"s", x>>,
\* <<"i", n>>, <<"n">> and <<"o", x>> a string, an integer, nil and a status.
RECURSIVE Nodes(_, _)
Nodes(x, path) ==
    CASE x[1] = "s" -> <<Node(path, "STRING", x[2])>>
      [] x[1] = "i" -> <<Node(path, "INTEGER", x[2])>>
      [] x[1] = "n" -> <<Node(path, "NILBULK", <<>>)>>
      [] x[1] = "o" -> <<Node(path, "STATUS", x[2])>>
      [] x[1] = "a" -> <<Node(path, "ARRAY", Len(x) - 1)>>
                       \o FlattenSeq([i \in 1..(Len(x) - 1) |-> Nodes(x[i + 1], Append(path, i - 1))])

S(c) == <<"s", <<c>>>>
Message(id) == <<"a", S(id), <<"a", S("k"), S("v")>>>>
Repeating(id) == <<"a", S(id), <<"a", S("k"), S("u"), S("k"), S("w")>>>>
Title == <<"#", "S">> \o CRLF
InfoLine(k, v) == <<k, ":", v>> \o CRLF
Answers == {
    <<"s", InfoLine("k", "v") \o InfoLine("l", "w")>>,
    <<"s", Title \o InfoLine("k", "v") \o InfoLine("l", "w") \o CRLF \o Title \o InfoLine("m", "x") \o CRLF \o Title>>,
    <<"s", InfoLine("k", "v") \o Title>>, <<"s", <<"k", ":", "v">>>>,
    S(Byte(255)), <<"s", <<"u", NUL, "w">>>>,
    <<"a", S("k"), S("v"), S("l"), S("w")>>, <<"a", S("k"), S("v"), S("l")>>,
    <<"a", S("k"), <<"i", 10>>, <<"i", -9>>, <<"n">>>>, <<"a", S("k"), <<"i", -31>>>>,
    <<"a", S("k"), <<"i", 100>>, <<"o", <<"K">>>>>>, <<"a", S(Byte(255)), S("v")>>,
    <<"a", <<"s", A10>>, <<"s", <<>>>>>>,
    <<"a", Message("1"), Message("2")>>, <<"a", Repeating("1"), Message("2")>>, <<"a", Message("1"), <<"n">>>>,
    <<"a", <<"a", S("x"), <<"a", Message("1")>>>>, <<"a", S("y"), <<"a", Message("2")>>>>>>,
    <<"a", <<"a", S("x"), <<"a", Repeating("1")>>>>, <<"a", S("x"), <<"a", Message("2")>>>>>>,
    <<"a", <<"i", 2>>, S("1"), S("2"), <<"a", <<"a", S("m"), S("3")>>, <<"a", S("n"), S("4")>>>>>>,
    <<"a", <<"i", 0>>, <<"n">>, <<"n">>, <<"n">>>>,
    <<"a", <<"a", S("1"), S("m"), <<"i", 7>>, <<"i", 8>>>>>>,
    <<"a", <<"a", S("p"), S("d"), <<"i", 5>>, <<"a", S("x"), S("y")>>>>,
           <<"a", S("q"), S("e"), <<"i", 6>>, <<"a", S("z"), S("t")>>>>>> }

AnswerScripts == {Script(<<Nodes(x, <<>>)>>, <<>>, <<>>) : x \in Answers}

\* A message is a list of elements, each with its spelling and what it gives.
Str(spelling, text) == [spelling |-> <<"\"">> \o spelling \o <<"\"">>,
                        args |-> <<[text |-> text, integer |-> FALSE]>>]
Num(n) == [spelling |-> signed(n), args |-> <<[text |-> signed(n), integer |-> TRUE]>>]
Other(spelling) == [spelling |-> spelling, args |-> <<>>]
U(a, b, c, d) == <<"\\", "u", a, b, c, d>>

Spelled == {
    Str(<<>>, <<>>), Str(<<"S", "E", "T">>, <<"S", "E", "T">>), Str(<<"a", "]">>, <<"a", "]">>),
    Str(<<"\\", "\"", "\\", "\\", "\\", "/">>, <<"\"", "\\", "/">>),
    Str(<<"\\", "b", "\\", "f", "\\", "n", "\\", "r", "\\", "t">>, <<Byte(8), "\f", "\n", "\r", "\t">>),
    Str(U("0", "0", "7", "a"), <<"z">>), Str(U("0", "0", "E", "9"), <<Byte(195), Byte(169)>>),
    Str(U("2", "0", "a", "c"), <<Byte(226), Byte(130), Byte(172)>>),
    Str(U("D", "8", "3", "d") \o U("d", "e", "0", "0"), <<Byte(240), Byte(159), Byte(152), Byte(128)>>),
    Str(<<Byte(195), Byte(169), "'">>, <<Byte(195), Byte(169), "'">>),
    Num(0), Num(7), Num(-31), Num(30),
    Other(<<"n", "u", "l", "l">>), Other(<<"-", "1", ".", "5", "e", "+", "2">>),
    Other(<<"{", "}">>), Other(<<"{", "\"", "k", "\"", ":", "[", "1", "]", "}">>),
    Other(<<"[", "[", "\"", "x", "\"", "]", ",", "t", "r", "u", "e", "]">>),
    Other(<<"{", "\"", "k", "\"", ":", "0", ",", "\"", "l", "\"", ":", "f", "a", "l", "s", "e", "}">>) }

\* What cannot be an element.
Misspelled == {
    <<"\"", "\\", "x", "\"">>, <<"\"", "\n", "\"">>, <<"\"">>, <<"\"", "\\", "\"">>,
    <<"\"">> \o U("0", "0", "g", "0") \o <<"\"">>, <<"\"">> \o U("D", "8", "3", "d") \o <<"\"">>,
    <<"\"">> \o U("D", "8", "3", "d") \o U("0", "0", "4", "1") \o <<"\"">>,
    <<"\"">> \o U("d", "e", "0", "0") \o <<"\"">>,
    <<"\"", Byte(255), "\"">>, <<"\"", Byte(195), "\"">>, <<"\"", Byte(237), Byte(160), Byte(128), "\"">>,
    <<"\"", Byte(224), Byte(128), Byte(128), "\"">>,
    <<"-">>, <<"0", "1">>, <<"-", "x">>, <<"1", ".">>, <<"1", "e", "+">>, <<"n", "u", "l">>, <<"'">>, <<>>,
    <<"[", "1">>, <<"[", "1", ",", "]">>, <<"{", "1">>, <<"{", "\"", "k", "\"", "}">>,
    <<"{", "\"", "k", "\"", ":", "}">>, <<"{", "\"", "k", "\"", ":", "1", "]">>,
    <<"{", "\"">> \o U("0", "0", "0", "0") \o <<"\"", ":", "1", "}">>,
    <<"[", "[", "[", "[", "[", "[", "[", "]", "]", "]", "]", "]", "]", "]">> }

Spaced(s, space) == space \o s \o space
InList(spellings, space) ==
    Spaced(<<"[">> \o Spaced(Commas([i \in DOMAIN spellings |-> Spaced(spellings[i], space)]), space)
             \o <<"]">>, space)
Sent(elems, space) ==
    [protocol |-> "json", text |-> InList([i \in DOMAIN elems |-> elems[i].spelling], space), reads |-> "list",
     args |-> FlattenSeq([i \in DOMAIN elems |-> elems[i].args])]
Refused(text, reads) == [protocol |-> "json", text |-> text, reads |-> reads, args |-> <<>>]
Spaces == {<<>>, <<" ">>, <<"\r", "\n", "\t">>}
Valid == {Sent(e, space) : e \in UNION {[1..n -> Spelled] : n \in 0..2}, space \in Spaces}
         \union {Sent(<<e, Num(1), e>>, <<>>) : e \in Spelled}

\* In the raw protocol.
RawElements == {S("a"), <<"s", <<>>>>, <<"s", A10>>, <<"s", CRLF>>, <<"i", 0>>, <<"i", -31>>, <<"i", 10>>}
RawArg(x) == [text |-> IF x[1] = "i" THEN signed(x[2]) ELSE x[2], integer |-> x[1] = "i"]
Raw(text, reads, args) == [protocol |-> "raw", text |-> text, reads |-> reads, args |-> args]
RawList(elems) == EncodeReply(Nodes(<<"a">> \o elems, <<>>))
RawMessages ==
    LET lists == UNION {[1..n -> RawElements] : n \in 0..2}
        Args(l) == [i \in DOMAIN l |-> RawArg(l[i])]
    IN  {Raw(RawList(l) \o after, "list", Args(l)) : l \in lists, after \in {<<>>, <<"x">>, RawList(<<S("b")>>)}}
        \union {Raw(SubSeq(RawList(l), 1, Len(RawList(l)) - n), "partial", <<>>) : l \in lists, n \in 1..3}
        \union {Raw(RawList(l \o <<x>>), "refused", <<>>) :
                  l \in lists, x \in {<<"n">>, <<"o", <<"K">>>>, <<"a", S("a")>>}}
        \union {Raw(EncodeReply(Nodes(x, <<>>)), "refused", <<>>) : x \in {S("a"), <<"i", 1>>, <<"n">>}}
        \union {Raw(j, "refused", <<>>) : j \in Junk}

MCMessages ==
    Valid \union RawMessages
    \union {Refused(InList(IF first THEN <<s, v.spelling>> ELSE <<v.spelling, s>>, <<>>), "invalid") :
              s \in Misspelled, v \in Spelled, first \in BOOLEAN}
    \union {Refused(Sent(<<a, b>>, <<>>).text \o s, "trailing") :
              a, b \in Spelled, s \in {<<"]">>, <<"1">>, <<",", "\"">>}}
    \union {Refused(<<"{">> \o a.spelling \o <<":">> \o b.spelling \o <<"}">>, "object") : a, b \in Spelled}
    \union {Refused(a.spelling, "scalar") : a \in Spelled}
    \union {Refused(InList(<<a.spelling, <<"\"">> \o U("0", "0", "0", "0") \o <<"\"">>>>, <<>>), "nul") :
              a \in Spelled}

MCScripts == Pairs \union IntegerScripts \union Malformed \union Commands \union AnswerScripts
             \union {Script(<<>>, <<>>, <<>>)}
MCCallbacks == {NoCallback, <<"f">>}

MCVerbs == {"GET", "INFO", "HGETALL", "XRANGE", "XCLAIM", "XREAD", "XPENDING", "GEORADIUS"}
MCSeparator == <<",", " ">>
=============================================================================
