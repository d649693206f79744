------------------------------- MODULE Jansson -------------------------------
(***************************************************************************)
(* What webdis uses of jansson: text that is checked to be UTF-8 (utf.c),  *)
(* the writing of a value as text (dump.c) and its reading (load.c).       *)
(*                                                                         *)
(* A byte is a string of one character, or \xNN; a longer string stands    *)
(* for a word of letters.  A JSON value is a record; an object is a        *)
(* function, so the order of its keys is left out.  A real is its text:    *)
(* reals too large for a double are not modelled, nor are the text of      *)
(* error messages and running out of memory.                               *)
(***************************************************************************)
EXTENDS RespFormat, FiniteSets

CONSTANTS
    JSON_INT_MAX,             \* of json_int_t
    JSON_PARSER_MAX_DEPTH

ASSUME JanssonAssumption ==
    JSON_INT_MAX \in Nat \ {0} /\ JSON_PARSER_MAX_DEPTH \in Nat \ {0}

\* The printable characters from 32 on, and those of hexadecimal numbers.
Printable ==
    " !\"#$%&'()*+,-./0123456789:;<=>?@ABCDEFGHIJKLMNOPQRSTUVWXYZ[\\]^_?abcdefghijklmnopqrstuvwxyz{|}~"
Hex == "0123456789ABCDEF"
HexDigit(n) == SubSeq(Hex, n + 1, n + 1)

Byte(n) == CASE n \in 32..126 \ {96} -> SubSeq(Printable, n - 31, n - 31)
             [] n = 9 -> "\t" [] n = 10 -> "\n" [] n = 12 -> "\f" [] n = 13 -> "\r"
             [] OTHER -> "\\x" \o HexDigit(n \div 16) \o HexDigit(n % 16)

\* The number of a byte; a word is as good as one of its letters.
Codes == [c \in {Byte(n) : n \in 0..255} |-> CHOOSE n \in 0..255 : Byte(n) = c]
CodeIn(codes, c) == IF c \in DOMAIN codes THEN codes[c] ELSE codes["w"]
Code(c) == CodeIn(Codes, c)

NUL == Byte(0)
ByteRange(from, to) == {Byte(n) : n \in from..to}
Digits == Range(Digit)
Alphabetic == ByteRange(65, 90) \union ByteRange(97, 122)
XDigits == Digits \union ByteRange(65, 70) \union ByteRange(97, 102)

\* A C string ends at its first NUL.
CStr(s) == LET ends == {i \in DOMAIN s : s[i] = NUL}
           IN  IF ends = {} THEN s
               ELSE SubSeq(s, 1, (CHOOSE i \in ends : \A j \in ends : i <= j) - 1)

-----------------------------------------------------------------------------
(***************************************************************************)
(* UTF-8.                                                                  *)
(***************************************************************************)
\* How many bytes the character has that begins with c; 0 if none does.
CharacterLength(u) ==
    CASE u < 128 -> 1
      [] u \in 194..223 -> 2
      [] u \in 224..239 -> 3
      [] u \in 240..244 -> 4
      [] OTHER -> 0
utf8_check_first(c) == CharacterLength(Code(c))

CodePoint(s) == FoldLeft(LAMBDA value, c : value * 64 + (Code(c) % 64),
                         Code(s[1]) % (2^(7 - Len(s))), Tail(s))

\* No surrogate halves, nothing outside Unicode, no overlong encoding.
InUnicode(value, least) == value \in least..1114111 /\ value \notin 55296..57343

utf8_check_full(s) ==
    /\ \A i \in 2..Len(s) : Code(s[i]) \in 128..191
    /\ InUnicode(CodePoint(s), <<0, 128, 2048, 65536>>[Len(s)])

\* Where the first character from i on begins that is none; 0 if all are.
RECURSIVE utf8_fails(_, _)
CharacterFails(s, i, count) ==
    IF \/ count = 0
       \/ count > 1 /\ i + count - 1 > Len(s)
       \/ count > 1 /\ ~utf8_check_full(SubSeq(s, i, i + count - 1))
    THEN i ELSE utf8_fails(s, i + count)
utf8_fails(s, i) == IF i > Len(s) THEN 0 ELSE CharacterFails(s, i, utf8_check_first(s[i]))

utf8_check_string(s) == utf8_fails(s, 1) = 0

utf8_encode(cp) ==
    LET Rest6(n) == Byte(128 + ((cp \div n) % 64))
    IN  CASE cp < 128 -> <<Byte(cp)>>
          [] cp \in 128..2047 -> <<Byte(192 + (cp \div 64)), Rest6(1)>>
          [] cp \in 2048..65535 -> <<Byte(224 + (cp \div 4096)), Rest6(64), Rest6(1)>>
          [] OTHER -> <<Byte(240 + (cp \div 262144)), Rest6(4096), Rest6(64), Rest6(1)>>

-----------------------------------------------------------------------------
(***************************************************************************)
(* Values.  A string that is not UTF-8 is refused, and setting or          *)
(* appending a NULL does nothing.                                          *)
(***************************************************************************)
CNull == [json |-> "NULL"]
JNull == [json |-> "null"]
JBool(b) == [json |-> "bool", is |-> b]
JInt(n) == [json |-> "integer", is |-> n]
JReal(text) == [json |-> "real", is |-> text]
JString(s) == [json |-> "string", is |-> s]
JList(s) == [json |-> "list", is |-> s]
EmptyObject == [x \in {} |-> x]
JObject(f) == [json |-> "object", is |-> f]

\* c is the C string.
StringOf(c) == IF utf8_check_string(c) THEN JString(c) ELSE CNull
json_string(s) == StringOf(CStr(s))

SetMember(f, key, v) == IF v = CNull \/ ~utf8_check_string(key) THEN f ELSE (key :> v) @@ f
json_object_set(f, key, v) == SetMember(f, CStr(key), v)

json_array_append(s, v) == IF v = CNull THEN s ELSE Append(s, v)

-----------------------------------------------------------------------------
(***************************************************************************)
(* json_dumps(j, JSON_COMPACT).                                            *)
(***************************************************************************)
\* The escapes of one character, by the letter that follows the backslash.
Escapes == [c \in {"\"", "\\", "/", "b", "f", "n", "r", "t"} |->
              CASE c = "b" -> Byte(8) [] c = "f" -> "\f" [] c = "n" -> "\n"
                [] c = "r" -> "\r" [] c = "t" -> "\t" [] OTHER -> c]

\* Strings are UTF-8 here: json_string and json_object_set have seen to it.
dump_string(s) ==
    LET Escaped(c) ==
            CASE c # "/" /\ \E e \in DOMAIN Escapes : Escapes[e] = c ->
                   <<"\\", CHOOSE e \in DOMAIN Escapes : Escapes[e] = c>>
              [] ~(\E e \in DOMAIN Escapes : Escapes[e] = c) /\ Code(c) < 32 ->
                   <<"\\", "u", "0", "0", HexDigit(Code(c) \div 16), HexDigit(Code(c) % 16)>>
              [] OTHER -> <<c>>
    IN  <<"\"">> \o FlattenSeq([i \in DOMAIN s |-> Escaped(s[i])]) \o <<"\"">>

Commas(parts) ==
    FlattenSeq([i \in DOMAIN parts |-> IF i = 1 THEN parts[i] ELSE <<",">> \o parts[i]])

RECURSIVE do_dump(_)
do_dump(j) ==
    CASE j.json = "null" -> <<"n", "u", "l", "l">>
      [] j.json = "bool" -> IF j.is THEN <<"t", "r", "u", "e">> ELSE <<"f", "a", "l", "s", "e">>
      [] j.json = "integer" -> signed(j.is)
      [] j.json = "string" -> dump_string(j.is)
      [] j.json = "list" -> <<"[">> \o Commas([i \in DOMAIN j.is |-> do_dump(j.is[i])]) \o <<"]">>
      [] j.json = "object" ->
           LET keys == SetToSeq(DOMAIN j.is)
               Member(k) == dump_string(k) \o <<":">> \o do_dump(j.is[k])
           IN  <<"{">> \o Commas([i \in DOMAIN keys |-> Member(keys[i])]) \o <<"}">>

json_dumps(j) == do_dump(j)

-----------------------------------------------------------------------------
(***************************************************************************)
(* json_loads.  The stream is a position in the text; getting a character  *)
(* and ungetting it moves it on and back.                                  *)
(***************************************************************************)
JSON_REJECT_DUPLICATES == 1
JSON_DISABLE_EOF_CHECK == 2
JSON_DECODE_ANY == 4
JSON_DECODE_INT_AS_REAL == 8
JSON_ALLOW_NUL == 16
Has(flags, flag) == (flags \div flag) % 2 = 1

STREAM_EOF == "EOF"
STREAM_ERROR == "ERROR"

stream_init(text) == [data |-> CStr(text), bad |-> utf8_fails(CStr(text), 1)]

\* A character that is not UTF-8 ends the stream with an error for good.
stream_get(stream, i) ==
    CASE stream.bad # 0 /\ i >= stream.bad -> STREAM_ERROR
      [] stream.bad = 0 /\ i > Len(stream.data) -> STREAM_EOF
      [] OTHER -> stream.data[i]

\* The position of the first byte from i on that is not in chars.
Skip(stream, i, chars) ==
    CHOOSE k \in i..(Len(stream.data) + 1) :
        /\ stream_get(stream, k) \notin chars
        /\ \A l \in i..(k - 1) : stream_get(stream, l) \in chars

Token(token, val, at) == [token |-> token, val |-> val, at |-> at]
Invalid == Token("INVALID", <<>>, 0)

\* The position of the closing quotation mark; 0 when the string is invalid.
RECURSIVE StringEnd(_, _)
StringEnd(stream, i) ==
    LET c == stream_get(stream, i)
        escaped == stream_get(stream, i + 1)
    IN  CASE c = "\"" -> i
          [] c \in {STREAM_EOF, STREAM_ERROR} \/ Code(c) < 32 -> 0
          [] c = "\\" /\ escaped = "u" ->
               IF \A k \in 2..5 : stream_get(stream, i + k) \in XDigits
               THEN StringEnd(stream, i + 6) ELSE 0
          [] c = "\\" /\ escaped # "u" ->
               IF escaped \in DOMAIN Escapes THEN StringEnd(stream, i + 2) ELSE 0
          [] OTHER -> StringEnd(stream, i + 1)

\* Mutant: the letters of both cases are taken for capitals.
UpperCaseOnly(s, i) ==
    LET Value(c) == IF c \in Digits THEN Code(c) - 48 ELSE Code(c) - 55
    IN  FoldLeft(LAMBDA value, c : value * 16 + Value(c), 0, SubSeq(s, i + 2, i + 5))

\* The value of \uXXXX at i.
decode_unicode_escape(s, i) ==
    LET Value(c) == CASE c \in ByteRange(97, 102) -> Code(c) - 87
                      [] c \in ByteRange(65, 70) -> Code(c) - 55
                      [] OTHER -> Code(c) - 48
    IN  FoldLeft(LAMBDA value, c : value * 16 + Value(c), 0, SubSeq(s, i + 2, i + 5))

\* The text between i and the quotation mark at end, appended to t.  A first
\* surrogate must be followed by a second one, which never comes alone.
RECURSIVE Unescaped(_, _, _, _)
RECURSIVE UnicodeEscape(_, _, _, _, _, _)
UnicodeEscape(s, i, end, t, value, second) ==
    CASE value \in 55296..56319 /\ second \in 56320..57343 ->
           Unescaped(s, i + 12, end,
                     t \o utf8_encode((value - 55296) * 1024 + (second - 56320) + 65536))
      [] value \in 55296..57343 /\ ~(value <= 56319 /\ second \in 56320..57343) -> Invalid
      [] OTHER -> Unescaped(s, i + 6, end, t \o utf8_encode(value))

Unescaped(s, i, end, t) ==
    IF i = end THEN Token("STRING", t, end + 1)
    ELSE IF s[i] # "\\" THEN Unescaped(s, i + 1, end, Append(t, s[i]))
    ELSE IF s[i + 1] # "u" THEN Unescaped(s, i + 2, end, Append(t, Escapes[s[i + 1]]))
    ELSE UnicodeEscape(s, i, end, t, decode_unicode_escape(s, i),
                       IF s[i + 6] = "\\" /\ s[i + 7] = "u" THEN decode_unicode_escape(s, i + 6) ELSE 0)

StringToken(stream, i, end) ==
    IF end = 0 THEN Invalid ELSE Unescaped(stream.data, i, end, <<>>)

lex_scan_string(stream, i) == StringToken(stream, i, StringEnd(stream, i))

strtoll(s) ==
    LET Abs(digits) == FoldLeft(LAMBDA n, c : n * 10 + (Code(c) - 48), 0, digits)
    IN  IF s[1] = "-" THEN -Abs(Tail(s)) ELSE Abs(s)

\* Where the digits that begin at i end; 0 if there are none.
DigitsEnd(stream, i) == IF stream_get(stream, i) \in Digits THEN Skip(stream, i, Digits) ELSE 0

\* Where the parts of a number end: no digit follows a leading zero, and a
\* point or an exponent has digits of its own.  0 is an error.
WholeEnd(stream, i) ==
    IF stream_get(stream, i) # "0" THEN DigitsEnd(stream, i)
    ELSE IF stream_get(stream, i + 1) \in Digits THEN 0 ELSE i + 1
FractionEnd(stream, i) ==
    IF stream_get(stream, i) = "." THEN DigitsEnd(stream, i + 1) ELSE i
PowerEnd(stream, i) ==
    IF i = 0 \/ stream_get(stream, i) \notin {"E", "e"} THEN i
    ELSE DigitsEnd(stream, IF stream_get(stream, i + 1) \in {"+", "-"} THEN i + 2 ELSE i + 1)

IntegerToken(value, end) ==
    IF value \in (-JSON_INT_MAX - 1)..JSON_INT_MAX THEN Token("INTEGER", value, end) ELSE Invalid
RealToken(stream, i, end) ==
    IF end = 0 THEN Invalid ELSE Token("REAL", SubSeq(stream.data, i, end - 1), end)

NumberToken(stream, i, end, flags) ==
    CASE end = 0 -> Invalid
      [] end # 0 /\ ~Has(flags, JSON_DECODE_INT_AS_REAL)
           /\ stream_get(stream, end) \notin {".", "E", "e"} ->
           IntegerToken(strtoll(SubSeq(stream.data, i, end - 1)), end)
      [] OTHER -> RealToken(stream, i, PowerEnd(stream, FractionEnd(stream, end)))

lex_scan_number(stream, i, flags) ==
    NumberToken(stream, i, WholeEnd(stream, IF stream_get(stream, i) = "-" THEN i + 1 ELSE i), flags)

WordToken(word, end) ==
    CASE word = <<"t", "r", "u", "e">> -> Token("TRUE", <<>>, end)
      [] word = <<"f", "a", "l", "s", "e">> -> Token("FALSE", <<>>, end)
      [] word = <<"n", "u", "l", "l">> -> Token("NULL", <<>>, end)
      [] OTHER -> Invalid

TokenAt(stream, at, flags) ==
    LET c == stream_get(stream, at)
    IN  CASE c = STREAM_EOF -> Token("EOF", <<>>, at)
          [] c = STREAM_ERROR -> Invalid
          [] c \in {"{", "}", "[", "]", ":", ","} -> Token(c, <<>>, at + 1)
          [] c = "\"" -> lex_scan_string(stream, at + 1)
          [] c \in Digits \union {"-"} -> lex_scan_number(stream, at, flags)
          [] c \in Alphabetic ->
               WordToken(SubSeq(stream.data, at, Skip(stream, at, Alphabetic) - 1),
                         Skip(stream, at, Alphabetic))
          [] OTHER -> Invalid

\* The next token from i on.
lex_scan(stream, i, flags) == TokenAt(stream, Skip(stream, i, {" ", "\t", "\n", "\r"}), flags)

\* All the tokens up to the end or the first invalid one.  What a token is
\* does not depend on the parser, which asks for them one by one and fails at
\* an invalid one.
RECURSIVE Tokens(_, _, _)
Tokens(stream, flags, lex) ==
    IF lex # <<>> /\ Last(lex).token \in {"EOF", "INVALID"} THEN lex
    ELSE Tokens(stream, flags,
                Append(lex, lex_scan(stream, IF lex = <<>> THEN 1 ELSE Last(lex).at, flags)))

\* What was parsed, and the token after it; failures are not recovered.
Parsed(j, at) == [value |-> j, at |-> at]
Failed == Parsed(CNull, 0)

RECURSIVE parse_value(_, _, _, _)
RECURSIVE parse_elements(_, _, _, _, _)
RECURSIVE parse_members(_, _, _, _, _)

\* The member v was parsed for the key; others may follow.
AddMember(lex, f, key, v, flags, depth) ==
    IF v = Failed THEN Failed
    ELSE CASE lex[v.at].token = "," ->
                parse_members(lex, v.at + 1, (key :> v.value) @@ f, flags, depth)
           [] lex[v.at].token = "}" -> Parsed(JObject((key :> v.value) @@ f), v.at + 1)
           [] OTHER -> Failed

\* The members from token k on, added to f.
parse_members(lex, k, f, flags, depth) ==
    IF \/ lex[k].token # "STRING"
       \/ NUL \in Range(lex[k].val)
       \/ Has(flags, JSON_REJECT_DUPLICATES) /\ lex[k].val \in DOMAIN f
       \/ lex[k + 1].token # ":"
    THEN Failed
    ELSE AddMember(lex, f, lex[k].val, parse_value(lex, k + 2, flags, depth), flags, depth)

parse_object(lex, k, flags, depth) ==
    IF lex[k].token = "}" THEN Parsed(JObject(EmptyObject), k + 1)
    ELSE parse_members(lex, k, EmptyObject, flags, depth)

AddElement(lex, s, v, flags, depth) ==
    IF v = Failed THEN Failed
    ELSE CASE lex[v.at].token = "," -> parse_elements(lex, v.at + 1, Append(s, v.value), flags, depth)
           [] lex[v.at].token = "]" -> Parsed(JList(Append(s, v.value)), v.at + 1)
           [] OTHER -> Failed

\* The elements from token k on, appended to s.
parse_elements(lex, k, s, flags, depth) ==
    AddElement(lex, s, parse_value(lex, k, flags, depth), flags, depth)

parse_array(lex, k, flags, depth) ==
    IF lex[k].token = "]" THEN Parsed(JList(<<>>), k + 1)
    ELSE parse_elements(lex, k, <<>>, flags, depth)

parse_value(lex, k, flags, depth) ==
    LET token == lex[k].token
    IN  IF depth = JSON_PARSER_MAX_DEPTH THEN Failed
        ELSE CASE token = "STRING" ->
                    IF NUL \in Range(lex[k].val) /\ ~Has(flags, JSON_ALLOW_NUL) THEN Failed
                    ELSE Parsed(JString(lex[k].val), k + 1)
               [] token = "INTEGER" -> Parsed(JInt(lex[k].val), k + 1)
               [] token = "REAL" -> Parsed(JReal(lex[k].val), k + 1)
               [] token \in {"TRUE", "FALSE"} -> Parsed(JBool(token = "TRUE"), k + 1)
               [] token = "NULL" -> Parsed(JNull, k + 1)
               [] token = "{" -> parse_object(lex, k + 1, flags, depth + 1)
               [] token = "[" -> parse_array(lex, k + 1, flags, depth + 1)
               [] OTHER -> Failed

Checked(lex, result, flags) ==
    IF result # Failed /\ (Has(flags, JSON_DISABLE_EOF_CHECK) \/ lex[result.at].token = "EOF")
    THEN result.value ELSE CNull

parse_json(lex, flags) ==
    IF ~Has(flags, JSON_DECODE_ANY) /\ lex[1].token \notin {"[", "{"} THEN CNull
    ELSE Checked(lex, parse_value(lex, 1, flags, 0), flags)

json_loads(text, flags) == parse_json(Tokens(stream_init(text), flags, <<>>), flags)
=============================================================================
