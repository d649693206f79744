------------------------------- MODULE Formats -------------------------------
(***************************************************************************)
(* From a Redis reply to the body of an HTTP answer or of a WebSocket      *)
(* frame (formats/): JSON, MessagePack, the raw protocol and the types     *)
(* chosen with an extension.  The reply comes from the reader of hiredis;  *)
(* the callback of the command turns it into bytes at once.                *)
(*                                                                         *)
(* MessagePack is the sequence of what the packer was given (a header      *)
(* announces how many items follow it).  Other bodies are bytes, with the  *)
(* size that was computed before they were written.  A message is what a   *)
(* WebSocket client sends: the text, what it is meant to say.              *)
(***************************************************************************)
EXTENDS RedisReader, Jansson

CONSTANTS
    Verbs,        \* the commands replies are formatted for, in upper case
    Separator,    \* ?sep= of the request, a sequence of bytes
    Callbacks,    \* ?jsonp= of the requests, NoCallback if there is none
    Messages,     \* what WebSocket clients send
    INT_MAX       \* of int; its negative values are -INT_MAX-1..-1

ASSUME FormatsAssumption == INT_MAX \in Nat \ {0} /\ INT_MAX <= LLONG_MAX

VARIABLE served     \* the last answer: its verb, format, reply and body

fvars == <<script, unread, r, draining, out, served>>

Formatters == {"json", "msgpack", "raw", "custom"}
Unserved == [format |-> "none"]
NoCallback == <<>>

\* Bytes, and the size that was computed before they were written.
Text(sz, bytes) == [sz |-> sz, bytes |-> bytes]

\* (int)n
ToInt(n) == ((n + INT_MAX + 1) % (2 * (INT_MAX + 1))) - INT_MAX - 1

\* int ci = llabs(i), then the digits are counted while ci > 0.
integer_length(i) ==
    LET abs == IF i < 0 THEN -i ELSE i
        ci == ToInt(abs)
    IN  CASE i = 0 -> 1
          [] i # 0 /\ ci <= 0 -> IF i < 0 THEN 1 ELSE 0
          [] OTHER -> Len(decimal[ci]) + (IF i < 0 THEN 1 ELSE 0)

\* The elements of the aggregate at path p of tree t, as paths.
Elements(t, p) == [i \in 1..t[p].val |-> Append(p, i - 1)]
IsArray(t, p) == t[p].type = "ARRAY"
IsString(t, p) == t[p].type = "STRING"
FirstIsArray(t) == t[<<>>].val > 0 /\ IsArray(t, <<0>>)

\* The types whose objects have a str.
HasStr == {"STRING", "STATUS", "ERROR", "DOUBLE", "VERB"}

-----------------------------------------------------------------------------
(***************************************************************************)
(* JSON (formats/json.c).                                                  *)
(***************************************************************************)
\* Positions of c in s from i on; the first one, or 0.
Find(s, c, i) == LET at == {k \in i..Len(s) : s[k] = c}
                 IN  IF at = {} THEN 0 ELSE CHOOSE k \in at : \A l \in at : k <= l

\* The pairs both parsers of INFO find from position p on: a key up to the
\* next colon, a value up to the next \r, both wherever the lines end.
RECURSIVE InfoPairs(_, _)
InfoPairs(s, p) ==
    LET colon == Find(s, ":", p)
        nl == IF colon = 0 THEN 0 ELSE Find(s, "\r", colon + 1)
        next == IF nl < Len(s) /\ s[nl + 1] = "\n" THEN nl + 2 ELSE nl + 1
    IN  IF nl = 0 THEN <<>>
        ELSE <<<<SubSeq(s, p, colon - 1), SubSeq(s, colon + 1, nl - 1)>>>> \o InfoPairs(s, next)

json_info_reply(s) ==
    JObject(FoldLeft(LAMBDA f, pair : json_object_set(f, pair[1], json_string(pair[2])),
                     EmptyObject, InfoPairs(CStr(s), 1)))

RECURSIVE json_expand_array(_, _)
json_expand_array(t, p) ==
    LET Item(q) == CASE t[q].type \in {"STATUS", "STRING"} -> json_string(t[q].val)
                     [] t[q].type = "INTEGER" -> JInt(t[q].val)
                     [] t[q].type = "ARRAY" -> json_expand_array(t, q)
                     [] OTHER -> JNull
    IN  JList(FoldLeft(LAMBDA s, q : json_array_append(s, Item(q)), <<>>, Elements(t, p)))

\* An object of the keys and values at path p, NULL when they are not pairs
\* of a string and a value.
json_array_to_keyvalue_reply(t, p) ==
    LET e == Elements(t, p)
        Value(q) == CASE t[q].type = "NIL" -> JNull
                      [] t[q].type = "STRING" -> json_string(t[q].val)
                      [] t[q].type = "INTEGER" -> JInt(t[q].val)
                      [] t[q].type = "ARRAY" -> json_expand_array(t, q)
        bad == \/ Len(e) % 2 # 0
               \/ \E i \in DOMAIN e :
                    IF i % 2 = 1 THEN ~IsString(t, e[i])
                    ELSE t[e[i]].type \notin {"NIL", "STRING", "INTEGER", "ARRAY"}
    IN  IF bad THEN CNull
        ELSE JObject(FoldLeft(LAMBDA f, i : json_object_set(f, t[e[2 * i - 1]].val, Value(e[2 * i])),
                              EmptyObject, [i \in 1..(Len(e) \div 2) |-> i]))

OrNull(v) == IF v = CNull THEN JNull ELSE v

\* An array whose first element is a string of some length.
IsNamed(t, p) == /\ IsArray(t, p) /\ t[p].val >= 2
                 /\ IsString(t, Append(p, 0)) /\ t[Append(p, 0)].val # <<>>

\* XRANGE, XREVRANGE, XCLAIM and one stream of XREAD: ids with their fields.
json_singlestream_list(t, p) ==
    LET IsMessage(q) == /\ IsNamed(t, q)
                        /\ IsArray(t, Append(q, 1)) /\ t[Append(q, 1)].val >= 2
        Message(q) == JObject(json_object_set(json_object_set(EmptyObject,
                          <<"id">>, json_string(t[Append(q, 0)].val)),
                          <<"msg">>, OrNull(json_array_to_keyvalue_reply(t, Append(q, 1)))))
    IN  JList(FoldLeft(LAMBDA s, q : IF IsMessage(q) THEN Append(s, Message(q)) ELSE s,
                       <<>>, Elements(t, p)))

json_xreadstream_list(t) ==
    IF t[<<>>].val = 0 THEN CNull
    ELSE JObject(FoldLeft(
           LAMBDA f, q : IF IsNamed(t, q) /\ IsArray(t, Append(q, 1))
                         THEN json_object_set(f, t[Append(q, 0)].val,
                                              json_singlestream_list(t, Append(q, 1)))
                         ELSE f,
           EmptyObject, Elements(t, <<>>)))

\* key -> the value of element i, if it has the type.
SetIf(f, t, p, i, type, key) ==
    LET e == t[Append(p, i)]
    IN  IF e.type # type THEN f
        ELSE json_object_set(f, <<key>>, IF type = "STRING" THEN json_string(e.val) ELSE JInt(e.val))

\* The messages pending for each consumer.
json_xpending_owners(t, p) ==
    LET Set(f, q) == LET own == t[Append(q, 0)] msgs == t[Append(q, 1)]
                     IN  CASE own.type # "STRING" -> f
                           [] own.type = "STRING" /\ msgs.type = "STRING" ->
                                json_object_set(f, own.val, json_string(msgs.val))
                           [] own.type = "STRING" /\ msgs.type = "INTEGER" ->
                                json_object_set(f, own.val, JInt(msgs.val))
                           [] OTHER -> f
    IN  JObject(FoldLeft(LAMBDA f, q : IF IsArray(t, q) /\ t[q].val >= 2 THEN Set(f, q) ELSE f,
                         EmptyObject, Elements(t, p)))

\* The summary of a group, and the list of its messages.
json_xpending_list(t) ==
    IF t[<<>>].val >= 4 /\ t[<<0>>].type = "INTEGER"
    THEN LET f == SetIf(SetIf(SetIf(EmptyObject, t, <<>>, 0, "INTEGER", "msgs"),
                              t, <<>>, 1, "STRING", "idmin"), t, <<>>, 2, "STRING", "idmax")
         IN  JObject(IF IsArray(t, <<3>>)
                     THEN json_object_set(f, <<"msgsperconsumer">>, json_xpending_owners(t, <<3>>))
                     ELSE f)
    ELSE LET Message(q) == SetIf(SetIf(SetIf(SetIf(EmptyObject,
                               t, q, 0, "STRING", "id"), t, q, 1, "STRING", "owner"),
                               t, q, 2, "INTEGER", "elapsedtime"), t, q, 3, "INTEGER", "deliveries")
         IN  JList(FoldLeft(LAMBDA s, q : IF IsArray(t, q) /\ t[q].val >= 4
                                          THEN Append(s, JObject(Message(q))) ELSE s,
                            <<>>, Elements(t, <<>>)))

\* GEORADIUS* with WITHCOORD, WITHDIST or WITHHASH.
json_georadius_with_list(t) ==
    LET IsPair(q) == t[q].val = 2 /\ IsString(t, Append(q, 0)) /\ IsString(t, Append(q, 1))
        Pair(q) == JList(json_array_append(json_array_append(<<>>,
                       json_string(t[Append(q, 0)].val)), json_string(t[Append(q, 1)].val)))
        Set(f, q) == CASE t[q].type = "INTEGER" -> json_object_set(f, <<"hash">>, JInt(t[q].val))
                       [] t[q].type = "STRING" ->
                            json_object_set(f, <<"dist">>, json_string(t[q].val))
                       [] t[q].type = "ARRAY" /\ IsPair(q) ->
                            json_object_set(f, <<"coords">>, Pair(q))
                       [] OTHER -> f
        Name(q) == IF t[q].type \in HasStr
                   THEN json_object_set(EmptyObject, <<"name">>, json_string(t[q].val))
                   ELSE EmptyObject
        Place(q) == FoldLeft(Set, Name(Append(q, 0)), Tail(Elements(t, q)))
    IN  JList(FoldLeft(LAMBDA s, q : IF IsArray(t, q) /\ t[q].val >= 1
                                     THEN Append(s, JObject(Place(q))) ELSE s,
                       <<>>, Elements(t, <<>>)))

\* What is told of an array depends on the verb.
json_array_reply(verb, t) ==
    CASE verb = "HGETALL" -> json_array_to_keyvalue_reply(t, <<>>)
      [] verb \in {"XRANGE", "XREVRANGE"} \/ (verb = "XCLAIM" /\ FirstIsArray(t)) ->
           json_singlestream_list(t, <<>>)
      [] verb \in {"XREAD", "XREADGROUP"} -> json_xreadstream_list(t)
      [] verb = "XPENDING" -> json_xpending_list(t)
      [] verb = "GEORADIUS" /\ FirstIsArray(t) -> json_georadius_with_list(t)
      [] OTHER -> json_expand_array(t, <<>>)

\* The verb's key is not set at all for CNull.
json_wrap_redis_reply(verb, t) ==
    LET root == t[<<>>]
    IN  JObject(json_object_set(EmptyObject, <<verb>>,
          CASE root.type \in {"STATUS", "ERROR"} ->
                 JList(json_array_append(<<JBool(root.type = "STATUS")>>, json_string(root.val)))
            [] root.type = "STRING" ->
                 IF verb = "INFO" THEN json_info_reply(root.val) ELSE json_string(root.val)
            [] root.type = "INTEGER" -> JInt(root.val)
            [] root.type = "ARRAY" -> json_array_reply(verb, t)
            [] OTHER -> JNull))

Wrapped(json_reply, jsonp) ==
    IF jsonp = NoCallback THEN Text(Len(json_reply), json_reply)
    ELSE Text(Len(jsonp) + 1 + Len(json_reply) + 3,
              jsonp \o <<"(">> \o json_reply \o <<")", ";", "\n">>)

json_string_output(j, jsonp) == Wrapped(json_dumps(j), jsonp)

-----------------------------------------------------------------------------
(***************************************************************************)
(* MessagePack (formats/msgpack.c).  msgpack_pack_int takes an int.        *)
(***************************************************************************)
PMap(n) == <<"map", n>>
PArray(n) == <<"array", n>>
PRaw(s) == <<"raw", s>>
PNil == <<"nil">>
msgpack_pack_int(n) == <<"int", ToInt(n)>>

\* Mutant: the pairs of a hash are counted as items.
HgetallCountsItems(t) ==
    LET e == Elements(t, <<>>)
    IN  <<PMap(Len(e))>> \o [i \in 1..Len(e) |-> PRaw(t[e[i]].val)]

\* Nothing is packed for an odd number of items, and packing stops at the
\* first pair that is not two strings.
msg_hgetall_reply(t) ==
    LET e == Elements(t, <<>>)
        bad == {i \in 1..(Len(e) \div 2) : ~(IsString(t, e[2 * i - 1]) /\ IsString(t, e[2 * i]))}
        n == IF bad = {} THEN Len(e)
             ELSE 2 * (CHOOSE i \in bad : \A j \in bad : i <= j) - 2
    IN  IF Len(e) % 2 # 0 THEN <<>>
        ELSE <<PMap(Len(e) \div 2)>> \o [i \in 1..n |-> PRaw(t[e[i]].val)]

\* The header counts the line ends, the pairs are found by their colons.
msg_info_reply(s) ==
    <<PMap(Cardinality({i \in DOMAIN CStr(s) : s[i] = "\r"}))>>
    \o FlattenSeq([i \in DOMAIN InfoPairs(CStr(s), 1) |->
         <<PRaw(InfoPairs(CStr(s), 1)[i][1]), PRaw(InfoPairs(CStr(s), 1)[i][2])>>])

\* A map of one: the verb, and what is packed for the reply.
msgpack_wrap_redis_reply(verb, t) ==
    LET root == t[<<>>]
        Item(q) == CASE t[q].type = "STRING" -> PRaw(t[q].val)
                     [] t[q].type = "INTEGER" -> msgpack_pack_int(t[q].val)
                     [] OTHER -> PNil
    IN  <<PMap(1), PRaw(<<verb>>)>> \o
        (CASE root.type \in {"STATUS", "ERROR"} ->
                <<PArray(2), <<IF root.type = "ERROR" THEN "false" ELSE "true">>, PRaw(root.val)>>
           [] root.type = "STRING" ->
                IF verb = "INFO" THEN msg_info_reply(root.val) ELSE <<PRaw(root.val)>>
           [] root.type = "INTEGER" -> <<msgpack_pack_int(root.val)>>
           [] root.type = "ARRAY" ->
                IF verb = "HGETALL" THEN msg_hgetall_reply(t)
                ELSE <<PArray(root.val)>>
                     \o [i \in 1..root.val |-> Item(Elements(t, <<>>)[i])]
           [] OTHER -> <<PNil>>)

-----------------------------------------------------------------------------
(***************************************************************************)
(* The raw protocol (formats/raw.c) and the other types (custom-type.c).   *)
(***************************************************************************)

\* Strings and integers are written as bulk strings, the rest is left out.
raw_array(t) ==
    LET Size(q) == CASE t[q].type = "STRING" ->
                          1 + integer_length(Len(t[q].val)) + 2 + Len(t[q].val) + 2
                     [] t[q].type = "INTEGER" ->
                          1 + integer_length(integer_length(t[q].val)) + 2
                            + integer_length(t[q].val) + 2
                     [] OTHER -> 0
        Bytes(q) == CASE t[q].type = "STRING" -> WriteBulk(t[q].val)
                      [] t[q].type = "INTEGER" ->
                           <<"$">> \o signed(integer_length(t[q].val)) \o CRLF
                             \o signed(t[q].val) \o CRLF
                      [] OTHER -> <<>>
        e == Elements(t, <<>>)
    IN  Text(FoldLeft(LAMBDA sz, q : sz + Size(q), 1 + integer_length(Len(e)) + 2, e),
             FoldLeft(LAMBDA p, q : p \o Bytes(q), <<"*">> \o decimal[Len(e)] \o CRLF, e))

raw_wrap(t) ==
    LET root == t[<<>>]
    IN  CASE root.type \in {"STATUS", "ERROR"} ->
               Text(3 + Len(root.val),
                    <<IF root.type = "STATUS" THEN "+" ELSE "-">> \o root.val \o CRLF)
          [] root.type = "STRING" ->
               Text(1 + integer_length(Len(root.val)) + 2 + Len(root.val) + 2, WriteBulk(root.val))
          [] root.type = "INTEGER" ->
               Text(3 + integer_length(root.val), <<":">> \o signed(root.val) \o CRLF)
          [] root.type = "ARRAY" -> raw_array(t)
          [] OTHER -> Text(5, <<"$", "-", "1">> \o CRLF)

\* Mutant: the separators are added up for all the strings.
CustomCountsAllSeparators(t) ==
    LET e == Elements(t, <<>>)
        Bytes(i) == (IF i # 1 THEN Separator ELSE <<>>) \o t[e[i]].val
        strings == SelectSeq([i \in DOMAIN e |-> i], LAMBDA i : IsString(t, e[i]))
    IN  Text(FoldLeft(LAMBDA sz, i : sz + Len(Separator) + Len(t[e[i]].val), 0, strings),
             FoldLeft(LAMBDA p, i : p \o Bytes(i), <<>>, strings))

\* The strings of an array, with the separator before all but element 0.
custom_array(t) ==
    LET e == Elements(t, <<>>)
        Sep(i) == IF i # 1 THEN Separator ELSE <<>>
        Size(i) == IF IsString(t, e[i]) THEN Len(Sep(i)) + Len(t[e[i]].val) ELSE 0
        Bytes(i) == IF IsString(t, e[i]) THEN Sep(i) \o t[e[i]].val ELSE <<>>
        indexes == [i \in DOMAIN e |-> i]
    IN  Text(FoldLeft(LAMBDA sz, i : sz + Size(i), 0, indexes),
             FoldLeft(LAMBDA p, i : p \o Bytes(i), <<>>, indexes))

\* A code without a body is an error.
custom_type_reply(t) ==
    LET root == t[<<>>]
        Ok(text) == [code |-> 200, body |-> text]
    IN  CASE root.type = "NIL" -> [code |-> 404, body |-> Text(0, <<>>)]
          [] root.type = "STRING" -> Ok(Text(Len(root.val), root.val))
          [] root.type \in {"STATUS", "ERROR"} ->
               Ok(Text(1 + Len(root.val),
                       <<IF root.type = "STATUS" THEN "+" ELSE "-">> \o root.val))
          [] root.type = "INTEGER" -> Ok(Text(Len(signed(root.val)), signed(root.val)))
          [] root.type = "ARRAY" -> Ok(custom_array(t))
          [] OTHER -> [code |-> 400, body |-> Text(0, <<>>)]

\* The command that is made of a message, if it is not refused.
NewCmd(argv) == [cmd |-> "new", argv |-> argv]
NoCmd == [cmd |-> "none", argv |-> <<>>]

\* A message in the raw protocol.  No reply at all is followed as a null
\* pointer.
raw_ws_extract(p) ==
    LET got == redisReaderGetReply([redisReaderCreateWithFunctions EXCEPT !.buf = p])
        t == got.reply
    IN  CASE got.r.err # "" -> NoCmd
          [] got.r.err = "" /\ t = NoTree -> [cmd |-> "null pointer"]
          [] got.r.err = "" /\ t # NoTree ->
               IF \/ ~IsArray(t, <<>>)
                  \/ \E q \in Range(Elements(t, <<>>)) : t[q].type \notin {"STRING", "INTEGER"}
               THEN NoCmd
               ELSE NewCmd([i \in 1..t[<<>>].val |->
                       LET n == t[<<i - 1>>]
                       IN  IF n.type = "STRING" THEN n.val
                           ELSE SubSeq(signed(n.val), 1, integer_length(n.val))])

\* A message in JSON: the strings and integers of a list.  The size of the
\* message is what json_loads takes for its flags.
json_ws_extract(p) ==
    LET Args(j) == IF j.json # "list" THEN <<>>
                   ELSE SelectSeq(j.is, LAMBDA v : v.json \in {"string", "integer"})
        Cmd(args) == IF args = <<>> THEN NoCmd
                     ELSE NewCmd([i \in DOMAIN args |->
                                    IF args[i].json = "string" THEN CStr(args[i].is)
                                    ELSE signed(ToInt(args[i].is))])
    IN  Cmd(Args(json_loads(p, Len(p))))

-----------------------------------------------------------------------------
(***************************************************************************)
(* The callbacks.                                                          *)
(***************************************************************************)
\* A broken link gives the callback no reply.
Unavailable == [code |-> 503, body |-> Text(0, <<>>)]

Answer(format, verb, jsonp, t) ==
    IF t = NoTree THEN Unavailable
    ELSE CASE format = "json" ->
                [code |-> 200, body |-> json_string_output(json_wrap_redis_reply(verb, t), jsonp)]
           [] format = "msgpack" -> [code |-> 200, body |-> msgpack_wrap_redis_reply(verb, t)]
           [] format = "raw" -> [code |-> 200, body |-> raw_wrap(t)]
           [] format = "custom" -> custom_type_reply(t)

FormatsInit == Init /\ served = Unserved

\* json_reply, msgpack_reply, raw_reply or custom_type_reply, called with the
\* last reply of the script, or without one when the reader is in error.
Reply ==
    /\ served = Unserved
    /\ ~draining
    /\ unread = <<>> \/ r.err # ""
    /\ out # <<>> \/ r.err # ""
    /\ \E format \in Formatters, verb \in Verbs,
          t \in {IF r.err # "" THEN NoTree ELSE Last(out)} :
         \E jsonp \in IF format = "json" THEN Callbacks ELSE {NoCallback} :
           served' = [verb |-> verb, format |-> format, jsonp |-> jsonp, reply |-> t,
                      answer |-> Answer(format, verb, jsonp, t)]
    /\ UNCHANGED vars

\* fun_extract of ws_execute: a message, on a connection that has no replies;
\* the path of the upgrade request chose the protocol.
Extract ==
    /\ served = Unserved
    /\ script.replies = <<>> /\ script.junk = <<>>
    /\ \E m \in Messages :
         served' = [format |-> "message", message |-> m,
                    cmd |-> IF m.protocol = "raw" THEN raw_ws_extract(m.text)
                            ELSE json_ws_extract(m.text)]
    /\ UNCHANGED vars

Read == /\ redisBufferRead \/ redisGetReplyFromReader
        /\ UNCHANGED served

FormatsNext == Read \/ Reply \/ Extract

FormatsSpec == FormatsInit /\ [][FormatsNext]_fvars

-----------------------------------------------------------------------------
(***************************************************************************)
(* Properties.  The first definitions say for which replies they hold.     *)
(***************************************************************************)
TypesBelow(t) == {t[p].type : p \in DOMAIN t \ {<<>>}}
StringsOf(t) == {t[p].val : p \in {q \in DOMAIN t : t[q].type \in {"STRING", "STATUS", "ERROR"}}}
IntegersOf(t) == {t[p].val : p \in {q \in DOMAIN t : t[q].type = "INTEGER"}}
Fits(t) == IntegersOf(t) \subseteq -INT_MAX..INT_MAX
Flat(t) == TypesBelow(t) \subseteq {"STRING", "INTEGER"}

\* Fields and their values; a hash has each field once, a stream's entry may
\* repeat one.
IsFields(t, p) ==
    IsArray(t, p) /\ t[p].val % 2 = 0 /\ \A q \in Range(Elements(t, p)) : IsString(t, q)
SameField(t, p, i, j) == t[Append(p, i - (i % 2))].val = t[Append(p, j - (j % 2))].val
IsHash(t, p) ==
    /\ IsFields(t, p)
    /\ \A i, j \in 0..(t[p].val - 1) : i % 2 = j % 2 /\ SameField(t, p, i, j) => i = j

IsMessages(t, p) ==
    \A q \in Range(Elements(t, p)) :
        IsNamed(t, q) /\ t[q].val = 2 /\ IsFields(t, Append(q, 1)) /\ t[Append(q, 1)].val > 0

Types(t, p) == [i \in 1..t[p].val |-> t[Append(p, i - 1)].type]

IsPlace(t, q) ==
    /\ IsNamed(t, q) \/ Types(t, q) = <<"STRING">>
    /\ \A i, j \in 2..t[q].val : Types(t, q)[i] = Types(t, q)[j] => i = j
    /\ \A i \in 1..(t[q].val - 1) :
         IsArray(t, Append(q, i)) => Types(t, Append(q, i)) = <<"STRING", "STRING">>

\* The lines of INFO: "key:value", the title of a section, or nothing.
InfoLines(s) ==
    LET ends == SelectSeq([i \in DOMAIN s |-> i], LAMBDA i : s[i] = "\r")
    IN  [n \in DOMAIN ends |-> SubSeq(s, IF n = 1 THEN 1 ELSE ends[n - 1] + 2, ends[n] - 1)]
IsPair(line) == Find(line, ":", 1) # 0
KeyOf(line) == SubSeq(line, 1, Find(line, ":", 1) - 1)
TextOf(line) == SubSeq(line, Find(line, ":", 1) + 1, Len(line))
Titles(s) == Len(SelectSeq(InfoLines(s), LAMBDA line : ~IsPair(line)))

\* Every line has its end, and every key is there once.
IsInfo(s) ==
    LET lines == InfoLines(s)
    IN  /\ s = FlattenSeq([n \in DOMAIN lines |-> lines[n] \o CRLF])
        /\ \A m, n \in DOMAIN lines :
             IsPair(lines[m]) /\ IsPair(lines[n]) /\ KeyOf(lines[m]) = KeyOf(lines[n]) => m = n

\* The arrays, and the text of INFO, that Redis answers to a verb.
Shape(verb, t) ==
    LET All(P(_)) == \A q \in Range(Elements(t, <<>>)) : P(q)
    IN  IF ~IsArray(t, <<>>) THEN verb = "INFO" /\ IsString(t, <<>>) => IsInfo(t[<<>>].val)
        ELSE CASE verb = "HGETALL" -> IsHash(t, <<>>)
               [] verb = "XRANGE" -> IsMessages(t, <<>>)
               [] verb = "XCLAIM" -> FirstIsArray(t) => IsMessages(t, <<>>)
               [] verb = "XREAD" ->
                    /\ t[<<>>].val > 0
                    /\ All(LAMBDA q : /\ IsNamed(t, q) /\ t[q].val = 2
                                      /\ IsArray(t, Append(q, 1)) /\ IsMessages(t, Append(q, 1)))
               [] verb = "XPENDING" ->
                    \/ /\ Types(t, <<>>) = <<"INTEGER", "STRING", "STRING", "ARRAY">>
                       /\ \A q \in Range(Elements(t, <<3>>)) :
                            IsNamed(t, q) /\ Types(t, q) \in {<<"STRING", "STRING">>}
                    \/ All(LAMBDA q : IsArray(t, q)
                             /\ Types(t, q) = <<"STRING", "STRING", "INTEGER", "INTEGER">>)
               [] verb = "GEORADIUS" ->
                    FirstIsArray(t) => All(LAMBDA q : IsArray(t, q) /\ IsPlace(t, q))
               [] OTHER -> TRUE

\* What the nodes ps of a reply say: their strings and integers.
Leaf(kind, s) == <<kind>> \o s
LeavesAt(t, ps) ==
    {Leaf("s", t[p].val) : p \in {q \in ps : t[q].type \in {"STRING", "STATUS", "ERROR"}}}
    \union {Leaf("i", signed(t[p].val)) : p \in {q \in ps : t[q].type = "INTEGER"}}

\* What a JSON value says, the keys of objects included.
RECURSIVE JsonLeaves(_)
JsonLeaves(v) ==
    CASE v.json = "string" -> {Leaf("s", v.is)}
      [] v.json = "integer" -> {Leaf("i", signed(v.is))}
      [] v.json = "list" -> UNION {JsonLeaves(x) : x \in Range(v.is)}
      [] v.json = "object" -> UNION {{Leaf("s", k)} \union JsonLeaves(v.is[k]) : k \in DOMAIN v.is}
      [] OTHER -> {}

\* Where the item that begins at i ends; past the end when items are missing.
RECURSIVE PackedEnd(_, _)
PackedEnd(pk, i) ==
    LET items == IF i > Len(pk) THEN 0 ELSE
                 CASE pk[i][1] = "map" -> 2 * pk[i][2] [] pk[i][1] = "array" -> pk[i][2] [] OTHER -> 0
    IN  IF i > Len(pk) THEN i + 1
        ELSE FoldLeft(LAMBDA at, k : PackedEnd(pk, at), i + 1, [k \in 1..items |-> k])

PackedLeaves(pk) ==
    {Leaf("s", pk[i][2]) : i \in {k \in DOMAIN pk : pk[k][1] = "raw"}}
    \union {Leaf("i", signed(pk[i][2])) : i \in {k \in DOMAIN pk : pk[k][1] = "int"}}

\* The values whose key comes again in an object of json.c: a field of one
\* entry, or a stream that was read twice.
Replaced(verb, t) ==
    LET entry == IF verb = "XREAD" THEN 4 ELSE 2
    IN  {p \in DOMAIN t :
           \/ /\ verb \in {"XRANGE", "XCLAIM", "XREAD"}
              /\ Len(p) = entry + 1 /\ Last(p) % 2 = 1
              /\ \E j \in (Last(p) + 1)..(t[Front(p)].val - 1) :
                   j % 2 = 1 /\ SameField(t, Front(p), Last(p), j)
           \/ /\ verb = "XREAD" /\ p # <<>>
              /\ \E j \in (p[1] + 1)..(t[<<>>].val - 1) : t[<<j, 0>>].val = t[<<p[1], 0>>].val}

IsInfoText(verb, t) == verb = "INFO" /\ IsString(t, <<>>)

\* The text of INFO says keys and values.  The key after a line without a
\* colon has that line in front of it.
InfoSaid(s, leaves) ==
    LET lines == InfoLines(s)
    IN  \A n \in DOMAIN lines : IsPair(lines[n]) =>
          /\ Leaf("s", TextOf(lines[n])) \in leaves
          /\ IF n = 1 \/ IsPair(lines[n - 1]) THEN Leaf("s", KeyOf(lines[n])) \in leaves
             ELSE \E leaf \in leaves : IsSuffix(CRLF \o KeyOf(lines[n]), leaf)

\* The nodes ps of a reply are among the leaves of a document.
Said(verb, t, ps, leaves) ==
    IF IsInfoText(verb, t) THEN InfoSaid(t[<<>>].val, leaves) ELSE LeavesAt(t, ps) \subseteq leaves

Done(format) == served.format = format /\ served.answer.code = 200

\* Every size that is computed before the bytes are written is the number of
\* bytes written: the command hiredis formats (hiredis.c:507), a raw array, a
\* raw string and the strings of an array with their separators, for integers
\* of up to INT_MAX (integer_length); and a JSON document in its callback.
SizesAgree ==
    /\ CommandsFitTheirBuffer
    /\ \A f \in {"json", "raw", "custom"} : Done(f) /\ Fits(served.reply) =>
         Len(served.answer.body.bytes) = served.answer.body.sz

\* A WebSocket message that is a list in JSON, however it is spelled, is the
\* command of its strings and integers, and one that is not JSON is refused
\* (json_ws_extract, load.c).  json.c:494 passes the message's size as the
\* flags of json_loads: the integers of a message whose size has the bit of
\* JSON_DECODE_INT_AS_REAL are lost, one whose size has the bit of
\* JSON_DISABLE_EOF_CHECK may go on after its list, and one whose size has the
\* bit of JSON_ALLOW_NUL may have a NUL in a string.  In the raw protocol the
\* first list of a message is the command, what follows it is dropped, and a
\* list with any other element is refused (raw_ws_extract); a message that
\* ends within its list is not promised anything, as raw.c:60 does not expect
\* it.  Integers are of up to INT_MAX.
MessagesAreCommands ==
    served.format = "message" =>
        LET m == served.message
            size == Len(m.text)
            strings == SelectSeq(m.args, LAMBDA a : ~a.integer)
            Argv(args) == [i \in DOMAIN args |-> args[i].text]
        IN  CASE m.protocol = "raw" /\ m.reads = "list" -> served.cmd = NewCmd(Argv(m.args))
              [] m.protocol = "raw" /\ m.reads = "partial" -> TRUE
              [] m.protocol = "json" /\ m.reads = "list" /\ m.args # <<>> ->
                   IF Has(size, JSON_DECODE_INT_AS_REAL) /\ strings # m.args
                   THEN served.cmd.argv = Argv(strings)
                   ELSE served.cmd = NewCmd(Argv(m.args))
              [] m.reads = "trailing" /\ Has(size, JSON_DISABLE_EOF_CHECK) -> TRUE
              [] m.reads = "nul" /\ Has(size, JSON_ALLOW_NUL) -> TRUE
              [] OTHER -> served.cmd = NoCmd

\* The JSON document of a reply t, as a client reads it.
JsonSays(verb, t, told) ==
    /\ told = json_wrap_redis_reply(verb, t)
    /\ /\ TypesBelow(t) \subseteq {"STRING", "INTEGER", "STATUS", "NIL", "ARRAY"}
       /\ t[<<>>].type \in {"STRING", "INTEGER", "STATUS", "ERROR", "NIL", "ARRAY"}
       /\ \A s \in StringsOf(t) : CStr(s) = s /\ utf8_check_string(s)
       /\ Shape(verb, t)
       => /\ DOMAIN told.is = {<<verb>>}
          /\ Said(verb, t, DOMAIN t \ Replaced(verb, t), JsonLeaves(told))

\* A document says what the reply says, for the replies Redis gives to the
\* verb: the JSON text reads as an object of the verb (json_dumps, json_loads),
\* in which each string and integer of the reply is, text being UTF-8 without
\* NUL, and of the values of one field of a stream's entry the last; and a
\* MessagePack document is one item to its last byte, its headers announcing
\* what follows them, for flat replies.  INFO is the exception: the lines
\* without a colon, which the titles of its sections are, go into the next key,
\* and msgpack.c:88-97 announces a pair for each of them that never comes.
DocumentsAreComplete ==
    /\ Done("json") =>
         LET bytes == served.answer.body.bytes
             text == IF served.jsonp = NoCallback THEN bytes
                     ELSE SubSeq(bytes, Len(served.jsonp) + 2, Len(bytes) - 3)
         IN  JsonSays(served.verb, served.reply, json_loads(text, 0))
    /\ Done("msgpack") =>
         LET t == served.reply
             pk == served.answer.body
         IN  Fits(t) /\ (Flat(t) \/ t[<<>>].type # "ARRAY") /\ Shape(served.verb, t) =>
               /\ PackedEnd(pk, 1) = Len(pk) + 1 + (IF IsInfoText(served.verb, t)
                                                  THEN 2 * Titles(t[<<>>].val) ELSE 0)
               /\ t[<<>>].type \in {"STRING", "INTEGER", "STATUS", "ERROR", "ARRAY"} =>
                    Said(served.verb, t, DOMAIN t, PackedLeaves(pk))
=============================================================================
