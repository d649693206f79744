----------------------------- MODULE HttpParser -----------------------------
(***************************************************************************)
(* The HTTP parser (http-parser/http_parser.c, request side, built with    *)
(* HTTP_PARSER_STRICT) and the callbacks client.c gives it, fed by         *)
(* worker_can_read with whatever read(2) returned.  A request is a         *)
(* sequence of symbols: a symbol is one significant character, or a piece  *)
(* of a word such as a method, a keyword or a value.  Keywords have two    *)
(* pieces, so that a read may end inside of each of them.                  *)
(***************************************************************************)
EXTENDS Integers, SequencesExt

CONSTANTS Scripts,     \* what a client may send: sequences of requests
          MaxHeader,   \* HTTP_MAX_HEADER_SIZE, in symbols
          Websockets   \* cfg->websockets

ASSUME BoundsAssumption == MaxHeader \in Nat /\ Websockets \in BOOLEAN

VARIABLES script,   \* the requests the client sends, in order
          input,    \* symbols not yet read
          parser,   \* struct http_parser
          client,   \* the part of struct http_client the callbacks fill
          served,   \* history: what worker_process_client was given
          halved    \* history: a read has ended inside of a Keep-Alive

vars == <<script, input, parser, client, served, halved>>

CR == "\r"
LF == "\n"
Digits == {"0", "1", "2", "3"}
Value(d) == CASE d = "0" -> 0 [] d = "1" -> 1 [] d = "2" -> 2 [] d = "3" -> 3
NotUrl == {" ", CR, LF, "?", "#"}                   \* normal_url_char
NotToken == {":", "?", "=", "#", CR, LF}            \* tokens; ' ' is one
Letters(ch) == ch \notin NotUrl \cup NotToken \cup Digits \cup {"/", "*", ".", "&", "-"}

(* method_strings and the keywords http_parser_execute looks for.          *)
Methods == {<<"G", "ET">>, <<"P", "OST">>, <<"P", "UT">>, <<"O", "PTIONS">>}
CONNECTION == <<"con", "nection">>
PROXY_CONNECTION == <<"proxy-", "connection">>
CONTENT_LENGTH == <<"con", "tent-length">>
TRANSFER_ENCODING == <<"transfer-", "encoding">>
UPGRADE == <<"up", "grade">>
KEEP_ALIVE == <<"keep-", "alive">>
CLOSE == <<"clo", "se">>
CHUNKED == <<"chun", "ked">>
Names == {CONNECTION, PROXY_CONNECTION, CONTENT_LENGTH, TRANSFER_ENCODING, UPGRADE}
ValuesOf(name) == CASE name \in {CONNECTION, PROXY_CONNECTION} -> {KEEP_ALIVE, CLOSE}
                    [] name = TRANSFER_ENCODING -> {CHUNKED}
                    [] OTHER -> {}

(* What client.c looks for besides.                                        *)
EXPECT == <<"Ex", "pect">>
CONTINUE == <<"100-", "continue">>

(* header_state and index: the pieces matched so far of a name or of a     *)
(* value that means something, or h_general.                               *)
General == [name |-> <<>>, value |-> <<>>]

(* http_parser_init.                                                       *)
NewParser == [state |-> "s_start_req", header |-> General, flags |-> {},
              content_length |-> -1, method |-> <<>>, major |-> 0, minor |-> 0,
              nread |-> 0, upgrade |-> FALSE]

NoRequest == [path |-> <<>>, headers |-> <<>>, body |-> <<>>, type |-> <<>>,
              last_cb |-> "NONE"]

(* http_client_new.                                                        *)
NewClient == NoRequest @@ [keep_alive |-> FALSE, fully_read |-> FALSE,
                           broken |-> FALSE, is_websocket |-> FALSE, error |-> 0,
                           continued |-> 0]

http_should_keep_alive(p) ==
  IF p.major > 0 /\ p.minor > 0 THEN "CLOSE" \notin p.flags
  ELSE "KEEP_ALIVE" \in p.flags

NEW_MESSAGE(p) == IF http_should_keep_alive(p) THEN "s_start_req" ELSE "s_dead"

-----------------------------------------------------------------------------
(* The callbacks of client.c.  z is the state of one call of               *)
(* http_parser_execute: parser z.p, client z.c, the requests served z.s,   *)
(* the marks z.m (the text since each mark, if it is set), and why the     *)
(* call returned early, if it did.                                         *)

on_url(z, text) == [z EXCEPT !.c.path = @ \o text]

(* Mutant: every piece of a name starts a header.                          *)
NameAlwaysNew(z, text) ==
  [z EXCEPT !.c.headers = Append(@, [key |-> text, val |-> <<>>]), !.c.last_cb = "KEY"]

on_header_name(z, text) ==
  LET h == IF z.c.last_cb = "KEY" THEN z.c.headers
           ELSE Append(z.c.headers, [key |-> <<>>, val |-> <<>>])
  IN [z EXCEPT !.c.headers = [h EXCEPT ![Len(h)].key = @ \o text], !.c.last_cb = "KEY"]

(* The value is appended; the values client.c reacts to are noticed only   *)
(* when they came in one piece.  Names are compared over key_sz characters *)
(* only, so that a name cut short passes for the whole.  "continued"       *)
(* counts the responses "100 Continue" written to the descriptor.          *)
on_header_value(z, text) ==
  LET n == Len(z.c.headers)
      key == z.c.headers[n].key
      expect == IsPrefix(key, EXPECT)
      connection == ~expect /\ IsPrefix(key, CONNECTION)
  IN [z EXCEPT !.c.headers[n].val = @ \o text, !.c.last_cb = "VAL",
               !.c.continued = IF expect /\ text = CONTINUE THEN @ + 1 ELSE @,
               !.c.keep_alive = @ \/ (connection /\ text = KEEP_ALIVE)]

(* http_client_on_query_string: the value of "type" in this piece of text. *)
(* Parameters are <<key, "=", value...>> separated by "&".                 *)
on_query_string(z, text) ==
  LET eqs == {i \in 2 .. Len(text) : text[i] = "=" /\ text[i - 1] = "type"
                                       /\ (i = 2 \/ text[i - 2] = "&")}
      end(i) == LET amps == {j \in i .. Len(text) : text[j] = "&"}
                IN IF amps = {} THEN Len(text) ELSE Min(amps) - 1
  IN IF eqs = {} THEN z
     ELSE [z EXCEPT !.c.type = SubSeq(text, Max(eqs) + 1, end(Max(eqs)))]

(* http_client_reset.                                                      *)
http_client_reset(c) == NoRequest @@ [c EXCEPT !.broken = @ \/ ~c.keep_alive]

Request(z) == [method |-> z.p.method, path |-> z.c.path, headers |-> z.c.headers,
               body |-> z.c.body, type |-> z.c.type]

(* http_client_on_message_complete, with worker_process_client (whose work *)
(* is the module Http's) recorded in z.s.                                  *)
on_message_complete(z) ==
  LET close == "CLOSE" \in z.p.flags
      c == [z.c EXCEPT !.keep_alive = IF close THEN FALSE
                                      ELSE @ \/ (z.p.major = 1 /\ z.p.minor = 1),
                       !.fully_read = @ \/ close]
  IN IF z.p.upgrade /\ Websockets THEN [z EXCEPT !.c = [c EXCEPT !.is_websocket = TRUE]]
     ELSE [z EXCEPT !.c = http_client_reset(c), !.s = Append(@, Request(z))]

-----------------------------------------------------------------------------
(* http_parser_execute, one symbol at a time.                              *)

Unset == [set |-> FALSE, text |-> <<>>]
Set == [set |-> TRUE, text |-> <<>>]
Go(z, state) == [z EXCEPT !.p.state = state]
Error(z) == [z EXCEPT !.p.state = "s_dead", !.stop = "error"]
Mark(z, what) == [z EXCEPT !.m[what] = Set]

Callback(z, what, text) ==
  CASE what = "url"    -> on_url(z, text)
    [] what = "query"  -> on_query_string(z, text)
    [] what = "field"  -> on_header_name(z, text)
    [] what = "value"  -> on_header_value(z, text)

(* CALLBACK_NOCLEAR and CALLBACK.                                          *)
Flush(z, what) == IF z.m[what].set THEN Callback(z, what, z.m[what].text) ELSE z
Clear(z, what) == [Flush(z, what) EXCEPT !.m[what] = Unset]

Complete(z) == LET y == on_message_complete(z) IN Go(y, NEW_MESSAGE(y.p))

ReqMethod(z, ch) ==
  IF z.p.state = "s_start_req"
  THEN IF ch \in {CR, LF} THEN z
       ELSE LET y == [z EXCEPT !.p.flags = {}, !.p.content_length = -1, !.p.method = <<ch>>]
            IN IF \E m \in Methods : m[1] = ch THEN Go(y, "s_req_method") ELSE Error(y)
  ELSE IF ch = " " /\ z.p.method \in Methods THEN Go(z, "s_req_spaces_before_url")
  ELSE IF Append(z.p.method, ch) \in Methods THEN [z EXCEPT !.p.method = Append(@, ch)]
  ELSE Error(z)

(* From the spaces before the URL to its path, with or without a host.     *)
ReqHost(z, ch) ==
  CASE z.p.state = "s_req_spaces_before_url" ->
         (CASE ch = " " -> z
            [] ch \in {"/", "*"} -> Go(Mark(z, "url"), "s_req_path")
            [] Letters(ch) -> Go(Mark(z, "url"), "s_req_schema")
            [] OTHER -> Error(z))
    [] z.p.state = "s_req_schema" ->
         (CASE Letters(ch) -> z
            [] ch = ":" -> Go(z, "s_req_schema_slash")
            [] ch \in Digits \cup {"."} -> Go(z, "s_req_host")
            [] OTHER -> Error(z))
    [] z.p.state = "s_req_schema_slash" ->
         IF ch = "/" THEN Go(z, "s_req_schema_slash_slash") ELSE Error(z)
    [] z.p.state = "s_req_schema_slash_slash" ->
         IF ch = "/" THEN Go(z, "s_req_host") ELSE Error(z)
    [] z.p.state \in {"s_req_host", "s_req_port"} ->
         (CASE ch \in Digits -> z
            [] z.p.state = "s_req_host" /\ (Letters(ch) \/ ch \in {".", "-"}) -> z
            [] z.p.state = "s_req_host" /\ ch = ":" -> Go(z, "s_req_port")
            [] ch = "/" -> Go(z, "s_req_path")
            [] ch = " " -> Go(Clear(z, "url"), "s_req_http_start")
            [] OTHER -> Error(z))

(* Where a character of the URL, a '?' and a '#' lead to.                  *)
UrlTable ==
  [s_req_path               |-> <<"s_req_path", "s_req_query_string_start", "s_req_fragment_start">>,
   s_req_query_string_start |-> <<"s_req_query_string", "s_req_query_string_start", "s_req_fragment_start">>,
   s_req_query_string       |-> <<"s_req_query_string", "s_req_query_string", "s_req_fragment_start">>,
   s_req_fragment_start     |-> <<"s_req_fragment", "s_req_fragment", "s_req_fragment_start">>,
   s_req_fragment           |-> <<"s_req_fragment", "s_req_fragment", "s_req_fragment">>]

(* Path, query string and fragment; without a version it is HTTP/0.9.      *)
ReqUrl(z, ch) ==
  LET next == UrlTable[z.p.state]
      done == Clear(Clear(z, "url"), "query")
      old == [done EXCEPT !.p.major = 0, !.p.minor = 9]
  IN CASE ch = " " -> Go(done, "s_req_http_start")
       [] ch = CR -> Go(old, "s_req_line_almost_done")
       [] ch = LF -> Go(old, "s_header_field_start")
       [] ch = "?" -> Go(z, next[2])
       [] ch = "#" -> Go(Clear(z, "query"), next[3])
       [] OTHER -> Go(IF z.p.state = "s_req_query_string_start" THEN Mark(z, "query") ELSE z,
                      next[1])

(* "HTTP/" is two symbols; versions have one digit on each side of the dot. *)
ReqVersion(z, ch) ==
  CASE z.p.state = "s_req_http_start" /\ ch = " " -> z
    [] z.p.state = "s_req_http_start" /\ ch = "HTT" -> Go(z, "s_req_http_HTT")
    [] z.p.state = "s_req_http_HTT" /\ ch = "P/" -> Go(z, "s_req_first_http_major")
    [] z.p.state = "s_req_first_http_major" /\ ch \in Digits \ {"0"} ->
         Go([z EXCEPT !.p.major = Value(ch)], "s_req_http_major")
    [] z.p.state = "s_req_http_major" /\ ch = "." -> Go(z, "s_req_first_http_minor")
    [] z.p.state = "s_req_first_http_minor" /\ ch \in Digits ->
         Go([z EXCEPT !.p.minor = Value(ch)], "s_req_http_minor")
    [] z.p.state = "s_req_http_minor" /\ ch = CR -> Go(z, "s_req_line_almost_done")
    [] z.p.state \in {"s_req_http_minor", "s_req_line_almost_done"} /\ ch = LF ->
         Go(z, "s_header_field_start")
    [] OTHER -> Error(z)

(* One more piece of a name or value: h_general unless it is still one of  *)
(* the keywords, or all of one and a space.                                *)
MatchMore(known, seen, ch) ==
  IF ch = " " /\ seen \in known THEN seen
  ELSE IF \E w \in known : IsPrefix(Append(seen, ch), w) THEN Append(seen, ch)
  ELSE <<>>

HeaderField(z, ch) ==
  IF z.p.state = "s_header_field_start"
  THEN IF ch \in NotToken THEN Error(z)
       ELSE [Go(Mark(z, "field"), "s_header_field")
               EXCEPT !.p.header = [General EXCEPT !.name = MatchMore(Names, <<>>, ch)]]
  ELSE CASE ch = ":" -> Go(Clear(z, "field"), "s_header_value_start")
         [] ch = CR -> Clear(Go(z, "s_header_almost_done"), "field")
         [] ch = LF -> Go(Clear(z, "field"), "s_header_field_start")
         [] ch \in NotToken \ {":", CR, LF} -> Error(z)
         [] OTHER -> IF z.p.header.name = <<>> THEN z   \* h_general
                     ELSE [z EXCEPT !.p.header.name = MatchMore(Names, @, ch)]

(* STRICT_CHECK(ch != LF), then what the header as a whole meant.          *)
HeaderDone(z) ==
  Go([z EXCEPT !.p.flags = @ \cup
        (CASE z.p.header.value = KEEP_ALIVE -> {"KEEP_ALIVE"}
           [] z.p.header.value = CLOSE      -> {"CLOSE"}
           [] z.p.header.value = CHUNKED    -> {"CHUNKED"}
           [] OTHER -> {})],
     "s_header_field_start")

HeaderValueStart(z, ch) ==
  LET y == Go(Mark(z, "value"), "s_header_value")
      name == z.p.header.name
  IN CASE ch = " " -> z
       [] ch = CR -> Go([Clear(y, "value") EXCEPT !.p.header = General], "s_header_almost_done")
       [] ch = LF -> Go(Clear(y, "value"), "s_header_field_start")
       [] name = UPGRADE -> [y EXCEPT !.p.flags = @ \cup {"UPGRADE"}, !.p.header = General]
       [] name = CONTENT_LENGTH ->
            IF ch \in Digits THEN [y EXCEPT !.p.content_length = Value(ch)] ELSE Error(y)
       [] OTHER -> [y EXCEPT !.p.header.value = MatchMore(ValuesOf(name), <<>>, ch)]

HeaderValue(z, ch) ==
  LET name == z.p.header.name
  IN CASE ch = CR -> Go(Clear(z, "value"), "s_header_almost_done")
       [] ch = LF -> HeaderDone(Clear(z, "value"))
       [] name = CONTENT_LENGTH ->
            (CASE ch = " " -> z
               [] ch \in Digits -> [z EXCEPT !.p.content_length = @ * 10 + Value(ch)]
               [] OTHER -> Error(z))
       [] OTHER -> IF z.p.header.value = <<>> THEN z
                   ELSE [z EXCEPT !.p.header.value = MatchMore(ValuesOf(name), @, ch)]

(* The empty line.  An upgrade returns from the function at once, so that  *)
(* parser->state keeps the value it had when the function was called.      *)
HeadersDone(z) ==
  IF "TRAILING" \in z.p.flags THEN Complete(z)
  ELSE LET y == [z EXCEPT !.p.nread = 0, !.p.upgrade = @ \/ "UPGRADE" \in z.p.flags]
       IN CASE y.p.upgrade -> [on_message_complete(y) EXCEPT !.stop = "upgrade"]
            [] ~y.p.upgrade /\ "CHUNKED" \in y.p.flags -> Go(y, "s_chunk_size_start")
            [] ~y.p.upgrade /\ "CHUNKED" \notin y.p.flags /\ y.p.content_length > 0 ->
                 Go(y, "s_body_identity")
            [] OTHER -> Complete(y)

(* Mutant: the last symbol of a body is left for the next request.         *)
BodyShort(z, ch) ==
  LET y == [z EXCEPT !.c.body = Append(@, ch), !.p.content_length = @ - 1]
  IN IF y.p.content_length <= 1 THEN Complete(y) ELSE y

(* s_body_identity; on_body appends, however many symbols it is given.     *)
Body(z, ch) ==
  LET y == [z EXCEPT !.c.body = Append(@, ch), !.p.content_length = @ - 1]
  IN IF y.p.content_length = 0 THEN Complete(y) ELSE y

(* A chunked body; an empty chunk is followed by trailing headers.         *)
Chunk(z, ch) ==
  CASE z.p.state = "s_chunk_size_start" /\ ch \in Digits ->
         Go([z EXCEPT !.p.content_length = Value(ch)], "s_chunk_size")
    [] z.p.state \in {"s_chunk_size", "s_chunk_parameters"} /\ ch = CR ->
         Go(z, "s_chunk_size_almost_done")
    [] z.p.state = "s_chunk_size" /\ ch \in Digits ->
         [z EXCEPT !.p.content_length = @ * 16 + Value(ch)]
    [] z.p.state = "s_chunk_size" /\ ch \in {";", " "} -> Go(z, "s_chunk_parameters")
    [] z.p.state = "s_chunk_parameters" /\ ch # CR -> z
    [] z.p.state = "s_chunk_size_almost_done" /\ ch = LF ->
         IF z.p.content_length = 0
         THEN Go([z EXCEPT !.p.flags = @ \cup {"TRAILING"}], "s_header_field_start")
         ELSE Go(z, "s_chunk_data")
    [] z.p.state = "s_chunk_data" ->
         LET y == [z EXCEPT !.c.body = Append(@, ch), !.p.content_length = @ - 1]
         IN IF y.p.content_length = 0 THEN Go(y, "s_chunk_data_almost_done") ELSE y
    [] z.p.state = "s_chunk_data_almost_done" /\ ch = CR -> Go(z, "s_chunk_data_done")
    [] z.p.state = "s_chunk_data_done" /\ ch = LF -> Go(z, "s_chunk_size_start")
    [] OTHER -> Error(z)

HostStates == {"s_req_spaces_before_url", "s_req_schema", "s_req_schema_slash",
               "s_req_schema_slash_slash", "s_req_host", "s_req_port"}
VersionStates == {"s_req_http_start", "s_req_http_HTT", "s_req_first_http_major",
                  "s_req_http_major", "s_req_first_http_minor", "s_req_http_minor",
                  "s_req_line_almost_done"}
ChunkStates == {"s_chunk_size_start", "s_chunk_size", "s_chunk_parameters",
                "s_chunk_size_almost_done", "s_chunk_data", "s_chunk_data_almost_done",
                "s_chunk_data_done"}
BodyStates == ChunkStates \cup {"s_body_identity"}

Dispatch(z, ch) ==
  CASE z.p.state = "s_dead" -> Error(z)
    [] z.p.state \in {"s_start_req", "s_req_method"} -> ReqMethod(z, ch)
    [] z.p.state \in HostStates -> ReqHost(z, ch)
    [] z.p.state \in DOMAIN UrlTable -> ReqUrl(z, ch)
    [] z.p.state \in VersionStates -> ReqVersion(z, ch)
    [] z.p.state = "s_header_field_start" /\ ch = CR -> Go(z, "s_headers_almost_done")
    [] z.p.state \in {"s_header_field_start", "s_headers_almost_done"} /\ ch = LF -> HeadersDone(z)
    [] z.p.state = "s_header_field_start" /\ ch \notin {CR, LF} -> HeaderField(z, ch)
    [] z.p.state = "s_header_field" -> HeaderField(z, ch)
    [] z.p.state = "s_header_value_start" -> HeaderValueStart(z, ch)
    [] z.p.state = "s_header_value" -> HeaderValue(z, ch)
    [] z.p.state = "s_header_almost_done" /\ ch = LF -> HeaderDone(z)
    [] z.p.state = "s_body_identity" -> Body(z, ch)
    [] z.p.state \in ChunkStates -> Chunk(z, ch)
    [] OTHER -> Error(z)

(* p++: one more symbol parsed, and a part of the text of every mark set.  *)
Past(z, ch) ==
  IF z.stop # "" THEN z
  ELSE [z EXCEPT !.n = @ + 1,
                 !.m = [w \in DOMAIN @ |->
                          IF @[w].set THEN [@[w] EXCEPT !.text = Append(@, ch)] ELSE @[w]]]

(* One iteration of the loop: the limit on headers, the switch, p++.       *)
Step(z, ch) ==
  IF z.stop # "" THEN z
  ELSE IF z.p.state \in BodyStates \/ "TRAILING" \in z.p.flags THEN Past(Dispatch(z, ch), ch)
  ELSE IF z.p.nread >= MaxHeader THEN Error(z)
  ELSE Past(Dispatch([z EXCEPT !.p.nread = @ + 1], ch), ch)

(* The marks set before the loop: the text that the last read cut.         *)
Resumed(state) ==
  [field |-> state = "s_header_field", value |-> state = "s_header_value",
   query |-> state = "s_req_query_string",
   url   |-> state \in DOMAIN UrlTable \cup (HostStates \ {"s_req_spaces_before_url"})]

Loop(data) ==
  FoldLeft(Step, [p |-> parser, c |-> client, s |-> served, n |-> 0, stop |-> "",
                  m |-> [w \in DOMAIN Resumed(parser.state) |->
                           IF Resumed(parser.state)[w] THEN Set ELSE Unset]], data)

(* http_parser_execute on the data of one read: the loop, then what there  *)
(* is of the text under way.  The local copies of state, header_state and  *)
(* nread are not written back on the early returns.                        *)
http_parser_execute(data) ==
  LET z == Loop(data)
      unsaved == [z.p EXCEPT !.header = parser.header, !.nread = parser.nread]
  IN CASE z.stop = "" -> FoldLeft(Flush, z, <<"field", "value", "query", "url">>)
       [] z.stop = "error" -> [z EXCEPT !.p = [unsaved EXCEPT !.state = "s_dead"]]
       [] z.stop = "upgrade" -> [z EXCEPT !.p = [unsaved EXCEPT !.state = parser.state]]

(* What worker_can_read makes of the call: the first that applies.  nparsed *)
(* is z.n, the number of symbols the loop went past.  http_send_error also  *)
(* resets the client, which breaks it unless it is kept alive.              *)
Judge(z, n) ==
  CASE "CLOSE" \in z.p.flags /\ z.c.fully_read -> [z.c EXCEPT !.broken = TRUE]
    [] ~("CLOSE" \in z.p.flags /\ z.c.fully_read) /\ z.c.is_websocket -> z.c
    [] ~("CLOSE" \in z.p.flags /\ z.c.fully_read) /\ ~z.c.is_websocket
         /\ z.n # n -> [http_client_reset(z.c) EXCEPT !.error = 400]
    [] OTHER -> z.c

-----------------------------------------------------------------------------
(* External: how a client writes a request.                                *)

HeaderLine(h) == h.key \o <<":", " ">> \o h.val \o <<CR, LF>>
BodyLines(r) ==
  IF <<TRANSFER_ENCODING, CHUNKED>> \in {<<h.key, h.val>> : h \in ToSet(r.headers)}
  THEN (IF r.body = <<>> THEN <<>>
        ELSE <<IF Len(r.body) = 1 THEN "1" ELSE "2", CR, LF>> \o r.body \o <<CR, LF>>)
         \o <<"0", CR, LF, CR, LF>>
  ELSE r.body
Render(r) ==
  r.method \o <<" ">> \o r.path \o <<" ", "HTT", "P/", "1", ".", r.minor, CR, LF>>
    \o FlattenSeq([i \in DOMAIN r.headers |-> HeaderLine(r.headers[i])])
    \o <<CR, LF>> \o BodyLines(r)

Asks(r, name, value) == \E h \in ToSet(r.headers) : h.key = name /\ h.val = value
Upgrades(r) == \E h \in ToSet(r.headers) : h.key = UPGRADE
AsksEither(r, value) ==
  \E h \in ToSet(r.headers) : h.key \in {CONNECTION, PROXY_CONNECTION} /\ h.val = value
LastOne(r) == IF r.minor = "0" THEN ~AsksEither(r, KEEP_ALIVE) ELSE AsksEither(r, CLOSE)

Init ==
  /\ script \in Scripts
  /\ input = FlattenSeq([i \in DOMAIN script |-> Render(script[i])])
  /\ parser = NewParser
  /\ client = NewClient
  /\ served = <<>>
  /\ halved = FALSE

Open == ~client.broken /\ ~client.is_websocket

(* worker_can_read: http_client_read returned n symbols.  A client that is *)
(* broken is freed and one that is upgraded is not read again by this      *)
(* code; one that was sent a 400 is, if it is kept alive.                  *)
worker_can_read(n) ==
  /\ Open
  /\ \E z \in {http_parser_execute(SubSeq(input, 1, n))} :
        /\ parser' = z.p
        /\ client' = Judge(z, n)
        /\ served' = z.s
        /\ input' = SubSeq(input, n + 1, Len(input))
  /\ halved' = (halved \/ (n < Len(input) /\ SubSeq(input, n, n + 1) = KEEP_ALIVE))
  /\ UNCHANGED script

Done == (input = <<>> \/ ~Open) /\ UNCHANGED vars

Next == (\E n \in 1 .. Len(input) : worker_can_read(n)) \/ Done

Spec == Init /\ [][Next]_vars

-----------------------------------------------------------------------------
(* Properties.                                                             *)

(* The parser's counters and flags stay in range.                          *)
TypeOK ==
  /\ script \in Scripts
  /\ parser.content_length \in -1 .. 100
  /\ parser.nread \in 0 .. MaxHeader
  /\ parser.flags \subseteq {"CLOSE", "KEEP_ALIVE", "CHUNKED", "UPGRADE", "TRAILING"}
  /\ client.error \in {0, 400}

Sent(r) == [method |-> r.method, path |-> r.path, headers |-> r.headers, body |-> r.body]
Got(r) == [method |-> r.method, path |-> r.path, headers |-> r.headers, body |-> r.body]

(* Wherever reads cut the stream, each request handed to                   *)
(* worker_process_client has the method, path, headers and body that were  *)
(* sent, in the order sent: nothing of one leaks into the next.            *)
RequestsAsSent ==
  /\ Len(served) <= Len(script)
  /\ \A i \in 1 .. Len(served) : Got(served[i]) = Sent(script[i])

TooLong(r) == Len(Render(r)) - Len(BodyLines(r)) > MaxHeader

(* The requests a client may expect an answer to: up to the first one that *)
(* closes or upgrades the connection, and none from one that is too long.  *)
Expected ==
  LET last == {i \in DOMAIN script : LastOne(script[i]) \/ Upgrades(script[i])}
                \cup {i - 1 : i \in {j \in DOMAIN script : TooLong(script[j])}}
      n == IF last = {} THEN Len(script) ELSE Min(last)
  IN SubSeq(script, 1, n)

(* The parser keeps the connection for request r and the client may not:   *)
(* client.c must see the Keep-Alive of HTTP/1.0 in one piece, and does not *)
(* know Proxy-Connection.                                                  *)
KeepMissed(r) ==
  r.minor = "0" /\ ~LastOne(r) /\ (halved \/ ~Asks(r, CONNECTION, KEEP_ALIVE))

(* When all of the stream has been read, every request a client may expect *)
(* an answer to was served and none after it, and an upgrade was kept for  *)
(* the WebSocket code.  A client whose Keep-Alive was missed is served at  *)
(* least up to that request; more only if it came in the same read.        *)
EveryRequestServed ==
  input = <<>> \/ ~Open =>
    LET ws == Websockets /\ \E i \in DOMAIN Expected : Upgrades(Expected[i])
        n == Len(served)
    IN \/ /\ client.is_websocket = ws
          /\ n = IF ws THEN Len(Expected) - 1 ELSE Len(Expected)
       \/ client.broken /\ n > 0 /\ KeepMissed(script[n])

(* A header whose name is cut short to "Con" is one client.c takes for     *)
(* Connection, and the parser does not.                                    *)
Abbreviated(r) == \E h \in ToSet(r.headers) : h.key = <<"con">> /\ h.val = KEEP_ALIVE

(* A connection is closed only after a request that asks for it, or one    *)
(* whose Keep-Alive was missed, and it is closed after each that asks;     *)
(* but one of HTTP/1.0, which asks by saying nothing, does not close what  *)
(* an earlier request has kept (keep_alive is not reset).  A stream is     *)
(* called a bad request only where a header passes the limit or where more *)
(* follows the last request: the verdict of on_message_complete agrees     *)
(* with http_should_keep_alive.                                            *)
KeptAsAsked ==
  LET n == Len(served)
      last == n > 0 /\ LastOne(script[n])
  IN /\ client.broken => last \/ \E i \in 1 .. n : KeepMissed(script[i])
     /\ last => \/ client.broken
                \/ script[n].minor = "0" /\ (n > 1 \/ Abbreviated(script[n]))
     /\ client.error # 0 => last \/ TooLong(script[n + 1])

(* No more responses 100 Continue than requests that expect one.           *)
ContinuesAsExpected ==
  client.continued <=
    Len(SelectSeq(script, LAMBDA r : Asks(r, EXPECT, CONTINUE)))

(* However reads cut the stream, the parser and the client agree with what *)
(* was sent: the requests of client.c are the ones of the script, header   *)
(* by header and body by body, and the connection is kept, closed, refused *)
(* or told to continue as those requests ask, except where client.c misses *)
(* a Keep-Alive that http_parser.c sees.                                   *)
StreamIsUnderstood == TypeOK /\ RequestsAsSent /\ KeptAsAsked /\ ContinuesAsExpected
=============================================================================
