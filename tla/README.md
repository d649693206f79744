# Webdis in TLA+

Webdis is an HTTP and WebSocket front end to Redis, written in C on libevent and
hiredis. This directory models it from the socket to the reply: the process and
its threads, the HTTP parser, requests and their commands, access control, the
pool of Redis connections, hiredis under it, the formats of the answers and the
WebSocket connections. TLC checks the models on small instances; TLAPS proves the
main safety results about the pool, requests and their descriptors, the server, the
WebSocket connections, framing, the asynchronous connections of hiredis and its
dictionary for every value of the constants.

Paths below are relative to the repository's `src/`.

## The system and its parts

| Part | State it keeps | Operations | Hard behaviour |
|---|---|---|---|
| Main and server (`webdis.c`, `server.c`) | listening socket, ring of workers, descriptor table | start-up, accept, signals | threads start in any order; pipes fill up |
| Log (`slog.c`) | one descriptor for all threads | write, reopen on SIGHUP | a signal replaces the descriptor in the middle of a write |
| Worker (`worker.c`) | event base, pipe, pool | new client, readable client, dispatch of a request | handlers run to completion in one thread and interleave |
| HTTP parser (`http-parser/`) and its callbacks (`client.c`) | state, header under way, body left | execute on each read | a read ends anywhere; pipelining; upgrade |
| HTTP client (`client.c`) | descriptor, keep-alive, `last_cmd`, `reused_cmd` | read, message complete, reset, end of stream | peers leave with commands in flight; descriptor numbers are reused |
| Command (`cmd.c`) | arguments, descriptor, pointers to client and context | parse the URI, run, send, free | counted in one pass and stored in another; freed by whoever comes first |
| Access control (`acl.c`) and configuration (`conf.c`) | lists read at start-up | read, match | order of entries, masks, environment |
| Pool (`pool.c`) | slots, round-robin index, reconnect timers | connect, connect and disconnect callbacks, timer, look-up | any connection fails at any time; retries |
| hiredis context (`hiredis/async.c`, `adapters/libevent.h`) | three queues of callbacks, dictionaries of subscriptions, output buffer, flags | command, read, write, disconnect, free | replies matched by position; freed from inside callbacks |
| hiredis reader (`hiredis/read.c`) | buffer, stack of tasks | feed, next reply | a read ends anywhere; nesting; limits |
| hiredis dictionary (`hiredis/dict.c`) | buckets, iterator | add, replace, delete, find, iterate | growth, collisions, deletion while iterating |
| Formats (`formats/`) and jansson (`jansson/`) | none | encode a reply, decode a WebSocket message | sizes computed apart from the bytes; integer widths; escapes |
| Response (`http.c`) | bytes, descriptor, keep-alive | scheduled write, immediate write, cleanup | the write happens later than the decision to write |
| WebSocket client (`websocket.c`) | two one-shot events, two buffers, one persistent command, one Redis context | upgrade, read, write, close | events cannot be cancelled; frames cut by reads |

How they interact. The main thread accepts a connection and sends the client's
address through a pipe to a worker. The worker reads, the parser calls back, the
request becomes a command that takes a connection of the pool, or one of its own
for SUBSCRIBE and for a database other than the configured one. hiredis calls the
format function with the command as its argument; that function schedules a
response on the command's descriptor *number* and frees the command. An upgrade
request hands the client over to `websocket.c`, which has a Redis connection of
its own. What makes each part correct:

- server: an accepted client is held by exactly one owner and taken in the end;
  the log has one descriptor, and lines go to it;
- parser: what is served is what was sent, however it was cut;
- command: the arguments are those of the URI and body, and only clients whom the
  rules allow have the command sent;
- pool: slots never hold a freed context, every empty slot is being reconnected,
  a look-up finds a connection when there is one;
- hiredis: each command has its callback run once, in order, before the end;
- formats: a document says what the reply says, in as many bytes as announced;
- HTTP: an answer reaches the connection that asked, every request is answered,
  nothing is freed while something still points to it, no descriptor stays open;
- WebSocket: events never outlive the client, the client never waits for nothing,
  frames are cut right, messages become the commands they say.

## Modules

| Module | Models | With |
|---|---|---|
| `Server` | `server.c`, `webdis.c`, `slog.c`, the threads of `worker.c` | `ServerProofs` |
| `HttpParser` | `http_parser.c` (request side) and the callbacks of `client.c` | `MCHttpParser` |
| `Acl`, `Conf`, `Command` | `acl.c`; `conf.c` on top of it; `cmd.c` and the dispatch of `worker.c` on top of both | `MCCommand` |
| `Pool` | `pool.c`, the start-up of `worker.c` | `PoolProofs` |
| `RedisAsync` | `hiredis/async.c` and its libevent adapter | `MCRedisAsync`, `RedisAsyncProofs` |
| `AsyncLink` | abstract: what a connection promises | implemented by `RedisAsync` |
| `Dict` | `hiredis/dict.c` | `MCDict`, `DictProofs` |
| `DictMap` | abstract: a map with an iterator | implemented by `Dict` |
| `RespFormat`, `RedisReader` | commands as `hiredis.c` writes them; `read.c` and the reply objects | extended by `Formats` |
| `Jansson` | `load.c`, `dump.c`, `utf.c` of jansson | extended by `Formats` |
| `Formats` | `formats/` | `MCFormats` |
| `Http` | `client.c`, `worker.c`, `cmd.c`, `http.c`, `formats/common.c`: lives of objects in one worker | `MCHttp`, `HttpProofs` |
| `WebSocket` | `websocket.c` and the callbacks for one client | `MCWebSocket`, `WebSocketProofs` |
| `WsFrame` | frame headers of `websocket.c`, in bytes | `MCWsFrame`, `WsFrameProofs` |
| `Induction` | no code: induction and recursion over the naturals, for the proofs | |

Definitions carry the names of the C functions; `PROJECT.json` maps each to its
lines. Operators whose comment begins with "Mutant:" are variants of a definition
with a plausible bug in it; they are part of no specification, and each property is
shown to fail when one of them takes the definition's place.

### Server

Descriptors are numbers and `open`, `accept` return the lowest free one, so that a
closed number soon means something else. The threads are the main thread and the
workers; each runs its own steps and a SIGHUP handler (`slog_init`) runs on any of
them, between any two steps, holding it up. A write to the log is two steps: the
load of `s->log.fd` and the `write`. The pipe of a worker holds `PIPE` pointers;
when it is full `worker_add_client` waits in `write`. One SIGHUP is handled at a
time: handlers that overlap on two threads leak or close descriptors, which the
model leaves out. At most `MaxFail` SIGHUPs find that the log cannot be opened; it
is 1 in the runs, and a hypothesis of the theorems (see the deviations).

### HttpParser

A request is a sequence of symbols: one significant character, or a piece of a
word. Every keyword the parser recognises has two pieces, so a read may end inside
it. `http_parser_execute` runs over what one read returned, with the callbacks of
`client.c` as it calls them and `worker_can_read` around it: pipelined requests,
bodies, chunks, the upgrade that stops it, 100 Continue, and errors, after which a
client with keep-alive is read again. `client.c` compares header names by prefix and
wants `Keep-Alive` in one fragment; `halved` is a history variable, TRUE once a read
has cut such a value in two.

### Acl, Conf, Command

One request is one step through `worker_process_client`: the configuration is read
from a JSON file (`conf_read`, with defaults, types and variables of the
environment), the URI is cut (`cmd_run`: the count of arguments first, then the
arguments, the database, the extension), the access rules are applied, and the
outcome recorded. Characters are strings, `%` escapes are decoded, an address has
`ADDR_BITS` bits, and `int` has the width `INT_MAX` gives it. A mask is cut to 16
bits, as by its cast; one of more bits than an address is not among the inputs, the
shift by it being undefined.

### Pool

`ac`, `cur` are the fields of `struct pool`; `timers` counts pending
`pool_reconnect` events; `st` and `data` are what hiredis and webdis keep of each
context (`data` is TRUE when `ac->data` is the pool). `starting` counts the turns
left of the loop in `worker_pool_connect`, which ends before the first event is
dispatched (`EventLoop`). `extra` is a history variable: detached connects that
failed at once. hiredis' part is what `AsyncLink` says: a connection attempt
succeeds or is refused once, an established link is lost once,
`redisAsyncDisconnect` closes at once or after the outstanding replies.

`pool_get_context` is written with the passes of its do/while: `probe(k)` is the
slot looked at in pass `k`, `Passes` the passes made until the loop is back at
`orig`.

### RedisAsync and AsyncLink

One context and the server at the other end. `ac` has the three queues of
callbacks (`replies`, `sub.invalid`, the dictionaries of channels), the output
buffer, the flags and whether hiredis is inside a callback; a libevent handler
(`redisAsyncHandleRead`, `redisAsyncHandleWrite`, connect) is one action, callbacks
included, with what they call (keep, disconnect, free). The connection may be
refused, lost, written in parts, and messages may be published at any time.
Commands are sent in any order, as webdis lets its clients do. hiredis can follow
only some orders (`IsOrderly`): an UNSUBSCRIBE is of known channels, and neither a
second one nor a plain command is sent before its confirmations are in; a MONITOR is
alone on its context; a command names a channel once, and a SUBSCRIBE of several
channels none that is known already. `orderly` is a history variable, TRUE until a
command is sent otherwise; an assertion that fails then ends the process
(`"aborted"`). `ContextIsSound` and `AsyncLink` say what holds always and what only
while `orderly` is TRUE.

`AsyncLink` is a queue of commands with a phase. A `Stray` command ends its account
of the commands, not the promise that connect and disconnect are told once.
`RedisAsync` implements it under the mapping of its bookkeeping variables
(`ImplementsAsyncLink`).

### Dict and DictMap

The table is a sequence of chains; an entry is named by its key. The iterator
keeps `entry` and `nextEntry`, as in the code, and its user may delete the entry
it was given. Allocations may fail. `dictExpand` moves one entry at a time
(`MoveEntry`), in the order of the loops of the code. `DictMap` forgets buckets and
order: `todo` is the set of keys an iteration has still to give.

### RespFormat, RedisReader, Jansson, Formats

Redis writes a script of replies, then perhaps malformed bytes; each read returns
up to `MaxChunk` bytes. The reader's stack, position and buffer are as in `read.c`,
with its limits as constants. A reply is a function from paths to nodes. When it is
complete one format makes a document of it: JSON text, possibly inside a JSONP
callback, the items given to the MessagePack packer, or raw bytes with the size
computed for them. Integers have the widths `LLONG_MAX` and `INT_MAX` give them.

`Jansson` is the JSON text: the bytes of UTF-8, escapes, numbers, the lexer and the
recursive-descent parser with its flags and depth limit. An object is a function,
so the order of its keys is not there. A WebSocket message in JSON goes through
`json_ws_extract` with the flags the code really passes, one in the raw protocol
through `raw_ws_extract`.

### Http

A connection `c` of `Conns` stands for the TCP connection and for its
`http_client`. `owner[f]` says which connection a descriptor number stands for
now; commands and responses only know `f`, as in the code. `req` in a command and
in a response is a ghost: the request it answers. `queue` and `own` are the
callbacks hiredis holds, on a connection of the pool (answered in order) and on
one of the command's own. `writes` is the set of scheduled responses, `monitoring`
the contexts hiredis has told to MONITOR.

Clients send when they like: they wait for an answer or pipeline. Keep-alive is
decided twice, as in the code: by the client when it sees the headers
(`keep_alive_of`) and by the command from the whole header (`cmd_setup`). hiredis may
refuse a command, and puts the callback of a MONITOR back in its queue after it has
run (`callback_done`). The end of a stream and a scheduled write come in either order.

Two history variables name the connections of which the code does not take care:

- `hasty`: closed, or to be closed at the client's own request, with more under way
  than `http_client_read` takes back. It takes back the subscription and the last
  command, not an earlier one and not a scheduled response;
- `stranded`: the client was freed without keep-alive and the last answer does not
  close the descriptor, because it is that of a subscription, because hiredis refused
  the command, or because the command kept alive what the client did not.

The properties say what holds of all other connections, and of these too where
something does. What the model leaves open or fixes:

- a request is complete when it is read (`HttpParser` has its bytes), and each is a
  read of its own: of two in one read the code serves both in one handler. The 400
  for bytes after an HTTP/1.0 request in the same read is in `HttpParser` only.
  `Kinds` and `Connection` are what the code tells apart afterwards;
- writes are whole: a partial write reschedules itself and changes nothing else.
  A write to a peer that is still there succeeds, to a closed descriptor it fails,
  to a peer that has left it may do either;
- a descriptor that a failed write closed under a client still watching it is not
  given to another connection. What libevent does then is outside the model;
- a callback does not run with a freed command: what follows is undefined, so that
  context answers nothing more (`Undefined` in the liveness properties);
- a SUBSCRIBE has its channels in the path;
- `Greeting` says that AUTH or SELECT precedes a command on a new context, as it
  does when a password or a database is configured.

### WebSocket

`ws` is `struct ws_client` together with the state of its Redis context, since one
handler changes both. The handlers are operators from a value of `ws` to the next
(`ws_execute`, `process_frame`, ...), so that `ws_process_read_data` is a loop over
them, and `ws_can_read`, `ws_can_write` are one step each, as in the code.

### WsFrame

A frame is its payload's length. `stream` is what the client sends; `ws_can_read`
takes it in pieces that end at one of `Offsets` from a frame's beginning, in or around
any header in the run and anywhere in the proofs, or at a frame's end. The
reading side of a conforming peer (`client_length`) is external, from RFC 6455.

## Runs

| Run | Instance | Shows |
|---|---|---|
| `pool` | 2 slots, 4 contexts, 1 detached, 1 failed detached connect, fair | slots, timers and connections stay in step; a look-up misses at most one; the pool refills |
| `http_requests` | 2 connections, 2 descriptors, 2 commands, 1 pool context, 2 requests in all, pipelined or not, of all kinds and all forms of keep-alive, fair | no answer goes astray, no freed command in a callback (but two cases), live pointers, no descriptor lost, every request answered, every left connection closed, but for `hasty` and `stranded` connections and requests hiredis does not answer |
| `http_parsing` | 15 scripts of two requests, cut at every symbol | what is served is what was sent; the connection is kept, closed or told to continue as asked, but where `client.c` misses a Keep-Alive |
| `ws_events` | 3 frames of 10 kinds, fair | the one-shot events match the client's life, frames are processed; a close frame goes out, and the client is freed once its peer closes or sends |
| `frame_framing` | 2 frames at the boundaries of the three header forms; 16 lengths sent | framing never slips, lengths survive |
| `server_dispatch` | 2 workers, 3 clients, pipes of one place, 1 SIGHUP, 1 line, fair | each client in one place and shared out in turn, taken in the end; one log descriptor |
| `command_requests` | every URI of up to 5 of 6 characters, some longer; 4 methods; lists of 2 access entries | arguments, database and format as sent; access as documented, but for a subnet `/0` |
| `redis_link` | 9 commands of which any 3 are sent in any order, 1 message, failures at any point, fair | implements `AsyncLink`; agrees with the server on the subscriptions; commands answered, disconnects complete |
| `reply_formats` | replies of every RESP type, alone and in pairs, in chunks of 1 to 3 bytes; 8 verbs, 4 formats; about 4500 WebSocket messages | replies read as written; sizes agree; documents are complete, but for INFO with sections; messages are commands |
| `dict_map` | 4 keys, 2 values, 1 to 4 buckets, failing allocations | the table is sound and implements `DictMap` |

Two runs end in a violation; what they contradict is quoted under `findings` in
`PROJECT.json`:

| Run | What happens |
|---|---|
| `http_crosstalk` | pipelining: an older command keeps the number of the closed descriptor, and the next connection is given it |
| `server_log` | a worker's line is written to a client, after SIGHUP closed the log's descriptor and an accept took the number |

Why the bounds are enough. Two slots are the least with which a look-up can miss
one and find another (the theorems cover every size), and four contexts let every
slot have a successor while a detached one exists. Two connections and two
descriptors give a reuse of a number; two requests (`MaxSent`) give a client an older
command and a newer one, or each client one, and one context puts both in one queue;
`http_crosstalk` has three commands and two contexts.
Three WebSocket frames reach every combination of a pending event, a closing client
and a non-empty buffer. Three clients and pipes of one place make a pipe full while
the other worker's is not. In `redis_link` three commands reach a subscription, its
end, and a second one, a second end or a plain command behind them. Limits of
the code that are large numbers (a stack of 9 tasks, 1024 consumed bytes, 4 initial
buckets, a depth of 2048, the widths of integers) are constants, set so low that the
inputs pass them. Deadlock is not checked where requests, replies or messages are
used up and the model stops; it is in `pool`, `http_parsing`, `redis_link` and
`dict_map`.

## Fairness

Weak fairness, on what the event loop, a thread or a library does by itself. Pool:
the start-up loop, timers, and hiredis' report of each attempt and each loss; nothing
is assumed of Redis (`PoolRefills` has "Redis stays up" as its hypothesis). Http:
readable and writable descriptors are served, and a Redis command is answered or
its connection is dropped, both of which run the callback; no client is assumed to
send, and messages after the confirmation of a subscription are not assumed. Fairness
is of all clients, of all callbacks and of all writes together: what is ready among
each is finite and used up, so no order is assumed among them. Server:
every thread goes on, a pending accept and a readable pipe are served; neither
signals nor clients are assumed. RedisAsync: the attempt to connect ends, the server
answers what has reached it, and the event loop comes to the end of its ready events
again and again (libevent serves all active events of a round before it polls anew,
which is stronger than weak fairness of one handler whose event comes and goes).
WebSocket: readable and writable descriptors and replies. A client is not assumed to
close: `ClosingEnds` says that one that neither closes nor sends after a close frame
keeps its connection, since `ws_close_if_able` waits for a read event when one is
armed.

## Proofs

Every theorem holds for all values of the constants that satisfy the assumptions of
its module, so for any number of clients, descriptors, contexts, frames or keys and
for all bounds. An invariant was checked by TLC on the runs' instances before it was
proved.

### Pool

- `TypeCorrect`, `SlotSafety`, `SlotsDistinct`, from one inductive invariant
  `SlotInv`: type correctness, slots hold live attached contexts (so a context
  still connecting is in no slot, and its callback cannot add it twice), no context
  in two slots, and only detached contexts are closing;
- `LedgerBalances` and `EmptySlotsReconnect`, from `CountInv`, which joins the two
  accounts: attached contexts, timers and openings add up to `Count + extra`, and
  every empty slot has an opening, a timer or an attempt. `CountInv` is inductive
  relative to `SlotInv`, which is needed because a lost context must empty at most one
  slot for the one timer it arms. The cardinality steps are lemmas (`CountedSets`,
  `OpenAttached`, `OpenDetached`);
- `SlotsChangeOnlyByCallback`, an action property, from `SlotInv`;
- `NullIsNearlyEmpty`: when the look-up returns NULL, at most one slot is full. The
  argument is arithmetic: `ProbesCover` shows that the passes reach every slot but
  `orig + 1`.

### Http

No theorem has a hypothesis; the exceptions are in the properties.

- `TypeCorrect`, from `LinkInv`: types, and pointers from a client to a cmd and back
  that lead to what exists;
- `CallbacksAreSafe`, from `FlightInv`: each cmd in flight is in one queue, once, and
  only a subscription is freed by its client, or a cmd by the callback of a context
  that monitors;
- `NoDescriptorLeaks`: what closes a descriptor whose client is gone is in flight or
  scheduled, with that descriptor's number in it;
- `AnswersReachTheirClient`, from `HeldInv`, which holds while `hasty` and `stranded`
  are empty. It says that every descriptor number in a cmd or a response belongs to
  the connection that asked (`OwnFd`), which is still open (`FdsHeld`), and that an
  answer that closes a connection is the only one under way on it (`ClosingAlone`):
  otherwise the others would be written to the next owner of the number;
- `PointersStayLive`, from `LinkInv` and `CmdsHaveClients`: a client is freed with its
  cmd in flight only where that cmd has no keep-alive or its connection becomes
  `hasty` or `stranded`.

The exceptions are needed: TLC finds an answer that goes astray, or a descriptor that
is lost, on a small instance without each of them.

### Server

`LogIsAlwaysShared` (from `LogInv`, `AuthOnce`) and `ClientsAreHandedOver` (from
`ClientInv`, `Ring`, `LogInv`), both when `MaxFail <= 1`. `LogInv` follows the handler
of SIGHUP step by step: which descriptor is open on the log before, between and after
its store and its close. `ClientsAreHandedOver` needs it because the handler closes a
descriptor: that this is never a client's has to be known. `ClientInv` has a client in
the backlog, with the dispatcher, in a pipe or with a worker, once; `Ring` is the
round-robin.

### WebSocket and WsFrame

- `EventsAlwaysMatch`, from `EventsInv`. The handlers are operators on `ws`, so the
  proof is about them: `SendFollows`, `RedisFollows`, `ExecFollows`, `FrameFollows` and
  `ReadFollows` (the loop over the frames, by recursion) say what each may do to the
  events, and one lemma per handler of libevent adds them up;
- `LengthAlwaysSurvives`: the length in a header is read back for every size but
  65536 (`HeaderRoundTrip`), and for 65536 it is 0 (`HeaderWraps`);
- `FramingNeverSlips` and `FramingTyped`, from `FramingInv`: the bytes read are those
  of the frames processed and those in `rbuf` (`Bytes` adds up the frames), and less
  than one frame is left in `rbuf` when the loop ends.

### Dict

- `TableAlwaysSound`, from `DictInv`: no key is stored twice, every entry is in the
  chain of its hash, the size is a power of two times the initial one, `used` is the
  number of keys, and the entry an iterator gave last was in the chain it is at, before
  the one it saved. The last part is what lets the user delete the entry given and no
  other. `ExpandKeeps` is the induction over the entries `dictExpand` moves: those in
  the old table and those in the new one are together the ones there were;
- `TableImplementsMap`: `Spec => ImplementsMap`, the refinement of `DictMap`, one lemma
  per operation. A table is the map of what it stores (`MapOf`), and `todo` is the set
  of keys ahead of the iterator (`RestIs`).

### RedisAsync

`ContextSound` (`ContextIsSound`) and `ImplementsLink` (the refinement of `AsyncLink`),
for commands in any order. The invariant is `AnyInv /\ (orderly => IInv)`. `AnyInv` is
what no order of commands can break: the types of the context, its events, and that
connect and disconnect are told once; one lemma for each function of `async.c` says
that a live context stays apt or is parted with in an orderly way (`Alive`, `Parted`).
`IInv` is about replies. `redisProcessCallbacks` finds the callback of a plain reply
by its position only, so nothing about the context alone is inductive: `IInv` has to
join the context, the replies on their way, the commands on the wire and in `obuf`,
and the server's subscriptions.

- An *expectation* (`Expected`) is what a context waits for: the callbacks of its two
  queues, the channels the server has it subscribed to at that point, and the
  confirmations each channel still gets. `ReplyStep` and `CommandStep` say how a reply
  received, and a command run, change it.
- `Pipeline`: there is a sequence of expectations along the replies and then along the
  commands, each a step from the one before. The first is what the context holds
  (`Matches`), the server's own subscriptions are those of the one where the commands
  begin, and at the end nothing is expected. The last two are what gives
  `SubscriptionsAgree` when nothing is under way, and what makes the assertions hold.
- `MonitorMode` is the other mode: a context with MONITOR gets lines only.
- `Live`, `LinkAgrees` and `Gone` have the flags, the events, the log of callbacks and
  the state of the socket.

Each action changes the pipeline in its own way. Reading drops its front
(`RepliesNormal`, an induction over the replies of one read, with `ReplyNormal` for one
reply; a callback may free the context on the way, and then nothing may wait,
`FreeFields`). Writing moves commands from `obuf` to the wire and leaves it alone. The
server replaces the step of a command by the steps of its replies (`ServeSteps`, one
induction for each kind of confirmation). A command sent adds to every expectation and
takes it away again at the end (`PipelineGrows`, with `GrowsReply`, `GrowsInvalid`,
`GrowsPending`, `GrowsUnsubscribe`; these need `IsOrderly`: what a command adds must not
hinder the replies ahead of it). A lost connection forgets the part of the commands
(`ModeLost`). For the refinement the same lemmas carry `Moved`: the commands told since
are the oldest that waited, in order; `AdvanceMaps` turns this into a step of
`AsyncLink`, and `CommandMaps` shows that a command sent is a new one. Once a command
was sent out of order `AnyInv` alone gives the phases (`AlivePhase`, `PartedPhase`,
`StrayMaps`).

The functions on the context are recursive functions over sequences, so that
`Induction` gives their values (`RunAllSteps`, `ProcessSteps`, `SubscribeSteps`,
`PlainSteps`).

`Induction` derives induction on a set, and the existence of recursively defined
functions, from the well-foundedness of `<`; a property is given as a set instead of an
operator, which the provers can instantiate. The provers know nothing of `2^n`;
`PowerOfTwo` has it count the subsets of `1..n`.

### Assumptions, and what is only model-checked

Assumptions: those named `...Assumption` (and `WsBounds`), which TLC evaluates in every
run, and `MaxFail <= 1` in `ServerProofs`. They say that bounds are numbers, that `NULL` is none of
the values it is told apart from, that `DICT_HT_INITIAL_SIZE` is a power of two, and
that commands on channels name one and have ids of their own.

Only model-checked: all liveness (fairness and ENABLED are out of the prover's reach);
the invariants of `Command`, `RedisReader` and `Formats`, whose models use recursive
operators, which the provers do not accept; those of `HttpParser`, which say what a
fold of the parser's transition function over a whole stream computes, an induction
over data; the two runs that end in a violation.

## Known deviations without a run of their own

What the code does here is in the models, as an exception of a property that passes
or outside the instances of the runs, unless it says "not modelled".

Connections and clients:

- `pool_get_context` advances its index twice before the first look, so one slot is
  never looked at: NULL with one live connection (`pool.c:234`; `NullMeansAtMostOne`
  is what remains true);
- a detached connect that fails at once makes the pool grow by one connection
  beyond `pool_size` (`pool.c:192`; the term `extra` of `ConnectionLedger`);
- a subscriber that leaves before AUTH or SELECT is answered leaves hiredis with a
  freed command (`client.c:295`), and so does a MONITOR, whose callback hiredis puts
  back after it has run (`async.c:521`): the exceptions in `CallbacksHoldLiveCmds`;
- a client without keep-alive is freed while its command points to it
  (`worker.c:110`, `cmd.c:66`; `LinksAreLive` is about commands with keep-alive);
- a subscription that loses its Redis connection is never answered
  (`formats/common.c:54`), nor is an UNSUBSCRIBE, which hiredis refuses
  (`async.c:794`, `cmd.c:302`): `Orphaned` in `EveryRequestAnswered`;
- a subscription without keep-alive leaves its descriptor unwatched
  (`formats/common.c:91`), as does a Keep-Alive header that only the command sees
  (`cmd.c:123`): `stranded`;
- pipelined answers come in any order (`cmd.c:251`);
- a response already scheduled is written to the next owner of its descriptor when
  the end of the stream is read first (`http.c:242`; `hasty`);
- a PUT of SUBSCRIBE with its channel in the body and no Redis leaves
  `client->reused_cmd` pointing to a freed command (`cmd.c:257`; not modelled).

WebSocket:

- a fragment blocks a connection (`websocket.c:500`; the exception in
  `FramesAreProcessed`), and 65536 bytes are announced as 0 (`websocket.c:575`);
- replies are filed under a later command's name, since the persistent command's
  arguments are replaced while replies are on their way (`websocket.c:303`); a
  command is sent on a context that is gone (`websocket.c:297`);
- subscribed to two channels and unsubscribed from one, a client may run ordinary
  commands (`websocket.c:343`; `ran_subscribe` against `chan`);
- a client is freed with a reply under way, whose callback hiredis still runs
  (`websocket.c:122`; `calls` after `ws_client_free`);
- text frames are taken to have opcode 0 and binary ones 1 (`websocket.h:18`; not
  modelled);
- `json_loads` is given the size of the message as its flags (`formats/json.c:494`).
  With bit 8 set in the size, integers are read as reals and then dropped: the
  command loses them, or is refused. With bit 2 set text may follow the list, with
  bit 16 a NUL may be in a string, with bit 1 a repeated key is refused.
  `MessagesAreCommands` says for which sizes a message is read as written;
- `raw_ws_extract` follows a null reply when the message is incomplete, and
  `json_ws_extract` casts integers to `int`.

Server and log:

- SIGHUPs handled on two threads at once leak or close descriptors;
- when the log cannot be opened for a second time the handler closes descriptor 2, to
  which it fell back the first time (`slog.c:36`): an accepted client may be given that
  number, and the next SIGHUP closes it under the client. `HandedOver` fails with
  `MaxFail = 2`;
- the listening socket is set with `F_SETFD` where non-blocking mode is meant, and
  `main` returns success when `socket_setup` fails (not modelled).

Requests, access, configuration:

- `Connection: Keep-Alive` of HTTP/1.0 and `Expect` are noticed only when they
  arrive in one fragment, `Proxy-Connection` by the parser and not by `client.c`, and
  a name such as `Con` by `client.c` and not by the parser (`KeepMissed` and
  `Abbreviated` in `StreamIsUnderstood`); HTTP/1.0 without a header does not close a
  connection that an earlier request kept; a `?type=` value cut by a read is shortened; an upgrade
  with WebSockets disabled serves the request and sends 400 as well; the header
  limit is off by one after a chunked body;
- access rules match by prefix (`acl.c:78`); a subnet `/0` is a full mask
  (`conf.c:304`; the exception in `InSubnet`) and a mask of more than 32 bits is
  undefined;
- a leading `//`, a trailing slash with PUT, PUT without a slash (the body is
  dropped) and a database number beyond `int` give other arguments than one would
  expect; `ArgumentsAsSent` leaves them out; `cmd->filename` is never freed;
- `verbosity`, `log_fsync`, `ssl.enabled` and `keep_alive_sec` cannot be given by a
  variable of the environment.

Formats and hiredis:

- raw output: nil, nested and status elements are left out while the count stays,
  integers in arrays become bulk strings, `integer_length` truncates to `int`;
  The documentation calls it "the raw output of Redis" (`README.md:391`), so no
  property says that a raw document reads back as the reply;
- MessagePack: `msgpack_pack_int` takes an `int`, nested arrays become nil, INFO
  with the titles of its sections announces more pairs than it has (`msgpack.c:88`;
  `Titles` in `DocumentsAreComplete`);
- JSON: elements that are not UTF-8 are dropped, errors inside arrays become null,
  the title of a section of INFO goes into the next key, a field that an entry of a
  stream repeats keeps its last value (`Replaced`);
- a RESP3 push with a nil, a double or a boolean fails an assertion
  (`hiredis.c:250`); two pipelined UNSUBSCRIBE, or a plain command right after one,
  fail assertions of `async.c`; a SUBSCRIBE of several channels gives the count of one
  that is known, or named twice, to the ones behind it, so that they are not forgotten
  when unsubscribed (`async.c:784`); MONITOR with partial reads queues NULL callbacks
  (`IsOrderly`; the runs have these orders, `ContextIsSound` and
  `CommandsAreAnswered` the exceptions);
- `dictReplace` returns 0 when memory runs out, as it does after replacing.

## Not modelled

- HTTP: methods other than webdis' own, responses in the parser, ETags, header
  text, `http_max_request_size`.
- WebSocket: the handshake's digest, masking, opcodes.
- Server: dropping privileges, daemonising, the pid file, `fsync` of the log;
  handlers that are not async-signal-safe.
- hiredis: UNSUBSCRIBE without a channel, timeouts, TLS, RESP3 pushes, the synchronous
  API, `sds.c`, `net.c`.
- jansson: the hash table of objects and their order, indentation, packing and
  unpacking, files, reals too large for a double.
- Running out of memory, but for the dictionary. `md5`, `sha1`, `b64`.

## Plan

1. Done: `Pool` with proofs, `Http`, `WebSocket`, `WsFrame` with proofs.
2. Done: `Server`, `HttpParser`, `Acl`, `Conf`, `Command`, `RedisAsync` with
   `AsyncLink`, `Dict` with `DictMap`, `RedisReader`, `Jansson`, `Formats`.
3. Done: proofs for `Http`, `Server`, `WsFrame`, `WebSocket`, `Dict` and `RedisAsync`
   with their refinements.
4. Done: the theorems of `Http` and `RedisAsync` for clients that pipeline and
   commands in any order.
5. Later: several requests in one read in `Http`; opcodes and masking in `WsFrame`; the order of the parts of a subscription under libevent's
   event lists; ETags.
