----------------------------- MODULE RedisAsync -----------------------------
(***************************************************************************)
(* One redisAsyncContext of hiredis (async.c and its libevent adapter) as  *)
(* webdis drives it, and the Redis server at the other end of its link.    *)
(* "ac" is the context; libevent runs one handler at a time, so a handler  *)
(* is one action.  Memory exhaustion and timeouts (webdis sets none) are   *)
(* left out, as is RESP3, which webdis does not ask for.  A message is a   *)
(* record; channels and patterns have different names, so the two          *)
(* dictionaries of async.c are one function.                               *)
(***************************************************************************)
EXTENDS Integers, SequencesExt, FiniteSets

CONSTANTS Commands,  \* commands webdis may send, each at most once
          NULL,      \* the null pointer
          MaxMsgs,   \* bound: messages published by other clients
          MaxSent    \* bound: commands sent in one life of the context

(* fn is what the callback does with the context: "keep" leaves it alone,  *)
(* "disconnect" calls redisAsyncDisconnect, "free" redisAsyncFree; "null"  *)
(* is a NULL callback, which pool_connect gives to SELECT.                 *)
Channels == UNION {ToSet(m.chans) : m \in Commands}
Kinds == {"plain", "subscribe", "unsubscribe", "monitor"}

Fns == {"keep", "disconnect", "free", "null"}

(* A SUBSCRIBE without a channel is a plain command to hiredis, and an     *)
(* UNSUBSCRIBE of all channels is not modelled.  The id of a command is    *)
(* told apart from the context's own callbacks.                            *)
ASSUME CommandsAssumption ==
  /\ \A m \in Commands : /\ m.kind \in Kinds
                         /\ m.fn \in Fns
                         /\ m.chans \in Seq(Channels)
                         /\ m.kind \in {"subscribe", "unsubscribe"} => m.chans # <<>>
                         /\ m.id \notin {NULL, "onConnect", "onDisconnect"}
  /\ \A m, n \in Commands : m.id = n.id => m = n
ASSUME BoundAssumption == MaxMsgs \in Nat /\ MaxSent \in Nat

VARIABLES ac,       \* the context; ac.log is a history of its callbacks
          issued,   \* the commands redisAsyncCommand was called with
          orderly,  \* history: each of them was sent as IsOrderly says
          link,     \* the socket's fate
          wire,     \* commands on their way to the server
          inbuf,    \* replies on their way to the context
          srvsubs,  \* server: what the connection is subscribed to
          msgs      \* server: messages published so far

vars == <<ac, issued, orderly, link, wire, inbuf, srvsubs, msgs>>

NoCallback == [id |-> NULL, fn |-> "null", pending |-> 0]

(* redisAsyncInitialize, redisLibeventAttach, then the two Set*Callback    *)
(* calls of pool_connect, the first of which asks for the write event.     *)
Init ==
  /\ ac = [life |-> "live", flags |-> {}, err |-> FALSE, obuf |-> <<>>,
           replies |-> <<>>, invalid |-> <<>>, subs |-> <<>>,
           ev |-> {"write"}, log |-> <<>>]
  /\ issued = {}
  /\ orderly = TRUE
  /\ link = "connecting"
  /\ wire = <<>> /\ inbuf = <<>> /\ srvsubs = {} /\ msgs = 0

-----------------------------------------------------------------------------
(* Functions on the context.                                               *)

Log(c, to, what) == [c EXCEPT !.log = Append(@, [to |-> to, got |-> what])]

(* __redisRunCallback.  IN_CALLBACK is up while fn runs, so a disconnect   *)
(* or a free asked for by the callback only leaves its flag behind.        *)
RunCallback(c, cb, reply) ==
  CASE cb.fn = "null"       -> c
    [] cb.fn = "keep"       -> Log(c, cb.id, reply)
    [] cb.fn = "disconnect" ->
         [Log(c, cb.id, reply) EXCEPT !.flags = @ \cup {"DISCONNECTING"}]
    [] cb.fn = "free"       ->
         [Log(c, cb.id, reply) EXCEPT !.flags = @ \cup {"FREEING"}]

RunAllWithNULL(c, cbs) ==
  LET run[i \in 0 .. Len(cbs)] ==
        IF i = 0 THEN c ELSE RunCallback(run[i - 1], cbs[i], NULL)
  IN run[Len(cbs)]

(* Mutant: the callbacks of commands sent while subscribed are dropped.    *)
FreeForgetsInvalid(c) ==
  LET d == RunAllWithNULL(c, c.replies)
  IN [(IF "CONNECTED" \in d.flags THEN Log(d, "onDisconnect", "OK") ELSE d)
        EXCEPT !.life = "freed", !.replies = <<>>, !.invalid = <<>>,
               !.subs = <<>>, !.obuf = <<>>, !.ev = {}]

(* __redisAsyncFree, with redisLibeventCleanup and redisFree.  The order   *)
(* in which dictNext visits the subscriptions is left to SetToSeq.         *)
AsyncFree(c) ==
  LET subscribed == [i \in 1 .. Cardinality(DOMAIN c.subs)
                       |-> c.subs[SetToSeq(DOMAIN c.subs)[i]]]
      d == RunAllWithNULL(c, c.replies \o c.invalid \o subscribed)
      status == IF "FREEING" \in d.flags \/ ~d.err THEN "OK" ELSE "ERR"
  IN [(IF "CONNECTED" \in d.flags THEN Log(d, "onDisconnect", status) ELSE d)
        EXCEPT !.life = "freed", !.replies = <<>>, !.invalid = <<>>,
               !.subs = <<>>, !.obuf = <<>>, !.ev = {}]

(* __redisAsyncDisconnect.  "aborted": an assert() of async.c has failed.  *)
AsyncDisconnect(c) ==
  CASE c.err -> AsyncFree([c EXCEPT !.flags = @ \cup {"DISCONNECTING"}])
    [] ~c.err /\ c.replies = <<>> -> AsyncFree(c)
    [] ~c.err /\ c.replies # <<>> -> [c EXCEPT !.life = "aborted"]

Fail(c) == AsyncDisconnect([c EXCEPT !.err = TRUE])

(* Mutant: an unsubscription is forgotten while a subscribe is on its way. *)
UnsubscribeIgnoresPending(c, r, cb) ==
  IF r.k = "status" THEN [c |-> c, cb |-> cb]
  ELSE IF r.ch \notin DOMAIN c.subs THEN [c |-> c, cb |-> cb]
  ELSE LET old == c.subs[r.ch]
           subs == IF r.k = "unsubscribe"
                   THEN [x \in DOMAIN c.subs \ {r.ch} |-> c.subs[x]]
                   ELSE c.subs
       IN [c |-> [c EXCEPT !.subs = subs,
                           !.flags = IF subs = <<>> THEN @ \ {"SUBSCRIBED"} ELSE @],
           cb |-> old]

(* __redisGetSubscribeCallback: the callback for reply r, or cb unchanged  *)
(* when the channel is unknown.  dictReplace and dictDelete on sub.        *)
GetSubscribeCallback(c, r, cb) ==
  IF r.k = "status"
  THEN IF c.invalid = <<>> THEN [c |-> c, cb |-> cb]
       ELSE [c |-> [c EXCEPT !.invalid = Tail(@)], cb |-> Head(c.invalid)]
  ELSE IF r.ch \notin DOMAIN c.subs THEN [c |-> c, cb |-> cb]
  ELSE LET old == c.subs[r.ch]
           new == [old EXCEPT !.pending = IF r.k = "subscribe" THEN @ - 1 ELSE @]
           subs == IF r.k = "unsubscribe" /\ new.pending = 0
                   THEN [x \in DOMAIN c.subs \ {r.ch} |-> c.subs[x]]
                   ELSE [c.subs EXCEPT ![r.ch] = new]
           last == r.k = "unsubscribe" /\ r.n = 0 /\ DOMAIN subs = {}
       IN [c |-> [c EXCEPT !.subs = subs,
                           !.flags = IF last THEN @ \ {"SUBSCRIBED"} ELSE @],
           cb |-> new]

(* Which callback gets a reply: that of the oldest command still waiting,  *)
(* else that of the subscription.                                          *)
Route(s, r) ==
  IF s.c.replies # <<>>
  THEN [c |-> [s.c EXCEPT !.replies = Tail(@)], cb |-> Head(s.c.replies)]
  ELSE IF "SUBSCRIBED" \in s.c.flags THEN GetSubscribeCallback(s.c, r, s.cb)
  ELSE s

(* One iteration of redisProcessCallbacks that found reply r.  s.cb is the *)
(* local variable "cb", which keeps its value from one reply to the next.  *)
ProcessReply(s, r) ==
  IF s.c.life # "live" THEN s
  ELSE IF s.c.replies = <<>> /\ r.k = "error" THEN [s EXCEPT !.c = Fail(@)]
  ELSE IF s.c.replies = <<>> /\ s.c.flags \cap {"SUBSCRIBED", "MONITORING"} = {}
  THEN [s EXCEPT !.c.life = "aborted"]
  ELSE LET t == Route(s, r)
           d == RunCallback(t.c, t.cb, r)
       IN [c |-> IF "FREEING" \in d.flags /\ t.cb.fn # "null" THEN AsyncFree(d) ELSE d,
           cb |-> t.cb]

(* The loop of redisProcessCallbacks over the replies that were read.      *)
ProcessReplies(c, rs) ==
  LET s[i \in 0 .. Len(rs)] ==
        IF i = 0 THEN [c |-> c, cb |-> NoCallback] ELSE ProcessReply(s[i - 1], rs[i])
  IN s[Len(rs)]

(* redisProcessCallbacks: all the replies read, then reply = NULL.         *)
redisProcessCallbacks(c, rs) ==
  LET s == ProcessReplies(c, rs)
  IN CASE s.c.life # "live" -> s.c
       [] s.c.life = "live" /\ "DISCONNECTING" \in s.c.flags
            /\ s.c.obuf = <<>> /\ s.c.replies = <<>> -> AsyncDisconnect(s.c)
       [] s.c.life = "live" /\ "MONITORING" \in s.c.flags
            /\ ~("DISCONNECTING" \in s.c.flags
                   /\ s.c.obuf = <<>> /\ s.c.replies = <<>>) ->
            [s.c EXCEPT !.replies = Append(@, s.cb)]
       [] OTHER -> s.c

(* __redisAsyncHandleConnect with redisCheckConnectDone's verdict.  The    *)
(* flag is raised after the callback.                                      *)
HandleConnect(c, done) ==
  CASE "CONNECTED" \in c.flags -> c
    [] "CONNECTED" \notin c.flags /\ done = "no" -> c
    [] "CONNECTED" \notin c.flags /\ done = "yes" ->
         [Log(c, "onConnect", "OK") EXCEPT !.flags = @ \cup {"CONNECTED"}]
    [] "CONNECTED" \notin c.flags /\ done = "error" ->
         Fail(Log(c, "onConnect", "ERR"))

Ready(c) == c.life = "live" /\ "CONNECTED" \in c.flags

(* redisAsyncRead: redisBufferRead's result is an error, or the replies    *)
(* completed by what was read (none when it was a part of one).            *)
redisAsyncRead(c, failed, rs) ==
  IF failed THEN Fail(c)
  ELSE redisProcessCallbacks([c EXCEPT !.ev = @ \cup {"read"}], rs)

(* Mutant: after a partial write the write event is not kept.              *)
WriteForgetsRest(c, failed, n) ==
  IF failed THEN Fail(c)
  ELSE [c EXCEPT !.obuf = SubSeq(@, n + 1, Len(@)), !.ev = {"read"}]

(* redisAsyncWrite: redisBufferWrite failed, or sent n commands.           *)
redisAsyncWrite(c, failed, n) ==
  IF failed THEN Fail(c)
  ELSE [c EXCEPT !.obuf = SubSeq(@, n + 1, Len(@)),
                 !.ev = IF n = Len(c.obuf) THEN {"read"} ELSE {"read", "write"}]

-----------------------------------------------------------------------------
(* The events of the socket.                                               *)

Readable == inbuf # <<>> \/ link \in {"refused", "lost"}
Writable == link # "connecting"

(* What connect() may say of the socket when it is asked again.            *)
ConnectDone ==
  IF "CONNECTED" \in ac.flags THEN {"yes"}
  ELSE CASE link = "connecting" -> {"no"}
         [] link = "up"         -> {"yes"}
         [] link = "refused"    -> {"error"}
         [] link = "lost"       -> {"yes", "error"}

(* redisNetClose: what is still on its way is dropped.                     *)
Closed == link' = "lost" /\ wire' = <<>> /\ inbuf' = <<>>

(* Results of redisBufferRead: -1 is an error or the end of the file, n    *)
(* the number of replies completed by the bytes read; and of               *)
(* redisBufferWrite: -1 an error, n the commands sent.                     *)
Failures == IF link = "lost" THEN {-1} ELSE {}
ReadResults == IF link = "lost" /\ inbuf = <<>> THEN {-1}
               ELSE (0 .. Len(inbuf)) \cup Failures
WriteResults(c) == (0 .. Len(c.obuf)) \cup Failures

(* redisLibeventHandler: redisAsyncHandleRead when the read event fired,   *)
(* then redisAsyncHandleWrite unless the adapter was marked deleted.       *)
redisLibeventHandler(what) ==
  /\ ac.life = "live"
  /\ what # {} /\ what \subseteq ac.ev
  /\ "read" \in what => Readable
  /\ "write" \in what => Writable
  /\ \E c0 \in {HandleConnect(ac, done) : done \in ConnectDone} :
     \E n \in IF "read" \in what /\ Ready(c0) THEN ReadResults ELSE {0} :
     \E c1 \in {IF "read" \in what /\ Ready(c0)
                THEN redisAsyncRead(c0, n = -1, SubSeq(inbuf, 1, n)) ELSE c0} :
     \E w \in IF "write" \in what /\ Ready(c1) THEN WriteResults(c1) ELSE {0} :
     \E c2 \in {IF "write" \in what /\ Ready(c1)
                THEN redisAsyncWrite(c1, w = -1, w) ELSE c1} :
       /\ ac' = c2
       /\ Len(c2.replies) <= MaxSent  \* bounds what MONITOR pushes again
       /\ IF c2.life # "live" THEN Closed
          ELSE /\ inbuf' = SubSeq(inbuf, n + 1, Len(inbuf))
               /\ wire' = IF link = "lost" THEN <<>> ELSE wire \o SubSeq(c1.obuf, 1, w)
               /\ UNCHANGED link
  /\ UNCHANGED <<issued, orderly, srvsubs, msgs>>

-----------------------------------------------------------------------------
(* What webdis asks for outside of callbacks.                              *)

Unanswered == ToSet(ac.obuf) \cup ToSet(wire)
UnsubscribeAwaited ==
  \/ \E m \in Unanswered : m.kind = "unsubscribe"
  \/ \E r \in ToSet(inbuf) : r.k = "unsubscribe"

(* The orders of commands that hiredis can follow; webdis does not keep    *)
(* its clients to them.  Replies are matched by position, and the          *)
(* confirmation of an UNSUBSCRIBE, or the output of MONITOR, has no        *)
(* position in "replies".  A SUBSCRIBE that names a channel again gives    *)
(* its count to the channels behind it.                                    *)
IsOrderly(m) ==
  /\ m.kind \in {"subscribe", "unsubscribe"} => IsInjective(m.chans)
  /\ m.kind = "unsubscribe" =>
       ToSet(m.chans) \subseteq DOMAIN ac.subs /\ ~UnsubscribeAwaited
  /\ m.kind = "plain" => ~UnsubscribeAwaited
  /\ m.kind = "subscribe" =>
       Len(m.chans) = 1 \/ ToSet(m.chans) \cap DOMAIN ac.subs = {}
  /\ m.kind = "monitor" => issued = {}
  /\ \A i \in issued : i.kind # "monitor"

(* The loop of __redisAsyncCommand over the channels of a SUBSCRIBE; one   *)
(* cb serves them all, and keeps a count it took from an earlier channel.  *)
AddSubscription(s, ch) ==
  LET cb == IF ch \in DOMAIN s.subs
            THEN [s.cb EXCEPT !.pending = s.subs[ch].pending + 1] ELSE s.cb
  IN [cb |-> cb,
      subs |-> [x \in DOMAIN s.subs \cup {ch} |-> IF x = ch THEN cb ELSE s.subs[x]]]

AddSubscriptions(subs, cb, chans) ==
  LET s[i \in 0 .. Len(chans)] ==
        IF i = 0 THEN [cb |-> cb, subs |-> subs] ELSE AddSubscription(s[i - 1], chans[i])
  IN s[Len(chans)].subs

(* __redisAsyncCommand up to the append: where the callback is kept.       *)
Register(c, m) ==
  LET cb == [id |-> m.id, fn |-> m.fn, pending |-> 1]
  IN CASE m.kind = "subscribe" ->
            [c EXCEPT !.flags = @ \cup {"SUBSCRIBED"},
                      !.subs = AddSubscriptions(@, cb, m.chans)]
       [] m.kind = "unsubscribe" -> c
       [] m.kind = "monitor" -> [c EXCEPT !.flags = @ \cup {"MONITORING"},
                                          !.replies = Append(@, cb)]
       [] m.kind = "plain" /\ "SUBSCRIBED" \in c.flags ->
            [c EXCEPT !.invalid = Append(@, cb)]
       [] m.kind = "plain" /\ "SUBSCRIBED" \notin c.flags ->
            [c EXCEPT !.replies = Append(@, cb)]

(* __redisAsyncCommand returns REDIS_OK.                                   *)
Accepts(c, m) ==
  /\ c.flags \cap {"DISCONNECTING", "FREEING"} = {}
  /\ m.kind = "unsubscribe" => "SUBSCRIBED" \in c.flags

redisAsyncCommand(m) ==
  /\ ac.life = "live"
  /\ m \notin issued /\ Cardinality(issued) < MaxSent
  /\ Accepts(ac, m)
  /\ issued' = issued \cup {m}
  /\ orderly' = (orderly /\ IsOrderly(m))
  /\ ac' = [Register(ac, m) EXCEPT !.obuf = Append(@, m), !.ev = @ \cup {"write"}]
  /\ UNCHANGED <<link, wire, inbuf, srvsubs, msgs>>

(* redisAsyncDisconnect outside of a callback.                             *)
redisAsyncDisconnect ==
  /\ ac.life = "live"
  /\ "DISCONNECTING" \notin ac.flags
  /\ LET c == [ac EXCEPT !.flags = @ \cup {"DISCONNECTING"}]
     IN IF c.replies = <<>> THEN ac' = AsyncDisconnect(c) /\ Closed
        ELSE ac' = c /\ UNCHANGED <<link, wire, inbuf>>
  /\ UNCHANGED <<issued, orderly, srvsubs, msgs>>

(* redisAsyncFree outside of a callback.                                   *)
redisAsyncFree ==
  /\ ac.life = "live"
  /\ ac' = AsyncFree([ac EXCEPT !.flags = @ \cup {"FREEING"}])
  /\ Closed
  /\ UNCHANGED <<issued, orderly, srvsubs, msgs>>

-----------------------------------------------------------------------------
(* External: the network and the Redis server.                             *)

(* The connection is made, refused, or made to a server that has reached   *)
(* its limit of clients, says so and closes.                               *)
Connect ==
  /\ link = "connecting"
  /\ ac.life = "live"
  /\ \/ link' \in {"up", "refused"} /\ UNCHANGED inbuf
     \/ link' = "lost" /\ inbuf' = <<[k |-> "error", id |-> NULL]>>
  /\ UNCHANGED <<ac, issued, orderly, wire, srvsubs, msgs>>

(* The connection breaks; replies not yet received may be lost.            *)
Lose ==
  /\ link = "up"
  /\ link' = "lost" /\ wire' = <<>>
  /\ \E n \in 0 .. Len(inbuf) : inbuf' = SubSeq(inbuf, 1, n)
  /\ UNCHANGED <<ac, issued, orderly, srvsubs, msgs>>

Confirmations(m, before) ==
  [i \in 1 .. Len(m.chans) |->
     LET done == {m.chans[j] : j \in 1 .. i}
         now == IF m.kind = "subscribe" THEN before \cup done ELSE before \ done
     IN [k |-> m.kind, ch |-> m.chans[i], n |-> Cardinality(now)]]

(* The server runs a command.  A connection that is subscribed may only    *)
(* change its subscriptions.                                               *)
Serve ==
  /\ link = "up"
  /\ wire # <<>>
  /\ LET m == Head(wire)
     IN /\ wire' = Tail(wire)
        /\ inbuf' = inbuf \o
             (IF m.kind \in {"subscribe", "unsubscribe"} THEN Confirmations(m, srvsubs)
              ELSE IF srvsubs # {} THEN <<[k |-> "error", id |-> m.id]>>
              ELSE <<[k |-> "status", id |-> m.id]>>)
        /\ srvsubs' = CASE m.kind = "subscribe"   -> srvsubs \cup ToSet(m.chans)
                        [] m.kind = "unsubscribe" -> srvsubs \ ToSet(m.chans)
                        [] OTHER -> srvsubs
  /\ UNCHANGED <<ac, issued, orderly, link, msgs>>

Monitored == \E m \in issued : m.kind = "monitor" /\ m \notin Unanswered

(* Another client publishes, or a line of MONITOR is printed.              *)
Publish ==
  /\ link = "up"
  /\ msgs < MaxMsgs
  /\ msgs' = msgs + 1
  /\ \/ \E ch \in srvsubs : inbuf' = Append(inbuf, [k |-> "message", ch |-> ch])
     \/ /\ Monitored
        /\ inbuf' = Append(inbuf, [k |-> "status", id |-> "line"])
  /\ UNCHANGED <<ac, issued, orderly, link, wire, srvsubs>>

Done == ac.life # "live" /\ UNCHANGED vars

Handle == \E what \in SUBSET {"read", "write"} : redisLibeventHandler(what)

Next ==
  \/ Handle
  \/ \E m \in Commands : redisAsyncCommand(m)
  \/ redisAsyncDisconnect
  \/ redisAsyncFree
  \/ Connect
  \/ Lose
  \/ Serve
  \/ Publish
  \/ Done

ReadyEvents == {e \in ac.ev : CASE e = "read" -> Readable [] e = "write" -> Writable}

(* The network and the server answer in the end.  event_base_dispatch runs *)
(* the handler of an event for as long as it is ready, and the kernel does *)
(* not refuse bytes for ever: an event does not stay ready without end.    *)
(* Handle can always bring that about, by reading and writing all there is.*)
Fairness ==
  /\ WF_vars(Connect)
  /\ WF_vars(Serve)
  /\ []<>(ac.life # "live" \/ ReadyEvents = {})

Spec == Init /\ [][Next]_vars /\ Fairness

-----------------------------------------------------------------------------
(* Properties.                                                             *)

Logged(id) == {i \in 1 .. Len(ac.log) : ac.log[i].to = id}
Sent(kind) == {m \in issued : m.kind = kind}

Ids == {m.id : m \in Commands}
Callback == [id : Ids \cup {NULL}, fn : Fns, pending : Int]

(* The fields of the context and the far end hold what the code puts in    *)
(* them; a freed context is watched by no event (redisLibeventCleanup).    *)
TypeOK ==
  /\ ac.life \in {"live", "freed", "aborted"}
  /\ ac.flags \subseteq {"CONNECTED", "DISCONNECTING", "FREEING", "SUBSCRIBED", "MONITORING"}
  /\ ac.obuf \in Seq(Commands) /\ wire \in Seq(Commands)
  /\ ac.replies \in Seq(Callback) /\ ac.invalid \in Seq(Callback)
  /\ DOMAIN ac.subs \subseteq Channels /\ \A ch \in DOMAIN ac.subs : ac.subs[ch] \in Callback
  /\ ac.ev \subseteq {"read", "write"}
  /\ ac.life = "freed" => ac.ev = {}
  /\ link \in {"connecting", "up", "refused", "lost"}
  /\ srvsubs \subseteq Channels /\ issued \subseteq Commands /\ msgs \in 0 .. MaxMsgs

(* A reply handed to a callback is the reply to that callback's command,   *)
(* or a message or confirmation of a channel that command subscribed to:   *)
(* redisProcessCallbacks finds the callback by position only.              *)
RepliesReachTheirCommand ==
  \A i \in 1 .. Len(ac.log), m \in issued :
    LET e == ac.log[i]
    IN e.to = m.id /\ e.got # NULL =>
         CASE m.kind = "plain"     -> e.got.k \in {"status", "error"} /\ e.got.id \in {m.id, NULL}
           [] m.kind = "subscribe" -> e.got.k \in {"subscribe", "unsubscribe", "message"}
                                        /\ e.got.ch \in ToSet(m.chans)
           [] m.kind = "monitor"   -> e.got.k \in {"status", "error"}
           [] OTHER -> FALSE

(* The asserts of async.c hold: a clean disconnect leaves no callback      *)
(* waiting, and a reply nobody waits for only comes to a context that is   *)
(* subscribed or monitoring (redisProcessCallbacks, __redisAsyncDisconnect).*)
AssertsHold == ac.life # "aborted"

(* When nothing is under way on a connected link, the context knows the    *)
(* channels the server has it subscribed to, no more and no fewer, counts  *)
(* no confirmation as missing, and is in subscribed mode exactly then.     *)
SubscriptionsAgree ==
  ac.life = "live" /\ link = "up" /\ ac.obuf = <<>> /\ wire = <<>> /\ inbuf = <<>> =>
    /\ DOMAIN ac.subs = srvsubs
    /\ \A ch \in DOMAIN ac.subs : ac.subs[ch].pending = 0
    /\ "SUBSCRIBED" \in ac.flags <=> srvsubs # {}

(* Output that waits is watched: a connected context with bytes in obuf    *)
(* has the write event, and every context whose replies are awaited has    *)
(* the read event or is about to (redisAsyncWrite, _EL_ADD_WRITE).         *)
WorkIsWatched ==
  ac.life = "live" =>
    /\ ac.obuf # <<>> => "write" \in ac.ev
    /\ "CONNECTED" \notin ac.flags => "write" \in ac.ev
    /\ wire # <<>> \/ inbuf # <<>> => ac.ev # {}

(* The context is sound at every return to the event loop: its fields have *)
(* their types and work that waits is watched, whatever webdis sends.      *)
(* While the commands sent are in an order hiredis can follow,             *)
(* redisProcessCallbacks has given every reply to the command it answers,  *)
(* no assert of async.c has failed, and the context and the server agree   *)
(* on the subscriptions.                                                   *)
ContextIsSound ==
  /\ TypeOK
  /\ WorkIsWatched
  /\ orderly => /\ RepliesReachTheirCommand
                /\ AssertsHold
                /\ SubscriptionsAgree

PhaseOfLink ==
  CASE ac.life = "aborted" -> "aborted"
    [] ac.life # "aborted" /\ Logged("onDisconnect") # {} -> "gone"
    [] ac.life = "live" /\ Logged("onDisconnect") = {} ->
         IF Logged("onConnect") = {} THEN "connecting" ELSE "connected"
    [] OTHER -> IF Logged("onConnect") = {} THEN "dropped" ELSE "failed"

PlainIds == {m.id : m \in {n \in Commands : n.kind = "plain" /\ n.fn # "null"}}
IdsOf(s) == [i \in 1 .. Len(s) |-> s[i].id]
WithPlain(s, id) == IF id \in PlainIds THEN Append(s, id) ELSE s
PlainOnly(s) ==
  LET kept[i \in 0 .. Len(s)] ==
        IF i = 0 THEN <<>> ELSE WithPlain(kept[i - 1], s[i])
  IN kept[Len(s)]
WaitingIds == IF orderly THEN PlainOnly(IdsOf(ac.replies \o ac.invalid)) ELSE <<>>
AnsweredIds == IF orderly THEN PlainOnly([i \in 1 .. Len(ac.log) |-> ac.log[i].to]) ELSE <<>>

Link == INSTANCE AsyncLink WITH Ids <- PlainIds, phase <- PhaseOfLink, orderly <- orderly,
                                waiting <- WaitingIds, answered <- AnsweredIds

(* The context is an AsyncLink: connect is told once, disconnect once and  *)
(* last, whatever is sent; and while it is sent in order the callback of   *)
(* every command taken runs once and in order, whatever is lost, closed or *)
(* freed, from a callback or from outside.                                 *)
ImplementsAsyncLink == Link!Spec

(* Every command taken has its callback run.  Two things can come between, *)
(* both after a command sent out of order: an assert of async.c fails, or  *)
(* the callback of a MONITOR, which redisProcessCallbacks always puts back *)
(* in "replies", takes the answer to a command that waits in "invalid".    *)
CommandsAreAnswered ==
  \A id \in PlainIds :
    (\E m \in issued : m.id = id) ~>
      \/ Logged(id) # {}
      \/ ~orderly /\ (ac.life = "aborted" \/ "MONITORING" \in ac.flags)

(* redisAsyncDisconnect ends: once no new command is taken, the context is *)
(* freed when the last reply is in.  A monitoring context has no last one. *)
DisconnectCompletes ==
  ("DISCONNECTING" \in ac.flags /\ "MONITORING" \notin ac.flags) ~> ac.life # "live"
=============================================================================
