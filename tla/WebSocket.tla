----------------------------- MODULE WebSocket ------------------------------
(***************************************************************************)
(* One WebSocket client (src/websocket.c): the two one-shot libevent       *)
(* events it arms, its buffers, its single persistent cmd and its own      *)
(* connection to Redis.  "ws" holds the fields of struct ws_client and,    *)
(* with them, what hiredis keeps for ws->ac, since one handler changes     *)
(* both; each handler is one action.  A frame is [op, arg]: its bytes are  *)
(* the subject of WsFrame.                                                 *)
(***************************************************************************)
EXTENDS Integers, Sequences, FiniteSets

CONSTANTS Frames,     \* frames the client may send
          MaxFrames,  \* bound: frames per connection
          MaxMsg,     \* bound: messages published to its channels
          NULL

ASSUME WsBounds == MaxFrames \in Nat /\ MaxMsg \in Nat

(* "cmd": a command it may run; "denied": one the ACL refuses; "bad": no   *)
(* command can be extracted; "other": a type the code does not expect;     *)
(* "nomask": an unmasked frame; "part": complete, but without the FIN bit. *)
Ops == {"cmd", "denied", "sub", "unsub", "bad", "ping", "close", "other",
        "nomask", "part"}

ASSUME FramesAssumption == \A f \in Frames : f.op \in Ops

VARIABLES ws,     \* struct ws_client and the state of ws->ac
          peer,   \* "open" or "gone"
          inbox,  \* frames on their way to the server
          sent,   \* number of frames the client has sent
          msgs    \* number of messages published so far

vars == <<ws, peer, inbox, sent, msgs>>

(* phase: "http" before the upgrade, "ws" while struct ws_client exists,   *)
(* "freed" after ws_client_free.  ac: ws->ac, "dead" when hiredis has      *)
(* freed what it points to.  calls: the commands whose callback hiredis    *)
(* holds with ws->cmd; chan: the channels subscribed to.                   *)
TypeOK ==
  /\ ws \in [phase : {"http", "ws", "freed"}, scheduled_read : BOOLEAN,
             scheduled_write : BOOLEAN, close_after_events : BOOLEAN,
             ran_subscribe : BOOLEAN, cmd : Frames \cup {NULL},
             ac : {"live", "null", "dead"}, rbuf : Seq(Frames),
             wbuf : Seq({"handshake", "reply", "error", "message", "pong", "close"}),
             calls : Seq(Frames), chan : SUBSET {f.arg : f \in Frames},
             state : {"reading", "error"}]
  /\ peer \in {"open", "gone"}
  /\ inbox \in Seq(Frames)
  /\ sent \in 0 .. MaxFrames
  /\ msgs \in 0 .. MaxMsg

Init ==
  /\ ws \in [phase : {"http"}, scheduled_read : {FALSE}, scheduled_write : {FALSE},
             close_after_events : {FALSE}, ran_subscribe : {FALSE}, cmd : {NULL},
             ac : {"null"}, rbuf : {<<>>}, wbuf : {<<>>}, calls : {<<>>},
             chan : {{}}, state : {"reading"}]
  /\ peer = "open"
  /\ inbox = <<>>
  /\ sent = 0
  /\ msgs = 0

Alive == ws.phase = "ws"

-----------------------------------------------------------------------------
(* Operators from a state s of the client to the next one                  *)

ws_schedule_write(s) == [s EXCEPT !.scheduled_write = TRUE]

(* Mutant: the frame is added to wbuf and no write is scheduled.           *)
AddOnly(s, op) == [s EXCEPT !.wbuf = Append(@, op)]

(* The frame is appended to wbuf and a write scheduled.                    *)
ws_frame_and_send_response(s, op) ==
  ws_schedule_write([s EXCEPT !.wbuf = Append(@, op)])

(* ws_client_free.  redisAsyncDisconnect closes the context at once when   *)
(* no reply is awaited (subscriptions get a NULL reply, which              *)
(* format_send_error ignores since the client is closing); otherwise       *)
(* hiredis keeps it, and the callbacks, until the replies are in.  (The    *)
(* pointer is only compared with NULL, so a dead context is used here too; *)
(* what that does to other memory is not modelled.)                        *)
ws_client_free(s) ==
  [s EXCEPT !.phase = "freed", !.close_after_events = TRUE, !.chan = {},
            !.rbuf = <<>>, !.wbuf = <<>>, !.cmd = NULL]

(* Mutant: a pending write is not waited for.                              *)
CloseAnyway(s) ==
  IF s.scheduled_read
    THEN [s EXCEPT !.close_after_events = TRUE]
    ELSE ws_client_free(s)

(* Mutant: that the client is to be closed is noted, and nothing is freed. *)
NoteOnly(s) == [s EXCEPT !.close_after_events = TRUE]

(* ws_close_if_able: only when no event holds the client.                  *)
ws_close_if_able(s) ==
  IF s.scheduled_read \/ s.scheduled_write
    THEN [s EXCEPT !.close_after_events = TRUE]
    ELSE ws_client_free(s)

(* Mutant: the client is not watched after a read.                         *)
NoMonitor(s) == s

ws_monitor_input(s) == [s EXCEPT !.scheduled_read = TRUE]

(* cmd_send on ws->ac.  SUBSCRIBE and UNSUBSCRIBE await no reply of their  *)
(* own, nor does hiredis file a command sent while subscribed as one.      *)
cmd_send(s, f) ==
  IF s.ac # "live" THEN s
  ELSE CASE f.op = "sub" -> [s EXCEPT !.chan = @ \cup {f.arg}]
         [] f.op = "unsub" -> [s EXCEPT !.chan = @ \ {f.arg}]
         [] OTHER -> IF s.chan = {} THEN [s EXCEPT !.calls = Append(@, f)] ELSE s

(* ws_execute for a frame that holds a command: the persistent cmd takes   *)
(* its arguments before anything is checked.                               *)
ws_execute(s, f) ==
  LET t == [s EXCEPT !.cmd = f]
  IN IF f.op = "denied" \/ (s.ran_subscribe /\ f.op = "cmd")
       THEN ws_frame_and_send_response(t, "error")
       ELSE [cmd_send(t, f) EXCEPT !.ran_subscribe = (f.op = "sub")]

(* One turn of the loop of ws_process_read_data, ws_peek_data included:    *)
(* what becomes of the first frame of rbuf.                                *)
process_frame(s, f) ==
  LET t == [s EXCEPT !.rbuf = Tail(@)]
  IN CASE f.op \in {"cmd", "denied", "sub", "unsub"} -> ws_execute(t, f)
       [] f.op = "bad" -> [t EXCEPT !.state = "error"]
       [] f.op = "ping" -> ws_frame_and_send_response(t, "pong")
       [] f.op = "close" ->
            ws_frame_and_send_response([t EXCEPT !.close_after_events = TRUE], "close")
       [] f.op = "other" -> t
       [] f.op = "nomask" ->
            ws_frame_and_send_response(
              [s EXCEPT !.close_after_events = TRUE, !.state = "error"], "close")
       [] f.op = "part" -> s

(* ws_process_read_data: until rbuf has no complete message or an error    *)
(* stops it.  A frame without FIN is left in rbuf, in front of the rest.   *)
ws_process_read_data(s) ==
  LET run[i \in 0 .. Len(s.rbuf)] ==
        IF i = 0 THEN [s EXCEPT !.state = "reading"]
        ELSE LET p == run[i - 1]
             IN IF p.rbuf = <<>> \/ p.state = "error" THEN p
                ELSE process_frame(p, Head(p.rbuf))
  IN run[Len(s.rbuf)]

-----------------------------------------------------------------------------
(* ws_client_new: pool_connect may fail at once, and returns NULL then.    *)
ws_client_new(ac) == [ws EXCEPT !.phase = "ws", !.ac = ac]

(* ws_handshake_reply when all it needs is there.                          *)
ws_handshake_reply(s) ==
  ws_schedule_write([s EXCEPT !.wbuf = <<"handshake">>])

(* worker_can_read on an upgrade request.  When headers are missing the    *)
(* client is freed again.                                                  *)
upgrade ==
  /\ ws.phase = "http"
  /\ \E ac \in {"live", "null"} :
       ws' \in {ws_handshake_reply(ws_client_new(ac)),
               ws_close_if_able(ws_client_new(ac))}
  /\ UNCHANGED <<peer, inbox, sent, msgs>>

peer_sends ==
  /\ Alive
  /\ peer = "open"
  /\ sent < MaxFrames
  /\ \E f \in Frames : inbox' = Append(inbox, f)
  /\ sent' = sent + 1
  /\ UNCHANGED <<ws, peer, msgs>>

peer_closes ==
  /\ Alive
  /\ peer = "open"
  /\ peer' = "gone"
  /\ UNCHANGED <<ws, inbox, sent, msgs>>

(* ws_can_read: the bytes of one or more frames, or the end of the stream. *)
ws_can_read ==
  LET s == [ws EXCEPT !.scheduled_read = FALSE]
  IN /\ Alive
     /\ ws.scheduled_read
     /\ \/ \E n \in 1 .. Len(inbox) :
             LET r == [s EXCEPT !.rbuf = @ \o SubSeq(inbox, 1, n)]
                 t == ws_process_read_data(r)
             IN /\ inbox' = SubSeq(inbox, n + 1, Len(inbox))
                /\ ws' = IF s.close_after_events THEN ws_close_if_able(r)
                         ELSE IF t.state = "error" THEN ws_close_if_able(t)
                         ELSE ws_monitor_input(t)
        \/ /\ peer = "gone" /\ inbox = <<>>
           /\ ws' = ws_close_if_able(s)
           /\ UNCHANGED inbox
     /\ UNCHANGED <<peer, sent, msgs>>

(* ws_can_write: some of wbuf is written, or the write fails (only once    *)
(* the peer is gone).  When all is out, what was read before is processed  *)
(* again, its result ignored, and the client is watched.                   *)
ws_can_write ==
  LET s == [ws EXCEPT !.scheduled_write = FALSE]
  IN /\ Alive
     /\ ws.scheduled_write
     /\ \/ \E n \in 1 .. Len(ws.wbuf) :
             LET t == [s EXCEPT !.wbuf = SubSeq(@, n + 1, Len(@))]
             IN ws' = IF t.wbuf # <<>> THEN ws_schedule_write(t)
                      ELSE IF t.close_after_events THEN ws_close_if_able(t)
                      ELSE ws_monitor_input(ws_process_read_data(t))
        \/ /\ peer = "gone"
           /\ ws' = ws_close_if_able(s)
     /\ UNCHANGED <<peer, inbox, sent, msgs>>

-----------------------------------------------------------------------------
(* Redis callbacks: json_reply or raw_reply with ws->cmd as its argument.  *)

(* format_send_reply: one reply is one frame.                              *)
redis_reply ==
  /\ Alive
  /\ ws.ac = "live"
  /\ ws.calls # <<>>
  /\ ws' = ws_frame_and_send_response([ws EXCEPT !.calls = Tail(@)], "reply")
  /\ UNCHANGED <<peer, inbox, sent, msgs>>

redis_message ==
  /\ Alive
  /\ ws.ac = "live"
  /\ ws.chan # {}
  /\ msgs < MaxMsg
  /\ msgs' = msgs + 1
  /\ ws' = ws_frame_and_send_response(ws, "message")
  /\ UNCHANGED <<peer, inbox, sent>>

(* The context is lost: a NULL reply for every callback, each of which     *)
(* becomes an error frame unless the client is closing (format_send_error).*)
redis_lost ==
  LET n == Len(ws.calls) + Cardinality(ws.chan)
      errors == [i \in 1 .. n |-> "error"]
      s == [ws EXCEPT !.ac = "dead", !.calls = <<>>, !.chan = {}]
  IN /\ Alive
     /\ ws.ac = "live"
     /\ ws' = IF n = 0 \/ ws.close_after_events THEN s
              ELSE [s EXCEPT !.wbuf = @ \o errors, !.scheduled_write = TRUE]
     /\ UNCHANGED <<peer, inbox, sent, msgs>>

Next == \/ upgrade \/ peer_sends \/ peer_closes \/ ws_can_read \/ ws_can_write
        \/ redis_reply \/ redis_message \/ redis_lost

Spec == Init /\ [][Next]_vars

(* libevent runs what is ready and Redis answers.  Nothing makes a client  *)
(* send, or close.                                                         *)
FairSpec ==
  /\ Spec
  /\ WF_vars(ws_can_read)
  /\ WF_vars(ws_can_write)
  /\ WF_vars(redis_reply)

-----------------------------------------------------------------------------
(* Once ws_client_free has run, no libevent event holds the client: there  *)
(* is no way to cancel a one-shot event, so it must not be pending.        *)
NoEventAfterFree ==
  ws.phase = "freed" => ~ws.scheduled_read /\ ~ws.scheduled_write

(* A client that exists has an event pending: none is left that nothing    *)
(* will ever wake up or free.                                              *)
AlwaysWaiting == Alive => ws.scheduled_read \/ ws.scheduled_write

(* No lost wake-up: what is in wbuf will be written, unless the client is  *)
(* on its way out.                                                         *)
OutputIsScheduled ==
  Alive /\ ws.wbuf # <<>> /\ ~ws.close_after_events => ws.scheduled_write

(* The events match the client's life, after every handler of websocket.c  *)
(* and whatever order they run in: a freed client has none, a live one is  *)
(* woken up, and its output goes out.                                      *)
EventsMatchLife ==
  /\ TypeOK
  /\ NoEventAfterFree
  /\ AlwaysWaiting
  /\ OutputIsScheduled

(* Every frame a client sends is dealt with, unless the client is closed   *)
(* or a fragment is in front of it, which ws_peek_data never takes out.    *)
FramesAreProcessed ==
  inbox \o ws.rbuf # <<>> ~> \/ inbox \o ws.rbuf = <<>>
                            \/ (ws.rbuf # <<>> /\ Head(ws.rbuf).op = "part")
                            \/ ~Alive

(* What a closing client is owed goes out, and it is freed as soon as its  *)
(* peer closes, or sends anything more.  A peer that does neither keeps it *)
(* for ever when a read was pending: ws_close_if_able cannot take a        *)
(* one-shot event back, and the socket is only closed in ws_client_free.   *)
ClosingEnds ==
  /\ ws.close_after_events ~> \A i \in 1 .. Len(ws.wbuf) : ws.wbuf[i] # "close"
  /\ ws.close_after_events /\ (peer = "gone" \/ inbox # <<>>) ~> ws.phase = "freed"
=============================================================================
