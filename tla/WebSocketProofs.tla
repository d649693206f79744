-------------------------- MODULE WebSocketProofs ---------------------------
(* What holds of a WebSocket client whatever frames it sends, in whatever  *)
(* number, and whenever its events, replies and messages come.             *)
EXTENDS WebSocket, FiniteSetTheorems, Induction, TLAPS

Output == {"handshake", "reply", "error", "message", "pong", "close"}
Channels == {f.arg : f \in Frames}

ClientType ==
  [phase : {"http", "ws", "freed"}, scheduled_read : BOOLEAN,
   scheduled_write : BOOLEAN, close_after_events : BOOLEAN,
   ran_subscribe : BOOLEAN, cmd : Frames \cup {NULL},
   ac : {"live", "null", "dead"}, rbuf : Seq(Frames),
   wbuf : Seq(Output), calls : Seq(Frames), chan : SUBSET Channels,
   state : {"reading", "error"}]

(* A client in a state it may be in, between two steps of a handler.       *)
Client == {s \in ClientType : IsFiniteSet(s.chan)}

(* Output that is not on its way out is waited for.                        *)
Served(s) == s.wbuf # <<>> /\ ~s.close_after_events => s.scheduled_write

(* t is what became of s: no event was taken away, none but the write was  *)
(* armed, and output did not come without it.                              *)
Follows(s, t) ==
  /\ t \in Client
  /\ t.phase = s.phase /\ t.scheduled_read = s.scheduled_read
  /\ s.scheduled_write => t.scheduled_write
  /\ Served(s) => Served(t)

(* Steps of a handler compose.                                             *)
LEMMA FollowsOn ==
  \A s, t, u : Follows(s, t) /\ Follows(t, u) => Follows(s, u)
  BY DEF Follows

(* A frame is sent.                                                        *)
LEMMA SendFollows ==
  ASSUME NEW s \in Client, NEW op \in Output
  PROVE  /\ Follows(s, ws_frame_and_send_response(s, op))
         /\ ws_frame_and_send_response(s, op).scheduled_write
         /\ ws_frame_and_send_response(s, op).close_after_events = s.close_after_events
<1> DEFINE t == ws_frame_and_send_response(s, op)
<1>1. Append(s.wbuf, op) \in Seq(Output)
  BY DEF Client, ClientType
<1>2. t = [[s EXCEPT !.wbuf = Append(@, op)] EXCEPT !.scheduled_write = TRUE]
  BY DEF ws_frame_and_send_response, ws_schedule_write
<1>3. t \in ClientType /\ t.chan = s.chan /\ t.scheduled_write /\ t.phase = s.phase
      /\ t.scheduled_read = s.scheduled_read /\ t.close_after_events = s.close_after_events
  BY <1>1, <1>2 DEF Client, ClientType
<1> QED BY <1>3 DEF Follows, Served, Client

(* A command is sent to Redis.                                             *)
LEMMA RedisFollows ==
  ASSUME NEW s \in Client, NEW f \in Frames
  PROVE  Follows(s, cmd_send(s, f))
<1>1. CASE s.ac # "live"
  <2>1. cmd_send(s, f) = s
    BY <1>1 DEF cmd_send
  <2> QED BY <2>1 DEF Follows
<1>2. ASSUME NEW S \in SUBSET Channels, IsFiniteSet(S)
      PROVE  Follows(s, [s EXCEPT !.chan = S])
  BY <1>2 DEF Follows, Served, Client, ClientType
<1>3. IsFiniteSet(s.chan) /\ s.chan \in SUBSET Channels /\ f.arg \in Channels
  BY DEF Client, ClientType, Channels
<1>4. CASE s.ac = "live" /\ f.op = "sub"
  <2>1. cmd_send(s, f) = [s EXCEPT !.chan = s.chan \cup {f.arg}]
    BY <1>4 DEF cmd_send
  <2>2. IsFiniteSet(s.chan \cup {f.arg})
    BY <1>3, FS_AddElement
  <2> QED BY <1>2, <1>3, <2>1, <2>2
<1>5. CASE s.ac = "live" /\ f.op = "unsub"
  <2>1. cmd_send(s, f) = [s EXCEPT !.chan = s.chan \ {f.arg}]
    BY <1>5 DEF cmd_send
  <2>2. IsFiniteSet(s.chan \ {f.arg})
    BY <1>3, FS_RemoveElement
  <2> QED BY <1>2, <1>3, <2>1, <2>2
<1>6. CASE s.ac = "live" /\ f.op # "sub" /\ f.op # "unsub"
  <2>1. cmd_send(s, f) = IF s.chan = {} THEN [s EXCEPT !.calls = Append(s.calls, f)] ELSE s
    BY <1>6 DEF cmd_send
  <2>2. Append(s.calls, f) \in Seq(Frames)
    BY DEF Client, ClientType
  <2>3. Follows(s, s)
    BY DEF Follows
  <2>4. Follows(s, [s EXCEPT !.calls = Append(s.calls, f)])
    BY <2>2 DEF Follows, Served, Client, ClientType
  <2> QED BY <2>1, <2>3, <2>4
<1> QED BY <1>1, <1>4, <1>5, <1>6

(* A frame that holds a command is executed.                               *)
LEMMA ExecFollows ==
  ASSUME NEW s \in Client, NEW f \in Frames
  PROVE  Follows(s, ws_execute(s, f))
<1> DEFINE t == [s EXCEPT !.cmd = f]
<1>1. t \in Client /\ Follows(s, t)
  BY DEF Follows, Served, Client, ClientType
<1>2. CASE f.op = "denied" \/ (s.ran_subscribe /\ f.op = "cmd")
  <2>1. ws_execute(s, f) = ws_frame_and_send_response(t, "error")
    BY <1>2 DEF ws_execute
  <2>2. Follows(t, ws_frame_and_send_response(t, "error"))
    <3> HIDE DEF t
    <3> QED BY <1>1, SendFollows DEF Output
  <2> HIDE DEF t
  <2> QED BY <1>1, <2>1, <2>2, FollowsOn
<1>3. CASE ~(f.op = "denied" \/ (s.ran_subscribe /\ f.op = "cmd"))
  <2> DEFINE u == cmd_send(t, f)
  <2>1. ws_execute(s, f) = [u EXCEPT !.ran_subscribe = (f.op = "sub")]
    BY <1>3 DEF ws_execute
  <2>2. Follows(t, u)
    <3> HIDE DEF t
    <3> QED BY <1>1, RedisFollows
  <2>3. Follows(u, [u EXCEPT !.ran_subscribe = (f.op = "sub")])
    <3> HIDE DEF u
    <3> QED BY <2>2 DEF Follows, Served, Client, ClientType
  <2> HIDE DEF t, u
  <2> QED BY <1>1, <2>1, <2>2, <2>3, FollowsOn
<1> QED BY <1>2, <1>3

(* One frame is dealt with.                                                *)
LEMMA FrameFollows ==
  ASSUME NEW s \in Client, s.rbuf # <<>>
  PROVE  Follows(s, process_frame(s, Head(s.rbuf)))
<1>1. PICK f \in Frames : f = Head(s.rbuf)
  BY DEF Client, ClientType
<1>2. Tail(s.rbuf) \in Seq(Frames)
  BY DEF Client, ClientType
<1> DEFINE t == [s EXCEPT !.rbuf = Tail(@)]
<1>3. t \in Client /\ Follows(s, t)
  BY <1>2 DEF Follows, Served, Client, ClientType
<1> HIDE DEF t
<1>4. ASSUME NEW u \in Client, NEW op \in Output, Follows(s, u)
      PROVE  Follows(s, ws_frame_and_send_response(u, op))
  BY <1>4, SendFollows, FollowsOn
<1>5. CASE f.op \in {"cmd", "denied", "sub", "unsub"}
  <2>1. process_frame(s, f) = ws_execute(t, f)
    BY <1>5 DEF process_frame, t
  <2> QED BY <1>1, <1>3, <2>1, ExecFollows, FollowsOn
<1>6. CASE f.op = "bad"
  <2>1. process_frame(s, f) = [t EXCEPT !.state = "error"]
    BY <1>6 DEF process_frame, t
  <2>2. Follows(t, [t EXCEPT !.state = "error"])
    BY <1>3 DEF Follows, Served, Client, ClientType
  <2> QED BY <1>1, <1>3, <2>1, <2>2, FollowsOn
<1>7. CASE f.op = "ping"
  <2>1. process_frame(s, f) = ws_frame_and_send_response(t, "pong")
    BY <1>7 DEF process_frame, t
  <2> QED BY <1>1, <1>3, <1>4, <2>1 DEF Output
<1>8. CASE f.op = "close"
  <2> DEFINE u == [t EXCEPT !.close_after_events = TRUE]
  <2>1. process_frame(s, f) = ws_frame_and_send_response(u, "close")
    BY <1>8 DEF process_frame, t
  <2>2. u \in Client /\ Follows(t, u)
    BY <1>3 DEF Follows, Served, Client, ClientType
  <2> HIDE DEF u
  <2>3. Follows(s, u)
    BY <1>3, <2>2, FollowsOn
  <2> QED BY <1>1, <1>4, <2>1, <2>2, <2>3 DEF Output
<1>9. CASE f.op = "other"
  <2>1. process_frame(s, f) = t
    BY <1>9 DEF process_frame, t
  <2> QED BY <1>1, <1>3, <2>1
<1>10. CASE f.op = "nomask"
  <2> DEFINE u == [s EXCEPT !.close_after_events = TRUE, !.state = "error"]
  <2>1. process_frame(s, f) = ws_frame_and_send_response(u, "close")
    BY <1>10 DEF process_frame
  <2>2. u \in Client /\ Follows(s, u)
    BY DEF Follows, Served, Client, ClientType
  <2> HIDE DEF u
  <2> QED BY <1>1, <1>4, <2>1, <2>2 DEF Output
<1>11. CASE f.op = "part"
  <2>1. process_frame(s, f) = s
    BY <1>11 DEF process_frame
  <2> QED BY <1>1, <2>1 DEF Follows
<1> QED BY <1>1, <1>5, <1>6, <1>7, <1>8, <1>9, <1>10, <1>11, FramesAssumption DEF Ops

(* A turn of the loop of ws_process_read_data.                             *)
LoopTurn(p) ==
  IF p.rbuf = <<>> \/ p.state = "error" THEN p ELSE process_frame(p, Head(p.rbuf))

(* What was read is processed, however many frames it holds.               *)
LEMMA ReadFollows ==
  ASSUME NEW s \in Client
  PROVE  Follows(s, ws_process_read_data(s))
<1> DEFINE n == Len(s.rbuf)
           start == [s EXCEPT !.state = "reading"]
           step == [i \in 1 .. n |-> [p \in Client |-> LoopTurn(p)]]
           run[i \in 0 .. Len(s.rbuf)] ==
             IF i = 0 THEN [s EXCEPT !.state = "reading"]
             ELSE LET p == run[i - 1]
                  IN IF p.rbuf = <<>> \/ p.state = "error" THEN p
                     ELSE process_frame(p, Head(p.rbuf))
<1>0. n \in Nat
  BY DEF Client, ClientType
<1>1. start \in Client /\ Follows(s, start)
  BY DEF Follows, Served, Client, ClientType
<1>2. \A p \in Client : LoopTurn(p) \in Client /\ Follows(p, LoopTurn(p))
  <2> SUFFICES ASSUME NEW p \in Client PROVE Follows(p, LoopTurn(p))
    BY DEF Follows
  <2>1. Follows(p, p)
    BY DEF Follows
  <2> QED BY <2>1, FrameFollows DEF LoopTurn
<1>3. step \in [1 .. n -> [Client -> Client]]
  <2> HIDE DEF n, start
  <2> QED BY <1>2
<1>4. \A i \in 1 .. n, p \in Client : step[i][p] = LoopTurn(p)
  BY Zenon
<1>5. PICK g \in [0 .. n -> Client] :
        g[0] = start /\ \A i \in 1 .. n : g[i] = step[i][g[i - 1]]
  <2> HIDE DEF n, start, step
  <2>1. \E g \in [0 .. n -> Client] : Iterates(g, n, start, step)
    BY <1>0, <1>1, <1>3, Recursion, Zenon
  <2> QED BY <2>1, Zenon DEF Iterates
<1>6. \A i \in 0 .. n : g[i] = IF i = 0 THEN start ELSE LoopTurn(g[i - 1])
  <2> HIDE DEF n, start, step
  <2>1. \A i \in 1 .. n : i - 1 \in 0 .. n
    BY <1>0
  <2>2. \A i \in 1 .. n : g[i] = LoopTurn(g[i - 1])
    BY <1>4, <1>5, <2>1
  <2> QED BY <1>0, <1>5, <2>2
<1>7. g = [i \in 0 .. Len(s.rbuf) |->
             IF i = 0 THEN [s EXCEPT !.state = "reading"]
             ELSE LET p == g[i - 1]
                  IN IF p.rbuf = <<>> \/ p.state = "error" THEN p
                     ELSE process_frame(p, Head(p.rbuf))]
  <2> HIDE DEF step
  <2>1. g = [i \in 0 .. n |-> IF i = 0 THEN start ELSE LoopTurn(g[i - 1])]
    <3> HIDE DEF n, start
    <3> QED BY <1>6
  <2> QED BY <2>1, Zenon DEF LoopTurn
<1>8. run = [i \in 0 .. Len(s.rbuf) |->
             IF i = 0 THEN [s EXCEPT !.state = "reading"]
             ELSE LET p == run[i - 1]
                  IN IF p.rbuf = <<>> \/ p.state = "error" THEN p
                     ELSE process_frame(p, Head(p.rbuf))]
  BY <1>7, Zenon
<1>9. ws_process_read_data(s) = run[n]
  BY Zenon DEF ws_process_read_data
<1> HIDE DEF run
<1>10. \A i \in 0 .. n : run[i] = IF i = 0 THEN start ELSE LoopTurn(run[i - 1])
  BY <1>8, Zenon DEF LoopTurn
<1> DEFINE P == {i \in 0 .. n : Follows(s, run[i])}
<1> HIDE DEF n, start, step
<1>11. 0 \in P
  BY <1>0, <1>1, <1>10
<1>12. ASSUME NEW i \in 1 .. n, i - 1 \in P PROVE i \in P
  <2>1. run[i] = LoopTurn(run[i - 1]) /\ i \in 0 .. n
    BY <1>0, <1>10
  <2>2. Follows(s, run[i - 1]) /\ run[i - 1] \in Client
    BY <1>12 DEF Follows
  <2> QED BY <1>2, <2>1, <2>2, FollowsOn
<1>13. n \in P
  <2> HIDE DEF P
  <2>1. 0 .. n \subseteq P
    BY <1>0, <1>11, <1>12, BoundedInduction
  <2> QED BY <1>0, <2>1
<1> QED BY <1>9, <1>13

(* The inductive invariant, of the client alone.                           *)
Matches(s) ==
  /\ s \in Client
  /\ s.phase = "freed" => ~s.scheduled_read /\ ~s.scheduled_write
  /\ s.phase = "ws" => s.scheduled_read \/ s.scheduled_write
  /\ s.phase = "ws" => Served(s)

(* The rest of the state.                                                  *)
Around ==
  /\ peer \in {"open", "gone"}
  /\ inbox \in Seq(Frames)
  /\ sent \in 0 .. MaxFrames
  /\ msgs \in 0 .. MaxMsg

EventsInv == Matches(ws) /\ Around

(* A client is closed now, or by the event that still holds it.            *)
LEMMA CloseMatches ==
  ASSUME NEW s \in Client, s.phase = "ws"
  PROVE  Matches(ws_close_if_able(s))
<1>1. CASE s.scheduled_read \/ s.scheduled_write
  <2> DEFINE t == [s EXCEPT !.close_after_events = TRUE]
  <2>1. ws_close_if_able(s) = t
    BY <1>1 DEF ws_close_if_able
  <2>2. t \in Client /\ t.phase = "ws" /\ t.close_after_events
        /\ t.scheduled_read = s.scheduled_read /\ t.scheduled_write = s.scheduled_write
    BY DEF Client, ClientType
  <2> HIDE DEF t
  <2> QED BY <1>1, <2>1, <2>2 DEF Matches, Served
<1>2. CASE ~(s.scheduled_read \/ s.scheduled_write)
  <2> DEFINE t == [s EXCEPT !.phase = "freed", !.close_after_events = TRUE, !.chan = {},
                            !.rbuf = <<>>, !.wbuf = <<>>, !.cmd = NULL]
  <2>1. ws_close_if_able(s) = t
    BY <1>2 DEF ws_close_if_able, ws_client_free
  <2>2. t \in ClientType /\ t.phase = "freed" /\ t.chan = {}
        /\ t.scheduled_read = s.scheduled_read /\ t.scheduled_write = s.scheduled_write
    <3>1. <<>> \in Seq(Frames) /\ <<>> \in Seq(Output) /\ {} \in SUBSET Channels
      OBVIOUS
    <3> QED BY <3>1 DEF Client, ClientType
  <2>3. t \in Client
    BY <2>2, FS_EmptySet DEF Client
  <2> HIDE DEF t
  <2> QED BY <1>2, <2>1, <2>2, <2>3 DEF Matches
<1> QED BY <1>1, <1>2

(* A client that is watched for input has nothing to fear.                 *)
LEMMA MonitorMatches ==
  ASSUME NEW s \in Client, s.phase = "ws", Served(s)
  PROVE  Matches(ws_monitor_input(s))
<1> DEFINE t == [s EXCEPT !.scheduled_read = TRUE]
<1>1. t \in Client /\ t.phase = "ws" /\ t.scheduled_read /\ Served(t)
  BY DEF Client, ClientType, Served
<1> HIDE DEF t
<1> QED BY <1>1 DEF Matches, ws_monitor_input, t

(* A write that is scheduled serves all output.                            *)
LEMMA WriteMatches ==
  ASSUME NEW s \in Client, s.phase = "ws"
  PROVE  Matches(ws_schedule_write(s))
<1> DEFINE t == [s EXCEPT !.scheduled_write = TRUE]
<1>1. t \in Client /\ t.phase = "ws" /\ t.scheduled_write
  BY DEF Client, ClientType
<1> HIDE DEF t
<1> QED BY <1>1 DEF Matches, Served, ws_schedule_write, t

(* A client is made by an upgrade.                                         *)
LEMMA UpgradeMatches ==
  ASSUME EventsInv, upgrade PROVE EventsInv'
<1>1. PICK ac \in {"live", "null"} :
        ws' \in {ws_handshake_reply(ws_client_new(ac)), ws_close_if_able(ws_client_new(ac))}
  BY DEF upgrade
<1> DEFINE s == [ws EXCEPT !.phase = "ws", !.ac = ac]
           t == [s EXCEPT !.wbuf = <<"handshake">>]
<1>2. ws_client_new(ac) = s
  BY DEF ws_client_new
<1>3. s \in Client /\ s.phase = "ws"
  BY DEF EventsInv, Matches, Client, ClientType
<1> HIDE DEF s
<1>4. t \in Client /\ t.phase = "ws"
  <2>1. <<"handshake">> \in Seq(Output)
    BY DEF Output
  <2> QED BY <1>3, <2>1 DEF Client, ClientType
<1>5. ws' = ws_schedule_write(t) \/ ws' = ws_close_if_able(s)
  BY <1>1, <1>2 DEF ws_handshake_reply
<1> HIDE DEF t
<1>6. Matches(ws')
  BY <1>3, <1>4, <1>5, CloseMatches, WriteMatches
<1>7. Matches(ws)' /\ Around'
  BY <1>6 DEF Matches, Served, Client, ClientType, Output, Channels, upgrade, EventsInv, Around
<1> QED BY <1>7 DEF EventsInv

(* Bytes arrive, or the end of the stream.                                 *)
LEMMA ReadMatches ==
  ASSUME EventsInv, ws_can_read PROVE EventsInv'
<1> DEFINE s == [ws EXCEPT !.scheduled_read = FALSE]
<1>1. s \in Client /\ s.phase = "ws" /\ Served(s)
  BY DEF EventsInv, Matches, Served, Client, ClientType, ws_can_read, Alive
<1>3. ASSUME NEW n \in 1 .. Len(inbox)
      PROVE  LET r == [s EXCEPT !.rbuf = @ \o SubSeq(inbox, 1, n)]
                 t == ws_process_read_data(r)
             IN /\ inbox' = SubSeq(inbox, n + 1, Len(inbox))
                /\ ws' = IF s.close_after_events THEN ws_close_if_able(r)
                         ELSE IF t.state = "error" THEN ws_close_if_able(t)
                         ELSE ws_monitor_input(t)
                => Matches(ws') /\ inbox' \in Seq(Frames)
  <2> DEFINE r == [s EXCEPT !.rbuf = @ \o SubSeq(inbox, 1, n)]
             t == ws_process_read_data(r)
  <2>1. SubSeq(inbox, 1, n) \in Seq(Frames) /\ SubSeq(inbox, n + 1, Len(inbox)) \in Seq(Frames)
    BY DEF EventsInv, Around
  <2> HIDE DEF s
  <2>2. s.rbuf \o SubSeq(inbox, 1, n) \in Seq(Frames)
    BY <1>1, <2>1 DEF Client, ClientType
  <2>3. r \in Client /\ r.phase = "ws" /\ Served(r)
    BY <1>1, <2>2 DEF Client, ClientType, Served
  <2> HIDE DEF r
  <2>4. t \in Client /\ t.phase = "ws" /\ Served(t)
    BY <2>3, ReadFollows DEF Follows
  <2> HIDE DEF t
  <2>5. Matches(ws_close_if_able(r)) /\ Matches(ws_close_if_able(t)) /\ Matches(ws_monitor_input(t))
    BY <2>3, <2>4, CloseMatches, MonitorMatches
  <2>6. SUFFICES ASSUME inbox' = SubSeq(inbox, n + 1, Len(inbox)),
                        ws' = IF s.close_after_events THEN ws_close_if_able(r)
                         ELSE IF t.state = "error" THEN ws_close_if_able(t)
                         ELSE ws_monitor_input(t)
                 PROVE  Matches(ws') /\ inbox' \in Seq(Frames)
    BY Zenon DEF r, t
  <2> QED BY <2>1, <2>5, <2>6
<1>4. Matches(ws') /\ inbox' \in Seq(Frames)
  <2> HIDE DEF s
  <2>1. CASE peer = "gone" /\ inbox = <<>> /\ ws' = ws_close_if_able(s) /\ UNCHANGED inbox
    BY <1>1, <2>1, CloseMatches DEF EventsInv, Around
  <2> QED BY <1>3, <2>1, Zenon DEF ws_can_read, s
<1> QED BY <1>4, Zenon DEF ws_can_read, EventsInv, Around, Matches, Served, Client

(* Output goes out.                                                        *)
LEMMA OutputMatches ==
  ASSUME EventsInv, ws_can_write PROVE EventsInv'
<1> DEFINE s == [ws EXCEPT !.scheduled_write = FALSE]
<1>1. s \in Client /\ s.phase = "ws" /\ s.wbuf = ws.wbuf /\ ws.wbuf \in Seq(Output)
  BY DEF EventsInv, Matches, Client, ClientType, ws_can_write, Alive
<1>2. ASSUME NEW n \in 1 .. Len(ws.wbuf)
      PROVE  LET t == [s EXCEPT !.wbuf = SubSeq(@, n + 1, Len(@))]
             IN ws' = (IF t.wbuf # <<>> THEN ws_schedule_write(t)
                       ELSE IF t.close_after_events THEN ws_close_if_able(t)
                       ELSE ws_monitor_input(ws_process_read_data(t)))
                => Matches(ws')
  <2> DEFINE t == [s EXCEPT !.wbuf = SubSeq(@, n + 1, Len(@))]
             u == ws_process_read_data(t)
  <2>1. SubSeq(ws.wbuf, n + 1, Len(ws.wbuf)) \in Seq(Output)
    BY <1>1
  <2> HIDE DEF s
  <2>2. t \in Client /\ t.phase = "ws"
    BY <1>1, <2>1 DEF Client, ClientType
  <2> HIDE DEF t
  <2>3. u \in Client /\ u.phase = "ws" /\ (t.wbuf = <<>> => Served(u))
    BY <2>2, ReadFollows DEF Follows, Served
  <2> HIDE DEF u
  <2>4. /\ Matches(ws_schedule_write(t)) /\ Matches(ws_close_if_able(t))
        /\ t.wbuf = <<>> => Matches(ws_monitor_input(u))
    BY <2>2, <2>3, WriteMatches, CloseMatches, MonitorMatches
  <2>5. SUFFICES ASSUME ws' = (IF t.wbuf # <<>> THEN ws_schedule_write(t)
                               ELSE IF t.close_after_events THEN ws_close_if_able(t)
                               ELSE ws_monitor_input(u))
                 PROVE  Matches(ws')
    BY Zenon DEF t, u
  <2> QED BY <2>4, <2>5
<1>3. Matches(ws')
  <2> HIDE DEF s
  <2>1. CASE ws' = ws_close_if_able(s)
    BY <1>1, <2>1, CloseMatches
  <2> QED BY <1>2, <2>1, Zenon DEF ws_can_write, s
<1> QED BY <1>3, Zenon DEF ws_can_write, EventsInv, Around, Matches, Served, Client

(* Redis answers, or publishes.                                            *)
LEMMA RedisMatches ==
  ASSUME EventsInv, redis_reply \/ redis_message PROVE EventsInv'
<1> DEFINE s == [ws EXCEPT !.calls = Tail(@)]
<1>1. ASSUME NEW t \in Client, t.phase = "ws", NEW op \in Output,
             ws' = ws_frame_and_send_response(t, op)
      PROVE  Matches(ws')
  BY <1>1, SendFollows DEF Follows, Matches, Served
<1>2. ws \in Client /\ ws.phase = "ws"
  BY DEF EventsInv, Matches, redis_reply, redis_message, Alive
<1>3. Matches(ws')
  <2>1. CASE redis_reply
    <3>1. Tail(ws.calls) \in Seq(Frames)
      BY <1>2, <2>1 DEF Client, ClientType, redis_reply
    <3>2. s \in Client /\ s.phase = "ws"
      BY <1>2, <3>1 DEF Client, ClientType
    <3>3. ws' = ws_frame_and_send_response(s, "reply")
      BY <2>1, Zenon DEF redis_reply
    <3> HIDE DEF s
    <3> QED BY <1>1, <3>2, <3>3 DEF Output
  <2>2. CASE redis_message
    <3>1. ws' = ws_frame_and_send_response(ws, "message")
      BY <2>2 DEF redis_message
    <3> QED BY <1>1, <1>2, <3>1 DEF Output
  <2> QED BY <2>1, <2>2
<1>4. Around'
  BY WsBounds DEF redis_reply, redis_message, EventsInv, Around
<1> QED BY <1>3, <1>4, Zenon DEF EventsInv, Matches, Served, Client

(* The context is lost.                                                    *)
LEMMA LostMatches ==
  ASSUME EventsInv, redis_lost PROVE EventsInv'
<1>1. ws \in Client /\ ws.phase = "ws" /\ Matches(ws)
  BY DEF EventsInv, Matches, redis_lost, Alive
<1>2. PICK n \in Nat : n = Len(ws.calls) + Cardinality(ws.chan)
  BY <1>1, FS_CardinalityType DEF Client, ClientType
<1> DEFINE errors == [i \in 1 .. n |-> "error"]
           s == [ws EXCEPT !.ac = "dead", !.calls = <<>>, !.chan = {}]
           t == [s EXCEPT !.wbuf = @ \o errors, !.scheduled_write = TRUE]
<1>3. ws' = IF n = 0 \/ ws.close_after_events THEN s ELSE t
  BY <1>2, Zenon DEF redis_lost
<1>4. errors \in Seq(Output) /\ <<>> \in Seq(Frames) /\ {} \in SUBSET Channels
  BY DEF Output
<1>5. s \in Client /\ Matches(s) /\ s.phase = "ws"
  <2>1. s \in ClientType /\ s.chan = {} /\ s.phase = "ws" /\ s.wbuf = ws.wbuf
        /\ s.scheduled_read = ws.scheduled_read /\ s.scheduled_write = ws.scheduled_write
        /\ s.close_after_events = ws.close_after_events
    BY <1>1, <1>4 DEF Client, ClientType
  <2> HIDE DEF s
  <2> QED BY <1>1, <2>1, FS_EmptySet DEF Client, Matches, Served
<1> HIDE DEF s, errors
<1>6. Matches(t)
  <2>1. s.wbuf \o errors \in Seq(Output)
    BY <1>4, <1>5 DEF Client, ClientType
  <2>2. t \in Client /\ t.phase = "ws" /\ t.scheduled_write
    BY <1>5, <2>1 DEF Client, ClientType
  <2> HIDE DEF t
  <2> QED BY <2>2 DEF Matches, Served
<1>7. Matches(ws')
  <2> HIDE DEF t
  <2> QED BY <1>3, <1>5, <1>6
<1> QED BY <1>7, Zenon DEF redis_lost, EventsInv, Around, Matches, Served, Client

(* The invariant holds at the start: nothing is armed, nothing is freed.   *)
LEMMA InitEvents == Init => EventsInv
<1> SUFFICES ASSUME Init PROVE EventsInv
  OBVIOUS
<1>1. ws \in ClientType /\ ws.phase = "http" /\ ws.chan = {}
  <2>1. <<>> \in Seq(Frames) /\ <<>> \in Seq(Output) /\ {} \in SUBSET Channels
    OBVIOUS
  <2> QED BY <2>1 DEF Init, ClientType
<1>2. Matches(ws)
  BY <1>1, FS_EmptySet DEF Matches, Client
<1>3. Around
  BY WsBounds DEF Init, Around
<1> QED BY <1>2, <1>3 DEF EventsInv

(* Every step keeps it.                                                    *)
LEMMA StepEvents == EventsInv /\ [Next]_vars => EventsInv'
<1> SUFFICES ASSUME EventsInv, [Next]_vars PROVE EventsInv'
  OBVIOUS
<1>1. CASE peer_sends \/ peer_closes \/ UNCHANGED vars
  <2>1. ws' = ws
    BY <1>1 DEF peer_sends, peer_closes, vars
  <2>2. Matches(ws)'
    BY <2>1, Zenon DEF EventsInv, Matches, Served, Client
  <2>3. Around'
    BY <1>1, WsBounds DEF peer_sends, peer_closes, vars, EventsInv, Around
  <2> QED BY <2>2, <2>3 DEF EventsInv
<1> QED BY <1>1, UpgradeMatches, ReadMatches, OutputMatches, RedisMatches, LostMatches DEF Next

(* The events of a WebSocket client match its life, whatever frames it may *)
(* send and however many, however they are cut into reads, and whenever    *)
(* its writes, its replies, the loss of its Redis connection and the end   *)
(* of its own come: it is freed only when no event holds it, it is never   *)
(* left with none, and what it is to be sent is always waited for.         *)
THEOREM EventsAlwaysMatch == Spec => []EventsMatchLife
<1>1. EventsInv => EventsMatchLife
  <2> SUFFICES ASSUME EventsInv PROVE EventsMatchLife
    OBVIOUS
  <2>1. TypeOK
    BY Zenon DEF EventsInv, Matches, Around, Client, ClientType, Output, Channels, TypeOK
  <2> QED BY <2>1 DEF EventsInv, Matches, Served, EventsMatchLife, NoEventAfterFree,
                      AlwaysWaiting, OutputIsScheduled, Alive
<1> QED BY <1>1, InitEvents, StepEvents, PTL DEF Spec
=============================================================================
