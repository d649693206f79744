----------------------------- MODULE HttpProofs -----------------------------
(* What holds of the HTTP clients of a worker for every number of          *)
(* connections, descriptors, cmds and pool contexts and for every bound.   *)
EXTENDS Http, TLAPS

USE SetsAssumption, BoundAssumption, FlagsAssumption, RequestsAssumption, NullAssumption

(* No more requests are waiting than were sent.                            *)
ReadWithinSent == \A c \in Conns : Len(inbox[c]) <= sent[c]

(* The pointers of a cmd name the client it was made for.                  *)
CmdLinks ==
  \A k \in Cmds : cmd[k] # NULL =>
    /\ cmd[k].http_client \in {NULL, cmd[k].req[1]}
    /\ cmd[k].pub_sub_client = IF cmd[k].kind = "sub" THEN cmd[k].req[1] ELSE NULL

(* The cmds a client points to are live and point back to it.              *)
ClientLinks ==
  \A c \in Conns : client[c] # NULL =>
    /\ client[c].last_cmd # NULL =>
         /\ cmd[client[c].last_cmd] # NULL
         /\ cmd[client[c].last_cmd].http_client = c
         /\ cmd[client[c].last_cmd].fd = client[c].fd
    /\ client[c].reused_cmd # NULL =>
         /\ cmd[client[c].reused_cmd] # NULL
         /\ cmd[client[c].reused_cmd].kind = "sub"
         /\ cmd[client[c].reused_cmd].pub_sub_client = c

LinkInv == TypeOK /\ ReadWithinSent /\ CmdLinks /\ ClientLinks

(* Initially nothing exists.                                               *)
LEMMA InitLinkInv == Init => LinkInv
  BY DEF Init, LinkInv, TypeOK, ReadWithinSent, CmdLinks, ClientLinks

(* What worker_can_read passes to worker_process_client, and what it takes *)
(* out of the inbox.                                                       *)
LEMMA ReadArguments ==
  ASSUME TypeOK, ReadWithinSent, NEW c \in Conns, worker_can_read(c)
  PROVE  /\ client[c] \in Client
         /\ owner[client[c].fd] = c
         /\ inbox[c] # <<>>
         /\ inbox' = [inbox EXCEPT ![c] = Tail(@)]
         /\ Tail(inbox[c]) \in Seq(Requests)
         /\ Len(Tail(inbox[c])) = Len(inbox[c]) - 1
         /\ Len(inbox[c]) \in Nat \ {0}
         /\ UNCHANGED <<peer, sent, writes>>
         /\ \E kind \in Kinds, ka \in BOOLEAN, hd \in BOOLEAN, n \in 1 .. MaxReq :
              /\ worker_process_client(c, kind, ka, hd, n)
              /\ hasty' = IF ka \/ (Awaited(c) = {} /\ Scheduled(c) = {})
                            THEN hasty ELSE hasty \cup {c}
<1>1. client[c] \in Client /\ owner[client[c].fd] = c /\ inbox[c] # <<>>
  BY DEF worker_can_read, Readable, TypeOK
<1>2. inbox[c] \in Seq(Requests)
  BY DEF TypeOK
<1>3. /\ Head(inbox[c]) \in Requests
      /\ Tail(inbox[c]) \in Seq(Requests)
      /\ Len(Tail(inbox[c])) = Len(inbox[c]) - 1
      /\ Len(inbox[c]) \in Nat \ {0}
  BY <1>1, <1>2
<1>4. sent[c] \in 0 .. MaxReq /\ Len(inbox[c]) <= sent[c]
  BY DEF TypeOK, ReadWithinSent
<1>5. sent[c] - Len(inbox[c]) + 1 \in 1 .. MaxReq
  BY <1>3, <1>4
<1>6. \A r \in Requests : /\ r[1] \in Kinds
                          /\ keep_alive_of(c, r[2]) \in BOOLEAN
                          /\ (r[2] \in {"cut", "both"}) \in BOOLEAN
  BY <1>1 DEF keep_alive_of, Client
<1>7. \E kind \in Kinds, ka \in BOOLEAN, hd \in BOOLEAN, n \in 1 .. MaxReq :
        /\ worker_process_client(c, kind, ka, hd, n)
        /\ hasty' = IF ka \/ (Awaited(c) = {} /\ Scheduled(c) = {})
                      THEN hasty ELSE hasty \cup {c}
  <2>1. PICK r \in Requests :
          /\ worker_process_client(c, r[1], keep_alive_of(c, r[2]), r[2] \in {"cut", "both"},
                                   sent[c] - Len(inbox[c]) + 1)
          /\ hasty' = IF keep_alive_of(c, r[2]) \/ (Awaited(c) = {} /\ Scheduled(c) = {})
                        THEN hasty ELSE hasty \cup {c}
    BY <1>3, Zenon DEF worker_can_read
  <2> QED BY <1>5, <1>6, <2>1, Zenon
<1>8. inbox' = [inbox EXCEPT ![c] = Tail(@)] /\ UNCHANGED <<peer, sent, writes>>
  BY DEF worker_can_read
<1> QED BY <1>1, <1>3, <1>7, <1>8

(* The call alone.                                                         *)
LEMMA ReadCalls ==
  ASSUME TypeOK, ReadWithinSent, NEW c \in Conns, worker_can_read(c)
  PROVE  \E kind \in Kinds, ka \in BOOLEAN, hd \in BOOLEAN, n \in 1 .. MaxReq :
           worker_process_client(c, kind, ka, hd, n)
  BY ReadArguments

(* What a connection has received.                                         *)
Answer == (Conns \X (1 .. MaxReq)) \X (0 .. MaxMsg)

(* What a write leaves of the responses received and of the descriptors.   *)
LEMMA WriteTypes ==
  ASSUME TypeOK, NEW f \in Fds, NEW req \in Conns \X (1 .. MaxReq), NEW part \in 0 .. MaxMsg,
         NEW keep_alive \in BOOLEAN, NEW success \in BOOLEAN
  PROVE  /\ Delivered(f, req, part) \in [Conns -> Seq(Answer)]
         /\ http_response_cleanup(f, keep_alive, success) \in [Fds -> Conns \cup {NULL}]
<1>1. <<req, part>> \in Answer
  BY DEF Answer
<1>2. got \in [Conns -> Seq(Answer)] /\ owner \in [Fds -> Conns \cup {NULL}]
  BY DEF TypeOK, Answer
<1>3. Delivered(f, req, part) \in [Conns -> Seq(Answer)]
  <2>1. CASE owner[f] # NULL /\ peer[owner[f]] = "open"
    <3>1. owner[f] \in Conns
      BY <1>2, <2>1
    <3>2. got[owner[f]] \in Seq(Answer)
      BY <1>2, <3>1
    <3>3. Append(got[owner[f]], <<req, part>>) \in Seq(Answer)
      BY <1>1, <3>2
    <3> QED BY <1>2, <2>1, <3>1, <3>3, Zenon DEF Delivered
  <2> QED BY <1>2, <2>1, Zenon DEF Delivered
<1> QED BY <1>2, <1>3 DEF http_response_cleanup

(* A write succeeds or fails.                                              *)
LEMMA OutcomesAreBoolean == \A f : WriteOutcomes(f) \subseteq BOOLEAN
  BY DEF WriteOutcomes

(* http_send_error leaves everything but the answers and descriptors.      *)
LEMMA SendErrorTypes ==
  ASSUME TypeOK, NEW c \in Conns, client[c] # NULL, NEW keep_alive \in BOOLEAN,
         NEW n \in 1 .. MaxReq, http_send_error(c, keep_alive, n)
  PROVE  /\ got' \in [Conns -> Seq(Answer)]
         /\ owner' \in [Fds -> Conns \cup {NULL}]
<1>1. client[c].fd \in Fds
  BY DEF TypeOK, Client
<1>2. <<c, n>> \in Conns \X (1 .. MaxReq) /\ 0 \in 0 .. MaxMsg
  OBVIOUS
<1>3. PICK success \in BOOLEAN :
        /\ got' = IF success THEN Delivered(client[c].fd, <<c, n>>, 0) ELSE got
        /\ owner' = http_response_cleanup(client[c].fd, keep_alive, success)
  BY OutcomesAreBoolean DEF http_send_error
<1>4. got \in [Conns -> Seq(Answer)]
  BY DEF TypeOK, Answer
<1> QED BY <1>1, <1>2, <1>3, <1>4, WriteTypes


(* What http_client_read leaves of a cmd it cuts off from its client.      *)
CutOff(m) == [m EXCEPT !.fd = NULL, !.http_client = NULL]

(* The fields of such a cmd.                                               *)
LEMMA CutOffFields ==
  ASSUME NEW m \in Cmd
  PROVE  /\ CutOff(m) \in Cmd
         /\ CutOff(m).fd = NULL
         /\ CutOff(m).http_client = NULL
         /\ CutOff(m).keep_alive = m.keep_alive
         /\ CutOff(m).kind = m.kind
         /\ CutOff(m).pub_sub_client = m.pub_sub_client
         /\ CutOff(m).req = m.req
  BY DEF CutOff, Cmd

(* What cmd_run leaves in the client whose command it sent.                *)
WithCmd(cl, kind, ka, k) ==
  [cl EXCEPT !.keep_alive = ka, !.last_cmd = k, !.reused_cmd = IF kind = "sub" THEN k ELSE @]

(* The fields of such a client.                                            *)
LEMMA WithCmdFields ==
  ASSUME NEW cl \in Client, NEW kind, NEW ka \in BOOLEAN, NEW k \in Cmds
  PROVE  LET new == WithCmd(cl, kind, ka, k)
         IN /\ new \in Client
            /\ new.fd = cl.fd
            /\ new.keep_alive = ka
            /\ new.last_cmd = k
            /\ new.reused_cmd = IF kind = "sub" THEN k ELSE cl.reused_cmd
  BY DEF WithCmd, Client

(* What cmd_free and format_send_error leave in a client.                  *)
LEMMA UnlinkedFields ==
  ASSUME NEW cl \in Client
  PROVE  /\ LET new == [cl EXCEPT !.last_cmd = NULL]
            IN /\ new \in Client
               /\ new.fd = cl.fd /\ new.keep_alive = cl.keep_alive
               /\ new.last_cmd = NULL /\ new.reused_cmd = cl.reused_cmd
         /\ LET new == [cl EXCEPT !.reused_cmd = NULL]
            IN /\ new \in Client
               /\ new.fd = cl.fd /\ new.keep_alive = cl.keep_alive
               /\ new.last_cmd = cl.last_cmd /\ new.reused_cmd = NULL
  BY DEF Client

(* What cmd_free(k) does to client d.                                      *)
FreedIn(d, k) ==
  /\ client[d] = NULL => client'[d] = NULL
  /\ client[d] # NULL =>
       /\ client'[d] \in Client
       /\ client'[d].fd = client[d].fd
       /\ client'[d].reused_cmd = client[d].reused_cmd
       /\ client'[d].last_cmd = IF client[d].last_cmd = k THEN NULL ELSE client[d].last_cmd

(* cmd_free takes the cmd from the client that points to it, and nothing   *)
(* else from any client.                                                   *)
LEMMA FreedClients ==
  ASSUME TypeOK, ClientLinks, NEW k \in Cmds, cmd_free(k), NEW d \in Conns
  PROVE  FreedIn(d, k)
<1>1. client'[d] = IF client[d] # NULL /\ cmd[k].http_client = d /\ client[d].last_cmd = k
                     THEN [client[d] EXCEPT !.last_cmd = NULL] ELSE client[d]
  BY DEF cmd_free
<1>2. client[d] # NULL => client[d] \in Client
  BY DEF TypeOK
<1>3. client[d] # NULL /\ client[d].last_cmd = k => cmd[k].http_client = d
  BY DEF ClientLinks
<1>4. CASE client[d] # NULL /\ client[d].last_cmd = k
  <2>1. client'[d] = [client[d] EXCEPT !.last_cmd = NULL]
    BY <1>1, <1>3, <1>4
  <2> QED BY <1>2, <1>4, <2>1, UnlinkedFields, ZenonT(60) DEF FreedIn
<1>5. CASE ~(client[d] # NULL /\ client[d].last_cmd = k)
  <2>1. client'[d] = client[d]
    BY <1>1, <1>5
  <2> QED BY <1>2, <1>5, <2>1 DEF FreedIn
<1> QED BY <1>4, <1>5

(* What format_send_error does to client d.                                *)
ForgottenIn(d) ==
  /\ client[d] = NULL => client'[d] = NULL
  /\ client[d] # NULL =>
       /\ client'[d] \in Client
       /\ client'[d].fd = client[d].fd
       /\ client'[d].last_cmd = client[d].last_cmd
       /\ client'[d].reused_cmd \in {NULL, client[d].reused_cmd}

(* format_send_error takes the subscription from the client that has it,   *)
(* and nothing else from any client.                                       *)
LEMMA ForgottenClients ==
  ASSUME TypeOK, NEW k \in Cmds, format_send_error_sub(k), NEW d \in Conns
  PROVE  ForgottenIn(d)
<1>1. client'[d] = IF client[d] # NULL /\ cmd[k].pub_sub_client = d
                     THEN [client[d] EXCEPT !.reused_cmd = NULL] ELSE client[d]
  BY DEF format_send_error_sub
<1>2. client[d] # NULL => client[d] \in Client
  BY DEF TypeOK
<1> QED BY <1>1, <1>2, UnlinkedFields DEF ForgottenIn

(* A response of a cmd names a descriptor: without one it is dropped.      *)
LEMMA WriteIsTyped ==
  ASSUME writes \subseteq Response, NEW m \in Cmd, NEW ka \in BOOLEAN, NEW part \in 0 .. MaxMsg
  PROVE  http_response_write(m.fd, ka, m.req, part) \subseteq Response
<1>1. CASE m.fd = NULL
  BY <1>1 DEF http_response_write
<1>2. CASE m.fd # NULL
  <2>1. m.fd \in Fds /\ m.req \in Conns \X (1 .. MaxReq)
    BY <1>2 DEF Cmd
  <2>2. [fd |-> m.fd, keep_alive |-> ka, req |-> m.req, part |-> part] \in Response
    BY <2>1 DEF Response
  <2> QED BY <1>2, <2>2 DEF http_response_write
<1> QED BY <1>1, <1>2

(* The kinds of request that become a cmd.                                 *)
CmdKinds == {"cmd", "mon", "unsub", "sub"}

(* A command waits on a connection, or is refused and waits nowhere.       *)
LEMMA SentTypes ==
  ASSUME TypeOK, NEW k \in Cmds, NEW kind, redisAsyncCommandArgv(k, kind)
  PROVE  /\ queue' \in [PoolCtx -> Seq(Cmds)] /\ own' \subseteq Cmds
         /\ monitoring' \subseteq PoolCtx \cup Cmds
<1>1. CASE UNCHANGED <<queue, own>> /\ monitoring' = monitoring \ {k}
  BY <1>1 DEF TypeOK
<1>2. ASSUME NEW p \in PoolCtx, queue' = [queue EXCEPT ![p] = Append(@, k)], UNCHANGED own,
             monitoring' = (monitoring \ {k}) \cup (IF kind = "mon" THEN {p} ELSE {})
      PROVE  /\ queue' \in [PoolCtx -> Seq(Cmds)] /\ own' \subseteq Cmds
             /\ monitoring' \subseteq PoolCtx \cup Cmds
  <2>1. Append(queue[p], k) \in Seq(Cmds)
    BY DEF TypeOK
  <2> QED BY <1>2, <2>1 DEF TypeOK
<1>3. CASE /\ own' = own \cup {k} /\ UNCHANGED queue
           /\ monitoring' = IF kind = "mon" THEN monitoring \cup {k} ELSE monitoring \ {k}
  BY <1>3 DEF TypeOK
<1> QED BY <1>1, <1>2, <1>3 DEF redisAsyncCommandArgv

(* The types of what worker_process_client changes.                        *)
ProcessTypes ==
  /\ got \in [Conns -> Seq(Answer)]
  /\ owner \in [Fds -> Conns \cup {NULL}]
  /\ client \in [Conns -> Client \cup {NULL}]
  /\ cmd \in [Cmds -> Cmd \cup {NULL}]
  /\ queue \in [PoolCtx -> Seq(Cmds)]
  /\ own \subseteq Cmds
  /\ msgs \in [Cmds -> 0 .. MaxMsg]
  /\ monitoring \subseteq PoolCtx \cup Cmds
  /\ stranded \subseteq Conns

(* TypeOK says so.                                                         *)
LEMMA ProcessTyped == TypeOK => ProcessTypes
  BY DEF TypeOK, ProcessTypes, Answer

(* A request, whatever it is, leaves pointers to live cmds only.           *)
LEMMA ProcessLinks ==
  ASSUME LinkInv, NEW c \in Conns, client[c] # NULL, NEW kind \in Kinds,
         NEW ka \in BOOLEAN, NEW hd \in BOOLEAN, NEW n \in 1 .. MaxReq,
         worker_process_client(c, kind, ka, hd, n)
  PROVE  ProcessTypes' /\ CmdLinks' /\ ClientLinks'
<1> USE DEF LinkInv
<1>1. client[c] \in Client
  BY DEF TypeOK
<1>2. ProcessTypes
  BY ProcessTyped
<1>3. CASE kind = "plain"
  <2>1. /\ http_send_error(c, ka, n)
        /\ http_client_reset(c, [client[c] EXCEPT !.keep_alive = ka])
        /\ UNCHANGED <<cmd, queue, own, msgs, monitoring, stranded>>
    BY <1>3 DEF worker_process_client
  <2>2. got' \in [Conns -> Seq(Answer)] /\ owner' \in [Fds -> Conns \cup {NULL}]
    BY <2>1, SendErrorTypes
  <2>3. [client[c] EXCEPT !.keep_alive = ka] \in Client
    BY <1>1 DEF Client
  <2>4. ProcessTypes'
    BY <1>2, <2>1, <2>2, <2>3 DEF ProcessTypes, http_client_reset
  <2>5. CmdLinks' /\ ClientLinks'
    BY <1>1, <1>2, <2>1 DEF ProcessTypes, CmdLinks, ClientLinks, http_client_reset, Client
  <2> QED BY <2>4, <2>5
<1>4. CASE kind = "denied"
  <2>1. /\ http_send_error(c, ka, n)
        /\ http_client_reset(c, [client[c] EXCEPT !.keep_alive = ka, !.last_cmd = NULL])
        /\ UNCHANGED <<cmd, queue, own, msgs, monitoring, stranded>>
    BY <1>4 DEF worker_process_client
  <2>2. got' \in [Conns -> Seq(Answer)] /\ owner' \in [Fds -> Conns \cup {NULL}]
    BY <2>1, SendErrorTypes
  <2>3. [client[c] EXCEPT !.keep_alive = ka, !.last_cmd = NULL] \in Client
    BY <1>1 DEF Client
  <2>4. ProcessTypes'
    BY <1>2, <2>1, <2>2, <2>3 DEF ProcessTypes, http_client_reset
  <2>5. CmdLinks' /\ ClientLinks'
    BY <1>1, <1>2, <2>1 DEF ProcessTypes, CmdLinks, ClientLinks, http_client_reset, Client
  <2> QED BY <2>4, <2>5
<1>5. ASSUME kind \in CmdKinds, cmd_run_sent(c, kind, ka, hd, n)
      PROVE  ProcessTypes' /\ CmdLinks' /\ ClientLinks'
  <2>1. PICK k \in Cmds :
          /\ cmd[k] = NULL
          /\ cmd' = [cmd EXCEPT ![k] = cmd_setup(c, kind, ka, hd, n)]
          /\ msgs' = [msgs EXCEPT ![k] = 0]
          /\ redisAsyncCommandArgv(k, kind)
          /\ http_client_reset(c, WithCmd(client[c], kind, ka, k))
          /\ stranded' \subseteq stranded \cup {c}
          /\ UNCHANGED <<got, owner>>
    BY <1>5 DEF cmd_run_sent, WithCmd
  <2> DEFINE new == WithCmd(client[c], kind, ka, k)
  <2>2. /\ new \in Client
        /\ new.fd = client[c].fd
        /\ new.keep_alive = ka
        /\ new.last_cmd = k
        /\ new.reused_cmd = IF kind = "sub" THEN k ELSE client[c].reused_cmd
    BY <1>1, WithCmdFields
  <2>3. client' = [client EXCEPT ![c] = IF ka THEN new ELSE NULL]
    BY <2>1, <2>2 DEF http_client_reset
  <2> HIDE DEF new
  <2>4. cmd_setup(c, kind, ka, hd, n) \in Cmd
    BY <1>1, <1>5 DEF cmd_setup, Cmd, Client, CmdKinds
  <2>5. /\ queue' \in [PoolCtx -> Seq(Cmds)] /\ own' \subseteq Cmds
        /\ monitoring' \subseteq PoolCtx \cup Cmds
    BY <2>1, SentTypes
  <2>6. ProcessTypes'
    BY <1>2, <2>1, <2>2, <2>3, <2>4, <2>5 DEF ProcessTypes
  <2>7. CmdLinks'
    BY <1>2, <1>5, <2>1 DEF ProcessTypes, CmdLinks, cmd_setup
  <2>8. \A d \in Conns : client[d] # NULL =>
          /\ client[d].last_cmd # k
          /\ client[d].reused_cmd # k
    BY <2>1 DEF ClientLinks
  <2>9. ASSUME NEW d \in Conns, client'[d] # NULL, d # c
        PROVE  client'[d] = client[d] /\ client[d] \in Client
    BY <1>2, <2>3, <2>9 DEF ProcessTypes
  <2>10. /\ cmd'[k] # NULL
         /\ cmd'[k].http_client = c
         /\ cmd'[k].fd = client[c].fd
         /\ kind = "sub" => cmd'[k].kind = "sub" /\ cmd'[k].pub_sub_client = c
         /\ \A j \in Cmds : j # k => cmd'[j] = cmd[j]
    BY <1>2, <2>1, <2>4 DEF ProcessTypes, cmd_setup
  <2>11. ASSUME ka
         PROVE  client'[c] = new
    BY <1>2, <2>3, <2>11 DEF ProcessTypes
  <2>12. ~ka => client'[c] = NULL
    BY <1>2, <2>3 DEF ProcessTypes
  <2>13. ClientLinks'
    BY <1>1, <2>2, <2>8, <2>9, <2>10, <2>11, <2>12 DEF ClientLinks, Client
  <2> QED BY <2>6, <2>7, <2>13
<1>6. ASSUME kind \in CmdKinds, cmd_run_unavailable(c, kind, ka, n)
      PROVE  ProcessTypes' /\ CmdLinks' /\ ClientLinks'
  <2>1. PICK reused \in {client[c].reused_cmd, NULL} :
          http_client_reset(c, [client[c] EXCEPT !.keep_alive = ka, !.last_cmd = NULL,
                                                 !.reused_cmd = reused])
    BY <1>6 DEF cmd_run_unavailable
  <2>2. /\ http_send_error(c, ka, n)
        /\ UNCHANGED <<cmd, queue, own, msgs, monitoring, stranded>>
    BY <1>6 DEF cmd_run_unavailable
  <2>3. got' \in [Conns -> Seq(Answer)] /\ owner' \in [Fds -> Conns \cup {NULL}]
    BY <2>2, SendErrorTypes
  <2>4. [client[c] EXCEPT !.keep_alive = ka, !.last_cmd = NULL, !.reused_cmd = reused] \in Client
    BY <1>1, <2>1 DEF Client
  <2>5. ProcessTypes'
    BY <1>2, <2>1, <2>2, <2>3, <2>4 DEF ProcessTypes, http_client_reset
  <2>6. CmdLinks' /\ ClientLinks'
    BY <1>1, <1>2, <2>1, <2>2 DEF ProcessTypes, CmdLinks, ClientLinks, http_client_reset, Client
  <2> QED BY <2>5, <2>6
<1> QED BY <1>3, <1>4, <1>5, <1>6 DEF worker_process_client, CmdKinds, Kinds

(* A callback that has run is taken from where it was waiting, or put back *)
(* there.                                                                  *)
LEMMA CallbackDoneTypes ==
  ASSUME TypeOK, NEW k \in Cmds, callback_done(k)
  PROVE  queue' \in [PoolCtx -> Seq(Cmds)] /\ own' \subseteq Cmds
<1>1. CASE own' \subseteq own /\ UNCHANGED queue
  BY <1>1 DEF TypeOK
<1>2. ASSUME NEW p \in PoolCtx, queue[p] # <<>>, UNCHANGED own,
             \/ queue' = [queue EXCEPT ![p] = Tail(@)]
             \/ queue' = [queue EXCEPT ![p] = Append(Tail(@), k)]
      PROVE  queue' \in [PoolCtx -> Seq(Cmds)] /\ own' \subseteq Cmds
  <2>1. Tail(queue[p]) \in Seq(Cmds) /\ Append(Tail(queue[p]), k) \in Seq(Cmds)
    BY <1>2 DEF TypeOK
  <2>2. CASE queue' = [queue EXCEPT ![p] = Tail(@)]
    BY <1>2, <2>1, <2>2 DEF TypeOK
  <2>3. CASE queue' = [queue EXCEPT ![p] = Append(Tail(@), k)]
    BY <1>2, <2>1, <2>3 DEF TypeOK
  <2> QED BY <1>2, <2>2, <2>3
<1> QED BY <1>1, <1>2 DEF callback_done

(* Every handler preserves the types and the pointers.                     *)
LEMMA StepLinkInv == LinkInv /\ [Next]_vars => LinkInv'
<1> SUFFICES ASSUME LinkInv, [Next]_vars PROVE LinkInv'
  OBVIOUS
<1> USE DEF LinkInv
<1>1. ASSUME NEW c \in Conns, server_can_accept(c) PROVE LinkInv'
  <2>1. PICK f \in Fds : /\ owner' = [owner EXCEPT ![f] = c]
                         /\ client' = [client EXCEPT ![c] = http_client_new(f)]
    BY <1>1 DEF server_can_accept
  <2>2. http_client_new(f) \in Client
    BY DEF http_client_new, Client
  <2>3. /\ peer' = [peer EXCEPT ![c] = "open"]
        /\ UNCHANGED <<inbox, sent, got, cmd, queue, own, writes, msgs,
                       monitoring, hasty, stranded>>
    BY <1>1 DEF server_can_accept
  <2>4. TypeOK'
    BY <2>1, <2>2, <2>3 DEF TypeOK
  <2>5. ReadWithinSent' /\ CmdLinks'
    BY <2>3 DEF ReadWithinSent, CmdLinks
  <2>6. ClientLinks'
    BY <2>1, <2>3 DEF ClientLinks, http_client_new, TypeOK
  <2> QED BY <2>4, <2>5, <2>6
<1>2. ASSUME NEW c \in Conns, peer_sends(c) PROVE LinkInv'
  <2>1. PICK r \in Requests : inbox' = [inbox EXCEPT ![c] = Append(@, r)]
    BY <1>2 DEF peer_sends
  <2>2. /\ sent' = [sent EXCEPT ![c] = @ + 1]
        /\ sent[c] < MaxReq
        /\ UNCHANGED <<peer, got, owner, client, cmd, queue, own, writes, msgs,
                       monitoring, hasty, stranded>>
    BY <1>2 DEF peer_sends
  <2>3. /\ Append(inbox[c], r) \in Seq(Requests)
        /\ Len(Append(inbox[c], r)) = Len(inbox[c]) + 1
        /\ Len(inbox[c]) \in Nat
    BY DEF TypeOK
  <2>4. sent[c] + 1 \in 0 .. MaxReq
    BY <2>2 DEF TypeOK
  <2>5. TypeOK'
    BY <2>1, <2>2, <2>3, <2>4 DEF TypeOK
  <2>6. ReadWithinSent'
    BY <2>1, <2>2, <2>3 DEF TypeOK, ReadWithinSent
  <2>7. CmdLinks' /\ ClientLinks'
    BY <2>2 DEF CmdLinks, ClientLinks
  <2> QED BY <2>5, <2>6, <2>7
<1>3. ASSUME NEW c \in Conns, peer_closes(c) PROVE LinkInv'
  BY <1>3 DEF peer_closes, TypeOK, ReadWithinSent, CmdLinks, ClientLinks
<1>4. ASSUME NEW c \in Conns, worker_can_read(c) PROVE LinkInv'
  <2>1. /\ client[c] \in Client
        /\ inbox' = [inbox EXCEPT ![c] = Tail(@)]
        /\ Tail(inbox[c]) \in Seq(Requests)
        /\ Len(Tail(inbox[c])) = Len(inbox[c]) - 1
        /\ Len(inbox[c]) \in Nat \ {0}
        /\ UNCHANGED <<peer, sent, writes>>
    BY <1>4, ReadArguments
  <2>2. PICK kind \in Kinds, ka \in BOOLEAN, hd \in BOOLEAN, n \in 1 .. MaxReq :
          /\ worker_process_client(c, kind, ka, hd, n)
          /\ hasty' \subseteq hasty \cup {c}
    BY <1>4, ReadArguments
  <2>4. ProcessTypes' /\ CmdLinks' /\ ClientLinks'
    BY <2>1, <2>2, ProcessLinks
  <2>5. inbox' \in [Conns -> Seq(Requests)] /\ ReadWithinSent' /\ hasty' \subseteq Conns
    BY <2>1, <2>2 DEF TypeOK, ReadWithinSent
  <2> QED BY <2>1, <2>4, <2>5 DEF TypeOK, ProcessTypes, Answer
<1>5. ASSUME NEW c \in Conns, http_client_read_eof(c) PROVE LinkInv'
  <2> DEFINE cl == client[c]
  <2>1. /\ cl # NULL
        /\ cmd' = [k \in Cmds |-> IF k = cl.reused_cmd THEN NULL
                                  ELSE IF k = cl.last_cmd THEN CutOff(cmd[k]) ELSE cmd[k]]
        /\ own' \subseteq own
        /\ owner' = [owner EXCEPT ![cl.fd] = NULL]
        /\ client' = [client EXCEPT ![c] = NULL]
        /\ hasty' \subseteq hasty \cup {c}
        /\ UNCHANGED <<peer, inbox, sent, got, queue, writes, msgs, monitoring, stranded>>
    BY <1>5 DEF http_client_read_eof, Readable, CutOff
  <2>2. cl \in Client
    BY <2>1 DEF TypeOK
  <2>3. \A k \in Cmds : k = cl.last_cmd => cmd[k] \in Cmd
    BY <2>1, <2>2 DEF ClientLinks, TypeOK
  <2>4. \A k \in Cmds :
          k = cl.last_cmd =>
            /\ CutOff(cmd[k]) \in Cmd
            /\ CutOff(cmd[k]).http_client = NULL
            /\ CutOff(cmd[k]).kind = cmd[k].kind
            /\ CutOff(cmd[k]).pub_sub_client = cmd[k].pub_sub_client
            /\ CutOff(cmd[k]).req = cmd[k].req
    BY <2>3, CutOffFields
  <2>5. cmd' \in [Cmds -> Cmd \cup {NULL}]
    BY <2>1, <2>4 DEF TypeOK
  <2>6. TypeOK'
    BY <2>1, <2>2, <2>5 DEF TypeOK, Client
  <2>7. ReadWithinSent'
    BY <2>1 DEF ReadWithinSent
  <2>8. CmdLinks'
    BY <2>1, <2>3, <2>4 DEF CmdLinks
  <2>9. ASSUME NEW d \in Conns, client'[d] # NULL
        PROVE  d # c /\ client'[d] = client[d] /\ client[d] \in Client
    BY <2>1, <2>9 DEF TypeOK
  <2>10. ASSUME NEW d \in Conns, d # c, client[d] # NULL,
                NEW k \in Cmds, k \in {client[d].last_cmd, client[d].reused_cmd}
         PROVE  cmd'[k] = cmd[k]
    <3>1. k # cl.reused_cmd /\ k # cl.last_cmd
      BY <2>1, <2>2, <2>10 DEF CmdLinks, ClientLinks, Client
    <3> QED BY <2>1, <3>1
  <2>11. ClientLinks'
    <3> SUFFICES ASSUME NEW d \in Conns, client'[d] # NULL
                 PROVE  ClientLinks!(d)'
      BY DEF ClientLinks
    <3>1. d # c /\ client'[d] = client[d] /\ client[d] \in Client
      BY <2>9
    <3>2. ClientLinks!(d)
      BY <3>1 DEF ClientLinks
    <3> QED BY <3>1, <3>2, <2>10 DEF Client
  <2> QED BY <2>6, <2>7, <2>8, <2>11
<1>6. ASSUME NEW k \in Cmds, format_send_reply(k) PROVE LinkInv'
  <2>1. /\ cmd[k] \in Cmd /\ cmd[k].kind # "sub"
        /\ callback_done(k)
        /\ writes' = http_response_write(cmd[k].fd, cmd[k].keep_alive, cmd[k].req, 0)
        /\ cmd_free(k)
        /\ UNCHANGED <<peer, inbox, sent, got, owner, msgs, monitoring, hasty, stranded>>
    BY <1>6 DEF format_send_reply, TypeOK
  <2>2. writes' \subseteq Response
    <3>1. cmd[k].keep_alive \in BOOLEAN /\ 0 \in 0 .. MaxMsg /\ writes \subseteq Response
      BY <2>1 DEF Cmd, TypeOK
    <3> QED BY <2>1, <3>1, WriteIsTyped
  <2>3. queue' \in [PoolCtx -> Seq(Cmds)] /\ own' \subseteq Cmds
    BY <2>1, CallbackDoneTypes
  <2>4. cmd' = [cmd EXCEPT ![k] = NULL]
    BY <2>1 DEF cmd_free
  <2>5. ASSUME NEW d \in Conns PROVE FreedIn(d, k)
    BY <2>1, FreedClients
  <2>6. client' \in [Conns -> Client \cup {NULL}]
    BY <2>1, <2>5 DEF cmd_free, FreedIn
  <2>7. TypeOK'
    BY <2>1, <2>2, <2>3, <2>4, <2>6 DEF TypeOK
  <2>8. ReadWithinSent' /\ CmdLinks'
    BY <2>1, <2>4 DEF ReadWithinSent, CmdLinks, TypeOK
  <2>9. ClientLinks'
    <3> SUFFICES ASSUME NEW d \in Conns, client'[d] # NULL
                 PROVE  ClientLinks!(d)'
      BY DEF ClientLinks
    <3>0. client[d] # NULL
      BY <2>5 DEF FreedIn
    <3>1. client[d] \in Client /\ ClientLinks!(d)
      BY <3>0 DEF ClientLinks, TypeOK
    <3>2. client[d].reused_cmd # k
      BY <2>1, <3>1
    <3> QED BY <2>4, <2>5, <3>1, <3>2 DEF Client, TypeOK, FreedIn
  <2> QED BY <2>7, <2>8, <2>9
<1>7. ASSUME NEW k \in Cmds, format_send_message(k) PROVE LinkInv'
  <2>1. /\ cmd[k] \in Cmd
        /\ msgs[k] < MaxMsg
        /\ msgs' = [msgs EXCEPT ![k] = @ + 1]
        /\ writes' = http_response_write(cmd[k].fd, TRUE, cmd[k].req, msgs[k] + 1)
        /\ UNCHANGED <<peer, inbox, sent, got, owner, client, cmd, queue, own,
                       monitoring, hasty, stranded>>
    BY <1>7 DEF format_send_message, TypeOK
  <2>2. msgs[k] + 1 \in 0 .. MaxMsg
    BY <2>1 DEF TypeOK
  <2>3. writes' \subseteq Response
    BY <2>1, <2>2, WriteIsTyped DEF TypeOK
  <2>4. TypeOK'
    BY <2>1, <2>2, <2>3 DEF TypeOK
  <2> QED BY <2>1, <2>4 DEF ReadWithinSent, CmdLinks, ClientLinks
<1>8. ASSUME NEW k \in Cmds, format_send_error_sub(k) PROVE LinkInv'
  <2>1. /\ own' = own \ {k}
        /\ client' = [c \in Conns |-> IF client[c] # NULL /\ cmd[k].pub_sub_client = c
                                      THEN [client[c] EXCEPT !.reused_cmd = NULL]
                                      ELSE client[c]]
        /\ UNCHANGED <<peer, inbox, sent, got, owner, cmd, queue, writes, msgs,
                       monitoring, hasty, stranded>>
    BY <1>8 DEF format_send_error_sub
  <2>2. ASSUME NEW d \in Conns PROVE ForgottenIn(d)
    BY <1>8, ForgottenClients
  <2>3. client' \in [Conns -> Client \cup {NULL}]
    BY <2>1, <2>2 DEF ForgottenIn
  <2>4. TypeOK'
    BY <2>1, <2>3 DEF TypeOK
  <2>5. ReadWithinSent' /\ CmdLinks'
    BY <2>1 DEF ReadWithinSent, CmdLinks
  <2>6. ClientLinks'
    BY <2>1, <2>2 DEF ClientLinks, ForgottenIn
  <2> QED BY <2>4, <2>5, <2>6
<1>9. ASSUME NEW r \in writes, http_can_write(r) PROVE LinkInv'
  <2>1. r.fd \in Fds /\ r.keep_alive \in BOOLEAN /\ r.req \in Conns \X (1 .. MaxReq)
        /\ r.part \in 0 .. MaxMsg
    BY DEF TypeOK, Response
  <2>2. PICK success \in BOOLEAN :
          /\ got' = IF success THEN Delivered(r.fd, r.req, r.part) ELSE got
          /\ owner' = http_response_cleanup(r.fd, r.keep_alive, success)
    BY <1>9, OutcomesAreBoolean DEF http_can_write
  <2>3. got' \in [Conns -> Seq(Answer)] /\ owner' \in [Fds -> Conns \cup {NULL}]
    BY <2>1, <2>2, WriteTypes, ProcessTyped DEF ProcessTypes
  <2>4. /\ writes' = writes \ {r}
        /\ UNCHANGED <<peer, inbox, sent, client, cmd, queue, own, msgs,
                       monitoring, hasty, stranded>>
    BY <1>9 DEF http_can_write
  <2>5. TypeOK'
    BY <2>3, <2>4 DEF TypeOK, Answer
  <2> QED BY <2>4, <2>5 DEF ReadWithinSent, CmdLinks, ClientLinks
<1>10. CASE UNCHANGED vars
  BY <1>10 DEF vars, TypeOK, ReadWithinSent, CmdLinks, ClientLinks
<1> QED BY <1>1, <1>2, <1>3, <1>4, <1>5, <1>6, <1>7, <1>8, <1>9, <1>10 DEF Next

(* The handlers keep every variable in its type: a cmd or client is only   *)
(* ever changed through a pointer to one that exists, and no request is    *)
(* numbered beyond those the peer sent.                                    *)
THEOREM TypeCorrect == Spec => []TypeOK
<1>1. LinkInv => TypeOK
  BY DEF LinkInv
<1> QED BY <1>1, InitLinkInv, StepLinkInv, PTL DEF Spec

-----------------------------------------------------------------------------
(* The cmds waiting in the pool's contexts are live, but for one that a    *)
(* context told to MONITOR has kept; they are no subscriptions, and each   *)
(* waits in one place only.                                                *)
QueuedAreLive ==
  \A p \in PoolCtx : \A i \in 1 .. Len(queue[p]) :
    /\ cmd[queue[p][i]] # NULL \/ p \in monitoring
    /\ cmd[queue[p][i]] # NULL => cmd[queue[p][i]].kind # "sub"
    /\ queue[p][i] \notin own

QueuedOnce ==
  \A p, q \in PoolCtx : \A i \in 1 .. Len(queue[p]), j \in 1 .. Len(queue[q]) :
    queue[p][i] = queue[q][j] => p = q /\ i = j

(* So are those with a context of their own, but for a subscription cut    *)
(* off before its context was greeted, and a MONITOR.                      *)
OwnAreLive ==
  \A k \in own : cmd[k] # NULL \/ (Greeting /\ msgs[k] = 0) \/ k \in monitoring

FlightInv == QueuedAreLive /\ QueuedOnce /\ OwnAreLive

(* Initially nothing is in flight.                                         *)
LEMMA InitFlightInv == Init => FlightInv
  BY DEF Init, FlightInv, QueuedAreLive, QueuedOnce, OwnAreLive

(* InFlight in terms of positions.                                         *)
LEMMA InFlightElements ==
  ASSUME TypeOK
  PROVE  /\ InFlight \subseteq Cmds
         /\ \A k \in Cmds : k \in InFlight <=>
              k \in own \/ \E p \in PoolCtx : \E i \in 1 .. Len(queue[p]) : queue[p][i] = k
<1>1. ASSUME NEW p \in PoolCtx
      PROVE  /\ DOMAIN queue[p] = 1 .. Len(queue[p])
             /\ \A i \in 1 .. Len(queue[p]) : queue[p][i] \in Cmds
  <2>1. queue[p] \in Seq(Cmds)
    BY DEF TypeOK
  <2> QED BY <2>1
<1>2. \A p \in PoolCtx : Range(queue[p]) = {queue[p][i] : i \in 1 .. Len(queue[p])}
  BY <1>1, Zenon DEF Range
<1>3. \A k : k \in InFlight <=> k \in own \/ \E p \in PoolCtx : k \in Range(queue[p])
  BY Zenon DEF InFlight
<1>4. \A k : k \in InFlight <=>
        k \in own \/ \E p \in PoolCtx : \E i \in 1 .. Len(queue[p]) : queue[p][i] = k
  <2>1. \A p \in PoolCtx : \A k : k \in Range(queue[p]) <=>
          \E i \in 1 .. Len(queue[p]) : queue[p][i] = k
    <3> SUFFICES ASSUME NEW p \in PoolCtx, NEW k
                 PROVE  k \in Range(queue[p]) <=> \E i \in 1 .. Len(queue[p]) : queue[p][i] = k
      OBVIOUS
    <3>1. Range(queue[p]) = {queue[p][i] : i \in 1 .. Len(queue[p])}
      BY <1>2
    <3> QED BY <3>1
  <2> QED BY <1>3, <2>1, Zenon
<1> QED BY <1>1, <1>4 DEF TypeOK

(* The callback that runs is the only one of its cmd.  It is gone, or its  *)
(* context was told to MONITOR.                                            *)
LEMMA CallbackDoneFlight ==
  ASSUME TypeOK, FlightInv, NEW k \in Cmds, callback_done(k)
  PROVE  /\ own' \subseteq own
         /\ k \in own' => k \in monitoring
         /\ \A p \in PoolCtx : \A i \in 1 .. Len(queue'[p]) :
              /\ \E j \in 1 .. Len(queue[p]) : queue'[p][i] = queue[p][j]
              /\ queue'[p][i] = k => p \in monitoring
         /\ QueuedOnce'
<1> USE DEF FlightInv
<1>1. CASE /\ k \in own /\ UNCHANGED queue
           /\ own' = own \ {k} \/ (k \in monitoring /\ UNCHANGED own)
  BY <1>1 DEF QueuedAreLive, QueuedOnce
<1>2. ASSUME NEW p \in PoolCtx, queue[p] # <<>>, k = Head(queue[p]), UNCHANGED own,
             \/ queue' = [queue EXCEPT ![p] = Tail(@)]
             \/ p \in monitoring /\ queue' = [queue EXCEPT ![p] = Append(Tail(@), k)]
      PROVE  /\ own' \subseteq own
             /\ k \in own' => k \in monitoring
             /\ \A q \in PoolCtx : \A i \in 1 .. Len(queue'[q]) :
                  /\ \E j \in 1 .. Len(queue[q]) : queue'[q][i] = queue[q][j]
                  /\ queue'[q][i] = k => q \in monitoring
             /\ QueuedOnce'
  <2>1. /\ queue[p] \in Seq(Cmds)
        /\ Len(queue[p]) \in Nat
        /\ 1 \in 1 .. Len(queue[p])
        /\ queue[p][1] = k
    BY <1>2 DEF TypeOK
  <2> DEFINE n == Len(queue[p])
             at(q, i) == IF q # p THEN i ELSE IF i = n THEN 1 ELSE i + 1
  <2>2. /\ \A q \in PoolCtx : q # p => queue'[q] = queue[q]
        /\ queue'[p] \in Seq(Cmds)
        /\ Len(queue'[p]) = n - 1 \/ (Len(queue'[p]) = n /\ p \in monitoring)
        /\ \A i \in 1 .. Len(queue'[p]) :
             /\ at(p, i) \in 1 .. n
             /\ queue'[p][i] = queue[p][at(p, i)]
    <3>1. /\ Tail(queue[p]) \in Seq(Cmds)
          /\ Len(Tail(queue[p])) = n - 1
          /\ \A i \in 1 .. n - 1 : Tail(queue[p])[i] = queue[p][i + 1]
      BY <1>2, <2>1
    <3>2. CASE queue' = [queue EXCEPT ![p] = Tail(@)]
      <4>1. queue'[p] = Tail(queue[p]) /\ \A q \in PoolCtx : q # p => queue'[q] = queue[q]
        BY <3>2 DEF TypeOK
      <4> QED BY <2>1, <3>1, <4>1
    <3>3. CASE p \in monitoring /\ queue' = [queue EXCEPT ![p] = Append(Tail(@), k)]
      <4>1. /\ queue'[p] = Append(Tail(queue[p]), k)
            /\ \A q \in PoolCtx : q # p => queue'[q] = queue[q]
        BY <3>3 DEF TypeOK
      <4>2. /\ Append(Tail(queue[p]), k) \in Seq(Cmds)
            /\ Len(Append(Tail(queue[p]), k)) = n
            /\ \A i \in 1 .. n - 1 : Append(Tail(queue[p]), k)[i] = queue[p][i + 1]
            /\ Append(Tail(queue[p]), k)[n] = k
        BY <2>1, <3>1
      <4>3. \A i \in 1 .. n : at(p, i) \in 1 .. n /\ queue'[p][i] = queue[p][at(p, i)]
        BY <2>1, <4>1, <4>2
      <4>4. Len(queue'[p]) = n
        BY <4>1, <4>2
      <4> QED BY <3>3, <4>1, <4>2, <4>3, <4>4
    <3> QED BY <1>2, <3>2, <3>3
  <2>3. k \notin own'
    BY <1>2, <2>1 DEF QueuedAreLive
  <2>4. /\ queue \in [PoolCtx -> Seq(Cmds)] /\ queue' \in [PoolCtx -> Seq(Cmds)]
        /\ \A q \in PoolCtx : Len(queue[q]) \in Nat /\ Len(queue'[q]) \in Nat
    <3>1. queue' \in [PoolCtx -> Seq(Cmds)]
      BY CallbackDoneTypes
    <3>2. \A s \in Seq(Cmds) : Len(s) \in Nat
      OBVIOUS
    <3> QED BY <3>1, <3>2 DEF TypeOK
  <2>5. ASSUME NEW q \in PoolCtx, NEW i \in 1 .. Len(queue'[q])
        PROVE  at(q, i) \in 1 .. Len(queue[q]) /\ queue'[q][i] = queue[q][at(q, i)]
    BY <2>2, <2>4
  <2>6. ASSUME NEW q \in PoolCtx, NEW i \in 1 .. Len(queue'[q]), NEW j \in 1 .. Len(queue'[q]),
               at(q, i) = at(q, j)
        PROVE  i = j
    <3>1. i \in Nat \ {0} /\ j \in Nat \ {0} /\ n \in Nat
      BY <2>1, <2>4
    <3> QED BY <2>6, <3>1
  <2>7. ASSUME NEW q \in PoolCtx, NEW i \in 1 .. Len(queue'[q]), queue'[q][i] = k
        PROVE  q \in monitoring
    <3>1. queue[q][at(q, i)] = queue[p][1] /\ at(q, i) \in 1 .. Len(queue[q])
      BY <2>1, <2>5, <2>7
    <3>2. q = p /\ at(q, i) = 1
      <4> HIDE DEF at
      <4> QED BY <2>1, <3>1 DEF QueuedOnce
    <3> QED BY <2>1, <2>2, <2>4, <3>2
  <2>8. QueuedOnce'
    <3> HIDE DEF at
    <3> SUFFICES ASSUME NEW q \in PoolCtx, NEW r \in PoolCtx,
                        NEW i \in 1 .. Len(queue'[q]), NEW j \in 1 .. Len(queue'[r]),
                        queue'[q][i] = queue'[r][j]
                 PROVE  q = r /\ i = j
      BY DEF QueuedOnce
    <3>1. PICK x \in 1 .. Len(queue[q]) : x = at(q, i) /\ queue'[q][i] = queue[q][x]
      BY <2>5
    <3>2. PICK y \in 1 .. Len(queue[r]) : y = at(r, j) /\ queue'[r][j] = queue[r][y]
      BY <2>5
    <3>3. q = r /\ x = y
      <4>1. queue[q][x] = queue[r][y]
        BY <3>1, <3>2
      <4> QED BY <4>1 DEF QueuedOnce
    <3> QED BY <2>6, <3>1, <3>2, <3>3
  <2>9. \A q \in PoolCtx : \A i \in 1 .. Len(queue'[q]) :
          \E j \in 1 .. Len(queue[q]) : queue'[q][i] = queue[q][j]
    <3> HIDE DEF at
    <3> QED BY <2>5
  <2> QED BY <1>2, <2>3, <2>7, <2>8, <2>9
<1> QED BY <1>1, <1>2 DEF callback_done

(* Only cmd_run, http_client_read and the callbacks touch cmds in flight.  *)
LEMMA ProcessFlight ==
  ASSUME TypeOK, FlightInv, NEW c \in Conns, client[c] # NULL, NEW kind \in Kinds,
         NEW ka \in BOOLEAN, NEW hd \in BOOLEAN, NEW n \in 1 .. MaxReq,
         worker_process_client(c, kind, ka, hd, n)
  PROVE  FlightInv'
<1> USE DEF FlightInv
<1>1. CASE UNCHANGED <<cmd, queue, own, msgs, monitoring>>
  BY <1>1 DEF QueuedAreLive, QueuedOnce, OwnAreLive
<1>2. ASSUME kind \in CmdKinds, cmd_run_sent(c, kind, ka, hd, n)
      PROVE  FlightInv'
  <2>1. PICK k \in Cmds :
          /\ cmd[k] = NULL /\ k \notin InFlight
          /\ cmd' = [cmd EXCEPT ![k] = cmd_setup(c, kind, ka, hd, n)]
          /\ msgs' = [msgs EXCEPT ![k] = 0]
          /\ redisAsyncCommandArgv(k, kind)
    BY <1>2 DEF cmd_run_sent
  <2>2. k \notin own /\ \A p \in PoolCtx : \A i \in 1 .. Len(queue[p]) : queue[p][i] # k
    BY <2>1, InFlightElements
  <2>3. client[c].fd \in Fds
    BY DEF TypeOK, Client
  <2>4. cmd_setup(c, kind, ka, hd, n) \in Cmd /\ cmd_setup(c, kind, ka, hd, n).kind = kind
    BY <1>2, <2>3 DEF cmd_setup, Cmd, CmdKinds
  <2>5. /\ cmd'[k] # NULL /\ cmd'[k].kind = kind
        /\ \A j \in Cmds : j # k => cmd'[j] = cmd[j] /\ msgs'[j] = msgs[j]
    BY <2>1, <2>4 DEF TypeOK
  <2>6. \A p \in PoolCtx : \A i \in 1 .. Len(queue[p]) : queue[p][i] \in Cmds
    BY DEF TypeOK
  <2>m. k \notin PoolCtx /\ monitoring \ {k} \subseteq monitoring'
    BY <2>1 DEF redisAsyncCommandArgv
  <2>7. CASE own' \subseteq own \cup {k} /\ UNCHANGED queue
    <3>1. QueuedAreLive'
      BY <2>2, <2>5, <2>6, <2>7, <2>m DEF QueuedAreLive
    <3>2. QueuedOnce'
      BY <2>7 DEF QueuedOnce
    <3>3. OwnAreLive'
      BY <2>2, <2>5, <2>7, <2>m DEF OwnAreLive, TypeOK
    <3> QED BY <3>1, <3>2, <3>3
  <2>8. ASSUME kind # "sub", NEW p \in PoolCtx,
               queue' = [queue EXCEPT ![p] = Append(@, k)], UNCHANGED own
        PROVE  FlightInv'
    <3>1. queue[p] \in Seq(Cmds)
      BY DEF TypeOK
    <3>2. /\ Len(Append(queue[p], k)) = Len(queue[p]) + 1
          /\ Len(queue[p]) \in Nat
          /\ \A i \in 1 .. Len(queue[p]) : Append(queue[p], k)[i] = queue[p][i]
          /\ Append(queue[p], k)[Len(queue[p]) + 1] = k
      BY <3>1
    <3>3. queue'[p] = Append(queue[p], k) /\ \A q \in PoolCtx : q # p => queue'[q] = queue[q]
      BY <2>8 DEF TypeOK
    <3>4. ASSUME NEW q \in PoolCtx, NEW i \in 1 .. Len(queue'[q])
          PROVE  \/ q = p /\ i = Len(queue[p]) + 1 /\ queue'[q][i] = k
                 \/ i \in 1 .. Len(queue[q]) /\ queue'[q][i] = queue[q][i]
      <4>1. CASE q = p
        <5>1. i \in 1 .. Len(queue[p]) + 1
          BY <3>2, <3>3, <4>1
        <5>2. i = Len(queue[p]) + 1 \/ i \in 1 .. Len(queue[p])
          BY <3>2, <5>1
        <5> QED BY <3>2, <3>3, <4>1, <5>2
      <4>2. CASE q # p
        BY <3>3, <4>2
      <4> QED BY <4>1, <4>2
    <3>5. QueuedAreLive'
      BY <2>2, <2>5, <2>6, <2>8, <2>m, <3>4 DEF QueuedAreLive
    <3>6. QueuedOnce'
      <4> SUFFICES ASSUME NEW q \in PoolCtx, NEW r \in PoolCtx,
                          NEW i \in 1 .. Len(queue'[q]), NEW j \in 1 .. Len(queue'[r]),
                          queue'[q][i] = queue'[r][j]
                   PROVE  q = r /\ i = j
        BY DEF QueuedOnce
      <4>1. \/ q = p /\ i = Len(queue[p]) + 1 /\ queue'[q][i] = k
            \/ i \in 1 .. Len(queue[q]) /\ queue'[q][i] = queue[q][i]
        BY <3>4
      <4>2. \/ r = p /\ j = Len(queue[p]) + 1 /\ queue'[r][j] = k
            \/ j \in 1 .. Len(queue[r]) /\ queue'[r][j] = queue[r][j]
        BY <3>4
      <4> QED BY <4>1, <4>2, <2>2 DEF QueuedOnce
    <3>7. OwnAreLive'
      BY <2>2, <2>5, <2>8, <2>m DEF OwnAreLive, TypeOK
    <3> QED BY <3>5, <3>6, <3>7
  <2> QED BY <2>1, <2>7, <2>8 DEF redisAsyncCommandArgv
<1> QED BY <1>1, <1>2 DEF worker_process_client, cmd_run_unavailable, CmdKinds, Kinds

(* No step leaves a freed cmd in flight, but in the two cases.             *)
LEMMA StepFlightInv == LinkInv /\ FlightInv /\ [Next]_vars => FlightInv'
<1> SUFFICES ASSUME LinkInv, FlightInv, [Next]_vars PROVE FlightInv'
  OBVIOUS
<1> USE DEF FlightInv
<1>t. /\ TypeOK
      /\ \A p \in PoolCtx : \A i \in 1 .. Len(queue[p]) : queue[p][i] \in Cmds
  BY DEF LinkInv, TypeOK
<1>1. CASE UNCHANGED <<cmd, queue, own, msgs, monitoring>>
  BY <1>1 DEF QueuedAreLive, QueuedOnce, OwnAreLive
<1>2. ASSUME NEW c \in Conns, worker_can_read(c) PROVE FlightInv'
  <2>1. client[c] # NULL
    BY <1>2 DEF worker_can_read, Readable
  <2>2. PICK kind \in Kinds, ka \in BOOLEAN, hd \in BOOLEAN, n \in 1 .. MaxReq :
          worker_process_client(c, kind, ka, hd, n)
    BY <1>2, ReadCalls DEF LinkInv
  <2> QED BY <1>t, <2>1, <2>2, ProcessFlight
<1>3. ASSUME NEW c \in Conns, http_client_read_eof(c) PROVE FlightInv'
  <2> DEFINE cl == client[c]
  <2>1. /\ cl # NULL
        /\ cmd' = [k \in Cmds |-> IF k = cl.reused_cmd THEN NULL
                                  ELSE IF k = cl.last_cmd THEN CutOff(cmd[k]) ELSE cmd[k]]
        /\ \/ own' = own \ {cl.reused_cmd}
           \/ Greeting /\ cl.reused_cmd \in own /\ msgs[cl.reused_cmd] = 0 /\ UNCHANGED own
        /\ UNCHANGED <<queue, msgs, monitoring>>
    BY <1>3 DEF http_client_read_eof, Readable, CutOff
  <2>2. cl \in Client
    BY <1>t, <2>1 DEF TypeOK
  <2>3. ASSUME NEW k \in Cmds, cmd[k] # NULL, k # cl.reused_cmd
        PROVE  cmd'[k] # NULL /\ cmd'[k].kind = cmd[k].kind
    BY <1>t, <2>1, <2>3, CutOffFields DEF TypeOK
  <2>4. cl.reused_cmd # NULL => cmd[cl.reused_cmd] # NULL /\ cmd[cl.reused_cmd].kind = "sub"
    BY <2>1 DEF LinkInv, ClientLinks
  <2>5. ASSUME NEW p \in PoolCtx, NEW i \in 1 .. Len(queue[p])
        PROVE  queue[p][i] # cl.reused_cmd
    BY <1>t, <2>4 DEF QueuedAreLive
  <2>n. ASSUME NEW k \in Cmds, cmd[k] = NULL PROVE cmd'[k] = NULL
    BY <2>1, <2>2, <2>n DEF LinkInv, ClientLinks, Client
  <2>6. QueuedAreLive'
    BY <1>t, <2>1, <2>3, <2>5, <2>n DEF QueuedAreLive
  <2>7. OwnAreLive'
    BY <1>t, <2>1, <2>3 DEF OwnAreLive, TypeOK
  <2>8. QueuedOnce'
    BY <2>1 DEF QueuedOnce
  <2> QED BY <2>6, <2>7, <2>8
<1>4. ASSUME NEW k \in Cmds, format_send_reply(k) PROVE FlightInv'
  <2>1. callback_done(k) /\ cmd' = [cmd EXCEPT ![k] = NULL] /\ UNCHANGED <<msgs, monitoring>>
    BY <1>4 DEF format_send_reply, cmd_free
  <2>2. /\ own' \subseteq own
        /\ k \in own' => k \in monitoring
        /\ \A p \in PoolCtx : \A i \in 1 .. Len(queue'[p]) :
             /\ \E j \in 1 .. Len(queue[p]) : queue'[p][i] = queue[p][j]
             /\ queue'[p][i] = k => p \in monitoring
        /\ QueuedOnce'
    BY <1>t, <2>1, CallbackDoneFlight
  <2>3. cmd'[k] = NULL /\ \A j \in Cmds : j # k => cmd'[j] = cmd[j]
    BY <1>t, <2>1 DEF TypeOK
  <2>4. QueuedAreLive'
    BY <1>t, <2>1, <2>2, <2>3 DEF QueuedAreLive
  <2>5. OwnAreLive'
    BY <1>t, <2>1, <2>2, <2>3 DEF OwnAreLive, TypeOK
  <2> QED BY <2>2, <2>4, <2>5
<1>5. ASSUME NEW k \in Cmds, format_send_message(k) PROVE FlightInv'
  BY <1>t, <1>5 DEF format_send_message, QueuedAreLive, QueuedOnce, OwnAreLive, TypeOK
<1>6. ASSUME NEW k \in Cmds, format_send_error_sub(k) PROVE FlightInv'
  BY <1>t, <1>6 DEF format_send_error_sub, QueuedAreLive, QueuedOnce, OwnAreLive
<1>7. ASSUME NEW c \in Conns, server_can_accept(c) \/ peer_sends(c) \/ peer_closes(c)
      PROVE FlightInv'
  BY <1>1, <1>7 DEF server_can_accept, peer_sends, peer_closes
<1>8. ASSUME NEW r \in writes, http_can_write(r) PROVE FlightInv'
  BY <1>1, <1>8 DEF http_can_write
<1>9. CASE UNCHANGED vars
  BY <1>1, <1>9 DEF vars
<1> QED BY <1>2, <1>3, <1>4, <1>5, <1>6, <1>7, <1>8, <1>9 DEF Next

(* No Redis callback is left with a cmd that was freed, but for the two    *)
(* cases the property names: each cmd has one callback, which frees it; of *)
(* the others only subscriptions are freed while theirs is pending         *)
(* (http_client_read), and only MONITOR keeps a callback that has run      *)
(* (redisProcessCallbacks).                                                *)
THEOREM CallbacksAreSafe == Spec => []CallbacksHoldLiveCmds
<1>1. LinkInv /\ FlightInv => CallbacksHoldLiveCmds
  <2> SUFFICES ASSUME LinkInv, FlightInv PROVE CallbacksHoldLiveCmds
    OBVIOUS
  <2>1. ASSUME NEW p \in PoolCtx, NEW k \in Range(queue[p])
        PROVE  cmd[k] # NULL \/ p \in monitoring
    <3>1. DOMAIN queue[p] = 1 .. Len(queue[p])
      BY DEF LinkInv, TypeOK
    <3>2. PICK i \in 1 .. Len(queue[p]) : queue[p][i] = k
      BY <2>1, <3>1, Zenon DEF Range
    <3> QED BY <3>2 DEF FlightInv, QueuedAreLive
  <2> QED BY <2>1 DEF FlightInv, OwnAreLive, CallbacksHoldLiveCmds
<1> QED BY <1>1, InitLinkInv, StepLinkInv, InitFlightInv, StepFlightInv, PTL DEF Spec

-----------------------------------------------------------------------------
(* What the sequences of a context hold after a command is sent, and after *)
(* its callback has run.                                                   *)
LEMMA RangeOfAppend ==
  ASSUME NEW s \in Seq(Cmds), NEW k \in Cmds
  PROVE  Range(Append(s, k)) = Range(s) \cup {k}
<1>1. /\ DOMAIN s = 1 .. Len(s) /\ Len(s) \in Nat
      /\ DOMAIN Append(s, k) = 1 .. Len(s) + 1
      /\ \A i \in 1 .. Len(s) : Append(s, k)[i] = s[i]
      /\ Append(s, k)[Len(s) + 1] = k
  OBVIOUS
<1>2. \A i \in 1 .. Len(s) + 1 : i \in 1 .. Len(s) \/ i = Len(s) + 1
  BY <1>1
<1>3. \A i \in 1 .. Len(s) : i \in 1 .. Len(s) + 1
  BY <1>1
<1>4. Len(s) + 1 \in 1 .. Len(s) + 1
  BY <1>1
<1> QED BY <1>1, <1>2, <1>3, <1>4, Zenon DEF Range

(* The first element may or may not occur again.                           *)
LEMMA RangeOfTail ==
  ASSUME NEW s \in Seq(Cmds), s # <<>>
  PROVE  Range(Tail(s)) \subseteq Range(s) /\ Range(s) \subseteq Range(Tail(s)) \cup {Head(s)}
<1>1. /\ DOMAIN s = 1 .. Len(s) /\ Len(s) \in Nat
      /\ DOMAIN Tail(s) = 1 .. Len(s) - 1
      /\ \A i \in 1 .. Len(s) - 1 : Tail(s)[i] = s[i + 1] /\ i + 1 \in 1 .. Len(s)
      /\ Head(s) = s[1]
  OBVIOUS
<1>2. \A i \in 1 .. Len(s) : i = 1 \/ \E j \in 1 .. Len(s) - 1 : i = j + 1
  <2> SUFFICES ASSUME NEW i \in 1 .. Len(s), i # 1
               PROVE  i - 1 \in 1 .. Len(s) - 1 /\ i = (i - 1) + 1
    OBVIOUS
  <2> QED BY <1>1
<1>3. /\ \A x : x \in Range(s) <=> \E i \in 1 .. Len(s) : x = s[i]
      /\ \A x : x \in Range(Tail(s)) <=> \E i \in 1 .. Len(s) - 1 : x = Tail(s)[i]
  BY <1>1, Zenon DEF Range
<1>4. \A x : x \in Range(Tail(s)) => x \in Range(s)
  BY <1>1, <1>3
<1>5. \A x : x \in Range(s) => x \in Range(Tail(s)) \/ x = Head(s)
  <2> SUFFICES ASSUME NEW i \in 1 .. Len(s)
               PROVE  s[i] \in Range(Tail(s)) \/ s[i] = Head(s)
    BY <1>3
  <2> QED BY <1>1, <1>2, <1>3
<1> QED BY <1>4, <1>5

(* Sending changes the cmds in flight by the one it names, if accepted.    *)
LEMMA SendFlight ==
  ASSUME TypeOK, NEW k \in Cmds, NEW kind, redisAsyncCommandArgv(k, kind)
  PROVE  /\ InFlight \subseteq InFlight' /\ InFlight' \subseteq InFlight \cup {k}
         /\ kind # "unsub" => k \in InFlight'
<1>1. CASE kind = "unsub" /\ UNCHANGED <<queue, own>>
  BY <1>1 DEF InFlight
<1>2. CASE own' = own \cup {k} /\ UNCHANGED queue
  BY <1>2 DEF InFlight
<1>3. ASSUME NEW p \in PoolCtx, queue' = [queue EXCEPT ![p] = Append(@, k)], UNCHANGED own
      PROVE  InFlight' = InFlight \cup {k}
  <2>1. queue[p] \in Seq(Cmds)
    BY DEF TypeOK
  <2>2. Range(queue'[p]) = Range(queue[p]) \cup {k}
    BY <1>3, <2>1, RangeOfAppend DEF TypeOK
  <2>3. \A q \in PoolCtx : q # p => queue'[q] = queue[q]
    BY <1>3 DEF TypeOK
  <2>4. /\ \A x : x \in InFlight <=> x \in own \/ \E q \in PoolCtx : x \in Range(queue[q])
        /\ \A x : x \in InFlight' <=> x \in own' \/ \E q \in PoolCtx : x \in Range(queue'[q])
    BY Zenon DEF InFlight
  <2>5. \A x : x \in InFlight' <=> x \in InFlight \/ x = k
    BY <1>3, <2>2, <2>3, <2>4
  <2> QED BY <2>5
<1> QED BY <1>1, <1>2, <1>3 DEF redisAsyncCommandArgv

(* A callback takes no other cmd than its own out of flight.               *)
LEMMA CallbackFlight ==
  ASSUME TypeOK, NEW k \in Cmds, callback_done(k)
  PROVE  /\ InFlight' \subseteq InFlight /\ InFlight \subseteq InFlight' \cup {k}
         /\ k \in InFlight
<1>1. CASE k \in own /\ (own' = own \ {k} \/ UNCHANGED own) /\ UNCHANGED queue
  BY <1>1 DEF InFlight
<1>2. ASSUME NEW p \in PoolCtx, queue[p] # <<>>, k = Head(queue[p]), UNCHANGED own,
             \/ queue' = [queue EXCEPT ![p] = Tail(@)]
             \/ queue' = [queue EXCEPT ![p] = Append(Tail(@), k)]
      PROVE  /\ InFlight' \subseteq InFlight /\ InFlight \subseteq InFlight' \cup {k}
             /\ k \in InFlight
  <2>1. queue[p] \in Seq(Cmds) /\ Tail(queue[p]) \in Seq(Cmds)
    BY <1>2 DEF TypeOK
  <2>2. /\ queue'[p] \in {Tail(queue[p]), Append(Tail(queue[p]), k)}
        /\ \A q \in PoolCtx : q # p => queue'[q] = queue[q]
    BY <1>2 DEF TypeOK
  <2>3. k \in Range(queue[p])
    <3>1. 1 \in DOMAIN queue[p] /\ k = queue[p][1]
      BY <1>2, <2>1
    <3> QED BY <3>1, Zenon DEF Range
  <2>4. Range(queue'[p]) \subseteq Range(queue[p])
        /\ Range(queue[p]) \subseteq Range(queue'[p]) \cup {k}
    <3>1. Range(Tail(queue[p])) \subseteq Range(queue[p])
          /\ Range(queue[p]) \subseteq Range(Tail(queue[p])) \cup {k}
      BY <1>2, <2>1, RangeOfTail
    <3>2. Range(Append(Tail(queue[p]), k)) = Range(Tail(queue[p])) \cup {k}
      BY <2>1, RangeOfAppend
    <3> QED BY <2>2, <2>3, <3>1, <3>2
  <2>5. /\ \A x : x \in InFlight <=> x \in own \/ \E q \in PoolCtx : x \in Range(queue[q])
        /\ \A x : x \in InFlight' <=> x \in own' \/ \E q \in PoolCtx : x \in Range(queue'[q])
    BY Zenon DEF InFlight
  <2>6. \A x : /\ x \in InFlight' => x \in InFlight
               /\ x \in InFlight => x \in InFlight' \/ x = k
    BY <1>2, <2>2, <2>4, <2>5
  <2> QED BY <2>3, <2>5, <2>6
<1> QED BY <1>1, <1>2 DEF callback_done

(* A connection that has not been accepted has nothing yet.                *)
NewIsUnused ==
  \A c \in Conns : peer[c] = "new" =>
    client[c] = NULL /\ sent[c] = 0 /\ \A f \in Fds : owner[f] # c

(* What a request changes of the descriptors and of its client.            *)
Effect(c, kind, ka, hd, n) ==
  /\ \A g \in Fds : g # client[c].fd => owner'[g] = owner[g]
  /\ owner'[client[c].fd] \in {owner[client[c].fd], NULL}
  /\ \A d \in Conns : d # c => client'[d] = client[d]
  /\ ~ka => client'[c] = NULL
  /\ ka => client'[c] \in Client /\ client'[c].fd = client[c].fd
  /\ \/ /\ http_send_error(c, ka, n)
        /\ ~ka => owner'[client[c].fd] = NULL
        /\ UNCHANGED <<cmd, queue, own, msgs, monitoring, stranded>>
     \/ /\ kind \in CmdKinds
        /\ cmd_run_sent(c, kind, ka, hd, n)

(* It changes no more than that.                                           *)
LEMMA ProcessEffect ==
  ASSUME TypeOK, NEW c \in Conns, client[c] # NULL, NEW kind \in Kinds,
         NEW ka \in BOOLEAN, NEW hd \in BOOLEAN, NEW n \in 1 .. MaxReq,
         worker_process_client(c, kind, ka, hd, n)
  PROVE  Effect(c, kind, ka, hd, n)
<1> USE DEF Effect
<1>1. client[c] \in Client /\ client[c].fd \in Fds
  BY DEF TypeOK, Client
<1>2. ASSUME http_send_error(c, ka, n)
      PROVE  /\ \A g \in Fds : g # client[c].fd => owner'[g] = owner[g]
             /\ owner'[client[c].fd] \in {owner[client[c].fd], NULL}
             /\ ~ka => owner'[client[c].fd] = NULL
  <2>1. PICK success \in BOOLEAN :
          owner' = http_response_cleanup(client[c].fd, ka, success)
    BY <1>2, OutcomesAreBoolean DEF http_send_error
  <2>2. /\ \A g \in Fds : g # client[c].fd => owner'[g] = owner[g]
        /\ owner'[client[c].fd] = IF ka /\ success THEN owner[client[c].fd] ELSE NULL
    BY <1>1, <2>1 DEF http_response_cleanup, TypeOK
  <2> QED BY <2>2
<1>3. ASSUME NEW cl \in Client, cl.fd = client[c].fd, cl.keep_alive = ka,
             http_client_reset(c, cl)
      PROVE  /\ \A d \in Conns : d # c => client'[d] = client[d]
             /\ ~ka => client'[c] = NULL
             /\ ka => client'[c] \in Client /\ client'[c].fd = client[c].fd
  BY <1>3 DEF http_client_reset, TypeOK
<1>5. CASE kind = "plain"
  <2>1. /\ http_send_error(c, ka, n)
        /\ http_client_reset(c, [client[c] EXCEPT !.keep_alive = ka])
        /\ UNCHANGED <<cmd, queue, own, msgs, monitoring, stranded>>
    BY <1>5 DEF worker_process_client
  <2>2. LET cl == [client[c] EXCEPT !.keep_alive = ka]
        IN cl \in Client /\ cl.fd = client[c].fd /\ cl.keep_alive = ka
    BY <1>1 DEF Client
  <2> QED BY <1>2, <1>3, <2>1, <2>2
<1>6. CASE kind = "denied"
  <2>1. /\ http_send_error(c, ka, n)
        /\ http_client_reset(c, [client[c] EXCEPT !.keep_alive = ka, !.last_cmd = NULL])
        /\ UNCHANGED <<cmd, queue, own, msgs, monitoring, stranded>>
    BY <1>6 DEF worker_process_client
  <2>2. LET cl == [client[c] EXCEPT !.keep_alive = ka, !.last_cmd = NULL]
        IN cl \in Client /\ cl.fd = client[c].fd /\ cl.keep_alive = ka
    BY <1>1 DEF Client
  <2> QED BY <1>2, <1>3, <2>1, <2>2
<1>7. CASE kind \in CmdKinds /\ cmd_run_unavailable(c, kind, ka, n)
  <2>1. PICK reused \in {client[c].reused_cmd, NULL} :
          http_client_reset(c, [client[c] EXCEPT !.keep_alive = ka, !.last_cmd = NULL,
                                                 !.reused_cmd = reused])
    BY <1>7 DEF cmd_run_unavailable
  <2>2. reused \in Cmds \cup {NULL}
    BY <1>1, <2>1 DEF Client
  <2>3. http_send_error(c, ka, n) /\ UNCHANGED <<cmd, queue, own, msgs, monitoring, stranded>>
    BY <1>7 DEF cmd_run_unavailable
  <2>4. LET cl == [client[c] EXCEPT !.keep_alive = ka, !.last_cmd = NULL, !.reused_cmd = reused]
        IN cl \in Client /\ cl.fd = client[c].fd /\ cl.keep_alive = ka
    BY <1>1, <2>2 DEF Client
  <2> QED BY <1>2, <1>3, <2>1, <2>3, <2>4
<1>8. CASE kind \in CmdKinds /\ cmd_run_sent(c, kind, ka, hd, n)
  <2>1. PICK k \in Cmds : http_client_reset(c, WithCmd(client[c], kind, ka, k))
    BY <1>8 DEF cmd_run_sent, WithCmd
  <2>2. UNCHANGED owner
    BY <1>8 DEF cmd_run_sent
  <2>3. LET cl == WithCmd(client[c], kind, ka, k)
        IN cl \in Client /\ cl.fd = client[c].fd /\ cl.keep_alive = ka
    BY <1>1, WithCmdFields
  <2>4. /\ \A d \in Conns : d # c => client'[d] = client[d]
        /\ ~ka => client'[c] = NULL
        /\ ka => client'[c] \in Client /\ client'[c].fd = client[c].fd
    BY <1>3, <2>1, <2>3
  <2>5. /\ \A g \in Fds : g # client[c].fd => owner'[g] = owner[g]
        /\ owner'[client[c].fd] \in {owner[client[c].fd], NULL}
    BY <2>2
  <2> QED BY <1>8, <2>4, <2>5
<1> QED BY <1>5, <1>6, <1>7, <1>8 DEF worker_process_client, Kinds, CmdKinds

(* No step touches a connection before it is accepted but accept.          *)
LEMMA StepNewIsUnused == LinkInv /\ NewIsUnused /\ [Next]_vars => NewIsUnused'
<1> SUFFICES ASSUME LinkInv, NewIsUnused, [Next]_vars PROVE NewIsUnused'
  OBVIOUS
<1>t. TypeOK /\ ReadWithinSent
  BY DEF LinkInv
<1>1. ASSUME NEW c \in Conns, server_can_accept(c) PROVE NewIsUnused'
  BY <1>t, <1>1 DEF server_can_accept, NewIsUnused, TypeOK
<1>2. ASSUME NEW c \in Conns, peer_sends(c) PROVE NewIsUnused'
  BY <1>t, <1>2 DEF peer_sends, NewIsUnused, TypeOK
<1>3. ASSUME NEW c \in Conns, peer_closes(c) PROVE NewIsUnused'
  BY <1>t, <1>3 DEF peer_closes, NewIsUnused, TypeOK
<1>4. ASSUME NEW c \in Conns, worker_can_read(c) PROVE NewIsUnused'
  <2>1. client[c] # NULL /\ client[c].fd \in Fds /\ UNCHANGED <<peer, sent>>
    BY <1>t, <1>4, ReadArguments DEF Client
  <2>2. PICK kind \in Kinds, ka \in BOOLEAN, hd \in BOOLEAN, n \in 1 .. MaxReq :
          worker_process_client(c, kind, ka, hd, n)
    BY <1>t, <1>4, ReadCalls
  <2>4. /\ \A g \in Fds : owner'[g] \in {owner[g], NULL}
        /\ \A d \in Conns : d # c => client'[d] = client[d]
    <3>1. Effect(c, kind, ka, hd, n)
      BY <1>t, <2>1, <2>2, ProcessEffect
    <3> QED BY <2>1, <3>1 DEF Effect
  <2> QED BY <2>1, <2>4 DEF NewIsUnused
<1>5. ASSUME NEW c \in Conns, http_client_read_eof(c) PROVE NewIsUnused'
  BY <1>t, <1>5 DEF http_client_read_eof, NewIsUnused, TypeOK, Client
<1>6. ASSUME NEW k \in Cmds, format_send_reply(k) PROVE NewIsUnused'
  BY <1>t, <1>6 DEF format_send_reply, cmd_free, NewIsUnused, TypeOK
<1>7. ASSUME NEW k \in Cmds, format_send_message(k) PROVE NewIsUnused'
  BY <1>t, <1>7 DEF format_send_message, NewIsUnused
<1>8. ASSUME NEW k \in Cmds, format_send_error_sub(k) PROVE NewIsUnused'
  BY <1>t, <1>8 DEF format_send_error_sub, NewIsUnused
<1>9. ASSUME NEW r \in writes, http_can_write(r) PROVE NewIsUnused'
  <2>1. r.fd \in Fds
    BY <1>t DEF TypeOK, Response
  <2>2. \A g \in Fds : owner'[g] \in {owner[g], NULL}
    BY <1>t, <1>9, <2>1 DEF http_can_write, http_response_cleanup, TypeOK
  <2> QED BY <1>9, <2>2 DEF http_can_write, NewIsUnused
<1>10. CASE UNCHANGED vars
  BY <1>10 DEF vars, NewIsUnused
<1> QED BY <1>1, <1>2, <1>3, <1>4, <1>5, <1>6, <1>7, <1>8, <1>9, <1>10 DEF Next

(* Initially no connection was accepted.                                   *)
LEMMA InitNewIsUnused == Init => NewIsUnused
  BY DEF Init, NewIsUnused

-----------------------------------------------------------------------------
(* What closes a descriptor that no client watches: the answer to a        *)
(* command without keep-alive, awaited or being written.                   *)
Closing(f) ==
  \/ \E k \in InFlight : /\ cmd[k] # NULL /\ cmd[k].kind # "sub"
                         /\ cmd[k].fd = f /\ ~cmd[k].keep_alive
  \/ \E r \in writes : r.fd = f /\ ~r.keep_alive

Watched(f) == \/ client[owner[f]] # NULL /\ client[owner[f]].fd = f
              \/ Closing(f)
              \/ owner[f] \in stranded

(* DescriptorsAreWatched, in these terms.                                  *)
LEMMA WatchedMeans == DescriptorsAreWatched <=> \A f \in Fds : owner[f] # NULL => Watched(f)
  BY DEF DescriptorsAreWatched, Watched, Closing

(* No step takes the closing answer of a descriptor away but the one that  *)
(* closes it, and no step takes its client away without leaving one, or    *)
(* the connection is stranded.                                             *)
LEMMA StepWatched ==
  LinkInv /\ NewIsUnused /\ DescriptorsAreWatched /\ [Next]_vars => DescriptorsAreWatched'
<1> SUFFICES ASSUME LinkInv, NewIsUnused, DescriptorsAreWatched, [Next]_vars,
                    NEW f \in Fds, owner'[f] # NULL
             PROVE  Watched(f)'
  BY WatchedMeans DEF DescriptorsAreWatched, Watched, Closing
<1>t. TypeOK /\ ReadWithinSent
  BY DEF LinkInv
<1>w. owner[f] # NULL => Watched(f)
  BY WatchedMeans
<1>c. owner[f] # NULL => owner[f] \in Conns
  BY <1>t DEF TypeOK
<1>k. InFlight \subseteq Cmds
  BY <1>t, InFlightElements
<1>1. ASSUME NEW c \in Conns, server_can_accept(c) PROVE Watched(f)'
  <2>1. PICK g \in Fds : /\ owner' = [owner EXCEPT ![g] = c]
                         /\ client' = [client EXCEPT ![c] = http_client_new(g)]
    BY <1>1 DEF server_can_accept
  <2>2. /\ peer[c] = "new"
        /\ UNCHANGED <<cmd, queue, own, writes, stranded>>
    BY <1>1 DEF server_can_accept
  <2>3. http_client_new(g) # NULL /\ http_client_new(g).fd = g
    <3>1. http_client_new(g) \in Client
      BY DEF http_client_new, Client
    <3> QED BY <3>1 DEF http_client_new
  <2>4. CASE f = g
    BY <1>t, <2>1, <2>3, <2>4 DEF Watched, TypeOK
  <2>5. CASE f # g
    <3>1. owner'[f] = owner[f] /\ owner[f] # c
      BY <1>t, <2>1, <2>2, <2>5 DEF NewIsUnused, TypeOK
    <3>2. client'[owner[f]] = client[owner[f]]
      BY <1>t, <1>c, <2>1, <3>1 DEF TypeOK
    <3>3. Closing(f) => Closing(f)'
      BY <2>2 DEF Closing, InFlight
    <3> QED BY <1>w, <2>2, <3>1, <3>2, <3>3 DEF Watched
  <2> QED BY <2>4, <2>5
<1>2. ASSUME NEW c \in Conns, peer_sends(c) \/ peer_closes(c) PROVE Watched(f)'
  <2>1. UNCHANGED <<owner, client, cmd, queue, own, writes, stranded>>
    BY <1>2 DEF peer_sends, peer_closes
  <2> QED BY <1>w, <2>1 DEF Watched, Closing, InFlight
<1>3. ASSUME NEW c \in Conns, worker_can_read(c) PROVE Watched(f)'
  <2>1. client[c] \in Client /\ client[c].fd \in Fds /\ owner[client[c].fd] = c
        /\ client[c] # NULL /\ UNCHANGED writes
    <3>1. client[c] \in Client /\ owner[client[c].fd] = c /\ UNCHANGED writes
      BY <1>t, <1>3, ReadArguments
    <3> QED BY <3>1 DEF Client
  <2>2. PICK kind \in Kinds, ka \in BOOLEAN, hd \in BOOLEAN, n \in 1 .. MaxReq :
          worker_process_client(c, kind, ka, hd, n)
    BY <1>t, <1>3, ReadCalls
  <2>6. /\ \A g \in Fds : g # client[c].fd => owner'[g] = owner[g]
        /\ owner'[client[c].fd] \in {owner[client[c].fd], NULL}
        /\ \A d \in Conns : d # c => client'[d] = client[d]
        /\ ~ka => client'[c] = NULL
        /\ ka => client'[c] \in Client /\ client'[c].fd = client[c].fd
        /\ \/ /\ ~ka => owner'[client[c].fd] = NULL
              /\ UNCHANGED <<cmd, queue, own, msgs, monitoring, stranded>>
           \/ /\ kind \in CmdKinds
              /\ cmd_run_sent(c, kind, ka, hd, n)
    <3>1. Effect(c, kind, ka, hd, n)
      BY <1>t, <2>1, <2>2, ProcessEffect
    <3> QED BY <3>1, Zenon DEF Effect
  <2>8. owner[f] # NULL /\ owner'[f] = owner[f]
    BY <2>1, <2>6
  <2>9. CASE /\ ~ka => owner'[client[c].fd] = NULL
             /\ UNCHANGED <<cmd, queue, own, msgs, monitoring, stranded>>
    <3>1. Closing(f) => Closing(f)'
      BY <2>1, <2>9 DEF Closing, InFlight
    <3>2. CASE owner[f] # c
      BY <1>w, <1>c, <2>6, <2>8, <2>9, <3>1, <3>2 DEF Watched
    <3>3. CASE owner[f] = c /\ ka
      BY <1>w, <2>1, <2>6, <2>8, <2>9, <3>1, <3>3 DEF Watched
    <3>4. CASE owner[f] = c /\ ~ka
      BY <1>w, <2>1, <2>6, <2>8, <2>9, <3>1, <3>4 DEF Watched
    <3> QED BY <3>2, <3>3, <3>4
  <2>10. CASE kind \in CmdKinds /\ cmd_run_sent(c, kind, ka, hd, n)
    <3>1. PICK k \in Cmds :
            /\ cmd[k] = NULL
            /\ cmd' = [cmd EXCEPT ![k] = cmd_setup(c, kind, ka, hd, n)]
            /\ redisAsyncCommandArgv(k, kind)
      BY <2>10 DEF cmd_run_sent
    <3>2. InFlight \subseteq InFlight' /\ (kind # "unsub" => k \in InFlight')
      BY <1>t, <3>1, SendFlight
    <3>3. cmd_setup(c, kind, ka, hd, n) \in Cmd
      BY <2>1, <2>10 DEF cmd_setup, Cmd, CmdKinds
    <3>4. /\ cmd'[k] # NULL /\ cmd'[k].kind = kind /\ cmd'[k].fd = client[c].fd
          /\ cmd'[k].keep_alive = (ka \/ hd)
          /\ \A j \in Cmds : j # k => cmd'[j] = cmd[j]
      BY <1>t, <3>1, <3>3 DEF TypeOK, cmd_setup
    <3>5. Closing(f) => Closing(f)'
      BY <1>k, <2>1, <3>1, <3>2, <3>4 DEF Closing
    <3>m. /\ stranded \subseteq stranded'
          /\ ka \/ (kind \in {"cmd", "mon"} /\ ~hd) \/ c \in stranded'
      BY <2>10 DEF cmd_run_sent
    <3>6. CASE owner[f] # c
      BY <1>w, <1>c, <2>6, <2>8, <3>5, <3>6, <3>m DEF Watched
    <3>7. CASE owner[f] = c /\ ka
      BY <1>w, <2>1, <2>6, <2>8, <3>5, <3>7, <3>m DEF Watched
    <3>8. CASE owner[f] = c /\ ~ka
      <4>1. CASE c \in stranded'
        BY <2>8, <3>8, <4>1 DEF Watched
      <4>2. CASE kind \in {"cmd", "mon"} /\ ~hd
        <5>1. f = client[c].fd => Closing(f)'
          BY <3>2, <3>4, <3>8, <4>2 DEF Closing
        <5> QED BY <1>w, <2>8, <3>5, <3>8, <3>m, <5>1 DEF Watched
      <4> QED BY <3>8, <3>m, <4>1, <4>2
    <3> QED BY <3>6, <3>7, <3>8
  <2> QED BY <2>6, <2>9, <2>10
<1>4. ASSUME NEW c \in Conns, http_client_read_eof(c) PROVE Watched(f)'
  <2> DEFINE cl == client[c]
  <2>1. /\ cl # NULL
        /\ cmd' = [k \in Cmds |-> IF k = cl.reused_cmd THEN NULL
                                  ELSE IF k = cl.last_cmd THEN CutOff(cmd[k]) ELSE cmd[k]]
        /\ own \subseteq own' \cup {cl.reused_cmd}
        /\ owner' = [owner EXCEPT ![cl.fd] = NULL]
        /\ client' = [client EXCEPT ![c] = NULL]
        /\ UNCHANGED <<queue, writes, stranded>>
    BY <1>4 DEF http_client_read_eof, Readable, CutOff
  <2>2. cl \in Client /\ cl.fd \in Fds
    BY <1>t, <2>1 DEF TypeOK, Client
  <2>3. f # cl.fd /\ owner'[f] = owner[f] /\ owner[f] # NULL
    BY <1>t, <2>1, <2>2 DEF TypeOK
  <2>4. \A k \in InFlight : k # cl.reused_cmd => k \in InFlight'
    BY <2>1 DEF InFlight
  <2>5. ASSUME NEW k \in Cmds, cmd[k] # NULL, cmd[k].kind # "sub", cmd[k].fd = f
        PROVE  cmd'[k] = cmd[k] /\ k # cl.reused_cmd
    <3>1. k # cl.last_cmd /\ k # cl.reused_cmd
      BY <2>1, <2>3, <2>5 DEF LinkInv, ClientLinks
    <3> QED BY <2>1, <3>1
  <2>6. Closing(f) => Closing(f)'
    BY <1>k, <2>1, <2>4, <2>5 DEF Closing
  <2>7. client[owner[f]] # NULL /\ client[owner[f]].fd = f =>
          client'[owner[f]] = client[owner[f]]
    BY <1>t, <1>c, <2>1, <2>3 DEF TypeOK
  <2> QED BY <1>w, <2>1, <2>3, <2>6, <2>7 DEF Watched
<1>5. ASSUME NEW k \in Cmds, format_send_reply(k) PROVE Watched(f)'
  <2>1. /\ cmd[k] \in Cmd
        /\ callback_done(k)
        /\ writes' = http_response_write(cmd[k].fd, cmd[k].keep_alive, cmd[k].req, 0)
        /\ cmd' = [cmd EXCEPT ![k] = NULL]
        /\ UNCHANGED <<owner, stranded>>
    BY <1>t, <1>5 DEF format_send_reply, cmd_free, TypeOK
  <2>2. ASSUME NEW d \in Conns, client[d] # NULL
        PROVE  client'[d] # NULL /\ client'[d].fd = client[d].fd
    <3>1. FreedIn(d, k)
      BY <1>t, <1>5, FreedClients DEF LinkInv, format_send_reply
    <3> QED BY <2>2, <3>1 DEF FreedIn
  <2>3. InFlight \subseteq InFlight' \cup {k}
    BY <1>t, <2>1, CallbackFlight
  <2>4. writes \subseteq writes'
    BY <2>1 DEF http_response_write
  <2>5. cmd[k].fd # NULL => \E r \in writes' : r.fd = cmd[k].fd /\ r.keep_alive = cmd[k].keep_alive
    <3> DEFINE r == [fd |-> cmd[k].fd, keep_alive |-> cmd[k].keep_alive, req |-> cmd[k].req,
                     part |-> 0]
    <3>1. cmd[k].fd # NULL => r \in writes'
      BY <2>1 DEF http_response_write
    <3>2. r.fd = cmd[k].fd /\ r.keep_alive = cmd[k].keep_alive
      OBVIOUS
    <3> QED BY <3>1, <3>2
  <2>6. \A j \in Cmds : j # k => cmd'[j] = cmd[j]
    BY <1>t, <2>1 DEF TypeOK
  <2>7. Closing(f) => Closing(f)'
    BY <1>k, <2>3, <2>4, <2>5, <2>6 DEF Closing
  <2> QED BY <1>w, <1>c, <2>1, <2>2, <2>7 DEF Watched
<1>6. ASSUME NEW k \in Cmds, format_send_message(k) PROVE Watched(f)'
  <2>1. writes \subseteq writes' /\ UNCHANGED <<owner, client, cmd, queue, own, stranded>>
    BY <1>6 DEF format_send_message, http_response_write
  <2> QED BY <1>w, <2>1 DEF Watched, Closing, InFlight
<1>7. ASSUME NEW k \in Cmds, format_send_error_sub(k) PROVE Watched(f)'
  <2>1. /\ cmd[k] # NULL /\ cmd[k].kind = "sub"
        /\ own' = own \ {k}
        /\ UNCHANGED <<owner, cmd, queue, writes, stranded>>
    BY <1>7 DEF format_send_error_sub
  <2>2. ASSUME NEW d \in Conns, client[d] # NULL
        PROVE  client'[d] # NULL /\ client'[d].fd = client[d].fd
    <3>1. ForgottenIn(d)
      BY <1>t, <1>7, ForgottenClients
    <3> QED BY <2>2, <3>1 DEF ForgottenIn
  <2>3. \A j \in InFlight : j # k => j \in InFlight'
    BY <2>1 DEF InFlight
  <2>4. Closing(f) => Closing(f)'
    BY <1>k, <2>1, <2>3 DEF Closing
  <2> QED BY <1>w, <1>c, <2>1, <2>2, <2>4 DEF Watched
<1>8. ASSUME NEW r \in writes, http_can_write(r) PROVE Watched(f)'
  <2>1. r.fd \in Fds /\ r.keep_alive \in BOOLEAN
    BY <1>t DEF TypeOK, Response
  <2>2. PICK success \in BOOLEAN : owner' = http_response_cleanup(r.fd, r.keep_alive, success)
    BY <1>8, OutcomesAreBoolean DEF http_can_write
  <2>3. writes' = writes \ {r} /\ UNCHANGED <<client, cmd, queue, own, stranded>>
    BY <1>8 DEF http_can_write
  <2>4. owner'[f] = owner[f] /\ (f = r.fd => r.keep_alive)
    BY <1>t, <2>1, <2>2 DEF http_response_cleanup, TypeOK
  <2>5. Closing(f) => Closing(f)'
    BY <2>3, <2>4 DEF Closing, InFlight
  <2> QED BY <1>w, <2>3, <2>4, <2>5 DEF Watched
<1>9. CASE UNCHANGED vars
  BY <1>w, <1>9 DEF vars, Watched, Closing, InFlight
<1> QED BY <1>1, <1>2, <1>3, <1>4, <1>5, <1>6, <1>7, <1>8, <1>9 DEF Next

(* No descriptor leaks but the stranded ones: whatever clients send, an    *)
(* open descriptor is watched by its client or a response will close it    *)
(* (http_can_write, http_client_read, cmd_run).                            *)
THEOREM NoDescriptorLeaks == Spec => []DescriptorsAreWatched
<1>1. Init => DescriptorsAreWatched
  BY DEF Init, DescriptorsAreWatched
<1> QED BY <1>1, InitLinkInv, StepLinkInv, InitNewIsUnused, StepNewIsUnused, StepWatched, PTL
        DEF Spec

-----------------------------------------------------------------------------
(* Where nothing was left behind and nobody stranded, whatever is under    *)
(* way names a descriptor that still stands for its connection or that no  *)
(* other one can get; HeldInv says so.                                     *)
Calm == hasty = {} /\ stranded = {}

UnderWay(c, k) == k \in InFlight /\ cmd[k] # NULL /\ cmd[k].req[1] = c

(* Descriptor f is that of connection c, or was, and c's client keeps      *)
(* accept from handing it out again.                                       *)
Held(f, c) == \/ owner[f] = c
              \/ owner[f] = NULL /\ client[c] # NULL /\ client[c].fd = f

(* With keep-alive, only the client closes the descriptor it watches.      *)
HeldFor(f, ka, c) == Held(f, c) /\ (ka /\ owner[f] = c => client[c] # NULL)

OwnFd == \A c \in Conns, f \in Fds : client[c] # NULL /\ owner[f] = c => client[c].fd = f

(* What is under way was asked for by a connection that was accepted.      *)
NothingNew ==
  /\ \A k \in Cmds : cmd[k] # NULL => peer[cmd[k].req[1]] # "new"
  /\ \A r \in writes : peer[r.req[1]] # "new"

FdsHeld ==
  /\ \A k \in InFlight : cmd[k] # NULL /\ cmd[k].fd # NULL =>
       HeldFor(cmd[k].fd, cmd[k].keep_alive, cmd[k].req[1])
  /\ \A r \in writes : HeldFor(r.fd, r.keep_alive, r.req[1])

(* An answer that closes the descriptor is the last of its connection.     *)
CmdAlone(c, k) == /\ client[c] = NULL
                  /\ \A j \in Cmds : UnderWay(c, j) => j = k
                  /\ \A r \in writes : r.req[1] # c

WriteAlone(c, r) == /\ client[c] = NULL
                    /\ \A j \in Cmds : ~UnderWay(c, j)
                    /\ \A s \in writes : s.req[1] = c => s = r

ClosingAlone ==
  \A c \in Conns :
    /\ \A k \in Cmds : UnderWay(c, k) /\ ~cmd[k].keep_alive => CmdAlone(c, k)
    /\ \A r \in writes : r.req[1] = c /\ ~r.keep_alive => WriteAlone(c, r)

SubsStay == \A k \in InFlight : cmd[k] # NULL /\ cmd[k].kind = "sub" => cmd[k].keep_alive

HeldInv == OwnFd /\ NothingNew /\ FdsHeld /\ ClosingAlone /\ SubsStay /\ NoCrossTalk

BaseInv == LinkInv /\ FlightInv /\ NewIsUnused

(* Initially nothing is under way.                                         *)
LEMMA InitHeldInv == Init => HeldInv
<1> SUFFICES ASSUME Init PROVE HeldInv
  OBVIOUS
<1> USE DEF Init
<1>1. NoCrossTalk
  <2>1. \A c \in Conns : Range(got[c]) = {}
    BY DEF Range
  <2> QED BY <2>1 DEF NoCrossTalk
<1>2. InFlight = {}
  BY DEF InFlight, Range
<1>3. OwnFd /\ NothingNew
  BY DEF OwnFd, NothingNew
<1>4. FdsHeld /\ ClosingAlone /\ SubsStay
  BY <1>2 DEF FdsHeld, ClosingAlone, SubsStay, UnderWay
<1> QED BY <1>1, <1>3, <1>4 DEF HeldInv

(* What is delivered on a descriptor that its connection holds.            *)
LEMMA DeliveredAnswers ==
  ASSUME TypeOK, NoCrossTalk, NEW f \in Fds, NEW req \in Conns \X (1 .. MaxReq),
         NEW part \in 0 .. MaxMsg, NEW success \in BOOLEAN,
         owner[f] \in {req[1], NULL},
         got' = IF success THEN Delivered(f, req, part) ELSE got
  PROVE  NoCrossTalk'
<1>1. CASE UNCHANGED got
  BY <1>1 DEF NoCrossTalk
<1>2. CASE got' = [got EXCEPT ![req[1]] = Append(@, <<req, part>>)]
  <2>1. got \in [Conns -> Seq(Answer)] /\ req[1] \in Conns
    BY DEF TypeOK, Answer
  <2>2. /\ got'[req[1]] = Append(got[req[1]], <<req, part>>)
        /\ \A d \in Conns : d # req[1] => got'[d] = got[d]
    BY <1>2, <2>1
  <2>3. got[req[1]] \in Seq(Answer) /\ <<req, part>> \in Answer
    BY <2>1 DEF Answer
  <2>4. \A m : m \in Range(got'[req[1]]) => m \in Range(got[req[1]]) \/ m = <<req, part>>
    <3>1. \A i \in DOMAIN Append(got[req[1]], <<req, part>>) :
            \/ i \in DOMAIN got[req[1]] /\ Append(got[req[1]], <<req, part>>)[i] = got[req[1]][i]
            \/ Append(got[req[1]], <<req, part>>)[i] = <<req, part>>
      BY <2>3
    <3>2. \A t : \A m : m \in Range(t) <=> \E i \in DOMAIN t : m = t[i]
      BY Zenon DEF Range
    <3> SUFFICES ASSUME NEW m \in Range(Append(got[req[1]], <<req, part>>))
                 PROVE  m \in Range(got[req[1]]) \/ m = <<req, part>>
      BY <2>2
    <3>3. PICK i \in DOMAIN Append(got[req[1]], <<req, part>>) :
            m = Append(got[req[1]], <<req, part>>)[i]
      BY <3>2, ZenonT(60)
    <3> QED BY <3>1, <3>2, <3>3, Zenon
  <2>5. <<req, part>>[1] = req
    OBVIOUS
  <2>6. \A d \in Conns : \A m \in Range(got'[d]) :
          m \in Range(got[d]) \/ (d = req[1] /\ m[1] = req)
    BY <2>2, <2>4, <2>5
  <2>7. NoCrossTalk'
    BY <2>6 DEF NoCrossTalk
  <2> QED BY <2>7
<1> QED BY <1>1, <1>2 DEF Delivered

(* Facts about the types that the steps below share.                       *)
LEMMA SerialTypes ==
  ASSUME TypeOK
  PROVE  /\ \A k \in Cmds : cmd[k] # NULL =>
              /\ cmd[k] \in Cmd
              /\ cmd[k].req[1] \in Conns /\ cmd[k].req[2] \in 1 .. MaxReq
              /\ cmd[k].fd # NULL => cmd[k].fd \in Fds
         /\ \A r \in writes : /\ r \in Response
                              /\ r.fd \in Fds
                              /\ r.req[1] \in Conns /\ r.req[2] \in 1 .. MaxReq
         /\ \A c \in Conns : client[c] # NULL => client[c] \in Client /\ client[c].fd \in Fds
         /\ \A c \in Conns : sent[c] \in Nat
<1>1. \A k \in Cmds : cmd[k] # NULL => cmd[k] \in Cmd
  BY DEF TypeOK
<1>2. \A m \in Cmd : /\ m.req[1] \in Conns /\ m.req[2] \in 1 .. MaxReq
                     /\ m.fd # NULL => m.fd \in Fds
  BY DEF Cmd
<1>3. \A r \in Response : r.fd \in Fds /\ r.req[1] \in Conns /\ r.req[2] \in 1 .. MaxReq
  BY DEF Response
<1>4. \A c \in Conns : client[c] # NULL => client[c] \in Client /\ client[c].fd \in Fds
  BY DEF TypeOK, Client
<1>5. writes \subseteq Response /\ \A c \in Conns : sent[c] \in Nat
  BY DEF TypeOK
<1> QED BY <1>1, <1>2, <1>3, <1>4, <1>5

(* Nothing of c is under way.                                              *)
LEMMA NothingAwaited ==
  ASSUME TypeOK, NEW c \in Conns
  PROVE  /\ Awaited(c) = {} <=> \A k \in Cmds : ~UnderWay(c, k)
         /\ Scheduled(c) = {} <=> \A r \in writes : r.req[1] # c
<1>1. InFlight \subseteq Cmds
  BY InFlightElements
<1> QED BY <1>1 DEF Awaited, Scheduled, UnderWay

(* Nothing is added to what is under way, and no client appears for a      *)
(* connection that has any.                                                *)
LEMMA ClosingKept ==
  ASSUME ClosingAlone, writes' \subseteq writes,
         \A c \in Conns : \A k \in Cmds :
           UnderWay(c, k)' => UnderWay(c, k) /\ cmd'[k].keep_alive = cmd[k].keep_alive,
         \A c \in Conns : client[c] = NULL =>
           \/ client'[c] = NULL
           \/ (\A k \in Cmds : ~UnderWay(c, k)) /\ (\A r \in writes : r.req[1] # c)
  PROVE  ClosingAlone'
<1> SUFFICES ASSUME NEW c \in Conns
             PROVE  /\ \A k \in Cmds : UnderWay(c, k)' /\ ~cmd'[k].keep_alive => CmdAlone(c, k)'
                    /\ \A r \in writes' : r.req[1] = c /\ ~r.keep_alive => WriteAlone(c, r)'
  BY DEF ClosingAlone
<1>1. ASSUME NEW k \in Cmds, UnderWay(c, k)', ~cmd'[k].keep_alive PROVE CmdAlone(c, k)'
  <2>1. UnderWay(c, k) /\ CmdAlone(c, k)
    BY <1>1 DEF ClosingAlone
  <2> QED BY <2>1 DEF CmdAlone
<1>2. ASSUME NEW r \in writes', r.req[1] = c, ~r.keep_alive PROVE WriteAlone(c, r)'
  <2>1. r \in writes /\ WriteAlone(c, r)
    BY <1>2 DEF ClosingAlone
  <2> QED BY <1>2, <2>1 DEF WriteAlone
<1> QED BY <1>1, <1>2

(* A new connection has nothing under way, and gets a descriptor that      *)
(* nothing under way names.                                                *)
LEMMA AcceptHeld ==
  ASSUME BaseInv, HeldInv, NEW c \in Conns, server_can_accept(c)
  PROVE  HeldInv'
<1> USE DEF BaseInv, HeldInv
<1>t. TypeOK
  BY DEF LinkInv
<1>1. PICK g \in Fds : /\ owner[g] = NULL
                       /\ \A d \in Conns : client[d] # NULL => client[d].fd # g
                       /\ owner' = [owner EXCEPT ![g] = c]
                       /\ client' = [client EXCEPT ![c] = http_client_new(g)]
  BY DEF server_can_accept
<1>2. /\ peer[c] = "new" /\ peer' = [peer EXCEPT ![c] = "open"]
      /\ UNCHANGED <<got, cmd, queue, own, writes>>
  BY DEF server_can_accept
<1>3. http_client_new(g) # NULL /\ http_client_new(g).fd = g
  <2>1. http_client_new(g) \in Client
    BY DEF http_client_new, Client
  <2> QED BY <2>1 DEF http_client_new
<1>4. client[c] = NULL /\ \A f \in Fds : owner[f] # c
  BY <1>2 DEF NewIsUnused
<1>5. /\ client'[c] # NULL /\ client'[c].fd = g
      /\ \A d \in Conns : d # c => client'[d] = client[d]
      /\ owner'[g] = c
      /\ \A f \in Fds : f # g => owner'[f] = owner[f]
      /\ \A d \in Conns : peer'[d] = "new" => peer[d] = "new"
  BY <1>t, <1>1, <1>2, <1>3 DEF TypeOK
<1>6. (\A k \in Cmds : cmd[k] # NULL => cmd[k].req[1] # c) /\ (\A r \in writes : r.req[1] # c)
  BY <1>2 DEF NothingNew
<1>7. ASSUME NEW f \in Fds, NEW ka, NEW d \in Conns, d # c, HeldFor(f, ka, d)
      PROVE  HeldFor(f, ka, d)'
  <2>1. f # g
    BY <1>1, <1>7 DEF HeldFor, Held
  <2> QED BY <1>5, <1>7, <2>1 DEF HeldFor, Held
<1>8. InFlight' = InFlight /\ InFlight \subseteq Cmds
  BY <1>t, <1>2, InFlightElements DEF InFlight
<1>9. OwnFd'
  BY <1>4, <1>5 DEF OwnFd
<1>10. NothingNew'
  BY <1>t, <1>2, <1>5, SerialTypes DEF NothingNew
<1>11. FdsHeld'
  BY <1>t, <1>2, <1>6, <1>7, <1>8, SerialTypes DEF FdsHeld
<1>12. ClosingAlone'
  <2>1. \A d \in Conns : \A k \in Cmds :
          UnderWay(d, k)' => UnderWay(d, k) /\ cmd'[k].keep_alive = cmd[k].keep_alive
    BY <1>2, <1>8 DEF UnderWay
  <2>2. ASSUME NEW d \in Conns, client[d] = NULL
        PROVE  \/ client'[d] = NULL
               \/ (\A k \in Cmds : ~UnderWay(d, k)) /\ (\A r \in writes : r.req[1] # d)
    BY <1>5, <1>6, <2>2 DEF UnderWay
  <2> QED BY <1>2, <2>1, <2>2, ClosingKept
<1>13. SubsStay' /\ NoCrossTalk'
  BY <1>2, <1>8 DEF SubsStay, NoCrossTalk
<1> QED BY <1>9, <1>10, <1>11, <1>12, <1>13

(* A request answered at once: the descriptor is still its connection's,   *)
(* and when the answer closes it nothing else of it is under way.          *)
LEMMA AnswerHeld ==
  ASSUME BaseInv, HeldInv, NEW c \in Conns, NEW kind, NEW ka \in BOOLEAN, NEW hd,
         NEW n \in 1 .. MaxReq, client[c] # NULL, owner[client[c].fd] = c,
         Effect(c, kind, ka, hd, n), http_send_error(c, ka, n),
         \/ ka
         \/ (\A k \in Cmds : ~UnderWay(c, k)) /\ (\A r \in writes : r.req[1] # c),
         UNCHANGED <<peer, cmd, queue, own, writes>>
  PROVE  HeldInv'
<1> USE DEF BaseInv, HeldInv
<1>t. TypeOK
  BY DEF LinkInv
<1>f. PICK g \in Fds : g = client[c].fd
  BY <1>t, SerialTypes
<1>1. NoCrossTalk'
  <2>1. <<c, n>> \in Conns \X (1 .. MaxReq) /\ 0 \in 0 .. MaxMsg /\ <<c, n>>[1] = c
    OBVIOUS
  <2>2. PICK success \in BOOLEAN :
          got' = IF success THEN Delivered(g, <<c, n>>, 0) ELSE got
    BY <1>f, OutcomesAreBoolean DEF http_send_error
  <2>3. owner[g] \in {<<c, n>>[1], NULL}
    BY <1>f, <2>1
  <2> QED BY <1>t, <2>1, <2>2, <2>3, DeliveredAnswers
<1>2. /\ owner[g] = c /\ client[c].fd = g
      /\ \A f \in Fds : f # g => owner'[f] = owner[f]
      /\ owner'[g] \in {c, NULL}
      /\ \A d \in Conns : d # c => client'[d] = client[d]
      /\ ~ka => client'[c] = NULL
      /\ ka => client'[c] # NULL /\ client'[c].fd = g
  BY <1>f DEF Effect
<1>3. ASSUME NEW f \in Fds, NEW b, NEW d \in Conns, HeldFor(f, b, d), d = c => ka
      PROVE  HeldFor(f, b, d)'
  <2>1. CASE d # c
    <3>1. f # g
      BY <1>2, <1>3, <2>1 DEF HeldFor, Held
    <3> QED BY <1>2, <1>3, <2>1, <3>1 DEF HeldFor, Held
  <2>2. CASE d = c
    <3>1. f = g
      BY <1>2, <1>3, <2>2 DEF HeldFor, Held, OwnFd
    <3> QED BY <1>2, <1>3, <2>2, <3>1 DEF HeldFor, Held
  <2> QED BY <2>1, <2>2
<1>4. InFlight' = InFlight /\ InFlight \subseteq Cmds
  BY <1>t, InFlightElements DEF InFlight
<1>5. OwnFd'
  BY <1>2 DEF OwnFd
<1>6. NothingNew' /\ SubsStay'
  BY <1>4 DEF NothingNew, SubsStay
<1>7. FdsHeld'
  <2>1. ASSUME NEW k \in InFlight, cmd[k] # NULL, cmd[k].fd # NULL
        PROVE  HeldFor(cmd[k].fd, cmd[k].keep_alive, cmd[k].req[1])'
    <3>1. PICK f \in Fds, d \in Conns, b \in BOOLEAN :
            f = cmd[k].fd /\ d = cmd[k].req[1] /\ b = cmd[k].keep_alive
      BY <1>t, <1>4, <2>1, SerialTypes DEF Cmd
    <3>2. HeldFor(f, b, d)
      BY <2>1, <3>1 DEF FdsHeld
    <3>3. d = c => ka
      BY <1>4, <2>1, <3>1 DEF UnderWay
    <3>4. HeldFor(f, b, d)'
      BY <1>3, <3>2, <3>3
    <3> QED BY <3>1, <3>4
  <2>2. ASSUME NEW r \in writes
        PROVE  HeldFor(r.fd, r.keep_alive, r.req[1])'
    BY <1>t, <1>3, SerialTypes DEF FdsHeld
  <2> QED BY <1>4, <2>1, <2>2 DEF FdsHeld
<1>8. ClosingAlone'
  <2>1. \A d \in Conns : \A k \in Cmds :
          UnderWay(d, k)' => UnderWay(d, k) /\ cmd'[k].keep_alive = cmd[k].keep_alive
    BY <1>4 DEF UnderWay
  <2>2. ASSUME NEW d \in Conns, client[d] = NULL PROVE client'[d] = NULL
    BY <1>2, <2>2
  <2> QED BY <2>1, <2>2, ClosingKept
<1> QED BY <1>1, <1>5, <1>6, <1>7, <1>8

(* A request that becomes a cmd: it is the last of its connection when its *)
(* answer is to close the descriptor.                                      *)
LEMMA CommandHeld ==
  ASSUME BaseInv, HeldInv, NEW c \in Conns, NEW kind \in CmdKinds, NEW ka \in BOOLEAN,
         NEW hd \in BOOLEAN, NEW n \in 1 .. MaxReq, client[c] # NULL, owner[client[c].fd] = c,
         Effect(c, kind, ka, hd, n), cmd_run_sent(c, kind, ka, hd, n),
         ka \/ (kind \in {"cmd", "mon"} /\ ~hd),
         \/ ka
         \/ (\A k \in Cmds : ~UnderWay(c, k)) /\ (\A r \in writes : r.req[1] # c),
         UNCHANGED <<peer, writes>>
  PROVE  HeldInv'
<1> USE DEF BaseInv, HeldInv
<1>t. TypeOK
  BY DEF LinkInv
<1>f. PICK g \in Fds : g = client[c].fd
  BY <1>t, SerialTypes
<1>1. PICK k \in Cmds : /\ cmd[k] = NULL /\ k \notin InFlight
                        /\ cmd' = [cmd EXCEPT ![k] = cmd_setup(c, kind, ka, hd, n)]
                        /\ redisAsyncCommandArgv(k, kind)
  BY DEF cmd_run_sent
<1>2. /\ owner[g] = c /\ client[c].fd = g
      /\ \A d \in Conns : d # c => client'[d] = client[d]
      /\ ~ka => client'[c] = NULL
      /\ ka => client'[c] # NULL /\ client'[c].fd = g
      /\ UNCHANGED <<got, owner>>
  BY <1>f DEF Effect, cmd_run_sent
<1>3. cmd_setup(c, kind, ka, hd, n) \in Cmd
  BY <1>f DEF cmd_setup, Cmd, CmdKinds
<1>4. /\ cmd'[k] # NULL /\ cmd'[k].kind = kind /\ cmd'[k].fd = g
      /\ cmd'[k].keep_alive = (ka \/ hd) /\ cmd'[k].req[1] = c
      /\ \A j \in Cmds : j # k => cmd'[j] = cmd[j]
  BY <1>t, <1>f, <1>1, <1>3 DEF TypeOK, cmd_setup
<1>5. cmd'[k].keep_alive = ka /\ (kind = "sub" => ka)
  BY <1>4
<1>6. InFlight' \subseteq InFlight \cup {k} /\ InFlight \subseteq Cmds
  BY <1>t, <1>1, SendFlight, InFlightElements
<1>7. ASSUME NEW f \in Fds, NEW b, NEW d \in Conns, HeldFor(f, b, d), d = c => ka
      PROVE  HeldFor(f, b, d)'
  <2>1. CASE d # c
    BY <1>2, <1>7, <2>1 DEF HeldFor, Held
  <2>2. CASE d = c
    BY <1>2, <1>7, <2>2 DEF HeldFor, Held
  <2> QED BY <2>1, <2>2
<1>8. HeldFor(g, ka, c)'
  BY <1>2 DEF HeldFor, Held
<1>9. OwnFd'
  <2> SUFFICES ASSUME NEW d \in Conns, NEW f \in Fds, client'[d] # NULL, owner[f] = d
               PROVE  client'[d].fd = f
    BY <1>2 DEF OwnFd
  <2>1. client[d] # NULL => client[d].fd = f
    BY DEF OwnFd
  <2> QED BY <1>2, <2>1
<1>10. NothingNew' /\ SubsStay'
  <2>1. peer[c] # "new"
    BY DEF NewIsUnused
  <2> QED BY <1>1, <1>4, <1>5, <1>6, <2>1 DEF NothingNew, SubsStay
<1>11. ASSUME NEW j \in Cmds, j # k, NEW d \in Conns
       PROVE  UnderWay(d, j)' => UnderWay(d, j) /\ cmd'[j] = cmd[j]
  BY <1>4, <1>6, <1>11 DEF UnderWay
<1>12. FdsHeld'
  <2>1. ASSUME NEW j \in InFlight', cmd'[j] # NULL, cmd'[j].fd # NULL
        PROVE  HeldFor(cmd[j].fd, cmd[j].keep_alive, cmd[j].req[1])'
    <3>1. CASE j = k
      BY <1>4, <1>5, <1>8, <3>1 DEF HeldFor, Held
    <3>2. CASE j # k
      <4>1. j \in InFlight /\ j \in Cmds /\ cmd'[j] = cmd[j]
        BY <1>4, <1>6, <3>2
      <4>2. PICK f \in Fds, d \in Conns, b \in BOOLEAN :
              f = cmd[j].fd /\ d = cmd[j].req[1] /\ b = cmd[j].keep_alive
        BY <1>t, <2>1, <4>1, SerialTypes DEF Cmd
      <4>3. HeldFor(f, b, d)
        BY <2>1, <4>1, <4>2 DEF FdsHeld
      <4>4. d = c => ka
        BY <2>1, <4>1, <4>2 DEF UnderWay
      <4>5. HeldFor(f, b, d)'
        BY <1>7, <4>3, <4>4
      <4> QED BY <4>1, <4>2, <4>5
    <3> QED BY <3>1, <3>2
  <2>2. ASSUME NEW r \in writes
        PROVE  HeldFor(r.fd, r.keep_alive, r.req[1])'
    BY <1>t, <1>7, SerialTypes DEF FdsHeld
  <2> QED BY <2>1, <2>2 DEF FdsHeld
<1>13. ClosingAlone'
  <2> SUFFICES ASSUME NEW d \in Conns
               PROVE  /\ \A j \in Cmds : UnderWay(d, j)' /\ ~cmd'[j].keep_alive => CmdAlone(d, j)'
                      /\ \A r \in writes : r.req[1] = d /\ ~r.keep_alive => WriteAlone(d, r)'
    BY DEF ClosingAlone
  <2>0. client[d] = NULL => client'[d] = NULL /\ d # c
    BY <1>2
  <2>1. d # c => \A j \in Cmds : UnderWay(d, j)' => UnderWay(d, j)
    BY <1>4, <1>11 DEF UnderWay
  <2>2. ASSUME NEW j \in Cmds, UnderWay(d, j)', ~cmd'[j].keep_alive PROVE CmdAlone(d, j)'
    <3>1. CASE j = k
      <4>1. d = c /\ ~ka
        BY <1>4, <1>5, <2>2, <3>1 DEF UnderWay
      <4>2. \A i \in Cmds : UnderWay(c, i)' => i = k
        BY <1>11, <4>1
      <4> QED BY <1>2, <3>1, <4>1, <4>2 DEF CmdAlone
    <3>2. CASE j # k
      <4>1. UnderWay(d, j) /\ ~cmd[j].keep_alive
        BY <1>11, <2>2, <3>2
      <4>2. CmdAlone(d, j)
        BY <4>1 DEF ClosingAlone
      <4> QED BY <2>0, <2>1, <4>2 DEF CmdAlone
    <3> QED BY <3>1, <3>2
  <2>3. ASSUME NEW r \in writes, r.req[1] = d, ~r.keep_alive PROVE WriteAlone(d, r)'
    <3>1. WriteAlone(d, r)
      BY <2>3 DEF ClosingAlone
    <3> QED BY <2>0, <2>1, <3>1 DEF WriteAlone
  <2> QED BY <2>2, <2>3
<1>14. NoCrossTalk'
  BY <1>2 DEF NoCrossTalk
<1> QED BY <1>9, <1>10, <1>12, <1>13, <1>14

(* A complete request is read: one that asks to close has nothing else     *)
(* under way, or its connection was hasty.                                 *)
LEMMA ReadHeld ==
  ASSUME BaseInv, HeldInv, NEW c \in Conns, worker_can_read(c), Calm, Calm'
  PROVE  HeldInv'
<1>t. TypeOK /\ ReadWithinSent
  BY DEF BaseInv, LinkInv
<1>1. /\ client[c] # NULL /\ owner[client[c].fd] = c
      /\ UNCHANGED <<peer, writes>>
  BY DEF worker_can_read, Readable
<1>2. PICK kind \in Kinds, ka \in BOOLEAN, hd \in BOOLEAN, n \in 1 .. MaxReq :
        /\ worker_process_client(c, kind, ka, hd, n)
        /\ hasty' = IF ka \/ (Awaited(c) = {} /\ Scheduled(c) = {})
                      THEN hasty ELSE hasty \cup {c}
  BY <1>t, ReadArguments
<1>3. \/ ka
      \/ (\A k \in Cmds : ~UnderWay(c, k)) /\ (\A r \in writes : r.req[1] # c)
  <2>1. ka \/ (Awaited(c) = {} /\ Scheduled(c) = {})
    BY <1>2 DEF Calm
  <2> QED BY <1>t, <2>1, NothingAwaited
<1>4. Effect(c, kind, ka, hd, n)
  BY <1>t, <1>1, <1>2, ProcessEffect
<1>5. CASE http_send_error(c, ka, n) /\ UNCHANGED <<cmd, queue, own>>
  BY <1>1, <1>3, <1>4, <1>5, AnswerHeld
<1>6. CASE kind \in CmdKinds /\ cmd_run_sent(c, kind, ka, hd, n)
  <2>1. ka \/ (kind \in {"cmd", "mon"} /\ ~hd)
    BY <1>6 DEF cmd_run_sent, Calm
  <2> QED BY <1>1, <1>3, <1>4, <1>6, <2>1, CommandHeld
<1> QED BY <1>4, <1>5, <1>6 DEF Effect

(* What http_client_read changes: everything of c that it does not free is *)
(* cut off, and nothing of another connection changes.                     *)
EofEffect(c) ==
  /\ client[c] # NULL /\ owner[client[c].fd] = c
  /\ client'[c] = NULL /\ \A d \in Conns : d # c => client'[d] = client[d]
  /\ owner' = [owner EXCEPT ![client[c].fd] = NULL]
  /\ InFlight' \subseteq InFlight /\ InFlight \subseteq Cmds
  /\ UNCHANGED <<peer, inbox, sent, got, writes>>
  /\ \A k \in Cmds : cmd'[k] # NULL =>
       /\ cmd[k] # NULL
       /\ cmd'[k].req = cmd[k].req /\ cmd'[k].kind = cmd[k].kind
       /\ cmd'[k].keep_alive = cmd[k].keep_alive
       /\ cmd[k].req[1] # c => cmd'[k] = cmd[k]
       /\ k = client[c].last_cmd => /\ cmd'[k].fd = NULL /\ cmd'[k].http_client = NULL
                                    /\ cmd'[k].pub_sub_client = cmd[k].pub_sub_client
  /\ client[c].reused_cmd \in Cmds => cmd'[client[c].reused_cmd] = NULL

(* It changes no more than that.                                           *)
LEMMA EofHasEffect ==
  ASSUME LinkInv, NEW c \in Conns, http_client_read_eof(c)
  PROVE  EofEffect(c)
<1>t. TypeOK
  BY DEF LinkInv
<1> DEFINE cl == client[c]
<1>1. /\ cl # NULL /\ owner[cl.fd] = c
      /\ cmd' = [k \in Cmds |-> IF k = cl.reused_cmd THEN NULL
                                ELSE IF k = cl.last_cmd THEN CutOff(cmd[k]) ELSE cmd[k]]
      /\ own' \subseteq own
      /\ owner' = [owner EXCEPT ![cl.fd] = NULL]
      /\ client' = [client EXCEPT ![c] = NULL]
      /\ UNCHANGED <<peer, inbox, sent, got, queue, writes>>
  BY DEF http_client_read_eof, Readable, CutOff
<1>2. cl \in Client /\ cl.fd \in Fds
  BY <1>t, <1>1, SerialTypes
<1>3. /\ client'[c] = NULL /\ \A d \in Conns : d # c => client'[d] = client[d]
      /\ InFlight' \subseteq InFlight /\ InFlight \subseteq Cmds
  <2>1. client'[c] = NULL /\ \A d \in Conns : d # c => client'[d] = client[d]
    BY <1>t, <1>1 DEF TypeOK
  <2>2. InFlight' \subseteq InFlight
    BY <1>t, <1>1, <1>2 DEF TypeOK, InFlight
  <2> QED BY <1>t, <2>1, <2>2, InFlightElements
<1>4. ASSUME NEW k \in Cmds, cmd'[k] # NULL
      PROVE  /\ cmd[k] # NULL
             /\ cmd'[k].req = cmd[k].req /\ cmd'[k].kind = cmd[k].kind
             /\ cmd'[k].keep_alive = cmd[k].keep_alive
             /\ cmd[k].req[1] # c => cmd'[k] = cmd[k]
             /\ k = cl.last_cmd => /\ cmd'[k].fd = NULL /\ cmd'[k].http_client = NULL
                                   /\ cmd'[k].pub_sub_client = cmd[k].pub_sub_client
  <2>1. CASE k = cl.last_cmd
    <3>1. cmd[k] # NULL /\ cmd[k].http_client = c
      BY <1>1, <2>1 DEF LinkInv, ClientLinks
    <3>2. cmd[k] \in Cmd /\ cmd[k].req[1] = c
      BY <1>t, <3>1, SerialTypes DEF LinkInv, CmdLinks
    <3>3. cmd'[k] = CutOff(cmd[k])
      BY <1>1, <1>4, <2>1
    <3> QED BY <3>1, <3>2, <3>3, CutOffFields
  <2>2. CASE k # cl.last_cmd
    <3>1. cmd'[k] = cmd[k]
      BY <1>1, <1>4, <2>2
    <3> QED BY <1>4, <2>2, <3>1
  <2> QED BY <2>1, <2>2
<1>5. cl.reused_cmd \in Cmds => cmd'[cl.reused_cmd] = NULL
  BY <1>1
<1> QED BY <1>1, <1>3, <1>4, <1>5 DEF EofEffect

(* What is cut off when nothing is left behind: all of c under way.        *)
LEMMA NothingLeft ==
  ASSUME LinkInv, NEW c \in Conns, EofEffect(c), ~LeftBehind(c)
  PROVE  /\ \A r \in writes : r.req[1] # c
         /\ \A k \in Cmds : UnderWay(c, k)' =>
              cmd'[k].fd = NULL /\ cmd'[k].http_client = NULL /\ cmd'[k].pub_sub_client = NULL
<1>t. TypeOK
  BY DEF LinkInv
<1>1. Scheduled(c) = {}
  BY DEF LeftBehind
<1>2. ASSUME NEW k \in Cmds, UnderWay(c, k)'
      PROVE  cmd'[k].fd = NULL /\ cmd'[k].http_client = NULL /\ cmd'[k].pub_sub_client = NULL
  <2>1. cmd'[k] # NULL /\ cmd'[k].req[1] = c /\ k \in InFlight
    BY <1>2 DEF UnderWay, EofEffect
  <2>2. cmd[k] # NULL /\ cmd[k].req[1] = c
    BY <2>1 DEF EofEffect
  <2>3. k \in Awaited(c)
    BY <2>1, <2>2 DEF Awaited
  <2>4. k # client[c].reused_cmd
    BY <2>1 DEF EofEffect
  <2>5. k = client[c].last_cmd /\ cmd[k].kind # "sub"
    BY <2>3, <2>4 DEF LeftBehind
  <2>6. cmd[k].pub_sub_client = NULL
    BY <2>2, <2>5 DEF LinkInv, CmdLinks
  <2> QED BY <2>1, <2>5, <2>6 DEF EofEffect
<1> QED BY <1>t, <1>1, <1>2, NothingAwaited

(* The end of the stream, with nothing left behind: whatever was under way *)
(* for the client loses its descriptor before that is closed.              *)
LEMMA EofHeld ==
  ASSUME BaseInv, HeldInv, NEW c \in Conns, http_client_read_eof(c), Calm, Calm'
  PROVE  HeldInv'
<1> USE DEF BaseInv, HeldInv
<1>t. TypeOK
  BY DEF LinkInv
<1>1. EofEffect(c)
  BY EofHasEffect
<1>f. PICK g \in Fds : g = client[c].fd
  BY <1>t, <1>1, SerialTypes DEF EofEffect
<1>2. ~LeftBehind(c)
  BY DEF http_client_read_eof, Calm
<1>3. /\ \A r \in writes : r.req[1] # c
      /\ \A k \in Cmds : UnderWay(c, k)' => cmd'[k].fd = NULL
  BY <1>1, <1>2, NothingLeft
<1>4. /\ client[c] # NULL /\ owner[g] = c /\ owner'[g] = NULL
      /\ \A f \in Fds : f # g => owner'[f] = owner[f]
      /\ client'[c] = NULL /\ \A d \in Conns : d # c => client'[d] = client[d]
      /\ InFlight' \subseteq InFlight /\ InFlight \subseteq Cmds
      /\ UNCHANGED <<peer, got, writes>>
  BY <1>t, <1>1, <1>f DEF EofEffect, TypeOK
<1>5. \A k \in Cmds : cmd'[k] # NULL =>
        /\ cmd[k] # NULL
        /\ cmd'[k].req = cmd[k].req /\ cmd'[k].kind = cmd[k].kind
        /\ cmd'[k].keep_alive = cmd[k].keep_alive
        /\ cmd[k].req[1] # c => cmd'[k] = cmd[k]
  BY <1>1 DEF EofEffect
<1>6. ASSUME NEW f \in Fds, NEW ka, NEW d \in Conns, d # c, HeldFor(f, ka, d)
      PROVE  HeldFor(f, ka, d)'
  <2>1. f # g
    BY <1>4, <1>6 DEF HeldFor, Held
  <2> QED BY <1>4, <1>6, <2>1 DEF HeldFor, Held
<1>7. OwnFd'
  <2> SUFFICES ASSUME NEW d \in Conns, NEW f \in Fds, client'[d] # NULL, owner'[f] = d
               PROVE  client'[d].fd = f
    BY DEF OwnFd
  <2>1. f # g /\ d # c
    BY <1>4
  <2>2. client[d] # NULL /\ owner[f] = d /\ client'[d] = client[d]
    BY <1>4, <2>1
  <2> QED BY <2>2 DEF OwnFd
<1>8. NothingNew' /\ SubsStay' /\ NoCrossTalk'
  BY <1>4, <1>5 DEF NothingNew, SubsStay, NoCrossTalk
<1>9. FdsHeld'
  <2>1. ASSUME NEW k \in InFlight', cmd'[k] # NULL, cmd'[k].fd # NULL
        PROVE  HeldFor(cmd[k].fd, cmd[k].keep_alive, cmd[k].req[1])'
    <3>1. k \in InFlight /\ k \in Cmds
      BY <1>4
    <3>2. cmd'[k] = cmd[k] /\ cmd[k].req[1] # c
      BY <1>3, <1>5, <2>1, <3>1 DEF UnderWay
    <3>3. PICK f \in Fds, d \in Conns, b \in BOOLEAN :
            f = cmd[k].fd /\ d = cmd[k].req[1] /\ b = cmd[k].keep_alive
      BY <1>t, <2>1, <3>1, <3>2, SerialTypes DEF Cmd
    <3>4. HeldFor(f, b, d)
      BY <2>1, <3>1, <3>2, <3>3 DEF FdsHeld
    <3>5. HeldFor(f, b, d)'
      BY <1>6, <3>2, <3>3, <3>4
    <3> QED BY <3>2, <3>3, <3>5
  <2>2. ASSUME NEW r \in writes
        PROVE  HeldFor(r.fd, r.keep_alive, r.req[1])'
    BY <1>t, <1>3, <1>6, SerialTypes DEF FdsHeld
  <2> QED BY <1>4, <2>1, <2>2 DEF FdsHeld
<1>10. ClosingAlone'
  <2>1. \A d \in Conns : \A k \in Cmds :
          UnderWay(d, k)' => UnderWay(d, k) /\ cmd'[k].keep_alive = cmd[k].keep_alive
    BY <1>4, <1>5 DEF UnderWay
  <2>2. \A d \in Conns : client[d] = NULL => client'[d] = NULL
    BY <1>4
  <2> QED BY <1>4, <2>1, <2>2, ClosingKept
<1> QED BY <1>7, <1>8, <1>9, <1>10

(* A reply: the cmd becomes the response that closes the descriptor, or    *)
(* one more that leaves it open.                                           *)
LEMMA ReplyHeld ==
  ASSUME BaseInv, HeldInv, NEW k \in Cmds, format_send_reply(k)
  PROVE  HeldInv'
<1> USE DEF BaseInv, HeldInv
<1>t. TypeOK /\ ClientLinks
  BY DEF LinkInv
<1>1. /\ cmd[k] # NULL
      /\ callback_done(k) /\ cmd_free(k)
      /\ writes' = http_response_write(cmd[k].fd, cmd[k].keep_alive, cmd[k].req, 0)
      /\ UNCHANGED <<peer, got, owner>>
  BY DEF format_send_reply
<1>2. PICK c \in Conns : c = cmd[k].req[1]
  BY <1>t, <1>1, SerialTypes
<1>3. /\ \A d \in Conns : FreedIn(d, k)
      /\ cmd'[k] = NULL /\ \A j \in Cmds : j # k => cmd'[j] = cmd[j]
  BY <1>t, <1>1, FreedClients DEF cmd_free, TypeOK
<1>4. InFlight' \subseteq InFlight /\ InFlight \subseteq Cmds /\ k \in InFlight
  BY <1>t, <1>1, CallbackFlight, InFlightElements
<1>5. ASSUME NEW r \in writes', r \notin writes
      PROVE  /\ cmd[k].fd # NULL /\ r.fd = cmd[k].fd /\ r.keep_alive = cmd[k].keep_alive
             /\ r.req = cmd[k].req /\ r.req[1] = c
  BY <1>1, <1>2, <1>5 DEF http_response_write
<1>6. \A r, s : r \in writes' /\ r \notin writes /\ s \in writes' /\ s \notin writes => r = s
  BY <1>1 DEF http_response_write
<1>7. \A d \in Conns : \A j \in Cmds : UnderWay(d, j)' => UnderWay(d, j) /\ j # k /\ cmd'[j] = cmd[j]
  BY <1>3, <1>4 DEF UnderWay
<1>8. OwnFd'
  BY <1>1, <1>3 DEF OwnFd, FreedIn
<1>9. NothingNew' /\ SubsStay' /\ NoCrossTalk'
  <2>1. \A r \in writes' : r \in writes \/ r.req = cmd[k].req
    BY <1>5
  <2> QED BY <1>1, <1>3, <1>4, <2>1 DEF NothingNew, SubsStay, NoCrossTalk
<1>10. FdsHeld'
  <2>1. ASSUME NEW f \in Fds, NEW ka, NEW d \in Conns, HeldFor(f, ka, d)
        PROVE  HeldFor(f, ka, d)'
    <3>1. FreedIn(d, k)
      BY <1>3
    <3> QED BY <1>1, <2>1, <3>1 DEF HeldFor, Held, FreedIn
  <2>2. ASSUME NEW j \in InFlight', cmd'[j] # NULL, cmd'[j].fd # NULL
        PROVE  HeldFor(cmd[j].fd, cmd[j].keep_alive, cmd[j].req[1])'
    <3>1. j \in InFlight /\ j \in Cmds /\ cmd'[j] = cmd[j]
      BY <1>3, <1>4, <2>2
    <3>2. PICK f \in Fds, d \in Conns, b \in BOOLEAN :
            f = cmd[j].fd /\ d = cmd[j].req[1] /\ b = cmd[j].keep_alive
      BY <1>t, <2>2, <3>1, SerialTypes DEF Cmd
    <3>3. HeldFor(f, b, d)
      BY <2>2, <3>1, <3>2 DEF FdsHeld
    <3>4. HeldFor(f, b, d)'
      BY <2>1, <3>3
    <3> QED BY <3>1, <3>2, <3>4
  <2>3. ASSUME NEW r \in writes'
        PROVE  HeldFor(r.fd, r.keep_alive, r.req[1])'
    <3>1. /\ HeldFor(r.fd, r.keep_alive, r.req[1])
          /\ r.fd \in Fds /\ r.req[1] \in Conns
      BY <1>t, <1>1, <1>2, <1>4, <1>5, SerialTypes DEF FdsHeld
    <3> QED BY <2>1, <3>1
  <2> QED BY <2>2, <2>3 DEF FdsHeld
<1>11. ClosingAlone'
  <2> SUFFICES ASSUME NEW d \in Conns
               PROVE  /\ \A j \in Cmds : UnderWay(d, j)' /\ ~cmd'[j].keep_alive => CmdAlone(d, j)'
                      /\ \A r \in writes' : r.req[1] = d /\ ~r.keep_alive => WriteAlone(d, r)'
    BY DEF ClosingAlone
  <2>0. client[d] = NULL => client'[d] = NULL
    BY <1>3 DEF FreedIn
  <2>k. UnderWay(c, k)
    BY <1>1, <1>2, <1>4 DEF UnderWay
  <2>1. ASSUME NEW j \in Cmds, UnderWay(d, j)', ~cmd'[j].keep_alive PROVE CmdAlone(d, j)'
    <3>1. UnderWay(d, j) /\ ~cmd[j].keep_alive /\ j # k
      BY <1>7, <2>1
    <3>2. CmdAlone(d, j)
      BY <3>1 DEF ClosingAlone
    <3>3. d # c
      BY <2>k, <3>1, <3>2 DEF CmdAlone
    <3>4. \A r \in writes' : r.req[1] # d
      BY <1>5, <3>2, <3>3 DEF CmdAlone
    <3> QED BY <1>7, <2>0, <3>2, <3>4 DEF CmdAlone
  <2>2. ASSUME NEW r \in writes', r.req[1] = d, ~r.keep_alive PROVE WriteAlone(d, r)'
    <3>1. CASE r \in writes
      <4>1. WriteAlone(d, r)
        BY <2>2, <3>1 DEF ClosingAlone
      <4>2. d # c
        BY <2>k, <4>1 DEF WriteAlone
      <4>3. \A s \in writes' : s.req[1] = d => s \in writes
        BY <1>5, <4>2
      <4> QED BY <1>7, <2>0, <4>1, <4>3 DEF WriteAlone
    <3>2. CASE r \notin writes
      <4>1. d = c /\ ~cmd[k].keep_alive
        BY <1>5, <2>2, <3>2
      <4>2. CmdAlone(c, k)
        BY <2>k, <4>1 DEF ClosingAlone
      <4>3. \A j \in Cmds : ~UnderWay(c, j)'
        BY <1>7, <4>2 DEF CmdAlone
      <4>4. \A s \in writes' : s.req[1] = c => s = r
        BY <1>6, <3>2, <4>2 DEF CmdAlone
      <4> QED BY <2>0, <4>1, <4>2, <4>3, <4>4 DEF CmdAlone, WriteAlone
    <3> QED BY <3>1, <3>2
  <2> QED BY <2>1, <2>2
<1> QED BY <1>8, <1>9, <1>10, <1>11

(* A message of a subscription: one more response for the same cmd, and    *)
(* the connection of one stays open.                                       *)
LEMMA MessageHeld ==
  ASSUME BaseInv, HeldInv, NEW k \in Cmds, format_send_message(k)
  PROVE  HeldInv'
<1> USE DEF BaseInv, HeldInv
<1>t. TypeOK
  BY DEF LinkInv
<1>1. /\ cmd[k] # NULL /\ cmd[k].kind = "sub" /\ k \in own
      /\ writes' = http_response_write(cmd[k].fd, TRUE, cmd[k].req, msgs[k] + 1)
      /\ UNCHANGED <<peer, got, owner, client, cmd, queue, own>>
  BY DEF format_send_message
<1>2. PICK c \in Conns : c = cmd[k].req[1]
  BY <1>t, <1>1, SerialTypes
<1>3. ASSUME NEW r \in writes', r \notin writes
      PROVE  /\ cmd[k].fd # NULL /\ r.fd = cmd[k].fd /\ r.keep_alive = TRUE
             /\ r.req = cmd[k].req /\ r.req[1] = c
  BY <1>1, <1>2, <1>3 DEF http_response_write
<1>4. /\ k \in InFlight /\ InFlight' = InFlight /\ InFlight \subseteq Cmds
      /\ cmd[k].keep_alive = TRUE
  <2>1. k \in InFlight /\ InFlight' = InFlight /\ InFlight \subseteq Cmds
    BY <1>t, <1>1, InFlightElements DEF InFlight
  <2>2. cmd[k].keep_alive \in BOOLEAN
    BY <1>t, <1>1, SerialTypes DEF Cmd
  <2> QED BY <1>1, <2>1, <2>2 DEF SubsStay
<1>5. \A d, j : UnderWay(d, j)' = UnderWay(d, j)
  BY <1>1, <1>4 DEF UnderWay
<1>6. OwnFd' /\ SubsStay' /\ NoCrossTalk'
  BY <1>1, <1>4 DEF OwnFd, SubsStay, NoCrossTalk
<1>7. NothingNew'
  <2>1. \A r \in writes' : r \in writes \/ r.req = cmd[k].req
    BY <1>3
  <2> QED BY <1>1, <2>1 DEF NothingNew
<1>8. FdsHeld'
  <2>1. \A f, ka, d : HeldFor(f, ka, d)' = HeldFor(f, ka, d)
    BY <1>1 DEF HeldFor, Held
  <2>2. ASSUME NEW r \in writes' PROVE HeldFor(r.fd, r.keep_alive, r.req[1])
    <3>1. CASE r \in writes
      BY <3>1 DEF FdsHeld
    <3>2. CASE r \notin writes
      BY <1>1, <1>3, <1>4, <3>2 DEF FdsHeld
    <3> QED BY <3>1, <3>2
  <2>3. \A j \in InFlight : cmd[j] # NULL /\ cmd[j].fd # NULL =>
          HeldFor(cmd[j].fd, cmd[j].keep_alive, cmd[j].req[1])
    BY DEF FdsHeld
  <2> QED BY <1>1, <1>4, <2>1, <2>2, <2>3 DEF FdsHeld, HeldFor, Held
<1>9. ClosingAlone'
  <2> SUFFICES ASSUME NEW d \in Conns
               PROVE  /\ \A j \in Cmds : UnderWay(d, j) /\ ~cmd[j].keep_alive => CmdAlone(d, j)'
                      /\ \A r \in writes' : r.req[1] = d /\ ~r.keep_alive => WriteAlone(d, r)'
    BY <1>1, <1>5 DEF ClosingAlone
  <2>k. UnderWay(c, k)
    BY <1>1, <1>2, <1>4 DEF UnderWay
  <2>1. ASSUME NEW j \in Cmds, UnderWay(d, j), ~cmd[j].keep_alive PROVE CmdAlone(d, j)'
    <3>1. CmdAlone(d, j)
      BY <2>1 DEF ClosingAlone
    <3>2. d # c
      BY <1>4, <2>k, <2>1, <3>1 DEF CmdAlone
    <3>3. \A r \in writes' : r.req[1] # d
      BY <1>3, <3>1, <3>2 DEF CmdAlone
    <3> QED BY <1>1, <1>5, <3>1, <3>3 DEF CmdAlone
  <2>2. ASSUME NEW r \in writes', r.req[1] = d, ~r.keep_alive PROVE WriteAlone(d, r)'
    <3>1. r \in writes
      BY <1>3, <2>2
    <3>2. WriteAlone(d, r)
      BY <2>2, <3>1 DEF ClosingAlone
    <3>3. d # c
      BY <2>k, <3>2 DEF WriteAlone
    <3>4. \A s \in writes' : s.req[1] = d => s \in writes
      BY <1>3, <3>3
    <3> QED BY <1>1, <1>5, <3>2, <3>4 DEF WriteAlone
  <2> QED BY <2>1, <2>2
<1> QED BY <1>6, <1>7, <1>8, <1>9

(* The context of a subscription is lost: its client forgets it.           *)
LEMMA ErrorHeld ==
  ASSUME BaseInv, HeldInv, NEW k \in Cmds, format_send_error_sub(k)
  PROVE  HeldInv'
<1> USE DEF BaseInv, HeldInv
<1>t. TypeOK
  BY DEF LinkInv
<1>1. own' = own \ {k} /\ UNCHANGED <<peer, got, owner, cmd, queue, writes>>
  BY DEF format_send_error_sub
<1>2. \A d \in Conns : ForgottenIn(d)
  BY ForgottenClients, <1>t
<1>3. InFlight' \subseteq InFlight /\ InFlight \subseteq Cmds
  BY <1>t, <1>1, InFlightElements DEF InFlight
<1>4. OwnFd'
  BY <1>1, <1>2 DEF OwnFd, ForgottenIn
<1>5. NothingNew' /\ SubsStay' /\ NoCrossTalk'
  BY <1>1, <1>3 DEF NothingNew, SubsStay, NoCrossTalk
<1>6. FdsHeld'
  <2>1. ASSUME NEW f \in Fds, NEW ka, NEW d \in Conns, HeldFor(f, ka, d)
        PROVE  HeldFor(f, ka, d)'
    <3>1. ForgottenIn(d)
      BY <1>2
    <3> QED BY <1>1, <2>1, <3>1 DEF HeldFor, Held, ForgottenIn
  <2>2. ASSUME NEW j \in InFlight', cmd[j] # NULL, cmd[j].fd # NULL
        PROVE  HeldFor(cmd[j].fd, cmd[j].keep_alive, cmd[j].req[1])'
    <3>1. j \in InFlight /\ j \in Cmds
      BY <1>3
    <3>2. PICK f \in Fds, d \in Conns, b \in BOOLEAN :
            f = cmd[j].fd /\ d = cmd[j].req[1] /\ b = cmd[j].keep_alive
      BY <1>t, <2>2, <3>1, SerialTypes DEF Cmd
    <3>3. HeldFor(f, b, d)
      BY <2>2, <3>1, <3>2 DEF FdsHeld
    <3>4. HeldFor(f, b, d)'
      BY <2>1, <3>3
    <3> QED BY <1>1, <3>2, <3>4
  <2>3. \A r \in writes : HeldFor(r.fd, r.keep_alive, r.req[1])'
    BY <1>t, <2>1, SerialTypes DEF FdsHeld
  <2> QED BY <1>1, <2>2, <2>3 DEF FdsHeld
<1>7. ClosingAlone'
  <2>1. \A d \in Conns : \A j \in Cmds :
          UnderWay(d, j)' => UnderWay(d, j) /\ cmd'[j].keep_alive = cmd[j].keep_alive
    BY <1>1, <1>3 DEF UnderWay
  <2>2. \A d \in Conns : client[d] = NULL => client'[d] = NULL
    BY <1>2 DEF ForgottenIn
  <2> QED BY <1>1, <2>1, <2>2, ClosingKept
<1> QED BY <1>4, <1>5, <1>6, <1>7

(* A response is written: it reaches its own connection or nobody, and     *)
(* when it closes the descriptor nothing else of the connection needs it,  *)
(* or the client still holds it.                                           *)
LEMMA WriteHeld ==
  ASSUME BaseInv, HeldInv, NEW r \in writes, http_can_write(r)
  PROVE  HeldInv'
<1> USE DEF BaseInv, HeldInv
<1>t. TypeOK
  BY DEF LinkInv
<1>1. /\ r.fd \in Fds /\ r.keep_alive \in BOOLEAN /\ r.part \in 0 .. MaxMsg
      /\ r.req \in Conns \X (1 .. MaxReq)
  BY <1>t DEF TypeOK, Response
<1>2. PICK success \in BOOLEAN :
        /\ got' = IF success THEN Delivered(r.fd, r.req, r.part) ELSE got
        /\ owner' = http_response_cleanup(r.fd, r.keep_alive, success)
  BY OutcomesAreBoolean DEF http_can_write
<1>3. writes' = writes \ {r} /\ UNCHANGED <<peer, client, cmd, queue, own>>
  BY DEF http_can_write
<1>4. PICK c \in Conns : c = r.req[1]
  BY <1>1
<1>5. HeldFor(r.fd, r.keep_alive, c)
  BY <1>4 DEF FdsHeld
<1>6. NoCrossTalk'
  <2>1. owner[r.fd] \in {r.req[1], NULL}
    BY <1>4, <1>5 DEF HeldFor, Held
  <2> QED BY <1>t, <1>1, <1>2, <2>1, DeliveredAnswers
<1>7. /\ \A f \in Fds : f # r.fd => owner'[f] = owner[f]
      /\ owner'[r.fd] = IF r.keep_alive /\ success THEN owner[r.fd] ELSE NULL
  BY <1>t, <1>1, <1>2 DEF http_response_cleanup, TypeOK
<1>8. InFlight' = InFlight /\ InFlight \subseteq Cmds
  BY <1>t, <1>3, InFlightElements DEF InFlight
<1>9. OwnFd'
  BY <1>3, <1>7 DEF OwnFd
<1>10. NothingNew' /\ SubsStay'
  BY <1>3, <1>8 DEF NothingNew, SubsStay
<1>11. FdsHeld'
  <2>1. ASSUME NEW f \in Fds, NEW ka, NEW d \in Conns, HeldFor(f, ka, d),
               f = r.fd /\ d = c => r.keep_alive
        PROVE  HeldFor(f, ka, d)'
    <3>1. CASE owner'[f] = owner[f]
      BY <1>3, <2>1, <3>1 DEF HeldFor, Held
    <3>2. CASE owner'[f] # owner[f]
      <4>1. f = r.fd /\ owner'[f] = NULL /\ owner[f] # NULL
        BY <1>1, <1>7, <3>2
      <4>2. owner[f] = c /\ d = c
        BY <1>5, <2>1, <4>1 DEF HeldFor, Held
      <4>3. client[c] # NULL /\ client[c].fd = f
        BY <1>5, <2>1, <4>1, <4>2 DEF HeldFor, OwnFd
      <4> QED BY <1>3, <4>1, <4>2, <4>3 DEF HeldFor, Held
    <3> QED BY <3>1, <3>2
  <2>2. ASSUME NEW k \in InFlight, cmd[k] # NULL, cmd[k].fd # NULL
        PROVE  HeldFor(cmd[k].fd, cmd[k].keep_alive, cmd[k].req[1])'
    <3>1. PICK f \in Fds, d \in Conns, ka \in BOOLEAN :
            f = cmd[k].fd /\ d = cmd[k].req[1] /\ ka = cmd[k].keep_alive
      BY <1>t, <1>8, <2>2, SerialTypes DEF Cmd
    <3>2. HeldFor(f, ka, d)
      BY <2>2, <3>1 DEF FdsHeld
    <3>3. d = c => r.keep_alive
      BY <1>4, <1>8, <2>2, <3>1 DEF ClosingAlone, WriteAlone, UnderWay
    <3>4. HeldFor(f, ka, d)'
      BY <2>1, <3>2, <3>3
    <3> QED BY <1>3, <3>1, <3>4
  <2>3. ASSUME NEW s \in writes, s # r
        PROVE  HeldFor(s.fd, s.keep_alive, s.req[1])'
    <3>1. s.req[1] = c => r.keep_alive
      BY <1>4, <2>3 DEF ClosingAlone, WriteAlone
    <3> QED BY <1>t, <2>1, <3>1, SerialTypes DEF FdsHeld
  <2> QED BY <1>3, <1>8, <2>2, <2>3 DEF FdsHeld
<1>12. ClosingAlone'
  <2>1. \A d \in Conns : \A k \in Cmds :
          UnderWay(d, k)' => UnderWay(d, k) /\ cmd'[k].keep_alive = cmd[k].keep_alive
    BY <1>3, <1>8 DEF UnderWay
  <2> QED BY <1>3, <2>1, ClosingKept
<1> QED BY <1>6, <1>9, <1>10, <1>11, <1>12

(* A step that touches no more than the peers and what they send.          *)
LEMMA OthersHeld ==
  ASSUME BaseInv, HeldInv, UNCHANGED <<got, owner, client, cmd, queue, own, writes>>,
         \A d \in Conns : peer'[d] = "new" => peer[d] = "new"
  PROVE  HeldInv'
<1>1. InFlight' = InFlight
  BY DEF InFlight
<1>2. NothingNew'
  BY SerialTypes DEF BaseInv, LinkInv, HeldInv, NothingNew
<1>3. \A c, k : UnderWay(c, k)' = UnderWay(c, k)
  BY <1>1 DEF UnderWay
<1>4. ClosingAlone'
  BY <1>3 DEF HeldInv, ClosingAlone, CmdAlone, WriteAlone
<1> QED BY <1>1, <1>2, <1>4 DEF HeldInv, OwnFd, FdsHeld, HeldFor, Held, SubsStay, NoCrossTalk

(* What was hasty or stranded stays so.                                    *)
LEMMA HistoryGrows ==
  ASSUME [Next]_vars PROVE hasty \subseteq hasty' /\ stranded \subseteq stranded'
<1>1. ASSUME NEW c \in Conns, worker_can_read(c)
      PROVE  hasty \subseteq hasty' /\ stranded \subseteq stranded'
  BY <1>1 DEF worker_can_read, worker_process_client, cmd_run_sent, cmd_run_unavailable
<1> QED BY <1>1 DEF Next, vars, server_can_accept, peer_sends, peer_closes, http_client_read_eof,
                    format_send_reply, format_send_message, format_send_error_sub, http_can_write

(* Every step keeps what is under way with its connection, while nothing   *)
(* is left behind and nobody is stranded.                                  *)
LEMMA StepHeldInv == BaseInv /\ (Calm => HeldInv) /\ [Next]_vars => (Calm => HeldInv)'
<1> SUFFICES ASSUME BaseInv, Calm => HeldInv, [Next]_vars, Calm' PROVE HeldInv'
  OBVIOUS
<1>1. Calm /\ HeldInv
  BY HistoryGrows DEF Calm
<1>2. ASSUME NEW c \in Conns, peer_sends(c) \/ peer_closes(c) PROVE HeldInv'
  <2>1. UNCHANGED <<got, owner, client, cmd, queue, own, writes>>
    BY <1>2 DEF peer_sends, peer_closes
  <2>2. \A d \in Conns : peer'[d] = "new" => peer[d] = "new"
    BY <1>2 DEF peer_sends, peer_closes, BaseInv, LinkInv, TypeOK
  <2> QED BY <1>1, <2>1, <2>2, OthersHeld
<1>3. CASE UNCHANGED vars
  <2>1. UNCHANGED <<peer, got, owner, client, cmd, queue, own, writes>>
    BY <1>3 DEF vars
  <2> QED BY <1>1, <2>1, OthersHeld
<1> QED BY <1>1, <1>2, <1>3, AcceptHeld, ReadHeld, EofHeld, ReplyHeld, MessageHeld, ErrorHeld,
           WriteHeld DEF Next

(* BaseInv is an invariant.                                                *)
LEMMA AlwaysBase == Spec => []BaseInv
<1>1. Init => BaseInv
  BY InitLinkInv, InitFlightInv, InitNewIsUnused DEF BaseInv
<1>2. BaseInv /\ [Next]_vars => BaseInv'
  BY StepLinkInv, StepFlightInv, StepNewIsUnused DEF BaseInv
<1> QED BY <1>1, <1>2, PTL DEF Spec

(* However descriptors are reused and requests pipelined, no client        *)
(* receives the answer to another's request, unless some client closed, or *)
(* asked to close, with more under way than http_client_read takes back,   *)
(* or some connection was stranded (http_client_read, http_can_write).     *)
THEOREM AnswersReachTheirClient == Spec => []NoAnswerGoesAstray
<1>1. Init => (Calm => HeldInv)
  BY InitHeldInv
<1>2. (Calm => HeldInv) => NoAnswerGoesAstray
  BY DEF Calm, HeldInv, NoAnswerGoesAstray
<1> QED BY <1>1, <1>2, AlwaysBase, StepHeldInv, PTL DEF Spec

-----------------------------------------------------------------------------
(* The first half of LinksAreLive, for cmd k.                              *)
HasClient(k) ==
  cmd[k] # NULL /\ cmd[k].keep_alive /\ cmd[k].req[1] \notin hasty \cup stranded =>
    \A c \in {cmd[k].http_client, cmd[k].pub_sub_client} \ {NULL} : client[c] # NULL

CmdsHaveClients == \A k \in InFlight : HasClient(k)

(* Steps that free no client leave every cmd in flight with its own.       *)
LEMMA ClientsKept ==
  ASSUME LinkInv, CmdsHaveClients, InFlight' \subseteq InFlight,
         hasty \subseteq hasty', stranded \subseteq stranded',
         \A k \in Cmds : cmd'[k] # NULL => cmd'[k] = cmd[k],
         \A d \in Conns : client[d] # NULL => client'[d] # NULL
  PROVE  CmdsHaveClients'
<1>t. TypeOK
  BY DEF LinkInv
<1> SUFFICES ASSUME NEW k \in InFlight', cmd'[k] # NULL, cmd'[k].keep_alive,
                    cmd'[k].req[1] \notin hasty' \cup stranded',
                    NEW c \in {cmd'[k].http_client, cmd'[k].pub_sub_client} \ {NULL}
             PROVE  client'[c] # NULL
  BY DEF CmdsHaveClients, HasClient
<1>1. k \in InFlight /\ k \in Cmds
  BY <1>t, InFlightElements
<1>2. cmd'[k] = cmd[k]
  BY <1>1
<1>3. client[c] # NULL
  BY <1>1, <1>2 DEF CmdsHaveClients, HasClient
<1>4. c \in Conns
  BY <1>t, <1>1, <1>2, SerialTypes DEF Cmd
<1> QED BY <1>3, <1>4

(* Reading a request frees a client only if it is to be closed: its cmds   *)
(* in flight make it hasty, and a cmd with keep-alive strands it.          *)
LEMMA ReadClients ==
  ASSUME LinkInv, CmdsHaveClients, NEW c \in Conns, worker_can_read(c),
         hasty \subseteq hasty', stranded \subseteq stranded'
  PROVE  CmdsHaveClients'
<1>t. TypeOK /\ ReadWithinSent
  BY DEF LinkInv
<1>1. client[c] # NULL
  BY DEF worker_can_read, Readable
<1>2. PICK kind \in Kinds, ka \in BOOLEAN, hd \in BOOLEAN, n \in 1 .. MaxReq :
        /\ worker_process_client(c, kind, ka, hd, n)
        /\ hasty' = IF ka \/ (Awaited(c) = {} /\ Scheduled(c) = {})
                      THEN hasty ELSE hasty \cup {c}
  BY <1>t, ReadArguments
<1>3. Effect(c, kind, ka, hd, n)
  BY <1>t, <1>1, <1>2, ProcessEffect
<1>4. \A d \in Conns : client[d] # NULL /\ (d # c \/ ka) => client'[d] # NULL
  BY <1>3 DEF Effect
<1>5. ASSUME NEW k \in InFlight, cmd[k] # NULL, cmd[k].req[1] = c, ~ka PROVE c \in hasty'
  <2>1. k \in Awaited(c)
    BY <1>5 DEF Awaited
  <2> QED BY <1>2, <1>5, <2>1
<1>6. ASSUME NEW k \in InFlight, cmd'[k] = cmd[k] PROVE HasClient(k)'
  <2> SUFFICES ASSUME cmd[k] # NULL, cmd[k].keep_alive,
                      cmd[k].req[1] \notin hasty' \cup stranded',
                      NEW d \in {cmd[k].http_client, cmd[k].pub_sub_client} \ {NULL}
               PROVE  client'[d] # NULL
    BY <1>6 DEF HasClient
  <2>1. k \in Cmds
    BY <1>t, InFlightElements
  <2>2. d = cmd[k].req[1] /\ d \in Conns
    BY <1>t, <2>1, SerialTypes DEF LinkInv, CmdLinks
  <2>3. client[d] # NULL
    BY DEF CmdsHaveClients, HasClient
  <2>4. d # c \/ ka
    BY <1>5, <2>2
  <2> QED BY <1>4, <2>2, <2>3, <2>4
<1>7. CASE UNCHANGED <<cmd, queue, own>>
  <2>1. InFlight' = InFlight
    BY <1>7 DEF InFlight
  <2> QED BY <1>6, <1>7, <2>1 DEF CmdsHaveClients
<1>8. CASE kind \in CmdKinds /\ cmd_run_sent(c, kind, ka, hd, n)
  <2>1. PICK k \in Cmds : /\ cmd[k] = NULL /\ k \notin InFlight
                          /\ cmd' = [cmd EXCEPT ![k] = cmd_setup(c, kind, ka, hd, n)]
                          /\ redisAsyncCommandArgv(k, kind)
    BY <1>8 DEF cmd_run_sent
  <2>2. /\ cmd'[k] = cmd_setup(c, kind, ka, hd, n)
        /\ \A j \in Cmds : j # k => cmd'[j] = cmd[j]
    BY <1>t, <2>1 DEF TypeOK
  <2>3. InFlight' \subseteq InFlight \cup {k} /\ InFlight \subseteq Cmds
    BY <1>t, <2>1, SendFlight, InFlightElements
  <2>4. ka \/ ~hd \/ c \in stranded'
    BY <1>8 DEF cmd_run_sent
  <2>5. HasClient(k)'
    <3>1. /\ cmd_setup(c, kind, ka, hd, n).keep_alive = (ka \/ hd)
          /\ cmd_setup(c, kind, ka, hd, n).req[1] = c
          /\ cmd_setup(c, kind, ka, hd, n).http_client = c
          /\ cmd_setup(c, kind, ka, hd, n).pub_sub_client \in {c, NULL}
      BY DEF cmd_setup
    <3>2. ka => client'[c] # NULL
      BY <1>1, <1>4
    <3> QED BY <2>2, <2>4, <3>1, <3>2 DEF HasClient
  <2>6. ASSUME NEW j \in InFlight', j # k PROVE HasClient(j)'
    BY <1>6, <2>2, <2>3, <2>6
  <2> QED BY <2>5, <2>6 DEF CmdsHaveClients
<1> QED BY <1>3, <1>7, <1>8 DEF Effect

(* At the end of the stream nothing that is left behind points to the      *)
(* client, or its connection is hasty.                                     *)
LEMMA EofClients ==
  ASSUME LinkInv, CmdsHaveClients, NEW c \in Conns, http_client_read_eof(c),
         hasty \subseteq hasty', stranded \subseteq stranded'
  PROVE  CmdsHaveClients'
<1>t. TypeOK
  BY DEF LinkInv
<1>1. EofEffect(c)
  BY EofHasEffect
<1>2. ~LeftBehind(c) \/ c \in hasty'
  BY DEF http_client_read_eof
<1> SUFFICES ASSUME NEW k \in InFlight', cmd'[k] # NULL, cmd'[k].keep_alive,
                    cmd'[k].req[1] \notin hasty' \cup stranded',
                    NEW d \in {cmd'[k].http_client, cmd'[k].pub_sub_client} \ {NULL}
             PROVE  client'[d] # NULL
  BY DEF CmdsHaveClients, HasClient
<1>3. k \in InFlight /\ k \in Cmds /\ cmd[k] # NULL /\ cmd'[k].req = cmd[k].req
  BY <1>1 DEF EofEffect
<1>4. CASE cmd[k].req[1] = c
  <2>1. UnderWay(c, k)'
    BY <1>3, <1>4 DEF UnderWay
  <2>2. ~LeftBehind(c)
    BY <1>2, <1>3, <1>4
  <2>3. cmd'[k].http_client = NULL /\ cmd'[k].pub_sub_client = NULL
    BY <1>1, <1>3, <2>1, <2>2, NothingLeft
  <2> QED BY <2>3
<1>5. CASE cmd[k].req[1] # c
  <2>1. cmd'[k] = cmd[k]
    BY <1>1, <1>3, <1>5 DEF EofEffect
  <2>2. d = cmd[k].req[1] /\ d \in Conns
    BY <1>t, <1>3, <2>1, SerialTypes DEF LinkInv, CmdLinks
  <2>3. client[d] # NULL
    BY <1>3, <2>1 DEF CmdsHaveClients, HasClient
  <2> QED BY <1>1, <1>5, <2>2, <2>3 DEF EofEffect
<1> QED BY <1>4, <1>5

(* Every step leaves the cmds in flight with their clients.                *)
LEMMA StepClients == LinkInv /\ CmdsHaveClients /\ [Next]_vars => CmdsHaveClients'
<1> SUFFICES ASSUME LinkInv, CmdsHaveClients, [Next]_vars PROVE CmdsHaveClients'
  OBVIOUS
<1>t. TypeOK /\ ClientLinks
  BY DEF LinkInv
<1>h. hasty \subseteq hasty' /\ stranded \subseteq stranded'
  BY HistoryGrows
<1>1. CASE UNCHANGED <<client, cmd, queue, own>>
  <2>1. InFlight' = InFlight
    BY <1>1 DEF InFlight
  <2> QED BY <1>h, <1>1, <2>1, ClientsKept
<1>2. ASSUME NEW c \in Conns, server_can_accept(c) PROVE CmdsHaveClients'
  <2>1. PICK f \in Fds : client' = [client EXCEPT ![c] = http_client_new(f)]
    BY <1>2 DEF server_can_accept
  <2>2. http_client_new(f) # NULL
    <3>1. http_client_new(f) \in Client
      BY DEF http_client_new, Client
    <3> QED BY <3>1
  <2>3. \A d \in Conns : client[d] # NULL => client'[d] # NULL
    BY <1>t, <2>1, <2>2 DEF TypeOK
  <2>4. UNCHANGED cmd /\ InFlight' = InFlight
    BY <1>2 DEF server_can_accept, InFlight
  <2> QED BY <1>h, <2>3, <2>4, ClientsKept
<1>3. ASSUME NEW k \in Cmds, format_send_reply(k) PROVE CmdsHaveClients'
  <2>1. callback_done(k) /\ cmd_free(k)
    BY <1>3 DEF format_send_reply
  <2>2. InFlight' \subseteq InFlight
    BY <1>t, <2>1, CallbackFlight
  <2>3. \A d \in Conns : client[d] # NULL => client'[d] # NULL
    BY <1>t, <2>1, FreedClients DEF FreedIn
  <2>4. \A j \in Cmds : cmd'[j] # NULL => cmd'[j] = cmd[j]
    BY <1>t, <2>1 DEF cmd_free, TypeOK
  <2> QED BY <1>h, <2>2, <2>3, <2>4, ClientsKept
<1>4. ASSUME NEW k \in Cmds, format_send_error_sub(k) PROVE CmdsHaveClients'
  <2>1. UNCHANGED cmd /\ InFlight' \subseteq InFlight
    BY <1>4 DEF format_send_error_sub, InFlight
  <2>2. \A d \in Conns : client[d] # NULL => client'[d] # NULL
    BY <1>t, <1>4, ForgottenClients DEF ForgottenIn
  <2> QED BY <1>h, <2>1, <2>2, ClientsKept
<1>5. ASSUME NEW c \in Conns, peer_sends(c) \/ peer_closes(c) PROVE CmdsHaveClients'
  BY <1>1, <1>5 DEF peer_sends, peer_closes
<1>6. ASSUME NEW k \in Cmds, format_send_message(k) PROVE CmdsHaveClients'
  BY <1>1, <1>6 DEF format_send_message
<1>7. ASSUME NEW r \in writes, http_can_write(r) PROVE CmdsHaveClients'
  BY <1>1, <1>7 DEF http_can_write
<1>8. CASE UNCHANGED vars
  BY <1>1, <1>8 DEF vars
<1>9. ASSUME NEW c \in Conns, worker_can_read(c) \/ http_client_read_eof(c)
      PROVE  CmdsHaveClients'
  BY <1>h, <1>9, ReadClients, EofClients
<1> QED BY <1>2, <1>3, <1>4, <1>5, <1>6, <1>7, <1>8, <1>9 DEF Next

(* The pointers between clients and their cmds in flight, in both          *)
(* directions, lead to live structures (cmd_run, cmd_free,                 *)
(* http_client_free); of the connections that closed with something left   *)
(* behind, or are stranded, this is not said.                              *)
THEOREM PointersStayLive == Spec => []LinksAreLive
<1>1. Init => CmdsHaveClients
  <2>1. Init => InFlight = {}
    BY DEF Init, InFlight, Range
  <2> QED BY <2>1 DEF CmdsHaveClients
<1>2. LinkInv /\ CmdsHaveClients => LinksAreLive
  BY DEF LinkInv, ClientLinks, CmdsHaveClients, HasClient, LinksAreLive
<1> QED BY <1>1, <1>2, InitLinkInv, StepLinkInv, StepClients, PTL DEF Spec
=============================================================================
