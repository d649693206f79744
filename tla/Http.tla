-------------------------------- MODULE Http --------------------------------
(***************************************************************************)
(* HTTP connections of one worker: struct http_client, struct cmd, the     *)
(* Redis callbacks that still hold a cmd, the responses that wait to be    *)
(* written, and the file descriptors they all name by number.  Sources:    *)
(* client.c, worker.c, cmd.c, http.c and formats/common.c.  A handler runs *)
(* to completion in the worker's thread, so each one is an action.         *)
(*                                                                         *)
(* A connection also names its http_client, of which there is one.  A      *)
(* descriptor number is reused by accept as soon as it is closed, except   *)
(* one that a client left behind by a failed write still watches: what     *)
(* libevent does with two events on one number is not modelled.            *)
(***************************************************************************)
EXTENDS Integers, Sequences, FiniteSets, Functions

CONSTANTS Conns,       \* TCP connections, in the order they may come
          Fds,         \* descriptor numbers
          Cmds,        \* addresses of struct cmd
          PoolCtx,     \* connections of the Redis pool
          Requests,    \* what a client may send: <<kind, connection>> pairs
          MaxReq,      \* bound: requests per connection
          MaxSent,     \* bound: requests in all
          MaxMsg,      \* bound: messages per subscription
          Greeting,    \* AUTH or SELECT precedes a command on a new context
          NULL

ASSUME SetsAssumption == /\ Conns \subseteq Nat /\ Fds \subseteq Nat
                         /\ NULL \notin Conns \cup Fds \cup Cmds
                         /\ PoolCtx \cap Cmds = {}
ASSUME BoundAssumption == MaxReq \in Nat /\ MaxSent \in Nat /\ MaxMsg \in Nat
ASSUME FlagsAssumption == Greeting \in BOOLEAN

(* "plain": answered at once without a cmd (OPTIONS, crossdomain.xml, 405, *)
(* 400, 413, or a 403 for an empty path).  "denied": cmd_run refuses it by *)
(* the ACL (403).  "cmd": a Redis command; "mon": MONITOR; "unsub":        *)
(* (P)UNSUBSCRIBE.  "sub": SUBSCRIBE or PSUBSCRIBE.                        *)
Kinds == {"plain", "denied", "cmd", "mon", "unsub", "sub"}

(* What a request says of its connection.  "keep": HTTP/1.1 without        *)
(* Connection: close, or a Keep-Alive that came in one read.  "close":     *)
(* Connection: close.  "old": HTTP/1.0, which leaves keep_alive alone.     *)
(* "cut": the same with a Keep-Alive that a read cut in two, which         *)
(* http_client_on_header_value overlooks.  "both": close and Keep-Alive.   *)
Connection == {"close", "keep", "old", "cut", "both"}

ASSUME RequestsAssumption == Requests \subseteq Kinds \X Connection

VARIABLES peer,    \* connection -> "new", "open", "gone" (closed by the peer)
          inbox,   \* connection -> requests sent and not read yet
          sent,    \* connection -> number of requests sent
          got,     \* connection -> responses it received
          owner,   \* descriptor -> the connection it stands for, or NULL
          client,  \* connection -> its struct http_client, or NULL
          cmd,     \* address -> struct cmd, or NULL
          queue,   \* pool context -> cmds whose reply is awaited, in order
          own,     \* cmds with a callback on a context of their own
          writes,  \* responses scheduled for writing
          msgs,    \* address -> messages its subscription has delivered
          monitoring, \* contexts with REDIS_MONITORING; one of a cmd's own is
                      \* named by the cmd
          hasty,   \* history: connections closed, or to be closed at their own
                   \* request, with an answer under way that nobody calls back
          stranded \* history: connections without a client whose last answer
                   \* does not close the descriptor

vars == <<peer, inbox, sent, got, owner, client, cmd, queue, own, writes, msgs,
          monitoring, hasty, stranded>>

Client == [fd : Fds, keep_alive : BOOLEAN,
           last_cmd : Cmds \cup {NULL}, reused_cmd : Cmds \cup {NULL}]

(* A cmd's fd is NULL for -1; req is <<connection, number>>, part of no    *)
(* struct: it says which request the cmd answers.                          *)
Cmd == [fd : Fds \cup {NULL}, keep_alive : BOOLEAN,
        kind : {"cmd", "mon", "unsub", "sub"},
        http_client : Conns \cup {NULL}, pub_sub_client : Conns \cup {NULL},
        req : Conns \X (1 .. MaxReq)]

Response == [fd : Fds, keep_alive : BOOLEAN,
             req : Conns \X (1 .. MaxReq), part : 0 .. MaxMsg]

(* A null pointer is no structure.                                         *)
ASSUME NullAssumption == NULL \notin Client /\ NULL \notin Cmd

TypeOK ==
  /\ peer \in [Conns -> {"new", "open", "gone"}]
  /\ inbox \in [Conns -> Seq(Requests)]
  /\ sent \in [Conns -> 0 .. MaxReq]
  /\ got \in [Conns -> Seq((Conns \X (1 .. MaxReq)) \X (0 .. MaxMsg))]
  /\ owner \in [Fds -> Conns \cup {NULL}]
  /\ client \in [Conns -> Client \cup {NULL}]
  /\ cmd \in [Cmds -> Cmd \cup {NULL}]
  /\ queue \in [PoolCtx -> Seq(Cmds)]
  /\ own \subseteq Cmds
  /\ writes \subseteq Response
  /\ msgs \in [Cmds -> 0 .. MaxMsg]
  /\ monitoring \subseteq PoolCtx \cup Cmds
  /\ hasty \subseteq Conns
  /\ stranded \subseteq Conns

Init ==
  /\ peer = [c \in Conns |-> "new"]
  /\ inbox = [c \in Conns |-> <<>>]
  /\ sent = [c \in Conns |-> 0]
  /\ got = [c \in Conns |-> <<>>]
  /\ owner = [f \in Fds |-> NULL]
  /\ client = [c \in Conns |-> NULL]
  /\ cmd = [k \in Cmds |-> NULL]
  /\ queue = [p \in PoolCtx |-> <<>>]
  /\ own = {}
  /\ writes = {}
  /\ msgs = [k \in Cmds |-> 0]
  /\ monitoring = {}
  /\ hasty = {}
  /\ stranded = {}

(* The cmds a Redis callback still refers to.                              *)
InFlight == own \cup UNION {Range(queue[p]) : p \in PoolCtx}

(* The descriptor stands for the client's own connection.                  *)
Readable(c) == client[c] # NULL /\ owner[client[c].fd] = c

Answered(c) == {m[1][2] : m \in Range(got[c])}

(* A cmd of c in flight, and a response to c that is scheduled.            *)
Awaited(c) == {k \in InFlight : cmd[k] # NULL /\ cmd[k].req[1] = c}
Scheduled(c) == {r \in writes : r.req[1] = c}

-----------------------------------------------------------------------------
(* The other end of the connection.                                        *)

http_client_new(f) ==
  [fd |-> f, keep_alive |-> FALSE, last_cmd |-> NULL, reused_cmd |-> NULL]

(* A client connects: server_can_accept, up to worker_on_new_client at the *)
(* other end of the pipe.  The kernel gives the lowest free descriptor.    *)
server_can_accept(c) ==
  LET free == {f \in Fds : /\ owner[f] = NULL
                           /\ \A d \in Conns : client[d] # NULL => client[d].fd # f}
  IN /\ peer[c] = "new"
     /\ \E f \in free :
          /\ \A g \in free : f <= g
          /\ owner' = [owner EXCEPT ![f] = c]
          /\ client' = [client EXCEPT ![c] = http_client_new(f)]
     /\ peer' = [peer EXCEPT ![c] = "open"]
     /\ UNCHANGED <<inbox, sent, got, cmd, queue, own, writes, msgs,
                    monitoring, hasty, stranded>>

(* The peer sends a request, whether or not it has its answers (HTTP       *)
(* pipelining).                                                            *)
peer_sends(c) ==
  /\ peer[c] = "open"
  /\ \E f \in Fds : owner[f] = c
  /\ sent[c] < MaxReq /\ FoldFunction(+, 0, sent) < MaxSent
  /\ \E r \in Requests : inbox' = [inbox EXCEPT ![c] = Append(@, r)]
  /\ sent' = [sent EXCEPT ![c] = @ + 1]
  /\ UNCHANGED <<peer, got, owner, client, cmd, queue, own, writes, msgs,
                 monitoring, hasty, stranded>>

peer_closes(c) ==
  /\ peer[c] = "open"
  /\ peer' = [peer EXCEPT ![c] = "gone"]
  /\ UNCHANGED <<inbox, sent, got, owner, client, cmd, queue, own, writes, msgs,
                 monitoring, hasty, stranded>>

-----------------------------------------------------------------------------
(* http.c                                                                  *)

(* Bytes written to descriptor f reach whoever has it now.                 *)
Delivered(f, req, part) ==
  IF owner[f] # NULL /\ peer[owner[f]] = "open"
    THEN [got EXCEPT ![owner[f]] = Append(@, <<req, part>>)]
    ELSE got

(* A write fails on a closed descriptor and may fail once the peer is gone.*)
WriteOutcomes(f) ==
  IF owner[f] = NULL THEN {FALSE}
  ELSE IF peer[owner[f]] = "open" THEN {TRUE} ELSE BOOLEAN

(* Mutant: the descriptor is never closed after a write.                   *)
CleanupKeepsFd(f, keep_alive, success) == owner

(* http_response_cleanup: close unless keep-alive and written in full.     *)
http_response_cleanup(f, keep_alive, success) ==
  IF keep_alive /\ success THEN owner ELSE [owner EXCEPT ![f] = NULL]

(* Mutant: the response is built and not scheduled.                        *)
NotScheduled(f, keep_alive, req, part) == writes

(* http_response_write for a response of a cmd: scheduled on the worker's  *)
(* event base, dropped when the cmd's fd was set to -1.                    *)
http_response_write(f, keep_alive, req, part) ==
  IF f = NULL THEN writes
  ELSE writes \cup {[fd |-> f, keep_alive |-> keep_alive, req |-> req, part |-> part]}

(* The response's event fires.                                             *)
http_can_write(r) ==
  /\ r \in writes
  /\ \E success \in WriteOutcomes(r.fd) :
       /\ got' = IF success THEN Delivered(r.fd, r.req, r.part) ELSE got
       /\ owner' = http_response_cleanup(r.fd, r.keep_alive, success)
  /\ writes' = writes \ {r}
  /\ UNCHANGED <<peer, inbox, sent, client, cmd, queue, own, msgs,
                 monitoring, hasty, stranded>>

(* http_send_error, http_crossdomain and http_send_options have no worker: *)
(* they write before they return.                                          *)
http_send_error(c, keep_alive, n) ==
  LET f == client[c].fd
  IN \E success \in WriteOutcomes(f) :
       /\ got' = IF success THEN Delivered(f, <<c, n>>, 0) ELSE got
       /\ owner' = http_response_cleanup(f, keep_alive, success)

-----------------------------------------------------------------------------
(* client.c, worker.c and cmd.c: a request is read                         *)

(* http_client_on_header_value and http_client_on_message_complete: the    *)
(* client's keep-alive after a request.                                    *)
keep_alive_of(c, conn) ==
  conn = "keep" \/ (conn \in {"old", "cut"} /\ client[c].keep_alive)

(* http_client_reset marks a client without keep-alive as broken, and      *)
(* worker_can_read then frees it; the descriptor stays open, it is closed  *)
(* with the response.                                                      *)
http_client_reset(c, cl) ==
  client' = [client EXCEPT ![c] = IF cl.keep_alive THEN cl ELSE NULL]

(* cmd_setup, after cmd_new: what a cmd takes from its client.  The header *)
(* Connection: Keep-Alive, whole by now, overrules the client's verdict.   *)
cmd_setup(c, kind, keep_alive, header, n) ==
  [fd |-> client[c].fd, keep_alive |-> keep_alive \/ header, kind |-> kind,
   http_client |-> c, pub_sub_client |-> IF kind = "sub" THEN c ELSE NULL,
   req |-> <<c, n>>]

(* redisAsyncCommandArgv takes the command of k on a connection of the     *)
(* pool or on one of the cmd's own (a subscription, or another database),  *)
(* or refuses it: (P)UNSUBSCRIBE where nothing is subscribed, and a        *)
(* context of webdis never is.  cmd_run and cmd_send ignore the refusal.   *)
redisAsyncCommandArgv(k, kind) ==
  \/ /\ kind = "unsub"
     /\ monitoring' = monitoring \ {k}
     /\ UNCHANGED <<queue, own>>
  \/ /\ kind \in {"cmd", "mon"}
     /\ \E p \in PoolCtx :
          /\ queue' = [queue EXCEPT ![p] = Append(@, k)]
          /\ monitoring' = (monitoring \ {k}) \cup (IF kind = "mon" THEN {p} ELSE {})
     /\ UNCHANGED own
  \/ /\ kind # "unsub"
     /\ own' = own \cup {k}
     /\ monitoring' = IF kind = "mon" THEN monitoring \cup {k} ELSE monitoring \ {k}
     /\ UNCHANGED queue

(* cmd_run up to the point where the command is sent.  The cmd is the      *)
(* client's last_cmd, and its reused_cmd if it is a subscription.  The     *)
(* connection is stranded when its client is freed and the answer, if one  *)
(* comes, does not close the descriptor.                                   *)
cmd_run_sent(c, kind, keep_alive, header, n) ==
  /\ \E k \in {j \in Cmds : cmd[j] = NULL /\ j \notin InFlight} :
       /\ cmd' = [cmd EXCEPT ![k] = cmd_setup(c, kind, keep_alive, header, n)]
       /\ msgs' = [msgs EXCEPT ![k] = 0]
       /\ redisAsyncCommandArgv(k, kind)
       /\ http_client_reset(c,
            [client[c] EXCEPT !.keep_alive = keep_alive, !.last_cmd = k,
                              !.reused_cmd = IF kind = "sub" THEN k ELSE @])
  /\ stranded' = IF keep_alive \/ (kind \in {"cmd", "mon"} /\ ~header)
                   THEN stranded ELSE stranded \cup {c}
  /\ UNCHANGED <<got, owner>>

(* cmd_run without a Redis connection: the cmd is freed again, which       *)
(* leaves the client without a last_cmd; with arguments in the path (a     *)
(* SUBSCRIBE has them) it also forgets its subscription.  Answer: a 503.   *)
cmd_run_unavailable(c, kind, keep_alive, n) ==
  /\ http_send_error(c, keep_alive, n)
  /\ \E reused \in (IF kind = "sub" THEN {} ELSE {client[c].reused_cmd}) \cup {NULL} :
       http_client_reset(c,
         [client[c] EXCEPT !.keep_alive = keep_alive, !.last_cmd = NULL,
                           !.reused_cmd = reused])
  /\ UNCHANGED <<cmd, queue, own, msgs, monitoring, stranded>>

worker_process_client(c, kind, keep_alive, header, n) ==
  \/ /\ kind = "plain"
     /\ http_send_error(c, keep_alive, n)
     /\ http_client_reset(c, [client[c] EXCEPT !.keep_alive = keep_alive])
     /\ UNCHANGED <<cmd, queue, own, msgs, monitoring, stranded>>
  \/ /\ kind = "denied"
     /\ http_send_error(c, keep_alive, n)
     /\ http_client_reset(c, [client[c] EXCEPT !.keep_alive = keep_alive,
                                               !.last_cmd = NULL])
     /\ UNCHANGED <<cmd, queue, own, msgs, monitoring, stranded>>
  \/ kind \notin {"plain", "denied"} /\ cmd_run_sent(c, kind, keep_alive, header, n)
  \/ kind \notin {"plain", "denied"} /\ cmd_run_unavailable(c, kind, keep_alive, n)

(* worker_can_read with a complete request; what the parser calls on the   *)
(* way is http_client_on_message_complete.                                 *)
worker_can_read(c) ==
  /\ Readable(c)
  /\ inbox[c] # <<>>
  /\ LET r == Head(inbox[c])
         keep_alive == keep_alive_of(c, r[2])
     IN /\ worker_process_client(c, r[1], keep_alive, r[2] \in {"cut", "both"},
                                 sent[c] - Len(inbox[c]) + 1)
        /\ hasty' = IF keep_alive \/ (Awaited(c) = {} /\ Scheduled(c) = {})
                      THEN hasty ELSE hasty \cup {c}
  /\ inbox' = [inbox EXCEPT ![c] = Tail(@)]
  /\ UNCHANGED <<peer, sent, writes>>

(* What http_client_read does not take back when it closes a connection: a *)
(* scheduled response, or a cmd in flight that is neither the subscription *)
(* the client remembers nor the last command it sent.                      *)
LeftBehind(c) ==
  \/ Scheduled(c) # {}
  \/ \E k \in Awaited(c) : /\ k # client[c].reused_cmd
                            /\ k = client[c].last_cmd => cmd[k].kind = "sub"

(* Mutant: the in-flight cmd keeps the number of the closed descriptor.    *)
KeepCmdFd(c) ==
  LET cl == client[c]
      sub == cl.reused_cmd
  IN /\ Readable(c)
     /\ peer[c] = "gone" /\ inbox[c] = <<>>
     /\ hasty' = IF LeftBehind(c) THEN hasty \cup {c} ELSE hasty
     /\ cmd' = [k \in Cmds |-> IF k = sub THEN NULL ELSE cmd[k]]
     /\ own' = own \ {sub}
     /\ owner' = [owner EXCEPT ![cl.fd] = NULL]
     /\ client' = [client EXCEPT ![c] = NULL]
     /\ UNCHANGED <<peer, inbox, sent, got, queue, writes, msgs, monitoring, stranded>>

(* Mutant: the subscription's cmd is freed but its context is kept.        *)
KeepSubscription(c) ==
  LET cl == client[c]
      sub == cl.reused_cmd
  IN /\ Readable(c)
     /\ peer[c] = "gone" /\ inbox[c] = <<>>
     /\ hasty' = IF LeftBehind(c) THEN hasty \cup {c} ELSE hasty
     /\ cmd' = [k \in Cmds |-> IF k = sub THEN NULL
                               ELSE IF k = cl.last_cmd
                               THEN [cmd[k] EXCEPT !.fd = NULL, !.http_client = NULL]
                               ELSE cmd[k]]
     /\ owner' = [owner EXCEPT ![cl.fd] = NULL]
     /\ client' = [client EXCEPT ![c] = NULL]
     /\ UNCHANGED <<peer, inbox, sent, got, queue, own, writes, msgs, monitoring,
                    stranded>>

(* Mutant: the client's fd is set to -1 instead of freeing the client.     *)
KeepClient(c) ==
  LET cl == client[c]
      sub == cl.reused_cmd
  IN /\ Readable(c)
     /\ peer[c] = "gone" /\ inbox[c] = <<>>
     /\ hasty' = IF LeftBehind(c) THEN hasty \cup {c} ELSE hasty
     /\ cmd' = [k \in Cmds |-> IF k = sub THEN NULL
                               ELSE IF k = cl.last_cmd
                               THEN [cmd[k] EXCEPT !.fd = NULL, !.http_client = NULL]
                               ELSE cmd[k]]
     /\ own' = own \ {sub}
     /\ owner' = [owner EXCEPT ![cl.fd] = NULL]
     /\ client' = [client EXCEPT ![c] = [@ EXCEPT !.fd = NULL]]
     /\ UNCHANGED <<peer, inbox, sent, got, queue, writes, msgs, monitoring, stranded>>

(* http_client_read at the end of the stream.  A subscription is cut off   *)
(* and its cmd freed: redisAsyncDisconnect drops the callback at once, or  *)
(* leaves it to hiredis when AUTH or SELECT is still unanswered.  Then the *)
(* last cmd, if another one, loses its fd and its client.                  *)
http_client_read_eof(c) ==
  LET cl == client[c]
      sub == cl.reused_cmd
  IN /\ Readable(c)
     /\ peer[c] = "gone" /\ inbox[c] = <<>>
     /\ hasty' = IF LeftBehind(c) THEN hasty \cup {c} ELSE hasty
     /\ cmd' = [k \in Cmds |-> IF k = sub THEN NULL
                               ELSE IF k = cl.last_cmd
                               THEN [cmd[k] EXCEPT !.fd = NULL, !.http_client = NULL]
                               ELSE cmd[k]]
     /\ \/ own' = own \ {sub}
        \/ Greeting /\ sub \in own /\ msgs[sub] = 0 /\ UNCHANGED own
     /\ owner' = [owner EXCEPT ![cl.fd] = NULL]
     /\ client' = [client EXCEPT ![c] = NULL]
     /\ UNCHANGED <<peer, inbox, sent, got, queue, writes, msgs, monitoring, stranded>>

-----------------------------------------------------------------------------
(* formats/: a Redis callback                                              *)

(* Mutant: the cmd is freed and its client still points to it.             *)
ForgetLink(k) == cmd' = [cmd EXCEPT ![k] = NULL] /\ UNCHANGED client

(* cmd_free detaches the cmd from its client.                              *)
cmd_free(k) ==
  /\ cmd' = [cmd EXCEPT ![k] = NULL]
  /\ client' = [c \in Conns |->
       IF client[c] # NULL /\ cmd[k].http_client = c /\ client[c].last_cmd = k
         THEN [client[c] EXCEPT !.last_cmd = NULL] ELSE client[c]]

(* redisProcessCallbacks: the callback of k is the next its context runs,  *)
(* and has run.  A context with REDIS_MONITORING pushes the callback it    *)
(* ran last back when it has no more replies to read; on a context of its  *)
(* own, which the callback closes, MONITOR's callback runs again for a     *)
(* reply that came in the same read.  The model stops where a callback     *)
(* would run with a freed cmd: what follows is undefined.                  *)
callback_done(k) ==
  \/ /\ k \in own
     /\ own' = own \ {k} \/ (k \in monitoring /\ UNCHANGED own)
     /\ UNCHANGED queue
  \/ /\ \E p \in PoolCtx :
          /\ queue[p] # <<>>
          /\ k = Head(queue[p])
          /\ \/ queue' = [queue EXCEPT ![p] = Tail(@)]
             \/ p \in monitoring /\ queue' = [queue EXCEPT ![p] = Append(Tail(@), k)]
     /\ UNCHANGED own

(* format_send_reply, or format_send_error for a command that is not a     *)
(* subscription: one response, then cmd_free.                              *)
format_send_reply(k) ==
  /\ cmd[k] # NULL
  /\ cmd[k].kind # "sub"
  /\ callback_done(k)
  /\ writes' = http_response_write(cmd[k].fd, cmd[k].keep_alive, cmd[k].req, 0)
  /\ cmd_free(k)
  /\ UNCHANGED <<peer, inbox, sent, got, owner, msgs, monitoring, hasty, stranded>>

(* format_send_reply for a subscription: the headers with the first        *)
(* message, a chunk for every other; the cmd stays.                        *)
format_send_message(k) ==
  /\ cmd[k] # NULL
  /\ k \in own
  /\ cmd[k].kind = "sub"
  /\ msgs[k] < MaxMsg
  /\ msgs' = [msgs EXCEPT ![k] = @ + 1]
  /\ writes' = http_response_write(cmd[k].fd, TRUE, cmd[k].req, msgs[k] + 1)
  /\ UNCHANGED <<peer, inbox, sent, got, owner, client, cmd, queue, own,
                 monitoring, hasty, stranded>>

(* format_send_error for a subscription (its context was lost): nothing is *)
(* written and the cmd is not freed, only unlinked from the client.        *)
format_send_error_sub(k) ==
  /\ cmd[k] # NULL
  /\ cmd[k].kind = "sub"
  /\ k \in own
  /\ own' = own \ {k}
  /\ client' = [c \in Conns |-> IF client[c] # NULL /\ cmd[k].pub_sub_client = c
                                THEN [client[c] EXCEPT !.reused_cmd = NULL]
                                ELSE client[c]]
  /\ UNCHANGED <<peer, inbox, sent, got, owner, cmd, queue, writes, msgs,
                 monitoring, hasty, stranded>>

Next ==
  \/ \E c \in Conns : \/ server_can_accept(c)
                      \/ peer_sends(c)
                      \/ peer_closes(c)
                      \/ worker_can_read(c)
                      \/ http_client_read_eof(c)
  \/ \E k \in Cmds : \/ format_send_reply(k)
                     \/ format_send_message(k)
                     \/ format_send_error_sub(k)
  \/ \E r \in writes : http_can_write(r)

Spec == Init /\ [][Next]_vars

(* libevent keeps running events that are ready, and Redis answers its     *)
(* commands or a connection is dropped, which also runs the callbacks; a   *)
(* subscription has its confirmation for an answer.  No order is assumed   *)
(* among the clients, the callbacks or the responses.                      *)
Fairness ==
  /\ WF_vars(\E c \in Conns : worker_can_read(c) \/ http_client_read_eof(c))
  /\ WF_vars(\E k \in Cmds : \/ format_send_reply(k)
                             \/ msgs[k] = 0 /\ format_send_message(k))
  /\ WF_vars(\E r \in writes : http_can_write(r))

FairSpec == Spec /\ Fairness

-----------------------------------------------------------------------------
(* A connection only ever receives answers to its own requests.            *)
NoCrossTalk == \A c \in Conns : \A m \in Range(got[c]) : m[1][1] = c

(* Responses name their connection by a descriptor number that is reused,  *)
(* and pipelining clients have several under way.  Yet no answer goes to   *)
(* another connection, unless some client closed, or asked to close, with  *)
(* more under way than http_client_read takes back ("avoid fd reuse"), or  *)
(* some connection was stranded (its messages outlive the descriptor).     *)
NoAnswerGoesAstray == hasty = {} /\ stranded = {} => NoCrossTalk

(* "attach to client so that the cmd's fd can be unset when the client is  *)
(* freed and its fd is closed" (cmd_new): no cmd in flight names a         *)
(* descriptor that has become another connection's.                        *)
CmdFdIsUnset ==
  \A k \in InFlight : cmd[k] # NULL /\ cmd[k].fd # NULL =>
    owner[cmd[k].fd] \in {cmd[k].req[1], NULL}

(* A Redis callback is left with a cmd that was freed in two cases only: a *)
(* subscriber left before AUTH or SELECT was answered, so hiredis put off  *)
(* the disconnect that http_client_read relies on; or its context was told *)
(* to MONITOR, and hiredis keeps the callback that freed the cmd.          *)
CallbacksHoldLiveCmds ==
  /\ \A k \in own : cmd[k] # NULL \/ (Greeting /\ msgs[k] = 0) \/ k \in monitoring
  /\ \A p \in PoolCtx : \A k \in Range(queue[p]) : cmd[k] # NULL \/ p \in monitoring

(* The client a cmd in flight points to exists (cmd_free and               *)
(* format_send_error follow these pointers), unless the client asked to be *)
(* closed or left something behind; the cmds a client points to exist.     *)
LinksAreLive ==
  /\ \A k \in InFlight :
       cmd[k] # NULL /\ cmd[k].keep_alive /\ cmd[k].req[1] \notin hasty \cup stranded =>
         \A c \in {cmd[k].http_client, cmd[k].pub_sub_client} \ {NULL} :
           client[c] # NULL
  /\ \A c \in Conns : client[c] # NULL =>
       \A k \in {client[c].last_cmd, client[c].reused_cmd} \ {NULL} :
         cmd[k] # NULL

(* No descriptor leaks: an open one is watched by its client, or a         *)
(* response without keep-alive, in flight or being written, will close it. *)
(* The exceptions are the stranded ones: the client is freed without       *)
(* keep-alive, and the request was a subscription, or a command hiredis    *)
(* refused, or had a Keep-Alive header that only its cmd saw.              *)
DescriptorsAreWatched ==
  \A f \in Fds : owner[f] # NULL =>
    \/ client[owner[f]] # NULL /\ client[owner[f]].fd = f
    \/ \E k \in InFlight : /\ cmd[k] # NULL /\ cmd[k].kind # "sub"
                            /\ cmd[k].fd = f /\ ~cmd[k].keep_alive
    \/ \E r \in writes : r.fd = f /\ ~r.keep_alive
    \/ owner[f] \in stranded

(* The n-th request of c is a subscription that has lost its context, or a *)
(* command that hiredis refused: no callback will ever answer it.          *)
Orphaned(c, n) ==
  \E k \in Cmds \ InFlight : cmd[k] # NULL /\ cmd[k].req = <<c, n>>

(* Its reply comes after one for which a freed cmd would be used.          *)
Undefined(c, n) ==
  \E p \in PoolCtx : \E i, j \in DOMAIN queue[p] :
    i < j /\ cmd[queue[p][i]] = NULL
    /\ cmd[queue[p][j]] # NULL /\ cmd[queue[p][j]].req = <<c, n>>

(* It came after one that closes the connection: nobody reads it.          *)
Unread(c, n) == client[c] = NULL /\ n > sent[c] - Len(inbox[c])

Closed(c) == \A f \in Fds : owner[f] # c

(* Every request is answered, pipelined or not, unless the client closes   *)
(* its connection, or it is a subscription whose context is lost           *)
(* (format_send_error writes nothing for one) or a command hiredis         *)
(* refuses, or follows a MONITOR on its context or a request that closes   *)
(* the connection, or the connection was closed by an answer that went     *)
(* astray.                                                                 *)
EveryRequestAnswered ==
  \A c \in Conns : \A n \in 1 .. MaxReq :
    sent[c] >= n ~> \/ n \in Answered(c) \/ peer[c] = "gone"
                    \/ Orphaned(c, n) \/ Undefined(c, n) \/ Unread(c, n)
                    \/ Closed(c) /\ hasty \cup stranded # {}

(* When both ends are done with a connection its descriptor is closed,     *)
(* unless it is stranded or waits for an answer behind a MONITOR.          *)
GoneConnectionsAreClosed ==
  \A c \in Conns :
    peer[c] = "gone" ~> \/ Closed(c) \/ c \in stranded
                        \/ \E n \in 1 .. MaxReq : Undefined(c, n)
=============================================================================
