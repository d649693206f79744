------------------------------- MODULE Server -------------------------------
(***************************************************************************)
(* The process around the workers: start-up (webdis.c, server.c), the main *)
(* thread that accepts clients and hands them to the workers through their *)
(* pipes (server.c, worker.c), the log shared by every thread and reopened *)
(* on SIGHUP (slog.c), and the message that is logged once when Redis      *)
(* answers the AUTH command (pool.c).                                      *)
(*                                                                         *)
(* Descriptors are numbers: open() and accept() return the lowest one that *)
(* is free, so a number that was closed soon means something else.  A      *)
(* signal handler runs on any thread, which does nothing else meanwhile.   *)
(***************************************************************************)
EXTENDS Integers, Sequences, FiniteSets, SequencesExt

CONSTANTS
    N,            \* http_threads
    MaxFd,        \* the highest descriptor the process may have
    PIPE,         \* pointers a worker's pipe holds (65536 bytes in Linux)
    MaxConnects,  \* bound: connections made
    MaxHup,       \* bound: SIGHUPs received
    MaxFail,      \* bound: SIGHUPs at which the log cannot be opened
    MaxLines      \* bound: lines the workers log

ASSUME ServerAssumption ==
    /\ N \in Nat \ {0}
    /\ MaxFd \in Nat /\ MaxFd >= 4
    /\ PIPE \in Nat \ {0}
    /\ {MaxConnects, MaxHup, MaxFail, MaxLines} \subseteq Nat

Workers == 0..(N - 1)
Clients == 1..MaxConnects      \* a client is the number of its connection
main == N                     \* the main thread
Threads == Workers \union {main}

STDERR == 2
Fds == STDERR..MaxFd

VARIABLES
    phase,        \* of the main thread: see Init
    started,      \* the workers whose thread was created, in order: 0..started-1
    looping,      \* the workers whose event loop watches their pipe
    fds,          \* what each descriptor is open on
    backlog,      \* connections waiting in accept's queue
    next_worker,  \* struct server
    handing,      \* the client the main thread is writing to a pipe
    link,         \* worker -> pointers in its pipe
    watched,      \* worker -> clients whose input it monitors
    given,        \* worker -> clients it was given so far
    connects,     \* connections made so far
    log_fd,       \* s->log.fd
    hup,          \* thread -> the slog_init it runs as a signal handler
    hups,         \* SIGHUPs so far
    fails,        \* the ones at which the log could not be opened
    writing,      \* worker -> the descriptor it took from s->log.fd, to write to
    lines,        \* lines the workers logged
    sinks,        \* where log lines went
    auth,         \* worker -> its pool_on_auth_complete
    auth_logged,  \* struct server
    auth_mutex,   \* the worker that holds s->auth_log_mutex
    auth_lines    \* how often the AUTH message was logged

startVars == <<phase, started, looping>>
dispatchVars == <<next_worker, handing, link, watched, given>>
outsideVars == <<backlog, connects>>
logVars == <<log_fd, hup, hups, fails, writing, lines, sinks>>
authVars == <<auth, auth_logged, auth_mutex, auth_lines>>
vars == <<startVars, fds, dispatchVars, outsideVars, logVars, authVars>>

None == -1
Nobody == 0
Idle == [pc |-> "none", old |-> None, new |-> None]

\* What a descriptor is open on.
Free == <<"free">>
Terminal == <<"stderr">>
LogFile == <<"log">>
Socket(c) == <<"client", c>>
Listener == <<"listen">>

FreeFds == {f \in Fds : fds[f] = Free}
LowestFree == CHOOSE f \in FreeFds : \A g \in FreeFds : f <= g

\* The thread is not in a signal handler, and the process runs.
Runs(t) == hup[t].pc = "none" /\ phase # "exited"

\* write(fd): where the bytes go; a closed descriptor is EBADF.
Sink(fd) == IF fd \in Fds THEN fds[fd][1] ELSE "free"

-----------------------------------------------------------------------------
(***************************************************************************)
(* main, server_new and server_start.                                      *)
(***************************************************************************)
\* server_new: the log is open and the workers have their pipes.
Init ==
    /\ phase = "starting"
    /\ started = 0
    /\ looping = {}
    /\ fds = [f \in Fds |-> IF f = STDERR THEN Terminal ELSE IF f = 3 THEN LogFile ELSE Free]
    /\ log_fd = 3
    /\ backlog = <<>> /\ connects = 0
    /\ next_worker = 0 /\ handing = Nobody
    /\ link = [w \in Workers |-> <<>>]
    /\ watched = [w \in Workers |-> {}]
    /\ given = [w \in Workers |-> 0]
    /\ hup = [t \in Threads |-> Idle] /\ hups = 0 /\ fails = 0
    /\ writing = [w \in Workers |-> None] /\ lines = 0 /\ sinks = {}
    /\ auth = [w \in Workers |-> "waiting"]
    /\ auth_logged = 0 /\ auth_mutex = None /\ auth_lines = 0

\* The loop of server_start: one thread more.
worker_start ==
    /\ phase = "starting" /\ Runs(main)
    /\ started < N
    /\ started' = started + 1
    /\ UNCHANGED <<phase, looping, fds, dispatchVars, outsideVars, logVars, authVars>>

\* socket_setup and the accept event.  When it fails server_start returns,
\* and main with it: the process ends.
socket_setup ==
    /\ phase = "starting" /\ Runs(main)
    /\ started = N
    /\ \/ /\ FreeFds # {}
          /\ fds' = [fds EXCEPT ![LowestFree] = Listener]
          /\ phase' = "accepting"
       \/ /\ phase' = "exited"
          /\ UNCHANGED fds
    /\ UNCHANGED <<started, looping, dispatchVars, outsideVars, logVars, authVars>>

\* worker_main, until the loop.
worker_main(w) ==
    /\ Runs(w)
    /\ w < started /\ w \notin looping
    /\ looping' = looping \union {w}
    /\ UNCHANGED <<phase, started, fds, dispatchVars, outsideVars, logVars, authVars>>

-----------------------------------------------------------------------------
(***************************************************************************)
(* Accepting clients.                                                      *)
(***************************************************************************)
\* A connection reaches the listening socket.
Connect ==
    /\ phase = "accepting"
    /\ connects < MaxConnects
    /\ backlog' = Append(backlog, connects + 1)
    /\ connects' = connects + 1
    /\ UNCHANGED <<startVars, fds, dispatchVars, logVars, authVars>>

\* The accept event: a descriptor for the client, or none is left and the
\* connection stays in the queue.
server_can_accept ==
    /\ phase = "accepting" /\ Runs(main)
    /\ handing = Nobody /\ backlog # <<>>
    /\ IF FreeFds # {}
       THEN /\ fds' = [fds EXCEPT ![LowestFree] = Socket(Head(backlog))]
            /\ backlog' = Tail(backlog)
            /\ handing' = Head(backlog)
            /\ UNCHANGED sinks
       ELSE /\ sinks' = sinks \union {Sink(log_fd)}       \* "Too many connections"
            /\ UNCHANGED <<fds, backlog, handing>>
    /\ UNCHANGED <<startVars, next_worker, link, watched, given, connects,
                   log_fd, hup, hups, fails, writing, lines, authVars>>

\* Mutant: a pipe that is full loses the client.
AddClientDrops ==
    /\ Runs(main)
    /\ handing # Nobody
    /\ link' = IF Len(link[next_worker]) < PIPE
               THEN [link EXCEPT ![next_worker] = Append(@, handing)] ELSE link
    /\ given' = [given EXCEPT ![next_worker] = @ + 1]
    /\ next_worker' = (next_worker + 1) % N
    /\ handing' = Nobody
    /\ UNCHANGED <<startVars, fds, watched, outsideVars, logVars, authVars>>

\* The rest of server_can_accept: write() waits while the pipe is full.
worker_add_client ==
    /\ Runs(main)
    /\ handing # Nobody
    /\ Len(link[next_worker]) < PIPE
    /\ link' = [link EXCEPT ![next_worker] = Append(@, handing)]
    /\ given' = [given EXCEPT ![next_worker] = @ + 1]
    /\ next_worker' = (next_worker + 1) % N
    /\ handing' = Nobody
    /\ UNCHANGED <<startVars, fds, watched, outsideVars, logVars, authVars>>

\* The pipe is readable: one pointer is read and its client monitored.
worker_on_new_client(w) ==
    /\ Runs(w)
    /\ w \in looping /\ writing[w] = None
    /\ link[w] # <<>>
    /\ watched' = [watched EXCEPT ![w] = @ \union {Head(link[w])}]
    /\ link' = [link EXCEPT ![w] = Tail(@)]
    /\ UNCHANGED <<startVars, fds, next_worker, handing, given, outsideVars, logVars, authVars>>

\* A client leaves, and its worker closes its descriptor (Http.tla).
http_client_free(w, c) ==
    /\ Runs(w)
    /\ writing[w] = None
    /\ c \in watched[w]
    /\ watched' = [watched EXCEPT ![w] = @ \ {c}]
    /\ fds' = [f \in Fds |-> IF fds[f] = Socket(c) THEN Free ELSE fds[f]]
    /\ UNCHANGED <<startVars, next_worker, handing, link, given, outsideVars, logVars, authVars>>

-----------------------------------------------------------------------------
(***************************************************************************)
(* The log.                                                                *)
(***************************************************************************)
\* slog_internal on a worker: the arguments of write() are evaluated ...
slog_load(w) ==
    /\ Runs(w)
    /\ w \in looping /\ writing[w] = None
    /\ lines < MaxLines
    /\ log_fd # 0
    /\ writing' = [writing EXCEPT ![w] = log_fd]
    /\ lines' = lines + 1
    /\ UNCHANGED <<startVars, fds, dispatchVars, outsideVars, log_fd, hup, hups, fails, sinks, authVars>>

\* ... and the line is written.
slog_write(w) ==
    /\ Runs(w)
    /\ writing[w] # None
    /\ sinks' = sinks \union {Sink(writing[w])}
    /\ writing' = [writing EXCEPT ![w] = None]
    /\ UNCHANGED <<startVars, fds, dispatchVars, outsideVars, log_fd, hup, hups, fails, lines, authVars>>

\* SIGHUP interrupts thread t, in its event loop or in slog_internal:
\* slog_init notes the old descriptor and opens the file, which may fail.
\* SIGHUPs are sent by hand or by logrotate, and come one at a time.
slog_init(t) ==
    /\ Runs(t)
    /\ t = main \/ t < started
    /\ hups < MaxHup
    /\ \A u \in Threads : hup[u].pc = "none"
    /\ hups' = hups + 1
    /\ \/ /\ FreeFds # {}
          /\ fds' = [fds EXCEPT ![LowestFree] = LogFile]
          /\ hup' = [hup EXCEPT ![t] = [pc |-> "opened", old |-> log_fd, new |-> LowestFree]]
          /\ UNCHANGED fails
       \/ /\ fails < MaxFail
          /\ fails' = fails + 1
          /\ hup' = [hup EXCEPT ![t] = [pc |-> "opened", old |-> log_fd, new |-> None]]
          /\ UNCHANGED fds
    /\ UNCHANGED <<startVars, dispatchVars, outsideVars, log_fd, writing, lines, sinks, authVars>>

\* s->log.fd = open(...)
slog_init_store(t) ==
    /\ hup[t].pc = "opened" /\ phase # "exited"
    /\ log_fd' = hup[t].new
    /\ hup' = [hup EXCEPT ![t].pc = "stored"]
    /\ UNCHANGED <<startVars, fds, dispatchVars, outsideVars, hups, fails, writing, lines, sinks, authVars>>

\* Mutant: the old log is not closed.
CloseNothing(t) ==
    /\ hup[t].pc = "stored" /\ phase # "exited"
    /\ hup' = [hup EXCEPT ![t].pc = "closed"]
    /\ UNCHANGED <<startVars, fds, dispatchVars, outsideVars,
                   log_fd, hups, fails, writing, lines, sinks, authVars>>

\* close(old_fd)
slog_init_close(t) ==
    /\ hup[t].pc = "stored" /\ phase # "exited"
    /\ fds' = IF hup[t].old # None THEN [fds EXCEPT ![hup[t].old] = Free] ELSE fds
    /\ hup' = [hup EXCEPT ![t].pc = "closed"]
    /\ UNCHANGED <<startVars, dispatchVars, outsideVars, log_fd, hups, fails, writing, lines, sinks, authVars>>

\* A log that could not be opened is stderr.
slog_init_return(t) ==
    /\ hup[t].pc = "closed" /\ phase # "exited"
    /\ log_fd' = IF log_fd = None THEN STDERR ELSE log_fd
    /\ hup' = [hup EXCEPT ![t] = Idle]
    /\ UNCHANGED <<startVars, fds, dispatchVars, outsideVars, hups, fails, writing, lines, sinks, authVars>>

\* SIGTERM or SIGINT: a last line, and exit.
server_handle_signal ==
    /\ Runs(main)
    /\ phase = "accepting"
    /\ sinks' = sinks \union {Sink(log_fd)}
    /\ phase' = "exited"
    /\ UNCHANGED <<started, looping, fds, dispatchVars, outsideVars,
                   log_fd, hup, hups, fails, writing, lines, authVars>>

-----------------------------------------------------------------------------
(***************************************************************************)
(* pool_on_auth_complete: the answer to AUTH is logged by the first worker *)
(* that gets it.                                                           *)
(***************************************************************************)
pool_on_auth_complete(w) ==
    /\ Runs(w)
    /\ w \in looping /\ writing[w] = None
    /\ auth[w] = "waiting" /\ auth_mutex = None
    /\ IF auth_logged > 0
       THEN auth' = [auth EXCEPT ![w] = "done"] /\ UNCHANGED auth_mutex
       ELSE auth' = [auth EXCEPT ![w] = "logging"] /\ auth_mutex' = w
    /\ UNCHANGED <<startVars, fds, dispatchVars, outsideVars, logVars, auth_logged, auth_lines>>

\* pool_log_auth, and the mutex is released.
pool_log_auth(w) ==
    /\ Runs(w)
    /\ auth[w] = "logging"
    /\ auth_lines' = auth_lines + 1
    /\ auth_logged' = auth_logged + 1
    /\ auth_mutex' = None
    /\ auth' = [auth EXCEPT ![w] = "done"]
    /\ UNCHANGED <<startVars, fds, dispatchVars, outsideVars, logVars>>

-----------------------------------------------------------------------------
Step(t) == slog_init_store(t) \/ slog_init_close(t) \/ slog_init_return(t)

Next ==
    \/ worker_start \/ socket_setup \/ server_can_accept \/ worker_add_client
    \/ server_handle_signal \/ Connect
    \/ \E t \in Threads : slog_init(t) \/ Step(t)
    \/ \E w \in Workers :
         \/ worker_main(w) \/ worker_on_new_client(w)
         \/ slog_load(w) \/ slog_write(w)
         \/ pool_on_auth_complete(w) \/ pool_log_auth(w)
         \/ \E c \in Clients : http_client_free(w, c)

\* Threads are scheduled: each goes on with what it is doing, and their event
\* loops report every event.  Clients and signals are free not to come.
Fairness ==
    /\ WF_vars(worker_start) /\ WF_vars(socket_setup)
    /\ WF_vars(server_can_accept) /\ WF_vars(worker_add_client)
    /\ \A t \in Threads : WF_vars(Step(t))
    /\ \A w \in Workers :
         /\ WF_vars(worker_main(w)) /\ WF_vars(slog_write(w)) /\ WF_vars(pool_log_auth(w))
         /\ WF_vars(worker_on_new_client(w))

Spec == Init /\ [][Next]_vars /\ Fairness

-----------------------------------------------------------------------------
(***************************************************************************)
(* Properties.                                                             *)
(***************************************************************************)
\* The variables have their types.
TypeOK ==
    /\ phase \in {"starting", "accepting", "exited"}
    /\ started \in 0..N /\ looping \subseteq 0..(started - 1)
    /\ next_worker \in Workers
    /\ \A w \in Workers : Len(link[w]) <= PIPE /\ watched[w] \subseteq Clients
    /\ log_fd \in Fds \union {None}
    /\ auth_logged \in Nat /\ auth_mutex \in Workers \union {None}

\* Where client c is held: with the main thread, in a pipe, with a worker.
Holders(c) ==
    (IF handing = c THEN {"main"} ELSE {})
    \union {<<"pipe", w>> : w \in {v \in Workers : Contains(link[v], c)}}
    \union {<<"worker", w>> : w \in {v \in Workers : c \in watched[v]}}

\* A client whose connection was accepted is held in exactly one place, and a
\* client that is held has one open descriptor.
OneHolder ==
    \A c \in Clients :
        /\ Cardinality({f \in Fds : fds[f] = Socket(c)}) <= 1
        /\ Cardinality(Holders(c)) = Cardinality({f \in Fds : fds[f] = Socket(c)})

\* The ring of workers is fair: no worker is ever given two clients more than
\* another, failed accepts included (next_worker in server_can_accept).
Balanced == \A v, w \in Workers : given[v] <= given[w] + 1

\* Clients are handed over soundly between threads: none is lost between
\* server_can_accept and worker_on_new_client (the results of write and read
\* are not looked at), none is given to two workers, and the ring of workers
\* is fair.
HandedOver == TypeOK /\ OneHolder /\ Balanced

\* The log is shared soundly between threads.  Out of the signal handler
\* s->log.fd is the log file's descriptor, the only one, or stderr when the
\* file could not be opened again, whatever the threads did while slog_init
\* replaced it; and the answer to AUTH is logged once, by the worker that gets
\* it first ("used to log auth message only once", server.h).
LogIsShared ==
    /\ (\A t \in Threads : hup[t].pc = "none") =>
         LET open == {f \in Fds : fds[f] = LogFile}
         IN  open = {log_fd} \/ (open = {} /\ log_fd = STDERR)
    /\ auth_lines <= 1

\* A connection that waits is taken by a worker's event loop, unless there is
\* no descriptor left for it or the process ends: the main thread never waits
\* for ever on a full pipe, and a worker that starts late finds its clients.
ClientsAreTaken ==
    \A c \in Clients :
        Contains(backlog, c) ~> \/ \E w \in Workers : c \in watched[w]
                                \/ FreeFds = {}
                                \/ phase = "exited"

\* "Write log message to disk, or stderr." (slog.c:92): a line never goes to a
\* client whose socket has the descriptor's number.  (It may also be lost,
\* when the descriptor is closed or is the listening socket's.)
LogToDiskOrStderr == "client" \notin sinks
=============================================================================
