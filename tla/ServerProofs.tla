---------------------------- MODULE ServerProofs ----------------------------
(* What holds of the process around the workers for every number of        *)
(* workers, descriptors, clients, log rotations and for every pipe.        *)
EXTENDS Server, FiniteSetTheorems, Induction, TLAPS

USE ServerAssumption

(* What a descriptor may be open on.                                       *)
Kinds == {Free, Terminal, LogFile, Listener} \union {Socket(c) : c \in Clients}

(* Where a slog_init stands.                                               *)
Handlers == [pc : {"none", "opened", "stored", "closed"},
             old : Fds \union {None}, new : Fds \union {None}]

StateTypes ==
    /\ phase \in {"starting", "accepting", "exited"}
    /\ started \in 0..N
    /\ looping \subseteq 0..(started - 1)
    /\ fds \in [Fds -> Kinds]
    /\ backlog \in Seq(Clients) /\ connects \in 0..MaxConnects
    /\ next_worker \in Workers
    /\ handing \in Clients \union {Nobody}
    /\ link \in [Workers -> Seq(Clients)]
    /\ watched \in [Workers -> SUBSET Clients]
    /\ given \in [Workers -> Nat]
    /\ log_fd \in Fds \union {None}
    /\ hup \in [Threads -> Handlers]
    /\ fails \in Nat
    /\ auth \in [Workers -> {"waiting", "logging", "done"}]
    /\ auth_logged \in Nat /\ auth_lines \in Nat
    /\ auth_mutex \in Workers \union {None}

PipesBounded == \A w \in Workers : Len(link[w]) <= PIPE

TypeInv == StateTypes /\ PipesBounded

(* The kinds of open descriptors are told apart.                           *)
LEMMA KindsDiffer ==
  /\ \A c \in Clients : Socket(c) \notin {Free, Terminal, LogFile, Listener}
  /\ \A c, d \in Clients : Socket(c) = Socket(d) => c = d
  /\ Free # Terminal /\ Free # LogFile /\ Free # Listener
  /\ Terminal # LogFile /\ Terminal # Listener /\ LogFile # Listener
BY DEF Free, Terminal, LogFile, Listener, Socket

(* The ring of workers.                                                    *)
LEMMA RingStep ==
  \A w \in Workers :
    /\ (w + 1) % N \in Workers
    /\ (w + 1) % N = IF w = N - 1 THEN 0 ELSE w + 1
BY DEF Workers

(* open() and accept() return a descriptor that was free.                  *)
LEMMA LowestIsFree ==
  FreeFds # {} => LowestFree \in Fds /\ fds[LowestFree] = Free
<1> SUFFICES ASSUME FreeFds # {} PROVE LowestFree \in FreeFds
  BY DEF FreeFds
<1>1. FreeFds \subseteq Nat
  BY DEF FreeFds, Fds, STDERR
<1>2. \E f \in FreeFds : \A g \in FreeFds : f <= g
  BY <1>1, LeastNat
<1> QED BY <1>2 DEF LowestFree

(* Initially no client has come.                                           *)
LEMMA InitTypeInv == Init => TypeInv
<1> SUFFICES ASSUME Init PROVE TypeInv
  OBVIOUS
<1>1. Idle \in Handlers
  BY DEF Idle, Handlers
<1>2. fds \in [Fds -> Kinds]
  BY DEF Init, Kinds
<1>3. started \in 0..N /\ looping \subseteq 0..(started - 1) /\ connects \in 0..MaxConnects
      /\ next_worker \in Workers /\ log_fd \in Fds
  BY DEF Init, Workers, Fds, STDERR
<1>4. backlog \in Seq(Clients) /\ link \in [Workers -> Seq(Clients)] /\ PipesBounded
  BY DEF Init, PipesBounded
<1>5. hup \in [Threads -> Handlers]
  BY <1>1 DEF Init
<1>6. given \in [Workers -> Nat] /\ watched \in [Workers -> SUBSET Clients]
      /\ auth \in [Workers -> {"waiting", "logging", "done"}]
  BY DEF Init
<1> QED BY <1>2, <1>3, <1>4, <1>5, <1>6 DEF Init, TypeInv, StateTypes

(* Every step keeps the types of the state.                                *)
LEMMA StepTypeInv == TypeInv /\ [Next]_vars => TypeInv'
<1> SUFFICES ASSUME TypeInv, [Next]_vars PROVE TypeInv'
  OBVIOUS
<1> USE DEF TypeInv, StateTypes, PipesBounded
<1>1. CASE worker_start
  BY <1>1, SMTT(30) DEF worker_start, Runs, dispatchVars, outsideVars, logVars, authVars
<1>2. CASE socket_setup
  <2>1. fds' \in [Fds -> Kinds]
    BY <1>2, LowestIsFree DEF socket_setup, Kinds
  <2> QED BY <1>2, <2>1 DEF socket_setup, dispatchVars, outsideVars, logVars, authVars
<1>3. CASE server_can_accept
  <2>1. Head(backlog) \in Clients /\ Tail(backlog) \in Seq(Clients)
    BY <1>3 DEF server_can_accept
  <2>2. Socket(Head(backlog)) \in Kinds
    BY <2>1 DEF Kinds
  <2>3. fds' \in [Fds -> Kinds]
    BY <1>3, <2>2, LowestIsFree DEF server_can_accept
  <2> QED BY <1>3, <2>1, <2>3 DEF server_can_accept, startVars, authVars
<1>4. CASE worker_add_client
  <2>1. next_worker' \in Workers
    BY <1>4, RingStep DEF worker_add_client
  <2>2. handing \in Clients
    BY <1>4 DEF worker_add_client
  <2>3. link' \in [Workers -> Seq(Clients)] /\ given' \in [Workers -> Nat]
    BY <1>4, <2>2, SMTT(30) DEF worker_add_client
  <2>4. \A w \in Workers : Len(link'[w]) <= PIPE
    <3> SUFFICES ASSUME NEW w \in Workers PROVE Len(link'[w]) <= PIPE
      OBVIOUS
    <3>1. Len(Append(link[w], handing)) = Len(link[w]) + 1
      BY <2>2
    <3>2. Len(link[w]) \in Nat
      OBVIOUS
    <3> QED BY <1>4, <3>1, <3>2 DEF worker_add_client
  <2> QED BY <1>4, <2>1, <2>2, <2>3, <2>4 DEF worker_add_client, startVars, outsideVars,
        logVars, authVars
<1>5. CASE server_handle_signal
  BY <1>5 DEF server_handle_signal, dispatchVars, outsideVars, authVars
<1>6. CASE Connect
  <2>1. connects + 1 \in Clients
    BY <1>6, SMTT(30) DEF Connect, Clients
  <2> QED BY <1>6, <2>1 DEF Connect, startVars, dispatchVars, logVars, authVars
<1>7. ASSUME NEW t \in Threads, slog_init(t) PROVE TypeInv'
  <2>1. fds' \in [Fds -> Kinds]
    BY <1>7, LowestIsFree DEF slog_init, Kinds
  <2>2. hup' \in [Threads -> Handlers]
    <3>1. \A f \in Fds \union {None} :
            [pc |-> "opened", old |-> log_fd, new |-> f] \in Handlers
      BY DEF Handlers
    <3>2. FreeFds # {} => LowestFree \in Fds
      BY LowestIsFree
    <3>3. PICK f \in Fds \union {None} :
            hup' = [hup EXCEPT ![t] = [pc |-> "opened", old |-> log_fd, new |-> f]]
      BY <1>7, <3>2 DEF slog_init
    <3> QED BY <3>1, <3>3
  <2>3. fails' \in Nat
    BY <1>7 DEF slog_init
  <2> QED BY <1>7, <2>1, <2>2, <2>3 DEF slog_init, startVars, dispatchVars, outsideVars, authVars
<1>8. ASSUME NEW t \in Threads, slog_init_store(t) PROVE TypeInv'
  <2>1. hup' \in [Threads -> Handlers] /\ log_fd' \in Fds \union {None}
    BY <1>8 DEF slog_init_store, Handlers
  <2> QED BY <1>8, <2>1 DEF slog_init_store, startVars, dispatchVars, outsideVars, authVars
<1>9. ASSUME NEW t \in Threads, slog_init_close(t) PROVE TypeInv'
  <2>1. hup' \in [Threads -> Handlers] /\ fds' \in [Fds -> Kinds]
    BY <1>9 DEF slog_init_close, Handlers, Kinds
  <2> QED BY <1>9, <2>1 DEF slog_init_close, startVars, dispatchVars, outsideVars, authVars
<1>10. ASSUME NEW t \in Threads, slog_init_return(t) PROVE TypeInv'
  <2>1. Idle \in Handlers /\ STDERR \in Fds
    BY DEF Idle, Handlers, Fds, STDERR
  <2> QED BY <1>10, <2>1 DEF slog_init_return, startVars, dispatchVars, outsideVars, authVars
<1>11. ASSUME NEW w \in Workers, worker_main(w) PROVE TypeInv'
  BY <1>11, SMTT(30) DEF worker_main, Workers, dispatchVars, outsideVars, logVars, authVars
<1>12. ASSUME NEW w \in Workers, worker_on_new_client(w) PROVE TypeInv'
  <2>1. Head(link[w]) \in Clients /\ Tail(link[w]) \in Seq(Clients)
        /\ Len(Tail(link[w])) <= Len(link[w])
    BY <1>12, SMTT(30) DEF worker_on_new_client
  <2>2. watched' \in [Workers -> SUBSET Clients]
    BY <1>12, <2>1 DEF worker_on_new_client
  <2>3. link' \in [Workers -> Seq(Clients)]
    BY <1>12, <2>1 DEF worker_on_new_client
  <2>4. \A v \in Workers : Len(link'[v]) <= PIPE
    <3> SUFFICES ASSUME NEW v \in Workers PROVE Len(link'[v]) <= PIPE
      OBVIOUS
    <3>1. link'[v] = IF v = w THEN Tail(link[w]) ELSE link[v]
      BY <1>12 DEF worker_on_new_client
    <3>2. Len(link[w]) \in Nat /\ Len(Tail(link[w])) \in Nat
      BY <2>1, SMTT(30)
    <3> QED BY <3>1, <3>2, <2>1
  <2> QED BY <1>12, <2>2, <2>3, <2>4 DEF worker_on_new_client, startVars, outsideVars, logVars, authVars
<1>13. ASSUME NEW w \in Workers, slog_load(w) PROVE TypeInv'
  BY <1>13 DEF slog_load, startVars, dispatchVars, outsideVars, authVars
<1>14. ASSUME NEW w \in Workers, slog_write(w) PROVE TypeInv'
  BY <1>14 DEF slog_write, startVars, dispatchVars, outsideVars, authVars
<1>15. ASSUME NEW w \in Workers, pool_on_auth_complete(w) PROVE TypeInv'
  BY <1>15 DEF pool_on_auth_complete, startVars, dispatchVars, outsideVars, logVars
<1>16. ASSUME NEW w \in Workers, pool_log_auth(w) PROVE TypeInv'
  BY <1>16 DEF pool_log_auth, startVars, dispatchVars, outsideVars, logVars
<1>17. ASSUME NEW w \in Workers, NEW c \in Clients, http_client_free(w, c) PROVE TypeInv'
  <2>1. fds' \in [Fds -> Kinds]
    BY <1>17 DEF http_client_free, Kinds
  <2>2. watched' \in [Workers -> SUBSET Clients]
    BY <1>17 DEF http_client_free
  <2> QED BY <1>17, <2>1, <2>2 DEF http_client_free, startVars, outsideVars, logVars, authVars
<1>18. CASE UNCHANGED vars
  BY <1>18 DEF vars, startVars, dispatchVars, outsideVars, logVars, authVars
<1> QED BY <1>1, <1>2, <1>3, <1>4, <1>5, <1>6, <1>7, <1>8, <1>9, <1>10, <1>11, <1>12, <1>13,
      <1>14, <1>15, <1>16, <1>17, <1>18 DEF Next, Step

-----------------------------------------------------------------------------
(***************************************************************************)
(* The log.  A slog_init closes a descriptor that is open on the log or on *)
(* the terminal, as long as at most one of them finds no log to open: the  *)
(* second one would close a number that a client may have by then.         *)
(***************************************************************************)
OneHandler == \A t, u \in Threads : hup[t].pc # "none" /\ hup[u].pc # "none" => t = u

(* The descriptors in S are the ones that are open on the log.             *)
LogAt(S) == \A f \in Fds : fds[f] = LogFile <=> f \in S

(* The log is descriptor f; there is none, and lines go to the terminal.   *)
OnFile(f) == f \in Fds /\ LogAt({f})
OnTerminal == LogAt({}) /\ fds[STDERR] = Terminal /\ fails = 1

(* The log before slog_init, and what it has done at h.                    *)
LogBefore(fd) == OnFile(fd) \/ (OnTerminal /\ fd = STDERR)
Reopening(h) ==
    \/ /\ h.old \in Fds /\ h.new \in Fds /\ h.old # h.new
       /\ \/ LogAt({h.old, h.new})
          \/ LogAt({h.new}) /\ h.old = STDERR /\ fds[STDERR] = Terminal /\ fails = 1
    \/ h.new = None /\ OnFile(h.old) /\ fds[STDERR] = Terminal /\ fails = 1
Reopened(h) == OnFile(h.new) \/ (OnTerminal /\ h.new = None)

FailsOnce == fails <= 1 /\ (fails = 0 => fds[STDERR] = Terminal)

Quiet == \A t \in Threads : hup[t].pc = "none"

LogState ==
    /\ FailsOnce
    /\ Quiet => LogBefore(log_fd)
    /\ \A t \in Threads :
         /\ hup[t].pc = "opened" => log_fd = hup[t].old
         /\ hup[t].pc \in {"stored", "closed"} => log_fd = hup[t].new
         /\ hup[t].pc \in {"opened", "stored"} => Reopening(hup[t])
         /\ hup[t].pc = "closed" => Reopened(hup[t])

LogInv == OneHandler /\ LogState

(* At the start the log is open and nobody handles SIGHUP.                 *)
LEMMA InitLogInv == Init => LogInv
<1> SUFFICES ASSUME Init PROVE LogInv
  OBVIOUS
<1>1. \A t \in Threads : hup[t].pc = "none"
  BY DEF Init, Idle
<1>2. OnFile(log_fd)
  BY KindsDiffer DEF Init, OnFile, LogAt, Fds, STDERR
<1>3. FailsOnce
  BY DEF Init, FailsOnce, Fds, STDERR
<1> QED BY <1>1, <1>2, <1>3 DEF LogInv, OneHandler, LogState, LogBefore, Quiet

(* Steps that neither handle SIGHUP nor touch a descriptor of the log.     *)
LogKept ==
    /\ UNCHANGED <<hup, log_fd, fails>>
    /\ \A f \in Fds : fds'[f] = LogFile <=> fds[f] = LogFile
    /\ fds[STDERR] = Terminal => fds'[STDERR] = Terminal

(* A step that leaves the log alone keeps its invariant.                   *)
LEMMA KeptLogInv == LogInv /\ LogKept => LogInv'
<1> SUFFICES ASSUME LogInv, LogKept PROVE LogInv'
  OBVIOUS
<1>1. \A S : LogAt(S) => LogAt(S)'
  BY DEF LogKept, LogAt
<1> USE DEF LogKept
<1>2. /\ \A f : OnFile(f) => OnFile(f)'
      /\ OnTerminal => OnTerminal'
  BY <1>1 DEF OnFile, OnTerminal
<1>3. FailsOnce'
  BY DEF LogInv, LogState, FailsOnce
<1>4. \A t \in Threads : Reopening(hup[t]) => Reopening(hup[t])'
  BY <1>1, <1>2 DEF Reopening
<1>5. \A t \in Threads : Reopened(hup[t]) => Reopened(hup[t])'
  BY <1>2 DEF Reopened
<1>6. LogBefore(log_fd) => LogBefore(log_fd)'
  BY <1>2 DEF LogBefore
<1> QED BY <1>3, <1>4, <1>5, <1>6 DEF LogInv, LogState, OneHandler, Quiet

(* SIGHUP: the log is opened again, or cannot be.                          *)
LEMMA OpenLogInv ==
  ASSUME MaxFail <= 1, TypeInv, LogInv, NEW t \in Threads, slog_init(t)
  PROVE  LogInv'
<1> DEFINE f == hup'[t].new
<1> USE DEF TypeInv, StateTypes
<1>1. \A u \in Threads : hup[u].pc = "none"
  BY DEF slog_init
<1>2. LogBefore(log_fd) /\ FailsOnce
  BY <1>1 DEF LogInv, LogState, Quiet
<1>3. /\ \A u \in Threads : u # t => hup'[u].pc = "none"
      /\ hup'[t].pc = "opened" /\ hup'[t].old = log_fd /\ log_fd' = log_fd
  BY <1>1 DEF slog_init
<1>4. STDERR \in Fds
  BY DEF Fds, STDERR
<1>5. FailsOnce' /\ Reopening(hup[t])'
  <2>1. ASSUME NEW g \in Fds, fds[g] = Free, fds' = [fds EXCEPT ![g] = LogFile],
               hup'[t].new = g, fails' = fails
        PROVE  FailsOnce' /\ Reopening(hup[t])'
    <3>1. FailsOnce'
      BY <1>2, <2>1, KindsDiffer, <1>4 DEF FailsOnce
    <3>2. CASE OnFile(log_fd)
      <4>1. g # log_fd /\ log_fd \in Fds
        BY <2>1, <3>2, KindsDiffer DEF OnFile, LogAt
      <4>2. LogAt({log_fd, g})'
        BY <2>1, <3>2, <1>3, <4>1 DEF OnFile, LogAt
      <4> QED BY <1>3, <2>1, <3>1, <4>1, <4>2 DEF Reopening
    <3>3. CASE OnTerminal /\ log_fd = STDERR
      <4>1. g # STDERR /\ fds'[STDERR] = Terminal
        BY <2>1, <3>3, <1>4, KindsDiffer DEF OnTerminal
      <4>2. LogAt({g})'
        BY <2>1, <3>3 DEF OnTerminal, LogAt
      <4>3. fails' = 1
        BY <2>1, <3>3 DEF OnTerminal
      <4> QED BY <1>3, <1>4, <2>1, <3>1, <3>3, <4>1, <4>2, <4>3 DEF Reopening
    <3> QED BY <1>2, <3>2, <3>3 DEF LogBefore
  <2>2. ASSUME fails < MaxFail, fails' = fails + 1, hup'[t].new = None, fds' = fds
        PROVE  FailsOnce' /\ Reopening(hup[t])'
    <3>1. fails = 0 /\ fails' = 1
      BY <2>2
    <3>2. fds'[STDERR] = Terminal
      BY <1>2, <2>2, <3>1 DEF FailsOnce
    <3>3. OnFile(log_fd)'
      BY <1>2, <1>3, <2>2, <3>1 DEF LogBefore, OnTerminal, OnFile, LogAt
    <3> QED BY <1>3, <2>2, <3>1, <3>2, <3>3 DEF FailsOnce, Reopening
  <2>3. CASE FreeFds # {} /\ fds' = [fds EXCEPT ![LowestFree] = LogFile]
             /\ hup' = [hup EXCEPT ![t] = [pc |-> "opened", old |-> log_fd, new |-> LowestFree]]
             /\ fails' = fails
    <3>1. PICK g : g = LowestFree
      OBVIOUS
    <3>2. g \in Fds /\ fds[g] = Free /\ fds' = [fds EXCEPT ![g] = LogFile] /\ hup'[t].new = g
      BY <2>3, <3>1, LowestIsFree
    <3> QED BY <2>1, <2>3, <3>2
  <2>4. CASE fails < MaxFail /\ fails' = fails + 1 /\ fds' = fds
             /\ hup' = [hup EXCEPT ![t] = [pc |-> "opened", old |-> log_fd, new |-> None]]
    BY <2>2, <2>4
  <2> QED BY <2>3, <2>4 DEF slog_init
<1> QED BY <1>3, <1>5 DEF LogInv, OneHandler, LogState, Quiet

(* s->log.fd is replaced.                                                  *)
LEMMA StoreLogInv ==
  ASSUME TypeInv, LogInv, NEW t \in Threads, slog_init_store(t)
  PROVE  LogInv'
<1> USE DEF TypeInv, StateTypes, Handlers
<1>1. /\ hup'[t].pc = "stored" /\ hup'[t].old = hup[t].old /\ hup'[t].new = hup[t].new
      /\ \A u \in Threads : u # t => hup'[u] = hup[u]
  BY DEF slog_init_store
<1>2. \A u \in Threads : u # t => hup'[u].pc = "none"
  BY <1>1 DEF slog_init_store, LogInv, OneHandler
<1>3. Reopening(hup[t]) /\ FailsOnce /\ log_fd' = hup[t].new
  BY DEF slog_init_store, LogInv, LogState
<1>4. Reopening(hup[t])' /\ FailsOnce'
  BY <1>1, <1>3 DEF slog_init_store, Reopening, FailsOnce, OnFile, LogAt
<1> QED BY <1>1, <1>2, <1>3, <1>4 DEF LogInv, OneHandler, LogState, Quiet

(* What close(old_fd) closes.                                              *)
LEMMA ClosesTheLog ==
  ASSUME TypeInv, LogInv, NEW t \in Threads, hup[t].pc \in {"opened", "stored"}
  PROVE  /\ hup[t].old \in Fds /\ hup[t].old # None
         /\ fds[hup[t].old] \in {LogFile, Terminal}
<1>1. Reopening(hup[t])
  BY DEF LogInv, LogState
<1>2. hup[t].old \in Fds /\ fds[hup[t].old] \in {LogFile, Terminal}
  BY <1>1 DEF Reopening, OnFile, LogAt
<1> QED BY <1>2 DEF Fds, STDERR, None

(* The log that was is closed.                                             *)
LEMMA CloseLogInv ==
  ASSUME TypeInv, LogInv, NEW t \in Threads, slog_init_close(t)
  PROVE  LogInv'
<1> USE DEF TypeInv, StateTypes, Handlers
<1>1. /\ hup'[t].pc = "closed" /\ hup'[t].old = hup[t].old /\ hup'[t].new = hup[t].new
      /\ \A u \in Threads : u # t => hup'[u] = hup[u]
  BY DEF slog_init_close
<1>2. \A u \in Threads : u # t => hup'[u].pc = "none"
  BY <1>1 DEF slog_init_close, LogInv, OneHandler
<1>3. Reopening(hup[t]) /\ FailsOnce /\ log_fd = hup[t].new
  BY DEF slog_init_close, LogInv, LogState
<1>4. PICK g : g = hup[t].old
  OBVIOUS
<1>5. g \in Fds /\ fds' = [fds EXCEPT ![g] = Free] /\ UNCHANGED <<fails, log_fd>>
  BY <1>4, ClosesTheLog DEF slog_init_close
<1>6. STDERR \in Fds
  BY DEF Fds, STDERR
<1>7. FailsOnce' /\ Reopened(hup[t])'
  <2>1. CASE hup[t].new \in Fds /\ g # hup[t].new /\ LogAt({g, hup[t].new})
    <3>1. OnFile(hup[t].new)'
      BY <1>1, <1>3, <1>5, <2>1, KindsDiffer DEF OnFile, LogAt
    <3>2. g # STDERR \/ fails = 1
      BY <1>3, <1>6, <2>1, KindsDiffer, SMTT(30) DEF FailsOnce, LogAt
    <3> QED BY <1>1, <1>3, <1>5, <3>1, <3>2, <1>6 DEF FailsOnce, Reopened, OnFile, LogAt
  <2>2. CASE hup[t].new \in Fds /\ g # hup[t].new /\ LogAt({hup[t].new}) /\ fails = 1
    <3>1. OnFile(hup[t].new)'
      BY <1>1, <1>3, <1>5, <2>2, KindsDiffer DEF OnFile, LogAt
    <3> QED BY <1>1, <1>3, <1>5, <2>2, <3>1 DEF FailsOnce, Reopened, OnFile, LogAt
  <2>3. CASE hup[t].new = None /\ OnFile(g) /\ fds[STDERR] = Terminal /\ fails = 1
    <3>1. g # STDERR /\ LogAt({})'
      BY <1>5, <1>6, <2>3, KindsDiffer DEF OnFile, LogAt
    <3>2. fds'[STDERR] = Terminal
      BY <1>5, <1>6, <2>3, <3>1
    <3> QED BY <1>1, <1>3, <1>5, <2>3, <3>1, <3>2 DEF FailsOnce, Reopened, OnTerminal
  <2> QED BY <1>3, <1>4, <2>1, <2>2, <2>3 DEF Reopening
<1> QED BY <1>1, <1>2, <1>3, <1>5, <1>7 DEF LogInv, OneHandler, LogState, Quiet

(* The handler returns.                                                    *)
LEMMA ReturnLogInv ==
  ASSUME TypeInv, LogInv, NEW t \in Threads, slog_init_return(t)
  PROVE  LogInv'
<1> USE DEF TypeInv, StateTypes, Handlers
<1>1. hup'[t].pc = "none" /\ \A u \in Threads : u # t => hup'[u] = hup[u]
  BY DEF slog_init_return, Idle
<1>2. \A u \in Threads : hup'[u].pc = "none"
  BY <1>1 DEF slog_init_return, LogInv, OneHandler
<1>3. Reopened(hup[t]) /\ FailsOnce /\ log_fd = hup[t].new
  BY DEF slog_init_return, LogInv, LogState
<1>4. UNCHANGED <<fds, fails>>
  BY DEF slog_init_return
<1>5. FailsOnce' /\ LogBefore(log_fd)'
  <2>1. CASE OnFile(log_fd)
    <3>1. log_fd' = log_fd
      BY <2>1 DEF slog_init_return, OnFile, Fds, STDERR, None
    <3> QED BY <2>1, <3>1, <1>3, <1>4 DEF LogBefore, OnFile, LogAt, FailsOnce
  <2>2. CASE OnTerminal /\ log_fd = None
    <3>1. log_fd' = STDERR
      BY <2>2 DEF slog_init_return
    <3> QED BY <2>2, <3>1, <1>3, <1>4 DEF LogBefore, OnTerminal, LogAt, FailsOnce
  <2> QED BY <1>3, <2>1, <2>2 DEF Reopened
<1> QED BY <1>2, <1>5 DEF LogInv, OneHandler, LogState, Quiet

(* Every step keeps it, when at most one reopen fails: slog_init stores    *)
(* the new descriptor before it closes the old one.                        *)
LEMMA StepLogInv ==
  ASSUME MaxFail <= 1
  PROVE  TypeInv /\ LogInv /\ [Next]_vars => LogInv'
<1> SUFFICES ASSUME TypeInv, LogInv, [Next]_vars PROVE LogInv'
  OBVIOUS
<1> USE DEF TypeInv, StateTypes
<1>a. STDERR \in Fds
  BY DEF Fds, STDERR
(* A descriptor that was free, or a client's, becomes something else.      *)
<1>b. ASSUME NEW g \in Fds, NEW k, fds[g] = Free, k \notin {LogFile},
             fds' = [fds EXCEPT ![g] = k], UNCHANGED <<hup, log_fd, fails>>
      PROVE  LogKept
  BY <1>a, <1>b, KindsDiffer DEF LogKept
<1>1. CASE worker_start
  BY <1>1, KeptLogInv DEF worker_start, LogKept, logVars
<1>2. CASE socket_setup
  <2>1. PICK g : g = LowestFree
    OBVIOUS
  <2>2. CASE fds' = fds
    BY <1>2, <2>2, KeptLogInv DEF socket_setup, LogKept, logVars
  <2>3. CASE FreeFds # {} /\ fds' = [fds EXCEPT ![g] = Listener]
    BY <1>2, <2>1, <2>3, <1>b, LowestIsFree, KindsDiffer, KeptLogInv DEF socket_setup, logVars
  <2> QED BY <1>2, <2>1, <2>2, <2>3 DEF socket_setup
<1>3. CASE server_can_accept
  <2>1. PICK g : g = LowestFree
    OBVIOUS
  <2>2. PICK c \in Clients : c = Head(backlog)
    BY <1>3 DEF server_can_accept
  <2>3. CASE fds' = fds
    BY <1>3, <2>3, KeptLogInv DEF server_can_accept, LogKept
  <2>4. CASE FreeFds # {} /\ fds' = [fds EXCEPT ![g] = Socket(c)]
    BY <1>3, <2>1, <2>4, <1>b, LowestIsFree, KindsDiffer, KeptLogInv, ZenonT(60) DEF server_can_accept
  <2> QED BY <1>3, <2>1, <2>2, <2>3, <2>4 DEF server_can_accept
<1>4. CASE worker_add_client
  BY <1>4, KeptLogInv DEF worker_add_client, LogKept, logVars
<1>5. CASE server_handle_signal
  BY <1>5, KeptLogInv DEF server_handle_signal, LogKept
<1>6. CASE Connect
  BY <1>6, KeptLogInv DEF Connect, LogKept, logVars
<1>7. ASSUME NEW t \in Threads, slog_init(t) \/ Step(t) PROVE LogInv'
  BY <1>7, OpenLogInv, StoreLogInv, CloseLogInv, ReturnLogInv DEF Step
<1>8. ASSUME NEW w \in Workers,
             \/ worker_main(w) \/ worker_on_new_client(w) \/ slog_load(w) \/ slog_write(w)
             \/ pool_on_auth_complete(w) \/ pool_log_auth(w)
      PROVE  LogInv'
  <2>1. LogKept
    BY <1>8 DEF worker_main, worker_on_new_client, slog_load, slog_write, pool_on_auth_complete,
       pool_log_auth, LogKept, logVars
  <2> QED BY <2>1, KeptLogInv
<1>9. ASSUME NEW w \in Workers, NEW c \in Clients, http_client_free(w, c) PROVE LogInv'
  <2>1. LogKept
    BY <1>9, <1>a, KindsDiffer DEF http_client_free, LogKept, logVars
  <2> QED BY <2>1, KeptLogInv
<1>10. CASE UNCHANGED vars
  BY <1>10, KeptLogInv DEF vars, LogKept, logVars
<1> QED BY <1>1, <1>2, <1>3, <1>4, <1>5, <1>6, <1>7, <1>8, <1>9, <1>10 DEF Next

-----------------------------------------------------------------------------
(***************************************************************************)
(* The message about AUTH: the flag is read and set under the mutex.       *)
(***************************************************************************)
AuthOnce ==
    /\ \A w \in Workers : auth[w] = "logging" <=> auth_mutex = w
    /\ auth_logged = auth_lines /\ auth_lines <= 1
    /\ auth_mutex # None => auth_logged = 0

(* At the start nobody has logged the message.                             *)
LEMMA InitAuthOnce == Init => AuthOnce
  BY DEF Init, AuthOnce, Workers, None

(* Every step keeps it: the flag is read and set under one hold of the     *)
(* mutex.                                                                  *)
LEMMA StepAuthOnce == TypeInv /\ AuthOnce /\ [Next]_vars => AuthOnce'
<1> SUFFICES ASSUME TypeInv, AuthOnce, [Next]_vars PROVE AuthOnce'
  OBVIOUS
<1> USE DEF TypeInv, StateTypes
<1>1. \A w \in Workers : w # None
  BY DEF Workers, None
<1>2. ASSUME NEW w \in Workers, pool_on_auth_complete(w) PROVE AuthOnce'
  <2>1. CASE auth_logged > 0
    BY <1>2, <2>1 DEF pool_on_auth_complete, AuthOnce
  <2>2. CASE ~(auth_logged > 0)
    BY <1>1, <1>2, <2>2 DEF pool_on_auth_complete, AuthOnce
  <2> QED BY <2>1, <2>2
<1>3. ASSUME NEW w \in Workers, pool_log_auth(w) PROVE AuthOnce'
  BY <1>1, <1>3 DEF pool_log_auth, AuthOnce
<1>4. CASE UNCHANGED authVars
  BY <1>4 DEF authVars, AuthOnce
<1> QED BY <1>2, <1>3, <1>4 DEF Next, Step, vars, worker_start, socket_setup, server_can_accept,
      worker_add_client, server_handle_signal, Connect, slog_init, slog_init_store,
      slog_init_close, slog_init_return, worker_main, worker_on_new_client, slog_load, slog_write,
      http_client_free

(* The log is shared soundly: with one log that could not be opened again  *)
(* at most, s->log.fd is the log's only descriptor or stderr out of the    *)
(* handler, and the answer to AUTH is logged once.                         *)
THEOREM LogIsAlwaysShared ==
  ASSUME MaxFail <= 1
  PROVE  Spec => []LogIsShared
<1> DEFINE Inv == TypeInv /\ LogInv /\ AuthOnce
<1>1. Init => Inv
  BY InitTypeInv, InitLogInv, InitAuthOnce
<1>2. Inv /\ [Next]_vars => Inv'
  BY StepTypeInv, StepLogInv, StepAuthOnce
<1>3. Inv => LogIsShared
  <2> SUFFICES ASSUME Inv PROVE LogIsShared
    OBVIOUS
  <2>1. ASSUME Quiet
        PROVE  \/ {f \in Fds : fds[f] = LogFile} = {log_fd}
               \/ {f \in Fds : fds[f] = LogFile} = {} /\ log_fd = STDERR
    <3>1. LogBefore(log_fd)
      BY <2>1 DEF LogInv, LogState
    <3> QED BY <3>1 DEF LogBefore, OnFile, OnTerminal, LogAt
  <2> QED BY <2>1 DEF LogIsShared, Quiet, AuthOnce
<1> QED BY <1>1, <1>2, <1>3, PTL DEF Spec

-----------------------------------------------------------------------------
(***************************************************************************)
(* Clients on their way from the queue to a worker.                        *)
(***************************************************************************)
Distinct(s) == \A i, j \in 1..Len(s) : s[i] = s[j] => i = j

Queued(c) == Contains(backlog, c)
Piped(c, w) == Contains(link[w], c)
Held(c) == handing = c \/ \E w \in Workers : Piped(c, w) \/ c \in watched[w]

(* Queues hold a client once.                                              *)
QueuedOnce == Distinct(backlog) /\ \A w \in Workers : Distinct(link[w])

(* A client that was not made yet is nowhere; one that was is in the queue *)
(* or is held, in one place.                                               *)
OnePlace ==
    \A c \in Clients :
        /\ Held(c) \/ Queued(c) => c <= connects
        /\ Held(c) => ~Queued(c)
        /\ handing = c => \A w \in Workers : ~Piped(c, w) /\ c \notin watched[w]
        /\ \A v, w \in Workers :
             /\ Piped(c, v) /\ Piped(c, w) => v = w
             /\ c \in watched[v] /\ c \in watched[w] => v = w
             /\ ~(Piped(c, v) /\ c \in watched[w])

(* The clients that are held are the ones that have a descriptor, one.     *)
Sockets ==
    \A c \in Clients :
        /\ Held(c) <=> \E f \in Fds : fds[f] = Socket(c)
        /\ \A f, g \in Fds : fds[f] = Socket(c) /\ fds[g] = Socket(c) => f = g

ClientInv == QueuedOnce /\ OnePlace /\ Sockets

(* A sequence that grows by one element, and one that loses its first.     *)
LEMMA Appended ==
  ASSUME NEW S, NEW s \in Seq(S), NEW x \in S
  PROVE  /\ \A c : Contains(Append(s, x), c) <=> Contains(s, c) \/ c = x
         /\ Distinct(s) /\ ~Contains(s, x) => Distinct(Append(s, x))
<1>1. Len(Append(s, x)) = Len(s) + 1 /\ Len(s) \in Nat
  OBVIOUS
<1>2. \A i \in 1..(Len(s) + 1) : Append(s, x)[i] = IF i = Len(s) + 1 THEN x ELSE s[i]
  OBVIOUS
<1>3. ASSUME NEW c PROVE Contains(Append(s, x), c) <=> Contains(s, c) \/ c = x
  <2>1. ASSUME Contains(s, c) PROVE Contains(Append(s, x), c)
    <3>1. PICK i \in 1..Len(s) : s[i] = c
      BY <2>1 DEF Contains
    <3>2. i \in 1..(Len(s) + 1) /\ Append(s, x)[i] = c
      BY <1>1, <1>2, <3>1
    <3> QED BY <1>1, <3>2 DEF Contains
  <2>2. ASSUME c = x PROVE Contains(Append(s, x), c)
    <3>1. Len(s) + 1 \in 1..Len(Append(s, x)) /\ Append(s, x)[Len(s) + 1] = c
      BY <1>1, <1>2, <2>2
    <3> QED BY <3>1 DEF Contains
  <2>3. ASSUME Contains(Append(s, x), c), c # x PROVE Contains(s, c)
    <3>1. PICK i \in 1..(Len(s) + 1) : Append(s, x)[i] = c
      BY <1>1, <2>3 DEF Contains
    <3>2. i \in 1..Len(s) /\ s[i] = c
      BY <1>1, <1>2, <2>3, <3>1
    <3> QED BY <3>2 DEF Contains
  <2> QED BY <2>1, <2>2, <2>3
<1>4. ASSUME Distinct(s), ~Contains(s, x) PROVE Distinct(Append(s, x))
  BY <1>1, <1>2, <1>4 DEF Distinct, Contains
<1> QED BY <1>3, <1>4

(* What a queue without its first element holds.                           *)
LEMMA Removed ==
  ASSUME NEW S, NEW s \in Seq(S), s # <<>>, Distinct(s)
  PROVE  /\ Distinct(Tail(s))
         /\ Contains(s, Head(s))
         /\ \A c : Contains(Tail(s), c) <=> Contains(s, c) /\ c # Head(s)
<1>1. Len(s) \in Nat \ {0} /\ Len(Tail(s)) = Len(s) - 1 /\ Head(s) = s[1]
  OBVIOUS
<1>2. \A i \in 1..(Len(s) - 1) : Tail(s)[i] = s[i + 1]
  OBVIOUS
<1>3. Distinct(Tail(s))
  <2> SUFFICES ASSUME NEW i \in 1..(Len(s) - 1), NEW j \in 1..(Len(s) - 1), Tail(s)[i] = Tail(s)[j]
               PROVE  i = j
    BY <1>1 DEF Distinct
  <2>1. s[i + 1] = s[j + 1] /\ i + 1 \in 1..Len(s) /\ j + 1 \in 1..Len(s)
    BY <1>1, <1>2
  <2> QED BY <2>1 DEF Distinct
<1>4. Contains(s, Head(s))
  BY <1>1 DEF Contains
<1>5. ASSUME NEW c PROVE Contains(Tail(s), c) <=> Contains(s, c) /\ c # Head(s)
  <2>1. ASSUME Contains(Tail(s), c) PROVE Contains(s, c) /\ c # Head(s)
    <3>1. PICK i \in 1..(Len(s) - 1) : Tail(s)[i] = c
      BY <1>1, <2>1 DEF Contains
    <3>2. i + 1 \in 1..Len(s) /\ s[i + 1] = c /\ 1 \in 1..Len(s) /\ i + 1 # 1
      BY <1>1, <1>2, <3>1
    <3> QED BY <1>1, <3>2 DEF Contains, Distinct
  <2>2. ASSUME Contains(s, c), c # Head(s) PROVE Contains(Tail(s), c)
    <3>1. PICK i \in 1..Len(s) : s[i] = c
      BY <2>2 DEF Contains
    <3>2. i - 1 \in 1..Len(Tail(s)) /\ Tail(s)[i - 1] = c
      BY <1>1, <1>2, <2>2, <3>1
    <3> QED BY <3>2 DEF Contains
  <2> QED BY <2>1, <2>2
<1> QED BY <1>3, <1>4, <1>5

(* At the start there is no client anywhere.                               *)
LEMMA InitClientInv == Init => ClientInv
<1> SUFFICES ASSUME Init PROVE ClientInv
  OBVIOUS
<1>1. \A c : ~Contains(<<>>, c)
  BY DEF Contains
<1>2. Distinct(<<>>)
  BY DEF Distinct
<1>3. \A c \in Clients : ~Held(c) /\ ~Queued(c)
  BY <1>1 DEF Init, Held, Queued, Piped, Clients, Nobody
<1>4. \A c \in Clients, f \in Fds : fds[f] # Socket(c)
  BY KindsDiffer DEF Init
<1>5. OnePlace
  BY <1>3 DEF OnePlace, Held
<1> QED BY <1>2, <1>3, <1>4, <1>5 DEF Init, ClientInv, QueuedOnce, Sockets

(* Steps that move no client.                                              *)
PlacesKept ==
    /\ UNCHANGED <<handing, link, watched, backlog, connects>>
    /\ \A f \in Fds, c \in Clients : fds'[f] = Socket(c) <=> fds[f] = Socket(c)

(* A step that moves no client keeps the clients' invariant.               *)
LEMMA KeptClientInv == ClientInv /\ PlacesKept => ClientInv'
<1> SUFFICES ASSUME ClientInv, PlacesKept PROVE ClientInv'
  OBVIOUS
<1>1. \A c \in Clients : (Held(c)' <=> Held(c)) /\ (Queued(c)' <=> Queued(c))
  BY DEF PlacesKept, Held, Queued, Piped
<1>2. QueuedOnce' /\ OnePlace'
  BY <1>1 DEF PlacesKept, ClientInv, QueuedOnce, OnePlace, Piped
<1>3. Sockets'
  BY <1>1 DEF PlacesKept, ClientInv, Sockets
<1> QED BY <1>2, <1>3 DEF ClientInv

(* A new client is in the queue only.                                      *)
LEMMA ConnectClients ==
  ASSUME TypeInv, ClientInv, Connect
  PROVE  ClientInv'
<1> USE DEF TypeInv, StateTypes
<1>1. connects + 1 \in Clients /\ connects \in Nat
  BY DEF Connect, Clients
<1>2. backlog' = Append(backlog, connects + 1) /\ connects' = connects + 1
      /\ UNCHANGED <<handing, link, watched, fds>>
  BY DEF Connect, dispatchVars
<1>3. ~Held(connects + 1) /\ ~Queued(connects + 1)
  BY <1>1 DEF ClientInv, OnePlace
<1>4. \A c \in Clients : (Held(c)' <=> Held(c)) /\ (Queued(c)' <=> Queued(c) \/ c = connects + 1)
  BY <1>1, <1>2, Appended DEF Held, Queued, Piped
<1>5. Distinct(backlog')
  BY <1>1, <1>2, <1>3, Appended DEF ClientInv, QueuedOnce, Queued
<1>6. QueuedOnce'
  BY <1>2, <1>5 DEF ClientInv, QueuedOnce
<1>7. OnePlace'
  <2> SUFFICES ASSUME NEW c \in Clients PROVE OnePlace!(c)'
    BY DEF OnePlace
  <2>1. Held(c) \/ Queued(c) => c <= connects
    BY DEF ClientInv, OnePlace
  <2>2. Held(c)' \/ Queued(c)' => c <= connects'
    BY <1>1, <1>2, <1>4, <2>1 DEF Clients
  <2> QED BY <1>2, <1>3, <1>4, <2>2 DEF ClientInv, OnePlace, Piped
<1>8. Sockets'
  BY <1>2, <1>4 DEF ClientInv, Sockets
<1> QED BY <1>6, <1>7, <1>8 DEF ClientInv

(* accept: the client leaves the queue and has a descriptor.               *)
LEMMA AcceptClients ==
  ASSUME TypeInv, ClientInv, server_can_accept
  PROVE  ClientInv'
<1> USE DEF TypeInv, StateTypes
<1>1. CASE FreeFds = {}
  <2>1. PlacesKept
    BY <1>1 DEF server_can_accept, PlacesKept
  <2> QED BY <2>1, KeptClientInv
<1>2. CASE FreeFds # {}
  <2>1. PICK g : g = LowestFree
    OBVIOUS
  <2>2. PICK c \in Clients : c = Head(backlog)
    BY DEF server_can_accept
  <2>3. g \in Fds /\ fds[g] = Free
    BY <1>2, <2>1, LowestIsFree
  <2>4. /\ fds' = [fds EXCEPT ![g] = Socket(c)] /\ backlog' = Tail(backlog) /\ handing' = c
        /\ handing = Nobody /\ backlog # <<>> /\ UNCHANGED <<link, watched, connects>>
    BY <1>2, <2>1, <2>2 DEF server_can_accept
  <2>5. Distinct(backlog')
    BY <2>4, Removed DEF ClientInv, QueuedOnce
  <2>6. Queued(c) /\ \A d \in Clients : Queued(d)' <=> Queued(d) /\ d # c
    BY <2>2, <2>4, Removed DEF ClientInv, QueuedOnce, Queued
  <2>7. ~Held(c)
    BY <2>6 DEF ClientInv, OnePlace
  <2>8. Nobody \notin Clients
    BY DEF Nobody, Clients
  <2>9. \A d \in Clients : Held(d)' <=> Held(d) \/ d = c
    BY <2>4, <2>8 DEF Held, Piped
  <2>10. QueuedOnce'
    BY <2>4, <2>5 DEF ClientInv, QueuedOnce
  <2>11. OnePlace'
    <3> SUFFICES ASSUME NEW d \in Clients PROVE OnePlace!(d)'
      BY DEF OnePlace
    <3> QED BY <2>4, <2>6, <2>7, <2>9 DEF ClientInv, OnePlace, Held, Piped
  <2>12. Sockets'
    <3>1. \A f \in Fds, d \in Clients :
            fds'[f] = Socket(d) <=> fds[f] = Socket(d) \/ (f = g /\ d = c)
      BY <2>3, <2>4, KindsDiffer
    <3>2. \A f \in Fds : fds[f] # Socket(c)
      BY <2>7 DEF ClientInv, Sockets
    <3> SUFFICES ASSUME NEW d \in Clients PROVE Sockets!(d)'
      BY DEF Sockets
    <3> QED BY <2>3, <2>9, <3>1, <3>2 DEF ClientInv, Sockets
  <2> QED BY <2>10, <2>11, <2>12 DEF ClientInv
<1> QED BY <1>1, <1>2

(* The client goes from the main thread to a pipe.                         *)
LEMMA AddClients ==
  ASSUME TypeInv, ClientInv, worker_add_client
  PROVE  ClientInv'
<1> USE DEF TypeInv, StateTypes
<1>1. PICK w \in Workers : w = next_worker
  OBVIOUS
<1>2. PICK c \in Clients : c = handing
  BY DEF worker_add_client
<1>3. /\ link' = [link EXCEPT ![w] = Append(@, c)] /\ handing' = Nobody
      /\ UNCHANGED <<fds, watched, backlog, connects>>
  BY <1>1, <1>2 DEF worker_add_client, outsideVars
<1>4. Held(c) /\ \A v \in Workers : ~Piped(c, v) /\ c \notin watched[v]
  BY <1>2 DEF ClientInv, OnePlace, Held
<1>5. \A v \in Workers, d \in Clients : Piped(d, v)' <=> Piped(d, v) \/ (v = w /\ d = c)
  BY <1>3, Appended DEF Piped
<1>6. Nobody \notin Clients
  BY DEF Nobody, Clients
<1>7. \A d \in Clients : (Held(d)' <=> Held(d)) /\ (Queued(d)' <=> Queued(d))
  <2> SUFFICES ASSUME NEW d \in Clients PROVE Held(d)' <=> Held(d)
    BY <1>3 DEF Queued
  <2> QED BY <1>2, <1>3, <1>5, <1>6 DEF Held
<1>8. QueuedOnce'
  <2>1. Distinct(Append(link[w], c))
    BY <1>4, Appended DEF ClientInv, QueuedOnce, Piped
  <2> QED BY <1>3, <2>1 DEF ClientInv, QueuedOnce
<1>9. OnePlace'
  <2> SUFFICES ASSUME NEW d \in Clients PROVE OnePlace!(d)'
    BY DEF OnePlace
  <2> QED BY <1>3, <1>4, <1>5, <1>6, <1>7, SMTT(30) DEF ClientInv, OnePlace
<1>10. Sockets'
  BY <1>3, <1>7 DEF ClientInv, Sockets
<1> QED BY <1>8, <1>9, <1>10 DEF ClientInv

(* A worker takes a client from its pipe.                                  *)
LEMMA TakeClients ==
  ASSUME TypeInv, ClientInv, NEW w \in Workers, worker_on_new_client(w)
  PROVE  ClientInv'
<1> USE DEF TypeInv, StateTypes
<1>1. PICK c \in Clients : c = Head(link[w])
  BY SMTT(30) DEF worker_on_new_client
<1>2. /\ link' = [link EXCEPT ![w] = Tail(@)] /\ link[w] # <<>>
      /\ watched' = [watched EXCEPT ![w] = @ \union {c}]
      /\ UNCHANGED <<fds, handing, backlog, connects>>
  BY <1>1 DEF worker_on_new_client, outsideVars
<1>3. \A v \in Workers, d \in Clients : Piped(d, v)' <=> Piped(d, v) /\ ~(v = w /\ d = c)
  BY <1>1, <1>2, Removed DEF Piped, ClientInv, QueuedOnce
<1>4. \A v \in Workers, d \in Clients : d \in watched'[v] <=> d \in watched[v] \/ (v = w /\ d = c)
  BY <1>2
<1>5. Piped(c, w)
  BY <1>1, <1>2, Removed DEF Piped, ClientInv, QueuedOnce
<1>6. \A d \in Clients : (Held(d)' <=> Held(d)) /\ (Queued(d)' <=> Queued(d))
  <2> SUFFICES ASSUME NEW d \in Clients PROVE Held(d)' <=> Held(d)
    BY <1>2 DEF Queued
  <2> QED BY <1>2, <1>3, <1>4, <1>5 DEF Held
<1>7. QueuedOnce'
  <2>1. Distinct(Tail(link[w]))
    BY <1>2, Removed DEF ClientInv, QueuedOnce
  <2> QED BY <1>2, <2>1 DEF ClientInv, QueuedOnce
<1>8. OnePlace'
  <2> SUFFICES ASSUME NEW d \in Clients PROVE OnePlace!(d)'
    BY DEF OnePlace
  <2> QED BY <1>2, <1>3, <1>4, <1>5, <1>6, SMTT(30) DEF ClientInv, OnePlace
<1>9. Sockets'
  BY <1>2, <1>6 DEF ClientInv, Sockets
<1> QED BY <1>7, <1>8, <1>9 DEF ClientInv

(* A client leaves.                                                        *)
LEMMA FreeClients ==
  ASSUME TypeInv, ClientInv, NEW w \in Workers, NEW c \in Clients, http_client_free(w, c)
  PROVE  ClientInv'
<1> USE DEF TypeInv, StateTypes
<1>1. /\ c \in watched[w] /\ watched' = [watched EXCEPT ![w] = @ \ {c}]
      /\ fds' = [f \in Fds |-> IF fds[f] = Socket(c) THEN Free ELSE fds[f]]
      /\ UNCHANGED <<link, handing, backlog, connects>>
  BY DEF http_client_free, outsideVars
<1>2. /\ handing # c
      /\ \A v \in Workers : ~Piped(c, v) /\ (c \in watched[v] => v = w)
  BY <1>1 DEF ClientInv, OnePlace
<1>3. \A v \in Workers, d \in Clients : d \in watched'[v] <=> d \in watched[v] /\ d # c
  BY <1>1, <1>2
<1>4. \A v \in Workers, d \in Clients : Piped(d, v)' <=> Piped(d, v)
  BY <1>1 DEF Piped
<1>5. \A d \in Clients : (Held(d)' <=> Held(d) /\ d # c) /\ (Queued(d)' <=> Queued(d))
  <2> SUFFICES ASSUME NEW d \in Clients PROVE Held(d)' <=> Held(d) /\ d # c
    BY <1>1 DEF Queued
  <2> QED BY <1>1, <1>2, <1>3, <1>4 DEF Held
<1>6. QueuedOnce'
  BY <1>1 DEF ClientInv, QueuedOnce
<1>7. OnePlace'
  <2> SUFFICES ASSUME NEW d \in Clients PROVE OnePlace!(d)'
    BY DEF OnePlace
  <2> QED BY <1>1, <1>3, <1>4, <1>5 DEF ClientInv, OnePlace
<1>8. Sockets'
  <2>1. \A f \in Fds, d \in Clients : fds'[f] = Socket(d) <=> fds[f] = Socket(d) /\ d # c
    BY <1>1, KindsDiffer
  <2> QED BY <1>5, <2>1 DEF ClientInv, Sockets
<1> QED BY <1>6, <1>7, <1>8 DEF ClientInv

(* Every step keeps it: a client goes from the backlog to the dispatcher,  *)
(* its pipe and its worker, and is at one of them at a time.               *)
LEMMA StepClientInv == TypeInv /\ LogInv /\ ClientInv /\ [Next]_vars => ClientInv'
<1> SUFFICES ASSUME TypeInv, LogInv, ClientInv, [Next]_vars PROVE ClientInv'
  OBVIOUS
<1> USE DEF TypeInv, StateTypes
<1>1. CASE socket_setup
  <2>1. PICK g : g = LowestFree
    OBVIOUS
  <2>2. PlacesKept
    BY <1>1, <2>1, LowestIsFree, KindsDiffer DEF socket_setup, PlacesKept, dispatchVars, outsideVars
  <2> QED BY <2>2, KeptClientInv
<1>2. ASSUME NEW t \in Threads, slog_init(t) PROVE ClientInv'
  <2>1. PICK g : g = LowestFree
    OBVIOUS
  <2>2. fds' = fds \/ (g \in Fds /\ fds[g] = Free /\ fds' = [fds EXCEPT ![g] = LogFile])
    BY <1>2, <2>1, LowestIsFree DEF slog_init
  <2>3. PlacesKept
    BY <1>2, <2>2, KindsDiffer DEF slog_init, PlacesKept, dispatchVars, outsideVars
  <2> QED BY <2>3, KeptClientInv
<1>3. ASSUME NEW t \in Threads, slog_init_close(t) PROVE ClientInv'
  <2>1. PICK g : g = hup[t].old
    OBVIOUS
  <2>2. g \in Fds /\ fds[g] \in {LogFile, Terminal} /\ fds' = [fds EXCEPT ![g] = Free]
    BY <1>3, <2>1, ClosesTheLog DEF slog_init_close
  <2>3. PlacesKept
    BY <1>3, <2>2, KindsDiffer DEF slog_init_close, PlacesKept, dispatchVars, outsideVars
  <2> QED BY <2>3, KeptClientInv
<1>4. ASSUME NEW w \in Workers,
             \/ worker_main(w) \/ slog_load(w) \/ slog_write(w)
             \/ pool_on_auth_complete(w) \/ pool_log_auth(w)
      PROVE  ClientInv'
  <2>1. PlacesKept
    BY <1>4 DEF worker_main, slog_load, slog_write, pool_on_auth_complete, pool_log_auth,
       PlacesKept, dispatchVars, outsideVars
  <2> QED BY <2>1, KeptClientInv
<1>5. ASSUME NEW t \in Threads, slog_init_store(t) \/ slog_init_return(t) PROVE ClientInv'
  <2>1. PlacesKept
    BY <1>5 DEF slog_init_store, slog_init_return, PlacesKept, dispatchVars, outsideVars
  <2> QED BY <2>1, KeptClientInv
<1>6. CASE worker_start \/ server_handle_signal \/ UNCHANGED vars
  <2>1. PlacesKept
    BY <1>6 DEF worker_start, server_handle_signal, vars, PlacesKept, dispatchVars, outsideVars
  <2> QED BY <2>1, KeptClientInv
<1> QED BY <1>1, <1>2, <1>3, <1>4, <1>5, <1>6, ConnectClients, AcceptClients, AddClients,
      TakeClients, FreeClients DEF Next, Step

-----------------------------------------------------------------------------
(* The ring: the workers before next_worker have had one client more than  *)
(* the last one, the others as many.                                       *)
Ring == \A w \in Workers : given[w] = given[N - 1] + IF w < next_worker THEN 1 ELSE 0

(* At the start no worker has had a client.                                *)
LEMMA InitRing == Init => Ring
  BY DEF Init, Ring, Workers

(* Every step keeps it: server_can_accept hands over to next_worker and    *)
(* moves on.                                                               *)
LEMMA StepRing == TypeInv /\ Ring /\ [Next]_vars => Ring'
<1> SUFFICES ASSUME TypeInv, Ring, [Next]_vars PROVE Ring'
  OBVIOUS
<1> USE DEF TypeInv, StateTypes
<1>1. CASE worker_add_client
  <2>1. given' = [given EXCEPT ![next_worker] = @ + 1] /\ next_worker' = (next_worker + 1) % N
    BY <1>1 DEF worker_add_client
  <2>2. N - 1 \in Workers /\ given[N - 1] \in Nat
    BY DEF Workers
  <2>3. CASE next_worker = N - 1
    <3>1. next_worker' = 0 /\ given'[N - 1] = given[N - 1] + 1
      BY <2>1, <2>2, <2>3, RingStep
    <3>2. \A w \in Workers : given'[w] = given[N - 1] + 1
      <4> SUFFICES ASSUME NEW w \in Workers PROVE given'[w] = given[N - 1] + 1
        OBVIOUS
      <4>1. CASE w = N - 1
        BY <3>1, <4>1
      <4>2. CASE w # N - 1
        <5>1. w < next_worker
          BY <2>3, <4>2 DEF Workers
        <5> QED BY <2>1, <2>3, <4>2, <5>1 DEF Ring
      <4> QED BY <4>1, <4>2
    <3> QED BY <3>1, <3>2 DEF Ring, Workers
  <2>4. CASE next_worker # N - 1
    <3>1. next_worker' = next_worker + 1 /\ given'[N - 1] = given[N - 1]
      BY <2>1, <2>2, <2>4, RingStep
    <3>2. \A w \in Workers : given'[w] = given[w] + IF w = next_worker THEN 1 ELSE 0
      BY <2>1
    <3> QED BY <2>2, <3>1, <3>2 DEF Ring, Workers
  <2> QED BY <2>3, <2>4
<1>2. CASE UNCHANGED <<given, next_worker>>
  BY <1>2 DEF Ring
<1> QED BY <1>1, <1>2 DEF Next, Step, vars, dispatchVars, worker_start, socket_setup,
      server_can_accept, server_handle_signal, Connect, slog_init, slog_init_store,
      slog_init_close, slog_init_return, worker_main, worker_on_new_client, slog_load, slog_write,
      pool_on_auth_complete, pool_log_auth, http_client_free

(* A client that is held is held once.                                     *)
LEMMA HeldOnce == ClientInv => OneHolder
<1> SUFFICES ASSUME ClientInv, NEW c \in Clients PROVE OneHolder!(c)
  BY DEF OneHolder
<1> DEFINE Open == {f \in Fds : fds[f] = Socket(c)}
<1>1. CASE ~Held(c)
  <2>1. Open = {}
    BY <1>1 DEF ClientInv, Sockets
  <2>2. Holders(c) = {}
    <3>1. {v \in Workers : Contains(link[v], c)} = {} /\ {v \in Workers : c \in watched[v]} = {}
      BY <1>1 DEF Held, Piped
    <3> QED BY <1>1, <3>1 DEF Holders, Held
  <2> QED BY <2>1, <2>2, FS_EmptySet
<1>2. CASE Held(c)
  <2>1. PICK f \in Fds : fds[f] = Socket(c)
    BY <1>2 DEF ClientInv, Sockets
  <2>2. Open = {f}
    BY <2>1 DEF ClientInv, Sockets
  <2>3. PICK h : Holders(c) = {h}
    <3>1. CASE handing = c
      <4>1. {v \in Workers : Contains(link[v], c)} = {} /\ {v \in Workers : c \in watched[v]} = {}
        BY <3>1 DEF ClientInv, OnePlace, Piped
      <4>2. Holders(c) = {"main"}
        BY <3>1, <4>1 DEF Holders
      <4> QED BY <4>2
    <3>2. ASSUME handing # c, NEW w \in Workers, Piped(c, w) PROVE \E h : Holders(c) = {h}
      <4>1. {v \in Workers : Contains(link[v], c)} = {w} /\ {v \in Workers : c \in watched[v]} = {}
        BY <3>2 DEF ClientInv, OnePlace, Piped
      <4>2. Holders(c) = {<<"pipe", w>>}
        BY <3>2, <4>1 DEF Holders
      <4> QED BY <4>2
    <3>3. ASSUME handing # c, NEW w \in Workers, c \in watched[w] PROVE \E h : Holders(c) = {h}
      <4>1. {v \in Workers : Contains(link[v], c)} = {} /\ {v \in Workers : c \in watched[v]} = {w}
        BY <3>3 DEF ClientInv, OnePlace, Piped
      <4>2. Holders(c) = {<<"worker", w>>}
        BY <3>3, <4>1 DEF Holders
      <4> QED BY <4>2
    <3> QED BY <1>2, <3>1, <3>2, <3>3 DEF Held
  <2>4. Cardinality(Open) = 1 /\ Cardinality(Holders(c)) = 1
    BY <2>2, <2>3, FS_Singleton
  <2> QED BY <2>4
<1> QED BY <1>1, <1>2

(* Clients are handed over soundly: with one log that could not be opened  *)
(* again at most, a client is held in exactly one place from its accept to *)
(* its end and has one descriptor as long, whatever the threads do, and no *)
(* worker is given two clients more than another.                          *)
THEOREM ClientsAreHandedOver ==
  ASSUME MaxFail <= 1
  PROVE  Spec => []HandedOver
<1> DEFINE Inv == TypeInv /\ LogInv /\ ClientInv /\ Ring
<1>1. Init => Inv
  BY InitTypeInv, InitLogInv, InitClientInv, InitRing
<1>2. Inv /\ [Next]_vars => Inv'
  BY StepTypeInv, StepLogInv, StepClientInv, StepRing
<1>3. Inv => HandedOver
  <2> SUFFICES ASSUME Inv PROVE HandedOver
    OBVIOUS
  <2>1. TypeOK
    BY DEF TypeInv, StateTypes, PipesBounded, TypeOK
  <2>2. Balanced
    <3> SUFFICES ASSUME NEW v \in Workers, NEW w \in Workers PROVE given[v] <= given[w] + 1
      BY DEF Balanced
    <3>1. given[N - 1] \in Nat
      BY DEF TypeInv, StateTypes, Workers
    <3> QED BY <3>1 DEF Ring
  <2> QED BY <2>1, <2>2, HeldOnce DEF HandedOver
<1> QED BY <1>1, <1>2, <1>3, PTL DEF Spec
=============================================================================
