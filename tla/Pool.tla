-------------------------------- MODULE Pool --------------------------------
(***************************************************************************)
(* The per-worker pool of Redis connections (src/pool.c) as its event loop *)
(* runs it.  A context stands for a redisAsyncContext: "attached" ones     *)
(* carry the pool in ac->data and are meant for a slot; detached ones      *)
(* (data = NULL) belong to one command or one WebSocket client.            *)
(* Every handler runs to completion in the worker's thread, so each is one *)
(* action.  hiredis' own steps (connect result, link loss, deferred close) *)
(* are external and taken from how pool.c depends on them.                 *)
(***************************************************************************)
EXTENDS Integers, FiniteSets

CONSTANTS Contexts,      \* addresses a redisAsyncContext may have
          NULL,          \* the null pointer
          Count,         \* p->count, the configured pool_size
          MaxDetached,   \* bound: detached contexts open at the same time
          MaxExtra       \* bound: detached connects that fail at once

ASSUME CountAssumption == Count \in Nat \ {0}
ASSUME ContextsAssumption == IsFiniteSet(Contexts) /\ NULL \notin Contexts
ASSUME BoundsAssumption == MaxDetached \in Nat /\ MaxExtra \in Nat

VARIABLES ac,        \* p->ac: slot -> context or NULL
          cur,       \* p->cur: where pool_get_context stopped
          st,        \* context -> state of its link
          data,      \* context -> TRUE when ac->data is the pool
          timers,    \* pending pool_reconnect timers (0.1 s each)
          starting,  \* connections worker_pool_connect has still to open
          got,       \* what the last pool_get_context returned
          up,        \* environment: Redis is reachable
          extra      \* history: failed detached connects that armed a timer

vars == <<ac, cur, st, data, timers, starting, got, up, extra>>

Slots == 0 .. Count - 1

(* "none": no such context.  "refused" and "lost": the link has failed and *)
(* hiredis has not told webdis yet.  "closing": redisAsyncDisconnect was   *)
(* called with replies outstanding, hiredis closes when they are in.       *)
LinkStates == {"none", "connecting", "refused", "connected", "lost", "closing"}

Attached == {c \in Contexts : st[c] # "none" /\ data[c]}
Detached == {c \in Contexts : st[c] # "none" /\ ~data[c]}
Connecting == {c \in Attached : st[c] \in {"connecting", "refused"}}
EmptySlots == {i \in Slots : ac[i] = NULL}

TypeOK ==
  /\ ac \in [Slots -> Contexts \cup {NULL}]
  /\ cur \in Slots
  /\ st \in [Contexts -> LinkStates]
  /\ data \in [Contexts -> BOOLEAN]
  /\ timers \in Nat
  /\ starting \in Nat
  /\ got \in Contexts \cup {NULL}
  /\ up \in BOOLEAN
  /\ extra \in Nat

-----------------------------------------------------------------------------
(* pool_new: an empty array.  worker_main then calls worker_pool_connect   *)
(* before it dispatches any event.                                         *)
Init ==
  /\ ac = [i \in Slots |-> NULL]
  /\ cur = 0
  /\ st = [c \in Contexts |-> "none"]
  /\ data = [c \in Contexts |-> FALSE]
  /\ timers = 0
  /\ starting = Count
  /\ got = NULL
  /\ up \in BOOLEAN
  /\ extra = 0

(* pool_connect up to its return: a context that is now connecting.        *)
pool_connect(c, attach) ==
  /\ st[c] = "none"
  /\ st' = [st EXCEPT ![c] = "connecting"]
  /\ data' = [data EXCEPT ![c] = attach]

(* Mutant: an error at once is logged but no timer is armed.               *)
NoTimerOnError(base) ==
  /\ ~up
  /\ timers' = base
  /\ UNCHANGED <<st, data>>

(* pool_connect when hiredis fails at once (or the TLS set-up does): no    *)
(* event will come from the context, freed or, after TLS, only forgotten;  *)
(* a timer is armed, whatever "attach" was.                                *)
pool_connect_error(base) ==
  /\ ~up
  /\ timers' = base + 1
  /\ UNCHANGED <<st, data>>

EventLoop == starting = 0

(* One iteration of worker_pool_connect.                                   *)
worker_pool_connect ==
  /\ starting > 0
  /\ starting' = starting - 1
  /\ \/ /\ \E c \in Contexts : pool_connect(c, TRUE)
        /\ UNCHANGED timers
     \/ pool_connect_error(timers)
  /\ UNCHANGED <<ac, cur, got, up, extra>>

(* Mutant: the timer reconnects without attaching the pool.                *)
ReconnectDetached ==
  /\ EventLoop
  /\ timers > 0
  /\ \/ /\ \E c \in Contexts : pool_connect(c, FALSE)
        /\ timers' = timers - 1
     \/ pool_connect_error(timers - 1)
  /\ UNCHANGED <<ac, cur, starting, got, up, extra>>

(* A reconnect timer fires: pool_connect(p, cfg->database, 1).             *)
pool_can_connect ==
  /\ EventLoop
  /\ timers > 0
  /\ \/ /\ \E c \in Contexts : pool_connect(c, TRUE)
        /\ timers' = timers - 1
     \/ pool_connect_error(timers - 1)
  /\ UNCHANGED <<ac, cur, starting, got, up, extra>>

(* cmd_run and ws_client_new open a context of their own: attach = 0.      *)
connect_detached ==
  /\ EventLoop
  /\ \/ /\ Cardinality(Detached) < MaxDetached
        /\ \E c \in Contexts : pool_connect(c, FALSE)
        /\ UNCHANGED <<timers, extra>>
     \/ /\ extra < MaxExtra
        /\ pool_connect_error(timers)
        /\ extra' = extra + 1
  /\ UNCHANGED <<ac, cur, starting, got, up>>

(* Mutant: the new context always goes to slot 0.                          *)
SlotZero(c) == ac' = [ac EXCEPT ![0] = c]

(* Mutant: the loop does not return after it has found a slot.             *)
FillAll(c) == ac' = [i \in Slots |-> IF ac[i] = NULL THEN c ELSE ac[i]]

(* The loop of pool_on_connect: the lowest empty slot, if there is one.    *)
add_to_pool(c) ==
  \/ \E i \in EmptySlots : /\ \A j \in EmptySlots : i <= j
                           /\ ac' = [ac EXCEPT ![i] = c]
  \/ EmptySlots = {} /\ UNCHANGED ac

(* pool_on_connect with status REDIS_OK.                                   *)
pool_on_connect(c) ==
  /\ EventLoop
  /\ st[c] = "connecting"
  /\ st' = [st EXCEPT ![c] = "connected"]
  /\ IF data[c] THEN add_to_pool(c) ELSE UNCHANGED ac
  /\ UNCHANGED <<cur, data, timers, starting, got, up, extra>>

(* pool_on_connect with an error; hiredis frees the context after it and   *)
(* does not call pool_on_disconnect.                                       *)
pool_on_connect_error(c) ==
  /\ EventLoop
  /\ st[c] = "refused"
  /\ st' = [st EXCEPT ![c] = "none"]
  /\ timers' = IF data[c] THEN timers + 1 ELSE timers
  /\ UNCHANGED <<ac, cur, data, starting, got, up, extra>>

(* Mutant: the slot of a lost context is not cleared.                      *)
KeepSlot(c) ==
  /\ EventLoop
  /\ st[c] = "lost"
  /\ st' = [st EXCEPT ![c] = "none"]
  /\ timers' = IF data[c] THEN timers + 1 ELSE timers
  /\ UNCHANGED <<ac, cur, data, starting, got, up, extra>>

(* The loop of pool_on_disconnect: the first slot that holds c, if any.    *)
remove_from_pool(c) ==
  \/ \E i \in Slots : /\ ac[i] = c
                       /\ \A j \in Slots : ac[j] = c => i <= j
                       /\ ac' = [ac EXCEPT ![i] = NULL]
  \/ (\A i \in Slots : ac[i] # c) /\ UNCHANGED ac

(* pool_on_disconnect, called by hiredis just before it frees the context. *)
pool_on_disconnect(c) ==
  /\ EventLoop
  /\ st[c] = "lost"
  /\ st' = [st EXCEPT ![c] = "none"]
  /\ IF data[c]
       THEN remove_from_pool(c) /\ timers' = timers + 1
       ELSE UNCHANGED <<ac, timers>>
  /\ UNCHANGED <<cur, data, starting, got, up, extra>>

(* pool_free_context on a detached context, from cmd_free, ws_client_free  *)
(* or http_client_read: closed at once, or when its replies are in.        *)
pool_free_context(c) ==
  /\ EventLoop
  /\ c \in Detached
  /\ st[c] # "closing"
  /\ \E s \in {"none", "closing"} : st' = [st EXCEPT ![c] = s]
  /\ UNCHANGED <<ac, cur, data, timers, starting, got, up, extra>>

(* The last reply of a closing context is in: hiredis frees it, and        *)
(* pool_on_disconnect returns at once since data is NULL.                  *)
finish_closing(c) ==
  /\ EventLoop
  /\ st[c] = "closing"
  /\ st' = [st EXCEPT ![c] = "none"]
  /\ UNCHANGED <<ac, cur, data, timers, starting, got, up, extra>>

(* The slot the k-th pass of pool_get_context's loop looks at: cur is      *)
(* advanced once before the loop and once more in every pass.              *)
probe(k) == (cur + 1 + k) % Count

(* The passes the do/while makes when it finds nothing: it stops after the *)
(* first pass that is back at "orig".                                      *)
Passes == {k \in 1 .. Count : \A j \in 1 .. k - 1 : probe(j) # cur}

(* Mutant: the loop gives up one pass early, where it is.                  *)
StopEarly ==
  /\ EventLoop
  /\ \/ \E k \in {n \in Passes : n + 1 \in Passes} :
          /\ ac[probe(k)] # NULL
          /\ \A j \in 1 .. k - 1 : ac[probe(j)] = NULL
          /\ cur' = probe(k)
          /\ got' = ac[probe(k)]
     \/ /\ \A k \in {n \in Passes : n + 1 \in Passes} : ac[probe(k)] = NULL
        /\ cur' = (cur + Count - 1) % Count
        /\ got' = NULL
  /\ UNCHANGED <<ac, st, data, timers, starting, up, extra>>

(* Mutant: an empty pool is given up on between p->cur++ and the modulo.   *)
IncrementKept ==
  /\ EventLoop
  /\ \/ \E k \in Passes : /\ ac[probe(k)] # NULL
                          /\ \A j \in 1 .. k - 1 : ac[probe(j)] = NULL
                          /\ cur' = probe(k)
                          /\ got' = ac[probe(k)]
     \/ /\ \A k \in Passes : ac[probe(k)] = NULL
        /\ cur' = cur + 1
        /\ got' = NULL
  /\ UNCHANGED <<ac, st, data, timers, starting, up, extra>>

(* pool_get_context: a context, or NULL with cur back where it was.        *)
pool_get_context ==
  /\ EventLoop
  /\ \/ \E k \in Passes : /\ ac[probe(k)] # NULL
                          /\ \A j \in 1 .. k - 1 : ac[probe(j)] = NULL
                          /\ cur' = probe(k)
                          /\ got' = ac[probe(k)]
     \/ /\ \A k \in Passes : ac[probe(k)] = NULL
        /\ cur' = cur
        /\ got' = NULL
  /\ UNCHANGED <<ac, st, data, timers, starting, up, extra>>

-----------------------------------------------------------------------------
(* Environment.  Redis becomes unreachable; while it is, links that were   *)
(* set up or being set up may fail, each on its own.                       *)
RedisDown == up /\ up' = FALSE
             /\ UNCHANGED <<ac, cur, st, data, timers, starting, got, extra>>

RedisUp == ~up /\ up' = TRUE
           /\ UNCHANGED <<ac, cur, st, data, timers, starting, got, extra>>

LinkFails(c) ==
  /\ ~up
  /\ \/ st[c] = "connected" /\ st' = [st EXCEPT ![c] = "lost"]
     \/ st[c] = "connecting" /\ st' = [st EXCEPT ![c] = "refused"]
  /\ UNCHANGED <<ac, cur, data, timers, starting, got, up, extra>>

Next ==
  \/ worker_pool_connect
  \/ pool_can_connect
  \/ connect_detached
  \/ \E c \in Contexts : \/ pool_on_connect(c)
                         \/ pool_on_connect_error(c)
                         \/ pool_on_disconnect(c)
                         \/ pool_free_context(c)
                         \/ finish_closing(c)
                         \/ LinkFails(c)
  \/ pool_get_context
  \/ RedisDown
  \/ RedisUp

Spec == Init /\ [][Next]_vars

(* The start-up loop is a loop; libevent dispatches every event that is    *)
(* ready and hiredis reports the outcome of every connection attempt.      *)
Fairness ==
  /\ WF_vars(worker_pool_connect)
  /\ WF_vars(pool_can_connect)
  /\ \A c \in Contexts : /\ WF_vars(pool_on_connect(c))
                         /\ WF_vars(pool_on_connect_error(c))
                         /\ WF_vars(pool_on_disconnect(c))
                         /\ WF_vars(finish_closing(c))

FairSpec == Spec /\ Fairness

-----------------------------------------------------------------------------
(* A slot never holds a context hiredis has freed, nor one that belongs to *)
(* a command: pool_on_disconnect clears the slot before the context goes,  *)
(* and only pool_on_connect of an attached context fills one.              *)
SlotsHoldLiveContexts ==
  \A i \in Slots : ac[i] # NULL =>
    /\ ac[i] \in Attached
    /\ st[ac[i]] \in {"connected", "lost"}

(* No context is in two slots (pool_on_disconnect clears one slot only).   *)
OneSlotPerContext ==
  \A i, j \in Slots : ac[i] # NULL /\ ac[i] = ac[j] => i = j

(* Every empty slot is being taken care of: there is a connection still to *)
(* be opened at start-up, a timer or an attempt under way for each of them *)
(* (pool_schedule_reconnect on every failure path of pool.c).              *)
EmptySlotsAreReconnecting ==
  Cardinality(EmptySlots) <= starting + timers + Cardinality(Connecting)

(* The ledger of the pool's connections: openings outstanding, timers and  *)
(* attached contexts add up to pool_size, plus one for every detached      *)
(* connect that failed at once (pool_connect arms a timer for it too).     *)
ConnectionLedger ==
  starting + timers + Cardinality(Attached) = Count + extra

(* A context enters a slot only in the step that connects it, and a full   *)
(* slot is never given to another context before it was emptied.           *)
SlotsChangeByCallback ==
  [][\A i \in Slots : ac'[i] # ac[i] =>
       \/ /\ ac[i] = NULL
          /\ st[ac'[i]] = "connecting" /\ st'[ac'[i]] = "connected"
       \/ /\ ac'[i] = NULL
          /\ st[ac[i]] = "lost" /\ st'[ac[i]] = "none"]_vars

(* pool_get_context may miss one slot, never two: when it returns NULL at  *)
(* most one slot holds a connection.                                       *)
NullMeansAtMostOne ==
  [][pool_get_context /\ got' = NULL =>
       \A i, j \in Slots : ac[i] # NULL /\ ac[j] # NULL => i = j]_vars

(* Once Redis stays reachable every slot is filled and stays filled.       *)
PoolRefills == <>[]up => <>[](EmptySlots = {})
=============================================================================
