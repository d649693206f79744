----------------------------- MODULE PoolProofs -----------------------------
(* What holds of the pool for every pool_size, every set of contexts and   *)
(* every bound: type correctness, the safety of the slots, the ledger of   *)
(* connections, the reconnection of every empty slot, and what a NULL of   *)
(* pool_get_context means.                                                 *)
EXTENDS Pool, FiniteSetTheorems, TLAPS

(* The inductive invariant of the slots: SlotsHoldLiveContexts is what     *)
(* makes a context that is just connecting, or detached, absent from them, *)
(* and only detached contexts are closed on webdis' own initiative.        *)
ClosingIsDetached == \A c \in Contexts : st[c] = "closing" => ~data[c]

SlotInv == /\ TypeOK
           /\ SlotsHoldLiveContexts
           /\ OneSlotPerContext
           /\ ClosingIsDetached

USE CountAssumption, ContextsAssumption, BoundsAssumption

(* Initially every slot is empty and no context exists.                    *)
LEMMA InitSlotInv == Init => SlotInv
  BY DEF Init, SlotInv, TypeOK, SlotsHoldLiveContexts, OneSlotPerContext, ClosingIsDetached,
         Slots, LinkStates

(* The probes of pool_get_context stay within the array.                   *)
LEMMA ProbeIsSlot == ASSUME TypeOK, NEW k \in Nat PROVE probe(k) \in Slots
  BY DEF TypeOK, probe, Slots

(* The effect of pool_connect on the contexts, whoever calls it.           *)
OpensOrFails == \/ \E c \in Contexts, a \in BOOLEAN : pool_connect(c, a)
                \/ UNCHANGED <<st, data>>

(* A context about to be opened does not exist yet, hence is in no slot.   *)
LEMMA OpenKeepsSlots ==
  ASSUME SlotInv, OpensOrFails, UNCHANGED ac
  PROVE  /\ st' \in [Contexts -> LinkStates]
         /\ data' \in [Contexts -> BOOLEAN]
         /\ SlotsHoldLiveContexts'
         /\ OneSlotPerContext'
         /\ ClosingIsDetached'
<1> USE DEF SlotInv, TypeOK, SlotsHoldLiveContexts, OneSlotPerContext,
            ClosingIsDetached, Attached
<1>1. ASSUME NEW c \in Contexts, NEW a \in BOOLEAN, pool_connect(c, a)
      PROVE  /\ st' \in [Contexts -> LinkStates]
             /\ data' \in [Contexts -> BOOLEAN]
             /\ SlotsHoldLiveContexts'
             /\ OneSlotPerContext'
             /\ ClosingIsDetached'
         /\ ClosingIsDetached'
  <2>1. \A i \in Slots : ac[i] # c
    BY <1>1 DEF pool_connect
  <2> QED BY <1>1, <2>1 DEF pool_connect, LinkStates
<1>2. CASE UNCHANGED <<st, data>>
  BY <1>2
<1> QED BY <1>1, <1>2 DEF OpensOrFails

(* Every handler of pool.c and every event of the environment preserves    *)
(* the slots' invariant.                                                   *)
LEMMA StepSlotInv == SlotInv /\ [Next]_vars => SlotInv'
<1> SUFFICES ASSUME SlotInv, [Next]_vars PROVE SlotInv'
  OBVIOUS
<1> USE DEF SlotInv
<1>1. CASE worker_pool_connect
  <2>1. OpensOrFails
    BY <1>1 DEF worker_pool_connect, pool_connect_error, OpensOrFails
  <2>2. UNCHANGED <<ac, cur, got, up>>
    BY <1>1 DEF worker_pool_connect
  <2>3. /\ st' \in [Contexts -> LinkStates]
        /\ data' \in [Contexts -> BOOLEAN]
        /\ SlotsHoldLiveContexts' /\ OneSlotPerContext' /\ ClosingIsDetached'
    BY <2>1, <2>2, OpenKeepsSlots
  <2>4. timers' \in Nat /\ starting' \in Nat /\ extra' \in Nat
    <3>1. /\ timers' \in {timers, timers + 1}
          /\ starting > 0 /\ starting' = starting - 1
          /\ extra' = extra
      BY <1>1, Zenon DEF worker_pool_connect, pool_connect_error
    <3> QED BY <3>1 DEF TypeOK
  <2> QED BY <2>2, <2>3, <2>4 DEF TypeOK
<1>2. CASE pool_can_connect
  <2>1. OpensOrFails
    BY <1>2 DEF pool_can_connect, pool_connect_error, OpensOrFails
  <2>2. UNCHANGED <<ac, cur, got, up>>
    BY <1>2 DEF pool_can_connect
  <2>3. /\ st' \in [Contexts -> LinkStates]
        /\ data' \in [Contexts -> BOOLEAN]
        /\ SlotsHoldLiveContexts' /\ OneSlotPerContext' /\ ClosingIsDetached'
    BY <2>1, <2>2, OpenKeepsSlots
  <2>4. timers' \in Nat /\ starting' \in Nat /\ extra' \in Nat
    <3>1. /\ timers' \in {timers - 1, timers - 1 + 1}
          /\ timers > 0 /\ starting' = starting
          /\ extra' = extra
      BY <1>2, Zenon DEF pool_can_connect, pool_connect_error
    <3> QED BY <3>1 DEF TypeOK
  <2> QED BY <2>2, <2>3, <2>4 DEF TypeOK
<1>3. CASE connect_detached
  <2>1. OpensOrFails
    BY <1>3 DEF connect_detached, pool_connect_error, OpensOrFails
  <2>2. UNCHANGED <<ac, cur, got, up>>
    BY <1>3 DEF connect_detached
  <2>3. /\ st' \in [Contexts -> LinkStates]
        /\ data' \in [Contexts -> BOOLEAN]
        /\ SlotsHoldLiveContexts' /\ OneSlotPerContext' /\ ClosingIsDetached'
    BY <2>1, <2>2, OpenKeepsSlots
  <2>4. timers' \in Nat /\ starting' \in Nat /\ extra' \in Nat
    <3>1. /\ timers' \in {timers, timers + 1}
          /\ starting' = starting
          /\ extra' \in {extra, extra + 1}
      BY <1>3, Zenon DEF connect_detached, pool_connect_error
    <3> QED BY <3>1 DEF TypeOK
  <2> QED BY <2>2, <2>3, <2>4 DEF TypeOK
<1>4. ASSUME NEW c \in Contexts, pool_on_connect(c) PROVE SlotInv'
  BY <1>4 DEF pool_on_connect, add_to_pool, EmptySlots, TypeOK,
     SlotsHoldLiveContexts, OneSlotPerContext, ClosingIsDetached,
     Attached, LinkStates
<1>5. ASSUME NEW c \in Contexts, pool_on_connect_error(c) PROVE SlotInv'
  BY <1>5 DEF pool_on_connect_error, TypeOK,
     SlotsHoldLiveContexts, OneSlotPerContext, ClosingIsDetached,
     Attached, LinkStates
<1>6. ASSUME NEW c \in Contexts, pool_on_disconnect(c) PROVE SlotInv'
  BY <1>6 DEF pool_on_disconnect, remove_from_pool, TypeOK,
     SlotsHoldLiveContexts, OneSlotPerContext, ClosingIsDetached,
     Attached, LinkStates
<1>7. ASSUME NEW c \in Contexts, pool_free_context(c) PROVE SlotInv'
  BY <1>7 DEF pool_free_context, Detached, TypeOK,
     SlotsHoldLiveContexts, OneSlotPerContext, ClosingIsDetached,
     Attached, LinkStates
<1>8. ASSUME NEW c \in Contexts, finish_closing(c) PROVE SlotInv'
  BY <1>8 DEF finish_closing, TypeOK,
     SlotsHoldLiveContexts, OneSlotPerContext, ClosingIsDetached,
     Attached, LinkStates
<1>9. ASSUME NEW c \in Contexts, LinkFails(c) PROVE SlotInv'
  BY <1>9 DEF LinkFails, TypeOK,
     SlotsHoldLiveContexts, OneSlotPerContext, ClosingIsDetached,
     Attached, LinkStates
<1>10. CASE pool_get_context
  <2>1. \A k \in Passes : probe(k) \in Slots
    BY ProbeIsSlot DEF Passes
  <2>2. TypeOK'
    BY <1>10, <2>1 DEF pool_get_context, TypeOK
  <2> QED BY <1>10, <2>2 DEF pool_get_context, SlotsHoldLiveContexts,
             OneSlotPerContext, ClosingIsDetached, Attached
<1>11. CASE RedisDown
  BY <1>11 DEF RedisDown, TypeOK, SlotsHoldLiveContexts, OneSlotPerContext, ClosingIsDetached,
     Attached
<1>12. CASE RedisUp
  BY <1>12 DEF RedisUp, TypeOK, SlotsHoldLiveContexts, OneSlotPerContext, ClosingIsDetached,
     Attached
<1>13. CASE UNCHANGED vars
  BY <1>13 DEF vars, TypeOK, SlotsHoldLiveContexts, OneSlotPerContext, ClosingIsDetached,
     Attached
<1> QED BY <1>1, <1>2, <1>3, <1>4, <1>5, <1>6, <1>7, <1>8, <1>9, <1>10,
           <1>11, <1>12, <1>13 DEF Next

(* The slots' invariant holds throughout.                                  *)
THEOREM SlotInvariant == Spec => []SlotInv
  BY InitSlotInv, StepSlotInv, PTL DEF Spec

(* Every variable keeps its type: slots hold contexts or NULL and p->cur   *)
(* stays an index of the array, although it is incremented unchecked.      *)
THEOREM TypeCorrect == Spec => []TypeOK
<1>1. SlotInv => TypeOK BY DEF SlotInv
<1> QED BY <1>1, SlotInvariant, PTL

(* No slot ever holds a freed context or a command's own connection.       *)
THEOREM SlotSafety == Spec => []SlotsHoldLiveContexts
<1>1. SlotInv => SlotsHoldLiveContexts BY DEF SlotInv
<1> QED BY <1>1, SlotInvariant, PTL

(* No context is ever in two slots, so clearing the first one is enough.   *)
THEOREM SlotsDistinct == Spec => []OneSlotPerContext
<1>1. SlotInv => OneSlotPerContext BY DEF SlotInv
<1> QED BY <1>1, SlotInvariant, PTL

-----------------------------------------------------------------------------
(* The two counting invariants.                                            *)
CountInv == ConnectionLedger /\ EmptySlotsAreReconnecting

(* The sets that are counted are finite.                                   *)
LEMMA CountedSets ==
  /\ IsFiniteSet(Attached) /\ Cardinality(Attached) \in Nat
  /\ IsFiniteSet(Connecting) /\ Cardinality(Connecting) \in Nat
  /\ IsFiniteSet(EmptySlots) /\ Cardinality(EmptySlots) \in Nat
<1>1. Attached \subseteq Contexts /\ Connecting \subseteq Contexts
  BY DEF Attached, Connecting
<1>2. IsFiniteSet(Slots)
  BY FS_Interval DEF Slots
<1>3. EmptySlots \subseteq Slots
  BY DEF EmptySlots
<1> QED BY <1>1, <1>2, <1>3, FS_Subset, FS_CardinalityType

(* Opening an attached context adds it to both sets of contexts.           *)
LEMMA OpenAttached ==
  ASSUME TypeOK, NEW c \in Contexts, pool_connect(c, TRUE)
  PROVE  /\ Cardinality(Attached') = Cardinality(Attached) + 1
         /\ Cardinality(Connecting') = Cardinality(Connecting) + 1
<1>1. c \notin Attached /\ c \notin Connecting
  BY DEF pool_connect, Attached, Connecting
<1>2. Attached' = Attached \cup {c}
  BY DEF pool_connect, Attached, TypeOK
<1>3. Connecting' = Connecting \cup {c}
  BY DEF pool_connect, Attached, Connecting, TypeOK
<1> QED BY <1>1, <1>2, <1>3, CountedSets, FS_AddElement

(* Opening a detached one, or failing to open one, leaves both alone.      *)
LEMMA OpenDetached ==
  ASSUME TypeOK,
         \/ \E c \in Contexts : pool_connect(c, FALSE)
         \/ UNCHANGED <<st, data>>
  PROVE  Attached' = Attached /\ Connecting' = Connecting
<1>1. ASSUME NEW c \in Contexts, pool_connect(c, FALSE)
      PROVE  Attached' = Attached /\ Connecting' = Connecting
  BY <1>1 DEF pool_connect, Attached, Connecting, TypeOK
<1>2. CASE UNCHANGED <<st, data>>
  BY <1>2 DEF Attached, Connecting
<1> QED BY <1>1, <1>2

(* At start-up the whole pool is outstanding.                              *)
LEMMA InitCountInv == Init => CountInv
<1> SUFFICES ASSUME Init PROVE CountInv
  OBVIOUS
<1>1. Attached = {} /\ Connecting = {}
  BY DEF Init, Attached, Connecting
<1>2. EmptySlots = 0 .. Count - 1
  BY DEF Init, EmptySlots, Slots
<1>3. Cardinality(EmptySlots) = Count
  BY <1>2, FS_Interval
<1> QED BY <1>1, <1>3, FS_EmptySet
        DEF Init, CountInv, ConnectionLedger, EmptySlotsAreReconnecting

(* Opening, retrying, losing and failing connections keeps both accounts.  *)
LEMMA StepCountInv == SlotInv /\ CountInv /\ [Next]_vars => CountInv'
<1> SUFFICES ASSUME SlotInv, CountInv, [Next]_vars PROVE CountInv'
  OBVIOUS
<1>t. /\ TypeOK /\ Cardinality(Attached) \in Nat
      /\ Cardinality(Connecting) \in Nat /\ Cardinality(EmptySlots) \in Nat
      /\ timers \in Nat /\ starting \in Nat /\ extra \in Nat
  BY CountedSets DEF SlotInv, TypeOK
<1>e. ASSUME UNCHANGED ac PROVE EmptySlots' = EmptySlots
  BY <1>e DEF EmptySlots
<1> USE DEF CountInv, ConnectionLedger, EmptySlotsAreReconnecting
<1>1. CASE worker_pool_connect
  <2>1. EmptySlots' = EmptySlots /\ extra' = extra /\ starting' = starting - 1
    BY <1>1, <1>e DEF worker_pool_connect
  <2>2. \/ (\E c \in Contexts : pool_connect(c, TRUE)) /\ timers' = timers
        \/ UNCHANGED <<st, data>> /\ timers' = timers + 1
    BY <1>1, Zenon DEF worker_pool_connect, pool_connect_error
  <2>3. ASSUME NEW c \in Contexts, pool_connect(c, TRUE), timers' = timers
        PROVE  CountInv'
    <3>1. /\ Cardinality(Attached') = Cardinality(Attached) + 1
          /\ Cardinality(Connecting') = Cardinality(Connecting) + 1
      BY <1>t, <2>3, OpenAttached
    <3> QED BY <1>t, <2>1, <2>3, <3>1
  <2>4. CASE UNCHANGED <<st, data>> /\ timers' = timers + 1
    <3>1. Attached' = Attached /\ Connecting' = Connecting
      BY <1>t, <2>4, OpenDetached
    <3> QED BY <1>t, <2>1, <2>4, <3>1
  <2> QED BY <2>2, <2>3, <2>4
<1>2. CASE pool_can_connect
  <2>1. EmptySlots' = EmptySlots /\ extra' = extra /\ starting' = starting
    BY <1>2, <1>e DEF pool_can_connect
  <2>2. \/ (\E c \in Contexts : pool_connect(c, TRUE)) /\ timers' = timers - 1
        \/ UNCHANGED <<st, data>> /\ timers' = timers - 1 + 1
    BY <1>2, Zenon DEF pool_can_connect, pool_connect_error
  <2>3. ASSUME NEW c \in Contexts, pool_connect(c, TRUE), timers' = timers - 1
        PROVE  CountInv'
    <3>1. /\ Cardinality(Attached') = Cardinality(Attached) + 1
          /\ Cardinality(Connecting') = Cardinality(Connecting) + 1
      BY <1>t, <2>3, OpenAttached
    <3> QED BY <1>t, <2>1, <2>3, <3>1
  <2>4. CASE UNCHANGED <<st, data>> /\ timers' = timers - 1 + 1
    <3>1. Attached' = Attached /\ Connecting' = Connecting
      BY <1>t, <2>4, OpenDetached
    <3> QED BY <1>t, <2>1, <2>4, <3>1
  <2> QED BY <2>2, <2>3, <2>4
<1>3. CASE connect_detached
  <2>1. EmptySlots' = EmptySlots /\ starting' = starting
    BY <1>3, <1>e DEF connect_detached
  <2>2. /\ (\E c \in Contexts : pool_connect(c, FALSE)) \/ UNCHANGED <<st, data>>
        /\ \/ timers' = timers /\ extra' = extra
           \/ timers' = timers + 1 /\ extra' = extra + 1
    BY <1>3, Zenon DEF connect_detached, pool_connect_error
  <2>3. Attached' = Attached /\ Connecting' = Connecting
    BY <1>t, <2>2, OpenDetached
  <2> QED BY <1>t, <2>1, <2>2, <2>3
<1>4. ASSUME NEW c \in Contexts, pool_on_connect(c) PROVE CountInv'
  <2>1. Attached' = Attached
    BY <1>4, <1>t DEF pool_on_connect, Attached, TypeOK
  <2>2. timers' = timers /\ starting' = starting /\ extra' = extra
    BY <1>4 DEF pool_on_connect
  <2>3. CASE ~data[c]
    <3>1. Connecting' = Connecting /\ EmptySlots' = EmptySlots
      BY <1>4, <1>t, <1>e, <2>3
         DEF pool_on_connect, Attached, Connecting, TypeOK
    <3> QED BY <2>1, <2>2, <3>1
  <2>4. CASE data[c]
    <3>1. c \in Connecting /\ Connecting' = Connecting \ {c}
      BY <1>4, <1>t, <2>4 DEF pool_on_connect, Attached, Connecting, TypeOK
    <3>2. Cardinality(Connecting') = Cardinality(Connecting) - 1
      BY <3>1, CountedSets, FS_RemoveElement
    <3>3. \/ \E i \in EmptySlots : ac' = [ac EXCEPT ![i] = c]
          \/ EmptySlots = {} /\ UNCHANGED ac
      BY <1>4, <2>4 DEF pool_on_connect, add_to_pool
    <3>4. CASE EmptySlots = {} /\ UNCHANGED ac
      <4>1. EmptySlots' = {}
        BY <3>4, <1>e
      <4>2. Cardinality(EmptySlots') = 0
        BY <4>1, FS_EmptySet
      <4>3. Cardinality(Connecting') \in Nat
        BY <3>1, CountedSets, FS_RemoveElement, FS_CardinalityType
      <4> QED BY <1>t, <2>1, <2>2, <4>2, <4>3
    <3>5. ASSUME NEW i \in EmptySlots, ac' = [ac EXCEPT ![i] = c]
          PROVE  CountInv'
      <4>1. EmptySlots' = EmptySlots \ {i}
        BY <3>5, <1>t DEF EmptySlots, TypeOK
      <4>2. Cardinality(EmptySlots') = Cardinality(EmptySlots) - 1
        BY <4>1, CountedSets, FS_RemoveElement
      <4> QED BY <1>t, <2>1, <2>2, <3>2, <4>2
    <3> QED BY <3>3, <3>4, <3>5
  <2> QED BY <2>3, <2>4
<1>5. ASSUME NEW c \in Contexts, pool_on_connect_error(c) PROVE CountInv'
  <2>1. EmptySlots' = EmptySlots /\ starting' = starting /\ extra' = extra
    BY <1>5, <1>e DEF pool_on_connect_error
  <2>2. CASE ~data[c]
    <3>1. Attached' = Attached /\ Connecting' = Connecting /\ timers' = timers
      BY <1>5, <1>t, <2>2
         DEF pool_on_connect_error, Attached, Connecting, TypeOK
    <3> QED BY <2>1, <3>1
  <2>3. CASE data[c]
    <3>1. /\ c \in Attached /\ Attached' = Attached \ {c}
          /\ c \in Connecting /\ Connecting' = Connecting \ {c}
      BY <1>5, <1>t, <2>3
         DEF pool_on_connect_error, Attached, Connecting, TypeOK
    <3>2. /\ Cardinality(Attached') = Cardinality(Attached) - 1
          /\ Cardinality(Connecting') = Cardinality(Connecting) - 1
      BY <3>1, CountedSets, FS_RemoveElement
    <3>3. timers' = timers + 1
      BY <1>5, <2>3 DEF pool_on_connect_error
    <3> QED BY <1>t, <2>1, <3>2, <3>3
  <2> QED BY <2>2, <2>3
<1>6. ASSUME NEW c \in Contexts, pool_on_disconnect(c) PROVE CountInv'
  <2>1. starting' = starting /\ extra' = extra
    BY <1>6 DEF pool_on_disconnect
  <2>2. Connecting' = Connecting
    BY <1>6, <1>t DEF pool_on_disconnect, Attached, Connecting, TypeOK
  <2>3. CASE ~data[c]
    <3>1. Attached' = Attached /\ timers' = timers /\ EmptySlots' = EmptySlots
      BY <1>6, <1>t, <1>e, <2>3 DEF pool_on_disconnect, Attached, TypeOK
    <3> QED BY <2>1, <2>2, <3>1
  <2>4. CASE data[c]
    <3>1. /\ c \in Attached /\ Attached' = Attached \ {c}
          /\ timers' = timers + 1
      BY <1>6, <1>t, <2>4 DEF pool_on_disconnect, Attached, TypeOK
    <3>2. Cardinality(Attached') = Cardinality(Attached) - 1
      BY <3>1, CountedSets, FS_RemoveElement
    <3>3. \/ \E i \in Slots : ac[i] = c /\ ac' = [ac EXCEPT ![i] = NULL]
          \/ UNCHANGED ac
      BY <1>6, <2>4 DEF pool_on_disconnect, remove_from_pool
    <3>4. \/ \E i \in Slots : EmptySlots' = EmptySlots \cup {i}
          \/ EmptySlots' = EmptySlots
      BY <3>3, <1>t, <1>e DEF EmptySlots, TypeOK
    <3>5. Cardinality(EmptySlots') \in {Cardinality(EmptySlots),
                                        Cardinality(EmptySlots) + 1}
      BY <3>4, CountedSets, FS_AddElement
    <3> QED BY <1>t, <2>1, <2>2, <3>1, <3>2, <3>5
  <2> QED BY <2>3, <2>4
<1>7. ASSUME NEW c \in Contexts,
             pool_free_context(c) \/ finish_closing(c) \/ LinkFails(c)
      PROVE  CountInv'
  <2>1. UNCHANGED <<ac, timers, starting, extra>>
    BY <1>7 DEF pool_free_context, finish_closing, LinkFails
  <2>2. CASE LinkFails(c)
    <3>1. Attached' = Attached /\ Connecting' = Connecting
      BY <2>2, <1>t DEF LinkFails, Attached, Connecting, TypeOK
    <3> QED BY <2>1, <1>e, <3>1
  <2>3. CASE pool_free_context(c) \/ finish_closing(c)
    <3>1. ~data[c]
      BY <2>3 DEF pool_free_context, finish_closing, Detached, SlotInv,
                  ClosingIsDetached
    <3>2. Attached' = Attached /\ Connecting' = Connecting
      BY <2>3, <3>1, <1>t
         DEF pool_free_context, finish_closing, Attached, Connecting, TypeOK
    <3> QED BY <2>1, <1>e, <3>2
  <2> QED BY <1>7, <2>2, <2>3
<1>8. CASE pool_get_context \/ RedisDown \/ RedisUp \/ UNCHANGED vars
  <2>1. UNCHANGED <<ac, st, data, timers, starting, extra>>
    BY <1>8 DEF pool_get_context, RedisDown, RedisUp, vars
  <2>2. Attached' = Attached /\ Connecting' = Connecting
    BY <2>1 DEF Attached, Connecting
  <2> QED BY <2>1, <2>2, <1>e
<1> QED BY <1>1, <1>2, <1>3, <1>4, <1>5, <1>6, <1>7, <1>8 DEF Next

(* Both accounts balance throughout.                                       *)
THEOREM CountInvariant == Spec => []CountInv
  BY InitSlotInv, StepSlotInv, InitCountInv, StepCountInv, PTL DEF Spec

(* The number of connections a pool owns or owes is pool_size plus the     *)
(* number of detached connects that failed at once, for ever.              *)
THEOREM LedgerBalances == Spec => []ConnectionLedger
<1>1. CountInv => ConnectionLedger BY DEF CountInv
<1> QED BY <1>1, CountInvariant, PTL

(* No empty slot is ever forgotten: each has a reconnection under way.     *)
THEOREM EmptySlotsReconnect == Spec => []EmptySlotsAreReconnecting
<1>1. CountInv => EmptySlotsAreReconnecting BY DEF CountInv
<1> QED BY <1>1, CountInvariant, PTL

-----------------------------------------------------------------------------
(* A slot changes only when its context connects or is lost.               *)
THEOREM SlotsChangeOnlyByCallback == Spec => SlotsChangeByCallback
<1> DEFINE Change ==
      \A i \in Slots : ac'[i] # ac[i] =>
        \/ /\ ac[i] = NULL
           /\ st[ac'[i]] = "connecting" /\ st'[ac'[i]] = "connected"
        \/ /\ ac'[i] = NULL
           /\ st[ac[i]] = "lost" /\ st'[ac[i]] = "none"
<1>1. SlotInv /\ [Next]_vars => [Change]_vars
  <2> SUFFICES ASSUME SlotInv, Next PROVE Change
    OBVIOUS
  <2>1. ASSUME NEW c \in Contexts, pool_on_connect(c) PROVE Change
    BY <2>1 DEF pool_on_connect, add_to_pool, EmptySlots, SlotInv, TypeOK
  <2>2. ASSUME NEW c \in Contexts, pool_on_disconnect(c) PROVE Change
    BY <2>2 DEF pool_on_disconnect, remove_from_pool, SlotInv, TypeOK
  <2>3. CASE UNCHANGED ac
    BY <2>3
  <2> QED BY <2>1, <2>2, <2>3 DEF Next, worker_pool_connect, pool_can_connect,
             connect_detached, pool_on_connect_error, pool_free_context,
             finish_closing, LinkFails, pool_get_context, RedisDown, RedisUp
<1> QED BY <1>1, SlotInvariant, PTL DEF Spec, SlotsChangeByCallback

-----------------------------------------------------------------------------
(* An index of the array, at most one lap on, wraps to the array.          *)
LEMMA WrapOnce ==
  \A x \in 0 .. 2 * Count - 1 : /\ x < Count => x % Count = x
                               /\ ~(x < Count) => x % Count = x - Count
<1> SUFFICES ASSUME NEW x \in 0 .. 2 * Count - 1
             PROVE  /\ x < Count => x % Count = x
                    /\ ~(x < Count) => x % Count = x - Count
  OBVIOUS
<1>1. CASE x < Count
  BY <1>1
<1>2. CASE ~(x < Count)
  BY <1>2
<1> QED BY <1>1, <1>2

(* The loop of pool_get_context visits every slot but the one after "orig" *)
(* which the increment before the loop steps over.                         *)
LEMMA ProbesCover ==
  ASSUME TypeOK, NEW i \in Slots, i # (cur + 1) % Count
  PROVE  \E k \in Passes : probe(k) = i
<1>t. cur \in 0 .. Count - 1 /\ i \in 0 .. Count - 1 /\ Count \in Nat \ {0}
  BY DEF TypeOK, Slots
<1>w. \A k \in 1 .. Count - 1 :
        /\ cur + 1 + k < Count => probe(k) = cur + 1 + k
        /\ ~(cur + 1 + k < Count) => probe(k) = cur + 1 + k - Count
  <2> SUFFICES ASSUME NEW k \in 1 .. Count - 1
        PROVE  /\ cur + 1 + k < Count => probe(k) = cur + 1 + k
               /\ ~(cur + 1 + k < Count) => probe(k) = cur + 1 + k - Count
    OBVIOUS
  <2>1. cur + 1 + k \in 0 .. 2 * Count - 1
    BY <1>t
  <2> QED BY <1>t, <2>1, WrapOnce DEF probe
<1>n. /\ cur + 1 < Count => (cur + 1) % Count = cur + 1
      /\ ~(cur + 1 < Count) => (cur + 1) % Count = cur + 1 - Count
  <2>1. cur + 1 \in 0 .. 2 * Count - 1
    BY <1>t
  <2> QED BY <1>t, <2>1, WrapOnce
<1>1. PICK k \in 1 .. Count - 1 : probe(k) = i
  <2>1. CASE i > cur + 1
    <3>1. i - cur - 1 \in 1 .. Count - 1
      BY <1>t, <2>1
    <3>2. probe(i - cur - 1) = i
      BY <1>t, <1>w, <2>1, <3>1
    <3> QED BY <3>1, <3>2
  <2>2. CASE i <= cur
    <3>1. i - cur - 1 + Count \in 1 .. Count - 1
      BY <1>t, <1>n, <2>2
    <3>2. probe(i - cur - 1 + Count) = i
      BY <1>t, <1>w, <2>2, <3>1
    <3> QED BY <3>1, <3>2
  <2> QED BY <1>t, <1>n, <2>1, <2>2
<1>2. \A j \in 1 .. k - 1 : probe(j) # cur
  BY <1>t, <1>w
<1> QED BY <1>1, <1>2 DEF Passes

(* A NULL of pool_get_context means at most one slot is connected.         *)
THEOREM NullIsNearlyEmpty == Spec => NullMeansAtMostOne
<1> DEFINE AtMostOne ==
      pool_get_context /\ got' = NULL =>
        \A i, j \in Slots : ac[i] # NULL /\ ac[j] # NULL => i = j
<1>1. SlotInv /\ [Next]_vars => [AtMostOne]_vars
  <2> SUFFICES ASSUME SlotInv, pool_get_context, got' = NULL,
                      NEW i \in Slots, NEW j \in Slots,
                      ac[i] # NULL, ac[j] # NULL
               PROVE  i = j
    OBVIOUS
  <2>1. \A k \in Passes : ac[probe(k)] = NULL
    BY DEF pool_get_context
  <2>2. i = (cur + 1) % Count /\ j = (cur + 1) % Count
    BY <2>1, ProbesCover DEF SlotInv
  <2> QED BY <2>2
<1> QED BY <1>1, SlotInvariant, PTL DEF Spec, NullMeansAtMostOne
=============================================================================
