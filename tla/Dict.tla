-------------------------------- MODULE Dict --------------------------------
(***************************************************************************)
(* The hash table of hiredis (dict.c), in which an asynchronous context    *)
(* keeps the callbacks of its subscriptions.  A bucket is a chain of       *)
(* entries; the table doubles when it holds as many entries as buckets.    *)
(* Allocations may fail.                                                   *)
(*                                                                         *)
(* An entry is named by its key, so a pointer to an entry is a key or      *)
(* NULL.                                                                   *)
(***************************************************************************)
EXTENDS Integers, Sequences, SequencesExt, FiniteSets

CONSTANTS
    Keys, Vals, NULL,
    Hash,             \* type->hashFunction: key -> number
    INITIAL_SIZE      \* DICT_HT_INITIAL_SIZE, 4 in the code

ASSUME DictAssumption ==
    /\ Hash \in [Keys -> Nat]
    /\ INITIAL_SIZE \in Nat
    /\ \E i \in 0..INITIAL_SIZE : INITIAL_SIZE = 2^i   \* so & sizemask is a remainder
    /\ NULL \notin Keys /\ NULL \notin Vals /\ \A S \in SUBSET Keys : NULL # S

VARIABLES
    ht,       \* the dict: table (a sequence of chains, bucket i at i + 1), used
    iter,     \* the iterator: on, index, entry and nextEntry
    ret       \* what the last call returned

dvars == <<ht, iter, ret>>

Entry(k, v) == [key |-> k, val |-> v]
Size(d) == Len(d.table)
NoIterator == [on |-> FALSE, index |-> -1, entry |-> NULL, nextEntry |-> NULL]

_dictReset == [table |-> <<>>, used |-> 0]

\* dictHashKey(ht, key) & sizemask, as a position in the sequence.
Bucket(table, k) == (Hash[k] % Len(table)) + 1

_dictNextPower(size) ==
    LET powers == {INITIAL_SIZE * 2^i : i \in 0..size}
    IN  CHOOSE n \in powers : n >= size /\ \A m \in powers : m >= size => n <= m

\* Mutant: the entries keep their buckets.
ExpandKeepsBuckets(d, size) ==
    [d EXCEPT !.table = [i \in 1..size |-> IF i \in DOMAIN d.table THEN d.table[i] ELSE <<>>]]

\* One turn of the loops of dictExpand: the first entry of the first chain
\* that has any is put at the front of its chain in the new table.
MoveEntry(t) ==
    LET full == {i \in DOMAIN t.old : t.old[i] # <<>>}
        first == CHOOSE i \in full : \A j \in full : i <= j
        he == Head(t.old[first])
    IN  IF full = {} THEN t
        ELSE [old |-> [t.old EXCEPT ![first] = Tail(@)],
              new |-> [t.new EXCEPT ![Bucket(t.new, he.key)] = <<he>> \o @]]

\* A larger table, to which the entries of the old one are moved.
dictExpand(d, size) ==
    LET realsize == _dictNextPower(size)
        moved[n \in 0..d.used] ==
          IF n = 0 THEN [old |-> d.table, new |-> [i \in 1..realsize |-> <<>>]]
          ELSE MoveEntry(moved[n - 1])
    IN  [d EXCEPT !.table = moved[d.used].new]

NeedsExpand(d) == Size(d) = 0 \/ d.used = Size(d)

_dictExpandIfNeeded(d) ==
    CASE Size(d) = 0 -> dictExpand(d, INITIAL_SIZE)
      [] Size(d) # 0 /\ d.used = Size(d) -> dictExpand(d, 2 * Size(d))
      [] OTHER -> d

\* The value stored for k, NULL when there is none.
InChain(chain, k) == {i \in DOMAIN chain : chain[i].key = k}

dictFind(d, k) ==
    IF Size(d) = 0 \/ InChain(d.table[Bucket(d.table, k)], k) = {} THEN NULL
    ELSE LET chain == d.table[Bucket(d.table, k)]
         IN  chain[CHOOSE i \in InChain(chain, k) : TRUE].val

\* The table and the result of an addition; memory is "enough", or too little
\* for a new table ("table") or for the new entry ("entry").
dictAdd(d, k, v, memory) ==
    LET expanded == _dictExpandIfNeeded(d)
        b == Bucket(expanded.table, k)
    IN  CASE NeedsExpand(d) /\ memory = "table" -> [ht |-> d, ret |-> "err"]
          [] ~(NeedsExpand(d) /\ memory = "table") ->
               IF InChain(expanded.table[b], k) # {} \/ memory = "entry"
               THEN [ht |-> expanded, ret |-> "err"]
               ELSE [ht |-> [table |-> [expanded.table EXCEPT ![b] = <<Entry(k, v)>> \o @],
                             used |-> expanded.used + 1],
                     ret |-> "ok"]

\* The value of an entry that is there is overwritten.
SetVal(d, k, v) ==
    LET b == Bucket(d.table, k)
        i == CHOOSE i \in InChain(d.table[b], k) : TRUE
    IN  [table |-> [d.table EXCEPT ![b][i].val = v], used |-> d.used]

\* Unlinks the entry of k from its chain.
Unlink(d, k) ==
    LET b == Bucket(d.table, k)
        i == CHOOSE i \in InChain(d.table[b], k) : TRUE
    IN  [table |-> [d.table EXCEPT ![b] = RemoveAt(@, i)], used |-> d.used - 1]

-----------------------------------------------------------------------------
Init ==
    /\ ht = _dictReset
    /\ iter = NoIterator
    /\ ret = "none"

Memory == {"enough", "table", "entry"}

Add(k, v) ==
    /\ ~iter.on
    /\ \E memory \in Memory : \E added \in {dictAdd(ht, k, v, memory)} :
         ht' = added.ht /\ ret' = added.ret
    /\ UNCHANGED iter

\* An addition that fails is followed by a look-up: the entry is there, or
\* memory was short.
dictReplace(k, v) ==
    /\ ~iter.on
    /\ \E memory \in Memory : \E added \in {dictAdd(ht, k, v, memory)} :
         \/ added.ret = "ok" /\ ht' = added.ht /\ ret' = "1"
         \/ added.ret = "err" /\ dictFind(added.ht, k) = NULL /\ ht' = added.ht /\ ret' = "0"
         \/ added.ret = "err" /\ dictFind(added.ht, k) # NULL /\ ret' = "0"
              /\ ht' = SetVal(added.ht, k, v)
    /\ UNCHANGED iter

\* While an iterator is in use its user may delete the entry it was given.
dictDelete(k) ==
    /\ iter.on => k = iter.entry /\ dictFind(ht, k) # NULL
    /\ \/ /\ dictFind(ht, k) = NULL
          /\ ret' = "err" /\ UNCHANGED ht
       \/ /\ dictFind(ht, k) # NULL
          /\ ret' = "ok" /\ ht' = Unlink(ht, k)
    /\ UNCHANGED iter

Find(k) == ret' = dictFind(ht, k) /\ UNCHANGED <<ht, iter>>

_dictClear == ~iter.on /\ ht' = _dictReset /\ ret' = "ok" /\ UNCHANGED iter

dictGetIterator ==
    /\ ~iter.on
    /\ \/ iter' = [NoIterator EXCEPT !.on = TRUE] /\ ret' = "none"
       \/ ret' = NULL /\ UNCHANGED iter
    /\ UNCHANGED ht

\* The entry after the one of k in its chain.
NextInChain(chain, k) ==
    LET i == CHOOSE i \in DOMAIN chain : chain[i].key = k
    IN  IF i < Len(chain) THEN chain[i + 1].key ELSE NULL

\* Mutant: the entry after the one given is looked for when it is needed.
NextFromEntry(d, it) ==
    LET later == {i \in 0..(Size(d) - 1) : i > it.index /\ d.table[i + 1] # <<>>}
        index == CHOOSE i \in later : \A j \in later : i <= j
        chain == IF it.index = -1 THEN <<>> ELSE d.table[it.index + 1]
        next == IF it.entry = NULL \/ InChain(chain, it.entry) = {} THEN NULL
                ELSE NextInChain(chain, it.entry)
    IN  CASE next # NULL -> [it EXCEPT !.entry = next]
          [] next = NULL /\ later # {} ->
               [it EXCEPT !.index = index, !.entry = d.table[index + 1][1].key]
          [] OTHER -> [it EXCEPT !.index = Size(d), !.entry = NULL]

\* The iterator after one step: the next entry of the chain, saved when the
\* last one was given, or the first one of the next chain that has any.
IteratorStep(d, it) ==
    LET later == {i \in 0..(Size(d) - 1) : i > it.index /\ d.table[i + 1] # <<>>}
        index == IF it.nextEntry # NULL THEN it.index
                 ELSE CHOOSE i \in later : \A j \in later : i <= j
        chain == d.table[index + 1]
        entry == IF it.nextEntry # NULL THEN it.nextEntry ELSE chain[1].key
    IN  IF it.nextEntry = NULL /\ later = {}
        THEN [it EXCEPT !.index = Size(d), !.entry = NULL]
        ELSE [it EXCEPT !.index = index, !.entry = entry, !.nextEntry = NextInChain(chain, entry)]

dictNext ==
    /\ iter.on
    /\ iter' = IteratorStep(ht, iter)
    /\ ret' = iter'.entry
    /\ UNCHANGED ht

dictReleaseIterator == iter.on /\ iter' = NoIterator /\ ret' = "none" /\ UNCHANGED ht

Next ==
    \/ \E k \in Keys, v \in Vals : Add(k, v) \/ dictReplace(k, v)
    \/ \E k \in Keys : dictDelete(k) \/ Find(k)
    \/ _dictClear \/ dictGetIterator \/ dictNext \/ dictReleaseIterator

Spec == Init /\ [][Next]_dvars

-----------------------------------------------------------------------------
(***************************************************************************)
(* Properties.                                                             *)
(***************************************************************************)
KeysOf(chain) == {chain[i].key : i \in DOMAIN chain}
AllKeys == UNION {KeysOf(ht.table[b]) : b \in DOMAIN ht.table}

\* The table is sound: used counts its entries, its size is a power of two
\* times the first one, there are never more entries than buckets (the code
\* doubles in time), every entry is in the bucket of its hash and no key is
\* there twice; the iterator's saved pointer is to an entry that is still in
\* its chain (dictNext: "the iterator user may delete the entry we are
\* returning").
TableIsSound ==
    /\ \A b \in DOMAIN ht.table : \A i \in DOMAIN ht.table[b] :
         /\ ht.table[b][i].key \in Keys /\ ht.table[b][i].val \in Vals
         /\ Bucket(ht.table, ht.table[b][i].key) = b
         /\ \A j \in DOMAIN ht.table[b] : ht.table[b][i].key = ht.table[b][j].key => i = j
    /\ ht.used = Cardinality(AllKeys)
    /\ ht.used <= Size(ht)
    /\ Size(ht) # 0 => \E i \in 0..Size(ht) : Size(ht) = INITIAL_SIZE * 2^i
    /\ iter.nextEntry # NULL => iter.nextEntry \in KeysOf(ht.table[iter.index + 1])

\* The keys an iteration has still to give: the rest of the chain from the
\* saved pointer on, and the chains behind it.
Rest ==
    LET chain == ht.table[iter.index + 1]
        at == CHOOSE i \in DOMAIN chain : chain[i].key = iter.nextEntry
        ofChain == IF iter.nextEntry = NULL THEN {} ELSE {chain[i].key : i \in at..Len(chain)}
    IN  ofChain \union UNION {KeysOf(ht.table[b]) : b \in {x \in DOMAIN ht.table : x > iter.index + 1}}

Map == INSTANCE DictMap WITH
    map <- [k \in AllKeys |-> dictFind(ht, k)],
    todo <- IF iter.on THEN Rest ELSE NULL,
    given <- IF iter.entry \in AllKeys THEN iter.entry ELSE NULL

\* The hash table implements the map: growing never loses, doubles or hides an
\* entry, deleting unlinks the one entry, a failed allocation changes nothing
\* a caller can see, and an iteration gives every key once although entries
\* are deleted on the way.
ImplementsMap == Map!MapSpec
=============================================================================
