------------------------------ MODULE DictMap ------------------------------
(***************************************************************************)
(* What the dictionary of hiredis promises: a map, and an iteration that   *)
(* gives every key once while its caller does no more than delete the key  *)
(* it was just given.  Memory may run out: an addition then does nothing.  *)
(***************************************************************************)
CONSTANTS Keys, Vals, NULL

VARIABLES
    map,      \* key -> value
    todo,     \* the keys the iteration has still to give; NULL: no iteration
    given,    \* the key it gave last, if it is still there
    ret       \* what the last call returned

mvars == <<map, todo, given, ret>>

With(k, v) == [x \in DOMAIN map \cup {k} |-> IF x = k THEN v ELSE map[x]]
Without(k) == [x \in DOMAIN map \ {k} |-> map[x]]

MapInit ==
    /\ map = [x \in {} |-> x]
    /\ todo = NULL
    /\ given = NULL
    /\ ret = "none"

Add(k, v) ==
    /\ todo = NULL
    /\ \/ k \notin DOMAIN map /\ map' = With(k, v) /\ ret' = "ok"
       \/ map' = map /\ ret' = "err"
    /\ UNCHANGED <<todo, given>>

\* The result tells a new key from an old one, or from a lack of memory.
Replace(k, v) ==
    /\ todo = NULL
    /\ \/ map' = With(k, v) /\ ret' = IF k \in DOMAIN map THEN "0" ELSE "1"
       \/ k \notin DOMAIN map /\ map' = map /\ ret' = "0"
    /\ UNCHANGED <<todo, given>>

Delete(k) ==
    /\ todo = NULL \/ k = given
    /\ map' = Without(k)
    /\ given' = IF k = given THEN NULL ELSE given
    /\ ret' = IF k \in DOMAIN map THEN "ok" ELSE "err"
    /\ UNCHANGED todo

Find(k) ==
    /\ ret' = IF k \in DOMAIN map THEN map[k] ELSE NULL
    /\ UNCHANGED <<map, todo, given>>

Clear ==
    /\ todo = NULL
    /\ map' = [x \in {} |-> x]
    /\ ret' = "ok"
    /\ UNCHANGED <<todo, given>>

Iterate ==
    /\ todo = NULL
    /\ \/ todo' = DOMAIN map /\ ret' = "none"
       \/ todo' = NULL /\ ret' = NULL
    /\ UNCHANGED <<map, given>>

Give ==
    /\ todo # NULL
    /\ \/ \E k \in todo : todo' = todo \ {k} /\ given' = k /\ ret' = k
       \/ todo = {} /\ given' = NULL /\ ret' = NULL /\ todo' = {}
    /\ UNCHANGED map

Stop ==
    /\ todo # NULL
    /\ todo' = NULL
    /\ given' = NULL
    /\ ret' = "none"
    /\ UNCHANGED map

MapNext ==
    \/ \E k \in Keys, v \in Vals : Add(k, v) \/ Replace(k, v)
    \/ \E k \in Keys : Delete(k) \/ Find(k)
    \/ Clear \/ Iterate \/ Give \/ Stop

MapSpec == MapInit /\ [][MapNext]_mvars
=============================================================================
