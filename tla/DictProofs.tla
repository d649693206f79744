----------------------------- MODULE DictProofs -----------------------------
(* The dictionary of hiredis is the map it is meant to be, for every hash  *)
(* function, every number of keys and every failure of an allocation.      *)
EXTENDS Dict, FiniteSetTheorems, SequenceTheorems, Induction, TLAPS

-----------------------------------------------------------------------------
(* Powers of two.                                                          *)

(* The provers know nothing of 2^n; it counts the subsets of 1..n.         *)
LEMMA PowerOfTwo ==
  ASSUME NEW n \in Nat
  PROVE  2^n \in Nat /\ 2^(n + 1) = 2 * 2^n
<1> DEFINE A == SUBSET (1..n)
           B == {T \cup {n + 1} : T \in A}
           f == [T \in A |-> T \cup {n + 1}]
<1>1. IsFiniteSet(1..n) /\ Cardinality(1..n) = n
      /\ IsFiniteSet(1..(n + 1)) /\ Cardinality(1..(n + 1)) = n + 1
  BY FS_Interval
<1>2. IsFiniteSet(A) /\ Cardinality(A) = 2^n /\ 2^n \in Nat
  BY <1>1, FS_SUBSET, FS_CardinalityType
<1>3. Cardinality(SUBSET (1..(n + 1))) = 2^(n + 1)
  BY <1>1, FS_SUBSET
<1>4. A \cap B = {}
  OBVIOUS
<1>5. SUBSET (1..(n + 1)) = A \cup B
  <2>1. ASSUME NEW T \in SUBSET (1..(n + 1)), n + 1 \in T PROVE T \in B
    <3>1. T \ {n + 1} \in A
      OBVIOUS
    <3>2. T = (T \ {n + 1}) \cup {n + 1}
      BY <2>1
    <3> QED BY <3>1, <3>2
  <2>2. ASSUME NEW T \in SUBSET (1..(n + 1)), n + 1 \notin T PROVE T \in A
    BY <2>2
  <2>3. A \cup B \subseteq SUBSET (1..(n + 1))
    <3>1. 1..n \subseteq 1..(n + 1) /\ n + 1 \in 1..(n + 1)
      OBVIOUS
    <3> QED BY <3>1
  <2> QED BY <2>1, <2>2, <2>3
<1>6. IsFiniteSet(B) /\ Cardinality(B) = Cardinality(A)
  <2>1. f \in [A -> B] /\ \A T \in A : f[T] = T \cup {n + 1}
    OBVIOUS
  <2>2. ASSUME NEW S \in A, NEW T \in A, S \cup {n + 1} = T \cup {n + 1} PROVE S = T
    <3>1. n + 1 \notin S /\ n + 1 \notin T
      OBVIOUS
    <3> QED BY <2>2, <3>1
  <2>3. f \in Bijection(A, B)
    <3> HIDE DEF f
    <3>1. \A t \in B : \E s \in A : f[s] = t
      BY <2>1
    <3>2. \A S, T \in A : f[S] = f[T] => S = T
      BY <2>1, <2>2
    <3> HIDE DEF A, B
    <3> QED BY <2>1, <3>1, <3>2, Zenon DEF Bijection, Injection, Surjection, IsInjective
  <2> HIDE DEF A, B, f
  <2> QED BY <1>2, <2>3, FS_Bijection DEF ExistsBijection
<1> HIDE DEF A, B
<1>7. Cardinality(A \cup B) = Cardinality(A) + Cardinality(B) - Cardinality(A \cap B)
  BY <1>2, <1>6, FS_Union
<1>8. Cardinality(A \cap B) = 0
  BY <1>4, FS_EmptySet
<1>9. 2^(n + 1) = Cardinality(A) + Cardinality(A)
  <2>1. Cardinality(A \cup B) = 2^(n + 1)
    BY <1>3, <1>5
  <2>2. PICK c \in Nat : c = Cardinality(A)
    BY <1>2
  <2> QED BY <1>6, <1>7, <1>8, <2>1, <2>2
<1> QED BY <1>2, <1>9

(* A size the table may have.                                              *)
IsSize(n) == n \in Nat /\ n > 0 /\ \E i \in 0..n : n = INITIAL_SIZE * 2^i

(* A power of two is positive.                                             *)
LEMMA InitialSize == INITIAL_SIZE \in Nat /\ INITIAL_SIZE > 0 /\ IsSize(INITIAL_SIZE)
<1>1. PICK i \in 0..INITIAL_SIZE : INITIAL_SIZE = 2^i
  BY DictAssumption
<1>2. INITIAL_SIZE \in Nat /\ 2^0 = 1
  BY DictAssumption
<1>3. INITIAL_SIZE > 0
  <2> SUFFICES ASSUME INITIAL_SIZE = 0 PROVE FALSE
    BY <1>2
  <2>1. i = 0
    BY <1>1
  <2> QED BY <1>1, <1>2, <2>1
<1>4. INITIAL_SIZE = INITIAL_SIZE * 2^0 /\ 0 \in 0..INITIAL_SIZE
  BY <1>2
<1> QED BY <1>2, <1>3, <1>4 DEF IsSize

(* The table doubles from one such size to the next.                       *)
LEMMA Doubles ==
  ASSUME NEW n, IsSize(n) PROVE IsSize(2 * n)
<1>1. PICK i \in 0..n : n = INITIAL_SIZE * 2^i
  BY DEF IsSize
<1>2. 2^i \in Nat /\ 2^(i + 1) = 2 * 2^i
  BY <1>1, PowerOfTwo DEF IsSize
<1>3. 2 * n = INITIAL_SIZE * 2^(i + 1)
  <2>1. PICK p \in Nat : p = 2^i
    BY <1>2
  <2>2. 2 * (INITIAL_SIZE * p) = INITIAL_SIZE * (2 * p)
    BY InitialSize
  <2> QED BY <1>1, <1>2, <2>1, <2>2
<1>4. i + 1 \in 0..(2 * n)
  BY <1>1 DEF IsSize
<1> QED BY <1>3, <1>4 DEF IsSize

(* _dictNextPower leaves such a size as it is.                             *)
LEMMA NextPower ==
  ASSUME NEW n, IsSize(n) PROVE _dictNextPower(n) = n
<1> DEFINE powers == {INITIAL_SIZE * 2^i : i \in 0..n}
<1>1. n \in powers /\ n \in Nat
  BY DEF IsSize
<1>2. \A m \in powers : m \in Nat
  BY InitialSize, PowerOfTwo DEF IsSize
<1> HIDE DEF powers
<1>3. ASSUME NEW x \in powers, x >= n /\ \A m \in powers : m >= n => x <= m PROVE x = n
  BY <1>1, <1>2, <1>3
<1>4. n \in powers /\ n >= n /\ \A m \in powers : m >= n => n <= m
  BY <1>1, <1>2
<1>5. _dictNextPower(n) = CHOOSE x \in powers : x >= n /\ \A m \in powers : m >= n => x <= m
  BY Zenon DEF _dictNextPower, powers
<1> QED BY <1>3, <1>4, <1>5

-----------------------------------------------------------------------------
(* Tables: what they store, and what the operations do to them.            *)

Entries == [key : Keys, val : Vals]
Tables == Seq(Seq(Entries))

(* e is at position i of chain b.                                          *)
Stored(T) == {e \in Entries : \E b \in DOMAIN T : \E i \in DOMAIN T[b] : T[b][i] = e}
KeysIn(T) == {e.key : e \in Stored(T)}

(* No key is in the table twice.                                           *)
Distinct(T) ==
  \A b, c \in DOMAIN T : \A i \in DOMAIN T[b], j \in DOMAIN T[c] :
    T[b][i].key = T[c][j].key => b = c /\ i = j

(* Every entry is in the chain of its hash.                                *)
Hashed(T) == \A b \in DOMAIN T : \A i \in DOMAIN T[b] : Bucket(T, T[b][i].key) = b

(* U is T with e in front of chain b.                                      *)
Prepends(T, U, b, e) ==
  /\ U \in Tables /\ Len(U) = Len(T)
  /\ \A c \in 1..Len(T) : c # b => U[c] = T[c]
  /\ Len(U[b]) = Len(T[b]) + 1
  /\ \A j \in 1..Len(U[b]) : U[b][j] = IF j = 1 THEN e ELSE T[b][j - 1]

(* U is T without the entry at position i of chain b.                      *)
Drops(T, U, b, i) ==
  /\ U \in Tables /\ Len(U) = Len(T)
  /\ \A c \in 1..Len(T) : c # b => U[c] = T[c]
  /\ Len(U[b]) = Len(T[b]) - 1
  /\ \A j \in 1..Len(U[b]) : U[b][j] = IF j < i THEN T[b][j] ELSE T[b][j + 1]

(* U is T with another value in the entry at position i of chain b.        *)
Updates(T, U, b, i, v) ==
  /\ U \in Tables /\ Len(U) = Len(T)
  /\ \A c \in 1..Len(T) : c # b => U[c] = T[c]
  /\ Len(U[b]) = Len(T[b])
  /\ \A j \in 1..Len(U[b]) : U[b][j] = IF j = i THEN Entry(T[b][i].key, v) ELSE T[b][j]

(* What is in a table, by position.                                        *)
LEMMA Positions ==
  ASSUME NEW T \in Tables
  PROVE  /\ Len(T) \in Nat /\ DOMAIN T = 1..Len(T)
         /\ \A b \in 1..Len(T) : /\ T[b] \in Seq(Entries) /\ Len(T[b]) \in Nat
                                 /\ DOMAIN T[b] = 1..Len(T[b])
                                 /\ \A i \in 1..Len(T[b]) : /\ T[b][i] \in Entries
                                                            /\ T[b][i].key \in Keys
                                                            /\ T[b][i].val \in Vals
<1>1. \A b \in 1..Len(T) : T[b] \in Seq(Entries)
  BY DEF Tables
<1>2. Len(T) \in Nat /\ DOMAIN T = 1..Len(T)
  BY DEF Tables
<1> SUFFICES ASSUME NEW b \in 1..Len(T)
             PROVE  /\ T[b] \in Seq(Entries) /\ Len(T[b]) \in Nat
                    /\ DOMAIN T[b] = 1..Len(T[b])
                    /\ \A i \in 1..Len(T[b]) : /\ T[b][i] \in Entries
                                               /\ T[b][i].key \in Keys
                                               /\ T[b][i].val \in Vals
  BY <1>2
<1>3. PICK s \in Seq(Entries) : s = T[b]
  BY <1>1
<1>4. \A i \in 1..Len(s) : s[i] \in Entries
  BY <1>3
<1>5. \A i \in 1..Len(s) : s[i].key \in Keys /\ s[i].val \in Vals
  BY <1>4 DEF Entries
<1> QED BY <1>3, <1>4, <1>5

(* The set of what is stored, by position.                                 *)
LEMMA StoredIs ==
  ASSUME NEW T \in Tables
  PROVE  /\ \A b \in 1..Len(T) : \A i \in 1..Len(T[b]) : T[b][i] \in Stored(T)
         /\ \A e \in Stored(T) : e \in Entries /\ \E b \in 1..Len(T) : \E i \in 1..Len(T[b]) : T[b][i] = e
         /\ \A b \in 1..Len(T) : \A i \in 1..Len(T[b]) : T[b][i].key \in KeysIn(T)
         /\ \A k \in KeysIn(T) : k \in Keys /\ \E b \in 1..Len(T) : \E i \in 1..Len(T[b]) : T[b][i].key = k
<1>1. \A b \in 1..Len(T) : \A i \in 1..Len(T[b]) : T[b][i] \in Stored(T)
  BY Positions DEF Stored
<1>2. \A e \in Stored(T) : e \in Entries /\ \E b \in 1..Len(T) : \E i \in 1..Len(T[b]) : T[b][i] = e
  BY Positions DEF Stored
<1>3. \A k \in KeysIn(T) : k \in Keys /\ \E b \in 1..Len(T) : \E i \in 1..Len(T[b]) : T[b][i].key = k
  <2> SUFFICES ASSUME NEW k \in KeysIn(T)
               PROVE  k \in Keys /\ \E b \in 1..Len(T) : \E i \in 1..Len(T[b]) : T[b][i].key = k
    OBVIOUS
  <2>1. PICK e \in Stored(T) : e.key = k
    BY DEF KeysIn
  <2>2. PICK b \in 1..Len(T) : \E i \in 1..Len(T[b]) : T[b][i] = e
    BY <1>2
  <2> QED BY <2>1, <2>2, Positions
<1>4. \A b \in 1..Len(T) : \A i \in 1..Len(T[b]) : T[b][i].key \in KeysIn(T)
  BY <1>1, Zenon DEF KeysIn
<1> QED BY <1>1, <1>2, <1>3, <1>4

(* No key twice, by position.                                              *)
LEMMA DistinctIs ==
  ASSUME NEW T \in Tables
  PROVE  Distinct(T) <=> \A b, c \in 1..Len(T) : \A i \in 1..Len(T[b]), j \in 1..Len(T[c]) :
                           T[b][i].key = T[c][j].key => b = c /\ i = j
<1>1. DOMAIN T = 1..Len(T) /\ \A b \in 1..Len(T) : DOMAIN T[b] = 1..Len(T[b])
  BY Positions
<1>2. ASSUME Distinct(T), NEW b \in 1..Len(T), NEW c \in 1..Len(T),
             NEW i \in 1..Len(T[b]), NEW j \in 1..Len(T[c]), T[b][i].key = T[c][j].key
      PROVE  b = c /\ i = j
  <2>1. b \in DOMAIN T /\ c \in DOMAIN T /\ i \in DOMAIN T[b] /\ j \in DOMAIN T[c]
    BY <1>1
  <2> QED BY <1>2, <2>1, Zenon DEF Distinct
<1>3. ASSUME \A b, c \in 1..Len(T) : \A i \in 1..Len(T[b]), j \in 1..Len(T[c]) :
               T[b][i].key = T[c][j].key => b = c /\ i = j
      PROVE  Distinct(T)
  <2> SUFFICES ASSUME NEW b \in DOMAIN T, NEW c \in DOMAIN T, NEW i \in DOMAIN T[b],
                      NEW j \in DOMAIN T[c], T[b][i].key = T[c][j].key
               PROVE  b = c /\ i = j
    BY Zenon DEF Distinct
  <2>1. b \in 1..Len(T) /\ c \in 1..Len(T) /\ i \in 1..Len(T[b]) /\ j \in 1..Len(T[c])
    BY <1>1
  <2> QED BY <1>3, <2>1, Zenon
<1> QED BY <1>2, <1>3, Zenon

(* Every entry in its chain, by position.                                  *)
LEMMA HashedIs ==
  ASSUME NEW T \in Tables
  PROVE  Hashed(T) <=> \A b \in 1..Len(T) : \A i \in 1..Len(T[b]) : Bucket(T, T[b][i].key) = b
  BY Positions DEF Hashed

(* The chain of a key is one of the table's.                               *)
LEMMA BucketIn ==
  ASSUME NEW T \in Tables, Len(T) > 0, NEW k \in Keys
  PROVE  Bucket(T, k) \in 1..Len(T)
<1>1. Hash[k] \in Nat /\ Len(T) \in Nat
  BY DictAssumption, Positions
<1> QED BY <1>1 DEF Bucket

(* In tables of the same size a key has the same chain.                    *)
LEMMA BucketSame ==
  ASSUME NEW T, NEW U, Len(T) = Len(U), NEW k
  PROVE  Bucket(T, k) = Bucket(U, k)
  BY DEF Bucket

(* An entry is added in front of its chain.                                *)
LEMMA Prepended ==
  ASSUME NEW T \in Tables, NEW b \in 1..Len(T), NEW e \in Entries
  PROVE  Prepends(T, [T EXCEPT ![b] = <<e>> \o @], b, e)
<1>1. PICK s \in Seq(Entries) : s = T[b]
  BY Positions
<1>2. PICK t \in Seq(Entries) : t = <<e>> \o s
  <2>1. <<e>> \in Seq(Entries)
    OBVIOUS
  <2>2. <<e>> \o s \in Seq(Entries)
    BY <2>1
  <2> QED BY <2>2
<1>3. Len(t) = Len(s) + 1 /\ \A j \in 1..Len(t) : t[j] = IF j = 1 THEN e ELSE s[j - 1]
  BY <1>2
<1> DEFINE U == [T EXCEPT ![b] = t]
<1>4. U \in Tables /\ Len(U) = Len(T) /\ U[b] = t /\ \A c \in 1..Len(T) : c # b => U[c] = T[c]
  BY DEF Tables
<1>5. U = [T EXCEPT ![b] = <<e>> \o @]
  BY <1>1, <1>2
<1> HIDE DEF U
<1> QED BY <1>1, <1>3, <1>4, <1>5 DEF Prepends

(* What that does to the table.                                            *)
LEMMA PrependKeeps ==
  ASSUME NEW T \in Tables, NEW b \in 1..Len(T), NEW e \in Entries,
         NEW U, Prepends(T, U, b, e)
  PROVE  /\ Stored(U) = Stored(T) \cup {e}
         /\ Distinct(T) /\ e.key \notin KeysIn(T) => Distinct(U)
         /\ Hashed(T) /\ Bucket(T, e.key) = b => Hashed(U)
<1> USE DEF Prepends
<1>0. U \in Tables /\ Len(U) = Len(T) /\ Len(T) \in Nat /\ Len(T[b]) \in Nat
  BY Positions
<1>1. U[b][1] = e /\ \A i \in 1..Len(T[b]) : i + 1 \in 1..Len(U[b]) /\ U[b][i + 1] = T[b][i]
  BY <1>0
<1>2. \A c \in 1..Len(U) : \A j \in 1..Len(U[c]) :
        \/ c = b /\ j = 1 /\ U[c][j] = e
        \/ c = b /\ \E m \in 1..Len(T[c]) : j = m + 1 /\ U[c][j] = T[c][m]
        \/ c # b /\ j \in 1..Len(T[c]) /\ U[c][j] = T[c][j]
  <2> SUFFICES ASSUME NEW c \in 1..Len(U), NEW j \in 1..Len(U[c]), c = b, j # 1
               PROVE  \E m \in 1..Len(T[c]) : j = m + 1 /\ U[c][j] = T[c][m]
    BY <1>0
  <2>1. j - 1 \in 1..Len(T[c]) /\ j = (j - 1) + 1 /\ U[c][j] = T[c][j - 1]
    BY <1>0
  <2> QED BY <2>1
<1>3. Stored(U) \subseteq Stored(T) \cup {e}
  <2> SUFFICES ASSUME NEW x \in Stored(U) PROVE x \in Stored(T) \cup {e}
    OBVIOUS
  <2>1. PICK c \in 1..Len(U) : \E j \in 1..Len(U[c]) : U[c][j] = x
    BY <1>0, StoredIs
  <2>2. PICK j \in 1..Len(U[c]) : U[c][j] = x
    BY <2>1
  <2>3. CASE c = b /\ j = 1 /\ U[c][j] = e
    BY <2>2, <2>3
  <2>4. CASE \E m \in 1..Len(T[c]) : U[c][j] = T[c][m]
    BY <1>0, <2>2, <2>4, StoredIs
  <2> QED BY <1>2, <2>3, <2>4
<1>4. Stored(T) \cup {e} \subseteq Stored(U)
  <2>1. e \in Stored(U)
    <3>1. 1 \in 1..Len(U[b]) /\ b \in 1..Len(U)
      BY <1>0
    <3> QED BY <1>0, <1>1, <3>1, StoredIs
  <2>2. ASSUME NEW x \in Stored(T) PROVE x \in Stored(U)
    <3>1. PICK c \in 1..Len(T) : \E j \in 1..Len(T[c]) : T[c][j] = x
      BY StoredIs
    <3>2. PICK j \in 1..Len(T[c]) : T[c][j] = x
      BY <3>1
    <3>3. CASE c = b
      BY <1>0, <1>1, <3>2, <3>3, StoredIs
    <3>4. CASE c # b
      BY <1>0, <3>2, <3>4, StoredIs
    <3> QED BY <3>3, <3>4
  <2> QED BY <2>1, <2>2
<1>5. ASSUME Distinct(T), e.key \notin KeysIn(T) PROVE Distinct(U)
  <2> SUFFICES ASSUME NEW c \in 1..Len(U), NEW d \in 1..Len(U),
                      NEW i \in 1..Len(U[c]), NEW j \in 1..Len(U[d]), U[c][i].key = U[d][j].key
               PROVE  c = d /\ i = j
    BY <1>0, DistinctIs
  <2>1. i \in Nat /\ j \in Nat
    BY <1>0, Positions
  <2>2. \A f \in 1..Len(T) : \A m \in 1..Len(T[f]) : T[f][m].key # e.key
    <3> HIDE DEF Prepends
    <3>1. \A f \in 1..Len(T) : \A m \in 1..Len(T[f]) : T[f][m].key \in KeysIn(T)
      BY StoredIs
    <3> QED BY <1>5, <3>1
  <2>3. \A f, g \in 1..Len(T) : \A m \in 1..Len(T[f]), n \in 1..Len(T[g]) :
          T[f][m].key = T[g][n].key => f = g /\ m = n
    BY <1>5, DistinctIs
  <2>4. \A f \in 1..Len(U) : \A m \in 1..Len(U[f]) :
          \/ f = b /\ m = 1 /\ U[f][m].key = e.key
          \/ \E n \in 1..Len(T[f]) : m = (IF f = b THEN n + 1 ELSE n) /\ U[f][m].key = T[f][n].key
    <3> HIDE DEF Prepends
    <3> SUFFICES ASSUME NEW f \in 1..Len(U), NEW m \in 1..Len(U[f])
                 PROVE  \/ f = b /\ m = 1 /\ U[f][m].key = e.key
                        \/ \E n \in 1..Len(T[f]) : /\ m = (IF f = b THEN n + 1 ELSE n)
                                                   /\ U[f][m].key = T[f][n].key
      OBVIOUS
    <3>1. CASE f = b
      BY <1>2, <3>1
    <3>2. CASE f # b
      BY <1>2, <3>2
    <3> QED BY <3>1, <3>2
  <2> HIDE DEF Prepends
  <2>5. ASSUME NEW f \in 1..Len(T), NEW m \in 1..Len(U[f]), U[f][m].key = e.key
        PROVE  f = b /\ m = 1
    <3> SUFFICES ASSUME NEW n \in 1..Len(T[f]), U[f][m].key = T[f][n].key PROVE FALSE
      BY <1>0, <2>4
    <3> QED BY <2>2, <2>5
  <2>6. CASE U[c][i].key = e.key
    <3>1. c \in 1..Len(T) /\ d \in 1..Len(T) /\ U[d][j].key = e.key
      BY <1>0, <2>6
    <3>2. c = b /\ i = 1
      BY <2>5, <2>6, <3>1
    <3>3. d = b /\ j = 1
      BY <2>5, <3>1
    <3> QED BY <3>2, <3>3
  <2>7. ASSUME NEW m \in 1..Len(T[c]), i = (IF c = b THEN m + 1 ELSE m) /\ U[c][i].key = T[c][m].key,
               NEW n \in 1..Len(T[d]), j = (IF d = b THEN n + 1 ELSE n) /\ U[d][j].key = T[d][n].key
        PROVE  c = d /\ i = j
    <3>1. c = d /\ m = n
      BY <1>0, <2>3, <2>7
    <3> QED BY <2>7, <3>1
  <2>8. CASE U[c][i].key # e.key
    <3>1. PICK m \in 1..Len(T[c]) : i = (IF c = b THEN m + 1 ELSE m) /\ U[c][i].key = T[c][m].key
      BY <2>4, <2>8
    <3>2. PICK n \in 1..Len(T[d]) : j = (IF d = b THEN n + 1 ELSE n) /\ U[d][j].key = T[d][n].key
      BY <2>4, <2>8
    <3> QED BY <2>7, <3>1, <3>2
  <2> QED BY <2>6, <2>8
<1>6. ASSUME Hashed(T), Bucket(T, e.key) = b PROVE Hashed(U)
  <2> SUFFICES ASSUME NEW c \in 1..Len(U), NEW j \in 1..Len(U[c]) PROVE Bucket(U, U[c][j].key) = c
    BY <1>0, HashedIs
  <2>1. \A f \in 1..Len(T) : \A m \in 1..Len(T[f]) : Bucket(T, T[f][m].key) = f
    BY <1>6, HashedIs
  <2>2. Bucket(U, U[c][j].key) = Bucket(T, U[c][j].key)
    BY <1>0, BucketSame
  <2>3. CASE c = b /\ U[c][j] = e
    BY <1>6, <2>2, <2>3
  <2>4. CASE \E m \in 1..Len(T[c]) : U[c][j] = T[c][m]
    BY <1>0, <2>1, <2>2, <2>4
  <2> QED BY <1>2, <2>3, <2>4
<1> QED BY <1>3, <1>4, <1>5, <1>6

(* An entry is taken out of its chain.                                     *)
LEMMA Dropped ==
  ASSUME NEW T \in Tables, NEW b \in 1..Len(T), NEW i \in 1..Len(T[b])
  PROVE  /\ Drops(T, [T EXCEPT ![b] = RemoveAt(@, i)], b, i)
         /\ Drops(T, [T EXCEPT ![b] = Tail(@)], b, 1)
<1>1. PICK s \in Seq(Entries) : s = T[b]
  BY Positions
<1>2. ASSUME NEW t \in Seq(Entries), NEW m \in Nat, Len(t) = Len(s) - 1,
             \A j \in 1..Len(t) : t[j] = IF j < m THEN s[j] ELSE s[j + 1]
      PROVE  Drops(T, [T EXCEPT ![b] = t], b, m)
  <2> DEFINE U == [T EXCEPT ![b] = t]
  <2>1. U \in Tables /\ Len(U) = Len(T) /\ U[b] = t /\ \A c \in 1..Len(T) : c # b => U[c] = T[c]
    BY DEF Tables
  <2> HIDE DEF U
  <2>2. Drops(T, U, b, m)
    BY <1>1, <1>2, <2>1 DEF Drops
  <2> QED BY <2>2 DEF U
<1>3. i \in 1..Len(s) /\ Len(s) \in Nat /\ s # <<>>
  BY <1>1, SMTT(30)
<1>4. Drops(T, [T EXCEPT ![b] = Tail(s)], b, 1)
  <2>1. Tail(s) \in Seq(Entries) /\ Len(Tail(s)) = Len(s) - 1
        /\ \A j \in 1..Len(Tail(s)) : Tail(s)[j] = s[j + 1]
    BY <1>3
  <2>2. \A j \in 1..Len(Tail(s)) : Tail(s)[j] = IF j < 1 THEN s[j] ELSE s[j + 1]
    BY <1>3, <2>1
  <2> QED BY <1>2, <2>1, <2>2, Zenon
<1>5. Drops(T, [T EXCEPT ![b] = RemoveAt(s, i)], b, i)
  <2> DEFINE p == SubSeq(s, 1, i - 1)
             q == SubSeq(s, i + 1, Len(s))
  <2>1. p \in Seq(Entries) /\ Len(p) = i - 1 /\ \A j \in 1..(i - 1) : p[j] = s[j]
    BY <1>3
  <2>2. q \in Seq(Entries) /\ Len(q) = Len(s) - i /\ \A j \in 1..(Len(s) - i) : q[j] = s[i + j]
    BY <1>3
  <2> HIDE DEF p, q
  <2> DEFINE t == p \o q
  <2>3. t \in Seq(Entries) /\ Len(t) = Len(s) - 1
    <3>1. t \in Seq(Entries)
      BY <2>1, <2>2
    <3>2. Len(t) = Len(p) + Len(q)
      BY <2>1, <2>2, ConcatProperties
    <3> QED BY <1>3, <2>1, <2>2, <3>1, <3>2
  <2>4. \A j \in 1..Len(t) : t[j] = IF j < i THEN s[j] ELSE s[j + 1]
    <3> SUFFICES ASSUME NEW j \in 1..Len(t) PROVE t[j] = IF j < i THEN s[j] ELSE s[j + 1]
      OBVIOUS
    <3>1. CASE j < i
      BY <1>3, <2>1, <2>2, <3>1
    <3>2. CASE j >= i
      <4>1. t[j] = q[j - (i - 1)] /\ j - (i - 1) \in 1..(Len(s) - i) /\ i + (j - (i - 1)) = j + 1
        BY <1>3, <2>1, <2>2, <2>3, <3>2, SMTT(30)
      <4> QED BY <1>3, <2>2, <3>2, <4>1
    <3> QED BY <1>3, <3>1, <3>2
  <2>5. RemoveAt(s, i) = t
    BY DEF RemoveAt, p, q
  <2> HIDE DEF t
  <2> QED BY <1>2, <1>3, <2>3, <2>4, <2>5
<1> QED BY <1>1, <1>4, <1>5

(* What that does to the table.                                            *)
LEMMA DropKeeps ==
  ASSUME NEW T \in Tables, NEW b \in 1..Len(T), NEW i \in 1..Len(T[b]),
         NEW U, Drops(T, U, b, i), Distinct(T)
  PROVE  /\ Stored(U) = Stored(T) \ {T[b][i]}
         /\ KeysIn(U) = KeysIn(T) \ {T[b][i].key}
         /\ Distinct(U)
         /\ Hashed(T) => Hashed(U)
<1> USE DEF Drops
<1>0. U \in Tables /\ Len(U) = Len(T) /\ Len(T) \in Nat /\ Len(T[b]) \in Nat
  BY Positions
<1>1. \A c \in 1..Len(U) : \A j \in 1..Len(U[c]) :
        \E m \in 1..Len(T[c]) : /\ m = IF c = b /\ j >= i THEN j + 1 ELSE j
                                /\ U[c][j] = T[c][m] /\ ~(c = b /\ m = i)
  <2> SUFFICES ASSUME NEW c \in 1..Len(U), NEW j \in 1..Len(U[c])
               PROVE  \E m \in 1..Len(T[c]) : /\ m = IF c = b /\ j >= i THEN j + 1 ELSE j
                                              /\ U[c][j] = T[c][m] /\ ~(c = b /\ m = i)
    OBVIOUS
  <2>1. CASE c = b /\ j >= i
    <3>1. j + 1 \in 1..Len(T[c]) /\ U[c][j] = T[c][j + 1] /\ j + 1 # i
      BY <1>0, <2>1
    <3> QED BY <2>1, <3>1
  <2>2. CASE ~(c = b /\ j >= i)
    <3>1. j \in 1..Len(T[c]) /\ U[c][j] = T[c][j] /\ ~(c = b /\ j = i)
      BY <1>0, <2>2
    <3> QED BY <2>2, <3>1
  <2> QED BY <2>1, <2>2
<1>2. \A c \in 1..Len(T) : \A m \in 1..Len(T[c]) :
        ~(c = b /\ m = i) => \E j \in 1..Len(U[c]) : U[c][j] = T[c][m]
  <2> SUFFICES ASSUME NEW c \in 1..Len(T), NEW m \in 1..Len(T[c]), ~(c = b /\ m = i)
               PROVE  \E j \in 1..Len(U[c]) : U[c][j] = T[c][m]
    OBVIOUS
  <2>1. CASE c # b
    BY <1>0, <2>1
  <2>2. CASE c = b /\ m < i
    <3>1. m \in 1..Len(U[c]) /\ U[c][m] = T[c][m]
      BY <1>0, <2>2, SMTT(30)
    <3> QED BY <3>1
  <2>3. CASE c = b /\ m > i
    <3>1. m - 1 \in 1..Len(U[c]) /\ U[c][m - 1] = T[c][(m - 1) + 1] /\ (m - 1) + 1 = m
      BY <1>0, <2>3
    <3> QED BY <3>1
  <2> QED BY <1>0, <2>1, <2>2, <2>3
<1>3. \A c, d \in 1..Len(T) : \A m \in 1..Len(T[c]), n \in 1..Len(T[d]) :
        T[c][m].key = T[d][n].key => c = d /\ m = n
  BY DistinctIs
<1>4. \A c \in 1..Len(U) : \A j \in 1..Len(U[c]) : U[c][j].key # T[b][i].key
  <2> SUFFICES ASSUME NEW c \in 1..Len(U), NEW j \in 1..Len(U[c]), U[c][j].key = T[b][i].key
               PROVE  FALSE
    OBVIOUS
  <2>1. PICK m \in 1..Len(T[c]) : U[c][j] = T[c][m] /\ ~(c = b /\ m = i)
    BY <1>1
  <2> QED BY <1>0, <1>3, <2>1
<1>5. Stored(U) = Stored(T) \ {T[b][i]}
  <2>1. ASSUME NEW x \in Stored(U) PROVE x \in Stored(T) /\ x.key # T[b][i].key
    <3>1. PICK c \in 1..Len(U) : \E j \in 1..Len(U[c]) : U[c][j] = x
      BY <1>0, StoredIs
    <3>2. PICK j \in 1..Len(U[c]) : U[c][j] = x
      BY <3>1
    <3>3. PICK m \in 1..Len(T[c]) : U[c][j] = T[c][m]
      BY <1>1
    <3> QED BY <1>0, <1>4, <3>2, <3>3, StoredIs, SMTT(30)
  <2>2. ASSUME NEW x \in Stored(T), x # T[b][i] PROVE x \in Stored(U)
    <3>1. PICK c \in 1..Len(T) : \E j \in 1..Len(T[c]) : T[c][j] = x
      BY StoredIs
    <3>2. PICK m \in 1..Len(T[c]) : T[c][m] = x
      BY <3>1
    <3>3. PICK j \in 1..Len(U[c]) : U[c][j] = x
      BY <1>2, <2>2, <3>2
    <3> QED BY <1>0, <3>3, StoredIs
  <2> QED BY <2>1, <2>2
<1>6. KeysIn(U) = KeysIn(T) \ {T[b][i].key}
  <2>1. ASSUME NEW x \in Stored(T), x.key = T[b][i].key PROVE x = T[b][i]
    <3>1. PICK c \in 1..Len(T) : \E j \in 1..Len(T[c]) : T[c][j] = x
      BY StoredIs
    <3>2. PICK m \in 1..Len(T[c]) : T[c][m] = x
      BY <3>1
    <3> QED BY <1>3, <2>1, <3>2
  <2>2. ASSUME NEW x \in Stored(U) PROVE x.key # T[b][i].key
    <3>1. PICK c \in 1..Len(U) : \E j \in 1..Len(U[c]) : U[c][j] = x
      BY <1>0, StoredIs
    <3> QED BY <1>4, <3>1
  <2> QED BY <1>5, <2>1, <2>2, Zenon DEF KeysIn
<1>7. Distinct(U)
  <2> SUFFICES ASSUME NEW c \in 1..Len(U), NEW d \in 1..Len(U),
                      NEW m \in 1..Len(U[c]), NEW n \in 1..Len(U[d]), U[c][m].key = U[d][n].key
               PROVE  c = d /\ m = n
    BY <1>0, DistinctIs
  <2>1. PICK p \in 1..Len(T[c]) : p = (IF c = b /\ m >= i THEN m + 1 ELSE m) /\ U[c][m] = T[c][p]
    BY <1>1
  <2>2. PICK q \in 1..Len(T[d]) : q = (IF d = b /\ n >= i THEN n + 1 ELSE n) /\ U[d][n] = T[d][q]
    BY <1>1
  <2>3. c = d /\ p = q
    BY <1>0, <1>3, <2>1, <2>2, SMTT(30)
  <2>4. m \in Nat /\ n \in Nat /\ i \in Nat
    BY <1>0, Positions
  <2> QED BY <2>1, <2>2, <2>3, <2>4
<1>8. ASSUME Hashed(T) PROVE Hashed(U)
  <2> SUFFICES ASSUME NEW c \in 1..Len(U), NEW j \in 1..Len(U[c]) PROVE Bucket(U, U[c][j].key) = c
    BY <1>0, HashedIs
  <2>1. Bucket(U, U[c][j].key) = Bucket(T, U[c][j].key)
    BY <1>0, BucketSame
  <2>2. PICK m \in 1..Len(T[c]) : U[c][j] = T[c][m]
    BY <1>1
  <2> QED BY <1>0, <1>8, <2>1, <2>2, HashedIs
<1> QED BY <1>5, <1>6, <1>7, <1>8

(* The value of an entry is overwritten.                                   *)
LEMMA Updated ==
  ASSUME NEW T \in Tables, NEW b \in 1..Len(T), NEW i \in 1..Len(T[b]), NEW v \in Vals
  PROVE  Updates(T, [T EXCEPT ![b][i].val = v], b, i, v)
<1>1. PICK s \in Seq(Entries) : s = T[b]
  BY Positions
<1>2. i \in 1..Len(s) /\ s[i] \in Entries
  BY <1>1
<1>3. [s[i] EXCEPT !.val = v] = Entry(s[i].key, v) /\ Entry(s[i].key, v) \in Entries
  BY <1>2 DEF Entry, Entries
<1> DEFINE u == [s EXCEPT ![i] = Entry(s[i].key, v)]
<1>4. u \in Seq(Entries) /\ Len(u) = Len(s)
      /\ \A j \in 1..Len(u) : u[j] = IF j = i THEN Entry(s[i].key, v) ELSE s[j]
  BY <1>2, <1>3, ExceptSeq
<1>5. [T EXCEPT ![b][i].val = v] = [T EXCEPT ![b] = u]
  BY <1>1, <1>3, Zenon
<1> HIDE DEF u
<1> DEFINE U == [T EXCEPT ![b] = u]
<1>6. U \in Tables /\ Len(U) = Len(T) /\ U[b] = u /\ \A c \in 1..Len(T) : c # b => U[c] = T[c]
  BY <1>4 DEF Tables
<1> HIDE DEF U
<1>7. Updates(T, U, b, i, v)
  BY <1>1, <1>4, <1>6 DEF Updates
<1> QED BY <1>5, <1>7 DEF U

(* What that does to the table.                                            *)
LEMMA UpdateKeeps ==
  ASSUME NEW T \in Tables, NEW b \in 1..Len(T), NEW i \in 1..Len(T[b]), NEW v \in Vals,
         NEW U, Updates(T, U, b, i, v), Distinct(T)
  PROVE  /\ Entry(T[b][i].key, v) \in Stored(U)
         /\ \A e \in Entries : e.key # T[b][i].key => (e \in Stored(U) <=> e \in Stored(T))
         /\ KeysIn(U) = KeysIn(T)
         /\ Distinct(U)
         /\ Hashed(T) => Hashed(U)
<1> USE DEF Updates
<1>0. U \in Tables /\ Len(U) = Len(T) /\ Len(T) \in Nat /\ Len(T[b]) \in Nat
      /\ \A c \in 1..Len(T) : Len(U[c]) = Len(T[c])
  BY Positions
<1>1. \A c \in 1..Len(T) : \A j \in 1..Len(T[c]) :
        U[c][j].key = T[c][j].key /\ (~(c = b /\ j = i) => U[c][j] = T[c][j])
  BY <1>0 DEF Entry
<1>2. \A c, d \in 1..Len(T) : \A m \in 1..Len(T[c]), n \in 1..Len(T[d]) :
        T[c][m].key = T[d][n].key => c = d /\ m = n
  BY DistinctIs
<1>3. Entry(T[b][i].key, v) \in Stored(U)
  BY <1>0, StoredIs
<1>4. ASSUME NEW e \in Entries, e.key # T[b][i].key PROVE e \in Stored(U) <=> e \in Stored(T)
  <2>1. ASSUME e \in Stored(U) PROVE e \in Stored(T)
    <3>1. PICK c \in 1..Len(U) : \E j \in 1..Len(U[c]) : U[c][j] = e
      BY <1>0, <2>1, StoredIs
    <3>2. PICK j \in 1..Len(U[c]) : U[c][j] = e
      BY <3>1
    <3>3. j \in 1..Len(T[c]) /\ c \in 1..Len(T)
      BY <1>0
    <3>4. U[c][j] = T[c][j]
      BY <1>1, <1>4, <3>2, <3>3
    <3> QED BY <3>2, <3>3, <3>4, StoredIs
  <2>2. ASSUME e \in Stored(T) PROVE e \in Stored(U)
    <3>1. PICK c \in 1..Len(T) : \E j \in 1..Len(T[c]) : T[c][j] = e
      BY <1>0, <2>2, StoredIs
    <3>2. PICK j \in 1..Len(T[c]) : T[c][j] = e
      BY <3>1
    <3> QED BY <1>0, <1>1, <1>4, <3>2, StoredIs
  <2> QED BY <2>1, <2>2
<1>5. KeysIn(U) = KeysIn(T)
  <2>1. ASSUME NEW k \in KeysIn(U) PROVE k \in KeysIn(T)
    <3>1. PICK c \in 1..Len(U) : \E j \in 1..Len(U[c]) : U[c][j].key = k
      BY <1>0, StoredIs
    <3> QED BY <1>0, <1>1, <3>1, StoredIs
  <2>2. ASSUME NEW k \in KeysIn(T) PROVE k \in KeysIn(U)
    <3>1. PICK c \in 1..Len(T) : \E j \in 1..Len(T[c]) : T[c][j].key = k
      BY <1>0, StoredIs
    <3> QED BY <1>0, <1>1, <3>1, StoredIs, SMTT(30)
  <2> QED BY <2>1, <2>2
<1>6. Distinct(U)
  <2> SUFFICES ASSUME NEW c \in 1..Len(U), NEW d \in 1..Len(U),
                      NEW m \in 1..Len(U[c]), NEW n \in 1..Len(U[d]), U[c][m].key = U[d][n].key
               PROVE  c = d /\ m = n
    BY <1>0, DistinctIs
  <2>1. m \in 1..Len(T[c]) /\ n \in 1..Len(T[d]) /\ c \in 1..Len(T) /\ d \in 1..Len(T)
    BY <1>0
  <2>2. T[c][m].key = T[d][n].key
    BY <1>1, <2>1
  <2> QED BY <1>2, <2>1, <2>2, SMTT(30)
<1>7. ASSUME Hashed(T) PROVE Hashed(U)
  <2> SUFFICES ASSUME NEW c \in 1..Len(U), NEW j \in 1..Len(U[c]) PROVE Bucket(U, U[c][j].key) = c
    BY <1>0, HashedIs
  <2>1. Bucket(U, U[c][j].key) = Bucket(T, U[c][j].key)
    BY <1>0, BucketSame
  <2> QED BY <1>0, <1>1, <1>7, <2>1, HashedIs
<1> QED BY <1>3, <1>4, <1>5, <1>6, <1>7

-----------------------------------------------------------------------------
(* dictExpand.                                                             *)

(* The two tables, the new one with size chains, between two turns.        *)
Pairs(size) == {t \in [old : Tables, new : Tables] : Len(t.new) = size}

(* All that T stored is in one of the tables, in place in the new one; m   *)
(* entries are still in the old one.                                       *)
Moving(t, T, m) ==
  /\ Distinct(t.old) /\ Distinct(t.new) /\ Hashed(t.new)
  /\ KeysIn(t.old) \cap KeysIn(t.new) = {}
  /\ Stored(t.old) \cup Stored(t.new) = Stored(T)
  /\ IsFiniteSet(KeysIn(t.old)) /\ Cardinality(KeysIn(t.old)) = m

(* A turn of the loops takes one entry from the old table to the new one.  *)
LEMMA MoveKeeps ==
  ASSUME NEW size \in Nat, size > 0, NEW t \in Pairs(size)
  PROVE  /\ MoveEntry(t) \in Pairs(size)
         /\ \A T : \A m \in Nat : m > 0 /\ Moving(t, T, m) => Moving(MoveEntry(t), T, m - 1)
<1> DEFINE full == {i \in DOMAIN t.old : t.old[i] # <<>>}
           first == CHOOSE i \in full : \A j \in full : i <= j
<1>0. t.old \in Tables /\ t.new \in Tables /\ Len(t.new) = size
  BY DEF Pairs
<1>1. CASE full = {}
  <2>1. MoveEntry(t) = t
    BY <1>1, Zenon DEF MoveEntry
  <2>2. KeysIn(t.old) = {}
    <3> SUFFICES ASSUME NEW k \in KeysIn(t.old) PROVE FALSE
      OBVIOUS
    <3>1. PICK b \in 1..Len(t.old) : \E i \in 1..Len(t.old[b]) : t.old[b][i].key = k
      BY <1>0, StoredIs
    <3>2. b \in full
      <4>1. b \in DOMAIN t.old /\ t.old[b] \in Seq(Entries)
        BY <1>0, Positions
      <4> QED BY <3>1, <4>1
    <3> QED BY <1>1, <3>2
  <2>3. ASSUME NEW T, NEW m \in Nat, m > 0, Moving(t, T, m) PROVE FALSE
    BY <2>2, <2>3, FS_EmptySet DEF Moving
  <2> QED BY <2>1, <2>3
<1>2. CASE full # {}
  <2>1. full \subseteq Nat
    BY <1>0, Positions
  <2>2. PICK x \in full : \A y \in full : x <= y
    BY <1>2, <2>1, LeastNat
  <2>3. first \in full
    <3> HIDE DEF full
    <3> QED BY <2>2
  <2> HIDE DEF first
  <2>4. PICK b \in 1..Len(t.old) : b = first /\ t.old[b] # <<>>
    BY <1>0, <2>3, Positions
  <2>5. t.old[b] \in Seq(Entries)
    BY <1>0, Positions
  <2>6. 1 \in 1..Len(t.old[b]) /\ Head(t.old[b]) = t.old[b][1] /\ t.old[b][1] \in Entries
    BY <2>4, <2>5
  <2>7. PICK he \in Entries : he = t.old[b][1]
    BY <2>6
  <2>8. PICK c \in 1..Len(t.new) : c = Bucket(t.new, he.key)
    BY <1>0, BucketIn DEF Entries
  <2> DEFINE old == [t.old EXCEPT ![b] = Tail(@)]
             new == [t.new EXCEPT ![c] = <<he>> \o @]
  <2>9. MoveEntry(t) = [old |-> old, new |-> new]
    BY <1>2, <2>4, <2>6, <2>7, <2>8, Zenon DEF MoveEntry, first
  <2>10. Drops(t.old, old, b, 1) /\ Prepends(t.new, new, c, he)
    BY <1>0, <2>6, Dropped, Prepended
  <2> HIDE DEF old, new
  <2>11. MoveEntry(t) \in Pairs(size)
    BY <1>0, <2>9, <2>10 DEF Pairs, Drops, Prepends
  <2>12. ASSUME NEW T, NEW m \in Nat, m > 0, Moving(t, T, m) PROVE Moving(MoveEntry(t), T, m - 1)
    <3>1. Stored(old) = Stored(t.old) \ {he} /\ KeysIn(old) = KeysIn(t.old) \ {he.key} /\ Distinct(old)
      BY <1>0, <2>6, <2>7, <2>10, <2>12, DropKeeps DEF Moving
    <3>2. he.key \in KeysIn(t.old) /\ he \in Stored(t.old)
      BY <1>0, <2>6, <2>7, StoredIs
    <3>3. Stored(new) = Stored(t.new) \cup {he} /\ Distinct(new) /\ Hashed(new)
      BY <1>0, <2>8, <2>10, <2>12, <3>2, PrependKeeps DEF Moving
    <3>4. KeysIn(new) = KeysIn(t.new) \cup {he.key}
      BY <3>3, Zenon DEF KeysIn
    <3>5. KeysIn(old) \cap KeysIn(new) = {} /\ Stored(old) \cup Stored(new) = Stored(T)
      BY <2>12, <3>1, <3>2, <3>3, <3>4 DEF Moving
    <3>6. IsFiniteSet(KeysIn(old)) /\ Cardinality(KeysIn(old)) = m - 1
      <4>1. PICK K : K = KeysIn(t.old)
        OBVIOUS
      <4>2. IsFiniteSet(K) /\ Cardinality(K) = m /\ he.key \in K
        BY <2>12, <3>2, <4>1 DEF Moving
      <4>3. IsFiniteSet(K \ {he.key}) /\ Cardinality(K \ {he.key}) = m - 1
        BY <4>2, FS_RemoveElement
      <4> QED BY <3>1, <4>1, <4>3
    <3>7. MoveEntry(t).old = old /\ MoveEntry(t).new = new
      BY <2>9
    <3> QED BY <3>1, <3>3, <3>5, <3>6, <3>7, Zenon DEF Moving
  <2> QED BY <2>11, <2>12
<1> QED BY <1>1, <1>2

(* A new table is empty.                                                   *)
LEMMA EmptyTable ==
  ASSUME NEW n \in Nat
  PROVE  LET U == [i \in 1..n |-> <<>>]
         IN U \in Tables /\ Len(U) = n /\ Stored(U) = {} /\ KeysIn(U) = {} /\ Distinct(U) /\ Hashed(U)
<1> DEFINE U == [i \in 1..n |-> <<>>]
<1>1. U \in Tables /\ Len(U) = n
  <2>1. <<>> \in Seq(Entries)
    OBVIOUS
  <2> QED BY <2>1 DEF Tables
<1>2. \A b \in DOMAIN U : DOMAIN U[b] = {}
  OBVIOUS
<1> HIDE DEF U
<1>3. Stored(U) = {}
  BY <1>2, Zenon DEF Stored
<1>4. KeysIn(U) = {}
  BY <1>3, Zenon DEF KeysIn
<1>5. Distinct(U) /\ Hashed(U)
  BY <1>2, Zenon DEF Distinct, Hashed
<1> QED BY <1>1, <1>3, <1>4, <1>5 DEF U

(* dictExpand moves every entry, once, to the chain of its hash.           *)
LEMMA ExpandKeeps ==
  ASSUME NEW T \in Tables, NEW used \in Nat, Distinct(T),
         IsFiniteSet(KeysIn(T)), Cardinality(KeysIn(T)) = used,
         NEW d, d = [table |-> T, used |-> used], NEW size, IsSize(size)
  PROVE  \E U \in Tables : /\ dictExpand(d, size) = [table |-> U, used |-> used]
                           /\ Len(U) = size /\ Distinct(U) /\ Hashed(U)
                           /\ Stored(U) = Stored(T)
<1> DEFINE S == Pairs(size)
           start == [old |-> T, new |-> [i \in 1..size |-> <<>>]]
           step == [i \in 1..used |-> [t \in S |-> MoveEntry(t)]]
           moved[n \in 0..used] ==
             IF n = 0 THEN [old |-> T, new |-> [i \in 1..size |-> <<>>]]
             ELSE MoveEntry(moved[n - 1])
<1>0. size \in Nat /\ size > 0
  BY DEF IsSize
<1>1. start \in S /\ Moving(start, T, used)
  <2> DEFINE U == [i \in 1..size |-> <<>>]
  <2>1. U \in Tables /\ Len(U) = size /\ Stored(U) = {} /\ KeysIn(U) = {} /\ Distinct(U) /\ Hashed(U)
    BY <1>0, EmptyTable
  <2> HIDE DEF U
  <2>2. start = [old |-> T, new |-> U]
    BY DEF U
  <2> HIDE DEF start
  <2>3. start.old = T /\ start.new = U
    BY <2>2
  <2> QED BY <2>1, <2>2, <2>3 DEF Pairs, Moving
<1>2. \A t \in S : MoveEntry(t) \in S
  BY <1>0, MoveKeeps
<1>3. step \in [1..used -> [S -> S]]
  <2> HIDE DEF S, start
  <2> QED BY <1>2
<1>4. \A i \in 1..used, t \in S : step[i][t] = MoveEntry(t)
  BY Zenon
<1>5. PICK g \in [0..used -> S] : g[0] = start /\ \A i \in 1..used : g[i] = step[i][g[i - 1]]
  <2> HIDE DEF S, start, step
  <2>1. \E g \in [0..used -> S] : Iterates(g, used, start, step)
    BY <1>1, <1>3, Recursion, Zenon
  <2> QED BY <2>1, Zenon DEF Iterates
<1>6. \A i \in 0..used : g[i] = IF i = 0 THEN start ELSE MoveEntry(g[i - 1])
  <2> HIDE DEF S, start, step
  <2>1. \A i \in 1..used : i - 1 \in 0..used
    OBVIOUS
  <2>2. \A i \in 1..used : g[i] = MoveEntry(g[i - 1])
    BY <1>4, <1>5, <2>1
  <2> QED BY <1>5, <2>2
<1>7. g = [n \in 0..used |->
             IF n = 0 THEN [old |-> T, new |-> [i \in 1..size |-> <<>>]]
             ELSE MoveEntry(g[n - 1])]
  <2> HIDE DEF S, step
  <2>1. g = [n \in 0..used |-> IF n = 0 THEN start ELSE MoveEntry(g[n - 1])]
    <3> HIDE DEF start
    <3> QED BY <1>6
  <2> QED BY <2>1, Zenon
<1>8. moved = [n \in 0..used |->
             IF n = 0 THEN [old |-> T, new |-> [i \in 1..size |-> <<>>]]
             ELSE MoveEntry(moved[n - 1])]
  BY <1>7, Zenon
<1>9. dictExpand(d, size) = [d EXCEPT !.table = moved[used].new]
  <2>1. d.table = T /\ d.used = used /\ _dictNextPower(size) = size
    BY NextPower
  <2> QED BY <2>1, Zenon DEF dictExpand
<1> HIDE DEF moved
<1>10. \A i \in 0..used : moved[i] = IF i = 0 THEN start ELSE MoveEntry(moved[i - 1])
  BY <1>8, Zenon
<1> HIDE DEF S, start, step
<1> DEFINE P == {i \in 0..used : moved[i] \in S /\ Moving(moved[i], T, used - i)}
<1>11. 0 \in P
  BY <1>1, <1>10
<1>12. ASSUME NEW i \in 1..used, i - 1 \in P PROVE i \in P
  <2>1. moved[i] = MoveEntry(moved[i - 1]) /\ i \in 0..used
    BY <1>10
  <2>2. moved[i - 1] \in S /\ Moving(moved[i - 1], T, used - (i - 1))
    BY <1>12
  <2>3. PICK m \in Nat : m = used - (i - 1) /\ m > 0 /\ m - 1 = used - i
    OBVIOUS
  <2>4. Moving(moved[i], T, m - 1)
    BY <1>0, <2>1, <2>2, <2>3, MoveKeeps DEF S
  <2> QED BY <1>2, <2>1, <2>2, <2>3, <2>4
<1>13. moved[used] \in S /\ Moving(moved[used], T, 0)
  <2> HIDE DEF P
  <2>1. used \in P
    BY <1>11, <1>12, BoundedInduction
  <2>2. used - used = 0
    OBVIOUS
  <2> QED BY <2>1, <2>2 DEF P
<1>14. PICK t \in S : t = moved[used]
  BY <1>13
<1>15. t.new \in Tables /\ t.old \in Tables /\ Len(t.new) = size
  BY DEF S, Pairs
<1>16. KeysIn(t.old) = {}
  BY <1>13, <1>14, FS_EmptySet DEF Moving
<1>17. Stored(t.old) = {}
  BY <1>16, Zenon DEF KeysIn
<1>18. Distinct(t.new) /\ Hashed(t.new) /\ Stored(t.new) = Stored(T)
  BY <1>13, <1>14, <1>17 DEF Moving
<1>19. dictExpand(d, size) = [table |-> t.new, used |-> used]
  BY <1>9, <1>14
<1> QED BY <1>15, <1>18, <1>19

-----------------------------------------------------------------------------
(* The operations on a sound table.                                        *)

Sound(d) ==
  /\ d = [table |-> d.table, used |-> d.used]
  /\ d.table \in Tables /\ Distinct(d.table) /\ Hashed(d.table)
  /\ IsFiniteSet(KeysIn(d.table)) /\ Cardinality(KeysIn(d.table)) = d.used /\ d.used \in Nat
  /\ d.used <= Size(d)
  /\ Size(d) # 0 => IsSize(Size(d))

(* The key of an entry.                                                    *)
LEMMA EntryIs ==
  ASSUME NEW k \in Keys, NEW v \in Vals
  PROVE  Entry(k, v) \in Entries /\ Entry(k, v).key = k /\ Entry(k, v).val = v
  BY DEF Entry, Entries

(* A key that is stored is at one place, in the chain of its hash.         *)
LEMMA PlaceOf ==
  ASSUME NEW d, Sound(d), NEW k \in KeysIn(d.table)
  PROVE  /\ Size(d) > 0
         /\ \E b \in 1..Len(d.table) : \E i \in 1..Len(d.table[b]) :
              b = Bucket(d.table, k) /\ d.table[b][i].key = k /\ InChain(d.table[b], k) = {i}
<1>1. d.table \in Tables /\ Distinct(d.table) /\ Hashed(d.table)
  BY DEF Sound
<1>2. PICK b \in 1..Len(d.table) : \E i \in 1..Len(d.table[b]) : d.table[b][i].key = k
  BY <1>1, StoredIs
<1>3. PICK i \in 1..Len(d.table[b]) : d.table[b][i].key = k
  BY <1>2
<1>4. b = Bucket(d.table, k)
  BY <1>1, <1>3, HashedIs
<1>5. DOMAIN d.table[b] = 1..Len(d.table[b]) /\ Len(d.table) \in Nat
  BY <1>1, Positions
<1>6. \A j \in 1..Len(d.table[b]) : d.table[b][j].key = k => j = i
  BY <1>1, <1>3, DistinctIs
<1>7. InChain(d.table[b], k) = {i}
  BY <1>3, <1>5, <1>6 DEF InChain
<1> QED BY <1>3, <1>4, <1>5, <1>7, SMTT(30) DEF Size

(* dictFind finds what is stored.                                          *)
LEMMA FindIs ==
  ASSUME NEW d, Sound(d), NEW k \in Keys
  PROVE  /\ k \notin KeysIn(d.table) => dictFind(d, k) = NULL
         /\ k \in KeysIn(d.table) => dictFind(d, k) # NULL /\ dictFind(d, k) \in Vals
         /\ \A v \in Vals : Entry(k, v) \in Stored(d.table) => dictFind(d, k) = v
<1>0. d.table \in Tables
  BY DEF Sound
<1>1. ASSUME k \notin KeysIn(d.table) PROVE dictFind(d, k) = NULL
  <2>1. CASE Size(d) = 0
    BY <2>1 DEF dictFind
  <2>2. CASE Size(d) # 0
    <3>1. PICK b \in 1..Len(d.table) : b = Bucket(d.table, k)
      BY <1>0, <2>2, BucketIn, Positions DEF Size
    <3>2. InChain(d.table[b], k) = {}
      <4>1. DOMAIN d.table[b] = 1..Len(d.table[b])
        BY <1>0, Positions
      <4>2. \A i \in 1..Len(d.table[b]) : d.table[b][i].key # k
        BY <1>0, <1>1, StoredIs
      <4> QED BY <4>1, <4>2 DEF InChain
    <3> QED BY <3>1, <3>2, Zenon DEF dictFind
  <2> QED BY <2>1, <2>2
<1>2. ASSUME k \in KeysIn(d.table)
      PROVE  /\ dictFind(d, k) # NULL /\ dictFind(d, k) \in Vals
             /\ \A v \in Vals : Entry(k, v) \in Stored(d.table) => dictFind(d, k) = v
  <2>1. Size(d) > 0
    BY <1>2, PlaceOf
  <2>2. PICK b \in 1..Len(d.table) : \E i \in 1..Len(d.table[b]) :
          b = Bucket(d.table, k) /\ d.table[b][i].key = k /\ InChain(d.table[b], k) = {i}
    BY <1>2, PlaceOf
  <2>3. PICK i \in 1..Len(d.table[b]) :
          b = Bucket(d.table, k) /\ d.table[b][i].key = k /\ InChain(d.table[b], k) = {i}
    BY <2>2
  <2>4. dictFind(d, k) = d.table[b][i].val
    <3>1. InChain(d.table[b], k) # {} /\ (CHOOSE j \in InChain(d.table[b], k) : TRUE) = i
      BY <2>3
    <3>2. Size(d) # 0
      BY <2>1
    <3> QED BY <2>3, <3>1, <3>2, Zenon DEF dictFind
  <2>5. d.table[b][i].val \in Vals
    BY <1>0, Positions
  <2>6. ASSUME NEW v \in Vals, Entry(k, v) \in Stored(d.table) PROVE d.table[b][i].val = v
    <3>1. PICK c \in 1..Len(d.table) : \E j \in 1..Len(d.table[c]) : d.table[c][j] = Entry(k, v)
      BY <1>0, <2>6, StoredIs
    <3>2. PICK j \in 1..Len(d.table[c]) : d.table[c][j] = Entry(k, v)
      BY <3>1
    <3>3. c = b /\ j = i
      BY <1>0, <2>3, <3>2, DistinctIs, EntryIs DEF Sound
    <3> QED BY <2>6, <3>2, <3>3, EntryIs
  <2> QED BY <2>4, <2>5, <2>6, DictAssumption
<1>3. ASSUME NEW v \in Vals, Entry(k, v) \in Stored(d.table) PROVE k \in KeysIn(d.table)
  BY <1>3, EntryIs DEF KeysIn
<1> QED BY <1>1, <1>2, <1>3

(* The table is made larger when it has to be.                             *)
LEMMA ExpandIs ==
  ASSUME NEW d, Sound(d)
  PROVE  LET e == _dictExpandIfNeeded(d)
         IN  Sound(e) /\ Stored(e.table) = Stored(d.table) /\ e.used < Size(e)
<1>0. /\ d.table \in Tables /\ d = [table |-> d.table, used |-> d.used] /\ Size(d) \in Nat
      /\ d.used \in Nat /\ d.used <= Size(d) /\ Distinct(d.table)
      /\ IsFiniteSet(KeysIn(d.table)) /\ Cardinality(KeysIn(d.table)) = d.used
  BY Positions DEF Sound, Size
<1>1. ASSUME NEW size, IsSize(size), d.used < size, _dictExpandIfNeeded(d) = dictExpand(d, size)
      PROVE  LET e == _dictExpandIfNeeded(d)
             IN  Sound(e) /\ Stored(e.table) = Stored(d.table) /\ e.used < Size(e)
  <2>1. PICK U \in Tables : /\ dictExpand(d, size) = [table |-> U, used |-> d.used]
                            /\ Len(U) = size /\ Distinct(U) /\ Hashed(U)
                            /\ Stored(U) = Stored(d.table)
    BY <1>0, <1>1, ExpandKeeps
  <2>2. PICK e : e = _dictExpandIfNeeded(d)
    OBVIOUS
  <2>3. e.table = U /\ e.used = d.used /\ e = [table |-> U, used |-> d.used]
    BY <1>1, <2>1, <2>2
  <2>4. KeysIn(U) = KeysIn(d.table)
    BY <2>1, Zenon DEF KeysIn
  <2>5. size \in Nat
    BY <1>1 DEF IsSize
  <2>6. Sound(e) /\ Stored(e.table) = Stored(d.table) /\ e.used < Size(e)
    BY <1>0, <1>1, <2>1, <2>3, <2>4, <2>5 DEF Sound, Size
  <2> QED BY <2>2, <2>6
<1>2. CASE Size(d) = 0
  <2>1. _dictExpandIfNeeded(d) = dictExpand(d, INITIAL_SIZE)
    BY <1>2 DEF _dictExpandIfNeeded
  <2> QED BY <1>0, <1>1, <1>2, <2>1, InitialSize
<1>3. CASE Size(d) # 0 /\ d.used = Size(d)
  <2>1. _dictExpandIfNeeded(d) = dictExpand(d, 2 * Size(d))
    BY <1>3 DEF _dictExpandIfNeeded
  <2>2. IsSize(2 * Size(d))
    BY <1>3, Doubles DEF Sound
  <2>3. d.used < 2 * Size(d)
    BY <1>0, <1>3
  <2> QED BY <1>1, <2>1, <2>2, <2>3
<1>4. CASE Size(d) # 0 /\ d.used # Size(d)
  <2>1. _dictExpandIfNeeded(d) = d
    BY <1>4 DEF _dictExpandIfNeeded
  <2> QED BY <1>0, <1>4, <2>1
<1> QED BY <1>2, <1>3, <1>4

(* An addition adds the key that was not there, or changes nothing that a  *)
(* caller can see.                                                         *)
LEMMA AddIs ==
  ASSUME NEW d, Sound(d), NEW k \in Keys, NEW v \in Vals, NEW memory \in Memory
  PROVE  LET added == dictAdd(d, k, v, memory)
         IN  /\ Sound(added.ht)
             /\ \/ /\ added.ret = "ok" /\ k \notin KeysIn(d.table)
                   /\ Stored(added.ht.table) = Stored(d.table) \cup {Entry(k, v)}
                \/ added.ret = "err" /\ Stored(added.ht.table) = Stored(d.table)
<1>1. PICK e : e = _dictExpandIfNeeded(d)
  OBVIOUS
<1>2. Sound(e) /\ Stored(e.table) = Stored(d.table) /\ e.used < Size(e)
  BY <1>1, ExpandIs
<1>3. e.table \in Tables /\ e.used \in Nat /\ Size(e) > 0 /\ Len(e.table) \in Nat
  BY <1>2, Positions DEF Sound, Size
<1>4. PICK b \in 1..Len(e.table) : b = Bucket(e.table, k)
  BY <1>3, BucketIn DEF Size
<1>5. KeysIn(e.table) = KeysIn(d.table)
  BY <1>2, Zenon DEF KeysIn
<1>6. CASE NeedsExpand(d) /\ memory = "table"
  <2>1. dictAdd(d, k, v, memory) = [ht |-> d, ret |-> "err"]
    BY <1>6 DEF dictAdd
  <2> QED BY <2>1
<1>7. CASE ~(NeedsExpand(d) /\ memory = "table") /\ (InChain(e.table[b], k) # {} \/ memory = "entry")
  <2>1. dictAdd(d, k, v, memory) = [ht |-> e, ret |-> "err"]
    BY <1>1, <1>4, <1>7, Zenon DEF dictAdd
  <2> QED BY <1>2, <2>1
<1>8. CASE ~(NeedsExpand(d) /\ memory = "table") /\ ~(InChain(e.table[b], k) # {} \/ memory = "entry")
  <2> DEFINE U == [e.table EXCEPT ![b] = <<Entry(k, v)>> \o @]
  <2>1. dictAdd(d, k, v, memory)
          = [ht |-> [table |-> U, used |-> e.used + 1], ret |-> "ok"]
    BY <1>1, <1>4, <1>8, Zenon DEF dictAdd
  <2>3. Prepends(e.table, U, b, Entry(k, v))
    BY <1>3, <1>4, EntryIs, Prepended
  <2> HIDE DEF U
  <2>4. k \notin KeysIn(e.table)
    <3> SUFFICES ASSUME k \in KeysIn(e.table) PROVE FALSE
      OBVIOUS
    <3>1. PICK c \in 1..Len(e.table) : \E i \in 1..Len(e.table[c]) :
            c = Bucket(e.table, k) /\ e.table[c][i].key = k /\ InChain(e.table[c], k) = {i}
      BY <1>2, PlaceOf
    <3> QED BY <1>4, <1>8, <3>1
  <2>5. U \in Tables /\ Len(U) = Len(e.table)
    BY <2>3 DEF Prepends
  <2>6. Stored(U) = Stored(e.table) \cup {Entry(k, v)} /\ Distinct(U) /\ Hashed(U)
    BY <1>2, <1>3, <1>4, <2>3, <2>4, EntryIs, PrependKeeps DEF Sound
  <2>7. KeysIn(U) = KeysIn(e.table) \cup {k}
    <3>1. Entry(k, v).key = k
      BY EntryIs
    <3>2. PICK e1 : e1 = Entry(k, v)
      OBVIOUS
    <3>3. Stored(U) = Stored(e.table) \cup {e1} /\ e1.key = k
      BY <2>6, <3>1, <3>2
    <3> QED BY <3>3, Zenon DEF KeysIn
  <2>8. IsFiniteSet(KeysIn(U)) /\ Cardinality(KeysIn(U)) = e.used + 1
    <3>1. PICK K : K = KeysIn(e.table)
      OBVIOUS
    <3>2. IsFiniteSet(K) /\ Cardinality(K) = e.used /\ k \notin K
      BY <1>2, <2>4, <3>1 DEF Sound
    <3>3. IsFiniteSet(K \cup {k}) /\ Cardinality(K \cup {k}) = e.used + 1
      BY <3>2, FS_AddElement
    <3> QED BY <2>7, <3>1, <3>3
  <2>9. PICK h : h = [table |-> U, used |-> e.used + 1]
    OBVIOUS
  <2>10. h.table = U /\ h.used = e.used + 1 /\ h = [table |-> h.table, used |-> h.used]
    BY <2>9
  <2>11. Sound(h)
    BY <1>2, <1>3, <2>5, <2>6, <2>8, <2>10 DEF Sound, Size
  <2>12. dictAdd(d, k, v, memory) = [ht |-> h, ret |-> "ok"]
    BY <2>1, <2>9
  <2> QED BY <1>2, <1>5, <2>4, <2>6, <2>10, <2>11, <2>12
<1> QED BY <1>6, <1>7, <1>8

(* The value of a key that is there is replaced, and no other.             *)
LEMMA SetValIs ==
  ASSUME NEW d, Sound(d), NEW k \in KeysIn(d.table), k \in Keys, NEW v \in Vals
  PROVE  LET n == SetVal(d, k, v)
         IN  /\ Sound(n) /\ KeysIn(n.table) = KeysIn(d.table)
             /\ Entry(k, v) \in Stored(n.table)
             /\ \A e \in Entries : e.key # k => (e \in Stored(n.table) <=> e \in Stored(d.table))
<1>1. PICK b \in 1..Len(d.table) : \E i \in 1..Len(d.table[b]) :
        b = Bucket(d.table, k) /\ d.table[b][i].key = k /\ InChain(d.table[b], k) = {i}
  BY PlaceOf
<1>2. PICK i \in 1..Len(d.table[b]) :
        b = Bucket(d.table, k) /\ d.table[b][i].key = k /\ InChain(d.table[b], k) = {i}
  BY <1>1
<1>3. (CHOOSE j \in InChain(d.table[b], k) : TRUE) = i
  BY <1>2
<1>4. d = [table |-> d.table, used |-> d.used] /\ d.table \in Tables /\ Distinct(d.table)
  BY DEF Sound
<1> DEFINE U == [d.table EXCEPT ![b][i].val = v]
<1>5. SetVal(d, k, v) = [table |-> U, used |-> d.used]
  BY <1>2, <1>3, Zenon DEF SetVal
<1>7. Updates(d.table, U, b, i, v)
  BY <1>4, Updated
<1> HIDE DEF U
<1>8. U \in Tables /\ Len(U) = Len(d.table)
  BY <1>7 DEF Updates
<1>9. PICK n : n = [table |-> U, used |-> d.used]
  OBVIOUS
<1>10. n.table = U /\ n.used = d.used /\ n = SetVal(d, k, v) /\ n = [table |-> n.table, used |-> n.used]
  BY <1>5, <1>9
<1>11. /\ Entry(k, v) \in Stored(U)
       /\ \A e \in Entries : e.key # k => (e \in Stored(U) <=> e \in Stored(d.table))
       /\ KeysIn(U) = KeysIn(d.table) /\ Distinct(U) /\ Hashed(U)
  BY <1>2, <1>4, <1>7, UpdateKeeps DEF Sound
<1>12. Sound(n)
  BY <1>8, <1>10, <1>11 DEF Sound, Size
<1> QED BY <1>10, <1>11, <1>12

(* A key that is there is taken out, and no other.                         *)
LEMMA UnlinkIs ==
  ASSUME NEW d, Sound(d), NEW k \in KeysIn(d.table)
  PROVE  LET n == Unlink(d, k)
         IN  /\ Sound(n) /\ KeysIn(n.table) = KeysIn(d.table) \ {k}
             /\ \A e \in Stored(n.table) : e \in Stored(d.table)
             /\ \E b \in 1..Len(d.table) : \E i \in 1..Len(d.table[b]) :
                  /\ b = Bucket(d.table, k) /\ d.table[b][i].key = k
                  /\ Drops(d.table, n.table, b, i)
<1>1. PICK b \in 1..Len(d.table) : \E i \in 1..Len(d.table[b]) :
        b = Bucket(d.table, k) /\ d.table[b][i].key = k /\ InChain(d.table[b], k) = {i}
  BY PlaceOf
<1>2. PICK i \in 1..Len(d.table[b]) :
        b = Bucket(d.table, k) /\ d.table[b][i].key = k /\ InChain(d.table[b], k) = {i}
  BY <1>1
<1>3. (CHOOSE j \in InChain(d.table[b], k) : TRUE) = i
  BY <1>2
<1>4. d = [table |-> d.table, used |-> d.used] /\ d.table \in Tables /\ Distinct(d.table)
  BY DEF Sound
<1> DEFINE U == [d.table EXCEPT ![b] = RemoveAt(@, i)]
<1>5. Unlink(d, k) = [table |-> U, used |-> d.used - 1]
  BY <1>2, <1>3, Zenon DEF Unlink
<1>7. Drops(d.table, U, b, i)
  BY <1>4, Dropped
<1> HIDE DEF U
<1>8. U \in Tables /\ Len(U) = Len(d.table)
  BY <1>7 DEF Drops
<1>9. PICK n : n = [table |-> U, used |-> d.used - 1]
  OBVIOUS
<1>10. n.table = U /\ n.used = d.used - 1 /\ n = Unlink(d, k) /\ n = [table |-> n.table, used |-> n.used]
  BY <1>5, <1>9
<1>11. /\ Stored(U) = Stored(d.table) \ {d.table[b][i]}
       /\ KeysIn(U) = KeysIn(d.table) \ {k} /\ Distinct(U) /\ Hashed(U)
  BY <1>2, <1>4, <1>7, DropKeeps DEF Sound
<1>12. IsFiniteSet(KeysIn(U)) /\ Cardinality(KeysIn(U)) = d.used - 1
  <2>1. PICK K : K = KeysIn(d.table)
    OBVIOUS
  <2>2. IsFiniteSet(K) /\ Cardinality(K) = d.used /\ k \in K
    BY <2>1 DEF Sound
  <2>3. IsFiniteSet(K \ {k}) /\ Cardinality(K \ {k}) = d.used - 1
    BY <2>2, FS_RemoveElement
  <2> QED BY <1>11, <2>1, <2>3
<1>13. d.used - 1 \in Nat /\ d.used - 1 <= Len(U) /\ Len(U) \in Nat
  <2>1. d.used - 1 \in Nat
    BY <1>12, FS_CardinalityType
  <2> QED BY <1>8, <2>1, Positions DEF Sound, Size
<1>14. Sound(n)
  BY <1>8, <1>10, <1>11, <1>12, <1>13 DEF Sound, Size
<1> QED BY <1>2, <1>7, <1>10, <1>11, <1>14

-----------------------------------------------------------------------------
(* The iterator.                                                           *)

Iterators == [on : BOOLEAN, index : Int, entry : Keys \cup {NULL}, nextEntry : Keys \cup {NULL}]

(* The entry given last was in the chain the iterator is at; the saved one *)
(* is there still, behind it.                                              *)
IterSound(d, it) ==
  /\ it \in Iterators
  /\ ~it.on => it = NoIterator
  /\ it.index \in -1..Size(d)
  /\ it.entry # NULL => it.index + 1 \in 1..Size(d) /\ Bucket(d.table, it.entry) = it.index + 1
  /\ it.nextEntry # NULL =>
       /\ it.entry # NULL
       /\ \E j \in 1..Len(d.table[it.index + 1]) :
            /\ d.table[it.index + 1][j].key = it.nextEntry
            /\ \A i \in 1..Len(d.table[it.index + 1]) :
                 d.table[it.index + 1][i].key = it.entry => i < j

(* The inductive invariant.                                                *)
DictInv == Sound(ht) /\ IterSound(ht, iter)

(* Position i of chain b is ahead of the iterator.                         *)
Before(d, it, b, i) ==
  b > it.index + 1 \/ (b = it.index + 1 /\ \E j \in 1..i : d.table[b][j].key = it.nextEntry)

(* k is a key the iteration has still to give.                             *)
Ahead(d, it, k) ==
  \E b \in 1..Len(d.table) : \E i \in 1..Len(d.table[b]) : d.table[b][i].key = k /\ Before(d, it, b, i)

(* Where no iteration is under way nothing is asked of the table.          *)
LEMMA NoIteratorIs ==
  ASSUME NEW d, Sound(d)
  PROVE  /\ IterSound(d, NoIterator)
         /\ IterSound(d, [NoIterator EXCEPT !.on = TRUE])
         /\ \A k \in Keys : Ahead(d, [NoIterator EXCEPT !.on = TRUE], k) <=> k \in KeysIn(d.table)
<1>1. d.table \in Tables /\ Size(d) \in Nat
  BY Positions DEF Sound, Size
<1>2. PICK it : it = [NoIterator EXCEPT !.on = TRUE]
  OBVIOUS
<1>3. it.on = TRUE /\ it.index = -1 /\ it.entry = NULL /\ it.nextEntry = NULL /\ it \in Iterators
  <2>1. it = [on |-> TRUE, index |-> -1, entry |-> NULL, nextEntry |-> NULL]
    BY <1>2 DEF NoIterator
  <2> QED BY <2>1 DEF Iterators
<1>4. NoIterator.on = FALSE /\ NoIterator.index = -1 /\ NoIterator.entry = NULL
      /\ NoIterator.nextEntry = NULL /\ NoIterator \in Iterators
  BY DEF NoIterator, Iterators
<1>5. IterSound(d, NoIterator) /\ IterSound(d, it)
  BY <1>1, <1>3, <1>4 DEF IterSound
<1>6. ASSUME NEW k \in Keys PROVE Ahead(d, it, k) <=> k \in KeysIn(d.table)
  <2>1. ASSUME Ahead(d, it, k) PROVE k \in KeysIn(d.table)
    BY <1>1, <2>1, StoredIs DEF Ahead
  <2>2. ASSUME k \in KeysIn(d.table) PROVE Ahead(d, it, k)
    <3>1. PICK b \in 1..Len(d.table) : \E i \in 1..Len(d.table[b]) : d.table[b][i].key = k
      BY <1>1, <2>2, StoredIs
    <3>2. b > it.index + 1
      BY <1>3
    <3> QED BY <3>1, <3>2 DEF Ahead, Before
  <2> QED BY <2>1, <2>2
<1> QED BY <1>2, <1>5, <1>6

(* The entry the iterator gave is deleted: the saved pointer stays good,   *)
(* and the same keys are ahead.                                            *)
LEMMA DeleteIter ==
  ASSUME NEW d, Sound(d), NEW it, IterSound(d, it), it.on,
         it.entry \in KeysIn(d.table), NEW n, n = Unlink(d, it.entry)
  PROVE  IterSound(n, it) /\ \A k \in Keys : Ahead(n, it, k) <=> Ahead(d, it, k)
<1>1. Sound(n) /\ KeysIn(n.table) = KeysIn(d.table) \ {it.entry}
  BY UnlinkIs
<1>2. d.table \in Tables /\ n.table \in Tables /\ Distinct(d.table)
  BY <1>1 DEF Sound
<1>3. PICK b \in 1..Len(d.table) : \E i \in 1..Len(d.table[b]) :
        /\ b = Bucket(d.table, it.entry) /\ d.table[b][i].key = it.entry
        /\ Drops(d.table, n.table, b, i)
  BY UnlinkIs
<1>4. PICK i \in 1..Len(d.table[b]) :
        /\ b = Bucket(d.table, it.entry) /\ d.table[b][i].key = it.entry
        /\ Drops(d.table, n.table, b, i)
  BY <1>3
<1>5. PICK T \in Tables, U \in Tables : T = d.table /\ U = n.table
  BY <1>2
<1>6. /\ Len(U) = Len(T) /\ Len(U[b]) = Len(T[b]) - 1
      /\ \A c \in 1..Len(T) : c # b => U[c] = T[c]
      /\ \A j \in 1..Len(U[b]) : U[b][j] = IF j < i THEN T[b][j] ELSE T[b][j + 1]
  BY <1>4, <1>5 DEF Drops
<1>7. Len(T) \in Nat /\ Len(T[b]) \in Nat /\ i \in 1..Len(T[b]) /\ b \in 1..Len(T)
      /\ i \in Nat /\ b \in Nat
  BY <1>5, Positions
<1>8. it.entry \in Keys /\ it.entry # NULL
  BY <1>2, StoredIs, DictAssumption
<1>9. it.index + 1 = b /\ it.index \in Int /\ it.index \in -1..Len(T)
  BY <1>4, <1>5, <1>8 DEF IterSound, Size
<1>10. \A c, e \in 1..Len(T) : \A p \in 1..Len(T[c]), q \in 1..Len(T[e]) :
         T[c][p].key = T[e][q].key => c = e /\ p = q
  BY <1>2, <1>5, DistinctIs
<1>11. \A p \in 1..Len(U[b]) : U[b][p].key # it.entry
  <2> SUFFICES ASSUME NEW p \in 1..Len(U[b]), U[b][p].key = it.entry PROVE FALSE
    OBVIOUS
  <2> QED BY <1>1, <1>5, <1>6, <1>7, StoredIs, SMTT(30)
<1>12. ASSUME it.nextEntry # NULL
       PROVE  \E j \in 1..Len(T[b]) : T[b][j].key = it.nextEntry /\ i < j
  <2>1. PICK j \in 1..Len(T[b]) : T[b][j].key = it.nextEntry
          /\ \A p \in 1..Len(T[b]) : T[b][p].key = it.entry => p < j
    BY <1>5, <1>9, <1>12 DEF IterSound
  <2> QED BY <1>4, <1>5, <1>7, <2>1
<1>13. IterSound(n, it)
  <2>1. Size(n) = Size(d) /\ Bucket(n.table, it.entry) = Bucket(d.table, it.entry)
    <3>1. Len(n.table) = Len(d.table)
      BY <1>5, <1>6
    <3> QED BY <3>1, Zenon DEF Size, Bucket
  <2>2. ASSUME it.nextEntry # NULL
        PROVE  \E j \in 1..Len(U[b]) : /\ U[b][j].key = it.nextEntry
                                       /\ \A p \in 1..Len(U[b]) : U[b][p].key = it.entry => p < j
    <3>1. PICK j \in 1..Len(T[b]) : T[b][j].key = it.nextEntry /\ i < j
      BY <1>12, <2>2
    <3>2. j - 1 \in 1..Len(U[b]) /\ U[b][j - 1] = T[b][(j - 1) + 1] /\ (j - 1) + 1 = j
      BY <1>6, <1>7, <3>1
    <3> QED BY <1>11, <3>1, <3>2
  <2> QED BY <1>5, <1>9, <2>1, <2>2 DEF IterSound
<1>14. ASSUME NEW k \in Keys, Ahead(n, it, k) PROVE Ahead(d, it, k)
  <2>1. PICK c \in 1..Len(U) : \E m \in 1..Len(U[c]) : U[c][m].key = k /\ Before(n, it, c, m)
    BY <1>5, <1>14 DEF Ahead
  <2>2. PICK m \in 1..Len(U[c]) : U[c][m].key = k /\ Before(n, it, c, m)
    BY <2>1
  <2>3. CASE c # b
    <3>1. U[c] = T[c] /\ c \in 1..Len(T) /\ c > it.index + 1
      BY <1>6, <1>9, <2>2, <2>3 DEF Before
    <3> QED BY <1>5, <2>2, <3>1 DEF Ahead, Before
  <2>4. CASE c = b
    <3>1. PICK j \in 1..m : U[b][j].key = it.nextEntry
      BY <1>5, <1>9, <2>2, <2>4 DEF Before
    <3>2. m \in Nat /\ j \in Nat /\ j \in 1..Len(U[b]) /\ m \in 1..Len(U[b])
      BY <1>6, <1>7, <2>4
    <3>3. PICK m2 \in 1..Len(T[b]) : m2 = (IF m < i THEN m ELSE m + 1) /\ U[b][m] = T[b][m2]
      BY <1>6, <1>7, <3>2, SMTT(30)
    <3>4. PICK j2 \in 1..Len(T[b]) : j2 = (IF j < i THEN j ELSE j + 1) /\ U[b][j] = T[b][j2]
      BY <1>6, <1>7, <3>2, SMTT(30)
    <3>5. j2 \in 1..m2
      BY <1>7, <3>2, <3>3, <3>4
    <3>6. Before(d, it, b, m2)
      BY <1>5, <1>9, <3>1, <3>4, <3>5 DEF Before
    <3> QED BY <1>5, <1>7, <2>2, <2>4, <3>3, <3>6 DEF Ahead
  <2> QED BY <2>3, <2>4
<1>15. ASSUME NEW k \in Keys, Ahead(d, it, k) PROVE Ahead(n, it, k)
  <2>1. PICK c \in 1..Len(T) : \E m \in 1..Len(T[c]) : T[c][m].key = k /\ Before(d, it, c, m)
    BY <1>5, <1>15 DEF Ahead
  <2>2. PICK m \in 1..Len(T[c]) : T[c][m].key = k /\ Before(d, it, c, m)
    BY <2>1
  <2>3. CASE c # b
    <3>1. U[c] = T[c] /\ c \in 1..Len(U) /\ c > it.index + 1
      BY <1>6, <1>9, <2>2, <2>3 DEF Before
    <3> QED BY <1>5, <2>2, <3>1 DEF Ahead, Before
  <2>4. CASE c = b
    <3>1. PICK j \in 1..m : T[b][j].key = it.nextEntry
      BY <1>5, <1>9, <2>2, <2>4 DEF Before
    <3>2. m \in Nat /\ j \in 1..Len(T[b])
      BY <1>7, <2>4
    <3>3. it.nextEntry # NULL
      <4>1. T[b][j].key \in Keys
        BY <1>7, <3>2, Positions
      <4> QED BY <3>1, <4>1, DictAssumption
    <3>4. i < j
      BY <1>7, <1>10, <1>12, <3>1, <3>2, <3>3
    <3>5. m - 1 \in 1..Len(U[b]) /\ U[b][m - 1] = T[b][(m - 1) + 1] /\ (m - 1) + 1 = m
      BY <1>6, <1>7, <2>4, <3>2, <3>4
    <3>6. j - 1 \in 1..(m - 1) /\ U[b][j - 1] = T[b][(j - 1) + 1] /\ (j - 1) + 1 = j
      BY <1>6, <1>7, <2>4, <3>2, <3>4
    <3>7. Before(n, it, b, m - 1)
      BY <1>5, <1>9, <3>1, <3>6 DEF Before
    <3> QED BY <1>5, <1>6, <1>7, <2>2, <2>4, <3>5, <3>7 DEF Ahead
  <2> QED BY <2>3, <2>4
<1> QED BY <1>13, <1>14, <1>15

(* The entry after the one at position p.                                  *)
LEMMA NextIs ==
  ASSUME NEW T \in Tables, Distinct(T), NEW b \in 1..Len(T), NEW p \in 1..Len(T[b])
  PROVE  NextInChain(T[b], T[b][p].key) = IF p < Len(T[b]) THEN T[b][p + 1].key ELSE NULL
<1>1. DOMAIN T[b] = 1..Len(T[b])
  BY Positions
<1>2. \A i \in 1..Len(T[b]) : T[b][i].key = T[b][p].key => i = p
  BY DistinctIs
<1>3. (CHOOSE i \in DOMAIN T[b] : T[b][i].key = T[b][p].key) = p
  BY <1>1, <1>2
<1>4. PICK k : k = T[b][p].key
  OBVIOUS
<1>5. PICK q : q = CHOOSE i \in DOMAIN T[b] : T[b][i].key = k
  BY Zenon
<1>6. NextInChain(T[b], k) = IF q < Len(T[b]) THEN T[b][q + 1].key ELSE NULL
  <2>1. NextInChain(T[b], k) = LET i == CHOOSE i \in DOMAIN T[b] : T[b][i].key = k
                               IN  IF i < Len(T[b]) THEN T[b][i + 1].key ELSE NULL
    BY Zenon DEF NextInChain
  <2> QED BY <1>5, <2>1
<1>7. q = p
  BY <1>3, <1>4, <1>5
<1> QED BY <1>4, <1>6, <1>7

(* An iterator that has moved, and one that has come to the end.           *)
Pointers == Keys \cup {NULL}
Moved(it, i, e, x) == [it EXCEPT !.index = i, !.entry = e, !.nextEntry = x]
Ended(it, i) == [it EXCEPT !.index = i, !.entry = NULL]

(* One that has given the entry at position p of chain b.                  *)
Gives(d, it, b, p) ==
  Moved(it, b - 1, d.table[b][p].key, NextInChain(d.table[b], d.table[b][p].key))

(* What is ahead of the iterator begins with, or behind, that position.    *)
From(d, it, b, p) ==
  \A c \in 1..Len(d.table) : \A m \in 1..Len(d.table[c]) :
    Before(d, it, c, m) <=> c > b \/ (c = b /\ m >= p)
Behind(d, it, b, p) ==
  \A c \in 1..Len(d.table) : \A m \in 1..Len(d.table[c]) :
    Before(d, it, c, m) <=> c > b \/ (c = b /\ m > p)

(* An iterator that gives the entry at position p of chain b, and saves    *)
(* the next one: the entries behind that position are ahead of it.         *)
LEMMA GivesAt ==
  ASSUME NEW d, Sound(d), NEW it \in Iterators, it.on,
         NEW b \in 1..Len(d.table), NEW p \in 1..Len(d.table[b]), NEW n,
         n = Gives(d, it, b, p)
  PROVE  /\ IterSound(d, n) /\ n.on /\ n.entry = d.table[b][p].key /\ n.entry # NULL
         /\ n.entry \in KeysIn(d.table)
         /\ Behind(d, n, b, p)
<1>1. d.table \in Tables /\ Distinct(d.table) /\ Hashed(d.table)
  BY DEF Sound
<1>2. PICK T \in Tables : T = d.table
  BY <1>1
<1>3. /\ Len(T) \in Nat /\ b \in 1..Len(T) /\ p \in 1..Len(T[b]) /\ Len(T[b]) \in Nat
      /\ \A c \in 1..Len(T) : Len(T[c]) \in Nat
  BY <1>2, Positions
<1>4. T[b][p].key \in Keys /\ T[b][p].key \in KeysIn(T)
  BY <1>3, Positions, StoredIs
<1>5. PICK x : x = NextInChain(T[b], T[b][p].key)
  OBVIOUS
<1>6. x = IF p < Len(T[b]) THEN T[b][p + 1].key ELSE NULL
  BY <1>1, <1>2, <1>3, <1>5, NextIs
<1>7. x \in Keys \cup {NULL}
  <2>1. p < Len(T[b]) => p + 1 \in 1..Len(T[b])
    BY <1>3
  <2>2. p < Len(T[b]) => T[b][p + 1].key \in Keys
    BY <1>3, <2>1, Positions
  <2> QED BY <1>6, <2>2
<1>8. n = Moved(it, b - 1, T[b][p].key, x)
  BY <1>2, <1>5 DEF Gives
<1>9. PICK e \in Keys : e = T[b][p].key
  BY <1>4
<1>10. /\ n \in Iterators /\ n.on /\ n.index = b - 1 /\ n.entry = e /\ n.nextEntry = x
       /\ n.index + 1 = b
  <2>1. n = Moved(it, b - 1, e, x) /\ b - 1 \in Int /\ b \in Nat
    BY <1>3, <1>8, <1>9
  <2>2. PICK i \in Int : i = b - 1 /\ i + 1 = b
    BY <2>1
  <2>3. n = Moved(it, i, e, x) /\ e \in Pointers /\ x \in Pointers
    BY <1>7, <2>1, <2>2 DEF Pointers
  <2>4. n \in Iterators /\ n.on /\ n.index = i /\ n.entry = e /\ n.nextEntry = x
    <3>1. Moved(it, i, e, x) \in Iterators
      BY <2>3 DEF Moved, Iterators, Pointers
    <3>2. Moved(it, i, e, x).on
      BY <2>3 DEF Moved, Iterators, Pointers
    <3>3. Moved(it, i, e, x).index = i
      BY <2>3 DEF Moved, Iterators, Pointers
    <3>4. Moved(it, i, e, x).entry = e
      BY <2>3 DEF Moved, Iterators, Pointers
    <3>5. Moved(it, i, e, x).nextEntry = x
      BY <2>3 DEF Moved, Iterators, Pointers
    <3> QED BY <2>3, <3>1, <3>2, <3>3, <3>4, <3>5
  <2> QED BY <2>2, <2>4
<1>11. e # NULL
  BY DictAssumption
<1>12. \A i, j \in 1..Len(T[b]) : T[b][i].key = T[b][j].key => i = j
  <2>1. \A c, d2 \in 1..Len(T) : \A i \in 1..Len(T[c]), j \in 1..Len(T[d2]) :
          T[c][i].key = T[d2][j].key => c = d2 /\ i = j
    BY <1>1, <1>2, DistinctIs
  <2> QED BY <1>3, <2>1
<1>13. \A j \in 1..Len(T[b]) : T[b][j].key = x <=> j = p + 1
  <2> SUFFICES ASSUME NEW j \in 1..Len(T[b]) PROVE T[b][j].key = x <=> j = p + 1
    OBVIOUS
  <2>1. CASE p < Len(T[b])
    <3>1. p + 1 \in 1..Len(T[b])
      BY <1>3, <2>1
    <3> QED BY <1>6, <1>12, <2>1, <3>1
  <2>2. CASE ~(p < Len(T[b]))
    <3>1. T[b][j].key \in Keys /\ j # p + 1
      BY <1>3, <2>2, Positions
    <3> QED BY <1>6, <2>2, <3>1, DictAssumption
  <2> QED BY <2>1, <2>2
<1>14. IterSound(d, n)
  <2>1. Bucket(T, e) = b
    BY <1>1, <1>2, <1>3, <1>9, HashedIs
  <2>2. ASSUME x # NULL
        PROVE  \E j \in 1..Len(T[b]) : T[b][j].key = x /\ \A i \in 1..Len(T[b]) : T[b][i].key = e => i < j
    <3>1. p + 1 \in 1..Len(T[b]) /\ p < p + 1
      BY <1>3, <1>6, <2>2
    <3>2. T[b][p + 1].key = x
      BY <1>13, <3>1
    <3>3. \A i \in 1..Len(T[b]) : T[b][i].key = e => i = p
      BY <1>3, <1>9, <1>12
    <3> QED BY <3>1, <3>2, <3>3
  <2>3. b - 1 \in -1..Len(T)
    BY <1>3
  <2>4. n.index + 1 = b /\ n.entry = e /\ n.nextEntry = x /\ n.on /\ Size(d) = Len(T) /\ n.index = b - 1
    BY <1>2, <1>10 DEF Size
  <2>5. n.nextEntry # NULL => \E j \in 1..Len(d.table[n.index + 1]) :
            /\ d.table[n.index + 1][j].key = n.nextEntry
            /\ \A i \in 1..Len(d.table[n.index + 1]) :
                 d.table[n.index + 1][i].key = n.entry => i < j
    <3>1. d.table[n.index + 1] = T[b]
      BY <1>2, <2>4
    <3> QED BY <2>2, <2>4, <3>1
  <2> QED BY <1>2, <1>3, <1>10, <1>11, <2>1, <2>3, <2>4, <2>5 DEF IterSound
<1>15. ASSUME NEW c \in 1..Len(T), NEW m \in 1..Len(T[c])
       PROVE  Before(d, n, c, m) <=> c > b \/ (c = b /\ m > p)
  <2>1. m \in Nat /\ c \in Nat
    BY <1>3
  <2>2. c = b => ((\E j \in 1..m : T[b][j].key = x) <=> m > p)
    <3> SUFFICES ASSUME c = b PROVE (\E j \in 1..m : T[b][j].key = x) <=> m > p
      OBVIOUS
    <3>1. 1..m \subseteq 1..Len(T[b])
      BY <1>3
    <3>2. (\E j \in 1..m : T[b][j].key = x) <=> p + 1 \in 1..m
      BY <1>13, <3>1
    <3>3. p \in Nat /\ m \in Nat
      BY <1>3, <2>1
    <3>4. p + 1 \in 1..m <=> m > p
      BY <3>3
    <3> QED BY <3>2, <3>4
  <2> QED BY <1>2, <1>10, <2>1, <2>2 DEF Before
<1>16. Behind(d, n, b, p)
  BY <1>2, <1>15 DEF Behind
<1> QED BY <1>2, <1>4, <1>9, <1>10, <1>11, <1>14, <1>16

(* An iterator that gives the first of the entries ahead of it: the others *)
(* are still ahead.                                                        *)
LEMMA GivesFirst ==
  ASSUME NEW d, Sound(d), NEW it \in Iterators, it.on,
         NEW b \in 1..Len(d.table), NEW p \in 1..Len(d.table[b]), NEW n,
         n = Gives(d, it, b, p),
         From(d, it, b, p)
  PROVE  /\ IterSound(d, n) /\ n.on /\ n.entry # NULL
         /\ n.entry \in KeysIn(d.table) /\ Ahead(d, it, n.entry)
         /\ \A k \in Keys : Ahead(d, n, k) <=> Ahead(d, it, k) /\ k # n.entry
<1>1. PICK T \in Tables : T = d.table /\ Distinct(T)
  BY DEF Sound
<1>2. /\ b \in 1..Len(T) /\ p \in 1..Len(T[b]) /\ Len(T) \in Nat
      /\ \A c \in 1..Len(T) : Len(T[c]) \in Nat
  BY <1>1, Positions
<1>3. PICK e : e = T[b][p].key
  OBVIOUS
<1>4. IterSound(d, n) /\ n.on /\ n.entry = e /\ n.entry # NULL /\ n.entry \in KeysIn(d.table)
  BY <1>1, <1>3, GivesAt
<1>5. \A c \in 1..Len(T) : \A m \in 1..Len(T[c]) : Before(d, n, c, m) <=> c > b \/ (c = b /\ m > p)
  <2>1. Behind(d, n, b, p)
    BY GivesAt
  <2> QED BY <1>1, <2>1 DEF Behind
<1>6. \A c \in 1..Len(T) : \A m \in 1..Len(T[c]) : Before(d, it, c, m) <=> c > b \/ (c = b /\ m >= p)
  BY <1>1 DEF From
<1>7. \A c \in 1..Len(T) : \A m \in 1..Len(T[c]) : T[c][m].key = e => c = b /\ m = p
  BY <1>1, <1>2, <1>3, DistinctIs
<1>8. Ahead(d, it, n.entry)
  <2>1. Before(d, it, b, p)
    BY <1>2, <1>6
  <2> QED BY <1>1, <1>2, <1>3, <1>4, <2>1 DEF Ahead
<1>9. ASSUME NEW c \in 1..Len(T), NEW m \in 1..Len(T[c])
      PROVE  Before(d, n, c, m) <=> Before(d, it, c, m) /\ T[c][m].key # e
  <2>1. c \in Nat /\ m \in Nat /\ b \in Nat /\ p \in Nat
    BY <1>2
  <2>2. Before(d, n, c, m) <=> c > b \/ (c = b /\ m > p)
    BY <1>5
  <2>3. Before(d, it, c, m) <=> c > b \/ (c = b /\ m >= p)
    BY <1>6
  <2>4. T[c][m].key = e <=> c = b /\ m = p
    BY <1>3, <1>7
  <2> QED BY <2>1, <2>2, <2>3, <2>4
<1>10. ASSUME NEW k \in Keys PROVE Ahead(d, n, k) <=> Ahead(d, it, k) /\ k # e
  <2>1. Ahead(d, n, k) <=> \E c \in 1..Len(T) : \E m \in 1..Len(T[c]) : T[c][m].key = k /\ Before(d, n, c, m)
    BY <1>1 DEF Ahead
  <2>2. Ahead(d, it, k) <=> \E c \in 1..Len(T) : \E m \in 1..Len(T[c]) : T[c][m].key = k /\ Before(d, it, c, m)
    BY <1>1 DEF Ahead
  <2> QED BY <1>9, <2>1, <2>2
<1> QED BY <1>4, <1>8, <1>10

(* A step gives an entry that was ahead and leaves the others ahead; it    *)
(* gives none only when there is none.                                     *)
LEMMA StepIs ==
  ASSUME NEW d, Sound(d), NEW it, IterSound(d, it), it.on, NEW n, n = IteratorStep(d, it)
  PROVE  /\ IterSound(d, n) /\ n.on
         /\ \/ /\ n.entry # NULL /\ n.entry \in KeysIn(d.table) /\ Ahead(d, it, n.entry)
               /\ \A k \in Keys : Ahead(d, n, k) <=> Ahead(d, it, k) /\ k # n.entry
            \/ n.entry = NULL /\ \A k \in Keys : ~Ahead(d, it, k) /\ ~Ahead(d, n, k)
<1>1. PICK T \in Tables : T = d.table /\ Distinct(T)
  BY DEF Sound
<1>2. /\ Len(T) \in Nat /\ Size(d) = Len(T)
      /\ \A c \in 1..Len(T) : Len(T[c]) \in Nat
      /\ \A c \in 1..Len(T) : \A m \in 1..Len(T[c]) : T[c][m].key \in Keys /\ T[c][m].key # NULL
  BY <1>1, Positions, DictAssumption DEF Size
<1>3. it \in Iterators /\ it.index \in -1..Len(T)
  BY <1>2 DEF IterSound
<1> DEFINE Later == {i \in 0..(Len(T) - 1) : i > it.index /\ T[i + 1] # <<>>}
<1>4. CASE it.nextEntry # NULL
  <2>1. PICK b : b = it.index + 1
    OBVIOUS
  <2>2. b \in 1..Len(T) /\ b - 1 = it.index
    BY <1>2, <1>3, <1>4, <2>1 DEF IterSound
  <2>3. PICK p \in 1..Len(T[b]) : T[b][p].key = it.nextEntry
    BY <1>1, <1>4, <2>1 DEF IterSound
  <2>4. n = Moved(it, b - 1, T[b][p].key, NextInChain(T[b], T[b][p].key))
    <3>1. IteratorStep(d, it) = Moved(it, it.index, it.nextEntry,
                                      NextInChain(d.table[it.index + 1], it.nextEntry))
      BY <1>4, Zenon DEF IteratorStep, Moved
    <3> QED BY <1>1, <2>1, <2>2, <2>3, <3>1
  <2>5. ASSUME NEW c \in 1..Len(T), NEW m \in 1..Len(T[c])
        PROVE  Before(d, it, c, m) <=> c > b \/ (c = b /\ m >= p)
    <3>1. c \in Nat /\ m \in Nat /\ b \in Nat /\ p \in Nat
      BY <1>2, <2>2
    <3>2. c = b => ((\E j \in 1..m : T[b][j].key = it.nextEntry) <=> m >= p)
      <4> SUFFICES ASSUME c = b PROVE (\E j \in 1..m : T[b][j].key = it.nextEntry) <=> m >= p
        OBVIOUS
      <4>1. 1..m \subseteq 1..Len(T[b])
        BY <1>2, <2>2
      <4>2. \A j \in 1..m : T[b][j].key = it.nextEntry <=> j = p
        BY <1>1, <2>2, <2>3, <4>1, DistinctIs
      <4> QED BY <3>1, <4>2
    <3> QED BY <1>1, <2>1, <3>1, <3>2 DEF Before
  <2>6. From(d, it, b, p)
    BY <1>1, <2>5 DEF From
  <2>7. /\ b \in 1..Len(d.table) /\ p \in 1..Len(d.table[b])
        /\ n = Gives(d, it, b, p)
    BY <1>1, <2>2, <2>4 DEF Gives
  <2> QED BY <1>3, <2>6, <2>7, GivesFirst
<1>5. CASE it.nextEntry = NULL /\ Later # {}
  <2>1. PICK q \in Later : \A j \in Later : q <= j
    <3>1. Later \subseteq Nat
      OBVIOUS
    <3> HIDE DEF Later
    <3> QED BY <1>5, <3>1, LeastNat
  <2>2. q \in 0..(Len(T) - 1) /\ q > it.index /\ T[q + 1] # <<>>
    BY <2>1
  <2>3. PICK b \in 1..Len(T) : b = q + 1 /\ q = b - 1
    BY <1>2, <2>2
  <2>4. Len(T[b]) > 0 /\ 1 \in 1..Len(T[b])
    <3>1. T[b] \in Seq(Entries) /\ T[b] # <<>>
      BY <2>2, <2>3, Positions
    <3> QED BY <3>1, EmptySeq, <1>2
  <2>5. (CHOOSE i \in Later : \A j \in Later : i <= j) = q
    BY <2>1
  <2>6. n = Moved(it, b - 1, T[b][1].key, NextInChain(T[b], T[b][1].key))
    <3> DEFINE later == {i \in 0..(Size(d) - 1) : i > it.index /\ d.table[i + 1] # <<>>}
               index == CHOOSE i \in later : \A j \in later : i <= j
    <3>1. later = Later
      BY <1>1, <1>2
    <3>2. IteratorStep(d, it) = Moved(it, index, d.table[index + 1][1].key,
                                      NextInChain(d.table[index + 1], d.table[index + 1][1].key))
      <4>1. later # {}
        BY <1>5, <3>1
      <4> QED BY <1>5, <4>1, Zenon DEF IteratorStep, Moved
    <3>3. index = q
      BY <2>5, <3>1
    <3> HIDE DEF index
    <3> QED BY <1>1, <2>3, <3>2, <3>3
  <2>7. ASSUME NEW c \in 1..Len(T), NEW m \in 1..Len(T[c])
        PROVE  Before(d, it, c, m) <=> c > b \/ (c = b /\ m >= 1)
    <3>1. c \in Nat /\ m \in Nat /\ b \in Nat /\ m >= 1
      BY <1>2
    <3>2. Before(d, it, c, m) <=> c > it.index + 1
      <4>1. 1..m \subseteq 1..Len(T[c])
        BY <1>2
      <4>2. ~\E j \in 1..m : T[c][j].key = it.nextEntry
        BY <1>2, <1>5, <4>1
      <4> QED BY <1>1, <4>2 DEF Before
    <3>3. c > it.index + 1 => c - 1 \in Later
      <4>1. T[c] # <<>>
        BY <1>2
      <4>2. c - 1 \in 0..(Len(T) - 1) /\ (c - 1) + 1 = c
        BY <1>2
      <4> QED BY <1>3, <4>1, <4>2
    <3>4. c > it.index + 1 <=> c >= b
      <4>1. c > it.index + 1 => c >= b
        BY <2>1, <2>3, <3>1, <3>3
      <4> QED BY <1>3, <2>2, <2>3, <3>1, <4>1
    <3> QED BY <3>1, <3>2, <3>4
  <2>8. From(d, it, b, 1)
    BY <1>1, <2>7 DEF From
  <2>9. /\ b \in 1..Len(d.table) /\ 1 \in 1..Len(d.table[b])
        /\ n = Gives(d, it, b, 1)
    BY <1>1, <2>4, <2>6 DEF Gives
  <2> QED BY <1>3, <2>8, <2>9, GivesFirst
<1>6. CASE it.nextEntry = NULL /\ Later = {}
  <2>1. n = Ended(it, Len(T))
    <3>1. {i \in 0..(Size(d) - 1) : i > it.index /\ d.table[i + 1] # <<>>} = {}
      BY <1>1, <1>2, <1>6
    <3>2. IteratorStep(d, it) = Ended(it, Size(d))
      BY <1>6, <3>1, Zenon DEF IteratorStep, Ended
    <3> QED BY <1>2, <3>2
  <2>2. n \in Iterators /\ n.on /\ n.index = Len(T) /\ n.entry = NULL /\ n.nextEntry = NULL
    <3>1. PICK i \in Int : i = Len(T)
      BY <1>2
    <3>2. n = Ended(it, i)
      BY <2>1, <3>1
    <3>3. it.nextEntry = NULL
      BY <1>6
    <3>4. n \in Iterators /\ n.on /\ n.index = i /\ n.entry = NULL /\ n.nextEntry = it.nextEntry
      <4>1. n \in Iterators
        BY <1>3, <3>2 DEF Ended, Iterators
      <4>2. n.on
        BY <1>3, <3>2 DEF Ended, Iterators
      <4>3. n.index = i
        BY <1>3, <3>2 DEF Ended, Iterators
      <4>4. n.entry = NULL
        BY <1>3, <3>2 DEF Ended, Iterators
      <4>5. n.nextEntry = it.nextEntry
        BY <1>3, <3>2 DEF Ended, Iterators
      <4> QED BY <4>1, <4>2, <4>3, <4>4, <4>5
    <3> QED BY <3>1, <3>3, <3>4
  <2>3. IterSound(d, n)
    BY <1>2, <2>2 DEF IterSound
  <2>4. ASSUME NEW c \in 1..Len(T), NEW m \in 1..Len(T[c])
        PROVE  ~Before(d, it, c, m) /\ ~Before(d, n, c, m)
    <3>1. ~\E j \in 1..m : T[c][j].key = NULL
      <4>1. 1..m \subseteq 1..Len(T[c])
        BY <1>2
      <4> QED BY <1>2, <4>1
    <3>2. ~(c > it.index + 1)
      <4>1. Len(T[c]) # 0 /\ c - 1 \notin Later
        <5>1. Len(T[c]) \in Nat /\ m \in 1..Len(T[c])
          BY <1>2
        <5> HIDE DEF Later
        <5> QED BY <1>6, <5>1
      <4>2. c - 1 \in 0..(Len(T) - 1) /\ (c - 1) + 1 = c
        BY <1>2
      <4>3. T[c] # <<>>
        BY <4>1
      <4> QED BY <1>3, <4>1, <4>2, <4>3
    <3> QED BY <1>1, <1>2, <1>6, <2>2, <3>1, <3>2 DEF Before
  <2>5. \A k \in Keys : ~Ahead(d, it, k) /\ ~Ahead(d, n, k)
    BY <1>1, <2>4 DEF Ahead
  <2> QED BY <2>2, <2>3, <2>5
<1> QED BY <1>4, <1>5, <1>6

-----------------------------------------------------------------------------
(* The invariant.                                                          *)

(* An empty table is sound.                                                *)
LEMMA ResetIs == Sound(_dictReset) /\ KeysIn(_dictReset.table) = {} /\ Stored(_dictReset.table) = {}
<1>1. PICK U : U = [i \in 1..0 |-> <<>>]
  OBVIOUS
<1>2. U \in Tables /\ Len(U) = 0 /\ Stored(U) = {} /\ KeysIn(U) = {} /\ Distinct(U) /\ Hashed(U)
  BY <1>1, EmptyTable
<1>3. U = <<>>
  BY <1>2, EmptySeq DEF Tables
<1>4. _dictReset.table = U /\ _dictReset.used = 0 /\ _dictReset = [table |-> U, used |-> 0]
  BY <1>3 DEF _dictReset
<1>5. IsFiniteSet(KeysIn(U)) /\ Cardinality(KeysIn(U)) = 0
  BY <1>2, FS_EmptySet
<1>6. PICK d : d = _dictReset
  OBVIOUS
<1>7. d.table = U /\ d.used = 0 /\ d = [table |-> d.table, used |-> d.used] /\ Size(d) = 0
  BY <1>2, <1>4, <1>6 DEF Size
<1>8. Sound(d)
  <2>1. /\ d.table \in Tables /\ Distinct(d.table) /\ Hashed(d.table)
        /\ IsFiniteSet(KeysIn(d.table)) /\ Cardinality(KeysIn(d.table)) = d.used
    BY <1>2, <1>5, <1>7, Zenon
  <2>2. d.used \in Nat /\ d.used <= Size(d) /\ Size(d) = 0
    BY <1>7
  <2> QED BY <1>7, <2>1, <2>2, Zenon DEF Sound
<1> QED BY <1>2, <1>4, <1>6, <1>8

(* dictReplace: the addition succeeds, or fails for lack of memory, or     *)
(* finds the key there and overwrites its value.                           *)
LEMMA ReplaceIs ==
  ASSUME NEW d, Sound(d), NEW k \in Keys, NEW v \in Vals, NEW memory \in Memory, NEW added,
         added = dictAdd(d, k, v, memory), added.ret = "err", dictFind(added.ht, k) # NULL
  PROVE  LET n == SetVal(added.ht, k, v)
         IN  /\ Sound(n) /\ KeysIn(n.table) = KeysIn(d.table) /\ k \in KeysIn(d.table)
             /\ Entry(k, v) \in Stored(n.table)
             /\ \A e \in Entries : e.key # k => (e \in Stored(n.table) <=> e \in Stored(d.table))
<1>1. Sound(added.ht) /\ Stored(added.ht.table) = Stored(d.table)
  BY AddIs
<1>2. KeysIn(added.ht.table) = KeysIn(d.table)
  BY <1>1, Zenon DEF KeysIn
<1>3. k \in KeysIn(added.ht.table)
  BY <1>1, FindIs
<1> QED BY <1>1, <1>2, <1>3, SetValIs

(* The empty dictionary satisfies the invariant.                           *)
LEMMA InitInv == Init => DictInv
  BY ResetIs, NoIteratorIs DEF Init, DictInv

(* Every operation keeps the invariant: the ones that reorder or move      *)
(* entries run only while no iterator is in use, and a deletion under an   *)
(* iterator is of the entry it gave (DeleteIter).                          *)
LEMMA StepInv == DictInv /\ [Next]_dvars => DictInv'
<1> SUFFICES ASSUME DictInv, [Next]_dvars PROVE Sound(ht') /\ IterSound(ht', iter')
  BY DEF DictInv
<1>1. Sound(ht) /\ IterSound(ht, iter)
  BY DEF DictInv
<1>2. ~iter.on => iter = NoIterator
  BY <1>1 DEF IterSound
<1>3. ASSUME NEW k \in Keys, NEW v \in Vals, Add(k, v) PROVE Sound(ht') /\ IterSound(ht', iter')
  <2>1. PICK memory \in Memory : \E added \in {dictAdd(ht, k, v, memory)} : ht' = added.ht
    BY <1>3, Zenon DEF Add
  <2>2. ~iter.on /\ iter' = iter
    BY <1>3 DEF Add
  <2>3. Sound(ht')
    BY <1>1, <2>1, AddIs
  <2> QED BY <1>2, <2>2, <2>3, NoIteratorIs
<1>4. ASSUME NEW k \in Keys, NEW v \in Vals, dictReplace(k, v) PROVE Sound(ht') /\ IterSound(ht', iter')
  <2>1. PICK memory \in Memory : \E added \in {dictAdd(ht, k, v, memory)} :
          \/ ht' = added.ht
          \/ added.ret = "err" /\ dictFind(added.ht, k) # NULL /\ ht' = SetVal(added.ht, k, v)
    BY <1>4, Zenon DEF dictReplace
  <2>2. PICK added : /\ added = dictAdd(ht, k, v, memory)
                     /\ \/ ht' = added.ht
                        \/ added.ret = "err" /\ dictFind(added.ht, k) # NULL /\ ht' = SetVal(added.ht, k, v)
    BY <2>1, Zenon
  <2>3. ~iter.on /\ iter' = iter
    BY <1>4 DEF dictReplace
  <2>4. CASE ht' = added.ht
    <3>1. Sound(ht')
      BY <1>1, <2>2, <2>4, AddIs
    <3> QED BY <1>2, <2>3, <3>1, NoIteratorIs
  <2>5. CASE added.ret = "err" /\ dictFind(added.ht, k) # NULL /\ ht' = SetVal(added.ht, k, v)
    <3>1. Sound(ht')
      BY <1>1, <2>2, <2>5, ReplaceIs
    <3> QED BY <1>2, <2>3, <3>1, NoIteratorIs
  <2> QED BY <2>2, <2>4, <2>5
<1>5. ASSUME NEW k \in Keys, dictDelete(k) PROVE Sound(ht') /\ IterSound(ht', iter')
  <2>1. iter' = iter
    BY <1>5 DEF dictDelete
  <2>2. CASE ht' = ht
    BY <1>1, <2>1, <2>2
  <2>3. CASE dictFind(ht, k) # NULL /\ ht' = Unlink(ht, k)
    <3>1. k \in KeysIn(ht.table)
      BY <1>1, <2>3, FindIs
    <3>2. Sound(ht')
      BY <1>1, <2>3, <3>1, UnlinkIs
    <3>3. CASE ~iter.on
      BY <1>2, <2>1, <3>2, <3>3, NoIteratorIs
    <3>4. CASE iter.on
      <4>1. k = iter.entry
        BY <1>5, <3>4 DEF dictDelete
      <4> QED BY <1>1, <2>1, <2>3, <3>1, <3>2, <3>4, <4>1, DeleteIter
    <3> QED BY <3>3, <3>4
  <2> QED BY <1>5, <2>2, <2>3 DEF dictDelete
<1>6. ASSUME NEW k \in Keys, Find(k) PROVE Sound(ht') /\ IterSound(ht', iter')
  BY <1>1, <1>6 DEF Find
<1>7. CASE _dictClear
  <2>1. Sound(ht') /\ ~iter.on /\ iter' = iter
    BY <1>7, ResetIs DEF _dictClear
  <2> QED BY <1>2, <2>1, NoIteratorIs
<1>8. CASE dictGetIterator
  <2>1. ht' = ht /\ (iter' = iter \/ iter' = [NoIterator EXCEPT !.on = TRUE])
    BY <1>8 DEF dictGetIterator
  <2> QED BY <1>1, <2>1, NoIteratorIs
<1>9. CASE dictNext
  BY <1>1, <1>9, StepIs DEF dictNext
<1>10. CASE dictReleaseIterator
  BY <1>1, <1>10, NoIteratorIs DEF dictReleaseIterator
<1>11. CASE UNCHANGED dvars
  BY <1>1, <1>11 DEF dvars
<1> QED BY <1>3, <1>4, <1>5, <1>6, <1>7, <1>8, <1>9, <1>10, <1>11 DEF Next

(* The keys of the invariant are the keys in the table.                    *)
LEMMA AllKeysIs == ASSUME Sound(ht) PROVE AllKeys = KeysIn(ht.table)
<1>1. PICK T \in Tables : T = ht.table
  BY DEF Sound
<1>2. DOMAIN T = 1..Len(T) /\ \A b \in 1..Len(T) : DOMAIN T[b] = 1..Len(T[b])
  BY Positions
<1>3. \A k : k \in AllKeys <=> \E b \in DOMAIN T : \E i \in DOMAIN T[b] : k = T[b][i].key
  <2> SUFFICES ASSUME NEW k
               PROVE  k \in AllKeys <=> \E b \in DOMAIN T : \E i \in DOMAIN T[b] : k = T[b][i].key
    OBVIOUS
  <2>1. \A b \in DOMAIN T : k \in KeysOf(T[b]) <=> \E i \in DOMAIN T[b] : k = T[b][i].key
    BY DEF KeysOf
  <2>2. k \in AllKeys <=> \E b \in DOMAIN T : k \in KeysOf(T[b])
    BY <1>1 DEF AllKeys
  <2> QED BY <2>1, <2>2, Zenon
<1>4. \A k : k \in AllKeys <=> \E b \in 1..Len(T) : \E i \in 1..Len(T[b]) : T[b][i].key = k
  BY <1>2, <1>3
<1>5. \A k : k \in KeysIn(T) <=> \E b \in 1..Len(T) : \E i \in 1..Len(T[b]) : T[b][i].key = k
  BY StoredIs
<1> QED BY <1>1, <1>4, <1>5

(* The invariant gives the property the runs check.                        *)
LEMMA InvImplies == DictInv => TableIsSound
<1> SUFFICES ASSUME DictInv PROVE TableIsSound
  OBVIOUS
<1>1. Sound(ht) /\ IterSound(ht, iter)
  BY DEF DictInv
<1>2. PICK T \in Tables : T = ht.table /\ Distinct(T) /\ Hashed(T)
  BY <1>1 DEF Sound
<1>3. DOMAIN T = 1..Len(T) /\ \A b \in 1..Len(T) : DOMAIN T[b] = 1..Len(T[b])
  BY Positions
<1>4. ASSUME NEW b \in DOMAIN T, NEW i \in DOMAIN T[b]
      PROVE  /\ T[b][i].key \in Keys /\ T[b][i].val \in Vals
             /\ Bucket(T, T[b][i].key) = b
             /\ \A j \in DOMAIN T[b] : T[b][i].key = T[b][j].key => i = j
  <2>1. b \in 1..Len(T) /\ i \in 1..Len(T[b])
    BY <1>3
  <2>2. T[b][i] \in Entries
    BY <2>1, Positions
  <2>3. T[b][i].key \in Keys /\ T[b][i].val \in Vals
    BY <2>2 DEF Entries
  <2>4. Bucket(T, T[b][i].key) = b
    BY <1>2 DEF Hashed
  <2>5. \A j \in DOMAIN T[b] : T[b][i].key = T[b][j].key => i = j
    BY <1>2, <1>3, <2>1, DistinctIs
  <2> QED BY <2>3, <2>4, <2>5
<1>5. ht.used = Cardinality(AllKeys) /\ ht.used <= Size(ht)
  BY <1>1, AllKeysIs DEF Sound
<1>6. Size(ht) # 0 => \E i \in 0..Size(ht) : Size(ht) = INITIAL_SIZE * 2^i
  BY <1>1 DEF Sound, IsSize
<1>7. ASSUME iter.nextEntry # NULL PROVE iter.nextEntry \in KeysOf(ht.table[iter.index + 1])
  <2>1. PICK b : b = iter.index + 1
    OBVIOUS
  <2>2. b \in 1..Len(T)
    BY <1>1, <1>2, <1>7, <2>1 DEF IterSound, Size
  <2>3. PICK j \in 1..Len(T[b]) : T[b][j].key = iter.nextEntry
    BY <1>1, <1>2, <1>7, <2>1 DEF IterSound
  <2>4. j \in DOMAIN T[b]
    BY <1>3, <2>2
  <2> QED BY <1>2, <2>1, <2>3, <2>4, Zenon DEF KeysOf
<1> QED BY <1>2, <1>4, <1>5, <1>6, <1>7, Zenon DEF TableIsSound

(* The hash table is always sound, for every hash function, set of keys    *)
(* and failure of an allocation: dictExpand loses and doubles no entry,    *)
(* the table grows in time, used counts its entries, and the pointer the   *)
(* iterator saved is to an entry that is still in its chain.               *)
THEOREM TableAlwaysSound == Spec => []TableIsSound
<1>1. Spec => []DictInv
  BY InitInv, StepInv, PTL DEF Spec
<1> QED BY <1>1, InvImplies, PTL

-----------------------------------------------------------------------------
(* The map the table implements.                                           *)

MapOf(d) == [k \in KeysIn(d.table) |-> dictFind(d, k)]
TodoOf(d, it) == IF it.on THEN {k \in Keys : Ahead(d, it, k)} ELSE NULL
Put(m, k, v) == [x \in DOMAIN m \cup {k} |-> IF x = k THEN v ELSE m[x]]
Cut(m, k) == [x \in DOMAIN m \ {k} |-> m[x]]
GivenOf(d, it) == IF it.entry \in KeysIn(d.table) THEN it.entry ELSE NULL

(* A key whose entries are also in another table has the same value there. *)
LEMMA SameValue ==
  ASSUME NEW d, Sound(d), NEW n, Sound(n), NEW k \in KeysIn(n.table),
         \A e \in Stored(n.table) : e.key = k => e \in Stored(d.table)
  PROVE  dictFind(n, k) = dictFind(d, k)
<1>1. PICK e \in Stored(n.table) : e.key = k
  BY DEF KeysIn
<1>2. e \in Stored(d.table) /\ e \in Entries
  BY <1>1 DEF Stored
<1>3. k \in Keys /\ e.val \in Vals /\ e = Entry(k, e.val)
  BY <1>1, <1>2 DEF Entries, Entry
<1>4. PICK v \in Vals : v = e.val
  BY <1>3
<1>5. Entry(k, v) \in Stored(n.table) /\ Entry(k, v) \in Stored(d.table)
  BY <1>2, <1>3, <1>4
<1> QED BY <1>3, <1>5, FindIs

(* Tables with the same entries are the same map.                          *)
LEMMA SameMap ==
  ASSUME NEW d, Sound(d), NEW n, Sound(n), Stored(n.table) = Stored(d.table)
  PROVE  MapOf(n) = MapOf(d) /\ KeysIn(n.table) = KeysIn(d.table)
<1>1. KeysIn(n.table) = KeysIn(d.table)
  BY Zenon DEF KeysIn
<1>2. \A k \in KeysIn(n.table) : dictFind(n, k) = dictFind(d, k)
  BY SameValue
<1> QED BY <1>1, <1>2, Zenon DEF MapOf

(* A new entry, and a new value for an old one.                            *)
LEMMA WithMap ==
  ASSUME NEW d, Sound(d), NEW n, Sound(n), NEW k \in Keys, NEW v \in Vals,
         KeysIn(n.table) = KeysIn(d.table) \cup {k}, Entry(k, v) \in Stored(n.table),
         \A e \in Entries : e.key # k => (e \in Stored(n.table) <=> e \in Stored(d.table))
  PROVE  MapOf(n) = Put(MapOf(d), k, v)
<1>1. DOMAIN MapOf(d) = KeysIn(d.table)
  BY DEF MapOf
<1>2. dictFind(n, k) = v
  BY FindIs
<1>3. ASSUME NEW x \in KeysIn(n.table), x # k PROVE dictFind(n, x) = MapOf(d)[x]
  <2>1. \A e \in Stored(n.table) : e.key = x => e \in Stored(d.table)
    BY <1>3 DEF Stored
  <2>2. dictFind(n, x) = dictFind(d, x)
    BY <2>1, SameValue
  <2>3. x \in KeysIn(d.table)
    BY <1>3
  <2> QED BY <2>2, <2>3 DEF MapOf
<1>4. \A x \in KeysIn(n.table) : dictFind(n, x) = IF x = k THEN v ELSE MapOf(d)[x]
  BY <1>2, <1>3
<1>5. MapOf(n) = [x \in KeysIn(n.table) |-> IF x = k THEN v ELSE MapOf(d)[x]]
  BY <1>4, Zenon DEF MapOf
<1> QED BY <1>1, <1>5, Zenon DEF Put

(* dictAdd of a new entry is Put.                                          *)
LEMMA AddMap ==
  ASSUME NEW d, Sound(d), NEW n, Sound(n), NEW k \in Keys, NEW v \in Vals,
         Stored(n.table) = Stored(d.table) \cup {Entry(k, v)}
  PROVE  MapOf(n) = Put(MapOf(d), k, v)
<1>1. Entry(k, v).key = k
  BY EntryIs
<1>2. KeysIn(n.table) = KeysIn(d.table) \cup {k}
  BY <1>1 DEF KeysIn
<1>3. \A e \in Entries : e.key # k => (e \in Stored(n.table) <=> e \in Stored(d.table))
  BY <1>1
<1>4. Entry(k, v) \in Stored(n.table)
  OBVIOUS
<1> QED BY <1>2, <1>3, <1>4, WithMap

(* An entry is deleted.                                                    *)
LEMMA WithoutMap ==
  ASSUME NEW d, Sound(d), NEW k \in KeysIn(d.table)
  PROVE  MapOf(Unlink(d, k)) = Cut(MapOf(d), k)
<1>1. PICK n : n = Unlink(d, k)
  OBVIOUS
<1>2. Sound(n) /\ KeysIn(n.table) = KeysIn(d.table) \ {k} /\ \A e \in Stored(n.table) : e \in Stored(d.table)
  BY <1>1, UnlinkIs
<1>3. \A x \in KeysIn(n.table) : dictFind(n, x) = dictFind(d, x)
  BY <1>2, SameValue
<1>4. DOMAIN MapOf(d) = KeysIn(d.table) /\ \A x \in KeysIn(d.table) : MapOf(d)[x] = dictFind(d, x)
  BY DEF MapOf
<1>5. \A x \in KeysIn(n.table) : dictFind(n, x) = MapOf(d)[x]
  BY <1>2, <1>3, <1>4
<1>6. MapOf(n) = [x \in KeysIn(n.table) |-> MapOf(d)[x]]
  BY <1>5, Zenon DEF MapOf
<1> QED BY <1>1, <1>2, <1>4, <1>6, Zenon DEF Cut

(* The keys that Rest has, of any table: those from x on in chain b, and   *)
(* those of the chains behind it.                                          *)
RestAt(T, b, x) ==
  LET at == CHOOSE i \in DOMAIN T[b] : T[b][i].key = x
  IN  (IF x = NULL THEN {} ELSE {T[b][i].key : i \in at..Len(T[b])})
        \union UNION {KeysOf(T[c]) : c \in {y \in DOMAIN T : y > b}}
RestOf(d, it) == RestAt(d.table, it.index + 1, it.nextEntry)

(* It holds the keys that are ahead of the iterator.                       *)
LEMMA RestIs ==
  ASSUME NEW d, Sound(d), NEW it, IterSound(d, it)
  PROVE  RestOf(d, it) = {k \in Keys : Ahead(d, it, k)}
<1>1. PICK T \in Tables : T = d.table /\ Distinct(T)
  BY DEF Sound
<1>2. /\ Len(T) \in Nat /\ Size(d) = Len(T) /\ DOMAIN T = 1..Len(T)
      /\ \A c \in 1..Len(T) : Len(T[c]) \in Nat /\ DOMAIN T[c] = 1..Len(T[c])
      /\ \A c \in 1..Len(T) : \A m \in 1..Len(T[c]) : T[c][m].key \in Keys /\ T[c][m].key # NULL
  BY <1>1, Positions, DictAssumption DEF Size
<1>3. PICK b : b = it.index + 1
  OBVIOUS
<1>4. it.index \in Int /\ b \in Int
  BY <1>3 DEF IterSound, Iterators
<1> DEFINE Later == UNION {KeysOf(T[c]) : c \in {x \in DOMAIN T : x > b}}
<1>5. ASSUME NEW k PROVE k \in Later <=> \E c \in 1..Len(T) : \E m \in 1..Len(T[c]) : T[c][m].key = k /\ c > b
  <2>1. \A c \in 1..Len(T) : k \in KeysOf(T[c]) <=> \E m \in 1..Len(T[c]) : T[c][m].key = k
    <3> SUFFICES ASSUME NEW c \in 1..Len(T)
                 PROVE  k \in KeysOf(T[c]) <=> \E m \in 1..Len(T[c]) : T[c][m].key = k
      OBVIOUS
    <3>1. DOMAIN T[c] = 1..Len(T[c])
      BY <1>2
    <3> QED BY <3>1 DEF KeysOf
  <2>2. k \in Later <=> \E c \in 1..Len(T) : c > b /\ k \in KeysOf(T[c])
    BY <1>2
  <2> HIDE DEF Later
  <2> QED BY <2>1, <2>2
<1>6. \A k \in Keys : Ahead(d, it, k) <=>
        \E c \in 1..Len(T) : \E m \in 1..Len(T[c]) :
          T[c][m].key = k /\ (c > b \/ (c = b /\ \E j \in 1..m : T[c][j].key = it.nextEntry))
  BY <1>1, <1>3 DEF Ahead, Before
<1>7. CASE it.nextEntry = NULL
  <2>1. RestOf(d, it) = Later
    <3>1. RestOf(d, it) = RestAt(T, b, NULL)
      BY <1>1, <1>3, <1>7, Zenon DEF RestOf
    <3>2. RestAt(T, b, NULL) = {} \union Later
      BY Zenon DEF RestAt
    <3> HIDE DEF Later
    <3> QED BY <3>1, <3>2
  <2>2. \A c \in 1..Len(T) : \A m \in 1..Len(T[c]) : ~\E j \in 1..m : T[c][j].key = it.nextEntry
    <3> SUFFICES ASSUME NEW c \in 1..Len(T), NEW m \in 1..Len(T[c])
                 PROVE  ~\E j \in 1..m : T[c][j].key = it.nextEntry
      OBVIOUS
    <3>1. 1..m \subseteq 1..Len(T[c])
      BY <1>2
    <3> QED BY <1>2, <1>7, <3>1
  <2>3. \A k \in Keys : Ahead(d, it, k) <=> k \in Later
    <3> HIDE DEF Later
    <3> QED BY <1>5, <1>6, <2>2
  <2>4. \A k \in Later : k \in Keys
    <3> HIDE DEF Later
    <3> QED BY <1>2, <1>5
  <2> HIDE DEF Later
  <2> QED BY <2>1, <2>3, <2>4
<1>8. CASE it.nextEntry # NULL
  <2>1. b \in 1..Len(T)
    BY <1>2, <1>3, <1>8 DEF IterSound
  <2>2. PICK p \in 1..Len(T[b]) : T[b][p].key = it.nextEntry
    BY <1>1, <1>3, <1>8 DEF IterSound
  <2>3. \A j \in 1..Len(T[b]) : T[b][j].key = it.nextEntry <=> j = p
    BY <1>1, <2>1, <2>2, DistinctIs
  <2>4. (CHOOSE i \in DOMAIN T[b] : T[b][i].key = it.nextEntry) = p
    BY <1>2, <2>1, <2>3
  <2> DEFINE Chain == {T[b][i].key : i \in p..Len(T[b])}
  <2>5. RestOf(d, it) = Chain \union Later
    <3> DEFINE at == CHOOSE i \in DOMAIN T[b] : T[b][i].key = it.nextEntry
    <3>1. RestOf(d, it) = {T[b][i].key : i \in at..Len(T[b])} \union Later
      <4>1. RestOf(d, it) = RestAt(T, b, it.nextEntry)
        BY <1>1, <1>3, Zenon DEF RestOf
      <4>2. RestAt(T, b, it.nextEntry) = {T[b][i].key : i \in at..Len(T[b])} \union Later
        BY <1>8, Zenon DEF RestAt
      <4> QED BY <4>1, <4>2, Zenon
    <3> HIDE DEF at
    <3> QED BY <2>4, <3>1 DEF at
  <2>6. ASSUME NEW k PROVE k \in Chain <=> \E m \in 1..Len(T[b]) : T[b][m].key = k /\ m >= p
    <3>1. \A m : m \in p..Len(T[b]) <=> m \in 1..Len(T[b]) /\ m >= p
      BY <1>2, <2>1, <2>2
    <3> QED BY <3>1
  <2>7. \A m \in 1..Len(T[b]) : (\E j \in 1..m : T[b][j].key = it.nextEntry) <=> m >= p
    <3> SUFFICES ASSUME NEW m \in 1..Len(T[b])
                 PROVE  (\E j \in 1..m : T[b][j].key = it.nextEntry) <=> m >= p
      OBVIOUS
    <3>1. 1..m \subseteq 1..Len(T[b]) /\ m \in Nat /\ p \in Nat /\ p >= 1
      BY <1>2, <2>1
    <3>2. (\E j \in 1..m : T[b][j].key = it.nextEntry) <=> p \in 1..m
      BY <2>3, <3>1
    <3> QED BY <3>1, <3>2
  <2> HIDE DEF Chain, Later
  <2>8. ASSUME NEW k \in Keys PROVE Ahead(d, it, k) <=> k \in Chain \/ k \in Later
    <3>1. (\E c \in 1..Len(T) : \E m \in 1..Len(T[c]) :
             T[c][m].key = k /\ c = b /\ \E j \in 1..m : T[c][j].key = it.nextEntry)
          <=> k \in Chain
      BY <2>1, <2>6, <2>7
    <3> QED BY <1>5, <1>6, <3>1
  <2>9. \A k : k \in Chain \/ k \in Later => k \in Keys
    <3>1. ASSUME NEW k, k \in Chain PROVE k \in Keys
      BY <1>2, <2>1, <2>6, <3>1
    <3>2. ASSUME NEW k, k \in Later PROVE k \in Keys
      BY <1>2, <1>5, <3>2
    <3> QED BY <3>1, <3>2
  <2> QED BY <2>5, <2>8, <2>9
<1> QED BY <1>7, <1>8

(* What the refinement mapping substitutes for the variables of DictMap.   *)
Substituted ==
  /\ [k \in AllKeys |-> dictFind(ht, k)] = MapOf(ht)
  /\ (IF iter.on THEN Rest ELSE NULL) = TodoOf(ht, iter)
  /\ (IF iter.entry \in AllKeys THEN iter.entry ELSE NULL) = GivenOf(ht, iter)

(* In a state of the invariant the mapping substitutes the map, the keys   *)
(* still to give and the key given last.                                   *)
LEMMA SubstitutedIs == DictInv => Substituted
<1> SUFFICES ASSUME DictInv PROVE Substituted
  OBVIOUS
<1>1. Sound(ht) /\ IterSound(ht, iter)
  BY DEF DictInv
<1>2. AllKeys = KeysIn(ht.table)
  BY <1>1, AllKeysIs
<1>3. [k \in AllKeys |-> dictFind(ht, k)] = MapOf(ht)
  BY <1>2, Zenon DEF MapOf
<1>4. (IF iter.on THEN Rest ELSE NULL) = TodoOf(ht, iter)
  <2>1. Rest = RestOf(ht, iter)
    BY Zenon DEF Rest, RestOf, RestAt
  <2>2. Rest = {k \in Keys : Ahead(ht, iter, k)}
    BY <1>1, <2>1, RestIs
  <2> QED BY <2>2, Zenon DEF TodoOf
<1>5. (IF iter.entry \in AllKeys THEN iter.entry ELSE NULL) = GivenOf(ht, iter)
  BY <1>2, Zenon DEF GivenOf
<1> QED BY <1>3, <1>4, <1>5 DEF Substituted

(* And so it does in the next state.                                       *)
LEMMA SubstitutedPrime == DictInv' => Substituted'
<1>1. DictInv => Substituted
  BY SubstitutedIs
<1> QED BY <1>1, SubstitutedIs, PTL

(* Where no iteration is under way.                                        *)
LEMMA Idle ==
  ASSUME NEW d, Sound(d), NEW it, IterSound(d, it), ~it.on
  PROVE  TodoOf(d, it) = NULL /\ GivenOf(d, it) = NULL
<1>1. it = NoIterator /\ it.entry = NULL
  BY DEF IterSound, NoIterator
<1>2. NULL \notin KeysIn(d.table)
  BY StoredIs, DictAssumption DEF Sound
<1> QED BY <1>1, <1>2 DEF TodoOf, GivenOf

(* The empty dictionary is the empty map.                                  *)
LEMMA InitMaps == Init => Map!MapInit
<1> SUFFICES ASSUME Init PROVE Map!MapInit
  OBVIOUS
<1>1. DictInv
  BY InitInv
<1>2. Sound(ht) /\ IterSound(ht, iter) /\ ~iter.on
  BY <1>1 DEF DictInv, Init, NoIterator
<1>3. TodoOf(ht, iter) = NULL /\ GivenOf(ht, iter) = NULL
  BY <1>2, Idle
<1>4. MapOf(ht) = [x \in {} |-> x]
  <2>1. KeysIn(ht.table) = {}
    BY ResetIs DEF Init
  <2> QED BY <2>1 DEF MapOf
<1>5. Substituted
  BY <1>1, SubstitutedIs
<1> QED BY <1>3, <1>4, <1>5, Zenon DEF Map!MapInit, Substituted, Init

(* The mapping, before and after a step.                                   *)
LEMMA Mapping ==
  ASSUME DictInv, DictInv'
  PROVE  /\ [k \in AllKeys |-> dictFind(ht, k)] = MapOf(ht)
         /\ (IF iter.on THEN Rest ELSE NULL) = TodoOf(ht, iter)
         /\ (IF iter.entry \in AllKeys THEN iter.entry ELSE NULL) = GivenOf(ht, iter)
         /\ [k \in AllKeys |-> dictFind(ht, k)]' = MapOf(ht')
         /\ (IF iter.on THEN Rest ELSE NULL)' = TodoOf(ht', iter')
         /\ (IF iter.entry \in AllKeys THEN iter.entry ELSE NULL)' = GivenOf(ht', iter')
<1>1. Substituted /\ Substituted'
  BY SubstitutedIs, SubstitutedPrime
<1> QED BY <1>1, Zenon DEF Substituted

(* dictAdd is Add of the map, whatever the table does to make room, and    *)
(* when memory is short it changes nothing that can be seen.               *)
LEMMA AddMaps ==
  ASSUME DictInv, DictInv', NEW k \in Keys, NEW v \in Vals, Add(k, v)
  PROVE  Map!Add(k, v)
<1>1. Sound(ht) /\ IterSound(ht, iter) /\ Sound(ht') /\ IterSound(ht', iter') /\ ~iter.on /\ iter' = iter
  BY DEF DictInv, Add
<1>2. TodoOf(ht, iter) = NULL /\ GivenOf(ht, iter) = NULL
  BY <1>1, Idle
<1>3. TodoOf(ht', iter') = NULL /\ GivenOf(ht', iter') = NULL
  BY <1>1, Idle
<1>4. PICK memory \in Memory : \E a \in {dictAdd(ht, k, v, memory)} : ht' = a.ht /\ ret' = a.ret
  BY Zenon DEF Add
<1>5. PICK added : added = dictAdd(ht, k, v, memory) /\ ht' = added.ht /\ ret' = added.ret
  BY <1>4
<1>6. \/ ret' = "ok" /\ k \notin KeysIn(ht.table) /\ Stored(ht'.table) = Stored(ht.table) \cup {Entry(k, v)}
      \/ ret' = "err" /\ Stored(ht'.table) = Stored(ht.table)
  BY <1>1, <1>5, AddIs
<1>7. \/ ret' = "ok" /\ k \notin DOMAIN MapOf(ht) /\ MapOf(ht') = Put(MapOf(ht), k, v)
      \/ ret' = "err" /\ MapOf(ht') = MapOf(ht)
  <2>1. DOMAIN MapOf(ht) = KeysIn(ht.table)
    BY DEF MapOf
  <2> QED BY <1>1, <1>6, <2>1, AddMap, SameMap
<1> QED BY <1>2, <1>3, <1>7, Mapping, Zenon DEF Map!Add, Map!With, Put

(* dictReplace is Replace: its result tells a new key from an old one.     *)
LEMMA ReplaceMaps ==
  ASSUME DictInv, DictInv', NEW k \in Keys, NEW v \in Vals, dictReplace(k, v)
  PROVE  Map!Replace(k, v)
<1>1. Sound(ht) /\ IterSound(ht, iter) /\ Sound(ht') /\ IterSound(ht', iter') /\ ~iter.on /\ iter' = iter
  BY DEF DictInv, dictReplace
<1>2. TodoOf(ht, iter) = NULL /\ GivenOf(ht, iter) = NULL
  BY <1>1, Idle
<1>3. TodoOf(ht', iter') = NULL /\ GivenOf(ht', iter') = NULL
  BY <1>1, Idle
<1>4. PICK memory \in Memory : \E a \in {dictAdd(ht, k, v, memory)} :
        \/ a.ret = "ok" /\ ht' = a.ht /\ ret' = "1"
        \/ a.ret = "err" /\ dictFind(a.ht, k) = NULL /\ ht' = a.ht /\ ret' = "0"
        \/ a.ret = "err" /\ dictFind(a.ht, k) # NULL /\ ret' = "0" /\ ht' = SetVal(a.ht, k, v)
  BY Zenon DEF dictReplace
<1>5. PICK added : /\ added = dictAdd(ht, k, v, memory)
                   /\ \/ added.ret = "ok" /\ ht' = added.ht /\ ret' = "1"
                      \/ added.ret = "err" /\ dictFind(added.ht, k) = NULL /\ ht' = added.ht /\ ret' = "0"
                      \/ /\ added.ret = "err" /\ dictFind(added.ht, k) # NULL /\ ret' = "0"
                         /\ ht' = SetVal(added.ht, k, v)
  BY <1>4, Zenon
<1>6. /\ Sound(added.ht)
      /\ \/ /\ added.ret = "ok" /\ k \notin KeysIn(ht.table)
            /\ Stored(added.ht.table) = Stored(ht.table) \cup {Entry(k, v)}
         \/ added.ret = "err" /\ Stored(added.ht.table) = Stored(ht.table)
  BY <1>1, <1>5, AddIs
<1>7. DOMAIN MapOf(ht) = KeysIn(ht.table)
  BY DEF MapOf
<1>8. CASE added.ret = "ok" /\ ht' = added.ht /\ ret' = "1"
  <2>1. k \notin DOMAIN MapOf(ht) /\ MapOf(ht') = Put(MapOf(ht), k, v)
    BY <1>1, <1>6, <1>7, <1>8, AddMap
  <2> QED BY <1>2, <1>3, <1>8, <2>1, Mapping, Zenon DEF Map!Replace, Map!With, Put
<1>9. CASE added.ret = "err" /\ dictFind(added.ht, k) = NULL /\ ht' = added.ht /\ ret' = "0"
  <2>1. MapOf(ht') = MapOf(ht) /\ KeysIn(ht'.table) = KeysIn(ht.table)
    BY <1>1, <1>6, <1>9, SameMap
  <2>2. k \notin DOMAIN MapOf(ht)
    BY <1>1, <1>7, <1>9, <2>1, FindIs
  <2> QED BY <1>2, <1>3, <1>9, <2>1, <2>2, Mapping, Zenon DEF Map!Replace
<1>10. CASE /\ added.ret = "err" /\ dictFind(added.ht, k) # NULL /\ ret' = "0"
            /\ ht' = SetVal(added.ht, k, v)
  <2>1. /\ KeysIn(ht'.table) = KeysIn(ht.table) /\ k \in KeysIn(ht.table)
        /\ Entry(k, v) \in Stored(ht'.table)
        /\ \A e \in Entries : e.key # k => (e \in Stored(ht'.table) <=> e \in Stored(ht.table))
    BY <1>1, <1>5, <1>10, ReplaceIs
  <2>2. KeysIn(ht'.table) = KeysIn(ht.table) \cup {k}
    BY <2>1
  <2>3. k \in DOMAIN MapOf(ht) /\ MapOf(ht') = Put(MapOf(ht), k, v)
    BY <1>1, <1>7, <2>1, <2>2, WithMap
  <2> QED BY <1>2, <1>3, <1>10, <2>3, Mapping, Zenon DEF Map!Replace, Map!With, Put
<1> QED BY <1>5, <1>8, <1>9, <1>10

(* dictDelete is Delete, also of the entry the iterator gave last.         *)
LEMMA DeleteMaps ==
  ASSUME DictInv, DictInv', NEW k \in Keys, dictDelete(k)
  PROVE  Map!Delete(k)
<1>1. Sound(ht) /\ IterSound(ht, iter) /\ Sound(ht') /\ IterSound(ht', iter') /\ iter' = iter
  BY DEF DictInv, dictDelete
<1>2. k # NULL
  BY DictAssumption
<1>3. DOMAIN MapOf(ht) = KeysIn(ht.table)
  BY DEF MapOf
<1>4. CASE dictFind(ht, k) = NULL /\ ret' = "err" /\ ht' = ht
  <2>1. ~iter.on
    BY <1>4 DEF dictDelete
  <2>2. TodoOf(ht, iter) = NULL /\ GivenOf(ht, iter) = NULL
    BY <1>1, <2>1, Idle
  <2>3. TodoOf(ht', iter') = NULL /\ GivenOf(ht', iter') = NULL
    BY <1>1, <1>4, <2>2
  <2>4. k \notin DOMAIN MapOf(ht)
    BY <1>1, <1>3, <1>4, FindIs
  <2>5. MapOf(ht') = Cut(MapOf(ht), k)
    <3>1. MapOf(ht) = [x \in DOMAIN MapOf(ht) |-> MapOf(ht)[x]]
      BY DEF MapOf
    <3>2. DOMAIN MapOf(ht) \ {k} = DOMAIN MapOf(ht)
      BY <2>4
    <3> QED BY <1>4, <3>1, <3>2, Zenon DEF Cut
  <2>6. ret' = IF k \in DOMAIN MapOf(ht) THEN "ok" ELSE "err"
    BY <1>4, <2>4
  <2>7. GivenOf(ht', iter') = IF k = GivenOf(ht, iter) THEN NULL ELSE GivenOf(ht, iter)
    BY <2>2, <2>3
  <2>8. TodoOf(ht', iter') = TodoOf(ht, iter)
    BY <2>2, <2>3
  <2> QED BY <2>2, <2>5, <2>6, <2>7, <2>8, Mapping, Zenon DEF Map!Delete, Map!Without, Cut
<1>5. CASE dictFind(ht, k) # NULL /\ ret' = "ok" /\ ht' = Unlink(ht, k)
  <2>1. k \in KeysIn(ht.table) /\ k \in DOMAIN MapOf(ht)
    BY <1>1, <1>3, <1>5, FindIs
  <2>2. MapOf(ht') = Cut(MapOf(ht), k)
    BY <1>1, <1>5, <2>1, WithoutMap
  <2>3. CASE ~iter.on
    <3>1. TodoOf(ht, iter) = NULL /\ GivenOf(ht, iter) = NULL
      BY <1>1, <2>3, Idle
    <3>2. TodoOf(ht', iter') = NULL /\ GivenOf(ht', iter') = NULL
      BY <1>1, <2>3, Idle
    <3> QED BY <1>2, <1>5, <2>1, <2>2, <3>1, <3>2, Mapping, Zenon DEF Map!Delete, Map!Without, Cut
  <2>4. CASE iter.on
    <3>1. k = iter.entry
      BY <2>4 DEF dictDelete
    <3>2. GivenOf(ht, iter) = k
      BY <2>1, <3>1 DEF GivenOf
    <3>3. GivenOf(ht', iter') = NULL
      <4>1. k \notin KeysIn(ht'.table)
        BY <1>1, <1>5, <2>1, UnlinkIs
      <4> QED BY <1>1, <3>1, <4>1 DEF GivenOf
    <3>4. \A x \in Keys : Ahead(ht', iter, x) <=> Ahead(ht, iter, x)
      BY <1>1, <1>5, <2>1, <2>4, <3>1, DeleteIter
    <3>5. TodoOf(ht', iter') = TodoOf(ht, iter)
      <4>1. {x \in Keys : Ahead(ht', iter, x)} = {x \in Keys : Ahead(ht, iter, x)}
        BY <3>4
      <4> QED BY <1>1, <4>1, Zenon DEF TodoOf
    <3> QED BY <1>2, <1>5, <2>1, <2>2, <3>2, <3>3, <3>5, Mapping, Zenon DEF Map!Delete, Map!Without, Cut
  <2> QED BY <2>3, <2>4
<1> QED BY <1>4, <1>5 DEF dictDelete

(* dictFind is Find.                                                       *)
LEMMA FindMaps ==
  ASSUME DictInv, DictInv', NEW k \in Keys, Find(k)
  PROVE  Map!Find(k)
<1>1. Sound(ht) /\ ht' = ht /\ iter' = iter /\ ret' = dictFind(ht, k)
  BY DEF DictInv, Find
<1>2. MapOf(ht') = MapOf(ht) /\ TodoOf(ht', iter') = TodoOf(ht, iter) /\ GivenOf(ht', iter') = GivenOf(ht, iter)
  BY <1>1
<1>3. ret' = IF k \in DOMAIN MapOf(ht) THEN MapOf(ht)[k] ELSE NULL
  <2>1. DOMAIN MapOf(ht) = KeysIn(ht.table) /\ \A x \in KeysIn(ht.table) : MapOf(ht)[x] = dictFind(ht, x)
    BY DEF MapOf
  <2> QED BY <1>1, <2>1, FindIs
<1> QED BY <1>2, <1>3, Mapping, Zenon DEF Map!Find

(* _dictClear is Clear.                                                    *)
LEMMA ClearMaps ==
  ASSUME DictInv, DictInv', _dictClear
  PROVE  Map!Clear
<1>1. /\ Sound(ht) /\ IterSound(ht, iter) /\ Sound(ht') /\ IterSound(ht', iter')
      /\ ~iter.on /\ iter' = iter /\ ret' = "ok" /\ ht' = _dictReset
  BY DEF DictInv, _dictClear
<1>2. TodoOf(ht, iter) = NULL /\ GivenOf(ht, iter) = NULL
  BY <1>1, Idle
<1>3. TodoOf(ht', iter') = NULL /\ GivenOf(ht', iter') = NULL
  BY <1>1, Idle
<1>4. MapOf(ht') = [x \in {} |-> x]
  <2>1. KeysIn(ht'.table) = {}
    BY <1>1, ResetIs
  <2> QED BY <2>1 DEF MapOf
<1> QED BY <1>1, <1>2, <1>3, <1>4, Mapping, Zenon DEF Map!Clear

(* dictGetIterator is Iterate: every key is still to be given.             *)
LEMMA IterateMaps ==
  ASSUME DictInv, DictInv', dictGetIterator
  PROVE  Map!Iterate
<1>1. /\ Sound(ht) /\ IterSound(ht, iter) /\ Sound(ht') /\ IterSound(ht', iter')
      /\ ~iter.on /\ ht' = ht
  BY DEF DictInv, dictGetIterator
<1>2. TodoOf(ht, iter) = NULL /\ GivenOf(ht, iter) = NULL
  BY <1>1, Idle
<1>3. MapOf(ht') = MapOf(ht)
  BY <1>1
<1>4. CASE iter' = [NoIterator EXCEPT !.on = TRUE] /\ ret' = "none"
  <2>1. iter'.on /\ iter'.entry = NULL
    BY <1>4 DEF NoIterator
  <2>2. GivenOf(ht', iter') = NULL
    BY <2>1 DEF GivenOf
  <2>3. TodoOf(ht', iter') = DOMAIN MapOf(ht)
    <3>1. \A k \in Keys : Ahead(ht, iter', k) <=> k \in KeysIn(ht.table)
      BY <1>1, <1>4, NoIteratorIs
    <3>2. \A k \in KeysIn(ht.table) : k \in Keys
      BY <1>1, StoredIs DEF Sound
    <3>3. {k \in Keys : Ahead(ht, iter', k)} = KeysIn(ht.table)
      BY <3>1, <3>2
    <3>4. DOMAIN MapOf(ht) = KeysIn(ht.table)
      BY DEF MapOf
    <3> QED BY <1>1, <2>1, <3>3, <3>4, Zenon DEF TodoOf
  <2> QED BY <1>2, <1>3, <1>4, <2>2, <2>3, Mapping, Zenon DEF Map!Iterate
<1>5. CASE ret' = NULL /\ iter' = iter
  <2>1. TodoOf(ht', iter') = NULL /\ GivenOf(ht', iter') = NULL
    BY <1>1, <1>2, <1>5
  <2> QED BY <1>2, <1>3, <1>5, <2>1, Mapping, Zenon DEF Map!Iterate
<1> QED BY <1>4, <1>5 DEF dictGetIterator

(* dictNext is Give: it gives a key that was still to be given, and        *)
(* reports the end only when there is none.                                *)
LEMMA GiveMaps ==
  ASSUME DictInv, DictInv', dictNext
  PROVE  Map!Give
<1>1. /\ Sound(ht) /\ IterSound(ht, iter) /\ iter.on /\ ht' = ht
      /\ iter' = IteratorStep(ht, iter) /\ ret' = iter'.entry
  BY DEF DictInv, dictNext
<1>2. iter'.on
  BY <1>1, StepIs
<1>3. MapOf(ht') = MapOf(ht)
  BY <1>1
<1>4. PICK S \in SUBSET Keys : S = {k \in Keys : Ahead(ht, iter, k)}
  OBVIOUS
<1>5. PICK R \in SUBSET Keys : R = {k \in Keys : Ahead(ht, iter', k)}
  OBVIOUS
<1>6. TodoOf(ht, iter) = S /\ S # NULL
  BY <1>1, <1>4, DictAssumption DEF TodoOf
<1>7. TodoOf(ht', iter') = R
  BY <1>1, <1>2, <1>5, Zenon DEF TodoOf
<1>8. \/ /\ iter'.entry # NULL /\ iter'.entry \in KeysIn(ht.table) /\ Ahead(ht, iter, iter'.entry)
         /\ \A k \in Keys : Ahead(ht, iter', k) <=> Ahead(ht, iter, k) /\ k # iter'.entry
      \/ iter'.entry = NULL /\ \A k \in Keys : ~Ahead(ht, iter, k) /\ ~Ahead(ht, iter', k)
  BY <1>1, StepIs
<1>9. CASE /\ iter'.entry # NULL /\ iter'.entry \in KeysIn(ht.table) /\ Ahead(ht, iter, iter'.entry)
           /\ \A k \in Keys : Ahead(ht, iter', k) <=> Ahead(ht, iter, k) /\ k # iter'.entry
  <2>1. PICK k : k = iter'.entry
    OBVIOUS
  <2>2. k \in Keys
    BY <1>1, <1>9, <2>1, StoredIs DEF Sound
  <2>3. k \in S /\ R = S \ {k}
    BY <1>4, <1>5, <1>9, <2>1, <2>2
  <2>4. GivenOf(ht', iter') = k /\ ret' = k
    BY <1>1, <1>9, <2>1 DEF GivenOf
  <2> QED BY <1>3, <1>6, <1>7, <2>3, <2>4, Mapping, Zenon DEF Map!Give
<1>10. CASE iter'.entry = NULL /\ \A k \in Keys : ~Ahead(ht, iter, k) /\ ~Ahead(ht, iter', k)
  <2>1. S = {} /\ R = {}
    BY <1>4, <1>5, <1>10
  <2>2. GivenOf(ht', iter') = NULL /\ ret' = NULL
    BY <1>1, <1>10 DEF GivenOf
  <2> QED BY <1>3, <1>6, <1>7, <2>1, <2>2, Mapping, Zenon DEF Map!Give
<1> QED BY <1>8, <1>9, <1>10

(* dictReleaseIterator is Stop.                                            *)
LEMMA StopMaps ==
  ASSUME DictInv, DictInv', dictReleaseIterator
  PROVE  Map!Stop
<1>1. /\ Sound(ht) /\ IterSound(ht, iter) /\ Sound(ht') /\ IterSound(ht', iter')
      /\ iter.on /\ ht' = ht /\ iter' = NoIterator /\ ret' = "none"
  BY DEF DictInv, dictReleaseIterator
<1>2. TodoOf(ht', iter') = NULL /\ GivenOf(ht', iter') = NULL
  <2>1. ~iter'.on
    BY <1>1 DEF NoIterator
  <2> QED BY <1>1, <2>1, Idle
<1>3. TodoOf(ht, iter) # NULL
  <2>1. PICK S \in SUBSET Keys : S = {k \in Keys : Ahead(ht, iter, k)}
    OBVIOUS
  <2> QED BY <1>1, <2>1, DictAssumption DEF TodoOf
<1>4. MapOf(ht') = MapOf(ht)
  BY <1>1
<1> QED BY <1>1, <1>2, <1>3, <1>4, Mapping, Zenon DEF Map!Stop

(* Every step of the dictionary is a step of the map, or none.             *)
LEMMA StepMaps ==
  ASSUME DictInv, DictInv', [Next]_dvars
  PROVE  [Map!MapNext]_Map!mvars
<1>1. ASSUME NEW k \in Keys, NEW v \in Vals, Add(k, v) \/ dictReplace(k, v) PROVE Map!MapNext
  BY <1>1, AddMaps, ReplaceMaps, Zenon DEF Map!MapNext
<1>2. ASSUME NEW k \in Keys, dictDelete(k) \/ Find(k) PROVE Map!MapNext
  BY <1>2, DeleteMaps, FindMaps, Zenon DEF Map!MapNext
<1>3. CASE _dictClear
  BY <1>3, ClearMaps, Zenon DEF Map!MapNext
<1>4. CASE dictGetIterator
  BY <1>4, IterateMaps, Zenon DEF Map!MapNext
<1>5. CASE dictNext
  BY <1>5, GiveMaps, Zenon DEF Map!MapNext
<1>6. CASE dictReleaseIterator
  BY <1>6, StopMaps, Zenon DEF Map!MapNext
<1>7. CASE UNCHANGED dvars
  <2>1. ht' = ht /\ iter' = iter /\ ret' = ret
    BY <1>7 DEF dvars
  <2>2. MapOf(ht') = MapOf(ht) /\ TodoOf(ht', iter') = TodoOf(ht, iter) /\ GivenOf(ht', iter') = GivenOf(ht, iter)
    BY <2>1
  <2> QED BY <2>1, <2>2, Mapping, Zenon DEF Map!mvars
<1> QED BY <1>1, <1>2, <1>3, <1>4, <1>5, <1>6, <1>7, Zenon DEF Next

(* The hash table implements the map: what dictAdd, dictReplace,           *)
(* dictDelete and dictFind do can be told without buckets, chains or       *)
(* growth, and an iteration gives every key once although the entry just   *)
(* given may be deleted.                                                   *)
THEOREM TableImplementsMap == Spec => ImplementsMap
<1>1. Spec => []DictInv
  BY InitInv, StepInv, PTL DEF Spec
<1>2. DictInv /\ DictInv' /\ [Next]_dvars => [Map!MapNext]_Map!mvars
  BY StepMaps
<1> QED BY <1>1, <1>2, InitMaps, PTL DEF Spec, ImplementsMap, Map!MapSpec
=============================================================================
