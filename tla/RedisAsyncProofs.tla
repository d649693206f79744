-------------------------- MODULE RedisAsyncProofs --------------------------
(***************************************************************************)
(* The asynchronous context of hiredis, for every set of commands and      *)
(* channels and every order of commands: ContextIsSound, and the           *)
(* refinement of AsyncLink.                                                *)
(*                                                                         *)
(* There are two invariants.  AnyInv holds whatever webdis sends: the      *)
(* types, the callbacks a context keeps, the events it watches and the     *)
(* part of its log that is about the connection.  IInv holds while every   *)
(* command was sent as IsOrderly says, and is about the replies.           *)
(* redisProcessCallbacks knows a reply by its position only, so the        *)
(* invariant has to speak of everything between the context and the        *)
(* server: the replies on their way, then the commands on the wire, then   *)
(* those in obuf.  It says that there is a sequence of expectations along  *)
(* them (Pipeline): the first is what the context holds, each reply and    *)
(* each command changes one expectation into the next, the server's        *)
(* subscriptions are those expected where the replies end and the commands *)
(* begin, and nothing is expected behind the last command.  Reading drops  *)
(* the front of that sequence, the server replaces the step of a command   *)
(* by the steps of its replies, a new command adds to every expectation    *)
(* and takes it away again at the end, and a lost connection forgets the   *)
(* part of the commands.                                                   *)
(***************************************************************************)
EXTENDS RedisAsync, Induction, SequenceTheorems, FiniteSetTheorems, TLAPS

-----------------------------------------------------------------------------
(* Recursive functions, as runs.                                           *)

(* The contexts run[0], run[1], ... that RunAllWithNULL passes through.    *)
CallbackRun(c, cbs, run) ==
  /\ run[0] = c
  /\ \A i \in 1 .. Len(cbs) : run[i] = RunCallback(run[i - 1], cbs[i], NULL)
  /\ RunAllWithNULL(c, cbs) = run[Len(cbs)]

(* The recursive function of RunAllWithNULL has its values: the loops of   *)
(* __redisAsyncFree run the callbacks one after the other.                 *)
LEMMA RunAllSteps ==
  ASSUME NEW c, NEW cbs, Len(cbs) \in Nat
  PROVE  \E run : CallbackRun(c, cbs, run)
<1> DEFINE Sol(m, g) == g = [i \in 0 .. m |-> IF i = 0 THEN c ELSE RunCallback(g[i - 1], cbs[i], NULL)]
           P == {m \in Nat : \E g : Sol(m, g)}
<1>1. 0 \in P
  <2>1. Sol(0, [i \in 0 .. 0 |-> c])
    OBVIOUS
  <2> QED BY <2>1
<1>2. ASSUME NEW m \in Nat, m \in P PROVE m + 1 \in P
  <2>1. PICK g : Sol(m, g)
    BY <1>2
  <2> DEFINE h == [i \in 0 .. (m + 1) |-> IF i = m + 1 THEN RunCallback(g[m], cbs[(m + 1)], NULL) ELSE g[i]]
  <2>2. \A i \in 0 .. (m + 1) : h[i] = IF i = 0 THEN c ELSE RunCallback(h[i - 1], cbs[i], NULL)
    <3> SUFFICES ASSUME NEW i \in 0 .. (m + 1)
                 PROVE  h[i] = IF i = 0 THEN c ELSE RunCallback(h[i - 1], cbs[i], NULL)
      OBVIOUS
    <3>1. CASE i = 0
      BY <2>1, <3>1
    <3>2. CASE i = m + 1
      <4>1. h[i] = RunCallback(g[m], cbs[(m + 1)], NULL) /\ h[m] = g[m] /\ i - 1 = m /\ i # 0
        BY <3>2
      <4> QED BY <3>2, <4>1
    <3>3. CASE i # 0 /\ i # m + 1
      <4>1. i \in 0 .. m /\ i - 1 \in 0 .. (m + 1) /\ i - 1 # m + 1
        BY <3>3
      <4>2. h[i] = g[i] /\ h[i - 1] = g[i - 1]
        BY <3>3, <4>1
      <4>3. g[i] = RunCallback(g[i - 1], cbs[i], NULL)
        BY <2>1, <3>3, <4>1
      <4> QED BY <3>3, <4>2, <4>3
    <3> QED BY <3>1, <3>2, <3>3
  <2>3. Sol(m + 1, h)
    BY <2>2
  <2> HIDE DEF h, Sol
  <2> QED BY <2>3
<1>3. Len(cbs) \in P
  <2> HIDE DEF P
  <2> QED BY <1>1, <1>2, SetInduction
<1>4. PICK g : Sol(Len(cbs), g)
  BY <1>3
<1> DEFINE run == CHOOSE h : Sol(Len(cbs), h)
<1>5. Sol(Len(cbs), run)
  BY <1>4, Zenon
<1>6. RunAllWithNULL(c, cbs) = run[Len(cbs)]
  BY Zenon DEF RunAllWithNULL
<1> HIDE DEF run
<1>7. run[0] = c /\ \A i \in 1 .. Len(cbs) : run[i] = RunCallback(run[i - 1], cbs[i], NULL)
  BY <1>5
<1> QED BY <1>6, <1>7 DEF CallbackRun

(* The states ProcessReplies passes through, one for each reply read.      *)
ReplyRun(c, rs, run) ==
  /\ run[0] = [c |-> c, cb |-> NoCallback]
  /\ \A i \in 1 .. Len(rs) : run[i] = ProcessReply(run[i - 1], rs[i])
  /\ ProcessReplies(c, rs) = run[Len(rs)]

(* The loop of redisProcessCallbacks takes the replies one after the       *)
(* other.                                                                  *)
LEMMA ProcessSteps ==
  ASSUME NEW c, NEW rs, Len(rs) \in Nat
  PROVE  \E run : ReplyRun(c, rs, run)
<1> DEFINE Sol(m, g) == g = [i \in 0 .. m |-> IF i = 0 THEN [c |-> c, cb |-> NoCallback] ELSE ProcessReply(g[i - 1], rs[i])]
           P == {m \in Nat : \E g : Sol(m, g)}
<1>1. 0 \in P
  <2>1. Sol(0, [i \in 0 .. 0 |-> [c |-> c, cb |-> NoCallback]])
    OBVIOUS
  <2> QED BY <2>1
<1>2. ASSUME NEW m \in Nat, m \in P PROVE m + 1 \in P
  <2>1. PICK g : Sol(m, g)
    BY <1>2
  <2> DEFINE h == [i \in 0 .. (m + 1) |-> IF i = m + 1 THEN ProcessReply(g[m], rs[(m + 1)]) ELSE g[i]]
  <2>2. \A i \in 0 .. (m + 1) : h[i] = IF i = 0 THEN [c |-> c, cb |-> NoCallback] ELSE ProcessReply(h[i - 1], rs[i])
    <3> SUFFICES ASSUME NEW i \in 0 .. (m + 1)
                 PROVE  h[i] = IF i = 0 THEN [c |-> c, cb |-> NoCallback] ELSE ProcessReply(h[i - 1], rs[i])
      OBVIOUS
    <3>1. CASE i = 0
      BY <2>1, <3>1
    <3>2. CASE i = m + 1
      <4>1. h[i] = ProcessReply(g[m], rs[(m + 1)]) /\ h[m] = g[m] /\ i - 1 = m /\ i # 0
        BY <3>2
      <4> QED BY <3>2, <4>1
    <3>3. CASE i # 0 /\ i # m + 1
      <4>1. i \in 0 .. m /\ i - 1 \in 0 .. (m + 1) /\ i - 1 # m + 1
        BY <3>3
      <4>2. h[i] = g[i] /\ h[i - 1] = g[i - 1]
        BY <3>3, <4>1
      <4>3. g[i] = ProcessReply(g[i - 1], rs[i])
        BY <2>1, <3>3, <4>1
      <4> QED BY <3>3, <4>2, <4>3
    <3> QED BY <3>1, <3>2, <3>3
  <2>3. Sol(m + 1, h)
    BY <2>2
  <2> HIDE DEF h, Sol
  <2> QED BY <2>3
<1>3. Len(rs) \in P
  <2> HIDE DEF P
  <2> QED BY <1>1, <1>2, SetInduction
<1>4. PICK g : Sol(Len(rs), g)
  BY <1>3
<1> DEFINE run == CHOOSE h : Sol(Len(rs), h)
<1>5. Sol(Len(rs), run)
  BY <1>4, Zenon
<1>6. ProcessReplies(c, rs) = run[Len(rs)]
  BY Zenon DEF ProcessReplies
<1> HIDE DEF run
<1>7. run[0] = [c |-> c, cb |-> NoCallback] /\ \A i \in 1 .. Len(rs) : run[i] = ProcessReply(run[i - 1], rs[i])
  BY <1>5
<1> QED BY <1>6, <1>7 DEF ReplyRun

(* The dictionaries AddSubscriptions passes through.                       *)
SubscribeRun(subs, cb, chans, run) ==
  /\ run[0] = [cb |-> cb, subs |-> subs]
  /\ \A i \in 1 .. Len(chans) : run[i] = AddSubscription(run[i - 1], chans[i])
  /\ AddSubscriptions(subs, cb, chans) = run[Len(chans)].subs

(* The loop of __redisAsyncCommand takes the channels one after the other. *)
LEMMA SubscribeSteps ==
  ASSUME NEW subs, NEW cb, NEW chans, Len(chans) \in Nat
  PROVE  \E run : SubscribeRun(subs, cb, chans, run)
<1> DEFINE Sol(m, g) == g = [i \in 0 .. m |-> IF i = 0 THEN [cb |-> cb, subs |-> subs] ELSE AddSubscription(g[i - 1], chans[i])]
           P == {m \in Nat : \E g : Sol(m, g)}
<1>1. 0 \in P
  <2>1. Sol(0, [i \in 0 .. 0 |-> [cb |-> cb, subs |-> subs]])
    OBVIOUS
  <2> QED BY <2>1
<1>2. ASSUME NEW m \in Nat, m \in P PROVE m + 1 \in P
  <2>1. PICK g : Sol(m, g)
    BY <1>2
  <2> DEFINE h == [i \in 0 .. (m + 1) |-> IF i = m + 1 THEN AddSubscription(g[m], chans[(m + 1)]) ELSE g[i]]
  <2>2. \A i \in 0 .. (m + 1) : h[i] = IF i = 0 THEN [cb |-> cb, subs |-> subs] ELSE AddSubscription(h[i - 1], chans[i])
    <3> SUFFICES ASSUME NEW i \in 0 .. (m + 1)
                 PROVE  h[i] = IF i = 0 THEN [cb |-> cb, subs |-> subs] ELSE AddSubscription(h[i - 1], chans[i])
      OBVIOUS
    <3>1. CASE i = 0
      BY <2>1, <3>1
    <3>2. CASE i = m + 1
      <4>1. h[i] = AddSubscription(g[m], chans[(m + 1)]) /\ h[m] = g[m] /\ i - 1 = m /\ i # 0
        BY <3>2
      <4> QED BY <3>2, <4>1
    <3>3. CASE i # 0 /\ i # m + 1
      <4>1. i \in 0 .. m /\ i - 1 \in 0 .. (m + 1) /\ i - 1 # m + 1
        BY <3>3
      <4>2. h[i] = g[i] /\ h[i - 1] = g[i - 1]
        BY <3>3, <4>1
      <4>3. g[i] = AddSubscription(g[i - 1], chans[i])
        BY <2>1, <3>3, <4>1
      <4> QED BY <3>3, <4>2, <4>3
    <3> QED BY <3>1, <3>2, <3>3
  <2>3. Sol(m + 1, h)
    BY <2>2
  <2> HIDE DEF h, Sol
  <2> QED BY <2>3
<1>3. Len(chans) \in P
  <2> HIDE DEF P
  <2> QED BY <1>1, <1>2, SetInduction
<1>4. PICK g : Sol(Len(chans), g)
  BY <1>3
<1> DEFINE run == CHOOSE h : Sol(Len(chans), h)
<1>5. Sol(Len(chans), run)
  BY <1>4, Zenon
<1>6. AddSubscriptions(subs, cb, chans) = run[Len(chans)].subs
  BY Zenon DEF AddSubscriptions
<1> HIDE DEF run
<1>7. run[0] = [cb |-> cb, subs |-> subs] /\ \A i \in 1 .. Len(chans) : run[i] = AddSubscription(run[i - 1], chans[i])
  BY <1>5
<1> QED BY <1>6, <1>7 DEF SubscribeRun

(* The sequences PlainOnly passes through.                                 *)
PlainRun(s, run) ==
  /\ run[0] = <<>>
  /\ \A i \in 1 .. Len(s) : run[i] = WithPlain(run[i - 1], s[i])
  /\ PlainOnly(s) = run[Len(s)]

(* PlainOnly looks at the members of a sequence one after the other.       *)
LEMMA PlainSteps ==
  ASSUME NEW s, Len(s) \in Nat
  PROVE  \E run : PlainRun(s, run)
<1> DEFINE Sol(m, g) == g = [i \in 0 .. m |-> IF i = 0 THEN <<>> ELSE WithPlain(g[i - 1], s[i])]
           P == {m \in Nat : \E g : Sol(m, g)}
<1>1. 0 \in P
  <2>1. Sol(0, [i \in 0 .. 0 |-> <<>>])
    OBVIOUS
  <2> QED BY <2>1
<1>2. ASSUME NEW m \in Nat, m \in P PROVE m + 1 \in P
  <2>1. PICK g : Sol(m, g)
    BY <1>2
  <2> DEFINE h == [i \in 0 .. (m + 1) |-> IF i = m + 1 THEN WithPlain(g[m], s[(m + 1)]) ELSE g[i]]
  <2>2. \A i \in 0 .. (m + 1) : h[i] = IF i = 0 THEN <<>> ELSE WithPlain(h[i - 1], s[i])
    <3> SUFFICES ASSUME NEW i \in 0 .. (m + 1)
                 PROVE  h[i] = IF i = 0 THEN <<>> ELSE WithPlain(h[i - 1], s[i])
      OBVIOUS
    <3>1. CASE i = 0
      BY <2>1, <3>1
    <3>2. CASE i = m + 1
      <4>1. h[i] = WithPlain(g[m], s[(m + 1)]) /\ h[m] = g[m] /\ i - 1 = m /\ i # 0
        BY <3>2
      <4> QED BY <3>2, <4>1
    <3>3. CASE i # 0 /\ i # m + 1
      <4>1. i \in 0 .. m /\ i - 1 \in 0 .. (m + 1) /\ i - 1 # m + 1
        BY <3>3
      <4>2. h[i] = g[i] /\ h[i - 1] = g[i - 1]
        BY <3>3, <4>1
      <4>3. g[i] = WithPlain(g[i - 1], s[i])
        BY <2>1, <3>3, <4>1
      <4> QED BY <3>3, <4>2, <4>3
    <3> QED BY <3>1, <3>2, <3>3
  <2>3. Sol(m + 1, h)
    BY <2>2
  <2> HIDE DEF h, Sol
  <2> QED BY <2>3
<1>3. Len(s) \in P
  <2> HIDE DEF P
  <2> QED BY <1>1, <1>2, SetInduction
<1>4. PICK g : Sol(Len(s), g)
  BY <1>3
<1> DEFINE run == CHOOSE h : Sol(Len(s), h)
<1>5. Sol(Len(s), run)
  BY <1>4, Zenon
<1>6. PlainOnly(s) = run[Len(s)]
  BY Zenon DEF PlainOnly
<1> HIDE DEF run
<1>7. run[0] = <<>> /\ \A i \in 1 .. Len(s) : run[i] = WithPlain(run[i - 1], s[i])
  BY <1>5
<1> QED BY <1>6, <1>7 DEF PlainRun

(* Nothing is kept of the empty sequence.                                  *)
LEMMA PlainEmpty == PlainOnly(<<>>) = <<>>
<1>1. Len(<<>>) = 0
  OBVIOUS
<1>2. PICK run : PlainRun(<<>>, run)
  BY <1>1, PlainSteps
<1> QED BY <1>1, <1>2 DEF PlainRun

(* PlainOnly keeps only ids of plain commands.                             *)
LEMMA PlainType ==
  ASSUME NEW S, NEW s \in Seq(S)
  PROVE  PlainOnly(s) \in Seq(PlainIds)
<1> DEFINE n == Len(s)
<1>1. n \in Nat
  OBVIOUS
<1>2. PICK run : PlainRun(s, run)
  BY <1>1, PlainSteps
<1> DEFINE P == {i \in Nat : run[i] \in Seq(PlainIds)}
<1> HIDE DEF n
<1>3. 0 \in P
  <2>1. <<>> \in Seq(PlainIds)
    OBVIOUS
  <2> QED BY <1>2, <2>1 DEF PlainRun
<1>4. ASSUME NEW i \in 1 .. n, i - 1 \in P PROVE i \in P
  <2>1. run[i] = WithPlain(run[i - 1], s[i]) /\ run[i - 1] \in Seq(PlainIds) /\ i \in Nat
    BY <1>1, <1>2, <1>4 DEF PlainRun, n
  <2>2. WithPlain(run[i - 1], s[i]) \in Seq(PlainIds)
    BY <2>1 DEF WithPlain
  <2> QED BY <2>1, <2>2
<1>5. 0 .. n \subseteq P
  <2> HIDE DEF P
  <2> QED BY <1>1, <1>3, <1>4, BoundedInduction
<1> QED BY <1>1, <1>2, <1>5 DEF PlainRun, n

(* PlainOnly of a longer sequence.                                         *)
LEMMA PlainAppend ==
  ASSUME NEW S, NEW s \in Seq(S), NEW x \in S
  PROVE  PlainOnly(Append(s, x)) = WithPlain(PlainOnly(s), x)
<1> DEFINE n == Len(s)
           t == Append(s, x)
<1>1. /\ n \in Nat /\ n + 1 \in Nat /\ n + 1 = Len(t)
      /\ t[n + 1] = x /\ \A i \in 1 .. n : t[i] = s[i]
  OBVIOUS
<1> HIDE DEF n, t
<1>2. PICK run : PlainRun(s, run)
  BY <1>1, PlainSteps DEF n
<1>3. PICK all : PlainRun(t, all)
  BY <1>1, PlainSteps
<1> DEFINE P == {i \in Nat : run[i] = all[i]}
<1>4. 0 \in P
  BY <1>2, <1>3 DEF PlainRun
<1>5. ASSUME NEW i \in 1 .. n, i - 1 \in P PROVE i \in P
  <2>1. run[i] = WithPlain(run[i - 1], s[i]) /\ all[i] = WithPlain(all[i - 1], t[i])
    BY <1>1, <1>2, <1>3 DEF PlainRun, n
  <2> QED BY <1>1, <1>5, <2>1
<1>6. 0 .. n \subseteq P
  <2> HIDE DEF P
  <2> QED BY <1>1, <1>4, <1>5, BoundedInduction
<1>7. run[n] = all[n] /\ n + 1 \in 1 .. (n + 1) /\ (n + 1) - 1 = n
  BY <1>1, <1>6
<1>8. all[n + 1] = WithPlain(all[n], x)
  BY <1>1, <1>3, <1>7 DEF PlainRun
<1> QED BY <1>2, <1>3, <1>7, <1>8 DEF PlainRun, t, n

(* PlainOnly distributes over concatenation.                               *)
LEMMA PlainConcat ==
  ASSUME NEW S, NEW s \in Seq(S), NEW t \in Seq(S)
  PROVE  PlainOnly(s \o t) = PlainOnly(s) \o PlainOnly(t)
<1> DEFINE u(k) == SubSeq(t, 1, k)
           P == {k \in Nat : PlainOnly(s \o u(k)) = PlainOnly(s) \o PlainOnly(u(k))}
<1>0. PlainOnly(s) \in Seq(PlainIds)
  BY PlainType
<1>1. 0 \in P
  <2>1. u(0) = <<>> /\ s \o <<>> = s
    OBVIOUS
  <2>2. PlainOnly(s) \o <<>> = PlainOnly(s)
    BY <1>0
  <2> HIDE DEF u
  <2> QED BY <2>1, <2>2, PlainEmpty
<1>2. ASSUME NEW k \in 1 .. Len(t), k - 1 \in P PROVE k \in P
  <2>1. /\ u(k - 1) \in Seq(S) /\ t[k] \in S /\ u(k) = Append(u(k - 1), t[k])
        /\ s \o u(k) = Append(s \o u(k - 1), t[k]) /\ s \o u(k - 1) \in Seq(S)
    OBVIOUS
  <2> HIDE DEF u
  <2>2. /\ PlainOnly(u(k)) = WithPlain(PlainOnly(u(k - 1)), t[k])
        /\ PlainOnly(s \o u(k)) = WithPlain(PlainOnly(s \o u(k - 1)), t[k])
    BY <2>1, PlainAppend
  <2>3. PlainOnly(u(k - 1)) \in Seq(PlainIds)
    BY <2>1, PlainType
  <2>4. PlainOnly(s \o u(k - 1)) = PlainOnly(s) \o PlainOnly(u(k - 1))
    BY <1>2
  <2>5. \A a, b \in Seq(PlainIds) : \A x \in PlainIds : a \o Append(b, x) = Append(a \o b, x)
    OBVIOUS
  <2>6. WithPlain(PlainOnly(s) \o PlainOnly(u(k - 1)), t[k])
          = PlainOnly(s) \o WithPlain(PlainOnly(u(k - 1)), t[k])
    BY <1>0, <2>3, <2>5 DEF WithPlain
  <2>7. PlainOnly(s \o u(k)) = PlainOnly(s) \o PlainOnly(u(k))
    BY <2>2, <2>4, <2>6
  <2> QED BY <2>7
<1>3. 0 .. Len(t) \subseteq P
  <2>1. Len(t) \in Nat
    OBVIOUS
  <2> HIDE DEF P
  <2> QED BY <1>1, <1>2, <2>1, BoundedInduction
<1>4. u(Len(t)) = t /\ Len(t) \in 0 .. Len(t)
  OBVIOUS
<1> HIDE DEF u
<1> QED BY <1>3, <1>4

(* PlainOnly of one id.                                                    *)
LEMMA PlainSingle ==
  ASSUME NEW x
  PROVE  PlainOnly(<<x>>) = IF x \in PlainIds THEN <<x>> ELSE <<>>
<1>1. <<>> \in Seq({x}) /\ Append(<<>>, x) = <<x>>
  OBVIOUS
<1>2. PlainOnly(<<x>>) = WithPlain(PlainOnly(<<>>), x)
  BY <1>1, PlainAppend
<1> QED BY <1>1, <1>2, PlainEmpty DEF WithPlain

(* Nothing is kept of a sequence without ids of plain commands.            *)
LEMMA PlainNone ==
  ASSUME NEW S, NEW s \in Seq(S), \A i \in 1 .. Len(s) : s[i] \notin PlainIds
  PROVE  PlainOnly(s) = <<>>
<1> DEFINE n == Len(s)
<1>1. n \in Nat
  OBVIOUS
<1>2. PICK run : PlainRun(s, run)
  BY <1>1, PlainSteps
<1> DEFINE P == {i \in Nat : run[i] = <<>>}
<1>3. 0 \in P
  BY <1>2 DEF PlainRun
<1>4. ASSUME NEW i \in 1 .. n, i - 1 \in P PROVE i \in P
  BY <1>1, <1>2, <1>4 DEF PlainRun, WithPlain
<1>5. 0 .. n \subseteq P
  <2> HIDE DEF P, n
  <2> QED BY <1>1, <1>3, <1>4, BoundedInduction
<1> QED BY <1>1, <1>2, <1>5 DEF PlainRun

(* What PlainOnly keeps was there.                                         *)
LEMMA PlainMembers ==
  ASSUME NEW S, NEW s \in Seq(S), NEW x \in ToSet(PlainOnly(s))
  PROVE  x \in ToSet(s) /\ x \in PlainIds
<1> DEFINE n == Len(s)
<1>1. n \in Nat
  OBVIOUS
<1>2. PICK run : PlainRun(s, run)
  BY <1>1, PlainSteps
<1> DEFINE A == PlainIds \cap ToSet(s)
           P == {i \in Nat : run[i] \in Seq(A)}
<1>3. 0 \in P
  <2>1. <<>> \in Seq(A)
    OBVIOUS
  <2> HIDE DEF A
  <2> QED BY <1>2, <2>1 DEF PlainRun
<1>4. ASSUME NEW i \in 1 .. n, i - 1 \in P PROVE i \in P
  <2>1. s[i] \in ToSet(s)
    BY DEF ToSet
  <2>2. s[i] \in PlainIds => s[i] \in A
    BY <2>1
  <2> HIDE DEF A
  <2>3. run[i] = WithPlain(run[i - 1], s[i]) /\ run[i - 1] \in Seq(A) /\ i \in Nat
    BY <1>1, <1>2, <1>4 DEF PlainRun
  <2>4. WithPlain(run[i - 1], s[i]) \in Seq(A)
    BY <2>2, <2>3 DEF WithPlain
  <2> QED BY <2>3, <2>4
<1>5. 0 .. n \subseteq P
  <2> HIDE DEF P, n
  <2> QED BY <1>1, <1>3, <1>4, BoundedInduction
<1>6. PlainOnly(s) \in Seq(A)
  BY <1>1, <1>2, <1>5 DEF PlainRun
<1> HIDE DEF A
<1>7. x \in A
  BY <1>6 DEF ToSet
<1> QED BY <1>7 DEF A

-----------------------------------------------------------------------------
(* Types, and the functions on the context.                                *)

(* The types of the dictionary of subscriptions, of a reply, of an entry   *)
(* of the log and of the context.                                          *)
Subscriptions == UNION {[D -> Callback] : D \in SUBSET Channels}
Reply == [k : {"status", "error"}, id : Ids \cup {NULL, "line"}]
           \cup [k : {"subscribe", "unsubscribe"}, ch : Channels, n : Nat]
           \cup [k : {"message"}, ch : Channels]
Entry == [to : Ids \cup {NULL, "onConnect", "onDisconnect"},
          got : Reply \cup {NULL, "OK", "ERR"}]
Flags == {"CONNECTED", "DISCONNECTING", "FREEING", "SUBSCRIBED", "MONITORING"}
Context ==
  [life : {"live", "freed", "aborted"}, flags : SUBSET Flags,
   err : BOOLEAN, obuf : Seq(Commands), replies : Seq(Callback), invalid : Seq(Callback),
   subs : Subscriptions, ev : SUBSET {"read", "write"}, log : Seq(Entry)]

(* A dictionary of subscriptions is a function from some channels to       *)
(* callbacks.                                                              *)
LEMMA SubscriptionsAre ==
  ASSUME NEW s
  PROVE  s \in Subscriptions <=>
           /\ DOMAIN s \subseteq Channels
           /\ s = [ch \in DOMAIN s |-> s[ch]]
           /\ \A ch \in DOMAIN s : s[ch] \in Callback
<1>1. ASSUME s \in Subscriptions
      PROVE  /\ DOMAIN s \subseteq Channels
             /\ s = [ch \in DOMAIN s |-> s[ch]]
             /\ \A ch \in DOMAIN s : s[ch] \in Callback
  <2>1. PICK D \in SUBSET Channels : s \in [D -> Callback]
    BY <1>1 DEF Subscriptions
  <2> QED BY <2>1
<1>2. ASSUME /\ DOMAIN s \subseteq Channels
             /\ s = [ch \in DOMAIN s |-> s[ch]]
             /\ \A ch \in DOMAIN s : s[ch] \in Callback
      PROVE  s \in Subscriptions
  <2>1. s \in [DOMAIN s -> Callback]
    BY <1>2
  <2> QED BY <1>2, <2>1 DEF Subscriptions
<1> QED BY <1>1, <1>2

(* d differs from c in its flags and log only.                             *)
SameWork(c, d) ==
  /\ d.err = c.err /\ d.obuf = c.obuf /\ d.ev = c.ev
  /\ d.replies = c.replies /\ d.invalid = c.invalid /\ d.subs = c.subs
  
(* What running one callback changes: the log, unless it is the null       *)
(* callback, and the flag that redisAsyncDisconnect or redisAsyncFree sets *)
(* from within it.                                                         *)
LEMMA RunCallbackFields ==
  ASSUME NEW c \in Context, NEW cb \in Callback, NEW r \in Reply \cup {NULL}
  PROVE  LET d == RunCallback(c, cb, r)
         IN /\ d \in Context /\ d.life = c.life /\ SameWork(c, d)
            /\ d.flags = c.flags \cup
                 (CASE cb.fn = "disconnect" -> {"DISCONNECTING"}
                    [] cb.fn = "free" -> {"FREEING"} [] OTHER -> {})
            /\ d.log = IF cb.fn = "null" THEN c.log
                       ELSE Append(c.log, [to |-> cb.id, got |-> r])
<1> DEFINE e == [to |-> cb.id, got |-> r]
           l == Append(c.log, e)
<1>1. e \in Entry
  BY DEF Entry, Callback
<1>2. l \in Seq(Entry)
  BY <1>1 DEF Context
<1> HIDE DEF l
<1>3. Log(c, cb.id, r) = [c EXCEPT !.log = l]
  BY DEF Log, l
<1>4. cb.fn \in {"keep", "disconnect", "free", "null"}
  BY DEF Callback, Fns
<1>5. CASE cb.fn = "null"
  BY <1>5 DEF RunCallback, SameWork, Context
<1>6. CASE cb.fn = "keep"
  BY <1>2, <1>3, <1>6 DEF RunCallback, SameWork, Context, l
<1>7. CASE cb.fn = "disconnect"
  BY <1>2, <1>3, <1>7 DEF RunCallback, SameWork, Context, Flags, l
<1>8. CASE cb.fn = "free"
  BY <1>2, <1>3, <1>8 DEF RunCallback, SameWork, Context, Flags, l
<1> QED BY <1>4, <1>5, <1>6, <1>7, <1>8

(* Whom the entries of a log were told to, and the plain commands among    *)
(* them.                                                                   *)
LogIds(l) == [i \in 1 .. Len(l) |-> l[i].to]
Told(l) == PlainOnly(LogIds(l))
Others == {NULL, "onConnect", "onDisconnect"}

(* A callback the context may hold: one with a function belongs to a       *)
(* command, and one of a plain command that is waited for has a function.  *)
Apt(cb) == /\ cb \in Callback
           /\ cb.fn # "null" => cb.id \in Ids
           /\ cb.id \in PlainIds => cb.fn # "null"

(* k is l with more entries, whose callbacks were given NULL.              *)
NullsAdded(l, k) ==
  /\ Len(l) <= Len(k)
  /\ \A i \in 1 .. Len(l) : k[i] = l[i]
  /\ \A i \in 1 .. Len(k) : i > Len(l) => k[i].got = NULL /\ k[i].to \in Ids

(* WithPlain leaves what comes first alone.                                *)
LEMMA WithPlainConcat ==
  ASSUME NEW a \in Seq(PlainIds), NEW b \in Seq(PlainIds), NEW x
  PROVE  WithPlain(a \o b, x) = a \o WithPlain(b, x)
<1>1. ASSUME x \in PlainIds PROVE a \o Append(b, x) = Append(a \o b, x)
  BY <1>1
<1> QED BY <1>1 DEF WithPlain

(* The log tells commands, connect and disconnect only.                    *)
LEMMA ToldType ==
  ASSUME NEW l \in Seq(Entry)
  PROVE  LogIds(l) \in Seq(Ids \cup Others) /\ Told(l) \in Seq(PlainIds)
<1>1. \A i \in 1 .. Len(l) : l[i].to \in Ids \cup Others
  <2>1. \A e \in Entry : e.to \in Ids \cup Others
    BY DEF Entry, Others
  <2>2. \A i \in 1 .. Len(l) : l[i] \in Entry
    OBVIOUS
  <2> QED BY <2>1, <2>2
<1>2. LogIds(l) \in Seq(Ids \cup Others)
  BY <1>1 DEF LogIds
<1> QED BY <1>2, PlainType DEF Told

(* Told of a longer log.                                                   *)
LEMMA ToldAppend ==
  ASSUME NEW l \in Seq(Entry), NEW e \in Entry
  PROVE  Told(Append(l, e)) = WithPlain(Told(l), e.to)
<1>1. e.to \in Ids \cup Others
  BY DEF Entry, Others
<1>2. LogIds(Append(l, e)) = Append(LogIds(l), e.to)
  <2>1. /\ Len(Append(l, e)) = Len(l) + 1 /\ Append(l, e)[Len(l) + 1] = e
        /\ \A i \in 1 .. Len(l) : Append(l, e)[i] = l[i]
    OBVIOUS
  <2>2. LogIds(l) \in Seq(Ids \cup Others) /\ Len(LogIds(l)) = Len(l)
    BY ToldType DEF LogIds
  <2>3. \A i \in 1 .. Len(l) : LogIds(l)[i] = l[i].to
    BY DEF LogIds
  <2>4. Append(LogIds(l), e.to) = [i \in 1 .. (Len(l) + 1) |-> IF i = Len(l) + 1 THEN e.to ELSE l[i].to]
    BY <1>1, <2>2, <2>3
  <2> QED BY <2>1, <2>4 DEF LogIds
<1> QED BY <1>1, <1>2, ToldType, PlainAppend DEF Told

(* The ids of a queue of callbacks.                                        *)
LEMMA IdsType ==
  ASSUME NEW s \in Seq(Callback)
  PROVE  IdsOf(s) \in Seq(Ids \cup {NULL}) /\ Len(IdsOf(s)) = Len(s)
<1>1. \A i \in 1 .. Len(s) : s[i].id \in Ids \cup {NULL}
  <2>1. \A cb \in Callback : cb.id \in Ids \cup {NULL}
    BY DEF Callback
  <2>2. \A i \in 1 .. Len(s) : s[i] \in Callback
    OBVIOUS
  <2> QED BY <2>1, <2>2
<1> QED BY <1>1 DEF IdsOf

(* The ids of two queues, one after the other.                             *)
LEMMA IdsConcat ==
  ASSUME NEW s \in Seq(Callback), NEW t \in Seq(Callback)
  PROVE  /\ IdsOf(s \o t) = IdsOf(s) \o IdsOf(t)
         /\ PlainOnly(IdsOf(s \o t)) = PlainOnly(IdsOf(s)) \o PlainOnly(IdsOf(t))
<1>1. /\ IdsOf(s) \in Seq(Ids \cup {NULL}) /\ Len(IdsOf(s)) = Len(s)
      /\ IdsOf(t) \in Seq(Ids \cup {NULL}) /\ Len(IdsOf(t)) = Len(t)
  BY IdsType
<1>2. /\ \A i \in 1 .. Len(s) : IdsOf(s)[i] = s[i].id
      /\ \A i \in 1 .. Len(t) : IdsOf(t)[i] = t[i].id
  BY DEF IdsOf
<1>3. /\ s \o t \in Seq(Callback) /\ Len(s \o t) = Len(s) + Len(t)
      /\ \A i \in 1 .. (Len(s) + Len(t)) : (s \o t)[i] = IF i <= Len(s) THEN s[i] ELSE t[i - Len(s)]
  OBVIOUS
<1>4. /\ IdsOf(s) \o IdsOf(t) \in Seq(Ids \cup {NULL})
      /\ Len(IdsOf(s) \o IdsOf(t)) = Len(s) + Len(t)
      /\ \A i \in 1 .. (Len(s) + Len(t)) :
           (IdsOf(s) \o IdsOf(t))[i] = IF i <= Len(s) THEN IdsOf(s)[i] ELSE IdsOf(t)[i - Len(s)]
  BY <1>1
<1>5. /\ IdsOf(s \o t) \in Seq(Ids \cup {NULL}) /\ Len(IdsOf(s \o t)) = Len(s) + Len(t)
      /\ \A i \in 1 .. (Len(s) + Len(t)) : IdsOf(s \o t)[i] = (s \o t)[i].id
  BY <1>3, IdsType DEF IdsOf
<1>7. ASSUME NEW i \in 1 .. (Len(s) + Len(t))
      PROVE  IdsOf(s \o t)[i] = (IdsOf(s) \o IdsOf(t))[i]
  <2>1. CASE i <= Len(s)
    <3>1. i \in 1 .. Len(s)
      BY <2>1
    <3> QED BY <1>2, <1>3, <1>4, <1>5, <2>1, <3>1
  <2>2. CASE ~(i <= Len(s))
    <3>1. i - Len(s) \in 1 .. Len(t)
      BY <2>2
    <3> QED BY <1>2, <1>3, <1>4, <1>5, <2>2, <3>1
  <2> QED BY <2>1, <2>2
<1>6. IdsOf(s \o t) = IdsOf(s) \o IdsOf(t)
  BY <1>4, <1>5, <1>7, SeqEqual
<1> QED BY <1>1, <1>6, PlainConcat

(* The ids of a longer queue.                                              *)
LEMMA IdsAppend ==
  ASSUME NEW s \in Seq(Callback), NEW cb \in Callback
  PROVE  PlainOnly(IdsOf(Append(s, cb))) = WithPlain(PlainOnly(IdsOf(s)), cb.id)
<1>1. Append(s, cb) = s \o <<cb>> /\ <<cb>> \in Seq(Callback)
  OBVIOUS
<1>2. IdsOf(<<cb>>) = <<cb.id>>
  BY DEF IdsOf
<1>3. IdsOf(Append(s, cb)) = IdsOf(s) \o <<cb.id>>
  BY <1>1, <1>2, IdsConcat
<1>4. IdsOf(s) \in Seq(Ids \cup {NULL}) /\ cb.id \in Ids \cup {NULL}
  BY IdsType DEF Callback
<1>5. IdsOf(s) \o <<cb.id>> = Append(IdsOf(s), cb.id)
  BY <1>4
<1> QED BY <1>3, <1>4, <1>5, PlainAppend

(* RunAllWithNULL tells the plain commands of its queue in order, with     *)
(* NULL, and changes nothing but the log and the two flags a callback may  *)
(* set.                                                                    *)
LEMMA RunAllFields ==
  ASSUME NEW c \in Context, NEW cbs \in Seq(Callback), \A j \in 1 .. Len(cbs) : Apt(cbs[j])
  PROVE  LET d == RunAllWithNULL(c, cbs)
         IN /\ d \in Context /\ d.life = c.life /\ SameWork(c, d)
            /\ c.flags \subseteq d.flags
            /\ d.flags \subseteq c.flags \cup {"DISCONNECTING", "FREEING"}
            /\ NullsAdded(c.log, d.log)
            /\ Told(d.log) = Told(c.log) \o PlainOnly(IdsOf(cbs))
<1>1. Len(cbs) \in Nat
  OBVIOUS
<1>2. PICK run : CallbackRun(c, cbs, run)
  BY <1>1, RunAllSteps
<1> DEFINE first(i) == SubSeq(cbs, 1, i)
           OK(d, i) == /\ d \in Context /\ d.life = c.life /\ SameWork(c, d)
                       /\ c.flags \subseteq d.flags
                       /\ d.flags \subseteq c.flags \cup {"DISCONNECTING", "FREEING"}
                       /\ NullsAdded(c.log, d.log)
                       /\ Told(d.log) = Told(c.log) \o PlainOnly(IdsOf(first(i)))
           P == {i \in Nat : OK(run[i], i)}
<1>t. c.log \in Seq(Entry) /\ Told(c.log) \in Seq(PlainIds)
  BY ToldType DEF Context
<1>3. 0 \in P
  <2>1. run[0] = c /\ first(0) = <<>> /\ IdsOf(<<>>) = <<>>
    BY <1>2 DEF CallbackRun, IdsOf
  <2>2. Told(c.log) \o PlainOnly(<<>>) = Told(c.log)
    BY <1>t, PlainEmpty
  <2>3. NullsAdded(c.log, c.log)
    BY <1>t DEF NullsAdded
  <2> HIDE DEF first
  <2> QED BY <2>1, <2>2, <2>3 DEF SameWork
<1>4. ASSUME NEW i \in 1 .. Len(cbs), i - 1 \in P PROVE i \in P
  <2> DEFINE d == run[i - 1]
             cb == cbs[i]
  <2>1. OK(d, i - 1) /\ run[i] = RunCallback(d, cb, NULL) /\ Apt(cb) /\ cb \in Callback /\ i \in Nat
    BY <1>2, <1>4 DEF CallbackRun
  <2>2. first(i - 1) \in Seq(Callback) /\ first(i) = Append(first(i - 1), cb)
    OBVIOUS
  <2> HIDE DEF d, cb, first
  <2>3. /\ run[i] \in Context /\ run[i].life = d.life /\ SameWork(d, run[i])
        /\ d.flags \subseteq run[i].flags /\ run[i].flags \subseteq d.flags \cup {"DISCONNECTING", "FREEING"}
        /\ run[i].log = IF cb.fn = "null" THEN d.log ELSE Append(d.log, [to |-> cb.id, got |-> NULL])
    BY <2>1, RunCallbackFields
  <2>4. PlainOnly(IdsOf(first(i))) = WithPlain(PlainOnly(IdsOf(first(i - 1))), cb.id)
    BY <2>1, <2>2, IdsAppend
  <2>5. PlainOnly(IdsOf(first(i - 1))) \in Seq(PlainIds)
    BY <2>2, IdsType, PlainType
  <2>6. WithPlain(Told(d.log), cb.id) = Told(c.log) \o PlainOnly(IdsOf(first(i)))
    <3>1. Told(d.log) = Told(c.log) \o PlainOnly(IdsOf(first(i - 1)))
      BY <2>1
    <3>2. WithPlain(Told(c.log) \o PlainOnly(IdsOf(first(i - 1))), cb.id)
            = Told(c.log) \o WithPlain(PlainOnly(IdsOf(first(i - 1))), cb.id)
      BY <1>t, <2>5, WithPlainConcat
    <3> QED BY <2>4, <3>1, <3>2
  <2>l. d.log \in Seq(Entry)
    BY <2>1 DEF Context
  <2>7. Told(run[i].log) = WithPlain(Told(d.log), cb.id) /\ NullsAdded(c.log, run[i].log)
    <3>1. CASE cb.fn = "null"
      <4>1. cb.id \notin PlainIds /\ run[i].log = d.log
        BY <2>1, <2>3, <3>1 DEF Apt
      <4> QED BY <2>1, <4>1 DEF WithPlain
    <3>2. CASE cb.fn # "null"
      <4> DEFINE e == [to |-> cb.id, got |-> NULL]
      <4>1. e \in Entry /\ e.to = cb.id /\ cb.id \in Ids /\ e.got = NULL
        BY <2>1, <3>2 DEF Entry, Apt
      <4> HIDE DEF e
      <4>2. run[i].log = Append(d.log, e)
        BY <2>3, <3>2 DEF e
      <4>3. Told(run[i].log) = WithPlain(Told(d.log), cb.id)
        BY <2>l, <4>1, <4>2, ToldAppend
      <4>4. NullsAdded(c.log, Append(d.log, e))
        <5>1. NullsAdded(c.log, d.log)
          BY <2>1
        <5>2. /\ Len(Append(d.log, e)) = Len(d.log) + 1 /\ Append(d.log, e)[Len(d.log) + 1] = e
              /\ \A j \in 1 .. Len(d.log) : Append(d.log, e)[j] = d.log[j]
              /\ Len(d.log) \in Nat /\ Len(c.log) \in Nat
          BY <1>t, <2>l, <4>1
        <5> QED BY <4>1, <5>1, <5>2 DEF NullsAdded
      <4> QED BY <4>2, <4>3, <4>4
    <3> QED BY <3>1, <3>2
  <2>8. SameWork(c, run[i])
    BY <2>1, <2>3 DEF SameWork
  <2> QED BY <2>1, <2>3, <2>6, <2>7, <2>8
<1>5. 0 .. Len(cbs) \subseteq P
  <2> HIDE DEF P
  <2> QED BY <1>1, <1>3, <1>4, BoundedInduction
<1>6. OK(run[Len(cbs)], Len(cbs)) /\ first(Len(cbs)) = cbs
  BY <1>1, <1>5
<1> HIDE DEF first
<1> QED BY <1>2, <1>6 DEF CallbackRun

(* The plain commands whose callback is still to run, oldest first.        *)
Waits(c) == PlainOnly(IdsOf(c.replies \o c.invalid))

(* The callbacks a context keeps.                                          *)
AllApt(c) ==
  /\ \A j \in 1 .. Len(c.replies) : Apt(c.replies[j])
  /\ \A j \in 1 .. Len(c.invalid) : Apt(c.invalid[j])
  /\ \A ch \in DOMAIN c.subs : Apt(c.subs[ch]) /\ c.subs[ch].id \notin PlainIds
  /\ IsFiniteSet(DOMAIN c.subs)

(* d is what __redisAsyncFree leaves of c.                                 *)
FreedFrom(c, d) ==
  /\ d \in Context /\ d.life = "freed"
  /\ d.replies = <<>> /\ d.invalid = <<>> /\ d.subs = <<>> /\ d.obuf = <<>> /\ d.ev = {}
  /\ Told(d.log) = Told(c.log) \o Waits(c)
  /\ \E l \in Seq(Entry) :
       /\ NullsAdded(c.log, l)
       /\ \/ "CONNECTED" \notin c.flags /\ d.log = l
          \/ /\ "CONNECTED" \in c.flags
             /\ \E st \in {"OK", "ERR"} : d.log = Append(l, [to |-> "onDisconnect", got |-> st])

(* A place behind the first a of a + b.                                    *)
LEMMA PastFirst ==
  ASSUME NEW a \in Nat, NEW b \in Nat, NEW j \in 1 .. (a + b), ~(j <= a)
  PROVE  j - a \in 1 .. b
OBVIOUS

(* The order in which the dictionary's iterator meets a finite set.        *)
LEMMA SetToSeqType ==
  ASSUME NEW S, IsFiniteSet(S)
  PROVE  SetToSeq(S) \in [1 .. Cardinality(S) -> S] /\ Cardinality(S) \in Nat
BY FS_CardinalityType DEF SetToSeq, IsInjective, ExistsBijection, Bijection, Injection, Surjection

(* Ids are told apart from NULL and from the two connection callbacks.     *)
LEMMA NotPlain ==
  /\ NULL \notin PlainIds /\ "onConnect" \notin PlainIds /\ "onDisconnect" \notin PlainIds
  /\ PlainIds \subseteq Ids
  /\ NULL \notin Ids /\ "onConnect" \notin Ids /\ "onDisconnect" \notin Ids
BY CommandsAssumption DEF PlainIds, Ids

(* The empty dictionary.                                                   *)
LEMMA EmptySubscriptions == <<>> \in Subscriptions
<1>1. <<>> \in [{} -> Callback] /\ {} \in SUBSET Channels
  OBVIOUS
<1> QED BY <1>1 DEF Subscriptions

(* The fields of the context the last line of AsyncFree leaves.            *)
LEMMA FreedRecord ==
  ASSUME NEW c \in Context,
         NEW d, d = [c EXCEPT !.life = "freed", !.replies = <<>>, !.invalid = <<>>,
                              !.subs = <<>>, !.obuf = <<>>, !.ev = {}]
  PROVE  /\ d \in Context /\ d.life = "freed" /\ d.log = c.log
         /\ d.replies = <<>> /\ d.invalid = <<>> /\ d.subs = <<>>
         /\ d.obuf = <<>> /\ d.ev = {}
<1>1. PICK z : z = <<>>
  OBVIOUS
<1>2. z \in Seq(Callback) /\ z \in Seq(Commands) /\ z \in Subscriptions
  BY <1>1, EmptySubscriptions
<1>3. d = [c EXCEPT !.life = "freed", !.replies = z, !.invalid = z,
                    !.subs = z, !.obuf = z, !.ev = {}]
  BY <1>1
<1>4. /\ d \in Context /\ d.life = "freed" /\ d.log = c.log
      /\ d.replies = z /\ d.invalid = z /\ d.subs = z /\ d.obuf = z /\ d.ev = {}
  BY <1>2, <1>3 DEF Context
<1> QED BY <1>1, <1>4

(* __redisAsyncFree runs every callback that waits, in order, and then the *)
(* disconnect callback if the context was connected.                       *)
LEMMA FreeFields ==
  ASSUME NEW c \in Context, AllApt(c)
  PROVE  FreedFrom(c, AsyncFree(c))
<1> DEFINE D == DOMAIN c.subs
           n == Cardinality(D)
           visit == SetToSeq(D)
           subscribed == [i \in 1 .. n |-> c.subs[visit[i]]]
           cbs == c.replies \o c.invalid \o subscribed
           d == RunAllWithNULL(c, cbs)
           status == IF "FREEING" \in d.flags \/ ~d.err THEN "OK" ELSE "ERR"
           e == [to |-> "onDisconnect", got |-> status]
<1>1. n \in Nat /\ visit \in [1 .. n -> D]
  BY SetToSeqType DEF AllApt
<1>2. c.replies \in Seq(Callback) /\ c.invalid \in Seq(Callback) /\ c.subs \in Subscriptions
      /\ c.log \in Seq(Entry)
  BY DEF Context
<1>3. \A i \in 1 .. n : /\ subscribed[i] \in Callback /\ Apt(subscribed[i])
                        /\ subscribed[i].id \notin PlainIds
  <2>1. \A i \in 1 .. n : visit[i] \in D /\ subscribed[i] = c.subs[visit[i]]
    BY <1>1
  <2> QED BY <2>1 DEF AllApt, Apt
<1>4. subscribed \in Seq(Callback) /\ Len(subscribed) = n
  <2> HIDE DEF n, visit
  <2> QED BY <1>1, <1>3
<1>a. AsyncFree(c) =
        [(IF "CONNECTED" \in d.flags THEN Log(d, "onDisconnect", status) ELSE d)
           EXCEPT !.life = "freed", !.replies = <<>>, !.invalid = <<>>,
                  !.subs = <<>>, !.obuf = <<>>, !.ev = {}]
  BY Zenon DEF AsyncFree
<1> HIDE DEF subscribed, n, visit
<1>5. c.replies \o c.invalid \in Seq(Callback) /\ cbs \in Seq(Callback)
  BY <1>2, <1>4
<1>6. \A j \in 1 .. Len(cbs) : Apt(cbs[j])
  <2>1. \A j \in 1 .. Len(c.replies \o c.invalid) : Apt((c.replies \o c.invalid)[j])
    <3>1. /\ Len(c.replies \o c.invalid) = Len(c.replies) + Len(c.invalid)
          /\ \A j \in 1 .. (Len(c.replies) + Len(c.invalid)) : (c.replies \o c.invalid)[j] =
               IF j <= Len(c.replies) THEN c.replies[j] ELSE c.invalid[j - Len(c.replies)]
          /\ Len(c.replies) \in Nat /\ Len(c.invalid) \in Nat
      BY <1>2, ConcatProperties, LenProperties
    <3> SUFFICES ASSUME NEW j \in 1 .. (Len(c.replies) + Len(c.invalid))
                 PROVE  Apt((c.replies \o c.invalid)[j])
      BY <3>1
    <3>2. CASE j <= Len(c.replies)
      <4>1. j \in 1 .. Len(c.replies)
        BY <3>1, <3>2
      <4> QED BY <3>1, <3>2, <4>1 DEF AllApt
    <3>3. CASE ~(j <= Len(c.replies))
      <4>1. j - Len(c.replies) \in 1 .. Len(c.invalid)
        <5>1. Len(c.replies) \in Nat /\ Len(c.invalid) \in Nat
          BY <3>1
        <5> QED BY <3>3, <5>1, PastFirst
      <4> QED BY <3>1, <3>3, <4>1 DEF AllApt
    <3> QED BY <3>2, <3>3
  <2>2. PICK w : w = c.replies \o c.invalid
    OBVIOUS
  <2>3. /\ Len(cbs) = Len(w) + Len(subscribed)
        /\ \A j \in 1 .. (Len(w) + Len(subscribed)) : cbs[j] =
             IF j <= Len(w) THEN w[j] ELSE subscribed[j - Len(w)]
        /\ Len(w) \in Nat
    BY <1>4, <1>5, <2>2, ConcatProperties, LenProperties
  <2> HIDE DEF cbs
  <2> SUFFICES ASSUME NEW j \in 1 .. (Len(w) + Len(subscribed)) PROVE Apt(cbs[j])
    BY <2>3
  <2>4. CASE j <= Len(w)
    <3>1. j \in 1 .. Len(w)
      BY <2>3, <2>4
    <3> QED BY <2>1, <2>2, <2>3, <2>4, <3>1
  <2>5. CASE ~(j <= Len(w))
    <3>1. j - Len(w) \in 1 .. n
      BY <1>1, <1>4, <2>3, <2>5
    <3> QED BY <1>3, <2>3, <2>5, <3>1
  <2> QED BY <2>4, <2>5
<1>7. PlainOnly(IdsOf(cbs)) = Waits(c)
  <2>1. PlainOnly(IdsOf(cbs)) = Waits(c) \o PlainOnly(IdsOf(subscribed))
    BY <1>4, <1>5, IdsConcat DEF Waits
  <2>2. \A i \in 1 .. Len(IdsOf(subscribed)) : IdsOf(subscribed)[i] \notin PlainIds
    BY <1>3, <1>4, IdsType DEF IdsOf
  <2>3. PlainOnly(IdsOf(subscribed)) = <<>>
    BY <1>4, <2>2, IdsType, PlainNone
  <2>4. Waits(c) \in Seq(PlainIds)
    BY <1>5, IdsType, PlainType DEF Waits
  <2> QED BY <2>1, <2>3, <2>4
<1> HIDE DEF cbs
<1>8. /\ d \in Context /\ SameWork(c, d)
      /\ c.flags \subseteq d.flags
      /\ d.flags \subseteq c.flags \cup {"DISCONNECTING", "FREEING"}
      /\ NullsAdded(c.log, d.log)
      /\ Told(d.log) = Told(c.log) \o Waits(c)
  BY <1>5, <1>6, <1>7, RunAllFields
<1> HIDE DEF d
<1>9. "CONNECTED" \in d.flags <=> "CONNECTED" \in c.flags
  BY <1>8
<1>10. e \in Entry /\ status \in {"OK", "ERR"}
  BY DEF Entry
<1> HIDE DEF status
<1>11. d.log \in Seq(Entry) /\ Append(d.log, e) \in Seq(Entry)
  BY <1>8, <1>10 DEF Context
<1>12. CASE "CONNECTED" \notin d.flags
  <2>1. AsyncFree(c) = [d EXCEPT !.life = "freed", !.replies = <<>>, !.invalid = <<>>,
                                 !.subs = <<>>, !.obuf = <<>>, !.ev = {}]
    BY <1>a, <1>12
  <2>2. /\ AsyncFree(c) \in Context /\ AsyncFree(c).life = "freed" /\ AsyncFree(c).log = d.log
        /\ AsyncFree(c).replies = <<>> /\ AsyncFree(c).invalid = <<>> /\ AsyncFree(c).subs = <<>>
        /\ AsyncFree(c).obuf = <<>> /\ AsyncFree(c).ev = {}
    BY <1>8, <2>1, FreedRecord, Zenon
  <2> QED BY <1>8, <1>9, <1>11, <1>12, <2>2 DEF FreedFrom
<1>13. CASE "CONNECTED" \in d.flags
  <2>1. AsyncFree(c) = [[d EXCEPT !.log = Append(@, e)]
                          EXCEPT !.life = "freed", !.replies = <<>>, !.invalid = <<>>,
                                 !.subs = <<>>, !.obuf = <<>>, !.ev = {}]
    BY <1>a, <1>13 DEF Log
  <2> HIDE DEF e
  <2>2. /\ AsyncFree(c) \in Context /\ AsyncFree(c).life = "freed"
        /\ AsyncFree(c).log = Append(d.log, e)
        /\ AsyncFree(c).replies = <<>> /\ AsyncFree(c).invalid = <<>> /\ AsyncFree(c).subs = <<>>
        /\ AsyncFree(c).obuf = <<>> /\ AsyncFree(c).ev = {}
    <3>1. PICK l : l = [d EXCEPT !.log = Append(@, e)]
      OBVIOUS
    <3>2. l \in Context /\ l.log = Append(d.log, e)
      BY <1>8, <1>11, <3>1 DEF Context
    <3>3. AsyncFree(c) = [l EXCEPT !.life = "freed", !.replies = <<>>, !.invalid = <<>>,
                                   !.subs = <<>>, !.obuf = <<>>, !.ev = {}]
      BY <2>1, <3>1
    <3>4. AsyncFree(c).log = l.log
      BY <3>2, <3>3, FreedRecord, Zenon
    <3> QED BY <3>2, <3>3, <3>4, FreedRecord, Zenon
  <2>3. e.to = "onDisconnect"
    BY DEF e
  <2>4. Told(Append(d.log, e)) = Told(d.log)
    BY <1>10, <1>11, <2>3, ToldAppend, NotPlain DEF WithPlain
  <2>5. \E st \in {"OK", "ERR"} : AsyncFree(c).log = Append(d.log, [to |-> "onDisconnect", got |-> st])
    BY <1>10, <2>2 DEF e
  <2> QED BY <1>8, <1>9, <1>11, <1>13, <2>2, <2>4, <2>5 DEF FreedFrom
<1> QED BY <1>12, <1>13

(* The ids of the commands I.                                              *)
IdsIn(I) == {m.id : m \in I}

(* r may be given to the callback of m.                                    *)
Answers(r, m) ==
  CASE m.kind = "plain"     -> r.k \in {"status", "error"} /\ r.id \in {m.id, NULL}
    [] m.kind = "subscribe" -> r.k \in {"subscribe", "unsubscribe", "message"}
                                 /\ r.ch \in ToSet(m.chans)
    [] m.kind = "monitor"   -> r.k \in {"status", "error"}
    [] OTHER -> FALSE

(* An entry, and a log, that has only answers to the commands I; LogLive   *)
(* is the log of a context that is not freed.                              *)
Right(e, I) == \A m \in I : e.to = m.id /\ e.got # NULL => Answers(e.got, m)
LogRight(l, I) == \A i \in 1 .. Len(l) : Right(l[i], I)
LogLive(l, I) == \A i \in 1 .. Len(l) : Right(l[i], I) /\ l[i].to \in IdsIn(I) \cup {"onConnect"}
HasLogged(l, who) == \E i \in 1 .. Len(l) : l[i].to = who

(* f is what is left of c when it is freed.                                *)
Over(c, f, I) ==
  /\ f \in Context /\ f.life = "freed"
  /\ f.replies = <<>> /\ f.invalid = <<>> /\ f.subs = <<>> /\ f.obuf = <<>> /\ f.ev = {}
  /\ LogRight(f.log, I)
  /\ HasLogged(f.log, "onDisconnect") <=> "CONNECTED" \in c.flags
  /\ HasLogged(f.log, "onConnect") <=> HasLogged(c.log, "onConnect")

(* Telling NULL to commands keeps the log right.                           *)
LEMMA NullsKeep ==
  ASSUME NEW I \in SUBSET Commands, NEW l \in Seq(Entry), NEW k \in Seq(Entry),
         LogLive(l, I), NullsAdded(l, k)
  PROVE  /\ LogRight(k, I) /\ ~HasLogged(k, "onDisconnect")
         /\ HasLogged(k, "onConnect") <=> HasLogged(l, "onConnect")
<1>1. Len(l) \in Nat /\ Len(k) \in Nat /\ Len(l) <= Len(k)
  BY DEF NullsAdded
<1>2. IdsIn(I) \subseteq Ids /\ "onDisconnect" # "onConnect"
  BY DEF IdsIn, Ids
<1>3. ASSUME NEW i \in 1 .. Len(k)
      PROVE  \/ i \in 1 .. Len(l) /\ k[i] = l[i]
             \/ k[i].got = NULL /\ k[i].to \in Ids
  BY <1>1 DEF NullsAdded
<1>4. \A i \in 1 .. Len(l) : i \in 1 .. Len(k) /\ k[i] = l[i]
  BY <1>1 DEF NullsAdded
<1>5. LogRight(k, I)
  <2> SUFFICES ASSUME NEW i \in 1 .. Len(k) PROVE Right(k[i], I)
    BY DEF LogRight
  <2> QED BY <1>3 DEF LogLive, Right
<1>6. ~HasLogged(k, "onDisconnect")
  <2> SUFFICES ASSUME NEW i \in 1 .. Len(k) PROVE k[i].to # "onDisconnect"
    BY DEF HasLogged
  <2> QED BY <1>2, <1>3, NotPlain DEF LogLive
<1>7. HasLogged(k, "onConnect") <=> HasLogged(l, "onConnect")
  BY <1>3, <1>4, NotPlain DEF HasLogged
<1> QED BY <1>5, <1>6, <1>7

(* The entries of a log with one more.                                     *)
LEMMA LogAppend ==
  ASSUME NEW l \in Seq(Entry), NEW e \in Entry
  PROVE  /\ Len(Append(l, e)) = Len(l) + 1 /\ Len(l) \in Nat
         /\ Append(l, e)[Len(l) + 1] = e
         /\ \A i \in 1 .. Len(l) : Append(l, e)[i] = l[i]
         /\ \A i \in 1 .. (Len(l) + 1) : i \in 1 .. Len(l) \/ i = Len(l) + 1
         /\ \A who : HasLogged(Append(l, e), who) <=> HasLogged(l, who) \/ e.to = who
<1>1. /\ Len(Append(l, e)) = Len(l) + 1 /\ Len(l) \in Nat
      /\ Append(l, e)[Len(l) + 1] = e
      /\ \A i \in 1 .. Len(l) : Append(l, e)[i] = l[i]
      /\ \A i \in 1 .. (Len(l) + 1) : i \in 1 .. Len(l) \/ i = Len(l) + 1
      /\ \A i \in 1 .. Len(l) : i \in 1 .. (Len(l) + 1)
      /\ Len(l) + 1 \in 1 .. (Len(l) + 1)
  OBVIOUS
<1>2. ASSUME NEW who
      PROVE  HasLogged(Append(l, e), who) <=> HasLogged(l, who) \/ e.to = who
  BY <1>1 DEF HasLogged
<1> QED BY <1>1, <1>2

(* __redisAsyncFree leaves a context that is over, and none of its         *)
(* commands waits.                                                         *)
LEMMA FreeEnds ==
  ASSUME NEW I \in SUBSET Commands, NEW c \in Context, AllApt(c), LogLive(c.log, I)
  PROVE  /\ Over(c, AsyncFree(c), I)
         /\ Told(AsyncFree(c).log) = Told(c.log) \o Waits(c)
<1> DEFINE f == AsyncFree(c)
<1>1. FreedFrom(c, f)
  BY FreeFields
<1> HIDE DEF f
<1>2. PICK l \in Seq(Entry) :
        /\ NullsAdded(c.log, l)
        /\ \/ "CONNECTED" \notin c.flags /\ f.log = l
           \/ /\ "CONNECTED" \in c.flags
              /\ \E st \in {"OK", "ERR"} : f.log = Append(l, [to |-> "onDisconnect", got |-> st])
  BY <1>1 DEF FreedFrom
<1>3. c.log \in Seq(Entry)
  BY DEF Context
<1>4. /\ LogRight(l, I) /\ ~HasLogged(l, "onDisconnect")
      /\ HasLogged(l, "onConnect") <=> HasLogged(c.log, "onConnect")
  BY <1>2, <1>3, NullsKeep
<1>5. /\ LogRight(f.log, I)
      /\ HasLogged(f.log, "onDisconnect") <=> "CONNECTED" \in c.flags
      /\ HasLogged(f.log, "onConnect") <=> HasLogged(c.log, "onConnect")
  <2>1. CASE "CONNECTED" \notin c.flags
    BY <1>2, <1>4, <2>1
  <2>2. CASE "CONNECTED" \in c.flags
    <3>1. PICK st \in {"OK", "ERR"} : f.log = Append(l, [to |-> "onDisconnect", got |-> st])
      BY <1>2, <2>2
    <3>2. PICK e \in Entry : e = [to |-> "onDisconnect", got |-> st]
      BY DEF Entry
    <3>3. e.to = "onDisconnect" /\ f.log = Append(l, e)
      BY <3>1, <3>2
    <3>4. Right(e, I)
      BY <3>3, NotPlain DEF Right, Ids
    <3>5. LogRight(Append(l, e), I)
      BY <1>4, <3>4, LogAppend DEF LogRight
    <3>6. \A who : HasLogged(Append(l, e), who) <=> HasLogged(l, who) \/ e.to = who
      BY LogAppend
    <3> QED BY <1>4, <2>2, <3>3, <3>5, <3>6
  <2> QED BY <2>1, <2>2
<1> QED BY <1>1, <1>5 DEF Over, FreedFrom, f

(* A right reply given to a callback keeps the log right; the callback may *)
(* free the context, which then ends.                                      *)
LEMMA AnswerGiven ==
  ASSUME NEW I \in SUBSET Commands, NEW c \in Context, c.life = "live", AllApt(c),
         LogLive(c.log, I), NEW cb, Apt(cb), cb.fn # "null" => cb.id \in IdsIn(I),
         NEW r \in Reply, Right([to |-> cb.id, got |-> r], I)
  PROVE  LET d == RunCallback(c, cb, r)
             f == IF "FREEING" \in d.flags /\ cb.fn # "null" THEN AsyncFree(d) ELSE d
             g == WithPlain(Told(c.log), cb.id)
         IN \/ /\ f \in Context /\ f.life = "live" /\ SameWork(c, f) /\ LogLive(f.log, I)
               /\ c.flags \subseteq f.flags
               /\ f.flags \subseteq c.flags \cup {"DISCONNECTING", "FREEING"}
               /\ HasLogged(f.log, "onConnect") <=> HasLogged(c.log, "onConnect")
               /\ Told(f.log) = g
            \/ Over(c, f, I) /\ Told(f.log) = g \o Waits(c)
<1> DEFINE d == RunCallback(c, cb, r)
           f == IF "FREEING" \in d.flags /\ cb.fn # "null" THEN AsyncFree(d) ELSE d
           g == WithPlain(Told(c.log), cb.id)
<1>1. /\ d \in Context /\ d.life = "live" /\ SameWork(c, d)
      /\ c.flags \subseteq d.flags /\ d.flags \subseteq c.flags \cup {"DISCONNECTING", "FREEING"}
      /\ d.log = IF cb.fn = "null" THEN c.log ELSE Append(c.log, [to |-> cb.id, got |-> r])
  BY RunCallbackFields DEF Apt
<1> HIDE DEF d
<1>2. c.log \in Seq(Entry)
  BY DEF Context
<1>3. /\ Told(d.log) = g /\ LogLive(d.log, I)
      /\ HasLogged(d.log, "onConnect") <=> HasLogged(c.log, "onConnect")
  <2>1. CASE cb.fn = "null"
    BY <1>1, <2>1 DEF Apt, WithPlain
  <2>2. CASE cb.fn # "null"
    <3>1. PICK e : e = [to |-> cb.id, got |-> r]
      OBVIOUS
    <3>2. /\ e \in Entry /\ e.to = cb.id /\ Right(e, I) /\ d.log = Append(c.log, e)
          /\ cb.id \in Ids /\ cb.id \in IdsIn(I)
      BY <1>1, <2>2, <3>1 DEF Entry, Apt
    <3>3. Told(d.log) = g
      BY <1>2, <3>2, ToldAppend
    <3>4. LogLive(d.log, I)
      BY <1>2, <3>2, LogAppend DEF LogLive
    <3>5. HasLogged(d.log, "onConnect") <=> HasLogged(c.log, "onConnect")
      BY <1>2, <3>2, LogAppend, NotPlain
    <3> QED BY <3>3, <3>4, <3>5
  <2> QED BY <2>1, <2>2
<1>4. AllApt(d) /\ Waits(d) = Waits(c)
  BY <1>1 DEF SameWork, AllApt, Waits
<1>5. CASE "FREEING" \in d.flags /\ cb.fn # "null"
  <2>1. f = AsyncFree(d)
    BY <1>5
  <2>2. Over(d, f, I) /\ Told(f.log) = Told(d.log) \o Waits(d)
    BY <1>1, <1>3, <1>4, <2>1, FreeEnds
  <2>3. "CONNECTED" \in d.flags <=> "CONNECTED" \in c.flags
    BY <1>1
  <2> HIDE DEF f, g
  <2>4. Over(c, f, I) /\ Told(f.log) = g \o Waits(c)
    BY <1>3, <1>4, <2>2, <2>3 DEF Over
  <2> QED BY <2>4 DEF f, g, d
<1>6. CASE ~("FREEING" \in d.flags /\ cb.fn # "null")
  <2>1. f = d
    BY <1>6
  <2> HIDE DEF f, g
  <2>2. /\ f \in Context /\ f.life = "live" /\ SameWork(c, f) /\ LogLive(f.log, I)
        /\ c.flags \subseteq f.flags
        /\ f.flags \subseteq c.flags \cup {"DISCONNECTING", "FREEING"}
        /\ HasLogged(f.log, "onConnect") <=> HasLogged(c.log, "onConnect")
        /\ Told(f.log) = g
    BY <1>1, <1>3, <2>1
  <2> QED BY <2>2 DEF f, g, d
<1> QED BY <1>5, <1>6

-----------------------------------------------------------------------------
(* What a context expects of the server, and how one reply changes it.     *)

(* What a context awaits: the callbacks of its two queues, the channels it *)
(* is subscribed to, and for each channel the confirmations still to come. *)
(* Known are the channels its dictionary should hold.                      *)
Expected == [r : Seq(Callback), i : Seq(Callback), v : SUBSET Channels, p : [Channels -> Nat]]
Known(a) == a.v \cup {ch \in Channels : a.p[ch] > 0}

(* A reply that a context expecting a may get, and what it expects then.   *)
ReplyStep(a, x, b) ==
  \/ /\ x.k \in {"status", "error"} /\ a.r # <<>> /\ Head(a.r).id = x.id
     /\ b.r = Tail(a.r) /\ b.i = a.i /\ b.v = a.v /\ b.p = a.p
  \/ /\ x.k = "error" /\ a.r = <<>> /\ a.i # <<>>
     /\ b.r = a.r /\ b.i = Tail(a.i) /\ b.v = a.v /\ b.p = a.p
  \/ /\ x.k = "subscribe" /\ a.r = <<>> /\ x.ch \in Channels /\ a.p[x.ch] > 0
     /\ b.r = a.r /\ b.i = a.i /\ b.v = a.v \cup {x.ch}
     /\ b.p = [a.p EXCEPT ![x.ch] = @ - 1]
  \/ /\ x.k = "unsubscribe" /\ a.r = <<>> /\ a.i = <<>> /\ x.ch \in a.v
     /\ b.r = a.r /\ b.i = a.i /\ b.v = a.v \ {x.ch} /\ b.p = a.p
     /\ b.v = {} => x.n = 0
  \/ /\ x.k = "message" /\ a.r = <<>> /\ x.ch \in a.v
     /\ b.r = a.r /\ b.i = a.i /\ b.v = a.v /\ b.p = a.p

(* The callback was registered by the command m.                           *)
Serves(cb, m) == cb.id = m.id /\ cb.fn = m.fn

(* A context that took the commands I, none of which is MONITOR.           *)
Normal(c, I) ==
  /\ c \in Context
  /\ \A j \in 1 .. Len(c.replies) : \E m \in I : m.kind = "plain" /\ Serves(c.replies[j], m)
  /\ \A j \in 1 .. Len(c.invalid) : \E m \in I : m.kind = "plain" /\ Serves(c.invalid[j], m)
  /\ \A ch \in DOMAIN c.subs :
       \E m \in I : m.kind = "subscribe" /\ Serves(c.subs[ch], m) /\ ch \in ToSet(m.chans)
  /\ IsFiniteSet(DOMAIN c.subs)
  /\ "MONITORING" \notin c.flags
  /\ "SUBSCRIBED" \in c.flags <=> DOMAIN c.subs # {}

(* The context holds exactly the callbacks of what is expected.            *)
Matches(c, a) ==
  /\ a.r = c.replies /\ a.i = c.invalid
  /\ DOMAIN c.subs = Known(a)
  /\ \A ch \in DOMAIN c.subs : c.subs[ch].pending = a.p[ch]

(* What the context keeps while replies are given to their callbacks.      *)
Carries(c, d, I) ==
  /\ d \in Context /\ d.life = "live" /\ LogLive(d.log, I)
  /\ d.obuf = c.obuf /\ d.ev = c.ev /\ d.err = c.err
  /\ "CONNECTED" \in d.flags <=> "CONNECTED" \in c.flags
  /\ HasLogged(d.log, "onConnect") <=> HasLogged(c.log, "onConnect")

(* The callbacks of d's commands that c still had to run were run in       *)
(* order.                                                                  *)
Moved(c, d) ==
  \E A \in Seq(PlainIds) : Told(d.log) = Told(c.log) \o A /\ Waits(c) = A \o Waits(d)

(* The queues of a context and what waits in them.                         *)
LEMMA WaitsType ==
  ASSUME NEW c \in Context
  PROVE  /\ c.replies \o c.invalid \in Seq(Callback)
         /\ Waits(c) \in Seq(PlainIds) /\ Told(c.log) \in Seq(PlainIds)
<1>1. c.replies \in Seq(Callback) /\ c.invalid \in Seq(Callback) /\ c.log \in Seq(Entry)
  BY DEF Context
<1>2. c.replies \o c.invalid \in Seq(Callback)
  BY <1>1
<1> QED BY <1>1, <1>2, IdsType, PlainType, ToldType DEF Waits

(* Nothing waits in empty queues.                                          *)
LEMMA NoneWait ==
  ASSUME NEW f, f.replies = <<>>, f.invalid = <<>>
  PROVE  Waits(f) = <<>>
<1>1. f.replies \o f.invalid = <<>> /\ IdsOf(<<>>) = <<>>
  BY DEF IdsOf
<1> QED BY <1>1, PlainEmpty DEF Waits

(* Two moves make one.                                                     *)
LEMMA MovedTrans ==
  ASSUME NEW c \in Context, NEW d \in Context, NEW e \in Context, Moved(c, d), Moved(d, e)
  PROVE  Moved(c, e)
<1>1. PICK A \in Seq(PlainIds) : Told(d.log) = Told(c.log) \o A /\ Waits(c) = A \o Waits(d)
  BY DEF Moved
<1>2. PICK B \in Seq(PlainIds) : Told(e.log) = Told(d.log) \o B /\ Waits(d) = B \o Waits(e)
  BY DEF Moved
<1>3. Waits(e) \in Seq(PlainIds) /\ Told(c.log) \in Seq(PlainIds)
  BY WaitsType
<1>4. A \o B \in Seq(PlainIds)
  OBVIOUS
<1>5. (Told(c.log) \o A) \o B = Told(c.log) \o (A \o B)
  BY <1>3, ConcatAssociative
<1>7. A \o (B \o Waits(e)) = (A \o B) \o Waits(e)
  BY <1>3, ConcatAssociative
<1>6. Told(e.log) = Told(c.log) \o (A \o B) /\ Waits(c) = (A \o B) \o Waits(e)
  BY <1>1, <1>2, <1>5, <1>7
<1> QED BY <1>4, <1>6 DEF Moved

(* A step that runs no callback of a plain command.                        *)
LEMMA MovedNone ==
  ASSUME NEW c \in Context, NEW d \in Context, Told(d.log) = Told(c.log), Waits(d) = Waits(c)
  PROVE  Moved(c, d)
<1>1. Waits(c) \in Seq(PlainIds) /\ Told(c.log) \in Seq(PlainIds) /\ <<>> \in Seq(PlainIds)
  BY WaitsType
<1>2. Told(d.log) = Told(c.log) \o <<>> /\ Waits(c) = <<>> \o Waits(d)
  BY <1>1, ConcatEmptySeq
<1> QED BY <1>1, <1>2 DEF Moved

(* A step that runs all callbacks.                                         *)
LEMMA MovedAll ==
  ASSUME NEW c \in Context, NEW f \in Context, f.replies = <<>>, f.invalid = <<>>,
         Told(f.log) = Told(c.log) \o Waits(c)
  PROVE  Moved(c, f)
<1>1. Waits(f) = <<>> /\ Waits(c) \in Seq(PlainIds)
  BY NoneWait, WaitsType
<1>2. Waits(c) = Waits(c) \o Waits(f)
  BY <1>1, ConcatEmptySeq
<1> QED BY <1>1, <1>2 DEF Moved

(* The oldest callback leaves the queue.                                   *)
LEMMA PopWaits ==
  ASSUME NEW c \in Context, NEW d \in Context, NEW cb \in Callback,
         c.replies \o c.invalid = <<cb>> \o (d.replies \o d.invalid)
  PROVE  /\ Waits(c) = PlainOnly(<<cb.id>>) \o Waits(d)
         /\ PlainOnly(<<cb.id>>) \in Seq(PlainIds)
         /\ WithPlain(Told(c.log), cb.id) = Told(c.log) \o PlainOnly(<<cb.id>>)
<1>1. d.replies \o d.invalid \in Seq(Callback) /\ <<cb>> \in Seq(Callback)
  BY WaitsType
<1>2. IdsOf(<<cb>>) = <<cb.id>>
  BY DEF IdsOf
<1>3. Waits(c) = PlainOnly(<<cb.id>>) \o Waits(d)
  BY <1>1, <1>2, IdsConcat DEF Waits
<1>4. Told(c.log) \in Seq(PlainIds)
  BY WaitsType
<1>5. PlainOnly(<<cb.id>>) = IF cb.id \in PlainIds THEN <<cb.id>> ELSE <<>>
  BY PlainSingle
<1>6. CASE cb.id \in PlainIds
  <2>1. <<cb.id>> \in Seq(PlainIds)
    BY <1>6
  <2>2. Append(Told(c.log), cb.id) = Told(c.log) \o <<cb.id>>
    BY <1>4, <1>6, AppendIsConcat
  <2> QED BY <1>3, <1>5, <1>6, <2>1, <2>2 DEF WithPlain
<1>7. CASE cb.id \notin PlainIds
  BY <1>3, <1>4, <1>5, <1>7 DEF WithPlain
<1> QED BY <1>6, <1>7

(* The callback of a command may be held.                                  *)
LEMMA ServesApt ==
  ASSUME NEW I \in SUBSET Commands, NEW cb \in Callback, NEW m \in I, Serves(cb, m)
  PROVE  /\ Apt(cb) /\ cb.id \in IdsIn(I)
         /\ m.kind # "plain" => cb.id \notin PlainIds
<1>1. m \in Commands /\ cb.id \in Ids /\ cb.id \in IdsIn(I)
  BY DEF Serves, Ids, IdsIn
<1>2. ASSUME cb.id \in PlainIds PROVE m.kind = "plain" /\ m.fn # "null"
  <2>1. PICK n \in Commands : n.kind = "plain" /\ n.fn # "null" /\ n.id = cb.id
    BY <1>2 DEF PlainIds
  <2>2. n = m
    BY <1>1, <2>1, CommandsAssumption DEF Serves
  <2> QED BY <2>1, <2>2
<1> QED BY <1>1, <1>2 DEF Apt, Serves

(* So may all the callbacks of a normal context.                           *)
LEMMA NormalApt ==
  ASSUME NEW I \in SUBSET Commands, NEW c, Normal(c, I)
  PROVE  AllApt(c)
<1>1. c.replies \in Seq(Callback) /\ c.invalid \in Seq(Callback) /\ c.subs \in Subscriptions
  BY DEF Normal, Context
<1>2. /\ \A j \in 1 .. Len(c.replies) : c.replies[j] \in Callback
      /\ \A j \in 1 .. Len(c.invalid) : c.invalid[j] \in Callback
      /\ \A ch \in DOMAIN c.subs : c.subs[ch] \in Callback
  BY <1>1, SubscriptionsAre
<1>3. \A j \in 1 .. Len(c.replies) : Apt(c.replies[j])
  BY <1>2, ServesApt DEF Normal
<1>4. \A j \in 1 .. Len(c.invalid) : Apt(c.invalid[j])
  BY <1>2, ServesApt DEF Normal
<1>5. \A ch \in DOMAIN c.subs : Apt(c.subs[ch]) /\ c.subs[ch].id \notin PlainIds
  <2> SUFFICES ASSUME NEW ch \in DOMAIN c.subs
               PROVE  Apt(c.subs[ch]) /\ c.subs[ch].id \notin PlainIds
    OBVIOUS
  <2>1. PICK m \in I : m.kind = "subscribe" /\ Serves(c.subs[ch], m)
    BY DEF Normal
  <2> QED BY <1>2, <2>1, ServesApt
<1> QED BY <1>3, <1>4, <1>5 DEF AllApt, Normal

(* __redisAsyncDisconnect on an error ends the context, and runs every     *)
(* callback that waits.                                                    *)
LEMMA FailIs ==
  ASSUME NEW I \in SUBSET Commands, NEW c \in Context, AllApt(c), LogLive(c.log, I)
  PROVE  Over(c, Fail(c), I) /\ Moved(c, Fail(c)) /\ Waits(Fail(c)) = <<>>
<1> DEFINE d == [c EXCEPT !.err = TRUE]
           e == [d EXCEPT !.flags = @ \cup {"DISCONNECTING"}]
<1>1. d \in Context /\ d.err = TRUE
  BY DEF Context
<1>2. /\ e \in Context /\ e.replies = c.replies /\ e.invalid = c.invalid /\ e.subs = c.subs
      /\ e.log = c.log /\ e.flags = c.flags \cup {"DISCONNECTING"}
  BY DEF Context, Flags
<1>3. Fail(c) = AsyncFree(e)
  BY <1>1 DEF Fail, AsyncDisconnect
<1> HIDE DEF d, e
<1>4. AllApt(e) /\ Waits(e) = Waits(c)
  BY <1>2 DEF AllApt, Waits
<1>5. Over(e, Fail(c), I) /\ Told(Fail(c).log) = Told(c.log) \o Waits(c)
  BY <1>2, <1>3, <1>4, FreeEnds
<1>6. Over(c, Fail(c), I)
  BY <1>2, <1>5 DEF Over
<1> QED BY <1>5, <1>6, MovedAll, NoneWait DEF Over

(* The state of redisProcessCallbacks: the context and the local cb.       *)
Pair(s) == s = [c |-> s.c, cb |-> s.cb]

(* What one reply does to a context that is not monitoring.                *)
ReplyDone(c, t, b, I) ==
  /\ Pair(t) /\ t.c \in Context /\ Moved(c, t.c)
  /\ \/ Carries(c, t.c, I) /\ Normal(t.c, I) /\ Matches(t.c, b)
     \/ Over(c, t.c, I)

(* A reply given to a callback, after which the context may be freed.      *)
Given(d, cb, x) ==
  LET e == RunCallback(d, cb, x)
  IN IF "FREEING" \in e.flags /\ cb.fn # "null" THEN AsyncFree(e) ELSE e

(* AnswerGiven, for Given.                                                 *)
LEMMA GivenIs ==
  ASSUME NEW I \in SUBSET Commands, NEW c \in Context, c.life = "live", AllApt(c),
         LogLive(c.log, I), NEW cb, Apt(cb), cb.fn # "null" => cb.id \in IdsIn(I),
         NEW r \in Reply, Right([to |-> cb.id, got |-> r], I)
  PROVE  LET f == Given(c, cb, r)
             g == WithPlain(Told(c.log), cb.id)
         IN \/ /\ f \in Context /\ f.life = "live" /\ SameWork(c, f) /\ LogLive(f.log, I)
               /\ c.flags \subseteq f.flags
               /\ f.flags \subseteq c.flags \cup {"DISCONNECTING", "FREEING"}
               /\ HasLogged(f.log, "onConnect") <=> HasLogged(c.log, "onConnect")
               /\ Told(f.log) = g
            \/ Over(c, f, I) /\ Told(f.log) = g \o Waits(c)
BY AnswerGiven, Zenon DEF Given

(* The reply is given to the oldest callback of the queue.                 *)
LEMMA PopReply ==
  ASSUME NEW I \in SUBSET Commands, NEW c \in Context, AllApt(c), c.life = "live",
         LogLive(c.log, I), c.replies # <<>>, NEW x \in Reply,
         Head(c.replies).fn # "null" => Head(c.replies).id \in IdsIn(I),
         Right([to |-> Head(c.replies).id, got |-> x], I)
  PROVE  LET f == Given([c EXCEPT !.replies = Tail(@)], Head(c.replies), x)
         IN /\ f \in Context /\ Moved(c, f)
            /\ \/ /\ Carries(c, f, I) /\ f.replies = Tail(c.replies)
                  /\ f.invalid = c.invalid /\ f.subs = c.subs
                  /\ c.flags \subseteq f.flags
                  /\ f.flags \subseteq c.flags \cup {"DISCONNECTING", "FREEING"}
               \/ Over(c, f, I)
<1> DEFINE h == Head(c.replies)
           d == [c EXCEPT !.replies = Tail(@)]
           f == Given(d, h, x)
           g == WithPlain(Told(c.log), h.id)
<1>1. c.replies \in Seq(Callback) /\ c.invalid \in Seq(Callback)
  BY DEF Context
<1>2. h \in Callback /\ Tail(c.replies) \in Seq(Callback) /\ h = c.replies[1] /\ 1 \in 1 .. Len(c.replies)
  BY <1>1
<1>3. Apt(h)
  BY <1>2 DEF AllApt
<1>4. /\ d \in Context /\ d.life = "live" /\ d.log = c.log /\ d.flags = c.flags
      /\ d.replies = Tail(c.replies) /\ d.invalid = c.invalid /\ d.subs = c.subs
      /\ d.obuf = c.obuf /\ d.ev = c.ev /\ d.err = c.err
  BY <1>2 DEF Context
<1>5. \A j \in 1 .. Len(Tail(c.replies)) : Tail(c.replies)[j] = c.replies[j + 1] /\ j + 1 \in 1 .. Len(c.replies)
  BY <1>1
<1> HIDE DEF d, h
<1>6. AllApt(d)
  BY <1>4, <1>5 DEF AllApt
<1>7. c.replies \o c.invalid = <<h>> \o (d.replies \o d.invalid)
  <2>1. c.replies = <<h>> \o Tail(c.replies)
    BY <1>1, <1>2 DEF h
  <2>2. <<h>> \in Seq(Callback)
    BY <1>2
  <2>3. (<<h>> \o Tail(c.replies)) \o c.invalid = <<h>> \o (Tail(c.replies) \o c.invalid)
    <3>1. PICK q \in Seq(Callback), u \in Seq(Callback), w \in Seq(Callback) :
            q = <<h>> /\ u = Tail(c.replies) /\ w = c.invalid
      BY <1>1, <1>2, <2>2
    <3>2. (q \o u) \o w = q \o (u \o w)
      BY ConcatAssociative
    <3> QED BY <3>1, <3>2, Zenon
  <2> QED BY <1>4, <2>1, <2>3
<1>8. /\ Waits(c) = PlainOnly(<<h.id>>) \o Waits(d)
      /\ PlainOnly(<<h.id>>) \in Seq(PlainIds)
      /\ g = Told(c.log) \o PlainOnly(<<h.id>>)
  BY <1>2, <1>4, <1>7, PopWaits
<1>9. h.fn # "null" => h.id \in IdsIn(I)
  BY DEF h
<1>10. Right([to |-> h.id, got |-> x], I)
  BY DEF h
<1>w. Told(d.log) = Told(c.log) /\ LogLive(d.log, I)
  BY <1>4
<1>11. \/ /\ f \in Context /\ f.life = "live" /\ SameWork(d, f) /\ LogLive(f.log, I)
          /\ d.flags \subseteq f.flags
          /\ f.flags \subseteq d.flags \cup {"DISCONNECTING", "FREEING"}
          /\ HasLogged(f.log, "onConnect") <=> HasLogged(d.log, "onConnect")
          /\ Told(f.log) = g
       \/ Over(d, f, I) /\ Told(f.log) = g \o Waits(d)
  BY <1>3, <1>4, <1>6, <1>9, <1>10, <1>w, GivenIs
<1> HIDE DEF f, g
<1>12. CASE /\ f \in Context /\ f.life = "live" /\ SameWork(d, f) /\ LogLive(f.log, I)
            /\ d.flags \subseteq f.flags
            /\ f.flags \subseteq d.flags \cup {"DISCONNECTING", "FREEING"}
            /\ HasLogged(f.log, "onConnect") <=> HasLogged(d.log, "onConnect")
            /\ Told(f.log) = g
  <2>1. Waits(f) = Waits(d)
    BY <1>12 DEF SameWork, Waits
  <2>2. Moved(c, f)
    BY <1>8, <1>12, <2>1 DEF Moved
  <2>3. /\ Carries(c, f, I) /\ f.replies = Tail(c.replies)
        /\ f.invalid = c.invalid /\ f.subs = c.subs
        /\ c.flags \subseteq f.flags
        /\ f.flags \subseteq c.flags \cup {"DISCONNECTING", "FREEING"}
    BY <1>4, <1>12 DEF Carries, SameWork
  <2> QED BY <1>12, <2>2, <2>3 DEF f, d, h
<1>13. CASE Over(d, f, I) /\ Told(f.log) = g \o Waits(d)
  <2>1. Over(c, f, I) /\ f \in Context
    BY <1>4, <1>13 DEF Over
  <2>2. Waits(d) \in Seq(PlainIds) /\ Told(c.log) \in Seq(PlainIds)
    BY <1>4, WaitsType
  <2>3. (Told(c.log) \o PlainOnly(<<h.id>>)) \o Waits(d) = Told(c.log) \o (PlainOnly(<<h.id>>) \o Waits(d))
    BY <1>8, <2>2, ConcatAssociative
  <2>4. Told(f.log) = Told(c.log) \o Waits(c)
    BY <1>8, <1>13, <2>3
  <2>5. Moved(c, f)
    BY <2>1, <2>4, MovedAll DEF Over
  <2> QED BY <2>1, <2>5 DEF f, d, h
<1> QED BY <1>11, <1>12, <1>13

(* A reply to the oldest waiting command reaches its callback.             *)
LEMMA ReplyToWaiting ==
  ASSUME NEW I \in SUBSET Commands, NEW c, Normal(c, I), c.life = "live", LogLive(c.log, I),
         NEW a \in Expected, NEW b \in Expected, NEW x \in Reply, Matches(c, a),
         NEW s, Pair(s), s.c = c,
         x.k \in {"status", "error"}, a.r # <<>>, x.id \in {Head(a.r).id, NULL},
         b.r = Tail(a.r), b.i = a.i, b.v = a.v, b.p = a.p
  PROVE  ReplyDone(c, ProcessReply(s, x), b, I)
<1> DEFINE h == Head(c.replies)
           d == [c EXCEPT !.replies = Tail(@)]
           f == Given(d, h, x)
<1>1. c \in Context /\ AllApt(c) /\ c.replies # <<>> /\ a.r = c.replies /\ c.replies \in Seq(Callback)
  BY NormalApt DEF Normal, Matches, Context
<1>2. h = c.replies[1] /\ 1 \in 1 .. Len(c.replies) /\ h \in Callback
  BY <1>1
<1>3. PICK m \in I : m.kind = "plain" /\ Serves(h, m)
  BY <1>2 DEF Normal
<1>4. h.id \in IdsIn(I) /\ h.id = m.id
  BY <1>2, <1>3, ServesApt DEF Serves
<1>5. Right([to |-> h.id, got |-> x], I)
  <2> SUFFICES ASSUME NEW n \in I, h.id = n.id PROVE Answers(x, n)
    BY DEF Right
  <2>1. n = m
    BY <1>4, CommandsAssumption
  <2> QED BY <1>1, <1>3, <1>4, <2>1 DEF Answers
<1>6. /\ f \in Context /\ Moved(c, f)
      /\ \/ /\ Carries(c, f, I) /\ f.replies = Tail(c.replies)
            /\ f.invalid = c.invalid /\ f.subs = c.subs
            /\ c.flags \subseteq f.flags
            /\ f.flags \subseteq c.flags \cup {"DISCONNECTING", "FREEING"}
         \/ Over(c, f, I)
  BY <1>1, <1>4, <1>5, PopReply
<1>7. ProcessReply(s, x) = [c |-> f, cb |-> h]
  <2>1. Route(s, x) = [c |-> d, cb |-> h]
    BY <1>1 DEF Route
  <2>2. ProcessReply(s, x) =
          LET t == Route(s, x)
              e == RunCallback(t.c, t.cb, x)
          IN [c |-> IF "FREEING" \in e.flags /\ t.cb.fn # "null" THEN AsyncFree(e) ELSE e,
              cb |-> t.cb]
    <3>1. ~(s.c.life # "live") /\ ~(s.c.replies = <<>> /\ x.k = "error")
          /\ ~(s.c.replies = <<>> /\ s.c.flags \cap {"SUBSCRIBED", "MONITORING"} = {})
      BY <1>1
    <3> QED BY <3>1, Zenon DEF ProcessReply
  <2> HIDE DEF d, h
  <2>3. Route(s, x).c = d /\ Route(s, x).cb = h
    BY <2>1
  <2> QED BY <2>2, <2>3 DEF Given
<1> HIDE DEF f
<1>8. CASE Over(c, f, I)
  BY <1>6, <1>7, <1>8 DEF ReplyDone, Pair
<1>9. CASE /\ Carries(c, f, I) /\ f.replies = Tail(c.replies)
           /\ f.invalid = c.invalid /\ f.subs = c.subs
           /\ c.flags \subseteq f.flags
           /\ f.flags \subseteq c.flags \cup {"DISCONNECTING", "FREEING"}
  <2>1. \A j \in 1 .. Len(f.replies) : f.replies[j] = c.replies[j + 1] /\ j + 1 \in 1 .. Len(c.replies)
    BY <1>1, <1>9
  <2>2. Normal(f, I)
    BY <1>6, <1>9, <2>1 DEF Normal
  <2>3. Matches(f, b)
    BY <1>1, <1>9 DEF Matches, Known
  <2> QED BY <1>6, <1>7, <1>9, <2>2, <2>3 DEF ReplyDone, Pair
<1> QED BY <1>6, <1>8, <1>9

(* What is known of a channel.                                             *)
LEMMA KnownIs ==
  ASSUME NEW a \in Expected, NEW ch \in Channels
  PROVE  /\ a.v \subseteq Channels /\ a.p \in [Channels -> Nat] /\ Known(a) \subseteq Channels
         /\ ch \in Known(a) <=> ch \in a.v \/ a.p[ch] > 0
BY DEF Expected, Known

(* A callback with another count is the same callback.                     *)
LEMMA RecountCallback ==
  ASSUME NEW cb \in Callback, NEW n \in Int
  PROVE  LET new == [cb EXCEPT !.pending = n]
         IN new \in Callback /\ new.id = cb.id /\ new.fn = cb.fn /\ new.pending = n
BY DEF Callback

(* The dictionary after __redisGetSubscribeCallback.                       *)
SubsAfter(c, x, new) ==
  IF x.k = "unsubscribe" /\ new.pending = 0
  THEN [y \in DOMAIN c.subs \ {x.ch} |-> c.subs[y]]
  ELSE [c.subs EXCEPT ![x.ch] = new]

(* __redisGetSubscribeCallback finds a subscription, and leaves what b     *)
(* says.                                                                   *)
Found(c, x, cb, b, I) ==
  \E d, new :
      /\ GetSubscribeCallback(c, x, cb) = [c |-> d, cb |-> new]
      /\ Normal(d, I) /\ Matches(d, b)
      /\ d.life = "live" /\ d.log = c.log /\ d.obuf = c.obuf /\ d.ev = c.ev /\ d.err = c.err
      /\ d.replies = c.replies /\ d.invalid = c.invalid
      /\ d.flags \subseteq c.flags /\ c.flags \subseteq d.flags \cup {"SUBSCRIBED"}
      /\ c.replies = <<>> /\ "SUBSCRIBED" \in c.flags
      /\ new \in Callback
      /\ \E m \in I : m.kind = "subscribe" /\ Serves(new, m) /\ x.ch \in ToSet(m.chans)

(* __redisGetSubscribeCallback finds the callback of the channel, counts   *)
(* the confirmation, and forgets the channel, and the subscribed mode,     *)
(* when the server did.                                                    *)
LEMMA SubscriptionFound ==
  ASSUME NEW I \in SUBSET Commands, NEW c, Normal(c, I), c.life = "live", LogLive(c.log, I),
         NEW a \in Expected, NEW b \in Expected, NEW x \in Reply, Matches(c, a),
         ReplyStep(a, x, b), x.k \in {"subscribe", "unsubscribe", "message"}, NEW cb
  PROVE  Found(c, x, cb, b, I)
<1> DEFINE ch == x.ch
           old == c.subs[ch]
           p == IF x.k = "subscribe" THEN old.pending - 1 ELSE old.pending
           new == [old EXCEPT !.pending = p]
           S == SubsAfter(c, x, new)
           last == x.k = "unsubscribe" /\ x.n = 0 /\ DOMAIN S = {}
           F == IF last THEN c.flags \ {"SUBSCRIBED"} ELSE c.flags
           d == [c EXCEPT !.subs = S, !.flags = F]
<1>1. /\ c \in Context /\ c.subs \in Subscriptions
      /\ ch \in Channels /\ ch \in Known(a) /\ a.r = <<>> /\ c.replies = <<>>
  BY DEF Normal, Context, ReplyStep, Expected, Known, Matches
<1>2. /\ ch \in DOMAIN c.subs /\ DOMAIN c.subs \subseteq Channels
      /\ c.subs = [y \in DOMAIN c.subs |-> c.subs[y]]
      /\ \A y \in DOMAIN c.subs : c.subs[y] \in Callback
  BY <1>1, SubscriptionsAre DEF Matches
<1>3. old \in Callback /\ old.pending = a.p[ch] /\ a.p[ch] \in Nat /\ p \in Int
  BY <1>1, <1>2 DEF Matches, Expected, Callback
<1>4. new \in Callback /\ new.id = old.id /\ new.fn = old.fn /\ new.pending = p
  BY <1>3, RecountCallback
<1>5. GetSubscribeCallback(c, x, cb) = [c |-> d, cb |-> new]
  <2>1. new = [old EXCEPT !.pending = IF x.k = "subscribe" THEN @ - 1 ELSE @]
    BY <1>3 DEF Callback
  <2>2. ~(x.k = "status") /\ ~(x.ch \notin DOMAIN c.subs)
    BY <1>2
  <2>3. GetSubscribeCallback(c, x, cb) =
          LET o == c.subs[x.ch]
              nw == [o EXCEPT !.pending = IF x.k = "subscribe" THEN @ - 1 ELSE @]
              ss == IF x.k = "unsubscribe" /\ nw.pending = 0
                    THEN [y \in DOMAIN c.subs \ {x.ch} |-> c.subs[y]]
                    ELSE [c.subs EXCEPT ![x.ch] = nw]
              lt == x.k = "unsubscribe" /\ x.n = 0 /\ DOMAIN ss = {}
          IN [c |-> [c EXCEPT !.subs = ss, !.flags = IF lt THEN @ \ {"SUBSCRIBED"} ELSE @],
              cb |-> nw]
    BY <2>2, Zenon DEF GetSubscribeCallback
  <2> HIDE DEF p, new
  <2>4. GetSubscribeCallback(c, x, cb) =
          [c |-> [c EXCEPT !.subs = S, !.flags = IF last THEN @ \ {"SUBSCRIBED"} ELSE @], cb |-> new]
    BY <2>1, <2>3, Zenon DEF SubsAfter
  <2>5. d = [c EXCEPT !.subs = S, !.flags = IF last THEN @ \ {"SUBSCRIBED"} ELSE @]
    <3> HIDE DEF S, last
    <3> QED BY <1>1 DEF Context
  <2> QED BY <2>4, <2>5
<1> HIDE DEF new
<1>6. /\ DOMAIN S = IF x.k = "unsubscribe" /\ p = 0 THEN DOMAIN c.subs \ {ch} ELSE DOMAIN c.subs
      /\ \A y \in DOMAIN S : S[y] = IF y = ch THEN new ELSE c.subs[y]
      /\ S = [y \in DOMAIN S |-> S[y]]
  BY <1>2, <1>4 DEF SubsAfter
<1> HIDE DEF S
<1>7. S \in Subscriptions
  <2>1. DOMAIN S \subseteq Channels /\ \A y \in DOMAIN S : S[y] \in Callback
    BY <1>2, <1>4, <1>6
  <2> QED BY <1>6, <2>1, SubscriptionsAre
<1>8. /\ d \in Context /\ d.subs = S /\ d.flags = F
      /\ d.life = "live" /\ d.log = c.log /\ d.obuf = c.obuf /\ d.ev = c.ev /\ d.err = c.err
      /\ d.replies = c.replies /\ d.invalid = c.invalid
      /\ F \subseteq c.flags /\ c.flags \subseteq F \cup {"SUBSCRIBED"}
  <2>1. F \in SUBSET Flags
    BY <1>1 DEF Context
  <2> HIDE DEF F
  <2>2. /\ d \in Context /\ d.subs = S /\ d.flags = F
        /\ d.life = "live" /\ d.log = c.log /\ d.obuf = c.obuf /\ d.ev = c.ev /\ d.err = c.err
        /\ d.replies = c.replies /\ d.invalid = c.invalid
    BY <1>1, <1>7, <2>1 DEF Context
  <2>3. F \subseteq c.flags /\ c.flags \subseteq F \cup {"SUBSCRIBED"}
    BY DEF F
  <2> QED BY <2>2, <2>3
<1>9. /\ b.r = a.r /\ b.i = a.i /\ DOMAIN S = Known(b)
      /\ \A y \in DOMAIN S : S[y].pending = b.p[y]
      /\ x.k = "unsubscribe" /\ b.v = {} => x.n = 0
  <2>1. DOMAIN c.subs = Known(a) /\ \A y \in DOMAIN c.subs : c.subs[y].pending = a.p[y]
    BY DEF Matches
  <2>2. /\ a.v \subseteq Channels /\ a.p \in [Channels -> Nat] /\ Known(a) \subseteq Channels
        /\ b.v \subseteq Channels /\ b.p \in [Channels -> Nat] /\ Known(b) \subseteq Channels
        /\ \A y \in Channels : y \in Known(a) <=> y \in a.v \/ a.p[y] > 0
        /\ \A y \in Channels : y \in Known(b) <=> y \in b.v \/ b.p[y] > 0
    BY <1>1, KnownIs
  <2>3. CASE x.k = "subscribe"
    <3>1. /\ a.p[ch] > 0 /\ b.r = a.r /\ b.i = a.i /\ b.v = a.v \cup {ch}
          /\ b.p = [a.p EXCEPT ![ch] = @ - 1]
      BY <2>3 DEF ReplyStep
    <3>2. /\ b.p[ch] = a.p[ch] - 1 /\ \A y \in Channels : y # ch => b.p[y] = a.p[y]
      BY <1>1, <2>2, <3>1
    <3>3. DOMAIN S = Known(b)
      BY <1>1, <1>6, <2>1, <2>2, <2>3, <3>1, <3>2
    <3>4. \A y \in DOMAIN S : S[y].pending = b.p[y]
      BY <1>1, <1>2, <1>3, <1>4, <1>6, <2>1, <2>2, <2>3, <3>1, <3>2
    <3> QED BY <2>3, <3>1, <3>3, <3>4
  <2>4. CASE x.k = "unsubscribe"
    <3>1. /\ ch \in a.v /\ b.r = a.r /\ b.i = a.i /\ b.v = a.v \ {ch} /\ b.p = a.p /\ p = a.p[ch]
          /\ b.v = {} => x.n = 0
      BY <1>3, <2>4 DEF ReplyStep
    <3>3. DOMAIN S = Known(b)
      <4>1. CASE a.p[ch] = 0
        <5>1. DOMAIN S = Known(a) \ {ch}
          BY <1>6, <2>1, <2>4, <3>1, <4>1
        <5>2. \A y \in Channels : y \in Known(b) <=> y \in Known(a) \ {ch}
          BY <2>2, <3>1, <4>1
        <5> QED BY <2>2, <5>1, <5>2
      <4>2. CASE a.p[ch] # 0
        <5>1. DOMAIN S = Known(a)
          BY <1>6, <2>1, <2>4, <3>1, <4>2
        <5>2. \A y \in Channels : y \in Known(b) <=> y \in Known(a)
          BY <1>1, <1>3, <2>2, <3>1, <4>2
        <5> QED BY <2>2, <5>1, <5>2
      <4> QED BY <4>1, <4>2
    <3>4. \A y \in DOMAIN S : S[y].pending = b.p[y]
      BY <1>1, <1>2, <1>3, <1>4, <1>6, <2>1, <2>2, <2>4, <3>1
    <3> QED BY <2>4, <3>1, <3>3, <3>4
  <2>5. CASE x.k = "message"
    <3>1. /\ ch \in a.v /\ b.r = a.r /\ b.i = a.i /\ b.v = a.v /\ b.p = a.p /\ p = a.p[ch]
      BY <1>3, <2>5 DEF ReplyStep
    <3>3. DOMAIN S = Known(b)
      BY <1>1, <1>3, <1>6, <2>1, <2>2, <2>5, <3>1
    <3>4. \A y \in DOMAIN S : S[y].pending = b.p[y]
      BY <1>1, <1>2, <1>3, <1>4, <1>6, <2>1, <2>2, <2>5, <3>1
    <3> QED BY <2>5, <3>1, <3>3, <3>4
  <2> QED BY <2>3, <2>4, <2>5
<1>10. Matches(d, b)
  BY <1>8, <1>9 DEF Matches
<1>11. PICK m \in I : m.kind = "subscribe" /\ Serves(new, m) /\ ch \in ToSet(m.chans)
  BY <1>2, <1>4 DEF Normal, Serves
<1>12. "SUBSCRIBED" \in c.flags
  BY <1>2 DEF Normal
<1>13. "SUBSCRIBED" \in F <=> DOMAIN S # {}
  <2>1. ASSUME DOMAIN S = {} PROVE last
    <3>1. DOMAIN S # DOMAIN c.subs
      BY <1>2, <2>1
    <3>2. x.k = "unsubscribe"
      BY <1>6, <3>1
    <3>3. b.v = {}
      BY <1>9, <2>1 DEF Known
    <3> QED BY <1>9, <2>1, <3>2, <3>3
  <2> QED BY <1>12, <2>1
<1>14. Normal(d, I)
  <2>1. DOMAIN S \subseteq DOMAIN c.subs
    BY <1>6
  <2>2. IsFiniteSet(DOMAIN S)
    BY <2>1, FS_Subset DEF Normal
  <2>3. \A y \in DOMAIN S :
          \E mm \in I : mm.kind = "subscribe" /\ Serves(S[y], mm) /\ y \in ToSet(mm.chans)
    BY <1>6, <1>11, <2>1 DEF Normal
  <2> HIDE DEF d, F
  <2> QED BY <1>8, <1>13, <2>2, <2>3 DEF Normal
<1> HIDE DEF d, F
<1> QED BY <1>1, <1>4, <1>5, <1>8, <1>10, <1>11, <1>12, <1>14 DEF Found

(* A reply that is not refused goes to the callback found for it.          *)
LEMMA ReplyRouted ==
  ASSUME NEW s, NEW x, s.c.life = "live", ~(s.c.replies = <<>> /\ x.k = "error"),
         ~(s.c.replies = <<>> /\ s.c.flags \cap {"SUBSCRIBED", "MONITORING"} = {}),
         NEW d, NEW cb, Route(s, x) = [c |-> d, cb |-> cb]
  PROVE  ProcessReply(s, x) = [c |-> Given(d, cb, x), cb |-> cb]
<1>1. ProcessReply(s, x) =
        LET t == Route(s, x)
            e == RunCallback(t.c, t.cb, x)
        IN [c |-> IF "FREEING" \in e.flags /\ t.cb.fn # "null" THEN AsyncFree(e) ELSE e,
            cb |-> t.cb]
  <2>1. ~(s.c.life # "live")
    OBVIOUS
  <2> QED BY <2>1, Zenon DEF ProcessReply
<1>2. Route(s, x).c = d /\ Route(s, x).cb = cb
  OBVIOUS
<1> QED BY <1>1, <1>2 DEF Given

(* A confirmation or a message reaches the callback of a command that      *)
(* subscribed to its channel.                                              *)
LEMMA ReplyToSubscription ==
  ASSUME NEW I \in SUBSET Commands, NEW c, Normal(c, I), c.life = "live", LogLive(c.log, I),
         NEW a \in Expected, NEW b \in Expected, NEW x \in Reply, Matches(c, a),
         NEW s, Pair(s), s.c = c,
         ReplyStep(a, x, b), x.k \in {"subscribe", "unsubscribe", "message"}
  PROVE  ReplyDone(c, ProcessReply(s, x), b, I)
<1>0. Found(c, x, s.cb, b, I)
  BY SubscriptionFound
<1>1. PICK d, new :
        /\ GetSubscribeCallback(c, x, s.cb) = [c |-> d, cb |-> new]
        /\ Normal(d, I) /\ Matches(d, b)
        /\ d.life = "live" /\ d.log = c.log /\ d.obuf = c.obuf /\ d.ev = c.ev /\ d.err = c.err
        /\ d.replies = c.replies /\ d.invalid = c.invalid
        /\ d.flags \subseteq c.flags /\ c.flags \subseteq d.flags \cup {"SUBSCRIBED"}
        /\ c.replies = <<>> /\ "SUBSCRIBED" \in c.flags
        /\ new \in Callback
        /\ \E m \in I : m.kind = "subscribe" /\ Serves(new, m) /\ x.ch \in ToSet(m.chans)
  BY <1>0 DEF Found
<1>2. PICK m \in I : m.kind = "subscribe" /\ Serves(new, m) /\ x.ch \in ToSet(m.chans)
  BY <1>1
<1>3. Route(s, x) = [c |-> d, cb |-> new]
  BY <1>1 DEF Route
<1> DEFINE f == Given(d, new, x)
<1>4. ProcessReply(s, x) = [c |-> f, cb |-> new]
  BY <1>1, <1>3, ReplyRouted
<1>5. Apt(new) /\ new.id \in IdsIn(I) /\ new.id \notin PlainIds
  BY <1>1, <1>2, ServesApt
<1>6. Right([to |-> new.id, got |-> x], I)
  <2> SUFFICES ASSUME NEW n \in I, new.id = n.id PROVE Answers(x, n)
    BY DEF Right
  <2>1. n = m
    BY <1>2, CommandsAssumption DEF Serves
  <2> QED BY <1>2, <2>1 DEF Answers
<1>7. d \in Context /\ c \in Context /\ AllApt(d) /\ LogLive(d.log, I)
  BY <1>1, NormalApt DEF Normal
<1>8. \/ /\ f \in Context /\ f.life = "live" /\ SameWork(d, f) /\ LogLive(f.log, I)
         /\ d.flags \subseteq f.flags
         /\ f.flags \subseteq d.flags \cup {"DISCONNECTING", "FREEING"}
         /\ HasLogged(f.log, "onConnect") <=> HasLogged(d.log, "onConnect")
         /\ Told(f.log) = Told(c.log)
      \/ Over(d, f, I) /\ Told(f.log) = Told(c.log) \o Waits(d)
  <2>1. WithPlain(Told(d.log), new.id) = Told(c.log)
    BY <1>1, <1>5 DEF WithPlain
  <2> QED BY <1>1, <1>5, <1>6, <1>7, <2>1, GivenIs
<1> HIDE DEF f
<1>9. Waits(d) = Waits(c)
  BY <1>1 DEF Waits
<1>10. CASE /\ f \in Context /\ f.life = "live" /\ SameWork(d, f) /\ LogLive(f.log, I)
            /\ d.flags \subseteq f.flags
            /\ f.flags \subseteq d.flags \cup {"DISCONNECTING", "FREEING"}
            /\ HasLogged(f.log, "onConnect") <=> HasLogged(d.log, "onConnect")
            /\ Told(f.log) = Told(c.log)
  <2>1. Waits(f) = Waits(c)
    BY <1>9, <1>10 DEF SameWork, Waits
  <2>2. Moved(c, f)
    BY <1>7, <1>10, <2>1, MovedNone
  <2>3. Carries(c, f, I)
    BY <1>1, <1>10 DEF Carries, SameWork
  <2>4. Normal(f, I)
    BY <1>1, <1>10 DEF Normal, SameWork
  <2>5. Matches(f, b)
    BY <1>1, <1>10 DEF Matches, SameWork
  <2> QED BY <1>4, <1>10, <2>2, <2>3, <2>4, <2>5 DEF ReplyDone, Pair
<1>11. CASE Over(d, f, I) /\ Told(f.log) = Told(c.log) \o Waits(d)
  <2>1. Over(c, f, I)
    BY <1>1, <1>11 DEF Over
  <2>2. Moved(c, f)
    BY <1>7, <1>9, <1>11, <2>1, MovedAll DEF Over
  <2> QED BY <1>4, <2>1, <2>2 DEF ReplyDone, Pair, Over
<1> QED BY <1>8, <1>10, <1>11

(* An error that no queue awaits ends the context.                         *)
LEMMA ReplyRefused ==
  ASSUME NEW I \in SUBSET Commands, NEW c \in Context, AllApt(c), c.life = "live",
         LogLive(c.log, I), NEW x, x.k = "error", c.replies = <<>>, NEW s, Pair(s), s.c = c
  PROVE  LET t == ProcessReply(s, x)
         IN Pair(t) /\ t.c \in Context /\ Moved(c, t.c) /\ Over(c, t.c, I) /\ t.cb = s.cb
<1>1. ProcessReply(s, x) = [s EXCEPT !.c = Fail(@)]
  BY Zenon DEF ProcessReply
<1>2. Over(c, Fail(c), I) /\ Moved(c, Fail(c))
  BY FailIs
<1>3. [s EXCEPT !.c = Fail(@)] = [c |-> Fail(c), cb |-> s.cb]
  BY DEF Pair
<1> QED BY <1>1, <1>2, <1>3 DEF Pair, Over

(* Every expected reply is handled as expected: the invariant of the loop  *)
(* of redisProcessCallbacks.                                               *)
LEMMA ReplyNormal ==
  ASSUME NEW I \in SUBSET Commands, NEW c, Normal(c, I), c.life = "live", LogLive(c.log, I),
         NEW a \in Expected, NEW b \in Expected, NEW x \in Reply, Matches(c, a),
         NEW s, Pair(s), s.c = c, ReplyStep(a, x, b)
  PROVE  ReplyDone(c, ProcessReply(s, x), b, I)
<1>1. CASE x.k \in {"subscribe", "unsubscribe", "message"}
  BY <1>1, ReplyToSubscription
<1>2. CASE x.k \in {"status", "error"} /\ a.r # <<>>
  <2>1. x.id \in {Head(a.r).id, NULL} /\ b.r = Tail(a.r) /\ b.i = a.i /\ b.v = a.v /\ b.p = a.p
    BY <1>2 DEF ReplyStep
  <2> QED BY <1>2, <2>1, ReplyToWaiting
<1>3. CASE x.k \in {"status", "error"} /\ a.r = <<>>
  <2>1. x.k = "error" /\ c.replies = <<>>
    BY <1>3 DEF ReplyStep, Matches
  <2>2. c \in Context /\ AllApt(c)
    BY NormalApt DEF Normal
  <2> QED BY <2>1, <2>2, ReplyRefused DEF ReplyDone
<1> QED BY <1>1, <1>2, <1>3 DEF ReplyStep

(* A command waits among the invalid ones only while a subscription is     *)
(* known, and one that was sent before any subscription is answered before *)
(* the server has subscribed.                                              *)
Awaited == {a \in Expected : /\ a.i # <<>> => Known(a) # {}
                             /\ a.r # <<>> => a.v = {}}

(* T follows what the context expects through the replies rs.              *)
Follows(T, rs) ==
  /\ T \in [0 .. Len(rs) -> Awaited]
  /\ \A i \in 1 .. Len(rs) : ReplyStep(T[i - 1], rs[i], T[i])

(* What a context keeps, over two steps.                                   *)
LEMMA CarriesThrough ==
  ASSUME NEW I \in SUBSET Commands, NEW c \in Context, NEW d, NEW e,
         Carries(c, d, I)
  PROVE  /\ Carries(d, e, I) => Carries(c, e, I)
         /\ Over(d, e, I) => Over(c, e, I)
BY DEF Carries, Over

(* A context keeps what it has.                                            *)
LEMMA CarriesSelf ==
  ASSUME NEW I \in SUBSET Commands, NEW c \in Context, c.life = "live", LogLive(c.log, I)
  PROVE  Carries(c, c, I) /\ Moved(c, c)
BY MovedNone DEF Carries

(* The loop of redisProcessCallbacks stops at a freed context.             *)
LEMMA FreedStays ==
  ASSUME NEW s, NEW x, s.c.life = "freed"
  PROVE  ProcessReply(s, x) = s
BY DEF ProcessReply

(* All the replies of one read are handled as expected, unless the context *)
(* ends on the way.                                                        *)
LEMMA RepliesNormal ==
  ASSUME NEW I \in SUBSET Commands, NEW c, Normal(c, I), c.life = "live", LogLive(c.log, I),
         NEW rs \in Seq(Reply), NEW T, Follows(T, rs), Matches(c, T[0])
  PROVE  ReplyDone(c, ProcessReplies(c, rs), T[Len(rs)], I)
<1>1. Len(rs) \in Nat /\ c \in Context
  BY DEF Normal
<1>2. PICK run : ReplyRun(c, rs, run)
  BY <1>1, ProcessSteps
<1> DEFINE P == {i \in Nat : ReplyDone(c, run[i], T[i], I)}
<1>3. 0 \in P
  <2>1. run[0] = [c |-> c, cb |-> NoCallback]
    BY <1>2 DEF ReplyRun
  <2>2. Carries(c, c, I) /\ Moved(c, c)
    BY <1>1, CarriesSelf
  <2>3. run[0].c = c /\ Pair(run[0])
    BY <2>1 DEF Pair
  <2> QED BY <1>1, <2>2, <2>3 DEF ReplyDone
<1>4. ASSUME NEW i \in 1 .. Len(rs), i - 1 \in P PROVE i \in P
  <2>1. /\ ReplyDone(c, run[i - 1], T[i - 1], I) /\ run[i] = ProcessReply(run[i - 1], rs[i])
        /\ T[i - 1] \in Expected /\ T[i] \in Expected /\ rs[i] \in Reply
        /\ ReplyStep(T[i - 1], rs[i], T[i]) /\ i \in Nat
    BY <1>2, <1>4 DEF ReplyRun, Follows, Awaited
  <2>2. PICK s, a, b, x : s = run[i - 1] /\ a = T[i - 1] /\ b = T[i] /\ x = rs[i]
    OBVIOUS
  <2>3. /\ ReplyDone(c, s, a, I) /\ run[i] = ProcessReply(s, x)
        /\ a \in Expected /\ b \in Expected /\ x \in Reply /\ ReplyStep(a, x, b)
    BY <2>1, <2>2
  <2>4. ReplyDone(c, ProcessReply(s, x), b, I)
    <3>1. Pair(s) /\ s.c \in Context /\ Moved(c, s.c)
      BY <2>3 DEF ReplyDone
    <3>2. CASE Over(c, s.c, I)
      <4>1. ProcessReply(s, x) = s
        BY <3>2, FreedStays DEF Over
      <4> QED BY <3>1, <3>2, <4>1 DEF ReplyDone
    <3>3. CASE Carries(c, s.c, I) /\ Normal(s.c, I) /\ Matches(s.c, a)
      <4>1. s.c.life = "live" /\ LogLive(s.c.log, I)
        BY <3>3 DEF Carries
      <4>2. ReplyDone(s.c, ProcessReply(s, x), b, I)
        BY <2>3, <3>1, <3>3, <4>1, ReplyNormal
      <4>3. PICK t : t = ProcessReply(s, x)
        OBVIOUS
      <4>4. ReplyDone(s.c, t, b, I)
        BY <4>2, <4>3
      <4>5. ReplyDone(c, t, b, I)
        BY <1>1, <3>1, <3>3, <4>4, MovedTrans, CarriesThrough DEF ReplyDone
      <4> QED BY <4>3, <4>5
    <3> QED BY <2>3, <3>2, <3>3 DEF ReplyDone
  <2> QED BY <2>1, <2>2, <2>3, <2>4
<1>5. 0 .. Len(rs) \subseteq P
  <2> HIDE DEF P
  <2> QED BY <1>1, <1>3, <1>4, BoundedInduction
<1> QED BY <1>1, <1>2, <1>5 DEF ReplyRun

-----------------------------------------------------------------------------
-----------------------------------------------------------------------------
(* A monitoring context.                                                   *)

(* The callbacks of a monitoring context: that of MONITOR, which           *)
(* redisProcessCallbacks puts back after every line, and the empty one its *)
(* local cb starts as.                                                     *)
MonitorCallbacks(m) == {[id |-> m.id, fn |-> m.fn, pending |-> 1], NoCallback}

(* A monitoring context.                                                   *)
Monitoring(c, m) ==
  /\ c \in Context /\ m.kind = "monitor"
  /\ c.replies \in Seq(MonitorCallbacks(m)) /\ c.invalid = <<>> /\ c.subs = <<>>
  /\ "MONITORING" \in c.flags /\ "SUBSCRIBED" \notin c.flags

(* What replies do to a monitoring context.                                *)
MonitorDone(c, t, m) ==
  /\ Pair(t) /\ t.cb \in MonitorCallbacks(m) /\ t.c \in Context /\ Moved(c, t.c)
  /\ \/ Carries(c, t.c, {m}) /\ Monitoring(t.c, m)
     \/ Over(c, t.c, {m})

(* These callbacks may be held, and are no plain command's.                *)
LEMMA MonitorCallbackIs ==
  ASSUME NEW m \in Commands, m.kind = "monitor", NEW cb \in MonitorCallbacks(m)
  PROVE  /\ Apt(cb) /\ cb.id \notin PlainIds
         /\ cb.fn # "null" => cb.id \in IdsIn({m})
         /\ cb.id \in {m.id, NULL}
<1>1. CASE cb = [id |-> m.id, fn |-> m.fn, pending |-> 1]
  <2>1. m.fn \in Fns
    BY CommandsAssumption
  <2>2. cb \in Callback /\ Serves(cb, m) /\ cb.id = m.id
    BY <1>1, <2>1 DEF Callback, Serves, Ids
  <2>3. {m} \in SUBSET Commands /\ m \in {m}
    OBVIOUS
  <2>4. Apt(cb) /\ cb.id \in IdsIn({m}) /\ cb.id \notin PlainIds
    BY <2>2, <2>3, ServesApt
  <2> QED BY <2>2, <2>4
<1>2. CASE cb = NoCallback
  BY <1>2, NotPlain DEF Apt, NoCallback, Callback, Fns
<1> QED BY <1>1, <1>2 DEF MonitorCallbacks

(* No plain command waits in a monitoring context.                         *)
LEMMA MonitoringApt ==
  ASSUME NEW m \in Commands, NEW c, Monitoring(c, m)
  PROVE  AllApt(c) /\ Waits(c) = <<>>
<1>1. /\ c.replies \in Seq(MonitorCallbacks(m)) /\ c.invalid = <<>> /\ c.subs = <<>>
      /\ m.kind = "monitor" /\ c.replies \in Seq(Callback)
  BY DEF Monitoring, Context
<1>2. \A j \in 1 .. Len(c.replies) : c.replies[j] \in MonitorCallbacks(m)
  BY <1>1
<1>3. \A j \in 1 .. Len(c.replies) : Apt(c.replies[j]) /\ c.replies[j].id \notin PlainIds
  BY <1>1, <1>2, MonitorCallbackIs
<1>4. DOMAIN c.subs = {} /\ Len(c.invalid) = 0 /\ IsFiniteSet({})
  BY <1>1, FS_EmptySet
<1>5. AllApt(c)
  BY <1>3, <1>4 DEF AllApt
<1>6. c.replies \o c.invalid = c.replies
  BY <1>1
<1>7. \A i \in 1 .. Len(IdsOf(c.replies)) : IdsOf(c.replies)[i] \notin PlainIds
  BY <1>1, <1>3, IdsType DEF IdsOf
<1>8. PlainOnly(IdsOf(c.replies)) = <<>>
  BY <1>1, <1>7, IdsType, PlainNone
<1> QED BY <1>5, <1>6, <1>8 DEF Waits

(* MONITOR's callback may be given any line.                               *)
LEMMA MonitorRight ==
  ASSUME NEW m \in Commands, m.kind = "monitor", NEW x, x.k \in {"status", "error"}, NEW id
  PROVE  Right([to |-> id, got |-> x], {m})
BY DEF Right, Answers

(* A line reaches the callback of MONITOR, which waits for the next one.   *)
LEMMA ReplyMonitor ==
  ASSUME NEW m \in Commands, NEW c, Monitoring(c, m), c.life = "live", LogLive(c.log, {m}),
         NEW x \in Reply, x.k \in {"status", "error"},
         NEW s, Pair(s), s.c = c, s.cb \in MonitorCallbacks(m)
  PROVE  MonitorDone(c, ProcessReply(s, x), m)
<1>1. /\ c \in Context /\ AllApt(c) /\ Waits(c) = <<>> /\ m.kind = "monitor"
      /\ {m} \in SUBSET Commands /\ c.replies \in Seq(MonitorCallbacks(m))
      /\ "MONITORING" \in c.flags /\ "SUBSCRIBED" \notin c.flags
  BY MonitoringApt DEF Monitoring
<1>2. CASE c.replies = <<>> /\ x.k = "error"
  <2>1. PICK I \in SUBSET Commands : I = {m}
    BY <1>1
  <2>2. LogLive(c.log, I)
    BY <2>1
  <2>3. c \in Context /\ AllApt(c) /\ c.replies = <<>> /\ x.k = "error"
    BY <1>1, <1>2
  <2>4. PICK t : t = ProcessReply(s, x)
    OBVIOUS
  <2>5. Pair(t) /\ t.c \in Context /\ Moved(c, t.c) /\ Over(c, t.c, I) /\ t.cb = s.cb
    BY <2>2, <2>3, <2>4, ReplyRefused
  <2> QED BY <2>1, <2>4, <2>5 DEF MonitorDone
<1>3. CASE c.replies = <<>> /\ x.k # "error"
  <2> DEFINE cb == s.cb
             f == Given(c, cb, x)
  <2>1. Route(s, x) = [c |-> c, cb |-> cb]
    BY <1>1, <1>3 DEF Route, Pair
  <2>2. ProcessReply(s, x) = [c |-> f, cb |-> cb]
    BY <1>1, <1>3, <2>1, ReplyRouted
  <2>3. Apt(cb) /\ cb.id \notin PlainIds /\ (cb.fn # "null" => cb.id \in IdsIn({m}))
    BY <1>1, MonitorCallbackIs
  <2>4. WithPlain(Told(c.log), cb.id) = Told(c.log)
    BY <2>3 DEF WithPlain
  <2>5. \/ /\ f \in Context /\ f.life = "live" /\ SameWork(c, f) /\ LogLive(f.log, {m})
           /\ c.flags \subseteq f.flags
           /\ f.flags \subseteq c.flags \cup {"DISCONNECTING", "FREEING"}
           /\ HasLogged(f.log, "onConnect") <=> HasLogged(c.log, "onConnect")
           /\ Told(f.log) = Told(c.log)
        \/ Over(c, f, {m}) /\ Told(f.log) = Told(c.log) \o Waits(c)
    <3>1. Right([to |-> cb.id, got |-> x], {m})
      BY <1>1, MonitorRight
    <3>2. PICK I \in SUBSET Commands : I = {m}
      BY <1>1
    <3>3. /\ Right([to |-> cb.id, got |-> x], I) /\ LogLive(c.log, I)
          /\ cb.fn # "null" => cb.id \in IdsIn(I)
      BY <2>3, <3>1, <3>2
    <3>4. \/ /\ f \in Context /\ f.life = "live" /\ SameWork(c, f) /\ LogLive(f.log, I)
             /\ c.flags \subseteq f.flags
             /\ f.flags \subseteq c.flags \cup {"DISCONNECTING", "FREEING"}
             /\ HasLogged(f.log, "onConnect") <=> HasLogged(c.log, "onConnect")
             /\ Told(f.log) = WithPlain(Told(c.log), cb.id)
          \/ Over(c, f, I) /\ Told(f.log) = WithPlain(Told(c.log), cb.id) \o Waits(c)
      BY <1>1, <2>3, <3>3, GivenIs
    <3> HIDE DEF f, cb
    <3> QED BY <2>4, <3>2, <3>4
  <2> HIDE DEF f
  <2>6. CASE /\ f \in Context /\ f.life = "live" /\ SameWork(c, f) /\ LogLive(f.log, {m})
             /\ c.flags \subseteq f.flags
             /\ f.flags \subseteq c.flags \cup {"DISCONNECTING", "FREEING"}
             /\ HasLogged(f.log, "onConnect") <=> HasLogged(c.log, "onConnect")
             /\ Told(f.log) = Told(c.log)
    <3>1. Waits(f) = Waits(c)
      BY <2>6 DEF SameWork, Waits
    <3>2. Moved(c, f)
      BY <1>1, <2>6, <3>1, MovedNone
    <3>3. Carries(c, f, {m})
      BY <1>1, <2>6 DEF Carries, SameWork
    <3>4. Monitoring(f, m)
      BY <1>1, <2>6 DEF Monitoring, SameWork
    <3> QED BY <2>2, <2>6, <3>2, <3>3, <3>4 DEF MonitorDone, Pair
  <2>7. CASE Over(c, f, {m}) /\ Told(f.log) = Told(c.log) \o Waits(c)
    <3>1. f \in Context /\ f.replies = <<>> /\ f.invalid = <<>>
      BY <2>7 DEF Over
    <3>2. Moved(c, f)
      BY <1>1, <2>7, <3>1, MovedAll
    <3> QED BY <2>2, <2>7, <3>1, <3>2 DEF MonitorDone, Pair
  <2> QED BY <2>5, <2>6, <2>7
<1>4. CASE c.replies # <<>>
  <2> DEFINE h == Head(c.replies)
             d == [c EXCEPT !.replies = Tail(@)]
             f == Given(d, h, x)
  <2>1. h \in MonitorCallbacks(m) /\ Tail(c.replies) \in Seq(MonitorCallbacks(m))
    BY <1>1, <1>4
  <2>2. h.fn # "null" => h.id \in IdsIn({m})
    BY <1>1, <2>1, MonitorCallbackIs
  <2>3. Route(s, x) = [c |-> d, cb |-> h]
    BY <1>4 DEF Route
  <2>4. ProcessReply(s, x) = [c |-> f, cb |-> h]
    BY <1>4, <2>3, ReplyRouted
  <2>5. /\ f \in Context /\ Moved(c, f)
        /\ \/ /\ Carries(c, f, {m}) /\ f.replies = Tail(c.replies)
              /\ f.invalid = c.invalid /\ f.subs = c.subs
              /\ c.flags \subseteq f.flags
              /\ f.flags \subseteq c.flags \cup {"DISCONNECTING", "FREEING"}
           \/ Over(c, f, {m})
    <3>1. Right([to |-> h.id, got |-> x], {m})
      BY <1>1, MonitorRight
    <3> QED BY <1>1, <1>4, <2>2, <3>1, PopReply
  <2> HIDE DEF f, h
  <2>6. ASSUME Carries(c, f, {m}), f.replies = Tail(c.replies),
               f.invalid = c.invalid, f.subs = c.subs,
               c.flags \subseteq f.flags,
               f.flags \subseteq c.flags \cup {"DISCONNECTING", "FREEING"}
        PROVE  Monitoring(f, m)
    BY <2>1, <2>5, <2>6 DEF Monitoring
  <2> QED BY <2>1, <2>4, <2>5, <2>6 DEF MonitorDone, Pair
<1> QED BY <1>2, <1>3, <1>4

(* All the lines of one read.                                              *)
LEMMA RepliesMonitor ==
  ASSUME NEW m \in Commands, NEW c, Monitoring(c, m), c.life = "live", LogLive(c.log, {m}),
         NEW rs \in Seq(Reply), \A i \in 1 .. Len(rs) : rs[i].k \in {"status", "error"}
  PROVE  MonitorDone(c, ProcessReplies(c, rs), m)
<1>1. Len(rs) \in Nat /\ c \in Context /\ {m} \in SUBSET Commands
  BY DEF Monitoring
<1>2. PICK run : ReplyRun(c, rs, run)
  BY <1>1, ProcessSteps
<1> DEFINE P == {i \in Nat : MonitorDone(c, run[i], m)}
<1>3. 0 \in P
  <2>1. run[0] = [c |-> c, cb |-> NoCallback]
    BY <1>2 DEF ReplyRun
  <2>2. Carries(c, c, {m}) /\ Moved(c, c)
    BY <1>1, CarriesSelf
  <2>3. run[0].c = c /\ run[0].cb = NoCallback /\ Pair(run[0]) /\ NoCallback \in MonitorCallbacks(m)
    BY <2>1 DEF Pair, MonitorCallbacks
  <2> QED BY <1>1, <2>2, <2>3 DEF MonitorDone
<1>4. ASSUME NEW i \in 1 .. Len(rs), i - 1 \in P PROVE i \in P
  <2>1. PICK s, x : s = run[i - 1] /\ x = rs[i]
    OBVIOUS
  <2>2. /\ MonitorDone(c, s, m) /\ run[i] = ProcessReply(s, x)
        /\ x \in Reply /\ x.k \in {"status", "error"} /\ i \in Nat
    BY <1>2, <1>4, <2>1 DEF ReplyRun
  <2>3. MonitorDone(c, ProcessReply(s, x), m)
    <3>1. Pair(s) /\ s.c \in Context /\ Moved(c, s.c) /\ s.cb \in MonitorCallbacks(m)
      BY <2>2 DEF MonitorDone
    <3>2. CASE Over(c, s.c, {m})
      <4>1. ProcessReply(s, x) = s
        BY <3>2, FreedStays DEF Over
      <4> QED BY <2>2, <4>1
    <3>3. CASE Carries(c, s.c, {m}) /\ Monitoring(s.c, m)
      <4>1. s.c.life = "live" /\ LogLive(s.c.log, {m})
        BY <3>3 DEF Carries
      <4>2. PICK t : t = ProcessReply(s, x)
        OBVIOUS
      <4>3. MonitorDone(s.c, t, m)
        BY <2>2, <3>1, <3>3, <4>1, <4>2, ReplyMonitor
      <4>4. MonitorDone(c, t, m)
        BY <1>1, <3>1, <3>3, <4>3, MovedTrans, CarriesThrough DEF MonitorDone
      <4> QED BY <4>2, <4>4
    <3> QED BY <2>2, <3>2, <3>3 DEF MonitorDone
  <2> QED BY <2>2, <2>3
<1>5. 0 .. Len(rs) \subseteq P
  <2> HIDE DEF P
  <2> QED BY <1>1, <1>3, <1>4, BoundedInduction
<1> QED BY <1>1, <1>2, <1>5 DEF ReplyRun

-----------------------------------------------------------------------------
(* redisProcessCallbacks, redisAsyncRead and redisAsyncWrite.              *)

(* FreeEnds, as a move.                                                    *)
LEMMA FreeIs ==
  ASSUME NEW I \in SUBSET Commands, NEW c \in Context, AllApt(c), LogLive(c.log, I)
  PROVE  AsyncFree(c) \in Context /\ Over(c, AsyncFree(c), I) /\ Moved(c, AsyncFree(c))
<1>1. PICK f : f = AsyncFree(c)
  OBVIOUS
<1>2. Over(c, f, I) /\ Told(f.log) = Told(c.log) \o Waits(c)
  BY <1>1, FreeEnds
<1>3. f \in Context /\ f.replies = <<>> /\ f.invalid = <<>>
  BY <1>2 DEF Over
<1> QED BY <1>1, <1>2, <1>3, MovedAll

(* A clean disconnect with no reply awaited frees the context: the assert  *)
(* of __redisAsyncDisconnect holds.                                        *)
LEMMA DisconnectIs ==
  ASSUME NEW c, c.err = FALSE, c.replies = <<>>
  PROVE  AsyncDisconnect(c) = AsyncFree(c)
BY Zenon DEF AsyncDisconnect

(* redisProcessCallbacks ends the loop and, when it was asked to           *)
(* disconnect and no callback waits, frees the context.                    *)
LEMMA CallbacksNormal ==
  ASSUME NEW I \in SUBSET Commands, NEW c, Normal(c, I), c.life = "live", LogLive(c.log, I),
         c.err = FALSE, NEW rs \in Seq(Reply), NEW b, NEW s, s = ProcessReplies(c, rs),
         ReplyDone(c, s, b, I)
  PROVE  LET d == redisProcessCallbacks(c, rs)
         IN /\ d \in Context /\ Moved(c, d)
            /\ \/ Carries(c, d, I) /\ Normal(d, I) /\ Matches(d, b)
               \/ Over(c, d, I)
<1>1. /\ c \in Context /\ s.c \in Context /\ Moved(c, s.c)
      /\ \/ Carries(c, s.c, I) /\ Normal(s.c, I) /\ Matches(s.c, b)
         \/ Over(c, s.c, I)
  BY DEF ReplyDone, Normal
<1>2. redisProcessCallbacks(c, rs) =
        CASE s.c.life # "live" -> s.c
          [] s.c.life = "live" /\ "DISCONNECTING" \in s.c.flags
               /\ s.c.obuf = <<>> /\ s.c.replies = <<>> -> AsyncDisconnect(s.c)
          [] s.c.life = "live" /\ "MONITORING" \in s.c.flags
               /\ ~("DISCONNECTING" \in s.c.flags
                      /\ s.c.obuf = <<>> /\ s.c.replies = <<>>) ->
               [s.c EXCEPT !.replies = Append(@, s.cb)]
          [] OTHER -> s.c
  BY Zenon DEF redisProcessCallbacks
<1>3. CASE Over(c, s.c, I)
  <2>1. s.c.life # "live" /\ ~(s.c.life = "live")
    BY <1>3 DEF Over
  <2>2. redisProcessCallbacks(c, rs) = s.c
    BY <1>2, <2>1, Zenon
  <2> QED BY <1>1, <1>3, <2>2
<1>4. CASE Carries(c, s.c, I) /\ Normal(s.c, I) /\ Matches(s.c, b)
  <2>1. /\ s.c.life = "live" /\ LogLive(s.c.log, I) /\ s.c.err = FALSE /\ AllApt(s.c)
        /\ "MONITORING" \notin s.c.flags
    BY <1>4, NormalApt DEF Carries, Normal
  <2>2. CASE "DISCONNECTING" \in s.c.flags /\ s.c.obuf = <<>> /\ s.c.replies = <<>>
    <3>1. redisProcessCallbacks(c, rs) = AsyncDisconnect(s.c)
      BY <1>2, <2>1, <2>2
    <3>2. PICK f : f = AsyncFree(s.c)
      OBVIOUS
    <3>3. redisProcessCallbacks(c, rs) = f
      BY <2>1, <2>2, <3>1, <3>2, DisconnectIs
    <3>4. f \in Context /\ Over(s.c, f, I) /\ Moved(s.c, f)
      BY <1>1, <2>1, <3>2, FreeIs
    <3> QED BY <1>1, <1>4, <3>3, <3>4, MovedTrans, CarriesThrough
  <2>3. CASE ~("DISCONNECTING" \in s.c.flags /\ s.c.obuf = <<>> /\ s.c.replies = <<>>)
    <3>1. redisProcessCallbacks(c, rs) = s.c
      BY <1>2, <2>1, <2>3
    <3> QED BY <1>1, <1>4, <3>1
  <2> QED BY <2>2, <2>3
<1> QED BY <1>1, <1>3, <1>4

(* The same for a monitoring context.                                      *)
LEMMA CallbacksMonitor ==
  ASSUME NEW m \in Commands, NEW c, Monitoring(c, m), c.life = "live", LogLive(c.log, {m}),
         c.err = FALSE, NEW rs \in Seq(Reply), NEW s, s = ProcessReplies(c, rs),
         MonitorDone(c, s, m)
  PROVE  LET d == redisProcessCallbacks(c, rs)
         IN /\ d \in Context /\ Moved(c, d)
            /\ \/ Carries(c, d, {m}) /\ Monitoring(d, m)
               \/ Over(c, d, {m})
<1>1. /\ c \in Context /\ s.c \in Context /\ Moved(c, s.c) /\ s.cb \in MonitorCallbacks(m)
      /\ \/ Carries(c, s.c, {m}) /\ Monitoring(s.c, m)
         \/ Over(c, s.c, {m})
      /\ {m} \in SUBSET Commands /\ m.kind = "monitor"
  BY DEF MonitorDone, Monitoring
<1>2. redisProcessCallbacks(c, rs) =
        CASE s.c.life # "live" -> s.c
          [] s.c.life = "live" /\ "DISCONNECTING" \in s.c.flags
               /\ s.c.obuf = <<>> /\ s.c.replies = <<>> -> AsyncDisconnect(s.c)
          [] s.c.life = "live" /\ "MONITORING" \in s.c.flags
               /\ ~("DISCONNECTING" \in s.c.flags
                      /\ s.c.obuf = <<>> /\ s.c.replies = <<>>) ->
               [s.c EXCEPT !.replies = Append(@, s.cb)]
          [] OTHER -> s.c
  BY Zenon DEF redisProcessCallbacks
<1>3. CASE Over(c, s.c, {m})
  <2>1. s.c.life # "live" /\ ~(s.c.life = "live")
    BY <1>3 DEF Over
  <2>2. redisProcessCallbacks(c, rs) = s.c
    BY <1>2, <2>1, Zenon
  <2> QED BY <1>1, <1>3, <2>2
<1>4. CASE Carries(c, s.c, {m}) /\ Monitoring(s.c, m)
  <2>1. /\ s.c.life = "live" /\ LogLive(s.c.log, {m}) /\ s.c.err = FALSE /\ AllApt(s.c)
        /\ "MONITORING" \in s.c.flags /\ Waits(s.c) = <<>>
    BY <1>4, MonitoringApt DEF Carries, Monitoring
  <2>2. CASE "DISCONNECTING" \in s.c.flags /\ s.c.obuf = <<>> /\ s.c.replies = <<>>
    <3>1. redisProcessCallbacks(c, rs) = AsyncDisconnect(s.c)
      BY <1>2, <2>1, <2>2
    <3>2. PICK f : f = AsyncFree(s.c)
      OBVIOUS
    <3>3. redisProcessCallbacks(c, rs) = f
      BY <2>1, <2>2, <3>1, <3>2, DisconnectIs
    <3>4. PICK I \in SUBSET Commands : I = {m}
      BY <1>1
    <3>5. f \in Context /\ Over(s.c, f, I) /\ Moved(s.c, f)
      BY <1>1, <2>1, <3>2, <3>4, FreeIs
    <3>6. Over(c, f, I)
      BY <1>1, <1>4, <3>4, <3>5, CarriesThrough
    <3>7. Moved(c, f)
      BY <1>1, <3>5, MovedTrans
    <3> QED BY <3>3, <3>4, <3>5, <3>6, <3>7
  <2>3. CASE ~("DISCONNECTING" \in s.c.flags /\ s.c.obuf = <<>> /\ s.c.replies = <<>>)
    <3> DEFINE q == Append(s.c.replies, s.cb)
               d == [s.c EXCEPT !.replies = q]
    <3>1. redisProcessCallbacks(c, rs) = [s.c EXCEPT !.replies = Append(@, s.cb)]
      BY <1>2, <2>1, <2>3
    <3>2. redisProcessCallbacks(c, rs) = d
      BY <1>1, <3>1 DEF Context
    <3>3. s.cb \in Callback
      BY <1>1, MonitorCallbackIs DEF Apt
    <3>4. s.c.replies \in Seq(MonitorCallbacks(m)) /\ s.c.replies \in Seq(Callback)
      BY <1>1, <1>4 DEF Monitoring, Context
    <3>5. q \in Seq(MonitorCallbacks(m)) /\ q \in Seq(Callback)
      BY <1>1, <3>3, <3>4
    <3> HIDE DEF q
    <3>6. /\ d \in Context /\ d.replies = q /\ d.invalid = s.c.invalid /\ d.subs = s.c.subs
          /\ d.flags = s.c.flags /\ d.log = s.c.log /\ d.life = s.c.life
          /\ d.obuf = s.c.obuf /\ d.ev = s.c.ev /\ d.err = s.c.err
      BY <1>1, <3>5 DEF Context
    <3> HIDE DEF d
    <3>7. Monitoring(d, m)
      BY <1>4, <3>5, <3>6 DEF Monitoring
    <3>8. Waits(d) = <<>>
      BY <3>7, MonitoringApt
    <3>9. Moved(s.c, d)
      BY <1>1, <2>1, <3>6, <3>8, MovedNone
    <3>10. Moved(c, d)
      BY <1>1, <3>6, <3>9, MovedTrans
    <3>11. Carries(c, d, {m})
      BY <1>4, <3>6 DEF Carries
    <3> QED BY <3>2, <3>6, <3>7, <3>10, <3>11
  <2> QED BY <2>2, <2>3
<1> QED BY <1>1, <1>3, <1>4

(* A read asks for the read event again, and processes what was read.      *)
LEMMA ReadSame ==
  ASSUME NEW c \in Context, "read" \in c.ev, NEW rs
  PROVE  redisAsyncRead(c, FALSE, rs) = redisProcessCallbacks(c, rs)
<1>1. [c EXCEPT !.ev = @ \cup {"read"}] = c
  BY DEF Context
<1> QED BY <1>1 DEF redisAsyncRead

(* redisAsyncRead and redisAsyncWrite on an error.                         *)
LEMMA BrokenIs ==
  ASSUME NEW I \in SUBSET Commands, NEW c \in Context, AllApt(c), LogLive(c.log, I), NEW d,
         \/ \E rs : d = redisAsyncRead(c, TRUE, rs)
         \/ \E n : d = redisAsyncWrite(c, TRUE, n)
  PROVE  d \in Context /\ Moved(c, d) /\ Over(c, d, I)
<1>1. d = Fail(c)
  BY DEF redisAsyncRead, redisAsyncWrite
<1>2. Over(c, d, I) /\ Moved(c, d)
  BY <1>1, FailIs
<1> QED BY <1>2 DEF Over

(* redisAsyncWrite when the socket took n commands.                        *)
LEMMA WrittenIs ==
  ASSUME NEW c \in Context, NEW n \in 0 .. Len(c.obuf)
  PROVE  LET d == redisAsyncWrite(c, FALSE, n)
         IN /\ d \in Context /\ d.obuf = SubSeq(c.obuf, n + 1, Len(c.obuf))
            /\ "read" \in d.ev /\ (d.obuf # <<>> => "write" \in d.ev)
            /\ d.life = c.life /\ d.flags = c.flags /\ d.err = c.err /\ d.log = c.log
            /\ d.replies = c.replies /\ d.invalid = c.invalid /\ d.subs = c.subs
<1> DEFINE o == SubSeq(c.obuf, n + 1, Len(c.obuf))
           e == IF n = Len(c.obuf) THEN {"read"} ELSE {"read", "write"}
           d == [c EXCEPT !.obuf = o, !.ev = e]
<1>1. c.obuf \in Seq(Commands)
  BY DEF Context
<1>2. o \in Seq(Commands) /\ (n = Len(c.obuf) => o = <<>>)
  BY <1>1
<1>3. "read" \in e /\ e \in SUBSET {"read", "write"} /\ (o # <<>> => "write" \in e)
  BY <1>2
<1>4. redisAsyncWrite(c, FALSE, n) = d
  BY DEF redisAsyncWrite, Context
<1> HIDE DEF o, e
<1>5. /\ d \in Context /\ d.obuf = o /\ d.ev = e
      /\ d.life = c.life /\ d.flags = c.flags /\ d.err = c.err /\ d.log = c.log
      /\ d.replies = c.replies /\ d.invalid = c.invalid /\ d.subs = c.subs
  BY <1>2, <1>3 DEF Context
<1> HIDE DEF d
<1> QED BY <1>3, <1>4, <1>5 DEF o

-----------------------------------------------------------------------------
(* The commands and replies on their way: the pipeline.                    *)

(* What the server does with a command changes what is expected the way    *)
(* its replies will.                                                       *)
CommandStep(a, m, b) ==
  \/ /\ m.kind = "plain" /\ a.r # <<>> /\ Head(a.r).id = m.id
     /\ b.r = Tail(a.r) /\ b.i = a.i /\ b.v = a.v /\ b.p = a.p
  \/ /\ m.kind = "plain" /\ a.r = <<>> /\ a.i # <<>> /\ a.v # {}
     /\ b.r = a.r /\ b.i = Tail(a.i) /\ b.v = a.v /\ b.p = a.p
  \/ /\ m.kind = "subscribe" /\ a.r = <<>> /\ IsInjective(m.chans)
     /\ \A ch \in ToSet(m.chans) : a.p[ch] > 0
     /\ b.r = a.r /\ b.i = a.i /\ b.v = a.v \cup ToSet(m.chans)
     /\ b.p = [ch \in Channels |-> IF ch \in ToSet(m.chans) THEN a.p[ch] - 1 ELSE a.p[ch]]
  \/ /\ m.kind = "unsubscribe" /\ a.r = <<>> /\ a.i = <<>> /\ IsInjective(m.chans)
     /\ ToSet(m.chans) \subseteq a.v
     /\ b.r = a.r /\ b.i = a.i /\ b.v = a.v \ ToSet(m.chans) /\ b.p = a.p

(* U follows what is expected through the commands q.                      *)
Executes(U, q) ==
  /\ U \in [0 .. Len(q) -> Awaited]
  /\ \A j \in 1 .. Len(q) : CommandStep(U[j - 1], q[j], U[j])

(* Nothing is expected any more.                                           *)
Drained(a) == a.r = <<>> /\ a.i = <<>> /\ \A ch \in Channels : a.p[ch] = 0

(* From the replies rs on their way, then the commands q on theirs, every  *)
(* callback is given what it waits for.                                    *)
Pipeline(c, rs, q, v, up) ==
  \E T, U :
    /\ Follows(T, rs) /\ Matches(c, T[0])
    /\ up => /\ Executes(U, q) /\ U[0] = T[Len(rs)] /\ U[0].v = v
             /\ Drained(U[Len(q)])

(* The line of a server that has too many clients answers no command.      *)
Greeting == <<[k |-> "error", id |-> NULL]>>
Understood(rs, up) == IF ~up /\ rs = Greeting THEN <<>> ELSE rs

(* One of the commands is MONITOR.                                         *)
Monitors(I) == \E m \in I : m.kind = "monitor"

(* A monitoring context: only lines come, and only MONITOR was sent.       *)
MonitorMode(c, I, rs, q, v, up) ==
  \E m \in Commands :
    /\ I = {m} /\ Monitoring(c, m)
    /\ \A i \in 1 .. Len(rs) : rs[i].k \in {"status", "error"}
    /\ up => q \in Seq({m}) /\ v = {}

(* A context without MONITOR, and the pipeline to and from the server.     *)
NormalMode(c, I, rs, q, v, up) ==
  /\ ~Monitors(I) /\ Normal(c, I)
  /\ Pipeline(c, Understood(rs, up), q, v, up)

(* The two modes of a live context.                                        *)
Mode(c, I, rs, q, v, up) ==
  MonitorMode(c, I, rs, q, v, up) \/ NormalMode(c, I, rs, q, v, up)

(* The callbacks of a live context.                                        *)
LEMMA ModeApt ==
  ASSUME NEW I \in SUBSET Commands, NEW c, NEW rs, NEW q, NEW v, NEW up,
         Mode(c, I, rs, q, v, up)
  PROVE  c \in Context /\ AllApt(c)
<1>1. CASE MonitorMode(c, I, rs, q, v, up)
  BY <1>1, MonitoringApt DEF MonitorMode, Monitoring
<1>2. CASE NormalMode(c, I, rs, q, v, up)
  BY <1>2, NormalApt DEF NormalMode, Normal
<1> QED BY <1>1, <1>2 DEF Mode

(* A sequence in two parts.                                                *)
LEMMA FirstReplies ==
  ASSUME NEW S, NEW rs \in Seq(S), NEW n \in 0 .. Len(rs)
  PROVE  /\ SubSeq(rs, 1, n) \in Seq(S) /\ Len(SubSeq(rs, 1, n)) = n
         /\ \A i \in 1 .. n : SubSeq(rs, 1, n)[i] = rs[i] /\ i \in 1 .. Len(rs)
         /\ SubSeq(rs, n + 1, Len(rs)) \in Seq(S)
         /\ Len(SubSeq(rs, n + 1, Len(rs))) = Len(rs) - n
         /\ Len(rs) - n \in Nat
         /\ \A i \in 1 .. (Len(rs) - n) :
              SubSeq(rs, n + 1, Len(rs))[i] = rs[n + i] /\ n + i \in 1 .. Len(rs)
OBVIOUS

(* Following the replies, in two parts.                                    *)
LEMMA FollowsSplit ==
  ASSUME NEW rs \in Seq(Reply), NEW n \in 0 .. Len(rs), NEW T, Follows(T, rs)
  PROVE  /\ Follows([i \in 0 .. n |-> T[i]], SubSeq(rs, 1, n))
         /\ Follows([i \in 0 .. (Len(rs) - n) |-> T[n + i]], SubSeq(rs, n + 1, Len(rs)))
<1> DEFINE A == [i \in 0 .. n |-> T[i]]
           B == [i \in 0 .. (Len(rs) - n) |-> T[n + i]]
<1>0. Len(rs) \in Nat /\ n \in Nat /\ n <= Len(rs)
  OBVIOUS
<1>1. /\ T \in [0 .. Len(rs) -> Awaited]
      /\ \A i \in 1 .. Len(rs) : ReplyStep(T[i - 1], rs[i], T[i])
  BY DEF Follows
<1>2. /\ Len(SubSeq(rs, 1, n)) = n
      /\ \A i \in 1 .. n : SubSeq(rs, 1, n)[i] = rs[i] /\ i \in 1 .. Len(rs)
      /\ Len(SubSeq(rs, n + 1, Len(rs))) = Len(rs) - n
      /\ \A i \in 1 .. (Len(rs) - n) :
           SubSeq(rs, n + 1, Len(rs))[i] = rs[n + i] /\ n + i \in 1 .. Len(rs)
  BY FirstReplies
<1>3. A \in [0 .. n -> Awaited] /\ B \in [0 .. (Len(rs) - n) -> Awaited]
  BY <1>0, <1>1
<1>4. ASSUME NEW i \in 1 .. n
      PROVE  ReplyStep(A[i - 1], SubSeq(rs, 1, n)[i], A[i])
  <2>1. A[i - 1] = T[i - 1] /\ A[i] = T[i] /\ i \in 1 .. Len(rs)
    BY <1>0
  <2> QED BY <1>1, <1>2, <2>1
<1>5. ASSUME NEW i \in 1 .. (Len(rs) - n)
      PROVE  ReplyStep(B[i - 1], SubSeq(rs, n + 1, Len(rs))[i], B[i])
  <2>1. B[i - 1] = T[(n + i) - 1] /\ B[i] = T[n + i] /\ n + i \in 1 .. Len(rs)
    BY <1>0
  <2> QED BY <1>1, <1>2, <2>1
<1> HIDE DEF A, B
<1>6. Follows(A, SubSeq(rs, 1, n)) /\ Follows(B, SubSeq(rs, n + 1, Len(rs)))
  BY <1>2, <1>3, <1>4, <1>5 DEF Follows
<1> QED BY <1>6 DEF A, B

(* ProcessReplies of one reply.                                            *)
LEMMA OneReply ==
  ASSUME NEW c, NEW x
  PROVE  ProcessReplies(c, <<x>>) = ProcessReply([c |-> c, cb |-> NoCallback], x)
<1>1. Len(<<x>>) = 1 /\ <<x>>[1] = x
  OBVIOUS
<1>2. PICK run : ReplyRun(c, <<x>>, run)
  BY <1>1, ProcessSteps
<1> QED BY <1>1, <1>2 DEF ReplyRun

(* ProcessReplies of none.                                                 *)
LEMMA NoReplies ==
  ASSUME NEW c
  PROVE  ProcessReplies(c, <<>>) = [c |-> c, cb |-> NoCallback]
<1>1. Len(<<>>) = 0
  OBVIOUS
<1>2. PICK run : ReplyRun(c, <<>>, run)
  BY <1>1, ProcessSteps
<1> QED BY <1>1, <1>2 DEF ReplyRun

(* The line of the full server is taken for the answer to the oldest       *)
(* command, or ends the context.                                           *)
LEMMA GreetingRead ==
  ASSUME NEW I \in SUBSET Commands, NEW c, Normal(c, I), c.life = "live", LogLive(c.log, I),
         NEW a \in Awaited, Matches(c, a)
  PROVE  \E b \in Awaited : ReplyDone(c, ProcessReplies(c, Greeting), b, I)
<1>1. PICK x : x = [k |-> "error", id |-> NULL]
  OBVIOUS
<1>2. x \in Reply /\ x.k = "error" /\ x.id = NULL /\ Greeting = <<x>>
  BY <1>1 DEF Reply, Greeting
<1>3. PICK s : s = [c |-> c, cb |-> NoCallback]
  OBVIOUS
<1>4. Pair(s) /\ s.c = c /\ ProcessReplies(c, Greeting) = ProcessReply(s, x)
  BY <1>2, <1>3, OneReply DEF Pair
<1>5. CASE c.replies = <<>>
  <2>1. PICK t : t = ProcessReply(s, x)
    OBVIOUS
  <2>2. Pair(t) /\ t.c \in Context /\ Moved(c, t.c) /\ Over(c, t.c, I)
    BY <1>2, <1>4, <1>5, <2>1, ReplyRefused, NormalApt DEF Normal
  <2> QED BY <1>4, <2>1, <2>2 DEF ReplyDone
<1>6. CASE c.replies # <<>>
  <2> DEFINE b == [a EXCEPT !.r = Tail(@)]
  <2>1. a \in Expected /\ a.r = c.replies /\ a.r \in Seq(Callback)
    BY DEF Awaited, Matches, Expected
  <2>2. Tail(a.r) \in Seq(Callback)
    BY <1>6, <2>1
  <2>3. b \in Expected /\ b.r = Tail(a.r) /\ b.i = a.i /\ b.v = a.v /\ b.p = a.p
    BY <2>1, <2>2 DEF Expected
  <2> HIDE DEF b
  <2>4. b \in Awaited
    BY <1>6, <2>1, <2>3 DEF Awaited, Known
  <2>5. ReplyDone(c, ProcessReply(s, x), b, I)
    BY <1>2, <1>4, <1>6, <2>1, <2>3, ReplyToWaiting
  <2> QED BY <1>4, <2>4, <2>5
<1> QED BY <1>5, <1>6

(* A pipeline whose replies answer commands is understood as it is.        *)
LEMMA PipelineUnderstood ==
  ASSUME NEW c, NEW rs, NEW q, NEW v, NEW up \in BOOLEAN, Pipeline(c, rs, q, v, up),
         rs = Greeting => Len(rs) = 1
  PROVE  Pipeline(c, Understood(rs, up), q, v, up)
<1>1. CASE ~up /\ rs = Greeting
  <2>1. PICK T, U : Follows(T, rs) /\ Matches(c, T[0])
    BY DEF Pipeline
  <2>2. PICK A : A = [i \in 0 .. 0 |-> T[0]]
    OBVIOUS
  <2>3. A[0] = T[0] /\ T[0] \in Awaited
    BY <1>1, <2>1, <2>2 DEF Follows
  <2>4. Follows(A, <<>>)
    BY <2>2, <2>3 DEF Follows
  <2>5. Understood(rs, up) = <<>>
    BY <1>1 DEF Understood
  <2> QED BY <1>1, <2>1, <2>3, <2>4, <2>5 DEF Pipeline
<1>2. CASE ~(~up /\ rs = Greeting)
  BY <1>2 DEF Understood
<1> QED BY <1>1, <1>2

(* The pipeline after n of the replies were read.                          *)
LEMMA PipelineShift ==
  ASSUME NEW d, NEW rs \in Seq(Reply), NEW n \in 0 .. Len(rs), NEW q, NEW v, NEW up, NEW T, NEW U,
         Follows(T, rs), Matches(d, T[n]),
         up => /\ Executes(U, q) /\ U[0] = T[Len(rs)] /\ U[0].v = v
               /\ Drained(U[Len(q)])
  PROVE  Pipeline(d, SubSeq(rs, n + 1, Len(rs)), q, v, up)
<1>1. PICK B : B = [i \in 0 .. (Len(rs) - n) |-> T[n + i]]
  OBVIOUS
<1>2. Follows(B, SubSeq(rs, n + 1, Len(rs)))
  BY <1>1, FollowsSplit
<1>3. Len(SubSeq(rs, n + 1, Len(rs))) = Len(rs) - n /\ Len(rs) - n \in Nat /\ n \in Nat /\ Len(rs) \in Nat
  BY FirstReplies
<1>4. B[0] = T[n] /\ B[Len(rs) - n] = T[Len(rs)]
  BY <1>1, <1>3
<1> QED BY <1>2, <1>3, <1>4 DEF Pipeline

(* What a read of the first n replies leaves.                              *)
ReadInMode(c, d, I, rs, n, q, v, up) ==
  /\ d \in Context /\ Moved(c, d)
  /\ \/ Carries(c, d, I) /\ Mode(d, I, SubSeq(rs, n + 1, Len(rs)), q, v, up)
     \/ Over(c, d, I)

(* A read in normal mode.                                                  *)
LEMMA ReadNormal ==
  ASSUME NEW I \in SUBSET Commands, NEW c, NEW rs \in Seq(Reply), NEW q, NEW v, NEW up \in BOOLEAN,
         NormalMode(c, I, rs, q, v, up), c.life = "live", LogLive(c.log, I), c.err = FALSE,
         "read" \in c.ev, NEW n \in 0 .. Len(rs)
  PROVE  ReadInMode(c, redisAsyncRead(c, FALSE, SubSeq(rs, 1, n)), I, rs, n, q, v, up)
<1>1. Normal(c, I) /\ ~Monitors(I) /\ c \in Context
  BY DEF NormalMode, Normal
<1>2. PICK fs, rest : fs = SubSeq(rs, 1, n) /\ rest = SubSeq(rs, n + 1, Len(rs))
  OBVIOUS
<1>3. fs \in Seq(Reply) /\ rest \in Seq(Reply) /\ Len(fs) = n
  BY <1>2, FirstReplies
<1>4. PICK d : d = redisProcessCallbacks(c, fs)
  OBVIOUS
<1>5. redisAsyncRead(c, FALSE, SubSeq(rs, 1, n)) = d
  BY <1>1, <1>2, <1>4, ReadSame
<1>6. PICK s : s = ProcessReplies(c, fs)
  OBVIOUS
<1>7. \E b : ReplyDone(c, s, b, I)
        /\ \A e : Matches(e, b) => Pipeline(e, Understood(rest, up), q, v, up)
  <2>1. CASE ~up /\ rs = Greeting
    <3>1. Understood(rs, up) = <<>> /\ rs = Greeting /\ Len(rs) = 1
      BY <2>1 DEF Understood, Greeting
    <3>2. PICK T, U : Follows(T, <<>>) /\ Matches(c, T[0])
      BY <3>1 DEF NormalMode, Pipeline
    <3>3. PICK a \in Awaited : Matches(c, a)
      BY <3>2 DEF Follows
    <3>4. CASE n = 0
      <4>1. fs = <<>> /\ rest = rs
        BY <1>2, <3>4
      <4>2. s = [c |-> c, cb |-> NoCallback]
        BY <1>6, <4>1, NoReplies
      <4>3. Carries(c, c, I) /\ Moved(c, c)
        BY <1>1, CarriesSelf
      <4>4. ReplyDone(c, s, T[0], I)
        BY <1>1, <3>2, <4>2, <4>3 DEF ReplyDone, Pair
      <4>5. ASSUME NEW e, Matches(e, T[0]) PROVE Pipeline(e, Understood(rest, up), q, v, up)
        BY <2>1, <3>1, <3>2, <4>1, <4>5 DEF Pipeline
      <4> QED BY <4>4, <4>5
    <3>5. CASE n = 1
      <4>1. fs = rs /\ rest = <<>>
        BY <1>2, <3>1, <3>5
      <4>2. PICK b \in Awaited : ReplyDone(c, ProcessReplies(c, Greeting), b, I)
        BY <1>1, <3>3, GreetingRead
      <4>3. ReplyDone(c, s, b, I)
        BY <1>6, <3>1, <4>1, <4>2
      <4>4. Understood(rest, up) = <<>>
        BY <4>1 DEF Understood, Greeting
      <4>5. PICK A : A = [i \in 0 .. 0 |-> b]
        OBVIOUS
      <4>6. Follows(A, <<>>) /\ A[0] = b
        BY <4>5 DEF Follows
      <4>7. ASSUME NEW e, Matches(e, b) PROVE Pipeline(e, Understood(rest, up), q, v, up)
        BY <2>1, <4>4, <4>6, <4>7 DEF Pipeline
      <4> QED BY <4>3, <4>7
    <3> QED BY <3>1, <3>4, <3>5
  <2>2. CASE ~(~up /\ rs = Greeting)
    <3>1. Understood(rs, up) = rs
      BY <2>2 DEF Understood
    <3>2. PICK T, U :
            /\ Follows(T, rs) /\ Matches(c, T[0])
            /\ up => /\ Executes(U, q) /\ U[0] = T[Len(rs)] /\ U[0].v = v
                     /\ Drained(U[Len(q)])
      BY <3>1 DEF NormalMode, Pipeline
    <3>3. PICK A : A = [i \in 0 .. n |-> T[i]]
      OBVIOUS
    <3>4. Follows(A, fs) /\ A[0] = T[0] /\ A[n] = T[n]
      <4>1. Follows(A, fs)
        BY <1>2, <3>2, <3>3, FollowsSplit
      <4> QED BY <3>3, <4>1
    <3>5. ReplyDone(c, s, T[n], I)
      BY <1>1, <1>3, <1>6, <3>2, <3>4, RepliesNormal
    <3>6. ASSUME NEW e, Matches(e, T[n]) PROVE Pipeline(e, Understood(rest, up), q, v, up)
      <4>1. Pipeline(e, rest, q, v, up)
        BY <1>2, <3>2, <3>6, PipelineShift
      <4>2. Len(Greeting) = 1
        BY DEF Greeting
      <4> QED BY <4>1, <4>2, PipelineUnderstood
    <3> QED BY <3>5, <3>6
  <2> QED BY <2>1, <2>2
<1>8. PICK b : ReplyDone(c, s, b, I)
        /\ \A e : Matches(e, b) => Pipeline(e, Understood(rest, up), q, v, up)
  BY <1>7
<1>9. /\ d \in Context /\ Moved(c, d)
      /\ \/ Carries(c, d, I) /\ Normal(d, I) /\ Matches(d, b)
         \/ Over(c, d, I)
  BY <1>1, <1>3, <1>4, <1>6, <1>8, CallbacksNormal
<1>10. ASSUME Carries(c, d, I), Normal(d, I), Matches(d, b) PROVE Mode(d, I, rest, q, v, up)
  BY <1>1, <1>8, <1>10 DEF Mode, NormalMode
<1> QED BY <1>2, <1>5, <1>9, <1>10 DEF ReadInMode

(* A read in monitor mode.                                                 *)
LEMMA ReadMonitor ==
  ASSUME NEW I \in SUBSET Commands, NEW c, NEW rs \in Seq(Reply), NEW q, NEW v, NEW up,
         MonitorMode(c, I, rs, q, v, up), c.life = "live", LogLive(c.log, I), c.err = FALSE,
         "read" \in c.ev, NEW n \in 0 .. Len(rs)
  PROVE  ReadInMode(c, redisAsyncRead(c, FALSE, SubSeq(rs, 1, n)), I, rs, n, q, v, up)
<1>1. PICK m \in Commands :
        /\ I = {m} /\ Monitoring(c, m)
        /\ \A i \in 1 .. Len(rs) : rs[i].k \in {"status", "error"}
        /\ up => q \in Seq({m}) /\ v = {}
  BY DEF MonitorMode
<1>2. PICK fs, rest : fs = SubSeq(rs, 1, n) /\ rest = SubSeq(rs, n + 1, Len(rs))
  OBVIOUS
<1>3. /\ fs \in Seq(Reply) /\ \A i \in 1 .. Len(fs) : fs[i].k \in {"status", "error"}
      /\ rest \in Seq(Reply) /\ \A i \in 1 .. Len(rest) : rest[i].k \in {"status", "error"}
  BY <1>1, <1>2, FirstReplies
<1>4. PICK s, d : s = ProcessReplies(c, fs) /\ d = redisProcessCallbacks(c, fs)
  OBVIOUS
<1>5. c \in Context /\ LogLive(c.log, {m})
  BY <1>1 DEF Monitoring
<1>6. MonitorDone(c, s, m)
  BY <1>1, <1>3, <1>4, <1>5, RepliesMonitor
<1>7. /\ d \in Context /\ Moved(c, d)
      /\ \/ Carries(c, d, {m}) /\ Monitoring(d, m)
         \/ Over(c, d, {m})
  BY <1>1, <1>3, <1>4, <1>5, <1>6, CallbacksMonitor
<1>8. redisAsyncRead(c, FALSE, fs) = d
  BY <1>4, <1>5, ReadSame
<1>9. ASSUME Monitoring(d, m) PROVE Mode(d, I, rest, q, v, up)
  BY <1>1, <1>3, <1>9 DEF Mode, MonitorMode
<1> QED BY <1>1, <1>2, <1>7, <1>8, <1>9 DEF ReadInMode

(* A read leaves the pipeline of the replies not read yet.                 *)
LEMMA ReadMode ==
  ASSUME NEW I \in SUBSET Commands, NEW c, NEW rs \in Seq(Reply), NEW q, NEW v, NEW up \in BOOLEAN,
         Mode(c, I, rs, q, v, up), c.life = "live", LogLive(c.log, I), c.err = FALSE,
         "read" \in c.ev, NEW n \in 0 .. Len(rs)
  PROVE  ReadInMode(c, redisAsyncRead(c, FALSE, SubSeq(rs, 1, n)), I, rs, n, q, v, up)
BY ReadNormal, ReadMonitor DEF Mode

(* d keeps the callbacks of c.                                             *)
SameCallbacks(c, d) ==
  /\ d.replies = c.replies /\ d.invalid = c.invalid /\ d.subs = c.subs
  /\ "SUBSCRIBED" \in d.flags <=> "SUBSCRIBED" \in c.flags
  /\ "MONITORING" \in d.flags <=> "MONITORING" \in c.flags

(* The mode is about the callbacks only.                                   *)
LEMMA ModeSame ==
  ASSUME NEW I \in SUBSET Commands, NEW c, NEW d \in Context, NEW rs, NEW q, NEW r, NEW v,
         NEW up \in BOOLEAN, Mode(c, I, rs, q, v, up),
         SameCallbacks(c, d), up => r = q
  PROVE  Mode(d, I, rs, r, v, up)
<1>1. CASE MonitorMode(c, I, rs, q, v, up)
  <2>1. PICK m \in Commands :
          /\ I = {m} /\ Monitoring(c, m)
          /\ \A i \in 1 .. Len(rs) : rs[i].k \in {"status", "error"}
          /\ up => q \in Seq({m}) /\ v = {}
    BY <1>1 DEF MonitorMode
  <2>2. Monitoring(d, m)
    BY <2>1 DEF Monitoring, SameCallbacks
  <2> QED BY <2>1, <2>2 DEF Mode, MonitorMode
<1>2. CASE NormalMode(c, I, rs, q, v, up)
  <2>1. Normal(d, I)
    BY <1>2 DEF NormalMode, Normal, SameCallbacks
  <2>2. Pipeline(d, Understood(rs, up), r, v, up)
    BY <1>2 DEF NormalMode, Pipeline, Matches, SameCallbacks
  <2> QED BY <1>2, <2>1, <2>2 DEF Mode, NormalMode
<1> QED BY <1>1, <1>2 DEF Mode

(* The events a live context watches.                                      *)
Watched(c) ==
  /\ "CONNECTED" \in c.flags <=> "read" \in c.ev
  /\ "CONNECTED" \notin c.flags => "write" \in c.ev
  /\ c.obuf # <<>> => "write" \in c.ev

(* A live context at the return to the event loop.                         *)
Live(c, I) ==
  /\ c \in Context /\ c.life = "live" /\ c.err = FALSE /\ LogLive(c.log, I) /\ Watched(c)
  /\ "CONNECTED" \in c.flags <=> HasLogged(c.log, "onConnect")

(* c was freed and f is left.                                              *)
Ended(c, f, I) ==
  /\ f \in Context /\ f.life = "freed"
  /\ f.replies = <<>> /\ f.invalid = <<>> /\ f.subs = <<>> /\ f.obuf = <<>> /\ f.ev = {}
  /\ LogRight(f.log, I) /\ Moved(c, f)
  /\ "CONNECTED" \in c.flags => HasLogged(f.log, "onDisconnect")

(* A context that is over has ended.                                       *)
LEMMA OverEnds ==
  ASSUME NEW I \in SUBSET Commands, NEW c \in Context, NEW f, Over(c, f, I), Moved(c, f)
  PROVE  Ended(c, f, I)
BY DEF Over, Ended

(* A context that moves on and then ends has ended.                        *)
LEMMA EndsThrough ==
  ASSUME NEW I \in SUBSET Commands, NEW c \in Context, NEW d \in Context, NEW f,
         Moved(c, d), "CONNECTED" \in c.flags => "CONNECTED" \in d.flags, Ended(d, f, I)
  PROVE  Ended(c, f, I)
BY MovedTrans DEF Ended

(* onConnect(OK), and the flag.                                            *)
LEMMA ConnectedIs ==
  ASSUME NEW I \in SUBSET Commands, NEW c, Live(c, I), "CONNECTED" \notin c.flags, AllApt(c)
  PROVE  /\ LET d == HandleConnect(c, "yes")
            IN /\ d \in Context /\ d.life = "live" /\ d.err = FALSE /\ LogLive(d.log, I)
               /\ d.flags = c.flags \cup {"CONNECTED"} /\ HasLogged(d.log, "onConnect")
               /\ d.obuf = c.obuf /\ d.ev = c.ev
               /\ d.replies = c.replies /\ d.invalid = c.invalid /\ d.subs = c.subs
               /\ Moved(c, d)
         /\ Ended(c, HandleConnect(c, "error"), I)
<1>1. c \in Context /\ c.log \in Seq(Entry) /\ LogLive(c.log, I)
  BY DEF Live, Context
<1>2. ASSUME NEW st \in {"OK", "ERR"}
      PROVE  LET d == Log(c, "onConnect", st)
             IN /\ d \in Context /\ d.life = "live" /\ d.err = FALSE /\ LogLive(d.log, I)
                /\ d.flags = c.flags /\ HasLogged(d.log, "onConnect") /\ d.obuf = c.obuf /\ d.ev = c.ev
                /\ d.replies = c.replies /\ d.invalid = c.invalid /\ d.subs = c.subs
                /\ Told(d.log) = Told(c.log) /\ Waits(d) = Waits(c)
  <2>1. PICK e : e = [to |-> "onConnect", got |-> st]
    OBVIOUS
  <2>2. e \in Entry /\ e.to = "onConnect"
    BY <2>1 DEF Entry
  <2>3. PICK l : l = Append(c.log, e)
    OBVIOUS
  <2>4. l \in Seq(Entry)
    BY <1>1, <2>2, <2>3
  <2>5. HasLogged(l, "onConnect")
    BY <1>1, <2>2, <2>3, LogAppend
  <2>6. Right(e, I)
    BY <2>2, NotPlain DEF Right, Ids
  <2>7. LogLive(l, I)
    BY <1>1, <2>2, <2>3, <2>6, LogAppend DEF LogLive
  <2>8. Told(l) = Told(c.log)
    BY <1>1, <2>2, <2>3, ToldAppend, NotPlain DEF WithPlain
  <2>9. PICK d : d = [c EXCEPT !.log = l]
    OBVIOUS
  <2>10. d = Log(c, "onConnect", st)
    BY <2>1, <2>3, <2>9 DEF Log
  <2>11. /\ d \in Context /\ d.log = l /\ d.life = c.life /\ d.err = c.err /\ d.flags = c.flags
         /\ d.obuf = c.obuf /\ d.ev = c.ev
         /\ d.replies = c.replies /\ d.invalid = c.invalid /\ d.subs = c.subs
    BY <1>1, <2>4, <2>9 DEF Context
  <2>12. Waits(d) = Waits(c)
    BY <2>11 DEF Waits
  <2> QED BY <2>5, <2>7, <2>8, <2>10, <2>11, <2>12 DEF Live
<1>3. LET d == HandleConnect(c, "yes")
      IN /\ d \in Context /\ d.life = "live" /\ d.err = FALSE /\ LogLive(d.log, I)
         /\ d.flags = c.flags \cup {"CONNECTED"} /\ HasLogged(d.log, "onConnect")
         /\ d.obuf = c.obuf /\ d.ev = c.ev
         /\ d.replies = c.replies /\ d.invalid = c.invalid /\ d.subs = c.subs
         /\ Moved(c, d)
  <2>1. PICK d : d = Log(c, "onConnect", "OK")
    OBVIOUS
  <2>2. /\ d \in Context /\ d.life = "live" /\ d.err = FALSE /\ LogLive(d.log, I)
        /\ d.flags = c.flags /\ HasLogged(d.log, "onConnect") /\ d.obuf = c.obuf /\ d.ev = c.ev
        /\ d.replies = c.replies /\ d.invalid = c.invalid /\ d.subs = c.subs
        /\ Told(d.log) = Told(c.log) /\ Waits(d) = Waits(c)
    BY <1>2, <2>1
  <2>3. PICK e : e = [d EXCEPT !.flags = @ \cup {"CONNECTED"}]
    OBVIOUS
  <2>4. HandleConnect(c, "yes") = e
    BY <2>1, <2>3 DEF HandleConnect
  <2>5. /\ e \in Context /\ e.flags = d.flags \cup {"CONNECTED"} /\ e.life = d.life
        /\ e.err = d.err /\ e.log = d.log /\ e.obuf = d.obuf /\ e.ev = d.ev
        /\ e.replies = d.replies /\ e.invalid = d.invalid /\ e.subs = d.subs
    BY <2>2, <2>3 DEF Context, Flags
  <2>6. Waits(e) = Waits(c) /\ Told(e.log) = Told(c.log)
    BY <2>2, <2>5 DEF Waits
  <2>7. Moved(c, e)
    BY <1>1, <2>5, <2>6, MovedNone
  <2> QED BY <2>2, <2>4, <2>5, <2>7
<1>4. Ended(c, HandleConnect(c, "error"), I)
  <2>1. PICK d : d = Log(c, "onConnect", "ERR")
    OBVIOUS
  <2>2. /\ d \in Context /\ LogLive(d.log, I) /\ d.flags = c.flags
        /\ d.replies = c.replies /\ d.invalid = c.invalid /\ d.subs = c.subs
        /\ Told(d.log) = Told(c.log) /\ Waits(d) = Waits(c)
    BY <1>2, <2>1
  <2>3. AllApt(d) /\ Moved(c, d)
    BY <1>1, <2>2, MovedNone DEF AllApt
  <2>4. PICK f : f = Fail(d)
    OBVIOUS
  <2>5. HandleConnect(c, "error") = f
    BY <2>1, <2>4 DEF HandleConnect
  <2>6. Over(d, f, I) /\ Moved(d, f)
    BY <2>2, <2>3, <2>4, FailIs
  <2>7. Ended(d, f, I)
    BY <2>2, <2>6, OverEnds
  <2>8. Ended(c, f, I)
    BY <1>1, <2>2, <2>3, <2>7, EndsThrough
  <2> QED BY <2>5, <2>8
<1> QED BY <1>3, <1>4

(* Writing moves commands from obuf to the wire, and keeps their order.    *)
LEMMA WriteQueue ==
  ASSUME NEW S, NEW w \in Seq(S), NEW o \in Seq(S), NEW n \in 0 .. Len(o)
  PROVE  (w \o SubSeq(o, 1, n)) \o SubSeq(o, n + 1, Len(o)) = w \o o
<1>1. PICK a \in Seq(S), b \in Seq(S) : a = SubSeq(o, 1, n) /\ b = SubSeq(o, n + 1, Len(o))
  BY FirstReplies
<1>2. a \o b = o
  <2>1. /\ Len(a) = n /\ Len(b) = Len(o) - n /\ Len(o) \in Nat /\ n \in Nat /\ n <= Len(o)
        /\ \A i \in 1 .. n : a[i] = o[i]
        /\ \A i \in 1 .. (Len(o) - n) : b[i] = o[n + i]
    BY <1>1, FirstReplies
  <2>2. a \o b \in Seq(S) /\ Len(a \o b) = Len(o)
    <3>1. a \o b \in Seq(S) /\ Len(a \o b) = Len(a) + Len(b)
      BY ConcatProperties
    <3> QED BY <2>1, <3>1
  <2>3. ASSUME NEW i \in 1 .. Len(o) PROVE (a \o b)[i] = o[i]
    <3>1. CASE i <= n
      BY <2>1, <3>1
    <3>2. CASE ~(i <= n)
      <4>1. i - n \in 1 .. (Len(o) - n) /\ n + (i - n) = i
        BY <2>1, <3>2
      <4>2. (a \o b)[i] = b[i - n]
        BY <2>1, <3>2
      <4> QED BY <2>1, <4>1, <4>2
    <3> QED BY <3>1, <3>2
  <2> QED BY <2>2, <2>3, SeqEqual
<1>3. (w \o a) \o b = w \o (a \o b)
  BY ConcatAssociative
<1> QED BY <1>1, <1>2, <1>3

-----------------------------------------------------------------------------
(* The invariant, and the steps of the event loop.                         *)

(* The types of the far end.                                               *)
FarTypes ==
  /\ link \in {"connecting", "up", "refused", "lost"}
  /\ inbuf \in Seq(Reply) /\ wire \in Seq(Commands)
  /\ srvsubs \in SUBSET Channels /\ IsFiniteSet(srvsubs)
  /\ issued \in SUBSET Commands /\ msgs \in 0 .. MaxMsgs

(* What the socket's fate says of the context.                             *)
LinkAgrees ==
  /\ link \in {"connecting", "refused"} =>
       "CONNECTED" \notin ac.flags /\ inbuf = <<>> /\ wire = <<>>
  /\ link = "lost" => wire = <<>>

(* A freed context.                                                        *)
Gone(f, I) ==
  /\ f \in Context /\ f.life = "freed"
  /\ f.replies = <<>> /\ f.invalid = <<>> /\ f.subs = <<>> /\ f.obuf = <<>> /\ f.ev = {}
  /\ LogRight(f.log, I)

(* The inductive invariant.                                                *)
IInv ==
  /\ FarTypes
  /\ ac.life = "live" =>
       /\ Live(ac, issued) /\ LinkAgrees
       /\ Mode(ac, issued, inbuf, wire \o ac.obuf, srvsubs, link # "lost")
  /\ ac.life # "live" => Gone(ac, issued) /\ wire = <<>> /\ inbuf = <<>> /\ link = "lost"

(* What a step other than a command does to a live context.                *)
Advances(c, d, I) ==
  \/ /\ Live(d, I) /\ Moved(c, d)
     /\ "CONNECTED" \in c.flags => "CONNECTED" \in d.flags
     /\ "CONNECTED" \notin d.flags => d.log = c.log /\ Waits(d) = Waits(c)
  \/ Ended(c, d, I)

(* The three parts of redisLibeventHandler.                                *)
HandlerRuns(what, done, c0, n, c1, w, c2) ==
  /\ done \in ConnectDone /\ c0 = HandleConnect(ac, done)
  /\ n \in IF "read" \in what /\ Ready(c0) THEN ReadResults ELSE {0}
  /\ c1 = IF "read" \in what /\ Ready(c0)
          THEN redisAsyncRead(c0, n = -1, SubSeq(inbuf, 1, n)) ELSE c0
  /\ w \in IF "write" \in what /\ Ready(c1) THEN WriteResults(c1) ELSE {0}
  /\ c2 = IF "write" \in what /\ Ready(c1) THEN redisAsyncWrite(c1, w = -1, w) ELSE c1

(* What redisLibeventHandler leaves of the variables.                      *)
HandlerLeaves(n, c1, w, c2) ==
  /\ ac' = c2
  /\ IF c2.life # "live" THEN Closed
     ELSE /\ inbuf' = SubSeq(inbuf, n + 1, Len(inbuf))
          /\ wire' = IF link = "lost" THEN <<>> ELSE wire \o SubSeq(c1.obuf, 1, w)
          /\ UNCHANGED link
  /\ UNCHANGED <<issued, orderly, srvsubs, msgs>>

(* The handler is its three parts: connect, read, write.                   *)
LEMMA HandlerParts ==
  ASSUME NEW what, redisLibeventHandler(what)
  PROVE  /\ ac.life = "live" /\ what # {} /\ what \subseteq ac.ev
         /\ "read" \in what => Readable
         /\ "write" \in what => Writable
         /\ \E done, c0, n, c1, w, c2 :
              HandlerRuns(what, done, c0, n, c1, w, c2) /\ HandlerLeaves(n, c1, w, c2)
<1>1. PICK c0 \in {HandleConnect(ac, done) : done \in ConnectDone} :
     \E n \in IF "read" \in what /\ Ready(c0) THEN ReadResults ELSE {0} :
     \E c1 \in {IF "read" \in what /\ Ready(c0)
                THEN redisAsyncRead(c0, n = -1, SubSeq(inbuf, 1, n)) ELSE c0} :
     \E w \in IF "write" \in what /\ Ready(c1) THEN WriteResults(c1) ELSE {0} :
     \E c2 \in {IF "write" \in what /\ Ready(c1)
                THEN redisAsyncWrite(c1, w = -1, w) ELSE c1} :
       /\ ac' = c2
       /\ Len(c2.replies) <= MaxSent
       /\ IF c2.life # "live" THEN Closed
          ELSE /\ inbuf' = SubSeq(inbuf, n + 1, Len(inbuf))
               /\ wire' = IF link = "lost" THEN <<>> ELSE wire \o SubSeq(c1.obuf, 1, w)
               /\ UNCHANGED link
  BY Zenon DEF redisLibeventHandler
<1>2. PICK done \in ConnectDone : c0 = HandleConnect(ac, done)
  OBVIOUS
<1>3. PICK n \in IF "read" \in what /\ Ready(c0) THEN ReadResults ELSE {0} :
     \E c1 \in {IF "read" \in what /\ Ready(c0)
                THEN redisAsyncRead(c0, n = -1, SubSeq(inbuf, 1, n)) ELSE c0} :
     \E w \in IF "write" \in what /\ Ready(c1) THEN WriteResults(c1) ELSE {0} :
     \E c2 \in {IF "write" \in what /\ Ready(c1)
                THEN redisAsyncWrite(c1, w = -1, w) ELSE c1} :
       /\ ac' = c2
       /\ Len(c2.replies) <= MaxSent
       /\ IF c2.life # "live" THEN Closed
          ELSE /\ inbuf' = SubSeq(inbuf, n + 1, Len(inbuf))
               /\ wire' = IF link = "lost" THEN <<>> ELSE wire \o SubSeq(c1.obuf, 1, w)
               /\ UNCHANGED link
  BY <1>1, Zenon
<1>4. PICK c1 \in {IF "read" \in what /\ Ready(c0)
                   THEN redisAsyncRead(c0, n = -1, SubSeq(inbuf, 1, n)) ELSE c0} :
     \E w \in IF "write" \in what /\ Ready(c1) THEN WriteResults(c1) ELSE {0} :
     \E c2 \in {IF "write" \in what /\ Ready(c1)
                THEN redisAsyncWrite(c1, w = -1, w) ELSE c1} :
       /\ ac' = c2
       /\ Len(c2.replies) <= MaxSent
       /\ IF c2.life # "live" THEN Closed
          ELSE /\ inbuf' = SubSeq(inbuf, n + 1, Len(inbuf))
               /\ wire' = IF link = "lost" THEN <<>> ELSE wire \o SubSeq(c1.obuf, 1, w)
               /\ UNCHANGED link
  BY <1>3, Zenon
<1>5. PICK w \in IF "write" \in what /\ Ready(c1) THEN WriteResults(c1) ELSE {0} :
     \E c2 \in {IF "write" \in what /\ Ready(c1)
                THEN redisAsyncWrite(c1, w = -1, w) ELSE c1} :
       /\ ac' = c2
       /\ Len(c2.replies) <= MaxSent
       /\ IF c2.life # "live" THEN Closed
          ELSE /\ inbuf' = SubSeq(inbuf, n + 1, Len(inbuf))
               /\ wire' = IF link = "lost" THEN <<>> ELSE wire \o SubSeq(c1.obuf, 1, w)
               /\ UNCHANGED link
  BY <1>4, Zenon
<1>6. PICK c2 \in {IF "write" \in what /\ Ready(c1)
                   THEN redisAsyncWrite(c1, w = -1, w) ELSE c1} :
       /\ ac' = c2
       /\ Len(c2.replies) <= MaxSent
       /\ IF c2.life # "live" THEN Closed
          ELSE /\ inbuf' = SubSeq(inbuf, n + 1, Len(inbuf))
               /\ wire' = IF link = "lost" THEN <<>> ELSE wire \o SubSeq(c1.obuf, 1, w)
               /\ UNCHANGED link
  BY <1>5, Zenon
<1>7. c1 = (IF "read" \in what /\ Ready(c0)
            THEN redisAsyncRead(c0, n = -1, SubSeq(inbuf, 1, n)) ELSE c0)
  BY <1>4, Zenon
<1>8. c2 = (IF "write" \in what /\ Ready(c1) THEN redisAsyncWrite(c1, w = -1, w) ELSE c1)
  BY <1>6, Zenon
<1>9. HandlerRuns(what, done, c0, n, c1, w, c2)
  BY <1>2, <1>3, <1>5, <1>7, <1>8, Zenon DEF HandlerRuns
<1>10. HandlerLeaves(n, c1, w, c2)
  BY <1>6, Zenon DEF HandlerLeaves, redisLibeventHandler
<1>11. /\ ac.life = "live" /\ what # {} /\ what \subseteq ac.ev
       /\ "read" \in what => Readable
       /\ "write" \in what => Writable
  BY Zenon DEF redisLibeventHandler
<1> QED BY <1>9, <1>10, <1>11, Zenon

(* A connected context within a handler.                                   *)
InHandler(c, I) ==
  /\ c \in Context /\ c.life = "live" /\ c.err = FALSE /\ LogLive(c.log, I)
  /\ "CONNECTED" \in c.flags /\ HasLogged(c.log, "onConnect")

(* The read part keeps the pipeline or ends the context.                   *)
LEMMA ReadHandled ==
  ASSUME NEW I \in SUBSET Commands, NEW c, InHandler(c, I), "read" \in c.ev,
         NEW rs \in Seq(Reply), NEW q, NEW v, NEW up \in BOOLEAN, Mode(c, I, rs, q, v, up),
         NEW n \in {-1} \cup (0 .. Len(rs)), NEW d, d = redisAsyncRead(c, n = -1, SubSeq(rs, 1, n))
  PROVE  \/ /\ n \in 0 .. Len(rs) /\ InHandler(d, I) /\ d.obuf = c.obuf /\ d.ev = c.ev
            /\ Moved(c, d) /\ Mode(d, I, SubSeq(rs, n + 1, Len(rs)), q, v, up)
         \/ Ended(c, d, I)
<1>1. c \in Context /\ AllApt(c) /\ c.life = "live" /\ c.err = FALSE /\ LogLive(c.log, I)
  BY ModeApt DEF InHandler
<1>2. CASE n = -1
  <2>1. d = redisAsyncRead(c, TRUE, SubSeq(rs, 1, n))
    BY <1>2
  <2>2. Moved(c, d) /\ Over(c, d, I)
    BY <1>1, <2>1, BrokenIs
  <2> QED BY <1>1, <2>2, OverEnds
<1>3. CASE n \in 0 .. Len(rs)
  <2>1. d = redisAsyncRead(c, FALSE, SubSeq(rs, 1, n))
    <3>1. n # -1
      BY <1>3
    <3> QED BY <3>1, Zenon DEF redisAsyncRead
  <2>2. ReadInMode(c, d, I, rs, n, q, v, up)
    BY <1>1, <1>3, <2>1, ReadMode
  <2>3. CASE Over(c, d, I)
    BY <1>1, <2>2, <2>3, OverEnds DEF ReadInMode
  <2>4. CASE Carries(c, d, I) /\ Mode(d, I, SubSeq(rs, n + 1, Len(rs)), q, v, up)
    <3>1. InHandler(d, I) /\ d.obuf = c.obuf /\ d.ev = c.ev
      BY <2>4 DEF InHandler, Carries
    <3> QED BY <1>3, <2>2, <2>4, <3>1 DEF ReadInMode
  <2> QED BY <2>2, <2>3, <2>4 DEF ReadInMode
<1> QED BY <1>2, <1>3

(* What is on the wire once n of the commands o were written.              *)
Wired(up, b, o, n) == IF ~up THEN <<>> ELSE b \o SubSeq(o, 1, n)

(* What a write of w commands leaves.                                      *)
WriteInMode(c, d, I, rs, b, w, v, up) ==
  /\ w \in 0 .. Len(c.obuf) /\ Live(d, I) /\ "CONNECTED" \in d.flags /\ Moved(c, d)
  /\ Mode(d, I, rs, Wired(up, b, c.obuf, w) \o d.obuf, v, up)

(* The write part keeps the pipeline or ends the context.                  *)
LEMMA WriteHandled ==
  ASSUME NEW I \in SUBSET Commands, NEW c, InHandler(c, I),
         NEW rs, NEW b \in Seq(Commands), NEW v, NEW up \in BOOLEAN, Mode(c, I, rs, b \o c.obuf, v, up),
         ~up => b = <<>>,
         NEW w \in {-1} \cup (0 .. Len(c.obuf)), NEW d, d = redisAsyncWrite(c, w = -1, w)
  PROVE  WriteInMode(c, d, I, rs, b, w, v, up) \/ Ended(c, d, I)
<1>1. c \in Context /\ AllApt(c) /\ LogLive(c.log, I) /\ c.obuf \in Seq(Commands)
  BY ModeApt DEF InHandler, Context
<1>2. CASE w = -1
  <2>1. d = redisAsyncWrite(c, TRUE, w)
    BY <1>2
  <2>2. Moved(c, d) /\ Over(c, d, I)
    BY <1>1, <2>1, BrokenIs
  <2> QED BY <1>1, <2>2, OverEnds
<1>3. CASE w \in 0 .. Len(c.obuf)
  <2>1. d = redisAsyncWrite(c, FALSE, w)
    <3>1. w # -1
      BY <1>3
    <3> QED BY <3>1, Zenon DEF redisAsyncWrite
  <2>2. /\ d \in Context /\ d.obuf = SubSeq(c.obuf, w + 1, Len(c.obuf))
        /\ "read" \in d.ev /\ (d.obuf # <<>> => "write" \in d.ev)
        /\ d.life = c.life /\ d.flags = c.flags /\ d.err = c.err /\ d.log = c.log
        /\ d.replies = c.replies /\ d.invalid = c.invalid /\ d.subs = c.subs
    BY <1>1, <1>3, <2>1, WrittenIs
  <2>3. Live(d, I) /\ "CONNECTED" \in d.flags
    BY <2>2 DEF Live, InHandler, Watched
  <2>4. Waits(d) = Waits(c)
    BY <2>2 DEF Waits
  <2>5. Moved(c, d)
    BY <1>1, <2>2, <2>4, MovedNone
  <2>6. PICK r : r = Wired(up, b, c.obuf, w) \o d.obuf
    OBVIOUS
  <2>7. up => r = b \o c.obuf
    <3>1. PICK o \in Seq(Commands) : o = c.obuf
      BY <1>1
    <3>2. (b \o SubSeq(o, 1, w)) \o SubSeq(o, w + 1, Len(o)) = b \o o
      BY <1>3, <3>1, WriteQueue
    <3> QED BY <2>2, <2>6, <3>1, <3>2 DEF Wired
  <2>9. Mode(d, I, rs, r, v, up)
    <3>1. PICK q : q = b \o c.obuf
      OBVIOUS
    <3>2. SameCallbacks(c, d)
      BY <2>2 DEF SameCallbacks
    <3>4. Mode(c, I, rs, q, v, up) /\ (up => r = q) /\ d \in Context
      BY <2>2, <2>7, <3>1
    <3> QED BY <3>2, <3>4, ModeSame
  <2> QED BY <1>3, <2>3, <2>5, <2>6, <2>9 DEF WriteInMode
<1> QED BY <1>2, <1>3

(* Every run of redisLibeventHandler keeps the invariant, and advances the *)
(* link.                                                                   *)
LEMMA HandlerAdvances ==
  ASSUME IInv, NEW what, redisLibeventHandler(what)
  PROVE  IInv' /\ Advances(ac, ac', issued)
<1>1. /\ ac.life = "live" /\ what # {} /\ what \subseteq ac.ev
      /\ "read" \in what => Readable
      /\ "write" \in what => Writable
  BY HandlerParts
<1>2. PICK done, c0, n, c1, w, c2 :
        HandlerRuns(what, done, c0, n, c1, w, c2) /\ HandlerLeaves(n, c1, w, c2)
  BY HandlerParts
<1>3. PICK q, up : q = wire \o ac.obuf /\ up = (link # "lost")
  OBVIOUS
<1>4. /\ FarTypes /\ Live(ac, issued) /\ LinkAgrees /\ up \in BOOLEAN
      /\ Mode(ac, issued, inbuf, q, srvsubs, up)
      /\ issued \in SUBSET Commands /\ inbuf \in Seq(Reply) /\ wire \in Seq(Commands)
      /\ ~up => wire = <<>>
  BY <1>1, <1>3 DEF IInv, FarTypes, LinkAgrees
<1>5. /\ ac \in Context /\ AllApt(ac) /\ ac.obuf \in Seq(Commands) /\ ac.ev \in SUBSET {"read", "write"}
      /\ inbuf = SubSeq(inbuf, 1, Len(inbuf))
  <2>1. ac \in Context /\ AllApt(ac)
    BY <1>4, ModeApt
  <2>2. inbuf = SubSeq(inbuf, 1, Len(inbuf))
    BY <1>4
  <2> QED BY <2>1, <2>2 DEF Context
<1>6. UNCHANGED <<issued, srvsubs, msgs>> /\ ac' = c2
  BY <1>2 DEF HandlerLeaves
<1>7. ASSUME Ended(ac, c2, issued) PROVE IInv' /\ Advances(ac, ac', issued)
  <2>1. c2.life = "freed" /\ Gone(c2, issued) /\ Closed
    BY <1>2, <1>7 DEF HandlerLeaves, Ended, Gone
  <2>2. Gone(ac', issued') /\ ac'.life = "freed" /\ wire' = <<>> /\ inbuf' = <<>> /\ link' = "lost"
    BY <1>6, <2>1 DEF Closed
  <2>3. FarTypes'
    BY <1>4, <1>6, <2>2 DEF FarTypes
  <2>4. Advances(ac, ac', issued)
    BY <1>6, <1>7 DEF Advances
  <2> QED BY <2>2, <2>3, <2>4 DEF IInv
<1>8. ASSUME n \in 0 .. Len(inbuf), w \in 0 .. Len(ac.obuf), Live(c2, issued), Moved(ac, c2),
             "CONNECTED" \in c2.flags, c1.obuf = ac.obuf, link \notin {"connecting", "refused"},
             Mode(c2, issued, SubSeq(inbuf, n + 1, Len(inbuf)),
                  Wired(up, wire, ac.obuf, w) \o c2.obuf, srvsubs, up)
      PROVE  IInv' /\ Advances(ac, ac', issued)
  <2>1. c2.life = "live"
    BY <1>8 DEF Live
  <2>2. /\ inbuf' = SubSeq(inbuf, n + 1, Len(inbuf)) /\ link' = link
        /\ wire' = Wired(up, wire, ac.obuf, w)
    BY <1>2, <1>3, <1>8, <2>1 DEF HandlerLeaves, Wired
  <2>3. inbuf' \in Seq(Reply) /\ wire' \in Seq(Commands)
    BY <1>4, <1>5, <1>8, <2>2, FirstReplies DEF Wired
  <2>4. FarTypes'
    BY <1>4, <1>6, <2>2, <2>3 DEF FarTypes
  <2>5. Mode(ac', issued', inbuf', wire' \o ac'.obuf, srvsubs', link' # "lost")
    BY <1>3, <1>6, <1>8, <2>2
  <2>6. Live(ac', issued') /\ ac'.life = "live"
    BY <1>6, <1>8, <2>1
  <2>7. LinkAgrees'
    BY <1>3, <1>8, <2>2 DEF LinkAgrees, Wired
  <2>8. Advances(ac, ac', issued)
    BY <1>6, <1>8 DEF Advances
  <2> QED BY <2>4, <2>5, <2>6, <2>7, <2>8 DEF IInv
<1>9. CASE "CONNECTED" \notin ac.flags
  <2>1. "read" \notin what /\ "write" \in what /\ link # "connecting"
    BY <1>1, <1>4, <1>5, <1>9 DEF Live, Watched, Writable
  <2>2. done \in {"yes", "error"} /\ (done = "yes" => link \in {"up", "lost"})
    BY <1>2, <1>4, <1>9, <2>1 DEF HandlerRuns, ConnectDone, FarTypes
  <2>3. n = 0 /\ c1 = c0 /\ c0 = HandleConnect(ac, done)
    BY <1>2, <2>1 DEF HandlerRuns
  <2>4. CASE done = "error"
    <3>1. Ended(ac, c0, issued)
      BY <1>4, <1>5, <1>9, <2>3, <2>4, ConnectedIs
    <3>2. ~Ready(c0)
      BY <3>1 DEF Ended, Ready
    <3>3. c2 = c0
      BY <1>2, <2>3, <3>2 DEF HandlerRuns
    <3> QED BY <1>7, <3>1, <3>3
  <2>5. CASE done = "yes"
    <3>1. /\ c0 \in Context /\ c0.life = "live" /\ c0.err = FALSE /\ LogLive(c0.log, issued)
          /\ c0.flags = ac.flags \cup {"CONNECTED"} /\ HasLogged(c0.log, "onConnect")
          /\ c0.obuf = ac.obuf /\ c0.ev = ac.ev
          /\ c0.replies = ac.replies /\ c0.invalid = ac.invalid /\ c0.subs = ac.subs
          /\ Moved(ac, c0)
      BY <1>4, <1>5, <1>9, <2>3, <2>5, ConnectedIs
    <3>2. InHandler(c0, issued) /\ Ready(c0)
      BY <3>1 DEF InHandler, Ready
    <3>3. Mode(c0, issued, inbuf, q, srvsubs, up)
      <4>1. SameCallbacks(ac, c0)
        BY <3>1 DEF SameCallbacks
      <4> QED BY <1>4, <3>1, <4>1, ModeSame
    <3>4. w \in {-1} \cup (0 .. Len(c0.obuf)) /\ c2 = redisAsyncWrite(c0, w = -1, w)
      BY <1>2, <2>1, <2>3, <3>2 DEF HandlerRuns, WriteResults, Failures
    <3>5. Mode(c0, issued, inbuf, wire \o c0.obuf, srvsubs, up)
      BY <1>3, <3>1, <3>3
    <3>6. WriteInMode(c0, c2, issued, inbuf, wire, w, srvsubs, up) \/ Ended(c0, c2, issued)
      <4>1. issued \in SUBSET Commands /\ wire \in Seq(Commands) /\ up \in BOOLEAN /\ (~up => wire = <<>>)
        BY <1>4
      <4> QED BY <3>2, <3>4, <3>5, <4>1, WriteHandled
    <3>7. CASE Ended(c0, c2, issued)
      <4>1. Ended(ac, c2, issued)
        BY <1>4, <1>5, <1>9, <3>1, <3>7, EndsThrough
      <4> QED BY <1>7, <4>1
    <3>8. CASE WriteInMode(c0, c2, issued, inbuf, wire, w, srvsubs, up)
      <4>1. Moved(ac, c2)
        BY <1>5, <3>1, <3>8, MovedTrans DEF Live, WriteInMode
      <4>2. SubSeq(inbuf, n + 1, Len(inbuf)) = inbuf /\ n \in 0 .. Len(inbuf)
        BY <1>4, <1>5, <2>3
      <4>3. Mode(c2, issued, SubSeq(inbuf, n + 1, Len(inbuf)),
                 Wired(up, wire, ac.obuf, w) \o c2.obuf, srvsubs, up)
        BY <3>1, <3>8, <4>2 DEF WriteInMode
      <4> QED BY <1>8, <2>2, <2>3, <2>5, <3>1, <3>8, <4>1, <4>2, <4>3 DEF WriteInMode
    <3> QED BY <3>6, <3>7, <3>8
  <2> QED BY <2>2, <2>4, <2>5
<1>10. CASE "CONNECTED" \in ac.flags
  <2>1. c0 = ac /\ Ready(ac) /\ InHandler(ac, issued) /\ "read" \in ac.ev
        /\ link \notin {"connecting", "refused"}
    BY <1>1, <1>2, <1>4, <1>10 DEF HandlerRuns, HandleConnect, Ready, InHandler, Live, Watched, LinkAgrees
  <2>2. \/ /\ n \in 0 .. Len(inbuf) /\ InHandler(c1, issued) /\ c1.obuf = ac.obuf /\ c1.ev = ac.ev
           /\ Moved(ac, c1) /\ Mode(c1, issued, SubSeq(inbuf, n + 1, Len(inbuf)), q, srvsubs, up)
        \/ Ended(ac, c1, issued)
    <3>1. CASE "read" \in what
      <4>1. n \in {-1} \cup (0 .. Len(inbuf)) /\ c1 = redisAsyncRead(ac, n = -1, SubSeq(inbuf, 1, n))
        BY <1>2, <2>1, <3>1 DEF HandlerRuns, ReadResults, Failures
      <4> QED BY <1>4, <2>1, <4>1, ReadHandled
    <3>2. CASE "read" \notin what
      <4>1. n = 0 /\ c1 = ac
        BY <1>2, <2>1, <3>2 DEF HandlerRuns
      <4>2. SubSeq(inbuf, n + 1, Len(inbuf)) = inbuf /\ n \in 0 .. Len(inbuf)
        BY <1>4, <1>5, <4>1
      <4>3. Moved(ac, ac)
        BY <1>4, <1>5, CarriesSelf DEF Live
      <4> QED BY <1>4, <2>1, <4>1, <4>2, <4>3
    <3> QED BY <3>1, <3>2
  <2>3. CASE Ended(ac, c1, issued)
    <3>1. ~Ready(c1)
      BY <2>3 DEF Ended, Ready
    <3>2. c2 = c1
      BY <1>2, <3>1 DEF HandlerRuns
    <3> QED BY <1>7, <2>3, <3>2
  <2>4. CASE /\ n \in 0 .. Len(inbuf) /\ InHandler(c1, issued) /\ c1.obuf = ac.obuf /\ c1.ev = ac.ev
             /\ Moved(ac, c1) /\ Mode(c1, issued, SubSeq(inbuf, n + 1, Len(inbuf)), q, srvsubs, up)
    <3>1. PICK rest : rest = SubSeq(inbuf, n + 1, Len(inbuf))
      OBVIOUS
    <3>2. Mode(c1, issued, rest, wire \o c1.obuf, srvsubs, up) /\ Ready(c1) /\ c1 \in Context
      BY <1>3, <2>4, <3>1 DEF Ready, InHandler
    <3>3. CASE "write" \in what
      <4>1. w \in {-1} \cup (0 .. Len(c1.obuf)) /\ c2 = redisAsyncWrite(c1, w = -1, w)
        BY <1>2, <3>2, <3>3 DEF HandlerRuns, WriteResults, Failures
      <4>2. WriteInMode(c1, c2, issued, rest, wire, w, srvsubs, up) \/ Ended(c1, c2, issued)
        <5>1. issued \in SUBSET Commands /\ wire \in Seq(Commands) /\ up \in BOOLEAN /\ (~up => wire = <<>>)
          BY <1>4
        <5>2. InHandler(c1, issued)
          BY <2>4
        <5> QED BY <3>2, <4>1, <5>1, <5>2, WriteHandled
      <4>3. CASE Ended(c1, c2, issued)
        <5>1. "CONNECTED" \in c1.flags
          BY <2>4 DEF InHandler
        <5>2. Ended(ac, c2, issued)
          BY <1>4, <1>5, <2>4, <3>2, <4>3, <5>1, EndsThrough
        <5> QED BY <1>7, <5>2
      <4>4. CASE WriteInMode(c1, c2, issued, rest, wire, w, srvsubs, up)
        <5>1. Moved(ac, c2)
          BY <1>5, <2>4, <3>2, <4>4, MovedTrans DEF Live, WriteInMode
        <5> QED BY <1>8, <2>1, <2>4, <3>1, <4>4, <5>1 DEF WriteInMode
      <4> QED BY <4>2, <4>3, <4>4
    <3>4. CASE "write" \notin what
      <4>1. w = 0 /\ c2 = c1
        BY <1>2, <3>4 DEF HandlerRuns
      <4>2. Live(c2, issued) /\ "CONNECTED" \in c2.flags
        BY <1>4, <2>1, <2>4, <4>1 DEF Live, InHandler, Watched
      <4>3. w \in 0 .. Len(ac.obuf) /\ SubSeq(ac.obuf, 1, w) = <<>>
        BY <1>5, <4>1
      <4>4. Wired(up, wire, ac.obuf, w) = wire
        BY <1>4, <4>3 DEF Wired
      <4>5. Mode(c2, issued, rest,
                 Wired(up, wire, ac.obuf, w) \o c2.obuf, srvsubs, up)
        BY <3>2, <4>1, <4>4
      <4> QED BY <1>8, <2>1, <2>4, <3>1, <4>1, <4>2, <4>3, <4>5
    <3> QED BY <3>3, <3>4
  <2> QED BY <2>2, <2>3, <2>4
<1> QED BY <1>9, <1>10

(* redisAsyncDisconnect keeps the invariant, and advances the link.        *)
LEMMA DisconnectAdvances ==
  ASSUME IInv, redisAsyncDisconnect
  PROVE  IInv' /\ Advances(ac, ac', issued)
<1>1. PICK c : c = [ac EXCEPT !.flags = @ \cup {"DISCONNECTING"}]
  OBVIOUS
<1>2. /\ FarTypes /\ Live(ac, issued) /\ LinkAgrees /\ ac \in Context /\ AllApt(ac)
      /\ Mode(ac, issued, inbuf, wire \o ac.obuf, srvsubs, link # "lost")
      /\ issued \in SUBSET Commands
  BY ModeApt DEF IInv, redisAsyncDisconnect, FarTypes
<1>3. /\ c \in Context /\ c.flags = ac.flags \cup {"DISCONNECTING"} /\ c.life = ac.life /\ c.err = ac.err
      /\ c.obuf = ac.obuf /\ c.ev = ac.ev /\ c.log = ac.log
      /\ c.replies = ac.replies /\ c.invalid = ac.invalid /\ c.subs = ac.subs
  BY <1>1, <1>2 DEF Context, Flags
<1>4. /\ AllApt(c) /\ Waits(c) = Waits(ac) /\ LogLive(c.log, issued) /\ c.err = FALSE
      /\ SameCallbacks(ac, c)
  BY <1>2, <1>3 DEF AllApt, Waits, Live, SameCallbacks
<1>5. Moved(ac, c)
  BY <1>2, <1>3, <1>4, MovedNone
<1>6. UNCHANGED <<issued, srvsubs, msgs>>
  BY DEF redisAsyncDisconnect
<1>7. CASE c.replies = <<>>
  <2>1. ac' = AsyncDisconnect(c) /\ Closed
    BY <1>1, <1>7 DEF redisAsyncDisconnect
  <2>2. ac' = AsyncFree(c)
    BY <1>4, <1>7, <2>1, DisconnectIs
  <2>3. Over(c, ac', issued) /\ Moved(c, ac')
    BY <1>2, <1>3, <1>4, <2>2, FreeIs
  <2>4. Ended(c, ac', issued)
    BY <1>2, <1>3, <2>3, OverEnds
  <2>5. Ended(ac, ac', issued)
    BY <1>2, <1>3, <1>5, <2>4, EndsThrough
  <2>6. Gone(ac', issued') /\ ac'.life = "freed" /\ wire' = <<>> /\ inbuf' = <<>> /\ link' = "lost"
    BY <1>6, <2>1, <2>5 DEF Closed, Ended, Gone
  <2>7. FarTypes'
    BY <1>2, <1>6, <2>6 DEF FarTypes
  <2> QED BY <2>5, <2>6, <2>7 DEF IInv, Advances
<1>8. CASE c.replies # <<>>
  <2>1. ac' = c /\ UNCHANGED <<link, wire, inbuf>>
    BY <1>1, <1>8 DEF redisAsyncDisconnect
  <2>2. Live(c, issued)
    BY <1>2, <1>3 DEF Live, Watched
  <2>3. PICK q, up : q = wire \o ac.obuf /\ up = (link # "lost")
    OBVIOUS
  <2>4. Mode(ac, issued, inbuf, q, srvsubs, up) /\ up \in BOOLEAN
    BY <1>2, <2>3
  <2>5. Mode(c, issued, inbuf, q, srvsubs, up)
    BY <1>2, <1>3, <1>4, <2>4, ModeSame
  <2>6. Mode(ac', issued', inbuf', wire' \o ac'.obuf, srvsubs', link' # "lost")
    BY <1>3, <1>6, <2>1, <2>3, <2>5
  <2>7. Live(ac', issued') /\ ac'.life = "live" /\ LinkAgrees'
    BY <1>2, <1>3, <1>6, <2>1, <2>2 DEF Live, LinkAgrees
  <2>8. FarTypes'
    BY <1>2, <1>6, <2>1 DEF FarTypes
  <2>9. Advances(ac, ac', issued)
    BY <1>3, <1>4, <1>5, <2>1, <2>2 DEF Advances
  <2> QED BY <2>6, <2>7, <2>8, <2>9 DEF IInv
<1> QED BY <1>7, <1>8

(* redisAsyncFree keeps the invariant, and advances the link.              *)
LEMMA FreeAdvances ==
  ASSUME IInv, redisAsyncFree
  PROVE  IInv' /\ Advances(ac, ac', issued)
<1>1. PICK c : c = [ac EXCEPT !.flags = @ \cup {"FREEING"}]
  OBVIOUS
<1>2. /\ FarTypes /\ Live(ac, issued) /\ ac \in Context /\ AllApt(ac)
      /\ issued \in SUBSET Commands
  BY ModeApt DEF IInv, redisAsyncFree, FarTypes
<1>3. /\ c \in Context /\ c.flags = ac.flags \cup {"FREEING"} /\ c.log = ac.log
      /\ c.replies = ac.replies /\ c.invalid = ac.invalid /\ c.subs = ac.subs
  BY <1>1, <1>2 DEF Context, Flags
<1>4. AllApt(c) /\ Waits(c) = Waits(ac) /\ LogLive(c.log, issued)
  BY <1>2, <1>3 DEF AllApt, Waits, Live
<1>5. Moved(ac, c)
  BY <1>2, <1>3, <1>4, MovedNone
<1>6. UNCHANGED <<issued, srvsubs, msgs>> /\ Closed /\ ac' = AsyncFree(c)
  BY <1>1 DEF redisAsyncFree
<1>7. Over(c, ac', issued) /\ Moved(c, ac')
  BY <1>2, <1>3, <1>4, <1>6, FreeIs
<1>8. Ended(c, ac', issued)
  BY <1>2, <1>3, <1>7, OverEnds
<1>9. Ended(ac, ac', issued)
  BY <1>2, <1>3, <1>5, <1>8, EndsThrough
<1>10. Gone(ac', issued') /\ ac'.life = "freed" /\ wire' = <<>> /\ inbuf' = <<>> /\ link' = "lost"
  BY <1>6, <1>9 DEF Closed, Ended, Gone
<1>11. FarTypes'
  BY <1>2, <1>6, <1>10 DEF FarTypes
<1> QED BY <1>9, <1>10, <1>11 DEF IInv, Advances

(* When the link breaks, the commands on their way do not matter any more. *)
LEMMA ModeLost ==
  ASSUME NEW I \in SUBSET Commands, NEW c, NEW rs \in Seq(Reply), NEW q, NEW r, NEW v,
         Mode(c, I, rs, q, v, TRUE)
  PROVE  /\ \A n \in 0 .. Len(rs) : Mode(c, I, SubSeq(rs, 1, n), r, v, FALSE)
         /\ rs = <<>> => Mode(c, I, Greeting, r, v, FALSE)
<1>1. CASE MonitorMode(c, I, rs, q, v, TRUE)
  <2>1. PICK m \in Commands :
          /\ I = {m} /\ Monitoring(c, m)
          /\ \A i \in 1 .. Len(rs) : rs[i].k \in {"status", "error"}
    BY <1>1 DEF MonitorMode
  <2>3. ASSUME NEW n \in 0 .. Len(rs) PROVE Mode(c, I, SubSeq(rs, 1, n), r, v, FALSE)
    <3>1. \A i \in 1 .. Len(SubSeq(rs, 1, n)) : SubSeq(rs, 1, n)[i].k \in {"status", "error"}
      BY <2>1, FirstReplies
    <3> QED BY <2>1, <3>1 DEF Mode, MonitorMode
  <2>4. Mode(c, I, Greeting, r, v, FALSE)
    <3>1. \A i \in 1 .. Len(Greeting) : Greeting[i].k \in {"status", "error"}
      BY DEF Greeting
    <3> QED BY <2>1, <3>1 DEF Mode, MonitorMode
  <2> QED BY <2>3, <2>4
<1>2. CASE NormalMode(c, I, rs, q, v, TRUE)
  <2>1. Understood(rs, TRUE) = rs /\ ~Monitors(I) /\ Normal(c, I)
    BY <1>2 DEF Understood, NormalMode
  <2>2. PICK T, U : Follows(T, rs) /\ Matches(c, T[0])
    BY <1>2, <2>1 DEF NormalMode, Pipeline
  <2>3. ASSUME NEW n \in 0 .. Len(rs) PROVE Mode(c, I, SubSeq(rs, 1, n), r, v, FALSE)
    <3>1. PICK A : A = [i \in 0 .. n |-> T[i]]
      OBVIOUS
    <3>2. Follows(A, SubSeq(rs, 1, n))
      BY <2>2, <3>1, FollowsSplit
    <3>3. A[0] = T[0]
      BY <3>1
    <3>4. Pipeline(c, SubSeq(rs, 1, n), r, v, FALSE)
      BY <2>2, <3>2, <3>3 DEF Pipeline
    <3>5. Len(Greeting) = 1
      BY DEF Greeting
    <3>6. Pipeline(c, Understood(SubSeq(rs, 1, n), FALSE), r, v, FALSE)
      BY <3>4, <3>5, PipelineUnderstood
    <3> QED BY <2>1, <3>6 DEF Mode, NormalMode
  <2>4. ASSUME rs = <<>> PROVE Mode(c, I, Greeting, r, v, FALSE)
    <3>1. Understood(Greeting, FALSE) = <<>>
      BY DEF Understood
    <3>2. Pipeline(c, <<>>, r, v, FALSE)
      BY <2>2, <2>4 DEF Pipeline
    <3> QED BY <2>1, <3>1, <3>2 DEF Mode, NormalMode
  <2> QED BY <2>3, <2>4
<1> QED BY <1>1, <1>2 DEF Mode

(* The outcome of connect() keeps the invariant.                           *)
LEMMA ConnectKeeps ==
  ASSUME IInv, Connect
  PROVE  IInv'
<1>1. /\ FarTypes /\ Live(ac, issued) /\ LinkAgrees
      /\ Mode(ac, issued, inbuf, wire \o ac.obuf, srvsubs, TRUE)
      /\ link = "connecting" /\ ac.life = "live" /\ inbuf = <<>> /\ wire = <<>> /\ "CONNECTED" \notin ac.flags
  BY DEF IInv, Connect, LinkAgrees
<1>2. UNCHANGED <<ac, issued, wire, srvsubs, msgs>>
  BY DEF Connect
<1>3. CASE link' \in {"up", "refused"} /\ UNCHANGED inbuf
  <2>1. (link' # "lost") = TRUE
    BY <1>3
  <2>2. Mode(ac', issued', inbuf', wire' \o ac'.obuf, srvsubs', link' # "lost")
    BY <1>1, <1>2, <1>3, <2>1
  <2>3. FarTypes' /\ LinkAgrees' /\ Live(ac', issued') /\ ac'.life = "live"
    BY <1>1, <1>2, <1>3 DEF FarTypes, LinkAgrees
  <2> QED BY <2>2, <2>3 DEF IInv
<1>4. CASE link' = "lost" /\ inbuf' = <<[k |-> "error", id |-> NULL]>>
  <2>1. inbuf' = Greeting /\ inbuf' \in Seq(Reply)
    BY <1>4 DEF Greeting, Reply
  <2>2. PICK q : q = wire \o ac.obuf
    OBVIOUS
  <2>3. Mode(ac, issued, inbuf, q, srvsubs, TRUE)
        /\ issued \in SUBSET Commands /\ inbuf \in Seq(Reply)
    BY <1>1, <2>2 DEF FarTypes
  <2>4. Mode(ac, issued, Greeting, q, srvsubs, FALSE)
    BY <1>1, <2>3, ModeLost
  <2>5. (link' # "lost") = FALSE
    BY <1>4
  <2>6. Mode(ac', issued', inbuf', wire' \o ac'.obuf, srvsubs', link' # "lost")
    BY <1>2, <2>1, <2>2, <2>4, <2>5
  <2>7. FarTypes' /\ LinkAgrees' /\ Live(ac', issued') /\ ac'.life = "live"
    BY <1>1, <1>2, <1>4, <2>1 DEF FarTypes, LinkAgrees
  <2> QED BY <2>6, <2>7 DEF IInv
<1> QED BY <1>3, <1>4 DEF Connect

(* Losing the connection, with the end of the replies, keeps it.           *)
LEMMA LoseKeeps ==
  ASSUME IInv, Lose
  PROVE  IInv'
<1>1. /\ link = "up" /\ link' = "lost" /\ wire' = <<>> /\ UNCHANGED <<ac, issued, srvsubs, msgs>>
  BY DEF Lose
<1>2. /\ FarTypes /\ Live(ac, issued) /\ ac.life = "live" /\ (link # "lost") = TRUE
      /\ Mode(ac, issued, inbuf, wire \o ac.obuf, srvsubs, TRUE)
      /\ issued \in SUBSET Commands /\ inbuf \in Seq(Reply)
  <2>1. (link # "lost") = TRUE /\ ac.life = "live"
    BY <1>1 DEF IInv
  <2>2. FarTypes /\ Live(ac, issued) /\ Mode(ac, issued, inbuf, wire \o ac.obuf, srvsubs, link # "lost")
    BY <2>1 DEF IInv
  <2>3. issued \in SUBSET Commands /\ inbuf \in Seq(Reply)
    BY <2>2 DEF FarTypes
  <2> QED BY <2>1, <2>2, <2>3
<1>3. PICK n \in 0 .. Len(inbuf) : inbuf' = SubSeq(inbuf, 1, n)
  BY DEF Lose
<1>4. PICK q, r : q = wire \o ac.obuf /\ r = <<>> \o ac.obuf
  OBVIOUS
<1>5. Mode(ac, issued, SubSeq(inbuf, 1, n), r, srvsubs, FALSE)
  BY <1>2, <1>4, ModeLost
<1>6. (link' # "lost") = FALSE
  BY <1>1
<1>7. Mode(ac', issued', inbuf', wire' \o ac'.obuf, srvsubs', link' # "lost")
  BY <1>1, <1>3, <1>4, <1>5, <1>6
<1>8. FarTypes'
  BY <1>1, <1>2, <1>3, FirstReplies DEF FarTypes
<1>9. LinkAgrees' /\ Live(ac', issued') /\ ac'.life = "live"
  BY <1>1, <1>2 DEF LinkAgrees
<1> QED BY <1>7, <1>8, <1>9 DEF IInv

-----------------------------------------------------------------------------
(* The steps of the server.                                                *)

(* Following two batches of replies.                                       *)
LEMMA FollowsConcat ==
  ASSUME NEW rs \in Seq(Reply), NEW xs \in Seq(Reply), NEW T, NEW S,
         Follows(T, rs), Follows(S, xs), S[0] = T[Len(rs)]
  PROVE  \E R : /\ Follows(R, rs \o xs)
                /\ R[0] = T[0] /\ R[Len(rs \o xs)] = S[Len(xs)]
<1>1. PICK n \in Nat, k \in Nat : n = Len(rs) /\ k = Len(xs)
  OBVIOUS
<1>2. PICK R : R = [i \in 0 .. (n + k) |-> IF i <= n THEN T[i] ELSE S[i - n]]
  OBVIOUS
<1>3. /\ T \in [0 .. n -> Awaited] /\ \A i \in 1 .. n : ReplyStep(T[i - 1], rs[i], T[i])
      /\ S \in [0 .. k -> Awaited] /\ \A i \in 1 .. k : ReplyStep(S[i - 1], xs[i], S[i])
      /\ S[0] = T[n]
  BY <1>1 DEF Follows
<1>4. /\ Len(rs \o xs) = n + k
      /\ \A i \in 1 .. n : (rs \o xs)[i] = rs[i]
      /\ \A i \in 1 .. k : (rs \o xs)[n + i] = xs[i]
  BY <1>1, ConcatProperties
<1>5. /\ \A i \in 0 .. n : R[i] = T[i]
      /\ \A i \in 0 .. k : R[n + i] = S[i]
  <2>1. ASSUME NEW i \in 0 .. k PROVE R[n + i] = S[i]
    <3>1. CASE i = 0
      BY <1>2, <1>3, <3>1
    <3>2. CASE i # 0
      <4>1. n + i \in 0 .. (n + k) /\ ~(n + i <= n) /\ (n + i) - n = i
        BY <3>2
      <4> QED BY <1>2, <4>1
    <3> QED BY <3>1, <3>2
  <2>2. ASSUME NEW i \in 0 .. n PROVE R[i] = T[i]
    <3>1. i \in 0 .. (n + k) /\ i <= n
      OBVIOUS
    <3> QED BY <1>2, <3>1
  <2> QED BY <2>1, <2>2
<1>6. R \in [0 .. (n + k) -> Awaited]
  <2>1. ASSUME NEW i \in 0 .. (n + k) PROVE (IF i <= n THEN T[i] ELSE S[i - n]) \in Awaited
    BY <1>3
  <2> QED BY <1>2, <2>1
<1>7. ASSUME NEW i \in 1 .. (n + k) PROVE ReplyStep(R[i - 1], (rs \o xs)[i], R[i])
  <2>1. CASE i <= n
    <3>1. i \in 1 .. n /\ i - 1 \in 0 .. n /\ i \in 0 .. n
      BY <2>1
    <3> QED BY <1>3, <1>4, <1>5, <3>1
  <2>2. CASE ~(i <= n)
    <3>1. PICK j \in 1 .. k : i = n + j
      <4>1. i - n \in 1 .. k /\ i = n + (i - n)
        BY <2>2
      <4> QED BY <4>1
    <3>2. j \in 0 .. k /\ j - 1 \in 0 .. k /\ i - 1 = n + (j - 1)
      BY <3>1
    <3>3. R[i] = S[j] /\ R[i - 1] = S[j - 1] /\ (rs \o xs)[i] = xs[j]
      BY <1>4, <1>5, <3>1, <3>2
    <3> QED BY <1>3, <3>3
  <2> QED BY <2>1, <2>2
<1>8. Follows(R, rs \o xs)
  BY <1>4, <1>6, <1>7 DEF Follows
<1>9. R[0] = T[0] /\ R[n + k] = S[k]
  BY <1>5
<1> QED BY <1>1, <1>4, <1>8, <1>9

(* What the server sends in answer to m.                                   *)
ServerSays(m, subs) ==
  IF m.kind \in {"subscribe", "unsubscribe"} THEN Confirmations(m, subs)
  ELSE IF subs # {} THEN <<[k |-> "error", id |-> m.id]>>
  ELSE <<[k |-> "status", id |-> m.id]>>

(* What the server is subscribed to once it ran m.                         *)
ServerKeeps(m, subs) ==
  CASE m.kind = "subscribe"   -> subs \cup ToSet(m.chans)
    [] m.kind = "unsubscribe" -> subs \ ToSet(m.chans)
    [] OTHER -> subs

(* The first j channels of a command.                                      *)
FirstChannels(m, j) == {m.chans[l] : l \in 1 .. j}

(* The channels of a command that names each once.                         *)
LEMMA ChannelsOf ==
  ASSUME NEW m \in Commands, IsInjective(m.chans)
  PROVE  /\ m.chans \in Seq(Channels) /\ Len(m.chans) \in Nat
         /\ FirstChannels(m, 0) = {} /\ FirstChannels(m, Len(m.chans)) = ToSet(m.chans)
         /\ ToSet(m.chans) \subseteq Channels
         /\ \A j \in 1 .. Len(m.chans) :
              /\ m.chans[j] \in Channels /\ m.chans[j] \in ToSet(m.chans)
              /\ m.chans[j] \notin FirstChannels(m, j - 1)
              /\ FirstChannels(m, j) = FirstChannels(m, j - 1) \cup {m.chans[j]}
         /\ \A j \in 0 .. Len(m.chans) : FirstChannels(m, j) \subseteq ToSet(m.chans)
<1>1. m.chans \in Seq(Channels)
  BY CommandsAssumption
<1>2. PICK s \in Seq(Channels) : s = m.chans
  BY <1>1
<1>3. DOMAIN s = 1 .. Len(s) /\ Len(s) \in Nat /\ \A j \in 1 .. Len(s) : s[j] \in Channels
  OBVIOUS
<1>4. \A i, j \in 1 .. Len(s) : s[i] = s[j] => i = j
  BY <1>2, <1>3 DEF IsInjective
<1>5. ToSet(s) = {s[l] : l \in 1 .. Len(s)}
  BY <1>3 DEF ToSet
<1>6. \A j : FirstChannels(m, j) = {s[l] : l \in 1 .. j}
  BY <1>2 DEF FirstChannels
<1>7. ASSUME NEW j \in 1 .. Len(s)
      PROVE  /\ s[j] \in Channels /\ s[j] \in ToSet(s)
             /\ s[j] \notin FirstChannels(m, j - 1)
             /\ FirstChannels(m, j) = FirstChannels(m, j - 1) \cup {s[j]}
  <2>1. \A l \in 1 .. (j - 1) : l \in 1 .. Len(s) /\ l # j /\ l \in 1 .. j
    BY <1>3
  <2>2. s[j] \notin FirstChannels(m, j - 1)
    BY <1>4, <1>6, <2>1
  <2>3. \A l \in 1 .. j : l \in 1 .. (j - 1) \/ l = j
    BY <1>3
  <2>4. FirstChannels(m, j) = FirstChannels(m, j - 1) \cup {s[j]}
    <3>1. j \in 1 .. j
      BY <1>3
    <3> QED BY <1>6, <2>1, <2>3, <3>1
  <2> QED BY <1>3, <1>5, <2>2, <2>4
<1>8. \A j \in 0 .. Len(s) : \A l \in 1 .. j : l \in 1 .. Len(s)
  BY <1>3
<1>9. \A j \in 0 .. Len(s) : FirstChannels(m, j) \subseteq ToSet(s)
  BY <1>5, <1>6, <1>8
<1>10. FirstChannels(m, 0) = {} /\ FirstChannels(m, Len(s)) = ToSet(s) /\ ToSet(s) \subseteq Channels
  BY <1>3, <1>5, <1>6
<1> QED BY <1>2, <1>3, <1>7, <1>9, <1>10

(* The confirmations of a command, one for each channel.                   *)
LEMMA ConfirmationsAre ==
  ASSUME NEW m \in Commands, m.kind \in {"subscribe", "unsubscribe"}, IsInjective(m.chans),
         NEW v \in SUBSET Channels, IsFiniteSet(v)
  PROVE  /\ Confirmations(m, v) \in Seq(Reply) /\ Len(Confirmations(m, v)) = Len(m.chans)
         /\ \A j \in 1 .. Len(m.chans) :
              /\ Confirmations(m, v)[j].k = m.kind
              /\ Confirmations(m, v)[j].ch = m.chans[j]
              /\ m.kind = "unsubscribe" /\ v \ FirstChannels(m, j) = {} =>
                   Confirmations(m, v)[j].n = 0
<1> DEFINE now(j) == IF m.kind = "subscribe" THEN v \cup FirstChannels(m, j) ELSE v \ FirstChannels(m, j)
           conf(j) == [k |-> m.kind, ch |-> m.chans[j], n |-> Cardinality(now(j))]
<1>1. Len(m.chans) \in Nat /\ \A j \in 1 .. Len(m.chans) : m.chans[j] \in Channels
  BY ChannelsOf
<1>2. Confirmations(m, v) = [j \in 1 .. Len(m.chans) |-> conf(j)]
  BY DEF Confirmations, FirstChannels
<1>3. \A j \in 1 .. Len(m.chans) : now(j) \in SUBSET Channels /\ IsFiniteSet(now(j))
  <2> SUFFICES ASSUME NEW j \in 1 .. Len(m.chans)
               PROVE  IsFiniteSet(v \cup FirstChannels(m, j)) /\ IsFiniteSet(v \ FirstChannels(m, j))
                      /\ FirstChannels(m, j) \subseteq Channels
    OBVIOUS
  <2>1. IsFiniteSet(1 .. j)
    BY FS_Interval
  <2>2. PICK s \in Seq(Channels) : s = m.chans
    BY ChannelsOf
  <2>3. FirstChannels(m, j) = {s[l] : l \in 1 .. j}
    BY <2>2 DEF FirstChannels
  <2>4. PICK f : f = [l \in 1 .. j |-> s[l]]
    OBVIOUS
  <2>5. \A x \in FirstChannels(m, j) : \E l \in 1 .. j : f[l] = x
    BY <2>3, <2>4
  <2>6. FirstChannels(m, j) \subseteq Channels
    BY ChannelsOf
  <2>7. f \in Surjection(1 .. j, FirstChannels(m, j))
    BY <2>3, <2>4 DEF Surjection
  <2>8. IsFiniteSet(FirstChannels(m, j))
    BY <2>1, <2>7, FS_Surjection
  <2> QED BY <2>6, <2>8, FS_Union, FS_Difference
<1>4. \A j \in 1 .. Len(m.chans) : Cardinality(now(j)) \in Nat
  BY <1>3, FS_CardinalityType
<1>5. \A j \in 1 .. Len(m.chans) : conf(j) \in Reply
  <2> HIDE DEF now
  <2> QED BY <1>1, <1>4 DEF Reply
<1>6. \A j \in 1 .. Len(m.chans) : m.kind = "unsubscribe" /\ v \ FirstChannels(m, j) = {} => Cardinality(now(j)) = 0
  BY FS_EmptySet
<1> HIDE DEF now
<1>7. \A j \in 1 .. Len(m.chans) : conf(j).k = m.kind /\ conf(j).ch = m.chans[j] /\ conf(j).n = Cardinality(now(j))
  OBVIOUS
<1> HIDE DEF conf
<1> QED BY <1>1, <1>2, <1>5, <1>6, <1>7

(* The server's answer to a plain command takes what is expected of the    *)
(* replies where CommandStep takes it at once.                             *)
LEMMA ServePlain ==
  ASSUME NEW m \in Commands, m.kind = "plain", NEW a \in Awaited, NEW b \in Awaited,
         CommandStep(a, m, b)
  PROVE  /\ ServerSays(m, a.v) \in Seq(Reply)
         /\ \E S : /\ Follows(S, ServerSays(m, a.v)) /\ S[0] = a
                   /\ S[Len(ServerSays(m, a.v))] = b
<1>1. PICK x : x = [k |-> IF a.v # {} THEN "error" ELSE "status", id |-> m.id]
  OBVIOUS
<1>2. x \in Reply /\ x.id = m.id /\ x.k = (IF a.v # {} THEN "error" ELSE "status")
  BY <1>1 DEF Reply, Ids
<1>3. ServerSays(m, a.v) = <<x>>
  BY <1>1 DEF ServerSays
<1>4. ReplyStep(a, x, b)
  BY <1>2 DEF CommandStep, ReplyStep
<1>5. PICK S : S = [i \in 0 .. 1 |-> IF i = 0 THEN a ELSE b]
  OBVIOUS
<1>6. S[0] = a /\ S[1] = b /\ S \in [0 .. 1 -> Awaited]
  BY <1>5
<1>7. Len(<<x>>) = 1 /\ <<x>>[1] = x /\ <<x>> \in Seq(Reply)
  BY <1>2
<1>8. \A i \in 1 .. 1 : ReplyStep(S[i - 1], <<x>>[i], S[i])
  <2>1. \A i \in 1 .. 1 : i = 1 /\ i - 1 = 0
    OBVIOUS
  <2> QED BY <1>4, <1>6, <1>7, <2>1
<1>9. Follows(S, <<x>>)
  BY <1>6, <1>7, <1>8 DEF Follows
<1> QED BY <1>3, <1>6, <1>7, <1>9

(* Expectations with the same fields are the same.                         *)
LEMMA SameExpected ==
  ASSUME NEW a \in Expected, NEW b \in Expected, a.r = b.r, a.i = b.i, a.v = b.v, a.p = b.p
  PROVE  a = b
BY DEF Expected

(* The same for the confirmations of SUBSCRIBE.                            *)
LEMMA ServeSubscribe ==
  ASSUME NEW m \in Commands, m.kind = "subscribe", NEW a \in Awaited, NEW b \in Awaited,
         CommandStep(a, m, b), IsFiniteSet(a.v)
  PROVE  /\ ServerSays(m, a.v) \in Seq(Reply)
         /\ \E S : /\ Follows(S, ServerSays(m, a.v)) /\ S[0] = a
                   /\ S[Len(ServerSays(m, a.v))] = b
<1>1. /\ a.r = <<>> /\ IsInjective(m.chans) /\ \A ch \in ToSet(m.chans) : a.p[ch] > 0
      /\ b.r = a.r /\ b.i = a.i /\ b.v = a.v \cup ToSet(m.chans)
      /\ b.p = [ch \in Channels |-> IF ch \in ToSet(m.chans) THEN a.p[ch] - 1 ELSE a.p[ch]]
  BY DEF CommandStep
<1>2. /\ a \in Expected /\ b \in Expected /\ a.v \in SUBSET Channels /\ a.p \in [Channels -> Nat]
      /\ a.r \in Seq(Callback) /\ a.i \in Seq(Callback)
  BY DEF Awaited, Expected
<1>3. PICK rs, n : rs = Confirmations(m, a.v) /\ n = Len(m.chans)
  OBVIOUS
<1>4. /\ rs \in Seq(Reply) /\ Len(rs) = n
      /\ \A j \in 1 .. n : rs[j].k = "subscribe" /\ rs[j].ch = m.chans[j]
  BY <1>1, <1>2, <1>3, ConfirmationsAre
<1>5. ServerSays(m, a.v) = rs
  BY <1>3 DEF ServerSays
<1>6. /\ n \in Nat /\ FirstChannels(m, 0) = {} /\ FirstChannels(m, n) = ToSet(m.chans)
      /\ ToSet(m.chans) \subseteq Channels
      /\ \A j \in 1 .. n :
              /\ m.chans[j] \in Channels /\ m.chans[j] \in ToSet(m.chans)
              /\ m.chans[j] \notin FirstChannels(m, j - 1)
              /\ FirstChannels(m, j) = FirstChannels(m, j - 1) \cup {m.chans[j]}
      /\ \A j \in 0 .. n : FirstChannels(m, j) \subseteq ToSet(m.chans)
  BY <1>1, <1>3, ChannelsOf
<1> DEFINE pend(j) == [ch \in Channels |-> IF ch \in FirstChannels(m, j) THEN a.p[ch] - 1 ELSE a.p[ch]]
           st(j) == [r |-> a.r, i |-> a.i, v |-> a.v \cup FirstChannels(m, j), p |-> pend(j)]
<1>7. \A j \in 0 .. n : pend(j) \in [Channels -> Nat] /\ FirstChannels(m, j) \subseteq Channels
  BY <1>1, <1>2, <1>6
<1>8. \A j \in 0 .. n : /\ st(j) \in Expected /\ st(j).r = a.r /\ st(j).i = a.i
                        /\ st(j).v = a.v \cup FirstChannels(m, j) /\ st(j).p = pend(j)
  <2> HIDE DEF pend
  <2> QED BY <1>2, <1>7 DEF Expected
<1> HIDE DEF st
<1>9. ASSUME NEW j \in 0 .. n PROVE st(j) \in Awaited
  <2>1. Known(a) \subseteq Known(st(j))
    BY <1>8 DEF Known
  <2> QED BY <1>1, <1>8, <2>1 DEF Awaited
<1>10. ASSUME NEW j \in 1 .. n PROVE ReplyStep(st(j - 1), rs[j], st(j))
  <2>1. j \in 0 .. n /\ j - 1 \in 0 .. n
    BY <1>6
  <2>2. PICK ch : ch = m.chans[j]
    OBVIOUS
  <2>3. /\ rs[j].k = "subscribe" /\ rs[j].ch = ch /\ ch \in Channels
        /\ ch \notin FirstChannels(m, j - 1) /\ a.p[ch] > 0
        /\ FirstChannels(m, j) = FirstChannels(m, j - 1) \cup {ch}
    BY <1>1, <1>4, <1>6, <2>2
  <2>4. st(j - 1).p[ch] = a.p[ch]
    BY <1>8, <2>1, <2>3
  <2>5. st(j).p = [st(j - 1).p EXCEPT ![ch] = @ - 1]
    <3>1. st(j).p = pend(j) /\ st(j - 1).p = pend(j - 1)
      BY <1>8, <2>1
    <3>2. PICK B, C : B = FirstChannels(m, j - 1) /\ C = FirstChannels(m, j)
      OBVIOUS
    <3>3. C = B \cup {ch} /\ ch \notin B /\ ch \in Channels
      BY <2>3, <3>2
    <3>4. PICK f, g : /\ f = [y \in Channels |-> IF y \in B THEN a.p[y] - 1 ELSE a.p[y]]
                      /\ g = [y \in Channels |-> IF y \in C THEN a.p[y] - 1 ELSE a.p[y]]
      OBVIOUS
    <3>5. g = [f EXCEPT ![ch] = @ - 1]
      BY <3>3, <3>4
    <3>6. pend(j) = g /\ pend(j - 1) = f
      BY <3>2, <3>4
    <3> QED BY <3>1, <3>5, <3>6
  <2> QED BY <1>1, <1>8, <2>1, <2>3, <2>4, <2>5 DEF ReplyStep
<1>11. st(0) = a
  <2>1. pend(0) = a.p
    BY <1>2, <1>6
  <2>2. 0 \in 0 .. n
    BY <1>6
  <2>3. st(0) \in Expected /\ st(0).r = a.r /\ st(0).i = a.i /\ st(0).v = a.v /\ st(0).p = a.p
    <3>1. st(0) \in Expected /\ st(0).r = a.r /\ st(0).i = a.i /\ st(0).p = pend(0)
          /\ st(0).v = a.v \cup FirstChannels(m, 0)
      BY <1>8, <2>2
    <3>2. a.v \cup {} = a.v
      OBVIOUS
    <3> HIDE DEF pend
    <3> QED BY <1>6, <2>1, <3>1, <3>2
  <2> QED BY <1>2, <2>3, SameExpected
<1>12. st(n) = b
  <2>1. pend(n) = b.p
    BY <1>1, <1>6
  <2>2. n \in 0 .. n
    BY <1>6
  <2>3. st(n) \in Expected /\ st(n).r = b.r /\ st(n).i = b.i /\ st(n).v = b.v /\ st(n).p = b.p
    BY <1>1, <1>6, <1>8, <2>1, <2>2
  <2> QED BY <1>2, <2>3, SameExpected
<1>13. PICK S : S = [j \in 0 .. n |-> st(j)]
  OBVIOUS
<1>14. Follows(S, rs)
  <2>1. S \in [0 .. n -> Awaited]
    BY <1>9, <1>13
  <2>2. ASSUME NEW j \in 1 .. n PROVE ReplyStep(S[j - 1], rs[j], S[j])
    <3>1. j \in 0 .. n /\ j - 1 \in 0 .. n
      BY <1>6
    <3> QED BY <1>10, <1>13, <3>1
  <2> QED BY <1>4, <2>1, <2>2 DEF Follows
<1>15. S[0] = a /\ S[n] = b
  BY <1>6, <1>11, <1>12, <1>13
<1> QED BY <1>4, <1>5, <1>14, <1>15

(* The same for the confirmations of UNSUBSCRIBE; the last one of all has  *)
(* the count zero.                                                         *)
LEMMA ServeUnsubscribe ==
  ASSUME NEW m \in Commands, m.kind = "unsubscribe", NEW a \in Awaited, NEW b \in Awaited,
         CommandStep(a, m, b), IsFiniteSet(a.v)
  PROVE  /\ ServerSays(m, a.v) \in Seq(Reply)
         /\ \E S : /\ Follows(S, ServerSays(m, a.v)) /\ S[0] = a
                   /\ S[Len(ServerSays(m, a.v))] = b
<1>1. /\ a.r = <<>> /\ a.i = <<>> /\ IsInjective(m.chans) /\ ToSet(m.chans) \subseteq a.v
      /\ b.r = a.r /\ b.i = a.i /\ b.v = a.v \ ToSet(m.chans) /\ b.p = a.p
  BY DEF CommandStep
<1>2. /\ a \in Expected /\ b \in Expected /\ a.v \in SUBSET Channels /\ a.p \in [Channels -> Nat]
      /\ a.r \in Seq(Callback) /\ a.i \in Seq(Callback)
  BY DEF Awaited, Expected
<1>3. PICK rs, n : rs = Confirmations(m, a.v) /\ n = Len(m.chans)
  OBVIOUS
<1>4. /\ rs \in Seq(Reply) /\ Len(rs) = n
      /\ \A j \in 1 .. n : /\ rs[j].k = "unsubscribe" /\ rs[j].ch = m.chans[j]
                           /\ a.v \ FirstChannels(m, j) = {} => rs[j].n = 0
  BY <1>1, <1>2, <1>3, ConfirmationsAre
<1>5. ServerSays(m, a.v) = rs
  BY <1>3 DEF ServerSays
<1>6. /\ n \in Nat /\ FirstChannels(m, 0) = {} /\ FirstChannels(m, n) = ToSet(m.chans)
      /\ \A j \in 1 .. n :
              /\ m.chans[j] \in Channels /\ m.chans[j] \in ToSet(m.chans)
              /\ m.chans[j] \notin FirstChannels(m, j - 1)
              /\ FirstChannels(m, j) = FirstChannels(m, j - 1) \cup {m.chans[j]}
  BY <1>1, <1>3, ChannelsOf
<1> DEFINE st(j) == [r |-> a.r, i |-> a.i, v |-> a.v \ FirstChannels(m, j), p |-> a.p]
<1>8. \A j \in 0 .. n : /\ st(j) \in Expected /\ st(j).r = a.r /\ st(j).i = a.i
                        /\ st(j).v = a.v \ FirstChannels(m, j) /\ st(j).p = a.p
  BY <1>2 DEF Expected
<1> HIDE DEF st
<1>9. \A j \in 0 .. n : st(j) \in Awaited
  BY <1>1, <1>8 DEF Awaited
<1>10. ASSUME NEW j \in 1 .. n PROVE ReplyStep(st(j - 1), rs[j], st(j))
  <2>1. j \in 0 .. n /\ j - 1 \in 0 .. n
    BY <1>6
  <2>2. PICK ch : ch = m.chans[j]
    OBVIOUS
  <2>3. /\ rs[j].k = "unsubscribe" /\ rs[j].ch = ch /\ ch \in a.v
        /\ ch \notin FirstChannels(m, j - 1) /\ (a.v \ FirstChannels(m, j) = {} => rs[j].n = 0)
        /\ FirstChannels(m, j) = FirstChannels(m, j - 1) \cup {ch}
    BY <1>1, <1>4, <1>6, <2>2
  <2> QED BY <1>1, <1>8, <2>1, <2>3 DEF ReplyStep
<1>11. st(0) = a
  <2>2. 0 \in 0 .. n
    BY <1>6
  <2>3. st(0) \in Expected /\ st(0).r = a.r /\ st(0).i = a.i /\ st(0).v = a.v /\ st(0).p = a.p
    <3>1. st(0) \in Expected /\ st(0).r = a.r /\ st(0).i = a.i /\ st(0).p = a.p
          /\ st(0).v = a.v \ FirstChannels(m, 0)
      BY <1>8, <2>2
    <3>2. a.v \ {} = a.v
      OBVIOUS
    <3> QED BY <1>6, <3>1, <3>2
  <2> QED BY <1>2, <2>3, SameExpected
<1>12. st(n) = b
  <2>2. n \in 0 .. n
    BY <1>6
  <2>3. st(n) \in Expected /\ st(n).r = b.r /\ st(n).i = b.i /\ st(n).v = b.v /\ st(n).p = b.p
    BY <1>1, <1>6, <1>8, <2>2
  <2> QED BY <1>2, <2>3, SameExpected
<1>13. PICK S : S = [j \in 0 .. n |-> st(j)]
  OBVIOUS
<1>14. Follows(S, rs)
  <2>1. S \in [0 .. n -> Awaited]
    BY <1>9, <1>13
  <2>2. ASSUME NEW j \in 1 .. n PROVE ReplyStep(S[j - 1], rs[j], S[j])
    <3>1. j \in 0 .. n /\ j - 1 \in 0 .. n
      BY <1>6
    <3> QED BY <1>10, <1>13, <3>1
  <2> QED BY <1>4, <2>1, <2>2 DEF Follows
<1>15. S[0] = a /\ S[n] = b
  BY <1>6, <1>11, <1>12, <1>13
<1> QED BY <1>4, <1>5, <1>14, <1>15

(* The same for any command.                                               *)
LEMMA ServeSteps ==
  ASSUME NEW m \in Commands, NEW a \in Awaited, NEW b \in Awaited,
         CommandStep(a, m, b), IsFiniteSet(a.v)
  PROVE  /\ ServerSays(m, a.v) \in Seq(Reply)
         /\ \E S : /\ Follows(S, ServerSays(m, a.v)) /\ S[0] = a
                   /\ S[Len(ServerSays(m, a.v))] = b
         /\ b.v = ServerKeeps(m, a.v)
<1>1. m.kind \in {"plain", "subscribe", "unsubscribe"}
  BY DEF CommandStep
<1>2. b.v = ServerKeeps(m, a.v)
  BY DEF CommandStep, ServerKeeps
<1> QED BY <1>1, <1>2, ServePlain, ServeSubscribe, ServeUnsubscribe

(* The first command of the wire.                                          *)
LEMMA HeadOfQueue ==
  ASSUME NEW S, NEW b \in Seq(S), NEW o \in Seq(S), b # <<>>, NEW q, q = b \o o
  PROVE  /\ q \in Seq(S) /\ q # <<>> /\ q[1] = Head(b) /\ Head(b) \in S
         /\ Tail(b) \o o = Tail(q) /\ Tail(b) \in Seq(S) /\ Tail(q) \in Seq(S)
         /\ Len(q) \in Nat /\ Len(q) > 0 /\ Len(Tail(q)) = Len(q) - 1
         /\ \A j \in 1 .. (Len(q) - 1) : Tail(q)[j] = q[j + 1]
<1>1. /\ Len(b) \in Nat /\ Len(b) > 0 /\ Len(o) \in Nat
      /\ q \in Seq(S) /\ Len(q) = Len(b) + Len(o)
      /\ \A i \in 1 .. Len(b) : q[i] = b[i]
      /\ \A i \in 1 .. Len(o) : q[Len(b) + i] = o[i]
  BY ConcatProperties
<1>2. /\ Tail(b) \in Seq(S) /\ Len(Tail(b)) = Len(b) - 1
      /\ \A i \in 1 .. (Len(b) - 1) : Tail(b)[i] = b[i + 1]
      /\ Head(b) = b[1] /\ Head(b) \in S
  BY <1>1
<1>3. /\ Tail(q) \in Seq(S) /\ Len(Tail(q)) = Len(q) - 1 /\ q # <<>>
      /\ \A i \in 1 .. (Len(q) - 1) : Tail(q)[i] = q[i + 1]
  BY <1>1
<1>4. PICK u : u = Tail(b)
  OBVIOUS
<1>5. /\ u \o o \in Seq(S) /\ Len(u \o o) = Len(u) + Len(o)
      /\ \A i \in 1 .. Len(u) : (u \o o)[i] = u[i]
      /\ \A i \in 1 .. Len(o) : (u \o o)[Len(u) + i] = o[i]
  BY <1>1, <1>2, <1>4, ConcatProperties
<1>6. ASSUME NEW i \in 1 .. (Len(q) - 1) PROVE (u \o o)[i] = Tail(q)[i]
  <2>1. CASE i <= Len(b) - 1
    BY <1>1, <1>2, <1>3, <1>4, <1>5, <2>1
  <2>2. CASE ~(i <= Len(b) - 1)
    <3>1. PICK j \in 1 .. Len(o) : i = (Len(b) - 1) + j
      <4>1. i - (Len(b) - 1) \in 1 .. Len(o) /\ i = (Len(b) - 1) + (i - (Len(b) - 1))
        BY <1>1, <2>2
      <4> QED BY <4>1
    <3>2. Len(u) = Len(b) - 1 /\ i + 1 = Len(b) + j
      BY <1>1, <1>2, <1>4, <3>1
    <3>3. (u \o o)[i] = o[j] /\ q[i + 1] = o[j]
      BY <1>1, <1>5, <3>1, <3>2
    <3> QED BY <1>3, <3>3
  <2> QED BY <2>1, <2>2
<1>7. u \o o = Tail(q)
  <2>1. Len(u \o o) = Len(Tail(q))
    BY <1>1, <1>2, <1>3, <1>4, <1>5
  <2> QED BY <1>3, <1>5, <1>6, <2>1, SeqEqual
<1>8. q[1] = Head(b)
  BY <1>1, <1>2
<1> QED BY <1>1, <1>2, <1>3, <1>4, <1>7, <1>8

(* The server runs a command: one step of the commands becomes the steps   *)
(* of its replies, and the pipeline stays.                                 *)
LEMMA ServeNormal ==
  ASSUME NEW I \in SUBSET Commands, NEW c, NEW rs \in Seq(Reply), NEW v, IsFiniteSet(v),
         NEW q \in Seq(Commands), q # <<>>, NEW m, m = q[1],
         NormalMode(c, I, rs, q, v, TRUE)
  PROVE  /\ ServerSays(m, v) \in Seq(Reply) /\ ServerKeeps(m, v) \in SUBSET Channels
         /\ NormalMode(c, I, rs \o ServerSays(m, v), Tail(q), ServerKeeps(m, v), TRUE)
<1>1. Understood(rs, TRUE) = rs /\ ~Monitors(I) /\ Normal(c, I)
  BY DEF Understood, NormalMode
<1>2. PICK T, U :
        /\ Follows(T, rs) /\ Matches(c, T[0])
        /\ Executes(U, q) /\ U[0] = T[Len(rs)] /\ U[0].v = v /\ Drained(U[Len(q)])
  BY <1>1 DEF NormalMode, Pipeline
<1>3. PICK n \in Nat : n = Len(q) /\ n > 0
  OBVIOUS
<1>4. /\ U \in [0 .. n -> Awaited] /\ \A j \in 1 .. n : CommandStep(U[j - 1], q[j], U[j])
  BY <1>2, <1>3 DEF Executes
<1>5. PICK a, b : a = U[0] /\ b = U[1]
  OBVIOUS
<1>6. a \in Awaited /\ b \in Awaited /\ CommandStep(a, m, b) /\ a.v = v /\ m \in Commands
  <2>1. 0 \in 0 .. n /\ 1 \in 0 .. n /\ 1 \in 1 .. n /\ 1 - 1 = 0
    BY <1>3
  <2>2. q[1] \in Commands
    BY <1>3
  <2> QED BY <1>2, <1>4, <1>5, <2>1, <2>2
<1>7. PICK xs : xs = ServerSays(m, v)
  OBVIOUS
<1>8. /\ xs \in Seq(Reply) /\ b.v = ServerKeeps(m, v)
      /\ \E S : Follows(S, xs) /\ S[0] = a /\ S[Len(xs)] = b
  <2>1. IsFiniteSet(a.v)
    BY <1>6
  <2>2. /\ ServerSays(m, a.v) \in Seq(Reply)
        /\ \E S : /\ Follows(S, ServerSays(m, a.v)) /\ S[0] = a
                  /\ S[Len(ServerSays(m, a.v))] = b
        /\ b.v = ServerKeeps(m, a.v)
    BY <1>6, <2>1, ServeSteps
  <2> QED BY <1>6, <1>7, <2>2
<1>9. PICK S : Follows(S, xs) /\ S[0] = a /\ S[Len(xs)] = b
  BY <1>8
<1>10. PICK R : Follows(R, rs \o xs) /\ R[0] = T[0] /\ R[Len(rs \o xs)] = b
  BY <1>2, <1>5, <1>8, <1>9, FollowsConcat
<1>11. PICK W : W = [j \in 0 .. (n - 1) |-> U[j + 1]]
  OBVIOUS
<1>12. /\ Tail(q) \in Seq(Commands) /\ Len(Tail(q)) = n - 1
       /\ \A j \in 1 .. (n - 1) : Tail(q)[j] = q[j + 1]
  BY <1>3
<1>13. Executes(W, Tail(q))
  <2>1. W \in [0 .. (n - 1) -> Awaited]
    BY <1>3, <1>4, <1>11
  <2>2. ASSUME NEW j \in 1 .. (n - 1) PROVE CommandStep(W[j - 1], Tail(q)[j], W[j])
    <3>1. j + 1 \in 1 .. n /\ (j + 1) - 1 = j
      BY <1>3
    <3>2. W[j - 1] = U[j] /\ W[j] = U[j + 1]
      BY <1>3, <1>11
    <3>3. CommandStep(U[(j + 1) - 1], q[j + 1], U[j + 1])
      BY <1>4, <3>1
    <3> QED BY <1>12, <3>1, <3>2, <3>3
  <2> QED BY <1>12, <2>1, <2>2 DEF Executes
<1>14. W[0] = b /\ W[Len(Tail(q))] = U[n]
  BY <1>3, <1>5, <1>11, <1>12
<1>15. Drained(W[Len(Tail(q))])
  BY <1>2, <1>3, <1>14
<1>16. Pipeline(c, rs \o xs, Tail(q), ServerKeeps(m, v), TRUE)
  BY <1>2, <1>8, <1>10, <1>13, <1>14, <1>15 DEF Pipeline
<1>17. Understood(rs \o xs, TRUE) = rs \o xs
  BY DEF Understood
<1>18. b.v \in SUBSET Channels
  BY <1>6 DEF Awaited, Expected
<1> QED BY <1>1, <1>7, <1>8, <1>16, <1>17, <1>18 DEF NormalMode

(* The server runs MONITOR.                                                *)
LEMMA ServeMonitor ==
  ASSUME NEW I \in SUBSET Commands, NEW c, NEW rs \in Seq(Reply), NEW v,
         NEW q \in Seq(Commands), q # <<>>, NEW m, m = q[1],
         MonitorMode(c, I, rs, q, v, TRUE)
  PROVE  /\ ServerSays(m, v) \in Seq(Reply) /\ ServerKeeps(m, v) \in SUBSET Channels
         /\ MonitorMode(c, I, rs \o ServerSays(m, v), Tail(q), ServerKeeps(m, v), TRUE)
<1>1. PICK k \in Commands :
        /\ I = {k} /\ Monitoring(c, k)
        /\ \A i \in 1 .. Len(rs) : rs[i].k \in {"status", "error"}
        /\ q \in Seq({k}) /\ v = {}
  BY DEF MonitorMode
<1>2. m = k /\ Tail(q) \in Seq({k})
  BY <1>1
<1>3. k.kind = "monitor"
  BY <1>1 DEF Monitoring
<1>4. PICK x : x = [k |-> "status", id |-> k.id]
  OBVIOUS
<1>5. x \in Reply /\ x.k = "status" /\ ServerSays(m, v) = <<x>> /\ ServerKeeps(m, v) = v
  <2>1. k.id \in Ids
    BY DEF Ids
  <2>2. m.kind # "subscribe" /\ m.kind # "unsubscribe"
    BY <1>2, <1>3
  <2>3. x \in Reply /\ x.k = "status"
    BY <1>4, <2>1 DEF Reply
  <2>4. ServerSays(m, v) = <<x>> /\ ServerKeeps(m, v) = v
    BY <1>1, <1>2, <1>4, <2>2 DEF ServerSays, ServerKeeps
  <2> QED BY <2>3, <2>4
<1>6. \A i \in 1 .. Len(rs \o <<x>>) : (rs \o <<x>>)[i].k \in {"status", "error"}
  BY <1>1, <1>5
<1>7. <<x>> \in Seq(Reply)
  BY <1>5
<1> QED BY <1>1, <1>2, <1>5, <1>6, <1>7 DEF MonitorMode

(* Serve keeps the invariant.                                              *)
LEMMA ServeKeeps ==
  ASSUME IInv, Serve
  PROVE  IInv'
<1>1. /\ link = "up" /\ wire # <<>> /\ wire' = Tail(wire)
      /\ inbuf' = inbuf \o ServerSays(Head(wire), srvsubs)
      /\ srvsubs' = ServerKeeps(Head(wire), srvsubs)
      /\ UNCHANGED <<ac, issued, link, msgs>>
  BY Zenon DEF Serve, ServerSays, ServerKeeps
<1>2. ac.life = "live"
  BY <1>1 DEF IInv
<1>3. PICK q : q = wire \o ac.obuf
  OBVIOUS
<1>4. /\ FarTypes /\ Live(ac, issued) /\ (link # "lost") = TRUE
      /\ Mode(ac, issued, inbuf, q, srvsubs, TRUE)
      /\ issued \in SUBSET Commands /\ inbuf \in Seq(Reply) /\ wire \in Seq(Commands)
      /\ ac.obuf \in Seq(Commands) /\ IsFiniteSet(srvsubs)
  <2>1. FarTypes /\ Live(ac, issued) /\ Mode(ac, issued, inbuf, wire \o ac.obuf, srvsubs, link # "lost")
    BY <1>2 DEF IInv
  <2>2. (link # "lost") = TRUE
    BY <1>1
  <2>3. Mode(ac, issued, inbuf, q, srvsubs, TRUE)
    BY <1>3, <2>1, <2>2
  <2>4. ac.obuf \in Seq(Commands)
    BY <2>1 DEF Live, Context
  <2> QED BY <2>1, <2>2, <2>3, <2>4 DEF FarTypes
<1>5. PICK m : m = Head(wire)
  OBVIOUS
<1>6. q \in Seq(Commands) /\ q # <<>> /\ m = q[1] /\ m \in Commands /\ Tail(wire) \o ac.obuf = Tail(q)
      /\ Tail(wire) \in Seq(Commands)
  <2>1. PICK b \in Seq(Commands), o \in Seq(Commands) : b = wire /\ o = ac.obuf
    BY <1>4
  <2>2. /\ q \in Seq(Commands) /\ q # <<>> /\ q[1] = Head(b) /\ Head(b) \in Commands
        /\ Tail(b) \o o = Tail(q) /\ Tail(b) \in Seq(Commands)
    BY <1>1, <1>3, <2>1, HeadOfQueue
  <2> QED BY <1>5, <2>1, <2>2
<1>7. /\ ServerSays(m, srvsubs) \in Seq(Reply) /\ ServerKeeps(m, srvsubs) \in SUBSET Channels
      /\ Mode(ac, issued, inbuf \o ServerSays(m, srvsubs), Tail(q), ServerKeeps(m, srvsubs), TRUE)
  <2>1. CASE NormalMode(ac, issued, inbuf, q, srvsubs, TRUE)
    BY <1>4, <1>6, <2>1, ServeNormal DEF Mode
  <2>2. CASE MonitorMode(ac, issued, inbuf, q, srvsubs, TRUE)
    BY <1>4, <1>6, <2>2, ServeMonitor DEF Mode
  <2> QED BY <1>4, <2>1, <2>2 DEF Mode
<1>8. IsFiniteSet(srvsubs')
  <2>1. m.chans \in Seq(Channels)
    BY <1>6, CommandsAssumption
  <2>2. PICK s \in Seq(Channels) : s = m.chans
    BY <2>1
  <2>3. IsFiniteSet(ToSet(s))
    <3>1. IsFiniteSet(1 .. Len(s)) /\ DOMAIN s = 1 .. Len(s)
      BY FS_Interval
    <3>2. s \in Surjection(1 .. Len(s), ToSet(s))
      BY DEF Surjection, ToSet
    <3> QED BY <3>1, <3>2, FS_Surjection
  <2>4. IsFiniteSet(srvsubs \cup ToSet(s)) /\ IsFiniteSet(srvsubs \ ToSet(s))
    BY <1>4, <2>3, FS_Union, FS_Difference
  <2> QED BY <1>1, <1>4, <1>5, <2>2, <2>4 DEF ServerKeeps
<1>9. (link' # "lost") = TRUE
  BY <1>1
<1>10. Mode(ac', issued', inbuf', wire' \o ac'.obuf, srvsubs', link' # "lost")
  BY <1>1, <1>5, <1>6, <1>7, <1>9
<1>11. FarTypes'
  BY <1>1, <1>4, <1>5, <1>6, <1>7, <1>8 DEF FarTypes
<1>12. LinkAgrees' /\ Live(ac', issued') /\ ac'.life = "live"
  BY <1>1, <1>2, <1>4 DEF LinkAgrees
<1> QED BY <1>10, <1>11, <1>12 DEF IInv

(* A message of a subscribed channel is expected behind all the replies.   *)
LEMMA PublishNormal ==
  ASSUME NEW I \in SUBSET Commands, NEW c, NEW rs \in Seq(Reply), NEW v, NEW q,
         NormalMode(c, I, rs, q, v, TRUE), NEW ch \in v,
         NEW x, x = [k |-> "message", ch |-> ch]
  PROVE  /\ x \in Reply
         /\ NormalMode(c, I, Append(rs, x), q, v, TRUE)
<1>1. Understood(rs, TRUE) = rs /\ ~Monitors(I) /\ Normal(c, I)
  BY DEF Understood, NormalMode
<1>2. PICK T, U :
        /\ Follows(T, rs) /\ Matches(c, T[0])
        /\ Executes(U, q) /\ U[0] = T[Len(rs)] /\ U[0].v = v /\ Drained(U[Len(q)])
  BY <1>1 DEF NormalMode, Pipeline
<1>3. PICK a : a = T[Len(rs)]
  OBVIOUS
<1>4. a \in Awaited /\ a.v = v
  BY <1>2, <1>3 DEF Follows
<1>5. x \in Reply /\ x.k = "message" /\ x.ch = ch /\ ch \in Channels
  BY <1>4 DEF Awaited, Expected, Reply
<1>6. ReplyStep(a, x, a)
  BY <1>4, <1>5 DEF ReplyStep, Awaited
<1>7. PICK S : S = [i \in 0 .. 1 |-> a]
  OBVIOUS
<1>8. Len(<<x>>) = 1 /\ <<x>>[1] = x /\ <<x>> \in Seq(Reply)
  BY <1>5
<1>9. \A i \in 1 .. 1 : ReplyStep(S[i - 1], <<x>>[i], S[i])
  <2>1. \A i \in 1 .. 1 : i = 1 /\ i - 1 = 0
    OBVIOUS
  <2>2. S[0] = a /\ S[1] = a
    BY <1>7
  <2> QED BY <1>6, <1>8, <2>1, <2>2
<1>10. Follows(S, <<x>>) /\ S[0] = a /\ S[Len(<<x>>)] = a
  BY <1>4, <1>7, <1>8, <1>9 DEF Follows
<1>11. PICK R : Follows(R, rs \o <<x>>) /\ R[0] = T[0] /\ R[Len(rs \o <<x>>)] = a
  <2>1. PICK xs \in Seq(Reply) : xs = <<x>>
    BY <1>8
  <2>2. Follows(S, xs) /\ S[0] = T[Len(rs)] /\ S[Len(xs)] = a
    BY <1>3, <1>10, <2>1
  <2>3. \E R : Follows(R, rs \o xs) /\ R[0] = T[0] /\ R[Len(rs \o xs)] = a
    BY <1>2, <2>2, FollowsConcat
  <2> QED BY <2>1, <2>3
<1>12. Append(rs, x) = rs \o <<x>>
  BY <1>5, AppendIsConcat
<1>13. Pipeline(c, Append(rs, x), q, v, TRUE)
  BY <1>2, <1>3, <1>11, <1>12 DEF Pipeline
<1>14. Understood(Append(rs, x), TRUE) = Append(rs, x)
  BY DEF Understood
<1> QED BY <1>1, <1>5, <1>13, <1>14 DEF NormalMode

(* Publish keeps the invariant.                                            *)
LEMMA PublishKeeps ==
  ASSUME IInv, Publish
  PROVE  IInv'
<1>1. /\ link = "up" /\ msgs' = msgs + 1 /\ msgs < MaxMsgs
      /\ UNCHANGED <<ac, issued, link, wire, srvsubs>>
  BY DEF Publish
<1>2. ac.life = "live"
  BY <1>1 DEF IInv
<1>3. PICK q : q = wire \o ac.obuf
  OBVIOUS
<1>4. /\ FarTypes /\ Live(ac, issued) /\ LinkAgrees /\ (link # "lost") = TRUE
      /\ Mode(ac, issued, inbuf, q, srvsubs, TRUE)
      /\ issued \in SUBSET Commands /\ inbuf \in Seq(Reply)
  <2>1. /\ FarTypes /\ Live(ac, issued) /\ LinkAgrees
        /\ Mode(ac, issued, inbuf, wire \o ac.obuf, srvsubs, link # "lost")
    BY <1>2 DEF IInv
  <2>2. (link # "lost") = TRUE
    BY <1>1
  <2>3. Mode(ac, issued, inbuf, q, srvsubs, TRUE)
    BY <1>3, <2>1, <2>2
  <2> QED BY <2>1, <2>2, <2>3 DEF FarTypes
<1>5. Mode(ac, issued, inbuf', q, srvsubs, TRUE) /\ inbuf' \in Seq(Reply)
  <2>1. CASE NormalMode(ac, issued, inbuf, q, srvsubs, TRUE)
    <3>1. ~Monitored
      BY <2>1 DEF NormalMode, Monitors, Monitored
    <3>2. PICK ch \in srvsubs : inbuf' = Append(inbuf, [k |-> "message", ch |-> ch])
      BY <3>1 DEF Publish
    <3>3. PICK x : x = [k |-> "message", ch |-> ch]
      OBVIOUS
    <3>4. x \in Reply /\ NormalMode(ac, issued, Append(inbuf, x), q, srvsubs, TRUE)
      BY <1>4, <2>1, <3>3, PublishNormal
    <3>5. inbuf' = Append(inbuf, x) /\ Append(inbuf, x) \in Seq(Reply)
      BY <1>4, <3>2, <3>3, <3>4
    <3> QED BY <3>4, <3>5 DEF Mode
  <2>2. CASE MonitorMode(ac, issued, inbuf, q, srvsubs, TRUE)
    <3>1. PICK m \in Commands :
            /\ issued = {m} /\ Monitoring(ac, m)
            /\ \A i \in 1 .. Len(inbuf) : inbuf[i].k \in {"status", "error"}
            /\ q \in Seq({m}) /\ srvsubs = {}
      BY <2>2 DEF MonitorMode
    <3>2. PICK x : x = [k |-> "status", id |-> "line"]
      OBVIOUS
    <3>3. x \in Reply /\ x.k = "status" /\ inbuf' = Append(inbuf, x)
      BY <3>1, <3>2 DEF Publish, Reply
    <3>4. \A i \in 1 .. Len(Append(inbuf, x)) : Append(inbuf, x)[i].k \in {"status", "error"}
      BY <1>4, <3>1, <3>3
    <3>5. MonitorMode(ac, issued, Append(inbuf, x), q, srvsubs, TRUE)
      BY <3>1, <3>4 DEF MonitorMode
    <3>6. inbuf' = Append(inbuf, x) /\ Append(inbuf, x) \in Seq(Reply)
      BY <1>4, <3>3
    <3> QED BY <3>5, <3>6 DEF Mode
  <2> QED BY <1>4, <2>1, <2>2 DEF Mode
<1>6. (link' # "lost") = TRUE
  BY <1>1
<1>7. Mode(ac', issued', inbuf', wire' \o ac'.obuf, srvsubs', link' # "lost")
  BY <1>1, <1>3, <1>5, <1>6
<1>8. FarTypes'
  <2>1. msgs' \in 0 .. MaxMsgs
    BY <1>1, <1>4, BoundAssumption DEF FarTypes
  <2> QED BY <1>1, <1>4, <1>5, <2>1 DEF FarTypes
<1>9. LinkAgrees' /\ Live(ac', issued') /\ ac'.life = "live"
  BY <1>1, <1>2, <1>4 DEF LinkAgrees
<1> QED BY <1>7, <1>8, <1>9 DEF IInv

-----------------------------------------------------------------------------
(* redisAsyncCommand.                                                      *)

(* f changes what is expected at every point of the pipeline, within G.    *)
KeepsReplies(f, G, rs) ==
  \A a \in G, b \in Awaited, i \in 1 .. Len(rs) :
    ReplyStep(a, rs[i], b) => b \in G /\ ReplyStep(f[a], rs[i], f[b])
KeepsCommands(f, G, q) ==
  \A a \in G, b \in Awaited, j \in 1 .. Len(q) :
    CommandStep(a, q[j], b) => b \in G /\ CommandStep(f[a], q[j], f[b])
Completes(f, G, m) ==
  \A a \in G : /\ f[a].v = a.v
               /\ Drained(a) => \E b \in Awaited : Drained(b) /\ CommandStep(f[a], m, b)

(* More may be expected all along the replies.                             *)
LEMMA FollowsGrows ==
  ASSUME NEW rs, Len(rs) \in Nat, NEW T, Follows(T, rs),
         NEW G \in SUBSET Awaited, NEW f \in [G -> Awaited], KeepsReplies(f, G, rs), T[0] \in G
  PROVE  /\ \A i \in 0 .. Len(rs) : T[i] \in G
         /\ Follows([i \in 0 .. Len(rs) |-> f[T[i]]], rs)
<1>1. PICK n \in Nat : n = Len(rs)
  OBVIOUS
<1>2. T \in [0 .. n -> Awaited] /\ \A i \in 1 .. n : ReplyStep(T[i - 1], rs[i], T[i])
  BY <1>1 DEF Follows
<1>3. \A a \in G, b \in Awaited, i \in 1 .. n :
        ReplyStep(a, rs[i], b) => b \in G /\ ReplyStep(f[a], rs[i], f[b])
  BY <1>1 DEF KeepsReplies
<1> DEFINE P == {i \in Nat : T[i] \in G}
<1>4. 0 \in P
  OBVIOUS
<1>5. ASSUME NEW i \in 1 .. n, i - 1 \in P PROVE i \in P
  <2>1. T[i] \in Awaited /\ T[i - 1] \in G /\ i \in Nat /\ ReplyStep(T[i - 1], rs[i], T[i])
    BY <1>2, <1>5
  <2> QED BY <1>3, <2>1
<1>6. 0 .. n \subseteq P
  <2> HIDE DEF P
  <2> QED BY <1>4, <1>5, BoundedInduction
<1>7. \A i \in 0 .. n : T[i] \in G
  BY <1>6
<1>8. PICK R : R = [i \in 0 .. n |-> f[T[i]]]
  OBVIOUS
<1>9. R \in [0 .. n -> Awaited]
  BY <1>7, <1>8
<1>10. ASSUME NEW i \in 1 .. n PROVE ReplyStep(R[i - 1], rs[i], R[i])
  <2>1. T[i] \in Awaited /\ T[i - 1] \in G /\ ReplyStep(T[i - 1], rs[i], T[i])
    BY <1>2, <1>7
  <2>2. R[i - 1] = f[T[i - 1]] /\ R[i] = f[T[i]]
    BY <1>8
  <2> QED BY <1>3, <2>1, <2>2
<1>11. Follows(R, rs)
  BY <1>1, <1>9, <1>10 DEF Follows
<1> QED BY <1>1, <1>7, <1>8, <1>11

(* More may be expected all along the commands, and one more command takes *)
(* it.                                                                     *)
LEMMA ExecutesGrows ==
  ASSUME NEW q \in Seq(Commands), NEW m \in Commands, NEW U, Executes(U, q), Drained(U[Len(q)]),
         NEW G \in SUBSET Awaited, NEW f \in [G -> Awaited], KeepsCommands(f, G, q),
         Completes(f, G, m), U[0] \in G
  PROVE  \E W : /\ Executes(W, Append(q, m)) /\ W[0] = f[U[0]]
                /\ Drained(W[Len(Append(q, m))])
<1>1. PICK n \in Nat : n = Len(q)
  OBVIOUS
<1>2. U \in [0 .. n -> Awaited] /\ \A i \in 1 .. n : CommandStep(U[i - 1], q[i], U[i])
  BY <1>1 DEF Executes
<1>3. \A a \in G, b \in Awaited, i \in 1 .. n :
        CommandStep(a, q[i], b) => b \in G /\ CommandStep(f[a], q[i], f[b])
  BY <1>1 DEF KeepsCommands
<1> DEFINE P == {i \in Nat : U[i] \in G}
<1>4. 0 \in P
  OBVIOUS
<1>5. ASSUME NEW i \in 1 .. n, i - 1 \in P PROVE i \in P
  <2>1. U[i] \in Awaited /\ U[i - 1] \in G /\ i \in Nat /\ CommandStep(U[i - 1], q[i], U[i])
    BY <1>2, <1>5
  <2> QED BY <1>3, <2>1
<1>6. 0 .. n \subseteq P
  <2> HIDE DEF P
  <2> QED BY <1>4, <1>5, BoundedInduction
<1>7. \A i \in 0 .. n : U[i] \in G
  BY <1>6
<1>8. U[n] \in G /\ Drained(U[n])
  BY <1>1, <1>7
<1>9. PICK b \in Awaited : Drained(b) /\ CommandStep(f[U[n]], m, b)
  BY <1>8 DEF Completes
<1>10. PICK W : W = [i \in 0 .. (n + 1) |-> IF i = n + 1 THEN b ELSE f[U[i]]]
  OBVIOUS
<1>11. /\ \A i \in 0 .. n : W[i] = f[U[i]] /\ i \in 0 .. (n + 1)
       /\ W[n + 1] = b
  BY <1>10
<1>12. W \in [0 .. (n + 1) -> Awaited]
  <2>1. \A i \in 0 .. (n + 1) : i = n + 1 \/ i \in 0 .. n
    OBVIOUS
  <2>2. \A i \in 0 .. (n + 1) : (IF i = n + 1 THEN b ELSE f[U[i]]) \in Awaited
    BY <1>7, <2>1
  <2> QED BY <1>10, <2>2
<1>13. PICK p : p = Append(q, m)
  OBVIOUS
<1>14. Len(p) = n + 1 /\ p[n + 1] = m /\ \A i \in 1 .. n : p[i] = q[i]
  BY <1>1, <1>13
<1>15. ASSUME NEW i \in 1 .. (n + 1) PROVE CommandStep(W[i - 1], p[i], W[i])
  <2>1. CASE i \in 1 .. n
    <3>1. U[i] \in Awaited /\ U[i - 1] \in G /\ CommandStep(U[i - 1], q[i], U[i])
      BY <1>2, <1>7, <2>1
    <3>2. CommandStep(f[U[i - 1]], q[i], f[U[i]])
      BY <1>3, <2>1, <3>1
    <3>3. W[i - 1] = f[U[i - 1]] /\ W[i] = f[U[i]] /\ p[i] = q[i]
      BY <1>11, <1>14, <2>1
    <3> QED BY <3>2, <3>3
  <2>2. CASE i = n + 1
    <3>1. i - 1 = n /\ n \in 0 .. n
      BY <2>2
    <3> QED BY <1>9, <1>11, <1>14, <2>2, <3>1
  <2> QED BY <2>1, <2>2
<1>16. Executes(W, p)
  BY <1>12, <1>14, <1>15 DEF Executes
<1>17. W[0] = f[U[0]] /\ W[Len(p)] = b
  BY <1>11, <1>14
<1> QED BY <1>9, <1>13, <1>16, <1>17

(* The pipeline with one more command at its end.                          *)
LEMMA PipelineGrows ==
  ASSUME NEW c, NEW d, NEW rs, Len(rs) \in Nat, NEW q \in Seq(Commands), NEW m \in Commands,
         NEW v, NEW up \in BOOLEAN, Pipeline(c, rs, q, v, up),
         NEW G \in SUBSET Awaited, NEW f \in [G -> Awaited],
         KeepsReplies(f, G, rs), KeepsCommands(f, G, q), Completes(f, G, m),
         \A a \in Awaited : Matches(c, a) => a \in G /\ Matches(d, f[a])
  PROVE  Pipeline(d, rs, Append(q, m), v, up)
<1>1. PICK T, U :
        /\ Follows(T, rs) /\ Matches(c, T[0])
        /\ up => /\ Executes(U, q) /\ U[0] = T[Len(rs)] /\ U[0].v = v
                 /\ Drained(U[Len(q)])
  BY DEF Pipeline
<1>2. T[0] \in G /\ Matches(d, f[T[0]])
  BY <1>1 DEF Follows
<1>3. PICK R : R = [i \in 0 .. Len(rs) |-> f[T[i]]]
  OBVIOUS
<1>4. Follows(R, rs) /\ T[Len(rs)] \in G
  BY <1>1, <1>2, <1>3, FollowsGrows
<1>5. R[0] = f[T[0]] /\ R[Len(rs)] = f[T[Len(rs)]]
  BY <1>3
<1>6. CASE up
  <2>1. Executes(U, q) /\ U[0] = T[Len(rs)] /\ U[0].v = v /\ Drained(U[Len(q)]) /\ U[0] \in G
    BY <1>1, <1>4, <1>6
  <2>2. PICK W : Executes(W, Append(q, m)) /\ W[0] = f[U[0]] /\ Drained(W[Len(Append(q, m))])
    BY <2>1, ExecutesGrows
  <2>3. W[0] = R[Len(rs)] /\ W[0].v = v
    BY <1>5, <2>1, <2>2 DEF Completes
  <2> QED BY <1>2, <1>4, <1>5, <2>2, <2>3 DEF Pipeline
<1>7. CASE ~up
  BY <1>2, <1>4, <1>5, <1>7 DEF Pipeline
<1> QED BY <1>6, <1>7

(* One more command waits among the replies, among the invalid ones, or    *)
(* for confirmations.                                                      *)
AddReply(a, cb) == [r |-> Append(a.r, cb), i |-> a.i, v |-> a.v, p |-> a.p]
AddInvalid(a, cb) == [r |-> a.r, i |-> Append(a.i, cb), v |-> a.v, p |-> a.p]
AddPending(a, C) ==
  [r |-> a.r, i |-> a.i, v |-> a.v,
   p |-> [ch \in Channels |-> IF ch \in C THEN a.p[ch] + 1 ELSE a.p[ch]]]

(* The fields of an expectation.                                           *)
LEMMA AwaitedIs ==
  ASSUME NEW a \in Awaited
  PROVE  /\ a.r \in Seq(Callback) /\ a.i \in Seq(Callback)
         /\ a.v \in SUBSET Channels /\ a.p \in [Channels -> Nat]
         /\ a.i # <<>> => Known(a) # {}
         /\ a.r # <<>> => a.v = {}
BY DEF Awaited, Expected

(* The head and the tail of a longer sequence.                             *)
LEMMA AppendTail ==
  ASSUME NEW S, NEW s \in Seq(S), NEW x \in S
  PROVE  /\ Append(s, x) \in Seq(S) /\ Append(s, x) # <<>>
         /\ s # <<>> => Tail(Append(s, x)) = Append(Tail(s), x) /\ Head(Append(s, x)) = Head(s)
         /\ s = <<>> => Tail(Append(s, x)) = <<>> /\ Head(Append(s, x)) = x
OBVIOUS

(* A command on channels names one.                                        *)
LEMMA NonEmptyChannels ==
  ASSUME NEW m \in Commands, m.kind \in {"subscribe", "unsubscribe"}
  PROVE  /\ ToSet(m.chans) # {} /\ ToSet(m.chans) \subseteq Channels
<1>1. PICK s \in Seq(Channels) : s = m.chans /\ s # <<>>
  BY CommandsAssumption
<1>2. DOMAIN s = 1 .. Len(s) /\ Len(s) > 0 /\ s[1] \in Channels
  BY <1>1
<1>3. s[1] \in ToSet(s) /\ ToSet(s) \subseteq Channels
  BY <1>2 DEF ToSet
<1> QED BY <1>1, <1>3

(* A plain command sent while nothing is subscribed is expected last among *)
(* the replies.                                                            *)
LEMMA GrowsReply ==
  ASSUME NEW cb \in Callback, NEW m \in Commands, m.kind = "plain", cb.id = m.id,
         NEW rs, NEW q \in Seq(Commands),
         NEW G, G = {a \in Awaited : Known(a) = {}},
         NEW f, f = [a \in G |-> AddReply(a, cb)]
  PROVE  /\ f \in [G -> Awaited]
         /\ KeepsReplies(f, G, rs) /\ KeepsCommands(f, G, q) /\ Completes(f, G, m)
<1>1. \A a \in G : /\ a \in Awaited /\ Known(a) = {} /\ a.v = {} /\ a.i = <<>>
                   /\ \A ch \in Channels : ~(a.p[ch] > 0)
  <2> SUFFICES ASSUME NEW a \in G
               PROVE  /\ a \in Awaited /\ Known(a) = {} /\ a.v = {} /\ a.i = <<>>
                      /\ \A ch \in Channels : ~(a.p[ch] > 0)
    OBVIOUS
  <2>1. a \in Awaited /\ Known(a) = {}
    OBVIOUS
  <2>2. a.v = {} /\ \A ch \in Channels : ~(a.p[ch] > 0)
    BY <2>1 DEF Known
  <2> QED BY <2>1, <2>2, AwaitedIs
<1>2. \A a \in G : /\ f[a].r = Append(a.r, cb) /\ f[a].i = a.i /\ f[a].v = a.v /\ f[a].p = a.p
  BY DEF AddReply
<1>3. ASSUME NEW a \in G PROVE f[a] \in Awaited
  <2>1. a.r \in Seq(Callback) /\ a.i \in Seq(Callback) /\ a.p \in [Channels -> Nat] /\ a.v = {}
    BY <1>1, AwaitedIs
  <2>2. Append(a.r, cb) \in Seq(Callback)
    BY <2>1
  <2>3. AddReply(a, cb) \in Expected
    BY <2>1, <2>2 DEF AddReply, Expected
  <2> QED BY <1>1, <1>2, <2>3 DEF Awaited
<1>4. f \in [G -> Awaited]
  BY <1>3
<1>5. ASSUME NEW a \in G, NEW b \in Awaited, b.v = a.v, b.p = a.p PROVE b \in G
  BY <1>1, <1>5 DEF Known
<1>6. \A a \in G : a.r # <<>> => Tail(Append(a.r, cb)) = Append(Tail(a.r), cb) /\ Head(Append(a.r, cb)) = Head(a.r)
                              /\ Append(a.r, cb) # <<>>
  BY <1>1, AwaitedIs, AppendTail
<1>7. KeepsReplies(f, G, rs)
  <2> SUFFICES ASSUME NEW a \in G, NEW b \in Awaited, NEW x, ReplyStep(a, x, b)
               PROVE  b \in G /\ ReplyStep(f[a], x, f[b])
    BY DEF KeepsReplies
  <2>1. /\ x.k \in {"status", "error"} /\ a.r # <<>> /\ Head(a.r).id = x.id
        /\ b.r = Tail(a.r) /\ b.i = a.i /\ b.v = a.v /\ b.p = a.p
    BY <1>1 DEF ReplyStep
  <2>2. b \in G
    BY <1>5, <2>1
  <2>3. /\ f[a].r = Append(a.r, cb) /\ f[a].i = a.i /\ f[a].v = a.v /\ f[a].p = a.p
        /\ f[b].r = Append(b.r, cb) /\ f[b].i = b.i /\ f[b].v = b.v /\ f[b].p = b.p
    BY <1>2, <2>2
  <2>4. Tail(Append(a.r, cb)) = Append(Tail(a.r), cb) /\ Head(Append(a.r, cb)) = Head(a.r) /\ Append(a.r, cb) # <<>>
    BY <1>6, <2>1
  <2>5. ReplyStep(f[a], x, f[b])
    BY <2>1, <2>3, <2>4, Zenon DEF ReplyStep
  <2> QED BY <2>2, <2>5
<1>8. KeepsCommands(f, G, q)
  <2> SUFFICES ASSUME NEW a \in G, NEW b \in Awaited, NEW k \in Commands, CommandStep(a, k, b)
               PROVE  b \in G /\ CommandStep(f[a], k, f[b])
    <3>1. \A j \in 1 .. Len(q) : q[j] \in Commands
      OBVIOUS
    <3> QED BY <3>1 DEF KeepsCommands
  <2>0. k.kind \in {"subscribe", "unsubscribe"} => ToSet(k.chans) # {} /\ ToSet(k.chans) \subseteq Channels
    BY NonEmptyChannels
  <2>1. /\ k.kind = "plain" /\ a.r # <<>> /\ Head(a.r).id = k.id
        /\ b.r = Tail(a.r) /\ b.i = a.i /\ b.v = a.v /\ b.p = a.p
    BY <1>1, <2>0 DEF CommandStep
  <2>2. b \in G
    BY <1>5, <2>1
  <2>3. /\ f[a].r = Append(a.r, cb) /\ f[a].i = a.i /\ f[a].v = a.v /\ f[a].p = a.p
        /\ f[b].r = Append(b.r, cb) /\ f[b].i = b.i /\ f[b].v = b.v /\ f[b].p = b.p
    BY <1>2, <2>2
  <2>4. Tail(Append(a.r, cb)) = Append(Tail(a.r), cb) /\ Head(Append(a.r, cb)) = Head(a.r) /\ Append(a.r, cb) # <<>>
    BY <1>6, <2>1
  <2>5. CommandStep(f[a], k, f[b])
    BY <2>1, <2>3, <2>4, Zenon DEF CommandStep
  <2> QED BY <2>2, <2>5
<1>9. Completes(f, G, m)
  <2> SUFFICES ASSUME NEW a \in G, Drained(a)
               PROVE  \E b \in Awaited : Drained(b) /\ CommandStep(f[a], m, b)
    BY <1>2 DEF Completes
  <2>1. a.r = <<>> /\ a \in Awaited
    BY <1>1 DEF Drained
  <2>2. Append(a.r, cb) # <<>> /\ Tail(Append(a.r, cb)) = <<>> /\ Head(Append(a.r, cb)) = cb
    BY <2>1, AwaitedIs, AppendTail
  <2>3. CommandStep(f[a], m, a)
    BY <1>2, <2>1, <2>2 DEF CommandStep
  <2> QED BY <2>1, <2>3
<1> QED BY <1>4, <1>7, <1>8, <1>9

(* A plain command sent while a channel is known is expected last among    *)
(* the refused ones, if no UNSUBSCRIBE is under way.                       *)
LEMMA GrowsInvalid ==
  ASSUME NEW cb \in Callback, NEW m \in Commands, m.kind = "plain",
         NEW rs, NEW q \in Seq(Commands),
         \A i \in 1 .. Len(rs) : rs[i].k # "unsubscribe",
         \A j \in 1 .. Len(q) : q[j].kind # "unsubscribe",
         NEW G, G = {a \in Awaited : Known(a) # {}},
         NEW f, f = [a \in G |-> AddInvalid(a, cb)]
  PROVE  /\ f \in [G -> Awaited]
         /\ KeepsReplies(f, G, rs) /\ KeepsCommands(f, G, q) /\ Completes(f, G, m)
<1>1. \A a \in G : a \in Awaited /\ Known(a) # {}
  OBVIOUS
<1>2. \A a \in G : /\ f[a].r = a.r /\ f[a].i = Append(a.i, cb) /\ f[a].v = a.v /\ f[a].p = a.p
  BY DEF AddInvalid
<1>3. ASSUME NEW a \in G PROVE f[a] \in Awaited
  <2>1. /\ a.r \in Seq(Callback) /\ a.i \in Seq(Callback) /\ a.p \in [Channels -> Nat]
        /\ a.v \in SUBSET Channels /\ (a.r # <<>> => a.v = {})
    BY <1>1, AwaitedIs
  <2>2. Append(a.i, cb) \in Seq(Callback)
    BY <2>1
  <2>3. AddInvalid(a, cb) \in Expected
    BY <2>1, <2>2 DEF AddInvalid, Expected
  <2>4. Known(f[a]) = Known(a)
    BY <1>2 DEF Known
  <2> QED BY <1>1, <1>2, <2>1, <2>3, <2>4 DEF Awaited
<1>4. f \in [G -> Awaited]
  BY <1>3
<1>6. \A a \in G : /\ Append(a.i, cb) # <<>>
                   /\ a.i # <<>> => Tail(Append(a.i, cb)) = Append(Tail(a.i), cb)
  BY <1>1, AwaitedIs, AppendTail
<1>7. KeepsReplies(f, G, rs)
  <2> SUFFICES ASSUME NEW a \in G, NEW b \in Awaited, NEW x, x.k # "unsubscribe", ReplyStep(a, x, b)
               PROVE  b \in G /\ ReplyStep(f[a], x, f[b])
    BY DEF KeepsReplies
  <2>0. a \in Awaited /\ a.p \in [Channels -> Nat] /\ b.p \in [Channels -> Nat] /\ Known(a) # {}
    BY <1>1, AwaitedIs
  <2>1. Known(b) # {}
    <3>1. CASE b.v = a.v /\ b.p = a.p
      BY <2>0, <3>1 DEF Known
    <3>2. CASE x.k = "subscribe" /\ b.v = a.v \cup {x.ch}
      BY <3>2 DEF Known
    <3> QED BY <3>1, <3>2 DEF ReplyStep
  <2>2. b \in G
    BY <2>1
  <2>3. /\ f[a].r = a.r /\ f[a].i = Append(a.i, cb) /\ f[a].v = a.v /\ f[a].p = a.p
        /\ f[b].r = b.r /\ f[b].i = Append(b.i, cb) /\ f[b].v = b.v /\ f[b].p = b.p
    BY <1>2, <2>2
  <2>4. /\ Append(a.i, cb) # <<>>
        /\ a.i # <<>> => Tail(Append(a.i, cb)) = Append(Tail(a.i), cb)
    BY <1>6
  <2>5. ReplyStep(f[a], x, f[b])
    <3>1. PICK g, h : g = f[a] /\ h = f[b]
      OBVIOUS
    <3> QED BY <2>3, <2>4, <3>1 DEF ReplyStep
  <2> QED BY <2>2, <2>5
<1>8. KeepsCommands(f, G, q)
  <2> SUFFICES ASSUME NEW a \in G, NEW b \in Awaited, NEW k \in Commands, k.kind # "unsubscribe", CommandStep(a, k, b)
               PROVE  b \in G /\ CommandStep(f[a], k, f[b])
    <3>1. \A j \in 1 .. Len(q) : q[j] \in Commands
      OBVIOUS
    <3> QED BY <3>1 DEF KeepsCommands
  <2>0. a \in Awaited /\ a.p \in [Channels -> Nat] /\ b.p \in [Channels -> Nat] /\ Known(a) # {}
    BY <1>1, AwaitedIs
  <2>1. Known(b) # {}
    <3>1. CASE b.v = a.v /\ b.p = a.p
      BY <2>0, <3>1 DEF Known
    <3>2. CASE k.kind = "subscribe" /\ b.v = a.v \cup ToSet(k.chans)
      BY <3>2, NonEmptyChannels DEF Known
    <3> QED BY <3>1, <3>2 DEF CommandStep
  <2>2. b \in G
    BY <2>1
  <2>3. /\ f[a].r = a.r /\ f[a].i = Append(a.i, cb) /\ f[a].v = a.v /\ f[a].p = a.p
        /\ f[b].r = b.r /\ f[b].i = Append(b.i, cb) /\ f[b].v = b.v /\ f[b].p = b.p
    BY <1>2, <2>2
  <2>4. /\ Append(a.i, cb) # <<>>
        /\ a.i # <<>> => Tail(Append(a.i, cb)) = Append(Tail(a.i), cb)
    BY <1>6
  <2>5. CommandStep(f[a], k, f[b])
    BY <2>3, <2>4 DEF CommandStep
  <2> QED BY <2>2, <2>5
<1>9. Completes(f, G, m)
  <2> SUFFICES ASSUME NEW a \in G, Drained(a)
               PROVE  \E b \in Awaited : Drained(b) /\ CommandStep(f[a], m, b)
    BY <1>2 DEF Completes
  <2>1. a.r = <<>> /\ a.i = <<>> /\ a \in Awaited /\ a.v # {}
    <3>1. a.p \in [Channels -> Nat] /\ \A ch \in Channels : a.p[ch] = 0
      BY <1>1, AwaitedIs DEF Drained
    <3>2. a.v # {}
      BY <1>1, <3>1 DEF Known
    <3> QED BY <1>1, <3>2 DEF Drained
  <2>2. Append(a.i, cb) # <<>> /\ Tail(Append(a.i, cb)) = <<>>
    BY <2>1, AwaitedIs, AppendTail
  <2>3. CommandStep(f[a], m, a)
    BY <1>2, <2>1, <2>2 DEF CommandStep
  <2> QED BY <2>1, <2>3
<1> QED BY <1>4, <1>7, <1>8, <1>9

(* The expectation with one more confirmation for each channel.            *)
LEMMA AddPendingIs ==
  ASSUME NEW C \in SUBSET Channels, NEW a \in Awaited, NEW g, g = AddPending(a, C)
  PROVE  /\ g \in Awaited /\ g.r = a.r /\ g.i = a.i /\ g.v = a.v
         /\ g.p = [ch \in Channels |-> IF ch \in C THEN a.p[ch] + 1 ELSE a.p[ch]]
         /\ Known(g) = Known(a) \cup C
<1>1. /\ a.r \in Seq(Callback) /\ a.i \in Seq(Callback) /\ a.p \in [Channels -> Nat]
      /\ a.v \in SUBSET Channels /\ (a.r # <<>> => a.v = {}) /\ (a.i # <<>> => Known(a) # {})
  BY AwaitedIs
<1>2. PICK p : p = [ch \in Channels |-> IF ch \in C THEN a.p[ch] + 1 ELSE a.p[ch]]
  OBVIOUS
<1>3. p \in [Channels -> Nat] /\ \A ch \in Channels : p[ch] > 0 <=> a.p[ch] > 0 \/ ch \in C
  BY <1>1, <1>2
<1>4. g = [r |-> a.r, i |-> a.i, v |-> a.v, p |-> p]
  BY <1>2 DEF AddPending
<1>5. g \in Expected /\ g.r = a.r /\ g.i = a.i /\ g.v = a.v /\ g.p = p
  BY <1>1, <1>3, <1>4 DEF Expected
<1>6. Known(g) = Known(a) \cup C
  BY <1>3, <1>5 DEF Known
<1>7. g \in Awaited
  BY <1>1, <1>5, <1>6 DEF Awaited
<1> QED BY <1>2, <1>5, <1>6, <1>7

(* SUBSCRIBE expects one more confirmation for each of its channels.       *)
LEMMA GrowsPending ==
  ASSUME NEW m \in Commands, m.kind = "subscribe", IsInjective(m.chans),
         NEW rs, NEW q \in Seq(Commands),
         NEW f, f = [a \in Awaited |-> AddPending(a, ToSet(m.chans))]
  PROVE  /\ f \in [Awaited -> Awaited]
         /\ KeepsReplies(f, Awaited, rs) /\ KeepsCommands(f, Awaited, q) /\ Completes(f, Awaited, m)
<1>1. PICK C \in SUBSET Channels : C = ToSet(m.chans)
  BY NonEmptyChannels
<1>2. \A a \in Awaited :
        /\ f[a] \in Awaited /\ f[a].r = a.r /\ f[a].i = a.i /\ f[a].v = a.v
        /\ f[a].p = [ch \in Channels |-> IF ch \in C THEN a.p[ch] + 1 ELSE a.p[ch]]
  BY <1>1, AddPendingIs
<1>4. f \in [Awaited -> Awaited]
  BY <1>2
<1>5. \A a \in Awaited : a.p \in [Channels -> Nat]
  BY AwaitedIs
<1>3. \A a \in Awaited : f[a].p = [ch \in Channels |-> IF ch \in C THEN a.p[ch] + 1 ELSE a.p[ch]]
  BY <1>2
<1>6. ASSUME NEW a \in Awaited, NEW b \in Awaited, b.p = a.p PROVE f[b].p = f[a].p
  <2>1. PICK p : p = a.p /\ p = b.p
    BY <1>6
  <2>2. /\ f[a].p = [ch \in Channels |-> IF ch \in C THEN p[ch] + 1 ELSE p[ch]]
        /\ f[b].p = [ch \in Channels |-> IF ch \in C THEN p[ch] + 1 ELSE p[ch]]
    BY <1>3, <2>1
  <2> QED BY <2>2
<1>7. KeepsReplies(f, Awaited, rs)
  <2> SUFFICES ASSUME NEW a \in Awaited, NEW b \in Awaited, NEW x, ReplyStep(a, x, b)
               PROVE  ReplyStep(f[a], x, f[b])
    BY DEF KeepsReplies
  <2>1. PICK g, h : g = f[a] /\ h = f[b]
    OBVIOUS
  <2>2. /\ g.r = a.r /\ g.i = a.i /\ g.v = a.v /\ h.r = b.r /\ h.i = b.i /\ h.v = b.v
        /\ (b.p = a.p => h.p = g.p)
    BY <1>2, <1>6, <2>1
  <2>3. CASE x.k = "subscribe"
    <3>1. /\ a.r = <<>> /\ x.ch \in Channels /\ a.p[x.ch] > 0
          /\ b.r = a.r /\ b.i = a.i /\ b.v = a.v \cup {x.ch}
          /\ b.p = [a.p EXCEPT ![x.ch] = @ - 1]
      BY <2>3 DEF ReplyStep
    <3>2. PICK y \in Channels : y = x.ch
      BY <3>1
    <3>3. PICK ap \in [Channels -> Nat] : ap = a.p
      BY <1>5
    <3>4. PICK gp, hp : gp = g.p /\ hp = h.p
      OBVIOUS
    <3>5. /\ gp = [ch \in Channels |-> IF ch \in C THEN ap[ch] + 1 ELSE ap[ch]]
          /\ hp = [ch \in Channels |-> IF ch \in C THEN b.p[ch] + 1 ELSE b.p[ch]]
          /\ b.p = [ap EXCEPT ![y] = @ - 1] /\ ap[y] > 0
      <4>1. f[a].p = [ch \in Channels |-> IF ch \in C THEN a.p[ch] + 1 ELSE a.p[ch]]
        BY <1>3
      <4>2. f[b].p = [ch \in Channels |-> IF ch \in C THEN b.p[ch] + 1 ELSE b.p[ch]]
        BY <1>3
      <4> QED BY <2>1, <3>1, <3>2, <3>3, <3>4, <4>1, <4>2
    <3>6. gp[y] > 0
      BY <3>5
    <3>7. hp = [gp EXCEPT ![y] = @ - 1]
      BY <3>5
    <3> QED BY <2>1, <2>2, <2>3, <3>1, <3>2, <3>3, <3>4, <3>6, <3>7 DEF ReplyStep
  <2>4. CASE x.k # "subscribe"
    <3>1. ReplyStep(g, x, h)
      BY <2>2, <2>4 DEF ReplyStep
    <3> QED BY <2>1, <3>1
  <2> QED BY <2>3, <2>4
<1>8. KeepsCommands(f, Awaited, q)
  <2> SUFFICES ASSUME NEW a \in Awaited, NEW b \in Awaited, NEW k \in Commands, CommandStep(a, k, b)
               PROVE  CommandStep(f[a], k, f[b])
    <3>1. \A j \in 1 .. Len(q) : q[j] \in Commands
      OBVIOUS
    <3> QED BY <3>1 DEF KeepsCommands
  <2>1. PICK g, h : g = f[a] /\ h = f[b]
    OBVIOUS
  <2>2. /\ g.r = a.r /\ g.i = a.i /\ g.v = a.v /\ h.r = b.r /\ h.i = b.i /\ h.v = b.v
        /\ (b.p = a.p => h.p = g.p)
    BY <1>2, <1>6, <2>1
  <2>3. CASE k.kind = "subscribe"
    <3>0. PICK K \in SUBSET Channels : K = ToSet(k.chans)
      BY <2>3, NonEmptyChannels
    <3>1. /\ a.r = <<>> /\ IsInjective(k.chans)
          /\ \A ch \in K : a.p[ch] > 0
          /\ b.r = a.r /\ b.i = a.i /\ b.v = a.v \cup K
          /\ b.p = [ch \in Channels |-> IF ch \in K THEN a.p[ch] - 1 ELSE a.p[ch]]
      BY <2>3, <3>0 DEF CommandStep
    <3>2. PICK ap \in [Channels -> Nat] : ap = a.p
      BY <1>5
    <3>3. PICK gp, hp : gp = g.p /\ hp = h.p
      OBVIOUS
    <3>4. /\ gp = [ch \in Channels |-> IF ch \in C THEN ap[ch] + 1 ELSE ap[ch]]
          /\ hp = [ch \in Channels |-> IF ch \in C THEN b.p[ch] + 1 ELSE b.p[ch]]
          /\ b.p = [ch \in Channels |-> IF ch \in K THEN ap[ch] - 1 ELSE ap[ch]]
          /\ \A ch \in K : ap[ch] > 0
      <4>1. f[a].p = [ch \in Channels |-> IF ch \in C THEN a.p[ch] + 1 ELSE a.p[ch]]
        BY <1>3
      <4>2. f[b].p = [ch \in Channels |-> IF ch \in C THEN b.p[ch] + 1 ELSE b.p[ch]]
        BY <1>3
      <4> QED BY <2>1, <3>1, <3>2, <3>3, <4>1, <4>2
    <3>5. \A ch \in K : gp[ch] > 0
      BY <3>4
    <3>6. hp = [ch \in Channels |-> IF ch \in K THEN gp[ch] - 1 ELSE gp[ch]]
      <4>1. \A ch \in Channels : (IF ch \in C THEN b.p[ch] + 1 ELSE b.p[ch]) = (IF ch \in K THEN gp[ch] - 1 ELSE gp[ch])
        BY <3>4
      <4> QED BY <3>4, <4>1
    <3> QED BY <2>1, <2>2, <2>3, <3>0, <3>1, <3>2, <3>3, <3>5, <3>6 DEF CommandStep
  <2>4. CASE k.kind # "subscribe"
    <3>1. CommandStep(g, k, h)
      BY <2>2, <2>4 DEF CommandStep
    <3> QED BY <2>1, <3>1
  <2> QED BY <2>3, <2>4
<1>9. Completes(f, Awaited, m)
  <2> SUFFICES ASSUME NEW a \in Awaited, Drained(a)
               PROVE  \E b \in Awaited : Drained(b) /\ CommandStep(f[a], m, b)
    BY <1>2 DEF Completes
  <2>1. PICK b : b = [r |-> a.r, i |-> a.i, v |-> a.v \cup C, p |-> a.p]
    OBVIOUS
  <2>2. /\ a.r = <<>> /\ a.i = <<>> /\ \A ch \in Channels : a.p[ch] = 0
    BY DEF Drained
  <2>3. /\ b \in Expected /\ b.r = a.r /\ b.i = a.i /\ b.v = a.v \cup C /\ b.p = a.p
    BY <2>1, AwaitedIs DEF Expected
  <2>4. b \in Awaited /\ Drained(b)
    BY <2>2, <2>3 DEF Awaited, Drained
  <2>5. PICK ap \in [Channels -> Nat] : ap = a.p
    BY <1>5
  <2>6. PICK gp : gp = f[a].p
    OBVIOUS
  <2>7. gp = [ch \in Channels |-> IF ch \in C THEN ap[ch] + 1 ELSE ap[ch]]
    BY <1>2, <2>5, <2>6
  <2>8. \A ch \in C : gp[ch] > 0
    BY <2>7
  <2>9. ap = [ch \in Channels |-> IF ch \in C THEN gp[ch] - 1 ELSE gp[ch]]
    BY <2>7
  <2>10. CommandStep(f[a], m, b)
    BY <1>1, <1>2, <2>2, <2>3, <2>5, <2>6, <2>8, <2>9 DEF CommandStep
  <2> QED BY <2>4, <2>10
<1> QED BY <1>4, <1>7, <1>8, <1>9

(* UNSUBSCRIBE of known channels finds them subscribed when it runs: every *)
(* confirmation of theirs is ahead of it.                                  *)
LEMMA GrowsUnsubscribe ==
  ASSUME NEW m \in Commands, m.kind = "unsubscribe", IsInjective(m.chans),
         NEW rs, NEW q \in Seq(Commands),
         \A i \in 1 .. Len(rs) : rs[i].k # "unsubscribe",
         \A j \in 1 .. Len(q) : q[j].kind # "unsubscribe",
         NEW G, G = {a \in Awaited : ToSet(m.chans) \subseteq Known(a)},
         NEW f, f = [a \in G |-> a]
  PROVE  /\ f \in [G -> Awaited]
         /\ KeepsReplies(f, G, rs) /\ KeepsCommands(f, G, q) /\ Completes(f, G, m)
<1>1. \A a \in G : a \in Awaited /\ ToSet(m.chans) \subseteq Known(a) /\ f[a] = a
  OBVIOUS
<1>2. f \in [G -> Awaited]
  OBVIOUS
<1>3. KeepsReplies(f, G, rs)
  <2> SUFFICES ASSUME NEW a \in G, NEW b \in Awaited, NEW x, x.k # "unsubscribe", ReplyStep(a, x, b)
               PROVE  b \in G /\ ReplyStep(f[a], x, f[b])
    BY DEF KeepsReplies
  <2>1. a.p \in [Channels -> Nat] /\ b.p \in [Channels -> Nat]
    BY <1>1, AwaitedIs
  <2>2. Known(a) \subseteq Known(b)
    <3>1. CASE b.v = a.v /\ b.p = a.p
      BY <3>1 DEF Known
    <3>2. CASE x.k = "subscribe" /\ x.ch \in Channels /\ b.v = a.v \cup {x.ch} /\ b.p = [a.p EXCEPT ![x.ch] = @ - 1]
      BY <2>1, <3>2 DEF Known
    <3> QED BY <3>1, <3>2 DEF ReplyStep
  <2>3. b \in G
    BY <1>1, <2>2
  <2> QED BY <1>1, <2>3
<1>4. KeepsCommands(f, G, q)
  <2> SUFFICES ASSUME NEW a \in G, NEW b \in Awaited, NEW k, k.kind # "unsubscribe", CommandStep(a, k, b)
               PROVE  b \in G /\ CommandStep(f[a], k, f[b])
    BY DEF KeepsCommands
  <2>1. a.p \in [Channels -> Nat] /\ b.p \in [Channels -> Nat]
    BY <1>1, AwaitedIs
  <2>2. Known(a) \subseteq Known(b)
    <3>1. CASE b.v = a.v /\ b.p = a.p
      BY <3>1 DEF Known
    <3>2. CASE k.kind = "subscribe" /\ b.v = a.v \cup ToSet(k.chans)
               /\ b.p = [ch \in Channels |-> IF ch \in ToSet(k.chans) THEN a.p[ch] - 1 ELSE a.p[ch]]
      BY <2>1, <3>2 DEF Known
    <3> QED BY <3>1, <3>2 DEF CommandStep
  <2>3. b \in G
    BY <1>1, <2>2
  <2> QED BY <1>1, <2>3
<1>5. Completes(f, G, m)
  <2> SUFFICES ASSUME NEW a \in G, Drained(a)
               PROVE  \E b \in Awaited : Drained(b) /\ CommandStep(f[a], m, b)
    BY <1>1 DEF Completes
  <2>1. PICK b : b = [r |-> a.r, i |-> a.i, v |-> a.v \ ToSet(m.chans), p |-> a.p]
    OBVIOUS
  <2>2. /\ a.r = <<>> /\ a.i = <<>> /\ \A ch \in Channels : a.p[ch] = 0
    BY DEF Drained
  <2>3. /\ b \in Expected /\ b.r = a.r /\ b.i = a.i /\ b.v = a.v \ ToSet(m.chans) /\ b.p = a.p
    BY <1>1, <2>1, AwaitedIs DEF Expected
  <2>4. b \in Awaited /\ Drained(b)
    BY <2>2, <2>3 DEF Awaited, Drained
  <2>5. ToSet(m.chans) \subseteq a.v
    BY <1>1, <2>2 DEF Known
  <2>6. CommandStep(f[a], m, b)
    BY <1>1, <2>2, <2>3, <2>5 DEF CommandStep
  <2> QED BY <2>4, <2>6
<1> QED BY <1>2, <1>3, <1>4, <1>5

(* One turn of the loop over the channels of SUBSCRIBE.                    *)
LEMMA AddedIs ==
  ASSUME NEW subs \in Subscriptions, NEW cb \in Callback, NEW ch \in Channels,
         NEW t, t = AddSubscription([cb |-> cb, subs |-> subs], ch)
  PROVE  /\ t.cb \in Callback /\ t.cb.id = cb.id /\ t.cb.fn = cb.fn
         /\ t.cb.pending = IF ch \in DOMAIN subs THEN subs[ch].pending + 1 ELSE cb.pending
         /\ ch \notin DOMAIN subs => t.cb = cb
         /\ t = [cb |-> t.cb, subs |-> t.subs]
         /\ t.subs \in Subscriptions /\ DOMAIN t.subs = DOMAIN subs \cup {ch}
         /\ t.subs[ch] = t.cb
         /\ \A x \in DOMAIN subs : x # ch => t.subs[x] = subs[x]
<1>1. /\ DOMAIN subs \subseteq Channels /\ \A x \in DOMAIN subs : subs[x] \in Callback
  BY SubscriptionsAre
<1>2. PICK new : new = IF ch \in DOMAIN subs THEN [cb EXCEPT !.pending = subs[ch].pending + 1] ELSE cb
  OBVIOUS
<1>3. /\ new \in Callback /\ new.id = cb.id /\ new.fn = cb.fn
      /\ new.pending = IF ch \in DOMAIN subs THEN subs[ch].pending + 1 ELSE cb.pending
      /\ ch \notin DOMAIN subs => new = cb
  <2>1. CASE ch \in DOMAIN subs
    <3>1. subs[ch] \in Callback /\ subs[ch].pending + 1 \in Int
      BY <1>1, <2>1 DEF Callback
    <3> QED BY <1>2, <2>1, <3>1 DEF Callback
  <2>2. CASE ch \notin DOMAIN subs
    BY <1>2, <2>2
  <2> QED BY <2>1, <2>2
<1>4. PICK s : s = [x \in DOMAIN subs \cup {ch} |-> IF x = ch THEN new ELSE subs[x]]
  OBVIOUS
<1>5. t = [cb |-> new, subs |-> s]
  BY <1>2, <1>4 DEF AddSubscription
<1>6. /\ DOMAIN s = DOMAIN subs \cup {ch} /\ s[ch] = new
      /\ \A x \in DOMAIN subs : x # ch => s[x] = subs[x]
      /\ s = [x \in DOMAIN s |-> s[x]] /\ DOMAIN s \subseteq Channels
      /\ \A x \in DOMAIN s : s[x] \in Callback
  BY <1>1, <1>3, <1>4
<1>7. s \in Subscriptions
  BY <1>6, SubscriptionsAre
<1> QED BY <1>3, <1>5, <1>6, <1>7

(* The subscriptions once cb is registered for the channels C.             *)
Subscribed(s, subs, cb, C) ==
  /\ s \in Subscriptions /\ DOMAIN s = DOMAIN subs \cup C
  /\ \A ch \in DOMAIN subs : ch \notin C => s[ch] = subs[ch]
  /\ \A ch \in C : /\ s[ch].id = cb.id /\ s[ch].fn = cb.fn
                   /\ s[ch].pending = IF ch \in DOMAIN subs THEN subs[ch].pending + 1 ELSE 1

(* The loop registers the callback for each channel, with one more         *)
(* confirmation to come; this needs one channel, or no known one, as the   *)
(* count of an earlier channel stays in cb.                                *)
LEMMA SubscribedTo ==
  ASSUME NEW m \in Commands, m.kind = "subscribe", IsInjective(m.chans),
         NEW subs \in Subscriptions, NEW cb \in Callback, cb.pending = 1,
         Len(m.chans) = 1 \/ ToSet(m.chans) \cap DOMAIN subs = {}
  PROVE  Subscribed(AddSubscriptions(subs, cb, m.chans), subs, cb, ToSet(m.chans))
<1>1. PICK n \in Nat : n = Len(m.chans)
  BY ChannelsOf
<1>2. /\ FirstChannels(m, 0) = {} /\ FirstChannels(m, n) = ToSet(m.chans)
      /\ ToSet(m.chans) \subseteq Channels
      /\ \A j \in 1 .. n :
              /\ m.chans[j] \in Channels /\ m.chans[j] \in ToSet(m.chans)
              /\ m.chans[j] \notin FirstChannels(m, j - 1)
              /\ FirstChannels(m, j) = FirstChannels(m, j - 1) \cup {m.chans[j]}
  BY <1>1, ChannelsOf
<1>3. PICK run : /\ run[0] = [cb |-> cb, subs |-> subs]
                 /\ \A i \in 1 .. n : run[i] = AddSubscription(run[i - 1], m.chans[i])
                 /\ AddSubscriptions(subs, cb, m.chans) = run[n].subs
  <2>1. PICK run : SubscribeRun(subs, cb, m.chans, run)
    BY <1>1, SubscribeSteps
  <2> QED BY <1>1, <2>1 DEF SubscribeRun
<1>4. CASE n = 1
  <2>1. PICK ch \in Channels : ch = m.chans[1]
    BY <1>2, <1>4
  <2>2. ToSet(m.chans) = {ch}
    <3>1. 1 \in 1 .. n /\ 1 - 1 = 0
      BY <1>4
    <3>2. FirstChannels(m, 1) = FirstChannels(m, 0) \cup {ch}
      BY <1>2, <2>1, <3>1
    <3> QED BY <1>2, <1>4, <3>2
  <2>3. PICK t : t = AddSubscription([cb |-> cb, subs |-> subs], ch)
    OBVIOUS
  <2>4. run[n] = t
    <3>1. 1 \in 1 .. n /\ 1 - 1 = 0
      BY <1>4
    <3>2. run[1] = AddSubscription(run[0], m.chans[1])
      BY <1>3, <3>1
    <3> QED BY <1>3, <1>4, <2>1, <2>3, <3>2
  <2>5. Subscribed(t.subs, subs, cb, {ch})
    BY <2>3, AddedIs DEF Subscribed
  <2> QED BY <1>3, <2>2, <2>4, <2>5
<1>5. CASE ToSet(m.chans) \cap DOMAIN subs = {}
  <2> DEFINE Q(i) == /\ run[i] = [cb |-> cb, subs |-> run[i].subs]
                     /\ run[i].subs \in Subscriptions
                     /\ DOMAIN run[i].subs = DOMAIN subs \cup FirstChannels(m, i)
                     /\ \A ch \in DOMAIN subs : run[i].subs[ch] = subs[ch]
                     /\ \A ch \in FirstChannels(m, i) : run[i].subs[ch] = cb
             P == {i \in Nat : Q(i)}
  <2>1. 0 \in P
    <3>1. run[0].subs = subs
      BY <1>3
    <3> QED BY <1>2, <1>3, <3>1
  <2>2. ASSUME NEW i \in 1 .. n, i - 1 \in P PROVE i \in P
    <3>0. PICK ch \in Channels : ch = m.chans[i]
      BY <1>2
    <3>1. PICK s, B, C : s = run[i - 1].subs /\ B = FirstChannels(m, i - 1) /\ C = FirstChannels(m, i)
      OBVIOUS
    <3>2. /\ run[i - 1] = [cb |-> cb, subs |-> s] /\ s \in Subscriptions
          /\ DOMAIN s = DOMAIN subs \cup B
          /\ \A x \in DOMAIN subs : s[x] = subs[x]
          /\ \A x \in B : s[x] = cb
      BY <2>2, <3>1
    <3>3. ch \notin B /\ ch \notin DOMAIN subs /\ C = B \cup {ch}
      BY <1>2, <1>5, <3>0, <3>1
    <3>4. PICK t : t = AddSubscription([cb |-> cb, subs |-> s], ch)
      OBVIOUS
    <3>5. run[i] = t
      BY <1>3, <3>0, <3>1, <3>2, <3>4
    <3>6. /\ t.cb = cb /\ t = [cb |-> t.cb, subs |-> t.subs]
          /\ t.subs \in Subscriptions /\ DOMAIN t.subs = DOMAIN s \cup {ch} /\ t.subs[ch] = t.cb
          /\ \A x \in DOMAIN s : x # ch => t.subs[x] = s[x]
      <4>1. s \in Subscriptions /\ ch \notin DOMAIN s
        BY <3>2, <3>3
      <4> QED BY <3>4, <4>1, AddedIs
    <3>7. /\ t = [cb |-> cb, subs |-> t.subs] /\ t.subs \in Subscriptions
          /\ DOMAIN t.subs = DOMAIN subs \cup C
          /\ \A x \in DOMAIN subs : t.subs[x] = subs[x]
          /\ \A x \in C : t.subs[x] = cb
      BY <3>2, <3>3, <3>6
    <3>8. i \in Nat
      OBVIOUS
    <3> QED BY <3>1, <3>5, <3>7, <3>8
  <2>3. 0 .. n \subseteq P
    <3> HIDE DEF P
    <3> QED BY <2>1, <2>2, BoundedInduction
  <2>4. n \in P
    BY <2>3
  <2>5. PICK s, C : s = run[n].subs /\ C = ToSet(m.chans)
    OBVIOUS
  <2>6. /\ s \in Subscriptions /\ DOMAIN s = DOMAIN subs \cup C
        /\ \A ch \in DOMAIN subs : s[ch] = subs[ch]
        /\ \A ch \in C : s[ch] = cb
    BY <1>2, <2>4, <2>5
  <2>7. Subscribed(s, subs, cb, C)
    BY <1>5, <2>5, <2>6 DEF Subscribed
  <2> QED BY <1>3, <2>5, <2>7
<1> QED BY <1>1, <1>4, <1>5

(* The context once redisAsyncCommand took m, and the callback it keeps.   *)
Enqueue(c, m) == [c EXCEPT !.obuf = Append(@, m), !.ev = @ \cup {"write"}]
Taken(c, m) == Enqueue(Register(c, m), m)
CallbackOf(m) == [id |-> m.id, fn |-> m.fn, pending |-> 1]

(* What the command changes whatever its kind.                             *)
Queued(c, d, m) ==
  /\ d \in Context /\ d.life = c.life /\ d.err = c.err /\ d.log = c.log
  /\ d.obuf = Append(c.obuf, m) /\ d.ev = c.ev \cup {"write"}
  /\ "CONNECTED" \in d.flags <=> "CONNECTED" \in c.flags

(* The callback __redisAsyncCommand makes of its arguments.                *)
LEMMA CallbackOfIs ==
  ASSUME NEW m \in Commands
  PROVE  LET cb == CallbackOf(m)
         IN /\ cb \in Callback /\ cb.id = m.id /\ cb.fn = m.fn /\ cb.pending = 1 /\ Serves(cb, m)
BY CommandsAssumption DEF CallbackOf, Callback, Ids, Serves

(* A context whose callbacks were registered, once the command is in obuf. *)
LEMMA QueuedIs ==
  ASSUME NEW c \in Context, NEW m \in Commands, NEW r, NEW d,
         r \in Context, r.life = c.life, r.err = c.err, r.log = c.log, r.obuf = c.obuf, r.ev = c.ev,
         "CONNECTED" \in r.flags <=> "CONNECTED" \in c.flags,
         d = Enqueue(r, m)
  PROVE  /\ Queued(c, d, m)
         /\ d.replies = r.replies /\ d.invalid = r.invalid /\ d.subs = r.subs /\ d.flags = r.flags
<1>1. r.obuf \in Seq(Commands) /\ r.ev \in SUBSET {"read", "write"}
  BY DEF Context
<1>2. Append(r.obuf, m) \in Seq(Commands) /\ r.ev \cup {"write"} \in SUBSET {"read", "write"}
  BY <1>1
<1>3. d \in Context
  BY <1>2 DEF Context, Enqueue
<1>4. /\ d.life = r.life /\ d.err = r.err /\ d.log = r.log /\ d.flags = r.flags
      /\ d.obuf = Append(r.obuf, m) /\ d.ev = r.ev \cup {"write"}
      /\ d.replies = r.replies /\ d.invalid = r.invalid /\ d.subs = r.subs
  BY DEF Context, Enqueue
<1> QED BY <1>3, <1>4 DEF Queued

(* A plain command waits for its reply, or to be refused.                  *)
LEMMA TakenPlain ==
  ASSUME NEW c \in Context, NEW m \in Commands, m.kind = "plain", NEW d, d = Taken(c, m)
  PROVE  /\ Queued(c, d, m) /\ d.flags = c.flags /\ d.subs = c.subs
         /\ "SUBSCRIBED" \in c.flags =>
              d.invalid = Append(c.invalid, CallbackOf(m)) /\ d.replies = c.replies
         /\ "SUBSCRIBED" \notin c.flags =>
              d.replies = Append(c.replies, CallbackOf(m)) /\ d.invalid = c.invalid
<1>1. PICK cb \in Callback : cb = CallbackOf(m)
  BY CallbackOfIs
<1>2. c.replies \in Seq(Callback) /\ c.invalid \in Seq(Callback)
  BY DEF Context
<1>3. Append(c.replies, cb) \in Seq(Callback) /\ Append(c.invalid, cb) \in Seq(Callback)
  BY <1>2
<1>4. PICK r : r = Register(c, m)
  OBVIOUS
<1>5. d = Enqueue(r, m)
  BY <1>4 DEF Taken
<1>6. CASE "SUBSCRIBED" \in c.flags
  <2>1. r = [c EXCEPT !.invalid = Append(@, cb)]
    BY <1>1, <1>4, <1>6 DEF Register, CallbackOf
  <2>2. /\ r \in Context /\ r.life = c.life /\ r.err = c.err /\ r.log = c.log /\ r.obuf = c.obuf
        /\ r.ev = c.ev /\ r.flags = c.flags /\ r.replies = c.replies /\ r.subs = c.subs
        /\ r.invalid = Append(c.invalid, cb)
    BY <1>3, <2>1 DEF Context
  <2> QED BY <1>1, <1>5, <1>6, <2>2, QueuedIs
<1>7. CASE "SUBSCRIBED" \notin c.flags
  <2>1. r = [c EXCEPT !.replies = Append(@, cb)]
    BY <1>1, <1>4, <1>7 DEF Register, CallbackOf
  <2>2. /\ r \in Context /\ r.life = c.life /\ r.err = c.err /\ r.log = c.log /\ r.obuf = c.obuf
        /\ r.ev = c.ev /\ r.flags = c.flags /\ r.invalid = c.invalid /\ r.subs = c.subs
        /\ r.replies = Append(c.replies, cb)
    BY <1>3, <2>1 DEF Context
  <2> QED BY <1>1, <1>5, <1>7, <2>2, QueuedIs
<1> QED BY <1>6, <1>7

(* SUBSCRIBE is in the dictionary.                                         *)
LEMMA TakenSubscribe ==
  ASSUME NEW c \in Context, NEW m \in Commands, m.kind = "subscribe", NEW d, d = Taken(c, m),
         IsInjective(m.chans), Len(m.chans) = 1 \/ ToSet(m.chans) \cap DOMAIN c.subs = {}
  PROVE  /\ Queued(c, d, m) /\ d.flags = c.flags \cup {"SUBSCRIBED"}
         /\ d.replies = c.replies /\ d.invalid = c.invalid
         /\ Subscribed(d.subs, c.subs, CallbackOf(m), ToSet(m.chans))
<1>1. PICK cb \in Callback : cb = CallbackOf(m) /\ cb.pending = 1
  BY CallbackOfIs
<1>2. PICK s : s = AddSubscriptions(c.subs, cb, m.chans)
  OBVIOUS
<1>3. c.subs \in Subscriptions /\ c.flags \in SUBSET Flags
  BY DEF Context
<1>4. Subscribed(s, c.subs, cb, ToSet(m.chans))
  BY <1>1, <1>2, <1>3, SubscribedTo
<1>5. s \in Subscriptions /\ c.flags \cup {"SUBSCRIBED"} \in SUBSET Flags
  BY <1>3, <1>4 DEF Subscribed, Flags
<1>6. PICK r : r = Register(c, m)
  OBVIOUS
<1>7. d = Enqueue(r, m)
  BY <1>6 DEF Taken
<1>8. r = [c EXCEPT !.flags = c.flags \cup {"SUBSCRIBED"}, !.subs = s]
  <2>1. Register(c, m) = [c EXCEPT !.flags = @ \cup {"SUBSCRIBED"},
                                   !.subs = AddSubscriptions(@, CallbackOf(m), m.chans)]
    BY DEF Register, CallbackOf
  <2> QED BY <1>1, <1>2, <1>6, <2>1
<1>9. /\ r \in Context /\ r.life = c.life /\ r.err = c.err /\ r.log = c.log /\ r.obuf = c.obuf
      /\ r.ev = c.ev /\ r.flags = c.flags \cup {"SUBSCRIBED"} /\ r.invalid = c.invalid
      /\ r.replies = c.replies /\ r.subs = s
  BY <1>5, <1>8 DEF Context
<1> QED BY <1>1, <1>4, <1>7, <1>9, QueuedIs

(* UNSUBSCRIBE has no callback of its own.                                 *)
LEMMA TakenUnsubscribe ==
  ASSUME NEW c \in Context, NEW m \in Commands, m.kind = "unsubscribe", NEW d, d = Taken(c, m)
  PROVE  /\ Queued(c, d, m) /\ d.flags = c.flags
         /\ d.replies = c.replies /\ d.invalid = c.invalid /\ d.subs = c.subs
<1>1. Register(c, m) = c
  BY DEF Register
<1>2. d = Enqueue(c, m)
  BY <1>1 DEF Taken
<1> QED BY <1>2, QueuedIs

(* MONITOR waits for its reply.                                            *)
LEMMA TakenMonitor ==
  ASSUME NEW c \in Context, NEW m \in Commands, m.kind = "monitor", NEW d, d = Taken(c, m)
  PROVE  /\ Queued(c, d, m) /\ d.flags = c.flags \cup {"MONITORING"}
         /\ d.replies = Append(c.replies, CallbackOf(m))
         /\ d.invalid = c.invalid /\ d.subs = c.subs
<1>1. PICK cb \in Callback : cb = CallbackOf(m)
  BY CallbackOfIs
<1>2. c.replies \in Seq(Callback) /\ c.flags \cup {"MONITORING"} \in SUBSET Flags
  BY DEF Context, Flags
<1>3. Append(c.replies, cb) \in Seq(Callback)
  BY <1>2
<1>4. PICK r : r = Register(c, m)
  OBVIOUS
<1>5. d = Enqueue(r, m)
  BY <1>4 DEF Taken
<1>6. r = [c EXCEPT !.flags = @ \cup {"MONITORING"}, !.replies = Append(@, cb)]
  BY <1>1, <1>4 DEF Register, CallbackOf
<1>7. /\ r \in Context /\ r.life = c.life /\ r.err = c.err /\ r.log = c.log /\ r.obuf = c.obuf
      /\ r.ev = c.ev /\ r.flags = c.flags \cup {"MONITORING"} /\ r.invalid = c.invalid
      /\ r.replies = Append(c.replies, cb) /\ r.subs = c.subs
  BY <1>2, <1>3, <1>6 DEF Context
<1> QED BY <1>1, <1>5, <1>7, QueuedIs

(* A command that is not MONITOR.                                          *)
LEMMA WithoutMonitor ==
  ASSUME NEW I \in SUBSET Commands, NEW m, ~Monitors(I), m.kind # "monitor"
  PROVE  ~Monitors(I \cup {m})
BY DEF Monitors

(* No UNSUBSCRIBE is under way.                                            *)
NoUnsubscribe(rs, q) ==
  /\ \A i \in 1 .. Len(rs) : rs[i].k # "unsubscribe"
  /\ \A j \in 1 .. Len(q) : q[j].kind # "unsubscribe"

(* The replies that answer commands are some of those on their way.        *)
LEMMA UnderstoodIs ==
  ASSUME NEW rs \in Seq(Reply), NEW up
  PROVE  /\ Len(Understood(rs, up)) \in Nat
         /\ \A q : NoUnsubscribe(rs, q) => NoUnsubscribe(Understood(rs, up), q)
<1>1. Understood(rs, up) = rs \/ Understood(rs, up) = <<>>
  BY DEF Understood
<1>2. Len(<<>>) = 0 /\ Len(rs) \in Nat
  OBVIOUS
<1> QED BY <1>1, <1>2 DEF NoUnsubscribe

(* A queue of served callbacks with one more.                              *)
LEMMA ServedStill ==
  ASSUME NEW I \in SUBSET Commands, NEW m \in Commands, NEW cb \in Callback, Serves(cb, m),
         NEW s \in Seq(Callback), m.kind = "plain",
         \A j \in 1 .. Len(s) : \E k \in I : k.kind = "plain" /\ Serves(s[j], k)
  PROVE  \A j \in 1 .. Len(Append(s, cb)) : \E k \in I \cup {m} : k.kind = "plain" /\ Serves(Append(s, cb)[j], k)
<1>1. /\ Len(Append(s, cb)) = Len(s) + 1 /\ Len(s) \in Nat /\ Append(s, cb)[Len(s) + 1] = cb
      /\ \A j \in 1 .. Len(s) : Append(s, cb)[j] = s[j]
  OBVIOUS
<1> SUFFICES ASSUME NEW j \in 1 .. (Len(s) + 1)
             PROVE  \E k \in I \cup {m} : k.kind = "plain" /\ Serves(Append(s, cb)[j], k)
  BY <1>1
<1>2. j = Len(s) + 1 \/ j \in 1 .. Len(s)
  BY <1>1
<1> QED BY <1>1, <1>2

(* redisAsyncCommand of a plain command when not subscribed.               *)
LEMMA TakesWaiting ==
  ASSUME NEW I \in SUBSET Commands, NEW c, NEW rs \in Seq(Reply), NEW q \in Seq(Commands), NEW v,
         NEW up \in BOOLEAN, NormalMode(c, I, rs, q, v, up),
         NEW m \in Commands, m.kind = "plain", "SUBSCRIBED" \notin c.flags, NEW d, d = Taken(c, m)
  PROVE  /\ NormalMode(d, I \cup {m}, rs, Append(q, m), v, up)
         /\ Waits(d) = WithPlain(Waits(c), m.id)
<1>1. ~Monitors(I) /\ Normal(c, I) /\ c \in Context /\ Pipeline(c, Understood(rs, up), q, v, up)
  BY DEF NormalMode, Normal
<1>2. PICK cb \in Callback : cb = CallbackOf(m) /\ Serves(cb, m) /\ cb.id = m.id
  BY CallbackOfIs
<1>3. /\ Queued(c, d, m) /\ d.flags = c.flags /\ d.subs = c.subs
      /\ d.replies = Append(c.replies, cb) /\ d.invalid = c.invalid
  BY <1>1, <1>2, TakenPlain
<1>4. c.replies \in Seq(Callback) /\ c.invalid \in Seq(Callback) /\ d \in Context
  BY <1>1, <1>3 DEF Context, Queued
<1>5. Normal(d, I \cup {m})
  <2>1. \A j \in 1 .. Len(d.replies) : \E k \in I \cup {m} : k.kind = "plain" /\ Serves(d.replies[j], k)
    BY <1>1, <1>2, <1>3, <1>4, ServedStill DEF Normal
  <2> QED BY <1>1, <1>3, <1>4, <2>1 DEF Normal
<1>6. PICK G : G = {a \in Awaited : Known(a) = {}}
  OBVIOUS
<1>7. PICK f : f = [a \in G |-> AddReply(a, cb)]
  OBVIOUS
<1>8. PICK us : us = Understood(rs, up)
  OBVIOUS
<1>9. /\ f \in [G -> Awaited] /\ G \in SUBSET Awaited
      /\ KeepsReplies(f, G, us) /\ KeepsCommands(f, G, q) /\ Completes(f, G, m)
  BY <1>2, <1>6, <1>7, GrowsReply
<1>10. ASSUME NEW a \in Awaited, Matches(c, a) PROVE a \in G /\ Matches(d, f[a])
  <2>1. Known(a) = {}
    BY <1>1, <1>10 DEF Normal, Matches
  <2>2. a \in G
    BY <1>6, <2>1
  <2>3. f[a] = AddReply(a, cb)
    BY <1>7, <2>2
  <2>4. f[a].r = Append(a.r, cb) /\ f[a].i = a.i /\ f[a].v = a.v /\ f[a].p = a.p
    BY <2>3 DEF AddReply
  <2>5. Known(f[a]) = Known(a)
    BY <2>4 DEF Known
  <2> QED BY <1>3, <1>10, <2>2, <2>4, <2>5 DEF Matches
<1>11. Len(us) \in Nat
  BY <1>8, UnderstoodIs
<1>12. Pipeline(d, us, Append(q, m), v, up)
  BY <1>1, <1>8, <1>9, <1>10, <1>11, PipelineGrows
<1>13. NormalMode(d, I \cup {m}, rs, Append(q, m), v, up)
  BY <1>1, <1>5, <1>8, <1>12, WithoutMonitor DEF NormalMode
<1>14. c.invalid = <<>>
  <2>1. PICK T : Follows(T, us) /\ Matches(c, T[0])
    BY <1>1, <1>8 DEF Pipeline
  <2>2. T[0] \in Awaited
    BY <1>11, <2>1 DEF Follows
  <2>3. Known(T[0]) = {}
    BY <1>1, <2>1 DEF Normal, Matches
  <2> QED BY <2>1, <2>2, <2>3, AwaitedIs DEF Matches
<1>15. d.replies \o d.invalid = Append(c.replies \o c.invalid, cb) /\ c.replies \o c.invalid \in Seq(Callback)
  BY <1>3, <1>4, <1>14
<1>16. Waits(d) = WithPlain(Waits(c), m.id)
  BY <1>2, <1>15, IdsAppend DEF Waits
<1> QED BY <1>13, <1>16

(* redisAsyncCommand of a plain command when subscribed.                   *)
LEMMA TakesInvalid ==
  ASSUME NEW I \in SUBSET Commands, NEW c, NEW rs \in Seq(Reply), NEW q \in Seq(Commands), NEW v,
         NEW up \in BOOLEAN, NormalMode(c, I, rs, q, v, up), NoUnsubscribe(rs, q),
         NEW m \in Commands, m.kind = "plain", "SUBSCRIBED" \in c.flags, NEW d, d = Taken(c, m)
  PROVE  /\ NormalMode(d, I \cup {m}, rs, Append(q, m), v, up)
         /\ Waits(d) = WithPlain(Waits(c), m.id)
<1>1. ~Monitors(I) /\ Normal(c, I) /\ c \in Context /\ Pipeline(c, Understood(rs, up), q, v, up)
  BY DEF NormalMode, Normal
<1>2. PICK cb \in Callback : cb = CallbackOf(m) /\ Serves(cb, m) /\ cb.id = m.id
  BY CallbackOfIs
<1>3. /\ Queued(c, d, m) /\ d.flags = c.flags /\ d.subs = c.subs
      /\ d.invalid = Append(c.invalid, cb) /\ d.replies = c.replies
  BY <1>1, <1>2, TakenPlain
<1>4. c.replies \in Seq(Callback) /\ c.invalid \in Seq(Callback) /\ d \in Context
  BY <1>1, <1>3 DEF Context, Queued
<1>5. Normal(d, I \cup {m})
  <2>1. \A j \in 1 .. Len(d.invalid) : \E k \in I \cup {m} : k.kind = "plain" /\ Serves(d.invalid[j], k)
    BY <1>1, <1>2, <1>3, <1>4, ServedStill DEF Normal
  <2> QED BY <1>1, <1>3, <1>4, <2>1 DEF Normal
<1>6. PICK G : G = {a \in Awaited : Known(a) # {}}
  OBVIOUS
<1>7. PICK f : f = [a \in G |-> AddInvalid(a, cb)]
  OBVIOUS
<1>8. PICK us : us = Understood(rs, up)
  OBVIOUS
<1>11. Len(us) \in Nat /\ NoUnsubscribe(us, q)
  BY <1>8, UnderstoodIs
<1>9. /\ f \in [G -> Awaited] /\ G \in SUBSET Awaited
      /\ KeepsReplies(f, G, us) /\ KeepsCommands(f, G, q) /\ Completes(f, G, m)
  BY <1>2, <1>6, <1>7, <1>11, GrowsInvalid DEF NoUnsubscribe
<1>10. ASSUME NEW a \in Awaited, Matches(c, a) PROVE a \in G /\ Matches(d, f[a])
  <2>1. Known(a) # {}
    BY <1>1, <1>10 DEF Normal, Matches
  <2>2. a \in G
    BY <1>6, <2>1
  <2>3. f[a] = AddInvalid(a, cb)
    BY <1>7, <2>2
  <2>4. f[a].r = a.r /\ f[a].i = Append(a.i, cb) /\ f[a].v = a.v /\ f[a].p = a.p
    BY <2>3 DEF AddInvalid
  <2>5. Known(f[a]) = Known(a)
    BY <2>4 DEF Known
  <2> QED BY <1>3, <1>10, <2>2, <2>4, <2>5 DEF Matches
<1>12. Pipeline(d, us, Append(q, m), v, up)
  BY <1>1, <1>8, <1>9, <1>10, <1>11, PipelineGrows
<1>13. NormalMode(d, I \cup {m}, rs, Append(q, m), v, up)
  BY <1>1, <1>5, <1>8, <1>12, WithoutMonitor DEF NormalMode
<1>15. d.replies \o d.invalid = Append(c.replies \o c.invalid, cb) /\ c.replies \o c.invalid \in Seq(Callback)
  <2>1. PICK s \in Seq(Callback), t \in Seq(Callback) : s = c.replies /\ t = c.invalid
    BY <1>4
  <2>2. s \o Append(t, cb) = Append(s \o t, cb) /\ s \o t \in Seq(Callback)
    OBVIOUS
  <2> QED BY <1>3, <2>1, <2>2
<1>16. Waits(d) = WithPlain(Waits(c), m.id)
  BY <1>2, <1>15, IdsAppend DEF Waits
<1> QED BY <1>13, <1>16

(* Other commands are not waited for.                                      *)
LEMMA OnlyPlain ==
  ASSUME NEW m \in Commands, m.kind # "plain"
  PROVE  m.id \notin PlainIds /\ \A s : WithPlain(s, m.id) = s
<1>1. m.id \notin PlainIds
  BY CommandsAssumption DEF PlainIds
<1> QED BY <1>1 DEF WithPlain

(* redisAsyncCommand of UNSUBSCRIBE.                                       *)
LEMMA TakesUnsubscribe ==
  ASSUME NEW I \in SUBSET Commands, NEW c, NEW rs \in Seq(Reply), NEW q \in Seq(Commands), NEW v,
         NEW up \in BOOLEAN, NormalMode(c, I, rs, q, v, up), NoUnsubscribe(rs, q),
         NEW m \in Commands, m.kind = "unsubscribe", IsInjective(m.chans),
         ToSet(m.chans) \subseteq DOMAIN c.subs, NEW d, d = Taken(c, m)
  PROVE  /\ NormalMode(d, I \cup {m}, rs, Append(q, m), v, up)
         /\ Waits(d) = WithPlain(Waits(c), m.id)
<1>1. ~Monitors(I) /\ Normal(c, I) /\ c \in Context /\ Pipeline(c, Understood(rs, up), q, v, up)
  BY DEF NormalMode, Normal
<1>3. /\ Queued(c, d, m) /\ d.flags = c.flags
      /\ d.replies = c.replies /\ d.invalid = c.invalid /\ d.subs = c.subs
  BY <1>1, TakenUnsubscribe
<1>5. Normal(d, I \cup {m})
  BY <1>1, <1>3 DEF Normal, Queued
<1>6. PICK G : G = {a \in Awaited : ToSet(m.chans) \subseteq Known(a)}
  OBVIOUS
<1>7. PICK f : f = [a \in G |-> a]
  OBVIOUS
<1>8. PICK us : us = Understood(rs, up)
  OBVIOUS
<1>11. Len(us) \in Nat /\ NoUnsubscribe(us, q)
  BY <1>8, UnderstoodIs
<1>9. /\ f \in [G -> Awaited] /\ G \in SUBSET Awaited
      /\ KeepsReplies(f, G, us) /\ KeepsCommands(f, G, q) /\ Completes(f, G, m)
  BY <1>6, <1>7, <1>11, GrowsUnsubscribe DEF NoUnsubscribe
<1>10. ASSUME NEW a \in Awaited, Matches(c, a) PROVE a \in G /\ Matches(d, f[a])
  <2>2. a \in G
    BY <1>6, <1>10 DEF Matches
  <2>3. f[a] = a
    BY <1>7, <2>2
  <2> QED BY <1>3, <1>10, <2>2, <2>3 DEF Matches
<1>12. Pipeline(d, us, Append(q, m), v, up)
  BY <1>1, <1>8, <1>9, <1>10, <1>11, PipelineGrows
<1>13. NormalMode(d, I \cup {m}, rs, Append(q, m), v, up)
  BY <1>1, <1>5, <1>8, <1>12, WithoutMonitor DEF NormalMode
<1>14. Waits(d) = WithPlain(Waits(c), m.id)
  BY <1>3, OnlyPlain DEF Waits
<1> QED BY <1>13, <1>14

(* redisAsyncCommand of SUBSCRIBE.                                         *)
LEMMA TakesSubscribe ==
  ASSUME NEW I \in SUBSET Commands, NEW c, NEW rs \in Seq(Reply), NEW q \in Seq(Commands), NEW v,
         NEW up \in BOOLEAN, NormalMode(c, I, rs, q, v, up),
         NEW m \in Commands, m.kind = "subscribe", IsInjective(m.chans),
         Len(m.chans) = 1 \/ ToSet(m.chans) \cap DOMAIN c.subs = {}, NEW d, d = Taken(c, m)
  PROVE  /\ NormalMode(d, I \cup {m}, rs, Append(q, m), v, up)
         /\ Waits(d) = WithPlain(Waits(c), m.id)
<1>1. ~Monitors(I) /\ Normal(c, I) /\ c \in Context /\ Pipeline(c, Understood(rs, up), q, v, up)
  BY DEF NormalMode, Normal
<1>2. PICK cb \in Callback : cb = CallbackOf(m) /\ Serves(cb, m) /\ cb.id = m.id
  BY CallbackOfIs
<1>0. PICK C \in SUBSET Channels : C = ToSet(m.chans) /\ C # {}
  BY NonEmptyChannels
<1>3. /\ Queued(c, d, m) /\ d.flags = c.flags \cup {"SUBSCRIBED"}
      /\ d.replies = c.replies /\ d.invalid = c.invalid
      /\ Subscribed(d.subs, c.subs, cb, C)
  BY <1>0, <1>1, <1>2, TakenSubscribe
<1>4. /\ d.subs \in Subscriptions /\ DOMAIN d.subs = DOMAIN c.subs \cup C
      /\ \A ch \in DOMAIN c.subs : ch \notin C => d.subs[ch] = c.subs[ch]
      /\ \A ch \in C : /\ d.subs[ch].id = cb.id /\ d.subs[ch].fn = cb.fn
                       /\ d.subs[ch].pending = IF ch \in DOMAIN c.subs THEN c.subs[ch].pending + 1 ELSE 1
  BY <1>3 DEF Subscribed
<1>5. Normal(d, I \cup {m})
  <2>1. \A ch \in DOMAIN d.subs :
       \E k \in I \cup {m} : k.kind = "subscribe" /\ Serves(d.subs[ch], k) /\ ch \in ToSet(k.chans)
    <3> SUFFICES ASSUME NEW ch \in DOMAIN d.subs
                 PROVE  \E k \in I \cup {m} : k.kind = "subscribe" /\ Serves(d.subs[ch], k) /\ ch \in ToSet(k.chans)
      OBVIOUS
    <3>1. CASE ch \in C
      BY <1>0, <1>2, <1>4, <3>1 DEF Serves
    <3>2. CASE ch \notin C
      BY <1>1, <1>4, <3>2 DEF Normal
    <3> QED BY <3>1, <3>2
  <2>2. IsFiniteSet(DOMAIN d.subs)
    <3>1. PICK s \in Seq(Channels) : s = m.chans
      BY CommandsAssumption
    <3>2. IsFiniteSet(1 .. Len(s)) /\ DOMAIN s = 1 .. Len(s)
      BY FS_Interval
    <3>3. s \in Surjection(1 .. Len(s), ToSet(s))
      BY DEF Surjection, ToSet
    <3>4. IsFiniteSet(C)
      BY <1>0, <3>1, <3>2, <3>3, FS_Surjection
    <3>5. IsFiniteSet(DOMAIN c.subs)
      BY <1>1 DEF Normal
    <3>6. IsFiniteSet(DOMAIN c.subs \cup C)
      BY <3>4, <3>5, FS_Union
    <3> QED BY <1>4, <3>6
  <2>3. d \in Context /\ "MONITORING" \notin d.flags /\ "SUBSCRIBED" \in d.flags /\ DOMAIN d.subs # {}
    BY <1>0, <1>1, <1>3, <1>4 DEF Normal, Queued
  <2> QED BY <1>1, <1>3, <2>1, <2>2, <2>3 DEF Normal
<1>7. PICK f : f = [a \in Awaited |-> AddPending(a, C)]
  OBVIOUS
<1>8. PICK us : us = Understood(rs, up)
  OBVIOUS
<1>9. /\ f \in [Awaited -> Awaited] /\ Awaited \in SUBSET Awaited
      /\ KeepsReplies(f, Awaited, us) /\ KeepsCommands(f, Awaited, q) /\ Completes(f, Awaited, m)
  BY <1>0, <1>7, GrowsPending
<1>10. ASSUME NEW a \in Awaited, Matches(c, a) PROVE Matches(d, f[a])
  <2>1. PICK g : g = AddPending(a, C)
    OBVIOUS
  <2>2. f[a] = g
    BY <1>7, <2>1
  <2>3. /\ g.r = a.r /\ g.i = a.i /\ Known(g) = Known(a) \cup C
        /\ \A ch \in Channels : g.p[ch] = IF ch \in C THEN a.p[ch] + 1 ELSE a.p[ch]
    <3>1. g.r = a.r /\ g.i = a.i
      BY <2>1 DEF AddPending
    <3>2. Known(g) = Known(a) \cup C
      BY <1>0, <2>1, AddPendingIs
    <3>3. g.p = [ch \in Channels |-> IF ch \in C THEN a.p[ch] + 1 ELSE a.p[ch]]
      BY <2>1 DEF AddPending
    <3> QED BY <3>1, <3>2, <3>3
  <2>4. /\ a.r = c.replies /\ a.i = c.invalid /\ DOMAIN c.subs = Known(a)
        /\ \A ch \in DOMAIN c.subs : c.subs[ch].pending = a.p[ch]
    BY <1>10 DEF Matches
  <2>5. ASSUME NEW ch \in DOMAIN d.subs PROVE d.subs[ch].pending = g.p[ch]
    <3>0. ch \in Channels /\ DOMAIN d.subs = DOMAIN c.subs \cup C
      BY <1>4, SubscriptionsAre
    <3>1. CASE ch \in C /\ ch \in DOMAIN c.subs
      BY <1>4, <2>3, <2>4, <3>0, <3>1
    <3>2. CASE ch \in C /\ ch \notin DOMAIN c.subs
      <4>1. a.p[ch] = 0
        BY <2>4, <3>0, <3>2, AwaitedIs DEF Known
      <4> QED BY <1>4, <2>3, <3>0, <3>2, <4>1
    <3>3. CASE ch \notin C
      BY <1>4, <2>3, <2>4, <3>0, <3>3
    <3> QED BY <3>1, <3>2, <3>3
  <2> QED BY <1>3, <1>4, <2>2, <2>3, <2>4, <2>5 DEF Matches
<1>11. Len(us) \in Nat
  BY <1>8, UnderstoodIs
<1>12. Pipeline(d, us, Append(q, m), v, up)
  BY <1>1, <1>8, <1>9, <1>10, <1>11, PipelineGrows
<1>13. NormalMode(d, I \cup {m}, rs, Append(q, m), v, up)
  BY <1>1, <1>5, <1>8, <1>12, WithoutMonitor DEF NormalMode
<1>14. Waits(d) = WithPlain(Waits(c), m.id)
  BY <1>3, OnlyPlain DEF Waits
<1> QED BY <1>13, <1>14

(* A context that expects nothing gets no reply, and has sent no command.  *)
LEMMA NothingAwaited ==
  ASSUME NEW a \in Awaited, a.r = <<>>, a.i = <<>>, Known(a) = {}
  PROVE  /\ \A x, b : ~ReplyStep(a, x, b)
         /\ \A k \in Commands : \A b : ~CommandStep(a, k, b)
<1>1. a.v = {} /\ \A ch \in Channels : ~(a.p[ch] > 0)
  BY DEF Known
<1>2. \A x, b : ~ReplyStep(a, x, b)
  BY <1>1 DEF ReplyStep
<1>3. ASSUME NEW k \in Commands, NEW b PROVE ~CommandStep(a, k, b)
  <2>1. k.kind \in {"subscribe", "unsubscribe"} => ToSet(k.chans) # {} /\ ToSet(k.chans) \subseteq Channels
    BY NonEmptyChannels
  <2> QED BY <1>1, <2>1 DEF CommandStep
<1> QED BY <1>2, <1>3

(* redisAsyncCommand of MONITOR, the first command of its context.         *)
LEMMA TakesMonitor ==
  ASSUME NEW c, NEW rs \in Seq(Reply), NEW q \in Seq(Commands), NEW v,
         NEW up \in BOOLEAN, NormalMode(c, {}, rs, q, v, up),
         NEW m \in Commands, m.kind = "monitor", NEW d, d = Taken(c, m)
  PROVE  /\ MonitorMode(d, {m}, rs, Append(q, m), v, up)
         /\ Waits(d) = WithPlain(Waits(c), m.id)
<1>1. Normal(c, {}) /\ c \in Context /\ Pipeline(c, Understood(rs, up), q, v, up)
  BY DEF NormalMode, Normal
<1>2. c.replies \in Seq(Callback) /\ c.invalid \in Seq(Callback) /\ c.subs \in Subscriptions
  BY <1>1 DEF Context
<1>3. /\ ~\E j \in 1 .. Len(c.replies) : TRUE
      /\ ~\E j \in 1 .. Len(c.invalid) : TRUE
      /\ DOMAIN c.subs = {}
  BY <1>1 DEF Normal
<1>4. c.replies = <<>> /\ c.invalid = <<>>
  <2>1. ASSUME NEW s \in Seq(Callback), ~\E j \in 1 .. Len(s) : TRUE PROVE s = <<>>
    <3>1. ~(1 \in 1 .. Len(s))
      BY <2>1
    <3> QED BY <3>1
  <2> QED BY <1>2, <1>3, <2>1
<1>5. c.subs = <<>>
  <2>1. c.subs = [ch \in DOMAIN c.subs |-> c.subs[ch]]
    BY <1>2, SubscriptionsAre
  <2> QED BY <1>3, <2>1
<1>6. PICK cb \in Callback : cb = CallbackOf(m)
  BY CallbackOfIs
<1>7. /\ Queued(c, d, m) /\ d.flags = c.flags \cup {"MONITORING"}
      /\ d.replies = Append(c.replies, cb) /\ d.invalid = c.invalid /\ d.subs = c.subs
  BY <1>1, <1>6, TakenMonitor
<1>8. Monitoring(d, m)
  <2>1. cb \in MonitorCallbacks(m)
    BY <1>6 DEF CallbackOf, MonitorCallbacks
  <2>2. d.replies \in Seq(MonitorCallbacks(m))
    <3>1. PICK M : M = MonitorCallbacks(m)
      OBVIOUS
    <3>2. Append(<<>>, cb) \in Seq(M)
      BY <2>1, <3>1
    <3> QED BY <1>4, <1>7, <3>1, <3>2
  <2>3. "SUBSCRIBED" \notin c.flags
    BY <1>1, <1>3 DEF Normal
  <2> QED BY <1>4, <1>5, <1>7, <2>2, <2>3 DEF Monitoring, Queued
<1>9. PICK us : us = Understood(rs, up)
  OBVIOUS
<1>10. PICK T, U :
        /\ Follows(T, us) /\ Matches(c, T[0])
        /\ up => /\ Executes(U, q) /\ U[0] = T[Len(us)] /\ U[0].v = v
                 /\ Drained(U[Len(q)])
  BY <1>1, <1>9 DEF Pipeline
<1>11. Len(us) \in Nat
  BY <1>9, UnderstoodIs
<1>12. PICK a \in Awaited : a = T[0]
  BY <1>10, <1>11 DEF Follows
<1>13. /\ a.r = <<>> /\ a.i = <<>> /\ Known(a) = {} /\ a.v = {}
       /\ \A x, b : ~ReplyStep(a, x, b)
       /\ \A k \in Commands : \A b : ~CommandStep(a, k, b)
  <2>1. a.r = <<>> /\ a.i = <<>> /\ Known(a) = {}
    BY <1>3, <1>4, <1>10, <1>12 DEF Matches
  <2> QED BY <2>1, NothingAwaited DEF Known
<1>14. Len(us) = 0
  <2>1. ASSUME 1 \in 1 .. Len(us) PROVE FALSE
    <3>1. ReplyStep(T[1 - 1], us[1], T[1]) /\ 1 - 1 = 0
      BY <1>10, <2>1 DEF Follows
    <3> QED BY <1>12, <1>13, <3>1
  <2> QED BY <1>11, <2>1
<1>15. \A i \in 1 .. Len(rs) : rs[i].k \in {"status", "error"}
  <2>1. CASE us = rs
    BY <1>14, <2>1
  <2>2. CASE rs = Greeting
    BY <2>2 DEF Greeting
  <2> QED BY <1>9, <2>1, <2>2 DEF Understood
<1>16. ASSUME up PROVE Append(q, m) \in Seq({m}) /\ v = {}
  <2>1. Executes(U, q) /\ U[0] = a /\ U[0].v = v
    BY <1>10, <1>12, <1>14, <1>16
  <2>2. v = {}
    BY <1>13, <2>1
  <2>3. ASSUME 1 \in 1 .. Len(q) PROVE FALSE
    <3>1. CommandStep(U[1 - 1], q[1], U[1]) /\ 1 - 1 = 0 /\ q[1] \in Commands
      BY <2>1, <2>3 DEF Executes
    <3> QED BY <1>13, <2>1, <3>1
  <2>4. q = <<>>
    BY <2>3
  <2> QED BY <2>2, <2>4
<1>17. MonitorMode(d, {m}, rs, Append(q, m), v, up)
  BY <1>8, <1>15, <1>16 DEF MonitorMode
<1>18. d.replies \o d.invalid = Append(c.replies \o c.invalid, cb) /\ c.replies \o c.invalid \in Seq(Callback)
  BY <1>4, <1>7
<1>19. Waits(d) = WithPlain(Waits(c), m.id)
  BY <1>6, <1>18, IdsAppend, CallbackOfIs DEF Waits
<1> QED BY <1>17, <1>19

(* A command not sent has an id of its own.                                *)
LEMMA FreshId ==
  ASSUME NEW I \in SUBSET Commands, NEW m \in Commands, m \notin I
  PROVE  m.id \notin IdsIn(I) /\ m.id # "onConnect" /\ IdsIn(I) \subseteq IdsIn(I \cup {m})
BY CommandsAssumption DEF IdsIn

(* The log stays right when a command is taken.                            *)
LEMMA LogStaysLive ==
  ASSUME NEW I \in SUBSET Commands, NEW m \in Commands, m \notin I, NEW l, LogLive(l, I)
  PROVE  LogLive(l, I \cup {m})
<1>1. m.id \notin IdsIn(I) /\ m.id # "onConnect" /\ IdsIn(I) \subseteq IdsIn(I \cup {m})
  BY FreshId
<1>2. ASSUME NEW i \in 1 .. Len(l)
      PROVE  Right(l[i], I \cup {m}) /\ l[i].to \in IdsIn(I \cup {m}) \cup {"onConnect"}
  <2>1. Right(l[i], I) /\ l[i].to \in IdsIn(I) \cup {"onConnect"}
    BY DEF LogLive
  <2> QED BY <1>1, <2>1 DEF Right
<1> QED BY <1>2 DEF LogLive

(* redisAsyncCommand keeps the invariant; the command waits last.          *)
LEMMA CommandKeeps ==
  ASSUME IInv, orderly', NEW m \in Commands, redisAsyncCommand(m)
  PROVE  /\ IInv' /\ ac.life = "live" /\ ac'.life = "live" /\ Live(ac, issued) /\ Live(ac', issued')
         /\ ac'.log = ac.log /\ Waits(ac') = WithPlain(Waits(ac), m.id)
         /\ m \notin issued /\ issued' = issued \cup {m}
<1>1. /\ ac.life = "live" /\ m \notin issued /\ IsOrderly(m) /\ Accepts(ac, m)
      /\ issued' = issued \cup {m} /\ ac' = Taken(ac, m)
      /\ UNCHANGED <<link, wire, inbuf, srvsubs, msgs>>
  BY DEF redisAsyncCommand, Taken, Enqueue
<1>2. PICK q, up, d : q = wire \o ac.obuf /\ up = (link # "lost") /\ d = Taken(ac, m)
  OBVIOUS
<1>3. /\ FarTypes /\ Live(ac, issued) /\ LinkAgrees /\ up \in BOOLEAN
      /\ Mode(ac, issued, inbuf, q, srvsubs, up)
      /\ issued \in SUBSET Commands /\ inbuf \in Seq(Reply) /\ wire \in Seq(Commands)
  BY <1>1, <1>2 DEF IInv, FarTypes
<1>4. ac \in Context /\ ac.obuf \in Seq(Commands) /\ LogLive(ac.log, issued)
  BY <1>3 DEF Live, Context
<1>5. q \in Seq(Commands)
  BY <1>2, <1>3, <1>4
<1>6. NormalMode(ac, issued, inbuf, q, srvsubs, up)
  <2>1. \A i \in issued : i.kind # "monitor"
    BY <1>1 DEF IsOrderly
  <2>2. ~MonitorMode(ac, issued, inbuf, q, srvsubs, up)
    BY <2>1 DEF MonitorMode, Monitoring
  <2> QED BY <1>3, <2>2 DEF Mode
<1>7. ~UnsubscribeAwaited => NoUnsubscribe(inbuf, q)
  <2> SUFFICES ASSUME ~UnsubscribeAwaited PROVE NoUnsubscribe(inbuf, q)
    OBVIOUS
  <2>1. /\ \A x \in ToSet(ac.obuf) : x.kind # "unsubscribe"
        /\ \A x \in ToSet(wire) : x.kind # "unsubscribe"
        /\ \A x \in ToSet(inbuf) : x.k # "unsubscribe"
    BY DEF UnsubscribeAwaited, Unanswered
  <2>2. ASSUME NEW S, NEW s \in Seq(S), NEW j \in 1 .. Len(s) PROVE s[j] \in ToSet(s)
    BY DEF ToSet
  <2>3. \A i \in 1 .. Len(inbuf) : inbuf[i].k # "unsubscribe"
    BY <1>3, <2>1, <2>2
  <2>4. \A i \in 1 .. Len(wire) : wire[i].kind # "unsubscribe"
    BY <1>3, <2>1, <2>2
  <2>5. \A i \in 1 .. Len(ac.obuf) : ac.obuf[i].kind # "unsubscribe"
    BY <1>4, <2>1, <2>2
  <2>6. ASSUME NEW j \in 1 .. Len(q) PROVE q[j].kind # "unsubscribe"
    <3>1. PICK b \in Seq(Commands), o \in Seq(Commands) : b = wire /\ o = ac.obuf
      BY <1>3, <1>4
    <3>2. /\ Len(q) = Len(b) + Len(o) /\ Len(b) \in Nat /\ Len(o) \in Nat
          /\ \A i \in 1 .. Len(b) : q[i] = b[i]
          /\ \A i \in 1 .. Len(o) : q[Len(b) + i] = o[i]
      BY <1>2, <3>1, ConcatProperties
    <3>3. CASE j <= Len(b)
      <4>1. j \in 1 .. Len(b)
        BY <3>2, <3>3
      <4> QED BY <2>4, <3>1, <3>2, <4>1
    <3>4. CASE ~(j <= Len(b))
      <4>1. PICK i \in 1 .. Len(o) : j = Len(b) + i
        <5>1. j - Len(b) \in 1 .. Len(o)
          BY <3>2, <3>4, PastFirst
        <5>2. j = Len(b) + (j - Len(b))
          BY <3>2
        <5> QED BY <5>1, <5>2
      <4> QED BY <2>5, <3>1, <3>2, <4>1
    <3> QED BY <3>3, <3>4
  <2> QED BY <2>3, <2>6 DEF NoUnsubscribe
<1>8. PICK I \in SUBSET Commands, rs \in Seq(Reply) : I = issued /\ rs = inbuf
  BY <1>3
<1>9. PICK c, v : c = ac /\ v = srvsubs
  OBVIOUS
<1>10. NormalMode(c, I, rs, q, v, up) /\ up \in BOOLEAN /\ d = Taken(c, m)
  BY <1>2, <1>3, <1>6, <1>8, <1>9
<1>11. /\ Mode(d, issued \cup {m}, inbuf, Append(q, m), srvsubs, up)
      /\ Waits(d) = WithPlain(Waits(ac), m.id) /\ Queued(ac, d, m)
  <2>1. CASE m.kind = "plain"
    <3>1. NoUnsubscribe(inbuf, q)
      BY <1>1, <1>7, <2>1 DEF IsOrderly
    <3>2. CASE "SUBSCRIBED" \in ac.flags
      <4>1. /\ NormalMode(d, issued \cup {m}, inbuf, Append(q, m), srvsubs, up)
            /\ Waits(d) = WithPlain(Waits(ac), m.id)
        <5>1. NoUnsubscribe(rs, q) /\ "SUBSCRIBED" \in c.flags
          BY <1>8, <1>9, <3>1, <3>2
        <5>2. NormalMode(d, I \cup {m}, rs, Append(q, m), v, up) /\ Waits(d) = WithPlain(Waits(c), m.id)
          BY <1>5, <1>10, <2>1, <5>1, TakesInvalid
        <5> QED BY <1>8, <1>9, <5>2
      <4>2. Queued(ac, d, m)
        BY <1>2, <1>4, <2>1, TakenPlain
      <4> QED BY <4>1, <4>2 DEF Mode
    <3>3. CASE "SUBSCRIBED" \notin ac.flags
      <4>1. /\ NormalMode(d, issued \cup {m}, inbuf, Append(q, m), srvsubs, up)
            /\ Waits(d) = WithPlain(Waits(ac), m.id)
        <5>1. "SUBSCRIBED" \notin c.flags
          BY <1>8, <1>9, <3>3
        <5>2. NormalMode(d, I \cup {m}, rs, Append(q, m), v, up) /\ Waits(d) = WithPlain(Waits(c), m.id)
          <6>1. NormalMode(c, I, rs, q, v, up) /\ up \in BOOLEAN
            BY <1>10
          <6>2. d = Taken(c, m) /\ "SUBSCRIBED" \notin c.flags
            BY <1>10, <5>1
          <6> QED BY ONLY <1>5, <2>1, <6>1, <6>2, TakesWaiting, m \in Commands, I \in SUBSET Commands,
                          rs \in Seq(Reply)
        <5> QED BY <1>8, <1>9, <5>2
      <4>2. Queued(ac, d, m)
        BY <1>2, <1>4, <2>1, TakenPlain
      <4> QED BY <4>1, <4>2 DEF Mode
    <3> QED BY <3>2, <3>3
  <2>2. CASE m.kind = "subscribe"
    <3>1. IsInjective(m.chans) /\ (Len(m.chans) = 1 \/ ToSet(m.chans) \cap DOMAIN ac.subs = {})
      BY <1>1, <2>2 DEF IsOrderly
    <3>2. /\ NormalMode(d, issued \cup {m}, inbuf, Append(q, m), srvsubs, up)
          /\ Waits(d) = WithPlain(Waits(ac), m.id)
      <4>1. IsInjective(m.chans) /\ (Len(m.chans) = 1 \/ ToSet(m.chans) \cap DOMAIN c.subs = {})
        BY <1>8, <1>9, <3>1
      <4>2. NormalMode(d, I \cup {m}, rs, Append(q, m), v, up) /\ Waits(d) = WithPlain(Waits(c), m.id)
        BY <1>5, <1>10, <2>2, <4>1, TakesSubscribe
      <4> QED BY <1>8, <1>9, <4>2
    <3>3. Queued(ac, d, m)
      BY <1>2, <1>4, <2>2, <3>1, TakenSubscribe
    <3> QED BY <3>2, <3>3 DEF Mode
  <2>3. CASE m.kind = "unsubscribe"
    <3>1. IsInjective(m.chans) /\ ToSet(m.chans) \subseteq DOMAIN ac.subs /\ NoUnsubscribe(inbuf, q)
      BY <1>1, <1>7, <2>3 DEF IsOrderly
    <3>2. /\ NormalMode(d, issued \cup {m}, inbuf, Append(q, m), srvsubs, up)
          /\ Waits(d) = WithPlain(Waits(ac), m.id)
      <4>1. IsInjective(m.chans) /\ ToSet(m.chans) \subseteq DOMAIN c.subs /\ NoUnsubscribe(rs, q)
        BY <1>8, <1>9, <3>1
      <4>2. NormalMode(d, I \cup {m}, rs, Append(q, m), v, up) /\ Waits(d) = WithPlain(Waits(c), m.id)
        BY <1>5, <1>10, <2>3, <4>1, TakesUnsubscribe
      <4> QED BY <1>8, <1>9, <4>2
    <3>3. Queued(ac, d, m)
      BY <1>2, <1>4, <2>3, <3>1, TakenUnsubscribe
    <3> QED BY <3>2, <3>3 DEF Mode
  <2>4. CASE m.kind = "monitor"
    <3>1. issued = {}
      BY <1>1, <2>4 DEF IsOrderly
    <3>2. NormalMode(ac, {}, inbuf, q, srvsubs, up)
      BY <1>6, <3>1
    <3>3. /\ MonitorMode(d, {m}, inbuf, Append(q, m), srvsubs, up)
          /\ Waits(d) = WithPlain(Waits(ac), m.id)
      BY <1>2, <1>3, <1>5, <2>4, <3>2, TakesMonitor
    <3>4. {} \cup {m} = {m}
      OBVIOUS
    <3>5. Mode(d, issued \cup {m}, inbuf, Append(q, m), srvsubs, up)
      BY <3>1, <3>3, <3>4 DEF Mode
    <3> QED BY <1>2, <1>4, <2>4, <3>3, <3>5, TakenMonitor
  <2> QED BY <2>1, <2>2, <2>3, <2>4, CommandsAssumption DEF Kinds
<1>12. wire \o d.obuf = Append(q, m)
  <2>1. PICK b \in Seq(Commands), o \in Seq(Commands) : b = wire /\ o = ac.obuf
    BY <1>3, <1>4
  <2>2. b \o Append(o, m) = Append(b \o o, m)
    OBVIOUS
  <2> QED BY <1>2, <1>11, <2>1, <2>2 DEF Queued
<1>13. Mode(ac', issued', inbuf', wire' \o ac'.obuf, srvsubs', link' # "lost")
  BY <1>1, <1>2, <1>11, <1>12
<1>14. LogLive(d.log, issued \cup {m})
  BY <1>1, <1>3, <1>4, <1>11, LogStaysLive DEF Queued
<1>15. Live(d, issued \cup {m})
  BY <1>1, <1>3, <1>11, <1>14 DEF Live, Queued, Watched
<1>16. FarTypes'
  BY <1>1, <1>3 DEF FarTypes
<1>17. LinkAgrees'
  BY <1>1, <1>2, <1>3, <1>11 DEF LinkAgrees, Queued
<1>18. ac' = d /\ d.life = "live" /\ d.log = ac.log
  BY <1>1, <1>2, <1>11 DEF Queued
<1>19. Live(ac', issued') /\ ac'.life = "live"
  BY <1>1, <1>15, <1>18
<1>20. IInv'
  BY <1>13, <1>16, <1>17, <1>19 DEF IInv
<1> QED BY <1>1, <1>3, <1>11, <1>18, <1>19, <1>20

-----------------------------------------------------------------------------
(* The invariant holds.                                                    *)

(* A fresh context satisfies the invariant.                                *)
LEMMA InitKept == Init => IInv
<1> SUFFICES ASSUME Init PROVE IInv
  OBVIOUS
<1>1. /\ ac = [life |-> "live", flags |-> {}, err |-> FALSE, obuf |-> <<>>,
               replies |-> <<>>, invalid |-> <<>>, subs |-> <<>>,
               ev |-> {"write"}, log |-> <<>>]
      /\ issued = {} /\ link = "connecting"
      /\ wire = <<>> /\ inbuf = <<>> /\ srvsubs = {} /\ msgs = 0
  BY DEF Init
<1>2. /\ ac.life = "live" /\ ac.flags = {} /\ ac.err = FALSE /\ ac.obuf = <<>> /\ ac.replies = <<>>
      /\ ac.invalid = <<>> /\ ac.subs = <<>> /\ ac.ev = {"write"} /\ ac.log = <<>>
  BY <1>1
<1>3. ac \in Context
  <2>1. PICK z : z = <<>>
    OBVIOUS
  <2>2. /\ z \in Seq(Commands) /\ z \in Seq(Callback) /\ z \in Subscriptions /\ z \in Seq(Entry)
    BY <2>1, EmptySubscriptions
  <2>3. {} \in SUBSET Flags /\ {"write"} \in SUBSET {"read", "write"}
    OBVIOUS
  <2> QED BY <1>1, <2>1, <2>2, <2>3 DEF Context
<1>4. FarTypes
  BY <1>1, FS_EmptySet, BoundAssumption DEF FarTypes
<1>5. Live(ac, issued) /\ LinkAgrees
  <2>1. LogLive(<<>>, issued) /\ ~HasLogged(<<>>, "onConnect")
    BY DEF LogLive, HasLogged
  <2> QED BY <1>1, <1>2, <1>3, <2>1 DEF Live, Watched, LinkAgrees
<1>6. DOMAIN ac.subs = {}
  BY <1>2
<1>7. Normal(ac, {})
  <2>1. Len(<<>>) = 0 /\ IsFiniteSet({})
    BY FS_EmptySet
  <2> QED BY <1>2, <1>3, <1>6, <2>1 DEF Normal
<1>8. PICK a : a = [r |-> <<>>, i |-> <<>>, v |-> {}, p |-> [ch \in Channels |-> 0]]
  OBVIOUS
<1>9. a \in Expected /\ a.r = <<>> /\ a.i = <<>> /\ a.v = {} /\ \A ch \in Channels : a.p[ch] = 0
  <2>0. <<>> \in Seq(Callback) /\ [ch \in Channels |-> 0] \in [Channels -> Nat]
    OBVIOUS
  <2>1. PICK z : z = <<>> /\ z \in Seq(Callback)
    BY <2>0
  <2>2. PICK p \in [Channels -> Nat] : p = [ch \in Channels |-> 0]
    BY <2>0
  <2>3. a = [r |-> z, i |-> z, v |-> {}, p |-> p]
    BY <1>8, <2>1, <2>2
  <2>4. a \in Expected /\ a.r = z /\ a.i = z /\ a.v = {} /\ a.p = p
    BY <2>1, <2>2, <2>3 DEF Expected
  <2> QED BY <2>1, <2>2, <2>4
<1>10. a \in Awaited /\ Known(a) = {} /\ Drained(a)
  BY <1>9 DEF Awaited, Known, Drained
<1>11. Matches(ac, a)
  BY <1>2, <1>6, <1>9, <1>10 DEF Matches
<1>12. PICK T : T = [i \in 0 .. 0 |-> a]
  OBVIOUS
<1>13. Follows(T, <<>>) /\ Executes(T, <<>>) /\ T[0] = a
  BY <1>10, <1>12 DEF Follows, Executes
<1>14. Len(<<>>) = 0
  OBVIOUS
<1>15. Pipeline(ac, <<>>, <<>>, {}, TRUE)
  BY <1>9, <1>10, <1>11, <1>13, <1>14 DEF Pipeline
<1>16. Understood(<<>>, TRUE) = <<>> /\ ~Monitors({})
  BY DEF Understood, Monitors
<1>17. Mode(ac, {}, <<>>, <<>>, {}, TRUE)
  BY <1>7, <1>15, <1>16 DEF Mode, NormalMode
<1>18. wire \o ac.obuf = <<>> /\ (link # "lost") = TRUE
  BY <1>1, <1>2
<1>19. Mode(ac, issued, inbuf, wire \o ac.obuf, srvsubs, link # "lost")
  BY <1>1, <1>17, <1>18
<1> QED BY <1>2, <1>4, <1>5, <1>19 DEF IInv

(* Every step keeps the invariant.                                         *)
LEMMA NextKept ==
  ASSUME orderly', IInv, [Next]_vars
  PROVE  IInv'
<1>1. ASSUME NEW what \in SUBSET {"read", "write"}, redisLibeventHandler(what) PROVE IInv'
  BY <1>1, HandlerAdvances
<1>2. ASSUME NEW m \in Commands, redisAsyncCommand(m) PROVE IInv'
  BY <1>2, CommandKeeps
<1>3. CASE UNCHANGED vars
  BY <1>3 DEF vars, IInv, FarTypes, LinkAgrees
<1>4. CASE Done
  BY <1>3, <1>4 DEF Done
<1> QED
  BY <1>1, <1>2, <1>3, <1>4, DisconnectAdvances, FreeAdvances, ConnectKeeps, LoseKeeps, ServeKeeps,
     PublishKeeps DEF Next, Handle

(* The invariant implies the property.                                     *)
LEMMA InvariantSound == IInv => ContextIsSound
<1> SUFFICES ASSUME IInv PROVE ContextIsSound
  OBVIOUS
<1>1. /\ FarTypes /\ ac \in Context /\ ac.life \in {"live", "freed"} /\ LogRight(ac.log, issued)
      /\ ac.life = "freed" => ac.ev = {}
  <2>1. CASE ac.life = "live"
    BY <2>1 DEF IInv, Live, LogLive, LogRight
  <2>2. CASE ac.life # "live"
    BY <2>2 DEF IInv, Gone
  <2> QED BY <2>1, <2>2
<1>2. TypeOK
  <2>1. /\ ac.flags \in SUBSET Flags /\ ac.obuf \in Seq(Commands) /\ ac.replies \in Seq(Callback)
        /\ ac.invalid \in Seq(Callback) /\ ac.subs \in Subscriptions /\ ac.ev \in SUBSET {"read", "write"}
    BY <1>1 DEF Context
  <2>2. DOMAIN ac.subs \subseteq Channels /\ \A ch \in DOMAIN ac.subs : ac.subs[ch] \in Callback
    BY <2>1, SubscriptionsAre
  <2> QED BY <1>1, <2>1, <2>2 DEF TypeOK, FarTypes, Flags
<1>3. RepliesReachTheirCommand
  <2> SUFFICES ASSUME NEW i \in 1 .. Len(ac.log), NEW m \in issued, NEW e, e = ac.log[i],
                      e.to = m.id, e.got # NULL
               PROVE  Answers(e.got, m)
    BY Zenon DEF RepliesReachTheirCommand, Answers
  <2> QED BY <1>1 DEF LogRight, Right
<1>4. AssertsHold
  BY <1>1 DEF AssertsHold
<1>5. SubscriptionsAgree
  <2> SUFFICES ASSUME ac.life = "live", link = "up", ac.obuf = <<>>, wire = <<>>, inbuf = <<>>
               PROVE  /\ DOMAIN ac.subs = srvsubs
                      /\ \A ch \in DOMAIN ac.subs : ac.subs[ch].pending = 0
                      /\ "SUBSCRIBED" \in ac.flags <=> srvsubs # {}
    BY DEF SubscriptionsAgree
  <2>1. Mode(ac, issued, <<>>, <<>>, srvsubs, TRUE)
    <3>1. wire \o ac.obuf = <<>> /\ (link # "lost") = TRUE
      OBVIOUS
    <3> QED BY <3>1 DEF IInv
  <2>2. CASE MonitorMode(ac, issued, <<>>, <<>>, srvsubs, TRUE)
    <3>1. ac.subs = <<>> /\ "SUBSCRIBED" \notin ac.flags /\ srvsubs = {}
      BY <2>2 DEF MonitorMode, Monitoring
    <3> QED BY <3>1
  <2>3. CASE NormalMode(ac, issued, <<>>, <<>>, srvsubs, TRUE)
    <3>1. Understood(<<>>, TRUE) = <<>> /\ Len(<<>>) = 0 /\ Normal(ac, issued)
      BY <2>3 DEF Understood, NormalMode
    <3>2. PICK T, U : /\ Follows(T, <<>>) /\ Matches(ac, T[0])
                      /\ Executes(U, <<>>) /\ U[0] = T[0] /\ U[0].v = srvsubs /\ Drained(U[0])
      BY <2>3, <3>1 DEF NormalMode, Pipeline
    <3>3. PICK a : a = T[0] /\ a.v = srvsubs /\ Drained(a) /\ Matches(ac, a) /\ a \in Awaited
      BY <3>1, <3>2 DEF Follows
    <3>4. Known(a) = srvsubs
      BY <3>3 DEF Known, Drained
    <3>5. DOMAIN ac.subs = srvsubs /\ \A ch \in DOMAIN ac.subs : ac.subs[ch].pending = a.p[ch]
      BY <3>3, <3>4 DEF Matches
    <3>6. srvsubs \in SUBSET Channels
      BY <1>1 DEF FarTypes
    <3> QED BY <3>1, <3>3, <3>5, <3>6 DEF Drained, Normal
  <2> QED BY <2>1, <2>2, <2>3 DEF Mode
<1>6. WorkIsWatched
  BY DEF WorkIsWatched, IInv, Live, Watched
<1> QED BY <1>2, <1>3, <1>4, <1>5, <1>6 DEF ContextIsSound

-----------------------------------------------------------------------------
(* Commands in any order.                                                  *)

(* A live context within a handler, and at the return to the event loop:   *)
(* it keeps callbacks of commands only, its log tells of the connection    *)
(* and not of its end, and output that waits is watched.                   *)
Working(c) ==
  /\ c \in Context /\ c.life = "live" /\ c.err = FALSE /\ AllApt(c)
  /\ ~HasLogged(c.log, "onDisconnect")
  /\ "CONNECTED" \in c.flags <=> HasLogged(c.log, "onConnect")
  /\ c.obuf # <<>> => "write" \in c.ev

Alive(c) == Working(c) /\ Watched(c)

(* d is what is left of c when it was freed, or when an assert failed.     *)
Parted(c, d) ==
  /\ d \in Context /\ d.life \in {"freed", "aborted"}
  /\ d.life = "freed" => d.ev = {}
  /\ d.life = "freed" /\ "CONNECTED" \in c.flags => HasLogged(d.log, "onDisconnect")

(* What a part of a handler leaves of c.                                   *)
Onward(c, d) ==
  \/ /\ Working(d) /\ d.ev = c.ev
     /\ "CONNECTED" \in d.flags <=> "CONNECTED" \in c.flags
  \/ Parted(c, d)

(* __redisAsyncFree, of any context.                                       *)
LEMMA FreeParts ==
  ASSUME NEW c \in Context, AllApt(c)
  PROVE  Parted(c, AsyncFree(c))
<1>1. PICK f : f = AsyncFree(c)
  OBVIOUS
<1>2. FreedFrom(c, f)
  BY <1>1, FreeFields
<1>3. ASSUME "CONNECTED" \in c.flags PROVE HasLogged(f.log, "onDisconnect")
  <2>1. PICK l \in Seq(Entry), st \in {"OK", "ERR"} :
          f.log = Append(l, [to |-> "onDisconnect", got |-> st])
    BY <1>2, <1>3 DEF FreedFrom
  <2>2. PICK e \in Entry : e = [to |-> "onDisconnect", got |-> st]
    BY DEF Entry
  <2>3. e.to = "onDisconnect" /\ f.log = Append(l, e)
    BY <2>1, <2>2
  <2> QED BY <2>3, LogAppend
<1> QED BY <1>1, <1>2, <1>3 DEF Parted, FreedFrom

(* A failure frees any context.                                            *)
LEMMA FailParts ==
  ASSUME NEW c \in Context, AllApt(c)
  PROVE  Parted(c, Fail(c))
<1> DEFINE d == [c EXCEPT !.err = TRUE]
           e == [d EXCEPT !.flags = @ \cup {"DISCONNECTING"}]
<1>1. d \in Context /\ d.err = TRUE
  BY DEF Context
<1>2. /\ e \in Context /\ e.replies = c.replies /\ e.invalid = c.invalid /\ e.subs = c.subs
      /\ e.flags = c.flags \cup {"DISCONNECTING"}
  BY DEF Context, Flags
<1>3. Fail(c) = AsyncFree(e)
  BY <1>1 DEF Fail, AsyncDisconnect
<1> HIDE DEF d, e
<1>4. AllApt(e)
  BY <1>2 DEF AllApt
<1>5. Parted(e, Fail(c))
  BY <1>2, <1>3, <1>4, FreeParts
<1> QED BY <1>2, <1>5 DEF Parted

(* A reply of any kind given to a callback of any command.                 *)
LEMMA GivenAny ==
  ASSUME NEW c, Working(c), NEW cb, Apt(cb), NEW x \in Reply
  PROVE  Onward(c, Given(c, cb, x))
<1>1. PICK d : d = RunCallback(c, cb, x)
  OBVIOUS
<1>2. c \in Context /\ c.log \in Seq(Entry) /\ cb \in Callback
  BY DEF Working, Context, Apt
<1>3. /\ d \in Context /\ d.life = c.life /\ SameWork(c, d)
      /\ d.flags = c.flags \cup (CASE cb.fn = "disconnect" -> {"DISCONNECTING"}
                                   [] cb.fn = "free" -> {"FREEING"} [] OTHER -> {})
      /\ d.log = IF cb.fn = "null" THEN c.log ELSE Append(c.log, [to |-> cb.id, got |-> x])
  BY <1>1, <1>2, RunCallbackFields
<1>4. "CONNECTED" \in d.flags <=> "CONNECTED" \in c.flags
  BY <1>3
<1>5. AllApt(d)
  BY <1>3 DEF SameWork, AllApt, Working
<1>6. \A who \in {"onConnect", "onDisconnect"} : HasLogged(d.log, who) <=> HasLogged(c.log, who)
  <2>1. CASE cb.fn = "null"
    BY <1>3, <2>1
  <2>2. CASE cb.fn # "null"
    <3>1. PICK e : e = [to |-> cb.id, got |-> x]
      OBVIOUS
    <3>2. e \in Entry /\ e.to \in Ids
      BY <1>2, <2>2, <3>1 DEF Entry, Apt
    <3>3. \A who : HasLogged(d.log, who) <=> HasLogged(c.log, who) \/ e.to = who
      BY <1>2, <1>3, <2>2, <3>1, <3>2, LogAppend
    <3> QED BY <3>2, <3>3, NotPlain
  <2> QED BY <2>1, <2>2
<1>7. Working(d) /\ d.ev = c.ev
  BY <1>3, <1>4, <1>5, <1>6 DEF Working, SameWork
<1>8. Given(c, cb, x) \in {d, AsyncFree(d)}
  BY <1>1, Zenon DEF Given
<1>9. CASE Given(c, cb, x) = d
  BY <1>4, <1>7, <1>9 DEF Onward
<1>10. CASE Given(c, cb, x) = AsyncFree(d)
  <2>1. Parted(d, AsyncFree(d))
    BY <1>3, <1>5, FreeParts
  <2>2. PICK f : f = AsyncFree(d)
    OBVIOUS
  <2>3. Parted(c, f)
    BY <1>4, <2>1, <2>2 DEF Parted
  <2> QED BY <1>10, <2>2, <2>3 DEF Onward
<1> QED BY <1>8, <1>9, <1>10

(* A callback is found for any reply, by position, by channel, or none,    *)
(* and the others are kept.                                                *)
Picked(s, t) ==
  \E d, b : /\ t = [c |-> d, cb |-> b] /\ Working(d) /\ Apt(b) /\ d.ev = s.c.ev
            /\ "CONNECTED" \in d.flags <=> "CONNECTED" \in s.c.flags

(* The oldest callback of a queue, and the rest of it.                     *)
LEMMA PoppedApt ==
  ASSUME NEW q \in Seq(Callback), \A j \in 1 .. Len(q) : Apt(q[j]), q # <<>>
  PROVE  /\ Apt(Head(q)) /\ Tail(q) \in Seq(Callback)
         /\ \A j \in 1 .. Len(Tail(q)) : Apt(Tail(q)[j])
<1>1. Head(q) = q[1] /\ 1 \in 1 .. Len(q) /\ Tail(q) \in Seq(Callback)
  OBVIOUS
<1>2. \A j \in 1 .. Len(Tail(q)) : Tail(q)[j] = q[j + 1] /\ j + 1 \in 1 .. Len(q)
  OBVIOUS
<1> QED BY <1>1, <1>2

(* __redisGetSubscribeCallback on a reply to a channel it knows.           *)
LEMMA ChannelPicked ==
  ASSUME NEW s, Pair(s), Working(s.c), NEW x \in Reply, x.k \in {"subscribe", "unsubscribe", "message"},
         x.ch \in DOMAIN s.c.subs
  PROVE  Picked(s, GetSubscribeCallback(s.c, x, s.cb))
<1>1. PICK c, ch, cb : c = s.c /\ ch = x.ch /\ cb = s.cb
  OBVIOUS
<1>2. c \in Context /\ AllApt(c) /\ c.subs \in Subscriptions /\ c.flags \in SUBSET Flags
  BY <1>1 DEF Working, Context
<1>3. PICK old : old = c.subs[ch] /\ old \in Callback /\ Apt(old) /\ old.id \notin PlainIds
  BY <1>1, <1>2 DEF AllApt, Apt
<1>4. PICK p : p = IF x.k = "subscribe" THEN old.pending - 1 ELSE old.pending
  OBVIOUS
<1>5. p \in Int
  BY <1>3, <1>4 DEF Callback
<1>6. PICK new : new = [old EXCEPT !.pending = p]
  OBVIOUS
<1>7. new \in Callback /\ new.id = old.id /\ new.fn = old.fn
  BY <1>3, <1>5, <1>6, RecountCallback
<1>8. Apt(new) /\ new.id \notin PlainIds
  BY <1>3, <1>7 DEF Apt
<1>9. PICK S : S = SubsAfter(c, x, new)
  OBVIOUS
<1>10. /\ c.subs = [y \in DOMAIN c.subs |-> c.subs[y]] /\ DOMAIN c.subs \subseteq Channels
       /\ \A y \in DOMAIN c.subs : c.subs[y] \in Callback
  BY <1>2, SubscriptionsAre
<1>11. /\ S = [y \in DOMAIN S |-> S[y]] /\ DOMAIN S \subseteq DOMAIN c.subs
       /\ \A y \in DOMAIN S : S[y] \in {c.subs[y], new}
  BY <1>1, <1>9, <1>10 DEF SubsAfter
<1>12. S \in Subscriptions
  <2>1. DOMAIN S \subseteq Channels /\ \A y \in DOMAIN S : S[y] \in Callback
    BY <1>7, <1>10, <1>11
  <2> QED BY <1>11, <2>1, SubscriptionsAre
<1>13. IsFiniteSet(DOMAIN S) /\ \A y \in DOMAIN S : Apt(S[y]) /\ S[y].id \notin PlainIds
  BY <1>2, <1>8, <1>11, FS_Subset DEF AllApt
<1>14. PICK F : F = IF x.k = "unsubscribe" /\ x.n = 0 /\ DOMAIN S = {}
                    THEN c.flags \ {"SUBSCRIBED"} ELSE c.flags
  OBVIOUS
<1>15. F \in SUBSET Flags /\ ("CONNECTED" \in F <=> "CONNECTED" \in c.flags)
  BY <1>2, <1>14
<1>16. PICK d : d = [c EXCEPT !.subs = S, !.flags = F]
  OBVIOUS
<1>17. /\ d \in Context /\ d.subs = S /\ d.flags = F /\ d.life = c.life /\ d.log = c.log
       /\ d.obuf = c.obuf /\ d.ev = c.ev /\ d.err = c.err
       /\ d.replies = c.replies /\ d.invalid = c.invalid
  BY <1>2, <1>12, <1>15, <1>16 DEF Context
<1>18. GetSubscribeCallback(c, x, cb) = [c |-> d, cb |-> new]
  <2>1. [old EXCEPT !.pending = IF x.k = "subscribe" THEN @ - 1 ELSE @] = new
    BY <1>4, <1>6
  <2>2. GetSubscribeCallback(c, x, cb) =
          LET o == c.subs[x.ch]
              n == [o EXCEPT !.pending = IF x.k = "subscribe" THEN @ - 1 ELSE @]
              subs == IF x.k = "unsubscribe" /\ n.pending = 0
                      THEN [y \in DOMAIN c.subs \ {x.ch} |-> c.subs[y]]
                      ELSE [c.subs EXCEPT ![x.ch] = n]
              last == x.k = "unsubscribe" /\ x.n = 0 /\ DOMAIN subs = {}
          IN [c |-> [c EXCEPT !.subs = subs, !.flags = IF last THEN @ \ {"SUBSCRIBED"} ELSE @],
              cb |-> n]
    <3>1. x.k # "status" /\ ~(x.ch \notin DOMAIN c.subs)
      BY <1>1
    <3> QED BY <3>1, Zenon DEF GetSubscribeCallback
  <2>3. GetSubscribeCallback(c, x, cb) =
          [c |-> [c EXCEPT !.subs = S,
                           !.flags = IF x.k = "unsubscribe" /\ x.n = 0 /\ DOMAIN S = {}
                                     THEN @ \ {"SUBSCRIBED"} ELSE @],
           cb |-> new]
    BY <1>1, <1>3, <1>9, <2>1, <2>2 DEF SubsAfter
  <2>4. [c EXCEPT !.subs = S, !.flags = IF x.k = "unsubscribe" /\ x.n = 0 /\ DOMAIN S = {}
                                        THEN @ \ {"SUBSCRIBED"} ELSE @] = d
    BY <1>14, <1>16
  <2> QED BY <2>3, <2>4
<1>19. AllApt(d)
  BY <1>2, <1>13, <1>17 DEF AllApt
<1>20. Working(d)
  BY <1>1, <1>15, <1>17, <1>19 DEF Working
<1> QED BY <1>1, <1>8, <1>15, <1>17, <1>18, <1>20 DEF Picked

(* redisProcessCallbacks finds a callback for a reply that it does not     *)
(* refuse.                                                                 *)
LEMMA RoutePicked ==
  ASSUME NEW s, Pair(s), Working(s.c), Apt(s.cb), NEW x \in Reply,
         ~(s.c.replies = <<>> /\ x.k = "error")
  PROVE  Picked(s, Route(s, x))
<1>1. PICK c, cb : c = s.c /\ cb = s.cb
  OBVIOUS
<1>2. /\ c \in Context /\ AllApt(c) /\ c.replies \in Seq(Callback) /\ c.invalid \in Seq(Callback)
      /\ s = [c |-> c, cb |-> cb]
  BY <1>1 DEF Working, Context, Pair
<1>3. CASE c.replies # <<>>
  <2>1. PICK h, q : h = Head(c.replies) /\ q = Tail(c.replies)
    OBVIOUS
  <2>2. Apt(h) /\ q \in Seq(Callback) /\ \A j \in 1 .. Len(q) : Apt(q[j])
    BY <1>2, <1>3, <2>1, PoppedApt DEF AllApt
  <2>3. PICK d : d = [c EXCEPT !.replies = q]
    OBVIOUS
  <2>4. /\ d \in Context /\ d.replies = q /\ d.flags = c.flags /\ d.life = c.life /\ d.log = c.log
        /\ d.obuf = c.obuf /\ d.ev = c.ev /\ d.err = c.err
        /\ d.subs = c.subs /\ d.invalid = c.invalid
    BY <1>2, <2>2, <2>3 DEF Context
  <2>5. AllApt(d)
    BY <1>2, <2>2, <2>4 DEF AllApt
  <2>6. Working(d)
    BY <1>1, <2>4, <2>5 DEF Working
  <2>7. Route(s, x) = [c |-> d, cb |-> h]
    BY <1>1, <1>3, <2>1, <2>3 DEF Route
  <2> QED BY <1>1, <2>2, <2>4, <2>6, <2>7 DEF Picked
<1>4. CASE c.replies = <<>> /\ "SUBSCRIBED" \notin c.flags
  <2>1. Route(s, x) = [c |-> c, cb |-> cb]
    BY <1>1, <1>2, <1>4 DEF Route
  <2> QED BY <1>1, <2>1 DEF Picked
<1>5. CASE c.replies = <<>> /\ "SUBSCRIBED" \in c.flags
  <2>1. Route(s, x) = GetSubscribeCallback(c, x, cb)
    BY <1>1, <1>5 DEF Route
  <2>2. x.k \in {"status", "subscribe", "unsubscribe", "message"}
    BY <1>1, <1>5 DEF Reply
  <2>3. CASE x.k = "status" /\ c.invalid = <<>>
    <3>1. Route(s, x) = [c |-> c, cb |-> cb]
      BY <2>1, <2>3 DEF GetSubscribeCallback
    <3> QED BY <1>1, <3>1 DEF Picked
  <2>4. CASE x.k = "status" /\ c.invalid # <<>>
    <3>1. PICK h, q : h = Head(c.invalid) /\ q = Tail(c.invalid)
      OBVIOUS
    <3>2. Apt(h) /\ q \in Seq(Callback) /\ \A j \in 1 .. Len(q) : Apt(q[j])
      BY <1>2, <2>4, <3>1, PoppedApt DEF AllApt
    <3>3. PICK d : d = [c EXCEPT !.invalid = q]
      OBVIOUS
    <3>4. /\ d \in Context /\ d.invalid = q /\ d.flags = c.flags /\ d.life = c.life /\ d.log = c.log
          /\ d.obuf = c.obuf /\ d.ev = c.ev /\ d.err = c.err
          /\ d.subs = c.subs /\ d.replies = c.replies
      BY <1>2, <3>2, <3>3 DEF Context
    <3>5. AllApt(d)
      BY <1>2, <3>2, <3>4 DEF AllApt
    <3>6. Working(d)
      BY <1>1, <3>4, <3>5 DEF Working
    <3>7. Route(s, x) = [c |-> d, cb |-> h]
      BY <2>1, <2>4, <3>1, <3>3 DEF GetSubscribeCallback
    <3> QED BY <1>1, <3>2, <3>4, <3>6, <3>7 DEF Picked
  <2>5. CASE x.k # "status" /\ x.ch \notin DOMAIN c.subs
    <3>1. Route(s, x) = [c |-> c, cb |-> cb]
      BY <2>1, <2>5 DEF GetSubscribeCallback
    <3> QED BY <1>1, <3>1 DEF Picked
  <2>6. CASE x.k # "status" /\ x.ch \in DOMAIN c.subs
    BY <1>1, <2>1, <2>2, <2>6, ChannelPicked
  <2> QED BY <2>3, <2>4, <2>5, <2>6
<1> QED BY <1>3, <1>4, <1>5

(* The loop of redisProcessCallbacks, on the way.                          *)
Looping(c, s) == Pair(s) /\ Apt(s.cb) /\ Onward(c, s.c)

(* Two parts of a handler.                                                 *)
LEMMA OnwardTrans ==
  ASSUME NEW c, NEW d, NEW f, Working(d), d.ev = c.ev,
         "CONNECTED" \in d.flags <=> "CONNECTED" \in c.flags, Onward(d, f)
  PROVE  Onward(c, f)
BY DEF Onward, Parted

(* Any reply is handled, unless the context ends.                          *)
LEMMA ReplyAny ==
  ASSUME NEW s, Pair(s), Working(s.c), Apt(s.cb), NEW x \in Reply
  PROVE  Looping(s.c, ProcessReply(s, x))
<1>1. s.c \in Context /\ AllApt(s.c) /\ s.c.life = "live" /\ s = [c |-> s.c, cb |-> s.cb]
  BY DEF Working, Pair
<1>2. CASE s.c.replies = <<>> /\ x.k = "error"
  <2>1. ProcessReply(s, x) = [s EXCEPT !.c = Fail(@)]
    BY <1>1, <1>2, Zenon DEF ProcessReply
  <2>2. [s EXCEPT !.c = Fail(@)] = [c |-> Fail(s.c), cb |-> s.cb]
    BY <1>1
  <2>3. PICK f : f = Fail(s.c)
    OBVIOUS
  <2>4. Parted(s.c, f)
    BY <1>1, <2>3, FailParts
  <2> QED BY <2>1, <2>2, <2>3, <2>4 DEF Looping, Onward, Pair
<1>3. CASE /\ ~(s.c.replies = <<>> /\ x.k = "error")
           /\ s.c.replies = <<>> /\ s.c.flags \cap {"SUBSCRIBED", "MONITORING"} = {}
  <2>1. ProcessReply(s, x) = [s EXCEPT !.c.life = "aborted"]
    BY <1>1, <1>3, Zenon DEF ProcessReply
  <2>2. PICK f : f = [s.c EXCEPT !.life = "aborted"]
    OBVIOUS
  <2>3. [s EXCEPT !.c.life = "aborted"] = [c |-> f, cb |-> s.cb]
    BY <1>1, <2>2
  <2>4. Parted(s.c, f)
    BY <1>1, <2>2 DEF Parted, Context
  <2> QED BY <2>1, <2>3, <2>4 DEF Looping, Onward, Pair
<1>4. CASE /\ ~(s.c.replies = <<>> /\ x.k = "error")
           /\ ~(s.c.replies = <<>> /\ s.c.flags \cap {"SUBSCRIBED", "MONITORING"} = {})
  <2>1. Picked(s, Route(s, x))
    BY <1>4, RoutePicked
  <2>2. PICK d, b : /\ Route(s, x) = [c |-> d, cb |-> b] /\ Working(d) /\ Apt(b) /\ d.ev = s.c.ev
                    /\ "CONNECTED" \in d.flags <=> "CONNECTED" \in s.c.flags
    BY <2>1 DEF Picked
  <2>3. PICK f : f = Given(d, b, x)
    OBVIOUS
  <2>4. ProcessReply(s, x) = [c |-> f, cb |-> b]
    BY <1>1, <1>4, <2>2, <2>3, ReplyRouted
  <2>5. Onward(d, f)
    BY <2>2, <2>3, GivenAny
  <2>6. Onward(s.c, f)
    BY <2>2, <2>5, OnwardTrans
  <2> QED BY <2>2, <2>4, <2>6 DEF Looping, Pair
<1> QED BY <1>2, <1>3, <1>4

(* All the replies of one read.                                            *)
LEMMA RepliesAny ==
  ASSUME NEW c, Working(c), NEW rs \in Seq(Reply)
  PROVE  Looping(c, ProcessReplies(c, rs))
<1>1. Len(rs) \in Nat
  OBVIOUS
<1>2. PICK run : ReplyRun(c, rs, run)
  BY <1>1, ProcessSteps
<1> DEFINE P == {i \in Nat : Looping(c, run[i])}
<1>3. 0 \in P
  <2>1. run[0] = [c |-> c, cb |-> NoCallback]
    BY <1>2 DEF ReplyRun
  <2>2. Apt(NoCallback)
    BY NotPlain DEF Apt, NoCallback, Callback, Fns
  <2>3. Onward(c, c)
    BY DEF Onward
  <2> QED BY <2>1, <2>2, <2>3 DEF Looping, Pair
<1>4. ASSUME NEW i \in 1 .. Len(rs), i - 1 \in P PROVE i \in P
  <2>1. Looping(c, run[i - 1]) /\ run[i] = ProcessReply(run[i - 1], rs[i]) /\ rs[i] \in Reply /\ i \in Nat
    BY <1>2, <1>4 DEF ReplyRun
  <2>2. PICK s, x : s = run[i - 1] /\ x = rs[i]
    OBVIOUS
  <2>3. Looping(c, s) /\ run[i] = ProcessReply(s, x) /\ x \in Reply
    BY <2>1, <2>2
  <2>4. PICK t : t = ProcessReply(s, x)
    OBVIOUS
  <2>5. CASE Parted(c, s.c)
    <3>1. t = s
      BY <2>4, <2>5 DEF ProcessReply, Parted
    <3> QED BY <2>1, <2>3, <2>4, <3>1
  <2>6. CASE /\ Working(s.c) /\ s.c.ev = c.ev
             /\ "CONNECTED" \in s.c.flags <=> "CONNECTED" \in c.flags
    <3>1. Looping(s.c, t)
      BY <2>3, <2>4, <2>6, ReplyAny DEF Looping
    <3>2. Looping(c, t)
      BY <2>6, <3>1, OnwardTrans DEF Looping
    <3> QED BY <2>1, <2>3, <2>4, <3>2
  <2> QED BY <2>3, <2>5, <2>6 DEF Looping, Onward
<1>5. 0 .. Len(rs) \subseteq P
  <2> HIDE DEF P
  <2> QED BY <1>1, <1>3, <1>4, BoundedInduction
<1> QED BY <1>1, <1>2, <1>5 DEF ReplyRun

(* redisProcessCallbacks, whatever the replies are: the callback that a    *)
(* monitoring context puts back is one of a command too.                   *)
LEMMA CallbacksAny ==
  ASSUME NEW c, Working(c), NEW rs \in Seq(Reply)
  PROVE  Onward(c, redisProcessCallbacks(c, rs))
<1>1. PICK s : s = ProcessReplies(c, rs)
  OBVIOUS
<1>2. Looping(c, s)
  BY <1>1, RepliesAny
<1>3. redisProcessCallbacks(c, rs) =
        CASE s.c.life # "live" -> s.c
          [] s.c.life = "live" /\ "DISCONNECTING" \in s.c.flags
               /\ s.c.obuf = <<>> /\ s.c.replies = <<>> -> AsyncDisconnect(s.c)
          [] s.c.life = "live" /\ "MONITORING" \in s.c.flags
               /\ ~("DISCONNECTING" \in s.c.flags
                      /\ s.c.obuf = <<>> /\ s.c.replies = <<>>) ->
               [s.c EXCEPT !.replies = Append(@, s.cb)]
          [] OTHER -> s.c
  BY <1>1, Zenon DEF redisProcessCallbacks
<1>4. PICK d, cb : d = s.c /\ cb = s.cb
  OBVIOUS
<1>5. Onward(c, d) /\ Apt(cb)
  BY <1>2, <1>4 DEF Looping
<1>6. CASE d.life # "live"
  BY <1>3, <1>4, <1>5, <1>6
<1>7. CASE d.life = "live"
  <2>1. /\ Working(d) /\ d.ev = c.ev /\ ("CONNECTED" \in d.flags <=> "CONNECTED" \in c.flags)
    BY <1>5, <1>7 DEF Onward, Parted
  <2>2. /\ d \in Context /\ AllApt(d) /\ d.err = FALSE /\ d.replies \in Seq(Callback)
    BY <2>1 DEF Working, Context
  <2>3. CASE "DISCONNECTING" \in d.flags /\ d.obuf = <<>> /\ d.replies = <<>>
    <3>1. redisProcessCallbacks(c, rs) = AsyncDisconnect(d)
      BY <1>3, <1>4, <1>7, <2>3
    <3>2. AsyncDisconnect(d) = AsyncFree(d)
      BY <2>2, <2>3, DisconnectIs
    <3>3. Parted(d, AsyncFree(d))
      BY <2>2, FreeParts
    <3>4. PICK f : f = AsyncFree(d)
      OBVIOUS
    <3>5. Onward(c, f)
      BY <2>1, <3>3, <3>4, OnwardTrans DEF Onward
    <3> QED BY <3>1, <3>2, <3>4, <3>5
  <2>4. CASE /\ ~("DISCONNECTING" \in d.flags /\ d.obuf = <<>> /\ d.replies = <<>>)
             /\ "MONITORING" \in d.flags
    <3>1. PICK q : q = Append(d.replies, cb)
      OBVIOUS
    <3>2. cb \in Callback
      BY <1>5 DEF Apt
    <3>3. q \in Seq(Callback) /\ \A j \in 1 .. Len(q) : Apt(q[j])
      <4>1. /\ q \in Seq(Callback) /\ Len(q) = Len(d.replies) + 1 /\ Len(d.replies) \in Nat
            /\ q[Len(d.replies) + 1] = cb /\ \A j \in 1 .. Len(d.replies) : q[j] = d.replies[j]
        BY <2>2, <3>1, <3>2
      <4>2. ASSUME NEW j \in 1 .. Len(q) PROVE j \in 1 .. Len(d.replies) \/ j = Len(d.replies) + 1
        BY <4>1
      <4> QED BY <1>5, <2>2, <4>1, <4>2 DEF AllApt
    <3>4. PICK f : f = [d EXCEPT !.replies = q]
      OBVIOUS
    <3>5. /\ f \in Context /\ f.replies = q /\ f.flags = d.flags /\ f.life = d.life /\ f.log = d.log
          /\ f.obuf = d.obuf /\ f.ev = d.ev /\ f.err = d.err
          /\ f.subs = d.subs /\ f.invalid = d.invalid
      BY <2>2, <3>3, <3>4 DEF Context
    <3>6. AllApt(f)
      BY <2>2, <3>3, <3>5 DEF AllApt
    <3>7. Working(f)
      BY <2>1, <3>5, <3>6 DEF Working
    <3>8. redisProcessCallbacks(c, rs) = f
      BY <1>3, <1>4, <1>7, <2>4, <3>1, <3>4
    <3> QED BY <2>1, <3>5, <3>7, <3>8 DEF Onward
  <2>5. CASE /\ ~("DISCONNECTING" \in d.flags /\ d.obuf = <<>> /\ d.replies = <<>>)
             /\ "MONITORING" \notin d.flags
    <3>1. redisProcessCallbacks(c, rs) = d
      BY <1>3, <1>4, <1>7, <2>5
    <3> QED BY <1>5, <3>1
  <2> QED BY <2>3, <2>4, <2>5
<1> QED BY <1>6, <1>7

(* What the read part and the write part of a handler leave of a connected *)
(* context: it watches for replies, or is no more.                         *)
Handled(c, d) == (Alive(d) /\ "CONNECTED" \in d.flags) \/ Parted(c, d)

(* redisAsyncRead.                                                         *)
LEMMA ReadAny ==
  ASSUME NEW c, Working(c), "CONNECTED" \in c.flags, "read" \in c.ev, NEW failed \in BOOLEAN,
         NEW rs, ~failed => rs \in Seq(Reply)
  PROVE  Handled(c, redisAsyncRead(c, failed, rs))
<1>1. c \in Context /\ AllApt(c) /\ c.ev \in SUBSET {"read", "write"}
  BY DEF Working, Context
<1>2. CASE failed
  <2>1. redisAsyncRead(c, failed, rs) = Fail(c)
    BY <1>2 DEF redisAsyncRead
  <2>2. Parted(c, Fail(c))
    BY <1>1, FailParts
  <2> QED BY <2>1, <2>2 DEF Handled
<1>3. CASE ~failed
  <2>1. [c EXCEPT !.ev = @ \cup {"read"}] = c
    <3>1. c.ev \cup {"read"} = c.ev
      OBVIOUS
    <3> QED BY <1>1, <3>1 DEF Context
  <2>2. redisAsyncRead(c, failed, rs) = redisProcessCallbacks(c, rs)
    BY <1>3, <2>1 DEF redisAsyncRead
  <2>3. PICK d : d = redisProcessCallbacks(c, rs)
    OBVIOUS
  <2>4. Onward(c, d)
    BY <1>3, <2>3, CallbacksAny
  <2>5. Handled(c, d)
    BY <2>4 DEF Onward, Handled, Alive, Watched, Working
  <2> QED BY <2>2, <2>3, <2>5
<1> QED BY <1>2, <1>3

(* redisAsyncWrite.                                                        *)
LEMMA WriteAny ==
  ASSUME NEW c, Working(c), "CONNECTED" \in c.flags, NEW w \in -1 .. Len(c.obuf)
  PROVE  Handled(c, redisAsyncWrite(c, w = -1, w))
<1>1. c \in Context /\ AllApt(c) /\ c.obuf \in Seq(Commands) /\ Len(c.obuf) \in Nat
  BY DEF Working, Context
<1>2. CASE w = -1
  <2>1. redisAsyncWrite(c, w = -1, w) = Fail(c)
    BY <1>2 DEF redisAsyncWrite
  <2>2. Parted(c, Fail(c))
    BY <1>1, FailParts
  <2> QED BY <2>1, <2>2 DEF Handled
<1>3. CASE w # -1
  <2>0. w \in 0 .. Len(c.obuf)
    BY <1>1, <1>3
  <2>1. PICK b, E : /\ b = SubSeq(c.obuf, w + 1, Len(c.obuf))
                    /\ E = IF w = Len(c.obuf) THEN {"read"} ELSE {"read", "write"}
    OBVIOUS
  <2>2. b \in Seq(Commands) /\ Len(b) = Len(c.obuf) - w
    BY <1>1, <2>0, <2>1, FirstReplies
  <2>3. b # <<>> => "write" \in E
    BY <1>1, <2>0, <2>1, <2>2
  <2>4. PICK d : d = [c EXCEPT !.obuf = b, !.ev = E]
    OBVIOUS
  <2>5. E \in SUBSET {"read", "write"} /\ "read" \in E
    BY <2>1
  <2>6. /\ d \in Context /\ d.obuf = b /\ d.ev = E /\ d.flags = c.flags /\ d.life = c.life
        /\ d.log = c.log /\ d.err = c.err
        /\ d.replies = c.replies /\ d.subs = c.subs /\ d.invalid = c.invalid
    BY <1>1, <2>2, <2>4, <2>5 DEF Context
  <2>7. redisAsyncWrite(c, w = -1, w) = d
    BY <1>3, <2>1, <2>4 DEF redisAsyncWrite
  <2>8. AllApt(d)
    BY <1>1, <2>6 DEF AllApt
  <2>9. Working(d)
    BY <2>3, <2>6, <2>8 DEF Working
  <2>10. Alive(d) /\ "CONNECTED" \in d.flags
    BY <2>3, <2>5, <2>6, <2>9 DEF Alive, Watched
  <2> QED BY <2>7, <2>10 DEF Handled
<1> QED BY <1>2, <1>3

(* __redisAsyncHandleConnect.                                              *)
LEMMA ConnectAny ==
  ASSUME NEW c, Alive(c), "CONNECTED" \notin c.flags
  PROVE  /\ Working(HandleConnect(c, "yes")) /\ "CONNECTED" \in HandleConnect(c, "yes").flags
         /\ Parted(c, HandleConnect(c, "error"))
         /\ HandleConnect(c, "no") = c
<1>1. c \in Context /\ c.log \in Seq(Entry) /\ AllApt(c) /\ Working(c)
  BY DEF Alive, Working, Context
<1>2. ASSUME NEW st \in {"OK", "ERR"}, NEW d, d = Log(c, "onConnect", st)
      PROVE  /\ d \in Context /\ d.life = c.life /\ d.err = c.err /\ d.flags = c.flags /\ AllApt(d)
             /\ d.obuf = c.obuf /\ d.ev = c.ev
             /\ d.replies = c.replies /\ d.invalid = c.invalid /\ d.subs = c.subs
             /\ HasLogged(d.log, "onConnect") /\ ~HasLogged(d.log, "onDisconnect")
  <2>1. PICK e : e = [to |-> "onConnect", got |-> st]
    OBVIOUS
  <2>2. e \in Entry /\ e.to = "onConnect"
    BY <2>1 DEF Entry
  <2>3. PICK l : l = Append(c.log, e)
    OBVIOUS
  <2>4. l \in Seq(Entry) /\ \A who : HasLogged(l, who) <=> HasLogged(c.log, who) \/ e.to = who
    BY <1>1, <2>2, <2>3, LogAppend
  <2>5. d = [c EXCEPT !.log = l]
    BY <1>2, <2>1, <2>3 DEF Log
  <2>6. /\ d \in Context /\ d.log = l /\ d.life = c.life /\ d.err = c.err /\ d.flags = c.flags
        /\ d.obuf = c.obuf /\ d.ev = c.ev
        /\ d.replies = c.replies /\ d.invalid = c.invalid /\ d.subs = c.subs
    BY <1>1, <2>4, <2>5 DEF Context
  <2>7. AllApt(d)
    BY <1>1, <2>6 DEF AllApt
  <2>8. "onConnect" # "onDisconnect"
    OBVIOUS
  <2> QED BY <1>1, <2>2, <2>4, <2>6, <2>7, <2>8 DEF Working
<1>3. Working(HandleConnect(c, "yes")) /\ "CONNECTED" \in HandleConnect(c, "yes").flags
  <2>1. PICK d : d = Log(c, "onConnect", "OK")
    OBVIOUS
  <2>2. /\ d \in Context /\ d.life = c.life /\ d.err = c.err /\ d.flags = c.flags /\ AllApt(d)
        /\ d.obuf = c.obuf /\ d.ev = c.ev
        /\ HasLogged(d.log, "onConnect") /\ ~HasLogged(d.log, "onDisconnect")
    BY <1>2, <2>1
  <2>3. PICK e : e = [d EXCEPT !.flags = @ \cup {"CONNECTED"}]
    OBVIOUS
  <2>4. /\ e \in Context /\ e.flags = d.flags \cup {"CONNECTED"} /\ e.life = d.life
        /\ e.err = d.err /\ e.log = d.log /\ e.obuf = d.obuf /\ e.ev = d.ev
        /\ e.replies = d.replies /\ e.invalid = d.invalid /\ e.subs = d.subs
    BY <2>2, <2>3 DEF Context, Flags
  <2>5. AllApt(e)
    BY <2>2, <2>4 DEF AllApt
  <2>6. Working(e)
    BY <1>1, <2>2, <2>4, <2>5 DEF Working
  <2>7. HandleConnect(c, "yes") = e
    BY <2>1, <2>3 DEF HandleConnect
  <2> QED BY <2>4, <2>6, <2>7
<1>4. Parted(c, HandleConnect(c, "error"))
  <2>1. PICK d : d = Log(c, "onConnect", "ERR")
    OBVIOUS
  <2>2. d \in Context /\ AllApt(d)
    BY <1>2, <2>1
  <2>3. PICK f : f = Fail(d)
    OBVIOUS
  <2>4. Parted(d, f)
    BY <2>2, <2>3, FailParts
  <2>5. HandleConnect(c, "error") = f
    BY <2>1, <2>3 DEF HandleConnect
  <2> QED BY <2>4, <2>5 DEF Parted
<1>5. HandleConnect(c, "no") = c
  BY DEF HandleConnect
<1> QED BY <1>3, <1>4, <1>5

(* The invariant that holds in any order of commands.                      *)
AnyInv ==
  /\ FarTypes
  /\ ac.life = "live" => Alive(ac)
  /\ ac.life # "live" => ac \in Context /\ (ac.life = "freed" => ac.ev = {})

(* What a step other than a command does to a live context.                *)
Passes(c, d) ==
  \/ Alive(d) /\ ("CONNECTED" \in c.flags => "CONNECTED" \in d.flags)
  \/ Parted(c, d)

(* A freed context leaves an empty link.                                   *)
LEMMA ClosedTypes ==
  ASSUME AnyInv, Passes(ac, ac'), UNCHANGED <<issued, srvsubs, msgs>>,
         \/ Closed
         \/ link' \in {"connecting", "up", "refused", "lost"} /\ inbuf' \in Seq(Reply) /\ wire' \in Seq(Commands)
  PROVE  AnyInv'
<1>1. FarTypes
  BY DEF AnyInv
<1>2. FarTypes'
  <2>1. CASE Closed
    BY <1>1, <2>1 DEF FarTypes, Closed
  <2>2. CASE link' \in {"connecting", "up", "refused", "lost"} /\ inbuf' \in Seq(Reply) /\ wire' \in Seq(Commands)
    BY <1>1, <2>2 DEF FarTypes
  <2> QED BY <2>1, <2>2
<1>3. /\ ac'.life = "live" => Alive(ac')
      /\ ac'.life # "live" => ac' \in Context /\ (ac'.life = "freed" => ac'.ev = {})
  BY DEF Passes, Parted, Alive, Working
<1> QED BY <1>2, <1>3 DEF AnyInv

(* redisLibeventHandler, whatever was sent.                                *)
LEMMA HandlerAny ==
  ASSUME AnyInv, NEW what, redisLibeventHandler(what)
  PROVE  AnyInv' /\ Passes(ac, ac') /\ orderly' = orderly
<1>1. ac.life = "live" /\ what # {} /\ what \subseteq ac.ev
  BY HandlerParts
<1>2. PICK done, c0, n, c1, w, c2 :
        HandlerRuns(what, done, c0, n, c1, w, c2) /\ HandlerLeaves(n, c1, w, c2)
  BY HandlerParts
<1>3. /\ Alive(ac) /\ Working(ac) /\ Watched(ac) /\ ac \in Context /\ FarTypes
      /\ inbuf \in Seq(Reply) /\ wire \in Seq(Commands) /\ Len(inbuf) \in Nat
  BY <1>1 DEF AnyInv, Alive, Working, FarTypes
<1>4. ac' = c2 /\ UNCHANGED <<issued, orderly, srvsubs, msgs>>
  BY <1>2 DEF HandlerLeaves
<1>5. \/ "CONNECTED" \in ac.flags /\ c0 = ac /\ "read" \in ac.ev
      \/ "CONNECTED" \notin ac.flags /\ c0 = ac
      \/ "CONNECTED" \notin ac.flags /\ Working(c0) /\ "CONNECTED" \in c0.flags /\ what = {"write"}
      \/ "CONNECTED" \notin ac.flags /\ Parted(ac, c0)
  <2>1. CASE "CONNECTED" \in ac.flags
    BY <1>2, <1>3, <2>1 DEF HandlerRuns, HandleConnect, Watched
  <2>2. CASE "CONNECTED" \notin ac.flags
    <3>1. done \in {"yes", "no", "error"} /\ c0 = HandleConnect(ac, done)
      <4>1. link \in {"connecting", "up", "refused", "lost"}
        BY <1>3 DEF FarTypes
      <4> QED BY <1>2, <2>2, <4>1 DEF HandlerRuns, ConnectDone
    <3>2. what = {"write"}
      <4>1. "read" \notin ac.ev /\ ac.ev \in SUBSET {"read", "write"}
        BY <1>3, <2>2 DEF Watched, Context
      <4> QED BY <1>1, <4>1
    <3> QED BY <1>3, <2>2, <3>1, <3>2, ConnectAny
  <2> QED BY <2>1, <2>2
<1>6. n \in -1 .. Len(inbuf) /\ (n # -1 => n \in 0 .. Len(inbuf))
  BY <1>2, <1>3 DEF HandlerRuns, ReadResults, Failures
<1>7. n # -1 => SubSeq(inbuf, 1, n) \in Seq(Reply) /\ SubSeq(inbuf, n + 1, Len(inbuf)) \in Seq(Reply)
  BY <1>3, <1>6, FirstReplies
<1>8. \/ Alive(c1) /\ "CONNECTED" \in c1.flags /\ n # -1
      \/ Working(c1) /\ "CONNECTED" \in c1.flags /\ what = {"write"} /\ n = 0
      \/ "CONNECTED" \notin ac.flags /\ c1 = ac /\ n = 0
      \/ Parted(ac, c1)
  <2>1. CASE "CONNECTED" \in ac.flags /\ c0 = ac /\ "read" \in ac.ev
    <3>1. Ready(c0)
      BY <1>1, <2>1 DEF Ready
    <3>2. CASE "read" \in what
      <4>1. c1 = redisAsyncRead(ac, n = -1, SubSeq(inbuf, 1, n))
        BY <1>2, <2>1, <3>1, <3>2 DEF HandlerRuns
      <4>2. Handled(ac, c1)
        BY <1>3, <1>7, <2>1, <4>1, ReadAny
      <4>3. n = -1 => Parted(ac, c1)
        <5>1. n = -1 => c1 = Fail(ac)
          BY <4>1 DEF redisAsyncRead
        <5> QED BY <1>3, <5>1, FailParts DEF Working
      <4> QED BY <4>2, <4>3 DEF Handled
    <3>3. CASE "read" \notin what
      <4>1. c1 = ac /\ n = 0
        BY <1>2, <2>1, <3>3 DEF HandlerRuns
      <4> QED BY <1>3, <2>1, <4>1
    <3> QED BY <3>2, <3>3
  <2>2. CASE "CONNECTED" \notin ac.flags /\ c0 = ac
    BY <1>2, <2>2 DEF HandlerRuns, Ready
  <2>3. CASE "CONNECTED" \notin ac.flags /\ Working(c0) /\ "CONNECTED" \in c0.flags /\ what = {"write"}
    BY <1>2, <2>3 DEF HandlerRuns
  <2>4. CASE "CONNECTED" \notin ac.flags /\ Parted(ac, c0)
    BY <1>2, <2>4 DEF HandlerRuns, Ready, Parted
  <2> QED BY <1>5, <2>1, <2>2, <2>3, <2>4
<1>9. Passes(ac, c2) /\ (c2.life = "live" => n # -1 /\ (w \in 0 .. Len(c1.obuf) /\ c1 \in Context))
  <2>1. CASE Parted(ac, c1)
    <3>1. c2 = c1
      BY <1>2, <2>1 DEF HandlerRuns, Ready, Parted
    <3> QED BY <2>1, <3>1 DEF Passes, Parted
  <2>2. CASE "CONNECTED" \notin ac.flags /\ c1 = ac /\ n = 0
    <3>1. c2 = c1 /\ w = 0
      BY <1>2, <2>2 DEF HandlerRuns, Ready
    <3>2. Len(ac.obuf) \in Nat
      BY <1>3 DEF Context
    <3> QED BY <1>3, <2>2, <3>1, <3>2 DEF Passes
  <2>3. CASE Working(c1) /\ "CONNECTED" \in c1.flags /\ n # -1 /\ (Alive(c1) \/ what = {"write"})
    <3>1. Ready(c1) /\ c1 \in Context /\ Len(c1.obuf) \in Nat /\ AllApt(c1)
      BY <2>3 DEF Working, Ready, Context
    <3>2. CASE "write" \in what
      <4>1. c2 = redisAsyncWrite(c1, w = -1, w) /\ w \in -1 .. Len(c1.obuf)
        BY <1>2, <3>1, <3>2 DEF HandlerRuns, WriteResults, Failures
      <4>2. Handled(c1, c2)
        BY <2>3, <4>1, WriteAny
      <4>3. w = -1 => Parted(c1, c2)
        <5>1. w = -1 => c2 = Fail(c1)
          BY <4>1 DEF redisAsyncWrite
        <5> QED BY <3>1, <5>1, FailParts
      <4>4. w # -1 => w \in 0 .. Len(c1.obuf)
        BY <3>1, <4>1
      <4>5. Parted(c1, c2) => Parted(ac, c2) /\ c2.life # "live"
        BY <2>3 DEF Parted
      <4> QED BY <2>3, <3>1, <4>2, <4>3, <4>4, <4>5 DEF Handled, Passes
    <3>3. CASE "write" \notin what
      <4>1. c2 = c1 /\ w = 0 /\ Alive(c1)
        BY <1>2, <2>3, <3>3 DEF HandlerRuns
      <4> QED BY <2>3, <3>1, <4>1 DEF Passes
    <3> QED BY <3>2, <3>3
  <2> QED BY <1>8, <2>1, <2>2, <2>3 DEF Alive
<1>10. \/ Closed
       \/ link' \in {"connecting", "up", "refused", "lost"} /\ inbuf' \in Seq(Reply) /\ wire' \in Seq(Commands)
  <2>1. CASE c2.life # "live"
    BY <1>2, <2>1 DEF HandlerLeaves
  <2>2. CASE c2.life = "live"
    <3>1. /\ inbuf' = SubSeq(inbuf, n + 1, Len(inbuf)) /\ link' = link
          /\ wire' = IF link = "lost" THEN <<>> ELSE wire \o SubSeq(c1.obuf, 1, w)
      BY <1>2, <2>2 DEF HandlerLeaves
    <3>2. c1.obuf \in Seq(Commands) /\ w \in 0 .. Len(c1.obuf) /\ n # -1
      BY <1>9, <2>2 DEF Context
    <3>3. SubSeq(c1.obuf, 1, w) \in Seq(Commands)
      BY <3>2, FirstReplies
    <3>4. wire' \in Seq(Commands)
      BY <1>3, <3>1, <3>3
    <3> QED BY <1>3, <1>7, <3>1, <3>2, <3>4 DEF FarTypes
  <2> QED BY <2>1, <2>2
<1>11. Passes(ac, ac')
  BY <1>4, <1>9
<1>12. AnyInv'
  BY <1>4, <1>10, <1>11, ClosedTypes
<1> QED BY <1>4, <1>11, <1>12

(* redisAsyncDisconnect from outside, whatever was sent.                   *)
LEMMA DisconnectAny ==
  ASSUME AnyInv, redisAsyncDisconnect
  PROVE  AnyInv' /\ Passes(ac, ac') /\ orderly' = orderly
<1>1. PICK c : c = [ac EXCEPT !.flags = @ \cup {"DISCONNECTING"}]
  OBVIOUS
<1>2. /\ ac.life = "live" /\ UNCHANGED <<issued, orderly, srvsubs, msgs>>
      /\ IF c.replies = <<>> THEN ac' = AsyncDisconnect(c) /\ Closed
         ELSE ac' = c /\ UNCHANGED <<link, wire, inbuf>>
  BY <1>1 DEF redisAsyncDisconnect
<1>3. Alive(ac) /\ ac \in Context /\ AllApt(ac) /\ FarTypes
  BY <1>2 DEF AnyInv, Alive, Working
<1>4. /\ c \in Context /\ c.flags = ac.flags \cup {"DISCONNECTING"} /\ c.life = ac.life
      /\ c.err = ac.err /\ c.log = ac.log /\ c.obuf = ac.obuf /\ c.ev = ac.ev
      /\ c.replies = ac.replies /\ c.invalid = ac.invalid /\ c.subs = ac.subs
  BY <1>1, <1>3 DEF Context, Flags
<1>5. AllApt(c) /\ ("CONNECTED" \in c.flags <=> "CONNECTED" \in ac.flags) /\ c.err = FALSE
  BY <1>3, <1>4 DEF AllApt, Alive, Working
<1>6. CASE c.replies = <<>>
  <2>1. ac' = AsyncFree(c) /\ Closed
    BY <1>2, <1>5, <1>6, DisconnectIs
  <2>2. Parted(c, ac')
    BY <1>4, <1>5, <2>1, FreeParts
  <2>3. Passes(ac, ac')
    BY <1>5, <2>2 DEF Passes, Parted
  <2> QED BY <1>2, <2>1, <2>3, ClosedTypes
<1>7. CASE c.replies # <<>>
  <2>1. ac' = c /\ UNCHANGED <<link, wire, inbuf>>
    BY <1>2, <1>7
  <2>2. Working(c)
    BY <1>3, <1>4, <1>5 DEF Alive, Working
  <2>3. Watched(c)
    BY <1>3, <1>4, <1>5 DEF Alive, Watched
  <2>4. Passes(ac, ac')
    BY <1>5, <2>1, <2>2, <2>3 DEF Passes, Alive
  <2>5. link' \in {"connecting", "up", "refused", "lost"} /\ inbuf' \in Seq(Reply) /\ wire' \in Seq(Commands)
    BY <1>3, <2>1 DEF FarTypes
  <2> QED BY <1>2, <2>4, <2>5, ClosedTypes
<1> QED BY <1>6, <1>7

(* redisAsyncFree from outside, whatever was sent.                         *)
LEMMA FreeAny ==
  ASSUME AnyInv, redisAsyncFree
  PROVE  AnyInv' /\ Passes(ac, ac') /\ orderly' = orderly
<1>1. PICK c : c = [ac EXCEPT !.flags = @ \cup {"FREEING"}]
  OBVIOUS
<1>2. ac.life = "live" /\ UNCHANGED <<issued, orderly, srvsubs, msgs>> /\ ac' = AsyncFree(c) /\ Closed
  BY <1>1 DEF redisAsyncFree
<1>3. ac \in Context /\ AllApt(ac)
  BY <1>2 DEF AnyInv, Alive, Working
<1>4. /\ c \in Context /\ c.flags = ac.flags \cup {"FREEING"}
      /\ c.replies = ac.replies /\ c.invalid = ac.invalid /\ c.subs = ac.subs
  BY <1>1, <1>3 DEF Context, Flags
<1>5. AllApt(c) /\ ("CONNECTED" \in c.flags <=> "CONNECTED" \in ac.flags)
  BY <1>3, <1>4 DEF AllApt
<1>6. Parted(c, ac')
  BY <1>2, <1>4, <1>5, FreeParts
<1>7. Passes(ac, ac')
  BY <1>5, <1>6 DEF Passes, Parted
<1> QED BY <1>2, <1>7, ClosedTypes

(* The dictionary once a SUBSCRIBE of any channels was registered.         *)
LEMMA SubscribedAny ==
  ASSUME NEW m \in Commands, NEW subs \in Subscriptions, IsFiniteSet(DOMAIN subs),
         \A ch \in DOMAIN subs : Apt(subs[ch]) /\ subs[ch].id \notin PlainIds,
         NEW cb, Apt(cb), cb.id \notin PlainIds
  PROVE  LET s == AddSubscriptions(subs, cb, m.chans)
         IN /\ s \in Subscriptions /\ IsFiniteSet(DOMAIN s)
            /\ \A ch \in DOMAIN s : Apt(s[ch]) /\ s[ch].id \notin PlainIds
<1>1. m.chans \in Seq(Channels) /\ Len(m.chans) \in Nat
  BY CommandsAssumption
<1>2. PICK run : SubscribeRun(subs, cb, m.chans, run)
  BY <1>1, SubscribeSteps
<1> DEFINE Fit(s) == /\ s \in Subscriptions /\ IsFiniteSet(DOMAIN s)
                     /\ \A ch \in DOMAIN s : Apt(s[ch]) /\ s[ch].id \notin PlainIds
           Q(t) == Apt(t.cb) /\ t.cb.id \notin PlainIds /\ Fit(t.subs)
           P == {i \in Nat : Q(run[i])}
<1>3. 0 \in P
  <2>1. run[0] = [cb |-> cb, subs |-> subs]
    BY <1>2 DEF SubscribeRun
  <2> QED BY <2>1
<1>4. ASSUME NEW i \in 1 .. Len(m.chans), i - 1 \in P PROVE i \in P
  <2>1. PICK t, ch : t = run[i - 1] /\ ch = m.chans[i]
    OBVIOUS
  <2>2. Q(t) /\ run[i] = AddSubscription(t, ch) /\ ch \in Channels /\ i \in Nat
    BY <1>1, <1>2, <1>4, <2>1 DEF SubscribeRun
  <2>3. PICK s, b : s = t.subs /\ b = t.cb
    OBVIOUS
  <2>4. /\ Apt(b) /\ b.id \notin PlainIds /\ b \in Callback
        /\ s \in Subscriptions /\ IsFiniteSet(DOMAIN s)
        /\ \A x \in DOMAIN s : Apt(s[x]) /\ s[x].id \notin PlainIds
    BY <2>2, <2>3 DEF Apt
  <2>5. PICK n : n = IF ch \in DOMAIN s THEN [b EXCEPT !.pending = s[ch].pending + 1] ELSE b
    OBVIOUS
  <2>6. n \in Callback /\ n.id = b.id /\ n.fn = b.fn
    <3>1. CASE ch \in DOMAIN s
      <4>1. s[ch].pending + 1 \in Int
        BY <2>4, <3>1 DEF Apt, Callback
      <4> QED BY <2>4, <2>5, <3>1, <4>1, RecountCallback
    <3>2. CASE ch \notin DOMAIN s
      BY <2>4, <2>5, <3>2
    <3> QED BY <3>1, <3>2
  <2>7. Apt(n) /\ n.id \notin PlainIds
    BY <2>4, <2>6 DEF Apt
  <2>8. PICK u : u = [x \in DOMAIN s \cup {ch} |-> IF x = ch THEN n ELSE s[x]]
    OBVIOUS
  <2>9. run[i] = [cb |-> n, subs |-> u]
    BY <2>2, <2>3, <2>5, <2>8 DEF AddSubscription
  <2>10. /\ DOMAIN u = DOMAIN s \cup {ch} /\ u = [x \in DOMAIN u |-> u[x]]
         /\ \A x \in DOMAIN u : u[x] \in {n, s[x]} /\ (x # ch => x \in DOMAIN s /\ u[x] = s[x])
         /\ u[ch] = n
    BY <2>8
  <2>11. IsFiniteSet(DOMAIN u)
    BY <2>4, <2>10, FS_AddElement
  <2>12. \A x \in DOMAIN u : Apt(u[x]) /\ u[x].id \notin PlainIds
    BY <2>4, <2>7, <2>10
  <2>13. u \in Subscriptions
    <3>1. DOMAIN s \subseteq Channels
      BY <2>4, SubscriptionsAre
    <3>2. DOMAIN u \subseteq Channels /\ \A x \in DOMAIN u : u[x] \in Callback
      BY <2>2, <2>10, <2>12, <3>1 DEF Apt
    <3> QED BY <2>10, <3>2, SubscriptionsAre
  <2> QED BY <2>2, <2>7, <2>9, <2>11, <2>12, <2>13
<1>5. 0 .. Len(m.chans) \subseteq P
  <2> HIDE DEF P
  <2> QED BY <1>1, <1>3, <1>4, BoundedInduction
<1> QED BY <1>1, <1>2, <1>5 DEF SubscribeRun

(* A queue of callbacks with one more.                                     *)
LEMMA PushedApt ==
  ASSUME NEW q \in Seq(Callback), \A j \in 1 .. Len(q) : Apt(q[j]), NEW cb, Apt(cb)
  PROVE  \A j \in 1 .. Len(Append(q, cb)) : Apt(Append(q, cb)[j])
<1>1. /\ Len(Append(q, cb)) = Len(q) + 1 /\ Len(q) \in Nat /\ Append(q, cb)[Len(q) + 1] = cb
      /\ \A j \in 1 .. Len(q) : Append(q, cb)[j] = q[j]
  OBVIOUS
<1>2. ASSUME NEW j \in 1 .. Len(Append(q, cb)) PROVE j \in 1 .. Len(q) \/ j = Len(q) + 1
  BY <1>1
<1> QED BY <1>1, <1>2

(* The callback of a command is one that a context may keep.               *)
LEMMA CommandApt ==
  ASSUME NEW m \in Commands
  PROVE  /\ Apt(CallbackOf(m)) /\ CallbackOf(m) \in Callback
         /\ m.kind # "plain" => CallbackOf(m).id \notin PlainIds
<1>1. PICK cb : cb = CallbackOf(m)
  OBVIOUS
<1>2. cb \in Callback /\ cb.id = m.id /\ cb.fn = m.fn /\ m.id \in Ids
  BY <1>1, CallbackOfIs DEF Ids
<1>3. ASSUME m.id \in PlainIds PROVE m.kind = "plain" /\ m.fn # "null"
  <2>1. PICK p \in Commands : p.kind = "plain" /\ p.fn # "null" /\ p.id = m.id
    BY <1>3 DEF PlainIds
  <2>2. p = m
    BY <2>1, CommandsAssumption
  <2> QED BY <2>1, <2>2
<1> QED BY <1>1, <1>2, <1>3 DEF Apt

(* __redisAsyncCommand, whatever the command.                              *)
LEMMA TakenAny ==
  ASSUME NEW c, Alive(c), NEW m \in Commands
  PROVE  /\ Alive(Taken(c, m)) /\ Taken(c, m).log = c.log
         /\ "CONNECTED" \in Taken(c, m).flags <=> "CONNECTED" \in c.flags
<1>1. PICK d : d = Taken(c, m)
  OBVIOUS
<1>2. c \in Context /\ AllApt(c) /\ c.replies \in Seq(Callback) /\ c.invalid \in Seq(Callback)
      /\ c.subs \in Subscriptions /\ c.flags \in SUBSET Flags
  BY DEF Alive, Working, Context
<1>3. PICK cb \in Callback : cb = CallbackOf(m) /\ Apt(cb) /\ (m.kind # "plain" => cb.id \notin PlainIds)
  BY CommandApt
<1>4. ASSUME Queued(c, d, m), AllApt(d) PROVE Alive(d)
  <2>1. Working(d)
    BY <1>4 DEF Queued, Alive, Working
  <2>2. Watched(d)
    BY <1>4 DEF Queued, Alive, Watched
  <2> QED BY <2>1, <2>2 DEF Alive
<1>5. m.kind \in {"plain", "subscribe", "unsubscribe", "monitor"}
  BY CommandsAssumption DEF Kinds
<1>6. Queued(c, d, m) /\ AllApt(d)
  <2>1. CASE m.kind = "plain"
    <3>1. /\ Queued(c, d, m) /\ d.subs = c.subs
          /\ \/ d.invalid = Append(c.invalid, cb) /\ d.replies = c.replies
             \/ d.replies = Append(c.replies, cb) /\ d.invalid = c.invalid
      BY <1>1, <1>2, <1>3, <2>1, TakenPlain
    <3>2. /\ \A j \in 1 .. Len(Append(c.invalid, cb)) : Apt(Append(c.invalid, cb)[j])
          /\ \A j \in 1 .. Len(Append(c.replies, cb)) : Apt(Append(c.replies, cb)[j])
      BY <1>2, <1>3, PushedApt DEF AllApt
    <3> QED BY <1>2, <3>1, <3>2 DEF AllApt
  <2>2. CASE m.kind = "subscribe"
    <3>1. PICK s : s = AddSubscriptions(c.subs, cb, m.chans)
      OBVIOUS
    <3>2. /\ s \in Subscriptions /\ IsFiniteSet(DOMAIN s)
          /\ \A ch \in DOMAIN s : Apt(s[ch]) /\ s[ch].id \notin PlainIds
      BY <1>2, <1>3, <2>2, <3>1, SubscribedAny DEF AllApt
    <3>3. PICK F : F = c.flags \cup {"SUBSCRIBED"}
      OBVIOUS
    <3>4. PICK r : r = [c EXCEPT !.flags = F, !.subs = s]
      OBVIOUS
    <3>5. F \in SUBSET Flags
      BY <1>2, <3>3 DEF Flags
    <3>6. /\ r \in Context /\ r.life = c.life /\ r.err = c.err /\ r.log = c.log /\ r.obuf = c.obuf
          /\ r.ev = c.ev /\ r.flags = F /\ r.invalid = c.invalid
          /\ r.replies = c.replies /\ r.subs = s
      BY <1>2, <3>2, <3>4, <3>5 DEF Context
    <3>7. d = Enqueue(r, m)
      <4>1. Register(c, m) = [c EXCEPT !.flags = @ \cup {"SUBSCRIBED"},
                                       !.subs = AddSubscriptions(@, CallbackOf(m), m.chans)]
        BY <2>2 DEF Register, CallbackOf
      <4>2. Register(c, m) = r
        BY <1>3, <3>1, <3>3, <3>4, <4>1
      <4> QED BY <1>1, <4>2 DEF Taken
    <3>8. "CONNECTED" \in r.flags <=> "CONNECTED" \in c.flags
      BY <3>3, <3>6
    <3>9. Queued(c, d, m) /\ d.replies = r.replies /\ d.invalid = r.invalid /\ d.subs = r.subs
      BY <1>2, <3>6, <3>7, <3>8, QueuedIs
    <3> QED BY <1>2, <3>2, <3>6, <3>9 DEF AllApt
  <2>3. CASE m.kind = "unsubscribe"
    <3>1. Queued(c, d, m) /\ d.replies = c.replies /\ d.invalid = c.invalid /\ d.subs = c.subs
      BY <1>1, <1>2, <2>3, TakenUnsubscribe
    <3> QED BY <1>2, <3>1 DEF AllApt
  <2>4. CASE m.kind = "monitor"
    <3>1. /\ Queued(c, d, m) /\ d.replies = Append(c.replies, cb)
          /\ d.invalid = c.invalid /\ d.subs = c.subs
      BY <1>1, <1>2, <1>3, <2>4, TakenMonitor
    <3>2. \A j \in 1 .. Len(Append(c.replies, cb)) : Apt(Append(c.replies, cb)[j])
      BY <1>2, <1>3, PushedApt DEF AllApt
    <3> QED BY <1>2, <3>1, <3>2 DEF AllApt
  <2> QED BY <1>5, <2>1, <2>2, <2>3, <2>4
<1>7. d.log = c.log /\ ("CONNECTED" \in d.flags <=> "CONNECTED" \in c.flags)
  BY <1>6 DEF Queued
<1> QED BY <1>1, <1>4, <1>6, <1>7

(* redisAsyncCommand in any order.                                         *)
LEMMA CommandAny ==
  ASSUME AnyInv, NEW m \in Commands, redisAsyncCommand(m)
  PROVE  /\ AnyInv' /\ Alive(ac) /\ Alive(ac') /\ ac'.log = ac.log /\ (orderly' => orderly)
<1>1. /\ ac.life = "live" /\ issued' = issued \cup {m} /\ ac' = Taken(ac, m)
      /\ UNCHANGED <<link, wire, inbuf, srvsubs, msgs>> /\ orderly' = (orderly /\ IsOrderly(m))
  BY DEF redisAsyncCommand, Taken, Enqueue
<1>2. Alive(ac) /\ FarTypes
  BY <1>1 DEF AnyInv
<1>3. Alive(ac') /\ ac'.log = ac.log
  BY <1>1, <1>2, TakenAny
<1>4. FarTypes'
  BY <1>1, <1>2 DEF FarTypes
<1>5. ac'.life = "live"
  BY <1>3 DEF Alive, Working
<1>6. AnyInv'
  BY <1>3, <1>4, <1>5 DEF AnyInv
<1> QED BY <1>1, <1>2, <1>3, <1>6

(* The first channels of a command are finitely many.                      *)
LEMMA FirstFinite ==
  ASSUME NEW m \in Commands, NEW j \in 0 .. Len(m.chans)
  PROVE  IsFiniteSet(FirstChannels(m, j)) /\ FirstChannels(m, j) \subseteq Channels
<1>1. Len(m.chans) \in Nat /\ j \in Nat
  BY CommandsAssumption
<1>2. IsFiniteSet(1 .. j)
  BY <1>1, FS_Interval
<1>3. PICK s \in Seq(Channels) : s = m.chans
  BY CommandsAssumption
<1>4. FirstChannels(m, j) = {s[l] : l \in 1 .. j}
  BY <1>3 DEF FirstChannels
<1>5. PICK f : f = [l \in 1 .. j |-> s[l]]
  OBVIOUS
<1>6. f \in Surjection(1 .. j, FirstChannels(m, j))
  BY <1>4, <1>5 DEF Surjection
<1>7. IsFiniteSet(FirstChannels(m, j))
  BY <1>2, <1>6, FS_Surjection
<1>8. \A l \in 1 .. j : s[l] \in Channels
  BY <1>1, <1>3
<1> QED BY <1>4, <1>7, <1>8

(* The confirmations of a SUBSCRIBE or an UNSUBSCRIBE of any channels.     *)
LEMMA ConfirmationsAny ==
  ASSUME NEW m \in Commands, m.kind \in {"subscribe", "unsubscribe"},
         NEW v \in SUBSET Channels, IsFiniteSet(v)
  PROVE  Confirmations(m, v) \in Seq(Reply)
<1>1. Len(m.chans) \in Nat /\ \A i \in 1 .. Len(m.chans) : m.chans[i] \in Channels
  BY CommandsAssumption
<1> DEFINE now(i) == IF m.kind = "subscribe" THEN v \cup FirstChannels(m, i) ELSE v \ FirstChannels(m, i)
           conf(i) == [k |-> m.kind, ch |-> m.chans[i], n |-> Cardinality(now(i))]
<1>2. Confirmations(m, v) = [i \in 1 .. Len(m.chans) |-> conf(i)]
  BY DEF Confirmations, FirstChannels
<1>3. \A i \in 1 .. Len(m.chans) : conf(i) \in Reply
  <2> SUFFICES ASSUME NEW i \in 1 .. Len(m.chans) PROVE conf(i) \in Reply
    OBVIOUS
  <2>1. i \in 0 .. Len(m.chans)
    BY <1>1
  <2>2. IsFiniteSet(FirstChannels(m, i))
    BY <2>1, FirstFinite
  <2>3. IsFiniteSet(now(i))
    BY <2>2, FS_Union, FS_Difference
  <2>4. Cardinality(now(i)) \in Nat
    BY <2>3, FS_CardinalityType
  <2> HIDE DEF now
  <2> QED BY <1>1, <2>4 DEF Reply
<1> HIDE DEF conf
<1> QED BY <1>1, <1>2, <1>3

(* The steps of the network and of the server, whatever was sent.          *)
LEMMA FarAny ==
  ASSUME AnyInv, Connect \/ Lose \/ Serve \/ Publish \/ Done \/ UNCHANGED vars
  PROVE  AnyInv' /\ ac' = ac /\ orderly' = orderly
<1>1. ac' = ac /\ issued' = issued /\ orderly' = orderly
  BY Zenon DEF Connect, Lose, Serve, Publish, Done, vars
<1>2. FarTypes
  BY DEF AnyInv
<1>3. FarTypes'
  <2>1. CASE Connect
    <3>1. Greeting \in Seq(Reply)
      BY DEF Greeting, Reply
    <3> QED BY <1>2, <2>1, <3>1 DEF Connect, FarTypes, Greeting
  <2>2. CASE Lose
    BY <1>2, <2>2, FirstReplies DEF Lose, FarTypes
  <2>3. CASE Serve
    <3>1. PICK m : m = Head(wire)
      OBVIOUS
    <3>2. /\ wire # <<>> /\ wire' = Tail(wire) /\ UNCHANGED <<issued, link, msgs>>
          /\ inbuf' = inbuf \o
               (IF m.kind \in {"subscribe", "unsubscribe"} THEN Confirmations(m, srvsubs)
                ELSE IF srvsubs # {} THEN <<[k |-> "error", id |-> m.id]>>
                ELSE <<[k |-> "status", id |-> m.id]>>)
          /\ srvsubs' = CASE m.kind = "subscribe"   -> srvsubs \cup ToSet(m.chans)
                          [] m.kind = "unsubscribe" -> srvsubs \ ToSet(m.chans)
                          [] OTHER -> srvsubs
      BY <2>3, <3>1 DEF Serve
    <3>3. m \in Commands /\ wire' \in Seq(Commands)
      BY <1>2, <3>1, <3>2 DEF FarTypes
    <3>4. m.chans \in Seq(Channels) /\ Len(m.chans) \in Nat /\ m.id \in Ids
      BY <3>3, CommandsAssumption DEF Ids
    <3>5. ToSet(m.chans) \subseteq Channels /\ IsFiniteSet(ToSet(m.chans))
      <4>1. ToSet(m.chans) = FirstChannels(m, Len(m.chans)) /\ Len(m.chans) \in 0 .. Len(m.chans)
        BY <3>4 DEF ToSet, FirstChannels
      <4>2. PICK j \in 0 .. Len(m.chans) : j = Len(m.chans)
        BY <4>1
      <4> QED BY <3>3, <4>1, <4>2, FirstFinite
    <3>6. srvsubs' \in SUBSET Channels /\ IsFiniteSet(srvsubs')
      <4>1. srvsubs \in SUBSET Channels /\ IsFiniteSet(srvsubs)
        BY <1>2 DEF FarTypes
      <4>2. IsFiniteSet(srvsubs \cup ToSet(m.chans)) /\ IsFiniteSet(srvsubs \ ToSet(m.chans))
        BY <3>5, <4>1, FS_Union, FS_Difference
      <4>3. srvsubs' \in {srvsubs \cup ToSet(m.chans), srvsubs \ ToSet(m.chans), srvsubs}
        BY <3>2
      <4> QED BY <3>5, <4>1, <4>2, <4>3
    <3>7. inbuf' \in Seq(Reply)
      <4>1. inbuf \in Seq(Reply) /\ srvsubs \in SUBSET Channels /\ IsFiniteSet(srvsubs)
        BY <1>2 DEF FarTypes
      <4>2. m.kind \in {"subscribe", "unsubscribe"} => Confirmations(m, srvsubs) \in Seq(Reply)
        BY <3>3, <4>1, ConfirmationsAny
      <4>3. /\ <<[k |-> "error", id |-> m.id]>> \in Seq(Reply)
            /\ <<[k |-> "status", id |-> m.id]>> \in Seq(Reply)
        <5>1. [k |-> "error", id |-> m.id] \in Reply /\ [k |-> "status", id |-> m.id] \in Reply
          BY <3>4 DEF Reply
        <5> QED BY <5>1
      <4>4. PICK z : z = IF m.kind \in {"subscribe", "unsubscribe"} THEN Confirmations(m, srvsubs)
                         ELSE IF srvsubs # {} THEN <<[k |-> "error", id |-> m.id]>>
                         ELSE <<[k |-> "status", id |-> m.id]>>
        OBVIOUS
      <4>5. z \in Seq(Reply) /\ inbuf' = inbuf \o z
        BY <3>2, <4>2, <4>3, <4>4
      <4> QED BY <4>1, <4>5
    <3> QED BY <1>2, <3>2, <3>3, <3>6, <3>7 DEF FarTypes
  <2>4. CASE Publish
    <3>1. /\ msgs < MaxMsgs /\ msgs' = msgs + 1 /\ UNCHANGED <<issued, link, wire, srvsubs>>
          /\ \/ \E ch \in srvsubs : inbuf' = Append(inbuf, [k |-> "message", ch |-> ch])
             \/ inbuf' = Append(inbuf, [k |-> "status", id |-> "line"])
      BY <2>4 DEF Publish
    <3>2. inbuf \in Seq(Reply) /\ srvsubs \in SUBSET Channels /\ msgs \in 0 .. MaxMsgs /\ MaxMsgs \in Nat
      BY <1>2, BoundAssumption DEF FarTypes
    <3>3. PICK r \in Reply : inbuf' = Append(inbuf, r)
      <4>1. [k |-> "status", id |-> "line"] \in Reply
            /\ \A ch \in srvsubs : [k |-> "message", ch |-> ch] \in Reply
        BY <3>2 DEF Reply
      <4> QED BY <3>1, <4>1
    <3>4. inbuf' \in Seq(Reply) /\ msgs' \in 0 .. MaxMsgs
      BY <3>1, <3>2, <3>3
    <3> QED BY <1>2, <3>1, <3>4 DEF FarTypes
  <2>5. CASE Done \/ UNCHANGED vars
    BY <1>2, <2>5 DEF Done, vars, FarTypes
  <2> QED BY <2>1, <2>2, <2>3, <2>4, <2>5
<1>4. AnyInv'
  BY <1>1, <1>3 DEF AnyInv
<1> QED BY <1>1, <1>4

(* An orderly context is one of the contexts of any order.                 *)
LEMMA OrderlyIsAny == Init => AnyInv
<1> SUFFICES ASSUME Init PROVE AnyInv
  OBVIOUS
<1>1. IInv /\ ac.life = "live"
  BY InitKept DEF Init
<1>2. FarTypes /\ Live(ac, issued)
  BY <1>1 DEF IInv
<1>3. ac.replies = <<>> /\ ac.invalid = <<>> /\ ac.subs = <<>> /\ ac.log = <<>> /\ ac.obuf = <<>>
  BY DEF Init
<1>4. AllApt(ac)
  <2>1. Len(<<>>) = 0 /\ DOMAIN <<>> = {} /\ IsFiniteSet({})
    BY FS_EmptySet
  <2> QED BY <1>3, <2>1 DEF AllApt
<1>5. ~HasLogged(<<>>, "onDisconnect")
  BY DEF HasLogged
<1>6. Alive(ac)
  BY <1>2, <1>3, <1>4, <1>5 DEF Live, Alive, Working
<1> QED BY <1>1, <1>2, <1>6 DEF AnyInv

(* Every step keeps a context of any order; a stray command stays so.      *)
LEMMA AnyKept ==
  ASSUME AnyInv, [Next]_vars
  PROVE  AnyInv' /\ (orderly' => orderly)
<1>1. CASE Handle
  BY <1>1, HandlerAny DEF Handle
<1>2. CASE \E m \in Commands : redisAsyncCommand(m)
  BY <1>2, CommandAny
<1>3. CASE redisAsyncDisconnect
  BY <1>3, DisconnectAny
<1>4. CASE redisAsyncFree
  BY <1>4, FreeAny
<1>5. CASE Connect \/ Lose \/ Serve \/ Publish \/ Done \/ UNCHANGED vars
  BY <1>5, FarAny
<1> QED BY <1>1, <1>2, <1>3, <1>4, <1>5 DEF Next

(* The invariant: what holds in any order, and what holds in order.        *)
Invariant == AnyInv /\ (orderly => IInv)

LEMMA InvariantInit == Init => Invariant
BY InitKept, OrderlyIsAny DEF Invariant

LEMMA InvariantKept ==
  ASSUME Invariant, [Next]_vars
  PROVE  Invariant'
<1>1. AnyInv' /\ (orderly' => orderly)
  BY AnyKept DEF Invariant
<1>2. ASSUME orderly' PROVE IInv'
  <2>1. IInv
    BY <1>1, <1>2 DEF Invariant
  <2> QED BY <1>2, <2>1, NextKept
<1> QED BY <1>1, <1>2 DEF Invariant

LEMMA AnySound == AnyInv => TypeOK /\ WorkIsWatched
<1> SUFFICES ASSUME AnyInv PROVE TypeOK /\ WorkIsWatched
  OBVIOUS
<1>1. /\ FarTypes /\ ac \in Context
      /\ ac.life = "freed" => ac.ev = {}
      /\ ac.life = "live" => Watched(ac)
  BY DEF AnyInv, Alive, Working
<1>2. TypeOK
  <2>1. /\ ac.flags \in SUBSET Flags /\ ac.obuf \in Seq(Commands) /\ ac.replies \in Seq(Callback)
        /\ ac.invalid \in Seq(Callback) /\ ac.subs \in Subscriptions /\ ac.ev \in SUBSET {"read", "write"}
        /\ ac.life \in {"live", "freed", "aborted"}
    BY <1>1 DEF Context
  <2>2. DOMAIN ac.subs \subseteq Channels /\ \A ch \in DOMAIN ac.subs : ac.subs[ch] \in Callback
    BY <2>1, SubscriptionsAre
  <2>3. FarTypes /\ (ac.life = "freed" => ac.ev = {})
    BY <1>1
  <2> QED BY <2>1, <2>2, <2>3 DEF TypeOK, FarTypes, Flags
<1>3. WorkIsWatched
  BY <1>1 DEF WorkIsWatched, Watched
<1> QED BY <1>2, <1>3

(* A context is sound at every return to the event loop, for every set of  *)
(* commands, channels and messages and whatever the order of the commands: *)
(* its fields have their types and work that waits is watched.  Up to the  *)
(* first command that hiredis cannot follow, every reply also reaches the  *)
(* command it answers, no assert of async.c fails, and context and server  *)
(* agree on the subscriptions when nothing is under way.                   *)
THEOREM ContextSound == Spec => []ContextIsSound
<1>1. Init => Invariant
  BY InvariantInit
<1>2. Invariant /\ [Next]_vars => Invariant'
  BY InvariantKept
<1>3. Invariant => ContextIsSound
  BY AnySound, InvariantSound DEF Invariant, ContextIsSound
<1> QED BY <1>1, <1>2, <1>3, PTL DEF Spec

-----------------------------------------------------------------------------
(* The refinement of AsyncLink.                                            *)

(* The two parts of a queue.                                               *)
LEMMA SplitQueue ==
  ASSUME NEW S, NEW A \in Seq(S), NEW B \in Seq(S), NEW w, w = A \o B
  PROVE  /\ Len(A) \in 0 .. Len(w)
         /\ SubSeq(w, 1, Len(A)) = A
         /\ SubSeq(w, Len(A) + 1, Len(w)) = B
<1>1. /\ w \in Seq(S) /\ Len(w) = Len(A) + Len(B) /\ Len(A) \in Nat /\ Len(B) \in Nat
      /\ \A i \in 1 .. Len(A) : w[i] = A[i]
      /\ \A i \in 1 .. Len(B) : w[Len(A) + i] = B[i]
  BY ConcatProperties
<1>2. PICK n \in 0 .. Len(w) : n = Len(A)
  BY <1>1
<1>3. PICK x, y : x = SubSeq(w, 1, n) /\ y = SubSeq(w, n + 1, Len(w))
  OBVIOUS
<1>4. /\ x \in Seq(S) /\ Len(x) = n /\ \A i \in 1 .. n : x[i] = w[i]
      /\ y \in Seq(S) /\ Len(y) = Len(w) - n /\ \A i \in 1 .. (Len(w) - n) : y[i] = w[n + i]
  BY <1>1, <1>3, FirstReplies
<1>5. x = A
  BY <1>1, <1>2, <1>4, SeqEqual
<1>6. y = B
  <2>1. Len(w) - n = Len(B)
    BY <1>1, <1>2
  <2> QED BY <1>1, <1>2, <1>4, <2>1, SeqEqual
<1> QED BY <1>2, <1>3, <1>5, <1>6

(* The phase the log and the life of a context stand for.                  *)
PhaseOf(c) ==
  CASE c.life = "aborted" -> "aborted"
    [] c.life # "aborted" /\ HasLogged(c.log, "onDisconnect") -> "gone"
    [] c.life = "live" /\ ~HasLogged(c.log, "onDisconnect") ->
         IF ~HasLogged(c.log, "onConnect") THEN "connecting" ELSE "connected"
    [] OTHER -> IF ~HasLogged(c.log, "onConnect") THEN "dropped" ELSE "failed"

(* The refinement mapping is a function of the context, and of whether the *)
(* commands were sent in order.                                            *)
LEMMA Mapped ==
  /\ PhaseOfLink = PhaseOf(ac) /\ PhaseOfLink' = PhaseOf(ac')
  /\ orderly => WaitingIds = Waits(ac) /\ AnsweredIds = Told(ac.log)
  /\ orderly' => WaitingIds' = Waits(ac') /\ AnsweredIds' = Told(ac'.log)
  /\ ~orderly => WaitingIds = <<>> /\ AnsweredIds = <<>>
  /\ ~orderly' => WaitingIds' = <<>> /\ AnsweredIds' = <<>>
<1>1. \A w : Logged(w) # {} <=> HasLogged(ac.log, w)
  BY DEF Logged, HasLogged
<1>2. \A w : Logged(w)' # {} <=> HasLogged(ac'.log, w)
  BY DEF Logged, HasLogged
<1>3. PhaseOfLink = PhaseOf(ac)
  BY <1>1 DEF PhaseOfLink, PhaseOf
<1>4. PhaseOfLink' = PhaseOf(ac')
  BY <1>2 DEF PhaseOfLink, PhaseOf
<1> QED BY <1>3, <1>4 DEF WaitingIds, AnsweredIds, Waits, Told, LogIds

(* The phase of a live context is its flag CONNECTED.                      *)
LEMMA LivePhase ==
  ASSUME NEW I \in SUBSET Commands, NEW c, Live(c, I)
  PROVE  PhaseOf(c) = IF "CONNECTED" \in c.flags THEN "connected" ELSE "connecting"
<1>1. ~HasLogged(c.log, "onDisconnect")
  <2>1. "onDisconnect" \notin IdsIn(I) /\ "onDisconnect" # "onConnect"
    BY NotPlain DEF IdsIn, Ids
  <2> QED BY <2>1 DEF HasLogged, Live, LogLive
<1> QED BY <1>1 DEF PhaseOf, Live

(* The phase of a context that has ended; one that was connected is gone.  *)
LEMMA EndedPhase ==
  ASSUME NEW I, NEW c, NEW f, Ended(c, f, I)
  PROVE  /\ PhaseOf(f) \in {"gone", "dropped", "failed"}
         /\ "CONNECTED" \in c.flags => PhaseOf(f) = "gone"
BY DEF PhaseOf, Ended

(* A step that advances the context is an Advance of AsyncLink.            *)
LEMMA AdvanceMaps ==
  ASSUME orderly, orderly' = orderly,
         issued \in SUBSET Commands, Live(ac, issued), Advances(ac, ac', issued)
  PROVE  \E n \in 0 .. Len(WaitingIds) : Link!Advance(n)
<1>1. PICK w, t : w = Waits(ac) /\ t = Told(ac.log)
  OBVIOUS
<1>2. w \in Seq(PlainIds) /\ t \in Seq(PlainIds)
  BY <1>1, WaitsType DEF Live
<1>3. PhaseOf(ac) = IF "CONNECTED" \in ac.flags THEN "connected" ELSE "connecting"
  BY LivePhase
<1>4. ASSUME Moved(ac, ac'), ac' \in Context,
             PhaseOf(ac') \in Link!May[PhaseOf(ac)], PhaseOf(ac') \notin {"connecting", "aborted"},
             PhaseOf(ac') \in Link!Over => Waits(ac') = <<>>
      PROVE  \E n \in 0 .. Len(WaitingIds) : Link!Advance(n)
  <2>1. PICK A \in Seq(PlainIds) : Told(ac'.log) = t \o A /\ w = A \o Waits(ac')
    BY <1>1, <1>4 DEF Moved
  <2>2. PICK B \in Seq(PlainIds) : B = Waits(ac')
    BY <1>4, WaitsType
  <2>3. PICK n : n = Len(A)
    OBVIOUS
  <2>4. n \in 0 .. Len(w) /\ SubSeq(w, 1, n) = A /\ SubSeq(w, n + 1, Len(w)) = B
    BY <2>1, <2>2, <2>3, SplitQueue
  <2>5. B = <<>> => n = Len(w)
    BY <2>1, <2>2, <2>3
  <2>6. PhaseOf(ac) \notin Link!Over
    BY <1>3 DEF Link!Over
  <2>7. /\ PhaseOfLink \notin Link!Over /\ PhaseOfLink' \in Link!May[PhaseOfLink]
        /\ PhaseOfLink' \in Link!Over => n = Len(WaitingIds)
        /\ PhaseOfLink' = "connecting" => n = 0
        /\ AnsweredIds' = AnsweredIds \o SubSeq(WaitingIds, 1, n)
        /\ WaitingIds' = SubSeq(WaitingIds, n + 1, Len(WaitingIds))
    BY <1>1, <1>4, <2>1, <2>2, <2>4, <2>5, <2>6, Mapped
  <2>8. Link!Advance(n)
    <3>1. PhaseOfLink' # "aborted" /\ UNCHANGED orderly
      BY <1>4, Mapped
    <3> QED BY <2>7, <3>1, Zenon DEF Link!Advance
  <2>9. n \in 0 .. Len(WaitingIds)
    BY <1>1, <2>4, Mapped
  <2> QED BY <2>8, <2>9
<1>5. CASE Ended(ac, ac', issued)
  <2>1. Moved(ac, ac') /\ ac' \in Context /\ Waits(ac') = <<>>
    BY <1>5, NoneWait DEF Ended
  <2>2. /\ PhaseOf(ac') \in {"gone", "dropped", "failed"}
        /\ "CONNECTED" \in ac.flags => PhaseOf(ac') = "gone"
    BY <1>5, EndedPhase
  <2>3. PhaseOf(ac') \in Link!May[PhaseOf(ac)] /\ PhaseOf(ac') \notin {"connecting", "aborted"}
    BY <1>3, <2>2 DEF Link!May
  <2> QED BY <1>4, <2>1, <2>3
<1>6. CASE /\ Live(ac', issued) /\ Moved(ac, ac')
           /\ "CONNECTED" \in ac.flags => "CONNECTED" \in ac'.flags
           /\ "CONNECTED" \notin ac'.flags => ac'.log = ac.log /\ Waits(ac') = Waits(ac)
  <2>1. PhaseOf(ac') = IF "CONNECTED" \in ac'.flags THEN "connected" ELSE "connecting"
    BY <1>6, LivePhase
  <2>2. CASE "CONNECTED" \in ac'.flags
    <3>1. /\ PhaseOf(ac') \in Link!May[PhaseOf(ac)] /\ PhaseOf(ac') \notin {"connecting", "aborted"}
          /\ PhaseOf(ac') \notin Link!Over
      BY <1>3, <2>1, <2>2 DEF Link!May, Link!Over
    <3>2. ac' \in Context
      BY <1>6 DEF Live
    <3> QED BY <1>4, <1>6, <3>1, <3>2
  <2>3. CASE "CONNECTED" \notin ac'.flags
    <3>1. /\ PhaseOf(ac) = "connecting" /\ PhaseOf(ac') = "connecting" /\ ac'.log = ac.log
          /\ Waits(ac') = Waits(ac)
      BY <1>3, <1>6, <2>1, <2>3
    <3>2. SubSeq(w, 1, 0) = <<>> /\ SubSeq(w, 0 + 1, Len(w)) = w /\ t \o <<>> = t /\ 0 \in 0 .. Len(w)
      BY <1>2
    <3>3. /\ PhaseOfLink \notin Link!Over /\ PhaseOfLink' \in Link!May[PhaseOfLink]
          /\ PhaseOfLink' \notin Link!Over /\ PhaseOfLink' # "aborted"
      BY <3>1, Mapped DEF Link!Over, Link!May
    <3>4. /\ AnsweredIds' = AnsweredIds \o SubSeq(WaitingIds, 1, 0)
          /\ WaitingIds' = SubSeq(WaitingIds, 0 + 1, Len(WaitingIds))
      BY <1>1, <3>1, <3>2, Mapped
    <3>5. Link!Advance(0)
      <4>1. (PhaseOfLink' = "connecting" => 0 = 0) /\ UNCHANGED orderly
        OBVIOUS
      <4> QED BY <3>3, <3>4, <4>1, Zenon DEF Link!Advance
    <3> QED BY <1>1, <3>2, <3>5, Mapped
  <2> QED BY <2>2, <2>3
<1> QED BY <1>5, <1>6 DEF Advances

(* The phase of a context of any order, at work and parted.                *)
LEMMA AlivePhase ==
  ASSUME NEW c, Alive(c)
  PROVE  PhaseOf(c) = IF "CONNECTED" \in c.flags THEN "connected" ELSE "connecting"
BY DEF PhaseOf, Alive, Working

LEMMA PartedPhase ==
  ASSUME NEW c, NEW d, Parted(c, d)
  PROVE  /\ PhaseOf(d) \in {"aborted", "gone", "dropped", "failed"}
         /\ "CONNECTED" \in c.flags => PhaseOf(d) \in {"aborted", "gone"}
BY DEF PhaseOf, Parted

(* Once a command was sent out of order, a step of the context still is an *)
(* Advance of AsyncLink, which has no command left to account for.         *)
LEMMA StrayMaps ==
  ASSUME ~orderly, orderly' = orderly, Alive(ac), Passes(ac, ac')
  PROVE  \E n \in 0 .. Len(WaitingIds) : Link!Advance(n)
<1>1. WaitingIds = <<>> /\ AnsweredIds = <<>> /\ WaitingIds' = <<>> /\ AnsweredIds' = <<>>
  BY Mapped
<1>2. PhaseOf(ac) = IF "CONNECTED" \in ac.flags THEN "connected" ELSE "connecting"
  BY AlivePhase
<1>3. PhaseOf(ac') \in Link!May[PhaseOf(ac)]
  <2>1. CASE Alive(ac') /\ ("CONNECTED" \in ac.flags => "CONNECTED" \in ac'.flags)
    <3>1. PhaseOf(ac') = IF "CONNECTED" \in ac'.flags THEN "connected" ELSE "connecting"
      BY <2>1, AlivePhase
    <3> QED BY <1>2, <2>1, <3>1 DEF Link!May
  <2>2. CASE Parted(ac, ac')
    <3>1. /\ PhaseOf(ac') \in {"aborted", "gone", "dropped", "failed"}
          /\ "CONNECTED" \in ac.flags => PhaseOf(ac') \in {"aborted", "gone"}
      BY <2>2, PartedPhase
    <3> QED BY <1>2, <3>1 DEF Link!May
  <2> QED BY <2>1, <2>2 DEF Passes
<1>4. PhaseOfLink \notin Link!Over /\ PhaseOfLink' \in Link!May[PhaseOfLink]
  BY <1>2, <1>3, Mapped DEF Link!Over
<1>5. /\ 0 = Len(WaitingIds) /\ 0 \in 0 .. Len(WaitingIds)
      /\ SubSeq(WaitingIds, 1, 0) = <<>> /\ SubSeq(WaitingIds, 0 + 1, Len(WaitingIds)) = <<>>
  BY <1>1
<1>6. /\ AnsweredIds' = AnsweredIds \o SubSeq(WaitingIds, 1, 0)
      /\ WaitingIds' = SubSeq(WaitingIds, 0 + 1, Len(WaitingIds))
  <2>1. <<>> \o <<>> = <<>>
    OBVIOUS
  <2> QED BY <1>1, <1>5, <2>1
<1>7. (PhaseOfLink' = "connecting" => 0 = 0) /\ UNCHANGED orderly
  OBVIOUS
<1>8. Link!Advance(0)
  BY <1>4, <1>5, <1>6, <1>7, Zenon DEF Link!Advance
<1> QED BY <1>5, <1>8

(* A command sent out of order is a Stray of AsyncLink, and any command    *)
(* after it leaves AsyncLink alone.                                        *)
LEMMA StrayCommand ==
  ASSUME AnyInv, NEW m \in Commands, redisAsyncCommand(m), ~orderly'
  PROVE  Link!Stray \/ UNCHANGED Link!vars
<1>1. Alive(ac) /\ Alive(ac') /\ ac'.log = ac.log
  BY CommandAny
<1>2. PhaseOf(ac') = PhaseOf(ac)
  BY <1>1, Zenon DEF PhaseOf, Alive, Working
<1>3. PhaseOf(ac) \notin Link!Over
  BY <1>1, AlivePhase DEF Link!Over
<1>4. orderly' = FALSE
  BY Zenon DEF redisAsyncCommand
<1>5. /\ PhaseOfLink \notin Link!Over /\ UNCHANGED PhaseOfLink
      /\ WaitingIds' = <<>> /\ AnsweredIds' = <<>>
  BY <1>2, <1>3, Mapped
<1> QED BY <1>4, <1>5, Zenon DEF Link!Stray

(* A command not sent neither waits nor was told.                          *)
LEMMA NotYetSent ==
  ASSUME NEW I \in SUBSET Commands, NEW m \in Commands, m \notin I, NEW c, Live(c, I),
         \A j \in 1 .. Len(c.replies) : c.replies[j].id \in IdsIn(I),
         \A j \in 1 .. Len(c.invalid) : c.invalid[j].id \in IdsIn(I)
  PROVE  m.id \notin ToSet(Waits(c)) \cup ToSet(Told(c.log))
<1>1. m.id \notin IdsIn(I) /\ m.id # "onConnect"
  BY FreshId
<1>2. c.replies \in Seq(Callback) /\ c.invalid \in Seq(Callback) /\ c.log \in Seq(Entry) /\ c \in Context
  BY DEF Live, Context
<1>3. ASSUME m.id \in ToSet(Waits(c)) PROVE FALSE
  <2>1. PICK s \in Seq(Callback), t \in Seq(Callback) : s = c.replies /\ t = c.invalid
    BY <1>2
  <2>0. s \o t \in Seq(Callback)
    OBVIOUS
  <2>2. PICK u \in Seq(Callback) : u = s \o t
    BY <2>0
  <2>3. IdsOf(u) \in Seq(Ids \cup {NULL}) /\ Len(IdsOf(u)) = Len(u)
    BY IdsType
  <2>4. Waits(c) = PlainOnly(IdsOf(u))
    BY <2>1, <2>2 DEF Waits
  <2>5. m.id \in ToSet(IdsOf(u))
    BY <1>3, <2>3, <2>4, PlainMembers
  <2>6. PICK i \in 1 .. Len(u) : m.id = IdsOf(u)[i]
    BY <2>3, <2>5 DEF ToSet
  <2>7. m.id = u[i].id
    BY <2>6 DEF IdsOf
  <2>8. /\ Len(u) = Len(s) + Len(t) /\ Len(s) \in Nat /\ Len(t) \in Nat
        /\ \A j \in 1 .. Len(s) : u[j] = s[j]
        /\ \A j \in 1 .. Len(t) : u[Len(s) + j] = t[j]
    BY <2>2, ConcatProperties
  <2>9. CASE i <= Len(s)
    <3>1. i \in 1 .. Len(s)
      BY <2>8, <2>9
    <3> QED BY <1>1, <2>1, <2>7, <2>8, <3>1
  <2>10. CASE ~(i <= Len(s))
    <3>1. i - Len(s) \in 1 .. Len(t)
      BY <2>8, <2>10, PastFirst
    <3>2. PICK j \in 1 .. Len(t) : i = Len(s) + j
      <4>1. i = Len(s) + (i - Len(s))
        BY <2>8
      <4> QED BY <3>1, <4>1
    <3> QED BY <1>1, <2>1, <2>7, <2>8, <3>2
  <2> QED BY <2>9, <2>10
<1>4. ASSUME m.id \in ToSet(Told(c.log)) PROVE FALSE
  <2>1. PICK l \in Seq(Entry) : l = c.log
    BY <1>2
  <2>2. LogIds(l) \in Seq(Ids \cup Others)
    BY ToldType
  <2>3. m.id \in ToSet(LogIds(l))
    BY <1>4, <2>1, <2>2, PlainMembers DEF Told
  <2>4. PICK i \in 1 .. Len(l) : m.id = l[i].to
    BY <2>3 DEF LogIds, ToSet
  <2>5. l[i].to \in IdsIn(I) \cup {"onConnect"}
    BY <2>1 DEF Live, LogLive
  <2> QED BY <1>1, <2>4, <2>5
<1> QED BY <1>3, <1>4

(* redisAsyncCommand of a plain command is a Send of AsyncLink.            *)
LEMMA CommandMaps ==
  ASSUME IInv, orderly, orderly' = orderly, NEW m \in Commands, redisAsyncCommand(m)
  PROVE  IF m.id \in PlainIds THEN Link!Send(m.id) ELSE UNCHANGED Link!vars
<1>1. /\ ac.life = "live" /\ ac'.life = "live" /\ Live(ac, issued)
      /\ ac'.log = ac.log /\ Waits(ac') = WithPlain(Waits(ac), m.id) /\ m \notin issued
  BY CommandKeeps
<1>2. issued \in SUBSET Commands /\ \A i \in issued : i.kind # "monitor"
  <2>1. orderly'
    OBVIOUS
  <2>2. IsOrderly(m)
    BY <2>1, Zenon DEF redisAsyncCommand
  <2> QED BY <2>2 DEF IInv, FarTypes, IsOrderly
<1>3. PICK q, up : Mode(ac, issued, inbuf, q, srvsubs, up)
  BY <1>1 DEF IInv
<1>4. Normal(ac, issued)
  <2>1. ~MonitorMode(ac, issued, inbuf, q, srvsubs, up)
    BY <1>2 DEF MonitorMode, Monitoring
  <2> QED BY <1>3, <2>1 DEF Mode, NormalMode
<1>5. /\ \A j \in 1 .. Len(ac.replies) : ac.replies[j].id \in IdsIn(issued)
      /\ \A j \in 1 .. Len(ac.invalid) : ac.invalid[j].id \in IdsIn(issued)
  BY <1>4 DEF Normal, Serves, IdsIn
<1>6. m.id \notin ToSet(Waits(ac)) \cup ToSet(Told(ac.log))
  BY <1>1, <1>2, <1>5, NotYetSent
<1>7. PhaseOf(ac') = PhaseOf(ac)
  BY <1>1, Zenon DEF PhaseOf
<1>8. PhaseOf(ac) \notin Link!Over
  BY <1>1, <1>2, LivePhase DEF Link!Over
<1>9. /\ PhaseOfLink' = PhaseOfLink /\ AnsweredIds' = AnsweredIds
      /\ WaitingIds' = WithPlain(WaitingIds, m.id)
      /\ PhaseOfLink \notin Link!Over
      /\ m.id \notin ToSet(WaitingIds) \cup ToSet(AnsweredIds)
  BY <1>1, <1>6, <1>7, <1>8, Mapped
<1>10. CASE m.id \in PlainIds
  <2>1. WaitingIds' = Append(WaitingIds, m.id)
    BY <1>9, <1>10 DEF WithPlain
  <2>2. UNCHANGED <<PhaseOfLink, orderly, AnsweredIds>>
    BY <1>9
  <2>3. Link!Send(m.id)
    BY <1>9, <2>1, <2>2, Zenon DEF Link!Send, Link!ToSet, ToSet
  <2> QED BY <1>10, <2>3
<1>11. CASE m.id \notin PlainIds
  <2>1. WaitingIds' = WaitingIds
    BY <1>9, <1>11 DEF WithPlain
  <2>2. UNCHANGED Link!vars
    BY <1>9, <2>1, Zenon DEF Link!vars
  <2> QED BY <1>11, <2>2
<1> QED BY <1>10, <1>11

(* A step of the far end leaves AsyncLink alone.                           *)
LEMMA SameContext ==
  ASSUME ac' = ac, orderly' = orderly
  PROVE  UNCHANGED Link!vars
<1>1. PhaseOfLink' = PhaseOfLink /\ WaitingIds' = WaitingIds /\ AnsweredIds' = AnsweredIds
  BY Mapped
<1> QED BY <1>1, Zenon DEF Link!vars

(* A fresh context is a fresh link.                                        *)
LEMMA InitMaps == Init => Link!Init
<1> SUFFICES ASSUME Init PROVE Link!Init
  OBVIOUS
<1>1. ac.life = "live" /\ ac.replies = <<>> /\ ac.invalid = <<>> /\ ac.log = <<>> /\ orderly = TRUE
  BY DEF Init
<1>2. Waits(ac) = <<>>
  BY <1>1, NoneWait
<1>3. Told(ac.log) = <<>>
  <2>1. LogIds(<<>>) = <<>>
    BY DEF LogIds
  <2> QED BY <1>1, <2>1, PlainEmpty DEF Told
<1>4. PhaseOf(ac) = "connecting"
  <2>1. \A w : ~HasLogged(<<>>, w)
    BY DEF HasLogged
  <2> QED BY <1>1, <2>1 DEF PhaseOf
<1>5. PhaseOfLink = "connecting" /\ WaitingIds = <<>> /\ AnsweredIds = <<>>
  BY <1>1, <1>2, <1>3, <1>4, Mapped
<1> QED BY <1>1, <1>5, Zenon DEF Link!Init

(* Every step is a step of AsyncLink, or leaves it alone.                  *)
LEMMA NextMaps ==
  ASSUME Invariant, [Next]_vars
  PROVE  [Link!Next]_(Link!vars)
<1>1. AnyInv /\ issued \in SUBSET Commands
  BY DEF Invariant, AnyInv, FarTypes
<1>2. ASSUME \E n \in 0 .. Len(WaitingIds) : Link!Advance(n) PROVE Link!Next
  BY <1>2, Zenon DEF Link!Next
<1>3. ASSUME NEW id \in PlainIds, Link!Send(id) PROVE Link!Next
  BY <1>3, Zenon DEF Link!Next
<1>4. ASSUME Link!Stray PROVE Link!Next
  BY <1>4, Zenon DEF Link!Next
<1>5. ASSUME ac.life = "live", orderly' = orderly, Passes(ac, ac'),
             IInv => Advances(ac, ac', issued)
      PROVE  Link!Next
  <2>1. CASE orderly
    <3>1. Live(ac, issued) /\ Advances(ac, ac', issued)
      BY <1>5, <2>1 DEF Invariant, IInv
    <3> QED BY <1>1, <1>2, <1>5, <2>1, <3>1, AdvanceMaps
  <2>2. CASE ~orderly
    <3>1. Alive(ac)
      BY <1>1, <1>5 DEF AnyInv
    <3> QED BY <1>2, <1>5, <2>2, <3>1, StrayMaps
  <2> QED BY <2>1, <2>2
<1>6. CASE Handle
  <2>1. PICK what \in SUBSET {"read", "write"} : redisLibeventHandler(what)
    BY <1>6 DEF Handle
  <2>2. ac.life = "live"
    BY <2>1, HandlerParts
  <2> QED BY <1>1, <1>5, <2>1, <2>2, HandlerAdvances, HandlerAny
<1>7. CASE redisAsyncDisconnect
  <2>1. ac.life = "live"
    BY <1>7 DEF redisAsyncDisconnect
  <2> QED BY <1>1, <1>5, <1>7, <2>1, DisconnectAdvances, DisconnectAny
<1>8. CASE redisAsyncFree
  <2>1. ac.life = "live"
    BY <1>8 DEF redisAsyncFree
  <2> QED BY <1>1, <1>5, <1>8, <2>1, FreeAdvances, FreeAny
<1>9. ASSUME NEW m \in Commands, redisAsyncCommand(m) PROVE [Link!Next]_(Link!vars)
  <2>1. CASE orderly'
    <3>1. orderly' = TRUE /\ orderly = TRUE
      BY <1>9, <2>1 DEF redisAsyncCommand
    <3>2. IInv
      BY <3>1 DEF Invariant
    <3> QED BY <1>3, <1>9, <3>1, <3>2, CommandMaps
  <2>2. CASE ~orderly'
    BY <1>1, <1>4, <1>9, <2>2, StrayCommand
  <2> QED BY <2>1, <2>2
<1>10. CASE Connect \/ Lose \/ Serve \/ Publish \/ Done \/ UNCHANGED vars
  BY <1>1, <1>10, FarAny, SameContext
<1> QED BY <1>6, <1>7, <1>8, <1>9, <1>10 DEF Next

(* The asynchronous context of hiredis is the connection that the module   *)
(* Pool takes it for, whatever webdis sends: connect is told once and      *)
(* disconnect once and last.  Up to the first command that hiredis cannot  *)
(* follow, the callback of every command taken also runs at most once, in  *)
(* the order of the commands, and none is left to run when the connection  *)
(* is over; an assert of async.c can only fail after that command.         *)
THEOREM ImplementsLink == Spec => ImplementsAsyncLink
<1>1. Init => Invariant /\ Link!Init
  BY InvariantInit, InitMaps
<1>2. Invariant /\ [Next]_vars => Invariant'
  BY InvariantKept
<1>3. Invariant /\ [Next]_vars => [Link!Next]_(Link!vars)
  BY NextMaps
<1> QED BY <1>1, <1>2, <1>3, PTL DEF Spec, ImplementsAsyncLink, Link!Spec
=============================================================================
