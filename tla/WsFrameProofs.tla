--------------------------- MODULE WsFrameProofs ----------------------------
(* Proofs about WsFrame: the length of a frame the server sends, and where *)
(* the frames are cut that it receives.                                    *)
EXTENDS WsFrame, Induction, TLAPS

(* A peer that follows RFC 6455 reads the right length from the header     *)
(* ws_frame_and_send_response writes, for every payload but 65536 bytes.   *)
LEMMA HeaderRoundTrip ==
  ASSUME NEW sz \in Nat, sz # 65536
  PROVE  client_length(ws_frame_header(sz)) = sz
<1>1. CASE sz <= 125
  <2>1. ws_frame_header(sz) = [indicator |-> sz, extended |-> 0]
    BY <1>1 DEF ws_frame_header
  <2> QED BY <1>1, <2>1 DEF client_length
<1>2. CASE sz > 125 /\ sz < 65536
  <2>1. ws_frame_header(sz) = [indicator |-> 126, extended |-> sz % 65536]
    BY <1>2 DEF ws_frame_header
  <2>2. sz % 65536 = sz
    BY <1>2
  <2> QED BY <2>1, <2>2 DEF client_length
<1>3. CASE sz > 65536
  <2>1. ws_frame_header(sz) = [indicator |-> 127, extended |-> sz]
    BY <1>3 DEF ws_frame_header
  <2> QED BY <2>1 DEF client_length
<1> QED BY <1>1, <1>2, <1>3

(* For 65536 bytes the header says 0: uint16_t sz16 = htons(sz) keeps the  *)
(* low 16 bits of a size its own branch (sz <= 65536) lets through.        *)
LEMMA HeaderWraps == client_length(ws_frame_header(65536)) = 0
<1>1. ws_frame_header(65536) = [indicator |-> 126, extended |-> 65536 % 65536]
  BY DEF ws_frame_header
<1> QED BY <1>1 DEF client_length

(* The length ws_frame_and_send_response writes survives the trip, for any *)
(* set of sizes the server may send and however its reads are cut.         *)
THEOREM LengthAlwaysSurvives == Spec => []LengthSurvives
<1>1. Init => LengthSurvives
  BY DEF Init, LengthSurvives
<1>2. LengthSurvives /\ [Next]_vars => LengthSurvives'
  <2> SUFFICES ASSUME LengthSurvives, [Next]_vars PROVE LengthSurvives'
    OBVIOUS
  <2>1. CASE ws_can_read \/ UNCHANGED vars
    BY <2>1 DEF ws_can_read, vars, LengthSurvives
  <2>2. CASE send_frame
    <3>1. PICK sz \in SendLens :
            echoed' = [sz |-> sz, length |-> client_length(ws_frame_header(sz))]
      BY <2>2 DEF send_frame
    <3>2. sz \in Nat
      BY LensAssumption
    <3> QED BY <3>1, <3>2, HeaderRoundTrip DEF LengthSurvives
  <2> QED BY <2>1, <2>2 DEF Next
<1> QED BY <1>1, <1>2, PTL DEF Spec

-----------------------------------------------------------------------------
(* Frames that arrive.                                                     *)

(* The bytes of a frame, by the form of its header.                        *)
LEMMA WireForms ==
  ASSUME NEW len \in Nat
  PROVE  /\ len <= 125 => wire(len) = len + 6
         /\ len > 125 /\ len < 65536 => wire(len) = len + 8
         /\ len >= 65536 => wire(len) = len + 14
         /\ wire(len) \in Nat /\ wire(len) >= 6
<1>1. CASE len <= 125
  <2>1. wire(len) = len + 6
    BY <1>1 DEF wire
  <2> QED BY <1>1, <2>1
<1>2. CASE len > 125 /\ len < 65536
  <2>1. wire(len) = len + 8
    BY <1>2 DEF wire
  <2> QED BY <1>2, <2>1
<1>3. CASE len >= 65536
  <2>1. ~(len <= 125) /\ ~(len > 125 /\ len < 65536)
    BY <1>3
  <2>2. wire(len) = len + 14
    BY <2>1 DEF wire
  <2> QED BY <1>3, <2>2
<1> QED BY <1>1, <1>2, <1>3

(* A header has six bytes at least.                                        *)
LEMMA WireAtLeast == \A len \in Nat : wire(len) \in Nat /\ wire(len) >= 6
  BY WireForms

(* ws_peek_data says that a frame is complete exactly when all its bytes   *)
(* are in rbuf, whatever the form of its header.                           *)
LEMMA PeekIsExact ==
  ASSUME NEW sz \in Nat, NEW len \in Nat
  PROVE  ws_peek_data(sz, len) <=> wire(len) <= sz
<1>1. CASE len <= 125
  <2>1. client_indicator(len) = len
    BY <1>1 DEF client_indicator
  <2>2. ~(client_indicator(len) = 126) /\ ~(client_indicator(len) = 127)
    BY <1>1, <2>1
  <2>3. ws_peek_data(sz, len) <=> sz >= 2 /\ sz >= 6 /\ len <= sz - 6
    BY <2>2 DEF ws_peek_data
  <2> QED BY <1>1, <2>3, WireForms
<1>2. CASE len > 125 /\ len < 65536
  <2>1. client_indicator(len) = 126
    BY <1>2 DEF client_indicator
  <2>2. ws_peek_data(sz, len) <=> sz >= 2 /\ sz >= 6 + 2 /\ len <= sz - (6 + 2)
    BY <2>1 DEF ws_peek_data
  <2> QED BY <1>2, <2>2, WireForms
<1>3. CASE len >= 65536
  <2>1. ~(len <= 125) /\ ~(len > 125 /\ len < 65536)
    BY <1>3
  <2>2. client_indicator(len) = 127
    BY <2>1 DEF client_indicator
  <2>3. ~(client_indicator(len) = 126)
    BY <2>2
  <2>4. ws_peek_data(sz, len) <=> sz >= 2 /\ sz >= 6 + 8 /\ len <= sz - (6 + 8)
    BY <2>2, <2>3 DEF ws_peek_data
  <2> QED BY <1>3, <2>4, WireForms
<1> QED BY <1>1, <1>2, <1>3

StreamType == /\ stream \in Seq(Lens)
              /\ Len(stream) \in 1 .. MaxFrames

(* The lengths of the frames.                                              *)
LEMMA FrameLens ==
  ASSUME StreamType
  PROVE  \A i \in 1 .. Len(stream) : stream[i] \in Nat /\ wire(stream[i]) \in Nat
<1>1. \A len \in Nat : wire(len) \in Nat
  BY WireAtLeast
<1>2. \A i \in 1 .. Len(stream) : stream[i] \in Lens
  BY DEF StreamType
<1>3. \A i \in 1 .. Len(stream) : stream[i] \in Nat
  BY <1>2, LensAssumption, Zenon
<1> QED BY <1>1, <1>3, Zenon

(* Where frames begin.                                                     *)
LEMMA BytesAdd ==
  ASSUME StreamType
  PROVE  /\ Bytes \in [0 .. MaxFrames -> Nat]
         /\ Bytes[0] = 0
         /\ \A j \in 1 .. Len(stream) : Bytes[j] = Bytes[j - 1] + wire(stream[j])
<1> USE MaxFramesAssumption
<1> DEFINE step == [i \in 1 .. MaxFrames |-> [v \in Nat |->
                      IF i > Len(stream) THEN 0 ELSE v + wire(stream[i])]]
<1>1. \A i \in 1 .. Len(stream) : wire(stream[i]) \in Nat
  BY FrameLens
<1>2. \A i \in 1 .. MaxFrames, v \in Nat :
        step[i][v] = IF i > Len(stream) THEN 0 ELSE v + wire(stream[i])
  OBVIOUS
<1>s. step \in [1 .. MaxFrames -> [Nat -> Nat]]
  BY <1>1 DEF StreamType
<1> HIDE DEF step
<1>3. PICK g \in [0 .. MaxFrames -> Nat] :
        g[0] = 0 /\ \A i \in 1 .. MaxFrames : g[i] = step[i][g[i - 1]]
  <2>1. 0 \in Nat
    OBVIOUS
  <2>2. \E g \in [0 .. MaxFrames -> Nat] : Iterates(g, MaxFrames, 0, step)
    BY <1>s, <2>1, Recursion, Zenon
  <2> QED BY <2>2, Zenon DEF Iterates
<1>4. g = [j \in 0 .. MaxFrames |->
             IF j = 0 \/ j > Len(stream) THEN 0 ELSE g[j - 1] + wire(stream[j])]
  <2>1. ASSUME NEW j \in 0 .. MaxFrames
        PROVE  g[j] = IF j = 0 \/ j > Len(stream) THEN 0 ELSE g[j - 1] + wire(stream[j])
    <3>1. CASE j = 0
      BY <1>3, <3>1
    <3>2. CASE j # 0
      <4>1. j \in 1 .. MaxFrames /\ g[j - 1] \in Nat
        BY <3>2
      <4>2. g[j] = step[j][g[j - 1]]
        BY <1>3, <3>2
      <4> QED BY <1>2, <3>2, <4>1, <4>2
    <3> QED BY <3>1, <3>2
  <2> QED BY <2>1
<1>5. Bytes = [j \in 0 .. MaxFrames |->
             IF j = 0 \/ j > Len(stream) THEN 0 ELSE Bytes[j - 1] + wire(stream[j])]
  BY <1>4, Zenon DEF Bytes
<1>6. /\ Bytes[0] = 0
      /\ \A j \in 1 .. MaxFrames :
           Bytes[j] = IF j > Len(stream) THEN 0 ELSE Bytes[j - 1] + wire(stream[j])
  BY <1>5
<1>7. \A j \in 0 .. MaxFrames : Bytes[j] \in Nat
  <2> DEFINE P == {j \in 0 .. MaxFrames : Bytes[j] \in Nat}
  <2>1. 0 \in P
    BY <1>6
  <2>2. ASSUME NEW j \in 1 .. MaxFrames, j - 1 \in P PROVE j \in P
    <3>1. Bytes[j - 1] \in Nat
      BY <2>2
    <3>2. ~(j > Len(stream)) => wire(stream[j]) \in Nat
      BY <1>1 DEF StreamType
    <3> QED BY <1>6, <3>1, <3>2
  <2>3. 0 .. MaxFrames \subseteq P
    <3> HIDE DEF P
    <3> QED BY <2>1, <2>2, BoundedInduction
  <2> QED BY <2>3
<1>8. Bytes \in [0 .. MaxFrames -> Nat]
  BY <1>5, <1>7
<1>9. ASSUME NEW j \in 1 .. Len(stream) PROVE Bytes[j] = Bytes[j - 1] + wire(stream[j])
  <2>1. j \in 1 .. MaxFrames /\ ~(j > Len(stream))
    BY DEF StreamType
  <2> QED BY <1>6, <2>1
<1> QED BY <1>6, <1>8, <1>9

(* A frame that comes later begins later.                                  *)
LEMMA BytesGrow ==
  ASSUME StreamType, NEW i \in 0 .. Len(stream), NEW j \in 0 .. Len(stream), i <= j
  PROVE  Bytes[i] <= Bytes[j]
<1> DEFINE P == {k \in 0 .. Len(stream) : i <= k => Bytes[i] <= Bytes[k]}
<1>1. Len(stream) \in Nat /\ \A k \in 0 .. Len(stream) : Bytes[k] \in Nat
  BY BytesAdd, MaxFramesAssumption DEF StreamType
<1>2. 0 \in P
  BY <1>1
<1>3. ASSUME NEW k \in 1 .. Len(stream), k - 1 \in P PROVE k \in P
  <2>1. k \in 0 .. Len(stream) /\ k - 1 \in 0 .. Len(stream)
    BY <1>1
  <2>2. Bytes[k] = Bytes[k - 1] + wire(stream[k])
    BY BytesAdd
  <2>3. wire(stream[k]) \in Nat
    BY FrameLens
  <2>4. Bytes[k - 1] \in Nat /\ Bytes[i] \in Nat
    BY <1>1, <2>1
  <2>5. i <= k => i = k \/ i <= k - 1
    BY <1>1
  <2>6. Bytes[k] \in Nat /\ (i <= k - 1 => Bytes[i] <= Bytes[k - 1])
    BY <1>1, <1>3, <2>1
  <2>7. i <= k => Bytes[i] <= Bytes[k]
    BY <2>2, <2>3, <2>4, <2>5, <2>6
  <2> QED BY <2>1, <2>7
<1>4. 0 .. Len(stream) \subseteq P
  <2> HIDE DEF P
  <2> QED BY <1>1, <1>2, <1>3, BoundedInduction
<1> QED BY <1>4

(* One turn of the loop of ws_process_read_data.                           *)
Turn(p) == IF /\ p.processed < Len(stream)
              /\ ws_peek_data(p.rbuf, stream[p.processed + 1])
             THEN [rbuf |-> p.rbuf - wire(stream[p.processed + 1]),
                   processed |-> p.processed + 1]
             ELSE p

(* It takes a frame off rbuf that is there in full, or changes nothing.    *)
LEMMA TurnTakes ==
  ASSUME StreamType, NEW r \in Nat, NEW d \in 0 .. Len(stream)
  PROVE  LET p == [rbuf |-> r, processed |-> d]
         IN  IF d < Len(stream) /\ wire(stream[d + 1]) <= r
               THEN Turn(p) = [rbuf |-> r - wire(stream[d + 1]), processed |-> d + 1]
               ELSE Turn(p) = p
<1> DEFINE p == [rbuf |-> r, processed |-> d]
<1>1. p.rbuf = r /\ p.processed = d
  OBVIOUS
<1>2. CASE d < Len(stream)
  <2>1. d + 1 \in 1 .. Len(stream)
    BY <1>2 DEF StreamType
  <2>2. PICK len \in Nat : len = stream[d + 1]
    BY <2>1, FrameLens
  <2>3. ws_peek_data(r, len) <=> wire(len) <= r
    BY PeekIsExact
  <2> QED BY <1>1, <1>2, <2>2, <2>3 DEF Turn
<1>3. CASE ~(d < Len(stream))
  BY <1>1, <1>3 DEF Turn
<1> QED BY <1>2, <1>3

(* What is left of b bytes of rbuf when n turns of the loop have taken the *)
(* frames that follow the first k: they add up, and the loop has run out   *)
(* of turns, of frames or of complete ones.                                *)
Left(e, b, k, n) ==
  /\ e.rbuf \in Nat /\ e.processed \in 0 .. Len(stream)
  /\ e.rbuf + Bytes[e.processed] = b + Bytes[k]
  /\ \/ e.processed = k + n
     \/ e.processed = Len(stream)
     \/ e.rbuf < wire(stream[e.processed + 1])

(* The loop of ws_process_read_data leaves what Left says of it.           *)
LEMMA ExtractsAll ==
  ASSUME StreamType, processed \in 0 .. Len(stream), NEW b \in Nat
  PROVE  /\ extract(b) = [rbuf |-> extract(b).rbuf, processed |-> extract(b).processed]
         /\ Left(extract(b), b, processed, MaxFrames)
<1> USE MaxFramesAssumption
<1> DEFINE S == [rbuf : Nat, processed : 0 .. Len(stream)]
           start == [rbuf |-> b, processed |-> processed]
           step == [i \in 1 .. MaxFrames |-> [p \in S |-> Turn(p)]]
           run[n \in 0 .. MaxFrames] ==
             IF n = 0 THEN [rbuf |-> b, processed |-> processed]
             ELSE LET p == run[n - 1]
                  IN IF /\ p.processed < Len(stream)
                        /\ ws_peek_data(p.rbuf, stream[p.processed + 1])
                       THEN [rbuf |-> p.rbuf - wire(stream[p.processed + 1]),
                             processed |-> p.processed + 1]
                       ELSE p
<1>1. start \in S
  OBVIOUS
<1>2. \A p \in S : Turn(p) \in S
  <2> SUFFICES ASSUME NEW p \in S PROVE Turn(p) \in S
    OBVIOUS
  <2>1. p = [rbuf |-> p.rbuf, processed |-> p.processed]
        /\ p.rbuf \in Nat /\ p.processed \in 0 .. Len(stream)
    OBVIOUS
  <2>2. PICK r \in Nat, d \in 0 .. Len(stream) : p = [rbuf |-> r, processed |-> d]
    BY <2>1
  <2>3. CASE d < Len(stream) /\ wire(stream[d + 1]) <= r
    <3>1. Turn(p) = [rbuf |-> r - wire(stream[d + 1]), processed |-> d + 1]
      BY <2>2, <2>3, TurnTakes
    <3>2. d + 1 \in 1 .. Len(stream)
      BY <2>3 DEF StreamType
    <3>3. PICK w \in Nat : w = wire(stream[d + 1])
      BY <3>2, FrameLens
    <3> QED BY <2>3, <3>1, <3>2, <3>3 DEF StreamType
  <2>4. CASE ~(d < Len(stream) /\ wire(stream[d + 1]) <= r)
    BY <2>2, <2>4, TurnTakes
  <2> QED BY <2>3, <2>4
<1>3. step \in [1 .. MaxFrames -> [S -> S]]
  BY <1>2
<1>4. \A i \in 1 .. MaxFrames, p \in S : step[i][p] = Turn(p)
  OBVIOUS
<1>5. PICK g \in [0 .. MaxFrames -> S] :
        g[0] = start /\ \A i \in 1 .. MaxFrames : g[i] = step[i][g[i - 1]]
  <2> HIDE DEF S, start, step
  <2>1. \E g \in [0 .. MaxFrames -> S] : Iterates(g, MaxFrames, start, step)
    BY <1>1, <1>3, Recursion, Zenon
  <2> QED BY <2>1, Zenon DEF Iterates
<1>6. \A n \in 0 .. MaxFrames : g[n] = IF n = 0 THEN start ELSE Turn(g[n - 1])
  <2> HIDE DEF S, start, step
  <2>1. \A n \in 1 .. MaxFrames : n - 1 \in 0 .. MaxFrames
    OBVIOUS
  <2>2. \A n \in 1 .. MaxFrames : g[n] = Turn(g[n - 1])
    BY <1>4, <1>5, <2>1
  <2> QED BY <1>5, <2>2
<1>7. g = [n \in 0 .. MaxFrames |->
             IF n = 0 THEN [rbuf |-> b, processed |-> processed]
             ELSE LET p == g[n - 1]
                  IN IF /\ p.processed < Len(stream)
                        /\ ws_peek_data(p.rbuf, stream[p.processed + 1])
                       THEN [rbuf |-> p.rbuf - wire(stream[p.processed + 1]),
                             processed |-> p.processed + 1]
                       ELSE p]
  <2> HIDE DEF S, step
  <2>1. g = [n \in 0 .. MaxFrames |-> IF n = 0 THEN start ELSE Turn(g[n - 1])]
    BY <1>6
  <2> QED BY <2>1, Zenon DEF Turn
<1>8. run = [n \in 0 .. MaxFrames |->
             IF n = 0 THEN [rbuf |-> b, processed |-> processed]
             ELSE LET p == run[n - 1]
                  IN IF /\ p.processed < Len(stream)
                        /\ ws_peek_data(p.rbuf, stream[p.processed + 1])
                       THEN [rbuf |-> p.rbuf - wire(stream[p.processed + 1]),
                             processed |-> p.processed + 1]
                       ELSE p]
  BY <1>7, Zenon
<1>9. extract(b) = run[MaxFrames]
  BY DEF extract
<1> HIDE DEF run
<1>10. run[0] = start /\ \A n \in 1 .. MaxFrames : run[n] = Turn(run[n - 1])
  <2> HIDE DEF S, step
  <2>1. run = [n \in 0 .. MaxFrames |-> IF n = 0 THEN start ELSE Turn(run[n - 1])]
    BY <1>8, Zenon DEF Turn
  <2> QED BY <2>1
<1> DEFINE P == {n \in 0 .. MaxFrames : run[n] \in S /\ Left(run[n], b, processed, n)}
<1>11. 0 \in P
  <2>1. start.rbuf = b /\ start.processed = processed
    OBVIOUS
  <2>2. Left(start, b, processed, 0)
    BY <2>1 DEF Left
  <2> QED BY <1>1, <1>10, <2>2
<1>12. ASSUME NEW n \in 1 .. MaxFrames, n - 1 \in P PROVE n \in P
  <2>1. run[n - 1] \in S /\ Left(run[n - 1], b, processed, n - 1) /\ run[n] = Turn(run[n - 1])
    BY <1>10, <1>12
  <2>2. PICK r \in Nat, d \in 0 .. Len(stream) : run[n - 1] = [rbuf |-> r, processed |-> d]
    BY <2>1
  <2>3. /\ r + Bytes[d] = b + Bytes[processed]
        /\ d = processed + (n - 1) \/ d = Len(stream) \/ r < wire(stream[d + 1])
    BY <2>1, <2>2 DEF Left
  <2>4. CASE d < Len(stream) /\ wire(stream[d + 1]) <= r
    <3>1. run[n] = [rbuf |-> r - wire(stream[d + 1]), processed |-> d + 1]
      BY <2>1, <2>2, <2>4, TurnTakes
    <3>2. d + 1 \in 1 .. Len(stream) /\ (d + 1) - 1 = d
      BY <2>4 DEF StreamType
    <3>3. PICK w \in Nat : w = wire(stream[d + 1])
      BY <3>2, FrameLens
    <3>4. Bytes[d + 1] = Bytes[d] + w
      BY <3>2, <3>3, BytesAdd
    <3>5. Bytes[d] \in Nat /\ Bytes[processed] \in Nat
      BY BytesAdd, SMTT(30) DEF StreamType
    <3>6. run[n].rbuf = r - w /\ run[n].processed = d + 1
      BY <3>1, <3>3
    <3>7. d = processed + (n - 1)
      BY <2>3, <2>4, <3>3
    <3>a. r - w \in Nat /\ d + 1 = processed + n /\ d + 1 \in 0 .. Len(stream)
      BY <2>4, <3>2, <3>3, <3>7
    <3>b. (r - w) + Bytes[d + 1] = b + Bytes[processed]
      BY <2>3, <3>3, <3>4, <3>5, SMTT(30)
    <3>8. Left(run[n], b, processed, n)
      BY <3>6, <3>a, <3>b DEF Left
    <3>9. run[n] \in S
      BY <1>2, <2>1
    <3> QED BY <3>8, <3>9
  <2>5. CASE ~(d < Len(stream) /\ wire(stream[d + 1]) <= r)
    <3>1. run[n] = run[n - 1]
      BY <2>1, <2>2, <2>5, TurnTakes
    <3>2. run[n].rbuf = r /\ run[n].processed = d
      BY <2>2, <3>1
    <3>3. d = Len(stream) \/ r < wire(stream[d + 1])
      <4>1. CASE d < Len(stream)
        <5>1. d + 1 \in 1 .. Len(stream)
          BY <4>1 DEF StreamType
        <5>2. PICK w \in Nat : w = wire(stream[d + 1])
          BY <5>1, FrameLens
        <5> QED BY <2>5, <4>1, <5>2
      <4>2. CASE ~(d < Len(stream))
        BY <4>2 DEF StreamType
      <4> QED BY <4>1, <4>2
    <3>4. Left(run[n], b, processed, n)
      BY <2>3, <3>2, <3>3 DEF Left
    <3> QED BY <2>1, <3>1, <3>4, SMTT(30)
  <2> QED BY <2>4, <2>5
<1>13. 0 .. MaxFrames \subseteq P
  <2> HIDE DEF P
  <2> QED BY <1>11, <1>12, BoundedInduction
<1>14. MaxFrames \in P
  BY <1>13
<1> QED BY <1>9, <1>14

-----------------------------------------------------------------------------
(* Framing: the bytes of the messages extracted and of rbuf are the bytes  *)
(* that have arrived, and rbuf holds no complete frame between reads.      *)
FramingInv ==
  /\ StreamType
  /\ arrived \in Nat
  /\ rbuf \in Nat /\ processed \in 0 .. Len(stream)
  /\ rbuf + Bytes[processed] = arrived
  /\ processed = Len(stream) \/ rbuf < wire(stream[processed + 1])

(* So the messages extracted are the ones that are there.                  *)
LEMMA FramingExact == FramingInv => TypeOK /\ ExtractsWhatArrived
<1> SUFFICES ASSUME FramingInv PROVE TypeOK /\ ExtractsWhatArrived
  OBVIOUS
<1> USE DEF FramingInv
<1>1. \A i \in 0 .. Len(stream) : Bytes[i] \in Nat
  BY BytesAdd, MaxFramesAssumption DEF StreamType
<1>2. ASSUME NEW i \in 1 .. Len(stream)
      PROVE  i <= processed <=> Start(i) + wire(stream[i]) <= arrived
  <2>1. Start(i) + wire(stream[i]) = Bytes[i]
    BY BytesAdd DEF Start
  <2>2. i \in 0 .. Len(stream) /\ Bytes[i] \in Nat /\ Bytes[processed] \in Nat
    BY <1>1
  <2>3. CASE i <= processed
    <3>1. Bytes[i] <= Bytes[processed]
      BY <2>2, <2>3, BytesGrow
    <3> QED BY <2>1, <2>2, <2>3, <3>1
  <2>4. CASE ~(i <= processed)
    <3>1. processed + 1 \in 1 .. Len(stream) /\ processed + 1 \in 0 .. Len(stream)
          /\ processed + 1 <= i /\ (processed + 1) - 1 = processed
      BY <2>4
    <3>2. Bytes[processed + 1] = Bytes[processed] + wire(stream[processed + 1])
      BY <3>1, BytesAdd
    <3>3. PICK w \in Nat : w = wire(stream[processed + 1])
      BY <3>1, FrameLens
    <3>4. Bytes[processed + 1] <= Bytes[i]
      BY <2>2, <3>1, BytesGrow
    <3>5. rbuf < w
      BY <3>1, <3>3
    <3> QED BY <2>1, <2>2, <2>4, <3>2, <3>3, <3>4, <3>5
  <2> QED BY <2>3, <2>4
<1>3. rbuf = arrived - Start(processed + 1)
  <2>1. Start(processed + 1) = Bytes[processed]
    BY DEF Start
  <2> QED BY <1>1, <2>1
<1> QED BY <1>2, <1>3 DEF TypeOK, ExtractsWhatArrived

(* Before the first byte.                                                  *)
LEMMA InitFraming == Init => FramingInv
<1> SUFFICES ASSUME Init PROVE FramingInv
  OBVIOUS
<1>1. PICK n \in 1 .. MaxFrames : stream \in [1 .. n -> Lens]
  BY DEF Init
<1>2. StreamType
  BY <1>1, MaxFramesAssumption DEF StreamType
<1>3. 0 + 1 \in 1 .. Len(stream)
  BY <1>2 DEF StreamType
<1>4. stream[0 + 1] \in Nat
  BY <1>2, <1>3, FrameLens
<1>5. wire(stream[0 + 1]) > 0
  BY <1>4, WireAtLeast
<1> QED BY <1>2, <1>3, <1>5, BytesAdd DEF Init, FramingInv

(* A read, wherever it ends.                                               *)
LEMMA StepFraming == FramingInv /\ [Next]_vars => FramingInv'
<1> SUFFICES ASSUME FramingInv, [Next]_vars PROVE FramingInv'
  OBVIOUS
<1>0. StreamType /\ processed \in 0 .. Len(stream)
  BY DEF FramingInv
<1>1. CASE ws_can_read
  <2>1. PICK a \in CutPoints :
          /\ a > arrived /\ arrived' = a /\ stream' = stream
          /\ rbuf' = extract(rbuf + a - arrived).rbuf
          /\ processed' = extract(rbuf + a - arrived).processed
    BY <1>1 DEF ws_can_read
  <2>2. a \in Nat
    <3>1. PICK i \in 1 .. Len(stream) :
            \E d \in Offsets \cup {wire(stream[i]) - 1, wire(stream[i])} : a = Start(i) + d
      BY DEF CutPoints
    <3>2. Start(i) \in Nat
      BY <1>0, BytesAdd, MaxFramesAssumption DEF Start, StreamType
    <3>4. stream[i] \in Nat
      BY <1>0, FrameLens
    <3>5. PICK w \in Nat : w = wire(stream[i]) /\ w >= 6
      BY <3>4, WireAtLeast
    <3>6. PICK d \in Nat : a = Start(i) + d
      BY <3>1, <3>5, OffsetsAssumption
    <3> QED BY <3>2, <3>6
  <2>3. PICK b \in Nat : b = rbuf + a - arrived
    BY <2>1, <2>2 DEF FramingInv
  <2>4. Left(extract(b), b, processed, MaxFrames)
    BY <1>0, ExtractsAll
  <2>5. /\ rbuf' \in Nat /\ processed' \in 0 .. Len(stream)
        /\ rbuf' + Bytes[processed'] = b + Bytes[processed]
        /\ \/ processed' = processed + MaxFrames
           \/ processed' = Len(stream)
           \/ rbuf' < wire(stream[processed' + 1])
    BY <2>1, <2>3, <2>4 DEF Left
  <2>6. processed' = Len(stream) \/ rbuf' < wire(stream[processed' + 1])
    BY <1>0, <2>5, MaxFramesAssumption DEF StreamType
  <2>7. Bytes[processed] \in Nat
    BY <1>0, BytesAdd, MaxFramesAssumption DEF StreamType
  <2>8. b + Bytes[processed] = a
    BY <2>1, <2>2, <2>3, <2>7 DEF FramingInv
  <2>9. Bytes' = Bytes
    BY <2>1, Zenon DEF Bytes
  <2>10. rbuf' + Bytes'[processed'] = arrived'
    BY <2>1, <2>5, <2>8, <2>9
  <2> QED BY <1>0, <2>1, <2>2, <2>5, <2>6, <2>10 DEF FramingInv, StreamType
<1>2. CASE send_frame \/ UNCHANGED vars
  <2>1. UNCHANGED <<stream, arrived, rbuf, processed>>
    BY <1>2 DEF send_frame, vars
  <2>2. Bytes' = Bytes
    BY <2>1, Zenon DEF Bytes
  <2> QED BY <2>1, <2>2 DEF FramingInv, StreamType
<1> QED BY <1>1, <1>2 DEF Next

(* Framing never slips: for frames of any lengths and reads that end       *)
(* anywhere, ws_process_read_data extracts the messages that have arrived  *)
(* in full, no sooner and no later, and rbuf begins at the next frame.     *)
THEOREM FramingNeverSlips == Spec => []ExtractsWhatArrived
  BY InitFraming, StepFraming, FramingExact, PTL DEF Spec

(* The counters have their types: rbuf never has less than nothing.        *)
THEOREM FramingTyped == Spec => []TypeOK
  BY InitFraming, StepFraming, FramingExact, PTL DEF Spec
=============================================================================
