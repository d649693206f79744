------------------------------ MODULE WsFrame -------------------------------
(***************************************************************************)
(* WebSocket framing (src/websocket.c): how ws_frame_and_send_response     *)
(* writes the length of a payload, and how ws_peek_data and the loop of    *)
(* ws_process_read_data cut the bytes that have arrived into messages.     *)
(* A frame on the wire is its payload's length; all are masked and FIN.    *)
(***************************************************************************)
EXTENDS Integers, Sequences

CONSTANTS Lens,       \* payload lengths a client may send
          MaxFrames,  \* bound: frames in the stream
          Offsets,    \* where in a frame a read may end
          SendLens    \* payload lengths the server may send

ASSUME LensAssumption == Lens \subseteq Nat /\ SendLens \subseteq Nat
ASSUME OffsetsAssumption == Offsets \subseteq Nat
ASSUME MaxFramesAssumption == MaxFrames \in Nat

-----------------------------------------------------------------------------
(* The peer: RFC 6455, section 5.2.                                        *)

(* The 7-bit length a conforming client writes.                            *)
client_indicator(len) ==
  CASE len <= 125 -> len
    [] len > 125 /\ len < 65536 -> 126
    [] OTHER -> 127

(* Bytes of a client's frame: 2, the extended length, the mask, the data.  *)
wire(len) == len + CASE len <= 125 -> 6
                     [] len > 125 /\ len < 65536 -> 8
                     [] OTHER -> 14

(* The length a conforming client reads from a header.                     *)
client_length(h) == IF h.indicator <= 125 THEN h.indicator ELSE h.extended

-----------------------------------------------------------------------------
(* Mutant: the 16-bit form is used up to twice its range.                  *)
WideSixteen(sz) ==
  CASE sz <= 125 -> [indicator |-> sz, extended |-> 0]
    [] sz > 125 /\ sz <= 131072 -> [indicator |-> 126, extended |-> sz % 65536]
    [] OTHER -> [indicator |-> 127, extended |-> sz]

(* ws_frame_and_send_response: the header for a payload of sz bytes.  The  *)
(* 16-bit length is htons(sz), which keeps the low 16 bits.                *)
ws_frame_header(sz) ==
  CASE sz <= 125 -> [indicator |-> sz, extended |-> 0]
    [] sz > 125 /\ sz <= 65536 -> [indicator |-> 126, extended |-> sz % 65536]
    [] OTHER -> [indicator |-> 127, extended |-> sz]

(* Mutant: the extended length is not counted as part of the header.       *)
ShortHeader(sz, len) ==
  LET min_sz == CASE client_indicator(len) = 126 -> 6 + 2
                  [] client_indicator(len) = 127 -> 6 + 8
                  [] OTHER -> 6
  IN sz >= 2 /\ sz >= min_sz /\ len <= sz - 6

(* ws_peek_data with sz bytes in rbuf, the first frame of which has a      *)
(* payload of len: TRUE for WS_MSG_COMPLETE, FALSE for WS_READING.         *)
ws_peek_data(sz, len) ==
  LET min_sz == CASE client_indicator(len) = 126 -> 6 + 2
                  [] client_indicator(len) = 127 -> 6 + 8
                  [] OTHER -> 6
  IN /\ sz >= 2
     /\ sz >= min_sz
     /\ len <= sz - min_sz

-----------------------------------------------------------------------------
VARIABLES stream,     \* the frames of the connection, as payload lengths
          arrived,    \* bytes received so far
          rbuf,       \* bytes in ws->rbuf
          processed,  \* messages extracted so far
          echoed      \* the length the peer reads from the last frame sent

vars == <<stream, arrived, rbuf, processed, echoed>>

(* The bytes of the first j frames.                                        *)
Bytes[j \in 0 .. MaxFrames] ==
  IF j = 0 \/ j > Len(stream) THEN 0 ELSE Bytes[j - 1] + wire(stream[j])

(* The first byte of frame i.                                              *)
Start(i) == Bytes[i - 1]

(* Where a read may end: in and around the headers and the ends of frames. *)
CutPoints ==
  UNION {{Start(i) + d : d \in Offsets \cup {wire(stream[i]) - 1, wire(stream[i])}}
           : i \in 1 .. Len(stream)}

Init ==
  /\ stream \in UNION {[1 .. n -> Lens] : n \in 1 .. MaxFrames}
  /\ arrived = 0
  /\ rbuf = 0
  /\ processed = 0
  /\ echoed = [sz |-> 0, length |-> 0]

(* The loop of ws_process_read_data over b bytes of rbuf: the number of    *)
(* messages extracted after n turns, and the bytes left.                   *)
extract(b) ==
  LET run[n \in 0 .. MaxFrames] ==
        IF n = 0 THEN [rbuf |-> b, processed |-> processed]
        ELSE LET p == run[n - 1]
             IN IF /\ p.processed < Len(stream)
                   /\ ws_peek_data(p.rbuf, stream[p.processed + 1])
                  THEN [rbuf |-> p.rbuf - wire(stream[p.processed + 1]),
                        processed |-> p.processed + 1]
                  ELSE p
  IN run[MaxFrames]

(* ws_can_read: more bytes, then ws_process_read_data.                     *)
ws_can_read ==
  /\ \E a \in CutPoints :
       /\ a > arrived
       /\ a <= Start(Len(stream)) + wire(stream[Len(stream)])
       /\ arrived' = a
       /\ rbuf' = extract(rbuf + a - arrived).rbuf
       /\ processed' = extract(rbuf + a - arrived).processed
  /\ UNCHANGED <<stream, echoed>>

(* A message of any size is sent to the peer, who reads its length.        *)
send_frame ==
  /\ \E sz \in SendLens :
       echoed' = [sz |-> sz, length |-> client_length(ws_frame_header(sz))]
  /\ UNCHANGED <<stream, arrived, rbuf, processed>>

Next == ws_can_read \/ send_frame

Spec == Init /\ [][Next]_vars

-----------------------------------------------------------------------------
TypeOK ==
  /\ arrived \in Nat
  /\ rbuf \in Nat
  /\ processed \in 0 .. Len(stream)

(* Framing never slips: however the bytes are cut into reads, the messages *)
(* extracted are those that have arrived in full, no sooner and no later,  *)
(* and what stays in rbuf begins at the next frame's first byte.           *)
ExtractsWhatArrived ==
  /\ \A i \in 1 .. Len(stream) :
       i <= processed <=> Start(i) + wire(stream[i]) <= arrived
  /\ rbuf = arrived - Start(processed + 1)

(* The peer reads the length that was sent, for every payload but one.     *)
LengthSurvives ==
  echoed.sz # 65536 => echoed.length = echoed.sz

=============================================================================
