------------------------------ MODULE AsyncLink -----------------------------
(***************************************************************************)
(* What webdis relies on of an asynchronous Redis connection, and what the *)
(* module Pool takes for granted: the outcome of connecting is told once   *)
(* and a connection that was made is reported gone once, at the end.  For  *)
(* as long as commands are sent in an order that can be followed, every    *)
(* command taken also has its callback run exactly once, in the order the  *)
(* commands were sent, with its reply or with NULL, before the connection  *)
(* is gone.  After one that is not, the connection promises nothing of the *)
(* commands, and may take the whole process down with it.                  *)
(***************************************************************************)
EXTENDS SequencesExt

CONSTANT Ids       \* the commands that may be sent

VARIABLES phase,     \* where the connection is in its life
          orderly,   \* the commands sent could be followed
          waiting,   \* commands whose callback has still to run, oldest first
          answered   \* commands whose callback has run, oldest first

vars == <<phase, orderly, waiting, answered>>

(* "failed": the connect callback was given an error.  "gone": the         *)
(* disconnect callback was run.  "dropped": freed before it was connected. *)
(* "aborted": an assertion of the library failed.                          *)
Over == {"failed", "gone", "dropped", "aborted"}
May == [connecting |-> {"connecting", "connected", "failed", "gone", "dropped", "aborted"},
        connected  |-> {"connected", "gone", "aborted"}]

Init == phase = "connecting" /\ orderly = TRUE /\ waiting = <<>> /\ answered = <<>>

Send(m) ==
  /\ phase \notin Over
  /\ orderly
  /\ m \notin ToSet(waiting) \cup ToSet(answered)
  /\ waiting' = Append(waiting, m)
  /\ UNCHANGED <<phase, orderly, answered>>

(* A command is sent out of order; no account of commands is kept now.     *)
Stray ==
  /\ phase \notin Over
  /\ orderly' = FALSE
  /\ waiting' = <<>> /\ answered' = <<>>
  /\ UNCHANGED phase

(* One handler: the oldest n commands are answered, all of them when the   *)
(* connection is over.                                                     *)
Advance(n) ==
  /\ phase \notin Over
  /\ phase' \in May[phase]
  /\ phase' = "aborted" => ~orderly
  /\ phase' \in Over => n = Len(waiting)
  /\ phase' = "connecting" => n = 0
  /\ answered' = answered \o SubSeq(waiting, 1, n)
  /\ waiting' = SubSeq(waiting, n + 1, Len(waiting))
  /\ UNCHANGED orderly

Next ==
  \/ \E m \in Ids : Send(m)
  \/ Stray
  \/ \E n \in 0 .. Len(waiting) : Advance(n)

Spec == Init /\ [][Next]_vars
=============================================================================
