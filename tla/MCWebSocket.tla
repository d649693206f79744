---------------------------- MODULE MCWebSocket -----------------------------
(* Small instances of WebSocket for TLC: the frames a client sends.        *)
EXTENDS WebSocket, TLC

frame(op, arg) == [op |-> op, arg |-> arg]

Everything == {frame("cmd", "SET"), frame("denied", "CONFIG"), frame("sub", "a"),
               frame("unsub", "a"), frame("bad", "x"), frame("ping", "x"),
               frame("close", "x"), frame("other", "x"), frame("nomask", "x"),
               frame("part", "x")}
=============================================================================
