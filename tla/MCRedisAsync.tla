---------------------------- MODULE MCRedisAsync ----------------------------
(* Instances of RedisAsync for TLC.                                        *)
EXTENDS RedisAsync

Cmd(id, kind, chans, fn) == [id |-> id, kind |-> kind, chans |-> chans, fn |-> fn]

(* SELECT with a NULL callback, commands whose callback keeps, closes or   *)
(* frees the context, two subscriptions to one channel and two ends to     *)
(* them, which may be sent in any order.                                   *)
MCCommands ==
  {Cmd("select", "plain", <<>>, "null"), Cmd("get", "plain", <<>>, "keep"),
   Cmd("quit", "plain", <<>>, "disconnect"),
   Cmd("sub", "subscribe", <<"x">>, "keep"), Cmd("resub", "subscribe", <<"x">>, "keep"),
   Cmd("unsub", "unsubscribe", <<"x">>, "null"), Cmd("again", "unsubscribe", <<"x">>, "null"),
   Cmd("drop", "plain", <<>>, "free"), Cmd("monitor", "monitor", <<>>, "keep")}
=============================================================================
