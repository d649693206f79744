------------------------------- MODULE MCHttp -------------------------------
(* Small instances of Http for TLC: which requests the clients send.       *)
EXTENDS Http

(* Every kind of request, and every form of keep-alive that the kind tells *)
(* apart.                                                                  *)
AllRequests == {<<"plain", "keep">>, <<"plain", "close">>, <<"denied", "keep">>,
                <<"mon", "keep">>, <<"unsub", "keep">>, <<"unsub", "close">>,
                <<"sub", "keep">>, <<"sub", "close">>}
               \cup ({"cmd"} \X Connection)
KeepAlive == {<<"plain", "keep">>, <<"cmd", "keep">>, <<"sub", "keep">>}
=============================================================================
