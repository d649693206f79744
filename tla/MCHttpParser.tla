---------------------------- MODULE MCHttpParser ----------------------------
(* Instances of HttpParser for TLC.                                        *)
EXTENDS HttpParser

Get(path, minor, headers) ==
  [method |-> <<"G", "ET">>, path |-> path, minor |-> minor, headers |-> headers, body |-> <<>>]
With(method, headers, body) ==
  [method |-> method, path |-> <<"/", "SET">>, minor |-> "1", headers |-> headers, body |-> body]
H(key, val) == [key |-> key, val |-> val]

Plain == Get(<<"/", "GET", "/", "k">>, "1", <<H(<<"host">>, <<"a", "b">>)>>)
Absolute == Get(<<"http", ":", "/", "/", "h", ":", "3", "/", "x">>, "1", <<>>)
Query == Get(<<"/", "x", "?", "type", "=", "text", "/", "css">>, "1", <<>>)
Fragment == Get(<<"/", "x", "?", "a", "=", "b", "#", "f">>, "1", <<>>)
Closing == Get(<<"/", "x">>, "1", <<H(CONNECTION, CLOSE)>>)
Old == Get(<<"/", "x">>, "0", <<>>)
\* Kept by Connection, by Proxy-Connection, and by what looks like it.
OldKept == Get(<<"/", "x">>, "0", <<H(CONNECTION, KEEP_ALIVE)>>)
OldProxied == Get(<<"/", "x">>, "0", <<H(PROXY_CONNECTION, KEEP_ALIVE)>>)
OldAbbreviated == Get(<<"/", "x">>, "0", <<H(<<"con">>, KEEP_ALIVE)>>)
Proxied == Get(<<"/", "x">>, "1", <<H(PROXY_CONNECTION, CLOSE)>>)
Expecting == With(<<"P", "OST">>, <<H(EXPECT, CONTINUE), H(CONTENT_LENGTH, <<"1">>)>>, <<"y">>)
Posted == With(<<"P", "OST">>, <<H(CONTENT_LENGTH, <<"2">>)>>, <<"y", "y">>)
Put == With(<<"P", "UT">>, <<H(<<"con", "cept">>, <<"keep-">>), H(TRANSFER_ENCODING, CHUNKED)>>,
            <<CR, "0">>)
\* Put fills MaxHeader exactly, Long passes it by one.
Long == Get(<<"/", "x">>, "1", <<H(<<"host">>, <<"a", "b", "c">>), H(<<"host">>, <<"a", "b", "c">>)>>)
Switching == Get(<<"/">>, "1", <<H(CONNECTION, <<"up">>), H(UPGRADE, <<"ws">>)>>)

MCScripts ==
  {<<Plain, Posted>>, <<Posted, Put>>, <<Put, Plain>>, <<Closing, Plain>>, <<Absolute, Old>>,
   <<Fragment, Query>>, <<Plain, Switching>>, <<Old, Plain>>, <<Plain, Long>>,
   <<OldKept, Plain>>, <<OldKept, Old>>, <<OldProxied, Plain>>, <<OldAbbreviated, Plain>>,
   <<Proxied, Plain>>, <<Expecting, Plain>>}
=============================================================================
