------------------------------ MODULE MCCommand ------------------------------
(* Every URI of up to five of a few characters, and every list of up to two *)
(* entries of an access control list for a few names.                       *)
EXTENDS Command

Alphabet == {"g", "1", "/", "%", "?", "."}
Uris == UNION {[1..n -> Alphabet] : n \in 0..5}

\* A few longer ones: a database with arguments, escapes and extensions.
LongUris == {<<"1", "/", "g">> \o t : t \in
    {<<"/", "%", "1", "1", "/", "g", ".", "j">>, <<"/", "g", "/", "g", "/">>,
     <<".", "j", "?", "g">>, <<"/", "%", "1", "/", "1", "+", ".", "g">>}}

MCExtensions == (<<"g">> :> "custom") @@ (<<"j">> :> "raw")
MCAlwaysOff == <<<<"S", "E">>>>
MCDigits == ("0" :> 0) @@ ("1" :> 1) @@ ("2" :> 2)
MCLowerCase == {"g", "s", "e"}
MCUsers == (<<"g">> :> 5)
MCEnv == (<<"D", "B">> :> <<"2">>) @@ (<<"N">> :> <<"1", "0", "/", "1">>)
         @@ (<<"G">> :> <<"g">>) @@ (<<"g">> :> <<"s">>)

Object(f) == Json("object", f)
Text3 == Json("string", <<"$", "D", "B">>)
Files == {
    NoFile, Object(EmptyObject),
    Object("database" :> Json("integer", 3)),
    Object(("database" :> Text3) @@ ("default_root" :> Json("string", <<"/", "g", "/", "g">>))
           @@ ("acl" :> Json("null", <<>>)) @@ ("user" :> Json("string", <<"g">>))
           @@ ("redis_auth" :> Json("array", <<Text3, Text3>>))
           @@ ("hiredis" :> Object("keep_alive_sec" :> Json("integer", 7)))
           @@ ("ssl" :> Object("enabled" :> Json("true", <<>>)))
           @@ ("verbosity" :> Json("integer", 9)) @@ ("log_fsync" :> Json("integer", 5)))}

Anyone == [auth |-> NoAuth, addr |-> <<0, 0>>]
Request(method, uri, body, type, file) ==
    [method |-> method, uri |-> uri, body |-> body, type |-> type,
     client |-> Anyone, file |-> file]

Short == {u \in Uris : Len(u) <= 3}
UriRequests ==
    {Request("GET", u, <<>>, FALSE, NoFile) : u \in Uris \union LongUris}
    \union {Request("GET", u, <<>>, FALSE, f) : u \in Short \union LongUris, f \in Files}
    \union {Request("PUT", u, <<"b">>, FALSE, NoFile) : u \in {v \in Uris : Len(v) <= 4} \union LongUris}
    \union {Request("POST", <<>>, u, TRUE, NoFile) : u \in {v \in Uris : Len(v) <= 4}}
    \union {Request("OPTIONS", <<"g">>, <<>>, FALSE, NoFile), Request("DELETE", <<"g">>, <<>>, FALSE, NoFile)}

Key(key, j) == IF j = Json("null", <<>>) THEN EmptyObject ELSE key :> j
None == Json("null", <<>>)
StringList(names) == Json("array", [i \in DOMAIN names |-> Json("string", names[i])])
Lists == {None, StringList(<<<<"$", "G">>>>), StringList(<<<<"G", "s">>>>), StringList(<<<<"*">>>>),
          Json("array", <<Json("integer", 1), Json("string", <<"$", "g">>)>>)}
Profile(auth, ip, enabled, disabled) ==
    Object(Key("http_basic_auth", auth) @@ Key("ip", ip) @@ Key("enabled", enabled)
           @@ Key("disabled", disabled))
Nets == {None, Json("string", <<"$", "N">>), Json("string", <<"1", "1">>),
         Json("string", <<"1", "1", "/", "0">>)}
Password == Json("string", <<"p", "w">>)
ProfileSet == {Profile(a, n, e, d) : a \in {None, Password}, n \in Nets, e, d \in Lists}
Plain == {Profile(None, None, None, d) : d \in Lists}
Somebody == {[auth |-> a, addr |-> b] :
                a \in {NoAuth, Base64(<<"p", "w">>), Base64(<<"p">>)}, b \in {<<0, 0>>, <<1, 1>>}}
AclRequests ==
    {[Request("GET", name, <<>>, FALSE, Object("acl" :> Json("array", <<a, b>>))) EXCEPT !.client = who] :
        name \in {<<"G">>, <<"g", "S">>, <<"g", "s", "e">>, <<"s", "e">>},
        who \in Somebody, a \in Plain, b \in ProfileSet}

MCRequests == UriRequests \union AclRequests
=============================================================================
