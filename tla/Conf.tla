-------------------------------- MODULE Conf --------------------------------
(***************************************************************************)
(* The configuration file (conf.c): conf_read takes each key it knows,     *)
(* when its value has an expected type, and leaves the default of the      *)
(* others; a string that begins with a dollar sign and has no lower-case   *)
(* letter is replaced by the variable of the environment it names.         *)
(*                                                                         *)
(* The file is a JSON object: a function from keys to values.  A string is *)
(* a sequence of characters; an address is written as its bits.            *)
(***************************************************************************)
EXTENDS Acl, Integers, TLC

CONSTANTS
    Env,           \* the environment: name -> value
    Digits,        \* the decimal digits that texts use: character -> value
    LowerCase,     \* the characters that toupper changes
    Users,         \* the names getpwnam and getgrnam know -> identifiers
    ADDR_BITS,     \* the bits of an address, 32 in the code
    INT_MAX        \* of int; its negative values are -INT_MAX-1..-1

ASSUME ConfAssumption == INT_MAX \in Nat \ {0} /\ ADDR_BITS \in Nat \ {0}

Json(type, v) == [type |-> type, v |-> v]
NoFile == Json("error", <<>>)
EmptyObject == [key \in {} |-> key]
Unset == <<"unset">>

\* int arithmetic.
WrapInt(n) == ((n + INT_MAX + 1) % (2 * (INT_MAX + 1))) - INT_MAX - 1

conf_str_allcaps(s) == \A i \in DOMAIN s : s[i] \notin LowerCase

conf_string_or_envvar(val) ==
    IF /\ Len(val) >= 2 /\ Head(val) = "$"
       /\ conf_str_allcaps(Tail(val))
       /\ Tail(val) \in DOMAIN Env
    THEN Env[Tail(val)] ELSE val

\* The number at the beginning of a text, 0 when there is none.
atoi(s) ==
    LET stops == {i \in DOMAIN s : s[i] \notin DOMAIN Digits}
        n == IF stops = {} THEN Len(s) ELSE (CHOOSE i \in stops : \A j \in stops : i <= j) - 1
    IN  FoldLeft(LAMBDA v, c : WrapInt(v * 10 + Digits[c]), 0, SubSeq(s, 1, n))

is_true(s) == s \in {<<"true">>, <<"TRUE">>}

-----------------------------------------------------------------------------
(***************************************************************************)
(* Access control entries.                                                 *)
(***************************************************************************)
Has(obj, key, type) == key \in DOMAIN obj /\ obj[key].type = type

\* The strings of the list; the others are passed over when they are counted
\* and when they are stored.
acl_read_commands(jlist) ==
    LET strings == SelectSeq(jlist, LAMBDA e : e.type = "string")
    IN  [i \in DOMAIN strings |-> conf_string_or_envvar(strings[i].v)]

\* inet_addr: the bits of an address, all ones for a text that is none.
inet_addr(s) ==
    IF Len(s) = ADDR_BITS /\ Range(s) \subseteq {"0", "1"}
    THEN [i \in 1..ADDR_BITS |-> IF s[i] = "1" THEN 1 ELSE 0]
    ELSE [i \in 1..ADDR_BITS |-> 1]

\* Mutant: the mask is one bit short.
SubnetShort(s) ==
    LET slashes == {i \in DOMAIN s : s[i] = "/"}
        slash == IF slashes = {} THEN Len(s) + 1 ELSE CHOOSE i \in slashes : TRUE
        mask_bits == atoi(SubSeq(s, slash + 1, Len(s))) % 65536  \* unsigned short
    IN  [bits |-> inet_addr(SubSeq(s, 1, slash - 1)),
         size |-> IF mask_bits = 0 THEN ADDR_BITS ELSE mask_bits - 1]

\* "address/bits"; no mask, and a mask of 0 bits, are all the bits.  A mask of
\* more than ADDR_BITS, which shifts by a negative number, is no input here.
conf_parse_cidr(s) ==
    LET slashes == {i \in DOMAIN s : s[i] = "/"}
        slash == IF slashes = {} THEN Len(s) + 1
                 ELSE CHOOSE i \in slashes : \A j \in slashes : i <= j
        mask_bits == atoi(SubSeq(s, slash + 1, Len(s))) % 65536  \* unsigned short
    IN  [bits |-> inet_addr(SubSeq(s, 1, slash - 1)),
         size |-> IF mask_bits = 0 THEN ADDR_BITS ELSE mask_bits]

conf_parse_acl(j) ==
    Entry(IF Has(j, "http_basic_auth", "string")
          THEN Base64(conf_string_or_envvar(j["http_basic_auth"].v)) ELSE NoAuth,
          IF Has(j, "ip", "string")
          THEN conf_parse_cidr(conf_string_or_envvar(j["ip"].v)) ELSE NoSubnet,
          IF Has(j, "enabled", "array") THEN acl_read_commands(j["enabled"].v) ELSE <<>>,
          IF Has(j, "disabled", "array") THEN acl_read_commands(j["disabled"].v) ELSE <<>>)

conf_parse_acls(jtab) == [i \in DOMAIN jtab |-> conf_parse_acl(jtab[i].v)]

-----------------------------------------------------------------------------
NoCredentials == [legacy |-> FALSE, username |-> Unset, password |-> Unset]

conf_auth_legacy(password) ==
    [legacy |-> TRUE, username |-> Unset, password |-> password]

conf_auth_username_password(jarray) ==
    IF Len(jarray) # 2 \/ \E i \in DOMAIN jarray : jarray[i].type # "string" THEN NoCredentials
    ELSE [legacy |-> FALSE,
          username |-> conf_string_or_envvar(jarray[1].v),
          password |-> conf_string_or_envvar(jarray[2].v)]

conf_read_auth(value) ==
    CASE value.type = "string" -> conf_auth_legacy(conf_string_or_envvar(value.v))
      [] value.type = "array" -> conf_auth_username_password(value.v)
      [] OTHER -> NoCredentials

\* keep_alive_sec, 0 when there is none.
conf_parse_hiredis(obj) ==
    IF Has(obj, "keep_alive_sec", "integer") THEN WrapInt(obj["keep_alive_sec"].v) ELSE 0

conf_parse_ssl(obj) ==
    [enabled |-> Has(obj, "enabled", "true")] @@
    [key \in {"ca_cert_bundle", "path_to_certs", "client_cert", "client_key", "redis_sni"} |->
        IF Has(obj, key, "string") THEN conf_string_or_envvar(obj[key].v) ELSE Unset]

\* log_fsync: the mode, and the period of "millis".
conf_read_fsync(value) ==
    CASE value.type = "string" /\ value.v = <<"all">> -> <<"all", 0>>
      [] value.type = "integer" /\ value.v > 0 -> <<"millis", WrapInt(value.v)>>
      [] OTHER -> <<"auto", 0>>

OwnId == 0    \* getuid() and getgid()
TRACE == 8    \* WEBDIS_TRACE

conf_read(file) ==
    LET obj == IF file = NoFile THEN EmptyObject ELSE file.v
        Str(key, default) ==
            IF Has(obj, key, "string") THEN conf_string_or_envvar(obj[key].v) ELSE default
        Num(key, default) ==
            CASE Has(obj, key, "integer") -> WrapInt(obj[key].v)
              [] Has(obj, key, "string") -> atoi(conf_string_or_envvar(obj[key].v))
              [] OTHER -> default
        Bool(key) == \/ Has(obj, key, "true")
                     \/ Has(obj, key, "string") /\ is_true(conf_string_or_envvar(obj[key].v))
        Id(key) == LET name == Str(key, Unset)
                   IN  IF name \in DOMAIN Users THEN Users[name] ELSE OwnId
    IN  [redis_host |-> Str("redis_host", <<"127.0.0.1">>),
         redis_port |-> Num("redis_port", 6379),
         redis_auth |-> IF "redis_auth" \in DOMAIN obj THEN conf_read_auth(obj["redis_auth"])
                        ELSE NoCredentials,
         http_host |-> Str("http_host", <<"0.0.0.0">>),
         http_port |-> Num("http_port", 7379),
         http_max_request_size |-> Num("http_max_request_size", 134217728),
         http_threads |-> Num("threads", 4),
         perms |-> IF Has(obj, "acl", "array") THEN conf_parse_acls(obj["acl"].v) ELSE <<>>,
         user |-> Id("user"), group |-> Id("group"),
         logfile |-> Str("logfile", <<"webdis.log">>),
         log_fsync |-> IF "log_fsync" \in DOMAIN obj THEN conf_read_fsync(obj["log_fsync"])
                       ELSE <<"auto", 0>>,
         verbosity |-> IF ~Has(obj, "verbosity", "integer") THEN 2
                       ELSE LET tmp == WrapInt(obj["verbosity"].v)
                            IN  IF tmp < 0 THEN 0 ELSE IF tmp > TRACE THEN TRACE ELSE tmp,
         daemonize |-> Bool("daemonize"),
         pidfile |-> Str("pidfile", <<"webdis.pid">>),
         websockets |-> Bool("websockets"),
         database |-> Num("database", 0),
         pool_size_per_thread |-> Num("pool_size", 2),
         default_root |-> Str("default_root", Unset),
         ssl |-> conf_parse_ssl(IF Has(obj, "ssl", "object") THEN obj["ssl"].v ELSE EmptyObject),
         hiredis_opts |-> conf_parse_hiredis(IF Has(obj, "hiredis", "object")
                                             THEN obj["hiredis"].v ELSE EmptyObject)]
=============================================================================
