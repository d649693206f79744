------------------------------ MODULE Command ------------------------------
(***************************************************************************)
(* From a request to a Redis command: worker_process_client (worker.c),    *)
(* cmd_run, cmd_select_format, cmd_setup and decode_uri (cmd.c), and the   *)
(* access control of acl.c.  cmd_run counts the arguments of the URI,      *)
(* allocates an array of that many, and then cuts the URI a second time,   *)
(* after the extension was taken off and a database number was found: the  *)
(* two passes have to agree.                                               *)
(*                                                                         *)
(* A character is a string; "%" followed by two hexadecimal digits is      *)
(* decoded to a character of its own.  NULL is an argument that was        *)
(* counted and never stored: Redis is sent an empty string for it.         *)
(***************************************************************************)
EXTENDS Conf, FiniteSets

CONSTANTS
    Requests,      \* the requests: see MCCommand
    Extensions,    \* the table of cmd_select_format: extension -> format
    AlwaysOff      \* always_off in acl_allow_command

VARIABLES
    request,       \* the request, with the configuration file of the server
    cfg,           \* what was read from it
    outcome

vars == <<request, cfg, outcome>>

NULL == <<"NULL">>
Pending == [ret |-> "pending"]

\* Positions of c in s.
At(s, c) == {i \in DOMAIN s : s[i] = c}
First(S, default) == IF S = {} THEN default ELSE CHOOSE i \in S : \A j \in S : i <= j

-----------------------------------------------------------------------------
(***************************************************************************)
(* Mutants and parts of cmd_run.                                           *)
(***************************************************************************)
\* A "%" with two digits after it is an escape; the bytes after the argument
\* in the buffer ("/", "?", "." or the end) are no digits.
IsEscape(arg) ==
    /\ Len(arg) >= 3 /\ arg[1] = "%"
    /\ {arg[2], arg[3]} \subseteq DOMAIN Digits

\* Called with always_decode_plus.
RECURSIVE decode_uri(_)
decode_uri(arg) ==
    CASE arg = <<>> -> <<>>
      [] arg # <<>> /\ IsEscape(arg) ->
           <<"x" \o arg[2] \o arg[3]>> \o decode_uri(SubSeq(arg, 4, Len(arg)))
      [] OTHER -> <<IF Head(arg) = "+" THEN " " ELSE Head(arg)>> \o decode_uri(Tail(arg))

\* Mutant: the slashes are counted, not the words.
CountSlashes(uri) ==
    IF uri = <<>> THEN 0 ELSE IF At(uri, "/") = {} THEN 1 ELSE Cardinality(At(uri, "/"))

\* The first pass: the arguments of the URI before the query.  A slash in
\* first place is not counted.
param_count(uri) ==
    IF uri = <<>> THEN 0 ELSE 1 + Cardinality({i \in At(uri, "/") : i > 1})

\* Where the extension begins: after the last dot of the last argument, the
\* first character of the URI excepted.
ExtensionAt(uri) ==
    LET dots == {i \in At(uri, ".") : i > 1 /\ \A j \in i..Len(uri) : uri[j] # "/"}
    IN  IF dots = {} THEN 0 ELSE (CHOOSE i \in dots : \A j \in dots : j <= i) + 1

\* The format and what remains of the URI; type stands for ?type=.
cmd_select_format(uri, type) ==
    LET at == ExtensionAt(uri)
        ext == SubSeq(uri, at, Len(uri))
        found == at # 0 /\ ext \in DOMAIN Extensions
    IN  IF at # 0 /\ ext = <<>> THEN [format |-> "json", uri |-> uri]
        ELSE [format |-> CASE type -> "custom"
                           [] ~type /\ found -> Extensions[ext]
                           [] OTHER -> "json",
              uri |-> IF found THEN SubSeq(uri, 1, at - 2) ELSE uri]

\* The content type: cmd_select_format's, unless ?type= gave one (cmd_setup).
cmd_setup(sel, ext, type) == IF type THEN "type" ELSE IF sel.format = "json" THEN "json" ELSE ext

\* The digits before the first slash; no digit at all is a number, too.
HasDb(uri, slash) == \A i \in 1..(slash - 1) : uri[i] \in DOMAIN Digits

DbNum(uri, slash) ==
    FoldLeft(LAMBDA n, c : WrapInt(n * 10 + Digits[c]), 0, SubSeq(uri, 1, slash - 1))

\* The second pass, from p on: the arguments up to each slash, the last one
\* only when it is not empty.
RECURSIVE CutArguments(_, _)
CutArguments(uri, p) ==
    IF p > Len(uri) THEN <<>>
    ELSE LET next == First({i \in At(uri, "/") : i >= p}, Len(uri) + 1)
         IN  <<decode_uri(SubSeq(uri, p, next - 1))>> \o CutArguments(uri, next + 1)

\* The body of a PUT comes after the arguments that were cut.
StoreBody(argv, body) == IF body = <<>> THEN argv ELSE Append(argv, body)

\* The elements of an argv of the given size; the ones not stored are NULL.
Argv(stored, size) == [i \in 1..size |-> IF i <= Len(stored) THEN stored[i] ELSE NULL]

Refused(ret) == [ret |-> ret]

cmd_run(uri0, body, req) ==
    LET path == SubSeq(uri0, 1, First(At(uri0, "?"), Len(uri0) + 1) - 1)
        allocated == param_count(path) + (IF body # <<>> THEN 1 ELSE 0)
        sel == cmd_select_format(path, req.type)
        uri == sel.uri
        slash == First(At(uri, "/"), 0)
        has_db == slash # 0 /\ HasDb(uri, slash)
        start == IF has_db THEN slash + 1 ELSE 1
        name == SubSeq(uri, start, First({i \in At(uri, "/") : i >= start}, Len(uri) + 1) - 1)
        count == IF has_db THEN allocated - 1 ELSE allocated
        stored == IF slash = 0 THEN <<name>>
                  ELSE StoreBody(<<name>> \o CutArguments(uri, start + Len(name) + 1), body)
    IN  CASE allocated = 0 -> Refused("CMD_PARAM_ERROR")
          [] allocated # 0 /\ ~(/\ count # 0
                                /\ acl_allow_command(name, cfg.perms, req.client, AlwaysOff)) ->
               [ret |-> "CMD_ACL_FAIL", name |-> name, count |-> count]
          [] OTHER ->
               [ret |-> "CMD_SENT", name |-> name, count |-> count,
                db |-> IF has_db THEN DbNum(uri, slash) ELSE cfg.database,
                format |-> sel.format,
                mime |-> cmd_setup(sel, "ext", req.type),
                allocated |-> allocated,
                stored |-> Len(stored),
                argv |-> Argv(stored, IF slash = 0 THEN 1 ELSE count)]

-----------------------------------------------------------------------------
Init ==
    /\ request \in Requests
    /\ cfg = conf_read(request.file)
    /\ outcome = Pending

\* "/" stands for default_root (http_client_on_message_complete).
RootedUri == IF request.uri = <<>> /\ cfg.default_root # Unset
             THEN Tail(cfg.default_root) ELSE request.uri

\* Which part of the request is the command: the path without its slash, or
\* the body of a POST; a PUT has both.
worker_process_client ==
    /\ outcome = Pending
    /\ outcome' = CASE request.method = "GET" -> cmd_run(RootedUri, <<>>, request)
                    [] request.method = "POST" -> cmd_run(request.body, <<>>, request)
                    [] request.method = "PUT" -> cmd_run(RootedUri, request.body, request)
                    [] request.method = "OPTIONS" -> Refused("options")
                    [] OTHER -> Refused("405")
    /\ UNCHANGED <<request, cfg>>

Next == worker_process_client

Spec == Init /\ [][Next]_vars

-----------------------------------------------------------------------------
(***************************************************************************)
(* Properties.                                                             *)
(***************************************************************************)
\* The variables have their types; a part of ArgumentsAsSent.
TypeOK ==
    /\ cfg.database \in (-INT_MAX - 1)..INT_MAX
    /\ outcome.ret \in {"pending", "CMD_SENT", "CMD_ACL_FAIL", "CMD_PARAM_ERROR", "options", "405"}
    /\ outcome.ret = "CMD_SENT" => outcome.db \in (-INT_MAX - 1)..INT_MAX

\* Whatever the URI, the second pass of cmd_run stays inside the array the
\* first one allocated, and the arguments sent to Redis are all in it: the
\* extension, the query, empty arguments and the database do not make the
\* passes disagree.  A part of ArgumentsAsSent.
ArgumentsFit ==
    outcome.ret = "CMD_SENT" =>
        /\ outcome.stored <= outcome.allocated
        /\ Len(outcome.argv) <= outcome.allocated

\* The configuration as its text says: "$NAME", in capitals, stands for what
\* the environment calls NAME.
Substituted(s) ==
    LET names == {n \in DOMAIN Env : s = <<"$">> \o n /\ Range(n) \intersect LowerCase = {}}
    IN  IF names = {} THEN s ELSE Env[CHOOSE n \in names : TRUE]
IsNumber(w) == w # <<>> /\ \A i \in DOMAIN w : w[i] \in DOMAIN Digits
Number(w) == FoldLeft(LAMBDA n, c : n * 10 + Digits[c], 0, w)
Settings == IF request.file = NoFile THEN EmptyObject ELSE request.file.v
ConfiguredDb == IF "database" \notin DOMAIN Settings THEN 0
                ELSE IF Settings["database"].type = "integer" THEN Settings["database"].v
                ELSE Number(Substituted(Settings["database"].v))
RequestUri == IF request.uri = <<>> /\ "default_root" \in DOMAIN Settings
              THEN Tail(Substituted(Settings["default_root"].v)) ELSE request.uri

\* The words of a text, cut at the slashes.
Words(s) ==
    LET cuts == <<0>> \o SetToSortSeq(At(s, "/"), <) \o <<Len(s) + 1>>
    IN  [i \in 1..(Len(cuts) - 1) |-> SubSeq(s, cuts[i] + 1, cuts[i + 1] - 1)]

\* The text of the command, and the extension at its end if it is a known one.
Text == IF request.method = "POST" THEN request.body ELSE RequestUri
Path == IF At(Text, "?") = {} THEN Text ELSE SubSeq(Text, 1, First(At(Text, "?"), 0) - 1)
KnownExtensions == {e \in DOMAIN Extensions :
    /\ Len(Path) > Len(e) + 1
    /\ SubSeq(Path, Len(Path) - Len(e), Len(Path)) = <<".">> \o e}
Base == IF KnownExtensions = {} THEN Path
        ELSE SubSeq(Path, 1, Len(Path) - Len(CHOOSE e \in KnownExtensions : TRUE) - 1)

\* An argument with its escapes replaced.
Decoded(arg) ==
    LET Escape(i) == /\ arg[i] = "%" /\ i + 2 <= Len(arg)
                     /\ {arg[i + 1], arg[i + 2]} \subseteq DOMAIN Digits
        Taken(i) == \E k \in {1, 2} : i > k /\ Escape(i - k)
        Char(i) == IF Escape(i) THEN "x" \o arg[i + 1] \o arg[i + 2]
                   ELSE IF arg[i] = "+" THEN " " ELSE arg[i]
    IN  FoldLeft(LAMBDA out, i : IF Taken(i) THEN out ELSE Append(out, Char(i)),
                 <<>>, [i \in 1..Len(arg) |-> i])

\* The URIs "/COMMAND/arg0/.../argN.ext" of the documentation, perhaps with a
\* database that fits an int before them: a command and no empty word, no dot
\* at the end of one with ?type=, and an argument besides the body of a PUT.
Regular ==
    LET words == Words(Base)
        db == Len(words) > 1 /\ IsNumber(words[1])
    IN  /\ \A i \in DOMAIN words : words[i] # <<>>
        /\ db => Number(words[1]) <= INT_MAX
        /\ request.type => Last(Path) # "."
        /\ request.method = "PUT" => Len(words) > (IF db THEN 2 ELSE 1)

\* A regular request runs the command it names with the arguments it names,
\* each decoded by itself ("%" cannot make a slash that cuts), the body of a
\* PUT last, on the database it names or else the configured one, and is
\* answered in the format of its extension, which is no part of the last
\* argument (README.md:277-283).  "/" is the configured root.
ArgumentsAsSent ==
    /\ TypeOK
    /\ ArgumentsFit
    /\ outcome.ret = "CMD_SENT" /\ Regular =>
        LET words == Words(Base)
            db == Len(words) > 1 /\ IsNumber(words[1])
            command == IF db THEN Tail(words) ELSE words
            args == [i \in 1..(Len(command) - 1) |-> Decoded(command[i + 1])]
        IN  /\ outcome.argv = <<Head(command)>> \o args
                              \o (IF request.method = "PUT" THEN <<request.body>> ELSE <<>>)
            /\ outcome.db = IF db THEN Number(words[1]) ELSE ConfiguredDb
            /\ outcome.format = CASE request.type -> "custom"
                                  [] ~request.type /\ KnownExtensions # {} ->
                                       Extensions[CHOOSE e \in KnownExtensions : TRUE]
                                  [] OTHER -> "json"

-----------------------------------------------------------------------------
(***************************************************************************)
(* Access control as it is documented: the last entry that matches the     *)
(* client and names the command, or "*", decides; names are compared       *)
(* without case; a subnet is the addresses that begin with its bits.       *)
(***************************************************************************)
Profiles == IF "acl" \in DOMAIN Settings THEN Settings["acl"].v ELSE <<>>

\* The exception: a subnet of 0 bits is every address in CIDR notation, and
\* the one address to conf_parse_acl, as if it had no mask (conf.c:304).
InSubnet(addr, ip) ==
    LET parts == Words(Substituted(ip))
        bits == IF Len(parts) = 1 \/ Number(parts[2]) = 0 THEN ADDR_BITS ELSE Number(parts[2])
    IN  \A i \in 1..bits : parts[1][i] = ToString(addr[i])

Matches(profile) ==
    /\ "http_basic_auth" \in DOMAIN profile =>
         request.client.auth = Base64(Substituted(profile["http_basic_auth"].v))
    /\ "ip" \in DOMAIN profile => InSubnet(request.client.addr, profile["ip"].v)

Listed(profile, list) ==
    IF list \notin DOMAIN profile THEN {}
    ELSE {Substituted(e.v) : e \in {x \in Range(profile[list].v) : x.type = "string"}}

SameName(a, b) == Len(a) = Len(b) /\ strncasecmp(a, b)
Names(profile, list, name) == \E n \in Listed(profile, list) : SameName(n, name) \/ IsStar(n)

Allowed(name) ==
    LET says == {i \in DOMAIN Profiles :
                   /\ Matches(Profiles[i].v)
                   /\ \/ Names(Profiles[i].v, "enabled", name)
                      \/ Names(Profiles[i].v, "disabled", name)}
    IN  /\ \A i \in DOMAIN AlwaysOff : ~SameName(AlwaysOff[i], name)
        /\ says # {} => LET last == CHOOSE i \in says : \A j \in says : j <= i
                        IN  ~Names(Profiles[last].v, "disabled", name)

\* The name is the beginning of a longer one that some entry lists.
Abbreviates(name) ==
    \E n \in Range(AlwaysOff) \union UNION {Listed(Profiles[i].v, list) :
               i \in DOMAIN Profiles, list \in {"enabled", "disabled"}} :
        Len(name) < Len(n) /\ strncasecmp(n, name)

\* A command is sent when the entries allow it as they are documented, and
\* refused when they do not, with two exceptions that the code makes: a name
\* that is the beginning of another name that is listed is taken for it, and
\* a subnet "/0", which would be everyone, is one address.  It is about the
\* client's password and address, the order of the entries, "*", the commands
\* that are always off and the variables of the environment in the file
\* (README.md:300-331).
AclAsDocumented ==
    /\ outcome.ret = "CMD_SENT" /\ ~Abbreviates(outcome.name) => Allowed(outcome.name)
    /\ outcome.ret = "CMD_ACL_FAIL" /\ outcome.count # 0 /\ ~Abbreviates(outcome.name) =>
         ~Allowed(outcome.name)
=============================================================================
