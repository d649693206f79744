-------------------------------- MODULE Acl --------------------------------
(***************************************************************************)
(* Which commands a client may run (acl.c).  The configuration is a list   *)
(* of entries; each may ask for a password and for an address in a subnet, *)
(* and enables and disables commands for the clients that match.           *)
(*                                                                         *)
(* A name is a sequence of letters, a letter a string of one character; an *)
(* address is a sequence of bits.                                          *)
(***************************************************************************)
EXTENDS Naturals, Sequences, SequencesExt

\* The letters whose case is told apart; strncasecmp folds them.
Fold(c) == IF c = "G" THEN "g" ELSE IF c = "S" THEN "s" ELSE c

\* strncasecmp(a, b, Len(b)) = 0, where a is a C string and b is not: b is a
\* prefix of a.
strncasecmp(a, b) ==
    /\ Len(b) <= Len(a)
    /\ \A i \in 1..Len(b) : Fold(a[i]) = Fold(b[i])

\* strncasecmp(rule, "*", 1) = 0
IsStar(rule) == rule # <<>> /\ Head(rule) = "*"
NoAuth == <<"none">>
NoSubnet == [bits |-> <<>>, size |-> 0]

\* The encoded form of "user:password", in the configuration and in the header
\* Authorization: one text for each.
Base64(plain) == <<"base64">> \o plain

\* An entry of the configuration.  A subnet is the address and the number of
\* bits of its mask; size 0 stands for cidr.enabled = 0.
Entry(auth, subnet, enabled, disabled) ==
    [auth |-> auth, subnet |-> subnet, enabled |-> enabled, disabled |-> disabled]

acl_match_client(a, client) ==
    /\ a.auth # NoAuth => client.auth = a.auth
    /\ \A i \in 1..a.subnet.size : client.addr[i] = a.subnet.bits[i]

\* The body of the loop over the entries that match the client.
Apply(authorized, a, name) ==
    LET Listed(list) == \E i \in DOMAIN list : strncasecmp(list[i], name) \/ IsStar(list[i])
    IN  IF Listed(a.disabled) THEN FALSE ELSE IF Listed(a.enabled) THEN TRUE ELSE authorized

\* acl_allow_command, for a command with at least its name; off is the array
\* always_off.
acl_allow_command(name, perms, client, off) ==
    /\ \A i \in DOMAIN off : ~strncasecmp(off[i], name)
    /\ FoldLeft(LAMBDA ok, a : IF acl_match_client(a, client) THEN Apply(ok, a, name) ELSE ok,
                TRUE, perms)
=============================================================================
