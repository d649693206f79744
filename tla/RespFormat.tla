----------------------------- MODULE RespFormat -----------------------------
(***************************************************************************)
(* The commands hiredis writes to a Redis connection (hiredis.c): an array *)
(* of bulk strings, built by three functions that first add up the length  *)
(* of what they are going to write and then write it.                      *)
(*                                                                         *)
(* A byte is a string of one character.                                    *)
(***************************************************************************)
EXTENDS Integers, Sequences, SequencesExt

CRLF == <<"\r", "\n">>

Digit == <<"0", "1", "2", "3", "4", "5", "6", "7", "8", "9">>

\* %d, %i, %u and %zu: the decimal digits of n
decimal[n \in Nat] ==
    (IF n < 10 THEN <<>> ELSE decimal[n \div 10]) \o <<Digit[(n % 10) + 1]>>

signed(n) == IF n < 0 THEN <<"-">> \o decimal[-n] ELSE decimal[n]

\* countDigits takes four digits off at a time.
countDigits[v \in Nat] ==
    CASE v < 10    -> 1
      [] v < 100   -> 2
      [] v < 1000  -> 3
      [] v < 10000 -> 4
      [] OTHER     -> 4 + countDigits[v \div 10000]

\* "$<len>\r\n<bytes>\r\n"
bulklen(len) == 1 + countDigits[len] + 2 + len + 2

WriteBulk(arg) == <<"$">> \o decimal[Len(arg)] \o CRLF \o arg \o CRLF

\* The number of bytes the three functions set aside for a command.
totlen(argv) ==
    FoldLeft(LAMBDA n, arg : n + bulklen(Len(arg)), 1 + countDigits[Len(argv)] + 2, argv)

redisFormatCommandArgv(argv) ==
    FoldLeft(LAMBDA cmd, arg : cmd \o WriteBulk(arg),
             <<"*">> \o decimal[Len(argv)] \o CRLF, argv)

(***************************************************************************)
(* The command line of redisvFormatCommand is a sequence of tokens: a      *)
(* literal byte, or a directive with the bytes it interpolates (%s, %b,    *)
(* %% and the printf conversions), or a directive that is no valid one.    *)
(***************************************************************************)
Literal(c) == [kind |-> "literal", text |-> <<c>>]
Directive(text) == [kind |-> "directive", text |-> text]
BadDirective == [kind |-> "invalid", text |-> <<>>]

ScanToken(s, tok) ==
    IF s.err THEN s
    ELSE CASE tok.kind = "invalid" -> [s EXCEPT !.err = TRUE]
           [] tok = Literal(" ") ->
                IF s.touched
                THEN [s EXCEPT !.argv = Append(@, s.curarg), !.curarg = <<>>, !.touched = FALSE]
                ELSE s
           [] OTHER -> [s EXCEPT !.curarg = @ \o tok.text, !.touched = TRUE]

\* The arguments of a format string; err is the return value -2.
redisvFormatCommand(format) ==
    LET s == FoldLeft(ScanToken,
                      [argv |-> <<>>, curarg |-> <<>>, touched |-> FALSE, err |-> FALSE],
                      format)
    IN  [err |-> s.err,
         argv |-> IF s.err THEN <<>>
                  ELSE IF s.touched THEN Append(s.argv, s.curarg) ELSE s.argv]
=============================================================================
