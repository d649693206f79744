---------------------------- MODULE RedisReader ----------------------------
(***************************************************************************)
(* The reply reader of hiredis (read.c) with the functions that build the  *)
(* reply objects (hiredis.c:79-283).  Redis writes replies on a stream;    *)
(* redisBufferRead feeds the reader whatever part of it one read returned, *)
(* and redisProcessCallbacks then takes replies until there is none.  The  *)
(* reader keeps a stack of tasks, one for each aggregate that is still     *)
(* open, and resumes in the middle of an item when more bytes arrive.      *)
(*                                                                         *)
(* A reply is a tree; it is kept as a function from the path of each node  *)
(* (the indexes of the elements that lead to it) to the node, so that      *)
(* parent->element[task->idx] = r sets the value at one path.  Out of      *)
(* memory is not modelled.                                                 *)
(***************************************************************************)
EXTENDS RespFormat, TLC

CONSTANTS
    Scripts,          \* what Redis may write: see EncodeNode below
    MaxChunk,         \* the largest number of bytes one read returns
    STACK_SIZE,       \* REDIS_READER_STACK_SIZE, 9 in the code
    DISCARD,          \* consumed bytes are dropped from this many on, 1024 in the code
    MAX_ELEMENTS,     \* REDIS_READER_MAX_ARRAY_ELEMENTS, 2^32-1 in the code
    MAX_DOUBLE,       \* sizeof(buf) in processLineItem, 326 in the code
    LLONG_MAX         \* of long long

ASSUME ReaderAssumption ==
    /\ {MaxChunk, STACK_SIZE, DISCARD, MAX_ELEMENTS, MAX_DOUBLE, LLONG_MAX} \subseteq Nat \ {0}
    /\ STACK_SIZE >= 2

VARIABLES
    script,      \* the replies Redis writes on this connection
    unread,      \* the bytes it has written and that were not read yet
    r,           \* the redisReader
    draining,    \* redisProcessCallbacks is taking replies
    out          \* the replies taken, in order

vars == <<script, unread, r, draining, out>>

-----------------------------------------------------------------------------
(***************************************************************************)
(* What Redis writes.  A script is a sequence of replies and then,         *)
(* perhaps, bytes that are no reply (junk); format is a format string      *)
(* whose command has the bytes of the first reply, or empty.  A reply      *)
(* lists its nodes in the order they are written, each with its path.      *)
(***************************************************************************)
Aggregates == {"ARRAY", "MAP", "SET", "PUSH"}
Bulks == {"STRING", "VERB"}
Lines == {"ERROR", "STATUS", "INTEGER", "DOUBLE", "NIL", "BOOL"}

TypeByte == ("-" :> "ERROR") @@ ("+" :> "STATUS") @@ (":" :> "INTEGER") @@ ("," :> "DOUBLE")
         @@ ("_" :> "NIL") @@ ("$" :> "STRING") @@ ("*" :> "ARRAY") @@ ("%" :> "MAP")
         @@ ("~" :> "SET") @@ ("#" :> "BOOL") @@ ("=" :> "VERB") @@ (">" :> "PUSH")

\* RESP2 writes nil as a string or an array of length -1.
ByteOf(type) == IF type = "NILBULK" THEN "$" ELSE IF type = "NILARRAY" THEN "*" ELSE
                CHOOSE b \in DOMAIN TypeByte : TypeByte[b] = type

Node(path, type, val) == [path |-> path, type |-> type, val |-> val]

VerbatimType == <<"t", "x", "t", ":">>

\* The bytes of one node (the RESP3 protocol).
EncodeNode(n) ==
    <<ByteOf(n.type)>> \o
    (CASE n.type \in {"INTEGER", "ARRAY", "SET", "PUSH"} -> signed(n.val) \o CRLF
       [] n.type = "MAP" -> signed(n.val \div 2) \o CRLF
       [] n.type \in {"ERROR", "STATUS", "DOUBLE"} -> n.val \o CRLF
       [] n.type = "NIL" -> CRLF
       [] n.type = "NILBULK" -> signed(-1) \o CRLF
       [] n.type = "NILARRAY" -> signed(-1) \o CRLF
       [] n.type = "BOOL" -> <<IF n.val = 1 THEN "t" ELSE "f">> \o CRLF
       [] n.type = "STRING" -> signed(Len(n.val)) \o CRLF \o n.val \o CRLF
       [] n.type = "VERB" ->
            signed(Len(n.val) + 4) \o CRLF \o VerbatimType \o n.val \o CRLF)

EncodeReply(reply) == FlattenSeq([i \in DOMAIN reply |-> EncodeNode(reply[i])])

Encode(s) == FlattenSeq([i \in DOMAIN s.replies |-> EncodeReply(s.replies[i])]) \o s.junk

\* The tree a reply stands for.
Tree(reply) ==
    [p \in {reply[i].path : i \in DOMAIN reply} |->
        LET n == reply[CHOOSE i \in DOMAIN reply : reply[i].path = p]
        IN  [type |-> IF n.type \in {"NILBULK", "NILARRAY"} THEN "NIL" ELSE n.type,
             val |-> n.val]]

-----------------------------------------------------------------------------
(***************************************************************************)
(* Reading bytes.                                                          *)
(***************************************************************************)
Rest(rd) == SubSeq(rd.buf, rd.pos + 1, Len(rd.buf))

\* The number of bytes before the first \r\n, -1 when there is none yet.
seekNewline(s) ==
    SelectInSeq([i \in 1..(Len(s) - 1) |-> <<s[i], s[i + 1]>>], LAMBDA two : two = CRLF) - 1

\* Values of 64 bits, scaled down.
ULLONG_MAX == 2 * LLONG_MAX + 1
Overflow == -1

DigitValue(c) == (CHOOSE i \in 1..10 : Digit[i] = c) - 1

AddDigit(v, c) ==
    IF v = Overflow \/ v > ULLONG_MAX \div 10 \/ v * 10 > ULLONG_MAX - DigitValue(c)
    THEN Overflow
    ELSE v * 10 + DigitValue(c)

BadNumber == [ok |-> FALSE, v |-> 0]

\* The value of digits with a leading one of 1 to 9; Overflow for any others.
Magnitude(digits) ==
    IF \/ digits = <<>> \/ digits[1] \notin Range(Tail(Digit))
       \/ \E i \in DOMAIN digits : digits[i] \notin Range(Digit)
    THEN Overflow ELSE FoldLeft(AddDigit, 0, digits)

AtMost(v, max, sign) ==
    IF v = Overflow \/ v > max THEN BadNumber ELSE [ok |-> TRUE, v |-> sign * v]

string2ll(s) ==
    CASE s = <<"0">> -> [ok |-> TRUE, v |-> 0]
      [] s # <<"0">> /\ s # <<>> /\ s[1] = "-" -> AtMost(Magnitude(Tail(s)), LLONG_MAX + 1, -1)
      [] OTHER -> AtMost(Magnitude(s), LLONG_MAX, 1)

-----------------------------------------------------------------------------
(***************************************************************************)
(* The task stack.  r.task is the stack up to ridx, its top last; the      *)
(* first task is the reply itself.                                         *)
(***************************************************************************)
NoTree == <<>>
Unset == -1

Task(idx) == [type |-> "none", elements |-> Unset, idx |-> idx]

redisReaderCreateWithFunctions ==
    [buf |-> <<>>, pos |-> 0, task |-> <<>>, tasks |-> STACK_SIZE, reply |-> NoTree, err |-> ""]

Cur(rd) == Last(rd.task)

Path(rd) == [i \in 1..(Len(rd.task) - 1) |-> rd.task[i + 1].idx]

SetError(rd, err) ==
    [rd EXCEPT !.reply = NoTree, !.buf = <<>>, !.pos = 0, !.task = <<>>, !.err = err]

\* The reader goes on (ok), or stops until more bytes arrive or for good.
Goes(rd) == [ok |-> TRUE, r |-> rd]
Stops(rd) == [ok |-> FALSE, r |-> rd]

\* A failed assertion ends the process.
Abort(rd) == SetError(rd, "abort")

\* The assertions of the create functions on the parent of the new object.
ParentTypes(type) ==
    IF type \in {"DOUBLE", "NIL", "BOOL"} THEN Aggregates \ {"PUSH"} ELSE Aggregates

ParentAllowed(rd, type) ==
    Len(rd.task) > 1 => rd.task[Len(rd.task) - 1].type \in ParentTypes(type)

\* createStringObject and its five sisters: the object is the reply, or an
\* element of the object of the parent's task.
createObject(rd, type, val) ==
    IF ParentAllowed(rd, type)
    THEN [rd EXCEPT !.reply = (Path(rd) :> [type |-> type, val |-> val]) @@ @]
    ELSE Abort(rd)

\* The loop pops every task that was the last element of its parent, and
\* moves the one below to its next element.
TaskDone(rd, i) == rd.task[i].idx = rd.task[i - 1].elements - 1

NextElement(rd, top) ==
    CASE top <= 1 -> [rd EXCEPT !.task = <<>>]
      [] top > 1 /\ \/ rd.task[top - 1].type \notin Aggregates
                    \/ rd.task[top].idx >= rd.task[top - 1].elements -> Abort(rd)
      [] OTHER -> [rd EXCEPT !.task = Append(SubSeq(@, 1, top - 1), Task(@[top].idx + 1))]

moveToNextTask(rd) ==
    NextElement(rd, CHOOSE top \in 1..Len(rd.task) :
        /\ \A i \in (top + 1)..Len(rd.task) : TaskDone(rd, i)
        /\ top > 1 => ~TaskDone(rd, top))

-----------------------------------------------------------------------------
(***************************************************************************)
(* The items.                                                              *)
(***************************************************************************)
\* What strtod accepts among the spellings the scripts use; isnan is refused.
ValidDouble(s) == s \in {<<"1", ".", "5">>, <<"i", "n", "f">>, <<"-", "i", "n", "f">>, <<"3">>}

MovesOn(made) == IF made.err = "" THEN Goes(moveToNextTask(made)) ELSE Stops(made)
Created(rd, type, val) == MovesOn(createObject(rd, type, val))
Fails(rd, err) == Stops(SetError(rd, err))

LineObject(next, type, line, value) ==
    CASE type = "INTEGER" -> IF value.ok THEN Created(next, type, value.v)
                             ELSE Fails(next, "Bad integer value")
      [] type = "DOUBLE" ->
           CASE Len(line) >= MAX_DOUBLE -> Fails(next, "Double value is too large")
             [] Len(line) < MAX_DOUBLE /\ ~ValidDouble(line) -> Fails(next, "Bad double value")
             [] OTHER -> Created(next, type, line)
      [] type = "NIL" -> Created(next, type, <<>>)
      [] type = "BOOL" -> Created(next, type, IF line # <<>> /\ line[1] \in {"t", "T"} THEN 1 ELSE 0)
      [] OTHER -> Created(next, type, line)

\* An item that begins with a line: p is the rest of the buffer, len the
\* length of the line.
Line(p, len) == SubSeq(p, 1, len)
After(rd, n) == [rd EXCEPT !.pos = @ + n]

LineItem(rd, p, len) ==
    IF len = -1 THEN Stops(rd)
    ELSE LineObject(After(rd, len + 2), Cur(rd).type, Line(p, len), string2ll(Line(p, len)))

processLineItem(rd) == LineItem(rd, Rest(rd), seekNewline(Rest(rd)))

BulkObject(next, type, bytes) ==
    CASE type = "VERB" /\ (Len(bytes) < 4 \/ bytes[4] # ":") -> Fails(next, "Verbatim string")
      [] type = "VERB" /\ Len(bytes) >= 4 /\ bytes[4] = ":" ->
           Created(next, type, SubSeq(bytes, 5, Len(bytes)))
      [] OTHER -> Created(next, type, bytes)

BulkOfSize(rd, p, len, size) ==
    CASE ~size.ok -> Fails(rd, "Bad bulk string length")
      [] size.ok /\ size.v < -1 -> Fails(rd, "Bulk string length out of range")
      [] size.ok /\ size.v = -1 -> Created(After(rd, len + 2), "NIL", <<>>)
      [] size.ok /\ size.v >= 0 ->
           IF len + 2 + size.v + 2 > Len(p) THEN Stops(rd)
           ELSE BulkObject(After(rd, len + 2 + size.v + 2), Cur(rd).type,
                           SubSeq(p, len + 3, len + 2 + size.v))

BulkItem(rd, p, len) ==
    IF len = -1 THEN Stops(rd) ELSE BulkOfSize(rd, p, len, string2ll(Line(p, len)))

processBulkItem(rd) == BulkItem(rd, Rest(rd), seekNewline(Rest(rd)))

\* Mutant: the stack does not grow.
GrowNever(rd) == rd

redisReaderGrow(rd) ==
    IF Len(rd.task) = rd.tasks THEN [rd EXCEPT !.tasks = @ + STACK_SIZE] ELSE rd

\* The task of the array's first element goes on top of its own.
PushTask(rd, elements) ==
    [rd EXCEPT !.task = Append([@ EXCEPT ![Len(@)].elements = elements], Task(0))]

Opened(made, elements) ==
    IF made.err # "" THEN Stops(made) ELSE Goes(PushTask(made, elements))

AggregateOfSize(next, type, size, elements) ==
    CASE ~size.ok -> Fails(next, "Bad multi-bulk length")
      [] size.ok /\ (size.v < -1 \/ size.v > MAX_ELEMENTS) ->
           Fails(next, "Multi-bulk length out of range")
      [] size.ok /\ size.v = -1 -> Created(next, "NIL", <<>>)
      [] size.ok /\ size.v = 0 -> Created(next, type, 0)
      [] OTHER -> Opened(createObject(next, type, elements), elements)

Aggregate(rd, len, type, size) ==
    IF len = -1 THEN Stops(rd)
    ELSE AggregateOfSize(After(rd, len + 2), type, size, IF type = "MAP" THEN 2 * size.v ELSE size.v)

AggregateItem(rd, p, len) == Aggregate(rd, len, Cur(rd).type, string2ll(Line(p, len)))

processAggregateItem(rd) ==
    AggregateItem(redisReaderGrow(rd), Rest(rd), seekNewline(Rest(rd)))

ItemOfType(rd, type) ==
    CASE type \in Lines -> processLineItem(rd)
      [] type \in Bulks -> processBulkItem(rd)
      [] OTHER -> processAggregateItem(rd)

ItemOfByte(rd, type) == ItemOfType([After(rd, 1) EXCEPT !.task[Len(rd.task)].type = type], type)

processItem(rd) ==
    CASE Cur(rd).type # "none" -> ItemOfType(rd, Cur(rd).type)
      [] Cur(rd).type = "none" /\ Rest(rd) = <<>> -> Stops(rd)
      [] Cur(rd).type = "none" /\ Rest(rd) # <<>> ->
           IF Head(Rest(rd)) \notin DOMAIN TypeByte THEN Fails(rd, "reply type byte")
           ELSE ItemOfByte(rd, TypeByte[Head(Rest(rd))])

\* The loop of redisReaderGetReply: items, until one is not complete.
RECURSIVE ProcessItems(_)
AfterItem(item) == IF item.ok THEN ProcessItems(item.r) ELSE item.r
ProcessItems(rd) == IF rd.task = <<>> THEN rd ELSE AfterItem(processItem(rd))

\* Mutant: the bytes not read yet go with the ones that were.
DiscardAll(rd) == IF rd.pos >= DISCARD THEN [rd EXCEPT !.buf = <<>>, !.pos = 0] ELSE rd

DiscardRead(rd) == IF rd.pos >= DISCARD THEN [rd EXCEPT !.buf = Rest(rd), !.pos = 0] ELSE rd

\* The reader after a call that found no error in it, and the reply (NoTree
\* when it is not complete).
Processed(done) ==
    CASE done.err # "" -> [r |-> done, reply |-> NoTree]
      [] done.err = "" /\ done.task = <<>> ->
           [r |-> [DiscardRead(done) EXCEPT !.reply = NoTree], reply |-> done.reply]
      [] OTHER -> [r |-> DiscardRead(done), reply |-> NoTree]

redisReaderGetReply(rd) ==
    IF rd.buf = <<>> THEN [r |-> rd, reply |-> NoTree]
    ELSE Processed(ProcessItems(IF rd.task = <<>>
                                THEN [rd EXCEPT !.task = <<Task(Unset)>>] ELSE rd))

-----------------------------------------------------------------------------
(***************************************************************************)
(* The connection.                                                         *)
(***************************************************************************)
Init ==
    /\ script \in Scripts
    /\ unread = Encode(script)
    /\ r = redisReaderCreateWithFunctions
    /\ draining = FALSE
    /\ out = <<>>

\* A read event: redisBufferRead, which feeds what it read to the reader.
redisBufferRead ==
    /\ ~draining
    /\ r.err = ""
    /\ \E n \in 1..MaxChunk :
         /\ n <= Len(unread)
         /\ r' = [r EXCEPT !.buf = @ \o SubSeq(unread, 1, n)]
         /\ unread' = SubSeq(unread, n + 1, Len(unread))
    /\ draining' = TRUE
    /\ UNCHANGED <<script, out>>

\* One turn of the loop of redisProcessCallbacks.
redisGetReplyFromReader ==
    /\ draining
    /\ \E got \in {redisReaderGetReply(r)} :
         /\ r' = got.r
         /\ draining' = (got.reply # NoTree)
         /\ out' = IF got.reply # NoTree THEN Append(out, got.reply) ELSE out
    /\ UNCHANGED <<script, unread>>

Next == redisBufferRead \/ redisGetReplyFromReader

Spec == Init /\ [][Next]_vars

-----------------------------------------------------------------------------
(***************************************************************************)
(* Properties.                                                             *)
(***************************************************************************)
\* The variables have their types; a part of ReaderIsSound.
TypeOK ==
    /\ script \in Scripts
    /\ r.pos \in 0..Len(r.buf)
    /\ r.tasks \in Nat
    /\ \A i \in DOMAIN r.task :
         /\ r.task[i].type \in Aggregates \union Bulks \union Lines \union {"none"}
         /\ i < Len(r.task) => r.task[i].type \in Aggregates
    /\ draining \in BOOLEAN

\* How many replies lie wholly in the bytes read so far.
Whole ==
    LET read == Len(Encode(script)) - Len(unread)
        Upto(n) == Len(FlattenSeq([i \in 1..n |-> EncodeReply(script.replies[i])]))
    IN  CHOOSE n \in 0..Len(script.replies) :
          /\ Upto(n) <= read
          /\ n < Len(script.replies) => Upto(n + 1) > read

\* Whatever the cuts between the reads, the replies taken are the trees Redis
\* wrote, in order, and when the reader waits for more bytes it has given out
\* every reply it has received entirely: none is lost, split, merged or
\* delayed when consumed bytes are dropped from the buffer or when the reader
\* stops in the middle of an item (redisReaderGetReply).  Bytes that are no
\* reply put the reader in error once they are read: they are never taken for
\* a reply, and a well-formed reply never is an error.
RepliesAsWritten ==
    /\ Len(out) <= Whole
    /\ \A i \in DOMAIN out : out[i] = Tree(script.replies[i])
    /\ ~draining => Len(out) = Whole
    /\ r.err # "" => script.junk # <<>> /\ Len(out) = Len(script.replies)
    /\ unread = <<>> /\ ~draining /\ script.junk # <<>> => r.err # ""

\* The task stack stays within the tasks allocated (redisReaderGrow), an
\* element within its array (element[task->idx] is never written outside), and
\* no assertion of moveToNextTask fails (read.c:255), nor one of the create
\* functions on the type of the parent (hiredis.c:155-278), nil, doubles and
\* booleans being in arrays, maps and sets only.
ReaderIsSound ==
    /\ TypeOK
    /\ Len(r.task) <= r.tasks
    /\ \A i \in 2..Len(r.task) : r.task[i].idx \in 0..(r.task[i - 1].elements - 1)
    /\ r.err # "abort"

\* A format string gives the array of the arguments its words stand for, an
\* empty interpolation and one with a space in it being one argument each, and
\* the bytes written are as many as were set aside for them
\* (assert(pos == totlen), hiredis.c:507 and 656).  A part of SizesAgree.
CommandsFitTheirBuffer ==
    script.format # <<>> =>
        LET command == redisvFormatCommand(script.format)
        IN  /\ ~command.err
            /\ redisFormatCommandArgv(command.argv) = EncodeReply(script.replies[1])
            /\ Len(redisFormatCommandArgv(command.argv)) = totlen(command.argv)
=============================================================================
