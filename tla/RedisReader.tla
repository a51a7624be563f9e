----------------------------- MODULE RedisReader -----------------------------
(* The reply parser of hiredis.c: redisReader with its task stack.  The      *)
(* operators work on the reader as a record r; the input is a sequence of    *)
(* one-character strings.  r.mem is the number of allocations that still     *)
(* succeed.                                                                  *)
EXTENDS Integers, Sequences, FiniteSets, FiniteSetsExt

CONSTANTS StackSize,   \* entries of rstack (9 in the code)
          Consumed     \* buffer space given back once this much is consumed (1024)

ASSUME ReaderAssumption == StackSize \in Nat \ {0, 1} /\ Consumed \in Nat \ {0}

CR == "\r"
LF == "\n"
Digit == [d \in 0 .. 9 |-> <<"0", "1", "2", "3", "4", "5", "6", "7", "8", "9">>[d + 1]]
Null == [type |-> "NULL"]
Nil == [type |-> "NIL"]
Str(type, s) == [type |-> type, str |-> s]
Integer(n) == [type |-> "INTEGER", integer |-> n]
Array(e) == [type |-> "ARRAY", element |-> e]

redisReaderCreate == [buf |-> <<>>, pos |-> 0, ridx |-> -1, rstack |-> <<>>, reply |-> Null, err |-> "", mem |-> 0, ok |-> TRUE]

(* redisReaderSetError: the reply under construction and the buffer go. *)
redisReaderSetError(r, err) == [r EXCEPT !.reply = Null, !.buf = <<>>, !.pos = 0, !.ridx = -1, !.rstack = <<>>,
                                          !.err = err, !.ok = FALSE]
Incomplete(r) == [r EXCEPT !.ok = FALSE]

(* seekNewline: where the next CR LF begins, 0 if there is none. *)
seekNewline(r) ==
  LET at == {i \in r.pos + 1 .. Len(r.buf) - 1 : r.buf[i] = CR /\ r.buf[i + 1] = LF}
  IN  IF at = {} THEN 0 ELSE Min(at)

(* readLongLong: -1 for what is not a number. *)
readLongLong(line) ==
  LET signed == line # <<>> /\ line[1] \in {"-", "+"}
      digits == IF signed THEN Tail(line) ELSE line
      value  == [i \in 0 .. Len(digits) |-> IF i = 0 THEN 0 ELSE CHOOSE d \in 0 .. 9 : Digit[d] = digits[i]]
      power[i \in 0 .. Len(digits)] == IF i = 0 THEN 1 ELSE 10 * power[i - 1]
      number == MapThenSumSet(LAMBDA i : value[i] * power[Len(digits) - i], 1 .. Len(digits))
  IN  IF \E i \in 1 .. Len(digits) : \A d \in 0 .. 9 : Digit[d] # digits[i] THEN -1
      ELSE IF signed /\ line[1] = "-" THEN -number ELSE number

-----------------------------------------------------------------------------
(* A bug: the type of the task before is kept. *)
MoveStaleType(r) ==
  LET more == {i \in 1 .. r.ridx : r.rstack[i + 1].idx # r.rstack[i].elements - 1} IN
  IF more = {} THEN [r EXCEPT !.ridx = -1, !.rstack = <<>>]
  ELSE LET i == Max(more) IN
       [r EXCEPT !.ridx = i,
                 !.rstack = Append(SubSeq(@, 1, i), [type |-> @[i + 1].type, elements |-> -1, idx |-> @[i + 1].idx + 1])]

(* moveToNextTask: up the stack to the first task that is not the last of    *)
(* its array; the stack is empty when the root is complete.  Task i of the   *)
(* code is rstack[i + 1].                                                    *)
moveToNextTask(r) ==
  LET more == {i \in 1 .. r.ridx : r.rstack[i + 1].idx # r.rstack[i].elements - 1} IN
  IF more = {} THEN [r EXCEPT !.ridx = -1, !.rstack = <<>>]
  ELSE LET i == Max(more) IN
       [r EXCEPT !.ridx = i,
                 !.rstack = Append(SubSeq(@, 1, i), [type |-> "", elements |-> -1, idx |-> @[i + 1].idx + 1])]

(* The create functions put a new object into its parent array; the root     *)
(* object becomes the reply.                                                 *)
RECURSIVE PutInto(_, _, _)
PutInto(tree, path, obj) ==
  IF path = <<>> THEN obj
  ELSE [tree EXCEPT !.element[Head(path) + 1] = PutInto(@, Tail(path), obj)]
Attach(r, obj) == [r EXCEPT !.reply = PutInto(@, [i \in 1 .. r.ridx |-> r.rstack[i + 1].idx], obj),
                            !.mem = @ - 1]

readLine(r) == SubSeq(r.buf, r.pos + 1, seekNewline(r) - 1)
SkipLine(r) == [r EXCEPT !.pos = seekNewline(r) + 1]
Type(r) == r.rstack[r.ridx + 1].type

processLineItem(r) ==
  IF seekNewline(r) = 0 THEN Incomplete(r)
  ELSE IF r.mem = 0 THEN redisReaderSetError(r, "OOM")
  ELSE moveToNextTask(Attach(SkipLine(r),
         IF Type(r) = "INTEGER" THEN Integer(readLongLong(readLine(r))) ELSE Str(Type(r), readLine(r))))

(* The length and the whole text must be in the buffer. *)
processBulkItem(r) ==
  LET s == seekNewline(r)  len == readLongLong(readLine(r)) IN
  IF s = 0 \/ (len >= 0 /\ s + 1 + len + 2 > Len(r.buf)) THEN Incomplete(r)
  ELSE IF r.mem = 0 THEN redisReaderSetError(r, "OOM")
  ELSE IF len < 0 THEN moveToNextTask(Attach(SkipLine(r), Nil))
  ELSE moveToNextTask(Attach([r EXCEPT !.pos = s + 1 + len + 2], Str("STRING", SubSeq(r.buf, s + 2, s + 1 + len))))

processMultiBulkItem(r) ==
  LET elements == readLongLong(readLine(r)) IN
  IF r.ridx = StackSize - 1 THEN redisReaderSetError(r, "PROTOCOL")
  ELSE IF seekNewline(r) = 0 THEN Incomplete(r)
  ELSE IF r.mem = 0 THEN redisReaderSetError(r, "OOM")
  ELSE IF elements = -1 THEN moveToNextTask(Attach(SkipLine(r), Nil))
  ELSE LET a == Attach(SkipLine(r), Array([i \in 1 .. elements |-> Null])) IN
       IF elements <= 0 THEN moveToNextTask(a)
       ELSE [a EXCEPT !.ridx = @ + 1,
                      !.rstack = Append([@ EXCEPT ![r.ridx + 1].elements = elements], [type |-> "", elements |-> -1, idx |-> 0])]

TypeOf == [t \in {"-", "+", ":", "$", "*"} |->
             CASE t = "-" -> "ERROR" [] t = "+" -> "STATUS" [] t = ":" -> "INTEGER" [] t = "$" -> "STRING" [] t = "*" -> "ARRAY"]
processItem(r) ==
  LET t == IF Type(r) # "" THEN r ELSE [r EXCEPT !.pos = @ + 1, !.rstack[r.ridx + 1].type = TypeOf[r.buf[r.pos + 1]]] IN
  IF Type(r) = "" /\ r.pos = Len(r.buf) THEN Incomplete(r)
  ELSE IF Type(r) = "" /\ r.buf[r.pos + 1] \notin DOMAIN TypeOf THEN redisReaderSetError(r, "PROTOCOL")
  ELSE IF Type(t) = "STRING" THEN processBulkItem(t)
  ELSE IF Type(t) = "ARRAY" THEN processMultiBulkItem(t)
  ELSE processLineItem(t)

-----------------------------------------------------------------------------
(* redisReaderFeed: nothing is taken by a reader that has failed. *)
redisReaderFeed(r, bytes, oom) ==
  IF r.err # "" THEN r
  ELSE IF oom THEN redisReaderSetError(r, "OOM")
  ELSE [r EXCEPT !.buf = @ \o bytes]

RECURSIVE ProcessItems(_)
ProcessItems(r) == IF r.ridx >= 0 /\ r.ok THEN ProcessItems(processItem(r)) ELSE r

(* redisReaderGetReply: the items in the buffer are processed; what has been *)
(* consumed is discarded now and then.  The complete reply is Emitted, Null  *)
(* when there is none, and Taken from the reader.                            *)
Parsed(r, mem) ==
  IF r.err # "" \/ r.buf = <<>> THEN r
  ELSE LET s == IF r.ridx = -1 THEN [r EXCEPT !.rstack = <<[type |-> "", elements |-> -1, idx |-> -1]>>, !.ridx = 0] ELSE r
           p == ProcessItems([s EXCEPT !.mem = mem, !.ok = TRUE])
       IN  IF p.err = "" /\ p.pos >= Consumed
           THEN [p EXCEPT !.buf = SubSeq(@, p.pos + 1, Len(@)), !.pos = 0] ELSE p
Emitted(p) == IF p.err = "" /\ p.ridx = -1 THEN p.reply ELSE Null
redisReaderGetReply(p) == IF p.err = "" /\ p.ridx = -1 THEN [p EXCEPT !.reply = Null, !.mem = 0, !.ok = TRUE]
                          ELSE [p EXCEPT !.mem = 0, !.ok = TRUE]
=============================================================================
