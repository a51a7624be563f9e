----------------------------- MODULE RedisContext -----------------------------
(* The synchronous context of hiredis.c and its connection in net.c: the      *)
(* commands are formatted into the output buffer, written in any number of    *)
(* pieces, and the replies are read back through the reader in any number of  *)
(* pieces.  One thread owns the context; the server is the other actor.       *)
EXTENDS RedisReader, SequencesExt

CONSTANTS Formats,      \* <<format, args>>: a format is a sequence of characters and conversions
          Argvs,        \* argument vectors of the ...Argv functions
          Trees,        \* replies the server may give
          Fds,          \* descriptors of the application's sockets
          WriteCuts,    \* sizes a partial write may have
          ReadCuts,     \* sizes a partial read may have in a context that blocks, and in one that does not
          MaxWork,      \* bound: contexts created and commands appended to the last one
          MaxFaults,    \* bound: failed allocations and calls interrupted or failed
          MaxAddresses  \* bound: addresses a name resolves to

VARIABLES ctx,      \* the redisContext
          reader,   \* its redisReader
          pc,       \* where the thread is: "none" without a context, "idle", inside a connect or inside redisGetReply
          left,     \* addresses getaddrinfo returned that have not been tried
          nonblock, \* the open sockets: whether O_NONBLOCK is set
          kept,     \* descriptors that redisFreeKeepFd has handed back
          ret,      \* what the last call returned: "OK", "ERR", "NULL" or "REPLY"
          received, \* bytes the server has received
          inflight, \* bytes from the server not read yet
          eof,      \* the server has closed the connection
          asked,    \* argument vectors appended, as the caller meant them
          answered, \* what the server has answered
          got,      \* replies handed to the caller
          connects, \* contexts created
          faults    \* faults so far
vars == <<ctx, reader, pc, left, nonblock, kept, ret, received, inflight, eof, asked, answered, got, connects, faults>>
wire == <<received, inflight, eof>>
ghosts == <<asked, answered, got>>
call == <<left, kept, connects>>

Garbage == [type |-> "GARBAGE"]
NoContext == [fd |-> -1, block |-> FALSE, connected |-> FALSE, pre |-> FALSE, bind |-> FALSE, err |-> "", obuf |-> <<>>]

Fails(on) == IF on THEN faults < MaxFaults /\ faults' = faults + 1 ELSE UNCHANGED faults

-----------------------------------------------------------------------------
(* Formatting. *)
IntText(n) == IF n < 10 THEN <<Digit[n]>> ELSE <<Digit[n \div 10], Digit[n % 10]>>
intlen(n) == IF n < 10 THEN 1 ELSE 2
bulklen(len) == 1 + intlen(len) + 2 + len + 2

(* The loop of redisvFormatCommand over the format; an argument is added     *)
(* when a space ends one that has been touched.                              *)
Conversions == {"%s", "%b", "%d"}
FormatNoTouch(f, t) ==
  CASE t = " " /\ f.cur = <<>> -> f
    [] t = " " /\ f.cur # <<>> -> [f EXCEPT !.argv = Append(@, f.cur), !.cur = <<>>, !.touched = FALSE]
    [] t \in Conversions -> [f EXCEPT !.cur = @ \o Head(f.ap), !.ap = Tail(@), !.touched = f.touched \/ Head(f.ap) # <<>>]
    [] t = "%?" -> [f EXCEPT !.ok = FALSE]
    [] OTHER -> [f EXCEPT !.cur = Append(@, IF t = "%%" THEN "%" ELSE t), !.touched = TRUE]
FormatStep(f, t) ==
  CASE t = " " /\ ~f.touched -> f
    [] t = " " /\ f.touched -> [f EXCEPT !.argv = Append(@, f.cur), !.cur = <<>>, !.touched = FALSE]
    [] t \in Conversions -> [f EXCEPT !.cur = @ \o Head(f.ap), !.ap = Tail(@), !.touched = TRUE]
    [] t = "%?" -> [f EXCEPT !.ok = FALSE]
    [] OTHER -> [f EXCEPT !.cur = Append(@, IF t = "%%" THEN "%" ELSE t), !.touched = TRUE]

(* redisFormatCommandArgv: the first totlen bytes of what is printed. *)
redisFormatCommandArgv(argv) ==
  LET totlen == 1 + intlen(Len(argv)) + 2 + FoldLeft(LAMBDA n, a : n + bulklen(Len(a)), 0, argv)
      bulk(a) == <<"$">> \o IntText(Len(a)) \o <<CR, LF>> \o a \o <<CR, LF>>
  IN  SubSeq(FoldLeft(LAMBDA s, a : s \o bulk(a), <<"*">> \o IntText(Len(argv)) \o <<CR, LF>>, argv), 1, totlen)

(* redisvFormatCommand: <<>> stands for the return value -1. *)
redisvFormatCommand(format, args) ==
  LET f == FoldLeft(FormatStep, [cur |-> <<>>, touched |-> FALSE, argv |-> <<>>, ap |-> args, ok |-> TRUE], format)
  IN  IF f.ok THEN redisFormatCommandArgv(IF f.touched THEN Append(f.argv, f.cur) ELSE f.argv) ELSE <<>>

(* What a format means: its words, with every conversion replaced. *)
Meant(format, args) ==
  LET Blank(i) == format[i] = " "
      Argument(i) == args[Cardinality({k \in 1 .. i : format[k] \in Conversions})]
      Text(i) == IF format[i] \in Conversions THEN Argument(i) ELSE IF format[i] = "%%" THEN <<"%">> ELSE <<format[i]>>
      Starts == {i \in DOMAIN format : ~Blank(i) /\ (i = 1 \/ Blank(i - 1))}
      End(i) == Min({j \in i .. Len(format) : j = Len(format) \/ Blank(j + 1)})
      Word(i) == FlattenSeq([k \in 1 .. End(i) - i + 1 |-> Text(i + k - 1)])
      starts == SetToSortSeq(Starts, <)
  IN  [n \in 1 .. Len(starts) |-> Word(starts[n])]

-----------------------------------------------------------------------------
(* The server decodes what it has received and encodes what it answers. *)
LineEnd(b) == IF \E i \in DOMAIN b : b[i] = LF THEN CHOOSE i \in DOMAIN b : b[i] = LF /\ LF \notin {b[j] : j \in 1 .. i - 1} ELSE 0
Count(b) == readLongLong(SubSeq(b, 2, LineEnd(b) - 2))
From(b, i) == SubSeq(b, i, Len(b))
RECURSIVE Arguments(_, _)
Arguments(b, n) ==
  IF n = 0 THEN [argv |-> <<>>, rest |-> b, ok |-> TRUE]
  ELSE LET end == LineEnd(b) + Count(b) IN
       IF LineEnd(b) = 0 THEN [ok |-> FALSE] ELSE IF end + 2 > Len(b) THEN [ok |-> FALSE]
       ELSE LET more == Arguments(From(b, end + 3), n - 1) IN
            IF more.ok THEN [more EXCEPT !.argv = <<SubSeq(b, LineEnd(b) + 1, end)>> \o @] ELSE more
RECURSIVE Decode(_)
Decode(b) ==
  IF LineEnd(b) = 0 THEN <<>>
  ELSE LET c == Arguments(From(b, LineEnd(b) + 1), Count(b)) IN
       IF c.ok THEN <<c.argv>> \o Decode(c.rest) ELSE <<>>

RECURSIVE Encode(_)
Encode(t) ==
  CASE t.type = "STATUS" -> <<"+">> \o t.str \o <<CR, LF>>
    [] t.type = "ERROR" -> <<"-">> \o t.str \o <<CR, LF>>
    [] t.type = "INTEGER" -> <<":">> \o (IF t.integer < 0 THEN <<"-">> \o IntText(-t.integer) ELSE IntText(t.integer)) \o <<CR, LF>>
    [] t.type = "STRING" -> <<"$">> \o IntText(Len(t.str)) \o <<CR, LF>> \o t.str \o <<CR, LF>>
    [] t.type = "NIL" -> <<"$", "-", "1", CR, LF>>
    [] t.type = "GARBAGE" -> <<"x">>
    [] OTHER -> <<"*">> \o IntText(Len(t.element)) \o <<CR, LF>>
                  \o FlattenSeq([i \in DOMAIN t.element |-> Encode(t.element[i])])

RECURSIVE Depth(_)
Depth(t) == IF t.type # "ARRAY" THEN 0 ELSE 1 + Max({0} \cup {Depth(t.element[i]) : i \in DOMAIN t.element})
Readable(t) == t # Garbage /\ Depth(t) < StackSize

ServerReply ==
  /\ ~eof /\ Len(Decode(received)) > Len(answered)
  /\ \E t \in Trees \cup {Garbage} : answered' = Append(answered, t) /\ inflight' = inflight \o Encode(t)
  /\ UNCHANGED <<ctx, reader, pc, nonblock, ret, received, eof, asked, got, faults, call>>
ServerClose ==
  /\ ctx.connected /\ ~eof /\ eof' = TRUE
  /\ UNCHANGED <<ctx, reader, pc, nonblock, ret, received, inflight, faults, ghosts, call>>

-----------------------------------------------------------------------------
(* Connecting: net.c. *)
(* The context after a failure that has set err, and the sockets left open. *)
SetError(err) == ctx' = [ctx EXCEPT !.err = err] /\ UNCHANGED nonblock
redisContextCloseFd(err) ==
  /\ ctx' = [ctx EXCEPT !.fd = -1, !.err = err]
  /\ nonblock' = [f \in DOMAIN nonblock \ {ctx.fd} |-> nonblock[f]]
Return(r) == pc' = "idle" /\ ret' = r
Fresh == Min(Fds \ DOMAIN nonblock)

(* redisContextInit and the functions that call it. *)
Create(c) ==
  /\ pc = "none" /\ connects + 1 < MaxWork /\ connects' = connects + 1
  /\ ctx' = c
  /\ UNCHANGED <<reader, faults, wire, ghosts>>
redisConnect ==
  \E block, bind \in BOOLEAN :
    /\ bind => ~block
    /\ Create([NoContext EXCEPT !.fd = 0, !.block = block, !.bind = bind])
    /\ pc' = "resolve"
    /\ UNCHANGED <<left, nonblock, kept, ret>>
(* Unix sockets are not supported on Windows. *)
redisContextConnectUnix(c) == Create([c EXCEPT !.err = "IO"]) /\ Return("ERR")
redisConnectUnix ==
  /\ \E block \in BOOLEAN : redisContextConnectUnix([NoContext EXCEPT !.fd = 0, !.block = block])
  /\ UNCHANGED <<left, nonblock, kept>>
redisConnectFd ==
  \E fd \in Fds :
    /\ fd \in kept \/ fd \notin DOMAIN nonblock
    /\ Create([NoContext EXCEPT !.fd = fd, !.block = TRUE, !.connected = TRUE])
    /\ nonblock' = [f \in DOMAIN nonblock \cup {fd} |-> IF f = fd THEN FALSE ELSE nonblock[f]]
    /\ kept' = kept \ {fd}
    /\ Return("OK") /\ UNCHANGED left

(* redisPreConnectNonBlock: redisContextPreConnectTcp leaves the connect to  *)
(* the caller.  An address that cannot be parsed leaves err unset.           *)
redisPreConnectNonBlock ==
  /\ Create([NoContext EXCEPT !.pre = TRUE]) /\ pc' = "preconnect"
  /\ UNCHANGED <<left, nonblock, kept, ret>>
redisContextPreConnectTcp ==
  /\ pc = "preconnect"
  /\ \/ UNCHANGED <<ctx, nonblock>> /\ Return("ERR")
     \/ SetError("IO") /\ Return("ERR")
     \/ ctx' = [ctx EXCEPT !.fd = Fresh] /\ nonblock' = [f \in DOMAIN nonblock \cup {Fresh} |-> f \in DOMAIN nonblock => nonblock[f]]
        /\ Return("OK")
  /\ UNCHANGED <<reader, faults, wire, ghosts, call>>

(* getaddrinfo, for IPv4 and then for IPv6. *)
Resolve ==
  /\ pc = "resolve"
  /\ \/ left' \in 1 .. MaxAddresses /\ pc' = "socket" /\ UNCHANGED <<ctx, ret>>
     \/ ctx' = [ctx EXCEPT !.err = "OTHER"] /\ Return("ERR") /\ UNCHANGED left
  /\ UNCHANGED <<reader, nonblock, kept, connects, faults, wire, ghosts>>

(* The next address: its socket is made non-blocking. *)
Socket ==
  /\ pc = "socket" /\ left > 0 /\ left' = left - 1
  /\ \/ pc' = "socket" /\ UNCHANGED <<ctx, nonblock, ret>>
     \/ ctx' = [ctx EXCEPT !.fd = -1, !.err = "IO"] /\ UNCHANGED nonblock /\ Return("ERR")
     \/ /\ ctx' = [ctx EXCEPT !.fd = Fresh]
        /\ nonblock' = [f \in DOMAIN nonblock \cup {Fresh} |-> f \in DOMAIN nonblock => nonblock[f]]
        /\ pc' = (IF ctx.bind THEN "bind" ELSE "connect") /\ UNCHANGED ret
  /\ UNCHANGED <<reader, kept, connects, faults, wire, ghosts>>
NoAddressLeft ==
  /\ pc = "socket" /\ left = 0
  /\ SetError("OTHER") /\ Return("ERR")
  /\ UNCHANGED <<reader, faults, wire, ghosts, call>>
Bind ==
  /\ pc = "bind"
  /\ \/ pc' = "connect" /\ UNCHANGED <<ctx, nonblock, ret>>
     \/ SetError("OTHER") /\ Return("ERR")
  /\ UNCHANGED <<reader, faults, wire, ghosts, call>>

(* connect, and redisContextWaitReady when it is in progress.  A timeout     *)
(* that is not valid fails here.  The socket stays open when only its        *)
(* SO_ERROR says that it failed.                                             *)
ConnectUnreachableOpen == pc' = "socket" /\ UNCHANGED <<ctx, nonblock, ret>>
ConnectUnreachable ==
  /\ ctx' = [ctx EXCEPT !.fd = -1] /\ nonblock' = [f \in DOMAIN nonblock \ {ctx.fd} |-> nonblock[f]]
  /\ pc' = "socket" /\ UNCHANGED ret
Connect ==
  /\ pc = "connect"
  /\ \/ pc' = "finish" /\ UNCHANGED <<ctx, nonblock, ret>>
     \/ ConnectUnreachable
     \/ redisContextCloseFd("IO") /\ Return("ERR")
     \/ ctx.block /\ SetError("IO") /\ Return("ERR")
  /\ UNCHANGED <<reader, faults, wire, ghosts, call>>
(* The socket blocks again for a blocking context, and gets its options. *)
redisSetTcpNoDelay ==
  \/ redisContextCloseFd("IO") /\ Return("ERR")
  \/ ctx' = [ctx EXCEPT !.connected = TRUE, !.bind = FALSE] /\ nonblock' = [nonblock EXCEPT ![ctx.fd] = ~ctx.block] /\ Return("OK")
Finish ==
  /\ pc = "finish"
  /\ \/ ctx.block /\ redisContextCloseFd("IO") /\ Return("ERR")
     \/ redisSetTcpNoDelay
  /\ left' = 0 /\ UNCHANGED <<reader, kept, connects, faults, wire, ghosts>>

(* The context goes, with everything that was in its buffers. *)
Freed ==
  /\ pc = "idle" /\ pc' = "none" /\ ctx' = NoContext /\ reader' = redisReaderCreate /\ left' = 0 /\ ret' = "OK"
  /\ received' = <<>> /\ inflight' = <<>> /\ eof' = FALSE
  /\ asked' = <<>> /\ answered' = <<>> /\ got' = <<>>
  /\ UNCHANGED <<connects, faults>>
redisFree ==
  /\ Freed /\ UNCHANGED kept
  /\ nonblock' = [f \in DOMAIN nonblock \ (IF ctx.fd > 0 THEN {ctx.fd} ELSE {}) |-> nonblock[f]]
redisFreeKeepFd ==
  /\ Freed /\ UNCHANGED nonblock
  /\ kept' = kept \cup (IF ctx.fd > 0 THEN {ctx.fd} ELSE {})

(* The socket options of a connected context.  A failure sets err and leaves *)
(* the socket open; a timeout on a context that does not block is refused    *)
(* without an error.                                                         *)
redisContextSetTimeout == Fails(TRUE) /\ SetError("IO")
redisSetTimeout ==
  /\ pc = "idle" /\ ret' = "ERR"
  /\ \/ ctx.block /\ redisContextSetTimeout
     \/ ~ctx.block /\ UNCHANGED <<ctx, nonblock, faults>>
  /\ UNCHANGED <<reader, pc, wire, ghosts, call>>
redisKeepAlive == Fails(TRUE) /\ SetError("OTHER")
redisEnableKeepAlive ==
  /\ pc = "idle" /\ redisKeepAlive /\ ret' = "ERR"
  /\ UNCHANGED <<reader, pc, wire, ghosts, call>>

-----------------------------------------------------------------------------
(* Input and output. *)
(* redisBufferWrite: some of obuf is written, or the call is interrupted, or *)
(* it fails.                                                                 *)
WriteSome(n) == ctx' = [ctx EXCEPT !.obuf = SubSeq(@, n + 1, Len(@))] /\ received' = received \o SubSeq(ctx.obuf, 1, n)
redisBufferWrite ==
  \/ (ctx.err # "" \/ ctx.obuf = <<>>) /\ UNCHANGED <<ctx, received, faults>>
  \/ /\ ctx.err = "" /\ ctx.obuf # <<>>
     /\ \/ (\E n \in {Len(ctx.obuf)} \cup {k \in WriteCuts : k < Len(ctx.obuf)} : WriteSome(n)) /\ UNCHANGED faults
        \/ Fails(TRUE) /\ UNCHANGED <<ctx, received>>
        \/ Fails(TRUE) /\ ctx' = [ctx EXCEPT !.err = "IO"] /\ UNCHANGED received

(* redisBufferRead: what may have been read and fed to the reader, and the   *)
(* error that the context then has.                                          *)
Outcome(err, r, rest, f) == [err |-> err, reader |-> r, inflight |-> rest, faults |-> faults + f]
Fed(n, oom) == LET r == redisReaderFeed(reader, SubSeq(inflight, 1, n), oom)
               IN  Outcome(r.err, r, SubSeq(inflight, n + 1, Len(inflight)), IF oom THEN 1 ELSE 0)
redisBufferRead ==
  IF ctx.err # "" THEN {Outcome(ctx.err, reader, inflight, 0)}
  ELSE {Fed(n, FALSE) : n \in {k \in {Len(inflight)} \cup ReadCuts[ctx.block] : 0 < k /\ k <= Len(inflight)}}
       \cup (IF inflight = <<>> /\ eof THEN {Outcome("EOF", reader, inflight, 0)} ELSE {})
       \cup (IF faults = MaxFaults THEN {}
             ELSE {Outcome("", reader, inflight, 1), Outcome("IO", reader, inflight, 1)}
                  \cup (IF inflight = <<>> THEN {} ELSE {Fed(Len(inflight), TRUE)}))

(* redisGetReplyFromReader on reader r in context c; without a reply the     *)
(* thread goes on to next.                                                   *)
redisGetReplyFromReader(c, r, f, next) ==
  \E mem \in {99} \cup (IF f < MaxFaults THEN {0, 1} ELSE {}) :
    LET p == Parsed(r, mem) IN
    /\ reader' = redisReaderGetReply(p)
    /\ ctx' = (IF p.err = "" THEN c ELSE [c EXCEPT !.err = p.err])
    /\ got' = (IF Emitted(p) = Null THEN got ELSE Append(got, Emitted(p)))
    /\ faults' = (IF mem = 99 THEN f ELSE f + 1)
    /\ \/ p.err # "" /\ Return("NULL")
       \/ p.err = "" /\ Emitted(p) # Null /\ Return("REPLY")
       \/ p.err = "" /\ Emitted(p) = Null /\ next = "idle" /\ Return("OK")
       \/ p.err = "" /\ Emitted(p) = Null /\ next # "idle" /\ pc' = next /\ UNCHANGED ret

-----------------------------------------------------------------------------
(* The calls of the application. *)
AppendSilent == UNCHANGED <<ctx, asked>>
AppendFails == ctx' = [ctx EXCEPT !.err = "OOM"] /\ UNCHANGED asked
(* __redisAppendCommand with the bytes of a command, that mean argv; the     *)
(* redisCommand functions go on to redisGetReply when the context blocks.    *)
redisAppendCommand(cmd, argv, reply) ==
  /\ pc = "idle" /\ connects + Len(asked) < MaxWork
  /\ \/ cmd = <<>> /\ AppendFails /\ Return("NULL") /\ UNCHANGED faults
     \/ Fails(TRUE) /\ AppendFails /\ Return("NULL")
     \/ /\ cmd # <<>> /\ ctx' = [ctx EXCEPT !.obuf = @ \o cmd] /\ asked' = Append(asked, argv)
        /\ IF reply /\ ctx.block THEN pc' = "getreply" /\ UNCHANGED ret
           ELSE Return(IF reply THEN "NULL" ELSE "OK")
        /\ UNCHANGED faults
  /\ UNCHANGED <<reader, nonblock, answered, got, wire, call>>
redisCommand ==
  \E f \in Formats, reply \in BOOLEAN :
    redisAppendCommand(redisvFormatCommand(f[1], f[2]), Meant(f[1], f[2]), reply)
redisCommandArgv ==
  \E argv \in Argvs, reply \in BOOLEAN : redisAppendCommand(redisFormatCommandArgv(argv), argv, reply)

(* redisGetReply: a reply that is in the reader; else everything is written, *)
(* and then read until there is a reply.                                     *)
redisGetReply ==
  /\ pc \in {"idle", "getreply"}
  /\ redisGetReplyFromReader(ctx, reader, faults, IF ctx.block THEN "write" ELSE "idle")
  /\ UNCHANGED <<nonblock, asked, answered, wire, call>>
GetReplyWrite ==
  /\ pc = "write" /\ redisBufferWrite
  /\ \/ ctx'.err # "" /\ Return("NULL")
     \/ ctx'.err = "" /\ pc' = (IF ctx'.obuf = <<>> THEN "read" ELSE "write") /\ UNCHANGED ret
  /\ UNCHANGED <<reader, nonblock, inflight, eof, ghosts, call>>
GetReplyRead ==
  /\ pc = "read"
  /\ \E o \in redisBufferRead :
       /\ inflight' = o.inflight
       /\ IF o.err = "" THEN redisGetReplyFromReader(ctx, o.reader, o.faults, "read")
          ELSE /\ ctx' = [ctx EXCEPT !.err = o.err] /\ reader' = o.reader /\ faults' = o.faults
               /\ Return("NULL") /\ UNCHANGED got
  /\ UNCHANGED <<nonblock, received, eof, asked, answered, call>>

(* The event loop of a context that does not block. *)
HandleWrite ==
  /\ pc = "idle" /\ ctx.connected /\ ~ctx.block
  /\ redisBufferWrite /\ Return(IF ctx'.err = "" THEN "OK" ELSE "ERR")
  /\ UNCHANGED <<reader, nonblock, inflight, eof, ghosts, call>>
HandleRead ==
  /\ pc = "idle" /\ ctx.connected /\ ~ctx.block
  /\ \E o \in redisBufferRead :
       /\ inflight' = o.inflight /\ reader' = o.reader /\ faults' = o.faults
       /\ ctx' = [ctx EXCEPT !.err = o.err] /\ Return(IF o.err = "" THEN "OK" ELSE "ERR")
  /\ UNCHANGED <<nonblock, received, eof, ghosts, call>>

-----------------------------------------------------------------------------
Init ==
  /\ ctx = NoContext /\ reader = redisReaderCreate /\ pc = "none" /\ left = 0
  /\ nonblock = <<>> /\ kept = {} /\ ret = "OK"
  /\ received = <<>> /\ inflight = <<>> /\ eof = FALSE
  /\ asked = <<>> /\ answered = <<>> /\ got = <<>>
  /\ connects = 0 /\ faults = 0
Next ==
  \/ redisConnect \/ redisConnectUnix \/ redisConnectFd \/ redisPreConnectNonBlock
  \/ redisContextPreConnectTcp \/ Resolve \/ Socket \/ NoAddressLeft \/ Bind \/ Connect \/ Finish
  \/ redisFree \/ redisFreeKeepFd \/ redisSetTimeout \/ redisEnableKeepAlive
  \/ redisCommand \/ redisCommandArgv \/ redisGetReply \/ GetReplyWrite \/ GetReplyRead
  \/ HandleWrite \/ HandleRead \/ ServerReply \/ ServerClose
Spec == Init /\ [][Next]_vars

-----------------------------------------------------------------------------
(* However the output is cut into writes, and whichever calls fail, the      *)
(* server receives exactly the argument vectors that the formats mean, in    *)
(* the order of the calls, and the rest of them is still in obuf             *)
(* (redisvFormatCommand, __redisAppendCommand, redisBufferWrite).            *)
CommandsIntact == pc # "none" => Decode(received \o ctx.obuf) = asked

(* However the input is cut into reads, and whichever allocations fail, the  *)
(* caller gets the replies of the server, none lost, changed or repeated,    *)
(* none after an unreadable one; and redisGetReply does not wait for input   *)
(* with a whole reply in the reader (processItem, redisReaderGetReply).      *)
RepliesInOrder ==
  /\ IsPrefix(got, answered) /\ \A i \in DOMAIN got : Readable(got[i])
  /\ pc = "read" /\ inflight = <<>> => Len(got) = Len(answered)

(* "When NULL is returned in a blocking context, the error field in the      *)
(* context will be set" (hiredis.c:1385), and a context with an error does   *)
(* not wait for input: a reply that comes after a timeout is never taken for *)
(* the answer to a later command.                                            *)
NullMeansError ==
  /\ pc = "idle" /\ ctx.block /\ ret \in {"NULL", "ERR"} => ctx.err # ""
  /\ pc = "read" => ctx.err = ""

(* Whatever fails while a context connects, every open socket is the one of  *)
(* the context or was handed back, and a context that connected without an   *)
(* error has a socket that blocks if and only if the context does            *)
(* (_redisContextConnectTcp, redisContextWaitReady, redisFree).              *)
SocketsOwned ==
  /\ pc \in {"none", "idle"} => DOMAIN nonblock = kept \cup (IF ctx.fd > 0 THEN {ctx.fd} ELSE {})
  /\ pc = "idle" /\ ctx.err = "" /\ ~ctx.pre => ctx.connected /\ nonblock[ctx.fd] = ~ctx.block
===============================================================================
