------------------------------ MODULE RedisAsync ------------------------------
(* The asynchronous context of async.c in an event loop with the ae adapter.  *)
(* One thread runs the loop, the handlers and the callbacks of the            *)
(* application; a callback may issue commands, disconnect or free the         *)
(* context.  Commands and replies are whole messages here; how they are       *)
(* formatted, cut and parsed is the subject of RedisContext.                  *)
EXTENDS Dict, SequencesExt

CONSTANTS Channels, Patterns,   \* names that can be subscribed to
          MaxCommands,          \* bound: commands accepted
          MonitorWithin,        \* bound: commands accepted by a context that monitors
          MaxPublished,         \* bound: messages and monitor lines the server sends
          NoCommand

Keys == Channels \cup Patterns
ASSUME KeysAssumption == Hash \in [Keys -> Nat] /\ NoCommand \notin Keys
Kinds == {"get", "quit", "monitor", "subscribe", "unsubscribe"}

VARIABLES ac,       \* the redisAsyncContext
          pc,       \* "none", "idle", inside a handler, inside a callback, "freed" or "aborted"
          after,    \* where the handler goes on when the callback returns
          iter,     \* entries of the dictionaries whose callbacks have still to run
          reg,      \* the ae adapter: reading, writing and what the loop waits for
          sent,     \* commands on their way to the server
          inflight, \* messages on their way to the client
          eof,      \* the connection is closed by the server, or failed
          fresh,    \* the server has not answered yet
          subs,     \* keys the server has this client subscribed to
          published,\* messages and lines the server has sent
          issued,   \* commands accepted
          calls,    \* for every command, what its callback has been called with
          want,     \* for every key subscribed to, the command that did it last
          leaving,  \* keys being unsubscribed
          crossed,  \* commands about subscriptions have crossed their replies
          user,     \* the application has called redisAsyncDisconnect or redisAsyncFree
          told      \* statuses the disconnect callback has been called with
vars == <<ac, pc, after, iter, reg, sent, inflight, eof, fresh, subs, published, issued, calls, want, leaving, crossed, user, told>>
server == <<fresh, subs, published>>
wire == <<sent, inflight, eof>>
ghosts == <<issued, want, leaving, crossed>>

NullReply == [type |-> "NULL"]
Created == [flags |-> {}, err |-> "none", replies |-> <<>>, invalid |-> <<>>, channels |-> dictCreate, patterns |-> dictCreate,
            onConnect |-> FALSE, onDisconnect |-> FALSE, obuf |-> <<>>, reader |-> <<>>, part |-> FALSE, cb |-> 0]
Flag(f) == f \in ac.flags
Dictionary(key) == IF key \in Patterns THEN "patterns" ELSE "channels"

-----------------------------------------------------------------------------
(* The ae adapter.  A read event is delivered once and must be asked for     *)
(* again; a write event is delivered until it is deleted.                    *)
Ae == [reading |-> FALSE, writing |-> FALSE, armed |-> {}]
redisAeAddRead(e) == IF e.reading THEN e ELSE [e EXCEPT !.reading = TRUE, !.armed = @ \cup {"read"}]
ForceAddReadIfIdle(e) == redisAeAddRead(e)
redisAeForceAddRead(e) == [e EXCEPT !.reading = TRUE, !.armed = @ \cup {"read"}]
redisAeDelRead(e) == IF e.reading THEN [e EXCEPT !.reading = FALSE, !.armed = @ \ {"read"}] ELSE e
redisAeAddWrite(e) == IF e.writing THEN e ELSE [e EXCEPT !.writing = TRUE, !.armed = @ \cup {"write"}]
redisAeDelWrite(e) == IF e.writing THEN [e EXCEPT !.writing = FALSE, !.armed = @ \ {"write"}] ELSE e
redisAeCleanup(e) == redisAeDelWrite(redisAeDelRead(e))

-----------------------------------------------------------------------------
(* The application. *)
InApp == pc \in {"idle", "callback", "onconnect"}

(* redisAsyncConnect and redisAeAttach; a context with an error may only be  *)
(* freed.                                                                    *)
redisAsyncConnect ==
  /\ pc = "none" /\ pc' = "idle"
  /\ \/ ac' = Created /\ UNCHANGED eof
     \/ ac' = [Created EXCEPT !.err = "IO"] /\ eof' = TRUE
  /\ UNCHANGED <<after, iter, reg, sent, inflight, server, calls, ghosts, user, told>>
(* The application sets its callbacks before it issues commands. *)
Starting == pc = "idle" /\ ac.err = "none" /\ issued = <<>> /\ ~Flag("CONNECTED")
redisAsyncSetConnectCallback ==
  /\ Starting /\ ~ac.onConnect /\ ~ac.onDisconnect
  /\ ac' = [ac EXCEPT !.onConnect = TRUE] /\ reg' = redisAeAddWrite(reg)
  /\ UNCHANGED <<pc, after, iter, wire, server, calls, ghosts, user, told>>
redisAsyncSetDisconnectCallback ==
  /\ Starting /\ ~ac.onDisconnect
  /\ ac' = [ac EXCEPT !.onDisconnect = TRUE]
  /\ UNCHANGED <<pc, after, iter, reg, wire, server, calls, ghosts, user, told>>

(* Where the callback of command n is kept. *)
Registered(kind, key, n) ==
  CASE kind = "subscribe" ->
         [ac EXCEPT !.flags = @ \cup {"SUBSCRIBED"}, ![Dictionary(key)] = dictReplace(@, key, n)]
    [] kind = "unsubscribe" -> ac
    [] kind = "monitor" -> [ac EXCEPT !.flags = @ \cup {"MONITORING"}, !.replies = Append(@, n)]
    [] OTHER -> IF Flag("SUBSCRIBED") THEN [ac EXCEPT !.invalid = Append(@, n)]
                ELSE [ac EXCEPT !.replies = Append(@, n)]
(* A key is subscribed to again, or unsubscribed from again, while its        *)
(* unsubscription is under way, or it was never subscribed to: the context    *)
(* does not look.                                                             *)
Crosses(kind, key) ==
  \/ kind \in {"subscribe", "unsubscribe"} /\ key \in leaving
  \/ kind = "unsubscribe" /\ key \notin DOMAIN want
Accepts == ac.flags \cap {"DISCONNECTING", "FREEING"} = {} /\ (ac.err = "none" \/ pc # "idle")
Monitored == \E i \in DOMAIN issued : issued[i].kind = "monitor"
redisAsyncCommand ==
  /\ InApp /\ Accepts /\ Len(issued) < MaxCommands
  /\ \E kind \in Kinds, key \in Keys \cup {NoCommand} :
       /\ (key = NoCommand) <=> kind \in {"get", "quit", "monitor"}
       /\ Monitored \/ kind = "monitor" => Len(issued) < MonitorWithin
       /\ kind = "unsubscribe" => Flag("SUBSCRIBED")
       /\ crossed' = (crossed \/ Crosses(kind, key))
       /\ LET n == Len(issued) + 1 IN
          /\ issued' = Append(issued, [kind |-> kind, key |-> key])
          /\ ac' = [Registered(kind, key, n) EXCEPT !.obuf = Append(@, [kind |-> kind, key |-> key, n |-> n])]
          /\ want' = IF kind = "subscribe" THEN [k \in DOMAIN want \cup {key} |-> IF k = key THEN n ELSE want[k]] ELSE want
          /\ leaving' = IF kind = "unsubscribe" THEN leaving \cup {key} ELSE leaving
          /\ calls' = Append(calls, <<>>)
  /\ reg' = redisAeAddWrite(reg)
  /\ UNCHANGED <<pc, after, iter, wire, server, user, told>>

(* Inside a callback only the flag is set.  The connect callback is not run  *)
(* with REDIS_IN_CALLBACK: control would return into a freed context.        *)
redisAsyncFree ==
  /\ InApp /\ user' = TRUE
  /\ ac' = [ac EXCEPT !.flags = @ \cup {"FREEING"}]
  /\ pc' = CASE pc = "idle" -> "free" [] pc = "onconnect" -> "aborted" [] OTHER -> pc
  /\ UNCHANGED <<after, iter, reg, wire, server, calls, ghosts, told>>
redisAsyncDisconnect ==
  /\ InApp /\ (ac.err = "none" \/ pc # "idle") /\ user' = TRUE
  /\ ac' = [ac EXCEPT !.flags = @ \cup {"DISCONNECTING"}]
  /\ pc' = IF pc = "callback" \/ ac.replies # <<>> THEN pc ELSE IF pc = "onconnect" THEN "aborted" ELSE "disconnect"
  /\ UNCHANGED <<after, iter, reg, wire, server, calls, ghosts, told>>

-----------------------------------------------------------------------------
(* Callbacks. *)
(* __redisRunCallback on callback n with a reply; a NULL callback does       *)
(* nothing.                                                                  *)
redisRunCallback(c, n, reply, next) ==
  IF n = 0 THEN ac' = c /\ pc' = next /\ UNCHANGED <<after, calls>>
  ELSE /\ ac' = [c EXCEPT !.flags = @ \cup {"IN_CALLBACK"}]
       /\ calls' = [calls EXCEPT ![n] = Append(@, reply)]
       /\ pc' = "callback" /\ after' = next
CallbackReturns ==
  /\ pc = "callback"
  /\ ac' = [ac EXCEPT !.flags = @ \ {"IN_CALLBACK"}]
  /\ pc' = IF after = "process" /\ Flag("FREEING") THEN "free" ELSE after
  /\ after' = "none"
  /\ UNCHANGED <<iter, reg, wire, server, calls, ghosts, user, told>>

(* __redisAsyncDisconnect: after an error no callback can issue commands;    *)
(* without one there may be no callback left.                                *)
redisAsyncDisconnectNow ==
  /\ pc = "disconnect"
  /\ IF ac.err # "none" THEN ac' = [ac EXCEPT !.flags = @ \cup {"DISCONNECTING"}] /\ pc' = "free"
     ELSE UNCHANGED ac /\ pc' = (IF ac.replies = <<>> THEN "free" ELSE "aborted")
  /\ UNCHANGED <<after, iter, reg, wire, server, calls, ghosts, user, told>>

(* __redisAsyncFree: the callbacks of pending replies, of invalid commands   *)
(* and of the subscriptions get a NULL reply; then the adapter is cleaned    *)
(* up and the disconnect callback runs.                                      *)
FreeReplies ==
  /\ pc = "free" /\ ac.replies # <<>>
  /\ redisRunCallback([ac EXCEPT !.replies = Tail(@)], Head(ac.replies), NullReply, "free")
  /\ UNCHANGED <<iter, reg, wire, server, ghosts, user, told>>
FreeInvalid ==
  /\ pc = "free" /\ ac.replies = <<>> /\ ac.invalid # <<>>
  /\ redisRunCallback([ac EXCEPT !.invalid = Tail(@)], Head(ac.invalid), NullReply, "free")
  /\ UNCHANGED <<iter, reg, wire, server, ghosts, user, told>>
FreeIterate ==
  /\ pc = "free" /\ ac.replies = <<>> /\ ac.invalid = <<>>
  /\ iter' = Entries(ac.channels) \cup Entries(ac.patterns)
  /\ pc' = "iterate"
  /\ UNCHANGED <<ac, after, reg, wire, server, calls, ghosts, user, told>>
FreeSubscription ==
  /\ pc = "iterate"
  /\ \E e \in iter : iter' = iter \ {e} /\ redisRunCallback(ac, e.val, NullReply, "iterate")
  /\ UNCHANGED <<reg, wire, server, ghosts, user, told>>
(* A bug: a disconnect counts as asked for. *)
StatusOfFlags == IF Flag("FREEING") \/ Flag("DISCONNECTING") \/ ac.err = "none" THEN "OK" ELSE "ERR"
Status == IF Flag("FREEING") \/ ac.err = "none" THEN "OK" ELSE "ERR"
FreeContext ==
  /\ pc = "iterate" /\ iter = {} /\ pc' = "freed"
  /\ reg' = redisAeCleanup(reg)
  /\ told' = IF ac.onDisconnect /\ Flag("CONNECTED") THEN Append(told, Status) ELSE told
  /\ ac' = [ac EXCEPT !.channels = dictRelease(@), !.patterns = dictRelease(@)]
  /\ UNCHANGED <<after, iter, wire, server, calls, ghosts, user>>

-----------------------------------------------------------------------------
(* __redisGetSubscribeCallback: the callback of the key; the one of the      *)
(* reply before when the key is not known.                                   *)
SubscribeCallback(c, r) ==
  IF r.type = "ARRAY"
  THEN LET found == dictFind(c[Dictionary(r.key)], r.key)
           gone  == r.what = "unsubscribe" /\ found # {}
       IN  [c EXCEPT !.cb = IF found = {} THEN @ ELSE (CHOOSE e \in found : TRUE).val,
                     ![Dictionary(r.key)] = IF gone THEN dictDelete(@, r.key) ELSE @,
                     !.flags = IF gone /\ r.count = 0 THEN @ \ {"SUBSCRIBED"} ELSE @]
  ELSE IF c.invalid = <<>> THEN c ELSE [c EXCEPT !.cb = Head(c.invalid), !.invalid = Tail(@)]

(* redisProcessCallbacks, one reply at a time.  ac.cb is its variable cb.    *)
NoReply ==
  /\ pc = "process" /\ ac.reader = <<>>
  /\ \/ Flag("DISCONNECTING") /\ ac.obuf = <<>> /\ pc' = "disconnect" /\ UNCHANGED ac
     \/ /\ ~(Flag("DISCONNECTING") /\ ac.obuf = <<>>) /\ pc' = "idle"
        /\ ac' = [ac EXCEPT !.replies = IF Flag("MONITORING") THEN Append(@, ac.cb) ELSE @, !.cb = 0]
  /\ UNCHANGED <<after, iter, reg, wire, server, calls, ghosts, user, told>>
(* redisGetReply fails at a reply that breaks the protocol or finds no memory;*)
(* redisProcessCallbacks disconnects.                                         *)
GetReplyFails ==
  /\ pc = "process" /\ pc' = "disconnect" /\ ac' = [ac EXCEPT !.err = "PROTOCOL"]
  /\ UNCHANGED <<after, iter, reg, wire, server, calls, ghosts, user, told>>
(* The callback runs with the reply, and what the reply ends is forgotten. *)
Deliver(c, r) ==
  /\ redisRunCallback(c, c.cb, r, "process")
  /\ IF r.type = "ARRAY" /\ r.what = "unsubscribe"
     THEN leaving' = leaving \ {r.key} /\ want' = [k \in DOMAIN want \ {r.key} |-> want[k]]
     ELSE UNCHANGED <<leaving, want>>
(* A bug: the reply goes to the last callback. *)
ShiftLast(c) == [c EXCEPT !.cb = Last(c.replies), !.replies = Front(@)]
redisShiftCallback(c) == [c EXCEPT !.cb = Head(c.replies), !.replies = Tail(@)]
Reply ==
  /\ pc = "process" /\ ac.reader # <<>>
  /\ LET r == Head(ac.reader)
         c == [ac EXCEPT !.reader = Tail(@)]
     IN  /\ IF ac.replies # <<>>
            THEN Deliver(redisShiftCallback(c), r)
            ELSE IF r.type = "ERROR"
            THEN ac' = [c EXCEPT !.err = "OTHER"] /\ pc' = "disconnect" /\ UNCHANGED <<after, calls, leaving, want>>
            ELSE IF ac.flags \cap {"SUBSCRIBED", "MONITORING"} = {}
            THEN ac' = c /\ pc' = "aborted" /\ UNCHANGED <<after, calls, leaving, want>>
            ELSE Deliver(IF Flag("SUBSCRIBED") THEN SubscribeCallback(c, r) ELSE c, r)
         /\ crossed' = (crossed \/ (Flag("SUBSCRIBED") /\ "SUBSCRIBED" \notin ac'.flags /\ r.n < Len(issued)))
  /\ UNCHANGED <<iter, reg, wire, server, issued, user, told>>

-----------------------------------------------------------------------------
(* The handlers. *)
(* __redisAsyncHandleConnect at the first event; it goes on to next.  The    *)
(* error stays in the context when the connection is still in progress.      *)
HandleConnect(next) ==
  \/ /\ Flag("CONNECTED") /\ pc' = next /\ UNCHANGED <<ac, after>>
  \/ /\ ~Flag("CONNECTED") /\ ~eof /\ ac' = [ac EXCEPT !.flags = @ \cup {"CONNECTED"}]
     /\ IF ac.onConnect THEN pc' = "onconnect" /\ after' = next ELSE pc' = next /\ UNCHANGED after
  \/ /\ ~Flag("CONNECTED") /\ eof /\ ac' = [ac EXCEPT !.err = "IO"]
     /\ IF ac.onConnect THEN pc' = "onconnect" /\ after' = "disconnect" ELSE pc' = "disconnect" /\ UNCHANGED after
  \/ ~Flag("CONNECTED") /\ ~eof /\ ac' = [ac EXCEPT !.err = "IO"] /\ pc' = "idle" /\ UNCHANGED after
(* Reads are first asked for by redisAsyncHandleWrite, once connected. *)
ReadEvent ==
  /\ pc = "idle" /\ "read" \in reg.armed /\ (inflight # <<>> \/ eof)
  /\ reg' = [reg EXCEPT !.armed = @ \ {"read"}]
  /\ pc' = "read"
  /\ UNCHANGED <<ac, after, iter, wire, server, calls, ghosts, user, told>>
WriteEvent ==
  /\ pc = "idle" /\ "write" \in reg.armed
  /\ HandleConnect("write")
  /\ UNCHANGED <<iter, reg, wire, server, calls, ghosts, user, told>>
ConnectCallbackReturns ==
  /\ pc = "onconnect" /\ pc' = after /\ after' = "none"
  /\ UNCHANGED <<ac, iter, reg, wire, server, calls, ghosts, user, told>>

(* redisAsyncHandleRead: some whole messages are read, or a part of the next *)
(* one.                                                                      *)
redisAsyncHandleRead ==
  /\ pc = "read"
  /\ \/ /\ (ac.err # "none" \/ (inflight = <<>> /\ eof)) /\ pc' = "disconnect"
        /\ ac' = [ac EXCEPT !.err = IF @ = "none" THEN "EOF" ELSE @] /\ UNCHANGED <<reg, inflight>>
     \/ /\ ac.err = "none" /\ inflight # <<>>
        /\ \E n \in 0 .. Len(inflight) :
             /\ n = 0 => ~ac.part
             /\ ac' = [ac EXCEPT !.reader = @ \o SubSeq(inflight, 1, n), !.part = (n = 0), !.cb = 0]
             /\ inflight' = SubSeq(inflight, n + 1, Len(inflight))
        /\ reg' = redisAeForceAddRead(reg) /\ pc' = "process"
  /\ UNCHANGED <<after, iter, sent, eof, server, calls, ghosts, user, told>>

(* redisAsyncHandleWrite, or redisAsyncHandleWritePrep, an overlapped write  *)
(* and redisAsyncHandleWriteComplete.                                        *)
redisAsyncHandleWrite ==
  /\ pc = "write"
  /\ \/ /\ ac.err # "none" \/ eof
        /\ ac' = [ac EXCEPT !.err = "IO"] /\ pc' = "disconnect" /\ UNCHANGED <<reg, sent>>
     \/ /\ ac.err = "none" /\ ~eof
        /\ \E n \in 0 .. Len(ac.obuf) :
             /\ (n = 0) => ac.obuf = <<>>
             /\ ac' = [ac EXCEPT !.obuf = SubSeq(@, n + 1, Len(@))]
             /\ sent' = sent \o SubSeq(ac.obuf, 1, n)
             /\ reg' = redisAeAddRead(IF n = Len(ac.obuf) THEN redisAeDelWrite(reg) ELSE redisAeAddWrite(reg))
        /\ pc' = "idle"
  /\ UNCHANGED <<after, iter, inflight, eof, server, calls, ghosts, user, told>>

-----------------------------------------------------------------------------
(* The server and the network.  What they do while a handler runs is seen by *)
(* the client at its next event, so it happens between the handlers.         *)
Between == pc \in {"idle", "onconnect"}
(* Every reply carries, for the properties only, the number of its command,  *)
(* and a message the number of the command answered last.                    *)
Served == Len(issued) - Len(sent) - Len(ac.obuf)
Answer(c) ==
  CASE c.kind = "subscribe" ->
         [type |-> "ARRAY", what |-> "subscribe", key |-> c.key, count |-> Cardinality(subs \cup {c.key}), n |-> c.n]
    [] c.kind = "unsubscribe" ->
         [type |-> "ARRAY", what |-> "unsubscribe", key |-> c.key, count |-> Cardinality(subs \ {c.key}), n |-> c.n]
    [] c.kind = "get" /\ subs # {} -> [type |-> "ERROR", n |-> c.n]
    [] OTHER -> [type |-> "STATUS", n |-> c.n]
ServerAnswers ==
  /\ Between /\ sent # <<>> /\ ~eof
  /\ LET c == Head(sent) IN
     /\ inflight' = Append(inflight, Answer(c))
     /\ subs' = CASE c.kind = "subscribe" -> subs \cup {c.key} [] c.kind = "unsubscribe" -> subs \ {c.key} [] OTHER -> subs
     /\ eof' = (c.kind = "quit")
  /\ sent' = Tail(sent) /\ fresh' = FALSE
  /\ UNCHANGED <<ac, pc, after, iter, reg, published, calls, ghosts, user, told>>
ServerPublishes ==
  /\ Between /\ published < MaxPublished /\ published' = published + 1 /\ ~eof
  /\ \/ \E key \in subs : inflight' = Append(inflight, [type |-> "ARRAY", what |-> "message", key |-> key, count |-> 0, n |-> Served])
     \/ Monitored /\ inflight' = Append(inflight, [type |-> "STATUS", n |-> 0])
  /\ UNCHANGED <<ac, pc, after, iter, reg, sent, eof, fresh, subs, calls, ghosts, user, told>>
(* Too many clients: an error nobody asked for, and the connection closes. *)
ServerRefuses ==
  /\ Between /\ ~eof /\ eof' = TRUE /\ fresh
  /\ inflight' = <<[type |-> "ERROR", n |-> 0]>>
  /\ UNCHANGED <<ac, pc, after, iter, reg, sent, server, calls, ghosts, user, told>>
ConnectionFails ==
  /\ Between /\ ~eof /\ eof' = TRUE
  /\ UNCHANGED <<ac, pc, after, iter, reg, sent, inflight, server, calls, ghosts, user, told>>

-----------------------------------------------------------------------------
Init ==
  /\ ac = Created /\ pc = "none" /\ after = "none" /\ iter = {} /\ reg = Ae
  /\ sent = <<>> /\ inflight = <<>> /\ eof = FALSE /\ fresh = TRUE /\ subs = {} /\ published = 0
  /\ issued = <<>> /\ calls = <<>> /\ want = <<>> /\ leaving = {} /\ crossed = FALSE /\ user = FALSE /\ told = <<>>
Next ==
  \/ redisAsyncConnect \/ redisAsyncSetConnectCallback \/ redisAsyncSetDisconnectCallback
  \/ redisAsyncCommand \/ redisAsyncFree \/ redisAsyncDisconnect
  \/ CallbackReturns \/ redisAsyncDisconnectNow \/ FreeReplies \/ FreeInvalid \/ FreeIterate \/ FreeSubscription \/ FreeContext
  \/ NoReply \/ GetReplyFails \/ Reply \/ ReadEvent \/ WriteEvent \/ ConnectCallbackReturns
  \/ redisAsyncHandleRead \/ redisAsyncHandleWrite
  \/ ServerAnswers \/ ServerPublishes \/ ServerRefuses \/ ConnectionFails
Spec == Init /\ [][Next]_vars

-----------------------------------------------------------------------------
Answers(r, n) ==
  \/ r = NullReply
  \/ r.type # "ARRAY" /\ r.n = n
  \/ r = [type |-> "ERROR", n |-> 0] /\ n = 1
  \/ r.type = "ARRAY" /\ issued[n].kind = "subscribe" /\ issued[n].key = r.key

(* Whichever replies, messages, errors and callbacks come in between, a      *)
(* callback is called with the reply to its own command, or a message of its *)
(* own channel, or NULL; and after NULL never again (redisProcessCallbacks,  *)
(* __redisGetSubscribeCallback).  The exceptions: in monitoring a read that  *)
(* completes no line pushes the callback of another command; the end of the  *)
(* last subscription takes away the flag by which the replies to the         *)
(* commands that follow would find theirs; an unsubscription from a key that *)
(* is not subscribed to is answered to the callback of the reply before; and *)
(* the reply to an unsubscription removes the callback of a subscription     *)
(* that was issued meanwhile (the last three are crossed).                   *)
OwnReplies ==
  ~Monitored /\ ~crossed => \A n \in DOMAIN calls : \A i \in DOMAIN calls[n] :
                 Answers(calls[n][i], n) /\ (calls[n][i] = NullReply => i = Len(calls[n]))

(* "All pending callbacks are called with a NULL reply when the context      *)
(* encountered an error" (README.md:294): when the context is freed, every   *)
(* command but the unsubscriptions has had its callback, a regular command   *)
(* exactly once (__redisAsyncFree); with the same exceptions.                *)
EveryCallbackRuns ==
  pc = "freed" /\ ~Monitored /\ ~crossed =>
    /\ \A n \in DOMAIN calls : issued[n].kind \in {"get", "quit"} => Len(calls[n]) = 1
    /\ \A key \in DOMAIN want : LET c == calls[want[key]] IN c # <<>> /\ Last(c) = NullReply

(* Every callback runs with what is its own, and none is forgotten.          *)
RightCallback == OwnReplies /\ EveryCallbackRuns

(* The disconnect callback runs at most once, with REDIS_OK only when the    *)
(* application asked for it and REDIS_ERR only when there is an error        *)
(* (README.md:252), and no command is taken once the context goes away.      *)
DisconnectTold ==
  /\ Len(told) <= 1
  /\ told = <<"OK">> => user
  /\ told = <<"ERR">> => ac.err # "none"
  /\ pc = "freed" => ac.replies = <<>> /\ ac.invalid = <<>>

(* Nothing waits for an event that the loop does not wait for: with output   *)
(* pending the write event is armed, with an answer outstanding the read     *)
(* event (redisAsyncHandleRead, redisAsyncHandleWrite, the ae adapter).      *)
Scheduled ==
  pc = "idle" /\ ac.err = "none" =>
    /\ ac.obuf # <<>> => "write" \in reg.armed
    /\ Flag("CONNECTED") /\ (sent # <<>> \/ inflight # <<>>) => "read" \in reg.armed

(* The dictionaries hold exactly the subscriptions that have not been ended, *)
(* each under the callback that came last, whatever their tables' size; with *)
(* the same exceptions.                                                      *)
SubscriptionsKept ==
  pc # "freed" /\ ~Monitored /\ ~crossed => \A key \in Keys :
    dictFind(ac[Dictionary(key)], key) = IF key \in DOMAIN want THEN {[key |-> key, val |-> want[key]]} ELSE {}
===============================================================================
