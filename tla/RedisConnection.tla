-------------------------- MODULE RedisConnection --------------------------
(***************************************************************************)
(* CRedis and CSentinel of Redis.h and Redis.cpp: how a pooled object      *)
(* finds the master, connects, authenticates, sends one command and frees  *)
(* what it got.  Connect, Authenticate and Command call each other in a    *)
(* circle, so the call stack is part of the state.  One object is enough:  *)
(* RedisPoolProofs shows that an object is used by one caller at a time.   *)
(*                                                                         *)
(* hiredis and the servers are external: every call to them has each of    *)
(* the outcomes the code distinguishes.                                    *)
(***************************************************************************)
EXTENDS Integers, Sequences, FiniteSets, SequencesExt

CONSTANTS
    Null,           \* nullptr
    NSentinels,     \* length of CSentinel::ConnectionInformation
    MaxCalls,       \* bound: calls of FraudANI
    MaxFaults,      \* bound: calls of hiredis that fail
    MaxDeletes      \* bound: objects deleted by CRedisPool::Empty

ASSUME RedisConnectionAssumption ==
    /\ {NSentinels, MaxCalls, MaxFaults, MaxDeletes} \subseteq Nat
    /\ Null \notin Nat \cup {"STATUS", "STRING", "ERROR"}

VARIABLES
    Context,        \* this->Context: a context's number or Null
    ctx,            \* the contexts allocated and not freed: err, auth
    stack,          \* where the active calls are, the innermost last
    ret,            \* what the last Connect or Authenticate returned
    reply,          \* what the last Command returned: a type or Null
    replies,        \* redisReply objects allocated and not freed
    sentinel,       \* the sentinel GetConnectionInformation is at
    nextCtx,        \* number of the next context
    abandoned,      \* history: contexts nobody can free any more
    sent,           \* history: evalsha commands of this call of FraudANI
    faults, calls, deletes

vars == <<Context, ctx, stack, ret, reply, replies, sentinel, nextCtx, abandoned,
          sent, faults, calls, deletes>>

Top == Last(stack)
Caller == stack[Len(stack) - 1]
Goto(pc) == stack' = Append(Front(stack), pc)
Return == stack' = Front(stack)
Fault == faults < MaxFaults /\ faults' = faults + 1

Broken(c) == c # Null /\ ctx[c].err
Healthy(c) == c # Null /\ ~ctx[c].err

(* redisFree.                                                              *)
Free(c) == ctx' = [d \in DOMAIN ctx \ {c} |-> ctx[d]]

(* A context redisConnectWithTimeout returns.                              *)
Allocate(err) ==
    /\ ctx' = [d \in DOMAIN ctx \cup {nextCtx} |->
                IF d = nextCtx THEN [err |-> err, auth |-> FALSE] ELSE ctx[d]]
    /\ nextCtx' = nextCtx + 1

Init ==
    /\ Context = Null
    /\ ctx = [d \in {} |-> [err |-> FALSE, auth |-> FALSE]]
    /\ stack = <<>> /\ ret = FALSE /\ reply = Null /\ replies = 0
    /\ sentinel = 1 /\ nextCtx = 1
    /\ abandoned = {} /\ sent = 0
    /\ faults = 0 /\ calls = 0 /\ deletes = 0

-----------------------------------------------------------------------------
(* FraudANI calls Command, and Command calls Connect.                      *)
FraudANI ==
    /\ stack = <<>>
    /\ calls < MaxCalls
    /\ calls' = calls + 1
    /\ stack' = <<"FraudANI", "Command", "Connect">>
    /\ sent' = 0
    /\ UNCHANGED <<Context, ctx, ret, reply, replies, sentinel, nextCtx,
                   abandoned, faults, deletes>>

(* Connect: there is a connection already.                                 *)
ConnectOpen ==
    /\ stack # <<>> /\ Top = "Connect"
    /\ Healthy(Context)
    /\ ret' = TRUE
    /\ Return
    /\ UNCHANGED <<Context, ctx, reply, replies, sentinel, nextCtx, abandoned,
                   sent, faults, calls, deletes>>

(* Connect: drop a connection with an error and look for the master.       *)
ConnectAnew ==
    /\ stack # <<>> /\ Top = "Connect"
    /\ Context = Null \/ Broken(Context)
    /\ IF Broken(Context) THEN Free(Context) ELSE UNCHANGED ctx
    /\ Context' = Null
    /\ sentinel' = 1
    /\ Goto("Sentinel")
    /\ UNCHANGED <<ret, reply, replies, nextCtx, abandoned, sent, faults, calls,
                   deletes>>

-----------------------------------------------------------------------------
(* GetConnectionInformation, one round of its loop.                        *)

AtSentinel == stack # <<>> /\ Top = "Sentinel" /\ sentinel <= NSentinels

(* No context; or a sentinel whose answer is missing or of the wrong type, *)
(* after which reply and context are freed.                                *)
SentinelFails ==
    /\ AtSentinel
    /\ Fault
    /\ sentinel' = sentinel + 1
    /\ UNCHANGED <<Context, ctx, stack, ret, reply, replies, nextCtx, abandoned,
                   sent, calls, deletes>>

(* A context with an error: nobody frees it.                               *)
SentinelRefuses ==
    /\ AtSentinel
    /\ Fault
    /\ Allocate(TRUE)
    /\ abandoned' = abandoned \cup {nextCtx}
    /\ sentinel' = sentinel + 1
    /\ UNCHANGED <<Context, stack, ret, reply, replies, sent, calls, deletes>>

SentinelAnswers ==
    /\ AtSentinel
    /\ Goto("Dial")
    /\ UNCHANGED <<Context, ctx, ret, reply, replies, sentinel, nextCtx,
                   abandoned, sent, faults, calls, deletes>>

(* No sentinel knows the master: Connect returns with no context.          *)
NoMaster ==
    /\ stack # <<>> /\ Top = "Sentinel" /\ sentinel > NSentinels
    /\ ret' = FALSE
    /\ Return
    /\ UNCHANGED <<Context, ctx, reply, replies, sentinel, nextCtx, abandoned,
                   sent, faults, calls, deletes>>

-----------------------------------------------------------------------------
(* Connect: redisConnectWithTimeout to the master.                         *)

AtDial == stack # <<>> /\ Top = "Dial"

DialFails ==
    /\ AtDial
    /\ Fault
    /\ \/ UNCHANGED <<Context, ctx, nextCtx>>
       \/ Allocate(TRUE) /\ Context' = nextCtx
    /\ ret' = FALSE
    /\ Return
    /\ UNCHANGED <<reply, replies, sentinel, abandoned, sent, calls, deletes>>

(* redisEnableKeepAlive may set err, nobody looks; Authenticate calls      *)
(* Command, and Command calls Connect.                                     *)
Dial ==
    /\ AtDial
    /\ \/ Allocate(FALSE) /\ UNCHANGED faults
       \/ Allocate(TRUE) /\ Fault
    /\ Context' = nextCtx
    /\ stack' = Front(stack) \o <<"Connected", "Authenticate", "Command", "Connect">>
    /\ UNCHANGED <<ret, reply, replies, sentinel, abandoned, sent, calls, deletes>>

(* Mutant: freeReplyObject is forgotten.                                   *)
AuthenticateLeaks ==
    /\ stack # <<>> /\ Top = "Authenticate"
    /\ reply' = Null
    /\ ret' = TRUE
    /\ Return
    /\ UNCHANGED <<Context, ctx, replies, sentinel, nextCtx, abandoned, sent,
                   faults, calls, deletes>>

(* Authenticate frees the reply and returns true whatever it was.          *)
Authenticate ==
    /\ stack # <<>> /\ Top = "Authenticate"
    /\ replies' = IF reply = Null THEN replies ELSE replies - 1
    /\ reply' = Null
    /\ ret' = TRUE
    /\ Return
    /\ UNCHANGED <<Context, ctx, sentinel, nextCtx, abandoned, sent, faults,
                   calls, deletes>>

(* Mutant: Connect returns what Authenticate returned.                     *)
ConnectedTrusts ==
    /\ stack # <<>> /\ Top = "Connected"
    /\ Return
    /\ UNCHANGED <<Context, ctx, ret, reply, replies, sentinel, nextCtx,
                   abandoned, sent, faults, calls, deletes>>

(* The end of Connect; Context may be another one than before              *)
(* Authenticate, or none.                                                  *)
Connected ==
    /\ stack # <<>> /\ Top = "Connected"
    /\ IF ret
        THEN /\ ret' = Healthy(Context)
             /\ UNCHANGED <<Context, ctx>>
        ELSE /\ Free(Context)
             /\ Context' = Null
             /\ ret' = FALSE
    /\ Return
    /\ UNCHANGED <<reply, replies, sentinel, nextCtx, abandoned, sent, faults,
                   calls, deletes>>

-----------------------------------------------------------------------------
(* Command, once Connect has returned.                                     *)

AtCommand == stack # <<>> /\ Top = "Command"
Sends == IF Caller = "FraudANI" THEN sent' = sent + 1 ELSE UNCHANGED sent

CommandUnconnected ==
    /\ AtCommand /\ ~ret
    /\ reply' = Null
    /\ Return
    /\ UNCHANGED <<Context, ctx, ret, replies, sentinel, nextCtx, abandoned, sent,
                   faults, calls, deletes>>

(* Mutant: the loop that tries again when there was no reply.              *)
CommandLostRetries ==
    /\ AtCommand /\ ret
    /\ Fault
    /\ Sends
    /\ ctx' = [ctx EXCEPT ![Context] = [err |-> TRUE, auth |-> @.auth]]
    /\ reply' = Null
    /\ stack' = Append(stack, "Connect")
    /\ UNCHANGED <<Context, ret, replies, sentinel, nextCtx, abandoned, calls,
                   deletes>>

(* redisCommand loses the connection or times out: no reply, err is set.   *)
CommandLost ==
    /\ AtCommand /\ ret
    /\ Fault
    /\ Sends
    /\ ctx' = [ctx EXCEPT ![Context] = [err |-> TRUE, auth |-> @.auth]]
    /\ reply' = Null
    /\ Return
    /\ UNCHANGED <<Context, ret, replies, sentinel, nextCtx, abandoned, calls,
                   deletes>>

(* redisCommand returns a reply: the server grants or refuses "auth", and  *)
(* answers evalsha with a string or, always when not authenticated, with   *)
(* an error.                                                               *)
CommandReply ==
    /\ AtCommand /\ ret
    /\ Sends
    /\ IF Caller = "Authenticate"
        THEN \/ /\ ctx' = [ctx EXCEPT ![Context] = [err |-> @.err, auth |-> TRUE]]
                /\ reply' = "STATUS"
                /\ UNCHANGED faults
             \/ UNCHANGED ctx /\ reply' = "ERROR" /\ Fault
        ELSE /\ UNCHANGED ctx
             /\ \/ ctx[Context].auth /\ reply' = "STRING" /\ UNCHANGED faults
                \/ ~ctx[Context].auth /\ reply' = "ERROR" /\ UNCHANGED faults
                \/ ctx[Context].auth /\ reply' = "ERROR" /\ Fault
    /\ replies' = replies + 1
    /\ Return
    /\ UNCHANGED <<Context, ret, sentinel, nextCtx, abandoned, calls, deletes>>

(* The end of FraudANI: freeReplyObject.                                   *)
FraudANIDone ==
    /\ stack = <<"FraudANI">>
    /\ replies' = IF reply = Null THEN replies ELSE replies - 1
    /\ reply' = Null
    /\ stack' = <<>>
    /\ UNCHANGED <<Context, ctx, ret, sentinel, nextCtx, abandoned, sent, faults,
                   calls, deletes>>

(* ~CRedis does not free Context; another object takes its place.          *)
Delete ==
    /\ stack = <<>>
    /\ deletes < MaxDeletes
    /\ deletes' = deletes + 1
    /\ abandoned' = abandoned \cup ({Context} \ {Null})
    /\ Context' = Null
    /\ UNCHANGED <<ctx, stack, ret, reply, replies, sentinel, nextCtx, sent,
                   faults, calls>>

Next ==
    \/ FraudANI \/ ConnectOpen \/ ConnectAnew
    \/ SentinelFails \/ SentinelRefuses \/ SentinelAnswers \/ NoMaster
    \/ DialFails \/ Dial \/ Authenticate \/ Connected
    \/ CommandUnconnected \/ CommandLost \/ CommandReply \/ FraudANIDone
    \/ Delete

Spec == Init /\ [][Next]_vars

-----------------------------------------------------------------------------
Frames == {"FraudANI", "Command", "Connect", "Sentinel", "Dial", "Connected",
           "Authenticate"}
Numbers == 1..(nextCtx - 1)

(* The variables have their types, and a call of Command is always made    *)
(* by FraudANI or Authenticate.                                            *)
TypeOK ==
    /\ {ret} \subseteq BOOLEAN
    /\ reply \in {Null, "STATUS", "STRING", "ERROR"}
    /\ {replies, faults, calls, deletes, sent} \subseteq Nat
    /\ nextCtx \in Nat \ {0} /\ sentinel \in 1..(NSentinels + 1)
    /\ DOMAIN ctx \subseteq Numbers /\ abandoned \subseteq Numbers
    /\ \A c \in DOMAIN ctx : ctx[c] \in [err : BOOLEAN, auth : BOOLEAN]
    /\ stack \in Seq(Frames)
    /\ \A i \in DOMAIN stack : stack[i] = "Command" =>
        i > 1 /\ stack[i - 1] \in {"FraudANI", "Authenticate"}

(* Context never points to a context that was freed, however deep Connect  *)
(* is inside itself: the inner Connect may free the context the outer one  *)
(* has just made, and the outer one only looks at this->Context again.     *)
ContextOpen == Context # Null => Context \in DOMAIN ctx

(* So Command sends on an open context without error only; and, as long as *)
(* nothing has failed, evalsha on an authenticated one only.  (A refused   *)
(* password stops nothing: Authenticate returns true all the same.)        *)
SendsOnHealthy ==
    /\ ContextOpen
    /\ stack # <<>> /\ Top = "Command" /\ ret =>
        /\ Healthy(Context)
        /\ Caller = "FraudANI" /\ faults = 0 => ctx[Context].auth

(* A context is freed or is Context, but for two leaks: the contexts of    *)
(* sentinels that refused and of objects that were deleted.                *)
LeaksKnown == DOMAIN ctx = abandoned \cup ({Context} \ {Null})

(* Every reply is freed once: the only one alive is the one the caller of  *)
(* Command is about to free.                                               *)
RepliesFreed == replies = IF reply = Null THEN 0 ELSE 1

(* Nothing is lost through the recursion but the known leaks: contexts and *)
(* replies are freed where their last user leaves them.                    *)
Reclaimed == TypeOK /\ LeaksKnown /\ RepliesFreed

(* A call of FraudANI runs its script at most once: nothing is sent twice, *)
(* although Connect runs Command for "auth" in the middle of Command.      *)
SentOnce == sent <= 1
=============================================================================
