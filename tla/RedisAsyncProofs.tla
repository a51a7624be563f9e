-------------------------- MODULE RedisAsyncProofs --------------------------
(***************************************************************************)
(* Proofs about RedisAsync, for any channels, patterns and hash function,  *)
(* any size of the tables and any number of commands and messages.         *)
(*                                                                         *)
(* The loop waits for whatever the context waits for, and a context ends   *)
(* once, with nothing left and with the status that is true.  Both rest on *)
(* where the one thread is (IInv): an event handler is left to the loop    *)
(* only after it has armed what it consumed, and the way to the end of the *)
(* context is never left.                                                  *)
(*                                                                         *)
(* Every callback is called with what is its own, and the dictionaries     *)
(* hold the subscriptions.  Both rest on the story of every command        *)
(* (SInv): commands and replies keep their order on the wire, so that the  *)
(* number of the first reply to come tells which callbacks still wait.     *)
(***************************************************************************)
EXTENDS RedisAsync, SequenceTheorems, FiniteSetTheorems, TLAPS

-----------------------------------------------------------------------------
(* The inductive invariant.                                                *)

Ending == {"free", "iterate"}

(* On the way to the end of the context, from which nobody returns to the  *)
(* loop.                                                                   *)
Leaving == pc \in Ending \cup {"disconnect", "freed", "aborted"} \/ (pc = "callback" /\ after \in Ending)

(* __redisAsyncFree is running.                                            *)
Freeing == pc \in Ending \cup {"freed"} \/ (pc = "callback" /\ after \in Ending)

(* It has gone through the lists of callbacks.                             *)
ListsDone == pc \in {"iterate", "freed"} \/ (pc = "callback" /\ after = "iterate")

Outgoing == [kind : Kinds, key : Keys \cup {NoCommand}, n : Nat]

IsContext(c) ==
    c = [flags |-> c.flags, err |-> c.err, replies |-> c.replies, invalid |-> c.invalid,
         channels |-> c.channels, patterns |-> c.patterns, onConnect |-> c.onConnect,
         onDisconnect |-> c.onDisconnect, obuf |-> c.obuf, reader |-> c.reader,
         part |-> c.part, cb |-> c.cb]

IsAdapter(e) ==
    /\ e = [reading |-> e.reading, writing |-> e.writing, armed |-> e.armed]
    /\ e.reading \in BOOLEAN /\ e.writing \in BOOLEAN
    /\ e.writing <=> "write" \in e.armed
    /\ "read" \in e.armed => e.reading

Types ==
    /\ IsContext(ac)
    /\ ac.obuf \in Seq(Outgoing) /\ issued \in Seq([kind : Kinds, key : Keys \cup {NoCommand}])
    /\ IsAdapter(reg)

Places ==
    /\ pc = "callback" => after \in Ending \cup {"process"}
    /\ pc = "onconnect" => after = "write" \/ (after = "disconnect" /\ ac.err # "none")

(* The adapter's flag says what the loop waits for, except that a read     *)
(* event was consumed between its delivery and the end of the read.        *)
Armed == reg.reading => "read" \in reg.armed \/ pc = "read" \/ Leaving

(* Output waits for the write event; a connected context reads from the    *)
(* end of its first write on.                                              *)
Waiting ==
    /\ ac.obuf # <<>> /\ pc # "freed" => reg.writing
    /\ /\ pc \in {"idle", "process", "read"} \/ (pc = "callback" /\ after = "process")
       /\ ac.err = "none" /\ "CONNECTED" \in ac.flags
       => reg.reading

(* Who asked for the end: the application or an error.                     *)
Asked ==
    /\ "FREEING" \in ac.flags => user
    /\ "DISCONNECTING" \in ac.flags => user \/ ac.err # "none"
    /\ pc = "disconnect" => ac.err # "none" \/ "DISCONNECTING" \in ac.flags
    /\ Freeing => "FREEING" \in ac.flags \/ "DISCONNECTING" \in ac.flags

Ended ==
    /\ ListsDone => ac.replies = <<>> /\ ac.invalid = <<>>
    /\ pc # "freed" => told = <<>>
    /\ told # <<>> => \/ told = <<"OK">> /\ user
                      \/ told = <<"ERR">> /\ ac.err # "none"

Rest == Places /\ Armed /\ Waiting /\ Asked /\ Ended

IInv == Types /\ Rest
-----------------------------------------------------------------------------
(* The adapter.                                                            *)

LEMMA AddRead ==
    ASSUME NEW e, IsAdapter(e)
    PROVE  /\ IsAdapter(redisAeAddRead(e))
           /\ redisAeAddRead(e).reading /\ redisAeAddRead(e).writing = e.writing
           /\ ~e.reading \/ "read" \in e.armed => "read" \in redisAeAddRead(e).armed
  BY DEF IsAdapter, redisAeAddRead

LEMMA ForceAddRead ==
    ASSUME NEW e, IsAdapter(e)
    PROVE  /\ IsAdapter(redisAeForceAddRead(e))
           /\ redisAeForceAddRead(e).reading /\ redisAeForceAddRead(e).writing = e.writing
           /\ "read" \in redisAeForceAddRead(e).armed
<1>0. PICK x : x = redisAeForceAddRead(e)
    BY Zenon
<1>1. x = [reading |-> x.reading, writing |-> x.writing, armed |-> x.armed]
    BY <1>0 DEF IsAdapter, redisAeForceAddRead
<1>2. x.armed = e.armed \cup {"read"} /\ x.reading /\ x.reading = TRUE /\ x.writing = e.writing
  <2>1. x.armed = e.armed \cup {"read"}
    BY <1>0 DEF IsAdapter, redisAeForceAddRead
  <2>2. x.reading = TRUE
    BY <1>0 DEF IsAdapter, redisAeForceAddRead
  <2>3. x.writing = e.writing
    BY <1>0 DEF IsAdapter, redisAeForceAddRead
  <2>4. QED
    BY <2>1, <2>2, <2>3
<1>3. e.writing \in BOOLEAN /\ (e.writing <=> "write" \in e.armed)
    BY DEF IsAdapter
<1>4. IsAdapter(x)
    BY <1>1, <1>2, <1>3 DEF IsAdapter
<1>5. QED
    BY <1>0, <1>2, <1>4

LEMMA AddWrite ==
    ASSUME NEW e, IsAdapter(e)
    PROVE  /\ IsAdapter(redisAeAddWrite(e))
           /\ redisAeAddWrite(e).writing /\ redisAeAddWrite(e).reading = e.reading
           /\ "read" \in redisAeAddWrite(e).armed <=> "read" \in e.armed
  BY DEF IsAdapter, redisAeAddWrite

LEMMA DelWrite ==
    ASSUME NEW e, IsAdapter(e)
    PROVE  /\ IsAdapter(redisAeDelWrite(e))
           /\ redisAeDelWrite(e).reading = e.reading
           /\ "read" \in redisAeDelWrite(e).armed <=> "read" \in e.armed
  BY DEF IsAdapter, redisAeDelWrite

LEMMA Cleanup ==
    ASSUME NEW e, IsAdapter(e)
    PROVE  IsAdapter(redisAeCleanup(e))
<1>1. IsAdapter(redisAeDelRead(e))
    BY DEF IsAdapter, redisAeDelRead
<1>2. QED
    BY <1>1, DelWrite DEF redisAeCleanup

-----------------------------------------------------------------------------
(* What the invariant knows of a context, and what leaves it alone.        *)

Kept == {"CONNECTED", "FREEING", "DISCONNECTING"}

SameFlags(c, d) == \A f \in Kept : f \in c.flags <=> f \in d.flags

(* d is c after a callback was found, run or recorded.                     *)
Like(c, d) == IsContext(d) /\ SameFlags(c, d) /\ d.err = c.err /\ d.obuf = c.obuf

LEMMA LikeChain ==
    ASSUME NEW b, NEW c, NEW d, Like(b, c), Like(c, d)
    PROVE  Like(b, d)
  BY DEF Like, SameFlags

LEMMA RunCallback ==
    ASSUME NEW c, NEW n, NEW reply, NEW next, IsContext(c),
           redisRunCallback(c, n, reply, next)
    PROVE  /\ Like(c, ac') /\ ac'.replies = c.replies /\ ac'.invalid = c.invalid
           /\ \/ pc' = next /\ after' = after
              \/ pc' = "callback" /\ after' = next
<1>1. CASE n = 0
    BY <1>1 DEF redisRunCallback, Like, SameFlags
<1>2. CASE n # 0
  <2>1. ac' = [c EXCEPT !.flags = @ \cup {"IN_CALLBACK"}] /\ pc' = "callback" /\ after' = next
    BY <1>2 DEF redisRunCallback
  <2>2. IsContext(ac') /\ ac'.err = c.err /\ ac'.obuf = c.obuf /\ ac'.replies = c.replies
        /\ ac'.invalid = c.invalid /\ ac'.flags = c.flags \cup {"IN_CALLBACK"}
    BY <2>1 DEF IsContext
  <2>3. QED
    BY <2>1, <2>2 DEF Like, SameFlags, Kept
<1>3. QED
    BY <1>1, <1>2

LEMMA RegisteredLike ==
    ASSUME NEW kind \in Kinds, NEW key, NEW n, IsContext(ac)
    PROVE  Like(ac, Registered(kind, key, n))
<1>1. Dictionary(key) \in {"patterns", "channels"}
    BY DEF Dictionary
<1>2. CASE kind = "subscribe"
  <2> DEFINE c == [ac EXCEPT !.flags = @ \cup {"SUBSCRIBED"},
                             ![Dictionary(key)] = dictReplace(@, key, n)]
  <2>1. Registered(kind, key, n) = c
    BY <1>2 DEF Registered
  <2> HIDE DEF c
  <2>2. IsContext(c) /\ c.err = ac.err /\ c.obuf = ac.obuf
        /\ c.flags = ac.flags \cup {"SUBSCRIBED"}
    <3>1. CASE Dictionary(key) = "patterns"
      <4>1. c = [ac EXCEPT !.flags = @ \cup {"SUBSCRIBED"}, !.patterns = dictReplace(@, key, n)]
        BY <3>1, Zenon DEF c
      <4>2. QED
        BY <4>1 DEF IsContext
    <3>2. CASE Dictionary(key) = "channels"
      <4>1. c = [ac EXCEPT !.flags = @ \cup {"SUBSCRIBED"}, !.channels = dictReplace(@, key, n)]
        BY <3>2, Zenon DEF c
      <4>2. QED
        BY <4>1 DEF IsContext
    <3>3. QED
        BY <1>1, <3>1, <3>2
  <2>3. QED
    BY <2>1, <2>2 DEF Like, SameFlags, Kept
<1>3. CASE kind = "unsubscribe"
    BY <1>3 DEF Registered, Like, SameFlags
<1>4. CASE kind = "monitor"
  <2>1. Registered(kind, key, n) =
          [ac EXCEPT !.flags = @ \cup {"MONITORING"}, !.replies = Append(@, n)]
    BY <1>4 DEF Registered
  <2>2. QED
    BY <2>1 DEF IsContext, Like, SameFlags, Kept
<1>5. CASE kind \notin {"subscribe", "unsubscribe", "monitor"}
  <2>1. \/ Registered(kind, key, n) = [ac EXCEPT !.invalid = Append(@, n)]
        \/ Registered(kind, key, n) = [ac EXCEPT !.replies = Append(@, n)]
    BY <1>5 DEF Registered
  <2>2. QED
    BY <2>1 DEF IsContext, Like, SameFlags, Kept
<1>6. QED
    BY <1>2, <1>3, <1>4, <1>5

LEMMA SubscribeLike ==
    ASSUME NEW c, NEW r, IsContext(c)
    PROVE  Like(c, SubscribeCallback(c, r))
<1>1. Dictionary(r.key) \in {"patterns", "channels"}
    BY DEF Dictionary
<1>2. CASE r.type = "ARRAY"
  <2> DEFINE found == dictFind(c[Dictionary(r.key)], r.key)
             gone == r.what = "unsubscribe" /\ found # {}
             d == [c EXCEPT !.cb = IF found = {} THEN @ ELSE (CHOOSE e \in found : TRUE).val,
                            ![Dictionary(r.key)] = IF gone THEN dictDelete(@, r.key) ELSE @,
                            !.flags = IF gone /\ r.count = 0 THEN @ \ {"SUBSCRIBED"} ELSE @]
  <2>1. SubscribeCallback(c, r) = d
    BY <1>2 DEF SubscribeCallback
  <2> HIDE DEF found, gone, d
  <2>2. /\ IsContext(d) /\ d.err = c.err /\ d.obuf = c.obuf
        /\ d.flags \in {c.flags, c.flags \ {"SUBSCRIBED"}}
    <3>1. CASE Dictionary(r.key) = "patterns"
      <4>1. d = [c EXCEPT !.cb = IF found = {} THEN @ ELSE (CHOOSE e \in found : TRUE).val,
                          !.patterns = IF gone THEN dictDelete(@, r.key) ELSE @,
                          !.flags = IF gone /\ r.count = 0 THEN @ \ {"SUBSCRIBED"} ELSE @]
        BY <3>1, Zenon DEF d
      <4>2. QED
        BY <4>1 DEF IsContext
    <3>2. CASE Dictionary(r.key) = "channels"
      <4>1. d = [c EXCEPT !.cb = IF found = {} THEN @ ELSE (CHOOSE e \in found : TRUE).val,
                          !.channels = IF gone THEN dictDelete(@, r.key) ELSE @,
                          !.flags = IF gone /\ r.count = 0 THEN @ \ {"SUBSCRIBED"} ELSE @]
        BY <3>2, Zenon DEF d
      <4>2. QED
        BY <4>1 DEF IsContext
    <3>3. QED
        BY <1>1, <3>1, <3>2
  <2>3. QED
    BY <2>1, <2>2 DEF Like, SameFlags, Kept
<1>3. CASE r.type # "ARRAY"
  <2>1. \/ SubscribeCallback(c, r) = c
        \/ SubscribeCallback(c, r) = [c EXCEPT !.cb = Head(c.invalid), !.invalid = Tail(@)]
    BY <1>3 DEF SubscribeCallback
  <2>2. QED
    BY <2>1 DEF IsContext, Like, SameFlags
<1>4. QED
    BY <1>2, <1>3

-----------------------------------------------------------------------------
(* The steps of the application, the callbacks and the end of a context.   *)

(* A step that changes nothing the invariant is about.                     *)
LEMMA Elsewhere ==
    ASSUME IInv, UNCHANGED <<ac, pc, after, reg, user, told, issued>>
    PROVE  IInv'
<1>1. Types'
    BY DEF IInv, Types
<1>2. Rest'
    BY DEF IInv, Rest, Places, Armed, Waiting, Asked, Ended, Ending, Leaving,
       Freeing, ListsDone
<1>3. QED
    BY <1>1, <1>2 DEF IInv

LEMMA redisAsyncConnectKeeps == ASSUME IInv, redisAsyncConnect PROVE IInv'
<1>0. Types /\ Rest
    BY DEF IInv
<1>1. IsContext(ac') /\ ac'.flags = {} /\ ac'.obuf = <<>>
  <2>1. ac' = Created \/ ac' = [Created EXCEPT !.err = "IO"]
    BY DEF redisAsyncConnect
  <2>2. CASE ac' = Created
    BY <2>2 DEF Created, IsContext
  <2>3. CASE ac' = [Created EXCEPT !.err = "IO"]
    BY <2>3 DEF Created, IsContext
  <2>4. QED
    BY <2>1, <2>2, <2>3
<1>2. pc = "none" /\ pc' = "idle" /\ UNCHANGED <<after, reg, user, told, issued>>
    BY DEF redisAsyncConnect, ghosts
<1>3. Types'
    BY <1>0, <1>1, <1>2 DEF Types, Like
<1>4. Rest'
    BY <1>0, <1>1, <1>2 DEF Rest, Places, Armed, Waiting, Asked, Ended, Ending, Leaving,
       Freeing, ListsDone,
       Like, SameFlags, Kept
<1>5. QED
    BY <1>3, <1>4 DEF IInv

LEMMA redisAsyncSetConnectCallbackKeeps == ASSUME IInv, redisAsyncSetConnectCallback PROVE IInv'
<1>0. Types /\ Rest
    BY DEF IInv
<1>1. Like(ac, ac') /\ ac'.replies = ac.replies /\ ac'.invalid = ac.invalid
    BY <1>0 DEF redisAsyncSetConnectCallback, Types, IsContext, Like, SameFlags
<1>2. pc = "idle" /\ UNCHANGED <<pc, after, user, told, issued>>
    BY DEF redisAsyncSetConnectCallback, Starting, ghosts
<1>3. /\ IsAdapter(reg') /\ reg'.writing /\ reg'.reading = reg.reading
      /\ "read" \in reg'.armed <=> "read" \in reg.armed
    BY <1>0, AddWrite DEF redisAsyncSetConnectCallback, Types
<1>4. Types'
    BY <1>0, <1>1, <1>2, <1>3 DEF Types, Like
<1>5. Rest'
    BY <1>0, <1>1, <1>2, <1>3 DEF Rest, Places, Armed, Waiting, Asked, Ended, Ending, Leaving,
       Freeing, ListsDone,
       Like, SameFlags, Kept
<1>6. QED
    BY <1>4, <1>5 DEF IInv

LEMMA redisAsyncSetDisconnectCallbackKeeps == ASSUME IInv, redisAsyncSetDisconnectCallback PROVE IInv'
<1>0. Types /\ Rest
    BY DEF IInv
<1>1. Like(ac, ac') /\ ac'.replies = ac.replies /\ ac'.invalid = ac.invalid
    BY <1>0 DEF redisAsyncSetDisconnectCallback, Types, IsContext, Like, SameFlags
<1>2. pc = "idle" /\ UNCHANGED <<pc, after, reg, user, told, issued>>
    BY DEF redisAsyncSetDisconnectCallback, Starting, ghosts
<1>3. Types'
    BY <1>0, <1>1, <1>2 DEF Types, Like
<1>4. Rest'
    BY <1>0, <1>1, <1>2 DEF Rest, Places, Armed, Waiting, Asked, Ended, Ending, Leaving,
       Freeing, ListsDone,
       Like, SameFlags, Kept
<1>5. QED
    BY <1>3, <1>4 DEF IInv

LEMMA redisAsyncCommandKeeps == ASSUME IInv, redisAsyncCommand PROVE IInv'
<1>0. Types /\ Rest
    BY DEF IInv
<1>01. PICK n : n = Len(issued) + 1
    BY Zenon
<1>1. PICK kind \in Kinds, key \in Keys \cup {NoCommand} :
        /\ issued' = Append(issued, [kind |-> kind, key |-> key])
        /\ ac' = [Registered(kind, key, n)
                    EXCEPT !.obuf = Append(@, [kind |-> kind, key |-> key, n |-> n])]
    BY <1>01 DEF redisAsyncCommand
<1>2. PICK c : c = Registered(kind, key, n)
    BY Zenon
<1>3. Like(ac, c)
    BY <1>0, <1>2, RegisteredLike DEF Types
<1>4. n \in Nat
    BY <1>0, <1>01 DEF Types
<1>5. PICK m : m = [kind |-> kind, key |-> key, n |-> n]
    BY Zenon
<1>6. m \in Outgoing
    BY <1>4, <1>5 DEF Outgoing
<1>7. ac' = [c EXCEPT !.obuf = Append(@, m)]
    BY <1>1, <1>2, <1>5, Zenon
<1>8. /\ IsContext(ac') /\ SameFlags(ac, ac') /\ ac'.err = ac.err
      /\ ac'.obuf = Append(ac.obuf, m)
    BY <1>3, <1>7 DEF Like, IsContext, SameFlags
<1>9. ac'.obuf \in Seq(Outgoing)
    BY <1>0, <1>6, <1>8 DEF Types
<1>10. issued' \in Seq([kind : Kinds, key : Keys \cup {NoCommand}])
  <2>1. [kind |-> kind, key |-> key] \in [kind : Kinds, key : Keys \cup {NoCommand}]
    OBVIOUS
  <2>2. QED
    BY <1>0, <1>1, <2>1 DEF Types
<1>11. /\ IsAdapter(reg') /\ reg'.writing /\ reg'.reading = reg.reading
       /\ "read" \in reg'.armed <=> "read" \in reg.armed
    BY <1>0, AddWrite DEF redisAsyncCommand, Types
<1>12. /\ pc \in {"idle", "callback", "onconnect"} /\ UNCHANGED <<pc, after, user, told>>
       /\ "FREEING" \notin ac.flags /\ "DISCONNECTING" \notin ac.flags
    BY DEF redisAsyncCommand, InApp, Accepts
<1>13. Types'
    BY <1>8, <1>9, <1>10, <1>11 DEF Types
<1>14. Rest'
    BY <1>0, <1>8, <1>11, <1>12 DEF Rest, Places, Armed, Waiting, Asked, Ended, Ending, Leaving,
       Freeing, ListsDone,
       SameFlags, Kept
<1>15. QED
    BY <1>13, <1>14 DEF IInv

LEMMA redisAsyncFreeKeeps == ASSUME IInv, redisAsyncFree PROVE IInv'
<1>0. Types /\ Rest
    BY DEF IInv
<1>1. /\ IsContext(ac') /\ ac'.flags = ac.flags \cup {"FREEING"} /\ ac'.err = ac.err
      /\ ac'.obuf = ac.obuf /\ ac'.replies = ac.replies /\ ac'.invalid = ac.invalid
    BY <1>0 DEF redisAsyncFree, Types, IsContext
<1>2. /\ user' = TRUE /\ UNCHANGED <<after, reg, told, issued>>
      /\ \/ pc = "idle" /\ pc' = "free"
         \/ pc = "onconnect" /\ pc' = "aborted"
         \/ pc = "callback" /\ pc' = "callback"
    BY DEF redisAsyncFree, InApp, ghosts
<1>3. Types'
    BY <1>0, <1>1, <1>2 DEF Types, Like
<1>4. Rest'
    BY <1>0, <1>1, <1>2 DEF Rest, Places, Armed, Waiting, Asked, Ended, Ending, Leaving,
       Freeing, ListsDone,
       Like, SameFlags, Kept
<1>5. QED
    BY <1>3, <1>4 DEF IInv

LEMMA redisAsyncDisconnectKeeps == ASSUME IInv, redisAsyncDisconnect PROVE IInv'
<1>0. Types /\ Rest
    BY DEF IInv
<1>1. /\ IsContext(ac') /\ ac'.flags = ac.flags \cup {"DISCONNECTING"} /\ ac'.err = ac.err
      /\ ac'.obuf = ac.obuf /\ ac'.replies = ac.replies /\ ac'.invalid = ac.invalid
    BY <1>0 DEF redisAsyncDisconnect, Types, IsContext
<1>2. /\ user' = TRUE /\ UNCHANGED <<after, reg, told, issued>>
      /\ pc \in {"idle", "callback", "onconnect"}
      /\ \/ pc' = pc
         \/ pc = "onconnect" /\ pc' = "aborted"
         \/ pc = "idle" /\ pc' = "disconnect"
    BY DEF redisAsyncDisconnect, InApp, ghosts
<1>3. Types'
    BY <1>0, <1>1, <1>2 DEF Types, Like
<1>4. Rest'
    BY <1>0, <1>1, <1>2 DEF Rest, Places, Armed, Waiting, Asked, Ended, Ending, Leaving,
       Freeing, ListsDone,
       Like, SameFlags, Kept
<1>5. QED
    BY <1>3, <1>4 DEF IInv

LEMMA CallbackReturnsKeeps == ASSUME IInv, CallbackReturns PROVE IInv'
<1>0. Types /\ Rest
    BY DEF IInv
<1>1. /\ IsContext(ac') /\ ac'.flags = ac.flags \ {"IN_CALLBACK"} /\ ac'.err = ac.err
      /\ ac'.obuf = ac.obuf /\ ac'.replies = ac.replies /\ ac'.invalid = ac.invalid
    BY <1>0 DEF CallbackReturns, Types, IsContext
<1>2. /\ pc = "callback" /\ UNCHANGED <<reg, user, told, issued>>
      /\ \/ after = "process" /\ pc' = "free" /\ "FREEING" \in ac.flags
         \/ pc' = after
    BY DEF CallbackReturns, Flag, ghosts
<1>3. Types'
    BY <1>0, <1>1, <1>2 DEF Types, Like
<1>4. Rest'
    BY <1>0, <1>1, <1>2 DEF Rest, Places, Armed, Waiting, Asked, Ended, Ending, Leaving,
       Freeing, ListsDone,
       Like, SameFlags, Kept
<1>5. QED
    BY <1>3, <1>4 DEF IInv

LEMMA redisAsyncDisconnectNowKeeps == ASSUME IInv, redisAsyncDisconnectNow PROVE IInv'
<1>0. Types /\ Rest
    BY DEF IInv
<1>1. /\ IsContext(ac') /\ ac'.err = ac.err
      /\ ac'.obuf = ac.obuf /\ ac'.replies = ac.replies /\ ac'.invalid = ac.invalid
    BY <1>0 DEF redisAsyncDisconnectNow, Types, IsContext
<1>2. \/ ac.err # "none" /\ ac'.flags = ac.flags \cup {"DISCONNECTING"} /\ pc' = "free"
      \/ ac.err = "none" /\ ac'.flags = ac.flags /\ pc' \in {"free", "aborted"}
    BY <1>0 DEF redisAsyncDisconnectNow, Types, IsContext
<1>3. pc = "disconnect" /\ UNCHANGED <<after, reg, user, told, issued>>
    BY DEF redisAsyncDisconnectNow, ghosts
<1>4. Types'
    BY <1>0, <1>1, <1>2, <1>3 DEF Types, Like
<1>5. Rest'
    BY <1>0, <1>1, <1>2, <1>3 DEF Rest, Places, Armed, Waiting, Asked, Ended, Ending, Leaving,
       Freeing, ListsDone,
       Like, SameFlags, Kept
<1>6. QED
    BY <1>4, <1>5 DEF IInv

LEMMA FreeRepliesKeeps == ASSUME IInv, FreeReplies PROVE IInv'
<1>0. Types /\ Rest
    BY DEF IInv
<1>1. PICK c : c = [ac EXCEPT !.replies = Tail(@)]
    BY Zenon
<1>2. Like(ac, c)
    BY <1>0, <1>1 DEF Types, IsContext, Like, SameFlags
<1>3. redisRunCallback(c, Head(ac.replies), NullReply, "free")
    BY <1>1, Zenon DEF FreeReplies
<1>4. Like(c, ac') /\ (pc' = "free" \/ (pc' = "callback" /\ after' = "free"))
    BY <1>2, <1>3, RunCallback DEF Like
<1>5. Like(ac, ac')
    BY <1>2, <1>4, LikeChain
<1>6. pc = "free" /\ UNCHANGED <<reg, user, told, issued>>
    BY DEF FreeReplies, ghosts
<1>7. Types'
    BY <1>0, <1>5, <1>6 DEF Types, Like
<1>8. Rest'
    BY <1>0, <1>4, <1>5, <1>6 DEF Rest, Places, Armed, Waiting, Asked, Ended, Ending, Leaving,
       Freeing, ListsDone,
       Like, SameFlags, Kept
<1>9. QED
    BY <1>7, <1>8 DEF IInv

LEMMA FreeInvalidKeeps == ASSUME IInv, FreeInvalid PROVE IInv'
<1>0. Types /\ Rest
    BY DEF IInv
<1>1. PICK c : c = [ac EXCEPT !.invalid = Tail(@)]
    BY Zenon
<1>2. Like(ac, c)
    BY <1>0, <1>1 DEF Types, IsContext, Like, SameFlags
<1>3. redisRunCallback(c, Head(ac.invalid), NullReply, "free")
    BY <1>1, Zenon DEF FreeInvalid
<1>4. Like(c, ac') /\ (pc' = "free" \/ (pc' = "callback" /\ after' = "free"))
    BY <1>2, <1>3, RunCallback DEF Like
<1>5. Like(ac, ac')
    BY <1>2, <1>4, LikeChain
<1>6. pc = "free" /\ UNCHANGED <<reg, user, told, issued>>
    BY DEF FreeInvalid, ghosts
<1>7. Types'
    BY <1>0, <1>5, <1>6 DEF Types, Like
<1>8. Rest'
    BY <1>0, <1>4, <1>5, <1>6 DEF Rest, Places, Armed, Waiting, Asked, Ended, Ending, Leaving,
       Freeing, ListsDone,
       Like, SameFlags, Kept
<1>9. QED
    BY <1>7, <1>8 DEF IInv

LEMMA FreeIterateKeeps == ASSUME IInv, FreeIterate PROVE IInv'
<1>0. Types /\ Rest
    BY DEF IInv
<1>1. /\ pc = "free" /\ pc' = "iterate" /\ ac.replies = <<>> /\ ac.invalid = <<>>
      /\ UNCHANGED <<ac, after, reg, user, told, issued>>
    BY DEF FreeIterate, ghosts
<1>2. Types'
    BY <1>0, <1>1 DEF Types, Like
<1>3. Rest'
    BY <1>0, <1>1 DEF Rest, Places, Armed, Waiting, Asked, Ended, Ending, Leaving,
       Freeing, ListsDone,
       Like, SameFlags, Kept
<1>4. QED
    BY <1>2, <1>3 DEF IInv

LEMMA FreeSubscriptionKeeps == ASSUME IInv, FreeSubscription PROVE IInv'
<1>0. Types /\ Rest
    BY DEF IInv
<1>1. PICK e \in iter : redisRunCallback(ac, e.val, NullReply, "iterate")
    BY DEF FreeSubscription
<1>2. /\ Like(ac, ac') /\ ac'.replies = ac.replies /\ ac'.invalid = ac.invalid
      /\ pc' = "iterate" \/ (pc' = "callback" /\ after' = "iterate")
    BY <1>0, <1>1, RunCallback DEF Types
<1>3. pc = "iterate" /\ UNCHANGED <<reg, user, told, issued>>
    BY DEF FreeSubscription, ghosts
<1>4. Types'
    BY <1>0, <1>1, <1>2, <1>3 DEF Types, Like
<1>5. Rest'
    BY <1>0, <1>1, <1>2, <1>3 DEF Rest, Places, Armed, Waiting, Asked, Ended, Ending, Leaving,
       Freeing, ListsDone,
       Like, SameFlags, Kept
<1>6. QED
    BY <1>4, <1>5 DEF IInv

LEMMA FreeContextKeeps == ASSUME IInv, FreeContext PROVE IInv'
<1>0. Types /\ Rest
    BY DEF IInv
<1>1. Like(ac, ac') /\ ac'.replies = ac.replies /\ ac'.invalid = ac.invalid
    BY <1>0 DEF FreeContext, Types, IsContext, Like, SameFlags
<1>2. pc = "iterate" /\ pc' = "freed" /\ UNCHANGED <<after, user, issued>>
    BY DEF FreeContext, ghosts
<1>3. IsAdapter(reg')
    BY <1>0, Cleanup DEF FreeContext, Types
<1>4. \/ told' = told
      \/ told' = <<"OK">> /\ ("FREEING" \in ac.flags \/ ac.err = "none")
      \/ told' = <<"ERR">> /\ ac.err # "none"
  <2>1. told = <<>>
    BY <1>0, <1>2 DEF Rest, Ended
  <2>2. told' = told \/ told' = Append(<<>>, Status)
    BY <2>1 DEF FreeContext
  <2>3. \/ Status = "OK" /\ ("FREEING" \in ac.flags \/ ac.err = "none")
        \/ Status = "ERR" /\ ac.err # "none"
    BY DEF Status, Flag
  <2>4. Append(<<>>, Status) = <<Status>>
    OBVIOUS
  <2>5. QED
    BY <2>2, <2>3, <2>4, Zenon
<1>5. Types'
    BY <1>0, <1>1, <1>2, <1>3, <1>4 DEF Types, Like
<1>6. Rest'
    BY <1>0, <1>1, <1>2, <1>3, <1>4 DEF Rest, Places, Armed, Waiting, Asked, Ended, Ending, Leaving,
       Freeing, ListsDone,
       Like, SameFlags, Kept
<1>7. QED
    BY <1>5, <1>6 DEF IInv

-----------------------------------------------------------------------------
(* The steps of the handlers, the server and the network.                  *)

LEMMA NoReplyKeeps == ASSUME IInv, NoReply PROVE IInv'
<1>0. Types /\ Rest
    BY DEF IInv
<1>1. Like(ac, ac')
    BY <1>0 DEF NoReply, Types, IsContext, Like, SameFlags
<1>2. /\ pc = "process" /\ UNCHANGED <<after, reg, user, told, issued>>
      /\ \/ pc' = "idle"
         \/ pc' = "disconnect" /\ "DISCONNECTING" \in ac.flags
    BY DEF NoReply, Flag, ghosts
<1>3. Types'
    BY <1>0, <1>1, <1>2 DEF Types, Like
<1>4. Rest'
    BY <1>0, <1>1, <1>2 DEF Rest, Places, Armed, Waiting, Asked, Ended, Ending, Leaving,
       Freeing, ListsDone,
       Like, SameFlags, Kept
<1>5. QED
    BY <1>3, <1>4 DEF IInv

LEMMA GetReplyFailsKeeps == ASSUME IInv, GetReplyFails PROVE IInv'
<1>0. Types /\ Rest
    BY DEF IInv
<1>1. ac' = [ac EXCEPT !.err = "PROTOCOL"] /\ pc = "process" /\ pc' = "disconnect" /\ UNCHANGED <<after, reg, user, told, issued>>
    BY DEF GetReplyFails, ghosts
<1>2. /\ IsContext(ac') /\ SameFlags(ac, ac') /\ ac'.obuf = ac.obuf /\ ac'.err # "none"
      /\ ac'.replies = ac.replies /\ ac'.invalid = ac.invalid
    BY <1>0, <1>1 DEF Types, IsContext, SameFlags
<1>3. Types'
    BY <1>0, <1>1, <1>2 DEF Types
<1>4. Rest'
    BY <1>0, <1>1, <1>2 DEF Rest, Places, Armed, Waiting, Asked, Ended, Ending, Leaving,
       Freeing, ListsDone,
       SameFlags, Kept
<1>5. QED
    BY <1>3, <1>4 DEF IInv

(* A callback that was found runs and returns to redisProcessCallbacks.    *)
LEMMA Delivered ==
    ASSUME NEW c, NEW r, IsContext(c), Deliver(c, r)
    PROVE  /\ Like(c, ac')
           /\ (pc' = "process" /\ after' = after) \/ (pc' = "callback" /\ after' = "process")
<1>1. redisRunCallback(c, c.cb, r, "process")
    BY DEF Deliver
<1>2. QED
    BY <1>1, RunCallback

LEMMA ReplyOutcome ==
    ASSUME Types, Reply
    PROVE  \/ /\ Like(ac, ac')
              /\ (pc' = "process" /\ after' = after) \/ (pc' = "callback" /\ after' = "process")
           \/ /\ IsContext(ac') /\ SameFlags(ac, ac') /\ ac'.obuf = ac.obuf
              /\ ac'.err = "OTHER" /\ pc' = "disconnect"
           \/ Like(ac, ac') /\ pc' = "aborted"
<1>1. PICK r : r = Head(ac.reader)
    BY Zenon
<1>2. PICK c : c = [ac EXCEPT !.reader = Tail(@)]
    BY Zenon
<1>3. Like(ac, c) /\ c.replies = ac.replies
    BY <1>2 DEF Types, IsContext, Like, SameFlags
<1>4. CASE Deliver(redisShiftCallback(c), r)
  <2>1. IsContext(c)
    BY <1>3 DEF Like
  <2>2. PICK d, first : first = Head(c.replies) /\ d = [c EXCEPT !.cb = first, !.replies = Tail(@)]
    BY Zenon
  <2>3. d = redisShiftCallback(c)
    BY <2>2, Zenon DEF redisShiftCallback
  <2>4. Like(c, d)
    BY <2>1, <2>2 DEF IsContext, Like, SameFlags
  <2>5. QED
    BY <1>3, <1>4, <2>3, <2>4, Delivered, LikeChain DEF Like
<1>5. CASE ac' = [c EXCEPT !.err = "OTHER"] /\ pc' = "disconnect"
    BY <1>3, <1>5 DEF IsContext, Like, SameFlags
<1>6. CASE ac' = c /\ pc' = "aborted"
    BY <1>3, <1>6
<1>7. CASE Deliver(SubscribeCallback(c, r), r)
  <2>1. Like(c, SubscribeCallback(c, r))
    BY <1>3, SubscribeLike DEF Like
  <2>2. QED
    BY <1>3, <1>7, <2>1, Delivered, LikeChain DEF Like
<1>8. CASE Deliver(c, r)
    BY <1>3, <1>8, Delivered, LikeChain DEF Like
<1>9. \/ Deliver(redisShiftCallback(c), r)
      \/ ac' = [c EXCEPT !.err = "OTHER"] /\ pc' = "disconnect"
      \/ ac' = c /\ pc' = "aborted"
      \/ Deliver(SubscribeCallback(c, r), r)
      \/ Deliver(c, r)
    BY <1>1, <1>2, Zenon DEF Reply
<1>10. QED
    BY <1>4, <1>5, <1>6, <1>7, <1>8, <1>9, Zenon

LEMMA ReplyKeeps == ASSUME IInv, Reply PROVE IInv'
<1>0. Types /\ Rest
    BY DEF IInv
<1>1. pc = "process" /\ UNCHANGED <<reg, user, told, issued>>
    BY DEF Reply
<1>2. CASE /\ Like(ac, ac')
           /\ (pc' = "process" /\ after' = after) \/ (pc' = "callback" /\ after' = "process")
  <2>1. Types'
    BY <1>0, <1>1, <1>2 DEF Types, Like
  <2>2. Rest'
    BY <1>0, <1>1, <1>2 DEF Rest, Places, Armed, Waiting, Asked, Ended, Ending, Leaving,
       Freeing, ListsDone,
       Like, SameFlags, Kept
  <2>3. QED
    BY <2>1, <2>2 DEF IInv
<1>3. CASE /\ IsContext(ac') /\ SameFlags(ac, ac') /\ ac'.obuf = ac.obuf
           /\ ac'.err = "OTHER" /\ pc' = "disconnect"
  <2>1. Types'
    BY <1>0, <1>1, <1>3 DEF Types
  <2>2. Rest'
    BY <1>0, <1>1, <1>3 DEF Rest, Places, Armed, Waiting, Asked, Ended, Ending, Leaving,
       Freeing, ListsDone,
       Like, SameFlags, Kept
  <2>3. QED
    BY <2>1, <2>2 DEF IInv
<1>4. CASE Like(ac, ac') /\ pc' = "aborted"
  <2>1. Types'
    BY <1>0, <1>1, <1>4 DEF Types, Like
  <2>2. Rest'
    BY <1>0, <1>1, <1>4 DEF Rest, Places, Armed, Waiting, Asked, Ended, Ending, Leaving,
       Freeing, ListsDone,
       Like, SameFlags, Kept
  <2>3. QED
    BY <2>1, <2>2 DEF IInv
<1>5. QED
    BY <1>0, <1>2, <1>3, <1>4, ReplyOutcome

LEMMA ReadEventKeeps == ASSUME IInv, ReadEvent PROVE IInv'
<1>0. Types /\ Rest
    BY DEF IInv
<1>1. /\ pc = "idle" /\ pc' = "read" /\ "read" \in reg.armed
      /\ UNCHANGED <<ac, after, user, told, issued>>
    BY DEF ReadEvent, ghosts
<1>2. reg' = [reg EXCEPT !.armed = @ \ {"read"}]
    BY DEF ReadEvent
<1>3. IsAdapter(reg') /\ reg'.reading = reg.reading /\ reg'.writing = reg.writing
    BY <1>0, <1>2 DEF Types, IsAdapter
<1>4. Types'
    BY <1>0, <1>1, <1>2, <1>3 DEF Types, Like
<1>5. Rest'
    BY <1>0, <1>1, <1>2, <1>3 DEF Rest, Places, Armed, Waiting, Asked, Ended, Ending, Leaving,
       Freeing, ListsDone,
       Like, SameFlags, Kept
<1>6. QED
    BY <1>4, <1>5 DEF IInv

LEMMA WriteEventKeeps == ASSUME IInv, WriteEvent PROVE IInv'
<1>0. Types /\ Rest
    BY DEF IInv
<1>1. pc = "idle" /\ UNCHANGED <<reg, user, told, issued>>
    BY DEF WriteEvent, ghosts
<1>2. /\ IsContext(ac') /\ ac'.obuf = ac.obuf
      /\ ac'.replies = ac.replies /\ ac'.invalid = ac.invalid
    BY <1>0 DEF WriteEvent, HandleConnect, Types, IsContext
<1>3. /\ ac'.flags \in {ac.flags, ac.flags \cup {"CONNECTED"}}
      /\ ac'.err = ac.err \/ ac'.err = "IO"
    BY <1>0 DEF WriteEvent, HandleConnect, Types, IsContext
<1>4. \/ pc' = "write"
      \/ pc' = "onconnect" /\ after' = "write"
      \/ pc' = "onconnect" /\ after' = "disconnect" /\ ac'.err = "IO"
      \/ pc' = "disconnect" /\ ac'.err = "IO"
      \/ pc' = "idle" /\ ac'.err = "IO"
    BY <1>0 DEF WriteEvent, HandleConnect, Types, IsContext
<1>5. Types'
    BY <1>0, <1>1, <1>2, <1>3, <1>4 DEF Types, Like
<1>6. Rest'
    BY <1>0, <1>1, <1>2, <1>3, <1>4 DEF Rest, Places, Armed, Waiting, Asked, Ended, Ending, Leaving,
       Freeing, ListsDone,
       Like, SameFlags, Kept
<1>7. QED
    BY <1>5, <1>6 DEF IInv

LEMMA ConnectCallbackReturnsKeeps == ASSUME IInv, ConnectCallbackReturns PROVE IInv'
<1>0. Types /\ Rest
    BY DEF IInv
<1>1. pc = "onconnect" /\ pc' = after /\ UNCHANGED <<ac, reg, user, told, issued>>
    BY DEF ConnectCallbackReturns, ghosts
<1>2. Types'
    BY <1>0, <1>1 DEF Types, Like
<1>3. Rest'
    BY <1>0, <1>1 DEF Rest, Places, Armed, Waiting, Asked, Ended, Ending, Leaving,
       Freeing, ListsDone,
       Like, SameFlags, Kept
<1>4. QED
    BY <1>2, <1>3 DEF IInv

LEMMA redisAsyncHandleReadKeeps == ASSUME IInv, redisAsyncHandleRead PROVE IInv'
<1>0. Types /\ Rest
    BY DEF IInv
<1>1. pc = "read" /\ UNCHANGED <<after, user, told, issued>>
    BY DEF redisAsyncHandleRead, ghosts
<1>2. CASE ac' = [ac EXCEPT !.err = IF @ = "none" THEN "EOF" ELSE @] /\ pc' = "disconnect" /\ reg' = reg
  <2>1. /\ IsContext(ac') /\ ac'.obuf = ac.obuf /\ ac'.err # "none" /\ ac'.flags = ac.flags
        /\ ac'.replies = ac.replies /\ ac'.invalid = ac.invalid
    BY <1>0, <1>2 DEF Types, IsContext
  <2>2. Types'
    BY <1>0, <1>1, <1>2, <2>1 DEF Types
  <2>3. Rest'
    BY <1>0, <1>1, <1>2, <2>1 DEF Rest, Places, Armed, Waiting, Asked, Ended, Ending, Leaving,
       Freeing, ListsDone
  <2>4. QED
    BY <2>2, <2>3 DEF IInv
<1>3. CASE /\ \E n \in 0 .. Len(inflight) :
                ac' = [ac EXCEPT !.reader = @ \o SubSeq(inflight, 1, n), !.part = (n = 0), !.cb = 0]
           /\ reg' = redisAeForceAddRead(reg) /\ pc' = "process"
  <2>1. PICK more, part : ac' = [ac EXCEPT !.reader = more, !.part = part, !.cb = 0]
    BY <1>3
  <2>2. Like(ac, ac')
    BY <1>0, <2>1 DEF Types, IsContext, Like, SameFlags
  <2>3. /\ IsAdapter(reg') /\ reg'.reading /\ reg'.writing = reg.writing
        /\ "read" \in reg'.armed
    BY <1>0, <1>3, ForceAddRead DEF Types
  <2>4. Types'
    BY <1>0, <1>1, <2>2, <2>3 DEF Types, Like
  <2>5. Rest'
    BY <1>0, <1>1, <1>3, <2>2, <2>3 DEF Rest, Places, Armed, Waiting, Asked, Ended, Ending, Leaving,
       Freeing, ListsDone,
       Like, SameFlags, Kept
  <2>6. QED
    BY <2>4, <2>5 DEF IInv
<1>4. QED
    BY <1>2, <1>3 DEF redisAsyncHandleRead

LEMMA redisAsyncHandleWriteKeeps == ASSUME IInv, redisAsyncHandleWrite PROVE IInv'
<1>0. Types /\ Rest
    BY DEF IInv
<1>1. pc = "write" /\ UNCHANGED <<after, user, told, issued>>
    BY DEF redisAsyncHandleWrite, ghosts
<1>2. CASE ac' = [ac EXCEPT !.err = "IO"] /\ pc' = "disconnect" /\ reg' = reg
  <2>1. /\ IsContext(ac') /\ ac'.obuf = ac.obuf /\ ac'.err # "none" /\ ac'.flags = ac.flags
        /\ ac'.replies = ac.replies /\ ac'.invalid = ac.invalid
    BY <1>0, <1>2 DEF Types, IsContext
  <2>2. Types'
    BY <1>0, <1>1, <1>2, <2>1 DEF Types
  <2>3. Rest'
    BY <1>0, <1>1, <1>2, <2>1 DEF Rest, Places, Armed, Waiting, Asked, Ended, Ending, Leaving,
       Freeing, ListsDone
  <2>4. QED
    BY <2>2, <2>3 DEF IInv
<1>3. CASE /\ \E n \in 0 .. Len(ac.obuf) :
                /\ ac' = [ac EXCEPT !.obuf = SubSeq(@, n + 1, Len(@))]
                /\ reg' = redisAeAddRead(IF n = Len(ac.obuf) THEN redisAeDelWrite(reg) ELSE redisAeAddWrite(reg))
           /\ pc' = "idle"
  <2>1. PICK n \in 0 .. Len(ac.obuf) :
                /\ ac' = [ac EXCEPT !.obuf = SubSeq(@, n + 1, Len(@))]
                /\ reg' = redisAeAddRead(IF n = Len(ac.obuf) THEN redisAeDelWrite(reg) ELSE redisAeAddWrite(reg))
    BY <1>3
  <2>2. PICK kept : kept = SubSeq(ac.obuf, n + 1, Len(ac.obuf))
    BY Zenon
  <2>3. kept \in Seq(Outgoing) /\ (n = Len(ac.obuf) => kept = <<>>)
    BY <1>0, <2>2 DEF Types
  <2>4. ac' = [ac EXCEPT !.obuf = kept]
    BY <2>1, <2>2, Zenon
  <2>5. /\ IsContext(ac') /\ ac'.obuf = kept /\ ac'.flags = ac.flags /\ ac'.err = ac.err
    BY <1>0, <2>4 DEF Types, IsContext
  <2>6. PICK e : e = IF n = Len(ac.obuf) THEN redisAeDelWrite(reg) ELSE redisAeAddWrite(reg)
    BY Zenon
  <2>7. /\ IsAdapter(e) /\ e.reading = reg.reading /\ (n # Len(ac.obuf) => e.writing)
        /\ "read" \in e.armed <=> "read" \in reg.armed
    <3>1. CASE n = Len(ac.obuf)
        BY <1>0, <2>6, <3>1, DelWrite DEF Types
    <3>2. CASE n # Len(ac.obuf)
        BY <1>0, <2>6, <3>2, AddWrite DEF Types
    <3>3. QED
        BY <3>1, <3>2
  <2>8. reg' = redisAeAddRead(e)
    BY <2>1, <2>6, Zenon
  <2>9. /\ IsAdapter(reg') /\ reg'.reading /\ reg'.writing = e.writing
        /\ ~e.reading \/ "read" \in e.armed => "read" \in reg'.armed
    BY <2>7, <2>8, AddRead
  <2>10. reg.reading => "read" \in reg.armed
    BY <1>0, <1>1 DEF Rest, Armed, Leaving, Ending
  <2>11. "read" \in reg'.armed
    BY <2>7, <2>9, <2>10
  <2>12. kept = <<>> \/ reg'.writing
    BY <2>3, <2>7, <2>9
  <2>13. Types'
    BY <1>0, <1>1, <2>3, <2>5, <2>9 DEF Types
  <2>14. Rest'
    BY <1>0, <1>1, <1>3, <2>5, <2>9, <2>11, <2>12 DEF Rest, Places, Armed, Waiting, Asked, Ended, Ending, Leaving,
       Freeing, ListsDone
  <2>15. QED
    BY <2>13, <2>14 DEF IInv
<1>4. QED
    BY <1>2, <1>3 DEF redisAsyncHandleWrite

LEMMA OutsideKeeps ==
    ASSUME IInv, ServerAnswers \/ ServerPublishes \/ ServerRefuses \/ ConnectionFails
    PROVE  IInv'
<1>1. UNCHANGED <<ac, pc, after, reg, user, told, issued>>
    BY DEF ServerAnswers, ServerPublishes, ServerRefuses, ConnectionFails, ghosts
<1>2. QED
    BY <1>1, Elsewhere

-----------------------------------------------------------------------------
(* Results.                                                                *)

(* The inductive invariant holds in every reachable state.                 *)
THEOREM Invariance == Spec => []IInv
<1>1. Init => IInv
  <2> SUFFICES ASSUME Init PROVE IInv
    OBVIOUS
  <2>1. /\ ac.flags = {} /\ ac.err = "none" /\ ac.obuf = <<>> /\ IsContext(ac)
        /\ pc = "none" /\ told = <<>> /\ issued = <<>>
    BY DEF Init, Created, IsContext
  <2>2. IsAdapter(reg) /\ reg.reading = FALSE
    BY DEF Init, Ae, IsAdapter
  <2>3. Types
    <3>1. \A S : <<>> \in Seq(S)
        OBVIOUS
    <3>2. QED
        BY <2>1, <2>2, <3>1, Zenon DEF Types
  <2>4. Rest
    BY <2>1, <2>2 DEF Rest, Places, Armed, Waiting, Asked, Ended, Ending, Leaving,
       Freeing, ListsDone
  <2>5. QED
    BY <2>3, <2>4 DEF IInv
<1>2. IInv /\ [Next]_vars => IInv'
  <2> SUFFICES ASSUME IInv, [Next]_vars PROVE IInv'
    OBVIOUS
  <2>1. CASE UNCHANGED vars
    BY <2>1, Elsewhere DEF vars
  <2>2. CASE Next
    BY <2>2, redisAsyncConnectKeeps, redisAsyncSetConnectCallbackKeeps,
       redisAsyncSetDisconnectCallbackKeeps, redisAsyncCommandKeeps, redisAsyncFreeKeeps,
       redisAsyncDisconnectKeeps, CallbackReturnsKeeps, redisAsyncDisconnectNowKeeps,
       FreeRepliesKeeps, FreeInvalidKeeps, FreeIterateKeeps, FreeSubscriptionKeeps,
       FreeContextKeeps, NoReplyKeeps, GetReplyFailsKeeps, ReplyKeeps, ReadEventKeeps, WriteEventKeeps,
       ConnectCallbackReturnsKeeps, redisAsyncHandleReadKeeps, redisAsyncHandleWriteKeeps,
       OutsideKeeps, Zenon DEF Next
  <2>3. QED
    BY <2>1, <2>2
<1>3. QED
    BY <1>1, <1>2, PTL DEF Spec

(* Between events the loop waits for writing as long as there is output,   *)
(* and for reading as long as there is an answer to come: no handler, no   *)
(* callback and no failure leaves something waiting that nobody wakes.     *)
THEOREM NothingForgotten == Spec => []Scheduled
<1>1. IInv => Scheduled
    BY DEF IInv, Types, IsAdapter, Rest, Armed, Waiting, Leaving, Ending, Scheduled, Flag
<1>2. QED
    BY <1>1, Invariance, PTL

(* The disconnect callback runs once at most and with the true status, and *)
(* a freed context has no callback left in its lists, although callbacks   *)
(* run while the lists are emptied.                                        *)
THEOREM EndToldOnce == Spec => []DisconnectTold
<1>1. IInv => DisconnectTold
  <2> SUFFICES ASSUME IInv PROVE DisconnectTold
    OBVIOUS
  <2>1. \/ told = <<>>
        \/ told = <<"OK">> /\ user
        \/ told = <<"ERR">> /\ ac.err # "none"
    BY DEF IInv, Rest, Ended
  <2>2. Len(told) <= 1
    <3>1. told = <<>> \/ told = <<"OK">> \/ told = <<"ERR">>
        BY <2>1, Zenon
    <3>2. QED
        BY <3>1
  <2>3. (told = <<"OK">> => user) /\ (told = <<"ERR">> => ac.err # "none")
    <3>1. <<"OK">> # <<"ERR">> /\ <<>> # <<"OK">> /\ <<>> # <<"ERR">>
        OBVIOUS
    <3>2. QED
        BY <2>1, <3>1, Zenon
  <2>4. pc = "freed" => ac.replies = <<>> /\ ac.invalid = <<>>
    BY DEF IInv, Rest, Ended, ListsDone
  <2>5. QED
    BY <2>2, <2>3, <2>4 DEF DisconnectTold
<1>2. QED
    BY <1>1, Invariance, PTL

-----------------------------------------------------------------------------
(* The story of the commands, for as long as nobody monitors and nothing   *)
(* crosses a subscription.                                                       *)

Regular == {"get", "quit"}
Array == [type : {"ARRAY"}, what : {"subscribe", "unsubscribe", "message"}, key : Keys, count : Nat, n : Nat]
Plain == [type : {"STATUS", "ERROR"}, n : Nat]
Message == Array \cup Plain

(* What has been answered and not processed, and what is still to be       *)
(* answered, in the order of the wire.                                     *)
Coming == ac.reader \o inflight
Going == sent \o ac.obuf

(* A reply to a command, not a message.                                    *)
Solicited(r) == r.type # "ARRAY" \/ r.what # "message"
Step(r) == IF Solicited(r) THEN 1 ELSE 0

(* The server refused, or the connection failed, before any answer.        *)
Dead == fresh /\ eof

(* Commands whose replies have been processed.                             *)
Answered == IF fresh THEN 0 ELSE IF Coming = <<>> THEN Served ELSE Coming[1].n - Step(Coming[1])

Entry(k) == [key |-> k, val |-> want[k]]

(* The sequences and their elements.                                       *)
Domains ==
    /\ ac.reader \in Seq(Message) /\ inflight \in Seq(Message) /\ sent \in Seq(Outgoing)
    /\ subs \subseteq Keys /\ IsFiniteSet(subs) /\ leaving \subseteq Keys
    /\ ac.replies \in Seq(Nat) /\ ac.invalid \in Seq(Nat) /\ ac.cb \in Nat
    /\ calls \in Seq(Seq(Message \cup {NullReply})) /\ Len(calls) = Len(issued)
    /\ Served \in Nat
    /\ \A n \in DOMAIN issued : issued[n].key = NoCommand <=> issued[n].kind \in Regular

(* A key is known from its subscription on until its unsubscription is     *)
(* processed.                                                              *)
Known ==
    /\ subs \subseteq DOMAIN want /\ DOMAIN want \subseteq Keys
    /\ \A k \in DOMAIN want : want[k] \in DOMAIN issued
                              /\ issued[want[k]] = [kind |-> "subscribe", key |-> k]

(* The commands on their way are the last ones issued, in order, and       *)
(* nothing about a key follows its unsubscription.                         *)
Commands ==
    \A i \in DOMAIN Going :
      /\ Going[i].n = Served + i
      /\ issued[Served + i] = [kind |-> Going[i].kind, key |-> Going[i].key]
      /\ Going[i].kind \notin Regular => Going[i].key \in DOMAIN want
      /\ Going[i].kind = "unsubscribe" =>
           Going[i].key \in leaving /\ \A j \in DOMAIN Going : j > i => Going[j].key # Going[i].key

(* Before the first answer only a refusal can come.                        *)
Fresh ==
    fresh => /\ Served = 0 /\ subs = {}
             /\ Coming = <<>> \/ (eof /\ Coming = <<[type |-> "ERROR", n |-> 0]>>)

(* The replies to come are numbered without a gap up to the last command   *)
(* the server has answered; a message has the number of the reply before.  *)
Chain ==
    /\ \A i \in DOMAIN Coming : Coming[i].n >= Step(Coming[i]) /\ Coming[i].n <= Served
    /\ \A i, j \in DOMAIN Coming : i < j => Coming[i].n <= Coming[j].n - Step(Coming[j])
    /\ \A i \in DOMAIN Coming : i + 1 \in DOMAIN Coming => Coming[i + 1].n = Coming[i].n + Step(Coming[i + 1])
    /\ Coming # <<>> => Coming[Len(Coming)].n = Served

(* What comes is what its command asked for, about keys that are known;    *)
(* the reply to an unsubscription is the last that is heard of its key.    *)
Replies ==
    \A i \in DOMAIN Coming : LET r == Coming[i] IN
      /\ Solicited(r) => IF r.type = "ARRAY" THEN issued[r.n] = [kind |-> r.what, key |-> r.key]
                         ELSE issued[r.n].kind \in Regular
      /\ r.type = "ARRAY" => r.key \in DOMAIN want
      /\ r.type = "ARRAY" /\ r.what = "unsubscribe" =>
           /\ r.key \in leaving /\ r.key \notin subs
           /\ \A j \in DOMAIN Coming : j > i /\ Coming[j].type = "ARRAY" => Coming[j].key # r.key
           /\ \A j \in DOMAIN Going : Going[j].key # r.key
           /\ r.count = 0 /\ r.n = Served => subs = {} /\ i = Len(Coming)

Stream == Known /\ Commands /\ Fresh /\ (~Dead => Chain /\ Replies)

Ascending(q) == \A i, j \in DOMAIN q : i < j => q[i] < q[j]
Pending(n) == (\E i \in DOMAIN ac.replies : ac.replies[i] = n) \/ (\E i \in DOMAIN ac.invalid : ac.invalid[i] = n)
(* The lists of callbacks: regular commands, in the order they were        *)
(* issued, the invalid ones of a subscribed context behind the others.     *)
Lists ==
    /\ \A i \in DOMAIN ac.replies : ac.replies[i] \in DOMAIN issued /\ issued[ac.replies[i]].kind \in Regular
    /\ \A i \in DOMAIN ac.invalid : ac.invalid[i] \in DOMAIN issued /\ issued[ac.invalid[i]].kind \in Regular
    /\ Ascending(ac.replies) /\ Ascending(ac.invalid)
    /\ \A i \in DOMAIN ac.replies, j \in DOMAIN ac.invalid : ac.replies[i] < ac.invalid[j]
    /\ "SUBSCRIBED" \notin ac.flags => ac.invalid = <<>>

(* Replies are still processed.                                            *)
Live == ac.err = "none" /\ ~Freeing /\ pc # "aborted"

(* The callbacks that wait are those of the commands not answered, the     *)
(* first one that of the next reply; messages come only when no regular    *)
(* reply is due before them.                                               *)
Match ==
    Live /\ (~Dead \/ Coming # <<>>) =>
    /\ \A i \in DOMAIN ac.replies : ac.replies[i] = Answered + i
    /\ \A i \in DOMAIN ac.invalid : ac.invalid[i] > Answered + Len(ac.replies)
    /\ \A n \in DOMAIN issued : n > Answered + Len(ac.replies) /\ issued[n].kind \in Regular =>
                                \E i \in DOMAIN ac.invalid : ac.invalid[i] = n
    /\ ~Dead => \A i \in DOMAIN Coming : ~Solicited(Coming[i]) => Coming[i].n >= Answered + Len(ac.replies)
    /\ subs # {} => Served >= Answered + Len(ac.replies)
    /\ "SUBSCRIBED" \notin ac.flags =>
         /\ subs = {} /\ Answered + Len(ac.replies) = Len(issued)
         /\ \A i \in DOMAIN Coming : Coming[i].type # "ARRAY"

(* A callback is called with what is its own: that of a regular command    *)
(* once, when it no longer waits, and with NULL only at the end.           *)
Called ==
    /\ \A n \in DOMAIN calls : \A i \in DOMAIN calls[n] : Answers(calls[n][i], n)
    /\ \A n \in DOMAIN calls : issued[n].kind \in Regular =>
          IF Pending(n) THEN calls[n] = <<>> ELSE Len(calls[n]) = 1
    /\ \A n \in DOMAIN calls : issued[n].kind \notin Regular =>
          \A i \in DOMAIN calls[n] : calls[n][i] = NullReply =>
             issued[n].kind = "subscribe" /\ i = Len(calls[n]) /\ ListsDone /\ \A e \in iter : e.val # n

(* The subscriptions whose callbacks have still to run at the end.         *)
Iterated ==
    /\ pc = "freed" => iter = {}
    /\ ListsDone =>
                 /\ \A e \in iter : e.key \in DOMAIN want /\ e = Entry(e.key)
                 /\ \A k \in DOMAIN want : LET c == calls[want[k]] IN
                       Entry(k) \in iter \/ (c # <<>> /\ Last(c) = NullReply)

(* The dictionaries hold the subscriptions, every entry in the slot of its *)
(* key.                                                                    *)
WellHashed(d) ==
    /\ d = [table |-> d.table, used |-> d.used] /\ d.used \in Int
    /\ d.table \in Seq(SUBSET [key : Keys, val : Nat])
    /\ \A i \in DOMAIN d.table : \A e \in d.table[i] : Slot(d.table, e.key) = i
Dictionaries ==
    pc # "freed" =>
      /\ WellHashed(ac.channels) /\ Entries(ac.channels) = {Entry(k) : k \in DOMAIN want \ Patterns}
      /\ WellHashed(ac.patterns) /\ Entries(ac.patterns) = {Entry(k) : k \in DOMAIN want \cap Patterns}

(* Nothing has happened before the connection; replies are processed       *)
(* without an error; a monitor leaves its trace.                           *)
Unborn == pc = "none" => /\ issued = <<>> /\ sent = <<>> /\ inflight = <<>> /\ fresh /\ calls = <<>> /\ subs = {}
                         /\ want = <<>> /\ leaving = {} /\ ac = Created
Reading == pc = "process" \/ (pc = "callback" /\ after = "process") => ac.err = "none"
Monitors == "MONITORING" \in ac.flags => Monitored

Story == Domains /\ Stream /\ Lists /\ Match /\ Called /\ Iterated /\ Dictionaries
SInv == Unborn /\ Reading /\ Monitors /\ (~Monitored /\ ~crossed => Story)

-----------------------------------------------------------------------------
(* The dictionaries.                                                       *)

Chained == [key : Keys, val : Nat]

LEMMA SlotInTable ==
    ASSUME NEW t, t \in Seq(SUBSET Chained), t # <<>>, NEW key \in Keys
    PROVE  /\ Len(t) \in Nat \ {0} /\ Slot(t, key) \in 1 .. Len(t) /\ Slot(t, key) \in DOMAIN t
           /\ Slot(t, key) = (Hash[key] % Len(t)) + 1
<1>1. Len(t) \in Nat /\ Len(t) # 0 /\ DOMAIN t = 1 .. Len(t)
    OBVIOUS
<1>2. Hash[key] \in Nat
    BY KeysAssumption
<1>3. Hash[key] % Len(t) \in 0 .. Len(t) - 1
    BY <1>1, <1>2
<1>4. QED
    BY <1>1, <1>3 DEF Slot

LEMMA FindEntries ==
    ASSUME NEW d, WellHashed(d), NEW key \in Keys
    PROVE  dictFind(d, key) = {e \in Entries(d) : e.key = key}
<1>1. CASE d.table = <<>>
    BY <1>1 DEF dictFind, Entries
<1>2. CASE d.table # <<>>
  <2>1. Slot(d.table, key) \in DOMAIN d.table
    BY <1>2, SlotInTable DEF WellHashed, Chained
  <2>2. ASSUME NEW e \in Entries(d), e.key = key PROVE e \in d.table[Slot(d.table, key)]
    BY <2>2 DEF Entries, WellHashed
  <2>3. QED
    BY <1>2, <2>1, <2>2 DEF dictFind, Entries
<1>3. QED
    BY <1>1, <1>2

(* A table is well hashed when every entry is in the slot of its key.      *)
LEMMA ExpandEntries ==
    ASSUME NEW d, WellHashed(d), NEW size \in Nat \ {0}
    PROVE  /\ WellHashed(dictExpand(d, size)) /\ Entries(dictExpand(d, size)) = Entries(d)
           /\ dictExpand(d, size).used = d.used /\ dictExpand(d, size).table # <<>>
<1>1. PICK t : t = [i \in 1 .. size |-> {e \in Entries(d) : (Hash[e.key] % size) + 1 = i}]
    BY Zenon
<1>2. Entries(d) \subseteq Chained
    BY DEF WellHashed, Entries, Chained
<1>3. t \in Seq(SUBSET Chained) /\ Len(t) = size /\ DOMAIN t = 1 .. size
    BY <1>1, <1>2
<1>4. PICK x : x = dictExpand(d, size)
    BY Zenon
<1>5. x = [table |-> t, used |-> d.used] /\ d.used \in Int
    BY <1>1, <1>4 DEF dictExpand, WellHashed
<1>6. \A i \in DOMAIN t : \A e \in t[i] : Slot(t, e.key) = i
    BY <1>1, <1>3 DEF Slot
<1>7. WellHashed(x)
    BY <1>3, <1>5, <1>6 DEF WellHashed, Chained
<1>8. ASSUME NEW e \in Entries(d) PROVE \E i \in DOMAIN t : e \in t[i]
  <2>1. Hash[e.key] \in Nat
    BY <1>2, KeysAssumption DEF Chained
  <2>2. (Hash[e.key] % size) + 1 \in 1 .. size
    BY <2>1
  <2>3. QED
    BY <1>1, <1>3, <2>2
<1>9. Entries(x) = Entries(d)
  <2>1. UNION {t[i] : i \in DOMAIN t} = Entries(d)
    BY <1>1, <1>3, <1>8
  <2>2. QED
    BY <1>5, <2>1 DEF Entries
<1>10. QED
    BY <1>3, <1>4, <1>5, <1>7, <1>9

LEMMA ExpandIfNeededEntries ==
    ASSUME NEW d, WellHashed(d)
    PROVE  /\ WellHashed(dictExpandIfNeeded(d)) /\ Entries(dictExpandIfNeeded(d)) = Entries(d)
           /\ dictExpandIfNeeded(d).table # <<>>
<1>1. CASE d.table = <<>>
  <2>1. dictExpandIfNeeded(d) = dictExpand(d, InitialSize)
    BY <1>1 DEF dictExpandIfNeeded
  <2>2. QED
    BY <2>1, ExpandEntries, DictAssumption
<1>2. CASE d.table # <<>> /\ d.used = Len(d.table)
  <2>1. dictExpandIfNeeded(d) = dictExpand(d, 2 * Len(d.table))
    BY <1>2 DEF dictExpandIfNeeded
  <2>2. 2 * Len(d.table) \in Nat \ {0}
    BY <1>2 DEF WellHashed
  <2>3. QED
    BY <2>1, <2>2, ExpandEntries
<1>3. CASE d.table # <<>> /\ d.used # Len(d.table)
    BY <1>3 DEF dictExpandIfNeeded
<1>4. QED
    BY <1>1, <1>2, <1>3

(* The chain in the slot of a key is replaced.                             *)
SlotChain(d, key, chain) ==
    /\ chain \in SUBSET Chained
    /\ \A e \in chain : Slot(d.table, e.key) = Slot(d.table, key)
WithChain(d, key, chain, used, x) ==
    /\ x = [table |-> [d.table EXCEPT ![Slot(d.table, key)] = chain], used |-> used]
    /\ used \in Int

LEMMA ChangedSlot ==
    ASSUME NEW d, WellHashed(d), d.table # <<>>, NEW key \in Keys, NEW used,
           NEW chain, SlotChain(d, key, chain), NEW x, WithChain(d, key, chain, used, x)
    PROVE  /\ WellHashed(x) /\ x.table # <<>>
           /\ Entries(x) = (Entries(d) \ d.table[Slot(d.table, key)]) \cup chain
<1>0. /\ x = [table |-> [d.table EXCEPT ![Slot(d.table, key)] = chain], used |-> used]
      /\ used \in Int /\ chain \in SUBSET Chained
      /\ \A e \in chain : Slot(d.table, e.key) = Slot(d.table, key)
    BY DEF SlotChain, WithChain
<1> DEFINE s == Slot(d.table, key)
<1>1. d.table \in Seq(SUBSET Chained) /\ s \in DOMAIN d.table
    BY SlotInTable DEF WellHashed, Chained
<1> HIDE DEF s
<1>2. PICK t : t = [d.table EXCEPT ![s] = chain]
    BY Zenon
<1>3. t \in Seq(SUBSET Chained) /\ Len(t) = Len(d.table) /\ DOMAIN t = DOMAIN d.table
      /\ t[s] = chain /\ \A i \in DOMAIN t : i # s => t[i] = d.table[i]
    BY <1>0, <1>1, <1>2
<1>4. x.table = t /\ x.used = used /\ x = [table |-> x.table, used |-> x.used]
    BY <1>0, <1>2 DEF s
<1>5. \A k : Slot(t, k) = Slot(d.table, k)
    BY <1>3 DEF Slot
<1>6. \A i \in DOMAIN t : \A e \in t[i] : Slot(t, e.key) = i
  <2>1. \A i \in DOMAIN d.table : \A e \in d.table[i] : Slot(d.table, e.key) = i
    BY DEF WellHashed
  <2>2. \A e \in chain : Slot(d.table, e.key) = s
    BY <1>0 DEF s
  <2>3. QED
    BY <1>3, <1>5, <2>1, <2>2
<1>7. WellHashed(x)
  <2>1. x = [table |-> x.table, used |-> x.used] /\ x.used \in Int
    BY <1>0, <1>4
  <2>2. x.table \in Seq(SUBSET [key : Keys, val : Nat])
    BY <1>3, <1>4, Zenon DEF Chained
  <2>3. \A i \in DOMAIN x.table : \A e \in x.table[i] : Slot(x.table, e.key) = i
    BY <1>4, <1>6, Zenon
  <2>4. QED
    BY <2>1, <2>2, <2>3, Zenon DEF WellHashed
<1>8. t # <<>>
    BY <1>1, <1>3
<1>9. \A e, i, j : i \in DOMAIN d.table /\ j \in DOMAIN d.table /\ e \in d.table[i] /\ e \in d.table[j] => i = j
  <2>1. \A i \in DOMAIN d.table : \A e \in d.table[i] : Slot(d.table, e.key) = i
    BY DEF WellHashed
  <2>2. QED
    BY <2>1
<1>10. Entries(x) = (Entries(d) \ d.table[s]) \cup chain
  <2>1. ASSUME NEW e \in Entries(x) PROVE e \in (Entries(d) \ d.table[s]) \cup chain
    <3>1. PICK i \in DOMAIN t : e \in t[i]
        BY <1>4, <2>1 DEF Entries
    <3>2. CASE i = s
        BY <1>3, <3>1, <3>2
    <3>3. CASE i # s
      <4>1. e \in d.table[i] /\ i \in DOMAIN d.table
        BY <1>3, <3>1, <3>3
      <4>2. e \notin d.table[s]
        BY <1>1, <1>9, <3>3, <4>1
      <4>3. e \in Entries(d)
        BY <4>1 DEF Entries
      <4>4. QED
        BY <4>2, <4>3
    <3>4. QED
        BY <3>2, <3>3
  <2>2. ASSUME NEW e \in (Entries(d) \ d.table[s]) \cup chain PROVE e \in Entries(x)
    BY <1>1, <1>3, <1>4, <2>2 DEF Entries
  <2>3. QED
    BY <2>1, <2>2
<1>11. QED
    BY <1>4, <1>7, <1>8, <1>10 DEF s

LEMMA AddEntries ==
    ASSUME NEW d, WellHashed(d), NEW key \in Keys, NEW val \in Nat
    PROVE  /\ WellHashed(dictAdd(d, key, val)) /\ dictAdd(d, key, val).table # <<>>
           /\ IF \E e \in Entries(d) : e.key = key THEN Entries(dictAdd(d, key, val)) = Entries(d)
              ELSE Entries(dictAdd(d, key, val)) = Entries(d) \cup {[key |-> key, val |-> val]}
<1>1. PICK n : n = dictExpandIfNeeded(d)
    BY Zenon
<1>2. WellHashed(n) /\ Entries(n) = Entries(d) /\ n.table # <<>>
    BY <1>1, ExpandIfNeededEntries
<1>3. dictFind(n, key) = {e \in Entries(d) : e.key = key}
    BY <1>2, FindEntries
<1>4. CASE dictFind(n, key) # {}
  <2>1. dictAdd(d, key, val) = n
    BY <1>1, <1>4 DEF dictAdd
  <2>2. \E e \in Entries(d) : e.key = key
    BY <1>3, <1>4
  <2>3. QED
    BY <1>2, <2>1, <2>2
<1>5. CASE dictFind(n, key) = {}
  <2>1. PICK e : e = [key |-> key, val |-> val]
    BY Zenon
  <2>2. PICK chain : chain = n.table[Slot(n.table, key)] \cup {e}
    BY Zenon
  <2>3. PICK x : x = dictAdd(d, key, val)
    BY Zenon
  <2>4. x = [n EXCEPT !.table[Slot(n.table, key)] = chain, !.used = @ + 1]
    BY <1>1, <1>5, <2>1, <2>2, <2>3, Zenon DEF dictAdd
  <2>5. n = [table |-> n.table, used |-> n.used] /\ n.used \in Int /\ n.table \in Seq(SUBSET Chained)
    BY <1>2 DEF WellHashed, Chained
  <2>6. x = [table |-> [n.table EXCEPT ![Slot(n.table, key)] = chain], used |-> n.used + 1]
    BY <2>4, <2>5
  <2>7. Slot(n.table, key) \in DOMAIN n.table
    BY <1>2, <2>5, SlotInTable
  <2>8. n.table[Slot(n.table, key)] \subseteq Chained
        /\ \A f \in n.table[Slot(n.table, key)] : Slot(n.table, f.key) = Slot(n.table, key)
    BY <1>2, <2>5, <2>7 DEF WellHashed
  <2>9. chain \in SUBSET Chained /\ \A f \in chain : Slot(n.table, f.key) = Slot(n.table, key)
    BY <2>1, <2>2, <2>8 DEF Chained
  <2>10. n.used + 1 \in Int
    BY <2>5
  <2>11. /\ WellHashed(x) /\ x.table # <<>>
         /\ Entries(x) = (Entries(n) \ n.table[Slot(n.table, key)]) \cup chain
    <3>1. SlotChain(n, key, chain)
        BY <2>9 DEF SlotChain
    <3>2. WithChain(n, key, chain, n.used + 1, x)
        BY <2>6, <2>10 DEF WithChain
    <3>3. QED
        BY <1>2, <3>1, <3>2, ChangedSlot
  <2>12. n.table[Slot(n.table, key)] \subseteq Entries(n)
    BY <2>7 DEF Entries
  <2>13. Entries(x) = Entries(d) \cup {e}
    BY <1>2, <2>2, <2>11, <2>12
  <2>14. ~\E f \in Entries(d) : f.key = key
    BY <1>3, <1>5
  <2>15. QED
    BY <2>1, <2>3, <2>11, <2>13, <2>14
<1>6. QED
    BY <1>4, <1>5

(* dictReplace leaves one entry under the key.                             *)
LEMMA ReplaceEntries ==
    ASSUME NEW d, WellHashed(d), NEW key \in Keys, NEW val \in Nat
    PROVE  /\ WellHashed(dictReplace(d, key, val))
           /\ Entries(dictReplace(d, key, val)) = {e \in Entries(d) : e.key # key} \cup {[key |-> key, val |-> val]}
<1>1. PICK n : n = dictAdd(d, key, val)
    BY Zenon
<1>2. PICK new : new = [key |-> key, val |-> val]
    BY Zenon
<1>3. /\ WellHashed(n) /\ n.table # <<>>
      /\ IF \E e \in Entries(d) : e.key = key THEN Entries(n) = Entries(d)
         ELSE Entries(n) = Entries(d) \cup {new}
    BY <1>1, <1>2, AddEntries
<1>4. new.key = key /\ new \in Chained
    BY <1>2 DEF Chained
<1>5. {e \in Entries(n) : e.key # key} = {e \in Entries(d) : e.key # key} /\ \E e \in Entries(n) : e.key = key
    BY <1>3, <1>4
<1>6. PICK x : x = dictReplace(d, key, val)
    BY Zenon
<1>7. PICK s : s = Slot(n.table, key)
    BY Zenon
<1>8. PICK chain : chain = {IF e.key = key THEN [e EXCEPT !.val = val] ELSE e : e \in n.table[s]}
    BY Zenon
<1>9. x = [n EXCEPT !.table[s] = chain]
    BY <1>1, <1>6, <1>7, <1>8, Zenon DEF dictReplace
<1>10. n = [table |-> n.table, used |-> n.used] /\ n.used \in Int /\ n.table \in Seq(SUBSET Chained)
    BY <1>3 DEF WellHashed, Chained
<1>11. x = [table |-> [n.table EXCEPT ![s] = chain], used |-> n.used]
    BY <1>9, <1>10
<1>12. s \in DOMAIN n.table
    BY <1>3, <1>7, <1>10, SlotInTable
<1>13. n.table[s] \subseteq Chained /\ \A f \in n.table[s] : Slot(n.table, f.key) = s
    BY <1>3, <1>10, <1>12 DEF WellHashed
<1>14. \A e \in Chained : e.key = key => [e EXCEPT !.val = val] = new
    BY <1>2 DEF Chained
<1>15. \A e \in Entries(n) : e.key = key => e \in n.table[s]
    BY <1>3, <1>7, FindEntries DEF dictFind
<1>16. chain = {e \in n.table[s] : e.key # key} \cup {new}
  <2>1. \E e \in n.table[s] : e.key = key
    BY <1>5, <1>15
  <2>2. QED
    BY <1>8, <1>13, <1>14, <2>1
<1>17. chain \in SUBSET Chained /\ \A f \in chain : Slot(n.table, f.key) = s
    BY <1>4, <1>7, <1>13, <1>16
<1>18. WellHashed(x) /\ Entries(x) = (Entries(n) \ n.table[s]) \cup chain
    BY <1>3, <1>7, <1>10, <1>11, <1>17, ChangedSlot DEF SlotChain, WithChain
<1>19. n.table[s] \subseteq Entries(n)
    BY <1>12 DEF Entries
<1>20. Entries(x) = {e \in Entries(n) : e.key # key} \cup {new}
    BY <1>15, <1>16, <1>18, <1>19
<1>21. QED
    BY <1>2, <1>5, <1>6, <1>18, <1>20

LEMMA DeleteEntries ==
    ASSUME NEW d, WellHashed(d), NEW key \in Keys
    PROVE  /\ WellHashed(dictDelete(d, key))
           /\ Entries(dictDelete(d, key)) = {e \in Entries(d) : e.key # key}
<1>1. dictFind(d, key) = {e \in Entries(d) : e.key = key}
    BY FindEntries
<1>2. CASE dictFind(d, key) = {}
    BY <1>1, <1>2 DEF dictDelete
<1>3. CASE dictFind(d, key) # {}
  <2>1. d.table # <<>>
    BY <1>3 DEF dictFind
  <2>2. PICK s : s = Slot(d.table, key)
    BY Zenon
  <2>3. PICK chain : chain = d.table[s] \ dictFind(d, key)
    BY Zenon
  <2>4. PICK x : x = dictDelete(d, key)
    BY Zenon
  <2>5. x = [d EXCEPT !.table[s] = chain, !.used = @ - 1]
    BY <1>3, <2>2, <2>3, <2>4, Zenon DEF dictDelete
  <2>6. d = [table |-> d.table, used |-> d.used] /\ d.used \in Int /\ d.table \in Seq(SUBSET Chained)
    BY DEF WellHashed, Chained
  <2>7. x = [table |-> [d.table EXCEPT ![s] = chain], used |-> d.used - 1] /\ d.used - 1 \in Int
    <3>1. PICK u : u = d.used - 1
        BY Zenon
    <3>2. x = [d EXCEPT !.table[s] = chain, !.used = u]
        BY <2>5, <3>1, Zenon
    <3>3. x = [table |-> [d.table EXCEPT ![s] = chain], used |-> u]
        BY <2>6, <3>2
    <3>4. QED
        BY <2>6, <3>1, <3>3
  <2>8. s \in DOMAIN d.table
    BY <2>1, <2>2, <2>6, SlotInTable
  <2>9. d.table[s] \subseteq Chained /\ \A f \in d.table[s] : Slot(d.table, f.key) = s
    BY <2>6, <2>8 DEF WellHashed
  <2>10. chain \in SUBSET Chained /\ \A f \in chain : Slot(d.table, f.key) = s
    BY <2>3, <2>9
  <2>11. WellHashed(x) /\ Entries(x) = (Entries(d) \ d.table[s]) \cup chain
    <3>1. SlotChain(d, key, chain)
        BY <2>2, <2>10 DEF SlotChain
    <3>2. WithChain(d, key, chain, d.used - 1, x)
        BY <2>2, <2>7 DEF WithChain
    <3>3. QED
        BY <2>1, <2>2, <3>1, <3>2, ChangedSlot
  <2>12. d.table[s] \subseteq Entries(d) /\ dictFind(d, key) \subseteq d.table[s]
    BY <1>1, <2>1, <2>2, <2>8 DEF Entries, dictFind
  <2>13. Entries(x) = {e \in Entries(d) : e.key # key}
    BY <1>1, <2>3, <2>11, <2>12
  <2>14. QED
    BY <2>4, <2>11, <2>13
<1>4. QED
    BY <1>2, <1>3

-----------------------------------------------------------------------------
(* What a step leaves alone.                                               *)

SameSubscribed(c, d) == "SUBSCRIBED" \in c.flags <=> "SUBSCRIBED" \in d.flags

(* Messages may move along the wire, and the connection may end.           *)
SameWire ==
    /\ Coming' = Coming /\ Going' = Going /\ Served' = Served
    /\ UNCHANGED <<fresh, subs, want, leaving, issued>> /\ (eof => eof')

LEMMA SameStream ==
    ASSUME Stream, SameWire
    PROVE  Stream'
<1>1. Coming' = Coming /\ Going' = Going /\ Served' = Served /\ fresh' = fresh /\ subs' = subs
      /\ want' = want /\ leaving' = leaving /\ issued' = issued /\ (eof => eof')
    BY DEF SameWire
<1>2. Known'
    BY <1>1 DEF Stream, Known
<1>3. Commands'
    BY <1>1 DEF Stream, Commands
<1>4. Fresh'
    BY <1>1 DEF Stream, Fresh
<1>5. ~Dead' => ~Dead
    BY <1>1 DEF Dead
<1>6. Chain => Chain'
    BY <1>1 DEF Chain
<1>7. Replies => Replies'
    BY <1>1 DEF Replies
<1>8. QED
    BY <1>2, <1>3, <1>4, <1>5, <1>6, <1>7 DEF Stream

LEMMA SameLists ==
    ASSUME Lists, ac'.replies = ac.replies, ac'.invalid = ac.invalid, SameSubscribed(ac, ac'), issued' = issued
    PROVE  Lists'
  BY DEF Lists, SameSubscribed, Ascending

LEMMA SameMatch ==
    ASSUME Match, SameWire, ac'.replies = ac.replies, ac'.invalid = ac.invalid, SameSubscribed(ac, ac'),
           Live' => Live
    PROVE  Match'
<1>1. Coming' = Coming /\ Served' = Served /\ fresh' = fresh /\ subs' = subs
      /\ issued' = issued /\ (eof => eof')
    BY DEF SameWire
<1>2. Answered' = Answered
    BY <1>1 DEF Answered
<1>3. ~Dead' => ~Dead
    BY <1>1 DEF Dead
<1>4. QED
    BY <1>1, <1>2, <1>3 DEF Match, SameSubscribed

LEMMA SameCalled ==
    ASSUME Called, calls' = calls, issued' = issued, ac'.replies = ac.replies, ac'.invalid = ac.invalid,
           iter' = iter, ListsDone => ListsDone'
    PROVE  Called'
  BY DEF Called, Answers, Pending

LEMMA SameIterated ==
    ASSUME Iterated, calls' = calls, want' = want, iter' = iter, ListsDone' => ListsDone,
           pc' = "freed" => pc = "freed"
    PROVE  Iterated'
  BY DEF Iterated, Entry

LEMMA SameDictionaries ==
    ASSUME Dictionaries, want' = want, ac'.channels = ac.channels, ac'.patterns = ac.patterns,
           pc' # "freed" => pc # "freed"
    PROVE  Dictionaries'
  BY DEF Dictionaries, Entry

(* A step that only moves the thread, sets flags of the context or moves   *)
(* messages along the wire.                                                *)
SameContext(c, d) ==
    /\ d.replies = c.replies /\ d.invalid = c.invalid
    /\ d.channels = c.channels /\ d.patterns = c.patterns
    /\ SameSubscribed(c, d) /\ ("MONITORING" \in d.flags => "MONITORING" \in c.flags)
SameThread ==
    /\ pc # "freed" /\ pc' \notin {"none", "freed"}
    /\ (ListsDone' <=> ListsDone) /\ (Live' => Live) /\ Reading'
SameStory == UNCHANGED <<issued, calls, iter, crossed>>

LEMMA Quiet ==
    ASSUME SInv, SameContext(ac, ac'), SameThread, SameStory, Domains => SameWire /\ Domains'
    PROVE  SInv'
<1>1. Unborn' /\ Reading'
    BY DEF SameThread, Unborn
<1>2. Monitored' <=> Monitored
    BY DEF Monitored, SameStory
<1>3. Monitors'
    BY <1>2 DEF SInv, Monitors, SameContext
<1>4. ASSUME ~Monitored', ~crossed' PROVE Story'
  <2>1. Story
    BY <1>2, <1>4 DEF SInv, SameStory
  <2>2. SameWire /\ Domains'
    BY <2>1 DEF Story
  <2>3. Stream'
    BY <2>1, <2>2, SameStream DEF Story
  <2>4. Lists'
    BY <2>1, SameLists DEF Story, SameStory, SameContext
  <2>5. Match'
    BY <2>1, <2>2, SameMatch DEF Story, SameThread, SameContext
  <2>6. Called'
    BY <2>1, SameCalled DEF Story, SameStory, SameContext, SameThread
  <2>7. Iterated'
    BY <2>1, <2>2, SameIterated DEF Story, SameStory, SameWire, SameThread
  <2>8. Dictionaries'
    BY <2>1, <2>2, SameDictionaries DEF Story, SameWire, SameContext, SameThread
  <2>9. QED
    BY <2>2, <2>3, <2>4, <2>5, <2>6, <2>7, <2>8 DEF Story
<1>5. QED
    BY <1>1, <1>3, <1>4 DEF SInv

(* The same when no message moves.                                         *)
SameElse == UNCHANGED <<sent, inflight, eof, fresh, subs, want, leaving, issued, calls, iter, crossed>>
SameBuffers(c, d) == d.reader = c.reader /\ d.obuf = c.obuf /\ d.cb \in {0, c.cb}

LEMMA Still ==
    ASSUME SInv, SameContext(ac, ac'), SameBuffers(ac, ac'), SameThread, SameElse
    PROVE  SInv'
<1>1. SameStory /\ UNCHANGED <<sent, inflight, eof, fresh, subs, want, leaving, issued, calls>>
    BY DEF SameStory, SameElse
<1>2. Coming' = Coming /\ Going' = Going /\ Served' = Served
    BY <1>1 DEF SameBuffers, Coming, Going, Served
<1>3. SameWire
    BY <1>1, <1>2 DEF SameWire
<1>4. Domains => Domains'
    BY <1>1, <1>2 DEF Domains, SameContext, SameBuffers
<1>5. QED
    BY <1>1, <1>3, <1>4, Quiet

-----------------------------------------------------------------------------
(* The steps that leave the story alone.                                   *)

LEMMA SetCallbacksTells ==
    ASSUME IInv, SInv, redisAsyncSetConnectCallback \/ redisAsyncSetDisconnectCallback
    PROVE  SInv'
<1>0. IsContext(ac)
    BY DEF IInv, Types
<1>1. SameContext(ac, ac') /\ SameBuffers(ac, ac') /\ ac'.err = ac.err
    BY <1>0 DEF redisAsyncSetConnectCallback, redisAsyncSetDisconnectCallback, IsContext,
       SameContext, SameBuffers, SameSubscribed
<1>2. pc = "idle" /\ UNCHANGED <<pc, after>> /\ SameElse
    BY DEF redisAsyncSetConnectCallback, redisAsyncSetDisconnectCallback, Starting, SameElse, wire, server, ghosts
<1>3. SameThread
    BY <1>1, <1>2 DEF SameThread, Live, ListsDone, Freeing, Reading
<1>4. QED
    BY <1>1, <1>2, <1>3, Still

LEMMA EndAskedTells ==
    ASSUME IInv, SInv, redisAsyncFree \/ redisAsyncDisconnect
    PROVE  SInv'
<1>0. IsContext(ac) /\ Places
    BY DEF IInv, Types, Rest
<1>1. SameContext(ac, ac') /\ SameBuffers(ac, ac') /\ ac'.err = ac.err
    BY <1>0 DEF redisAsyncFree, redisAsyncDisconnect, IsContext, SameContext, SameBuffers, SameSubscribed
<1>2. /\ pc \in {"idle", "callback", "onconnect"} /\ after' = after /\ SameElse
      /\ pc' = pc \/ (pc # "callback" /\ pc' \in {"free", "aborted", "disconnect"})
    BY DEF redisAsyncFree, redisAsyncDisconnect, InApp, SameElse, wire, server, ghosts
<1>3. SameThread
    BY <1>0, <1>1, <1>2 DEF SameThread, Live, ListsDone, Freeing, Ending, Reading, SInv, Places
<1>4. QED
    BY <1>1, <1>2, <1>3, Still

LEMMA ReturnsTells ==
    ASSUME IInv, SInv, CallbackReturns \/ ConnectCallbackReturns
    PROVE  SInv'
<1>0. IsContext(ac) /\ Places
    BY DEF IInv, Types, Rest
<1>1. SameContext(ac, ac') /\ SameBuffers(ac, ac') /\ ac'.err = ac.err
    BY <1>0 DEF CallbackReturns, ConnectCallbackReturns, IsContext, SameContext, SameBuffers, SameSubscribed
<1>2. SameElse
    BY DEF CallbackReturns, ConnectCallbackReturns, SameElse, wire, server, ghosts
<1>3. \/ pc = "callback" /\ pc' = (IF after = "process" /\ Flag("FREEING") THEN "free" ELSE after)
      \/ pc = "onconnect" /\ pc' = after
    BY DEF CallbackReturns, ConnectCallbackReturns
<1>4. SameThread
    BY <1>0, <1>1, <1>3 DEF SameThread, Live, ListsDone, Freeing, Ending, Reading, SInv, Places
<1>5. QED
    BY <1>1, <1>2, <1>4, Still

LEMMA DisconnectNowTells ==
    ASSUME IInv, SInv, redisAsyncDisconnectNow
    PROVE  SInv'
<1>0. IsContext(ac)
    BY DEF IInv, Types
<1>1. SameContext(ac, ac') /\ SameBuffers(ac, ac') /\ ac'.err = ac.err
    BY <1>0 DEF redisAsyncDisconnectNow, IsContext, SameContext, SameBuffers, SameSubscribed
<1>2. pc = "disconnect" /\ pc' \in {"free", "aborted"} /\ after' = after /\ SameElse
    BY DEF redisAsyncDisconnectNow, SameElse, wire, server, ghosts
<1>3. SameThread
    BY <1>1, <1>2 DEF SameThread, Live, ListsDone, Freeing, Ending, Reading
<1>4. QED
    BY <1>1, <1>2, <1>3, Still

LEMMA EventTells ==
    ASSUME IInv, SInv, ReadEvent \/ WriteEvent
    PROVE  SInv'
<1>0. IsContext(ac)
    BY DEF IInv, Types
<1>1. SameContext(ac, ac') /\ SameBuffers(ac, ac') /\ (ac'.err = "none" => ac.err = "none")
    BY <1>0 DEF ReadEvent, WriteEvent, HandleConnect, IsContext, SameContext, SameBuffers, SameSubscribed
<1>2. pc = "idle" /\ pc' \in {"read", "write", "onconnect", "disconnect", "idle"}
      /\ SameElse
    BY DEF ReadEvent, WriteEvent, HandleConnect, SameElse, wire, server, ghosts
<1>3. SameThread
    BY <1>1, <1>2 DEF SameThread, Live, ListsDone, Freeing, Ending, Reading
<1>4. QED
    BY <1>1, <1>2, <1>3, Still

(* A step after which the story need not be told.                          *)
LEMMA Untold ==
    ASSUME SInv, Monitored' \/ crossed', pc' # "none", Reading', Monitors'
    PROVE  SInv'
  BY DEF SInv, Unborn

LEMMA NoReplyTells ==
    ASSUME IInv, SInv, NoReply
    PROVE  SInv'
<1>0. IsContext(ac)
    BY DEF IInv, Types
<1>1. pc = "process" /\ pc' \in {"disconnect", "idle"} /\ SameElse
    BY DEF NoReply, SameElse, wire, server, ghosts
<1>2. \/ ac' = ac
      \/ ac' = [ac EXCEPT !.replies = IF Flag("MONITORING") THEN Append(@, ac.cb) ELSE @, !.cb = 0]
    BY DEF NoReply
<1>3. ac'.err = ac.err /\ ac'.flags = ac.flags
    BY <1>0, <1>2 DEF IsContext
<1>4. CASE Flag("MONITORING")
  <2>1. Monitored /\ (Monitored' <=> Monitored)
    BY <1>1, <1>4 DEF SInv, Monitors, Flag, Monitored, SameElse
  <2>2. Reading' /\ Monitors'
    BY <1>1, <1>3, <2>1 DEF Reading, SInv, Monitors
  <2>3. QED
    BY <1>1, <2>1, <2>2, Untold
<1>5. CASE ~Flag("MONITORING")
  <2>1. SameContext(ac, ac') /\ SameBuffers(ac, ac')
    BY <1>0, <1>2, <1>5 DEF IsContext, SameContext, SameBuffers, SameSubscribed
  <2>2. SameThread
    BY <1>1, <1>3 DEF SameThread, Live, ListsDone, Freeing, Ending, Reading
  <2>3. QED
    BY <1>1, <2>1, <2>2, Still
<1>6. QED
    BY <1>4, <1>5

LEMMA GetReplyFailsTells ==
    ASSUME IInv, SInv, GetReplyFails
    PROVE  SInv'
<1>0. IsContext(ac)
    BY DEF IInv, Types
<1>1. pc = "process" /\ pc' = "disconnect" /\ SameElse /\ ac' = [ac EXCEPT !.err = "PROTOCOL"]
    BY DEF GetReplyFails, SameElse, wire, server, ghosts
<1>2. SameContext(ac, ac') /\ SameBuffers(ac, ac') /\ ac'.err = "PROTOCOL"
    BY <1>0, <1>1 DEF IsContext, SameContext, SameBuffers, SameSubscribed
<1>3. SameThread
    BY <1>1, <1>2 DEF SameThread, Live, ListsDone, Freeing, Ending, Reading
<1>4. QED
    BY <1>1, <1>2, <1>3, Still

(* A prefix moves from one buffer to the one before.                       *)
LEMMA MovePrefix ==
    ASSUME NEW S, NEW a \in Seq(S), NEW b \in Seq(S), NEW n \in 0 .. Len(b)
    PROVE  /\ a \o SubSeq(b, 1, n) \in Seq(S) /\ SubSeq(b, n + 1, Len(b)) \in Seq(S)
           /\ (a \o SubSeq(b, 1, n)) \o SubSeq(b, n + 1, Len(b)) = a \o b
           /\ Len(a \o SubSeq(b, 1, n)) + Len(SubSeq(b, n + 1, Len(b))) = Len(a) + Len(b)
<1>1. PICK c, d : c = SubSeq(b, 1, n) /\ d = SubSeq(b, n + 1, Len(b))
    BY Zenon
<1>2. n \in Nat /\ Len(b) \in Nat /\ n <= Len(b) /\ Len(a) \in Nat
    BY LenProperties
<1>3. \A i \in 1 .. Len(b) : b[i] \in S
    BY ElementOfSeq
<1>4. c \in Seq(S) /\ Len(c) = n
    BY <1>1, <1>2, <1>3, SubSeqProperties
<1>5. d \in Seq(S) /\ Len(d) = Len(b) - n
    BY <1>1, <1>2, <1>3, SubSeqProperties
<1>6. c \o d = b
  <2>1. 1 \in 1 .. Len(b) + 1 /\ n \in 1 - 1 .. Len(b) /\ Len(b) \in n .. Len(b)
    BY <1>2
  <2>2. SubSeq(b, 1, n) \o SubSeq(b, n + 1, Len(b)) = SubSeq(b, 1, Len(b))
    BY <2>1, ConcatAdjacentSubSeq, Zenon
  <2>3. QED
    BY <1>1, <2>2, SubSeqFull, Zenon
<1>7. (a \o c) \o d = a \o (c \o d)
  <2>1. \A s, t, u \in Seq(S) : (s \o t) \o u = s \o (t \o u)
    BY ConcatAssociative, SMTT(30)
  <2>2. c \in Seq(S) /\ d \in Seq(S)
    BY <1>4, <1>5
  <2>3. QED
    BY <2>1, <2>2, Zenon
<1>8. Len(a \o c) = Len(a) + Len(c) /\ a \o c \in Seq(S)
    BY <1>4, ConcatProperties, Zenon
<1>9. (a \o c) \o d = a \o b
    BY <1>6, <1>7, Zenon
<1>10. Len(a \o c) + Len(d) = Len(a) + Len(b)
    BY <1>2, <1>4, <1>5, <1>8
<1>11. QED
    BY <1>1, <1>5, <1>8, <1>9, <1>10, Zenon

LEMMA HandleReadTells ==
    ASSUME IInv, SInv, redisAsyncHandleRead
    PROVE  SInv'
<1>0. IsContext(ac)
    BY DEF IInv, Types
<1>1. pc = "read" /\ UNCHANGED <<sent, eof, fresh, subs, want, leaving, issued, calls, iter, crossed>>
    BY Zenon DEF redisAsyncHandleRead, server, ghosts
<1>2. CASE pc' = "disconnect"
  <2>1. ac' = [ac EXCEPT !.err = IF @ = "none" THEN "EOF" ELSE @] /\ inflight' = inflight
    BY <1>1, <1>2 DEF redisAsyncHandleRead
  <2>2. SameContext(ac, ac') /\ SameBuffers(ac, ac')
    BY <1>0, <2>1 DEF IsContext, SameContext, SameBuffers, SameSubscribed
  <2>3. SameThread
    <3>1. ac'.err # "none"
        BY <1>0, <2>1 DEF IsContext
    <3>2. QED
        BY <1>1, <1>2, <3>1 DEF SameThread, Live, ListsDone, Freeing, Ending, Reading
  <2>4. SameElse
    BY <1>1, <2>1 DEF SameElse
  <2>5. QED
    BY <2>2, <2>3, <2>4, Still
<1>3. CASE pc' # "disconnect"
  <2>1. ac.err = "none" /\ pc' = "process"
    BY <1>3, Zenon DEF redisAsyncHandleRead
  <2>2. PICK n \in 0 .. Len(inflight) :
          /\ ac' = [ac EXCEPT !.reader = @ \o SubSeq(inflight, 1, n), !.part = (n = 0), !.cb = 0]
          /\ inflight' = SubSeq(inflight, n + 1, Len(inflight))
    BY <1>3, Zenon DEF redisAsyncHandleRead
  <2>3. PICK q, p : q = ac.reader \o SubSeq(inflight, 1, n) /\ p = (n = 0)
    BY Zenon
  <2>4. ac' = [ac EXCEPT !.reader = q, !.part = p, !.cb = 0]
    BY <2>2, <2>3, Zenon
  <2>5. /\ ac'.reader = q /\ ac'.obuf = ac.obuf /\ ac'.cb = 0 /\ ac'.err = ac.err
        /\ SameContext(ac, ac')
    BY <1>0, <2>4 DEF IsContext, SameContext, SameSubscribed
  <2>6. SameThread
    BY <1>1, <2>1, <2>5 DEF SameThread, Live, ListsDone, Freeing, Ending, Reading
  <2>7. SameStory
    BY <1>1 DEF SameStory
  <2>8. ASSUME Domains PROVE SameWire /\ Domains'
    <3>1. ac.reader \in Seq(Message) /\ inflight \in Seq(Message)
        BY <2>8 DEF Domains
    <3>2. q \in Seq(Message) /\ inflight' \in Seq(Message) /\ q \o inflight' = ac.reader \o inflight
        BY <2>2, <2>3, <3>1, MovePrefix
    <3>3. Coming' = Coming
        BY <2>5, <3>2 DEF Coming
    <3>4. Going' = Going /\ Served' = Served
        BY <1>1, <2>5 DEF Going, Served
    <3>5. SameWire
        BY <1>1, <3>3, <3>4 DEF SameWire
    <3>6. ac'.reader \in Seq(Message) /\ ac'.cb \in Nat
        BY <2>5, <3>2
    <3>7. Domains'
        BY <1>1, <2>5, <2>8, <3>2, <3>4, <3>6 DEF Domains, SameContext
    <3>8. QED
        BY <3>5, <3>7
  <2>9. QED
    BY <2>5, <2>6, <2>7, <2>8, Quiet
<1>4. QED
    BY <1>2, <1>3

LEMMA HandleWriteTells ==
    ASSUME IInv, SInv, redisAsyncHandleWrite
    PROVE  SInv'
<1>0. IsContext(ac) /\ ac.obuf \in Seq(Outgoing)
    BY DEF IInv, Types
<1>1. pc = "write" /\ UNCHANGED <<inflight, eof, fresh, subs, want, leaving, issued, calls, iter, crossed>>
    BY DEF redisAsyncHandleWrite, server, ghosts
<1>2. CASE pc' = "disconnect"
  <2>1. ac' = [ac EXCEPT !.err = "IO"] /\ sent' = sent
    BY <1>1, <1>2 DEF redisAsyncHandleWrite
  <2>2. SameContext(ac, ac') /\ SameBuffers(ac, ac') /\ ac'.err # "none"
    BY <1>0, <2>1 DEF IsContext, SameContext, SameBuffers, SameSubscribed
  <2>3. SameThread
    BY <1>1, <1>2, <2>2 DEF SameThread, Live, ListsDone, Freeing, Ending, Reading
  <2>4. SameElse
    BY <1>1, <2>1 DEF SameElse
  <2>5. QED
    BY <2>2, <2>3, <2>4, Still
<1>3. CASE pc' # "disconnect"
  <2>1. ac.err = "none" /\ pc' = "idle"
    BY <1>3 DEF redisAsyncHandleWrite
  <2>2. PICK n \in 0 .. Len(ac.obuf) :
          /\ ac' = [ac EXCEPT !.obuf = SubSeq(@, n + 1, Len(@))]
          /\ sent' = sent \o SubSeq(ac.obuf, 1, n)
    BY <1>3 DEF redisAsyncHandleWrite
  <2>3. PICK q : q = SubSeq(ac.obuf, n + 1, Len(ac.obuf))
    BY Zenon
  <2>4. ac' = [ac EXCEPT !.obuf = q]
    BY <2>2, <2>3, Zenon
  <2>5. /\ ac'.reader = ac.reader /\ ac'.obuf = q /\ ac'.cb = ac.cb /\ ac'.err = ac.err
        /\ SameContext(ac, ac')
    BY <1>0, <2>4 DEF IsContext, SameContext, SameSubscribed
  <2>6. SameThread
    BY <1>1, <2>1, <2>5 DEF SameThread, Live, ListsDone, Freeing, Ending, Reading
  <2>7. SameStory
    BY <1>1 DEF SameStory
  <2>8. ASSUME Domains PROVE SameWire /\ Domains'
    <3>1. sent \in Seq(Outgoing) /\ Len(sent) \in Nat /\ Len(ac.obuf) \in Nat
        BY <1>0, <2>8, LenProperties DEF Domains
    <3>2. sent' \in Seq(Outgoing) /\ q \in Seq(Outgoing) /\ sent' \o q = sent \o ac.obuf
          /\ Len(sent') + Len(q) = Len(sent) + Len(ac.obuf)
        BY <1>0, <2>2, <2>3, <3>1, MovePrefix, ZenonT(30)
    <3>3. Coming' = Coming
        BY <1>1, <2>5 DEF Coming
    <3>4. Going' = Going /\ Served' = Served
      <4>1. Going' = Going
        BY <2>5, <3>2 DEF Going
      <4>2. Len(issued) \in Nat /\ Len(sent') \in Nat /\ Len(q) \in Nat
        BY <3>2, LenProperties DEF IInv, Types
      <4>3. PICK l, m, x, y, z : l = Len(issued) /\ m = Len(sent') /\ x = Len(q) /\ y = Len(sent) /\ z = Len(ac.obuf)
        BY Zenon
      <4>5. l \in Nat /\ m \in Nat /\ x \in Nat /\ y \in Nat /\ z \in Nat /\ m + x = y + z
        BY <3>1, <3>2, <4>2, <4>3, Zenon
      <4>6. l - m - x = l - y - z
        BY <4>5
      <4>4. QED
        BY <1>1, <2>5, <4>1, <4>3, <4>6, Zenon DEF Served
    <3>5. SameWire
        BY <1>1, <3>3, <3>4 DEF SameWire
    <3>6. ac'.cb \in Nat
        BY <2>5, <2>8 DEF Domains
    <3>7. Domains'
        BY <1>1, <2>5, <2>8, <3>2, <3>4, <3>6 DEF Domains, SameContext
    <3>8. QED
        BY <3>5, <3>7
  <2>9. QED
    BY <2>5, <2>6, <2>7, <2>8, Quiet
<1>4. QED
    BY <1>2, <1>3

LEMMA ConnectionFailsTells ==
    ASSUME IInv, SInv, ConnectionFails
    PROVE  SInv'
<1>1. pc \in {"idle", "onconnect"} /\ eof' = TRUE
      /\ UNCHANGED <<ac, pc, after, sent, inflight, fresh, subs, want, leaving, issued, calls, iter, crossed>>
    BY DEF ConnectionFails, Between, server, ghosts
<1>2. Coming' = Coming /\ Going' = Going /\ Served' = Served
    BY <1>1 DEF Coming, Going, Served
<1>3. SameWire /\ SameStory
    BY <1>1, <1>2 DEF SameWire, SameStory
<1>4. Domains => Domains'
    BY <1>1, <1>2 DEF Domains
<1>5. SameContext(ac, ac')
    BY <1>1 DEF SameContext, SameSubscribed
<1>6. SameThread
    BY <1>1 DEF SameThread, Live, ListsDone, Freeing, Ending, Reading
<1>7. QED
    BY <1>3, <1>4, <1>5, <1>6, Quiet

LEMMA ConnectTells ==
    ASSUME IInv, SInv, redisAsyncConnect
    PROVE  SInv'
<1>1. pc = "none" /\ pc' = "idle" /\ (eof => eof')
      /\ UNCHANGED <<after, sent, inflight, fresh, subs, want, leaving, issued, calls, iter, crossed>>
    BY DEF redisAsyncConnect, server, ghosts
<1>2. ac = Created /\ (ac' = Created \/ ac' = [Created EXCEPT !.err = "IO"])
    BY <1>1 DEF redisAsyncConnect, SInv, Unborn
<1>3. SameContext(ac, ac') /\ SameBuffers(ac, ac') /\ ac.err = "none"
  <2>1. CASE ac' = Created
    BY <1>2, <2>1 DEF Created, SameContext, SameSubscribed, SameBuffers
  <2>2. CASE ac' = [Created EXCEPT !.err = "IO"]
    BY <1>2, <2>2 DEF Created, SameContext, SameSubscribed, SameBuffers
  <2>3. QED
    BY <1>2, <2>1, <2>2
<1>4. Coming' = Coming /\ Going' = Going /\ Served' = Served
    BY <1>1, <1>3 DEF Coming, Going, Served, SameBuffers
<1>5. SameWire /\ SameStory
    BY <1>1, <1>4 DEF SameWire, SameStory
<1>6. Domains => Domains'
    BY <1>1, <1>3, <1>4 DEF Domains, SameContext, SameBuffers
<1>7. SameThread
    BY <1>1, <1>3 DEF SameThread, Live, ListsDone, Freeing, Ending, Reading
<1>8. QED
    BY <1>3, <1>5, <1>6, <1>7, Quiet

LEMMA InitTells == Init => SInv
<1> SUFFICES ASSUME Init PROVE SInv
    OBVIOUS
<1>1. /\ ac = Created /\ pc = "none" /\ after = "none" /\ iter = {} /\ sent = <<>> /\ inflight = <<>>
      /\ eof = FALSE /\ fresh = TRUE /\ subs = {} /\ issued = <<>> /\ calls = <<>> /\ want = <<>>
      /\ leaving = {}
    BY DEF Init
<1>2. /\ ac.flags = {} /\ ac.err = "none" /\ ac.replies = <<>> /\ ac.invalid = <<>> /\ ac.reader = <<>>
      /\ ac.obuf = <<>> /\ ac.cb = 0 /\ ac.channels = dictCreate /\ ac.patterns = dictCreate
    BY <1>1 DEF Created
<1>3. Unborn /\ Reading /\ Monitors
    BY <1>1, <1>2 DEF Unborn, Reading, Monitors
<1>4. Coming = <<>> /\ Going = <<>> /\ Served = 0 /\ Len(issued) = 0
  <2>1. <<>> \o <<>> = <<>> /\ Len(<<>>) = 0
    OBVIOUS
  <2>2. Coming = <<>> /\ Going = <<>>
    BY <1>1, <1>2, <2>1, Zenon DEF Coming, Going
  <2>3. Len(issued) = 0 /\ Len(sent) = 0 /\ Len(ac.obuf) = 0
    BY <1>1, <1>2, <2>1, Zenon
  <2>4. Served = 0
    BY <2>3 DEF Served
  <2>5. QED
    BY <2>2, <2>3, <2>4
<1>5. DOMAIN issued = {} /\ DOMAIN Going = {} /\ DOMAIN Coming = {} /\ DOMAIN want = {} /\ DOMAIN calls = {}
      /\ DOMAIN ac.replies = {} /\ DOMAIN ac.invalid = {}
    BY <1>1, <1>2, <1>4
<1>6. Domains
  <2>1. \A S : <<>> \in Seq(S)
    OBVIOUS
  <2>2. IsFiniteSet({})
    BY FS_EmptySet
  <2>3. QED
    BY <1>1, <1>2, <1>4, <1>5, <2>1, <2>2 DEF Domains
<1>7. Stream
  <2>1. Known /\ Commands
    BY <1>1, <1>5 DEF Known, Commands
  <2>2. Fresh
    BY <1>1, <1>4 DEF Fresh
  <2>3. Chain
    BY <1>4, <1>5 DEF Chain
  <2>4. Replies
    BY <1>5 DEF Replies
  <2>5. QED
    BY <2>1, <2>2, <2>3, <2>4 DEF Stream
<1>8. Lists
    BY <1>2, <1>5 DEF Lists, Ascending
<1>9. Match
  <2>1. Answered = 0
    BY <1>1 DEF Answered
  <2>2. Len(ac.replies) = 0
    BY <1>2
  <2>3. QED
    BY <1>1, <1>4, <1>5, <2>1, <2>2 DEF Match
<1>10. Called
    BY <1>5 DEF Called
<1>11. Iterated
    BY <1>1 DEF Iterated, ListsDone
<1>12. Dictionaries
  <2>1. WellHashed(dictCreate) /\ Entries(dictCreate) = {}
    <3>1. \A S : <<>> \in Seq(S)
        OBVIOUS
    <3>2. DOMAIN <<>> = {}
        OBVIOUS
    <3>3. QED
        BY <3>1, <3>2 DEF WellHashed, dictCreate, Entries
  <2>2. QED
    BY <1>2, <1>5, <2>1 DEF Dictionaries
<1>13. QED
    BY <1>3, <1>6, <1>7, <1>8, <1>9, <1>10, <1>11, <1>12 DEF SInv, Story

-----------------------------------------------------------------------------
(* Sequences and messages.                                                 *)

LEMMA AppendedTo ==
    ASSUME NEW S, NEW q \in Seq(S), NEW x \in S
    PROVE  /\ Append(q, x) \in Seq(S) /\ Len(q) \in Nat /\ Len(Append(q, x)) = Len(q) + 1
           /\ DOMAIN q = 1 .. Len(q) /\ DOMAIN Append(q, x) = 1 .. Len(q) + 1
           /\ \A i \in 1 .. Len(q) : Append(q, x)[i] = q[i]
           /\ Append(q, x)[Len(q) + 1] = x
  BY AppendProperties, LenProperties

LEMMA TailOf ==
    ASSUME NEW S, NEW q \in Seq(S), q # <<>>
    PROVE  /\ Tail(q) \in Seq(S) /\ Len(q) \in Nat \ {0} /\ Len(Tail(q)) = Len(q) - 1
           /\ Head(q) = q[1] /\ Head(q) \in S
           /\ DOMAIN q = 1 .. Len(q) /\ DOMAIN Tail(q) = 1 .. Len(q) - 1
           /\ \A i \in 1 .. Len(q) - 1 : Tail(q)[i] = q[i + 1]
<1>1. Head(q) = q[1]
    OBVIOUS
<1>2. QED
    BY <1>1, HeadTailProperties, LenProperties, EmptySeq

LEMMA ConcatOf ==
    ASSUME NEW S, NEW s \in Seq(S), NEW t \in Seq(S)
    PROVE  /\ s \o t \in Seq(S) /\ Len(s \o t) = Len(s) + Len(t) /\ Len(s) \in Nat /\ Len(t) \in Nat
           /\ \A i \in 1 .. Len(s) : (s \o t)[i] = s[i]
           /\ \A i \in 1 .. Len(t) : (s \o t)[Len(s) + i] = t[i]
<1>1. Len(s) \in Nat /\ Len(t) \in Nat
    BY LenProperties
<1>2. s \o t \in Seq(S) /\ Len(s \o t) = Len(s) + Len(t)
    BY ConcatProperties
<1>3. \A i \in 1 .. Len(s) + Len(t) : (s \o t)[i] = IF i <= Len(s) THEN s[i] ELSE t[i - Len(s)]
    BY ConcatProperties
<1>4. \A i \in 1 .. Len(s) : (s \o t)[i] = s[i]
    BY <1>1, <1>3
<1>5. ASSUME NEW i \in 1 .. Len(t) PROVE (s \o t)[Len(s) + i] = t[i]
  <2>1. Len(s) + i \in 1 .. Len(s) + Len(t) /\ ~(Len(s) + i <= Len(s)) /\ Len(s) + i - Len(s) = i
    BY <1>1
  <2>2. QED
    BY <1>3, <2>1
<1>6. QED
    BY <1>1, <1>2, <1>4, <1>5

(* A sequence between two others grows or shrinks with them.               *)
LEMMA ConcatAppend ==
    ASSUME NEW S, NEW s \in Seq(S), NEW t \in Seq(S), NEW x \in S
    PROVE  s \o Append(t, x) = Append(s \o t, x)
<1>1. PICK a, u, b : a = Append(t, x) /\ u = s \o t /\ b = s \o a
    BY Zenon
<1>2. /\ a \in Seq(S) /\ Len(a) = Len(t) + 1 /\ a[Len(t) + 1] = x
      /\ \A i \in 1 .. Len(t) : a[i] = t[i]
    BY <1>1, AppendedTo
<1>3. /\ u \in Seq(S) /\ Len(u) = Len(s) + Len(t) /\ Len(s) \in Nat /\ Len(t) \in Nat
      /\ \A i \in 1 .. Len(s) : u[i] = s[i]
      /\ \A i \in 1 .. Len(t) : u[Len(s) + i] = t[i]
    BY <1>1, ConcatOf
<1>4. /\ b \in Seq(S) /\ Len(b) = Len(s) + Len(a)
      /\ \A i \in 1 .. Len(s) : b[i] = s[i]
      /\ \A i \in 1 .. Len(a) : b[Len(s) + i] = a[i]
    BY <1>1, <1>2, ConcatOf
<1>5. PICK c : c = Append(u, x)
    BY Zenon
<1>6. /\ c \in Seq(S) /\ Len(c) = Len(u) + 1 /\ c[Len(u) + 1] = x
      /\ \A i \in 1 .. Len(u) : c[i] = u[i]
    BY <1>3, <1>5, AppendedTo, SMTT(30)
<1>7. ASSUME NEW i \in 1 .. Len(b) PROVE b[i] = c[i]
  <2>1. CASE i <= Len(s)
    BY <1>3, <1>4, <1>6, <2>1
  <2>2. CASE i > Len(s) /\ i <= Len(s) + Len(t)
    <3>1. PICK j : j = i - Len(s)
        BY Zenon
    <3>2. j \in 1 .. Len(t) /\ i = Len(s) + j
        BY <1>3, <2>2, <3>1
    <3>3. b[i] = a[j] /\ a[j] = t[j] /\ c[i] = u[i] /\ u[i] = t[j]
        BY <1>2, <1>3, <1>4, <1>6, <2>2, <3>2
    <3>4. QED
        BY <3>3
  <2>3. CASE i > Len(s) + Len(t)
    <3>0. Len(b) = Len(s) + (Len(t) + 1)
        BY <1>2, <1>4
    <3>1. i = Len(s) + (Len(t) + 1) /\ Len(t) + 1 \in 1 .. Len(a) /\ i = Len(u) + 1
        BY <1>2, <1>3, <2>3, <3>0, SMTT(30)
    <3>2. b[i] = a[Len(t) + 1]
        BY <1>4, <3>1
    <3>3. QED
        BY <1>2, <1>6, <3>1, <3>2
  <2>4. QED
    BY <1>3, <2>1, <2>2, <2>3
<1>8. b = c
  <2>1. Len(b) = Len(c)
    BY <1>2, <1>3, <1>4, <1>6
  <2>2. QED
    BY <1>4, <1>6, <1>7, <2>1, SeqEqual
<1>9. QED
    BY <1>1, <1>5, <1>8

LEMMA ConcatTail ==
    ASSUME NEW S, NEW s \in Seq(S), NEW t \in Seq(S), s # <<>>
    PROVE  /\ Tail(s) \o t = Tail(s \o t) /\ s \o t # <<>> /\ (s \o t)[1] = Head(s)
<1>1. PICK a, u, b : a = Tail(s) /\ u = s \o t /\ b = a \o t
    BY Zenon
<1>2. /\ a \in Seq(S) /\ Len(s) \in Nat \ {0} /\ Len(a) = Len(s) - 1 /\ Head(s) = s[1]
      /\ \A i \in 1 .. Len(s) - 1 : a[i] = s[i + 1]
    BY <1>1, TailOf
<1>3. /\ u \in Seq(S) /\ Len(u) = Len(s) + Len(t) /\ Len(t) \in Nat
      /\ \A i \in 1 .. Len(s) : u[i] = s[i]
      /\ \A i \in 1 .. Len(t) : u[Len(s) + i] = t[i]
    BY <1>1, ConcatOf
<1>4. /\ b \in Seq(S) /\ Len(b) = Len(a) + Len(t)
      /\ \A i \in 1 .. Len(a) : b[i] = a[i]
      /\ \A i \in 1 .. Len(t) : b[Len(a) + i] = t[i]
    BY <1>1, <1>2, ConcatOf
<1>5. u # <<>> /\ u[1] = Head(s)
    BY <1>2, <1>3
<1>6. PICK c : c = Tail(u)
    BY Zenon
<1>7. /\ c \in Seq(S) /\ Len(c) = Len(u) - 1
      /\ \A i \in 1 .. Len(u) - 1 : c[i] = u[i + 1]
    BY <1>3, <1>5, <1>6, TailOf
<1>8. ASSUME NEW i \in 1 .. Len(b) PROVE b[i] = c[i]
  <2>1. c[i] = u[i + 1]
    BY <1>2, <1>3, <1>4, <1>7
  <2>2. CASE i <= Len(a)
    BY <1>2, <1>3, <1>4, <2>1, <2>2
  <2>3. CASE i > Len(a)
    <3>1. PICK j : j = i - Len(a)
        BY Zenon
    <3>2. j \in 1 .. Len(t) /\ i = Len(a) + j /\ i + 1 = Len(s) + j
        BY <1>2, <1>3, <1>4, <2>3, <3>1
    <3>3. b[i] = t[j] /\ u[i + 1] = t[j]
        BY <1>3, <1>4, <3>2
    <3>4. QED
        BY <2>1, <3>3
  <2>4. QED
    BY <1>2, <2>2, <2>3
<1>9. b = c
  <2>1. Len(b) = Len(c)
    BY <1>2, <1>3, <1>4, <1>7
  <2>2. QED
    BY <1>4, <1>7, <1>8, <2>1, SeqEqual
<1>10. QED
    BY <1>1, <1>5, <1>6, <1>9

LEMMA MessageFields ==
    ASSUME NEW r \in Message
    PROVE  /\ r.type \in {"ARRAY", "STATUS", "ERROR"} /\ r.n \in Nat /\ r # NullReply
           /\ r.type = "ARRAY" => /\ r.what \in {"subscribe", "unsubscribe", "message"}
                                  /\ r.key \in Keys /\ r.count \in Nat
           /\ Step(r) \in {0, 1} /\ (Solicited(r) <=> Step(r) = 1)
<1>1. r \in Array \/ r \in Plain
    BY DEF Message
<1>2. r.type \in {"ARRAY", "STATUS", "ERROR"} /\ r.n \in Nat
    BY <1>1 DEF Array, Plain
<1>3. r # NullReply
    BY <1>2 DEF NullReply
<1>4. r.type = "ARRAY" => r \in Array
    BY <1>1 DEF Plain
<1>5. QED
    BY <1>2, <1>3, <1>4 DEF Array, Step

(* The numbers of the commands add up.                                     *)
LEMMA Counted ==
    ASSUME IInv, Domains, Stream
    PROVE  /\ Coming \in Seq(Message) /\ Len(Coming) \in Nat /\ DOMAIN Coming = 1 .. Len(Coming)
           /\ Going \in Seq(Outgoing) /\ Len(Going) \in Nat /\ DOMAIN Going = 1 .. Len(Going)
           /\ Len(issued) \in Nat /\ DOMAIN issued = 1 .. Len(issued) /\ Served \in Nat
           /\ Len(issued) = Served + Len(Going) /\ Served <= Len(issued)
           /\ ~Dead => Answered \in Nat /\ Answered <= Served
<1>1. ac.reader \in Seq(Message) /\ inflight \in Seq(Message) /\ sent \in Seq(Outgoing) /\ Served \in Nat
    BY DEF Domains
<1>2. ac.obuf \in Seq(Outgoing) /\ Len(issued) \in Nat /\ DOMAIN issued = 1 .. Len(issued)
    BY LenProperties DEF IInv, Types
<1>3. Coming \in Seq(Message) /\ Len(Coming) \in Nat /\ DOMAIN Coming = 1 .. Len(Coming)
    BY <1>1, ConcatOf, LenProperties DEF Coming
<1>4. Going \in Seq(Outgoing) /\ Len(Going) \in Nat /\ DOMAIN Going = 1 .. Len(Going)
    BY <1>1, <1>2, ConcatOf, LenProperties DEF Going
<1>5. Len(Going) = Len(sent) + Len(ac.obuf) /\ Len(sent) \in Nat /\ Len(ac.obuf) \in Nat
    BY <1>1, <1>2, ConcatOf DEF Going
<1>6. Len(issued) = Served + Len(Going)
    BY <1>2, <1>5 DEF Served
<1>7. Served <= Len(issued)
    BY <1>1, <1>2, <1>4, <1>6
<1>8. ~Dead => Answered \in Nat /\ Answered <= Served
  <2>1. CASE Coming = <<>> \/ fresh
    BY <1>1, <2>1 DEF Answered
  <2>2. CASE Coming # <<>> /\ ~fresh
    <3>1. 1 \in DOMAIN Coming
        BY <1>3, <2>2
    <3>2. Coming[1] \in Message
        BY <1>3, <3>1, ElementOfSeq
    <3>3. Coming[1].n >= Step(Coming[1]) /\ Coming[1].n <= Served
        BY <2>2, <3>1 DEF Stream, Chain, Dead
    <3>4. Coming[1].n \in Nat /\ Step(Coming[1]) \in {0, 1}
        BY <3>2, MessageFields
    <3>5. Answered = Coming[1].n - Step(Coming[1])
        BY <2>2 DEF Answered
    <3>6. QED
        BY <1>1, <3>3, <3>4, <3>5
  <2>3. QED
    BY <2>1, <2>2
<1>9. QED
    BY <1>1, <1>2, <1>3, <1>4, <1>6, <1>7, <1>8

(* The commands whose callbacks wait in the replies are regular.           *)
LEMMA WaitsForReply ==
    ASSUME IInv, Domains, Stream, Lists, Match, Live, ~Dead, NEW n \in Nat,
           n > Answered, n <= Answered + Len(ac.replies)
    PROVE  n \in DOMAIN issued /\ issued[n].kind \in Regular
<1>1. Answered \in Nat
    BY Counted
<1>2. Len(ac.replies) \in Nat /\ DOMAIN ac.replies = 1 .. Len(ac.replies)
    BY LenProperties DEF Domains
<1>3. PICK i : i = n - Answered
    BY Zenon
<1>4. i \in DOMAIN ac.replies /\ n = Answered + i
    BY <1>1, <1>2, <1>3
<1>5. ac.replies[i] = n
    BY <1>4 DEF Match
<1>6. QED
    BY <1>4, <1>5 DEF Lists

-----------------------------------------------------------------------------
(* The server.                                                             *)

(* The reply r goes into the wire behind what is coming.                   *)
Arrives(r) == Coming' = Append(Coming, r)

LEMMA InflightGrows ==
    ASSUME Domains, NEW r \in Message, inflight' = Append(inflight, r), ac' = ac
    PROVE  Arrives(r) /\ inflight' \in Seq(Message)
<1>1. ac.reader \in Seq(Message) /\ inflight \in Seq(Message)
    BY DEF Domains
<1>2. ac.reader \o Append(inflight, r) = Append(ac.reader \o inflight, r)
  <2>1. \A s, t \in Seq(Message) : \A x \in Message : s \o Append(t, x) = Append(s \o t, x)
    BY ConcatAppend
  <2>2. QED
    BY <1>1, <2>1, Zenon
<1>3. QED
    BY <1>1, <1>2, AppendedTo DEF Arrives, Coming

(* The command c is answered with r.                                       *)
AnsweredWith(c, r) ==
    /\ r \in Message /\ Solicited(r) /\ r.n = c.n
    /\ IF r.type = "ARRAY" THEN c.kind \notin Regular /\ r.what = c.kind /\ r.key = c.key
       ELSE c.kind \in Regular
    /\ subs' = IF c.kind = "subscribe" THEN subs \cup {c.key}
               ELSE IF c.kind = "unsubscribe" THEN subs \ {c.key} ELSE subs
    /\ c.kind = "unsubscribe" => r.count = Cardinality(subs')

LEMMA AnswerOf ==
    ASSUME NEW c \in Outgoing, c.kind # "monitor", (c.key = NoCommand) <=> c.kind \in Regular, IsFiniteSet(subs),
           subs' = CASE c.kind = "subscribe" -> subs \cup {c.key} [] c.kind = "unsubscribe" -> subs \ {c.key} [] OTHER -> subs
    PROVE  AnsweredWith(c, Answer(c))
<1>1. c.kind \in Kinds /\ c.key \in Keys \cup {NoCommand} /\ c.n \in Nat
    BY DEF Outgoing
<1>2. IsFiniteSet(subs \cup {c.key}) /\ IsFiniteSet(subs \ {c.key})
    BY FS_AddElement, FS_RemoveElement
<1>3. Cardinality(subs \cup {c.key}) \in Nat /\ Cardinality(subs \ {c.key}) \in Nat
    BY <1>2, FS_CardinalityType
<1>4. CASE c.kind = "subscribe"
  <2>1. PICK m : m = Cardinality(subs \cup {c.key})
    BY Zenon
  <2>2. Answer(c) = [type |-> "ARRAY", what |-> "subscribe", key |-> c.key, count |-> m, n |-> c.n]
    BY <1>4, <2>1 DEF Answer
  <2>3. c.key \in Keys
    BY <1>1, <1>4 DEF Regular
  <2>4. Answer(c) \in Array
    BY <1>1, <1>3, <2>1, <2>2, <2>3 DEF Array
  <2>5. subs' = subs \cup {c.key}
    BY <1>4
  <2>6. QED
    BY <1>4, <2>2, <2>4, <2>5 DEF AnsweredWith, Solicited, Message, Regular
<1>5. CASE c.kind = "unsubscribe"
  <2>1. PICK m : m = Cardinality(subs \ {c.key})
    BY Zenon
  <2>2. Answer(c) = [type |-> "ARRAY", what |-> "unsubscribe", key |-> c.key, count |-> m, n |-> c.n]
    BY <1>5, <2>1 DEF Answer
  <2>3. c.key \in Keys
    BY <1>1, <1>5 DEF Regular
  <2>4. Answer(c) \in Array
    BY <1>1, <1>3, <2>1, <2>2, <2>3 DEF Array
  <2>5. subs' = subs \ {c.key}
    BY <1>5
  <2>6. QED
    BY <1>5, <2>1, <2>2, <2>4, <2>5 DEF AnsweredWith, Solicited, Message, Regular
<1>6. CASE c.kind \in {"get", "quit"}
  <2>1. \/ Answer(c) = [type |-> "ERROR", n |-> c.n]
        \/ Answer(c) = [type |-> "STATUS", n |-> c.n]
    BY <1>6 DEF Answer
  <2>2. Answer(c) \in Plain
    BY <1>1, <2>1 DEF Plain
  <2>3. subs' = subs
    BY <1>6
  <2>4. QED
    BY <1>6, <2>1, <2>2, <2>3 DEF AnsweredWith, Solicited, Message, Regular
<1>7. QED
    BY <1>1, <1>4, <1>5, <1>6 DEF Kinds

LEMMA ServerAnswersTells ==
    ASSUME IInv, SInv, ServerAnswers
    PROVE  SInv'
<1>1. /\ pc \in {"idle", "onconnect"} /\ ~eof /\ sent # <<>> /\ sent' = Tail(sent) /\ fresh' = FALSE
      /\ inflight' = Append(inflight, Answer(Head(sent)))
      /\ UNCHANGED <<ac, pc, after, want, leaving, issued, calls, iter, crossed>>
    BY DEF ServerAnswers, Between, ghosts
<1>2. Unborn' /\ Reading' /\ Monitors' /\ (Monitored' <=> Monitored)
    BY <1>1 DEF Unborn, Reading, Monitors, Monitored, SInv
<1>3. SUFFICES ASSUME ~Monitored, ~crossed PROVE Story'
    BY <1>1, <1>2 DEF SInv
<1>4. Domains /\ Stream /\ Lists /\ Match /\ Called /\ Iterated /\ Dictionaries
    BY <1>3 DEF SInv, Story
<1>5. ~Dead /\ ~Dead' /\ Chain /\ Replies /\ Commands /\ Known
    BY <1>1, <1>4 DEF Dead, Stream
<1>6. PICK c : c = Head(sent)
    BY Zenon
<1>7. sent \in Seq(Outgoing) /\ ac.obuf \in Seq(Outgoing)
    BY <1>4 DEF Domains, IInv, Types
<1>8. c \in Outgoing /\ sent' \in Seq(Outgoing) /\ Len(sent') = Len(sent) - 1 /\ Len(sent) \in Nat
    BY <1>1, <1>6, <1>7, TailOf
<1>9. Going' = Tail(Going) /\ Going # <<>> /\ Going[1] = c
    BY <1>1, <1>6, <1>7, ConcatTail DEF Going
<1>10. /\ Coming \in Seq(Message) /\ Len(Coming) \in Nat /\ DOMAIN Coming = 1 .. Len(Coming)
       /\ Going \in Seq(Outgoing) /\ Len(Going) \in Nat /\ DOMAIN Going = 1 .. Len(Going)
       /\ Len(issued) \in Nat /\ DOMAIN issued = 1 .. Len(issued) /\ Served \in Nat
       /\ Len(issued) = Served + Len(Going)
       /\ Answered \in Nat /\ Answered <= Served
    BY <1>4, <1>5, Counted
<1>11. Len(Going) >= 1 /\ 1 \in DOMAIN Going /\ Served + 1 \in DOMAIN issued
    BY <1>9, <1>10
<1>12. /\ c.n = Served + 1 /\ issued[Served + 1] = [kind |-> c.kind, key |-> c.key]
       /\ c.kind \notin Regular => c.key \in DOMAIN want
       /\ c.kind = "unsubscribe" => c.key \in leaving /\ \A j \in DOMAIN Going : j > 1 => Going[j].key # c.key
    BY <1>5, <1>9, <1>11 DEF Commands
<1>13. Served' = Served + 1
  <2>1. Len(ac.obuf) \in Nat
    BY <1>7, LenProperties
  <2>2. QED
    BY <1>1, <1>8, <1>10, <2>1 DEF Served
<1>14. c.kind # "monitor" /\ ((c.key = NoCommand) <=> c.kind \in Regular)
  <2>1. issued[Served + 1].kind = c.kind /\ issued[Served + 1].key = c.key
    BY <1>12
  <2>2. QED
    BY <1>3, <1>4, <1>11, <2>1 DEF Monitored, Domains
<1>15. PICK r : r = Answer(c)
    BY Zenon
<1>16. AnsweredWith(c, r)
  <2>1. subs' = CASE c.kind = "subscribe" -> subs \cup {c.key} [] c.kind = "unsubscribe" -> subs \ {c.key} [] OTHER -> subs
    BY <1>6 DEF ServerAnswers
  <2>2. IsFiniteSet(subs)
    BY <1>4 DEF Domains
  <2>3. QED
    BY <1>8, <1>14, <1>15, <2>1, <2>2, AnswerOf
<1>17. /\ r \in Message /\ Solicited(r) /\ r.n = Served + 1 /\ Step(r) = 1
       /\ IF r.type = "ARRAY" THEN c.kind \notin Regular /\ r.what = c.kind /\ r.key = c.key ELSE c.kind \in Regular
       /\ subs' = IF c.kind = "subscribe" THEN subs \cup {c.key}
                  ELSE IF c.kind = "unsubscribe" THEN subs \ {c.key} ELSE subs
       /\ c.kind = "unsubscribe" => r.count = Cardinality(subs')
    BY <1>12, <1>16 DEF AnsweredWith, Step
<1>18. Coming' = Append(Coming, r) /\ inflight' \in Seq(Message)
    BY <1>1, <1>4, <1>6, <1>15, <1>17, InflightGrows DEF Arrives
<1>19. /\ DOMAIN Coming' = 1 .. Len(Coming) + 1 /\ Len(Coming') = Len(Coming) + 1
       /\ \A i \in 1 .. Len(Coming) : Coming'[i] = Coming[i]
       /\ Coming'[Len(Coming) + 1] = r
    BY <1>10, <1>17, <1>18, AppendedTo
<1>20. /\ DOMAIN Going' = 1 .. Len(Going) - 1
       /\ \A i \in 1 .. Len(Going) - 1 : Going'[i] = Going[i + 1]
    BY <1>9, <1>10, TailOf
<1>21. \A i \in DOMAIN Coming : Coming[i] \in Message /\ Coming[i].n \in Nat /\ Step(Coming[i]) \in {0, 1}
    BY <1>10, ElementOfSeq, MessageFields
<1>22. IsFiniteSet(subs') /\ subs' \subseteq Keys /\ subs' \subseteq DOMAIN want
  <2>1. IsFiniteSet(subs) /\ subs \subseteq Keys /\ subs \subseteq DOMAIN want /\ DOMAIN want \subseteq Keys
    BY <1>4, <1>5 DEF Domains, Known
  <2>2. IsFiniteSet(subs \cup {c.key}) /\ IsFiniteSet(subs \ {c.key})
    BY <2>1, FS_AddElement, FS_RemoveElement
  <2>3. CASE c.kind = "subscribe"
    <3>1. subs' = subs \cup {c.key} /\ c.key \in DOMAIN want
        BY <1>12, <1>17, <2>3 DEF Regular
    <3>2. QED
        BY <2>1, <2>2, <3>1
  <2>4. CASE c.kind # "subscribe"
    BY <1>17, <2>1, <2>2, <2>4
  <2>5. QED
    BY <2>3, <2>4
<1>23. Domains'
    BY <1>1, <1>4, <1>8, <1>10, <1>13, <1>18, <1>22 DEF Domains
<1>24. Known'
    BY <1>1, <1>5, <1>22 DEF Known
<1>25. Commands'
  <2>1. ASSUME NEW i \in DOMAIN Going'
        PROVE  /\ Going'[i].n = Served' + i
               /\ issued'[Served' + i] = [kind |-> Going'[i].kind, key |-> Going'[i].key]
               /\ Going'[i].kind \notin Regular => Going'[i].key \in DOMAIN want'
               /\ Going'[i].kind = "unsubscribe" =>
                    Going'[i].key \in leaving' /\ \A j \in DOMAIN Going' : j > i => Going'[j].key # Going'[i].key
    <3>0. i \in 1 .. Len(Going) - 1
        BY <1>20
    <3>1. i \in Nat /\ i + 1 \in DOMAIN Going /\ Going'[i] = Going[i + 1] /\ Served' + i = Served + (i + 1)
      <4>1. i \in Nat /\ i + 1 \in 1 .. Len(Going) /\ (Served + 1) + i = Served + (i + 1)
        BY <1>10, <3>0
      <4>2. QED
        BY <1>10, <1>13, <1>20, <3>0, <4>1, Zenon
    <3>2. ASSUME NEW j \in DOMAIN Going', j > i PROVE j + 1 \in DOMAIN Going /\ j + 1 > i + 1 /\ Going'[j] = Going[j + 1]
        BY <1>10, <1>20, <3>1, <3>2
    <3>3. QED
        BY <1>1, <1>5, <3>1, <3>2 DEF Commands
  <2>2. QED
    BY <2>1, Zenon DEF Commands
<1>26. Fresh'
    BY <1>1 DEF Fresh
<1>27. Chain'
  <2>1. ASSUME NEW i \in DOMAIN Coming' PROVE Coming'[i].n >= Step(Coming'[i]) /\ Coming'[i].n <= Served'
    <3>1. CASE i \in 1 .. Len(Coming)
        BY <1>5, <1>10, <1>13, <1>19, <1>21, <3>1 DEF Chain
    <3>2. CASE i = Len(Coming) + 1
        BY <1>10, <1>13, <1>17, <1>19, <3>2
    <3>3. QED
        BY <1>10, <1>19, <3>1, <3>2
  <2>2. ASSUME NEW i \in DOMAIN Coming', NEW j \in DOMAIN Coming', i < j
        PROVE  Coming'[i].n <= Coming'[j].n - Step(Coming'[j])
    <3>0. i \in DOMAIN Coming /\ Coming'[i] = Coming[i]
        BY <1>10, <1>19, <2>2
    <3>1. CASE j \in 1 .. Len(Coming)
        BY <1>5, <1>10, <1>19, <2>2, <3>0, <3>1 DEF Chain
    <3>2. CASE j = Len(Coming) + 1
      <4>1. Coming[i].n <= Served
        BY <1>5, <3>0 DEF Chain
      <4>2. QED
        BY <1>10, <1>17, <1>19, <1>21, <3>0, <3>2, <4>1
    <3>3. QED
        BY <1>10, <1>19, <3>1, <3>2
  <2>3. ASSUME NEW i \in DOMAIN Coming', i + 1 \in DOMAIN Coming'
        PROVE  Coming'[i + 1].n = Coming'[i].n + Step(Coming'[i + 1])
    <3>0. i \in DOMAIN Coming /\ Coming'[i] = Coming[i]
        BY <1>10, <1>19, <2>3
    <3>1. CASE i + 1 \in 1 .. Len(Coming)
        BY <1>5, <1>10, <1>19, <3>0, <3>1 DEF Chain
    <3>2. CASE i + 1 = Len(Coming) + 1
      <4>1. i = Len(Coming) /\ Coming # <<>>
        BY <1>10, <3>0, <3>2
      <4>2. Coming[i].n = Served
        BY <1>5, <4>1 DEF Chain
      <4>3. QED
        BY <1>10, <1>17, <1>19, <3>0, <3>2, <4>2
    <3>3. QED
        BY <1>10, <1>19, <2>3, <3>1, <3>2
  <2>4. Coming'[Len(Coming')].n = Served'
    BY <1>13, <1>17, <1>19
  <2>5. QED
    BY <2>1, <2>2, <2>3, <2>4 DEF Chain
<1>28. Replies'
  <2>1. ASSUME NEW i \in 1 .. Len(Coming)
        PROVE  /\ Solicited(Coming[i]) => IF Coming[i].type = "ARRAY" THEN issued'[Coming[i].n] = [kind |-> Coming[i].what, key |-> Coming[i].key]
                                          ELSE issued'[Coming[i].n].kind \in Regular
               /\ Coming[i].type = "ARRAY" => Coming[i].key \in DOMAIN want'
    BY <1>1, <1>5, <1>10, <2>1 DEF Replies
  <2>2. ASSUME NEW i \in 1 .. Len(Coming), Coming[i].type = "ARRAY", Coming[i].what = "unsubscribe"
        PROVE  /\ Coming[i].key \in leaving' /\ Coming[i].key \notin subs'
               /\ \A j \in DOMAIN Coming' : j > i /\ Coming'[j].type = "ARRAY" => Coming'[j].key # Coming[i].key
               /\ \A j \in DOMAIN Going' : Going'[j].key # Coming[i].key
               /\ Coming[i].n # Served'
    <3>1. /\ Coming[i].key \in leaving /\ Coming[i].key \notin subs
          /\ \A j \in DOMAIN Coming : j > i /\ Coming[j].type = "ARRAY" => Coming[j].key # Coming[i].key
          /\ \A j \in DOMAIN Going : Going[j].key # Coming[i].key
        BY <1>5, <1>10, <2>2 DEF Replies
    <3>2. c.key # Coming[i].key
        BY <1>9, <1>11, <3>1
    <3>3. Coming[i].key \notin subs'
        BY <1>17, <3>1, <3>2
    <3>4. ASSUME NEW j \in DOMAIN Coming', j > i, Coming'[j].type = "ARRAY" PROVE Coming'[j].key # Coming[i].key
      <4>1. CASE j \in 1 .. Len(Coming)
        BY <1>10, <1>19, <3>1, <3>4, <4>1
      <4>2. CASE j = Len(Coming) + 1
        BY <1>17, <1>19, <3>2, <3>4, <4>2
      <4>3. QED
        BY <1>10, <1>19, <4>1, <4>2
    <3>5. ASSUME NEW j \in DOMAIN Going' PROVE Going'[j].key # Coming[i].key
      <4>1. j \in 1 .. Len(Going) - 1 /\ Going'[j] = Going[j + 1]
        BY <1>20
      <4>2. j + 1 \in DOMAIN Going
        BY <1>10, <4>1
      <4>3. QED
        BY <3>1, <4>1, <4>2, Zenon
    <3>6. Coming[i].n # Served'
      <4>1. Coming[i].n <= Served /\ Coming[i].n \in Nat
        BY <1>5, <1>10, <1>21, Zenon DEF Chain
      <4>2. QED
        BY <1>10, <1>13, <4>1
    <3>7. QED
        BY <1>1, <3>1, <3>3, <3>4, <3>5, <3>6
  <2>3. Solicited(r) => IF r.type = "ARRAY" THEN issued'[r.n] = [kind |-> r.what, key |-> r.key]
                        ELSE issued'[r.n].kind \in Regular
    <3>1. issued' = issued
        BY <1>1
    <3>2. CASE r.type = "ARRAY"
        BY <1>12, <1>17, <3>1, <3>2
    <3>3. CASE r.type # "ARRAY"
      <4>1. issued[Served + 1].kind = c.kind
        BY <1>12
      <4>2. QED
        BY <1>17, <3>1, <3>3, <4>1
    <3>4. QED
        BY <3>2, <3>3
  <2>4. r.type = "ARRAY" => r.key \in DOMAIN want'
    BY <1>1, <1>12, <1>17
  <2>5. ASSUME r.type = "ARRAY", r.what = "unsubscribe"
        PROVE  /\ r.key \in leaving' /\ r.key \notin subs'
               /\ \A j \in DOMAIN Going' : Going'[j].key # r.key
               /\ r.count = 0 => subs' = {}
    <3>1. c.kind = "unsubscribe" /\ r.key = c.key
        BY <1>17, <2>5
    <3>2. ASSUME NEW j \in DOMAIN Going' PROVE Going'[j].key # r.key
      <4>1. j + 1 \in DOMAIN Going /\ j + 1 > 1 /\ Going'[j] = Going[j + 1]
        BY <1>10, <1>20
      <4>2. QED
        BY <1>12, <3>1, <4>1
    <3>3. r.count = 0 => subs' = {}
        BY <1>17, <1>22, <3>1, FS_EmptySet
    <3>4. QED
        BY <1>1, <1>12, <1>17, <3>1, <3>2, <3>3
  <2>6. ASSUME NEW i \in DOMAIN Coming'
        PROVE  LET m == Coming'[i] IN
          /\ Solicited(m) => IF m.type = "ARRAY" THEN issued'[m.n] = [kind |-> m.what, key |-> m.key]
                             ELSE issued'[m.n].kind \in Regular
          /\ m.type = "ARRAY" => m.key \in DOMAIN want'
          /\ m.type = "ARRAY" /\ m.what = "unsubscribe" =>
               /\ m.key \in leaving' /\ m.key \notin subs'
               /\ \A j \in DOMAIN Coming' : j > i /\ Coming'[j].type = "ARRAY" => Coming'[j].key # m.key
               /\ \A j \in DOMAIN Going' : Going'[j].key # m.key
               /\ m.count = 0 /\ m.n = Served' => subs' = {} /\ i = Len(Coming')
    <3>1. CASE i \in 1 .. Len(Coming)
      <4>1. Coming'[i] = Coming[i]
        BY <1>19, <3>1
      <4>2. QED
        BY <2>1, <2>2, <3>1, <4>1, Zenon
    <3>2. CASE i = Len(Coming) + 1
      <4>1. Coming'[i] = r /\ i = Len(Coming')
        BY <1>19, <3>2
      <4>2. \A j \in DOMAIN Coming' : ~(j > i)
        BY <1>10, <1>19, <3>2
      <4>3. QED
        BY <2>3, <2>4, <2>5, <4>1, <4>2, Zenon
    <3>3. QED
        BY <1>10, <1>19, <3>1, <3>2
  <2>7. QED
    BY <2>6, Zenon DEF Replies
<1>29. Stream'
    BY <1>24, <1>25, <1>26, <1>27, <1>28 DEF Stream
<1>30. Answered' = Answered
  <2>1. Answered' = Coming'[1].n - Step(Coming'[1])
    <3>1. Coming' # <<>> /\ fresh' = FALSE
        BY <1>1, <1>10, <1>19
    <3>2. QED
        BY <3>1 DEF Answered
  <2>2. CASE Coming = <<>>
    <3>1. Coming'[1] = r
        BY <1>19, <2>2
    <3>2. Answered = Served
        BY <1>4, <2>2 DEF Answered, Stream, Fresh
    <3>3. QED
        BY <1>10, <1>17, <2>1, <3>1, <3>2
  <2>3. CASE Coming # <<>>
    <3>1. ~fresh
        BY <1>1, <1>4, <2>3 DEF Stream, Fresh
    <3>2. 1 \in 1 .. Len(Coming)
        BY <1>10, <2>3
    <3>3. Coming'[1] = Coming[1]
        BY <1>19, <3>2
    <3>4. QED
        BY <2>1, <2>3, <3>1, <3>3 DEF Answered
  <2>4. QED
    BY <2>2, <2>3
<1>31. Match'
  <2>1. SUFFICES ASSUME Live' PROVE Match'
    BY DEF Match
  <2>2. Live /\ ac'.replies = ac.replies /\ ac'.invalid = ac.invalid /\ ac'.flags = ac.flags
    BY <1>1, <2>1 DEF Live, Freeing
  <2>3. Len(ac.replies) \in Nat
    BY <1>4, LenProperties DEF Domains
  <2>4. Served + 1 <= Answered + Len(ac.replies) => c.kind \in Regular
    <3>1. issued[Served + 1].kind = c.kind
        BY <1>12
    <3>2. Served + 1 \in Nat /\ Served + 1 > Answered
        BY <1>10
    <3>3. QED
        BY <1>4, <1>5, <2>2, <3>1, <3>2, WaitsForReply
  <2>5. /\ \A i \in DOMAIN ac'.replies : ac'.replies[i] = Answered' + i
        /\ \A i \in DOMAIN ac'.invalid : ac'.invalid[i] > Answered' + Len(ac'.replies)
        /\ \A n \in DOMAIN issued' : n > Answered' + Len(ac'.replies) /\ issued'[n].kind \in Regular =>
                                    \E i \in DOMAIN ac'.invalid : ac'.invalid[i] = n
    BY <1>1, <1>4, <1>5, <1>30, <2>2 DEF Match
  <2>6. \A i \in DOMAIN Coming' : ~Solicited(Coming'[i]) => Coming'[i].n >= Answered' + Len(ac'.replies)
    <3>1. \A i \in DOMAIN Coming : ~Solicited(Coming[i]) => Coming[i].n >= Answered + Len(ac.replies)
        BY <1>4, <1>5, <2>2 DEF Match
    <3>2. \A i \in DOMAIN Coming' : i \in DOMAIN Coming \/ Coming'[i] = r
        BY <1>10, <1>19
    <3>3. QED
        BY <1>10, <1>17, <1>19, <1>30, <2>2, <3>1, <3>2
  <2>7. subs' # {} => Served' >= Answered' + Len(ac'.replies)
    <3>1. CASE c.kind \in Regular
      <4>1. subs' = subs
        BY <1>17, <3>1 DEF Regular
      <4>2. subs # {} => Served >= Answered + Len(ac.replies)
        BY <1>4, <1>5, <2>2 DEF Match
      <4>3. QED
        BY <1>10, <1>13, <1>30, <2>2, <2>3, <4>1, <4>2
    <3>2. CASE c.kind \notin Regular
        BY <1>10, <1>13, <1>30, <2>2, <2>3, <2>4, <3>2
    <3>3. QED
        BY <3>1, <3>2
  <2>8. ASSUME "SUBSCRIBED" \notin ac'.flags
        PROVE  /\ subs' = {} /\ Answered' + Len(ac'.replies) = Len(issued')
               /\ \A i \in DOMAIN Coming' : Coming'[i].type # "ARRAY"
    <3>1. /\ subs = {} /\ Answered + Len(ac.replies) = Len(issued)
          /\ \A i \in DOMAIN Coming : Coming[i].type # "ARRAY"
        BY <1>4, <1>5, <2>2, <2>8 DEF Match
    <3>2. c.kind \in Regular
        BY <1>10, <1>11, <2>4, <3>1
    <3>3. r.type # "ARRAY" /\ subs' = {}
        BY <1>17, <3>1, <3>2 DEF Regular
    <3>4. \A i \in DOMAIN Coming' : Coming'[i].type # "ARRAY"
        BY <1>10, <1>19, <3>1, <3>3
    <3>5. QED
        BY <1>1, <1>30, <2>2, <3>1, <3>3, <3>4
  <2>9. QED
    BY <2>5, <2>6, <2>7, <2>8 DEF Match
<1>32. Lists' /\ Called' /\ Iterated' /\ Dictionaries'
  <2>1. SameSubscribed(ac, ac') /\ (ListsDone' <=> ListsDone)
    BY <1>1 DEF SameSubscribed, ListsDone
  <2>2. Lists' /\ Called'
    BY <1>1, <1>4, <2>1, SameLists, SameCalled
  <2>3. QED
    BY <1>1, <1>4, <2>1, <2>2, SameIterated, SameDictionaries
<1>33. QED
    BY <1>23, <1>29, <1>31, <1>32 DEF Story

LEMMA ServerPublishesTells ==
    ASSUME IInv, SInv, ServerPublishes
    PROVE  SInv'
<1>1. /\ pc \in {"idle", "onconnect"} /\ ~eof
      /\ UNCHANGED <<ac, pc, after, sent, eof, fresh, subs, want, leaving, issued, calls, iter, crossed>>
    BY DEF ServerPublishes, Between, ghosts
<1>2. Unborn' /\ Reading' /\ Monitors' /\ (Monitored' <=> Monitored)
    BY <1>1 DEF Unborn, Reading, Monitors, Monitored, SInv
<1>3. SUFFICES ASSUME ~Monitored, ~crossed PROVE Story'
    BY <1>1, <1>2 DEF SInv
<1>4. Domains /\ Stream /\ Lists /\ Match /\ Called /\ Iterated /\ Dictionaries
    BY <1>3 DEF SInv, Story
<1>5. PICK key \in subs : inflight' = Append(inflight, [type |-> "ARRAY", what |-> "message", key |-> key, count |-> 0, n |-> Served])
    BY <1>3 DEF ServerPublishes
<1>6. ~Dead /\ ~Dead' /\ ~fresh /\ Chain /\ Replies /\ Commands /\ Known
    BY <1>1, <1>4, <1>5 DEF Dead, Stream, Fresh
<1>7. /\ Coming \in Seq(Message) /\ Len(Coming) \in Nat /\ DOMAIN Coming = 1 .. Len(Coming)
      /\ Served \in Nat /\ Answered \in Nat /\ Answered <= Served
    BY <1>4, <1>6, Counted
<1>8. PICK r : r = [type |-> "ARRAY", what |-> "message", key |-> key, count |-> 0, n |-> Served]
    BY Zenon
<1>9. /\ r \in Message /\ ~Solicited(r) /\ Step(r) = 0 /\ r.n = Served /\ r.type = "ARRAY" /\ r.what = "message" /\ r.key = key
  <2>1. key \in Keys
    BY <1>4 DEF Domains
  <2>2. r \in Array
    BY <1>7, <1>8, <2>1 DEF Array
  <2>3. QED
    BY <1>8, <2>2 DEF Message, Solicited, Step
<1>10. Coming' = Append(Coming, r) /\ inflight' \in Seq(Message)
    BY <1>1, <1>4, <1>5, <1>8, <1>9, InflightGrows DEF Arrives
<1>11. /\ DOMAIN Coming' = 1 .. Len(Coming) + 1 /\ Len(Coming') = Len(Coming) + 1
       /\ \A i \in 1 .. Len(Coming) : Coming'[i] = Coming[i]
       /\ Coming'[Len(Coming) + 1] = r
    BY <1>7, <1>9, <1>10, AppendedTo
<1>12. \A i \in DOMAIN Coming : Coming[i] \in Message /\ Coming[i].n \in Nat /\ Step(Coming[i]) \in {0, 1}
    BY <1>7, ElementOfSeq, MessageFields
<1>13. Served' = Served /\ Going' = Going
    BY <1>1 DEF Served, Going
<1>14. Domains'
    BY <1>1, <1>4, <1>10, <1>13 DEF Domains
<1>15. Known' /\ Commands' /\ Fresh'
    BY <1>1, <1>6, <1>13 DEF Known, Commands, Fresh
<1>16. Chain'
  <2>1. ASSUME NEW i \in DOMAIN Coming' PROVE Coming'[i].n >= Step(Coming'[i]) /\ Coming'[i].n <= Served'
    <3>1. CASE i \in 1 .. Len(Coming)
        BY <1>6, <1>7, <1>11, <1>12, <1>13, <3>1 DEF Chain
    <3>2. CASE i = Len(Coming) + 1
        BY <1>7, <1>9, <1>11, <1>13, <3>2
    <3>3. QED
        BY <1>7, <1>11, <3>1, <3>2
  <2>2. ASSUME NEW i \in DOMAIN Coming', NEW j \in DOMAIN Coming', i < j
        PROVE  Coming'[i].n <= Coming'[j].n - Step(Coming'[j])
    <3>0. i \in DOMAIN Coming /\ Coming'[i] = Coming[i]
        BY <1>7, <1>11, <2>2
    <3>1. CASE j \in 1 .. Len(Coming)
        BY <1>6, <1>7, <1>11, <2>2, <3>0, <3>1 DEF Chain
    <3>2. CASE j = Len(Coming) + 1
      <4>1. Coming[i].n <= Served
        BY <1>6, <3>0 DEF Chain
      <4>2. QED
        BY <1>7, <1>9, <1>11, <1>12, <3>0, <3>2, <4>1
    <3>3. QED
        BY <1>7, <1>11, <3>1, <3>2
  <2>3. ASSUME NEW i \in DOMAIN Coming', i + 1 \in DOMAIN Coming'
        PROVE  Coming'[i + 1].n = Coming'[i].n + Step(Coming'[i + 1])
    <3>0. i \in DOMAIN Coming /\ Coming'[i] = Coming[i]
        BY <1>7, <1>11, <2>3
    <3>1. CASE i + 1 \in 1 .. Len(Coming)
        BY <1>6, <1>7, <1>11, <3>0, <3>1 DEF Chain
    <3>2. CASE i + 1 = Len(Coming) + 1
      <4>1. i = Len(Coming) /\ Coming # <<>>
        BY <1>7, <3>0, <3>2
      <4>2. Coming[i].n = Served
        BY <1>6, <4>1 DEF Chain
      <4>3. QED
        BY <1>7, <1>9, <1>11, <3>0, <3>2, <4>2
    <3>3. QED
        BY <1>7, <1>11, <2>3, <3>1, <3>2
  <2>4. Coming'[Len(Coming')].n = Served'
    BY <1>9, <1>11, <1>13
  <2>5. QED
    BY <2>1, <2>2, <2>3, <2>4 DEF Chain
<1>17. Replies'
  <2>1. ASSUME NEW i \in 1 .. Len(Coming), Coming[i].type = "ARRAY", Coming[i].what = "unsubscribe"
        PROVE  /\ \A j \in DOMAIN Coming' : j > i /\ Coming'[j].type = "ARRAY" => Coming'[j].key # Coming[i].key
               /\ ~(Coming[i].count = 0 /\ Coming[i].n = Served)
    <3>1. /\ Coming[i].key \notin subs
          /\ \A j \in DOMAIN Coming : j > i /\ Coming[j].type = "ARRAY" => Coming[j].key # Coming[i].key
          /\ Coming[i].count = 0 /\ Coming[i].n = Served => subs = {}
        BY <1>6, <1>7, <2>1 DEF Replies
    <3>2. ASSUME NEW j \in DOMAIN Coming', j > i, Coming'[j].type = "ARRAY" PROVE Coming'[j].key # Coming[i].key
      <4>1. CASE j \in 1 .. Len(Coming)
        BY <1>7, <1>11, <3>1, <3>2, <4>1
      <4>2. CASE j = Len(Coming) + 1
        BY <1>9, <1>11, <3>1, <4>2
      <4>3. QED
        BY <1>7, <1>11, <4>1, <4>2
    <3>3. QED
        BY <3>1, <3>2
  <2>2. ASSUME NEW i \in DOMAIN Coming'
        PROVE  LET m == Coming'[i] IN
          /\ Solicited(m) => IF m.type = "ARRAY" THEN issued'[m.n] = [kind |-> m.what, key |-> m.key]
                             ELSE issued'[m.n].kind \in Regular
          /\ m.type = "ARRAY" => m.key \in DOMAIN want'
          /\ m.type = "ARRAY" /\ m.what = "unsubscribe" =>
               /\ m.key \in leaving' /\ m.key \notin subs'
               /\ \A j \in DOMAIN Coming' : j > i /\ Coming'[j].type = "ARRAY" => Coming'[j].key # m.key
               /\ \A j \in DOMAIN Going' : Going'[j].key # m.key
               /\ m.count = 0 /\ m.n = Served' => subs' = {} /\ i = Len(Coming')
    <3>1. CASE i \in 1 .. Len(Coming)
      <4>1. Coming'[i] = Coming[i] /\ i \in DOMAIN Coming
        BY <1>7, <1>11, <3>1
      <4>2. PICK m : m = Coming[i]
        BY Zenon
      <4>3. /\ Solicited(m) => IF m.type = "ARRAY" THEN issued[m.n] = [kind |-> m.what, key |-> m.key]
                               ELSE issued[m.n].kind \in Regular
            /\ m.type = "ARRAY" => m.key \in DOMAIN want
            /\ m.type = "ARRAY" /\ m.what = "unsubscribe" =>
                 /\ m.key \in leaving /\ m.key \notin subs
                 /\ \A j \in DOMAIN Going : Going[j].key # m.key
        BY <1>6, <4>1, <4>2, Zenon DEF Replies
      <4>4. QED
        BY <1>1, <1>13, <2>1, <3>1, <4>1, <4>2, <4>3
    <3>2. CASE i = Len(Coming) + 1
      <4>1. Coming'[i] = r
        BY <1>11, <3>2
      <4>2. r.key \in DOMAIN want
        BY <1>6, <1>9 DEF Known
      <4>3. QED
        BY <1>1, <1>9, <4>1, <4>2
    <3>3. QED
        BY <1>7, <1>11, <3>1, <3>2
  <2>3. QED
    BY <2>2, Zenon DEF Replies
<1>18. Stream'
    BY <1>15, <1>16, <1>17 DEF Stream
<1>19. Answered' = Answered
  <2>1. Coming' # <<>> /\ ~fresh'
    BY <1>1, <1>6, <1>7, <1>11
  <2>2. Answered' = Coming'[1].n - Step(Coming'[1])
    BY <2>1 DEF Answered
  <2>3. CASE Coming = <<>>
    <3>1. Coming'[1] = r
        BY <1>11, <2>3
    <3>2. Answered = Served
        BY <1>6, <2>3 DEF Answered
    <3>3. QED
        BY <1>7, <1>9, <2>2, <3>1, <3>2
  <2>4. CASE Coming # <<>>
    <3>1. 1 \in 1 .. Len(Coming)
        BY <1>7, <2>4
    <3>2. Coming'[1] = Coming[1]
        BY <1>11, <3>1
    <3>3. QED
        BY <1>6, <2>2, <2>4, <3>2 DEF Answered
  <2>5. QED
    BY <2>3, <2>4
<1>20. Match'
  <2>1. SUFFICES ASSUME Live' PROVE Match'
    BY DEF Match
  <2>2. Live /\ ac'.replies = ac.replies /\ ac'.invalid = ac.invalid /\ ac'.flags = ac.flags
    BY <1>1, <2>1 DEF Live, Freeing
  <2>3. /\ \A i \in DOMAIN ac'.replies : ac'.replies[i] = Answered' + i
        /\ \A i \in DOMAIN ac'.invalid : ac'.invalid[i] > Answered' + Len(ac'.replies)
        /\ \A n \in DOMAIN issued' : n > Answered' + Len(ac'.replies) /\ issued'[n].kind \in Regular =>
                                    \E i \in DOMAIN ac'.invalid : ac'.invalid[i] = n
    BY <1>1, <1>4, <1>6, <1>19, <2>2 DEF Match
  <2>4. Served >= Answered + Len(ac.replies) /\ "SUBSCRIBED" \in ac.flags
    BY <1>4, <1>5, <1>6, <2>2 DEF Match
  <2>5. \A i \in DOMAIN Coming' : ~Solicited(Coming'[i]) => Coming'[i].n >= Answered' + Len(ac'.replies)
    <3>1. \A i \in DOMAIN Coming : ~Solicited(Coming[i]) => Coming[i].n >= Answered + Len(ac.replies)
        BY <1>4, <1>6, <2>2 DEF Match
    <3>2. \A i \in DOMAIN Coming' : i \in DOMAIN Coming \/ Coming'[i] = r
        BY <1>7, <1>11
    <3>3. QED
        BY <1>7, <1>9, <1>11, <1>19, <2>2, <2>4, <3>1, <3>2
  <2>6. subs' # {} => Served' >= Answered' + Len(ac'.replies)
    BY <1>13, <1>19, <2>2, <2>4
  <2>7. "SUBSCRIBED" \in ac'.flags
    BY <2>2, <2>4
  <2>8. QED
    BY <2>3, <2>5, <2>6, <2>7 DEF Match
<1>21. Lists' /\ Called' /\ Iterated' /\ Dictionaries'
  <2>1. SameSubscribed(ac, ac') /\ (ListsDone' <=> ListsDone)
    BY <1>1 DEF SameSubscribed, ListsDone
  <2>2. Lists' /\ Called'
    BY <1>1, <1>4, <2>1, SameLists, SameCalled
  <2>3. QED
    BY <1>1, <1>4, <2>1, <2>2, SameIterated, SameDictionaries
<1>22. QED
    BY <1>14, <1>18, <1>20, <1>21 DEF Story

LEMMA ServerRefusesTells ==
    ASSUME IInv, SInv, ServerRefuses
    PROVE  SInv'
<1>1. /\ pc \in {"idle", "onconnect"} /\ ~eof /\ fresh /\ eof' = TRUE
      /\ inflight' = <<[type |-> "ERROR", n |-> 0]>>
      /\ UNCHANGED <<ac, pc, after, sent, fresh, subs, want, leaving, issued, calls, iter, crossed>>
    BY DEF ServerRefuses, Between, server, ghosts
<1>2. Unborn' /\ Reading' /\ Monitors' /\ (Monitored' <=> Monitored)
    BY <1>1 DEF Unborn, Reading, Monitors, Monitored, SInv
<1>3. SUFFICES ASSUME ~Monitored, ~crossed PROVE Story'
    BY <1>1, <1>2 DEF SInv
<1>4. Domains /\ Stream /\ Lists /\ Match /\ Called /\ Iterated /\ Dictionaries
    BY <1>3 DEF SInv, Story
<1>5. Coming = <<>> /\ Known /\ Commands /\ Fresh /\ Served = 0 /\ subs = {}
    BY <1>1, <1>4 DEF Stream, Fresh
<1>6. PICK r : r = [type |-> "ERROR", n |-> 0]
    BY Zenon
<1>7. r \in Message /\ r.type = "ERROR" /\ <<r>> \in Seq(Message)
  <2>1. r \in Plain
    BY <1>6 DEF Plain
  <2>2. r \in Message
    BY <2>1 DEF Message
  <2>3. QED
    BY <1>6, <2>2
<1>8. ac.reader = <<>>
  <2>1. ac.reader \in Seq(Message) /\ inflight \in Seq(Message)
    BY <1>4 DEF Domains
  <2>2. ac.reader \o inflight = <<>>
    BY <1>5 DEF Coming
  <2>3. QED
    BY <2>1, <2>2, ConcatEqualIffEmpty
<1>9. Coming' = <<r>>
  <2>1. <<>> \o <<r>> = <<r>>
    BY <1>7, ConcatEmptySeq
  <2>2. QED
    BY <1>1, <1>6, <1>8, <2>1 DEF Coming
<1>10. Going' = Going /\ Served' = Served
    BY <1>1 DEF Going, Served
<1>11. Domains'
    BY <1>1, <1>4, <1>6, <1>7, <1>10 DEF Domains
<1>12. Stream'
  <2>1. Known' /\ Commands'
    BY <1>1, <1>5, <1>10 DEF Known, Commands
  <2>2. Fresh'
    BY <1>1, <1>5, <1>6, <1>9, <1>10 DEF Fresh
  <2>3. Dead'
    BY <1>1 DEF Dead
  <2>4. QED
    BY <2>1, <2>2, <2>3 DEF Stream
<1>13. Match'
  <2>1. SUFFICES ASSUME Live' PROVE Match'
    BY DEF Match
  <2>2. Live /\ ac'.replies = ac.replies /\ ac'.invalid = ac.invalid /\ ac'.flags = ac.flags /\ Dead' /\ ~Dead
    BY <1>1, <2>1 DEF Live, Freeing, Dead
  <2>3. Answered' = 0 /\ Answered = 0
    BY <1>1 DEF Answered
  <2>4. \A i \in DOMAIN Coming' : Coming'[i].type # "ARRAY"
    BY <1>7, <1>9
  <2>5. QED
    BY <1>1, <1>4, <1>5, <2>2, <2>3, <2>4 DEF Match
<1>14. Lists' /\ Called' /\ Iterated' /\ Dictionaries'
  <2>1. SameSubscribed(ac, ac') /\ (ListsDone' <=> ListsDone)
    BY <1>1 DEF SameSubscribed, ListsDone
  <2>2. Lists' /\ Called'
    BY <1>1, <1>4, <2>1, SameLists, SameCalled
  <2>3. QED
    BY <1>1, <1>4, <2>1, <2>2, SameIterated, SameDictionaries
<1>15. QED
    BY <1>11, <1>12, <1>13, <1>14 DEF Story

-----------------------------------------------------------------------------
(* The commands.                                                           *)

(* What a context b becomes when the callback of command n is recorded.    *)
Recorded(b, c, kind, key, n) ==
    /\ c.reader = b.reader /\ c.cb = b.cb /\ c.err = b.err
    /\ c.flags = IF kind = "subscribe" THEN b.flags \cup {"SUBSCRIBED"} ELSE b.flags
    /\ c.replies = IF kind \in Regular /\ "SUBSCRIBED" \notin b.flags THEN Append(b.replies, n) ELSE b.replies
    /\ c.invalid = IF kind \in Regular /\ "SUBSCRIBED" \in b.flags THEN Append(b.invalid, n) ELSE b.invalid
    /\ c.channels = IF kind = "subscribe" /\ key \notin Patterns THEN dictReplace(b.channels, key, n) ELSE b.channels
    /\ c.patterns = IF kind = "subscribe" /\ key \in Patterns THEN dictReplace(b.patterns, key, n) ELSE b.patterns

Registers(c, kind, key, n, x) == c = [Registered(kind, key, n) EXCEPT !.obuf = Append(@, x)]

LEMMA RegisteredRecords ==
    ASSUME NEW kind \in Kinds, kind # "monitor", NEW key, NEW n, IsContext(ac), NEW x, NEW c,
           Registers(c, kind, key, n, x)
    PROVE  Recorded(ac, c, kind, key, n) /\ c.obuf = Append(ac.obuf, x)
<1>0. c = [Registered(kind, key, n) EXCEPT !.obuf = Append(@, x)]
    BY DEF Registers
<1>1. CASE kind = "subscribe"
  <2>1. kind \notin Regular
    BY <1>1 DEF Regular
  <2>2. Registered(kind, key, n) = [ac EXCEPT !.flags = @ \cup {"SUBSCRIBED"}, ![Dictionary(key)] = dictReplace(@, key, n)]
    BY <1>1 DEF Registered
  <2>3. CASE key \in Patterns
    <3>1. Dictionary(key) = "patterns"
        BY <2>3 DEF Dictionary
    <3>2. Registered(kind, key, n) = [ac EXCEPT !.flags = @ \cup {"SUBSCRIBED"}, !.patterns = dictReplace(@, key, n)]
        BY <2>2, <3>1, Zenon
    <3>3. QED
        BY <1>0, <1>1, <2>1, <2>3, <3>2 DEF IsContext, Recorded
  <2>4. CASE key \notin Patterns
    <3>1. Dictionary(key) = "channels"
        BY <2>4 DEF Dictionary
    <3>2. Registered(kind, key, n) = [ac EXCEPT !.flags = @ \cup {"SUBSCRIBED"}, !.channels = dictReplace(@, key, n)]
        BY <2>2, <3>1, Zenon
    <3>3. QED
        BY <1>0, <1>1, <2>1, <2>4, <3>2 DEF IsContext, Recorded
  <2>5. QED
    BY <2>3, <2>4
<1>2. CASE kind = "unsubscribe"
    BY <1>0, <1>2 DEF Registered, IsContext, Recorded, Regular
<1>3. CASE kind \in Regular
  <2>1. Registered(kind, key, n) = IF Flag("SUBSCRIBED") THEN [ac EXCEPT !.invalid = Append(@, n)]
                                   ELSE [ac EXCEPT !.replies = Append(@, n)]
    BY <1>3 DEF Registered, Regular
  <2>2. kind # "subscribe"
    BY <1>3 DEF Regular
  <2>3. CASE Flag("SUBSCRIBED")
    BY <1>0, <1>3, <2>1, <2>2, <2>3 DEF IsContext, Recorded, Flag
  <2>4. CASE ~Flag("SUBSCRIBED")
    BY <1>0, <1>3, <2>1, <2>2, <2>4 DEF IsContext, Recorded, Flag
  <2>5. QED
    BY <2>3, <2>4
<1>4. QED
    BY <1>1, <1>2, <1>3 DEF Kinds, Regular

(* A key enters a dictionary under command n.                              *)
Holds(d, S, w) == WellHashed(d) /\ Entries(d) = {[key |-> k, val |-> w[k]] : k \in S}
Updated(S, w, v, key, n) == v[key] = n /\ \A k \in S : k # key => v[k] = w[k]

LEMMA SubscriptionRecorded ==
    ASSUME NEW d, NEW key \in Keys, NEW n \in Nat, NEW S, NEW w, Holds(d, S, w), NEW v, Updated(S, w, v, key, n)
    PROVE  Holds(dictReplace(d, key, n), S \cup {key}, v)
<1>0. /\ WellHashed(d) /\ Entries(d) = {[key |-> k, val |-> w[k]] : k \in S}
      /\ v[key] = n /\ \A k \in S : k # key => v[k] = w[k]
    BY DEF Holds, Updated
<1>1. PICK x : x = dictReplace(d, key, n)
    BY Zenon
<1>2. WellHashed(x) /\ Entries(x) = {e \in Entries(d) : e.key # key} \cup {[key |-> key, val |-> n]}
    BY <1>0, <1>1, ReplaceEntries
<1>3. \A e : e \in Entries(x) <=> e \in {[key |-> k, val |-> v[k]] : k \in S \cup {key}}
  <2>1. ASSUME NEW e \in Entries(x)
        PROVE  \E k \in S \cup {key} : e = [key |-> k, val |-> v[k]]
    <3>1. CASE e = [key |-> key, val |-> n]
        BY <1>0, <3>1
    <3>2. CASE e \in Entries(d) /\ e.key # key
        BY <1>0, <3>2
    <3>3. QED
        BY <1>2, <2>1, <3>1, <3>2
  <2>2. ASSUME NEW k \in S \cup {key}
        PROVE  [key |-> k, val |-> v[k]] \in Entries(x)
    <3>1. CASE k = key
        BY <1>0, <1>2, <3>1
    <3>2. CASE k # key
      <4>1. [key |-> k, val |-> w[k]] \in Entries(d) /\ [key |-> k, val |-> w[k]].key # key
        BY <1>0, <3>2
      <4>2. QED
        BY <1>0, <1>2, <3>2, <4>1
    <3>3. QED
        BY <3>1, <3>2
  <2>3. QED
    BY <2>1, <2>2
<1>4. QED
    BY <1>1, <1>2, <1>3 DEF Holds

LEMMA CommandTells ==
    ASSUME IInv, SInv, redisAsyncCommand
    PROVE  SInv'
<1>1. /\ pc \in {"idle", "callback", "onconnect"} /\ ac.flags \cap {"DISCONNECTING", "FREEING"} = {}
      /\ UNCHANGED <<pc, after, iter, sent, inflight, eof, fresh, subs>>
    BY DEF redisAsyncCommand, InApp, Accepts, wire, server
<1>2. PICK kind \in Kinds, key \in Keys \cup {NoCommand} :
        /\ (key = NoCommand) <=> kind \in {"get", "quit", "monitor"}
        /\ kind = "unsubscribe" => Flag("SUBSCRIBED")
        /\ crossed' = (crossed \/ Crosses(kind, key))
        /\ issued' = Append(issued, [kind |-> kind, key |-> key])
        /\ ac' = [Registered(kind, key, Len(issued) + 1) EXCEPT !.obuf = Append(@, [kind |-> kind, key |-> key, n |-> Len(issued) + 1])]
        /\ want' = IF kind = "subscribe" THEN [k \in DOMAIN want \cup {key} |-> IF k = key THEN Len(issued) + 1 ELSE want[k]] ELSE want
        /\ leaving' = IF kind = "unsubscribe" THEN leaving \cup {key} ELSE leaving
        /\ calls' = Append(calls, <<>>)
    BY Zenon DEF redisAsyncCommand
<1>3. PICK n, x, y : n = Len(issued) + 1 /\ x = [kind |-> kind, key |-> key] /\ y = [kind |-> kind, key |-> key, n |-> n]
    BY Zenon
<1>4. /\ issued' = Append(issued, x) /\ ac' = [Registered(kind, key, n) EXCEPT !.obuf = Append(@, y)]
      /\ want' = IF kind = "subscribe" THEN [k \in DOMAIN want \cup {key} |-> IF k = key THEN n ELSE want[k]] ELSE want
    BY <1>2, <1>3, Zenon
<1>5. IsContext(ac) /\ ac.obuf \in Seq(Outgoing) /\ issued \in Seq([kind : Kinds, key : Keys \cup {NoCommand}]) /\ Asked
    BY DEF IInv, Types, Rest
<1>6. x \in [kind : Kinds, key : Keys \cup {NoCommand}]
    BY <1>3
<1>7. /\ Len(issued) \in Nat /\ DOMAIN issued = 1 .. Len(issued) /\ DOMAIN issued' = 1 .. n /\ Len(issued') = n
      /\ \A i \in 1 .. Len(issued) : issued'[i] = issued[i]
      /\ issued'[n] = x /\ n \in Nat
    BY <1>3, <1>4, <1>5, <1>6, AppendedTo
<1>8. y \in Outgoing /\ y.n = n /\ y.kind = kind /\ y.key = key /\ x.kind = kind /\ x.key = key
    BY <1>3, <1>7 DEF Outgoing
<1>9. ~Freeing /\ ~ListsDone /\ ~ListsDone' /\ pc' = pc /\ pc # "freed"
    BY <1>1, <1>5 DEF Asked, Freeing, ListsDone, Ending
<1>10. Monitored' <=> Monitored \/ kind = "monitor"
  <2>1. ASSUME Monitored PROVE Monitored'
    BY <1>3, <1>7, <2>1 DEF Monitored
  <2>2. ASSUME Monitored' PROVE Monitored \/ kind = "monitor"
    <3>1. PICK i \in DOMAIN issued' : issued'[i].kind = "monitor"
        BY <2>2 DEF Monitored
    <3>2. CASE i \in 1 .. Len(issued)
        BY <1>7, <3>1, <3>2 DEF Monitored
    <3>3. CASE i = n
        BY <1>7, <1>8, <3>1, <3>3
    <3>4. QED
        BY <1>3, <1>7, <3>2, <3>3
  <2>3. ASSUME kind = "monitor" PROVE Monitored'
    BY <1>3, <1>7, <1>8, <2>3 DEF Monitored
  <2>4. QED
    BY <2>1, <2>2, <2>3
<1>11. CASE kind = "monitor"
  <2>1. Monitored'
    BY <1>10, <1>11
  <2>2. Registered(kind, key, n) = [ac EXCEPT !.flags = @ \cup {"MONITORING"}, !.replies = Append(@, n)]
    BY <1>11 DEF Registered
  <2>3. ac'.err = ac.err
    BY <1>4, <1>5, <2>2 DEF IsContext
  <2>4. Reading' /\ Monitors' /\ pc' # "none"
    BY <1>1, <1>9, <2>1, <2>3 DEF Reading, Monitors, SInv
  <2>5. QED
    BY <2>1, <2>4, Untold
<1>12. CASE kind # "monitor"
  <2>1. Recorded(ac, ac', kind, key, n) /\ ac'.obuf = Append(ac.obuf, y)
    <3>1. Registers(ac', kind, key, n, y)
        BY <1>4, Zenon DEF Registers
    <3>2. QED
        BY <1>5, <1>12, <3>1, RegisteredRecords, Zenon
  <2>2. /\ ac'.reader = ac.reader /\ ac'.cb = ac.cb /\ ac'.err = ac.err
        /\ ac'.flags = IF kind = "subscribe" THEN ac.flags \cup {"SUBSCRIBED"} ELSE ac.flags
        /\ ac'.replies = IF kind \in Regular /\ "SUBSCRIBED" \notin ac.flags THEN Append(ac.replies, n) ELSE ac.replies
        /\ ac'.invalid = IF kind \in Regular /\ "SUBSCRIBED" \in ac.flags THEN Append(ac.invalid, n) ELSE ac.invalid
        /\ ac'.channels = IF kind = "subscribe" /\ key \notin Patterns THEN dictReplace(ac.channels, key, n) ELSE ac.channels
        /\ ac'.patterns = IF kind = "subscribe" /\ key \in Patterns THEN dictReplace(ac.patterns, key, n) ELSE ac.patterns
    BY <2>1 DEF Recorded
  <2>3. /\ kind \in {"get", "quit", "subscribe", "unsubscribe"} /\ (kind \in Regular <=> key = NoCommand)
        /\ kind \notin Regular => key \in Keys
        /\ kind = "unsubscribe" => "SUBSCRIBED" \in ac.flags
    BY <1>2, <1>12, KeysAssumption DEF Kinds, Regular, Flag
  <2>4. Unborn' /\ Reading' /\ Monitors'
    BY <1>1, <1>9, <1>10, <2>2 DEF Unborn, Reading, Monitors, SInv
  <2>5. SUFFICES ASSUME ~Monitored', ~crossed' PROVE Story'
    BY <2>4 DEF SInv
  <2>51. ~crossed /\ ~Crosses(kind, key)
    <3>1. crossed' = (crossed \/ Crosses(kind, key))
        BY <1>2, Zenon
    <3>2. QED
        BY <2>5, <3>1, Zenon
  <2>52. /\ kind \in {"subscribe", "unsubscribe"} => key \notin leaving
         /\ kind = "unsubscribe" => key \in DOMAIN want
    BY <2>51, Zenon DEF Crosses
  <2>6. Domains /\ Stream /\ Lists /\ Match /\ Called /\ Iterated /\ Dictionaries
    BY <1>1, <1>10, <2>5, <2>51 DEF SInv, Story
  <2>7. Commands /\ Known /\ Fresh /\ (~Dead => Chain /\ Replies)
    BY <2>6 DEF Stream
  <2>8. Coming' = Coming
    BY <1>1, <2>2 DEF Coming
  <2>9. Going' = Append(Going, y)
    <3>1. sent \in Seq(Outgoing) /\ sent' = sent
        BY <1>1, <2>6 DEF Domains
    <3>2. \A s, t \in Seq(Outgoing) : \A z \in Outgoing : s \o Append(t, z) = Append(s \o t, z)
        BY ConcatAppend
    <3>3. sent \o Append(ac.obuf, y) = Append(sent \o ac.obuf, y)
        BY <1>5, <1>8, <3>1, <3>2, Zenon
    <3>4. QED
        BY <2>1, <3>1, <3>3, Zenon DEF Going
  <2>10. /\ Coming \in Seq(Message) /\ Len(Coming) \in Nat /\ DOMAIN Coming = 1 .. Len(Coming)
         /\ Going \in Seq(Outgoing) /\ Len(Going) \in Nat /\ DOMAIN Going = 1 .. Len(Going)
         /\ Served \in Nat /\ Len(issued) = Served + Len(Going) /\ Served <= Len(issued)
         /\ ~Dead => Answered \in Nat /\ Answered <= Served
    BY <2>6, Counted
  <2>11. Served' = Served
    <3>1. Len(ac'.obuf) = Len(ac.obuf) + 1 /\ Len(ac.obuf) \in Nat
        BY <1>5, <1>8, <2>1, AppendedTo
    <3>2. Len(sent) \in Nat
        BY <2>6, LenProperties DEF Domains
    <3>3. QED
        BY <1>1, <1>3, <1>7, <3>1, <3>2 DEF Served
  <2>12. /\ DOMAIN Going' = 1 .. Len(Going) + 1 /\ Going'[Len(Going) + 1] = y
         /\ \A i \in 1 .. Len(Going) : Going'[i] = Going[i]
    BY <1>8, <2>9, <2>10, AppendedTo
  <2>13. /\ ac.replies \in Seq(Nat) /\ Len(ac.replies) \in Nat /\ DOMAIN ac.replies = 1 .. Len(ac.replies)
         /\ ac.invalid \in Seq(Nat) /\ Len(ac.invalid) \in Nat /\ DOMAIN ac.invalid = 1 .. Len(ac.invalid)
    BY <2>6, LenProperties DEF Domains
  <2>14. /\ calls \in Seq(Seq(Message \cup {NullReply})) /\ Len(calls) = Len(issued) /\ DOMAIN calls = 1 .. Len(issued)
         /\ calls' \in Seq(Seq(Message \cup {NullReply})) /\ Len(calls') = n /\ DOMAIN calls' = 1 .. n
         /\ \A i \in 1 .. Len(issued) : calls'[i] = calls[i]
         /\ calls'[n] = <<>>
    <3>1. <<>> \in Seq(Message \cup {NullReply})
        OBVIOUS
    <3>2. calls \in Seq(Seq(Message \cup {NullReply})) /\ Len(calls) = Len(issued)
        BY <2>6 DEF Domains
    <3>3. QED
        BY <1>2, <1>3, <3>1, <3>2, AppendedTo
  <2>15. leaving \subseteq Keys /\ leaving' \subseteq Keys /\ leaving \subseteq leaving' /\ key \notin leaving
    <3>1. leaving \subseteq Keys
        BY <2>6 DEF Domains
    <3>2. key \notin leaving
        BY <2>52, <2>3, <3>1, KeysAssumption DEF Regular
    <3>3. QED
        BY <1>2, <2>3, <3>1, <3>2 DEF Regular
  <2>16. /\ DOMAIN want \subseteq DOMAIN want' /\ DOMAIN want' \subseteq Keys
         /\ kind \notin Regular => key \in DOMAIN want'
         /\ \A k \in DOMAIN want' : want'[k] \in DOMAIN issued' /\ issued'[want'[k]] = [kind |-> "subscribe", key |-> k]
    <3>1. /\ DOMAIN want \subseteq Keys
          /\ \A k \in DOMAIN want : want[k] \in DOMAIN issued' /\ issued'[want[k]] = [kind |-> "subscribe", key |-> k]
        BY <1>3, <1>7, <2>7 DEF Known
    <3>2. CASE kind = "subscribe"
      <4>1. DOMAIN want' = DOMAIN want \cup {key} /\ \A k \in DOMAIN want' : want'[k] = IF k = key THEN n ELSE want[k]
        BY <1>4, <3>2
      <4>2. n \in DOMAIN issued' /\ issued'[n] = [kind |-> "subscribe", key |-> key]
        BY <1>3, <1>7, <3>2
      <4>3. QED
        BY <2>3, <3>1, <3>2, <4>1, <4>2 DEF Regular
    <3>3. CASE kind # "subscribe"
      <4>1. want' = want
        BY <1>4, <3>3
      <4>2. kind \notin Regular => key \in DOMAIN want
        BY <2>52, <2>3, <3>3 DEF Regular
      <4>3. QED
        BY <3>1, <4>1, <4>2
    <3>4. QED
        BY <3>2, <3>3
  <2>17. Domains'
    <3>1. ac'.replies \in Seq(Nat) /\ ac'.invalid \in Seq(Nat)
        BY <1>7, <2>2, <2>13, AppendedTo
    <3>2. \A m \in DOMAIN issued' : issued'[m].key = NoCommand <=> issued'[m].kind \in Regular
      <4>1. \A m \in DOMAIN issued : issued[m].key = NoCommand <=> issued[m].kind \in Regular
        BY <2>6 DEF Domains
      <4>2. \A m \in DOMAIN issued' : m \in 1 .. Len(issued) \/ m = n
        BY <1>3, <1>7
      <4>3. QED
        BY <1>7, <1>8, <2>3, <4>1, <4>2
    <3>3. QED
        BY <1>1, <1>7, <2>2, <2>6, <2>11, <2>14, <2>15, <3>1, <3>2 DEF Domains
  <2>18. Known'
    BY <1>1, <2>7, <2>16 DEF Known
  <2>19. Commands'
    <3>1. ASSUME NEW i \in 1 .. Len(Going)
          PROVE  /\ Going[i].n = Served + i
                 /\ issued'[Served + i] = [kind |-> Going[i].kind, key |-> Going[i].key]
                 /\ Going[i].kind \notin Regular => Going[i].key \in DOMAIN want'
                 /\ Going[i].kind = "unsubscribe" =>
                      Going[i].key \in leaving' /\ \A j \in DOMAIN Going' : j > i => Going'[j].key # Going[i].key
      <4>1. Served + i \in 1 .. Len(issued)
        BY <2>10
      <4>2. /\ Going[i].n = Served + i
            /\ issued[Served + i] = [kind |-> Going[i].kind, key |-> Going[i].key]
            /\ Going[i].kind \notin Regular => Going[i].key \in DOMAIN want
            /\ Going[i].kind = "unsubscribe" =>
                 Going[i].key \in leaving /\ \A j \in DOMAIN Going : j > i => Going[j].key # Going[i].key
        BY <2>7, <2>10 DEF Commands
      <4>3. ASSUME Going[i].kind = "unsubscribe", NEW j \in DOMAIN Going', j > i PROVE Going'[j].key # Going[i].key
        <5>1. CASE j \in 1 .. Len(Going)
            BY <2>10, <2>12, <4>2, <4>3, <5>1
        <5>2. CASE j = Len(Going) + 1
            BY <1>8, <2>12, <2>15, <4>2, <4>3, <5>2
        <5>3. QED
            BY <2>10, <2>12, <5>1, <5>2
      <4>4. QED
        BY <1>7, <2>15, <2>16, <4>1, <4>2, <4>3
    <3>2. /\ y.n = Served + (Len(Going) + 1)
          /\ issued'[Served + (Len(Going) + 1)] = [kind |-> y.kind, key |-> y.key]
          /\ y.kind \notin Regular => y.key \in DOMAIN want'
          /\ y.kind = "unsubscribe" => y.key \in leaving'
      <4>1. n = Served + (Len(Going) + 1)
        BY <1>3, <2>10
      <4>2. issued'[n] = [kind |-> y.kind, key |-> y.key]
        BY <1>3, <1>7, <1>8
      <4>3. QED
        BY <1>2, <1>8, <2>16, <4>1, <4>2
    <3>3. ASSUME NEW i \in DOMAIN Going'
          PROVE  /\ Going'[i].n = Served' + i
                 /\ issued'[Served' + i] = [kind |-> Going'[i].kind, key |-> Going'[i].key]
                 /\ Going'[i].kind \notin Regular => Going'[i].key \in DOMAIN want'
                 /\ Going'[i].kind = "unsubscribe" =>
                      Going'[i].key \in leaving' /\ \A j \in DOMAIN Going' : j > i => Going'[j].key # Going'[i].key
      <4>1. CASE i \in 1 .. Len(Going)
        <5>1. Going'[i] = Going[i]
            BY <2>12, <4>1
        <5>2. QED
            BY <2>11, <3>1, <4>1, <5>1, Zenon
      <4>2. CASE i = Len(Going) + 1
        <5>1. Going'[i] = y
            BY <2>12, <4>2
        <5>2. \A j \in DOMAIN Going' : ~(j > i)
            BY <2>10, <2>12, <4>2
        <5>3. QED
            BY <2>11, <3>2, <4>2, <5>1, <5>2, Zenon
      <4>3. QED
        BY <2>10, <2>12, <4>1, <4>2
    <3>4. QED
        BY <3>3, Zenon DEF Commands
  <2>20. Fresh'
    BY <1>1, <2>7, <2>8, <2>11 DEF Fresh
  <2>21. Dead' <=> Dead
    BY <1>1 DEF Dead
  <2>22. ~Dead => Chain'
    BY <2>7, <2>8, <2>11 DEF Chain
  <2>23. ASSUME ~Dead PROVE Replies'
    <3>1. Chain /\ Replies
        BY <2>7, <2>23
    <3>2. ASSUME NEW i \in DOMAIN Coming
          PROVE  LET m == Coming[i] IN
            /\ Solicited(m) => IF m.type = "ARRAY" THEN issued'[m.n] = [kind |-> m.what, key |-> m.key]
                               ELSE issued'[m.n].kind \in Regular
            /\ m.type = "ARRAY" => m.key \in DOMAIN want'
            /\ m.type = "ARRAY" /\ m.what = "unsubscribe" =>
                 /\ m.key \in leaving' /\ m.key \notin subs'
                 /\ \A j \in DOMAIN Coming : j > i /\ Coming[j].type = "ARRAY" => Coming[j].key # m.key
                 /\ \A j \in DOMAIN Going' : Going'[j].key # m.key
                 /\ m.count = 0 /\ m.n = Served => subs' = {} /\ i = Len(Coming)
      <4>1. PICK m : m = Coming[i]
        BY Zenon
      <4>2. /\ Solicited(m) => IF m.type = "ARRAY" THEN issued[m.n] = [kind |-> m.what, key |-> m.key]
                               ELSE issued[m.n].kind \in Regular
            /\ m.type = "ARRAY" => m.key \in DOMAIN want
            /\ m.type = "ARRAY" /\ m.what = "unsubscribe" =>
                 /\ m.key \in leaving /\ m.key \notin subs
                 /\ \A j \in DOMAIN Coming : j > i /\ Coming[j].type = "ARRAY" => Coming[j].key # m.key
                 /\ \A j \in DOMAIN Going : Going[j].key # m.key
                 /\ m.count = 0 /\ m.n = Served => subs = {} /\ i = Len(Coming)
        BY <3>1, <4>1, Zenon DEF Replies
      <4>3. Solicited(m) => issued'[m.n] = issued[m.n]
        <5>1. m.n >= Step(m) /\ m.n <= Served
            BY <3>1, <4>1 DEF Chain
        <5>2. m \in Message
            BY <2>10, <4>1, ElementOfSeq
        <5>3. Solicited(m) => m.n \in 1 .. Len(issued)
            BY <1>7, <2>10, <5>1, <5>2, MessageFields
        <5>4. QED
            BY <1>7, <5>3
      <4>4. m.key \in leaving => \A j \in DOMAIN Going' : j \in DOMAIN Going \/ Going'[j].key # m.key
        BY <1>8, <2>10, <2>12, <2>15
      <4>5. \A j \in DOMAIN Going : Going'[j] = Going[j]
        BY <2>10, <2>12
      <4>6. QED
        BY <1>1, <2>15, <2>16, <4>1, <4>2, <4>3, <4>4, <4>5
    <3>3. QED
        BY <2>8, <2>11, <3>2, Zenon DEF Replies
  <2>24. Stream'
    BY <2>18, <2>19, <2>20, <2>21, <2>22, <2>23 DEF Stream
  <2>25. Lists'
    <3>1. \A i \in DOMAIN ac.replies : ac.replies[i] \in 1 .. Len(issued) /\ issued[ac.replies[i]].kind \in Regular
        BY <1>7, <2>6 DEF Lists
    <3>2. \A i \in DOMAIN ac.invalid : ac.invalid[i] \in 1 .. Len(issued) /\ issued[ac.invalid[i]].kind \in Regular
        BY <1>7, <2>6 DEF Lists
    <3>3. Ascending(ac.replies) /\ Ascending(ac.invalid)
          /\ \A i \in DOMAIN ac.replies, j \in DOMAIN ac.invalid : ac.replies[i] < ac.invalid[j]
        BY <2>6 DEF Lists
    <3>4. \A m \in 1 .. Len(issued) : m < n /\ m \in DOMAIN issued' /\ issued'[m] = issued[m]
        BY <1>3, <1>7
    <3>5. kind \in Regular => n \in DOMAIN issued' /\ issued'[n].kind \in Regular
        BY <1>3, <1>7, <1>8
    <3>6. CASE kind \in Regular /\ "SUBSCRIBED" \notin ac.flags
      <4>1. ac'.replies = Append(ac.replies, n) /\ ac'.invalid = ac.invalid /\ ac.invalid = <<>>
        BY <2>2, <2>6, <3>6 DEF Lists
      <4>2. /\ DOMAIN ac'.replies = 1 .. Len(ac.replies) + 1 /\ ac'.replies[Len(ac.replies) + 1] = n
            /\ \A i \in 1 .. Len(ac.replies) : ac'.replies[i] = ac.replies[i]
        BY <1>7, <2>13, <4>1, AppendedTo
      <4>3. \A i \in DOMAIN ac'.replies : i \in DOMAIN ac.replies \/ i = Len(ac.replies) + 1
        BY <2>13, <4>2
      <4>4. \A i \in DOMAIN ac'.replies : ac'.replies[i] \in DOMAIN issued' /\ issued'[ac'.replies[i]].kind \in Regular
        BY <2>13, <3>1, <3>4, <3>5, <3>6, <4>2, <4>3
      <4>5. Ascending(ac'.replies)
        <5>1. ASSUME NEW i \in DOMAIN ac'.replies, NEW j \in DOMAIN ac'.replies, i < j
              PROVE  ac'.replies[i] < ac'.replies[j]
          <6>1. i \in DOMAIN ac.replies /\ ac'.replies[i] = ac.replies[i]
            BY <2>13, <4>2, <5>1
          <6>2. CASE j \in DOMAIN ac.replies
            BY <2>13, <3>3, <4>2, <5>1, <6>1, <6>2 DEF Ascending
          <6>3. CASE j = Len(ac.replies) + 1
            BY <3>1, <3>4, <4>2, <6>1, <6>3
          <6>4. QED
            BY <4>3, <6>2, <6>3
        <5>2. QED
            BY <5>1 DEF Ascending
      <4>6. DOMAIN ac'.invalid = {}
        BY <4>1
      <4>7. QED
        BY <3>3, <4>1, <4>4, <4>5, <4>6 DEF Lists
    <3>7. CASE kind \in Regular /\ "SUBSCRIBED" \in ac.flags
      <4>1. ac'.replies = ac.replies /\ ac'.invalid = Append(ac.invalid, n) /\ "SUBSCRIBED" \in ac'.flags
        BY <2>2, <3>7
      <4>2. /\ DOMAIN ac'.invalid = 1 .. Len(ac.invalid) + 1 /\ ac'.invalid[Len(ac.invalid) + 1] = n
            /\ \A i \in 1 .. Len(ac.invalid) : ac'.invalid[i] = ac.invalid[i]
        BY <1>7, <2>13, <4>1, AppendedTo
      <4>3. \A i \in DOMAIN ac'.invalid : i \in DOMAIN ac.invalid \/ i = Len(ac.invalid) + 1
        BY <2>13, <4>2
      <4>4. \A i \in DOMAIN ac'.invalid : ac'.invalid[i] \in DOMAIN issued' /\ issued'[ac'.invalid[i]].kind \in Regular
        BY <2>13, <3>2, <3>4, <3>5, <3>7, <4>2, <4>3
      <4>5. Ascending(ac'.invalid)
        <5>1. ASSUME NEW i \in DOMAIN ac'.invalid, NEW j \in DOMAIN ac'.invalid, i < j
              PROVE  ac'.invalid[i] < ac'.invalid[j]
          <6>1. i \in DOMAIN ac.invalid /\ ac'.invalid[i] = ac.invalid[i]
            BY <2>13, <4>2, <5>1
          <6>2. CASE j \in DOMAIN ac.invalid
            BY <2>13, <3>3, <4>2, <5>1, <6>1, <6>2 DEF Ascending
          <6>3. CASE j = Len(ac.invalid) + 1
            BY <3>2, <3>4, <4>2, <6>1, <6>3
          <6>4. QED
            BY <4>3, <6>2, <6>3
        <5>2. QED
            BY <5>1 DEF Ascending
      <4>6. \A i \in DOMAIN ac'.replies : ac'.replies[i] \in DOMAIN issued' /\ issued'[ac'.replies[i]].kind \in Regular
        BY <3>1, <3>4, <4>1
      <4>7. \A i \in DOMAIN ac'.replies, j \in DOMAIN ac'.invalid : ac'.replies[i] < ac'.invalid[j]
        BY <2>13, <3>1, <3>3, <3>4, <4>1, <4>2, <4>3
      <4>8. QED
        BY <3>3, <4>1, <4>4, <4>5, <4>6, <4>7 DEF Lists
    <3>8. CASE kind \notin Regular
      <4>1. ac'.replies = ac.replies /\ ac'.invalid = ac.invalid /\ ("SUBSCRIBED" \notin ac'.flags => ac.invalid = <<>>)
        BY <2>2, <2>6, <3>8 DEF Lists
      <4>2. QED
        BY <3>1, <3>2, <3>3, <3>4, <4>1 DEF Lists
    <3>9. QED
        BY <3>6, <3>7, <3>8
  <2>26. Match'
    <3>1. SUFFICES ASSUME Live', ~Dead \/ Coming # <<>> PROVE Match'
        BY <2>8, <2>21 DEF Match
    <3>2. Live
        BY <1>9, <2>2, <3>1 DEF Live
    <3>3. Answered' = Answered
        BY <1>1, <2>8, <2>11 DEF Answered
    <3>4. PICK a : a = Answered
        BY Zenon
    <3>5. a \in Nat /\ a <= Served
      <4>1. CASE fresh
        BY <2>10, <3>4, <4>1 DEF Answered
      <4>2. CASE ~fresh
        BY <2>10, <3>4, <4>2 DEF Dead
      <4>3. QED
        BY <4>1, <4>2
    <3>6. /\ \A i \in DOMAIN ac.replies : ac.replies[i] = a + i
          /\ \A i \in DOMAIN ac.invalid : ac.invalid[i] > a + Len(ac.replies)
          /\ \A m \in DOMAIN issued : m > a + Len(ac.replies) /\ issued[m].kind \in Regular =>
                                      \E i \in DOMAIN ac.invalid : ac.invalid[i] = m
          /\ ~Dead => \A i \in DOMAIN Coming : ~Solicited(Coming[i]) => Coming[i].n >= a + Len(ac.replies)
          /\ subs # {} => Served >= a + Len(ac.replies)
          /\ "SUBSCRIBED" \notin ac.flags =>
               /\ subs = {} /\ a + Len(ac.replies) = Len(issued)
               /\ \A i \in DOMAIN Coming : Coming[i].type # "ARRAY"
        BY <2>6, <3>1, <3>2, <3>4 DEF Match
    <3>7. a + Len(ac.replies) <= Len(issued)
      <4>1. CASE ac.replies = <<>>
        BY <1>7, <2>10, <2>13, <3>5, <4>1
      <4>2. CASE ac.replies # <<>>
        <5>1. Len(ac.replies) \in DOMAIN ac.replies
            BY <2>13, <4>2
        <5>2. ac.replies[Len(ac.replies)] \in 1 .. Len(issued)
            BY <1>7, <2>6, <5>1 DEF Lists
        <5>3. QED
            BY <3>6, <5>1, <5>2
      <4>3. QED
        BY <4>1, <4>2
    <3>8. CASE kind \in Regular /\ "SUBSCRIBED" \notin ac.flags
      <4>1. ac'.replies = Append(ac.replies, n) /\ ac'.invalid = ac.invalid /\ ac'.flags = ac.flags /\ ac.invalid = <<>>
        BY <2>2, <2>6, <3>8 DEF Lists, Regular
      <4>2. /\ DOMAIN ac'.replies = 1 .. Len(ac.replies) + 1 /\ ac'.replies[Len(ac.replies) + 1] = n
            /\ \A i \in 1 .. Len(ac.replies) : ac'.replies[i] = ac.replies[i]
            /\ Len(ac'.replies) = Len(ac.replies) + 1
        BY <1>7, <2>13, <4>1, AppendedTo
      <4>3. n = a + (Len(ac.replies) + 1) /\ subs = {} /\ \A i \in DOMAIN Coming : Coming[i].type # "ARRAY"
        <5>1. subs = {} /\ a + Len(ac.replies) = Len(issued) /\ \A i \in DOMAIN Coming : Coming[i].type # "ARRAY"
            BY <3>6, <3>8, Zenon
        <5>2. n = a + (Len(ac.replies) + 1)
          <6>1. PICK l, m : l = Len(ac.replies) /\ m = Len(issued)
            BY Zenon
          <6>2. l \in Nat /\ m \in Nat /\ a + l = m /\ n = m + 1
            BY <1>3, <1>7, <2>13, <5>1, <6>1, Zenon
          <6>3. n = a + (l + 1)
            BY <3>5, <6>2
          <6>4. QED
            BY <6>1, <6>3
        <5>3. QED
            BY <5>1, <5>2
      <4>4. \A i \in DOMAIN ac'.replies : ac'.replies[i] = a + i
        <5>1. \A i \in DOMAIN ac'.replies : i \in DOMAIN ac.replies \/ i = Len(ac.replies) + 1
            BY <2>13, <4>2
        <5>2. QED
            BY <2>13, <3>6, <4>2, <4>3, <5>1
      <4>5. DOMAIN ac'.invalid = {} /\ \A i \in DOMAIN Coming : Solicited(Coming[i])
        BY <4>1, <4>3 DEF Solicited
      <4>6. \A m \in DOMAIN issued' : ~(m > a + (Len(ac.replies) + 1))
        BY <1>7, <4>3
      <4>7. a + (Len(ac.replies) + 1) = Len(issued')
        BY <1>7, <4>3
      <4>8. QED
        BY <1>1, <2>8, <3>3, <3>4, <4>2, <4>3, <4>4, <4>5, <4>6, <4>7, Zenon DEF Match
    <3>9. CASE kind \in Regular /\ "SUBSCRIBED" \in ac.flags
      <4>1. ac'.replies = ac.replies /\ ac'.invalid = Append(ac.invalid, n) /\ "SUBSCRIBED" \in ac'.flags
        BY <2>2, <3>9
      <4>2. /\ DOMAIN ac'.invalid = 1 .. Len(ac.invalid) + 1 /\ ac'.invalid[Len(ac.invalid) + 1] = n
            /\ \A i \in 1 .. Len(ac.invalid) : ac'.invalid[i] = ac.invalid[i]
        BY <1>7, <2>13, <4>1, AppendedTo
      <4>3. n > a + Len(ac.replies)
        BY <1>3, <1>7, <2>13, <3>5, <3>7
      <4>4. \A i \in DOMAIN ac'.invalid : ac'.invalid[i] > a + Len(ac.replies)
        <5>1. \A i \in DOMAIN ac'.invalid : i \in DOMAIN ac.invalid \/ i = Len(ac.invalid) + 1
            BY <2>13, <4>2
        <5>2. QED
            BY <2>13, <3>6, <4>2, <4>3, <5>1
      <4>5. ASSUME NEW m \in DOMAIN issued', m > a + Len(ac.replies), issued'[m].kind \in Regular
            PROVE  \E i \in DOMAIN ac'.invalid : ac'.invalid[i] = m
        <5>1. CASE m = n
          <6>1. Len(ac.invalid) + 1 \in DOMAIN ac'.invalid
            BY <2>13, <4>2
          <6>2. QED
            BY <4>2, <5>1, <6>1
        <5>2. CASE m # n
          <6>1. m \in DOMAIN issued /\ issued[m].kind \in Regular
            BY <1>3, <1>7, <4>5, <5>2
          <6>2. PICK i \in DOMAIN ac.invalid : ac.invalid[i] = m
            BY <3>6, <4>5, <6>1
          <6>3. i \in DOMAIN ac'.invalid /\ ac'.invalid[i] = m
            BY <2>13, <4>2, <6>2
          <6>4. QED
            BY <6>3
        <5>3. QED
            BY <5>1, <5>2
      <4>6. QED
        BY <1>1, <2>8, <2>11, <2>21, <3>3, <3>4, <3>6, <4>1, <4>4, <4>5, Zenon DEF Match
    <3>10. CASE kind \notin Regular
      <4>1. ac'.replies = ac.replies /\ ac'.invalid = ac.invalid /\ "SUBSCRIBED" \in ac'.flags
        BY <2>2, <2>3, <3>10 DEF Regular
      <4>2. ASSUME NEW m \in DOMAIN issued', m > a + Len(ac.replies), issued'[m].kind \in Regular
            PROVE  \E i \in DOMAIN ac.invalid : ac.invalid[i] = m
        <5>1. m # n
            BY <1>7, <1>8, <3>10, <4>2
        <5>2. m \in DOMAIN issued /\ issued[m].kind \in Regular
            BY <1>3, <1>7, <4>2, <5>1
        <5>3. QED
            BY <3>6, <4>2, <5>2
      <4>3. QED
        BY <1>1, <2>8, <2>11, <2>21, <3>3, <3>4, <3>6, <4>1, <4>2, Zenon DEF Match
    <3>11. QED
        BY <3>8, <3>9, <3>10
  <2>27. Called'
    <3>1. /\ \A m \in 1 .. Len(issued) : \A i \in DOMAIN calls[m] : Answers(calls[m][i], m)
          /\ \A m \in 1 .. Len(issued) : issued[m].kind \in Regular =>
                IF Pending(m) THEN calls[m] = <<>> ELSE Len(calls[m]) = 1
          /\ \A m \in 1 .. Len(issued) : issued[m].kind \notin Regular =>
                \A i \in DOMAIN calls[m] : calls[m][i] # NullReply
        BY <1>9, <2>6, <2>14 DEF Called
    <3>2. \A m \in 1 .. n : m \in 1 .. Len(issued) \/ m = n
        BY <1>3, <1>7
    <3>3. DOMAIN calls'[n] = {}
        BY <2>14
    <3>4. \A m \in 1 .. Len(issued) : Pending(m)' <=> Pending(m)
      <4>1. \A m \in 1 .. Len(issued) : m # n
        BY <1>3, <1>7
      <4>2. \A m \in 1 .. Len(issued) : (\E i \in DOMAIN ac'.replies : ac'.replies[i] = m) <=> (\E i \in DOMAIN ac.replies : ac.replies[i] = m)
        <5>1. CASE ac'.replies = ac.replies
            BY <5>1
        <5>2. CASE ac'.replies = Append(ac.replies, n)
          <6>1. /\ DOMAIN ac'.replies = 1 .. Len(ac.replies) + 1 /\ ac'.replies[Len(ac.replies) + 1] = n
                /\ \A i \in 1 .. Len(ac.replies) : ac'.replies[i] = ac.replies[i]
            BY <1>7, <2>13, <5>2, AppendedTo
          <6>2. /\ \A i \in DOMAIN ac'.replies : i \in DOMAIN ac.replies \/ i = Len(ac.replies) + 1
                /\ \A i \in DOMAIN ac.replies : i \in DOMAIN ac'.replies
            BY <2>13, <6>1
          <6>3. QED
            BY <2>13, <4>1, <6>1, <6>2
        <5>3. QED
            BY <2>2, <5>1, <5>2
      <4>3. \A m \in 1 .. Len(issued) : (\E i \in DOMAIN ac'.invalid : ac'.invalid[i] = m) <=> (\E i \in DOMAIN ac.invalid : ac.invalid[i] = m)
        <5>1. CASE ac'.invalid = ac.invalid
            BY <5>1
        <5>2. CASE ac'.invalid = Append(ac.invalid, n)
          <6>1. /\ DOMAIN ac'.invalid = 1 .. Len(ac.invalid) + 1 /\ ac'.invalid[Len(ac.invalid) + 1] = n
                /\ \A i \in 1 .. Len(ac.invalid) : ac'.invalid[i] = ac.invalid[i]
            BY <1>7, <2>13, <5>2, AppendedTo
          <6>2. /\ \A i \in DOMAIN ac'.invalid : i \in DOMAIN ac.invalid \/ i = Len(ac.invalid) + 1
                /\ \A i \in DOMAIN ac.invalid : i \in DOMAIN ac'.invalid
            BY <2>13, <6>1
          <6>3. QED
            BY <2>13, <4>1, <6>1, <6>2
        <5>3. QED
            BY <2>2, <5>1, <5>2
      <4>4. QED
        BY <4>2, <4>3 DEF Pending
    <3>5. kind \in Regular => Pending(n)'
      <4>1. SUFFICES ASSUME kind \in Regular PROVE Pending(n)'
        OBVIOUS
      <4>2. CASE "SUBSCRIBED" \notin ac.flags
        <5>1. ac'.replies = Append(ac.replies, n)
            BY <2>2, <4>1, <4>2
        <5>2. DOMAIN ac'.replies = 1 .. Len(ac.replies) + 1 /\ ac'.replies[Len(ac.replies) + 1] = n
            BY <1>7, <2>13, <5>1, AppendedTo
        <5>3. Len(ac.replies) + 1 \in DOMAIN ac'.replies
            BY <2>13, <5>2
        <5>4. QED
            BY <5>2, <5>3 DEF Pending
      <4>3. CASE "SUBSCRIBED" \in ac.flags
        <5>1. ac'.invalid = Append(ac.invalid, n)
            BY <2>2, <4>1, <4>3
        <5>2. DOMAIN ac'.invalid = 1 .. Len(ac.invalid) + 1 /\ ac'.invalid[Len(ac.invalid) + 1] = n
            BY <1>7, <2>13, <5>1, AppendedTo
        <5>3. Len(ac.invalid) + 1 \in DOMAIN ac'.invalid
            BY <2>13, <5>2
        <5>4. QED
            BY <5>2, <5>3 DEF Pending
      <4>4. QED
        BY <4>2, <4>3
    <3>6. \A m \in DOMAIN calls' : \A i \in DOMAIN calls'[m] : Answers(calls[m][i], m)'
      <4>1. ASSUME NEW m \in DOMAIN calls', NEW i \in DOMAIN calls'[m] PROVE Answers(calls[m][i], m)'
        <5>1. m \in 1 .. Len(issued)
            BY <2>14, <3>2, <3>3, <4>1
        <5>2. calls'[m] = calls[m] /\ issued'[m] = issued[m]
            BY <1>7, <2>14, <5>1
        <5>3. Answers(calls[m][i], m)
            BY <3>1, <4>1, <5>1, <5>2
        <5>4. QED
            BY <5>2, <5>3 DEF Answers
      <4>2. QED
        BY <4>1
    <3>7. \A m \in DOMAIN calls' : issued'[m].kind \in Regular =>
              IF Pending(m)' THEN calls'[m] = <<>> ELSE Len(calls'[m]) = 1
      <4>1. ASSUME NEW m \in DOMAIN calls', issued'[m].kind \in Regular
            PROVE  IF Pending(m)' THEN calls'[m] = <<>> ELSE Len(calls'[m]) = 1
        <5>1. CASE m \in 1 .. Len(issued)
            BY <1>7, <2>14, <3>1, <3>4, <4>1, <5>1
        <5>2. CASE m = n
            BY <1>7, <1>8, <2>14, <3>5, <4>1, <5>2
        <5>3. QED
            BY <2>14, <3>2, <5>1, <5>2
      <4>2. QED
        BY <4>1, Zenon
    <3>8. \A m \in DOMAIN calls' : issued'[m].kind \notin Regular =>
              \A i \in DOMAIN calls'[m] : calls'[m][i] # NullReply
      <4>1. ASSUME NEW m \in DOMAIN calls', issued'[m].kind \notin Regular, NEW i \in DOMAIN calls'[m]
            PROVE  calls'[m][i] # NullReply
        <5>1. m \in 1 .. Len(issued)
            BY <2>14, <3>2, <3>3, <4>1
        <5>2. calls'[m] = calls[m] /\ issued'[m] = issued[m]
            BY <1>7, <2>14, <5>1
        <5>3. QED
            BY <3>1, <4>1, <5>1, <5>2
      <4>2. QED
        BY <4>1, Zenon
    <3>9. QED
        BY <3>6, <3>7, <3>8, Zenon DEF Called
  <2>28. Iterated'
    BY <1>9 DEF Iterated
  <2>29. Dictionaries'
    <3>1. Holds(ac.channels, DOMAIN want \ Patterns, want) /\ Holds(ac.patterns, DOMAIN want \cap Patterns, want)
        BY <1>9, <2>6 DEF Dictionaries, Entry, Holds
    <3>5. ASSUME Holds(ac'.channels, DOMAIN want' \ Patterns, want'), Holds(ac'.patterns, DOMAIN want' \cap Patterns, want')
          PROVE  Dictionaries'
        BY <3>5 DEF Dictionaries, Entry, Holds
    <3>2. CASE kind = "subscribe"
      <4>1. DOMAIN want' = DOMAIN want \cup {key} /\ \A k \in DOMAIN want' : want'[k] = IF k = key THEN n ELSE want[k]
        BY <1>4, <3>2
      <4>2. key \in Keys
        BY <2>3, <3>2 DEF Regular
      <4>3. CASE key \in Patterns
        <5>1. ac'.channels = ac.channels /\ ac'.patterns = dictReplace(ac.patterns, key, n)
            BY <2>2, <3>2, <4>3
        <5>2. DOMAIN want' \cap Patterns = (DOMAIN want \cap Patterns) \cup {key} /\ DOMAIN want' \ Patterns = DOMAIN want \ Patterns
            BY <4>1, <4>3
        <5>3. Updated(DOMAIN want \cap Patterns, want, want', key, n)
            BY <4>1 DEF Updated
        <5>4. Holds(dictReplace(ac.patterns, key, n), (DOMAIN want \cap Patterns) \cup {key}, want')
            BY <1>7, <3>1, <4>2, <5>3, SubscriptionRecorded
        <5>5. Holds(ac.channels, DOMAIN want \ Patterns, want')
            BY <3>1, <4>1, <4>3 DEF Holds
        <5>6. QED
            BY <3>5, <5>1, <5>2, <5>4, <5>5, Zenon
      <4>4. CASE key \notin Patterns
        <5>1. ac'.patterns = ac.patterns /\ ac'.channels = dictReplace(ac.channels, key, n)
            BY <2>2, <3>2, <4>4
        <5>2. DOMAIN want' \ Patterns = (DOMAIN want \ Patterns) \cup {key} /\ DOMAIN want' \cap Patterns = DOMAIN want \cap Patterns
            BY <4>1, <4>4
        <5>3. Updated(DOMAIN want \ Patterns, want, want', key, n)
            BY <4>1 DEF Updated
        <5>4. Holds(dictReplace(ac.channels, key, n), (DOMAIN want \ Patterns) \cup {key}, want')
            BY <1>7, <3>1, <4>2, <5>3, SubscriptionRecorded
        <5>5. Holds(ac.patterns, DOMAIN want \cap Patterns, want')
            BY <3>1, <4>1, <4>4 DEF Holds
        <5>6. QED
            BY <3>5, <5>1, <5>2, <5>4, <5>5, Zenon
      <4>5. QED
        BY <4>3, <4>4
    <3>3. CASE kind # "subscribe"
      <4>1. want' = want /\ ac'.channels = ac.channels /\ ac'.patterns = ac.patterns
        BY <1>4, <2>2, <3>3
      <4>2. QED
        BY <3>1, <3>5, <4>1, Zenon
    <3>4. QED
        BY <3>2, <3>3
  <2>30. QED
    BY <2>17, <2>24, <2>25, <2>26, <2>27, <2>28, <2>29 DEF Story
<1>13. QED
    BY <1>11, <1>12

-----------------------------------------------------------------------------
(* Callbacks.                                                              *)

(* d is c while a callback runs.                                           *)
Ran(c, d) ==
    /\ d.err = c.err /\ d.replies = c.replies /\ d.invalid = c.invalid /\ d.channels = c.channels
    /\ d.patterns = c.patterns /\ d.obuf = c.obuf /\ d.reader = c.reader /\ d.cb = c.cb
    /\ SameSubscribed(c, d) /\ ("MONITORING" \in d.flags => "MONITORING" \in c.flags)

Calls(n, r) == calls' = [calls EXCEPT ![n] = Append(@, r)]

LEMMA RunsCallback ==
    ASSUME NEW c, NEW n, NEW r, NEW next, IsContext(c), redisRunCallback(c, n, r, next)
    PROVE  /\ Ran(c, ac')
           /\ IF n = 0 THEN pc' = next /\ after' = after /\ calls' = calls
              ELSE pc' = "callback" /\ after' = next /\ Calls(n, r)
<1>1. CASE n = 0
    BY <1>1 DEF redisRunCallback, Ran, SameSubscribed
<1>2. CASE n # 0
  <2>1. ac' = [c EXCEPT !.flags = @ \cup {"IN_CALLBACK"}] /\ pc' = "callback" /\ after' = next /\ Calls(n, r)
    BY <1>2, Zenon DEF redisRunCallback, Calls
  <2>2. Ran(c, ac')
    BY <2>1 DEF IsContext, Ran, SameSubscribed
  <2>3. QED
    BY <1>2, <2>1, <2>2
<1>3. QED
    BY <1>1, <1>2

LEMMA CallsGrow ==
    ASSUME Domains, NEW n \in DOMAIN issued, NEW r \in Message \cup {NullReply}, Calls(n, r)
    PROVE  /\ calls' \in Seq(Seq(Message \cup {NullReply})) /\ Len(calls') = Len(calls)
           /\ DOMAIN calls = DOMAIN issued /\ DOMAIN calls' = DOMAIN issued
           /\ \A m \in DOMAIN issued : m # n => calls'[m] = calls[m]
           /\ calls[n] \in Seq(Message \cup {NullReply}) /\ calls'[n] = Append(calls[n], r)
           /\ Len(calls[n]) \in Nat /\ Len(calls'[n]) = Len(calls[n]) + 1
           /\ DOMAIN calls'[n] = 1 .. Len(calls[n]) + 1 /\ DOMAIN calls[n] = 1 .. Len(calls[n])
           /\ \A i \in DOMAIN calls[n] : calls'[n][i] = calls[n][i]
           /\ calls'[n][Len(calls[n]) + 1] = r
<1>1. calls \in Seq(Seq(Message \cup {NullReply})) /\ Len(calls) = Len(issued)
    BY DEF Domains
<1>2. DOMAIN calls = 1 .. Len(calls) /\ Len(calls) \in Nat
    BY <1>1, LenProperties
<1>3. DOMAIN calls = DOMAIN issued
  <2>1. DOMAIN issued = 1 .. Len(issued)
    BY DEF Domains
  <2>2. QED
    BY <1>1, <1>2, <2>1
<1>4. PICK q : q = Append(calls[n], r)
    BY Zenon
<1>5. calls[n] \in Seq(Message \cup {NullReply})
    BY <1>1, <1>2, <1>3, ElementOfSeq
<1>6. /\ q \in Seq(Message \cup {NullReply}) /\ Len(calls[n]) \in Nat /\ Len(q) = Len(calls[n]) + 1
      /\ DOMAIN q = 1 .. Len(calls[n]) + 1 /\ DOMAIN calls[n] = 1 .. Len(calls[n])
      /\ \A i \in 1 .. Len(calls[n]) : q[i] = calls[n][i]
      /\ q[Len(calls[n]) + 1] = r
    BY <1>4, <1>5, AppendedTo
<1>7. calls' = [calls EXCEPT ![n] = q]
    BY <1>4 DEF Calls
<1>8. calls' \in Seq(Seq(Message \cup {NullReply})) /\ Len(calls') = Len(calls) /\ DOMAIN calls' = DOMAIN calls
      /\ calls'[n] = q /\ \A m \in DOMAIN calls : m # n => calls'[m] = calls[m]
  <2>1. n \in 1 .. Len(calls)
    BY <1>2, <1>3
  <2>2. [calls EXCEPT ![n] = q] \in Seq(Seq(Message \cup {NullReply})) /\ Len([calls EXCEPT ![n] = q]) = Len(calls)
    BY <1>1, <1>6, <2>1, ExceptSeq
  <2>3. QED
    BY <1>2, <1>7, <2>1, <2>2
<1>9. QED
    BY <1>3, <1>4, <1>5, <1>6, <1>8

(* The callback of a regular command is called and no longer waits.        *)
Settles(m) == ~Pending(m)' /\ \A k \in Nat \ {m} : Pending(k)' <=> Pending(k)

LEMMA CalledOnce ==
    ASSUME Domains, Called, NEW m \in DOMAIN issued, issued[m].kind \in Regular, Pending(m), Settles(m),
           NEW r \in Message \cup {NullReply}, Answers(r, m), Calls(m, r), issued' = issued,
           iter' = iter, ListsDone => ListsDone'
    PROVE  Called'
<1>1. /\ DOMAIN calls = DOMAIN issued /\ DOMAIN calls' = DOMAIN issued
      /\ \A k \in DOMAIN issued : k # m => calls'[k] = calls[k]
      /\ Len(calls'[m]) = Len(calls[m]) + 1 /\ Len(calls[m]) \in Nat
      /\ DOMAIN calls'[m] = 1 .. Len(calls[m]) + 1
      /\ calls'[m][Len(calls[m]) + 1] = r
    BY CallsGrow
<1>2. calls[m] = <<>>
    BY <1>1 DEF Called
<1>3. Len(calls'[m]) = 1 /\ DOMAIN calls'[m] = 1 .. 1 /\ calls'[m][1] = r
    BY <1>1, <1>2
<1>4. DOMAIN issued \subseteq Nat
    BY DEF Domains
<1>5. ASSUME NEW k \in DOMAIN calls', NEW i \in DOMAIN calls'[k] PROVE Answers(calls[k][i], k)' 
  <2>1. CASE k = m
    BY <1>3, <1>5, <2>1 DEF Answers
  <2>2. CASE k # m
    <3>1. calls'[k] = calls[k]
        BY <1>1, <1>5, <2>2
    <3>2. Answers(calls[k][i], k)
        BY <1>1, <1>5, <3>1 DEF Called
    <3>3. QED
        BY <3>1, <3>2 DEF Answers
  <2>3. QED
    BY <2>1, <2>2
<1>6. ASSUME NEW k \in DOMAIN calls', issued'[k].kind \in Regular
      PROVE  IF Pending(k)' THEN calls'[k] = <<>> ELSE Len(calls'[k]) = 1
  <2>1. CASE k = m
    BY <1>3, <2>1 DEF Settles
  <2>2. CASE k # m
    BY <1>1, <1>4, <1>6, <2>2 DEF Called, Settles
  <2>3. QED
    BY <2>1, <2>2
<1>7. ASSUME NEW k \in DOMAIN calls', issued'[k].kind \notin Regular, NEW i \in DOMAIN calls'[k], calls'[k][i] = NullReply
      PROVE  issued'[k].kind = "subscribe" /\ i = Len(calls'[k]) /\ ListsDone' /\ \A e \in iter' : e.val # k
  <2>1. k # m /\ calls'[k] = calls[k]
    BY <1>1, <1>7
  <2>2. QED
    BY <1>1, <1>7, <2>1 DEF Called
<1>8. QED
    BY <1>5, <1>6, <1>7, Zenon DEF Called

LEMMA ShiftReplies ==
    ASSUME IInv, Domains, Lists, ac.replies # <<>>, ac'.replies = Tail(ac.replies), ac'.invalid = ac.invalid,
           SameSubscribed(ac, ac'), issued' = issued, NEW m, m = Head(ac.replies)
    PROVE  /\ Lists' /\ m \in DOMAIN issued /\ issued[m].kind \in Regular /\ m \in Nat \ {0}
           /\ m = ac.replies[1] /\ Pending(m) /\ Settles(m) /\ ac'.replies \in Seq(Nat)
<1>1. /\ ac'.replies \in Seq(Nat) /\ Len(ac.replies) \in Nat \ {0} /\ m = ac.replies[1]
      /\ DOMAIN ac.replies = 1 .. Len(ac.replies) /\ DOMAIN ac'.replies = 1 .. Len(ac.replies) - 1
      /\ \A i \in 1 .. Len(ac.replies) - 1 : ac'.replies[i] = ac.replies[i + 1]
    BY TailOf DEF Domains
<1>2. /\ \A i \in DOMAIN ac.replies : ac.replies[i] \in DOMAIN issued /\ issued[ac.replies[i]].kind \in Regular
      /\ Ascending(ac.replies) /\ Ascending(ac.invalid)
      /\ \A i \in DOMAIN ac.replies, j \in DOMAIN ac.invalid : ac.replies[i] < ac.invalid[j]
      /\ \A i \in DOMAIN ac.invalid : ac.invalid[i] \in DOMAIN issued
    BY DEF Lists
<1>3. 1 \in DOMAIN ac.replies
    BY <1>1
<1>4. DOMAIN issued \subseteq Nat \ {0}
  <2>1. Len(issued) \in Nat /\ DOMAIN issued = 1 .. Len(issued)
    BY LenProperties DEF IInv, Types
  <2>2. QED
    BY <2>1
<1>5. \A i \in DOMAIN ac'.replies : i + 1 \in DOMAIN ac.replies /\ ac'.replies[i] = ac.replies[i + 1] /\ i + 1 > 1
  <2>1. ASSUME NEW i \in DOMAIN ac'.replies PROVE i + 1 \in DOMAIN ac.replies /\ ac'.replies[i] = ac.replies[i + 1] /\ i + 1 > 1
    <3>1. i \in 1 .. Len(ac.replies) - 1
        BY <1>1
    <3>2. i + 1 \in 1 .. Len(ac.replies) /\ i + 1 > 1
        BY <1>1, <3>1
    <3>3. ac'.replies[i] = ac.replies[i + 1]
        BY <1>1, <3>1, Zenon
    <3>4. QED
        BY <1>1, <3>2, <3>3
  <2>2. QED
    BY <2>1, Zenon
<1>6. \A i \in DOMAIN ac'.replies : m < ac'.replies[i]
    BY <1>1, <1>2, <1>3, <1>5 DEF Ascending
<1>7. ~Pending(m)'
  <2>1. \A i \in DOMAIN ac'.replies : ac'.replies[i] # m
    BY <1>1, <1>2, <1>3, <1>4, <1>5, <1>6
  <2>2. \A i \in DOMAIN ac'.invalid : ac'.invalid[i] # m
    BY <1>1, <1>2, <1>3, <1>4
  <2>3. QED
    BY <2>1, <2>2 DEF Pending
<1>8. ASSUME NEW k \in Nat \ {m} PROVE Pending(k)' <=> Pending(k)
  <2>1. ASSUME NEW i \in DOMAIN ac.replies, ac.replies[i] = k PROVE \E j \in DOMAIN ac'.replies : ac'.replies[j] = k
    <3>1. i # 1
        BY <1>1, <1>8, <2>1
    <3>2. i - 1 \in DOMAIN ac'.replies /\ (i - 1) + 1 = i
        BY <1>1, <2>1, <3>1
    <3>3. QED
        BY <1>5, <2>1, <3>2
  <2>2. ASSUME NEW i \in DOMAIN ac'.replies, ac'.replies[i] = k PROVE \E j \in DOMAIN ac.replies : ac.replies[j] = k
    BY <1>5, <2>2
  <2>3. QED
    BY <2>1, <2>2 DEF Pending
<1>9. Settles(m) /\ Pending(m)
    BY <1>1, <1>3, <1>7, <1>8 DEF Settles, Pending
<1>10. Lists'
  <2>1. Ascending(ac'.replies)
    <3>1. \A i, j \in DOMAIN ac'.replies : i < j => i + 1 < j + 1
        BY <1>1
    <3>2. QED
        BY <1>2, <1>5, <3>1 DEF Ascending
  <2>2. \A i \in DOMAIN ac'.replies : ac'.replies[i] \in DOMAIN issued /\ issued[ac'.replies[i]].kind \in Regular
    BY <1>2, <1>5
  <2>3. \A i \in DOMAIN ac'.replies, j \in DOMAIN ac.invalid : ac'.replies[i] < ac.invalid[j]
    BY <1>2, <1>5
  <2>4. QED
    BY <2>1, <2>2, <2>3 DEF Lists, SameSubscribed
<1>11. QED
    BY <1>1, <1>2, <1>3, <1>4, <1>9, <1>10

LEMMA ShiftInvalid ==
    ASSUME IInv, Domains, Lists, ac.replies = <<>>, ac'.replies = <<>>, ac.invalid # <<>>, ac'.invalid = Tail(ac.invalid),
           SameSubscribed(ac, ac'), issued' = issued, NEW m, m = Head(ac.invalid)
    PROVE  /\ Lists' /\ m \in DOMAIN issued /\ issued[m].kind \in Regular /\ m \in Nat \ {0}
           /\ m = ac.invalid[1] /\ Pending(m) /\ Settles(m) /\ ac'.invalid \in Seq(Nat)
<1>1. /\ ac'.invalid \in Seq(Nat) /\ Len(ac.invalid) \in Nat \ {0} /\ m = ac.invalid[1]
      /\ DOMAIN ac.invalid = 1 .. Len(ac.invalid) /\ DOMAIN ac'.invalid = 1 .. Len(ac.invalid) - 1
      /\ \A i \in 1 .. Len(ac.invalid) - 1 : ac'.invalid[i] = ac.invalid[i + 1]
    BY TailOf DEF Domains
<1>2. /\ \A i \in DOMAIN ac.invalid : ac.invalid[i] \in DOMAIN issued /\ issued[ac.invalid[i]].kind \in Regular
      /\ Ascending(ac.invalid) /\ "SUBSCRIBED" \in ac.flags
    BY DEF Lists
<1>3. 1 \in DOMAIN ac.invalid /\ DOMAIN ac.replies = {} /\ DOMAIN ac'.replies = {}
    BY <1>1
<1>4. DOMAIN issued \subseteq Nat \ {0}
  <2>1. Len(issued) \in Nat /\ DOMAIN issued = 1 .. Len(issued)
    BY LenProperties DEF IInv, Types
  <2>2. QED
    BY <2>1
<1>5. \A i \in DOMAIN ac'.invalid : i + 1 \in DOMAIN ac.invalid /\ ac'.invalid[i] = ac.invalid[i + 1] /\ i + 1 > 1
  <2>1. ASSUME NEW i \in DOMAIN ac'.invalid PROVE i + 1 \in DOMAIN ac.invalid /\ ac'.invalid[i] = ac.invalid[i + 1] /\ i + 1 > 1
    <3>1. i \in 1 .. Len(ac.invalid) - 1
        BY <1>1
    <3>2. i + 1 \in 1 .. Len(ac.invalid) /\ i + 1 > 1
        BY <1>1, <3>1
    <3>3. ac'.invalid[i] = ac.invalid[i + 1]
        BY <1>1, <3>1, Zenon
    <3>4. QED
        BY <1>1, <3>2, <3>3
  <2>2. QED
    BY <2>1, Zenon
<1>6. \A i \in DOMAIN ac'.invalid : m < ac'.invalid[i]
    BY <1>1, <1>2, <1>3, <1>5 DEF Ascending
<1>7. ~Pending(m)'
    BY <1>1, <1>2, <1>3, <1>4, <1>5, <1>6 DEF Pending
<1>8. ASSUME NEW k \in Nat \ {m} PROVE Pending(k)' <=> Pending(k)
  <2>1. ASSUME NEW i \in DOMAIN ac.invalid, ac.invalid[i] = k PROVE \E j \in DOMAIN ac'.invalid : ac'.invalid[j] = k
    <3>1. i # 1
        BY <1>1, <1>8, <2>1
    <3>2. i - 1 \in DOMAIN ac'.invalid /\ (i - 1) + 1 = i
        BY <1>1, <2>1, <3>1
    <3>3. QED
        BY <1>5, <2>1, <3>2
  <2>2. ASSUME NEW i \in DOMAIN ac'.invalid, ac'.invalid[i] = k PROVE \E j \in DOMAIN ac.invalid : ac.invalid[j] = k
    BY <1>5, <2>2
  <2>3. QED
    BY <1>3, <2>1, <2>2 DEF Pending
<1>9. Settles(m) /\ Pending(m)
    BY <1>1, <1>3, <1>7, <1>8 DEF Settles, Pending
<1>10. Lists'
  <2>1. Ascending(ac'.invalid)
    <3>1. \A i, j \in DOMAIN ac'.invalid : i < j => i + 1 < j + 1
        BY <1>1
    <3>2. QED
        BY <1>2, <1>5, <3>1 DEF Ascending
  <2>2. \A i \in DOMAIN ac'.invalid : ac'.invalid[i] \in DOMAIN issued /\ issued[ac'.invalid[i]].kind \in Regular
    BY <1>2, <1>5
  <2>3. Ascending(ac'.replies)
    BY <1>3 DEF Ascending
  <2>4. "SUBSCRIBED" \in ac'.flags
    BY <1>2 DEF SameSubscribed
  <2>5. QED
    BY <1>3, <2>1, <2>2, <2>3, <2>4 DEF Lists
<1>11. QED
    BY <1>1, <1>2, <1>3, <1>4, <1>9, <1>10

-----------------------------------------------------------------------------
(* __redisAsyncFree.                                                       *)

(* c is the context but for its lists of callbacks.                        *)
Shorter(c) ==
    /\ IsContext(c) /\ c.flags = ac.flags /\ c.err = ac.err /\ c.channels = ac.channels
    /\ c.patterns = ac.patterns /\ c.obuf = ac.obuf /\ c.reader = ac.reader /\ c.cb = ac.cb

(* The regular command m is the next one whose callback runs.              *)
ComesNext(m) ==
    /\ Lists' /\ m \in DOMAIN issued /\ issued[m].kind \in Regular /\ m \in Nat \ {0}
    /\ Pending(m) /\ Settles(m) /\ ac'.replies \in Seq(Nat) /\ ac'.invalid \in Seq(Nat)

LEMMA FreeingTells ==
    ASSUME IInv, SInv, pc = "free", NEW c, NEW m, Shorter(c), redisRunCallback(c, m, NullReply, "free"),
           UNCHANGED <<iter, sent, inflight, eof, fresh, subs, want, leaving, issued, crossed>>,
           Story => ComesNext(m)
    PROVE  SInv'
<1>1. IsContext(c)
    BY DEF Shorter
<1>2. /\ Ran(c, ac')
      /\ IF m = 0 THEN pc' = "free" /\ after' = after /\ calls' = calls
         ELSE pc' = "callback" /\ after' = "free" /\ Calls(m, NullReply)
    BY <1>1, RunsCallback
<1>3. /\ ac'.err = ac.err /\ ac'.channels = ac.channels /\ ac'.patterns = ac.patterns /\ ac'.obuf = ac.obuf
      /\ ac'.reader = ac.reader /\ ac'.cb = ac.cb /\ SameSubscribed(ac, ac')
      /\ "MONITORING" \in ac'.flags => "MONITORING" \in ac.flags
    BY <1>2 DEF Ran, Shorter, SameSubscribed
<1>4. pc' = "free" \/ (pc' = "callback" /\ after' = "free")
    BY <1>2
<1>5. Unborn' /\ Reading' /\ ~ListsDone' /\ ~ListsDone /\ Freeing' /\ pc' # "freed"
    BY <1>4 DEF Unborn, Reading, ListsDone, Freeing, Ending
<1>6. Monitored' <=> Monitored
    BY DEF Monitored
<1>7. Monitors'
    BY <1>3, <1>6 DEF SInv, Monitors
<1>8. ASSUME ~Monitored', ~crossed' PROVE Story'
  <2>1. Story
    BY <1>6, <1>8 DEF SInv
  <2>2. Domains /\ Stream /\ Called /\ Dictionaries
    BY <2>1 DEF Story
  <2>3. /\ Lists' /\ m \in DOMAIN issued /\ issued[m].kind \in Regular /\ m # 0
        /\ Pending(m) /\ Settles(m) /\ ac'.replies \in Seq(Nat) /\ ac'.invalid \in Seq(Nat)
    BY <2>1 DEF ComesNext
  <2>4. Calls(m, NullReply)
    BY <1>2, <2>3
  <2>5. calls' \in Seq(Seq(Message \cup {NullReply})) /\ Len(calls') = Len(calls)
    BY <2>2, <2>3, <2>4, CallsGrow
  <2>6. Coming' = Coming /\ Going' = Going /\ Served' = Served
    BY <1>3 DEF Coming, Going, Served
  <2>7. SameWire
    BY <2>6 DEF SameWire
  <2>8. Domains'
    BY <1>3, <2>2, <2>3, <2>5, <2>6 DEF Domains
  <2>9. Stream'
    BY <2>2, <2>7, SameStream
  <2>10. Match'
    BY <1>5 DEF Match, Live
  <2>11. Answers(NullReply, m)
    BY DEF Answers
  <2>12. Called'
    BY <1>5, <2>2, <2>3, <2>4, <2>11, CalledOnce
  <2>13. Iterated'
    BY <1>5 DEF Iterated
  <2>14. Dictionaries'
    BY <1>3, <1>5, <2>2, SameDictionaries
  <2>15. QED
    BY <2>3, <2>8, <2>9, <2>10, <2>12, <2>13, <2>14 DEF Story
<1>9. QED
    BY <1>5, <1>7, <1>8 DEF SInv

LEMMA FreeRepliesTells == ASSUME IInv, SInv, FreeReplies PROVE SInv'
<1>1. PICK c : c = [ac EXCEPT !.replies = Tail(@)]
    BY Zenon
<1>2. IsContext(ac)
    BY DEF IInv, Types
<1>3. Shorter(c) /\ c.replies = Tail(ac.replies) /\ c.invalid = ac.invalid
    BY <1>1, <1>2 DEF IsContext, Shorter
<1>4. PICK m : m = Head(ac.replies)
    BY Zenon
<1>5. /\ pc = "free" /\ ac.replies # <<>> /\ redisRunCallback(c, m, NullReply, "free")
      /\ UNCHANGED <<iter, sent, inflight, eof, fresh, subs, want, leaving, issued, crossed>>
    BY <1>1, <1>4 DEF FreeReplies, wire, server, ghosts
<1>6. ASSUME Story PROVE ComesNext(m)
  <2>1. IsContext(c)
    BY <1>3 DEF Shorter
  <2>2. Ran(c, ac')
    BY <1>5, <2>1, RunsCallback
  <2>3. ac'.replies = Tail(ac.replies) /\ ac'.invalid = ac.invalid /\ SameSubscribed(ac, ac')
    BY <1>3, <2>2 DEF Ran, Shorter, SameSubscribed
  <2>4. Domains /\ Lists /\ ac.invalid \in Seq(Nat)
    BY <1>6 DEF Story, Domains
  <2>5. QED
    BY <1>4, <1>5, <2>3, <2>4, ShiftReplies DEF ComesNext
<1>7. QED
    BY <1>3, <1>5, <1>6, FreeingTells

LEMMA FreeInvalidTells == ASSUME IInv, SInv, FreeInvalid PROVE SInv'
<1>1. PICK c : c = [ac EXCEPT !.invalid = Tail(@)]
    BY Zenon
<1>2. IsContext(ac)
    BY DEF IInv, Types
<1>3. Shorter(c) /\ c.replies = ac.replies /\ c.invalid = Tail(ac.invalid)
    BY <1>1, <1>2 DEF IsContext, Shorter
<1>4. PICK m : m = Head(ac.invalid)
    BY Zenon
<1>5. /\ pc = "free" /\ ac.replies = <<>> /\ ac.invalid # <<>> /\ redisRunCallback(c, m, NullReply, "free")
      /\ UNCHANGED <<iter, sent, inflight, eof, fresh, subs, want, leaving, issued, crossed>>
    BY <1>1, <1>4 DEF FreeInvalid, wire, server, ghosts
<1>6. ASSUME Story PROVE ComesNext(m)
  <2>1. IsContext(c)
    BY <1>3 DEF Shorter
  <2>2. Ran(c, ac')
    BY <1>5, <2>1, RunsCallback
  <2>3. ac'.replies = <<>> /\ ac'.invalid = Tail(ac.invalid) /\ SameSubscribed(ac, ac')
    BY <1>3, <1>5, <2>2 DEF Ran, Shorter, SameSubscribed
  <2>4. Domains /\ Lists /\ ac.replies \in Seq(Nat)
    BY <1>6 DEF Story, Domains
  <2>5. QED
    BY <1>4, <1>5, <2>3, <2>4, ShiftInvalid DEF ComesNext
<1>7. QED
    BY <1>3, <1>5, <1>6, FreeingTells

LEMMA FreeIterateTells == ASSUME IInv, SInv, FreeIterate PROVE SInv'
<1>1. /\ pc = "free" /\ pc' = "iterate" /\ iter' = Entries(ac.channels) \cup Entries(ac.patterns)
      /\ UNCHANGED <<ac, after, sent, inflight, eof, fresh, subs, want, leaving, issued, crossed, calls>>
    BY DEF FreeIterate, wire, server, ghosts
<1>2. Unborn' /\ Reading' /\ ListsDone' /\ ~ListsDone /\ Freeing' /\ pc' # "freed"
    BY <1>1 DEF Unborn, Reading, ListsDone, Freeing, Ending
<1>3. Monitored' <=> Monitored
    BY <1>1 DEF Monitored
<1>4. Monitors'
    BY <1>1, <1>3 DEF SInv, Monitors
<1>5. ASSUME ~Monitored', ~crossed' PROVE Story'
  <2>1. Story
    BY <1>1, <1>3, <1>5 DEF SInv
  <2>2. Domains /\ Stream /\ Lists /\ Called /\ Dictionaries
    BY <2>1 DEF Story
  <2>3. Coming' = Coming /\ Going' = Going /\ Served' = Served
    BY <1>1 DEF Coming, Going, Served
  <2>4. SameWire
    BY <1>1, <2>3 DEF SameWire
  <2>5. Domains'
    BY <1>1, <2>2, <2>3 DEF Domains
  <2>6. Stream'
    BY <2>2, <2>4, SameStream
  <2>7. Lists'
    BY <1>1, <2>2, SameLists DEF SameSubscribed
  <2>8. Match'
    BY <1>2 DEF Match, Live
  <2>9. Called'
    <3>1. \A n \in DOMAIN calls' : \A i \in DOMAIN calls'[n] : Answers(calls[n][i], n)'
        BY <1>1, <2>2 DEF Called, Answers
    <3>2. \A n \in DOMAIN calls' : issued'[n].kind \in Regular =>
             IF Pending(n)' THEN calls'[n] = <<>> ELSE Len(calls'[n]) = 1
        BY <1>1, <2>2 DEF Called, Pending
    <3>3. \A n \in DOMAIN calls' : issued'[n].kind \notin Regular => \A i \in DOMAIN calls'[n] : calls'[n][i] # NullReply
        BY <1>1, <1>2, <2>2 DEF Called
    <3>4. QED
        BY <3>1, <3>2, <3>3, Zenon DEF Called
  <2>10. Iterated'
    <3>1. Entries(ac.channels) = {Entry(k) : k \in DOMAIN want \ Patterns}
          /\ Entries(ac.patterns) = {Entry(k) : k \in DOMAIN want \cap Patterns}
        BY <1>1, <2>2 DEF Dictionaries
    <3>2. \A k : Entry(k).key = k
        BY DEF Entry
    <3>3. iter' = {Entry(k) : k \in DOMAIN want}
        BY <1>1, <3>1
    <3>4. \A e \in iter' : e.key \in DOMAIN want /\ e = Entry(e.key)
        BY <3>2, <3>3
    <3>5. \A k \in DOMAIN want : Entry(k) \in iter'
        BY <3>3
    <3>6. want' = want /\ \A k : Entry(k)' = Entry(k)
        BY <1>1 DEF Entry
    <3>7. QED
        BY <1>2, <3>4, <3>5, <3>6 DEF Iterated
  <2>11. Dictionaries'
    BY <1>1, <1>2, <2>2, SameDictionaries
  <2>12. QED
    BY <2>5, <2>6, <2>7, <2>8, <2>9, <2>10, <2>11 DEF Story
<1>6. QED
    BY <1>2, <1>4, <1>5 DEF SInv

LEMMA FreeContextTells == ASSUME IInv, SInv, FreeContext PROVE SInv'
<1>0. IsContext(ac)
    BY DEF IInv, Types
<1>1. /\ pc = "iterate" /\ pc' = "freed" /\ iter = {}
      /\ UNCHANGED <<after, iter, sent, inflight, eof, fresh, subs, want, leaving, issued, crossed, calls>>
    BY DEF FreeContext, wire, server, ghosts
<1>2. /\ ac'.flags = ac.flags /\ ac'.replies = ac.replies /\ ac'.invalid = ac.invalid
      /\ ac'.obuf = ac.obuf /\ ac'.reader = ac.reader /\ ac'.cb = ac.cb
    BY <1>0 DEF FreeContext, IsContext
<1>3. Unborn' /\ Reading' /\ ListsDone' /\ ListsDone /\ Freeing' /\ pc' = "freed"
    BY <1>1 DEF Unborn, Reading, ListsDone, Freeing, Ending
<1>4. Monitored' <=> Monitored
    BY <1>1 DEF Monitored
<1>5. Monitors'
    BY <1>2, <1>4 DEF SInv, Monitors
<1>6. ASSUME ~Monitored', ~crossed' PROVE Story'
  <2>1. Story
    BY <1>1, <1>4, <1>6 DEF SInv
  <2>2. Domains /\ Stream /\ Lists /\ Called /\ Iterated
    BY <2>1 DEF Story
  <2>3. Coming' = Coming /\ Going' = Going /\ Served' = Served
    BY <1>1, <1>2 DEF Coming, Going, Served
  <2>4. SameWire
    BY <1>1, <2>3 DEF SameWire
  <2>5. Domains'
    BY <1>1, <1>2, <2>2, <2>3 DEF Domains
  <2>6. Stream'
    BY <2>2, <2>4, SameStream
  <2>7. Lists'
    BY <1>1, <1>2, <2>2, SameLists DEF SameSubscribed
  <2>8. Match'
    BY <1>3 DEF Match, Live
  <2>9. Called'
    BY <1>1, <1>2, <1>3, <2>2, SameCalled
  <2>10. Iterated'
    BY <1>1, <1>3, <2>2 DEF Iterated, Entry
  <2>11. Dictionaries'
    BY <1>3 DEF Dictionaries
  <2>12. QED
    BY <2>5, <2>6, <2>7, <2>8, <2>9, <2>10, <2>11 DEF Story
<1>7. QED
    BY <1>3, <1>5, <1>6 DEF SInv

LEMMA FreeSubscriptionTells == ASSUME IInv, SInv, FreeSubscription PROVE SInv'
<1>0. IsContext(ac)
    BY DEF IInv, Types
<1>1. PICK e \in iter : iter' = iter \ {e} /\ redisRunCallback(ac, e.val, NullReply, "iterate")
    BY DEF FreeSubscription
<1>2. /\ pc = "iterate"
      /\ UNCHANGED <<sent, inflight, eof, fresh, subs, want, leaving, issued, crossed>>
    BY DEF FreeSubscription, wire, server, ghosts
<1>3. /\ Ran(ac, ac')
      /\ IF e.val = 0 THEN pc' = "iterate" /\ after' = after /\ calls' = calls
         ELSE pc' = "callback" /\ after' = "iterate" /\ Calls(e.val, NullReply)
    BY <1>0, <1>1, RunsCallback
<1>4. pc' = "iterate" \/ (pc' = "callback" /\ after' = "iterate")
    BY <1>3
<1>5. Unborn' /\ Reading' /\ ListsDone' /\ ListsDone /\ Freeing' /\ pc' # "freed" /\ pc # "freed"
    BY <1>2, <1>4 DEF Unborn, Reading, ListsDone, Freeing, Ending
<1>6. Monitored' <=> Monitored
    BY <1>2 DEF Monitored
<1>7. Monitors'
    BY <1>3, <1>6 DEF SInv, Monitors, Ran
<1>8. ASSUME ~Monitored', ~crossed' PROVE Story'
  <2>1. Story
    BY <1>2, <1>6, <1>8 DEF SInv
  <2>2. Domains /\ Stream /\ Lists /\ Called /\ Iterated /\ Dictionaries
    BY <2>1 DEF Story
  <2>3. PICK v : v = e.val
    BY Zenon
  <2>4. e.key \in DOMAIN want /\ e = Entry(e.key) /\ v = want[e.key]
    BY <1>5, <2>2, <2>3 DEF Iterated, Entry
  <2>5. v \in DOMAIN issued /\ issued[v] = [kind |-> "subscribe", key |-> e.key]
    BY <2>2, <2>4 DEF Stream, Known
  <2>6. v # 0
    <3>1. Len(issued) \in Nat /\ DOMAIN issued = 1 .. Len(issued)
        BY LenProperties DEF IInv, Types
    <3>2. QED
        BY <2>5, <3>1
  <2>7. Calls(v, NullReply)
    BY <1>3, <2>3, <2>6
  <2>8. /\ calls' \in Seq(Seq(Message \cup {NullReply})) /\ Len(calls') = Len(calls)
        /\ DOMAIN calls = DOMAIN issued /\ DOMAIN calls' = DOMAIN issued
        /\ \A m \in DOMAIN issued : m # v => calls'[m] = calls[m]
        /\ calls'[v] = Append(calls[v], NullReply)
        /\ Len(calls[v]) \in Nat /\ Len(calls'[v]) = Len(calls[v]) + 1
        /\ DOMAIN calls'[v] = 1 .. Len(calls[v]) + 1 /\ DOMAIN calls[v] = 1 .. Len(calls[v])
        /\ \A i \in DOMAIN calls[v] : calls'[v][i] = calls[v][i]
        /\ calls'[v][Len(calls[v]) + 1] = NullReply
    BY <2>2, <2>5, <2>7, CallsGrow
  <2>9. Coming' = Coming /\ Going' = Going /\ Served' = Served
    BY <1>2, <1>3 DEF Coming, Going, Served, Ran
  <2>10. SameWire
    BY <1>2, <2>9 DEF SameWire
  <2>11. Domains'
    BY <1>2, <1>3, <2>2, <2>8, <2>9 DEF Domains, Ran
  <2>12. Stream'
    BY <2>2, <2>10, SameStream
  <2>13. Lists'
    BY <1>2, <1>3, <2>2, SameLists DEF Ran
  <2>14. Match'
    BY <1>5 DEF Match, Live
  <2>15. \A x \in iter' : x \in iter /\ x.val # v
    <3>1. ASSUME NEW x \in iter' PROVE x \in iter /\ x.val # v
      <4>1. x \in iter /\ x # e
        BY <1>1
      <4>2. x.key \in DOMAIN want /\ x = Entry(x.key) /\ x.val = want[x.key]
        BY <1>5, <2>2, <4>1 DEF Iterated, Entry
      <4>3. issued[x.val].key = x.key
        <5>1. issued[want[x.key]] = [kind |-> "subscribe", key |-> x.key]
            BY <2>2, <4>2 DEF Stream, Known
        <5>2. QED
            BY <4>2, <5>1
      <4>4. x.key # e.key
        BY <2>4, <4>1, <4>2
      <4>5. QED
        BY <2>5, <4>1, <4>3, <4>4
    <3>2. QED
        BY <3>1
  <2>16. ~(\A x \in iter : x.val # v)
    BY <1>1, <2>3
  <2>17. Called'
    <3>1. ASSUME NEW n \in DOMAIN calls', NEW i \in DOMAIN calls'[n] PROVE Answers(calls[n][i], n)'
      <4>1. CASE calls'[n][i] = NullReply
        BY <4>1 DEF Answers
      <4>2. CASE calls'[n][i] # NullReply
        <5>1. i \in DOMAIN calls[n] /\ calls'[n][i] = calls[n][i]
            <6>1. CASE n = v
              <7>1. PICK a, b : a = calls[v] /\ b = calls'[v]
                BY Zenon
              <7>2. /\ DOMAIN b = 1 .. Len(a) + 1 /\ DOMAIN a = 1 .. Len(a) /\ Len(a) \in Nat
                    /\ b[Len(a) + 1] = NullReply /\ \A j \in DOMAIN a : b[j] = a[j]
                BY <2>8, <7>1
              <7>3. i \in DOMAIN b /\ b[i] # NullReply
                BY <3>1, <4>2, <6>1, <7>1
              <7>4. i \in DOMAIN a
                BY <7>2, <7>3
              <7>5. QED
                BY <6>1, <7>1, <7>2, <7>4
            <6>2. CASE n # v
              <7>1. calls'[n] = calls[n]
                BY <2>8, <3>1, <6>2
              <7>2. QED
                BY <3>1, <7>1
            <6>3. QED
                BY <6>1, <6>2
        <5>2. Answers(calls[n][i], n)
            BY <2>2, <2>8, <3>1, <5>1 DEF Called
        <5>3. QED
            BY <1>2, <5>1, <5>2 DEF Answers
      <4>3. QED
        BY <4>1, <4>2
    <3>2. ASSUME NEW n \in DOMAIN calls', issued'[n].kind \in Regular
          PROVE  IF Pending(n)' THEN calls'[n] = <<>> ELSE Len(calls'[n]) = 1
      <4>1. n # v
        BY <1>2, <2>5, <3>2 DEF Regular
      <4>2. calls'[n] = calls[n] /\ (Pending(n)' <=> Pending(n))
        BY <1>3, <2>8, <4>1 DEF Pending, Ran
      <4>3. QED
        BY <1>2, <2>2, <2>8, <3>2, <4>2 DEF Called
    <3>3. ASSUME NEW n \in DOMAIN calls', issued'[n].kind \notin Regular, NEW i \in DOMAIN calls'[n], calls'[n][i] = NullReply
          PROVE  issued'[n].kind = "subscribe" /\ i = Len(calls'[n]) /\ ListsDone' /\ \A x \in iter' : x.val # n
      <4>1. CASE n = v
        <5>1. i \notin DOMAIN calls[v]
            BY <2>2, <2>5, <2>8, <2>16, <3>3, <4>1, SMTT(30) DEF Called, Regular
        <5>2. i = Len(calls'[v])
            BY <2>8, <3>3, <4>1, <5>1
        <5>3. QED
            BY <1>2, <1>5, <2>5, <2>15, <4>1, <5>2
      <4>2. CASE n # v
        <5>1. calls'[n] = calls[n] /\ n \in DOMAIN calls
            BY <2>8, <3>3, <4>2
        <5>2. issued[n].kind = "subscribe" /\ i = Len(calls[n]) /\ \A x \in iter : x.val # n
            BY <1>2, <2>2, <3>3, <5>1 DEF Called
        <5>3. QED
            BY <1>2, <1>5, <2>15, <5>1, <5>2
      <4>3. QED
        BY <4>1, <4>2
    <3>4. QED
        BY <3>1, <3>2, <3>3, Zenon DEF Called
  <2>18. calls'[v] # <<>> /\ Last(calls'[v]) = NullReply
    <3>1. PICK q : q = calls'[v]
        BY Zenon
    <3>2. Len(q) # 0 /\ q[Len(q)] = NullReply
        BY <2>8, <3>1
    <3>3. QED
        BY <3>1, <3>2 DEF Last
  <2>19. Iterated'
    <3>1. want' = want /\ \A k : Entry(k)' = Entry(k)
        BY <1>2 DEF Entry
    <3>2. \A x \in iter' : x.key \in DOMAIN want' /\ x = Entry(x.key)
        BY <1>5, <2>2, <2>15, <3>1 DEF Iterated
    <3>3. ASSUME NEW k \in DOMAIN want PROVE Entry(k) \in iter' \/ (calls'[want[k]] # <<>> /\ Last(calls'[want[k]]) = NullReply)
      <4>1. CASE want[k] = v
        BY <2>18, <4>1
      <4>2. CASE want[k] # v
        <5>1. want[k] \in DOMAIN issued
            BY <2>2 DEF Stream, Known
        <5>2. calls'[want[k]] = calls[want[k]]
            BY <2>8, <4>2, <5>1
        <5>3. Entry(k) # e
            BY <2>3, <4>2 DEF Entry
        <5>4. Entry(k) \in iter \/ (calls[want[k]] # <<>> /\ Last(calls[want[k]]) = NullReply)
            BY <1>5, <2>2 DEF Iterated
        <5>5. QED
            BY <1>1, <5>2, <5>3, <5>4
      <4>3. QED
        BY <4>1, <4>2
    <3>4. QED
        BY <1>5, <3>1, <3>2, <3>3 DEF Iterated
  <2>20. Dictionaries'
    BY <1>2, <1>3, <1>5, <2>2, SameDictionaries DEF Ran
  <2>21. QED
    BY <2>11, <2>12, <2>13, <2>14, <2>17, <2>19, <2>20 DEF Story
<1>9. QED
    BY <1>5, <1>7, <1>8 DEF SInv

-----------------------------------------------------------------------------
(* redisProcessCallbacks.                                                  *)

(* What an unsubscription ends is forgotten.                               *)
Forgets(r) ==
    IF r.type = "ARRAY" /\ r.what = "unsubscribe"
    THEN leaving' = leaving \ {r.key} /\ want' = [k \in DOMAIN want \ {r.key} |-> want[k]]
    ELSE leaving' = leaving /\ want' = want

Ends(r) == r.type = "ARRAY" /\ r.what = "unsubscribe"

(* The reply r is taken from the reader.                                   *)
Takes(r) ==
    /\ ac.reader # <<>> /\ r = Head(ac.reader) /\ ac'.reader = Tail(ac.reader) /\ ac'.obuf = ac.obuf
    /\ UNCHANGED <<sent, inflight, eof, fresh, subs, issued>>
    /\ Forgets(r)

Refusal == [type |-> "ERROR", n |-> 0]

LEMMA TakesFirst ==
    ASSUME IInv, Domains, Stream, NEW r, Takes(r)
    PROVE  /\ r \in Message /\ r = Coming[1] /\ Len(Coming) \in Nat \ {0}
           /\ DOMAIN Coming = 1 .. Len(Coming) /\ DOMAIN Coming' = 1 .. Len(Coming) - 1
           /\ \A i \in 1 .. Len(Coming) - 1 : Coming'[i] = Coming[i + 1]
           /\ Len(Coming') = Len(Coming) - 1 /\ Coming' \in Seq(Message) /\ ac'.reader \in Seq(Message)
           /\ Going' = Going /\ Served' = Served /\ (Dead' <=> Dead)
           /\ Dead => r = Refusal /\ Coming' = <<>>
           /\ fresh => Dead
<1>1. ac.reader \in Seq(Message) /\ inflight \in Seq(Message)
    BY DEF Domains
<1>2. ac.reader # <<>> /\ r = Head(ac.reader) /\ ac'.reader = Tail(ac.reader) /\ ac'.obuf = ac.obuf
      /\ sent' = sent /\ inflight' = inflight /\ eof' = eof /\ fresh' = fresh /\ issued' = issued
    BY DEF Takes
<1>3. Tail(ac.reader) \o inflight = Tail(ac.reader \o inflight) /\ ac.reader \o inflight # <<>>
      /\ (ac.reader \o inflight)[1] = Head(ac.reader)
  <2>1. \A s, t \in Seq(Message) : s # <<>> => Tail(s) \o t = Tail(s \o t) /\ s \o t # <<>> /\ (s \o t)[1] = Head(s)
    BY ConcatTail
  <2>2. QED
    BY <1>1, <1>2, <2>1, Zenon
<1>4. Coming' = Tail(Coming) /\ Coming # <<>> /\ Coming[1] = r
    BY <1>2, <1>3 DEF Coming
<1>5. Coming \in Seq(Message)
    BY <1>1, ConcatOf DEF Coming
<1>6. PICK s, t : s = Coming /\ t = Coming'
    BY Zenon
<1>7. s \in Seq(Message) /\ s # <<>> /\ t = Tail(s)
    BY <1>4, <1>5, <1>6
<1>8. /\ t \in Seq(Message) /\ Len(s) \in Nat \ {0} /\ Len(t) = Len(s) - 1 /\ s[1] \in Message
      /\ DOMAIN s = 1 .. Len(s) /\ DOMAIN t = 1 .. Len(s) - 1
      /\ \A i \in 1 .. Len(s) - 1 : t[i] = s[i + 1]
    BY <1>7, TailOf
<1>9. ac'.reader \in Seq(Message)
    BY <1>1, <1>2, TailOf
<1>10. Going' = Going /\ Served' = Served /\ (Dead' <=> Dead)
    BY <1>2 DEF Going, Served, Dead
<1>11. fresh => eof /\ s = <<[type |-> "ERROR", n |-> 0]>>
    BY <1>4, <1>6 DEF Stream, Fresh
<1>12. fresh => r = Refusal /\ t = <<>>
  <2>1. ASSUME fresh PROVE r = Refusal /\ t = <<>>
    <3>1. s = <<Refusal>>
        BY <1>11, <2>1 DEF Refusal
    <3>2. Len(s) = 1 /\ s[1] = Refusal
        BY <3>1
    <3>3. Len(t) = 0
        BY <1>8, <3>2
    <3>4. QED
        BY <1>4, <1>6, <1>8, <3>2, <3>3, EmptySeq
  <2>2. QED
    BY <2>1
<1>13. (Dead => fresh) /\ (fresh => Dead)
    BY <1>11 DEF Dead
<1>14. QED
    BY <1>4, <1>6, <1>8, <1>9, <1>10, <1>12, <1>13

LEMMA TakesNumber ==
    ASSUME IInv, Domains, Stream, NEW r, Takes(r), ~Dead
    PROVE  /\ r.n \in Nat /\ r.n = Answered + Step(r) /\ r.n >= Step(r) /\ r.n <= Served /\ Answered \in Nat
           /\ Answered' = r.n
           /\ \A i \in DOMAIN Coming' : ~Solicited(Coming[i])' => Coming'[i].n >= r.n
<1>1. /\ r \in Message /\ r = Coming[1] /\ Len(Coming) \in Nat \ {0}
      /\ DOMAIN Coming = 1 .. Len(Coming) /\ DOMAIN Coming' = 1 .. Len(Coming) - 1
      /\ \A i \in 1 .. Len(Coming) - 1 : Coming'[i] = Coming[i + 1]
      /\ Len(Coming') = Len(Coming) - 1 /\ Coming' \in Seq(Message)
      /\ Served' = Served /\ ~fresh
    BY TakesFirst
<1>2. r.n \in Nat /\ Step(r) \in {0, 1}
    BY <1>1, MessageFields
<1>3. Chain
    BY DEF Stream
<1>4. 1 \in DOMAIN Coming /\ Coming # <<>>
    BY <1>1
<1>5. r.n >= Step(r) /\ r.n <= Served
    BY <1>1, <1>3, <1>4 DEF Chain
<1>6. Answered = r.n - Step(r)
    BY <1>1, <1>4 DEF Answered
<1>7. fresh' = fresh
    BY DEF Takes
<1>8. Answered' = r.n
  <2>1. CASE Coming' = <<>>
    <3>1. Len(Coming) = 1
      <4>1. Len(Coming') = 0
        BY <2>1
      <4>2. PICK u, v : u = Len(Coming) /\ v = Len(Coming')
        BY Zenon
      <4>3. u \in Nat /\ v = u - 1 /\ v = 0
        BY <1>1, <4>1, <4>2
      <4>4. u = 1
        BY <4>3
      <4>5. QED
        BY <4>2, <4>4
    <3>2. r.n = Served
        BY <1>1, <1>3, <1>4, <3>1 DEF Chain
    <3>3. QED
        BY <1>1, <1>7, <2>1, <3>2 DEF Answered
  <2>2. CASE Coming' # <<>>
    <3>1. Len(Coming') # 0
        BY <1>1, <2>2, EmptySeq
    <3>2. 1 \in 1 .. Len(Coming) - 1 /\ 1 + 1 \in DOMAIN Coming
        BY <1>1, <3>1
    <3>3. Coming'[1] = Coming[1 + 1]
        BY <1>1, <3>2
    <3>4. Coming[1 + 1].n = Coming[1].n + Step(Coming[1 + 1])
        BY <1>3, <1>4, <3>2 DEF Chain
    <3>5. PICK x : x = Coming[1 + 1]
        BY Zenon
    <3>6. x \in Message
        BY <1>1, <3>2, <3>5, Counted, ElementOfSeq
    <3>7. x.n \in Nat /\ Step(x) \in {0, 1}
        BY <3>6, MessageFields
    <3>8. Coming'[1] = x /\ x.n = r.n + Step(x)
        BY <1>1, <3>3, <3>4, <3>5
    <3>9. Answered' = x.n - Step(x)
        BY <1>1, <1>7, <2>2, <3>8 DEF Answered, Step, Solicited
    <3>10. QED
        BY <1>2, <3>7, <3>8, <3>9
  <2>3. QED
    BY <2>1, <2>2
<1>9. ASSUME NEW i \in DOMAIN Coming', ~Solicited(Coming[i])' PROVE Coming'[i].n >= r.n
  <2>1. i \in 1 .. Len(Coming) - 1
    BY <1>1
  <2>2. i + 1 \in DOMAIN Coming /\ 1 < i + 1
    BY <1>1, <2>1
  <2>3. PICK x : x = Coming[i + 1]
    BY Zenon
  <2>4. x \in Message
    BY <1>1, <2>2, <2>3, Counted, ElementOfSeq
  <2>5. Coming'[i] = x
    BY <1>1, <2>1, <2>3
  <2>6. Coming[1].n <= x.n - Step(x)
    BY <1>3, <1>4, <2>2, <2>3 DEF Chain
  <2>7. Step(x) = 0
    BY <1>9, <2>5 DEF Step, Solicited
  <2>8. x.n \in Nat
    BY <2>4, MessageFields
  <2>9. QED
    BY <1>1, <1>2, <2>5, <2>6, <2>7, <2>8
<1>10. QED
    BY <1>2, <1>5, <1>6, <1>8, <1>9

(* An unsubscription is the last that is heard of its key.                 *)
LEMMA TakesStream ==
    ASSUME IInv, Domains, Stream, NEW r, Takes(r)
    PROVE  /\ Stream' /\ leaving' \subseteq Keys
           /\ \A k \in DOMAIN want' : k \in DOMAIN want /\ want'[k] = want[k]
<1>1. /\ r \in Message /\ r = Coming[1] /\ Len(Coming) \in Nat \ {0}
      /\ DOMAIN Coming = 1 .. Len(Coming) /\ DOMAIN Coming' = 1 .. Len(Coming) - 1
      /\ \A i \in 1 .. Len(Coming) - 1 : Coming'[i] = Coming[i + 1]
      /\ Len(Coming') = Len(Coming) - 1
      /\ Going' = Going /\ Served' = Served /\ (Dead' <=> Dead)
      /\ Dead => r = Refusal /\ Coming' = <<>>
      /\ fresh => Dead
    BY TakesFirst
<1>2. fresh' = fresh /\ subs' = subs /\ issued' = issued /\ eof' = eof /\ Forgets(r)
    BY DEF Takes
<1>3. Known /\ Commands /\ Fresh /\ (~Dead => Chain /\ Replies)
    BY DEF Stream
<1>4. 1 \in DOMAIN Coming
    BY <1>1
<1>5. \A k \in DOMAIN want' : k \in DOMAIN want /\ want'[k] = want[k]
    BY <1>2 DEF Forgets
<1>6. leaving' \subseteq leaving
    BY <1>2 DEF Forgets
<1>7. \A i \in DOMAIN Coming' : i + 1 \in DOMAIN Coming /\ i + 1 > 1 /\ Coming'[i] = Coming[i + 1]
  <2>1. ASSUME NEW i \in DOMAIN Coming' PROVE i + 1 \in DOMAIN Coming /\ i + 1 > 1 /\ Coming'[i] = Coming[i + 1]
    <3>1. i \in 1 .. Len(Coming) - 1
        BY <1>1
    <3>2. i + 1 \in 1 .. Len(Coming) /\ i + 1 > 1
        BY <1>1, <3>1
    <3>3. Coming'[i] = Coming[i + 1]
        BY <1>1, <3>1
    <3>4. QED
        BY <1>1, <3>2, <3>3
  <2>2. QED
    BY <2>1, Zenon
<1>8. Ends(r) <=> r.type = "ARRAY" /\ r.what = "unsubscribe"
    BY DEF Ends
<1>9. Ends(r) => /\ ~Dead /\ r.key \notin subs
                 /\ \A j \in DOMAIN Coming : j > 1 /\ Coming[j].type = "ARRAY" => Coming[j].key # r.key
                 /\ \A j \in DOMAIN Going : Going[j].key # r.key
  <2>1. ASSUME Ends(r) PROVE ~Dead
    <3>1. Refusal.type = "ERROR"
        BY DEF Refusal
    <3>2. QED
        BY <1>1, <1>8, <2>1, <3>1
  <2>2. ASSUME Ends(r), ~Dead
        PROVE /\ r.key \notin subs
              /\ \A j \in DOMAIN Coming : j > 1 /\ Coming[j].type = "ARRAY" => Coming[j].key # r.key
              /\ \A j \in DOMAIN Going : Going[j].key # r.key
    BY <1>1, <1>3, <1>4, <1>8, <2>2 DEF Replies
  <2>3. QED
    BY <2>1, <2>2
<1>10. /\ ~Ends(r) => leaving' = leaving /\ want' = want
       /\ Ends(r) => leaving' = leaving \ {r.key} /\ DOMAIN want' = DOMAIN want \ {r.key}
    BY <1>2, <1>8 DEF Forgets
<1>11. Known'
  <2>1. subs' \subseteq DOMAIN want'
    BY <1>2, <1>3, <1>9, <1>10 DEF Known
  <2>2. DOMAIN want' \subseteq Keys
    BY <1>3, <1>5 DEF Known
  <2>3. \A k \in DOMAIN want' : want'[k] \in DOMAIN issued' /\ issued'[want'[k]] = [kind |-> "subscribe", key |-> k]
    <3>1. \A k \in DOMAIN want : want[k] \in DOMAIN issued /\ issued[want[k]] = [kind |-> "subscribe", key |-> k]
        BY <1>3, Zenon DEF Known
    <3>2. QED
        BY <1>2, <1>5, <3>1, Zenon
  <2>4. QED
    BY <2>1, <2>2, <2>3 DEF Known
<1>12. Commands'
  <2>1. \A i \in DOMAIN Going : Going[i].kind \notin Regular => Going[i].key \in DOMAIN want'
    BY <1>3, <1>9, <1>10 DEF Commands
  <2>2. \A i \in DOMAIN Going : Going[i].kind = "unsubscribe" => Going[i].key \in leaving'
    BY <1>3, <1>9, <1>10 DEF Commands
  <2>3. QED
    BY <1>1, <1>2, <1>3, <2>1, <2>2 DEF Commands
<1>13. Fresh'
    BY <1>1, <1>2, <1>3 DEF Fresh
<1>14. ASSUME ~Dead' PROVE Chain'
  <2>1. ~Dead /\ Chain
    BY <1>1, <1>3, <1>14
  <2>2. \A i \in DOMAIN Coming' : Coming'[i].n >= Step(Coming[i])' /\ Coming'[i].n <= Served'
    BY <1>1, <1>7, <2>1 DEF Chain, Step, Solicited
  <2>3. ASSUME NEW i \in DOMAIN Coming', NEW j \in DOMAIN Coming', i < j PROVE Coming'[i].n <= Coming'[j].n - Step(Coming[j])'
    <3>1. i + 1 \in DOMAIN Coming /\ j + 1 \in DOMAIN Coming /\ Coming'[i] = Coming[i + 1] /\ Coming'[j] = Coming[j + 1]
        BY <1>7
    <3>2. i + 1 < j + 1
        BY <1>1, <2>3
    <3>3. Coming[i + 1].n <= Coming[j + 1].n - Step(Coming[j + 1])
        BY <2>1, <3>1, <3>2 DEF Chain
    <3>4. QED
        BY <3>1, <3>3 DEF Step, Solicited
  <2>4. ASSUME NEW i \in DOMAIN Coming', i + 1 \in DOMAIN Coming' PROVE Coming'[i + 1].n = Coming'[i].n + Step(Coming[i + 1])'
    <3>1. i + 1 \in DOMAIN Coming /\ (i + 1) + 1 \in DOMAIN Coming /\ Coming'[i] = Coming[i + 1] /\ Coming'[i + 1] = Coming[(i + 1) + 1]
        BY <1>7, <2>4
    <3>2. Coming[(i + 1) + 1].n = Coming[i + 1].n + Step(Coming[(i + 1) + 1])
        BY <2>1, <3>1 DEF Chain
    <3>3. QED
        BY <3>1, <3>2 DEF Step, Solicited
  <2>5. ASSUME Coming' # <<>> PROVE Coming'[Len(Coming')].n = Served'
    <3>1. Len(Coming') \in Nat \ {0}
      <4>1. Coming' \in Seq(Message)
        BY TakesFirst
      <4>2. Len(Coming') # 0
        BY <2>5, <4>1, EmptySeq
      <4>3. QED
        BY <1>1, <4>2
    <3>2. Len(Coming') \in DOMAIN Coming' /\ Len(Coming') + 1 = Len(Coming)
        BY <1>1, <3>1
    <3>3. Coming'[Len(Coming')] = Coming[Len(Coming)]
        BY <1>7, <3>2
    <3>4. Coming # <<>>
        BY <1>4
    <3>5. QED
        BY <1>1, <2>1, <3>3, <3>4 DEF Chain
  <2>6. QED
    BY <2>2, <2>3, <2>4, <2>5 DEF Chain
<1>15. ASSUME ~Dead' PROVE Replies'
  <2>1. ~Dead /\ Replies
    BY <1>1, <1>3, <1>15
  <2>2. SUFFICES ASSUME NEW i \in DOMAIN Coming', NEW x, x = Coming'[i]
        PROVE /\ Solicited(x) => IF x.type = "ARRAY" THEN issued[x.n] = [kind |-> x.what, key |-> x.key]
                                 ELSE issued[x.n].kind \in Regular
              /\ x.type = "ARRAY" => x.key \in DOMAIN want'
              /\ x.type = "ARRAY" /\ x.what = "unsubscribe" =>
                   /\ x.key \in leaving' /\ x.key \notin subs
                   /\ \A j \in DOMAIN Coming' : j > i /\ Coming'[j].type = "ARRAY" => Coming'[j].key # x.key
                   /\ \A j \in DOMAIN Going : Going[j].key # x.key
                   /\ x.count = 0 /\ x.n = Served => subs = {} /\ i = Len(Coming')
    BY <1>1, <1>2, Zenon DEF Replies, Solicited
  <2>3. i + 1 \in DOMAIN Coming /\ i + 1 > 1 /\ x = Coming[i + 1]
    BY <1>7, <2>2
  <2>4. /\ Solicited(x) => IF x.type = "ARRAY" THEN issued[x.n] = [kind |-> x.what, key |-> x.key]
                                 ELSE issued[x.n].kind \in Regular
        /\ x.type = "ARRAY" => x.key \in DOMAIN want
        /\ x.type = "ARRAY" /\ x.what = "unsubscribe" =>
             /\ x.key \in leaving /\ x.key \notin subs
             /\ \A j \in DOMAIN Coming : j > i + 1 /\ Coming[j].type = "ARRAY" => Coming[j].key # x.key
             /\ \A j \in DOMAIN Going : Going[j].key # x.key
             /\ x.count = 0 /\ x.n = Served => subs = {} /\ i + 1 = Len(Coming)
    BY <2>1, <2>3, Zenon DEF Replies
  <2>5. x.type = "ARRAY" /\ Ends(r) => x.key # r.key
    BY <1>9, <2>3
  <2>6. x.type = "ARRAY" => x.key \in DOMAIN want'
    BY <1>10, <2>4, <2>5
  <2>7. ASSUME x.type = "ARRAY", x.what = "unsubscribe" PROVE
           /\ x.key \in leaving' /\ x.key \notin subs
           /\ \A j \in DOMAIN Coming' : j > i /\ Coming'[j].type = "ARRAY" => Coming'[j].key # x.key
           /\ \A j \in DOMAIN Going : Going[j].key # x.key
           /\ x.count = 0 /\ x.n = Served => subs = {} /\ i = Len(Coming')
    <3>1. x.key \in leaving'
        BY <1>10, <2>4, <2>5, <2>7
    <3>2. ASSUME NEW j \in DOMAIN Coming', j > i, Coming'[j].type = "ARRAY" PROVE Coming'[j].key # x.key
      <4>1. j + 1 \in DOMAIN Coming /\ Coming'[j] = Coming[j + 1]
        BY <1>7
      <4>2. j + 1 > i + 1
        BY <1>1, <3>2
      <4>3. QED
        BY <2>4, <2>7, <3>2, <4>1, <4>2
    <3>3. i + 1 = Len(Coming) => i = Len(Coming')
        BY <1>1
    <3>4. QED
        BY <2>4, <2>7, <3>1, <3>2, <3>3
  <2>8. QED
    BY <2>4, <2>6, <2>7
<1>16. QED
  <2>1. leaving \subseteq Keys
    BY DEF Domains
  <2>2. QED
    BY <1>5, <1>6, <1>11, <1>12, <1>13, <1>14, <1>15, <2>1 DEF Stream

(* The callback of a subscription is called with a reply or a message.     *)
LEMMA CalledAgain ==
    ASSUME Domains, Called, NEW m \in DOMAIN issued, issued[m].kind \notin Regular,
           NEW r \in Message, Answers(r, m), Calls(m, r), \A k \in Nat : Pending(k)' <=> Pending(k), issued' = issued,
           ~ListsDone, DOMAIN issued \subseteq Nat
    PROVE  Called'
<1>1. /\ DOMAIN calls = DOMAIN issued /\ DOMAIN calls' = DOMAIN issued
      /\ \A k \in DOMAIN issued : k # m => calls'[k] = calls[k]
      /\ Len(calls[m]) \in Nat
      /\ DOMAIN calls'[m] = 1 .. Len(calls[m]) + 1 /\ DOMAIN calls[m] = 1 .. Len(calls[m])
      /\ \A i \in DOMAIN calls[m] : calls'[m][i] = calls[m][i]
      /\ calls'[m][Len(calls[m]) + 1] = r
    BY CallsGrow
<1>2. \A i \in DOMAIN calls'[m] : i \in DOMAIN calls[m] \/ i = Len(calls[m]) + 1
  <2>1. PICK a : a = Len(calls[m])
    BY Zenon
  <2>2. a \in Nat /\ DOMAIN calls'[m] = 1 .. a + 1 /\ DOMAIN calls[m] = 1 .. a
    BY <1>1, <2>1
  <2>3. \A i \in 1 .. a + 1 : i \in 1 .. a \/ i = a + 1
    BY <2>2
  <2>4. QED
    BY <2>1, <2>2, <2>3
<1>3. \A k \in DOMAIN issued : \A i \in DOMAIN calls'[k] :
         (i \in DOMAIN calls[k] /\ calls'[k][i] = calls[k][i]) \/ (k = m /\ calls'[k][i] = r)
  <2>1. ASSUME NEW k \in DOMAIN issued, NEW i \in DOMAIN calls'[k]
        PROVE  (i \in DOMAIN calls[k] /\ calls'[k][i] = calls[k][i]) \/ (k = m /\ calls'[k][i] = r)
    <3>1. CASE k = m
        BY <1>1, <1>2, <2>1, <3>1
    <3>2. CASE k # m
        BY <1>1, <2>1, <3>2
    <3>3. QED
        BY <3>1, <3>2
  <2>2. QED
    BY <2>1
<1>4. ASSUME NEW k \in DOMAIN calls', NEW i \in DOMAIN calls'[k] PROVE Answers(calls[k][i], k)'
  <2>1. CASE i \in DOMAIN calls[k] /\ calls'[k][i] = calls[k][i]
    <3>1. Answers(calls[k][i], k)
        BY <1>1, <1>4, <2>1 DEF Called
    <3>2. QED
        BY <2>1, <3>1 DEF Answers
  <2>2. CASE k = m /\ calls'[k][i] = r
    BY <2>2 DEF Answers
  <2>3. QED
    BY <1>1, <1>3, <1>4, <2>1, <2>2
<1>5. ASSUME NEW k \in DOMAIN calls', issued'[k].kind \in Regular
      PROVE  IF Pending(k)' THEN calls'[k] = <<>> ELSE Len(calls'[k]) = 1
  <2>1. k # m /\ k \in DOMAIN issued
    BY <1>1, <1>5
  <2>2. calls'[k] = calls[k] /\ (Pending(k)' <=> Pending(k))
    BY <1>1, <2>1
  <2>3. QED
    BY <1>1, <1>5, <2>1, <2>2 DEF Called
<1>6. ASSUME NEW k \in DOMAIN calls', issued'[k].kind \notin Regular, NEW i \in DOMAIN calls'[k]
      PROVE  calls'[k][i] # NullReply
  <2>1. CASE i \in DOMAIN calls[k] /\ calls'[k][i] = calls[k][i]
    BY <1>1, <1>6, <2>1 DEF Called
  <2>2. CASE calls'[k][i] = r
    BY <2>2, MessageFields
  <2>3. QED
    BY <1>1, <1>3, <1>6, <2>1, <2>2
<1>7. QED
    BY <1>4, <1>5, <1>6, Zenon DEF Called

(* The reply r is for command m.                                           *)
Heard(r, m) ==
    /\ m \in DOMAIN issued /\ Answers(r, m) /\ Lists' /\ Match' /\ Dictionaries'
    /\ ac'.replies \in Seq(Nat) /\ ac'.invalid \in Seq(Nat) /\ ac'.cb \in Nat
    /\ IF issued[m].kind \in Regular THEN Pending(m) /\ Settles(m) ELSE \A k \in Nat : Pending(k)' <=> Pending(k)

LEMMA DeliverTells ==
    ASSUME IInv, SInv, pc = "process", NEW r, NEW d, NEW m, IsContext(d), redisRunCallback(d, m, r, "process"),
           Takes(r), ac'.err = ac.err, "MONITORING" \in ac'.flags => "MONITORING" \in ac.flags,
           iter' = iter, crossed => crossed', Story /\ ~crossed' => Heard(r, m)
    PROVE  SInv'
<1>1. IF m = 0 THEN pc' = "process" /\ after' = after /\ calls' = calls
      ELSE pc' = "callback" /\ after' = "process" /\ Calls(m, r)
    BY RunsCallback
<1>2. pc' = "process" \/ (pc' = "callback" /\ after' = "process")
    BY <1>1
<1>3. ac.err = "none"
    BY DEF SInv, Reading
<1>4. Unborn' /\ Reading' /\ ~ListsDone' /\ ~ListsDone /\ pc' # "freed"
    BY <1>2, <1>3 DEF Unborn, Reading, ListsDone
<1>5. issued' = issued
    BY DEF Takes
<1>6. Monitored' <=> Monitored
    BY <1>5 DEF Monitored
<1>7. Monitors'
    BY <1>6 DEF SInv, Monitors
<1>8. ASSUME ~Monitored', ~crossed' PROVE Story'
  <2>1. Story
    BY <1>6, <1>8 DEF SInv
  <2>2. Domains /\ Stream /\ Called
    BY <2>1 DEF Story
  <2>3. /\ m \in DOMAIN issued /\ Answers(r, m) /\ Lists' /\ Match' /\ Dictionaries'
        /\ ac'.replies \in Seq(Nat) /\ ac'.invalid \in Seq(Nat) /\ ac'.cb \in Nat
        /\ issued[m].kind \in Regular => Pending(m) /\ Settles(m)
        /\ issued[m].kind \notin Regular => \A k \in Nat : Pending(k)' <=> Pending(k)
    BY <1>8, <2>1 DEF Heard
  <2>4. DOMAIN issued \subseteq Nat \ {0}
    <3>1. Len(issued) \in Nat /\ DOMAIN issued = 1 .. Len(issued)
        BY LenProperties DEF IInv, Types
    <3>2. QED
        BY <3>1
  <2>5. Calls(m, r)
    BY <1>1, <2>3, <2>4
  <2>6. r \in Message /\ ac'.reader \in Seq(Message) /\ Served' = Served
    BY <2>2, TakesFirst
  <2>7. calls' \in Seq(Seq(Message \cup {NullReply})) /\ Len(calls') = Len(calls)
    BY <2>2, <2>3, <2>5, <2>6, CallsGrow
  <2>8. Stream' /\ leaving' \subseteq Keys
    BY <2>2, TakesStream
  <2>9. inflight' = inflight /\ sent' = sent /\ subs' = subs
    BY DEF Takes
  <2>10. Domains'
    BY <1>5, <2>2, <2>3, <2>6, <2>7, <2>8, <2>9 DEF Domains
  <2>11. Called'
    <3>1. CASE issued[m].kind \in Regular
        BY <1>4, <1>5, <2>2, <2>3, <2>5, <2>6, <3>1, CalledOnce
    <3>2. CASE issued[m].kind \notin Regular
        BY <1>4, <1>5, <2>2, <2>3, <2>4, <2>5, <2>6, <3>2, CalledAgain
    <3>3. QED
        BY <3>1, <3>2
  <2>12. Iterated'
    BY <1>4 DEF Iterated
  <2>13. QED
    BY <2>3, <2>8, <2>10, <2>11, <2>12 DEF Story
<1>9. QED
    BY <1>4, <1>7, <1>8 DEF SInv

(* The reply to a regular command: its callback is the first that waits.   *)
LEMMA HeardByReplies ==
    ASSUME IInv, SInv, Story, pc = "process", NEW r, Takes(r), ac.replies # <<>>, ac'.replies = Tail(ac.replies),
           ac'.invalid = ac.invalid, ac'.cb = Head(ac.replies), ac'.channels = ac.channels, ac'.patterns = ac.patterns,
           SameSubscribed(ac, ac'), pc' # "freed"
    PROVE  Heard(r, Head(ac.replies))
<1>1. Domains /\ Stream /\ Lists /\ Match /\ Dictionaries
    BY DEF Story
<1>2. Live
    BY DEF SInv, Reading, Live, Freeing, Ending
<1>3. issued' = issued /\ subs' = subs /\ fresh' = fresh /\ Forgets(r)
    BY DEF Takes
<1>4. PICK m : m = Head(ac.replies)
    BY Zenon
<1>5. /\ Lists' /\ m \in DOMAIN issued /\ issued[m].kind \in Regular /\ m \in Nat \ {0}
      /\ m = ac.replies[1] /\ Pending(m) /\ Settles(m) /\ ac'.replies \in Seq(Nat)
    BY <1>1, <1>3, <1>4, ShiftReplies
<1>6. /\ r \in Message /\ r = Coming[1] /\ Len(Coming) \in Nat \ {0}
      /\ DOMAIN Coming = 1 .. Len(Coming) /\ DOMAIN Coming' = 1 .. Len(Coming) - 1
      /\ \A i \in 1 .. Len(Coming) - 1 : Coming'[i] = Coming[i + 1]
      /\ Served' = Served /\ (Dead' <=> Dead)
      /\ Dead => r = Refusal /\ Coming' = <<>>
    BY <1>1, TakesFirst
<1>7. 1 \in DOMAIN Coming /\ Coming # <<>>
    BY <1>6
<1>8. /\ Len(ac.replies) \in Nat \ {0} /\ DOMAIN ac.replies = 1 .. Len(ac.replies)
      /\ Len(ac'.replies) = Len(ac.replies) - 1 /\ DOMAIN ac'.replies = 1 .. Len(ac.replies) - 1
      /\ \A i \in 1 .. Len(ac.replies) - 1 : ac'.replies[i] = ac.replies[i + 1]
    BY <1>1, TailOf DEF Domains
<1>9. 1 \in DOMAIN ac.replies
    BY <1>8
<1>10. /\ \A i \in DOMAIN ac.replies : ac.replies[i] = Answered + i
       /\ \A i \in DOMAIN ac.invalid : ac.invalid[i] > Answered + Len(ac.replies)
       /\ \A n \in DOMAIN issued : n > Answered + Len(ac.replies) /\ issued[n].kind \in Regular =>
                                \E i \in DOMAIN ac.invalid : ac.invalid[i] = n
       /\ ~Dead => \A i \in DOMAIN Coming : ~Solicited(Coming[i]) => Coming[i].n >= Answered + Len(ac.replies)
       /\ subs # {} => Served >= Answered + Len(ac.replies)
       /\ "SUBSCRIBED" \notin ac.flags =>
         /\ subs = {} /\ Answered + Len(ac.replies) = Len(issued)
         /\ \A i \in DOMAIN Coming : Coming[i].type # "ARRAY"
    BY <1>1, <1>2, <1>7 DEF Match
<1>11. ASSUME Dead PROVE r.type # "ARRAY" /\ Answers(r, m) /\ Match'
  <2>1. r = Refusal /\ Coming' = <<>> /\ Dead'
    BY <1>6, <1>11
  <2>2. Answered = 0
    BY <1>11 DEF Dead, Answered
  <2>3. m = 1
    BY <1>5, <1>9, <1>10, <2>2
  <2>4. r.type # "ARRAY"
    BY <2>1 DEF Refusal
  <2>5. QED
    BY <2>1, <2>3, <2>4 DEF Match, Answers, Refusal
<1>12. ASSUME ~Dead PROVE r.type # "ARRAY" /\ Answers(r, m) /\ Match'
  <2>1. /\ r.n \in Nat /\ r.n = Answered + Step(r) /\ Answered \in Nat /\ Answered' = r.n
        /\ \A i \in DOMAIN Coming' : ~Solicited(Coming[i])' => Coming'[i].n >= r.n
    BY <1>1, <1>12, TakesNumber
  <2>2. m = Answered + 1
    BY <1>5, <1>9, <1>10
  <2>3. Step(r) = 1 /\ Solicited(r)
    <3>1. ASSUME ~Solicited(r) PROVE FALSE
      <4>1. r.n >= Answered + Len(ac.replies)
        BY <1>6, <1>7, <1>10, <1>12, <3>1
      <4>2. Step(r) = 0
        BY <3>1 DEF Step
      <4>3. QED
        BY <1>8, <2>1, <4>1, <4>2
    <3>2. QED
        BY <3>1 DEF Step
  <2>4. r.n = m
    BY <2>1, <2>2, <2>3
  <2>5. r.type # "ARRAY"
    <3>1. ASSUME r.type = "ARRAY" PROVE FALSE
      <4>1. issued[r.n] = [kind |-> r.what, key |-> r.key]
        BY <1>1, <1>6, <1>7, <1>12, <2>3, <3>1 DEF Stream, Replies
      <4>2. r.what \in {"subscribe", "unsubscribe", "message"} /\ issued[m].kind = r.what
        BY <1>6, <2>4, <3>1, <4>1, MessageFields
      <4>3. QED
        BY <1>5, <4>2 DEF Regular
    <3>2. QED
        BY <3>1
  <2>6. Answers(r, m)
    BY <2>4, <2>5 DEF Answers
  <2>7. Answered' + Len(ac'.replies) = Answered + Len(ac.replies)
    <3>1. PICK l, k, a : l = Len(ac.replies) /\ k = Len(ac'.replies) /\ a = Answered'
        BY Zenon
    <3>2. l \in Nat /\ k = l - 1 /\ a = Answered + 1
        BY <1>8, <2>1, <2>3, <3>1
    <3>3. a + k = Answered + l
        BY <2>1, <3>2
    <3>4. QED
        BY <3>1, <3>3
  <2>8. \A i \in DOMAIN ac'.replies : ac'.replies[i] = Answered' + i
    <3>1. ASSUME NEW i \in DOMAIN ac'.replies PROVE ac'.replies[i] = Answered' + i
      <4>1. i \in 1 .. Len(ac.replies) - 1
        BY <1>8
      <4>2. i + 1 \in DOMAIN ac.replies /\ i \in Nat
        BY <1>8, <4>1
      <4>3. ac'.replies[i] = ac.replies[i + 1]
        BY <1>8, <4>1
      <4>4. ac.replies[i + 1] = Answered + (i + 1)
        BY <1>10, <4>2
      <4>5. QED
        BY <2>1, <2>3, <4>2, <4>3, <4>4
    <3>2. QED
        BY <3>1, Zenon
  <2>9. \A i \in DOMAIN Coming' : i + 1 \in DOMAIN Coming /\ Coming'[i] = Coming[i + 1]
    <3>1. ASSUME NEW i \in DOMAIN Coming' PROVE i + 1 \in DOMAIN Coming /\ Coming'[i] = Coming[i + 1]
      <4>1. i \in 1 .. Len(Coming) - 1
        BY <1>6
      <4>2. i + 1 \in 1 .. Len(Coming)
        BY <1>6, <4>1
      <4>3. QED
        BY <1>6, <4>1, <4>2
    <3>2. QED
        BY <3>1, Zenon
  <2>10. \A i \in DOMAIN Coming' : ~Solicited(Coming[i])' => Coming'[i].n >= Answered + Len(ac.replies)
    BY <1>10, <1>12, <2>9 DEF Solicited
  <2>11. "SUBSCRIBED" \notin ac'.flags => "SUBSCRIBED" \notin ac.flags
    BY DEF SameSubscribed
  <2>12. "SUBSCRIBED" \notin ac'.flags => \A i \in DOMAIN Coming' : Coming'[i].type # "ARRAY"
    BY <1>10, <2>9, <2>11
  <2>13. Match'
    BY <1>3, <1>6, <1>10, <2>7, <2>8, <2>10, <2>11, <2>12, Zenon DEF Match
  <2>14. QED
    BY <2>5, <2>6, <2>13
<1>13. r.type # "ARRAY" /\ Answers(r, m) /\ Match'
    BY <1>11, <1>12
<1>14. want' = want
    BY <1>3, <1>13 DEF Forgets
<1>15. Dictionaries'
    BY <1>1, <1>14, SameDictionaries
<1>16. m = ac'.cb /\ ac'.invalid \in Seq(Nat) /\ m \in Nat
    BY <1>1, <1>4, <1>5 DEF Domains
<1>17. QED
    BY <1>4, <1>5, <1>13, <1>15, <1>16 DEF Heard

(* The reply to a regular command of a subscribed context.                 *)
LEMMA FirstInvalid ==
    ASSUME IInv, SInv, Story, pc = "process", NEW r, Takes(r), ac.replies = <<>>, "SUBSCRIBED" \in ac.flags,
           r.type \notin {"ARRAY", "ERROR"}
    PROVE  /\ ac.invalid # <<>> /\ Head(ac.invalid) = r.n /\ ~Dead /\ r.n = Answered + 1
<1>1. Domains /\ Stream /\ Lists /\ Match
    BY DEF Story
<1>2. Live
    BY DEF SInv, Reading, Live, Freeing, Ending
<1>3. /\ r \in Message /\ r = Coming[1] /\ Len(Coming) \in Nat \ {0}
      /\ DOMAIN Coming = 1 .. Len(Coming) /\ (Dead => r = Refusal)
    BY <1>1, TakesFirst
<1>4. 1 \in DOMAIN Coming /\ Coming # <<>>
    BY <1>3
<1>5. ~Dead
    BY <1>3 DEF Refusal
<1>6. r.n \in Nat /\ r.n = Answered + Step(r) /\ r.n <= Served /\ Answered \in Nat
    BY <1>1, <1>5, TakesNumber
<1>7. Solicited(r) /\ Step(r) = 1
    BY DEF Solicited, Step
<1>8. issued[r.n].kind \in Regular
    BY <1>1, <1>3, <1>4, <1>5, <1>7 DEF Stream, Replies
<1>9. r.n \in DOMAIN issued
  <2>1. Len(issued) \in Nat /\ DOMAIN issued = 1 .. Len(issued) /\ Served \in Nat /\ Served <= Len(issued)
    BY <1>1, Counted
  <2>2. QED
    BY <1>6, <1>7, <2>1
<1>10. Len(ac.replies) = 0
    OBVIOUS
<1>11. Answered + Len(ac.replies) = Answered
    BY <1>6, <1>10
<1>12. /\ \A i \in DOMAIN ac.invalid : ac.invalid[i] > Answered + Len(ac.replies)
       /\ \A n \in DOMAIN issued : n > Answered + Len(ac.replies) /\ issued[n].kind \in Regular =>
                                \E i \in DOMAIN ac.invalid : ac.invalid[i] = n
    BY <1>1, <1>2, <1>4 DEF Match
<1>13. r.n > Answered + Len(ac.replies)
    BY <1>6, <1>7, <1>11
<1>14. PICK i \in DOMAIN ac.invalid : ac.invalid[i] = r.n
    BY <1>8, <1>9, <1>12, <1>13
<1>15. ac.invalid \in Seq(Nat) /\ ac.invalid # <<>>
    BY <1>1, <1>14 DEF Domains
<1>16. /\ Len(ac.invalid) \in Nat \ {0} /\ Head(ac.invalid) = ac.invalid[1] /\ DOMAIN ac.invalid = 1 .. Len(ac.invalid)
       /\ Head(ac.invalid) \in Nat
    BY <1>15, TailOf
<1>17. 1 \in DOMAIN ac.invalid
    BY <1>16
<1>18. ac.invalid[1] > Answered
    BY <1>11, <1>12, <1>17
<1>19. ac.invalid[1] = r.n
  <2>1. CASE i = 1
    BY <1>14, <2>1
  <2>2. CASE i # 1
    <3>1. 1 < i
        BY <1>14, <1>16, <2>2
    <3>2. ac.invalid[1] < ac.invalid[i]
        BY <1>1, <1>14, <1>17, <3>1 DEF Lists, Ascending
    <3>3. QED
        BY <1>6, <1>7, <1>14, <1>16, <1>18, <3>2
  <2>3. QED
    BY <2>1, <2>2
<1>20. QED
    BY <1>5, <1>6, <1>7, <1>15, <1>16, <1>19

LEMMA HeardByInvalid ==
    ASSUME IInv, SInv, Story, pc = "process", NEW r, Takes(r), ac.replies = <<>>, ac'.replies = <<>>,
           "SUBSCRIBED" \in ac.flags, r.type \notin {"ARRAY", "ERROR"}, ac'.invalid = Tail(ac.invalid),
           ac'.cb = Head(ac.invalid), ac'.channels = ac.channels, ac'.patterns = ac.patterns,
           SameSubscribed(ac, ac'), pc' # "freed"
    PROVE  Heard(r, Head(ac.invalid))
<1>1. Domains /\ Stream /\ Lists /\ Match /\ Dictionaries
    BY DEF Story
<1>2. Live
    BY DEF SInv, Reading, Live, Freeing, Ending
<1>3. issued' = issued /\ subs' = subs /\ Forgets(r)
    BY DEF Takes
<1>4. PICK m : m = Head(ac.invalid)
    BY Zenon
<1>5. ac.invalid # <<>> /\ m = r.n /\ ~Dead /\ m = Answered + 1
    BY <1>4, FirstInvalid
<1>6. /\ Lists' /\ m \in DOMAIN issued /\ issued[m].kind \in Regular /\ m \in Nat \ {0}
      /\ Pending(m) /\ Settles(m) /\ ac'.invalid \in Seq(Nat)
    BY <1>1, <1>3, <1>4, <1>5, ShiftInvalid
<1>7. Answers(r, m)
    BY <1>5 DEF Answers
<1>8. /\ r \in Message /\ r = Coming[1] /\ Len(Coming) \in Nat \ {0}
      /\ DOMAIN Coming = 1 .. Len(Coming) /\ DOMAIN Coming' = 1 .. Len(Coming) - 1
      /\ Served' = Served
    BY <1>1, TakesFirst
<1>9. Coming # <<>>
    BY <1>8
<1>10. /\ r.n <= Served /\ Answered \in Nat /\ Answered' = r.n
       /\ \A i \in DOMAIN Coming' : ~Solicited(Coming[i])' => Coming'[i].n >= r.n
    BY <1>1, <1>5, TakesNumber
<1>11. Answered + Len(ac.replies) = Answered /\ Answered' + Len(ac'.replies) = Answered' /\ Answered' = Answered + 1
  <2>1. Len(ac.replies) = 0 /\ Len(ac'.replies) = 0
    OBVIOUS
  <2>2. PICK a, b, k, l : a = Answered /\ b = Answered' /\ k = Len(ac.replies) /\ l = Len(ac'.replies)
    BY Zenon
  <2>3. a \in Nat /\ b = a + 1 /\ k = 0 /\ l = 0
    BY <1>5, <1>10, <2>1, <2>2
  <2>4. a + k = a /\ b + l = b
    BY <2>3
  <2>5. QED
    BY <2>2, <2>3, <2>4
<1>12. /\ \A i \in DOMAIN ac.invalid : ac.invalid[i] > Answered
       /\ \A n \in DOMAIN issued : n > Answered /\ issued[n].kind \in Regular =>
                                \E i \in DOMAIN ac.invalid : ac.invalid[i] = n
    BY <1>1, <1>2, <1>9, <1>11 DEF Match
<1>13. /\ Len(ac.invalid) \in Nat \ {0} /\ m = ac.invalid[1]
       /\ DOMAIN ac.invalid = 1 .. Len(ac.invalid) /\ DOMAIN ac'.invalid = 1 .. Len(ac.invalid) - 1
       /\ \A i \in 1 .. Len(ac.invalid) - 1 : ac'.invalid[i] = ac.invalid[i + 1]
    BY <1>1, <1>4, <1>5, TailOf DEF Domains
<1>14. \A i \in DOMAIN ac'.invalid : ac'.invalid[i] > Answered'
  <2>1. ASSUME NEW i \in DOMAIN ac'.invalid PROVE ac'.invalid[i] > Answered'
    <3>1. i \in 1 .. Len(ac.invalid) - 1
        BY <1>13
    <3>2. 1 \in DOMAIN ac.invalid /\ i + 1 \in DOMAIN ac.invalid /\ 1 < i + 1
        BY <1>13, <3>1
    <3>3. ac.invalid[1] < ac.invalid[i + 1]
        BY <1>1, <3>2 DEF Lists, Ascending
    <3>4. ac'.invalid[i] = ac.invalid[i + 1]
        BY <1>13, <3>1
    <3>5. ac.invalid[i + 1] \in Nat
        BY <1>1, <3>2, ElementOfSeq DEF Domains
    <3>6. QED
        BY <1>5, <1>10, <1>11, <1>13, <3>3, <3>4, <3>5
  <2>2. QED
    BY <2>1, Zenon
<1>15. ASSUME NEW n \in DOMAIN issued, n > Answered', issued[n].kind \in Regular
       PROVE  \E i \in DOMAIN ac'.invalid : ac'.invalid[i] = n
  <2>1. n \in Nat
    <3>1. Len(issued) \in Nat /\ DOMAIN issued = 1 .. Len(issued)
        BY <1>1, Counted
    <3>2. QED
        BY <3>1
  <2>2. n > Answered /\ n # m
    BY <1>5, <1>10, <1>11, <1>15, <2>1
  <2>3. \E i \in DOMAIN ac.invalid : ac.invalid[i] = n
    BY <1>12, <1>15, <2>2
  <2>4. Pending(n)'
    BY <1>6, <2>1, <2>2, <2>3 DEF Pending, Settles
  <2>5. QED
    BY <2>4 DEF Pending
<1>16. /\ \A i \in DOMAIN Coming' : ~Solicited(Coming[i])' => Coming'[i].n >= Answered'
       /\ Served >= Answered'
    BY <1>8, <1>10, Counted, <1>1
<1>17. "SUBSCRIBED" \in ac'.flags /\ DOMAIN ac'.replies = {}
    BY DEF SameSubscribed
<1>18. Match'
    BY <1>3, <1>8, <1>11, <1>14, <1>15, <1>16, <1>17, Zenon DEF Match
<1>19. want' = want
    BY <1>3 DEF Forgets
<1>20. Dictionaries'
    BY <1>1, <1>19, SameDictionaries
<1>21. m = ac'.cb /\ ac'.replies \in Seq(Nat)
    BY <1>4
<1>22. QED
    BY <1>4, <1>6, <1>7, <1>18, <1>20, <1>21 DEF Heard

(* Every key that is subscribed to is found, and no other.                 *)
LEMMA KeyFound ==
    ASSUME Dictionaries, pc # "freed", NEW key \in Keys
    PROVE  dictFind(ac[Dictionary(key)], key) = IF key \in DOMAIN want THEN {Entry(key)} ELSE {}
<1>1. \A k : Entry(k).key = k
    BY DEF Entry
<1>2. CASE key \in Patterns
  <2>1. WellHashed(ac.patterns) /\ Entries(ac.patterns) = {Entry(k) : k \in DOMAIN want \cap Patterns}
    BY DEF Dictionaries
  <2>2. dictFind(ac.patterns, key) = {e \in Entries(ac.patterns) : e.key = key}
    BY <2>1, FindEntries
  <2>3. Dictionary(key) = "patterns"
    BY <1>2 DEF Dictionary
  <2>4. {e \in {Entry(k) : k \in DOMAIN want \cap Patterns} : e.key = key} = IF key \in DOMAIN want THEN {Entry(key)} ELSE {}
    BY <1>1, <1>2
  <2>5. QED
    BY <2>1, <2>2, <2>3, <2>4
<1>3. CASE key \notin Patterns
  <2>1. WellHashed(ac.channels) /\ Entries(ac.channels) = {Entry(k) : k \in DOMAIN want \ Patterns}
    BY DEF Dictionaries
  <2>2. dictFind(ac.channels, key) = {e \in Entries(ac.channels) : e.key = key}
    BY <2>1, FindEntries
  <2>3. Dictionary(key) = "channels"
    BY <1>3 DEF Dictionary
  <2>4. {e \in {Entry(k) : k \in DOMAIN want \ Patterns} : e.key = key} = IF key \in DOMAIN want THEN {Entry(key)} ELSE {}
    BY <1>1, <1>3
  <2>5. QED
    BY <2>1, <2>2, <2>3, <2>4
<1>4. QED
    BY <1>2, <1>3

(* d is c after the callback of the key of r was found in entry e.         *)
Found(c, d, r, e) ==
    /\ d.cb = e.val /\ d.replies = c.replies /\ d.invalid = c.invalid /\ d.err = c.err
    /\ d.obuf = c.obuf /\ d.reader = c.reader
    /\ d.flags = IF Ends(r) /\ r.count = 0 THEN c.flags \ {"SUBSCRIBED"} ELSE c.flags
    /\ d.channels = IF Ends(r) /\ r.key \notin Patterns THEN dictDelete(c.channels, r.key) ELSE c.channels
    /\ d.patterns = IF Ends(r) /\ r.key \in Patterns THEN dictDelete(c.patterns, r.key) ELSE c.patterns

LEMMA SubscribeFinds ==
    ASSUME NEW c, IsContext(c), NEW r, r.type = "ARRAY", NEW e, dictFind(c[Dictionary(r.key)], r.key) = {e}
    PROVE  Found(c, SubscribeCallback(c, r), r, e)
<1>1. PICK key : key = r.key
    BY Zenon
<1>2. Ends(r) <=> r.what = "unsubscribe"
    BY DEF Ends
<1>3. (CHOOSE x \in {e} : TRUE) = e
    OBVIOUS
<1>4. PICK found : found = dictFind(c[Dictionary(r.key)], r.key)
    BY Zenon
<1>5. found = {e} /\ found # {} /\ (CHOOSE x \in found : TRUE) = e
    BY <1>3, <1>4
<1>6. PICK d : d = SubscribeCallback(c, r)
    BY Zenon
<1>7. d = [c EXCEPT !.cb = IF found = {} THEN @ ELSE (CHOOSE x \in found : TRUE).val,
                    ![Dictionary(r.key)] = IF r.what = "unsubscribe" /\ found # {} THEN dictDelete(@, r.key) ELSE @,
                    !.flags = IF (r.what = "unsubscribe" /\ found # {}) /\ r.count = 0 THEN @ \ {"SUBSCRIBED"} ELSE @]
    BY <1>4, <1>6, Zenon DEF SubscribeCallback
<1>8. CASE ~Ends(r)
  <2>1. d = [c EXCEPT !.cb = e.val, ![Dictionary(r.key)] = @, !.flags = @]
    BY <1>2, <1>5, <1>7, <1>8
  <2>2. CASE key \in Patterns
    <3>1. d = [c EXCEPT !.cb = e.val, !.patterns = @, !.flags = @]
        BY <1>1, <2>1, <2>2 DEF Dictionary
    <3>2. QED
        BY <1>6, <1>8, <3>1 DEF IsContext, Found
  <2>3. CASE key \notin Patterns
    <3>1. d = [c EXCEPT !.cb = e.val, !.channels = @, !.flags = @]
        BY <1>1, <2>1, <2>3 DEF Dictionary
    <3>2. QED
        BY <1>6, <1>8, <3>1 DEF IsContext, Found
  <2>4. QED
    BY <2>2, <2>3
<1>9. CASE Ends(r)
  <2>1. PICK F : F = IF r.count = 0 THEN c.flags \ {"SUBSCRIBED"} ELSE c.flags
    BY Zenon
  <2>2. d = [c EXCEPT !.cb = e.val, ![Dictionary(r.key)] = dictDelete(@, r.key), !.flags = F]
    BY <1>2, <1>5, <1>7, <1>9, <2>1
  <2>3. CASE key \in Patterns
    <3>1. d = [c EXCEPT !.cb = e.val, !.patterns = dictDelete(@, r.key), !.flags = F]
        BY <1>1, <2>2, <2>3 DEF Dictionary
    <3>2. QED
        BY <1>1, <1>6, <1>9, <2>1, <2>3, <3>1 DEF IsContext, Found
  <2>4. CASE key \notin Patterns
    <3>1. d = [c EXCEPT !.cb = e.val, !.channels = dictDelete(@, r.key), !.flags = F]
        BY <1>1, <2>2, <2>4 DEF Dictionary
    <3>2. QED
        BY <1>1, <1>6, <1>9, <2>1, <2>4, <3>1 DEF IsContext, Found
  <2>5. QED
    BY <2>3, <2>4
<1>10. QED
    BY <1>8, <1>9

KeyEnds(r) ==
    /\ ac'.channels = IF Ends(r) /\ r.key \notin Patterns THEN dictDelete(ac.channels, r.key) ELSE ac.channels
    /\ ac'.patterns = IF Ends(r) /\ r.key \in Patterns THEN dictDelete(ac.patterns, r.key) ELSE ac.patterns

LEMMA KeyForgotten ==
    ASSUME Dictionaries, pc # "freed", NEW r, r.key \in Keys, Forgets(r), KeyEnds(r)
    PROVE  Dictionaries'
<1>1. /\ WellHashed(ac.channels) /\ Entries(ac.channels) = {Entry(k) : k \in DOMAIN want \ Patterns}
      /\ WellHashed(ac.patterns) /\ Entries(ac.patterns) = {Entry(k) : k \in DOMAIN want \cap Patterns}
    BY DEF Dictionaries
<1>2. CASE ~Ends(r)
  <2>1. want' = want /\ ac'.channels = ac.channels /\ ac'.patterns = ac.patterns
    BY <1>2 DEF Forgets, Ends, KeyEnds
  <2>2. \A k : Entry(k)' = Entry(k)
    BY <2>1 DEF Entry
  <2>3. QED
    BY <1>1, <2>1, <2>2 DEF Dictionaries
<1>3. CASE Ends(r)
  <2>1. PICK key : key = r.key
    BY Zenon
  <2>2. DOMAIN want' = DOMAIN want \ {key} /\ \A k \in DOMAIN want' : want'[k] = want[k]
    BY <1>3, <2>1 DEF Forgets, Ends
  <2>3. \A k \in DOMAIN want \ {key} : Entry(k)' = Entry(k)
    BY <2>2 DEF Entry
  <2>4. \A k : Entry(k).key = k
    BY DEF Entry
  <2>5. /\ WellHashed(dictDelete(ac.channels, key))
        /\ Entries(dictDelete(ac.channels, key)) = {e \in Entries(ac.channels) : e.key # key}
        /\ WellHashed(dictDelete(ac.patterns, key))
        /\ Entries(dictDelete(ac.patterns, key)) = {e \in Entries(ac.patterns) : e.key # key}
    BY <1>1, <2>1, DeleteEntries
  <2>6. CASE key \in Patterns
    <3>1. ac'.channels = ac.channels /\ ac'.patterns = dictDelete(ac.patterns, key)
        BY <1>3, <2>1, <2>6 DEF KeyEnds
    <3>2. DOMAIN want \ Patterns = DOMAIN want' \ Patterns
        BY <2>2, <2>6
    <3>3. {Entry(k) : k \in DOMAIN want \ Patterns} = {Entry(k)' : k \in DOMAIN want' \ Patterns}
        BY <2>2, <2>3, <3>2
    <3>4. {e \in {Entry(k) : k \in DOMAIN want \cap Patterns} : e.key # key} = {Entry(k)' : k \in DOMAIN want' \cap Patterns}
        BY <2>2, <2>3, <2>4
    <3>5. QED
        BY <1>1, <2>5, <3>1, <3>3, <3>4 DEF Dictionaries
  <2>7. CASE key \notin Patterns
    <3>1. ac'.patterns = ac.patterns /\ ac'.channels = dictDelete(ac.channels, key)
        BY <1>3, <2>1, <2>7 DEF KeyEnds
    <3>2. DOMAIN want \cap Patterns = DOMAIN want' \cap Patterns
        BY <2>2, <2>7
    <3>3. {Entry(k) : k \in DOMAIN want \cap Patterns} = {Entry(k)' : k \in DOMAIN want' \cap Patterns}
        BY <2>2, <2>3, <3>2
    <3>4. {e \in {Entry(k) : k \in DOMAIN want \ Patterns} : e.key # key} = {Entry(k)' : k \in DOMAIN want' \ Patterns}
        BY <2>2, <2>3, <2>4
    <3>5. QED
        BY <1>1, <2>5, <3>1, <3>3, <3>4 DEF Dictionaries
  <2>8. QED
    BY <2>6, <2>7
<1>4. QED
    BY <1>2, <1>3

(* A reply to a subscription or unsubscription, or a message.              *)
LEMMA HeardByKey ==
    ASSUME IInv, SInv, Story, pc = "process", NEW r, Takes(r), ac.replies = <<>>, ac'.replies = <<>>,
           ac'.invalid = ac.invalid, "SUBSCRIBED" \in ac.flags, r.type = "ARRAY", KeyEnds(r),
           "SUBSCRIBED" \in ac'.flags <=> ~(Ends(r) /\ r.count = 0),
           ac'.cb = want[r.key], pc' # "freed",
           ~("SUBSCRIBED" \notin ac'.flags /\ r.n < Len(issued))
    PROVE  Heard(r, want[r.key])
<1>1. Domains /\ Stream /\ Lists /\ Match /\ Dictionaries
    BY DEF Story
<1>2. Live
    BY DEF SInv, Reading, Live, Freeing, Ending
<1>3. issued' = issued /\ subs' = subs /\ Forgets(r)
    BY DEF Takes
<1>4. /\ r \in Message /\ r = Coming[1] /\ Len(Coming) \in Nat \ {0}
      /\ DOMAIN Coming = 1 .. Len(Coming) /\ DOMAIN Coming' = 1 .. Len(Coming) - 1
      /\ Served' = Served /\ (Dead => r = Refusal)
    BY <1>1, TakesFirst
<1>5. 1 \in DOMAIN Coming /\ Coming # <<>>
    BY <1>4
<1>6. ~Dead
    BY <1>4 DEF Refusal
<1>7. Replies /\ Known
    BY <1>1, <1>6 DEF Stream
<1>8. r.key \in DOMAIN want /\ r.key \in Keys
    BY <1>4, <1>5, <1>7 DEF Replies, Known
<1>9. PICK m : m = want[r.key]
    BY Zenon
<1>10. m \in DOMAIN issued /\ issued[m] = [kind |-> "subscribe", key |-> r.key]
    BY <1>7, <1>8, <1>9, Zenon DEF Known
<1>11. issued[m].kind \notin Regular /\ Answers(r, m)
    BY <1>10 DEF Regular, Answers
<1>12. /\ r.n \in Nat /\ r.n = Answered + Step(r) /\ r.n <= Served /\ Answered \in Nat /\ Answered' = r.n
       /\ \A i \in DOMAIN Coming' : ~Solicited(Coming[i])' => Coming'[i].n >= r.n
    BY <1>1, <1>6, TakesNumber
<1>13. Step(r) \in {0, 1} /\ (Solicited(r) <=> Step(r) = 1)
    BY <1>4, MessageFields
<1>14. Answered + Len(ac.replies) = Answered /\ Answered' + Len(ac'.replies) = Answered'
  <2>1. Len(ac.replies) = 0 /\ Len(ac'.replies) = 0
    OBVIOUS
  <2>2. PICK a, b, k, l : a = Answered /\ b = Answered' /\ k = Len(ac.replies) /\ l = Len(ac'.replies)
    BY Zenon
  <2>3. a \in Nat /\ b \in Nat /\ k = 0 /\ l = 0
    BY <1>12, <2>1, <2>2
  <2>4. a + k = a /\ b + l = b
    BY <2>3
  <2>5. QED
    BY <2>2, <2>4
<1>15. /\ \A i \in DOMAIN ac.invalid : ac.invalid[i] > Answered
       /\ \A n \in DOMAIN issued : n > Answered /\ issued[n].kind \in Regular =>
                                \E i \in DOMAIN ac.invalid : ac.invalid[i] = n
    BY <1>1, <1>2, <1>5, <1>14 DEF Match
<1>16. Len(issued) \in Nat /\ DOMAIN issued = 1 .. Len(issued) /\ Served \in Nat /\ Served <= Len(issued)
    BY <1>1, Counted
<1>17. \A i \in DOMAIN ac.invalid : ac.invalid[i] > Answered'
  <2>1. ASSUME NEW i \in DOMAIN ac.invalid PROVE ac.invalid[i] > Answered'
    <3>1. PICK x : x = ac.invalid[i]
        BY Zenon
    <3>2. x \in DOMAIN issued /\ issued[x].kind \in Regular /\ x > Answered
        BY <1>1, <1>15, <3>1 DEF Lists
    <3>3. x \in Nat
        BY <1>16, <3>2
    <3>4. CASE Solicited(r)
      <4>1. issued[r.n] = [kind |-> r.what, key |-> r.key]
        BY <1>4, <1>5, <1>7, <3>4 DEF Replies
      <4>2. r.what \in {"subscribe", "unsubscribe", "message"} /\ issued[r.n].kind = r.what
        BY <1>4, <4>1, MessageFields
      <4>3. x # r.n
        BY <3>2, <4>2 DEF Regular
      <4>4. QED
        BY <1>12, <1>13, <3>1, <3>2, <3>3, <3>4, <4>3
    <3>5. CASE ~Solicited(r)
        BY <1>12, <1>13, <3>1, <3>2, <3>3, <3>5
    <3>6. QED
        BY <3>4, <3>5
  <2>2. QED
    BY <2>1, Zenon
<1>18. \A n \in DOMAIN issued : n > Answered' /\ issued[n].kind \in Regular => \E i \in DOMAIN ac.invalid : ac.invalid[i] = n
  <2>1. \A n \in DOMAIN issued : n > Answered' => n > Answered
    BY <1>12, <1>13, <1>16
  <2>2. QED
    BY <1>15, <2>1
<1>19. Served >= Answered'
    BY <1>12, <1>16
<1>20. ASSUME "SUBSCRIBED" \notin ac'.flags
       PROVE  /\ subs = {} /\ Answered' = Len(issued) /\ DOMAIN Coming' = {} /\ ac.invalid = <<>>
  <2>1. Ends(r) /\ r.count = 0 /\ ~(r.n < Len(issued))
    BY <1>20
  <2>2. r.n = Len(issued) /\ r.n = Served
    BY <1>12, <1>16, <2>1
  <2>3. subs = {} /\ 1 = Len(Coming)
    BY <1>4, <1>5, <1>7, <2>1, <2>2 DEF Replies, Ends
  <2>4. DOMAIN Coming' = {}
    <3>1. PICK l : l = Len(Coming)
        BY Zenon
    <3>2. DOMAIN Coming' = 1 .. l - 1 /\ l = 1
        BY <1>4, <2>3, <3>1
    <3>3. 1 .. l - 1 = {}
        BY <3>2
    <3>4. QED
        BY <3>2, <3>3
  <2>5. DOMAIN ac.invalid = {}
    <3>1. ASSUME NEW i \in DOMAIN ac.invalid PROVE FALSE
      <4>1. PICK x : x = ac.invalid[i]
        BY Zenon
      <4>2. x \in DOMAIN issued /\ x > Answered'
        BY <1>1, <1>17, <4>1 DEF Lists
      <4>3. QED
        BY <1>12, <1>16, <2>2, <4>2
    <3>2. QED
        BY <3>1
  <2>6. ac.invalid = <<>>
    <3>1. ac.invalid \in Seq(Nat)
        BY <1>1 DEF Domains
    <3>2. Len(ac.invalid) \in Nat /\ DOMAIN ac.invalid = 1 .. Len(ac.invalid)
        BY <3>1, LenProperties
    <3>3. Len(ac.invalid) = 0
      <4>1. 1 \notin 1 .. Len(ac.invalid)
        BY <2>5, <3>2
      <4>2. QED
        BY <3>2, <4>1
    <3>4. QED
        BY <3>1, <3>3, EmptySeq
  <2>7. QED
    BY <1>12, <2>2, <2>3, <2>4, <2>6
<1>21. DOMAIN ac'.replies = {}
    OBVIOUS
<1>22. Match'
    BY <1>3, <1>4, <1>12, <1>14, <1>17, <1>18, <1>19, <1>20, <1>21, ZenonT(30) DEF Match
<1>23. Lists'
    BY <1>1, <1>3, <1>20, <1>21 DEF Lists, Ascending
<1>24. Dictionaries'
    BY <1>1, <1>3, <1>8, KeyForgotten
<1>25. ac'.replies \in Seq(Nat) /\ ac'.invalid \in Seq(Nat) /\ m \in Nat
    BY <1>1, <1>10, <1>16 DEF Domains
<1>26. \A k \in Nat : Pending(k)' <=> Pending(k)
    BY DEF Pending
<1>27. QED
    BY <1>9, <1>10, <1>11, <1>22, <1>23, <1>24, <1>25, <1>26, Zenon DEF Heard

LEMMA SubscribeRest ==
    ASSUME NEW c, NEW r, IsContext(c)
    PROVE  /\ SubscribeCallback(c, r).reader = c.reader
           /\ "MONITORING" \in SubscribeCallback(c, r).flags => "MONITORING" \in c.flags
           /\ SubscribeCallback(c, r).replies = c.replies
<1>1. Dictionary(r.key) \in {"patterns", "channels"}
    BY DEF Dictionary
<1>2. CASE r.type = "ARRAY"
  <2> DEFINE found == dictFind(c[Dictionary(r.key)], r.key)
             gone == r.what = "unsubscribe" /\ found # {}
             d == [c EXCEPT !.cb = IF found = {} THEN @ ELSE (CHOOSE e \in found : TRUE).val,
                            ![Dictionary(r.key)] = IF gone THEN dictDelete(@, r.key) ELSE @,
                            !.flags = IF gone /\ r.count = 0 THEN @ \ {"SUBSCRIBED"} ELSE @]
  <2>1. SubscribeCallback(c, r) = d
    BY <1>2 DEF SubscribeCallback
  <2> HIDE DEF found, gone, d
  <2>2. d.reader = c.reader /\ d.flags \in {c.flags, c.flags \ {"SUBSCRIBED"}} /\ d.replies = c.replies
    <3>1. CASE Dictionary(r.key) = "patterns"
      <4>1. d = [c EXCEPT !.cb = IF found = {} THEN @ ELSE (CHOOSE e \in found : TRUE).val,
                          !.patterns = IF gone THEN dictDelete(@, r.key) ELSE @,
                          !.flags = IF gone /\ r.count = 0 THEN @ \ {"SUBSCRIBED"} ELSE @]
        BY <3>1, Zenon DEF d
      <4>2. QED
        BY <4>1 DEF IsContext
    <3>2. CASE Dictionary(r.key) = "channels"
      <4>1. d = [c EXCEPT !.cb = IF found = {} THEN @ ELSE (CHOOSE e \in found : TRUE).val,
                          !.channels = IF gone THEN dictDelete(@, r.key) ELSE @,
                          !.flags = IF gone /\ r.count = 0 THEN @ \ {"SUBSCRIBED"} ELSE @]
        BY <3>2, Zenon DEF d
      <4>2. QED
        BY <4>1 DEF IsContext
    <3>3. QED
        BY <1>1, <3>1, <3>2
  <2>3. QED
    BY <2>1, <2>2
<1>3. CASE r.type # "ARRAY"
  <2>1. \/ SubscribeCallback(c, r) = c
        \/ SubscribeCallback(c, r) = [c EXCEPT !.cb = Head(c.invalid), !.invalid = Tail(@)]
    BY <1>3 DEF SubscribeCallback
  <2>2. QED
    BY <2>1 DEF IsContext
<1>4. QED
    BY <1>2, <1>3

(* c is the context without the first reply of the reader.                 *)
Popped(c) ==
    /\ IsContext(c) /\ c.flags = ac.flags /\ c.err = ac.err /\ c.replies = ac.replies /\ c.invalid = ac.invalid
    /\ c.channels = ac.channels /\ c.patterns = ac.patterns /\ c.obuf = ac.obuf /\ c.cb = ac.cb
    /\ ac.reader # <<>> /\ c.reader = Tail(ac.reader)

SameSurroundings == UNCHANGED <<iter, sent, inflight, eof, fresh, subs, issued>>

(* The subscription ends with this reply and commands are outstanding.     *)
EndCrossed(r) == crossed' = (crossed \/ ("SUBSCRIBED" \in ac.flags /\ "SUBSCRIBED" \notin ac'.flags /\ r.n < Len(issued)))

LEMMA ReplyCases ==
    ASSUME IInv, Reply
    PROVE  \E r, c :
           /\ r = Head(ac.reader) /\ Popped(c) /\ pc = "process" /\ SameSurroundings /\ EndCrossed(r)
           /\ IF ac.replies # <<>> THEN Deliver(redisShiftCallback(c), r)
              ELSE IF r.type = "ERROR"
              THEN ac' = [c EXCEPT !.err = "OTHER"] /\ pc' = "disconnect" /\ UNCHANGED <<after, calls, leaving, want>>
              ELSE IF ac.flags \cap {"SUBSCRIBED", "MONITORING"} = {}
              THEN ac' = c /\ pc' = "aborted" /\ UNCHANGED <<after, calls, leaving, want>>
              ELSE Deliver(IF "SUBSCRIBED" \in ac.flags THEN SubscribeCallback(c, r) ELSE c, r)
<1>0. IsContext(ac)
    BY DEF IInv, Types
<1>1. PICK r, c : r = Head(ac.reader) /\ c = [ac EXCEPT !.reader = Tail(@)]
    BY Zenon
<1>2. pc = "process" /\ ac.reader # <<>> /\ UNCHANGED <<iter, wire, server, issued>>
    BY DEF Reply
<1>3. SameSurroundings
    BY <1>2 DEF SameSurroundings, wire, server
<1>4. Popped(c)
    BY <1>0, <1>1, <1>2 DEF IsContext, Popped
<1>5. /\ IF ac.replies # <<>> THEN Deliver(redisShiftCallback(c), r)
         ELSE IF r.type = "ERROR"
         THEN ac' = [c EXCEPT !.err = "OTHER"] /\ pc' = "disconnect" /\ UNCHANGED <<after, calls, leaving, want>>
         ELSE IF ac.flags \cap {"SUBSCRIBED", "MONITORING"} = {}
         THEN ac' = c /\ pc' = "aborted" /\ UNCHANGED <<after, calls, leaving, want>>
         ELSE Deliver(IF "SUBSCRIBED" \in ac.flags THEN SubscribeCallback(c, r) ELSE c, r)
      /\ EndCrossed(r)
    BY <1>1, Zenon DEF Reply, Flag, EndCrossed
<1>6. QED
    BY <1>1, <1>2, <1>3, <1>4, <1>5, Zenon

LEMMA TakesOf ==
    ASSUME NEW r, r = Head(ac.reader), NEW c, Popped(c), ac'.reader = c.reader, ac'.obuf = c.obuf, SameSurroundings, Forgets(r)
    PROVE  Takes(r)
  BY DEF Takes, Popped, SameSurroundings

LEMMA DeliverOf ==
    ASSUME NEW d, NEW r, Deliver(d, r)
    PROVE  redisRunCallback(d, d.cb, r, "process") /\ Forgets(r)
  BY DEF Deliver, Forgets

LEMMA FirstComing ==
    ASSUME Domains, ac.reader # <<>>
    PROVE  Coming # <<>> /\ Coming[1] = Head(ac.reader) /\ 1 \in DOMAIN Coming
<1>1. ac.reader \in Seq(Message) /\ inflight \in Seq(Message)
    BY DEF Domains
<1>2. \A s, t \in Seq(Message) : s # <<>> => s \o t # <<>> /\ (s \o t)[1] = Head(s)
    BY ConcatTail
<1>3. Coming # <<>> /\ Coming[1] = Head(ac.reader)
    BY <1>1, <1>2, Zenon DEF Coming
<1>4. Coming \in Seq(Message)
    BY <1>1, ConcatOf DEF Coming
<1>5. PICK s : s = Coming
    BY Zenon
<1>6. Len(s) \in Nat \ {0} /\ DOMAIN s = 1 .. Len(s)
    BY <1>3, <1>4, <1>5, TailOf
<1>7. 1 \in DOMAIN s
    BY <1>6
<1>8. QED
    BY <1>3, <1>5, <1>7

LEMMA ReplyToFirst ==
    ASSUME IInv, SInv, pc = "process", NEW r, NEW c, r = Head(ac.reader), Popped(c), SameSurroundings, EndCrossed(r),
           ac.replies # <<>>, Deliver(redisShiftCallback(c), r)
    PROVE  SInv'
<1>1. PICK d : d = redisShiftCallback(c)
    BY Zenon
<1>2. d = [c EXCEPT !.cb = Head(c.replies), !.replies = Tail(@)]
    BY <1>1 DEF redisShiftCallback
<1>3. /\ IsContext(d) /\ d.cb = Head(ac.replies) /\ d.replies = Tail(ac.replies) /\ d.invalid = ac.invalid
      /\ d.channels = ac.channels /\ d.patterns = ac.patterns /\ d.flags = ac.flags /\ d.err = ac.err
      /\ d.reader = c.reader /\ d.obuf = c.obuf
    BY <1>2 DEF Popped, IsContext
<1>4. redisRunCallback(d, d.cb, r, "process") /\ Forgets(r)
    BY <1>1, DeliverOf
<1>5. /\ Ran(d, ac')
      /\ pc' = "process" \/ pc' = "callback"
    BY <1>3, <1>4, RunsCallback
<1>6. /\ ac'.cb = Head(ac.replies) /\ ac'.replies = Tail(ac.replies) /\ ac'.invalid = ac.invalid
      /\ ac'.channels = ac.channels /\ ac'.patterns = ac.patterns /\ ac'.err = ac.err
      /\ ac'.reader = c.reader /\ ac'.obuf = c.obuf
      /\ SameSubscribed(ac, ac') /\ ("MONITORING" \in ac'.flags => "MONITORING" \in ac.flags)
    BY <1>3, <1>5 DEF Ran, SameSubscribed
<1>7. Takes(r)
    BY <1>4, <1>6, TakesOf
<1>8. Story => Heard(r, Head(ac.replies))
    BY <1>5, <1>6, <1>7, HeardByReplies
<1>9. iter' = iter /\ (crossed => crossed')
    BY DEF SameSurroundings, EndCrossed
<1>10. PICK m : m = Head(ac.replies)
    BY Zenon
<1>11. QED
    BY <1>3, <1>4, <1>6, <1>7, <1>8, <1>9, <1>10, DeliverTells

LEMMA ReplyRefused ==
    ASSUME IInv, SInv, pc = "process", NEW r, NEW c, r = Head(ac.reader), Popped(c), SameSurroundings, EndCrossed(r),
           r.type = "ERROR", ac' = [c EXCEPT !.err = "OTHER"], pc' = "disconnect", UNCHANGED <<after, calls, leaving, want>>
    PROVE  SInv'
<1>1. /\ ac'.cb = ac.cb /\ ac'.replies = ac.replies /\ ac'.invalid = ac.invalid
      /\ ac'.channels = ac.channels /\ ac'.patterns = ac.patterns /\ ac'.err = "OTHER"
      /\ ac'.reader = c.reader /\ ac'.obuf = c.obuf /\ ac'.flags = ac.flags
    BY DEF Popped, IsContext
<1>2. Forgets(r)
    BY DEF Forgets
<1>3. Takes(r)
    BY <1>1, <1>2, TakesOf
<1>4. Unborn' /\ Reading' /\ ~ListsDone' /\ ~ListsDone /\ pc' # "freed" /\ ~Live'
    BY <1>1 DEF Unborn, Reading, ListsDone, Live
<1>5. issued' = issued /\ iter' = iter /\ inflight' = inflight /\ sent' = sent /\ subs' = subs
    BY DEF SameSurroundings
<1>6. Monitored' <=> Monitored
    BY <1>5 DEF Monitored
<1>7. Monitors'
    BY <1>1, <1>6 DEF SInv, Monitors
<1>8. ASSUME ~Monitored', ~crossed' PROVE Story'
  <2>1. Story
    BY <1>6, <1>8 DEF SInv, EndCrossed
  <2>2. Domains /\ Stream /\ Lists /\ Called /\ Dictionaries
    BY <2>1 DEF Story
  <2>3. Stream' /\ leaving' \subseteq Keys
    BY <1>3, <2>2, TakesStream
  <2>4. ac'.reader \in Seq(Message) /\ Served' = Served
    BY <1>3, <2>2, TakesFirst
  <2>5. Domains'
    BY <1>1, <1>5, <2>2, <2>3, <2>4 DEF Domains
  <2>6. Lists'
    BY <1>1, <1>5, <2>2, SameLists DEF SameSubscribed
  <2>7. Match'
    BY <1>4 DEF Match
  <2>8. Called'
    BY <1>1, <1>4, <1>5, <2>2, SameCalled
  <2>9. Iterated'
    BY <1>4 DEF Iterated
  <2>10. Dictionaries'
    BY <1>1, <1>4, <2>2, SameDictionaries
  <2>11. QED
    BY <2>3, <2>5, <2>6, <2>7, <2>8, <2>9, <2>10 DEF Story
<1>9. QED
    BY <1>4, <1>7, <1>8 DEF SInv

(* Without a monitor, and without an unsubscription that crossed a         *)
(* command, the assertion of redisProcessCallbacks holds.                  *)
LEMMA ReplyExpected ==
    ASSUME IInv, SInv, pc = "process", NEW r, NEW c, r = Head(ac.reader), Popped(c), SameSurroundings, EndCrossed(r),
           ac.replies = <<>>, r.type # "ERROR", ac.flags \cap {"SUBSCRIBED", "MONITORING"} = {},
           ac' = c, pc' = "aborted", UNCHANGED <<after, calls, leaving, want>>
    PROVE  SInv'
<1>1. "SUBSCRIBED" \notin ac.flags /\ "MONITORING" \notin ac'.flags /\ ac'.reader = c.reader /\ ac'.obuf = c.obuf
    BY DEF Popped
<1>2. Unborn' /\ Reading' /\ Monitors'
    BY <1>1 DEF Unborn, Reading, Monitors
<1>3. Monitored' <=> Monitored
    BY DEF Monitored, SameSurroundings
<1>4. ASSUME ~Monitored', ~crossed' PROVE FALSE
  <2>1. Story
    BY <1>3, <1>4 DEF SInv, EndCrossed
  <2>2. Domains /\ Stream /\ Match
    BY <2>1 DEF Story
  <2>3. ac.reader # <<>>
    BY DEF Popped
  <2>4. Coming # <<>> /\ Coming[1] = r /\ 1 \in DOMAIN Coming
    BY <2>2, <2>3, FirstComing
  <2>5. Live
    BY DEF SInv, Reading, Live, Freeing, Ending
  <2>6. Answered + Len(ac.replies) = Len(issued) /\ r.type # "ARRAY"
    BY <1>1, <2>2, <2>4, <2>5 DEF Match
  <2>7. Forgets(r)
    BY <2>6 DEF Forgets
  <2>8. Takes(r)
    BY <1>1, <2>7, TakesOf
  <2>9. ~Dead
    <3>1. Dead => r = Refusal
        BY <2>2, <2>8, TakesFirst
    <3>2. QED
        BY <3>1 DEF Refusal
  <2>10. r.n \in Nat /\ r.n = Answered + Step(r) /\ r.n <= Served /\ Answered \in Nat
    BY <2>2, <2>8, <2>9, TakesNumber
  <2>11. Step(r) = 1
    BY <2>6 DEF Step, Solicited
  <2>12. Len(issued) \in Nat /\ Served \in Nat /\ Served <= Len(issued)
    BY <2>2, Counted
  <2>13. Len(ac.replies) = 0
    OBVIOUS
  <2>14. QED
    BY <2>6, <2>10, <2>11, <2>12, <2>13
<1>5. QED
    BY <1>2, <1>4 DEF SInv

LEMMA ReplyToSubscriber ==
    ASSUME IInv, SInv, pc = "process", NEW r, NEW c, r = Head(ac.reader), Popped(c), SameSurroundings, EndCrossed(r),
           ac.replies = <<>>, r.type # "ERROR",
           Deliver(IF "SUBSCRIBED" \in ac.flags THEN SubscribeCallback(c, r) ELSE c, r)
    PROVE  SInv'
<1>1. PICK d : d = IF "SUBSCRIBED" \in ac.flags THEN SubscribeCallback(c, r) ELSE c
    BY Zenon
<1>2. IsContext(c) /\ c.reader = Tail(ac.reader) /\ c.obuf = ac.obuf /\ c.err = ac.err /\ c.flags = ac.flags
    BY DEF Popped
<1>3. /\ IsContext(d) /\ d.reader = c.reader /\ d.obuf = c.obuf /\ d.err = ac.err
      /\ "MONITORING" \in d.flags => "MONITORING" \in ac.flags
  <2>1. CASE d = c
    BY <1>2, <2>1
  <2>2. CASE d = SubscribeCallback(c, r)
    BY <1>2, <2>2, SubscribeLike, SubscribeRest DEF Like
  <2>3. QED
    BY <1>1, <2>1, <2>2
<1>4. redisRunCallback(d, d.cb, r, "process") /\ Forgets(r)
    BY <1>1, DeliverOf
<1>5. /\ Ran(d, ac')
      /\ pc' = "process" \/ pc' = "callback"
    BY <1>3, <1>4, RunsCallback
<1>6. /\ ac'.err = ac.err /\ ac'.reader = c.reader /\ ac'.obuf = c.obuf
      /\ "MONITORING" \in ac'.flags => "MONITORING" \in ac.flags
    BY <1>3, <1>5 DEF Ran
<1>7. Takes(r)
    BY <1>4, <1>6, TakesOf
<1>8. iter' = iter /\ issued' = issued /\ (crossed => crossed')
    BY DEF SameSurroundings, EndCrossed
<1>9. ASSUME Story, ~crossed' PROVE Heard(r, d.cb)
  <2>1. Domains /\ Stream /\ Match /\ Dictionaries
    BY <1>9 DEF Story
  <2>2. "SUBSCRIBED" \in ac.flags
    <3>1. ASSUME "SUBSCRIBED" \notin ac.flags PROVE FALSE
      <4>1. ac.reader # <<>>
        BY DEF Popped
      <4>2. Coming # <<>> /\ Coming[1] = r /\ 1 \in DOMAIN Coming
        BY <2>1, <4>1, FirstComing
      <4>3. Live
        BY DEF SInv, Reading, Live, Freeing, Ending
      <4>4. Answered + Len(ac.replies) = Len(issued) /\ r.type # "ARRAY"
        BY <2>1, <3>1, <4>2, <4>3 DEF Match
      <4>5. ~Dead
        <5>1. Dead => r = Refusal
            BY <1>7, <2>1, TakesFirst
        <5>2. QED
            BY <5>1 DEF Refusal
      <4>6. r.n \in Nat /\ r.n = Answered + Step(r) /\ r.n <= Served /\ Answered \in Nat
        BY <1>7, <2>1, <4>5, TakesNumber
      <4>7. Step(r) = 1
        BY <4>4 DEF Step, Solicited
      <4>8. Len(issued) \in Nat /\ Served \in Nat /\ Served <= Len(issued)
        BY <2>1, Counted
      <4>9. Len(ac.replies) = 0
        OBVIOUS
      <4>10. QED
        BY <4>4, <4>6, <4>7, <4>8, <4>9
    <3>2. QED
        BY <3>1
  <2>3. d = SubscribeCallback(c, r)
    BY <1>1, <2>2
  <2>4. CASE r.type = "ARRAY"
    <3>1. r.key \in DOMAIN want /\ r.key \in Keys
      <4>1. ac.reader # <<>>
        BY DEF Popped
      <4>2. Coming[1] = r /\ 1 \in DOMAIN Coming
        BY <2>1, <4>1, FirstComing
      <4>3. ~Dead
        <5>1. Dead => r = Refusal
            BY <1>7, <2>1, TakesFirst
        <5>2. QED
            BY <2>4, <5>1 DEF Refusal
      <4>4. QED
        BY <2>1, <2>4, <4>2, <4>3 DEF Stream, Replies, Known
    <3>2. dictFind(ac[Dictionary(r.key)], r.key) = {Entry(r.key)}
        BY <2>1, <3>1, KeyFound
    <3>3. Dictionary(r.key) \in {"patterns", "channels"}
        BY DEF Dictionary
    <3>4. c[Dictionary(r.key)] = ac[Dictionary(r.key)]
        BY <3>3 DEF Popped
    <3>5. Found(c, d, r, Entry(r.key))
        BY <1>2, <2>3, <2>4, <3>2, <3>4, SubscribeFinds
    <3>6. Entry(r.key).val = want[r.key]
        BY DEF Entry
    <3>7. d.cb = want[r.key] /\ d.replies = <<>> /\ d.invalid = ac.invalid
        BY <3>5, <3>6 DEF Found, Popped
    <3>8. ac'.cb = want[r.key] /\ ac'.replies = <<>> /\ ac'.invalid = ac.invalid
        BY <1>5, <3>7 DEF Ran
    <3>9. KeyEnds(r)
        BY <1>5, <3>5 DEF Ran, Found, Popped, KeyEnds
    <3>10. "SUBSCRIBED" \in ac'.flags <=> ~(Ends(r) /\ r.count = 0)
        BY <1>2, <1>5, <2>2, <3>5 DEF Ran, SameSubscribed, Found
    <3>11. ~("SUBSCRIBED" \notin ac'.flags /\ r.n < Len(issued))
        BY <1>9, <2>2 DEF EndCrossed
    <3>12. pc' # "freed"
        BY <1>5
    <3>13. QED
        BY <1>7, <1>9, <2>2, <2>4, <3>7, <3>8, <3>9, <3>10, <3>11, <3>12, HeardByKey
  <2>5. CASE r.type # "ARRAY"
    <3>1. ac.invalid # <<>>
        BY <1>7, <1>9, <2>2, <2>5, FirstInvalid
    <3>2. c.invalid # <<>>
        BY <3>1 DEF Popped
    <3>3. d = [c EXCEPT !.cb = Head(c.invalid), !.invalid = Tail(@)]
        BY <2>3, <2>5, <3>2 DEF SubscribeCallback
    <3>4. /\ d.cb = Head(ac.invalid) /\ d.invalid = Tail(ac.invalid) /\ d.replies = <<>> /\ d.flags = ac.flags
          /\ d.channels = ac.channels /\ d.patterns = ac.patterns
        BY <3>3 DEF IsContext, Popped
    <3>5. /\ ac'.cb = Head(ac.invalid) /\ ac'.invalid = Tail(ac.invalid) /\ ac'.replies = <<>>
          /\ ac'.channels = ac.channels /\ ac'.patterns = ac.patterns /\ SameSubscribed(ac, ac')
        BY <1>5, <3>4 DEF Ran, SameSubscribed
    <3>6. pc' # "freed" /\ r.type \notin {"ARRAY", "ERROR"}
        BY <1>5, <2>5
    <3>7. QED
        BY <1>7, <1>9, <2>2, <3>4, <3>5, <3>6, HeardByInvalid
  <2>6. QED
    BY <2>4, <2>5
<1>10. PICK m : m = d.cb
    BY Zenon
<1>11. redisRunCallback(d, m, r, "process") /\ (Story /\ ~crossed' => Heard(r, m))
    BY <1>4, <1>9, <1>10
<1>12. QED
    BY <1>3, <1>6, <1>7, <1>8, <1>11, DeliverTells

LEMMA ReplyTells == ASSUME IInv, SInv, Reply PROVE SInv'
<1>1. PICK r, c :
       /\ r = Head(ac.reader) /\ Popped(c) /\ pc = "process" /\ SameSurroundings /\ EndCrossed(r)
       /\ IF ac.replies # <<>> THEN Deliver(redisShiftCallback(c), r)
          ELSE IF r.type = "ERROR"
          THEN ac' = [c EXCEPT !.err = "OTHER"] /\ pc' = "disconnect" /\ UNCHANGED <<after, calls, leaving, want>>
          ELSE IF ac.flags \cap {"SUBSCRIBED", "MONITORING"} = {}
          THEN ac' = c /\ pc' = "aborted" /\ UNCHANGED <<after, calls, leaving, want>>
          ELSE Deliver(IF "SUBSCRIBED" \in ac.flags THEN SubscribeCallback(c, r) ELSE c, r)
    BY ReplyCases, Zenon
<1>2. CASE ac.replies # <<>>
  <2>1. Deliver(redisShiftCallback(c), r)
    BY <1>1, <1>2, Zenon
  <2>2. QED
    BY <1>1, <1>2, <2>1, ReplyToFirst, Zenon
<1>3. CASE ac.replies = <<>> /\ r.type = "ERROR"
  <2>1. ac' = [c EXCEPT !.err = "OTHER"] /\ pc' = "disconnect" /\ UNCHANGED <<after, calls, leaving, want>>
    BY <1>1, <1>3, Zenon
  <2>2. QED
    BY <1>1, <1>3, <2>1, ReplyRefused
<1>4. CASE ac.replies = <<>> /\ r.type # "ERROR" /\ ac.flags \cap {"SUBSCRIBED", "MONITORING"} = {}
  <2>1. ac' = c /\ pc' = "aborted" /\ UNCHANGED <<after, calls, leaving, want>>
    BY <1>1, <1>4, Zenon
  <2>2. QED
    BY <1>1, <1>4, <2>1, ReplyExpected
<1>5. CASE ac.replies = <<>> /\ r.type # "ERROR" /\ ac.flags \cap {"SUBSCRIBED", "MONITORING"} # {}
  <2>1. Deliver(IF "SUBSCRIBED" \in ac.flags THEN SubscribeCallback(c, r) ELSE c, r)
    BY <1>1, <1>5, Zenon
  <2>2. QED
    BY <1>1, <1>5, <2>1, ReplyToSubscriber
<1>6. QED
    BY <1>2, <1>3, <1>4, <1>5

-----------------------------------------------------------------------------
(* Results about callbacks and subscriptions.                              *)

LEMMA StutterTells == ASSUME IInv, SInv, UNCHANGED vars PROVE SInv'
<1>1. UNCHANGED <<ac, pc, after, iter, sent, inflight, eof, fresh, subs, issued, calls, want, leaving, crossed>>
    BY DEF vars
<1>2. Unborn' /\ Reading'
    BY <1>1 DEF SInv, Unborn, Reading
<1>3. Monitored' <=> Monitored
    BY <1>1 DEF Monitored
<1>4. Monitors'
    BY <1>1, <1>3 DEF SInv, Monitors
<1>5. ASSUME ~Monitored', ~crossed' PROVE Story'
  <2>1. Domains /\ Stream /\ Lists /\ Match /\ Called /\ Iterated /\ Dictionaries
    BY <1>1, <1>3, <1>5 DEF SInv, Story
  <2>2. SameWire
    BY <1>1 DEF SameWire, Coming, Going, Served
  <2>3. ListsDone' <=> ListsDone
    BY <1>1 DEF ListsDone
  <2>4. Live' <=> Live
    BY <1>1 DEF Live, Freeing, Ending
  <2>5. Domains'
    BY <1>1, <2>1 DEF Domains, Served
  <2>6. Stream'
    BY <2>1, <2>2, SameStream
  <2>7. Lists'
    BY <1>1, <2>1, SameLists DEF SameSubscribed
  <2>8. Match'
    BY <1>1, <2>1, <2>2, <2>4, SameMatch DEF SameSubscribed
  <2>9. Called'
    BY <1>1, <2>1, <2>3, SameCalled
  <2>10. Iterated'
    BY <1>1, <2>1, <2>3, SameIterated
  <2>11. Dictionaries'
    BY <1>1, <2>1, SameDictionaries
  <2>12. QED
    BY <2>5, <2>6, <2>7, <2>8, <2>9, <2>10, <2>11 DEF Story
<1>6. QED
    BY <1>2, <1>4, <1>5 DEF SInv

(* The story of the commands, their replies and their callbacks holds in   *)
(* every reachable state.                                                  *)
THEOREM StoryHolds == Spec => []SInv
<1>1. Init => SInv
    BY InitTells
<1>2. IInv /\ SInv /\ [Next]_vars => SInv'
  <2> SUFFICES ASSUME IInv, SInv, [Next]_vars PROVE SInv'
    OBVIOUS
  <2>1. CASE UNCHANGED vars
    BY <2>1, StutterTells
  <2>2. CASE Next
    BY <2>2, ConnectTells, SetCallbacksTells, CommandTells, EndAskedTells, ReturnsTells,
       DisconnectNowTells, FreeRepliesTells, FreeInvalidTells, FreeIterateTells, FreeSubscriptionTells,
       FreeContextTells, NoReplyTells, GetReplyFailsTells, ReplyTells, EventTells, HandleReadTells, HandleWriteTells,
       ServerAnswersTells, ServerPublishesTells, ServerRefusesTells, ConnectionFailsTells, Zenon DEF Next
  <2>3. QED
    BY <2>1, <2>2
<1>3. QED
    BY <1>1, <1>2, Invariance, PTL DEF Spec

(* A callback runs only with the reply to its own command, a message of    *)
(* its own channel or NULL, never again after NULL, and every callback     *)
(* that is owed has run when the context is freed.                         *)
THEOREM OwnCallbacks == Spec => []RightCallback
<1>1. IInv /\ SInv => RightCallback
  <2> SUFFICES ASSUME IInv, SInv PROVE RightCallback
    OBVIOUS
  <2>1. ASSUME ~Monitored, ~crossed, NEW n \in DOMAIN calls, NEW i \in DOMAIN calls[n]
        PROVE  Answers(calls[n][i], n) /\ (calls[n][i] = NullReply => i = Len(calls[n]))
    <3>1. Domains /\ Called
        BY <2>1 DEF SInv, Story
    <3>2. Answers(calls[n][i], n)
        BY <2>1, <3>1 DEF Called
    <3>3. CASE issued[n].kind \in Regular
      <4>1. PICK s : s = calls[n]
        BY Zenon
      <4>2. s \in Seq(Message \cup {NullReply})
        BY <2>1, <3>1, <4>1, ElementOfSeq, LenProperties DEF Domains
      <4>3. i \in 1 .. Len(s) /\ (s = <<>> \/ Len(s) = 1)
        BY <2>1, <3>1, <3>3, <4>1, <4>2, LenProperties DEF Called
      <4>4. i = Len(s)
        BY <4>3
      <4>5. QED
        BY <3>2, <4>1, <4>4
    <3>4. CASE issued[n].kind \notin Regular
        BY <2>1, <3>1, <3>2, <3>4 DEF Called
    <3>5. QED
        BY <3>3, <3>4
  <2>2. OwnReplies
    BY <2>1 DEF OwnReplies
  <2>3. ASSUME pc = "freed", ~Monitored, ~crossed
        PROVE  /\ \A n \in DOMAIN calls : issued[n].kind \in {"get", "quit"} => Len(calls[n]) = 1
               /\ \A key \in DOMAIN want : LET c == calls[want[key]] IN c # <<>> /\ Last(c) = NullReply
    <3>1. Called /\ Iterated
        BY <2>3 DEF SInv, Story
    <3>2. ListsDone /\ ac.replies = <<>> /\ ac.invalid = <<>>
        BY <2>3 DEF IInv, Rest, Ended, ListsDone
    <3>3. \A n : ~Pending(n)
        BY <3>2 DEF Pending
    <3>4. \A n \in DOMAIN calls : issued[n].kind \in {"get", "quit"} => Len(calls[n]) = 1
        BY <3>1, <3>3 DEF Called, Regular
    <3>5. iter = {}
        BY <2>3, <3>1 DEF Iterated
    <3>6. \A key \in DOMAIN want : LET c == calls[want[key]] IN c # <<>> /\ Last(c) = NullReply
        BY <3>1, <3>2, <3>5 DEF Iterated
    <3>7. QED
        BY <3>4, <3>6
  <2>4. EveryCallbackRuns
    BY <2>3, Zenon DEF EveryCallbackRuns
  <2>5. QED
    BY <2>2, <2>4 DEF RightCallback
<1>2. QED
    BY <1>1, Invariance, StoryHolds, PTL

(* The dictionaries of a context find every key it is subscribed to, under *)
(* the callback of its last subscription, and no other key, through every  *)
(* expansion of their tables.                                              *)
THEOREM DictionariesAgree == Spec => []SubscriptionsKept
<1>1. SInv => SubscriptionsKept
  <2> SUFFICES ASSUME SInv, pc # "freed", ~Monitored, ~crossed, NEW key \in Keys
      PROVE dictFind(ac[Dictionary(key)], key) = IF key \in DOMAIN want THEN {[key |-> key, val |-> want[key]]} ELSE {}
    BY DEF SubscriptionsKept
  <2>1. Dictionaries
    BY DEF SInv, Story
  <2>2. QED
    BY <2>1, KeyFound DEF Entry
<1>2. QED
    BY <1>1, StoryHolds, PTL
=============================================================================
