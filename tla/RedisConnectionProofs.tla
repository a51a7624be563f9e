----------------------- MODULE RedisConnectionProofs -----------------------
(***************************************************************************)
(* For any number of sentinels, calls, failures and deleted objects: the   *)
(* mutual recursion of Connect, Authenticate and Command never uses a      *)
(* context that was freed, loses no context or reply but in the known      *)
(* ways, and sends the caller's command at most once.                      *)
(***************************************************************************)
EXTENDS RedisConnection, SequenceTheorems, TLAPS

(* Who calls whom: every active call was made by the one below it.         *)
MayCall ==
    {<<"FraudANI", "Command">>, <<"Connected", "Authenticate">>,
     <<"Authenticate", "Command">>}
    \cup {<<"Command", inner>> : inner \in {"Connect", "Sentinel", "Dial", "Connected"}}

CallStack(s) ==
    /\ s \in Seq(Frames)
    /\ Len(s) > 0 => s[1] = "FraudANI"
    /\ \A i \in 2..Len(s) : <<s[i - 1], s[i]>> \in MayCall

(* What is known where the innermost of n calls is: Connect looks for a    *)
(* master only without a context, Authenticate has always returned true,   *)
(* and Connect returned true to Command only with a healthy context.       *)
Places(n, top) ==
    n > 0 =>
        /\ top \in {"Sentinel", "Dial"} => Context = Null
        /\ top = "Connected" => ret
        /\ top = "Command" /\ ret => Healthy(Context)

(* A reply exists only while the caller of Command has it in hand.         *)
ReplyInHand(n, top) == reply # Null => n > 0 /\ top \in {"Authenticate", "FraudANI"}

SentBefore(n) == sent = 0 \/ (sent = 1 /\ n <= 1)

(* While nothing has failed there is one level of recursion, and a context *)
(* is not yet authenticated only inside it.                                *)
Unfailing(n) ==
    faults = 0 =>
        /\ \A c \in DOMAIN ctx : ~ctx[c].err
        /\ n >= 4 => Context # Null
        /\ n = 5 => ret
        /\ Context # Null /\ ~ctx[Context].auth => n \in 5..6

At(n, top) == Places(n, top) /\ ReplyInHand(n, top) /\ SentBefore(n) /\ Unfailing(n)

(* What holds wherever the calls are.                                      *)
Scalars ==
    /\ ret \in BOOLEAN /\ reply \in {Null, "STATUS", "STRING", "ERROR"}
    /\ faults \in Nat /\ calls \in Nat /\ deletes \in Nat /\ sent \in Nat
    /\ sentinel \in 1..(NSentinels + 1)
    /\ replies \in Nat /\ RepliesFreed

Contexts ==
    /\ nextCtx \in Nat \ {0} /\ Context \in Numbers \cup {Null}
    /\ abandoned \subseteq Numbers /\ Context \notin abandoned
    /\ LeaksKnown
    /\ \A c \in DOMAIN ctx : ctx[c] \in [err : BOOLEAN, auth : BOOLEAN]

IInv ==
    /\ Scalars /\ Contexts
    /\ CallStack(stack)
    /\ At(Len(stack), stack[Len(stack)])
-----------------------------------------------------------------------------
(* Sequences.                                                              *)

LEMMA PrefixProperties ==
    ASSUME NEW S, NEW s \in Seq(S), NEW n \in Nat, n <= Len(s)
    PROVE  /\ SubSeq(s, 1, n) \in Seq(S) /\ Len(SubSeq(s, 1, n)) = n
           /\ \A i \in 1..n : SubSeq(s, 1, n)[i] = s[i]
<1>1. SubSeq(s, 1, n) \in Seq(S)
    OBVIOUS
<1>2. Len(SubSeq(s, 1, n)) = n
    OBVIOUS
<1>3. \A i \in 1..n : SubSeq(s, 1, n)[i] = s[i]
    OBVIOUS
<1>4. QED
    BY <1>1, <1>2, <1>3

LEMMA FrontProperties ==
    ASSUME NEW S, NEW s \in Seq(S), Len(s) > 0
    PROVE  /\ Front(s) \in Seq(S) /\ Len(Front(s)) = Len(s) - 1
           /\ \A i \in 1..(Len(s) - 1) : Front(s)[i] = s[i]
<1>1. Len(s) - 1 \in Nat /\ Len(s) - 1 <= Len(s)
    OBVIOUS
<1>2. QED
    BY <1>1, PrefixProperties, Zenon DEF Front

-----------------------------------------------------------------------------
(* The three ways in which a step changes the call stack.                  *)

LEMMA StackTop ==
    ASSUME NEW s, CallStack(s), Len(s) > 0
    PROVE  /\ Len(s) \in Nat \ {0} /\ Last(s) = s[Len(s)] /\ s[Len(s)] \in Frames
           /\ Last(s) = "FraudANI" <=> Len(s) <= 1
           /\ Len(s) > 1 => <<s[Len(s) - 1], Last(s)>> \in MayCall
<1>1. s \in Seq(Frames) /\ Len(s) \in Nat \ {0} /\ Last(s) = s[Len(s)]
    BY DEF CallStack, Last
<1>2. s[Len(s)] \in Frames
    BY <1>1
<1>3. Len(s) > 1 => <<s[Len(s) - 1], s[Len(s)]>> \in MayCall
    BY <1>1 DEF CallStack
<1>4. Len(s) > 1 => s[Len(s)] # "FraudANI"
    BY <1>3 DEF MayCall
<1>5. Len(s) <= 1 => s[Len(s)] = "FraudANI"
    BY <1>1 DEF CallStack
<1>6. Len(s) > 1 => <<s[Len(s) - 1], Last(s)>> \in MayCall
    BY <1>1, <1>3
<1>7. Last(s) = "FraudANI" <=> Len(s) <= 1
    BY <1>1, <1>4, <1>5 DEF Last
<1>8. QED
    BY <1>1, <1>2, <1>6, <1>7, Zenon

LEMMA StackLevels ==
    ASSUME NEW s, CallStack(s), Len(s) > 0
    PROVE  LET top == s[Len(s)]
               caller == s[Len(s) - 1]
               InConnect == {"Connect", "Sentinel", "Dial", "Connected"}
           IN  /\ top = "Command" =>
                    /\ Len(s) > 1 /\ caller \in {"FraudANI", "Authenticate"}
                    /\ caller = "FraudANI" <=> Len(s) <= 2
               /\ top \in InConnect => Len(s) > 2 /\ caller = "Command"
               /\ top = "Authenticate" => Len(s) > 3 /\ caller = "Connected"
               /\ 1 < Len(s) /\ Len(s) < 3 => top = "Command"
               /\ 2 < Len(s) /\ Len(s) < 4 => top \in InConnect
               /\ 3 < Len(s) /\ Len(s) < 5 => top = "Authenticate"
               /\ 4 < Len(s) /\ Len(s) < 6 => top = "Command"
               /\ 5 < Len(s) /\ Len(s) < 7 => top \in InConnect
<1>1. Len(s) \in Nat /\ s[1] = "FraudANI"
    BY DEF CallStack
<1>2. ASSUME NEW i \in 2..Len(s)
      PROVE  /\ s[i] = "Command" => s[i - 1] \in {"FraudANI", "Authenticate"}
             /\ s[i] \in {"Connect", "Sentinel", "Dial", "Connected"} => s[i - 1] = "Command"
             /\ s[i] = "Authenticate" => s[i - 1] = "Connected"
             /\ s[i] # "FraudANI"
             /\ s[i - 1] \in {"FraudANI", "Authenticate"} => s[i] = "Command"
             /\ s[i - 1] = "Command" => s[i] \in {"Connect", "Sentinel", "Dial", "Connected"}
             /\ s[i - 1] = "Connected" => s[i] = "Authenticate"
             /\ s[i - 1] \notin {"Connect", "Sentinel", "Dial"}
  <2>1. <<s[i - 1], s[i]>> \in MayCall
    BY DEF CallStack
  <2>2. QED
    BY <2>1 DEF MayCall
<1>3. Len(s) >= 2 => s[2] = "Command"
    BY <1>1, <1>2
<1>4. Len(s) >= 3 => s[3] \in {"Connect", "Sentinel", "Dial", "Connected"}
    BY <1>1, <1>2, <1>3
<1>5. Len(s) >= 4 => s[4] = "Authenticate"
    BY <1>1, <1>2, <1>4
<1>6. Len(s) >= 5 => s[5] = "Command"
    BY <1>1, <1>2, <1>5
<1>7. Len(s) >= 6 => s[6] \in {"Connect", "Sentinel", "Dial", "Connected"}
    BY <1>1, <1>2, <1>6
<1>8. CASE Len(s) <= 1
    BY <1>1, <1>8
<1>9. CASE Len(s) > 1
  <2>1. Len(s) \in 2..Len(s)
    BY <1>1, <1>9
  <2>2. Len(s) > 2 => Len(s) - 1 \in 2..Len(s)
    BY <1>1, <1>9
  <2>3. Len(s) <= 2 => s[Len(s) - 1] = "FraudANI" /\ s[Len(s)] = "Command"
    BY <1>1, <1>3, <1>9
  <2>4. Len(s) > 2 => s[Len(s) - 1] # "FraudANI"
    BY <1>2, <2>2
  <2>5. s[Len(s)] = "Authenticate" => Len(s) > 3
    BY <1>1, <1>2, <1>3, <1>4, <1>9, <2>1, <2>2
  <2>6. /\ s[Len(s)] = "Command" => s[Len(s) - 1] \in {"FraudANI", "Authenticate"}
        /\ s[Len(s)] \in {"Connect", "Sentinel", "Dial", "Connected"} => s[Len(s) - 1] = "Command"
        /\ s[Len(s)] = "Authenticate" => s[Len(s) - 1] = "Connected"
    BY <1>2, <2>1
  <2>7. /\ 1 < Len(s) /\ Len(s) < 3 => s[Len(s)] = "Command"
        /\ 2 < Len(s) /\ Len(s) < 4 => s[Len(s)] \in {"Connect", "Sentinel", "Dial", "Connected"}
        /\ 3 < Len(s) /\ Len(s) < 5 => s[Len(s)] = "Authenticate"
        /\ 4 < Len(s) /\ Len(s) < 6 => s[Len(s)] = "Command"
        /\ 5 < Len(s) /\ Len(s) < 7 => s[Len(s)] \in {"Connect", "Sentinel", "Dial", "Connected"}
    BY <1>1, <1>3, <1>4, <1>5, <1>6, <1>7
  <2>8. QED
    BY ONLY <1>1, <1>9, <2>3, <2>4, <2>5, <2>6, <2>7
<1>10. QED
    BY <1>1, <1>8, <1>9

LEMMA ReturnStack ==
    ASSUME NEW s, CallStack(s), Len(s) > 0
    PROVE  /\ CallStack(Front(s)) /\ Len(Front(s)) = Len(s) - 1
           /\ \A i \in 1..(Len(s) - 1) : Front(s)[i] = s[i]
           /\ Len(s) > 1 => Last(Front(s)) = s[Len(s) - 1]
<1>1. /\ s \in Seq(Frames) /\ Len(s) \in Nat \ {0}
      /\ \A i \in 1..(Len(s) - 1) : s[i] \in Frames
    BY DEF CallStack
<1>2. /\ Front(s) \in Seq(Frames) /\ Len(Front(s)) = Len(s) - 1
      /\ \A i \in 1..(Len(s) - 1) : Front(s)[i] = s[i]
    BY <1>1, FrontProperties
<1>3. QED
  <2>1. Len(Front(s)) > 0 => Front(s)[1] = "FraudANI"
    BY <1>1, <1>2 DEF CallStack
  <2>2. \A i \in 2..Len(Front(s)) : <<Front(s)[i - 1], Front(s)[i]>> \in MayCall
    <3>1. TAKE i \in 2..Len(Front(s))
    <3>2. <<s[i - 1], s[i]>> \in MayCall
        BY <1>1, <1>2 DEF CallStack
    <3>3. Front(s)[i] = s[i] /\ Front(s)[i - 1] = s[i - 1]
        BY <1>1, <1>2
    <3>4. QED
        BY <3>2, <3>3
  <2>3. CallStack(Front(s))
    BY <1>2, <2>1, <2>2 DEF CallStack
  <2>4. Len(s) > 1 => Last(Front(s)) = s[Len(s) - 1]
    BY <1>1, <1>2 DEF Last
  <2>5. QED
    BY <1>2, <2>3, <2>4

LEMMA GotoStack ==
    ASSUME NEW s, CallStack(s), Len(s) > 0, Last(s) \in {"Connect", "Sentinel"},
           NEW pc \in {"Sentinel", "Dial"}
    PROVE  /\ CallStack(Append(Front(s), pc)) /\ Len(s) > 2
           /\ Len(Append(Front(s), pc)) = Len(s)
           /\ Last(Append(Front(s), pc)) = pc
<1> DEFINE g == Append(Front(s), pc)
<1>1. Len(s) > 1 /\ s[Len(s) - 1] = "Command"
    BY StackTop DEF MayCall, CallStack
<1>2. /\ g \in Seq(Frames) /\ Len(g) = Len(s) /\ g[Len(s)] = pc
      /\ \A i \in 1..(Len(s) - 1) : g[i] = s[i]
    BY <1>1, ReturnStack DEF Frames, CallStack
<1>3. CallStack(g)
    BY <1>1, <1>2 DEF CallStack, MayCall
<1>4. Len(s) > 2
    BY <1>1 DEF CallStack
<1>5. QED
    BY <1>1, <1>2, <1>3, <1>4 DEF Last

LEMMA DialStack ==
    ASSUME NEW s, CallStack(s), Len(s) > 0, Last(s) = "Dial"
    PROVE  LET d == Front(s) \o <<"Connected", "Authenticate", "Command", "Connect">>
           IN  /\ CallStack(d) /\ Len(s) >= 3
               /\ Len(d) = Len(s) + 3 /\ Last(d) = "Connect"
<1> DEFINE new == <<"Connected", "Authenticate", "Command", "Connect">>
           d == Front(s) \o new
<1>1. Len(s) > 1 /\ s[Len(s) - 1] = "Command"
    BY StackTop DEF MayCall, CallStack
<1>2. new \in Seq(Frames) /\ Len(new) = 4
    BY DEF Frames
<1>3. /\ d \in Seq(Frames) /\ Len(d) = Len(s) + 3
      /\ \A i \in 1..(Len(s) - 1) : d[i] = s[i]
      /\ \A i \in Len(s)..(Len(s) + 3) : d[i] = new[i - Len(s) + 1]
  <2>1. /\ Front(s) \in Seq(Frames) /\ Len(Front(s)) = Len(s) - 1
        /\ \A i \in 1..(Len(s) - 1) : Front(s)[i] = s[i]
    BY ReturnStack DEF CallStack
  <2>2. QED
    BY <1>1, <1>2, <2>1, ConcatProperties
<1>4. Len(s) >= 3
    BY <1>1 DEF CallStack
<1>5. CallStack(d)
  <2>1. d[1] = "FraudANI"
    BY <1>1, <1>3 DEF CallStack
  <2>2. ASSUME NEW i \in 2..Len(d) PROVE <<d[i - 1], d[i]>> \in MayCall
    <3>1. CASE i < Len(s)
      <4>1. d[i] = s[i] /\ d[i - 1] = s[i - 1]
        BY <3>1, <1>3
      <4>2. <<s[i - 1], s[i]>> \in MayCall
        BY <3>1 DEF CallStack
      <4>3. QED
        BY <4>1, <4>2, Zenon
    <3>2. CASE i = Len(s)
        BY <3>2, <1>1, <1>3 DEF MayCall
    <3>3. CASE i > Len(s)
      <4>1. PICK k \in 1..3 : i = Len(s) + k
        BY <3>3, <1>1, <1>3, SMTT(30)
      <4>2. d[i] = new[k + 1] /\ d[i - 1] = new[k]
        BY <4>1, <1>1, <1>3
      <4>3. <<new[k], new[k + 1]>> \in MayCall
        BY <4>1 DEF MayCall
      <4>4. QED
        BY <4>2, <4>3, Zenon
    <3>4. i < Len(s) \/ i = Len(s) \/ i > Len(s)
        BY <1>1, <1>3
    <3>5. QED
        BY <3>1, <3>2, <3>3, <3>4, Zenon
  <2>3. QED
    BY <2>1, <2>2, <1>3 DEF CallStack
<1>6. QED
    BY <1>1, <1>3, <1>4, <1>5 DEF Last

(* The same for the depths n and m and the innermost calls top and t       *)
(* before and after.                                                       *)
Returns(n, m, top, t) ==
    /\ n \in Nat /\ m \in Nat /\ top \in Frames
    /\ n > 0 /\ m = n - 1
    /\ top = "Command" =>
        /\ n > 1 /\ t \in {"FraudANI", "Authenticate"}
        /\ t = "FraudANI" <=> n <= 2
    /\ top \in {"Connect", "Sentinel", "Dial", "Connected"} => n > 2 /\ t = "Command"
    /\ top = "Authenticate" => n > 3 /\ t = "Connected"
    /\ n = 4 => top = "Authenticate"
    /\ n = 5 => top = "Command"
    /\ n = 6 => top # "Command"

LEMMA Returned ==
    ASSUME NEW s, NEW r, CallStack(s), s # <<>>, r = Front(s)
    PROVE  /\ CallStack(r)
           /\ \E n, m, top, t :
                /\ n = Len(s) /\ top = s[Len(s)] /\ m = Len(r) /\ t = r[Len(r)]
                /\ Last(s) = top
                /\ top = "Command" => t = s[Len(s) - 1]
                /\ Returns(n, m, top, t)
<1>1. s \in Seq(Frames) /\ Len(s) > 0
    BY DEF CallStack
<1>2. /\ Len(s) \in Nat \ {0} /\ s[Len(s)] \in Frames /\ Last(s) = s[Len(s)]
    BY <1>1, StackTop
<1>3. CallStack(r) /\ Len(r) = Len(s) - 1
    BY ONLY <1>1, CallStack(s), r = Front(s), ReturnStack, Zenon
<1>4. Len(s) > 1 => r[Len(r)] = s[Len(s) - 1]
    BY ONLY <1>1, <1>2, <1>3, CallStack(s), r = Front(s), ReturnStack
<1>5. \E n, m, top, t : n = Len(s) /\ m = Len(r) /\ top = s[Len(s)] /\ t = r[Len(r)]
    BY Zenon
<1>6. PICK n, m, top, t : n = Len(s) /\ m = Len(r) /\ top = s[Len(s)] /\ t = r[Len(r)]
    BY <1>5, Zenon
<1>7. n \in Nat /\ m \in Nat /\ top \in Frames /\ n > 0 /\ m = n - 1 /\ Last(s) = top
    BY ONLY <1>2, <1>3, <1>6 DEF Last
<1>8. top = "Command" =>
        /\ n > 1 /\ s[Len(s) - 1] \in {"FraudANI", "Authenticate"}
        /\ s[Len(s) - 1] = "FraudANI" <=> n <= 2
    BY ONLY <1>1, <1>6, CallStack(s), StackLevels, Zenon
<1>9. /\ top \in {"Connect", "Sentinel", "Dial", "Connected"} =>
            n > 2 /\ s[Len(s) - 1] = "Command"
      /\ top = "Authenticate" => n > 3 /\ s[Len(s) - 1] = "Connected"
    BY ONLY <1>1, <1>6, CallStack(s), StackLevels, Zenon
<1>10. /\ n > 3 /\ n < 5 => top = "Authenticate"
       /\ n > 4 /\ n < 6 => top = "Command"
       /\ n > 5 /\ n < 7 => top \in {"Connect", "Sentinel", "Dial", "Connected"}
    BY ONLY <1>1, <1>6, CallStack(s), StackLevels, Zenon
<1>11. n > 1 => t = s[Len(s) - 1]
    BY ONLY <1>4, <1>6, Zenon
<1>12. /\ n > 2 => n > 1
       /\ n > 3 => n > 1
       /\ n = 4 => n > 3 /\ n < 5
       /\ n = 5 => n > 4 /\ n < 6
       /\ n = 6 => n > 5 /\ n < 7
    BY ONLY <1>7
<1>13. Returns(n, m, top, t)
    BY ONLY <1>7, <1>8, <1>9, <1>10, <1>11, <1>12, Zenon DEF Returns
<1>14. top = "Command" => t = s[Len(s) - 1]
    BY ONLY <1>8, <1>11, Zenon
<1>15. QED
    BY ONLY <1>3, <1>6, <1>7, <1>13, <1>14, Zenon

LEMMA Moved ==
    ASSUME NEW s, NEW r, CallStack(s), s # <<>>, Last(s) \in {"Connect", "Sentinel"},
           NEW pc \in {"Sentinel", "Dial"}, r = Append(Front(s), pc)
    PROVE  /\ CallStack(r)
           /\ \E n \in Nat :
                /\ n = Len(s) /\ n = Len(r) /\ n > 2 /\ n # 4 /\ n # 5
                /\ Last(s) = s[Len(s)] /\ pc = r[Len(r)]
<1>1. s \in Seq(Frames) /\ Len(s) > 0
    BY DEF CallStack
<1>2. Len(s) \in Nat /\ Last(s) = s[Len(s)]
    BY <1>1, StackTop
<1>3. CallStack(r) /\ Len(s) > 2 /\ Len(r) = Len(s) /\ Last(r) = pc
    BY ONLY <1>1, CallStack(s), Last(s) \in {"Connect", "Sentinel"},
            pc \in {"Sentinel", "Dial"}, r = Append(Front(s), pc), GotoStack, Zenon
<1>4. pc = r[Len(r)]
    BY ONLY <1>3, Zenon DEF Last
<1>5. /\ 3 < Len(s) /\ Len(s) < 5 => s[Len(s)] = "Authenticate"
      /\ 4 < Len(s) /\ Len(s) < 6 => s[Len(s)] = "Command"
    BY ONLY <1>1, CallStack(s), StackLevels, Zenon
<1>6. s[Len(s)] # "Authenticate" /\ s[Len(s)] # "Command"
    BY ONLY <1>2, Last(s) \in {"Connect", "Sentinel"}, Zenon
<1>7. ~(3 < Len(s) /\ Len(s) < 5) /\ ~(4 < Len(s) /\ Len(s) < 6)
    BY ONLY <1>5, <1>6, Zenon
<1>8. PICK n : n = Len(s)
    BY Zenon
<1>9. n \in Nat /\ n > 2 /\ ~(3 < n /\ n < 5) /\ ~(4 < n /\ n < 6)
    BY ONLY <1>2, <1>3, <1>7, <1>8
<1>10. n # 4 /\ n # 5
    BY ONLY <1>9
<1>11. QED
    BY ONLY <1>2, <1>3, <1>4, <1>8, <1>9, <1>10, Zenon

LEMMA Dialled ==
    ASSUME NEW s, NEW r, CallStack(s), s # <<>>, Last(s) = "Dial",
           r = Front(s) \o <<"Connected", "Authenticate", "Command", "Connect">>
    PROVE  /\ CallStack(r)
           /\ \E n \in Nat, m \in Nat :
                /\ n = Len(s) /\ m = Len(r) /\ n > 2 /\ m = n + 3 /\ n # 4 /\ n # 5
                /\ s[Len(s)] = "Dial" /\ r[Len(r)] = "Connect"
<1>1. s \in Seq(Frames) /\ Len(s) > 0
    BY DEF CallStack
<1>2. Len(s) \in Nat /\ s[Len(s)] = "Dial"
    BY <1>1, StackTop
<1>3. CallStack(r) /\ Len(s) >= 3 /\ Len(r) = Len(s) + 3 /\ Last(r) = "Connect"
    BY ONLY <1>1, CallStack(s), Last(s) = "Dial", DialStack, Zenon,
            r = Front(s) \o <<"Connected", "Authenticate", "Command", "Connect">>
<1>4. r[Len(r)] = "Connect"
    BY ONLY <1>3, Zenon DEF Last
<1>5. /\ 3 < Len(s) /\ Len(s) < 5 => s[Len(s)] = "Authenticate"
      /\ 4 < Len(s) /\ Len(s) < 6 => s[Len(s)] = "Command"
    BY ONLY <1>1, CallStack(s), StackLevels, Zenon
<1>6. s[Len(s)] # "Authenticate" /\ s[Len(s)] # "Command"
    BY ONLY <1>2
<1>7. ~(3 < Len(s) /\ Len(s) < 5) /\ ~(4 < Len(s) /\ Len(s) < 6)
    BY ONLY <1>5, <1>6, Zenon
<1>8. PICK n, m : n = Len(s) /\ m = Len(r)
    BY Zenon
<1>9. /\ n \in Nat /\ n > 2 /\ m = n + 3 /\ m \in Nat
      /\ ~(3 < n /\ n < 5) /\ ~(4 < n /\ n < 6)
    BY ONLY <1>2, <1>3, <1>7, <1>8
<1>10. n # 4 /\ n # 5
    BY ONLY <1>9
<1>11. QED
    BY ONLY <1>2, <1>3, <1>4, <1>8, <1>9, <1>10, Zenon

LEMMA Stayed ==
    ASSUME NEW s, CallStack(s), s # <<>>, Last(s) = "Sentinel"
    PROVE  \E n \in Nat :
                /\ n = Len(s) /\ n > 2 /\ n # 4 /\ n # 5 /\ s[Len(s)] = "Sentinel"
<1>1. s \in Seq(Frames) /\ Len(s) > 0
    BY DEF CallStack
<1>2. Len(s) \in Nat /\ s[Len(s)] = "Sentinel"
    BY <1>1, StackTop
<1>3. Len(s) > 2
    BY ONLY <1>1, <1>2, CallStack(s), StackLevels, Zenon
<1>5. /\ 3 < Len(s) /\ Len(s) < 5 => s[Len(s)] = "Authenticate"
      /\ 4 < Len(s) /\ Len(s) < 6 => s[Len(s)] = "Command"
    BY ONLY <1>1, CallStack(s), StackLevels, Zenon
<1>6. s[Len(s)] # "Authenticate" /\ s[Len(s)] # "Command"
    BY ONLY <1>2
<1>7. ~(3 < Len(s) /\ Len(s) < 5) /\ ~(4 < Len(s) /\ Len(s) < 6)
    BY ONLY <1>5, <1>6, Zenon
<1>8. PICK n : n = Len(s)
    BY Zenon
<1>9. n \in Nat /\ n > 2 /\ ~(3 < n /\ n < 5) /\ ~(4 < n /\ n < 6)
    BY ONLY <1>2, <1>3, <1>7, <1>8
<1>10. n # 4 /\ n # 5
    BY ONLY <1>9
<1>11. QED
    BY ONLY <1>2, <1>8, <1>9, <1>10, Zenon

-----------------------------------------------------------------------------
(* What a step has to show, with the sequences out of the way.             *)

LEMMA ReturnCase ==
    ASSUME IInv, stack # <<>>, Return
    PROVE  \E n, m, top, t :
            /\ Returns(n, m, top, t) /\ At(n, top)
            /\ Top = top
            /\ top = "Command" => Caller = t
            /\ Scalars' /\ Contexts' /\ At(m, t)' => IInv'
<1>1. CallStack(stack) /\ stack' = Front(stack)
    BY DEF IInv, Return
<1>2. CallStack(stack')
    BY <1>1, Returned, Zenon
<1>3. PICK n, m, top, t :
        /\ n = Len(stack) /\ top = stack[Len(stack)]
        /\ m = Len(stack') /\ t = stack'[Len(stack')]
        /\ Last(stack) = top
        /\ top = "Command" => t = stack[Len(stack) - 1]
        /\ Returns(n, m, top, t)
    BY <1>1, Returned, ZenonT(30)
<1>4. At(n, top)
    BY <1>3, Zenon DEF IInv
<1>5. ASSUME Scalars', Contexts', At(m, t)' PROVE IInv'
    BY <1>2, <1>3, <1>5, Zenon DEF IInv
<1>6. QED
    BY <1>3, <1>4, <1>5, Zenon DEF Top, Caller

LEMMA MoveCase ==
    ASSUME IInv, stack # <<>>, Top \in {"Connect", "Sentinel"},
           NEW pc \in {"Sentinel", "Dial"}, Goto(pc)
    PROVE  \E n \in Nat :
            /\ n > 2 /\ n # 4 /\ n # 5 /\ At(n, Top)
            /\ Scalars' /\ Contexts' /\ At(n, pc)' => IInv'
<1>1. CallStack(stack) /\ stack' = Append(Front(stack), pc) /\ Last(stack) \in {"Connect", "Sentinel"}
    BY DEF IInv, Goto, Top
<1>2. CallStack(stack')
    BY <1>1, Moved, Zenon
<1>3. PICK n \in Nat :
        /\ n = Len(stack) /\ n = Len(stack') /\ n > 2 /\ n # 4 /\ n # 5
        /\ Last(stack) = stack[Len(stack)] /\ pc = stack'[Len(stack')]
    BY <1>1, Moved, Zenon
<1>4. At(n, Top)
    BY <1>3, Zenon DEF IInv, Top
<1>5. ASSUME Scalars', Contexts', At(n, pc)' PROVE IInv'
    BY <1>2, <1>3, <1>5, Zenon DEF IInv
<1>6. QED
    BY <1>3, <1>4, <1>5, Zenon

LEMMA DialCase ==
    ASSUME IInv, AtDial,
           stack' = Front(stack) \o <<"Connected", "Authenticate", "Command", "Connect">>
    PROVE  \E n \in Nat, m \in Nat :
            /\ n > 2 /\ m = n + 3 /\ n # 4 /\ n # 5 /\ At(n, "Dial")
            /\ Scalars' /\ Contexts' /\ At(m, "Connect")' => IInv'
<1>1. CallStack(stack) /\ stack # <<>> /\ Last(stack) = "Dial"
    BY DEF IInv, AtDial, Top
<1>2. CallStack(stack')
    BY <1>1, Dialled, Zenon
<1>3. PICK n \in Nat, m \in Nat :
        /\ n = Len(stack) /\ m = Len(stack') /\ n > 2 /\ m = n + 3 /\ n # 4 /\ n # 5
        /\ stack[Len(stack)] = "Dial" /\ stack'[Len(stack')] = "Connect"
    BY <1>1, Dialled, Zenon
<1>4. At(n, "Dial")
    BY <1>3, Zenon DEF IInv
<1>5. ASSUME Scalars', Contexts', At(m, "Connect")' PROVE IInv'
    BY <1>2, <1>3, <1>5, Zenon DEF IInv
<1>6. QED
    BY <1>3, <1>4, <1>5, Zenon

LEMMA StayCase ==
    ASSUME IInv, AtSentinel, stack' = stack
    PROVE  \E n \in Nat :
            /\ n > 2 /\ n # 4 /\ n # 5 /\ At(n, "Sentinel")
            /\ Scalars' /\ Contexts' /\ At(n, "Sentinel")' => IInv'
<1>1. CallStack(stack) /\ stack # <<>> /\ Last(stack) = "Sentinel"
    BY DEF IInv, AtSentinel, Top
<1>2. PICK n \in Nat :
        n = Len(stack) /\ n > 2 /\ n # 4 /\ n # 5 /\ stack[Len(stack)] = "Sentinel"
    BY <1>1, Stayed, Zenon
<1>3. At(n, "Sentinel")
    BY <1>2, Zenon DEF IInv
<1>4. ASSUME Scalars', Contexts', At(n, "Sentinel")' PROVE IInv'
  <2>1. n = Len(stack') /\ stack'[Len(stack')] = "Sentinel" /\ CallStack(stack')
    BY <1>1, <1>2, Zenon
  <2>2. QED
    BY <1>4, <2>1, Zenon DEF IInv
<1>5. QED
    BY <1>2, <1>3, <1>4, Zenon

-----------------------------------------------------------------------------
(* Every step preserves the invariant.                                     *)

LEMMA ContextsNumbered == ASSUME Contexts PROVE DOMAIN ctx \subseteq Numbers
<1>1. ASSUME NEW d \in DOMAIN ctx PROVE d \in Numbers
  <2>1. DOMAIN ctx = abandoned \cup ({Context} \ {Null})
    BY Zenon DEF Contexts, LeaksKnown
  <2>2. d \in abandoned \/ (d = Context /\ d # Null)
    BY <2>1, Zenon
  <2>3. QED
    BY <2>2, Zenon DEF Contexts
<1>2. QED
    BY <1>1, Zenon

LEMMA AllocateContexts ==
    ASSUME Contexts, NEW err \in BOOLEAN, Allocate(err)
    PROVE  /\ nextCtx' = nextCtx + 1 /\ nextCtx \notin DOMAIN ctx
           /\ DOMAIN ctx' = DOMAIN ctx \cup {nextCtx}
           /\ ctx'[nextCtx] = [err |-> err, auth |-> FALSE]
           /\ \A c \in DOMAIN ctx : ctx'[c] = ctx[c]
           /\ \A c \in DOMAIN ctx' : ctx'[c] \in [err : BOOLEAN, auth : BOOLEAN]
<1>1. DOMAIN ctx \subseteq Numbers /\ nextCtx \in Nat \ {0}
    BY ContextsNumbered, Zenon DEF Contexts
<1>2. nextCtx \notin DOMAIN ctx
    BY <1>1 DEF Numbers
<1>3. /\ DOMAIN ctx' = DOMAIN ctx \cup {nextCtx}
      /\ ctx'[nextCtx] = [err |-> err, auth |-> FALSE]
      /\ \A c \in DOMAIN ctx : ctx'[c] = ctx[c]
    BY <1>2 DEF Allocate
<1>4. \A c \in DOMAIN ctx' : ctx'[c] \in [err : BOOLEAN, auth : BOOLEAN]
  <2>1. [err |-> err, auth |-> FALSE] \in [err : BOOLEAN, auth : BOOLEAN]
    OBVIOUS
  <2>2. QED
    BY <1>3, <2>1, Zenon DEF Contexts
<1>5. QED
    BY <1>2, <1>3, <1>4 DEF Allocate

LEMMA ConnectOpenIInv == IInv /\ ConnectOpen => IInv'
<1> SUFFICES ASSUME IInv, ConnectOpen PROVE IInv'
    OBVIOUS
<1>1. Scalars /\ Contexts
    BY DEF IInv
<1>2. PICK n, m, top, t :
        /\ Returns(n, m, top, t) /\ At(n, top)
        /\ Top = top
        /\ top = "Command" => Caller = t
        /\ Scalars' /\ Contexts' /\ At(m, t)' => IInv'
    BY ReturnCase, Zenon DEF ConnectOpen
<1>3. top = "Connect"
    BY <1>2, Zenon DEF ConnectOpen
<1>4. Scalars'
    BY ONLY <1>1, <1>2, <1>3, ConnectOpen DEF ConnectOpen, Scalars, RepliesFreed, At, ReplyInHand, Returns, Fault, Healthy
<1>5. Contexts'
    BY ONLY <1>1, <1>2, <1>3, ConnectOpen, RedisConnectionAssumption DEF ConnectOpen, Contexts, LeaksKnown, Numbers, At, Places, Healthy, Free, Allocate, Returns
<1>6. Places(m, t)'
    BY ONLY <1>1, <1>2, <1>3, ConnectOpen DEF ConnectOpen, Places, At, Returns, Healthy, Contexts
<1>7. ReplyInHand(m, t)'
    BY ONLY <1>1, <1>2, <1>3, ConnectOpen DEF ConnectOpen, ReplyInHand, At, Returns
<1>8. SentBefore(m)'
    BY ONLY <1>1, <1>2, <1>3, ConnectOpen DEF ConnectOpen, SentBefore, At, Returns, Sends
<1>9. Unfailing(m)'
    BY ONLY <1>1, <1>2, <1>3, ConnectOpen DEF ConnectOpen, Unfailing, At, Places, Returns, Fault, Healthy, Scalars, Contexts, LeaksKnown, Free, Allocate
<1>10. QED
    BY <1>2, <1>4, <1>5, <1>6, <1>7, <1>8, <1>9, Zenon DEF At

LEMMA NoMasterIInv == IInv /\ NoMaster => IInv'
<1> SUFFICES ASSUME IInv, NoMaster PROVE IInv'
    OBVIOUS
<1>1. Scalars /\ Contexts
    BY DEF IInv
<1>2. PICK n, m, top, t :
        /\ Returns(n, m, top, t) /\ At(n, top)
        /\ Top = top
        /\ top = "Command" => Caller = t
        /\ Scalars' /\ Contexts' /\ At(m, t)' => IInv'
    BY ReturnCase, Zenon DEF NoMaster
<1>3. top = "Sentinel"
    BY <1>2, Zenon DEF NoMaster
<1>4. Scalars'
    BY ONLY <1>1, <1>2, <1>3, NoMaster DEF NoMaster, Scalars, RepliesFreed, At, ReplyInHand, Returns, Fault, Healthy
<1>5. Contexts'
    BY ONLY <1>1, <1>2, <1>3, NoMaster, RedisConnectionAssumption DEF NoMaster, Contexts, LeaksKnown, Numbers, At, Places, Healthy, Free, Allocate, Returns
<1>6. Places(m, t)'
    BY ONLY <1>1, <1>2, <1>3, NoMaster DEF NoMaster, Places, At, Returns, Healthy, Contexts
<1>7. ReplyInHand(m, t)'
    BY ONLY <1>1, <1>2, <1>3, NoMaster DEF NoMaster, ReplyInHand, At, Returns
<1>8. SentBefore(m)'
    BY ONLY <1>1, <1>2, <1>3, NoMaster DEF NoMaster, SentBefore, At, Returns, Sends
<1>9. Unfailing(m)'
    BY ONLY <1>1, <1>2, <1>3, NoMaster DEF NoMaster, Unfailing, At, Places, Returns, Fault, Healthy, Scalars, Contexts, LeaksKnown, Free, Allocate
<1>10. QED
    BY <1>2, <1>4, <1>5, <1>6, <1>7, <1>8, <1>9, Zenon DEF At

LEMMA DialFailsIInv == IInv /\ DialFails => IInv'
<1> SUFFICES ASSUME IInv, DialFails PROVE IInv'
    OBVIOUS
<1>1. Scalars /\ Contexts
    BY DEF IInv
<1>2. PICK n, m, top, t :
        /\ Returns(n, m, top, t) /\ At(n, top)
        /\ Top = top
        /\ top = "Command" => Caller = t
        /\ Scalars' /\ Contexts' /\ At(m, t)' => IInv'
    BY ReturnCase, Zenon DEF DialFails, AtDial
<1>3. top = "Dial"
    BY <1>2, Zenon DEF DialFails, AtDial
<1>4. Scalars'
  <2>1. faults' \in Nat
    BY <1>1 DEF DialFails, Fault, Scalars
  <2>2. QED
    BY <1>1, <2>1, Zenon DEF DialFails, Scalars, RepliesFreed
<1>5. Contexts'
  <2>1. Context = Null /\ abandoned' = abandoned
    BY <1>2, <1>3 DEF DialFails, At, Places, Returns
  <2>2. CASE UNCHANGED <<Context, ctx, nextCtx>>
    BY ONLY <1>1, <2>1, <2>2 DEF Contexts, LeaksKnown, Numbers
  <2>3. CASE Allocate(TRUE) /\ Context' = nextCtx
    <3>1. /\ nextCtx' = nextCtx + 1
          /\ DOMAIN ctx' = DOMAIN ctx \cup {nextCtx}
          /\ \A c \in DOMAIN ctx' : ctx'[c] \in [err : BOOLEAN, auth : BOOLEAN]
        BY <1>1, <2>3, AllocateContexts
    <3>2. DOMAIN ctx = abandoned
        BY <1>1, <2>1, Zenon DEF Contexts, LeaksKnown
    <3>3. nextCtx # Null /\ nextCtx \notin abandoned
        BY <1>1, RedisConnectionAssumption DEF Contexts, Numbers
    <3>4. LeaksKnown'
        BY ONLY <2>1, <2>3, <3>1, <3>2, <3>3 DEF LeaksKnown
    <3>5. QED
        BY ONLY <1>1, <2>1, <2>3, <3>1, <3>3, <3>4 DEF Contexts, Numbers
  <2>4. QED
    BY <2>2, <2>3, Zenon DEF DialFails
<1>6. Places(m, t)'
    BY ONLY <1>1, <1>2, <1>3, DialFails DEF DialFails, Places, At, Returns, Healthy, Contexts, AtDial
<1>7. ReplyInHand(m, t)'
    BY ONLY <1>1, <1>2, <1>3, DialFails DEF DialFails, ReplyInHand, At, Returns, AtDial
<1>8. SentBefore(m)'
    BY ONLY <1>1, <1>2, <1>3, DialFails DEF DialFails, SentBefore, At, Returns, Sends, AtDial
<1>9. Unfailing(m)'
    BY ONLY <1>1, <1>2, <1>3, DialFails DEF DialFails, Unfailing, At, Places, Returns, Fault, Healthy, Scalars, Contexts, LeaksKnown, Free, Allocate, AtDial
<1>10. QED
    BY <1>2, <1>4, <1>5, <1>6, <1>7, <1>8, <1>9, Zenon DEF At

LEMMA AuthenticateIInv == IInv /\ Authenticate => IInv'
<1> SUFFICES ASSUME IInv, Authenticate PROVE IInv'
    OBVIOUS
<1>1. Scalars /\ Contexts
    BY DEF IInv
<1>2. PICK n, m, top, t :
        /\ Returns(n, m, top, t) /\ At(n, top)
        /\ Top = top
        /\ top = "Command" => Caller = t
        /\ Scalars' /\ Contexts' /\ At(m, t)' => IInv'
    BY ReturnCase, Zenon DEF Authenticate
<1>3. top = "Authenticate"
    BY <1>2, Zenon DEF Authenticate
<1>4. Scalars'
    BY ONLY <1>1, <1>2, <1>3, Authenticate DEF Authenticate, Scalars, RepliesFreed, At, ReplyInHand, Returns, Fault, Healthy
<1>5. Contexts'
    BY ONLY <1>1, <1>2, <1>3, Authenticate, RedisConnectionAssumption DEF Authenticate, Contexts, LeaksKnown, Numbers, At, Places, Healthy, Free, Allocate, Returns
<1>6. Places(m, t)'
    BY ONLY <1>1, <1>2, <1>3, Authenticate DEF Authenticate, Places, At, Returns, Healthy, Contexts
<1>7. ReplyInHand(m, t)'
    BY ONLY <1>1, <1>2, <1>3, Authenticate DEF Authenticate, ReplyInHand, At, Returns
<1>8. SentBefore(m)'
    BY ONLY <1>1, <1>2, <1>3, Authenticate DEF Authenticate, SentBefore, At, Returns, Sends
<1>9. Unfailing(m)'
    BY ONLY <1>1, <1>2, <1>3, Authenticate DEF Authenticate, Unfailing, At, Places, Returns, Fault, Healthy, Scalars, Contexts, LeaksKnown, Free, Allocate
<1>10. QED
    BY <1>2, <1>4, <1>5, <1>6, <1>7, <1>8, <1>9, Zenon DEF At

LEMMA ConnectedIInv == IInv /\ Connected => IInv'
<1> SUFFICES ASSUME IInv, Connected PROVE IInv'
    OBVIOUS
<1>1. Scalars /\ Contexts
    BY DEF IInv
<1>2. PICK n, m, top, t :
        /\ Returns(n, m, top, t) /\ At(n, top)
        /\ Top = top
        /\ top = "Command" => Caller = t
        /\ Scalars' /\ Contexts' /\ At(m, t)' => IInv'
    BY ReturnCase, Zenon DEF Connected
<1>3. top = "Connected"
    BY <1>2, Zenon DEF Connected
<1>4. Scalars'
    BY ONLY <1>1, <1>2, <1>3, Connected DEF Connected, Scalars, RepliesFreed, At, ReplyInHand, Returns, Fault, Healthy
<1>5. Contexts'
    BY ONLY <1>1, <1>2, <1>3, Connected, RedisConnectionAssumption DEF Connected, Contexts, LeaksKnown, Numbers, At, Places, Healthy, Free, Allocate, Returns
<1>6. Places(m, t)'
    BY ONLY <1>1, <1>2, <1>3, Connected DEF Connected, Places, At, Returns, Healthy, Contexts
<1>7. ReplyInHand(m, t)'
    BY ONLY <1>1, <1>2, <1>3, Connected DEF Connected, ReplyInHand, At, Returns
<1>8. SentBefore(m)'
    BY ONLY <1>1, <1>2, <1>3, Connected DEF Connected, SentBefore, At, Returns, Sends
<1>9. Unfailing(m)'
  <2>1. SUFFICES ASSUME faults' = 0
                 PROVE  /\ \A c \in DOMAIN ctx' : ~ctx'[c].err
                        /\ m >= 4 => Context' # Null
                        /\ m = 5 => ret'
                        /\ Context' # Null /\ ~ctx'[Context'].auth => m \in 5..6
    BY Zenon DEF Unfailing
  <2>2. ret /\ ret' = Healthy(Context) /\ Context' = Context /\ ctx' = ctx /\ faults = 0
    BY <1>2, <1>3, <2>1 DEF Connected, At, Places, Returns
  <2>3. /\ \A c \in DOMAIN ctx : ~ctx[c].err
        /\ n >= 4 => Context # Null
        /\ Context # Null /\ ~ctx[Context].auth => n \in 5..6
    BY <1>2, <2>2, Zenon DEF At, Unfailing
  <2>4. Context # Null => Context \in DOMAIN ctx
    BY <1>1, Zenon DEF Contexts, LeaksKnown
  <2>5. Context # Null => Healthy(Context)
    BY <2>3, <2>4, Zenon DEF Healthy
  <2>6. m = n - 1 /\ n # 5
    BY <1>2, <1>3 DEF Returns
  <2>7. /\ m >= 4 => n >= 4
        /\ m = 5 => n >= 4
        /\ n \in 5..6 => m \in 5..6
    BY ONLY <1>2, <2>6 DEF Returns
  <2>8. QED
    BY ONLY <2>2, <2>3, <2>5, <2>7, Zenon
<1>10. QED
    BY <1>2, <1>4, <1>5, <1>6, <1>7, <1>8, <1>9, Zenon DEF At

LEMMA CommandUnconnectedIInv == IInv /\ CommandUnconnected => IInv'
<1> SUFFICES ASSUME IInv, CommandUnconnected PROVE IInv'
    OBVIOUS
<1>1. Scalars /\ Contexts
    BY DEF IInv
<1>2. PICK n, m, top, t :
        /\ Returns(n, m, top, t) /\ At(n, top)
        /\ Top = top
        /\ top = "Command" => Caller = t
        /\ Scalars' /\ Contexts' /\ At(m, t)' => IInv'
    BY ReturnCase, Zenon DEF CommandUnconnected, AtCommand
<1>3. top = "Command"
    BY <1>2, Zenon DEF CommandUnconnected, AtCommand
<1>4. Scalars'
    BY ONLY <1>1, <1>2, <1>3, CommandUnconnected DEF CommandUnconnected, Scalars, RepliesFreed, At, ReplyInHand, Returns, Fault, Sends, AtCommand
<1>5. Contexts'
    BY ONLY <1>1, <1>2, <1>3, CommandUnconnected, RedisConnectionAssumption DEF CommandUnconnected, Contexts, LeaksKnown, Numbers, At, Places, Healthy, Free, Allocate, Returns, AtCommand
<1>6. Places(m, t)'
    BY ONLY <1>1, <1>2, <1>3, CommandUnconnected DEF CommandUnconnected, Places, At, Returns, Healthy, Contexts, AtCommand
<1>7. ReplyInHand(m, t)'
    BY ONLY <1>1, <1>2, <1>3, CommandUnconnected DEF CommandUnconnected, ReplyInHand, At, Returns, AtCommand
<1>8. SentBefore(m)'
    BY ONLY <1>1, <1>2, <1>3, CommandUnconnected DEF CommandUnconnected, SentBefore, At, Returns, Sends, AtCommand
<1>9. Unfailing(m)'
    BY ONLY <1>1, <1>2, <1>3, CommandUnconnected DEF CommandUnconnected, Unfailing, At, Places, Returns, Fault, Healthy, Scalars, Contexts, LeaksKnown, Free, Allocate, AtCommand
<1>10. QED
    BY <1>2, <1>4, <1>5, <1>6, <1>7, <1>8, <1>9, Zenon DEF At

LEMMA CommandLostIInv == IInv /\ CommandLost => IInv'
<1> SUFFICES ASSUME IInv, CommandLost PROVE IInv'
    OBVIOUS
<1>1. Scalars /\ Contexts
    BY DEF IInv
<1>2. PICK n, m, top, t :
        /\ Returns(n, m, top, t) /\ At(n, top)
        /\ Top = top
        /\ top = "Command" => Caller = t
        /\ Scalars' /\ Contexts' /\ At(m, t)' => IInv'
    BY ReturnCase, Zenon DEF CommandLost, AtCommand
<1>3. top = "Command"
    BY <1>2, Zenon DEF CommandLost, AtCommand
<1>4. Scalars'
    BY ONLY <1>1, <1>2, <1>3, CommandLost DEF CommandLost, Scalars, RepliesFreed, At, ReplyInHand, Returns, Fault, Sends, AtCommand
<1>5. Contexts'
    BY ONLY <1>1, <1>2, <1>3, CommandLost, RedisConnectionAssumption DEF CommandLost, Contexts, LeaksKnown, Numbers, At, Places, Healthy, Free, Allocate, Returns, AtCommand
<1>6. Places(m, t)'
    BY ONLY <1>1, <1>2, <1>3, CommandLost DEF CommandLost, Places, At, Returns, Healthy, Contexts, AtCommand
<1>7. ReplyInHand(m, t)'
    BY ONLY <1>1, <1>2, <1>3, CommandLost DEF CommandLost, ReplyInHand, At, Returns, AtCommand
<1>8. SentBefore(m)'
    BY ONLY <1>1, <1>2, <1>3, CommandLost DEF CommandLost, SentBefore, At, Returns, Sends, AtCommand
<1>9. Unfailing(m)'
    BY ONLY <1>1, <1>2, <1>3, CommandLost DEF CommandLost, Unfailing, At, Places, Returns, Fault, Healthy, Scalars, Contexts, LeaksKnown, Free, Allocate, AtCommand
<1>10. QED
    BY <1>2, <1>4, <1>5, <1>6, <1>7, <1>8, <1>9, Zenon DEF At

LEMMA CommandReplyIInv == IInv /\ CommandReply => IInv'
<1> SUFFICES ASSUME IInv, CommandReply PROVE IInv'
    OBVIOUS
<1>1. Scalars /\ Contexts
    BY DEF IInv
<1>2. PICK n, m, top, t :
        /\ Returns(n, m, top, t) /\ At(n, top)
        /\ Top = top
        /\ top = "Command" => Caller = t
        /\ Scalars' /\ Contexts' /\ At(m, t)' => IInv'
    BY ReturnCase, Zenon DEF CommandReply, AtCommand
<1>3. top = "Command"
    BY <1>2, Zenon DEF CommandReply, AtCommand
<1>4. Scalars'
  <2>1. reply = Null
    BY <1>2, <1>3 DEF At, ReplyInHand
  <2>2. /\ faults' \in {faults, faults + 1} /\ sent' \in {sent, sent + 1}
        /\ reply' \in {"STATUS", "STRING", "ERROR"} /\ replies' = replies + 1
        /\ UNCHANGED <<ret, sentinel, calls, deletes>>
    <3>1. CASE Caller = "Authenticate"
        BY <3>1 DEF CommandReply, Fault, Sends
    <3>2. CASE Caller # "Authenticate"
        BY <3>2 DEF CommandReply, Fault, Sends
    <3>3. QED
        BY <3>1, <3>2, Zenon
  <2>3. QED
    BY ONLY <1>1, <2>1, <2>2, RedisConnectionAssumption DEF Scalars, RepliesFreed
<1>5. Contexts'
  <2>1. Context \in DOMAIN ctx
    BY <1>1, <1>2, <1>3 DEF CommandReply, Contexts, LeaksKnown, At, Places, Healthy, Returns
  <2>2. /\ \/ ctx' = ctx
           \/ ctx' = [ctx EXCEPT ![Context] = [err |-> @.err, auth |-> TRUE]]
        /\ nextCtx' = nextCtx /\ Context' = Context /\ abandoned' = abandoned
    BY Zenon DEF CommandReply
  <2>3. /\ DOMAIN ctx' = DOMAIN ctx
        /\ \A c \in DOMAIN ctx' : ctx'[c] \in [err : BOOLEAN, auth : BOOLEAN]
    <3>1. \A c \in DOMAIN ctx : ctx[c] \in [err : BOOLEAN, auth : BOOLEAN]
        BY <1>1, Zenon DEF Contexts
    <3>2. CASE ctx' = ctx
        BY <3>1, <3>2, Zenon
    <3>3. CASE ctx' = [ctx EXCEPT ![Context] = [err |-> @.err, auth |-> TRUE]]
        BY ONLY <2>1, <3>1, <3>3
    <3>4. QED
        BY <2>2, <3>2, <3>3, Zenon
  <2>4. QED
    BY ONLY <1>1, <2>2, <2>3 DEF Contexts, LeaksKnown, Numbers
<1>6. Places(m, t)'
    BY ONLY <1>1, <1>2, <1>3, CommandReply DEF CommandReply, Places, At, Returns, Healthy, Contexts, AtCommand
<1>7. ReplyInHand(m, t)'
    BY ONLY <1>1, <1>2, <1>3, CommandReply DEF CommandReply, ReplyInHand, At, Returns, AtCommand
<1>8. SentBefore(m)'
    BY ONLY <1>1, <1>2, <1>3, CommandReply DEF CommandReply, SentBefore, At, Returns, Sends, AtCommand
<1>9. Unfailing(m)'
    BY ONLY <1>1, <1>2, <1>3, CommandReply, SMTT(30) DEF CommandReply, Unfailing, At, Places, Returns, Fault, Healthy, Scalars, Contexts, LeaksKnown, Free, Allocate, AtCommand
<1>10. QED
    BY <1>2, <1>4, <1>5, <1>6, <1>7, <1>8, <1>9, Zenon DEF At

LEMMA ConnectAnewIInv == IInv /\ ConnectAnew => IInv'
<1> SUFFICES ASSUME IInv, ConnectAnew PROVE IInv'
    OBVIOUS
<1>1. Scalars /\ Contexts
    BY DEF IInv
<1>2. PICK n \in Nat :
        /\ n > 2 /\ n # 4 /\ n # 5 /\ At(n, "Connect")
        /\ Scalars' /\ Contexts' /\ At(n, "Sentinel")' => IInv'
    BY MoveCase, Zenon DEF ConnectAnew
<1>3. Scalars'
    BY ONLY <1>1, ConnectAnew, RedisConnectionAssumption DEF ConnectAnew, Scalars, RepliesFreed
<1>4. Contexts'
  <2>1. CASE Context = Null
    BY ONLY <1>1, <2>1, ConnectAnew DEF ConnectAnew, Contexts, LeaksKnown, Numbers, Broken
  <2>2. CASE Broken(Context)
    BY ONLY <1>1, <2>2, ConnectAnew, RedisConnectionAssumption
       DEF ConnectAnew, Contexts, LeaksKnown, Numbers, Broken, Free
  <2>3. QED
    BY <2>1, <2>2, Zenon DEF ConnectAnew
<1>5. Places(n, "Sentinel")'
    BY DEF ConnectAnew, Places
<1>6. ReplyInHand(n, "Sentinel")'
    BY <1>2 DEF ConnectAnew, ReplyInHand, At
<1>7. SentBefore(n)'
    BY <1>2 DEF ConnectAnew, SentBefore, At
<1>8. Unfailing(n)'
    BY <1>1, <1>2 DEF ConnectAnew, Unfailing, At, Broken, Contexts, LeaksKnown
<1>9. QED
    BY <1>2, <1>3, <1>4, <1>5, <1>6, <1>7, <1>8, Zenon DEF At

LEMMA SentinelAnswersIInv == IInv /\ SentinelAnswers => IInv'
<1> SUFFICES ASSUME IInv, SentinelAnswers PROVE IInv'
    OBVIOUS
<1>1. Scalars /\ Contexts
    BY DEF IInv
<1>2. PICK n \in Nat :
        /\ n > 2 /\ n # 4 /\ n # 5 /\ At(n, "Sentinel")
        /\ Scalars' /\ Contexts' /\ At(n, "Dial")' => IInv'
    BY MoveCase, Zenon DEF SentinelAnswers, AtSentinel
<1>3. Scalars'
    BY <1>1, Zenon DEF SentinelAnswers, Scalars, RepliesFreed
<1>4. Contexts'
    BY <1>1, Zenon DEF SentinelAnswers, Contexts, LeaksKnown, Numbers
<1>5. At(n, "Dial")'
    BY ONLY <1>2, SentinelAnswers
       DEF SentinelAnswers, At, Places, ReplyInHand, SentBefore, Unfailing
<1>6. QED
    BY <1>2, <1>3, <1>4, <1>5, Zenon

LEMMA SentinelFailsIInv == IInv /\ SentinelFails => IInv'
<1> SUFFICES ASSUME IInv, SentinelFails PROVE IInv'
    OBVIOUS
<1>1. Scalars /\ Contexts
    BY DEF IInv
<1>2. PICK n \in Nat :
        /\ n > 2 /\ n # 4 /\ n # 5 /\ At(n, "Sentinel")
        /\ Scalars' /\ Contexts' /\ At(n, "Sentinel")' => IInv'
    BY StayCase, Zenon DEF SentinelFails
<1>3. faults' \in Nat /\ faults' # 0 /\ sentinel' \in 1..(NSentinels + 1)
    BY <1>1, RedisConnectionAssumption DEF SentinelFails, Scalars, Fault, AtSentinel
<1>4. Scalars'
    BY <1>1, <1>3, Zenon DEF SentinelFails, Scalars, RepliesFreed
<1>5. Contexts'
    BY <1>1, Zenon DEF SentinelFails, Contexts, LeaksKnown, Numbers
<1>6. At(n, "Sentinel")'
    BY ONLY <1>2, <1>3, SentinelFails
       DEF SentinelFails, At, Places, ReplyInHand, SentBefore, Unfailing
<1>7. QED
    BY <1>2, <1>4, <1>5, <1>6, Zenon

LEMMA SentinelRefusesIInv == IInv /\ SentinelRefuses => IInv'
<1> SUFFICES ASSUME IInv, SentinelRefuses PROVE IInv'
    OBVIOUS
<1>1. Scalars /\ Contexts
    BY DEF IInv
<1>2. PICK n \in Nat :
        /\ n > 2 /\ n # 4 /\ n # 5 /\ At(n, "Sentinel")
        /\ Scalars' /\ Contexts' /\ At(n, "Sentinel")' => IInv'
    BY StayCase, Zenon DEF SentinelRefuses
<1>3. faults' \in Nat /\ faults' # 0 /\ sentinel' \in 1..(NSentinels + 1)
    BY <1>1, RedisConnectionAssumption DEF SentinelRefuses, Scalars, Fault, AtSentinel
<1>4. Scalars'
    BY <1>1, <1>3, Zenon DEF SentinelRefuses, Scalars, RepliesFreed
<1>5. Contexts'
  <2>1. /\ nextCtx' = nextCtx + 1
        /\ DOMAIN ctx' = DOMAIN ctx \cup {nextCtx}
        /\ \A c \in DOMAIN ctx' : ctx'[c] \in [err : BOOLEAN, auth : BOOLEAN]
    BY <1>1, AllocateContexts DEF SentinelRefuses
  <2>2. Context = Null
    BY <1>2 DEF At, Places
  <2>3. DOMAIN ctx = abandoned
    BY <1>1, <2>2, Zenon DEF Contexts, LeaksKnown
  <2>4. Context' = Null /\ abandoned' = abandoned \cup {nextCtx}
    BY <2>2 DEF SentinelRefuses
  <2>5. QED
    BY ONLY <1>1, <2>1, <2>2, <2>3, <2>4, RedisConnectionAssumption
       DEF Contexts, LeaksKnown, Numbers
<1>6. At(n, "Sentinel")'
    BY ONLY <1>2, <1>3, SentinelRefuses
       DEF SentinelRefuses, At, Places, ReplyInHand, SentBefore, Unfailing
<1>7. QED
    BY <1>2, <1>4, <1>5, <1>6, Zenon

LEMMA DialIInv == IInv /\ Dial => IInv'
<1> SUFFICES ASSUME IInv, Dial PROVE IInv'
    OBVIOUS
<1>1. Scalars /\ Contexts
    BY DEF IInv
<1>2. PICK n \in Nat, m \in Nat :
        /\ n > 2 /\ m = n + 3 /\ n # 4 /\ n # 5 /\ At(n, "Dial")
        /\ Scalars' /\ Contexts' /\ At(m, "Connect")' => IInv'
    BY DialCase, Zenon DEF Dial
<1>3. PICK err \in BOOLEAN :
        Allocate(err) /\ IF err THEN faults' = faults + 1 ELSE faults' = faults
    BY Zenon DEF Dial, Fault
<1>4. faults' \in Nat /\ (err => faults' # 0) /\ (~err => faults' = faults)
    BY <1>1, <1>3 DEF Scalars
<1>5. Scalars'
    BY <1>1, <1>4, Zenon DEF Dial, Scalars, RepliesFreed
<1>6. /\ nextCtx' = nextCtx + 1
      /\ DOMAIN ctx' = DOMAIN ctx \cup {nextCtx}
      /\ ctx'[nextCtx] = [err |-> err, auth |-> FALSE]
      /\ \A c \in DOMAIN ctx : ctx'[c] = ctx[c]
      /\ \A c \in DOMAIN ctx' : ctx'[c] \in [err : BOOLEAN, auth : BOOLEAN]
    BY <1>1, <1>3, AllocateContexts
<1>7. Context = Null /\ Context' = nextCtx /\ abandoned' = abandoned
    BY <1>2 DEF At, Places, Dial
<1>8. nextCtx # Null /\ nextCtx \notin abandoned
    BY <1>1, RedisConnectionAssumption DEF Contexts, Numbers
<1>9. Contexts'
  <2>1. DOMAIN ctx = abandoned
    BY <1>1, <1>7, Zenon DEF Contexts, LeaksKnown
  <2>2. LeaksKnown'
    BY ONLY <1>6, <1>7, <1>8, <2>1 DEF LeaksKnown
  <2>3. QED
    BY ONLY <1>1, <1>6, <1>7, <1>8, <2>2 DEF Contexts, Numbers
<1>10. Places(m, "Connect")' /\ ReplyInHand(m, "Connect")' /\ SentBefore(m)'
    BY <1>2 DEF Dial, Places, ReplyInHand, SentBefore, At
<1>11. Unfailing(m)'
  <2>1. SUFFICES ASSUME faults' = 0
                 PROVE  /\ \A c \in DOMAIN ctx' : ~ctx'[c].err
                        /\ m >= 4 => Context' # Null
                        /\ m = 5 => ret'
                        /\ Context' # Null /\ ~ctx'[Context'].auth => m \in 5..6
    BY Zenon DEF Unfailing
  <2>2. ~err /\ faults = 0
    BY <1>4, <2>1
  <2>3. (\A c \in DOMAIN ctx : ~ctx[c].err) /\ n < 4
    BY <1>2, <1>7, <2>2 DEF At, Unfailing
  <2>4. \A c \in DOMAIN ctx' : ~ctx'[c].err
    BY ONLY <1>6, <2>2, <2>3
  <2>5. m \in 5..6 /\ m # 5
    BY ONLY <1>2, <2>3
  <2>6. QED
    BY ONLY <1>7, <1>8, <2>4, <2>5, Zenon
<1>12. QED
    BY <1>2, <1>5, <1>9, <1>10, <1>11, Zenon DEF At

(* With an empty stack, or only FraudANI on it, little can be disturbed.   *)
LEMMA FraudANIIInv == IInv /\ FraudANI => IInv'
<1> SUFFICES ASSUME IInv, FraudANI PROVE IInv'
    OBVIOUS
<1>1. Scalars /\ Contexts /\ At(0, stack[Len(stack)])
    BY DEF IInv, FraudANI
<1>2. stack' = <<"FraudANI", "Command", "Connect">>
    BY DEF FraudANI
<1>3. CallStack(stack') /\ Len(stack') = 3 /\ stack'[3] = "Connect"
    BY ONLY <1>2 DEF CallStack, Frames, MayCall
<1>4. Scalars'
    BY ONLY <1>1, FraudANI DEF FraudANI, Scalars, RepliesFreed
<1>5. Contexts'
    BY <1>1, Zenon DEF FraudANI, Contexts, LeaksKnown, Numbers
<1>6. At(3, "Connect")'
    BY ONLY <1>1, FraudANI DEF FraudANI, At, Places, ReplyInHand, SentBefore, Unfailing
<1>7. QED
    BY <1>3, <1>4, <1>5, <1>6, Zenon DEF IInv

LEMMA FraudANIDoneIInv == IInv /\ FraudANIDone => IInv'
<1> SUFFICES ASSUME IInv, FraudANIDone PROVE IInv'
    OBVIOUS
<1>1. Scalars /\ Contexts /\ At(1, "FraudANI")
    BY DEF IInv, FraudANIDone
<1>2. CallStack(stack') /\ Len(stack') = 0
    BY DEF FraudANIDone, CallStack, Frames
<1>3. Scalars'
    BY ONLY <1>1, FraudANIDone DEF FraudANIDone, Scalars, RepliesFreed
<1>4. Contexts'
    BY <1>1, Zenon DEF FraudANIDone, Contexts, LeaksKnown, Numbers
<1>5. ASSUME NEW t PROVE At(0, t)'
    BY ONLY <1>1, FraudANIDone DEF FraudANIDone, At, Places, ReplyInHand, SentBefore, Unfailing
<1>6. QED
    BY <1>2, <1>3, <1>4, <1>5, Zenon DEF IInv

LEMMA DeleteIInv == IInv /\ Delete => IInv'
<1> SUFFICES ASSUME IInv, Delete PROVE IInv'
    OBVIOUS
<1>1. Scalars /\ Contexts /\ CallStack(stack) /\ At(0, stack[Len(stack)])
    BY DEF IInv, Delete
<1>2. CallStack(stack') /\ Len(stack') = 0
    BY <1>1 DEF Delete
<1>3. Scalars'
    BY ONLY <1>1, Delete DEF Delete, Scalars, RepliesFreed
<1>4. Contexts'
  <2>1. Null \notin Numbers
    BY <1>1, RedisConnectionAssumption DEF Contexts, Numbers
  <2>2. /\ Context' = Null /\ abandoned' = abandoned \cup ({Context} \ {Null})
        /\ ctx' = ctx /\ nextCtx' = nextCtx /\ Numbers' = Numbers
    BY DEF Delete, Numbers
  <2>3. LeaksKnown'
    BY ONLY <1>1, <2>2, Zenon DEF Contexts, LeaksKnown
  <2>4. abandoned' \subseteq Numbers
    BY ONLY <1>1, <2>2 DEF Contexts
  <2>5. QED
    BY ONLY <1>1, <2>1, <2>2, <2>3, <2>4, Zenon DEF Contexts
<1>5. ASSUME NEW t PROVE At(0, t)'
    BY ONLY <1>1, Delete DEF Delete, At, Places, ReplyInHand, SentBefore, Unfailing
<1>6. QED
    BY <1>2, <1>3, <1>4, <1>5, Zenon DEF IInv

LEMMA InitIInv == Init => IInv
<1> SUFFICES ASSUME Init PROVE IInv
    OBVIOUS
<1>1. Scalars
  <2>1. 1 \in 1..(NSentinels + 1) /\ 0 \in Nat
    BY RedisConnectionAssumption
  <2>2. QED
    BY <2>1, Zenon DEF Init, Scalars, RepliesFreed
<1>2. Contexts
    BY RedisConnectionAssumption DEF Init, Contexts, LeaksKnown, Numbers
<1>3. CallStack(stack) /\ Len(stack) = 0
    BY DEF Init, CallStack, Frames
<1>4. ASSUME NEW t PROVE At(0, t)
    BY ONLY Init DEF Init, At, Places, ReplyInHand, SentBefore, Unfailing
<1>5. QED
    BY <1>1, <1>2, <1>3, <1>4, Zenon DEF IInv

LEMMA NextIInv == IInv /\ [Next]_vars => IInv'
<1> SUFFICES ASSUME IInv, [Next]_vars PROVE IInv'
    OBVIOUS
<1>1. CASE UNCHANGED vars
    BY <1>1, Zenon DEF vars, IInv, Scalars, RepliesFreed, Contexts, LeaksKnown, Numbers, CallStack,
           At, Places, ReplyInHand, SentBefore, Unfailing, Healthy
<1>2. CASE Next
    BY <1>2, FraudANIIInv, ConnectOpenIInv, ConnectAnewIInv, SentinelFailsIInv,
       SentinelRefusesIInv, SentinelAnswersIInv, NoMasterIInv, DialFailsIInv, DialIInv,
       AuthenticateIInv, ConnectedIInv, CommandUnconnectedIInv, CommandLostIInv,
       CommandReplyIInv, FraudANIDoneIInv, DeleteIInv, Zenon DEF Next
<1>3. QED
    BY <1>1, <1>2, Zenon

-----------------------------------------------------------------------------
(* Results.                                                                *)

(* The call stack, the contexts and the replies are related as IInv says   *)
(* in every reachable state, for any number of sentinels, calls, failures  *)
(* and deleted objects.                                                    *)
THEOREM Invariance == Spec => []IInv
<1>1. QED
    BY InitIInv, NextIInv, PTL DEF Spec

(* Command sends on an open context without error only, at whatever depth  *)
(* of Connect inside Connect; and evalsha on an authenticated one as long  *)
(* as nothing has failed.                                                  *)
THEOREM SendingSafe == Spec => []SendsOnHealthy
<1>1. IInv => SendsOnHealthy
  <2> SUFFICES ASSUME IInv PROVE SendsOnHealthy
    OBVIOUS
  <2>1. ContextOpen
    BY Zenon DEF IInv, Contexts, LeaksKnown, ContextOpen
  <2>2. ASSUME stack # <<>>, Top = "Command", ret
        PROVE  /\ Healthy(Context)
               /\ Caller = "FraudANI" /\ faults = 0 => ctx[Context].auth
    <3>1. CallStack(stack) /\ CallStack(Front(stack))
        BY <2>2, Returned, Zenon DEF IInv
    <3>2. PICK n, m, top, t :
            /\ n = Len(stack) /\ top = stack[Len(stack)]
            /\ Last(stack) = top
            /\ top = "Command" => t = stack[Len(stack) - 1]
            /\ Returns(n, m, top, t)
        BY <2>2, <3>1, Returned, Zenon
    <3>3. top = "Command" /\ t = Caller /\ At(n, top)
        BY <2>2, <3>2, Zenon DEF Top, Caller, IInv
    <3>4. n > 0 /\ (t = "FraudANI" => n <= 2)
        BY ONLY <3>2, <3>3, Zenon DEF Returns
    <3>5. Healthy(Context)
        BY <2>2, <3>3, <3>4, Zenon DEF At, Places
    <3>6. ASSUME Caller = "FraudANI", faults = 0 PROVE ctx[Context].auth
      <4>1. n \notin 5..6
        BY ONLY <3>2, <3>3, <3>4, <3>6
      <4>2. QED
        BY <3>3, <3>5, <3>6, <4>1, Zenon DEF At, Unfailing, Healthy
    <3>7. QED
        BY <3>5, <3>6, Zenon
  <2>3. QED
    BY <2>1, <2>2, Zenon DEF SendsOnHealthy
<1>2. QED
    BY <1>1, Invariance, PTL

(* Contexts and replies are freed where their last user leaves them: what  *)
(* is lost are the contexts of sentinels that refused and of objects that  *)
(* were deleted, and nothing else.                                         *)
THEOREM NothingElseLeaks == Spec => []Reclaimed
<1>1. IInv => Reclaimed
  <2> SUFFICES ASSUME IInv PROVE Reclaimed
    OBVIOUS
  <2>1. DOMAIN ctx \subseteq Numbers
    BY ContextsNumbered DEF IInv
  <2>2. /\ stack \in Seq(Frames)
        /\ \A i \in DOMAIN stack : stack[i] = "Command" =>
                i > 1 /\ stack[i - 1] \in {"FraudANI", "Authenticate"}
    <3>1. CallStack(stack)
        BY DEF IInv
    <3>2. stack \in Seq(Frames)
        BY <3>1 DEF CallStack
    <3>3. ASSUME NEW i \in 1..Len(stack), stack[i] = "Command"
          PROVE  i > 1 /\ stack[i - 1] \in {"FraudANI", "Authenticate"}
      <4>1. i > 1
        BY <3>1, <3>2, <3>3 DEF CallStack
      <4>2. <<stack[i - 1], stack[i]>> \in MayCall
        BY <3>1, <3>2, <3>3, <4>1 DEF CallStack
      <4>3. QED
        BY <3>3, <4>1, <4>2 DEF MayCall
    <3>4. DOMAIN stack = 1..Len(stack)
        BY <3>2
    <3>5. QED
        BY <3>2, <3>3, <3>4, Zenon
  <2>3. TypeOK
    BY <2>1, <2>2, Zenon DEF IInv, Scalars, Contexts, TypeOK
  <2>4. QED
    BY <2>3, Zenon DEF IInv, Scalars, Contexts, Reclaimed
<1>2. QED
    BY <1>1, Invariance, PTL

(* A call of FraudANI sends its script at most once, although Connect runs *)
(* Command for "auth" in the middle of Command and any call may fail.      *)
THEOREM ScriptSentOnce == Spec => []SentOnce
<1>1. IInv => SentOnce
    BY DEF IInv, At, SentBefore, SentOnce
<1>2. QED
    BY <1>1, Invariance, PTL
=============================================================================
