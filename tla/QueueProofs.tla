---------------------------- MODULE QueueProofs ----------------------------
(***************************************************************************)
(* For any threads, items, addresses and bounds: Queue keeps its pointers, *)
(* its allocations, its size and its semaphore consistent, never           *)
(* dereferences a null or freed head, keeps the items in order, and        *)
(* implements FifoChannel.                                                 *)
(***************************************************************************)
EXTENDS Queue, FiniteSetTheorems, SequenceTheorems, TLAPS

(* What travels is a value: the item of a thread in Add, and every linked  *)
(* entry's.                                                                *)
Payload ==
    /\ \A t \in Threads : pc[t] = "add_link" => arg[t] \in Values
    /\ \A i \in DOMAIN list : heap[list[i]].value \in Values

IInv ==
    /\ TypeOK
    /\ Payload
    /\ LockInv
    /\ ListShape
    /\ Allocation
    /\ Accounting
    /\ SizeAgrees
    /\ FifoOrder

-----------------------------------------------------------------------------
(* Counting threads.                                                       *)

(* When one thread moves, a count changes by what that thread contributes. *)
LEMMA CountMove ==
    ASSUME NEW p \in [Threads -> PC], NEW t \in Threads, NEW to \in PC,
           NEW where
    PROVE  /\ Count(p, where) \in Nat
           /\ Count([p EXCEPT ![t] = to], where) =
                Count(p, where) + (IF to \in where THEN 1 ELSE 0)
                                - (IF p[t] \in where THEN 1 ELSE 0)
           /\ p[t] \in where => Count(p, where) > 0
<1> DEFINE S == {u \in Threads : p[u] \in where}
           q == [p EXCEPT ![t] = to]
           R == {u \in Threads : q[u] \in where}
<1>1. IsFiniteSet(S) /\ IsFiniteSet(R)
    BY FS_Subset, QueueAssumption
<1>2. Cardinality(S) \in Nat /\ Cardinality(R) \in Nat
    BY <1>1, FS_CardinalityType
<1>3. S # {} => Cardinality(S) # 0
    BY <1>1, FS_EmptySet
<1>4. Cardinality(S \cup {t}) = IF t \in S THEN Cardinality(S) ELSE Cardinality(S) + 1
    BY <1>1, FS_AddElement
<1>5. Cardinality(S \ {t}) = IF t \in S THEN Cardinality(S) - 1 ELSE Cardinality(S)
    BY <1>1, FS_RemoveElement
<1>6. R = IF to \in where THEN S \cup {t} ELSE S \ {t}
    OBVIOUS
<1>7. t \in S <=> p[t] \in where
    OBVIOUS
<1>8. Count(p, where) = Cardinality(S) /\ Count(q, where) = Cardinality(R)
    BY DEF Count
<1> HIDE DEF S, R, q
<1>9. Count(q, where) = Count(p, where) + (IF to \in where THEN 1 ELSE 0)
                                - (IF p[t] \in where THEN 1 ELSE 0)
    BY <1>2, <1>4, <1>5, <1>6, <1>7, <1>8
<1>10. p[t] \in where => Count(p, where) > 0
    BY <1>2, <1>3, <1>7, <1>8
<1>11. QED
    BY <1>2, <1>8, <1>9, <1>10 DEF q

LEMMA CountNone ==
    ASSUME NEW p \in [Threads -> PC], NEW where,
           \A t \in Threads : p[t] \notin where
    PROVE  Count(p, where) = 0
<1>1. {u \in Threads : p[u] \in where} = {}
    OBVIOUS
<1>2. QED
    BY <1>1, FS_EmptySet DEF Count

LEMMA InitIInv == Init => IInv
<1> SUFFICES ASSUME Init PROVE IInv
    OBVIOUS
<1> USE DEF Init
<1>1. TypeOK
    BY QueueAssumption DEF TypeOK, PC, Entry
<1>2. Payload /\ LockInv /\ ListShape /\ Allocation
    BY DEF Payload, LockInv, InSection, ListShape, Allocation
<1>3. \A where : "idle" \notin where => Count(pc, where) = 0
    BY CountNone DEF PC
<1>4. Accounting /\ SizeAgrees
    BY <1>3 DEF Accounting, SizeAgrees, PermitsHeld, PostsDue,
                TakesInProgress, AddsInProgress
<1>5. FifoOrder
    BY DEF FifoOrder, Contents
<1>6. QED
    BY <1>1, <1>2, <1>4, <1>5 DEF IInv
-----------------------------------------------------------------------------
(* The inductive step.                                                     *)

(* A step that moves one thread outside the critical section's work leaves *)
(* the list alone.                                                         *)
LEMMA ListUntouched ==
    ASSUME IInv, NEW t \in Threads, NEW to \in PC,
           pc' = [pc EXCEPT ![t] = to],
           pc[t] # "wait_unlock", to # "wait_unlock",
           UNCHANGED <<old, head, tail, heap, live, list, added, taken>>,
           to = "add_link" => arg'[t] \in Values,
           \A u \in Threads \ {t} : arg'[u] = arg[u]
    PROVE  Payload' /\ ListShape' /\ Allocation' /\ FifoOrder'
<1> USE DEF IInv, TypeOK
<1>1. Payload'
    BY DEF Payload
<1>2. ListShape'
    BY DEF ListShape
<1>3. Allocation'
    BY DEF Allocation
<1>4. FifoOrder'
    BY DEF FifoOrder, Contents
<1>5. QED
    BY <1>1, <1>2, <1>3, <1>4

(* How the four counts of the invariant change when a thread moves.        *)
LEMMA Counts ==
    ASSUME TypeOK, NEW t \in Threads, NEW from \in PC, NEW to \in PC,
           Goto(t, from, to)
    PROVE  /\ PermitsHeld \in Nat
           /\ PermitsHeld' = PermitsHeld
                + (IF to \in {"wait_lock", "wait_take"} THEN 1 ELSE 0)
                - (IF from \in {"wait_lock", "wait_take"} THEN 1 ELSE 0)
           /\ from \in {"wait_lock", "wait_take"} => PermitsHeld > 0
           /\ PostsDue \in Nat
           /\ PostsDue' = PostsDue
                + (IF to \in {"add_unlock", "add_post"} THEN 1 ELSE 0)
                - (IF from \in {"add_unlock", "add_post"} THEN 1 ELSE 0)
           /\ TakesInProgress \in Nat
           /\ TakesInProgress' = TakesInProgress
                + (IF to = "wait_unlock" THEN 1 ELSE 0)
                - (IF from = "wait_unlock" THEN 1 ELSE 0)
           /\ AddsInProgress \in Nat
           /\ AddsInProgress' = AddsInProgress
                + (IF to = "add_unlock" THEN 1 ELSE 0)
                - (IF from = "add_unlock" THEN 1 ELSE 0)
<1>1. pc \in [Threads -> PC]
    BY DEF TypeOK
<1> pc[t] = from /\ pc' = [pc EXCEPT ![t] = to]
    BY DEF Goto
<1>2. \A where :
        /\ Count(pc, where) \in Nat
        /\ Count([pc EXCEPT ![t] = to], where) =
                Count(pc, where) + (IF to \in where THEN 1 ELSE 0)
                                 - (IF pc[t] \in where THEN 1 ELSE 0)
        /\ pc[t] \in where => Count(pc, where) > 0
    BY <1>1, CountMove
<1>3. \A where : Count(pc, where)' = Count([pc EXCEPT ![t] = to], where)
    OBVIOUS
<1>4. QED
    BY <1>2, <1>3 DEF PermitsHeld, PostsDue, TakesInProgress, AddsInProgress

(* At most one thread is in the critical section.                          *)
LEMMA Exclusion ==
    ASSUME IInv, NEW t \in Threads, NEW u \in Threads,
           InSection(t), InSection(u)
    PROVE  t = u
    BY DEF IInv, LockInv

(* A thread at wait_take holds a permit, so the list is not empty.         *)
LEMMA PermitMeansEntry ==
    ASSUME IInv, NEW t \in Threads, pc[t] = "wait_take"
    PROVE  list # <<>> /\ head = list[1] /\ head \in live /\ head \in Addrs
<1>1. pc \in [Threads -> PC] /\ "idle" \in PC
    BY DEF IInv, TypeOK, PC
<1>2. \A where : /\ Count(pc, where) \in Nat
                 /\ pc[t] \in where => Count(pc, where) > 0
    BY <1>1, CountMove
<1>3. PermitsHeld \in Nat /\ PermitsHeld > 0 /\ PostsDue \in Nat
    BY <1>2 DEF PermitsHeld, PostsDue
<1>4. Len(list) > 0
    BY <1>3, QueueAssumption DEF IInv, TypeOK, Accounting
<1>5. QED
    BY <1>4 DEF IInv, TypeOK, ListShape, Allocation

LEMMA AddLockStep ==
    ASSUME IInv, NEW t \in Threads, AddLock(t)
    PROVE  IInv'
<1> USE DEF AddLock, Goto, Lock, structVars, semVars, lockVars, histVars, IInv
<1>1. TypeOK'
    BY QueueAssumption DEF TypeOK, PC
<1>2. LockInv'
    BY QueueAssumption DEF LockInv, InSection, TypeOK
<1>3. Payload' /\ ListShape' /\ Allocation' /\ FifoOrder'
  <2>1. arg'[t] \in Values /\ \A u \in Threads \ {t} : arg'[u] = arg[u]
    BY DEF TypeOK
  <2>2. QED
    BY <2>1, ListUntouched DEF PC
<1>4. Accounting' /\ SizeAgrees'
  <2>1. /\ PermitsHeld \in Nat /\ PostsDue \in Nat
        /\ TakesInProgress \in Nat /\ AddsInProgress \in Nat
        /\ PermitsHeld' = PermitsHeld /\ PostsDue' = PostsDue
        /\ TakesInProgress' = TakesInProgress /\ AddsInProgress' = AddsInProgress
    <3> HIDE DEF IInv, Goto
    <3>1. TypeOK /\ Goto(t, "idle", "add_link")
        BY DEF IInv
    <3>2. "idle" \in PC /\ "add_link" \in PC
        BY DEF PC
    <3>3. QED
        BY ONLY <3>1, <3>2, t \in Threads, Counts
  <2>2. /\ sem \in Nat /\ lostPosts \in Nat /\ m_nSize \in Int
        /\ Len(list) \in Nat /\ list' = list
    BY QueueAssumption DEF TypeOK
  <2>3. QED
    BY <2>1, <2>2 DEF Accounting, SizeAgrees
<1>5. QED
    BY <1>1, <1>2, <1>3, <1>4

LEMMA AddThrowStep ==
    ASSUME IInv, NEW t \in Threads, AddThrow(t)
    PROVE  IInv'
<1> USE DEF AddThrow, Goto, structVars, semVars, lockVars, histVars, IInv
<1>1. TypeOK'
    BY QueueAssumption DEF TypeOK, PC
<1>2. LockInv'
    BY DEF LockInv, InSection, TypeOK
<1>3. Payload' /\ ListShape' /\ Allocation' /\ FifoOrder'
    BY ListUntouched DEF PC
<1>4. Accounting' /\ SizeAgrees'
  <2>1. /\ PermitsHeld \in Nat /\ PostsDue \in Nat
        /\ TakesInProgress \in Nat /\ AddsInProgress \in Nat
        /\ PermitsHeld' = PermitsHeld /\ PostsDue' = PostsDue
        /\ TakesInProgress' = TakesInProgress /\ AddsInProgress' = AddsInProgress
    <3> HIDE DEF IInv, Goto
    <3>1. TypeOK /\ Goto(t, "add_link", "idle")
        BY DEF IInv
    <3>2. "add_link" \in PC /\ "idle" \in PC
        BY DEF PC
    <3>3. QED
        BY ONLY <3>1, <3>2, t \in Threads, Counts
  <2>2. /\ sem \in Nat /\ lostPosts \in Nat /\ m_nSize \in Int
        /\ Len(list) \in Nat /\ list' = list
    BY QueueAssumption DEF TypeOK
  <2>3. QED
    BY <2>1, <2>2 DEF Accounting, SizeAgrees
<1>5. QED
    BY <1>1, <1>2, <1>3, <1>4

LEMMA AddUnlockStep ==
    ASSUME IInv, NEW t \in Threads, AddUnlock(t)
    PROVE  IInv'
<1> USE DEF AddUnlock, Goto, Unlock, structVars, semVars, lockVars, histVars, IInv
<1>0. owner = t /\ depth \in Nat \ {0}
    BY QueueAssumption DEF LockInv, InSection, TypeOK
<1>1. TypeOK'
    BY <1>0 DEF TypeOK, PC
<1>2. LockInv'
    BY <1>0, QueueAssumption DEF LockInv, InSection, TypeOK
<1>3. Payload' /\ ListShape' /\ Allocation' /\ FifoOrder'
    BY ListUntouched DEF PC
<1>4. Accounting' /\ SizeAgrees'
  <2>1. /\ PermitsHeld \in Nat /\ PostsDue \in Nat
        /\ TakesInProgress \in Nat /\ AddsInProgress \in Nat
        /\ PermitsHeld' = PermitsHeld /\ PostsDue' = PostsDue
        /\ TakesInProgress' = TakesInProgress /\ AddsInProgress' = AddsInProgress - 1
    <3> HIDE DEF IInv, Goto
    <3>1. TypeOK /\ Goto(t, "add_unlock", "add_post")
        BY DEF IInv
    <3>2. "add_unlock" \in PC /\ "add_post" \in PC
        BY DEF PC
    <3>3. QED
        BY ONLY <3>1, <3>2, t \in Threads, Counts
  <2>2. /\ sem \in Nat /\ lostPosts \in Nat /\ m_nSize \in Int
        /\ Len(list) \in Nat /\ list' = list
    BY QueueAssumption DEF TypeOK
  <2>3. QED
    BY <2>1, <2>2 DEF Accounting, SizeAgrees
<1>5. QED
    BY <1>1, <1>2, <1>3, <1>4

LEMMA AddPostStep ==
    ASSUME IInv, NEW t \in Threads, AddPost(t)
    PROVE  IInv'
<1> USE DEF AddPost, Goto, Post, structVars, semVars, lockVars, histVars, IInv
<1>1. TypeOK'
    BY QueueAssumption DEF TypeOK, PC
<1>2. LockInv'
    BY DEF LockInv, InSection, TypeOK
<1>3. Payload' /\ ListShape' /\ Allocation' /\ FifoOrder'
    BY ListUntouched DEF PC
<1>4. Accounting' /\ SizeAgrees'
  <2>1. /\ PermitsHeld \in Nat /\ PostsDue \in Nat
        /\ TakesInProgress \in Nat /\ AddsInProgress \in Nat
        /\ PermitsHeld' = PermitsHeld /\ PostsDue' = PostsDue - 1
        /\ TakesInProgress' = TakesInProgress /\ AddsInProgress' = AddsInProgress
    <3> HIDE DEF IInv, Goto
    <3>1. TypeOK /\ Goto(t, "add_post", "idle")
        BY DEF IInv
    <3>2. "add_post" \in PC /\ "idle" \in PC
        BY DEF PC
    <3>3. QED
        BY ONLY <3>1, <3>2, t \in Threads, Counts
  <2>2. /\ sem \in Nat /\ lostPosts \in Nat /\ m_nSize \in Int
        /\ Len(list) \in Nat /\ list' = list
    BY QueueAssumption DEF TypeOK
  <2>3. QED
    BY <2>1, <2>2 DEF Accounting, SizeAgrees
<1>5. QED
    BY <1>1, <1>2, <1>3, <1>4

LEMMA WaitSemaphoreStep ==
    ASSUME IInv, NEW t \in Threads, WaitSemaphore(t)
    PROVE  IInv'
<1> USE DEF WaitSemaphore, Goto, SemaphoreWait, structVars, semVars, lockVars,
            histVars, IInv
<1>1. TypeOK'
    BY QueueAssumption DEF TypeOK, PC
<1>2. LockInv'
    BY DEF LockInv, InSection, TypeOK
<1>3. Payload' /\ ListShape' /\ Allocation' /\ FifoOrder'
    BY ListUntouched DEF PC
<1>4. Accounting' /\ SizeAgrees'
  <2>1. /\ PermitsHeld \in Nat /\ PostsDue \in Nat
        /\ TakesInProgress \in Nat /\ AddsInProgress \in Nat
        /\ PermitsHeld' = PermitsHeld + 1 /\ PostsDue' = PostsDue
        /\ TakesInProgress' = TakesInProgress /\ AddsInProgress' = AddsInProgress
    <3> HIDE DEF IInv, Goto
    <3>1. TypeOK /\ Goto(t, "idle", "wait_lock")
        BY DEF IInv
    <3>2. "idle" \in PC /\ "wait_lock" \in PC
        BY DEF PC
    <3>3. QED
        BY ONLY <3>1, <3>2, t \in Threads, Counts
  <2>2. /\ sem \in Nat /\ lostPosts \in Nat /\ m_nSize \in Int
        /\ Len(list) \in Nat /\ list' = list
    BY QueueAssumption DEF TypeOK
  <2>3. QED
    BY <2>1, <2>2 DEF Accounting, SizeAgrees
<1>5. QED
    BY <1>1, <1>2, <1>3, <1>4

LEMMA WaitLockStep ==
    ASSUME IInv, NEW t \in Threads, WaitLock(t)
    PROVE  IInv'
<1> USE DEF WaitLock, Goto, Lock, structVars, semVars, lockVars, histVars, IInv
<1>1. TypeOK'
    BY QueueAssumption DEF TypeOK, PC
<1>2. LockInv'
    BY QueueAssumption DEF LockInv, InSection, TypeOK
<1>3. Payload' /\ ListShape' /\ Allocation' /\ FifoOrder'
    BY ListUntouched DEF PC
<1>4. Accounting' /\ SizeAgrees'
  <2>1. /\ PermitsHeld \in Nat /\ PostsDue \in Nat
        /\ TakesInProgress \in Nat /\ AddsInProgress \in Nat
        /\ PermitsHeld' = PermitsHeld /\ PostsDue' = PostsDue
        /\ TakesInProgress' = TakesInProgress /\ AddsInProgress' = AddsInProgress
    <3> HIDE DEF IInv, Goto
    <3>1. TypeOK /\ Goto(t, "wait_lock", "wait_take")
        BY DEF IInv
    <3>2. "wait_lock" \in PC /\ "wait_take" \in PC
        BY DEF PC
    <3>3. QED
        BY ONLY <3>1, <3>2, t \in Threads, Counts
  <2>2. /\ sem \in Nat /\ lostPosts \in Nat /\ m_nSize \in Int
        /\ Len(list) \in Nat /\ list' = list
    BY QueueAssumption DEF TypeOK
  <2>3. QED
    BY <2>1, <2>2 DEF Accounting, SizeAgrees
<1>5. QED
    BY <1>1, <1>2, <1>3, <1>4
(* Appending to both sides of a concatenation.                             *)
LEMMA AppendRight ==
    ASSUME NEW S, NEW s \in Seq(S), NEW c \in Seq(S), NEW v \in S
    PROVE  Append(s \o c, v) = s \o Append(c, v)
    OBVIOUS

(* Moving the first element of the right side to the left side.            *)
LEMMA ShiftHead ==
    ASSUME NEW S, NEW s \in Seq(S), NEW c \in Seq(S), c # <<>>
    PROVE  s \o c = Append(s, Head(c)) \o Tail(c)
    OBVIOUS

(* The contents are a sequence of values as long as the list.              *)
LEMMA ContentsType ==
    ASSUME IInv
    PROVE  Contents \in Seq(Values) /\ Len(Contents) = Len(list)
    BY DEF IInv, TypeOK, Payload, Contents

(* What AddLink does, for the address it picks.                            *)
LEMMA AddLinkStep ==
    ASSUME IInv, NEW t \in Threads, AddLink(t)
    PROVE  IInv' /\ Contents' = Append(Contents, arg[t]) /\ arg[t] \in Values
<1> USE DEF AddLink, Goto, structVars, semVars, lockVars, histVars, IInv
<1> DEFINE new == [value |-> arg[t], next |-> NULL]
<1>0. PICK a \in Addrs \ live :
        /\ live' = live \cup {a}
        /\ \/ /\ tail = NULL
              /\ head' = a
              /\ heap' = [heap EXCEPT ![a] = new]
           \/ /\ tail # NULL
              /\ heap' = [heap EXCEPT ![a] = new, ![tail].next = a]
              /\ UNCHANGED head
        /\ tail' = a
        /\ list' = Append(list, a)
        /\ added' = Append(added, arg[t])
    BY DEF AddLink
<1> /\ pc' = [pc EXCEPT ![t] = "add_unlock"] /\ pc[t] = "add_link"
    /\ UNCHANGED <<arg, old, m_nSize, sem, lostPosts, owner, depth, throws, taken>>
    BY DEF AddLink
<1> HIDE DEF AddLink
<1> arg[t] \in Values
    BY DEF Payload
<1>1. \A u \in Threads : pc[u] # "wait_unlock"
    BY DEF LockInv, InSection
<1>2. /\ list = <<>> => tail = NULL
      /\ list # <<>> => tail = list[Len(list)] /\ tail \in Addrs /\ tail # a
    BY <1>1 DEF ListShape, Allocation, TypeOK
<1>3. tail = NULL <=> list = <<>>
    BY <1>2, QueueAssumption
<1>4. /\ list' \in Seq(Addrs)
      /\ Len(list') = Len(list) + 1
      /\ list'[Len(list) + 1] = a
      /\ \A i \in 1..Len(list) : list'[i] = list[i] /\ list[i] # a
    BY <1>0 DEF TypeOK, Allocation
<1>5. heap'[a] = new
    BY <1>0, <1>2 DEF TypeOK, Entry
<1>6. \A i \in 1..Len(list) :
        /\ heap'[list[i]].value = heap[list[i]].value
        /\ heap'[list[i]].next =
              IF i = Len(list) THEN a ELSE heap[list[i]].next
  <2>1. CASE list = <<>>
    BY <2>1
  <2>2. CASE list # <<>>
    <3>1. heap' = [heap EXCEPT ![a] = new, ![tail].next = a]
        BY <2>2, <1>0, <1>3
    <3>2. \A i \in 1..Len(list) : list[i] \in Addrs /\ (list[i] = tail <=> i = Len(list))
        BY <2>2, <1>2 DEF ListShape, TypeOK
    <3>3. QED
        BY <3>1, <3>2, <1>4 DEF TypeOK, Entry
  <2>3. QED
    BY <2>1, <2>2
<1>7. TypeOK'
  <2>1. new \in Entry /\ NULL \in Addrs \cup {NULL}
    BY DEF Entry
  <2>2. heap' \in [Addrs -> Entry]
    <3>1. CASE tail = NULL
        BY <2>1, <3>1, <1>0 DEF TypeOK
    <3>2. CASE tail # NULL
      <4>1. /\ tail \in Addrs /\ tail # a /\ heap[tail] \in Entry /\ a \in Addrs
            /\ heap \in [Addrs -> Entry]
        BY <3>2, <1>2, <1>3 DEF TypeOK
      <4>2. [heap[tail] EXCEPT !.next = a] \in Entry
        BY <4>1 DEF Entry
      <4>3. heap' = [[heap EXCEPT ![a] = new] EXCEPT
                        ![tail] = [heap[tail] EXCEPT !.next = a]]
        BY <4>1, <3>2, <1>0 DEF TypeOK
      <4>4. QED
        BY ONLY <2>1, <4>1, <4>2, <4>3
    <3>3. QED
        BY <3>1, <3>2
  <2>3. pc' \in [Threads -> PC]
    BY DEF TypeOK, PC
  <2>4. head' \in Addrs \cup {NULL} /\ tail' \in Addrs \cup {NULL} /\ live' \in SUBSET Addrs
    BY <1>0 DEF TypeOK
  <2>5. added' \in Seq(Values)
    BY <1>0 DEF TypeOK
  <2>6. QED
    BY <2>2, <2>3, <2>4, <2>5, <1>4 DEF TypeOK
<1>8. LockInv'
    BY DEF LockInv, InSection, TypeOK
<1>9. ListShape'
  <2> HIDE DEF IInv
  <2>1. /\ DOMAIN list' = 1..(Len(list) + 1) /\ DOMAIN list = 1..Len(list)
        /\ Len(list) \in Nat
    BY <1>4 DEF IInv, TypeOK
  <2>a. \A i, j \in 1..Len(list) : list[i] = list[j] => i = j
    BY <2>1 DEF IInv, ListShape
  <2>b. \A i \in 1..Len(list) :
            heap[list[i]].next = IF i = Len(list) THEN NULL ELSE list[i + 1]
    BY <2>1 DEF IInv, ListShape
  <2>2. \A i, j \in DOMAIN list' : list'[i] = list'[j] => i = j
    <3>1. \A i \in DOMAIN list' : i \in 1..Len(list) \/ i = Len(list) + 1
        BY <2>1
    <3>2. QED
        BY <2>a, <3>1, <1>4
  <2>3. ASSUME NEW i \in DOMAIN list'
        PROVE  heap'[list'[i]].next = IF i = Len(list') THEN NULL ELSE list'[i + 1]
    <3>1. CASE i = Len(list) + 1
        BY <3>1, <1>4, <1>5
    <3>2. CASE i = Len(list)
        BY <3>2, <2>1, <1>4, <1>6
    <3>3. CASE i < Len(list)
      <4>1. i \in 1..Len(list) /\ i + 1 \in 1..Len(list) /\ i # Len(list)
        BY <3>3, <2>1
      <4>2. heap'[list'[i]].next = list[i + 1]
        BY <4>1, <2>b, <1>4, <1>6
      <4>3. QED
        BY <4>1, <4>2, <2>1, <1>4
    <3>4. QED
        BY <3>1, <3>2, <3>3, <2>1
  <2>4. head' = list'[1] /\ tail' = list'[Len(list')] /\ list' # <<>>
    <3>1. CASE list = <<>>
        BY <3>1, <1>0, <1>3, <1>4
    <3>2. CASE list # <<>>
      <4>1. head' = list[1] /\ 1 \in 1..Len(list)
        BY <3>2, <1>0, <1>3 DEF IInv, ListShape, TypeOK
      <4>2. QED
        BY <4>1, <1>0, <1>4, <2>1
    <3>3. QED
        BY <3>1, <3>2
  <2>5. QED
    BY <2>2, <2>3, <2>4 DEF ListShape
<1>10. Allocation'
  <2> HIDE DEF IInv
  <2>1. /\ DOMAIN list' = 1..(Len(list) + 1) /\ DOMAIN list = 1..Len(list)
        /\ Len(list) \in Nat
    BY <1>4 DEF IInv, TypeOK
  <2>2. \A u \in Threads : pc'[u] # "wait_unlock"
    BY <1>1 DEF IInv, TypeOK
  <2>3. /\ \A i \in 1..Len(list) : list[i] \in live
        /\ \A b \in live : \E i \in 1..Len(list) : list[i] = b
    BY <2>1, <1>1 DEF IInv, Allocation
  <2>4. \A i \in DOMAIN list' : list'[i] \in live'
    BY <2>1, <2>3, <1>0, <1>4
  <2>5. \A b \in live' : \E i \in DOMAIN list' : list'[i] = b
    BY <2>1, <2>3, <1>0, <1>4
  <2>6. QED
    BY <2>2, <2>4, <2>5 DEF Allocation
<1>11. Payload'
  <2>1. DOMAIN list' = 1..(Len(list) + 1) /\ DOMAIN list = 1..Len(list)
    BY <1>4 DEF TypeOK
  <2>2. \A u \in Threads : pc'[u] = "add_link" => arg'[u] \in Values
    BY DEF Payload, TypeOK
  <2>3. \A i \in DOMAIN list' : heap'[list'[i]].value \in Values
    <3>1. \A i \in 1..Len(list) : heap[list[i]].value \in Values
        BY <2>1 DEF Payload
    <3>2. \A i \in DOMAIN list' : i \in 1..Len(list) \/ i = Len(list) + 1
        BY <2>1 DEF TypeOK
    <3>3. QED
        BY <3>1, <3>2, <1>4, <1>5, <1>6
  <2>4. QED
    BY <2>2, <2>3 DEF Payload
<1>12. Accounting' /\ SizeAgrees'
  <2>1. /\ PermitsHeld \in Nat /\ PostsDue \in Nat
        /\ TakesInProgress \in Nat /\ AddsInProgress \in Nat
        /\ PermitsHeld' = PermitsHeld /\ PostsDue' = PostsDue + 1
        /\ TakesInProgress' = TakesInProgress /\ AddsInProgress' = AddsInProgress + 1
    <3> HIDE DEF IInv, Goto
    <3>1. TypeOK /\ Goto(t, "add_link", "add_unlock")
        BY DEF IInv, AddLink
    <3>2. "add_link" \in PC /\ "add_unlock" \in PC
        BY DEF PC
    <3>3. QED
        BY ONLY <3>1, <3>2, t \in Threads, Counts
  <2>2. /\ sem \in Nat /\ lostPosts \in Nat /\ m_nSize \in Int
        /\ Len(list) \in Nat /\ Len(list') = Len(list) + 1
    BY <1>4, QueueAssumption DEF TypeOK
  <2>3. QED
    BY <2>1, <2>2 DEF Accounting, SizeAgrees
<1>13. Contents' = Append(Contents, arg[t])
  <2>1. Contents' \in Seq(Values) /\ Len(Contents') = Len(list) + 1
    BY <1>4, <1>11, <1>7 DEF Contents, Payload, TypeOK
  <2>2. \A i \in 1..Len(list) + 1 :
            Contents'[i] = IF i <= Len(list) THEN Contents[i] ELSE arg[t]
    BY <1>4, <1>5, <1>6 DEF Contents, TypeOK
  <2>3. QED
    BY <2>1, <2>2, ContentsType DEF TypeOK
<1>14. FifoOrder'
  <2>1. added' = Append(taken \o Contents, arg[t]) /\ taken' = taken
    BY <1>0 DEF FifoOrder
  <2>2. taken \in Seq(Values) /\ Contents \in Seq(Values)
    BY ContentsType DEF TypeOK
  <2>3. Append(taken \o Contents, arg[t]) = taken \o Append(Contents, arg[t])
    BY ONLY <2>2, arg[t] \in Values, AppendRight
  <2>4. QED
    BY <2>1, <2>3, <1>13 DEF FifoOrder
<1>15. QED
    BY <1>7, <1>8, <1>9, <1>10, <1>11, <1>12, <1>13, <1>14

LEMMA WaitTakeStep ==
    ASSUME IInv, NEW t \in Threads, WaitTake(t)
    PROVE  /\ IInv'
           /\ Contents # <<>>
           /\ Contents' = Tail(Contents)
           /\ taken' = Append(taken, Head(Contents))
<1> USE DEF Goto, structVars, semVars, lockVars, histVars
<1>0. /\ pc[t] = "wait_take" /\ pc' = [pc EXCEPT ![t] = "wait_unlock"]
      /\ arg' = [arg EXCEPT ![t] = heap[head].value]
      /\ old' = [old EXCEPT ![t] = head]
      /\ head' = heap[head].next
      /\ list' = Tail(list)
      /\ taken' = Append(taken, heap[head].value)
      /\ UNCHANGED <<tail, heap, live, m_nSize, sem, lostPosts, owner, depth,
                     throws, added>>
    BY DEF WaitTake
<1>1. list # <<>> /\ head = list[1] /\ head \in live /\ head \in Addrs
    BY <1>0, PermitMeansEntry
<1>2. /\ list \in Seq(Addrs) /\ Len(list) \in Nat /\ Len(list) > 0
      /\ DOMAIN list = 1..Len(list) /\ 1 \in DOMAIN list
    BY <1>1 DEF IInv, TypeOK
<1>3. /\ list' \in Seq(Addrs)
      /\ Len(list') = Len(list) - 1
      /\ DOMAIN list' = 1..(Len(list) - 1)
      /\ \A i \in 1..(Len(list) - 1) : list'[i] = list[i + 1] /\ i + 1 \in DOMAIN list
    BY <1>0, <1>1, <1>2
<1>4. \A i \in DOMAIN list : heap[list[i]].value \in Values
    BY DEF IInv, Payload
<1>5. heap[head].value \in Values /\ heap[head].next \in Addrs \cup {NULL}
    BY <1>1, <1>2, <1>4 DEF IInv, TypeOK, Entry
<1>6. \A i \in DOMAIN list :
        heap[list[i]].next = IF i = Len(list) THEN NULL ELSE list[i + 1]
    BY DEF IInv, ListShape
<1>7. \A i, j \in DOMAIN list : list[i] = list[j] => i = j
    BY DEF IInv, ListShape
<1>8. \A u \in Threads : pc[u] # "wait_unlock"
    BY <1>0 DEF IInv, LockInv, InSection
<1>9. TypeOK'
    BY <1>0, <1>1, <1>3, <1>5 DEF IInv, TypeOK, PC
<1>10. LockInv'
    BY <1>0 DEF IInv, LockInv, InSection, TypeOK
<1>11. ListShape'
  <2>1. \A i, j \in DOMAIN list' : list'[i] = list'[j] => i = j
    BY <1>3, <1>7
  <2>2. \A i \in DOMAIN list' :
            heap'[list'[i]].next = IF i = Len(list') THEN NULL ELSE list'[i + 1]
    <3> SUFFICES ASSUME NEW i \in DOMAIN list'
                 PROVE heap'[list'[i]].next = IF i = Len(list') THEN NULL ELSE list'[i + 1]
        OBVIOUS
    <3>1. heap'[list'[i]].next = IF i + 1 = Len(list) THEN NULL ELSE list[i + 2]
      <4>1. i + 1 \in DOMAIN list /\ list'[i] = list[i + 1] /\ i \in Int
        BY <1>2, <1>3
      <4>2. heap[list[i + 1]].next =
                IF i + 1 = Len(list) THEN NULL ELSE list[(i + 1) + 1]
        BY <4>1, <1>6
      <4>3. QED
        BY <4>1, <4>2, <1>0
    <3>2. i # Len(list') => i + 1 \in 1..(Len(list) - 1)
        BY <1>2, <1>3
    <3>3. QED
        BY <3>1, <3>2, <1>2, <1>3
  <2>3. list' # <<>> => head' = list'[1] /\ tail' = list'[Len(list')]
    <3> SUFFICES ASSUME list' # <<>> PROVE head' = list'[1] /\ tail' = list'[Len(list')]
        OBVIOUS
    <3>1. Len(list) > 1
        BY <1>2, <1>3
    <3>2. head' = list[2] /\ tail' = list[Len(list)]
      <4>1. heap[list[1]].next = list[1 + 1]
        BY <3>1, <1>2, <1>6
      <4>2. tail = list[Len(list)]
        BY <1>1 DEF IInv, ListShape
      <4>3. QED
        BY <4>1, <4>2, <1>0, <1>1
    <3>3. QED
        BY <3>1, <3>2, <1>2, <1>3
  <2>4. list' = <<>> => head' = NULL
    BY <1>0, <1>1, <1>2, <1>3, <1>6
  <2>5. \E u \in Threads : pc'[u] = "wait_unlock"
    BY <1>0 DEF IInv, TypeOK
  <2>6. QED
    BY <2>1, <2>2, <2>3, <2>4, <2>5 DEF ListShape
<1>12. Allocation'
  <2>1. \A i \in DOMAIN list' : list'[i] \in live' /\ list'[i] # head
    BY <1>0, <1>1, <1>2, <1>3, <1>7 DEF IInv, Allocation
  <2>2. \A u \in Threads : pc'[u] = "wait_unlock" => u = t /\ old'[u] = head
    BY <1>0, <1>8 DEF IInv, TypeOK
  <2>3. \A b \in live : \E i \in DOMAIN list : list[i] = b
    BY <1>8 DEF IInv, Allocation
  <2>4. \A i \in DOMAIN list : i = 1 \/ (i - 1 \in DOMAIN list' /\ list'[i - 1] = list[i])
    BY <1>2, <1>3
  <2>5. \A b \in live' : b = head \/ \E i \in DOMAIN list' : list'[i] = b
    <3> SUFFICES ASSUME NEW b \in live, b # head
                 PROVE  \E i \in DOMAIN list' : list'[i] = b
        BY <1>0
    <3>1. PICK k \in DOMAIN list : list[k] = b
        BY <2>3
    <3>2. k # 1
        BY <3>1, <1>1
    <3>3. QED
        BY <3>1, <3>2, <2>4
  <2>6. pc'[t] = "wait_unlock" /\ old'[t] = head
    BY <1>0 DEF IInv, TypeOK
  <2>7. QED
    BY <2>1, <2>2, <2>5, <2>6, <1>0, <1>1 DEF Allocation
<1>13. Payload'
  <2>1. \A u \in Threads : pc'[u] = "add_link" => arg'[u] \in Values
    BY <1>0 DEF IInv, Payload, TypeOK
  <2>2. QED
    BY <2>1, <1>0, <1>3, <1>4 DEF Payload
<1>14. Accounting' /\ SizeAgrees'
  <2>1. /\ PermitsHeld \in Nat /\ PostsDue \in Nat
        /\ TakesInProgress \in Nat /\ AddsInProgress \in Nat
        /\ PermitsHeld' = PermitsHeld - 1 /\ PostsDue' = PostsDue
        /\ TakesInProgress' = TakesInProgress + 1 /\ AddsInProgress' = AddsInProgress
    <3> HIDE DEF IInv, Goto
    <3>1. TypeOK /\ Goto(t, "wait_take", "wait_unlock")
        BY DEF IInv, WaitTake
    <3>2. "wait_take" \in PC /\ "wait_unlock" \in PC
        BY DEF PC
    <3>3. QED
        BY ONLY <3>1, <3>2, t \in Threads, Counts
  <2>2. /\ sem \in Nat /\ lostPosts \in Nat /\ m_nSize \in Int
        /\ Len(list) \in Nat /\ Len(list') = Len(list) - 1 /\ m_nSize' = m_nSize
        /\ sem' = sem /\ lostPosts' = lostPosts
    BY <1>0, <1>3, QueueAssumption DEF IInv, TypeOK
  <2>3. QED
    BY <2>1, <2>2 DEF IInv, Accounting, SizeAgrees
<1>15. Contents \in Seq(Values) /\ Len(Contents) = Len(list)
    BY ContentsType
<1>16. Contents # <<>> /\ Head(Contents) = heap[head].value
    BY <1>15, <1>1, <1>2 DEF Contents
<1>17. Contents' = Tail(Contents)
  <2>1. Contents' \in Seq(Values) /\ Len(Contents') = Len(list) - 1
    BY <1>0, <1>3, <1>4, <1>2 DEF Contents
  <2>2. \A i \in 1..(Len(list) - 1) : Contents'[i] = Contents[i + 1]
    BY <1>0, <1>2, <1>3 DEF Contents
  <2>3. QED
    BY <2>1, <2>2, <1>15, <1>16, <1>2
<1>18. FifoOrder'
  <2>1. taken \in Seq(Values)
    BY DEF IInv, TypeOK
  <2>2. taken \o Contents = Append(taken, Head(Contents)) \o Tail(Contents)
    BY ONLY <2>1, <1>15, <1>16, ShiftHead
  <2>3. QED
    BY <2>2, <1>0, <1>16, <1>17 DEF IInv, FifoOrder
<1>19. QED
    BY <1>0, <1>9, <1>10, <1>11, <1>12, <1>13, <1>14, <1>16, <1>17, <1>18 DEF IInv

LEMMA WaitUnlockStep ==
    ASSUME IInv, NEW t \in Threads, WaitUnlock(t)
    PROVE  IInv' /\ Contents' = Contents
<1> USE DEF Goto, structVars, semVars, lockVars, histVars
<1>0. /\ pc[t] = "wait_unlock" /\ pc' = [pc EXCEPT ![t] = "idle"]
      /\ live' = live \ {old[t]}
      /\ old' = [old EXCEPT ![t] = NULL]
      /\ tail' = IF head = NULL THEN NULL ELSE tail
      /\ m_nSize' = m_nSize - 1
      /\ depth' = depth - 1
      /\ owner' = IF depth = 1 THEN NoThread ELSE owner
      /\ UNCHANGED <<arg, head, heap, sem, lostPosts, throws, list, added, taken>>
    BY DEF WaitUnlock, Unlock
<1>1. owner = t /\ depth \in Nat \ {0}
    BY <1>0, QueueAssumption DEF IInv, LockInv, InSection, TypeOK
<1>2. \A u \in Threads : InSection(u) => u = t
    BY <1>1 DEF IInv, LockInv
<1>3. head = NULL <=> list = <<>>
    BY QueueAssumption DEF IInv, ListShape, TypeOK
<1>4. TypeOK'
    BY <1>0, <1>1 DEF IInv, TypeOK, PC
<1>5. LockInv'
    BY <1>0, <1>1, <1>2, QueueAssumption DEF IInv, LockInv, InSection, TypeOK
<1>6. ListShape'
    BY <1>0, <1>3 DEF IInv, ListShape
<1>7. Allocation'
  <2>1. \A u \in Threads : pc'[u] # "wait_unlock"
    BY <1>0, <1>2 DEF IInv, TypeOK, InSection
  <2>2. \A u \in Threads : pc[u] = "wait_unlock" => u = t
    BY <1>2 DEF InSection
  <2>3. QED
    BY <2>1, <2>2, <1>0 DEF IInv, Allocation
<1>8. Payload'
    BY <1>0 DEF IInv, Payload, TypeOK
<1>9. Accounting' /\ SizeAgrees'
  <2>1. /\ PermitsHeld \in Nat /\ PostsDue \in Nat
        /\ TakesInProgress \in Nat /\ AddsInProgress \in Nat
        /\ PermitsHeld' = PermitsHeld /\ PostsDue' = PostsDue
        /\ TakesInProgress' = TakesInProgress - 1 /\ AddsInProgress' = AddsInProgress
    <3> HIDE DEF IInv, Goto
    <3>1. TypeOK /\ Goto(t, "wait_unlock", "idle")
        BY DEF IInv, WaitUnlock
    <3>2. "wait_unlock" \in PC /\ "idle" \in PC
        BY DEF PC
    <3>3. QED
        BY ONLY <3>1, <3>2, t \in Threads, Counts
  <2>2. /\ sem \in Nat /\ lostPosts \in Nat /\ m_nSize \in Int
        /\ Len(list) \in Nat /\ list' = list /\ m_nSize' = m_nSize - 1
        /\ sem' = sem /\ lostPosts' = lostPosts
    BY <1>0, QueueAssumption DEF IInv, TypeOK
  <2>3. QED
    BY <2>1, <2>2 DEF IInv, Accounting, SizeAgrees
<1>10. Contents' = Contents /\ FifoOrder'
    BY <1>0 DEF IInv, FifoOrder, Contents
<1>11. QED
    BY <1>4, <1>5, <1>6, <1>7, <1>8, <1>9, <1>10 DEF IInv

LEMMA NextIInv == IInv /\ [Next]_vars => IInv'
<1> SUFFICES ASSUME IInv, [Next]_vars PROVE IInv'
    OBVIOUS
<1>1. CASE UNCHANGED vars
    BY <1>1 DEF vars, structVars, semVars, lockVars, histVars, IInv, TypeOK,
        Payload, LockInv, InSection, ListShape, Allocation, Accounting,
        SizeAgrees, FifoOrder, Contents, Count, PermitsHeld, PostsDue,
        TakesInProgress, AddsInProgress
<1>2. CASE Next
  <2>1. ASSUME NEW t \in Producers, Add(t) PROVE IInv'
    BY <2>1, AddLockStep, AddLinkStep, AddThrowStep, AddUnlockStep, AddPostStep
        DEF Add, Threads
  <2>2. ASSUME NEW t \in Consumers, Wait(t) PROVE IInv'
    BY <2>2, WaitSemaphoreStep, WaitLockStep, WaitTakeStep, WaitUnlockStep
        DEF Wait, Threads
  <2>3. QED
    BY <1>2, <2>1, <2>2 DEF Next
<1>3. QED
    BY <1>1, <1>2

(* Every reachable state satisfies the inductive invariant, whatever the   *)
(* threads, items, addresses, semaphore maximum and failures of `new'.     *)
THEOREM Invariance == Spec => []IInv
    BY InitIInv, NextIInv, PTL DEF Spec

(* The variables keep their types; in particular the semaphore count stays *)
(* within its maximum.                                                     *)
THEOREM TypeCorrect == Spec => []TypeOK
<1>1. IInv => TypeOK
    BY DEF IInv
<1>2. QED
    BY <1>1, Invariance, PTL

(* Pointers, allocations, lock and size are consistent between any two     *)
(* steps of any two threads, and head->value is safe (Queue.h:50-85).      *)
THEOREM ListCorrect == Spec => []WellFormed
<1>1. IInv => WellFormed
    BY PermitMeansEntry DEF IInv, WellFormed, HeadAllocated
<1>2. QED
    BY <1>1, Invariance, PTL

(* The semaphore counts the entries (Queue.h:64, 69).                      *)
THEOREM SemaphoreCounts == Spec => []Accounting
<1>1. IInv => Accounting
    BY DEF IInv
<1>2. QED
    BY <1>1, Invariance, PTL

(* The unguarded head->value of Wait is always safe (Queue.h:72).          *)
THEOREM WaitIsSafe == Spec => []HeadAllocated
<1>1. IInv => HeadAllocated
    BY PermitMeansEntry DEF HeadAllocated
<1>2. QED
    BY <1>1, Invariance, PTL

(* Items come out in the order they went in, none lost, none twice.        *)
THEOREM FirstInFirstOut == Spec => []FifoOrder
<1>1. IInv => FifoOrder
    BY DEF IInv
<1>2. QED
    BY <1>1, Invariance, PTL

-----------------------------------------------------------------------------
(* Refinement.                                                             *)

LEMMA InitChannel == Init => Channel!Init
    BY DEF Init, Channel!Init, Contents

(* AddLink is a Put, WaitTake a Get, and every other step a stutter.       *)
LEMMA StepChannel ==
    IInv /\ [Next]_vars => [Channel!Next]_<<Contents, taken>>
<1> SUFFICES ASSUME IInv, [Next]_vars
             PROVE  Channel!Next \/ UNCHANGED <<Contents, taken>>
    OBVIOUS
<1> USE DEF structVars, semVars, lockVars, histVars
<1>1. CASE UNCHANGED vars
    BY <1>1 DEF vars, Contents
<1>2. ASSUME NEW t \in Producers, Add(t)
      PROVE  Channel!Next \/ UNCHANGED <<Contents, taken>>
  <2>1. CASE AddLink(t)
    <3>1. Contents' = Append(Contents, arg[t]) /\ arg[t] \in Values
        BY <2>1, AddLinkStep DEF Threads
    <3>2. taken' = taken
        BY <2>1 DEF AddLink
    <3>3. QED
        BY <3>1, <3>2 DEF Channel!Next, Channel!Put
  <2>2. CASE AddLock(t) \/ AddThrow(t) \/ AddUnlock(t) \/ AddPost(t)
    BY <2>2 DEF AddLock, AddThrow, AddUnlock, AddPost, Contents
  <2>3. QED
    BY <1>2, <2>1, <2>2 DEF Add
<1>3. ASSUME NEW t \in Consumers, Wait(t)
      PROVE  Channel!Next \/ UNCHANGED <<Contents, taken>>
  <2>1. CASE WaitTake(t)
    <3>1. /\ Contents # <<>>
          /\ Contents' = Tail(Contents)
          /\ taken' = Append(taken, Head(Contents))
        BY <2>1, WaitTakeStep DEF Threads
    <3>2. QED
        BY <3>1 DEF Channel!Next, Channel!Get
  <2>2. CASE WaitSemaphore(t) \/ WaitLock(t) \/ WaitUnlock(t)
    BY <2>2 DEF WaitSemaphore, WaitLock, WaitUnlock, Contents
  <2>3. QED
    BY <1>3, <2>1, <2>2 DEF Wait
<1>4. QED
    BY <1>1, <1>2, <1>3 DEF Next

(* Queue.h implements the atomic first-in first-out channel.               *)
THEOREM Refinement == Spec => ImplementsChannel
    BY InitChannel, StepChannel, Invariance, PTL
       DEF Spec, ImplementsChannel, Channel!Spec
=============================================================================
