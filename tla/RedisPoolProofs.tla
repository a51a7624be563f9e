-------------------------- MODULE RedisPoolProofs --------------------------
(***************************************************************************)
(* For any number of workers, objects, calls of Fill and Empty and failed  *)
(* allocations: a borrowed connection is never shared, never deleted under *)
(* its holder and never lost but by an exception; permits and objects      *)
(* balance; Get returns NULL only where a push failed.                     *)
(***************************************************************************)
EXTENDS RedisPool, FiniteSetTheorems, SequenceTheorems, TLAPS

(* Who has an object in hand: exactly the threads between taking it (or    *)
(* allocating it) and giving it back.                                      *)
Holding ==
    \A t \in Threads :
        pc[t] \in {"get_pop", "use", "add_lock", "add_push", "delete"} <=> pRedis[t] # NULL

(* An object lost to an exception is allocated for ever, in no list and in *)
(* nobody's hands.                                                         *)
LostForGood ==
    \A obj \in dropped \cup abandoned :
        /\ obj \in alive
        /\ \A i \in DOMAIN fifo : fifo[i] # obj
        /\ \A t \in Threads : pRedis[t] # obj

(* The manager's own program counters, and the lock.                       *)
Roles ==
    /\ \A t \in Workers : pc[t] \notin {"fill", "empty", "delete"}
    /\ pc[Manager] # "use"
    /\ pc[Manager] \in {"add_lock", "add_push", "add_post"} => added < HowMany
    /\ \A t \in Threads : pc[t] \in {"get_front", "get_pop", "add_push"} => mutex = t
    /\ \A t \in Threads : pc[t] = "get_pop" => fifo # <<>> /\ fifo[1] = pRedis[t]

IInv ==
    /\ TypeOK
    /\ Roles
    /\ Holding
    /\ Exclusive
    /\ LostForGood
    /\ Conserved
    /\ Permits
    /\ NullsExplained

-----------------------------------------------------------------------------
(* Counting threads.                                                       *)

LEMMA ThreadsFinite == IsFiniteSet(Threads)
    BY FS_AddElement, PoolAssumption DEF Threads

LEMMA CountMove ==
    ASSUME NEW p \in [Threads -> PC], NEW t \in Threads, NEW to \in PC,
           NEW where
    PROVE  /\ Count(p, where) \in Nat
           /\ Count([p EXCEPT ![t] = to], where) =
                Count(p, where) + (IF to \in where THEN 1 ELSE 0)
                                - (IF p[t] \in where THEN 1 ELSE 0)
           /\ p[t] \in where => Count(p, where) > 0
<1> DEFINE S == {u \in Threads : p[u] \in where}
           q == [p EXCEPT ![t] = to]
           R == {u \in Threads : q[u] \in where}
<1>1. IsFiniteSet(S) /\ IsFiniteSet(R)
    BY FS_Subset, ThreadsFinite
<1>2. Cardinality(S) \in Nat /\ Cardinality(R) \in Nat
    BY <1>1, FS_CardinalityType
<1>3. S # {} => Cardinality(S) # 0
    BY <1>1, FS_EmptySet
<1>4. Cardinality(S \cup {t}) = IF t \in S THEN Cardinality(S) ELSE Cardinality(S) + 1
    BY <1>1, FS_AddElement
<1>5. Cardinality(S \ {t}) = IF t \in S THEN Cardinality(S) - 1 ELSE Cardinality(S)
    BY <1>1, FS_RemoveElement
<1>6. R = IF to \in where THEN S \cup {t} ELSE S \ {t}
    OBVIOUS
<1>7. t \in S <=> p[t] \in where
    OBVIOUS
<1>8. Count(p, where) = Cardinality(S) /\ Count(q, where) = Cardinality(R)
    BY DEF Count
<1> HIDE DEF S, R, q
<1>9. Count(q, where) = Count(p, where) + (IF to \in where THEN 1 ELSE 0)
                                - (IF p[t] \in where THEN 1 ELSE 0)
    BY <1>2, <1>4, <1>5, <1>6, <1>7, <1>8
<1>10. p[t] \in where => Count(p, where) > 0
    BY <1>2, <1>3, <1>7, <1>8
<1>11. QED
    BY <1>2, <1>8, <1>9, <1>10 DEF q

(* How the two counts of Permits change when a thread moves.               *)
LEMMA Counts ==
    ASSUME TypeOK, NEW t \in Threads, NEW from \in PC, NEW to \in PC,
           Goto(t, from, to)
    PROVE  /\ InGet \in Nat /\ PostsDue \in Nat
           /\ InGet' = InGet
                + (IF to \in {"get_lock", "get_front", "get_pop"} THEN 1 ELSE 0)
                - (IF from \in {"get_lock", "get_front", "get_pop"} THEN 1 ELSE 0)
           /\ from \in {"get_lock", "get_front", "get_pop"} => InGet > 0
           /\ PostsDue' = PostsDue
                + (IF to = "add_post" THEN 1 ELSE 0)
                - (IF from = "add_post" THEN 1 ELSE 0)
<1>1. pc \in [Threads -> PC]
    BY DEF TypeOK
<1> pc[t] = from /\ pc' = [pc EXCEPT ![t] = to]
    BY DEF Goto
<1>2. \A where :
        /\ Count(pc, where) \in Nat
        /\ Count([pc EXCEPT ![t] = to], where) =
                Count(pc, where) + (IF to \in where THEN 1 ELSE 0)
                                 - (IF pc[t] \in where THEN 1 ELSE 0)
        /\ pc[t] \in where => Count(pc, where) > 0
    BY <1>1, CountMove
<1>3. \A where : Count(pc, where)' = Count([pc EXCEPT ![t] = to], where)
    OBVIOUS
<1>4. QED
    BY <1>2, <1>3 DEF InGet, PostsDue

(* The number of dropped objects is a natural number.                      *)
LEMMA DroppedFinite ==
    ASSUME TypeOK
    PROVE  IsFiniteSet(dropped) /\ Cardinality(dropped) \in Nat
    BY FS_Subset, FS_CardinalityType, PoolAssumption DEF TypeOK

LEMMA InitIInv == Init => IInv
<1> SUFFICES ASSUME Init PROVE IInv
    OBVIOUS
<1> USE DEF Init
<1>1. TypeOK
    BY PoolAssumption DEF TypeOK, PC
<1>2. Roles /\ Holding /\ Exclusive /\ LostForGood /\ Conserved
    BY PoolAssumption DEF Roles, Holding, Exclusive, LostForGood, Conserved, Threads
<1>3. InGet = 0 /\ PostsDue = 0
  <2>1. {t \in Threads : pc[t] \in {"get_lock", "get_front", "get_pop"}} = {}
    OBVIOUS
  <2>2. {t \in Threads : pc[t] \in {"add_post"}} = {}
    OBVIOUS
  <2>3. QED
    BY <2>1, <2>2, FS_EmptySet DEF InGet, PostsDue, Count
<1>4. Permits /\ NullsExplained
    BY <1>3, FS_EmptySet DEF Permits, NullsExplained
<1>5. QED
    BY <1>1, <1>2, <1>4 DEF IInv
-----------------------------------------------------------------------------
(* The inductive step.                                                     *)

(* A step that moves no object.                                            *)
LEMMA Quiet ==
    ASSUME IInv, UNCHANGED <<pRedis, fifo, alive, dropped, abandoned>>,
           \A t \in Threads : pc[t] = "get_pop" => pc'[t] = "get_pop"
    PROVE  Exclusive' /\ LostForGood' /\ Conserved'
<1>1. Exclusive'
    BY DEF IInv, Exclusive
<1>2. LostForGood' /\ Conserved'
    BY DEF IInv, LostForGood, Conserved
<1>3. QED
    BY <1>1, <1>2


LEMMA GetWaitStep ==
    ASSUME IInv, NEW t \in Threads, GetWait(t)
    PROVE  IInv'
<1>0. Threads = Workers \cup {Manager} /\ Manager \notin Workers /\ NoThread \notin Threads
    BY PoolAssumption DEF Threads
<1>1. TypeOK'
    BY <1>0, PoolAssumption DEF IInv, GetWait, Goto, TypeOK, PC, Throw, Roles
<1>2. Roles'
    BY <1>0, PoolAssumption DEF IInv, GetWait, Goto, TypeOK, PC, Throw, Roles
<1>3. Holding'
    BY <1>0 DEF IInv, GetWait, Goto, TypeOK, Holding
<1>4. Exclusive' /\ LostForGood' /\ Conserved'
    BY <1>0, Quiet DEF IInv, GetWait, Goto, TypeOK
<1>5. Permits' /\ NullsExplained'
  <2>1. InGet \in Nat /\ PostsDue \in Nat /\ InGet' = InGet + 1 /\ PostsDue' = PostsDue
    <3>1. TypeOK /\ Goto(t, "get_wait", "get_lock")
        BY DEF IInv, GetWait
    <3>2. "get_wait" \in PC /\ "get_lock" \in PC /\ t \in Threads
        BY DEF PC, Threads
    <3>3. QED
        BY ONLY <3>1, <3>2, Counts
  <2>2. sem \in Nat /\ nulls \in Nat /\ Len(fifo) \in Nat /\ Cardinality(dropped) \in Nat
    BY DroppedFinite DEF IInv, TypeOK
  <2>3. QED
    BY <2>1, <2>2, <1>1 DEF IInv, GetWait, Permits, NullsExplained
<1>6. QED
    BY <1>1, <1>2, <1>3, <1>4, <1>5 DEF IInv

LEMMA GetLockStep ==
    ASSUME IInv, NEW t \in Threads, GetLock(t)
    PROVE  IInv'
<1>0. Threads = Workers \cup {Manager} /\ Manager \notin Workers /\ NoThread \notin Threads
    BY PoolAssumption DEF Threads
<1>1. TypeOK'
    BY <1>0, PoolAssumption DEF IInv, GetLock, Goto, TypeOK, PC, Throw, Roles
<1>2. Roles'
    BY <1>0, PoolAssumption DEF IInv, GetLock, Goto, TypeOK, PC, Throw, Roles
<1>3. Holding'
    BY <1>0 DEF IInv, GetLock, Goto, TypeOK, Holding
<1>4. Exclusive' /\ LostForGood' /\ Conserved'
    BY <1>0, Quiet DEF IInv, GetLock, Goto, TypeOK
<1>5. Permits' /\ NullsExplained'
  <2>1. InGet \in Nat /\ PostsDue \in Nat /\ InGet' = InGet /\ PostsDue' = PostsDue
    <3>1. TypeOK /\ Goto(t, "get_lock", "get_front")
        BY DEF IInv, GetLock
    <3>2. "get_lock" \in PC /\ "get_front" \in PC /\ t \in Threads
        BY DEF PC, Threads
    <3>3. QED
        BY ONLY <3>1, <3>2, Counts
  <2>2. sem \in Nat /\ nulls \in Nat /\ Len(fifo) \in Nat /\ Cardinality(dropped) \in Nat
    BY DroppedFinite DEF IInv, TypeOK
  <2>3. QED
    BY <2>1, <2>2, <1>1 DEF IInv, GetLock, Permits, NullsExplained
<1>6. QED
    BY <1>1, <1>2, <1>3, <1>4, <1>5 DEF IInv

LEMMA AddLockStep ==
    ASSUME IInv, NEW t \in Threads, AddLock(t)
    PROVE  IInv'
<1>0. Threads = Workers \cup {Manager} /\ Manager \notin Workers /\ NoThread \notin Threads
    BY PoolAssumption DEF Threads
<1>1. TypeOK'
    BY <1>0, PoolAssumption DEF IInv, AddLock, Goto, TypeOK, PC, Throw, Roles
<1>2. Roles'
    BY <1>0, PoolAssumption DEF IInv, AddLock, Goto, TypeOK, PC, Throw, Roles
<1>3. Holding'
    BY <1>0 DEF IInv, AddLock, Goto, TypeOK, Holding
<1>4. Exclusive' /\ LostForGood' /\ Conserved'
    BY <1>0, Quiet DEF IInv, AddLock, Goto, TypeOK
<1>5. Permits' /\ NullsExplained'
  <2>1. InGet \in Nat /\ PostsDue \in Nat /\ InGet' = InGet /\ PostsDue' = PostsDue
    <3>1. TypeOK /\ Goto(t, "add_lock", "add_push")
        BY DEF IInv, AddLock
    <3>2. "add_lock" \in PC /\ "add_push" \in PC /\ t \in Threads
        BY DEF PC, Threads
    <3>3. QED
        BY ONLY <3>1, <3>2, Counts
  <2>2. sem \in Nat /\ nulls \in Nat /\ Len(fifo) \in Nat /\ Cardinality(dropped) \in Nat
    BY DroppedFinite DEF IInv, TypeOK
  <2>3. QED
    BY <2>1, <2>2, <1>1 DEF IInv, AddLock, Permits, NullsExplained
<1>6. QED
    BY <1>1, <1>2, <1>3, <1>4, <1>5 DEF IInv

LEMMA FraudANIStep ==
    ASSUME IInv, NEW t \in Workers, FraudANI(t)
    PROVE  IInv'
<1>0. Threads = Workers \cup {Manager} /\ Manager \notin Workers /\ NoThread \notin Threads
    BY PoolAssumption DEF Threads
<1>1. TypeOK'
    BY <1>0, PoolAssumption DEF IInv, FraudANI, Goto, TypeOK, PC, Throw, Roles
<1>2. Roles'
    BY <1>0, PoolAssumption DEF IInv, FraudANI, Goto, TypeOK, PC, Throw, Roles
<1>3. Holding'
    BY <1>0 DEF IInv, FraudANI, Goto, TypeOK, Holding
<1>4. Exclusive' /\ LostForGood' /\ Conserved'
    BY <1>0, Quiet DEF IInv, FraudANI, Goto, TypeOK
<1>5. Permits' /\ NullsExplained'
  <2>1. InGet \in Nat /\ PostsDue \in Nat /\ InGet' = InGet /\ PostsDue' = PostsDue
    <3>1. TypeOK /\ Goto(t, "idle", "get_wait")
        BY DEF IInv, FraudANI
    <3>2. "idle" \in PC /\ "get_wait" \in PC /\ t \in Threads
        BY DEF PC, Threads
    <3>3. QED
        BY ONLY <3>1, <3>2, Counts
  <2>2. sem \in Nat /\ nulls \in Nat /\ Len(fifo) \in Nat /\ Cardinality(dropped) \in Nat
    BY DroppedFinite DEF IInv, TypeOK
  <2>3. QED
    BY <2>1, <2>2, <1>1 DEF IInv, FraudANI, Permits, NullsExplained
<1>6. QED
    BY <1>1, <1>2, <1>3, <1>4, <1>5 DEF IInv

LEMMA UseStep ==
    ASSUME IInv, NEW t \in Workers, Use(t)
    PROVE  IInv'
<1>0. Threads = Workers \cup {Manager} /\ Manager \notin Workers /\ NoThread \notin Threads
    BY PoolAssumption DEF Threads
<1>1. TypeOK'
    BY <1>0, PoolAssumption DEF IInv, Use, Goto, TypeOK, PC, Throw, Roles
<1>2. Roles'
    BY <1>0, PoolAssumption DEF IInv, Use, Goto, TypeOK, PC, Throw, Roles
<1>3. Holding'
    BY <1>0 DEF IInv, Use, Goto, TypeOK, Holding
<1>4. Exclusive' /\ LostForGood' /\ Conserved'
    BY <1>0, Quiet DEF IInv, Use, Goto, TypeOK
<1>5. Permits' /\ NullsExplained'
  <2>1. InGet \in Nat /\ PostsDue \in Nat /\ InGet' = InGet /\ PostsDue' = PostsDue
    <3>1. TypeOK /\ Goto(t, "use", "add_lock")
        BY DEF IInv, Use
    <3>2. "use" \in PC /\ "add_lock" \in PC /\ t \in Threads
        BY DEF PC, Threads
    <3>3. QED
        BY ONLY <3>1, <3>2, Counts
  <2>2. sem \in Nat /\ nulls \in Nat /\ Len(fifo) \in Nat /\ Cardinality(dropped) \in Nat
    BY DroppedFinite DEF IInv, TypeOK
  <2>3. QED
    BY <2>1, <2>2, <1>1 DEF IInv, Use, Permits, NullsExplained
<1>6. QED
    BY <1>1, <1>2, <1>3, <1>4, <1>5 DEF IInv

LEMMA FillStep ==
    ASSUME IInv, Fill
    PROVE  IInv'
<1>0. Threads = Workers \cup {Manager} /\ Manager \notin Workers /\ NoThread \notin Threads
    BY PoolAssumption DEF Threads
<1>1. TypeOK'
    BY <1>0, PoolAssumption DEF IInv, Fill, Goto, TypeOK, PC, Throw, Roles
<1>2. Roles'
    BY <1>0, PoolAssumption DEF IInv, Fill, Goto, TypeOK, PC, Throw, Roles
<1>3. Holding'
    BY <1>0 DEF IInv, Fill, Goto, TypeOK, Holding
<1>4. Exclusive' /\ LostForGood' /\ Conserved'
    BY <1>0, Quiet DEF IInv, Fill, Goto, TypeOK
<1>5. Permits' /\ NullsExplained'
  <2>1. InGet \in Nat /\ PostsDue \in Nat /\ InGet' = InGet /\ PostsDue' = PostsDue
    <3>1. TypeOK /\ Goto(Manager, "idle", "fill")
        BY DEF IInv, Fill
    <3>2. "idle" \in PC /\ "fill" \in PC /\ Manager \in Threads
        BY DEF PC, Threads
    <3>3. QED
        BY ONLY <3>1, <3>2, Counts
  <2>2. sem \in Nat /\ nulls \in Nat /\ Len(fifo) \in Nat /\ Cardinality(dropped) \in Nat
    BY DroppedFinite DEF IInv, TypeOK
  <2>3. QED
    BY <2>1, <2>2, <1>1 DEF IInv, Fill, Permits, NullsExplained
<1>6. QED
    BY <1>1, <1>2, <1>3, <1>4, <1>5 DEF IInv

LEMMA FillNewThrowsStep ==
    ASSUME IInv, FillNewThrows
    PROVE  IInv'
<1>0. Threads = Workers \cup {Manager} /\ Manager \notin Workers /\ NoThread \notin Threads
    BY PoolAssumption DEF Threads
<1>1. TypeOK'
    BY <1>0, PoolAssumption DEF IInv, FillNewThrows, Goto, TypeOK, PC, Throw, Roles
<1>2. Roles'
    BY <1>0, PoolAssumption DEF IInv, FillNewThrows, Goto, TypeOK, PC, Throw, Roles
<1>3. Holding'
    BY <1>0 DEF IInv, FillNewThrows, Goto, TypeOK, Holding
<1>4. Exclusive' /\ LostForGood' /\ Conserved'
    BY <1>0, Quiet DEF IInv, FillNewThrows, Goto, TypeOK
<1>5. Permits' /\ NullsExplained'
  <2>1. InGet \in Nat /\ PostsDue \in Nat /\ InGet' = InGet /\ PostsDue' = PostsDue
    <3>1. TypeOK /\ Goto(Manager, "fill", "idle")
        BY DEF IInv, FillNewThrows
    <3>2. "fill" \in PC /\ "idle" \in PC /\ Manager \in Threads
        BY DEF PC, Threads
    <3>3. QED
        BY ONLY <3>1, <3>2, Counts
  <2>2. sem \in Nat /\ nulls \in Nat /\ Len(fifo) \in Nat /\ Cardinality(dropped) \in Nat
    BY DroppedFinite DEF IInv, TypeOK
  <2>3. QED
    BY <2>1, <2>2, <1>1 DEF IInv, FillNewThrows, Permits, NullsExplained
<1>6. QED
    BY <1>1, <1>2, <1>3, <1>4, <1>5 DEF IInv

LEMMA FillDoneStep ==
    ASSUME IInv, FillDone
    PROVE  IInv'
<1>0. Threads = Workers \cup {Manager} /\ Manager \notin Workers /\ NoThread \notin Threads
    BY PoolAssumption DEF Threads
<1>1. TypeOK'
    BY <1>0, PoolAssumption DEF IInv, FillDone, Goto, TypeOK, PC, Throw, Roles
<1>2. Roles'
    BY <1>0, PoolAssumption DEF IInv, FillDone, Goto, TypeOK, PC, Throw, Roles
<1>3. Holding'
    BY <1>0 DEF IInv, FillDone, Goto, TypeOK, Holding
<1>4. Exclusive' /\ LostForGood' /\ Conserved'
    BY <1>0, Quiet DEF IInv, FillDone, Goto, TypeOK
<1>5. Permits' /\ NullsExplained'
  <2>1. InGet \in Nat /\ PostsDue \in Nat /\ InGet' = InGet /\ PostsDue' = PostsDue
    <3>1. TypeOK /\ Goto(Manager, "fill", "idle")
        BY DEF IInv, FillDone
    <3>2. "fill" \in PC /\ "idle" \in PC /\ Manager \in Threads
        BY DEF PC, Threads
    <3>3. QED
        BY ONLY <3>1, <3>2, Counts
  <2>2. sem \in Nat /\ nulls \in Nat /\ Len(fifo) \in Nat /\ Cardinality(dropped) \in Nat
    BY DroppedFinite DEF IInv, TypeOK
  <2>3. QED
    BY <2>1, <2>2, <1>1 DEF IInv, FillDone, Permits, NullsExplained
<1>6. QED
    BY <1>1, <1>2, <1>3, <1>4, <1>5 DEF IInv

LEMMA EmptyStep ==
    ASSUME IInv, Empty
    PROVE  IInv'
<1>0. Threads = Workers \cup {Manager} /\ Manager \notin Workers /\ NoThread \notin Threads
    BY PoolAssumption DEF Threads
<1>1. TypeOK'
    BY <1>0, PoolAssumption DEF IInv, Empty, Goto, TypeOK, PC, Throw, Roles
<1>2. Roles'
    BY <1>0, PoolAssumption DEF IInv, Empty, Goto, TypeOK, PC, Throw, Roles
<1>3. Holding'
    BY <1>0 DEF IInv, Empty, Goto, TypeOK, Holding
<1>4. Exclusive' /\ LostForGood' /\ Conserved'
    BY <1>0, Quiet DEF IInv, Empty, Goto, TypeOK
<1>5. Permits' /\ NullsExplained'
  <2>1. InGet \in Nat /\ PostsDue \in Nat /\ InGet' = InGet /\ PostsDue' = PostsDue
    <3>1. TypeOK /\ Goto(Manager, "idle", "empty")
        BY DEF IInv, Empty
    <3>2. "idle" \in PC /\ "empty" \in PC /\ Manager \in Threads
        BY DEF PC, Threads
    <3>3. QED
        BY ONLY <3>1, <3>2, Counts
  <2>2. sem \in Nat /\ nulls \in Nat /\ Len(fifo) \in Nat /\ Cardinality(dropped) \in Nat
    BY DroppedFinite DEF IInv, TypeOK
  <2>3. QED
    BY <2>1, <2>2, <1>1 DEF IInv, Empty, Permits, NullsExplained
<1>6. QED
    BY <1>1, <1>2, <1>3, <1>4, <1>5 DEF IInv
LEMMA GetFrontStep ==
    ASSUME IInv, NEW t \in Threads, GetFront(t)
    PROVE  IInv'
<1>0. /\ Threads = Workers \cup {Manager} /\ Manager \notin Workers
      /\ NoThread \notin Threads /\ NULL \notin Objs
    BY PoolAssumption DEF Threads
<1>1. /\ pc[t] = "get_front" /\ pc' = [pc EXCEPT ![t] = "get_pop"]
      /\ fifo # <<>> /\ pRedis' = [pRedis EXCEPT ![t] = fifo[1]]
      /\ UNCHANGED <<fifo, sem, mutex, alive, added, throws, empties, dropped,
                     abandoned, nulls>>
    BY DEF GetFront, Goto, Hold, IInv, TypeOK
<1>2. 1 \in DOMAIN fifo /\ fifo[1] \in Objs /\ fifo[1] \in alive
    BY <1>1 DEF IInv, TypeOK, Exclusive
<1>3. \A u \in Threads \ {t} : pc[u] # "get_pop"
    BY <1>1 DEF IInv, Roles
<1>4. \A u \in Threads \ {t} : pRedis[u] # fifo[1]
    BY <1>2, <1>3, <1>0 DEF IInv, Exclusive, TypeOK
<1>5. TypeOK'
    BY <1>1, <1>2 DEF IInv, TypeOK, PC
<1>6. Roles'
    BY <1>0, <1>1, <1>2, <1>3 DEF IInv, TypeOK, Roles
<1>7. Holding'
    BY <1>0, <1>1, <1>2 DEF IInv, TypeOK, Holding
<1>8. Exclusive'
    BY <1>1, <1>2, <1>4 DEF IInv, TypeOK, Exclusive
<1>9. LostForGood'
    BY <1>1, <1>2 DEF IInv, TypeOK, LostForGood
<1>10. Conserved'
  <2>1. pRedis[t] = NULL
    BY <1>1 DEF IInv, Holding
  <2>2. QED
    BY <1>0, <1>1, <2>1 DEF IInv, TypeOK, Conserved
<1>11. Permits' /\ NullsExplained'
  <2>1. InGet \in Nat /\ PostsDue \in Nat /\ InGet' = InGet /\ PostsDue' = PostsDue
    <3>1. TypeOK /\ Goto(t, "get_front", "get_pop")
        BY DEF IInv, GetFront
    <3>2. "get_front" \in PC /\ "get_pop" \in PC /\ t \in Threads
        BY DEF PC, Threads
    <3>3. QED
        BY ONLY <3>1, <3>2, Counts
  <2>2. sem \in Nat /\ nulls \in Nat /\ Len(fifo) \in Nat /\ Cardinality(dropped) \in Nat
    BY DroppedFinite DEF IInv, TypeOK
  <2>3. QED
    BY <2>1, <2>2, <1>1 DEF IInv, Permits, NullsExplained
<1>12. QED
    BY <1>5, <1>6, <1>7, <1>8, <1>9, <1>10, <1>11 DEF IInv

LEMMA GetNullStep ==
    ASSUME IInv, NEW t \in Threads, GetNull(t)
    PROVE  IInv'
<1>0. /\ Threads = Workers \cup {Manager} /\ Manager \notin Workers
      /\ NoThread \notin Threads /\ NULL \notin Objs
    BY PoolAssumption DEF Threads
<1>1. /\ pc[t] = "get_front"
      /\ pc' = [pc EXCEPT ![t] = IF t = Manager THEN "empty" ELSE "idle"]
      /\ fifo = <<>> /\ nulls' = nulls + 1 /\ mutex' = NoThread
      /\ UNCHANGED <<pRedis, fifo, sem, alive, added, throws, empties, dropped,
                     abandoned>>
    BY DEF GetNull, Goto
<1>2. TypeOK'
    BY <1>1 DEF IInv, TypeOK, PC
<1>3. Roles'
    BY <1>0, <1>1 DEF IInv, TypeOK, Roles
<1>4. Holding'
    BY <1>0, <1>1 DEF IInv, TypeOK, Holding
<1>5. Exclusive' /\ LostForGood' /\ Conserved'
    BY <1>1, Quiet DEF IInv, TypeOK
<1>6. Permits' /\ NullsExplained'
  <2>1. /\ InGet \in Nat /\ PostsDue \in Nat /\ InGet > 0
        /\ InGet' = InGet - 1 /\ PostsDue' = PostsDue
    <3>1. TypeOK /\ Goto(t, "get_front", IF t = Manager THEN "empty" ELSE "idle")
        BY DEF IInv, GetNull
    <3>2. "get_front" \in PC /\ (IF t = Manager THEN "empty" ELSE "idle") \in PC
        BY DEF PC
    <3>3. QED
        BY ONLY <3>1, <3>2, t \in Threads, Counts
  <2>2. sem \in Nat /\ nulls \in Nat /\ Len(fifo) = 0 /\ Cardinality(dropped) \in Nat
    BY <1>1, DroppedFinite DEF IInv, TypeOK
  <2>3. QED
    BY <2>1, <2>2, <1>1 DEF IInv, Permits, NullsExplained
<1>7. QED
    BY <1>2, <1>3, <1>4, <1>5, <1>6 DEF IInv

LEMMA GetPopStep ==
    ASSUME IInv, NEW t \in Threads, GetPop(t)
    PROVE  IInv'
<1>0. /\ Threads = Workers \cup {Manager} /\ Manager \notin Workers
      /\ NoThread \notin Threads /\ NULL \notin Objs
    BY PoolAssumption DEF Threads
<1>1. /\ pc[t] = "get_pop"
      /\ pc' = [pc EXCEPT ![t] = IF t = Manager THEN "delete" ELSE "use"]
      /\ fifo' = Tail(fifo) /\ mutex' = NoThread
      /\ UNCHANGED <<pRedis, sem, alive, added, throws, empties, dropped,
                     abandoned, nulls>>
    BY DEF GetPop, Goto
<1>2. fifo # <<>> /\ fifo[1] = pRedis[t] /\ mutex = t
    BY <1>1 DEF IInv, Roles
<1>3. /\ fifo \in Seq(Objs) /\ Len(fifo) \in Nat /\ Len(fifo) > 0
      /\ DOMAIN fifo = 1..Len(fifo)
      /\ fifo' \in Seq(Objs) /\ Len(fifo') = Len(fifo) - 1
      /\ DOMAIN fifo' = 1..(Len(fifo) - 1)
      /\ \A i \in 1..(Len(fifo) - 1) : fifo'[i] = fifo[i + 1] /\ i + 1 \in DOMAIN fifo
    BY <1>1, <1>2 DEF IInv, TypeOK
<1>4. \A i, j \in DOMAIN fifo : fifo[i] = fifo[j] => i = j
    BY DEF IInv, Exclusive
<1>5. \A i \in DOMAIN fifo' : fifo'[i] # pRedis[t]
    BY <1>2, <1>3, <1>4
<1>6. \A u \in Threads \ {t} : pc[u] \notin {"get_pop", "get_front", "add_push"}
    BY <1>1, <1>2 DEF IInv, Roles
<1>7. TypeOK'
    BY <1>1, <1>3 DEF IInv, TypeOK, PC
<1>8. Roles'
    BY <1>0, <1>1, <1>6 DEF IInv, TypeOK, Roles
<1>9. Holding'
    BY <1>0, <1>1 DEF IInv, TypeOK, Holding
<1>10. Exclusive'
  <2>1. \A u \in Threads : pRedis[u] # NULL => \A i \in DOMAIN fifo' : fifo'[i] # pRedis[u]
    BY <1>3, <1>5, <1>6 DEF IInv, Exclusive
  <2>2. \A i, j \in DOMAIN fifo' : fifo'[i] = fifo'[j] => i = j
    BY <1>3, <1>4
  <2>3. \A i \in DOMAIN fifo' : fifo'[i] \in alive
    BY <1>3 DEF IInv, Exclusive
  <2>4. QED
    BY <2>1, <2>2, <2>3, <1>1 DEF IInv, Exclusive
<1>11. LostForGood'
    BY <1>1, <1>3 DEF IInv, LostForGood
<1>12. Conserved'
  <2> SUFFICES ASSUME NEW obj \in alive, NEW i \in DOMAIN fifo, fifo[i] = obj,
                      obj # pRedis[t]
               PROVE  \E j \in DOMAIN fifo' : fifo'[j] = obj
    BY <1>1 DEF IInv, Conserved
  <2>1. i # 1
    BY <1>2
  <2>2. i - 1 \in DOMAIN fifo' /\ fifo'[i - 1] = fifo[i]
    BY <2>1, <1>3
  <2>3. QED
    BY <2>2
<1>13. Permits' /\ NullsExplained'
  <2>1. InGet \in Nat /\ PostsDue \in Nat /\ InGet' = InGet - 1 /\ PostsDue' = PostsDue
    <3>1. TypeOK /\ Goto(t, "get_pop", (IF t = Manager THEN "delete" ELSE "use"))
        BY DEF IInv, GetPop
    <3>2. "get_pop" \in PC /\ (IF t = Manager THEN "delete" ELSE "use") \in PC /\ t \in Threads
        BY DEF PC, Threads
    <3>3. QED
        BY ONLY <3>1, <3>2, Counts
  <2>2. sem \in Nat /\ nulls \in Nat /\ Len(fifo) \in Nat /\ Cardinality(dropped) \in Nat
    BY DroppedFinite DEF IInv, TypeOK
  <2>3. Len(fifo') = Len(fifo) - 1 /\ UNCHANGED <<sem, nulls, dropped>>
    BY <1>1, <1>3
  <2>4. QED
    BY <2>1, <2>2, <2>3 DEF IInv, Permits, NullsExplained
<1>14. QED
    BY <1>7, <1>8, <1>9, <1>10, <1>11, <1>12, <1>13 DEF IInv

LEMMA AddPushStep ==
    ASSUME IInv, NEW t \in Threads, AddPush(t)
    PROVE  IInv'
<1>0. /\ Threads = Workers \cup {Manager} /\ Manager \notin Workers
      /\ NoThread \notin Threads /\ NULL \notin Objs
    BY PoolAssumption DEF Threads
<1>1. /\ pc[t] = "add_push" /\ pc' = [pc EXCEPT ![t] = "add_post"]
      /\ fifo' = Append(fifo, pRedis[t])
      /\ pRedis' = [pRedis EXCEPT ![t] = NULL] /\ mutex' = NoThread
      /\ UNCHANGED <<sem, alive, added, throws, empties, dropped, abandoned, nulls>>
    BY DEF AddPush, Goto, Hold
<1>2. /\ pRedis[t] # NULL /\ pRedis[t] \in Objs /\ pRedis[t] \in alive /\ mutex = t
      /\ \A i \in DOMAIN fifo : fifo[i] # pRedis[t]
    BY <1>1 DEF IInv, Roles, Holding, Exclusive, TypeOK
<1>3. /\ fifo \in Seq(Objs) /\ Len(fifo) \in Nat /\ DOMAIN fifo = 1..Len(fifo)
      /\ fifo' \in Seq(Objs) /\ Len(fifo') = Len(fifo) + 1
      /\ DOMAIN fifo' = 1..(Len(fifo) + 1)
      /\ fifo'[Len(fifo) + 1] = pRedis[t]
      /\ \A i \in DOMAIN fifo : fifo'[i] = fifo[i] /\ i \in DOMAIN fifo'
      /\ \A i \in DOMAIN fifo' : i \in DOMAIN fifo \/ i = Len(fifo) + 1
    BY <1>1, <1>2 DEF IInv, TypeOK
<1>4. \A u \in Threads \ {t} : pc[u] \notin {"get_pop", "get_front", "add_push"}
    BY <1>1, <1>2 DEF IInv, Roles
<1>5. \A u \in Threads \ {t} : pRedis'[u] = pRedis[u] /\ pRedis[u] # pRedis[t]
    BY <1>1, <1>2 DEF IInv, TypeOK, Exclusive
<1>6. pRedis'[t] = NULL
    BY <1>1 DEF IInv, TypeOK
<1>7. TypeOK'
    BY <1>1, <1>3 DEF IInv, TypeOK, PC
<1>8. Roles'
    BY <1>0, <1>1, <1>4 DEF IInv, TypeOK, Roles
<1>9. Holding'
    BY <1>0, <1>1 DEF IInv, TypeOK, Holding
<1>10. Exclusive'
  <2>1. \A u \in Threads : pRedis'[u] # NULL =>
            pRedis'[u] \in alive' /\ \A i \in DOMAIN fifo' : fifo'[i] # pRedis'[u]
    BY <1>1, <1>3, <1>4, <1>5, <1>6 DEF IInv, Exclusive
  <2>2. \A i, j \in DOMAIN fifo' : fifo'[i] = fifo'[j] => i = j
    <3>1. \A i, j \in DOMAIN fifo : fifo[i] = fifo[j] => i = j
        BY DEF IInv, Exclusive
    <3>2. QED
        BY <3>1, <1>2, <1>3
  <2>3. \A i \in DOMAIN fifo' : fifo'[i] \in alive'
    BY <1>1, <1>2, <1>3 DEF IInv, Exclusive
  <2>4. \A u, w \in Threads : pRedis'[u] # NULL /\ u # w => pRedis'[u] # pRedis'[w]
    BY <1>5, <1>6 DEF IInv, Exclusive
  <2>5. QED
    BY <2>1, <2>2, <2>3, <2>4 DEF Exclusive
<1>11. LostForGood'
  <2>1. \A obj \in dropped \cup abandoned : obj # NULL /\ obj # pRedis[t]
    BY <1>0 DEF IInv, TypeOK, LostForGood
  <2>2. QED
    BY <2>1, <1>1, <1>3, <1>5, <1>6 DEF IInv, LostForGood
<1>12. Conserved'
  <2> SUFFICES ASSUME NEW obj \in alive
               PROVE  \/ \E i \in DOMAIN fifo' : fifo'[i] = obj
                      \/ \E u \in Threads : pRedis'[u] = obj
                      \/ obj \in dropped \cup abandoned
    BY <1>1 DEF Conserved
  <2>1. CASE obj = pRedis[t]
    <3>1. Len(fifo) + 1 \in DOMAIN fifo'
        BY <1>3
    <3>2. QED
        BY <2>1, <3>1, <1>3
  <2>2. CASE obj # pRedis[t]
    <3>1. CASE \E i \in DOMAIN fifo : fifo[i] = obj
        BY <3>1, <1>3
    <3>2. CASE \E u \in Threads : pRedis[u] = obj
        BY <2>2, <3>2, <1>5
    <3>3. QED
        BY <3>1, <3>2 DEF IInv, Conserved
  <2>3. QED
    BY <2>1, <2>2
<1>13. Permits' /\ NullsExplained'
  <2>1. InGet \in Nat /\ PostsDue \in Nat /\ InGet' = InGet /\ PostsDue' = PostsDue + 1
    <3>1. TypeOK /\ Goto(t, "add_push", "add_post")
        BY DEF IInv, AddPush
    <3>2. "add_push" \in PC /\ "add_post" \in PC /\ t \in Threads
        BY DEF PC, Threads
    <3>3. QED
        BY ONLY <3>1, <3>2, Counts
  <2>2. sem \in Nat /\ nulls \in Nat /\ Len(fifo) \in Nat /\ Cardinality(dropped) \in Nat
    BY DroppedFinite DEF IInv, TypeOK
  <2>3. Len(fifo') = Len(fifo) + 1 /\ UNCHANGED <<sem, nulls, dropped>>
    BY <1>1, <1>3
  <2>4. QED
    BY <2>1, <2>2, <2>3 DEF IInv, Permits, NullsExplained
<1>14. QED
    BY <1>7, <1>8, <1>9, <1>10, <1>11, <1>12, <1>13 DEF IInv
LEMMA AddPushThrowsStep ==
    ASSUME IInv, NEW t \in Threads, AddPushThrows(t)
    PROVE  IInv'
<1>0. /\ Threads = Workers \cup {Manager} /\ Manager \notin Workers
      /\ NoThread \notin Threads /\ NULL \notin Objs
    BY PoolAssumption DEF Threads
<1>1. /\ pc[t] = "add_push" /\ pc' = [pc EXCEPT ![t] = "add_post"]
      /\ dropped' = dropped \cup {pRedis[t]}
      /\ pRedis' = [pRedis EXCEPT ![t] = NULL]
      /\ throws < MaxThrows /\ throws' = throws + 1
      /\ UNCHANGED <<fifo, sem, alive, added, empties, abandoned, nulls>>
      /\ mutex' = NoThread
    BY DEF AddPushThrows, Goto, Hold, Throw
<1>2. /\ pRedis[t] # NULL /\ pRedis[t] \in Objs /\ pRedis[t] \in alive
      /\ \A i \in DOMAIN fifo : fifo[i] # pRedis[t]
      /\ \A u \in Threads \ {t} : pRedis'[u] = pRedis[u] /\ pRedis[u] # pRedis[t]
      /\ pRedis'[t] = NULL
    BY <1>0, <1>1 DEF IInv, Roles, Holding, Exclusive, TypeOK
<1>3. \A u \in Threads \ {t} : pc[t] = "add_push" =>
        pc[u] \notin {"get_pop", "get_front", "add_push"}
    BY <1>0 DEF IInv, Roles
<1>4. TypeOK'
    BY <1>1, <1>2, PoolAssumption DEF IInv, TypeOK, PC
<1>5. Roles'
  <2>1. \A u \in Threads : pc'[u] = "get_pop" => u # t /\ pc[u] = "get_pop"
    BY <1>1 DEF IInv, TypeOK
  <2>2. QED
    BY <2>1, <1>0, <1>1, <1>2, <1>3 DEF IInv, TypeOK, Roles
<1>6. Holding'
    BY <1>0, <1>1 DEF IInv, TypeOK, Holding
<1>7. Exclusive'
  <2>1. \A u \in Threads : pRedis'[u] # NULL => u # t /\ (pc'[u] = pc[u])
    BY <1>1, <1>2 DEF IInv, TypeOK
  <2>2. QED
    BY <2>1, <1>1, <1>2 DEF IInv, Exclusive
<1>8. LostForGood'
  <2>1. \A obj \in dropped' \cup abandoned' :
            obj = pRedis[t] \/ obj \in dropped \cup abandoned
    BY <1>1
  <2>2. \A obj \in dropped \cup abandoned : obj # NULL
    BY <1>0 DEF IInv, TypeOK
  <2>3. QED
    BY <2>1, <2>2, <1>0, <1>1, <1>2 DEF IInv, LostForGood
<1>9. Conserved'
    BY <1>1, <1>2 DEF IInv, Conserved
<1>10. Permits' /\ NullsExplained'
  <2>1. InGet \in Nat /\ PostsDue \in Nat /\ InGet' = InGet /\ PostsDue' = PostsDue + 1
    <3>1. TypeOK /\ Goto(t, "add_push", "add_post")
        BY DEF IInv, AddPushThrows
    <3>2. "add_push" \in PC /\ "add_post" \in PC /\ t \in Threads
        BY DEF PC, Threads
    <3>3. QED
        BY ONLY <3>1, <3>2, Counts
  <2>2. sem \in Nat /\ nulls \in Nat /\ Len(fifo) \in Nat /\ Cardinality(dropped) \in Nat
    BY DroppedFinite DEF IInv, TypeOK
  <2>3. pRedis[t] \notin dropped
    BY DEF IInv, LostForGood
  <2>4. Cardinality(dropped') = Cardinality(dropped) + 1
    BY <2>3, <1>1, DroppedFinite, FS_AddElement DEF IInv
  <2>5. QED
    BY <2>1, <2>2, <2>4, <1>1 DEF IInv, Permits, NullsExplained
<1>11. QED
    BY <1>4, <1>5, <1>6, <1>7, <1>8, <1>9, <1>10 DEF IInv

LEMMA UseThrowsStep ==
    ASSUME IInv, NEW t \in Workers, UseThrows(t)
    PROVE  IInv'
<1>0. /\ Threads = Workers \cup {Manager} /\ Manager \notin Workers
      /\ NoThread \notin Threads /\ NULL \notin Objs
    BY PoolAssumption DEF Threads
<1>1. /\ pc[t] = "use" /\ pc' = [pc EXCEPT ![t] = "idle"]
      /\ abandoned' = abandoned \cup {pRedis[t]}
      /\ pRedis' = [pRedis EXCEPT ![t] = NULL]
      /\ throws < MaxThrows /\ throws' = throws + 1
      /\ UNCHANGED <<fifo, sem, alive, added, empties, dropped, nulls>>
      /\ mutex' = mutex
    BY DEF UseThrows, Goto, Hold, Throw
<1>2. /\ pRedis[t] # NULL /\ pRedis[t] \in Objs /\ pRedis[t] \in alive
      /\ \A i \in DOMAIN fifo : fifo[i] # pRedis[t]
      /\ \A u \in Threads \ {t} : pRedis'[u] = pRedis[u] /\ pRedis[u] # pRedis[t]
      /\ pRedis'[t] = NULL
    BY <1>0, <1>1 DEF IInv, Roles, Holding, Exclusive, TypeOK
<1>3. \A u \in Threads \ {t} : pc[t] = "add_push" =>
        pc[u] \notin {"get_pop", "get_front", "add_push"}
    BY <1>0 DEF IInv, Roles
<1>4. TypeOK'
    BY <1>1, <1>2, PoolAssumption DEF IInv, TypeOK, PC
<1>5. Roles'
  <2>1. \A u \in Threads : pc'[u] = "get_pop" => u # t /\ pc[u] = "get_pop"
    BY <1>1 DEF IInv, TypeOK
  <2>2. QED
    BY <2>1, <1>0, <1>1, <1>2, <1>3 DEF IInv, TypeOK, Roles
<1>6. Holding'
    BY <1>0, <1>1 DEF IInv, TypeOK, Holding
<1>7. Exclusive'
  <2>1. \A u \in Threads : pRedis'[u] # NULL => u # t /\ (pc'[u] = pc[u])
    BY <1>1, <1>2 DEF IInv, TypeOK
  <2>2. QED
    BY <2>1, <1>1, <1>2 DEF IInv, Exclusive
<1>8. LostForGood'
  <2>1. \A obj \in dropped' \cup abandoned' :
            obj = pRedis[t] \/ obj \in dropped \cup abandoned
    BY <1>1
  <2>2. \A obj \in dropped \cup abandoned : obj # NULL
    BY <1>0 DEF IInv, TypeOK
  <2>3. QED
    BY <2>1, <2>2, <1>0, <1>1, <1>2 DEF IInv, LostForGood
<1>9. Conserved'
    BY <1>1, <1>2 DEF IInv, Conserved
<1>10. Permits' /\ NullsExplained'
  <2>1. InGet \in Nat /\ PostsDue \in Nat /\ InGet' = InGet /\ PostsDue' = PostsDue
    <3>1. TypeOK /\ Goto(t, "use", "idle")
        BY DEF IInv, UseThrows
    <3>2. "use" \in PC /\ "idle" \in PC /\ t \in Threads
        BY DEF PC, Threads
    <3>3. QED
        BY ONLY <3>1, <3>2, Counts
  <2>2. sem \in Nat /\ nulls \in Nat /\ Len(fifo) \in Nat /\ Cardinality(dropped) \in Nat
    BY DroppedFinite DEF IInv, TypeOK
  <2>4. dropped' = dropped
    BY <1>1
  <2>5. QED
    BY <2>1, <2>2, <2>4, <1>1 DEF IInv, Permits, NullsExplained
<1>11. QED
    BY <1>4, <1>5, <1>6, <1>7, <1>8, <1>9, <1>10 DEF IInv

LEMMA AddPostStep ==
    ASSUME IInv, NEW t \in Threads, AddPost(t)
    PROVE  IInv'
<1>0. /\ Threads = Workers \cup {Manager} /\ Manager \notin Workers
      /\ NoThread \notin Threads /\ NULL \notin Objs
    BY PoolAssumption DEF Threads
<1>1. /\ pc[t] = "add_post" /\ pc' = [pc EXCEPT ![t] = AfterAdd(t)]
      /\ sem' = sem + 1
      /\ added' = IF t = Manager THEN added + 1 ELSE added
      /\ UNCHANGED <<pRedis, fifo, mutex, alive, throws, empties, dropped,
                     abandoned, nulls>>
    BY DEF AddPost, Goto
<1>2. TypeOK'
    BY <1>0, <1>1, PoolAssumption DEF IInv, TypeOK, PC, AfterAdd, Roles
<1>3. Roles'
    BY <1>0, <1>1 DEF IInv, TypeOK, Roles, AfterAdd
<1>4. Holding'
    BY <1>0, <1>1 DEF IInv, TypeOK, Holding, AfterAdd
<1>5. Exclusive' /\ LostForGood' /\ Conserved'
    BY <1>1, Quiet DEF IInv, TypeOK
<1>6. Permits' /\ NullsExplained'
  <2>1. InGet \in Nat /\ PostsDue \in Nat /\ InGet' = InGet /\ PostsDue' = PostsDue - 1
    <3>1. TypeOK /\ Goto(t, "add_post", AfterAdd(t))
        BY DEF IInv, AddPost
    <3>2. "add_post" \in PC /\ AfterAdd(t) \in PC /\ t \in Threads
        BY DEF PC, Threads, AfterAdd
    <3>3. QED
        BY ONLY <3>1, <3>2, Counts DEF AfterAdd
  <2>2. sem \in Nat /\ nulls \in Nat /\ Len(fifo) \in Nat /\ Cardinality(dropped) \in Nat
    BY DroppedFinite DEF IInv, TypeOK
  <2>3. QED
    BY <2>1, <2>2, <1>1 DEF IInv, Permits, NullsExplained
<1>7. QED
    BY <1>2, <1>3, <1>4, <1>5, <1>6 DEF IInv

LEMMA FillNewStep ==
    ASSUME IInv, FillNew
    PROVE  IInv'
<1>0. /\ Threads = Workers \cup {Manager} /\ Manager \notin Workers
      /\ NoThread \notin Threads /\ NULL \notin Objs
    BY PoolAssumption DEF Threads
<1>1. PICK obj \in Objs \ alive :
        /\ alive' = alive \cup {obj}
        /\ pRedis' = [pRedis EXCEPT ![Manager] = obj]
    BY DEF FillNew, Hold
<1>2. /\ pc[Manager] = "fill" /\ pc' = [pc EXCEPT ![Manager] = "add_lock"]
      /\ added < HowMany
      /\ UNCHANGED <<fifo, sem, mutex, added, throws, empties, dropped,
                     abandoned, nulls>>
    BY DEF FillNew, Goto
<1>3. TypeOK'
    BY <1>0, <1>1, <1>2 DEF IInv, TypeOK, PC
<1>4. Roles'
    BY <1>0, <1>1, <1>2 DEF IInv, TypeOK, Roles
<1>5. Holding'
    BY <1>0, <1>1, <1>2 DEF IInv, TypeOK, Holding
<1>6. pRedis[Manager] = NULL /\ \A t \in Threads : pRedis[t] # obj
    BY <1>0, <1>1, <1>2 DEF IInv, TypeOK, Holding, Exclusive
<1>7. Exclusive'
    BY <1>0, <1>1, <1>2, <1>6 DEF IInv, TypeOK, Exclusive
<1>8. LostForGood'
    BY <1>0, <1>1, <1>2 DEF IInv, TypeOK, LostForGood
<1>9. Conserved'
    BY <1>0, <1>1, <1>2, <1>6 DEF IInv, TypeOK, Conserved
<1>10. Permits' /\ NullsExplained'
  <2>1. InGet \in Nat /\ PostsDue \in Nat /\ InGet' = InGet /\ PostsDue' = PostsDue
    <3>1. TypeOK /\ Goto(Manager, "fill", "add_lock")
        BY DEF IInv, FillNew
    <3>2. "fill" \in PC /\ "add_lock" \in PC /\ Manager \in Threads
        BY DEF PC, Threads
    <3>3. QED
        BY ONLY <3>1, <3>2, Counts
  <2>2. sem \in Nat /\ nulls \in Nat /\ Len(fifo) \in Nat /\ Cardinality(dropped) \in Nat
    BY DroppedFinite DEF IInv, TypeOK
  <2>3. QED
    BY <2>1, <2>2, <1>2 DEF IInv, Permits, NullsExplained
<1>11. QED
    BY <1>3, <1>4, <1>5, <1>7, <1>8, <1>9, <1>10 DEF IInv

LEMMA EmptyLoopStep ==
    ASSUME IInv, EmptyLoop
    PROVE  IInv'
<1>0. /\ Threads = Workers \cup {Manager} /\ Manager \notin Workers
      /\ NoThread \notin Threads /\ NULL \notin Objs
    BY PoolAssumption DEF Threads
<1>1. PICK to \in {"get_wait", "idle"} : Goto(Manager, "empty", to)
    BY DEF EmptyLoop
<1>2. UNCHANGED <<pRedis, fifo, sem, mutex, alive, added, throws, empties,
                  dropped, abandoned, nulls>>
    BY DEF EmptyLoop
<1>3. TypeOK'
    BY <1>1, <1>2 DEF IInv, TypeOK, PC, Goto
<1>4. Roles'
    BY <1>0, <1>1, <1>2 DEF IInv, TypeOK, Roles, Goto
<1>5. Holding'
    BY <1>0, <1>1, <1>2 DEF IInv, TypeOK, Holding, Goto
<1>6. Exclusive' /\ LostForGood' /\ Conserved'
    BY <1>1, <1>2, Quiet DEF IInv, TypeOK, Goto
<1>7. Permits' /\ NullsExplained'
  <2>1. InGet \in Nat /\ PostsDue \in Nat /\ InGet' = InGet /\ PostsDue' = PostsDue
    <3>1. TypeOK /\ "empty" \in PC /\ to \in PC /\ Manager \in Threads
        BY DEF IInv, PC, Threads
    <3>2. QED
        BY ONLY <3>1, <1>1, to \in {"get_wait", "idle"}, Counts
  <2>2. QED
    BY <2>1, <1>2 DEF IInv, Permits, NullsExplained
<1>8. QED
    BY <1>3, <1>4, <1>5, <1>6, <1>7 DEF IInv

LEMMA DeleteStep ==
    ASSUME IInv, Delete
    PROVE  IInv'
<1>0. /\ Threads = Workers \cup {Manager} /\ Manager \notin Workers
      /\ NoThread \notin Threads /\ NULL \notin Objs
    BY PoolAssumption DEF Threads
<1>1. /\ pc[Manager] = "delete" /\ pc' = [pc EXCEPT ![Manager] = "empty"]
      /\ alive' = alive \ {pRedis[Manager]}
      /\ pRedis' = [pRedis EXCEPT ![Manager] = NULL]
      /\ UNCHANGED <<fifo, sem, mutex, added, throws, empties, dropped,
                     abandoned, nulls>>
    BY DEF Delete, Goto, Hold
<1>2. /\ pRedis[Manager] # NULL
      /\ \A i \in DOMAIN fifo : fifo[i] # pRedis[Manager]
      /\ \A u \in Workers : pRedis'[u] = pRedis[u] /\ pRedis[u] # pRedis[Manager]
      /\ pRedis'[Manager] = NULL
    BY <1>0, <1>1 DEF IInv, Holding, Exclusive, TypeOK
<1>3. TypeOK'
    BY <1>1 DEF IInv, TypeOK, PC
<1>4. Roles'
    BY <1>0, <1>1, <1>2 DEF IInv, TypeOK, Roles
<1>5. Holding'
    BY <1>0, <1>1 DEF IInv, TypeOK, Holding
<1>6. Exclusive'
    BY <1>0, <1>1, <1>2 DEF IInv, TypeOK, Exclusive
<1>7. LostForGood'
    BY <1>0, <1>1, <1>2 DEF IInv, TypeOK, LostForGood
<1>8. Conserved'
    BY <1>0, <1>1, <1>2 DEF IInv, Conserved
<1>9. Permits' /\ NullsExplained'
  <2>1. InGet \in Nat /\ PostsDue \in Nat /\ InGet' = InGet /\ PostsDue' = PostsDue
    <3>1. TypeOK /\ Goto(Manager, "delete", "empty")
        BY DEF IInv, Delete
    <3>2. "delete" \in PC /\ "empty" \in PC /\ Manager \in Threads
        BY DEF PC, Threads
    <3>3. QED
        BY ONLY <3>1, <3>2, Counts
  <2>2. sem \in Nat /\ nulls \in Nat /\ Len(fifo) \in Nat /\ Cardinality(dropped) \in Nat
    BY DroppedFinite DEF IInv, TypeOK
  <2>3. QED
    BY <2>1, <2>2, <1>1 DEF IInv, Permits, NullsExplained
<1>10. QED
    BY <1>3, <1>4, <1>5, <1>6, <1>7, <1>8, <1>9 DEF IInv

LEMMA NextIInv == IInv /\ [Next]_vars => IInv'
<1> SUFFICES ASSUME IInv, [Next]_vars PROVE IInv'
    OBVIOUS
<1>1. CASE UNCHANGED vars
    BY <1>1 DEF vars, IInv, TypeOK, Roles, Holding, Exclusive, LostForGood,
        Conserved, Permits, NullsExplained, InGet, PostsDue, Count
<1>2. ASSUME NEW t \in Threads, Operation(t) PROVE IInv'
    BY <1>2, GetWaitStep, GetLockStep, GetFrontStep, GetNullStep, GetPopStep,
        AddLockStep, AddPushStep, AddPushThrowsStep, AddPostStep DEF Operation
<1>3. ASSUME NEW t \in Workers, Worker(t) PROVE IInv'
    BY <1>2, <1>3, FraudANIStep, UseStep, UseThrowsStep DEF Worker, Threads
<1>4. ASSUME ManagerStep PROVE IInv'
    BY <1>2, <1>4, FillStep, FillNewStep, FillNewThrowsStep, FillDoneStep,
        EmptyStep, EmptyLoopStep, DeleteStep DEF ManagerStep, Threads
<1>5. QED
    BY <1>1, <1>3, <1>4 DEF Next

(* Every reachable state satisfies the inductive invariant.                *)
THEOREM Invariance == Spec => []IInv
    BY InitIInv, NextIInv, PTL DEF Spec

(* The variables keep their types.                                         *)
THEOREM TypeCorrect == Spec => []TypeOK
<1>1. IInv => TypeOK
    BY DEF IInv
<1>2. QED
    BY <1>1, Invariance, PTL

(* The claim of Redis.cpp:325 and 371: a CRedis taken from the pool needs  *)
(* no lock, because no other thread can have it.                           *)
THEOREM NoLockNeeded == Spec => []Exclusive
<1>1. IInv => Exclusive
    BY DEF IInv
<1>2. QED
    BY <1>1, Invariance, PTL

(* Objects are lost only to exceptions.                                    *)
THEOREM NoObjectLost == Spec => []Conserved
<1>1. IInv => Conserved
    BY DEF IInv
<1>2. QED
    BY <1>1, Invariance, PTL

(* Permits balance objects, and a NULL from Get is the price of exactly    *)
(* one push that threw.                                                    *)
THEOREM PermitsBalance == Spec => []PermitsBalanced
<1>1. IInv => PermitsBalanced
    BY DEF IInv, PermitsBalanced
<1>2. QED
    BY <1>1, Invariance, PTL
=============================================================================
