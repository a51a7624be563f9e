----------------------------- MODULE RedisPool -----------------------------
(***************************************************************************)
(* CRedisPool of Redis.cpp with the CSemaphore and CMutex classes of       *)
(* Redis.h: a queue of connection objects that worker threads borrow for   *)
(* one FraudANI call each, and that a managing thread fills and empties.   *)
(*                                                                         *)
(* What a worker does with the object it holds (CRedis::FraudANI) is one   *)
(* step here and is specified in RedisConnection.  Any allocation may      *)
(* throw: Add catches what push throws, nothing else is caught.            *)
(***************************************************************************)
EXTENDS Integers, Sequences, FiniteSets

CONSTANTS
    Workers,        \* threads that call CRedisPool::FraudANI
    Manager,        \* the thread that calls Fill and Empty
    Objs,           \* where a CRedis can be allocated
    NULL, NoThread,
    HowMany,        \* p_HowMany of Fill
    MaxThrows,      \* bound: how many allocations fail
    MaxEmpties      \* bound: how often the manager calls Empty

Threads == Workers \cup {Manager}

ASSUME PoolAssumption ==
    /\ IsFiniteSet(Workers) /\ IsFiniteSet(Objs)
    /\ Manager \notin Workers /\ NoThread \notin Threads
    /\ NULL \notin Objs
    /\ HowMany \in Nat /\ MaxThrows \in Nat /\ MaxEmpties \in Nat

VARIABLES
    pc,             \* where each thread is
    pRedis,         \* the object each thread has in hand, or NULL
    fifo,           \* the std::queue the pool derives from
    sem,            \* count of the CSemaphore (its maximum is LONG_MAX)
    mutex,          \* owner of the CMutex
    alive,          \* the CRedis objects that are allocated
    added,          \* l_Added of the Fill in progress
    throws, empties,    \* how often `new' has thrown and Empty was called
    dropped,        \* history: objects whose push threw
    abandoned,      \* history: objects a worker's exception left behind
    nulls           \* history: how often Get returned NULL

vars == <<pc, pRedis, fifo, sem, mutex, alive, added, throws, empties,
          dropped, abandoned, nulls>>

PC == {"idle", "get_wait", "get_lock", "get_front", "get_pop", "use",
       "add_lock", "add_push", "add_post", "fill", "empty", "delete"}

Init ==
    /\ pc = [t \in Threads |-> "idle"]
    /\ pRedis = [t \in Threads |-> NULL]
    /\ fifo = <<>>
    /\ sem = 0
    /\ mutex = NoThread
    /\ alive = {}
    /\ added = 0 /\ throws = 0 /\ empties = 0
    /\ dropped = {} /\ abandoned = {}
    /\ nulls = 0

Goto(t, from, to) == pc[t] = from /\ pc' = [pc EXCEPT ![t] = to]

Hold(t, obj) == pRedis' = [pRedis EXCEPT ![t] = obj]

Throw == throws < MaxThrows /\ throws' = throws + 1

(* Where Add returns to: FraudANI for a worker, the loop of Fill for the   *)
(* manager.  Get returns NULL or an object to FraudANI or to Empty.        *)
AfterAdd(t) == IF t = Manager THEN "fill" ELSE "idle"

-----------------------------------------------------------------------------
(* Get: Wait; Lock; take the front, or NULL when there is none; Unlock.    *)

(* Mutant: Get does not consume a permit.                                  *)
GetWaitKeepsPermit(t) ==
    /\ Goto(t, "get_wait", "get_lock")
    /\ sem > 0
    /\ UNCHANGED <<pRedis, fifo, sem, mutex, alive, added, throws, empties,
                   dropped, abandoned, nulls>>

GetWait(t) ==
    /\ Goto(t, "get_wait", "get_lock")
    /\ sem > 0
    /\ sem' = sem - 1
    /\ UNCHANGED <<pRedis, fifo, mutex, alive, added, throws, empties,
                   dropped, abandoned, nulls>>

(* Mutant: the result of a timed wait for the mutex is ignored.            *)
GetLockIgnored(t) ==
    /\ Goto(t, "get_lock", "get_front")
    /\ mutex' = t
    /\ UNCHANGED <<pRedis, fifo, sem, alive, added, throws, empties,
                   dropped, abandoned, nulls>>

GetLock(t) ==
    /\ Goto(t, "get_lock", "get_front")
    /\ mutex = NoThread
    /\ mutex' = t
    /\ UNCHANGED <<pRedis, fifo, sem, alive, added, throws, empties,
                   dropped, abandoned, nulls>>

GetFront(t) ==
    /\ Goto(t, "get_front", "get_pop")
    /\ fifo # <<>>
    /\ Hold(t, Head(fifo))
    /\ UNCHANGED <<fifo, sem, mutex, alive, added, throws, empties, dropped,
                   abandoned, nulls>>

GetNull(t) ==
    /\ Goto(t, "get_front", IF t = Manager THEN "empty" ELSE "idle")
    /\ fifo = <<>>
    /\ nulls' = nulls + 1
    /\ mutex' = NoThread
    /\ UNCHANGED <<pRedis, fifo, sem, alive, added, throws, empties, dropped,
                   abandoned>>

GetPop(t) ==
    /\ Goto(t, "get_pop", IF t = Manager THEN "delete" ELSE "use")
    /\ fifo' = Tail(fifo)
    /\ mutex' = NoThread
    /\ UNCHANGED <<pRedis, sem, alive, added, throws, empties, dropped,
                   abandoned, nulls>>

-----------------------------------------------------------------------------
(* Add: Lock; push, its exceptions caught; Unlock; Post.                   *)

AddLock(t) ==
    /\ Goto(t, "add_lock", "add_push")
    /\ mutex = NoThread
    /\ mutex' = t
    /\ UNCHANGED <<pRedis, fifo, sem, alive, added, throws, empties,
                   dropped, abandoned, nulls>>

AddPush(t) ==
    /\ Goto(t, "add_push", "add_post")
    /\ fifo' = Append(fifo, pRedis[t])
    /\ Hold(t, NULL)
    /\ mutex' = NoThread
    /\ UNCHANGED <<sem, alive, added, throws, empties, dropped, abandoned, nulls>>

(* push throws: the catch (...) swallows it, the object is in no list, and *)
(* Unlock and Post go on as if it were.                                    *)
AddPushThrows(t) ==
    /\ Goto(t, "add_push", "add_post")
    /\ Throw
    /\ dropped' = dropped \cup {pRedis[t]}
    /\ Hold(t, NULL)
    /\ mutex' = NoThread
    /\ UNCHANGED <<fifo, sem, alive, added, empties, abandoned, nulls>>

(* Mutant: only Fill posts, a worker gives its object back silently.       *)
AddPostOnlyFill(t) ==
    /\ Goto(t, "add_post", AfterAdd(t))
    /\ sem' = IF t = Manager THEN sem + 1 ELSE sem
    /\ added' = IF t = Manager THEN added + 1 ELSE added
    /\ UNCHANGED <<pRedis, fifo, mutex, alive, throws, empties, dropped,
                   abandoned, nulls>>

AddPost(t) ==
    /\ Goto(t, "add_post", AfterAdd(t))
    /\ sem' = sem + 1
    /\ added' = IF t = Manager THEN added + 1 ELSE added
    /\ UNCHANGED <<pRedis, fifo, mutex, alive, throws, empties, dropped,
                   abandoned, nulls>>

Operation(t) ==
    \/ GetWait(t) \/ GetLock(t) \/ GetFront(t) \/ GetNull(t) \/ GetPop(t)
    \/ AddLock(t) \/ AddPush(t) \/ AddPushThrows(t) \/ AddPost(t)

-----------------------------------------------------------------------------
(* A worker: FraudANI is Get; if an object came, use it and Add it back.   *)

FraudANI(t) ==
    /\ Goto(t, "idle", "get_wait")
    /\ UNCHANGED <<pRedis, fifo, sem, mutex, alive, added, throws, empties,
                   dropped, abandoned, nulls>>

Use(t) ==
    /\ Goto(t, "use", "add_lock")
    /\ UNCHANGED <<pRedis, fifo, sem, mutex, alive, added, throws, empties,
                   dropped, abandoned, nulls>>

(* An exception out of CRedis::FraudANI (its Log calls allocate) leaves    *)
(* CRedisPool::FraudANI without Add: the object and its permit are gone.   *)
UseThrows(t) ==
    /\ Goto(t, "use", "idle")
    /\ Throw
    /\ abandoned' = abandoned \cup {pRedis[t]}
    /\ Hold(t, NULL)
    /\ UNCHANGED <<fifo, sem, mutex, alive, added, empties, dropped, nulls>>

Worker(t) == FraudANI(t) \/ Use(t) \/ UseThrows(t) \/ Operation(t)

-----------------------------------------------------------------------------
(* The manager.  Fill is called when there is room for its objects (a      *)
(* bound of the model).                                                    *)

Fill ==
    /\ Goto(Manager, "idle", "fill")
    /\ Cardinality(alive) + HowMany <= Cardinality(Objs)
    /\ added' = 0
    /\ UNCHANGED <<pRedis, fifo, sem, mutex, alive, throws, empties,
                   dropped, abandoned, nulls>>

FillNew ==
    /\ Goto(Manager, "fill", "add_lock")
    /\ added < HowMany
    /\ \E obj \in Objs \ alive :
        /\ alive' = alive \cup {obj}
        /\ Hold(Manager, obj)
    /\ UNCHANGED <<fifo, sem, mutex, added, throws, empties, dropped,
                   abandoned, nulls>>

FillNewThrows ==
    /\ Goto(Manager, "fill", "idle")
    /\ added < HowMany
    /\ Throw
    /\ UNCHANGED <<pRedis, fifo, sem, mutex, alive, added, empties, dropped,
                   abandoned, nulls>>

FillDone ==
    /\ Goto(Manager, "fill", "idle")
    /\ added = HowMany
    /\ UNCHANGED <<pRedis, fifo, sem, mutex, alive, added, throws, empties,
                   dropped, abandoned, nulls>>

Empty ==
    /\ Goto(Manager, "idle", "empty")
    /\ empties < MaxEmpties
    /\ empties' = empties + 1
    /\ UNCHANGED <<pRedis, fifo, sem, mutex, alive, added, throws, dropped,
                   abandoned, nulls>>

(* empty() is read without the lock: a thread in the middle of push or pop *)
(* makes the answer arbitrary.                                             *)
EmptySeen == IF mutex = NoThread THEN {fifo = <<>>} ELSE BOOLEAN

EmptyLoop ==
    /\ \/ FALSE \in EmptySeen /\ Goto(Manager, "empty", "get_wait")
       \/ TRUE \in EmptySeen /\ Goto(Manager, "empty", "idle")
    /\ UNCHANGED <<pRedis, fifo, sem, mutex, alive, added, throws, empties,
                   dropped, abandoned, nulls>>

(* Mutant: Empty forgets to delete what it takes out.                      *)
DeleteNothing ==
    /\ Goto(Manager, "delete", "empty")
    /\ Hold(Manager, NULL)
    /\ UNCHANGED <<fifo, sem, mutex, alive, added, throws, empties, dropped,
                   abandoned, nulls>>

Delete ==
    /\ Goto(Manager, "delete", "empty")
    /\ alive' = alive \ {pRedis[Manager]}
    /\ Hold(Manager, NULL)
    /\ UNCHANGED <<fifo, sem, mutex, added, throws, empties, dropped,
                   abandoned, nulls>>

ManagerStep == Fill \/ FillNew \/ FillNewThrows \/ FillDone
                 \/ Empty \/ EmptyLoop \/ Delete \/ Operation(Manager)

Next == (\E t \in Workers : Worker(t)) \/ ManagerStep

Spec == Init /\ [][Next]_vars

(* Threads that can go on do; the kernel hands a semaphore or a mutex to   *)
(* its waiters in turn, so nobody waits for ever while others pass.  No    *)
(* thread has to call FraudANI, Fill or Empty.                             *)
Fairness ==
    /\ \A t \in Workers : /\ WF_vars(Use(t) \/ Operation(t))
                          /\ SF_vars(GetWait(t))
                          /\ SF_vars(GetLock(t))
                          /\ SF_vars(AddLock(t))
    /\ WF_vars(FillNew \/ FillDone \/ EmptyLoop \/ Delete \/ Operation(Manager))
    /\ SF_vars(GetWait(Manager)) /\ SF_vars(GetLock(Manager))
    /\ SF_vars(AddLock(Manager))

FairSpec == Spec /\ Fairness

(* The manager does fill the pool.                                         *)
FilledSpec == FairSpec /\ WF_vars(Fill)

-----------------------------------------------------------------------------
(* The variables have their types: the pool holds only objects, the count  *)
(* of the semaphore is never negative, Fill adds at most HowMany objects.  *)
TypeOK ==
    /\ pc \in [Threads -> PC]
    /\ pRedis \in [Threads -> Objs \cup {NULL}]
    /\ fifo \in Seq(Objs)
    /\ sem \in Nat
    /\ mutex \in Threads \cup {NoThread}
    /\ alive \in SUBSET Objs
    /\ added \in 0..HowMany
    /\ throws \in 0..MaxThrows /\ empties \in 0..MaxEmpties
    /\ dropped \in SUBSET Objs /\ abandoned \in SUBSET Objs
    /\ nulls \in Nat

(* "No lock needed. We are now in a synchronized pool" (Redis.cpp:325):    *)
(* the object a thread holds is held by no other thread, is not in the     *)
(* pool for another to take once Get has popped it, and is not deleted     *)
(* under it.                                                               *)
Exclusive ==
    /\ \A t, u \in Threads : pRedis[t] # NULL /\ t # u => pRedis[t] # pRedis[u]
    /\ \A t \in Threads : pRedis[t] # NULL =>
        /\ pRedis[t] \in alive
        /\ pc[t] # "get_pop" => \A i \in DOMAIN fifo : fifo[i] # pRedis[t]
    /\ \A i \in DOMAIN fifo : fifo[i] \in alive
    /\ \A i, j \in DOMAIN fifo : fifo[i] = fifo[j] => i = j

(* No object disappears but by an exception: one that is allocated is in   *)
(* the pool, in a thread's hands, or was dropped or abandoned.             *)
Conserved ==
    \A obj \in alive :
        \/ \E i \in DOMAIN fifo : fifo[i] = obj
        \/ \E t \in Threads : pRedis[t] = obj
        \/ obj \in dropped \cup abandoned

Count(p, where) == Cardinality({t \in Threads : p[t] \in where})

InGet == Count(pc, {"get_lock", "get_front", "get_pop"})
PostsDue == Count(pc, {"add_post"})

(* Permits and objects balance: a permit is in the semaphore, in the hands *)
(* of a Get, or a Post still to come; every object in the pool has one,    *)
(* and each failed push has made one too many until some Get returned NULL *)
(* for it.                                                                 *)
Permits ==
    Len(fifo) + Cardinality(dropped) =
        sem + InGet + PostsDue + nulls

(* Get returns NULL, and FraudANI 0 without a query, at most once for      *)
(* each push that failed.                                                  *)
NullsExplained == nulls <= Cardinality(dropped)

(* Both: the permits never promise more than the pool holds but for the    *)
(* failed pushes, and each of these is paid for by one NULL at most.       *)
PermitsBalanced == Permits /\ NullsExplained

(* Until an exception is thrown, every FraudANI call returns, unless Empty *)
(* takes the connections away, and Empty, which reads the queue without    *)
(* the lock and waits for permits, returns even while workers borrow.      *)
CallsReturn ==
    /\ \A t \in Workers :
        pc[t] = "get_wait" ~> pc[t] = "idle" \/ empties > 0 \/ throws > 0
    /\ pc[Manager] = "empty" ~> pc[Manager] = "idle" \/ throws > 0
=============================================================================
