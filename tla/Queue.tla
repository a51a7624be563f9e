------------------------------- MODULE Queue -------------------------------
(***************************************************************************)
(* Queue<T> of Queue.h, with the Semaphore and Mutex classes of mutex.h it *)
(* inherits from: the queue between the client threads and                 *)
(* m_HiloQueueMensajes (SocketServerApp.h) and the queue between the       *)
(* callers of Log and QueueMonitorThread (Logging.h).                      *)
(*                                                                         *)
(* Any number of threads call Add and Wait.  One step of the model is a    *)
(* lock, unlock or semaphore call, or the work between two of them that    *)
(* another thread could observe half done if the lock did not protect it.  *)
(***************************************************************************)
EXTENDS Integers, Sequences, FiniteSets

CONSTANTS
    Producers,      \* threads that call Add
    Consumers,      \* threads that call Wait; a thread may be in both sets
    Values,         \* the items (string pointers in both uses)
    Addrs,          \* where a QueueEntry can be allocated
    NULL,           \* the null pointer
    NoThread,       \* "the critical section has no owner"
    SemMax,         \* maximum count of the semaphore, 0x7ffffff in mutex.h
    MaxAdds,        \* bound: how many items are linked in a behaviour
    MaxThrows       \* bound: how many times `new' throws in Add

Threads == Producers \cup Consumers

ASSUME QueueAssumption ==
    /\ IsFiniteSet(Threads)
    /\ NULL \notin Addrs /\ NULL \notin Values
    /\ NoThread \notin Threads
    /\ SemMax \in Nat \ {0}
    /\ MaxAdds \in Nat /\ MaxThrows \in Nat

VARIABLES
    pc,             \* where each thread is in Add or Wait
    arg,            \* the item a thread is adding, or has taken
    old,            \* `old' of Wait: the entry a thread is about to delete
    head, tail,     \* the two pointers of the list
    heap,           \* value and next of every address
    live,           \* the addresses that are allocated
    m_nSize,
    sem,            \* count of the semaphore
    owner, depth,   \* the critical section: owner and recursion count
    throws,         \* how many times `new' has thrown
    lostPosts,      \* ReleaseSemaphore calls refused at SemMax
    list,           \* history: the addresses from head to the last entry
    added, taken    \* history: items in the order they were linked, taken

structVars == <<head, tail, heap, live, m_nSize>>
lockVars   == <<owner, depth>>
semVars    == <<sem, lostPosts>>
histVars   == <<list, added, taken>>
vars == <<pc, arg, old, structVars, semVars, lockVars, throws, histVars>>

Entry == [value : Values \cup {NULL}, next : Addrs \cup {NULL}]

PC == {"idle", "add_link", "add_unlock", "add_post",
       "wait_lock", "wait_take", "wait_unlock"}

Goto(t, from, to) == pc[t] = from /\ pc' = [pc EXCEPT ![t] = to]

Init ==
    /\ pc = [t \in Threads |-> "idle"]
    /\ arg = [t \in Threads |-> NULL]
    /\ old = [t \in Threads |-> NULL]
    /\ head = NULL /\ tail = NULL
    /\ heap = [a \in Addrs |-> [value |-> NULL, next |-> NULL]]
    /\ live = {}
    /\ m_nSize = 0
    /\ sem = 0 /\ lostPosts = 0
    /\ owner = NoThread /\ depth = 0
    /\ throws = 0
    /\ list = <<>> /\ added = <<>> /\ taken = <<>>

-----------------------------------------------------------------------------
(* mutex.h: a CRITICAL_SECTION is recursive, a semaphore count saturates.  *)

Lock(t) ==
    /\ owner \in {NoThread, t}
    /\ owner' = t
    /\ depth' = depth + 1

Unlock(t) ==
    /\ depth' = depth - 1
    /\ owner' = IF depth = 1 THEN NoThread ELSE owner

Post ==
    \/ /\ sem < SemMax
       /\ sem' = sem + 1
       /\ UNCHANGED lostPosts
    \/ /\ sem = SemMax
       /\ lostPosts' = lostPosts + 1
       /\ UNCHANGED sem

SemaphoreWait == sem > 0 /\ sem' = sem - 1 /\ UNCHANGED lostPosts

-----------------------------------------------------------------------------
(* Add: Lock; link a new entry; ++m_nSize; Unlock; Post.                   *)

AddLock(t) ==
    /\ Goto(t, "idle", "add_link")
    /\ Len(added) < MaxAdds
    /\ Lock(t)
    /\ \E v \in Values : arg' = [arg EXCEPT ![t] = v]
    /\ UNCHANGED <<old, structVars, semVars, throws, histVars>>

AddLink(t) ==
    /\ Goto(t, "add_link", "add_unlock")
    /\ \E a \in Addrs \ live :
        LET new == [value |-> arg[t], next |-> NULL] IN
        /\ live' = live \cup {a}
        /\ \/ /\ tail = NULL
              /\ head' = a
              /\ heap' = [heap EXCEPT ![a] = new]
           \/ /\ tail # NULL
              /\ heap' = [heap EXCEPT ![a] = new, ![tail].next = a]
              /\ UNCHANGED head
        /\ tail' = a
        /\ list' = Append(list, a)
        /\ added' = Append(added, arg[t])
    /\ UNCHANGED <<arg, old, m_nSize, semVars, lockVars, throws, taken>>

(* Mutant: the exception is caught and Post is called all the same.        *)
AddThrowPosts(t) ==
    /\ Goto(t, "add_link", "add_post")
    /\ throws < MaxThrows
    /\ throws' = throws + 1
    /\ Unlock(t)
    /\ UNCHANGED <<arg, old, structVars, semVars, histVars>>

(* `new QueueEntry' throws bad_alloc: nothing in Add catches it, so the    *)
(* thread leaves Add and the critical section stays entered.               *)
AddThrow(t) ==
    /\ Goto(t, "add_link", "idle")
    /\ throws < MaxThrows
    /\ throws' = throws + 1
    /\ UNCHANGED <<arg, old, structVars, semVars, lockVars, histVars>>

(* Mutant: the critical section is not left before Post.                   *)
AddUnlockStaysLocked(t) ==
    /\ Goto(t, "add_unlock", "add_post")
    /\ m_nSize' = m_nSize + 1
    /\ UNCHANGED <<arg, old, head, tail, heap, live, semVars, lockVars>>
    /\ UNCHANGED <<throws, histVars>>

AddUnlock(t) ==
    /\ Goto(t, "add_unlock", "add_post")
    /\ m_nSize' = m_nSize + 1
    /\ Unlock(t)
    /\ UNCHANGED <<arg, old, head, tail, heap, live, semVars, throws, histVars>>

AddPost(t) ==
    /\ Goto(t, "add_post", "idle")
    /\ Post
    /\ UNCHANGED <<arg, old, structVars, lockVars, throws, histVars>>

-----------------------------------------------------------------------------
(* Wait: Semaphore::Wait; Lock; unlink the head; delete it; Unlock.        *)

WaitSemaphore(t) ==
    /\ Goto(t, "idle", "wait_lock")
    /\ SemaphoreWait
    /\ UNCHANGED <<arg, old, structVars, lockVars, throws, histVars>>

WaitLock(t) ==
    /\ Goto(t, "wait_lock", "wait_take")
    /\ Lock(t)
    /\ UNCHANGED <<arg, old, structVars, semVars, throws, histVars>>

(* Mutant: the newest value is returned for the oldest entry.              *)
WaitTakeNewest(t) ==
    /\ Goto(t, "wait_take", "wait_unlock")
    /\ arg' = [arg EXCEPT ![t] = heap[tail].value]
    /\ old' = [old EXCEPT ![t] = head]
    /\ head' = heap[head].next
    /\ list' = Tail(list)
    /\ taken' = Append(taken, heap[tail].value)
    /\ UNCHANGED <<tail, heap, live, m_nSize, semVars, lockVars, throws, added>>

(* Nothing in the code guards `head->value': HeadAllocated is what makes   *)
(* the dereference safe.                                                   *)
WaitTake(t) ==
    /\ Goto(t, "wait_take", "wait_unlock")
    /\ arg' = [arg EXCEPT ![t] = heap[head].value]
    /\ old' = [old EXCEPT ![t] = head]
    /\ head' = heap[head].next
    /\ list' = Tail(list)
    /\ taken' = Append(taken, heap[head].value)
    /\ UNCHANGED <<tail, heap, live, m_nSize, semVars, lockVars, throws, added>>

(* Mutant: tail is not reset when the list becomes empty.                  *)
WaitUnlockKeepsTail(t) ==
    /\ Goto(t, "wait_unlock", "idle")
    /\ live' = live \ {old[t]}
    /\ old' = [old EXCEPT ![t] = NULL]
    /\ m_nSize' = m_nSize - 1
    /\ Unlock(t)
    /\ UNCHANGED <<arg, head, tail, heap, semVars, throws, histVars>>

WaitUnlock(t) ==
    /\ Goto(t, "wait_unlock", "idle")
    /\ live' = live \ {old[t]}
    /\ old' = [old EXCEPT ![t] = NULL]
    /\ tail' = IF head = NULL THEN NULL ELSE tail
    /\ m_nSize' = m_nSize - 1
    /\ Unlock(t)
    /\ UNCHANGED <<arg, head, heap, semVars, throws, histVars>>

-----------------------------------------------------------------------------

Add(t) == AddLock(t) \/ AddLink(t) \/ AddThrow(t) \/ AddUnlock(t) \/ AddPost(t)
Wait(t) == WaitSemaphore(t) \/ WaitLock(t) \/ WaitTake(t) \/ WaitUnlock(t)

Next == (\E t \in Producers : Add(t)) \/ (\E t \in Consumers : Wait(t))

Spec == Init /\ [][Next]_vars

(* The scheduler runs every thread that can go on.  Nothing more is        *)
(* assumed: neither the critical section nor the semaphore is fair between *)
(* the threads that wait for it.                                           *)
Fairness ==
    /\ \A t \in Producers : WF_vars(Add(t))
    /\ \A t \in Consumers : WF_vars(Wait(t))

FairSpec == Spec /\ Fairness

-----------------------------------------------------------------------------
(* The variables have their types: the semaphore never exceeds its maximum *)
(* and the pointers are addresses or NULL.                                 *)
TypeOK ==
    /\ pc \in [Threads -> PC]
    /\ arg \in [Threads -> Values \cup {NULL}]
    /\ old \in [Threads -> Addrs \cup {NULL}]
    /\ head \in Addrs \cup {NULL} /\ tail \in Addrs \cup {NULL}
    /\ heap \in [Addrs -> Entry]
    /\ live \in SUBSET Addrs
    /\ m_nSize \in Int
    /\ sem \in 0..SemMax /\ lostPosts \in Nat
    /\ owner \in Threads \cup {NoThread} /\ depth \in Nat
    /\ throws \in 0..MaxThrows
    /\ list \in Seq(Addrs)
    /\ added \in Seq(Values) /\ taken \in Seq(Values)

Count(p, where) == Cardinality({t \in Threads : p[t] \in where})

PermitsHeld == Count(pc, {"wait_lock", "wait_take"})
PostsDue == Count(pc, {"add_unlock", "add_post"})
TakesInProgress == Count(pc, {"wait_unlock"})
AddsInProgress == Count(pc, {"add_unlock"})

InSection(t) == pc[t] \in {"add_link", "add_unlock", "wait_take", "wait_unlock"}

(* The critical section is held by whoever works on the list, and by       *)
(* nobody else, even when an exception has left it entered.                *)
LockInv ==
    /\ \A t \in Threads : InSection(t) => owner = t
    /\ owner = NoThread <=> depth = 0

(* The pointers always describe one well-formed list: from head along next *)
(* to tail, no entry twice, every entry allocated, the last one ending in  *)
(* NULL; tail dangles only while the thread that unlinked the last entry   *)
(* still holds the lock (Queue.h:74-80).                                   *)
ListShape ==
    /\ \A i, j \in DOMAIN list : list[i] = list[j] => i = j
    /\ \A i \in DOMAIN list :
        heap[list[i]].next = IF i = Len(list) THEN NULL ELSE list[i + 1]
    /\ list # <<>> => head = list[1] /\ tail = list[Len(list)]
    /\ list = <<>> => /\ head = NULL
                      /\ tail = NULL \/ \E t \in Threads : pc[t] = "wait_unlock"

(* No entry is leaked and none is used after `delete': the allocated       *)
(* entries are the linked ones and the one a Wait is about to delete.      *)
Allocation ==
    /\ \A i \in DOMAIN list : list[i] \in live
    /\ \A t \in Threads : pc[t] = "wait_unlock" =>
        old[t] \in live /\ \A i \in DOMAIN list : list[i] # old[t]
    /\ \A a \in live : \/ \E i \in DOMAIN list : list[i] = a
                       \/ \E t \in Threads : pc[t] = "wait_unlock" /\ old[t] = a

(* The semaphore and the list agree: every linked entry is a permit still  *)
(* in the semaphore, a permit a Wait has taken and not used, a Post still  *)
(* to come, or a Post refused at SemMax.  No permit is without its entry.  *)
Accounting ==
    Len(list) = sem + lostPosts + PermitsHeld + PostsDue

(* size() is the length of the list, off by the one operation in progress. *)
SizeAgrees == m_nSize = Len(list) + TakesInProgress - AddsInProgress

(* Wait dereferences head unconditionally (Queue.h:72): whenever it does,  *)
(* head is an allocated entry, not NULL and not freed memory.              *)
HeadAllocated == \A t \in Threads : pc[t] = "wait_take" => head \in live

(* Between any two steps of any two threads the list, the allocations, the *)
(* lock and the size agree, and the dereference in Wait is safe.           *)
WellFormed ==
    TypeOK /\ LockInv /\ ListShape /\ Allocation /\ SizeAgrees /\ HeadAllocated

(* The values between head and tail, read through the pointers.            *)
Contents == [i \in DOMAIN list |-> heap[list[i]].value]

(* Nothing is lost, duplicated or reordered between Add and Wait.          *)
FifoOrder == added = taken \o Contents

Channel == INSTANCE FifoChannel WITH chan <- Contents, out <- taken

(* The queue implements the atomic channel: AddLink is the Put, WaitTake   *)
(* the Get, every other step of either operation is invisible.             *)
ImplementsChannel == Channel!Spec

(* As long as `new' has not thrown and no post was refused, every item     *)
(* added is eventually taken: no wake-up is lost and no thread is left     *)
(* holding the lock.                                                       *)
EverythingTaken ==
    \A n \in 1..MaxAdds :
        Len(added) >= n ~> Len(taken) >= n \/ throws > 0 \/ lostPosts > 0
=============================================================================
