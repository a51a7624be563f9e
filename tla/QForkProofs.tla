---------------------------- MODULE QForkProofs ----------------------------
(***************************************************************************)
(* For any number of workers, blocks, jobs, failures and operations: no    *)
(* worker is on the heap while an operation begins, the status is about    *)
(* this operation's child, and the child reads what the parent had when    *)
(* the operation began.                                                    *)
(***************************************************************************)
EXTENDS QFork, FiniteSetTheorems, WellFoundedInduction, NaturalsInduction, TLAPS

-----------------------------------------------------------------------------
(* The suspension.  The two counters of Win32_ThreadControl.c count what   *)
(* their names say, so their equality in SuspensionCompleted means that    *)
(* nobody who is counted is outside safe mode; nobody leaves it while the  *)
(* flag is up.                                                             *)

SafePcs == {"lock", "asleep", "woken", "exit", "exitquit", "waitexit", "waitquit"}
HeapPcs == {"enter", "work", "leaving"}
WorkerPcs == SafePcs \cup HeapPcs \cup {"none", "created", "ended", "joined"}
InPcs(S) == {w \in Workers : pc[w] \in S}

QuietPcs == {"quiet", "copy", "protect", "create", "begun"}
MainPcs == QuietPcs \cup {"run", "signal", "release", "unlock", "request", "poll",
                          "resume", "aborted", "status", "process", "rejoin", "remap"}

Counters ==
    /\ numThreads = Cardinality(InPcs(SafePcs \cup HeapPcs))
    /\ numSafe = Cardinality(InPcs(SafePcs))

Suspended ==
    /\ mpc \in QuietPcs \cup {"poll"} => requested
    /\ mpc \in QuietPcs =>
        \A w \in Workers :
            /\ pc[w] \notin {"work", "leaving"}
            /\ ~late => pc[w] \notin {"created", "enter"}
    /\ mpc = "aborted" => late

ThreadInv ==
    /\ pc \in [Workers -> WorkerPcs] /\ mpc \in MainPcs
    /\ Counters /\ Suspended

-----------------------------------------------------------------------------
(* The status.  The events are those of this operation's child, and there  *)
(* is a handle as long as there is a child that has not exited.            *)

ChildPcs == {"none", "suspended", "started", "mapped", "done", "exited"}

StatusTypes ==
    /\ mpc \in MainPcs /\ type \in {"none", "rdb", "socket"}
    /\ status \in {"none", "COMPLETE", "FAILED", "INPROGRESS", "UNSTARTED"}
    /\ forked \in BOOLEAN /\ events \subseteq {"complete", "failed"}
    /\ child.pc \in ChildPcs
    /\ child = [pc |-> child.pc, blocks |-> child.blocks, data |-> child.data,
                complete |-> child.complete]

EventsOwn ==
    /\ "complete" \in events => child.complete
    /\ "failed" \in events => child.pc \in {"done", "exited"}
    /\ ~forked => child.pc \in {"none", "exited"}

(* Where an operation is.                                                  *)
Beginning ==
    /\ type = "none" => status = "none" /\ ~forked /\ mpc \notin {"status", "process"}
    /\ mpc \in {"copy", "protect", "create", "begun"} => status = "none" /\ type # "none"
    /\ mpc \in {"request", "poll", "quiet", "create"} => ~forked
    /\ mpc \in {"copy", "protect"} =>
        IF type = "socket" THEN child.pc = "suspended" /\ forked /\ events = {} ELSE ~forked

(* An operation without a handle is reported as it was before.             *)
HandleClosed ==
    ~forked =>
        /\ status # "INPROGRESS"
        /\ status = "COMPLETE" => "complete" \in events
        /\ status = "FAILED" => events # {}
        /\ mpc = "status" => "complete" \notin events
        /\ mpc = "process" => events = {}

StatusInv == StatusTypes /\ EventsOwn /\ Beginning /\ HandleClosed /\ StatusTruthful

-----------------------------------------------------------------------------
(* The memory.                                                             *)

MemoryTypes ==
    /\ ctl = [h |-> ctl.h, data |-> ctl.data]
    /\ ctl.h = [state |-> ctl.h.state, numMappedBlocks |-> ctl.h.numMappedBlocks,
                blockSearchStart |-> ctl.h.blockSearchStart]
    /\ ctl.h.state \in [Blocks -> BlockState] /\ ctl.h.blockSearchStart \in Nat
    /\ prot \in [Views -> {"rw", "writecopy", "private"}]
    /\ DOMAIN heap = Blocks /\ heap = [i \in Blocks |-> heap[i]]
    /\ file = [v \in Views |-> file[v]]
    /\ behind \subseteq Blocks /\ spoiled \in BOOLEAN /\ snap.valid \in BOOLEAN
    /\ snap = [heap |-> snap.heap, data |-> snap.data, except |-> snap.except,
               valid |-> snap.valid]

(* The parent reads what is in the file mapping unless it wrote to a page  *)
(* that was protected.                                                     *)
Coherent ==
    /\ \A i \in Blocks : prot[i] # "private" => file[i] = heap[i]
    /\ prot[Control] # "private" => file[Control] = ctl

(* Since the last EndForkOperation nothing has been protected.             *)
Rejoined == prot[Control] = "rw" /\ \A i \in Blocks \ behind : prot[i] = "rw"

EndPcs == {"rejoin", "remap"}
CopiedPhase == mpc = "protect" \/ (mpc = "create" /\ type = "rdb")
BeforeCopy == mpc \in {"request", "poll", "quiet", "copy"} \/ (mpc = "create" /\ type = "socket")

Phases ==
    /\ ~spoiled /\ ~snap.valid /\ mpc \notin EndPcs => Rejoined
    /\ mpc \in EndPcs => ~snap.valid
    /\ mpc = "remap" => Apart # {}
    /\ CopiedPhase => (snap.valid <=> ~spoiled)
    /\ BeforeCopy => spoiled \/ ~snap.valid
    /\ snap.valid /\ ~spoiled =>
        type # "none" /\ (forked \/ status \in {"COMPLETE", "FAILED"} \/ CopiedPhase)

(* From CopyForkOperationData to the end of the child.                     *)
Frozen ==
    snap.valid /\ (CopiedPhase \/ child.pc \in {"started", "mapped"}) =>
        /\ prot[Control] # "rw"
        /\ file[Control].data = snap.data /\ InUse(file[Control]) = DOMAIN snap.heap
        /\ child.pc = "mapped" => child.data = snap.data /\ child.blocks = DOMAIN snap.heap
        /\ \A i \in DOMAIN snap.heap :
            /\ i \in Blocks /\ ctl.h.state[i] # "UNMAPPED"
            /\ i \notin snap.except => file[i] = snap.heap[i] /\ (mpc = "protect" \/ prot[i] # "rw")
        /\ mpc = "protect" => DOMAIN snap.heap = InUse(ctl)

MemoryInv == MemoryTypes /\ Coherent /\ Phases /\ Frozen
-----------------------------------------------------------------------------
(* The counters.                                                           *)

LEMMA WorkersFinite == ASSUME NEW S PROVE IsFiniteSet(InPcs(S)) /\ Cardinality(InPcs(S)) \in Nat
<1>1. IsFiniteSet(Workers)
    BY ThreadsAssumption, FS_Interval DEF Workers
<1>2. InPcs(S) \subseteq Workers
    BY DEF InPcs
<1>3. QED
    BY <1>1, <1>2, FS_Subset, FS_CardinalityType

LEMMA GotoCount ==
    ASSUME pc \in [Workers -> WorkerPcs], NEW w \in Workers, NEW from, NEW to,
           Goto(w, from, to), NEW S
    PROVE  /\ (from \in S <=> to \in S) => Cardinality(InPcs(S)') = Cardinality(InPcs(S))
           /\ from \notin S /\ to \in S => Cardinality(InPcs(S)') = Cardinality(InPcs(S)) + 1
           /\ from \in S /\ to \notin S => Cardinality(InPcs(S)') = Cardinality(InPcs(S)) - 1
<1>1. pc[w] = from /\ pc' = [pc EXCEPT ![w] = to]
    BY DEF Goto
<1>2. CASE from \in S <=> to \in S
  <2>1. InPcs(S)' = InPcs(S)
    BY <1>1, <1>2 DEF InPcs
  <2>2. QED
    BY <1>2, <2>1
<1>3. CASE from \notin S /\ to \in S
  <2>1. InPcs(S)' = InPcs(S) \cup {w} /\ w \notin InPcs(S)
    BY <1>1, <1>3 DEF InPcs
  <2>2. Cardinality(InPcs(S) \cup {w}) = Cardinality(InPcs(S)) + 1
    BY <2>1, WorkersFinite, FS_AddElement
  <2>3. QED
    BY <1>3, <2>1, <2>2
<1>4. CASE from \in S /\ to \notin S
  <2>1. InPcs(S)' = InPcs(S) \ {w} /\ w \in InPcs(S)
    BY <1>1, <1>4 DEF InPcs
  <2>2. Cardinality(InPcs(S) \ {w}) = Cardinality(InPcs(S)) - 1
    BY <2>1, WorkersFinite, FS_RemoveElement
  <2>3. QED
    BY <1>4, <2>1, <2>2
<1>5. QED
    BY <1>2, <1>3, <1>4

(* Equal counters: everybody who is counted is in safe mode.               *)
LEMMA EqualCounters ==
    ASSUME Counters
    PROVE  numSafe = numThreads <=> \A w \in Workers : pc[w] \notin HeapPcs
<1> DEFINE A == InPcs(SafePcs)
           B == InPcs(SafePcs \cup HeapPcs)
<1>1. IsFiniteSet(B) /\ A \subseteq B
    BY WorkersFinite DEF InPcs
<1>2. numSafe = Cardinality(A) /\ numThreads = Cardinality(B)
    BY DEF Counters
<1>3. Cardinality(A) = Cardinality(B) => A = B
    BY <1>1, FS_Subset
<1>4. A = B <=> \A w \in Workers : pc[w] \notin HeapPcs
    BY DEF InPcs, SafePcs, HeapPcs
<1>5. QED
    BY <1>2, <1>3, <1>4

(* A worker goes from one place to another, and the counters with it.      *)
LEMMA WorkerMoves ==
    ASSUME ThreadInv, NEW w \in Workers, NEW from, NEW to \in WorkerPcs, Goto(w, from, to),
           UNCHANGED <<mpc, requested, late>>,
           numThreads' = numThreads + (IF to \in SafePcs \cup HeapPcs THEN 1 ELSE 0)
                                    - (IF from \in SafePcs \cup HeapPcs THEN 1 ELSE 0),
           numSafe' = numSafe + (IF to \in SafePcs THEN 1 ELSE 0)
                              - (IF from \in SafePcs THEN 1 ELSE 0),
           mpc \in QuietPcs => /\ to \notin {"work", "leaving"}
                               /\ ~late => to \notin {"created", "enter"}
    PROVE  ThreadInv'
<1>1. /\ pc \in [Workers -> WorkerPcs] /\ mpc \in MainPcs /\ Counters /\ Suspended
      /\ pc' = [pc EXCEPT ![w] = to]
    BY DEF ThreadInv, Goto
<1>2. pc' \in [Workers -> WorkerPcs] /\ mpc' \in MainPcs
    BY <1>1
<1>3. Counters'
  <2> DEFINE A == SafePcs
             B == SafePcs \cup HeapPcs
  <2>1. Cardinality(InPcs(B)) \in Nat /\ Cardinality(InPcs(SafePcs)) \in Nat
    BY WorkersFinite
  <2>2. /\ numThreads = Cardinality(InPcs(B)) /\ numSafe = Cardinality(InPcs(SafePcs))
    BY <1>1 DEF Counters
  <2>3. /\ (from \in B <=> to \in B) => Cardinality(InPcs(B)') = Cardinality(InPcs(B))
        /\ from \notin B /\ to \in B => Cardinality(InPcs(B)') = Cardinality(InPcs(B)) + 1
        /\ from \in B /\ to \notin B => Cardinality(InPcs(B)') = Cardinality(InPcs(B)) - 1
    BY <1>1, GotoCount, Zenon
  <2>4. /\ (from \in A <=> to \in A) => Cardinality(InPcs(A)') = Cardinality(InPcs(A))
        /\ from \notin A /\ to \in A => Cardinality(InPcs(A)') = Cardinality(InPcs(A)) + 1
        /\ from \in A /\ to \notin A => Cardinality(InPcs(A)') = Cardinality(InPcs(A)) - 1
    BY <1>1, GotoCount
  <2>5. numThreads' = Cardinality(InPcs(B)')
    <3> HIDE DEF B
    <3>1. QED
        BY <2>1, <2>2, <2>3 DEF B
  <2>6. numSafe' = Cardinality(InPcs(A)')
    <3> HIDE DEF A
    <3>1. QED
        BY <2>1, <2>2, <2>4 DEF A
  <2>7. QED
    BY <2>5, <2>6, Zenon DEF Counters
<1>4. Suspended'
    BY <1>1 DEF Suspended
<1>5. QED
    BY <1>2, <1>3, <1>4 DEF ThreadInv

(* What the main thread does between its places, the workers where they    *)
(* are: it is ahead of SuspensionCompleted or keeps the flag up.           *)
LEMMA MainMoves ==
    ASSUME ThreadInv, UNCHANGED <<pc, numThreads, numSafe, late>>, mpc' \in MainPcs,
           mpc' \in QuietPcs \cup {"poll"} => requested',
           mpc' \in QuietPcs => mpc \in QuietPcs,
           mpc' = "aborted" => mpc = "aborted" \/ late
    PROVE  ThreadInv'
<1>1. pc' \in [Workers -> WorkerPcs] /\ Counters'
    BY DEF ThreadInv, Counters, InPcs
<1>2. Suspended'
    BY DEF ThreadInv, Suspended
<1>3. QED
    BY <1>1, <1>2 DEF ThreadInv

LEMMA WorkerStepsInv ==
    ASSUME ThreadInv, NEW w \in Workers,
           \/ WorkerSteps(w) \/ Work(w) \/ pthread_create(w) \/ win32_pthread_join(w)
    PROVE  ThreadInv'
<1> DEFINE Counts(from, to) ==
        /\ numThreads' = numThreads + (IF to \in SafePcs \cup HeapPcs THEN 1 ELSE 0)
                                    - (IF from \in SafePcs \cup HeapPcs THEN 1 ELSE 0)
        /\ numSafe' = numSafe + (IF to \in SafePcs THEN 1 ELSE 0)
                              - (IF from \in SafePcs THEN 1 ELSE 0)
           Allowed(to) == mpc \in QuietPcs => /\ to \notin {"work", "leaving"}
                                              /\ ~late => to \notin {"created", "enter"}
<1>1. numThreads \in Nat /\ numSafe \in Nat
    BY WorkersFinite DEF ThreadInv, Counters
<1>2. /\ Suspended
      /\ "run" \notin QuietPcs
    BY DEF ThreadInv, QuietPcs
<1>3. CASE pthread_create(w)
  <2>1. Goto(w, "none", "created") /\ mpc = "run" /\ UNCHANGED <<mpc, control, late>>
    BY <1>3 DEF pthread_create
  <2>2. Counts("none", "created") /\ Allowed("created")
    BY <1>1, <1>2, <2>1 DEF SafePcs, HeapPcs, control
  <2>3. QED
    BY <2>1, <2>2, WorkerMoves DEF WorkerPcs, control
<1>4. CASE win32_pthread_join(w)
  <2>1. Goto(w, "ended", "joined") /\ UNCHANGED <<mpc, control, late>>
    BY <1>4 DEF win32_pthread_join
  <2>2. Counts("ended", "joined") /\ Allowed("joined")
    BY <1>1, <2>1 DEF SafePcs, HeapPcs, control
  <2>3. QED
    BY <2>1, <2>2, WorkerMoves DEF WorkerPcs, control
<1>5. CASE win32_proxy_threadproc(w)
  <2>1. CASE Goto(w, "created", "enter") /\ numThreads' = numThreads + 1
    <3>1. Counts("created", "enter") /\ Allowed("enter") /\ UNCHANGED <<mpc, requested, late>>
        BY <1>1, <1>2, <1>5, <2>1 DEF SafePcs, HeapPcs, Suspended, Goto, win32_proxy_threadproc
    <3>2. QED
        BY <2>1, <3>1, WorkerMoves DEF WorkerPcs, HeapPcs
  <2>2. CASE Goto(w, "leaving", "ended") /\ numThreads' = numThreads - 1
    <3>1. Counts("leaving", "ended") /\ Allowed("ended") /\ UNCHANGED <<mpc, requested, late>>
        BY <1>1, <1>5, <2>2 DEF SafePcs, HeapPcs, win32_proxy_threadproc
    <3>2. QED
        BY <2>2, <3>1, WorkerMoves DEF WorkerPcs
  <2>3. QED
    BY <1>5, <2>1, <2>2 DEF win32_proxy_threadproc
<1>6. CASE WorkerThread_EnterSafeMode(w)
  <2>1. Goto(w, "enter", "lock") /\ UNCHANGED <<mpc, requested, late>>
    BY <1>6 DEF WorkerThread_EnterSafeMode
  <2>2. Counts("enter", "lock") /\ Allowed("lock")
    BY <1>1, <1>6, <2>1 DEF SafePcs, HeapPcs, WorkerThread_EnterSafeMode
  <2>3. QED
    BY <2>1, <2>2, WorkerMoves DEF WorkerPcs, SafePcs
<1>7. CASE Work(w)
  <2>1. Goto(w, "work", "enter") /\ UNCHANGED <<mpc, control, late>>
    BY <1>7 DEF Work
  <2>2. Counts("work", "enter") /\ Allowed("enter")
    BY <1>1, <1>2, <2>1 DEF SafePcs, HeapPcs, control, Suspended, Goto
  <2>3. QED
    BY <2>1, <2>2, WorkerMoves DEF WorkerPcs, HeapPcs, control
<1>8. CASE WorkerThread_ExitSafeMode(w) /\ ~requested /\ numSafe' # numSafe
  <2>1. PICK from \in {"exit", "exitquit"}, to \in {"work", "leaving"} :
            Goto(w, from, to) /\ numSafe' = numSafe - 1
    BY <1>8 DEF WorkerThread_ExitSafeMode
  <2>2. UNCHANGED <<mpc, numThreads, requested, late>>
    BY <1>8 DEF WorkerThread_ExitSafeMode
  <2>3. Counts(from, to) /\ Allowed(to)
    BY <1>1, <1>2, <1>8, <2>1, <2>2 DEF SafePcs, HeapPcs, Suspended
  <2>4. QED
    BY <2>1, <2>2, <2>3, WorkerMoves DEF WorkerPcs, HeapPcs
<1>9. CASE \/ TakeJob(w) \/ pthread_cond_wait(w) \/ CondWoken(w) \/ CondLeft(w)
           \/ WorkerThread_ExitSafeMode(w) /\ numSafe' = numSafe
  <2>1. PICK from \in SafePcs, to \in SafePcs : Goto(w, from, to)
    <3>1. CASE TakeJob(w)
        BY <3>1 DEF TakeJob, SafePcs
    <3>2. CASE pthread_cond_wait(w)
        BY <3>2 DEF pthread_cond_wait, SafePcs
    <3>3. CASE CondWoken(w)
        BY <3>3 DEF CondWoken, SafePcs
    <3>4. CASE CondLeft(w)
        BY <3>4 DEF CondLeft, SafePcs
    <3>5. CASE WorkerThread_ExitSafeMode(w) /\ numSafe' = numSafe
        BY <1>1, <3>5 DEF WorkerThread_ExitSafeMode, SafePcs
    <3>6. QED
        BY <1>9, <3>1, <3>2, <3>3, <3>4, <3>5
  <2>2. UNCHANGED <<mpc, numThreads, numSafe, requested, late>>
    BY <1>9 DEF TakeJob, pthread_cond_wait, CondWoken, CondLeft, WorkerThread_ExitSafeMode, control
  <2>3. Counts(from, to) /\ Allowed(to)
    BY <1>1, <2>2 DEF SafePcs, HeapPcs
  <2>4. QED
    BY <2>1, <2>2, <2>3, WorkerMoves DEF WorkerPcs
<1>10. WorkerThread_ExitSafeMode(w) /\ numSafe' # numSafe => ~requested
    BY <1>1 DEF WorkerThread_ExitSafeMode
<1>11. QED
    BY <1>3, <1>4, <1>5, <1>6, <1>7, <1>8, <1>9, <1>10, Zenon DEF WorkerSteps

LEMMA SuspensionInv == ASSUME ThreadInv, SuspensionCompleted PROVE ThreadInv'
<1>1. /\ pc' = pc /\ numThreads' = numThreads /\ numSafe' = numSafe /\ requested' = requested
      /\ mpc = "poll" /\ mpc' = "quiet" /\ numSafe = numThreads
    BY DEF SuspensionCompleted, MainGoto, control
<1>2. \A w \in Workers : pc[w] \notin HeapPcs
    BY <1>1, EqualCounters DEF ThreadInv
<1>3. pc' \in [Workers -> WorkerPcs] /\ Counters' /\ mpc' \in MainPcs
    BY <1>1 DEF ThreadInv, Counters, InPcs, MainPcs, QuietPcs
<1>4. Suspended'
    BY <1>1, <1>2 DEF ThreadInv, Suspended, QuietPcs, HeapPcs, SuspensionCompleted
<1>5. QED
    BY <1>3, <1>4 DEF ThreadInv

LEMMA MainStepsInv == ASSUME ThreadInv, MainSteps PROVE ThreadInv'
<1>1. CASE SuspensionCompleted
    BY <1>1, SuspensionInv
<1>2. CASE ResumeFromSuspension
  <2>1. mpc = "begun" /\ UNCHANGED <<pc, numThreads, numSafe, late>>
    BY <1>2 DEF ResumeFromSuspension, MainGoto
  <2>2. ~late => requested /\ numSafe = numThreads
    BY <2>1, EqualCounters DEF ThreadInv, Suspended, QuietPcs, HeapPcs
  <2>3. mpc' \in {"resume", "aborted"} /\ (mpc' = "aborted" => late)
    BY <1>2, <2>2 DEF ResumeFromSuspension, MainGoto, ThreadInv
  <2>4. QED
    BY <2>1, <2>3, MainMoves DEF MainPcs, QuietPcs
<1>3. CASE pthread_cond_signal \/ CondRelease \/ Unlock \/ RaiseFlag \/ SetResume
  <2>1. /\ UNCHANGED <<pc, numThreads, numSafe, late>>
        /\ mpc' \in {"release", "unlock", "run", "poll"} /\ (mpc' = "poll" => requested')
    BY <1>3 DEF pthread_cond_signal, CondRelease, Unlock, RaiseFlag, SetResume, MainGoto, control
  <2>2. QED
    BY <2>1, MainMoves DEF MainPcs, QuietPcs
<1>4. QED
    BY <1>1, <1>2, <1>3 DEF MainSteps

LEMMA InitThreadInv == Init => ThreadInv
<1> SUFFICES ASSUME Init PROVE ThreadInv
    OBVIOUS
<1>1. pc \in [Workers -> WorkerPcs] /\ mpc \in MainPcs /\ mpc = "run"
    BY DEF Init, ThreadInit, WorkerPcs, MainPcs
<1>2. InPcs(SafePcs \cup HeapPcs) = {} /\ InPcs(SafePcs) = {}
    BY DEF Init, ThreadInit, InPcs, SafePcs, HeapPcs
<1>3. Counters
    BY <1>2, FS_EmptySet DEF Init, ThreadInit, Counters
<1>4. Suspended
    BY <1>1 DEF Suspended, QuietPcs
<1>5. QED
    BY <1>1, <1>3, <1>4 DEF ThreadInv

LEMMA NextThreadInv == ThreadInv /\ [Next]_vars => ThreadInv'
<1> SUFFICES ASSUME ThreadInv, [Next]_vars PROVE ThreadInv'
    OBVIOUS
<1> USE DEF threadVars, control
<1>1. CASE \E w \in Workers : WorkerSteps(w) \/ Work(w) \/ pthread_create(w) \/ win32_pthread_join(w)
    BY <1>1, WorkerStepsInv, Zenon
<1>2. CASE MainSteps
    BY <1>2, MainStepsInv
<1>3. CASE \/ Submit \/ RequestSuspension \/ BeginForkOperation \/ Begin \/ GetForkOperationStatus \/ Status
           \/ EndForkOperation \/ AbortForkOperation \/ RejoinCOWPages
  <2>1. UNCHANGED <<pc, numThreads, numSafe, requested, late>>
    BY <1>3 DEF Submit, RequestSuspension, BeginForkOperation, Begin, GetForkOperationStatus, Status,
           CopyForkOperationData, ProtectHeap, CreateChildProcess, BeginFails, StatusFailed, StatusProcess,
           EndForkOperation, AbortForkOperation, RejoinCOWPages, CopyBack, Remap, RejoinControl
  <2>2. \/ mpc' \in {"signal", "request", "status", "process", "run", "rejoin", "remap"}
        \/ mpc \in QuietPcs /\ mpc' \in QuietPcs
    BY <1>3 DEF Submit, RequestSuspension, BeginForkOperation, Begin, GetForkOperationStatus, Status,
           CopyForkOperationData, ProtectHeap, CreateChildProcess, BeginFails, StatusFailed, StatusProcess,
           EndForkOperation, AbortForkOperation, End, RejoinCOWPages, CopyBack, Remap, RejoinControl,
           MainGoto, StatusReturns, QuietPcs, Copied, Created
  <2>3. QED
    BY <2>1, <2>2, MainMoves DEF MainPcs, QuietPcs, ThreadInv, Suspended
<1>4. CASE UNCHANGED <<pc, mpc, numThreads, numSafe, requested, late>>
    BY <1>4, MainMoves DEF ThreadInv, Suspended
<1>5. QED
  <2>1. CASE Store \/ Alloc \/ Release \/ ChildMaps \/ ChildDone \/ ChildFails \/ ChildExits
             \/ UNCHANGED vars
    BY <1>4, <2>1 DEF Store, Alloc, Release, ChildMaps, ChildDone, ChildFails, ChildExits, vars
  <2>2. QED
    BY <1>1, <1>2, <1>3, <2>1, Zenon DEF Next, Threading, WorkerStore

(* The counters count the workers and those in safe mode, and nobody       *)
(* leaves safe mode while the flag is up, for any number of workers.       *)
THEOREM ThreadInvariance == Spec => []ThreadInv
<1>1. QED
    BY InitThreadInv, NextThreadInv, PTL DEF Spec

(* From the moment SuspensionCompleted holds until the flag is taken back  *)
(* no worker is on the heap and the assertion of ResumeFromSuspension      *)
(* holds, but for a thread created and not yet counted.                    *)
THEOREM NobodyOnHeap == Spec => []HeapQuiet
<1>1. ThreadInv => HeapQuiet
    BY DEF ThreadInv, Suspended, HeapQuiet, OnHeap, QuietPcs
<1>2. QED
    BY <1>1, ThreadInvariance, PTL
-----------------------------------------------------------------------------
(* The status.  The steps of the threads move the main thread, and touch   *)
(* nothing else of what the status depends on.                             *)

ThreadSteps ==
    \/ Submit \/ Threading \/ MainSteps \/ (MayBegin /\ RequestSuspension)
    \/ \E w \in Workers : WorkerSteps(w) \/ Work(w)

LEMMA ThreadPlaces ==
    ASSUME ThreadSteps, mpc' # mpc
    PROVE  \/ mpc = "run" /\ mpc' = "request" /\ MayBegin
           \/ mpc = "request" /\ mpc' = "poll"
           \/ mpc = "poll" /\ mpc' = "quiet"
           \/ mpc \in {"run", "signal", "release", "unlock", "begun", "resume"}
              /\ mpc' \in {"run", "signal", "release", "unlock", "resume", "aborted"}
<1>1. CASE Submit \/ (MayBegin /\ RequestSuspension)
    BY <1>1 DEF Submit, RequestSuspension, MainGoto
<1>2. CASE MainSteps
    BY <1>2 DEF MainSteps, pthread_cond_signal, CondRelease, Unlock, RaiseFlag,
                SuspensionCompleted, ResumeFromSuspension, SetResume, MainGoto
<1>3. CASE Threading
    BY <1>3 DEF Threading, pthread_create, win32_pthread_join
<1>4. CASE \E w \in Workers : WorkerSteps(w) \/ Work(w)
    BY <1>4 DEF WorkerSteps, Work, win32_proxy_threadproc, WorkerThread_EnterSafeMode, TakeJob,
                pthread_cond_wait, CondWoken, CondLeft, WorkerThread_ExitSafeMode
<1>5. QED
    BY <1>1, <1>2, <1>3, <1>4 DEF ThreadSteps

statusVars == <<type, child, forked, events, status>>

LEMMA StatusThread ==
    ASSUME StatusInv, mpc' = mpc \/ ThreadSteps, UNCHANGED statusVars
    PROVE  StatusInv'
<1>1. UNCHANGED <<type, child, forked, events, status>>
    BY DEF statusVars
<1>2. CASE mpc' = mpc
    BY <1>1, <1>2 DEF StatusInv, StatusTypes, EventsOwn, Beginning, HandleClosed, StatusTruthful
<1>3. CASE mpc' # mpc
  <2>1. \/ mpc = "run" /\ mpc' = "request" /\ MayBegin
        \/ mpc = "request" /\ mpc' = "poll"
        \/ mpc = "poll" /\ mpc' = "quiet"
        \/ mpc \in {"run", "signal", "release", "unlock", "begun", "resume"}
           /\ mpc' \in {"run", "signal", "release", "unlock", "resume", "aborted"}
    BY <1>3, ThreadPlaces
  <2>2. Beginning'
    BY <1>1, <2>1 DEF StatusInv, Beginning, MayBegin
  <2>3. QED
    BY <1>1, <2>1, <2>2 DEF StatusInv, StatusTypes, EventsOwn, HandleClosed, StatusTruthful,
                            MainPcs, QuietPcs
<1>4. QED
    BY <1>2, <1>3

LEMMA StatusBegin ==
    ASSUME StatusInv, BeginForkOperation \/ Begin
    PROVE  StatusInv'
<1> USE DEF StatusInv, StatusTypes, EventsOwn, Beginning, HandleClosed, StatusTruthful, MainGoto,
        MainPcs, QuietPcs, ChildPcs
<1>1. CASE BeginForkOperation
    BY <1>1 DEF BeginForkOperation, process
<1>2. CASE CopyForkOperationData
    BY <1>2 DEF CopyForkOperationData, process
<1>3. CASE ProtectHeap
    BY <1>3 DEF ProtectHeap, Copied
<1>4. CASE CreateChildProcess
    BY <1>4 DEF CreateChildProcess, Created, NoChild
<1>5. CASE BeginFails
    BY <1>5 DEF BeginFails
<1>6. QED
    BY <1>1, <1>2, <1>3, <1>4, <1>5 DEF Begin

LEMMA StatusChild ==
    ASSUME StatusInv, ChildMaps \/ ChildDone \/ ChildFails \/ ChildExits
    PROVE  StatusInv'
<1> USE DEF StatusInv, StatusTypes, EventsOwn, Beginning, HandleClosed, StatusTruthful, ChildPcs,
        threadVars
<1>1. CASE ChildMaps
    BY <1>1 DEF ChildMaps
<1>2. CASE ChildDone
    BY <1>2 DEF ChildDone
<1>3. CASE ChildFails
    BY <1>3 DEF ChildFails
<1>4. CASE ChildExits
    BY <1>4 DEF ChildExits
<1>5. QED
    BY <1>1, <1>2, <1>3, <1>4

LEMMA StatusAsked ==
    ASSUME StatusInv, GetForkOperationStatus \/ Status
    PROVE  StatusInv'
<1> USE DEF StatusInv, StatusTypes, EventsOwn, Beginning, HandleClosed, StatusTruthful, MainPcs,
        QuietPcs, StatusReturns
<1>1. CASE GetForkOperationStatus
    BY <1>1 DEF GetForkOperationStatus, process
<1>2. CASE StatusFailed
    BY <1>2 DEF StatusFailed, process
<1>3. CASE StatusProcess
    BY <1>3 DEF StatusProcess
<1>4. QED
    BY <1>1, <1>2, <1>3 DEF Status

LEMMA StatusEnd ==
    ASSUME StatusInv, EndForkOperation \/ AbortForkOperation
    PROVE  StatusInv'
<1>1. /\ mpc' = "rejoin" /\ type' = "none" /\ status' = "none"
      /\ forked' = FALSE /\ events' = {}
      /\ child' = [pc |-> "none", blocks |-> {}, data |-> 0, complete |-> FALSE]
    BY DEF EndForkOperation, AbortForkOperation, End, NoChild, MainGoto
<1>2. StatusTypes'
    BY <1>1 DEF StatusInv, StatusTypes, ChildPcs, MainPcs
<1>3. EventsOwn' /\ Beginning' /\ HandleClosed' /\ StatusTruthful'
    BY <1>1 DEF EventsOwn, Beginning, HandleClosed, StatusTruthful
<1>4. QED
    BY <1>2, <1>3 DEF StatusInv

LEMMA StatusRejoin ==
    ASSUME StatusInv, RejoinCOWPages
    PROVE  StatusInv'
<1>1. mpc' \in {"run", "rejoin", "remap"} /\ UNCHANGED <<type, child, forked, events, status>>
    BY DEF RejoinCOWPages, CopyBack, Remap, RejoinControl, MainGoto, process
<1>2. QED
    BY <1>1 DEF StatusInv, StatusTypes, EventsOwn, Beginning, HandleClosed, StatusTruthful, MainPcs

LEMMA InitStatusInv == Init => StatusInv
<1> SUFFICES ASSUME Init PROVE StatusInv
    OBVIOUS
<1>1. /\ mpc = "run" /\ type = "none" /\ status = "none" /\ forked = FALSE /\ events = {}
      /\ child = [pc |-> "none", blocks |-> {}, data |-> 0, complete |-> FALSE]
    BY DEF Init, ThreadInit, NoChild
<1>2. StatusTypes
    BY <1>1 DEF StatusTypes, ChildPcs, MainPcs
<1>3. EventsOwn /\ Beginning /\ HandleClosed /\ StatusTruthful
    BY <1>1 DEF EventsOwn, Beginning, HandleClosed, StatusTruthful
<1>4. QED
    BY <1>2, <1>3 DEF StatusInv

LEMMA NextStatusInv == StatusInv /\ [Next]_vars => StatusInv'
<1> SUFFICES ASSUME StatusInv, [Next]_vars PROVE StatusInv'
    OBVIOUS
<1>1. CASE ThreadSteps /\ UNCHANGED statusVars
    BY <1>1, StatusThread
<1>2. CASE Store \/ Alloc \/ Release \/ UNCHANGED vars
  <2>1. mpc' = mpc /\ UNCHANGED statusVars
    BY <1>2 DEF Store, Alloc, Release, vars, threadVars, process, statusVars
  <2>2. QED
    BY <2>1, StatusThread
<1>3. \/ Room /\ Submit /\ UNCHANGED Others
      \/ Threading /\ UNCHANGED Others
      \/ MayBegin /\ RequestSuspension /\ UNCHANGED Others
      \/ MainSteps /\ UNCHANGED Others
      \/ \E w \in Workers : WorkerSteps(w) /\ UNCHANGED Others
      \/ \E w \in Workers : WorkerStore(w)
      => ThreadSteps /\ UNCHANGED statusVars
  <2>1. UNCHANGED Others => UNCHANGED statusVars
    BY DEF Others, process, statusVars
  <2>2. ASSUME NEW w \in Workers, WorkerStore(w) PROVE Work(w) /\ UNCHANGED statusVars
    BY <2>2 DEF WorkerStore, process, statusVars
  <2>3. QED
    BY <2>1, <2>2, Zenon DEF ThreadSteps
<1>4. QED
    BY <1>1, <1>2, <1>3, StatusBegin, StatusChild, StatusAsked, StatusEnd, StatusRejoin, Zenon DEF Next

(* The events and the handle are those of this operation's child.          *)
THEOREM StatusInvariance == Spec => []StatusInv
<1>1. QED
    BY InitStatusInv, NextStatusInv, PTL DEF Spec

(* GetForkOperationStatus tells the truth about this operation's child,    *)
(* over any number of operations, failures and interleavings with the      *)
(* child.                                                                  *)
THEOREM StatusIsTrue == Spec => []StatusTruthful
<1>1. StatusInv => StatusTruthful
    BY DEF StatusInv
<1>2. QED
    BY <1>1, StatusInvariance, PTL
-----------------------------------------------------------------------------
(* The memory.                                                             *)

LEMMA MinimumExists ==
    ASSUME NEW S \in SUBSET Nat, S # {}
    PROVE  Min(S) \in S
<1> DEFINE Less == {ss \in Nat \X Nat : ss[1] < ss[2]}
<1>1. IsWellFoundedOn(Less, Nat)
    BY NatLessThanWellFounded DEF OpToRel
<1>2. \E x \in S : \A y \in S : ~(<<y, x>> \in Less)
  <2>1. S \subseteq Nat
    OBVIOUS
  <2> HIDE DEF Less
  <2>2. QED
    BY <1>1, <2>1, WFMin, Zenon
<1>3. \E x \in S : \A y \in S : x =< y
  <2>1. PICK x \in S : \A y \in S : ~(<<y, x>> \in Less)
    BY <1>2
  <2>2. ASSUME NEW y \in S, y < x PROVE <<y, x>> \in Less
    <3>1. <<y, x>> \in Nat \X Nat
        OBVIOUS
    <3>2. QED
        BY <2>2, <3>1
  <2>3. \A y \in S : ~(y < x)
    BY <2>1, <2>2, Zenon
  <2>4. QED
    BY <2>3
<1>4. QED
    BY <1>3 DEF Min

LEMMA AllocFinds ==
    ASSUME MemoryTypes, Fits(ctl.h, 1) # {}
    PROVE  AllocStart(ctl.h, 1) \in Blocks /\ ctl.h.state[AllocStart(ctl.h, 1)] # "MAPPED_IN_USE"
<1>1. ctl.h.blockSearchStart \in Nat
    BY DEF MemoryTypes
<1>2. Fits(ctl.h, 1) \in SUBSET Nat
    BY <1>1, BlocksAssumption DEF Fits
<1>3. AllocStart(ctl.h, 1) \in Fits(ctl.h, 1)
    BY <1>2, MinimumExists DEF AllocStart
<1>4. QED
    BY <1>1, <1>3, BlocksAssumption DEF Fits, Unused, Blocks

LEMMA ControlApart == Control \notin Blocks /\ Control \in Views /\ Blocks \subseteq Views
    BY DEF Control, Blocks, Views

memoryVars == <<ctl, heap, prot, file, snap, behind, spoiled>>

LEMMA MemoryThread ==
    ASSUME MemoryInv, mpc' = mpc \/ ThreadSteps,
           UNCHANGED <<memoryVars, type, child, forked, status>>
    PROVE  MemoryInv'
<1>1. UNCHANGED <<ctl, heap, prot, file, snap, behind, spoiled, type, child, forked, status>>
    BY DEF memoryVars
<1>2. MemoryTypes'
    BY <1>1, Zenon DEF MemoryInv, MemoryTypes
<1>3. Coherent'
    BY <1>1, Zenon DEF MemoryInv, Coherent
<1>4. CASE mpc' = mpc
  <2>1. Phases'
    BY <1>1, <1>4 DEF MemoryInv, Phases, Rejoined, CopiedPhase, BeforeCopy, EndPcs, Apart, InUse
  <2>2. Frozen'
    BY <1>1, <1>4 DEF MemoryInv, Frozen, CopiedPhase, InUse
  <2>3. QED
    BY <1>2, <1>3, <2>1, <2>2 DEF MemoryInv
<1>5. CASE mpc' # mpc
  <2>1. \/ mpc = "run" /\ mpc' = "request" /\ MayBegin
        \/ mpc = "request" /\ mpc' = "poll"
        \/ mpc = "poll" /\ mpc' = "quiet"
        \/ mpc \in {"run", "signal", "release", "unlock", "begun", "resume"}
           /\ mpc' \in {"run", "signal", "release", "unlock", "resume", "aborted"}
    BY <1>5, ThreadPlaces
  <2>2. ~CopiedPhase /\ ~CopiedPhase' /\ mpc # "protect" /\ mpc' # "protect"
    BY <2>1 DEF CopiedPhase
  <2>3. Phases'
    BY <1>1, <2>1, <2>2 DEF MemoryInv, Phases, Rejoined, BeforeCopy, MayBegin, EndPcs
  <2>4. Frozen'
    BY <1>1, <2>2, Zenon DEF MemoryInv, Frozen, InUse
  <2>5. QED
    BY <1>2, <1>3, <2>3, <2>4 DEF MemoryInv
<1>6. QED
    BY <1>4, <1>5

LEMMA StoreMemory ==
    ASSUME MemoryInv, NEW i \in Blocks, WriteBlock(i), mpc \notin QuietPcs, mpc' = mpc,
           UNCHANGED <<ctl, snap, behind, spoiled, type, child, forked, status>>
    PROVE  MemoryInv'
<1>1. MemoryTypes /\ Coherent /\ Phases /\ Frozen
    BY DEF MemoryInv
<1>2. /\ heap' = [heap EXCEPT ![i] = heap[i] + 1]
      /\ file' = IF prot[i] = "rw" THEN [file EXCEPT ![i] = heap[i] + 1] ELSE file
      /\ prot' = IF prot[i] = "rw" THEN prot ELSE [prot EXCEPT ![i] = "private"]
    BY DEF WriteBlock, Touch
<1>3. ~CopiedPhase /\ ~CopiedPhase' /\ mpc # "protect" /\ mpc' # "protect"
    BY DEF CopiedPhase, QuietPcs
<1>4. /\ DOMAIN heap = Blocks /\ DOMAIN file = Views /\ prot \in [Views -> {"rw", "writecopy", "private"}]
    BY <1>1 DEF MemoryTypes
<1>5. MemoryTypes'
    BY <1>1, <1>2, <1>4, ControlApart DEF MemoryTypes
<1>6. Coherent'
    BY <1>1, <1>2, <1>4, ControlApart DEF Coherent
<1>7. Phases'
  <2>1. \A v \in Views : prot'[v] = "rw" <=> prot[v] = "rw"
    BY <1>2, <1>4
  <2>2. Apart' = Apart
    BY <2>1, ControlApart DEF Apart, InUse
  <2>3. QED
    BY <1>1, <1>3, <2>1, <2>2, ControlApart DEF Phases, Rejoined, BeforeCopy
<1>8. Frozen'
    BY <1>1, <1>2, <1>3, <1>4, ControlApart DEF Frozen, InUse
<1>9. QED
    BY <1>5, <1>6, <1>7, <1>8 DEF MemoryInv

LEMMA AllocMemory ==
    ASSUME MemoryInv, Alloc
    PROVE  MemoryInv'
<1>1. MemoryTypes /\ Coherent /\ Phases /\ Frozen
    BY DEF MemoryInv
<1>2. /\ DOMAIN heap = Blocks /\ DOMAIN file = Views /\ prot \in [Views -> {"rw", "writecopy", "private"}]
      /\ ctl.h.state \in [Blocks -> BlockState]
    BY <1>1 DEF MemoryTypes
<1>3. PICK i : i = AllocStart(ctl.h, 1)
    BY Zenon
<1>4. i \in Blocks /\ ctl.h.state[i] # "MAPPED_IN_USE" /\ i \in Nat
    BY <1>1, <1>3, AllocFinds DEF Alloc, Blocks
<1>5. /\ ctl' = [ctl EXCEPT !.h = AllocHeapBlock(ctl.h, 1)]
      /\ heap' = [heap EXCEPT ![i] = 0]
    BY <1>3 DEF Alloc
<1>6. /\ ctl'.h.state = [j \in Blocks |-> IF j = i THEN "MAPPED_IN_USE" ELSE ctl.h.state[j]]
      /\ ctl' = [h |-> ctl'.h, data |-> ctl'.data]
      /\ ctl'.h = [state |-> ctl'.h.state, numMappedBlocks |-> ctl'.h.numMappedBlocks,
                   blockSearchStart |-> ctl'.h.blockSearchStart]
      /\ ctl'.h.blockSearchStart \in Nat
  <2>1. ctl = [h |-> ctl.h, data |-> ctl.data] /\ ctl.h.blockSearchStart \in Nat
    BY <1>1 DEF MemoryTypes
  <2>2. AllocHeapBlock(ctl.h, 1) =
            [state |-> [j \in Blocks |-> IF j \in i .. i + 1 - 1 THEN "MAPPED_IN_USE" ELSE ctl.h.state[j]],
             numMappedBlocks |-> ctl.h.numMappedBlocks
                 + Cardinality({j \in i .. i + 1 - 1 : ctl.h.state[j] = "UNMAPPED"}),
             blockSearchStart |-> IF i = ctl.h.blockSearchStart THEN i + 1 ELSE ctl.h.blockSearchStart]
    BY <1>3 DEF AllocHeapBlock
  <2>3. i .. i + 1 - 1 = {i}
    BY <1>4
  <2>4. PICK st, n, bs :
            /\ st = [j \in Blocks |-> IF j \in {i} THEN "MAPPED_IN_USE" ELSE ctl.h.state[j]]
            /\ bs = IF i = ctl.h.blockSearchStart THEN i + 1 ELSE ctl.h.blockSearchStart
            /\ AllocHeapBlock(ctl.h, 1) = [state |-> st, numMappedBlocks |-> n, blockSearchStart |-> bs]
    BY <2>2, <2>3, Zenon
  <2>5. ctl' = [h |-> [state |-> st, numMappedBlocks |-> n, blockSearchStart |-> bs], data |-> ctl.data]
    BY <1>5, <2>1, <2>4
  <2>6. bs \in Nat
    BY <1>4, <2>1, <2>4
  <2>7. QED
    BY <2>4, <2>5, <2>6
<1>7. PICK p : p = IF ctl.h.state[i] = "UNMAPPED" THEN [prot EXCEPT ![i] = "rw"] ELSE Touch(prot, i)
    BY Zenon
<1>8. /\ prot' = Touch(p, Control)
      /\ file' = [v \in Views |-> CASE v = i /\ p[i] = "rw" -> 0
                                    [] v = Control /\ prot[Control] = "rw" -> ctl'
                                    [] OTHER -> file[v]]
    BY <1>3, <1>7 DEF Alloc
<1>9. /\ p \in [Views -> {"rw", "writecopy", "private"}]
      /\ p[i] = IF ctl.h.state[i] = "UNMAPPED" \/ prot[i] = "rw" THEN "rw" ELSE "private"
      /\ \A v \in Views : v # i => p[v] = prot[v]
    BY <1>2, <1>4, <1>7, ControlApart DEF Touch
<1>10. /\ prot' \in [Views -> {"rw", "writecopy", "private"}]
       /\ \A v \in Views : v # Control => prot'[v] = p[v]
       /\ prot'[Control] = IF prot[Control] = "rw" THEN "rw" ELSE "private"
    BY <1>4, <1>8, <1>9, ControlApart DEF Touch
<1>11. /\ DOMAIN file' = Views /\ file' = [v \in Views |-> file'[v]]
       /\ file'[i] = IF p[i] = "rw" THEN 0 ELSE file[i]
       /\ file'[Control] = IF prot[Control] = "rw" THEN ctl' ELSE file[Control]
       /\ \A v \in Blocks : v # i => file'[v] = file[v]
    BY <1>4, <1>8, ControlApart
<1>12. /\ mpc = "run" /\ mpc' = "run"
       /\ UNCHANGED <<snap, behind, spoiled, type, child, forked, status>>
    BY DEF Alloc, threadVars, process, history
<1>13. MemoryTypes'
  <2>1. ctl'.h.state \in [Blocks -> BlockState]
    BY <1>2, <1>6 DEF BlockState
  <2>2. DOMAIN heap' = Blocks /\ heap' = [j \in Blocks |-> heap'[j]]
    BY <1>2, <1>5
  <2>3. QED
    BY <1>1, <1>6, <1>10, <1>11, <1>12, <2>1, <2>2 DEF MemoryTypes
<1>14. Coherent'
    BY <1>1, <1>2, <1>4, <1>5, <1>9, <1>10, <1>11, ControlApart DEF Coherent
<1>15. ~CopiedPhase /\ ~CopiedPhase' /\ ~BeforeCopy /\ ~BeforeCopy'
    BY <1>12 DEF CopiedPhase, BeforeCopy
<1>16. Phases'
    BY <1>1, <1>4, <1>9, <1>10, <1>12, <1>15, ControlApart DEF Phases, Rejoined, EndPcs
<1>17. Frozen'
    BY <1>1, <1>4, <1>6, <1>9, <1>10, <1>11, <1>12, <1>15, ControlApart DEF Frozen, InUse
<1>18. QED
    BY <1>13, <1>14, <1>16, <1>17 DEF MemoryInv

LEMMA ReleaseMemory ==
    ASSUME MemoryInv, Release
    PROVE  MemoryInv'
<1>1. MemoryTypes /\ Coherent /\ Phases /\ Frozen
    BY DEF MemoryInv
<1>2. /\ DOMAIN heap = Blocks /\ DOMAIN file = Views /\ prot \in [Views -> {"rw", "writecopy", "private"}]
      /\ ctl.h.state \in [Blocks -> BlockState]
    BY <1>1 DEF MemoryTypes
<1>3. PICK i \in InUse(ctl) : ctl' = [ctl EXCEPT !.h = FreeHeapBlock(ctl.h, i, 1)]
    BY DEF Release
<1>4. i \in Blocks /\ i \in Nat
    BY DEF InUse, Blocks
<1>5. PICK st, bs :
        /\ st = [j \in Blocks |-> IF j \in i .. i + 1 - 1 THEN "MAPPED_FREE" ELSE ctl.h.state[j]]
        /\ bs = IF ctl.h.blockSearchStart > i THEN i ELSE ctl.h.blockSearchStart
        /\ FreeHeapBlock(ctl.h, i, 1) = [ctl.h EXCEPT !.state = st, !.blockSearchStart = bs]
    BY DEF FreeHeapBlock
<1>6. /\ ctl'.h.state = st /\ ctl' = [h |-> ctl'.h, data |-> ctl'.data]
      /\ ctl'.h = [state |-> ctl'.h.state, numMappedBlocks |-> ctl'.h.numMappedBlocks,
                   blockSearchStart |-> ctl'.h.blockSearchStart]
      /\ ctl'.h.blockSearchStart \in Nat
  <2>1. /\ ctl = [h |-> ctl.h, data |-> ctl.data] /\ ctl.h.blockSearchStart \in Nat
        /\ ctl.h = [state |-> ctl.h.state, numMappedBlocks |-> ctl.h.numMappedBlocks,
                   blockSearchStart |-> ctl.h.blockSearchStart]
    BY <1>1 DEF MemoryTypes
  <2>2. PICK n : n = ctl.h.numMappedBlocks
    BY Zenon
  <2>3. FreeHeapBlock(ctl.h, i, 1) = [state |-> st, numMappedBlocks |-> n, blockSearchStart |-> bs]
    BY <1>5, <2>1, <2>2
  <2>4. ctl' = [h |-> [state |-> st, numMappedBlocks |-> n, blockSearchStart |-> bs], data |-> ctl.data]
    BY <1>3, <2>1, <2>3
  <2>5. bs \in Nat
    BY <1>4, <1>5, <2>1
  <2>6. QED
    BY <2>4, <2>5
<1>7. \A j \in Blocks : st[j] \in {"MAPPED_FREE", ctl.h.state[j]}
    BY <1>5
<1>8. /\ prot' = IF prot[Control] = "rw" THEN prot ELSE [prot EXCEPT ![Control] = "private"]
      /\ file' = IF prot[Control] = "rw" THEN [file EXCEPT ![Control] = ctl'] ELSE file
      /\ mpc = "run" /\ mpc' = "run"
      /\ UNCHANGED <<heap, snap, behind, spoiled, type, child, forked, status>>
    BY DEF Release, Touch, threadVars, process, history
<1>9. /\ prot' \in [Views -> {"rw", "writecopy", "private"}]
      /\ \A v \in Blocks : prot'[v] = prot[v]
      /\ prot'[Control] = IF prot[Control] = "rw" THEN "rw" ELSE "private"
      /\ DOMAIN file' = Views /\ file' = [v \in Views |-> file'[v]]
      /\ file'[Control] = IF prot[Control] = "rw" THEN ctl' ELSE file[Control]
      /\ \A v \in Blocks : file'[v] = file[v]
    BY <1>1, <1>2, <1>8, ControlApart DEF MemoryTypes
<1>10. MemoryTypes'
  <2>1. ctl'.h.state \in [Blocks -> BlockState]
    BY <1>2, <1>5, <1>6 DEF BlockState
  <2>2. QED
    BY <1>1, <1>6, <1>8, <1>9, <2>1 DEF MemoryTypes
<1>11. Coherent'
    BY <1>1, <1>8, <1>9 DEF Coherent
<1>12. ~CopiedPhase /\ ~CopiedPhase' /\ ~BeforeCopy /\ ~BeforeCopy'
    BY <1>8 DEF CopiedPhase, BeforeCopy
<1>13. Phases'
    BY <1>1, <1>8, <1>9, <1>12 DEF Phases, Rejoined, EndPcs
<1>14. Frozen'
    BY <1>1, <1>6, <1>7, <1>8, <1>9, <1>12 DEF Frozen, InUse
<1>15. QED
    BY <1>10, <1>11, <1>13, <1>14 DEF MemoryInv

LEMMA CopyMemory ==
    ASSUME MemoryInv, StatusInv, CopyForkOperationData
    PROVE  MemoryInv'
<1>1. MemoryTypes /\ Coherent /\ Phases /\ Frozen
    BY DEF MemoryInv
<1>2. /\ DOMAIN heap = Blocks /\ DOMAIN file = Views /\ prot \in [Views -> {"rw", "writecopy", "private"}]
      /\ ctl = [h |-> ctl.h, data |-> ctl.data]
    BY <1>1 DEF MemoryTypes
<1>3. /\ ctl' = [ctl EXCEPT !.data = forks]
      /\ file' = IF prot[Control] = "rw" THEN [file EXCEPT ![Control] = ctl'] ELSE file
      /\ prot' = Protected(Touch(prot, Control), {Control})
      /\ snap' = [heap |-> [j \in InUse(ctl) |-> heap[j]], data |-> forks, except |-> behind,
                  valid |-> ~spoiled]
      /\ mpc = "copy" /\ mpc' = "protect"
      /\ UNCHANGED <<heap, behind, spoiled, type, child, forked, status>>
    BY DEF CopyForkOperationData, CopyData, MainGoto, process
<1>4. ctl' = [h |-> ctl.h, data |-> forks] /\ ctl'.h = ctl.h /\ ctl'.data = forks
    BY <1>2, <1>3
<1>5. /\ prot' \in [Views -> {"rw", "writecopy", "private"}]
      /\ \A v \in Blocks : prot'[v] = prot[v]
      /\ prot'[Control] = IF prot[Control] = "rw" THEN "writecopy" ELSE "private"
    BY <1>2, <1>3, ControlApart DEF Protected, Touch
<1>6. /\ DOMAIN file' = Views /\ file' = [v \in Views |-> file'[v]]
      /\ file'[Control] = IF prot[Control] = "rw" THEN ctl' ELSE file[Control]
      /\ \A v \in Blocks : file'[v] = file[v]
    BY <1>1, <1>2, <1>3, ControlApart DEF MemoryTypes
<1>7. /\ DOMAIN snap'.heap = InUse(ctl) /\ \A j \in InUse(ctl) : snap'.heap[j] = heap[j]
      /\ snap'.data = forks /\ snap'.except = behind /\ snap'.valid = ~spoiled
      /\ snap' = [heap |-> snap'.heap, data |-> snap'.data, except |-> snap'.except,
                  valid |-> snap'.valid]
    BY <1>3
<1>8. MemoryTypes'
    BY <1>1, <1>3, <1>4, <1>5, <1>6, <1>7 DEF MemoryTypes
<1>9. Coherent'
    BY <1>1, <1>3, <1>5, <1>6 DEF Coherent
<1>10. CopiedPhase' /\ ~BeforeCopy' /\ BeforeCopy
    BY <1>3 DEF CopiedPhase, BeforeCopy
<1>11. type # "none"
    BY <1>3 DEF StatusInv, Beginning
<1>12. Phases'
    BY <1>1, <1>3, <1>7, <1>10, <1>11 DEF Phases, MemoryTypes, EndPcs
<1>13. ~spoiled => Rejoined
    BY <1>1, <1>3, <1>10 DEF Phases, EndPcs
<1>14. InUse(ctl') = InUse(ctl) /\ \A j \in InUse(ctl) : j \in Blocks /\ ctl.h.state[j] = "MAPPED_IN_USE"
    BY <1>4 DEF InUse
<1>15. child.pc # "mapped"
    BY <1>3 DEF StatusInv, Beginning, EventsOwn
<1>16. Frozen'
  <2>1. CASE spoiled
    BY <1>3, <1>7, <2>1 DEF Frozen
  <2>2. CASE ~spoiled
    <3>1. /\ file'[Control] = ctl' /\ prot'[Control] # "rw"
          /\ \A j \in Blocks \ behind : file[j] = heap[j]
        BY <1>1, <1>5, <1>6, <1>13, <2>2 DEF Rejoined, Coherent
    <3>2. InUse(file'[Control]) = DOMAIN snap'.heap /\ file'[Control].data = snap'.data
        BY <1>4, <1>7, <1>14, <3>1
    <3>3. \A j \in DOMAIN snap'.heap :
            /\ j \in Blocks /\ ctl'.h.state[j] # "UNMAPPED"
            /\ j \notin snap'.except => file'[j] = snap'.heap[j]
        BY <1>4, <1>6, <1>7, <1>14, <3>1
    <3>4. DOMAIN snap'.heap = InUse(ctl')
        BY <1>7, <1>14
    <3>5. QED
        BY <1>3, <1>15, <3>1, <3>2, <3>3, <3>4, Zenon DEF Frozen
  <2>3. QED
    BY <2>1, <2>2
<1>17. QED
    BY <1>8, <1>9, <1>12, <1>16 DEF MemoryInv

LEMMA ProtectMemory ==
    ASSUME MemoryInv, StatusInv, ProtectHeap
    PROVE  MemoryInv'
<1>1. MemoryTypes /\ Coherent /\ Phases /\ Frozen
    BY DEF MemoryInv
<1>2. prot \in [Views -> {"rw", "writecopy", "private"}]
    BY <1>1 DEF MemoryTypes
<1>3. PICK shared \in SUBSET InUse(ctl) :
        /\ prot' = Protected(prot, InUse(ctl) \ shared)
        /\ snap' = [snap EXCEPT !.except = snap.except \cup shared]
    BY DEF ProtectHeap
<1>14. /\ mpc = "protect" /\ mpc' = IF type = "socket" THEN "begun" ELSE "create"
       /\ child' = IF type = "socket" THEN [child EXCEPT !.pc = "started"] ELSE child
       /\ UNCHANGED <<ctl, heap, file, behind, spoiled, type, forked, status>>
    BY DEF ProtectHeap, MainGoto, Copied
<1>15. snap' = [heap |-> snap.heap, data |-> snap.data, except |-> snap.except \cup shared,
                valid |-> snap.valid]
    BY <1>1, <1>3 DEF MemoryTypes
<1>16. /\ snap'.heap = snap.heap /\ snap'.data = snap.data /\ snap'.valid = snap.valid
       /\ snap'.except = snap.except \cup shared
    BY <1>15
<1>4. /\ prot' \in [Views -> {"rw", "writecopy", "private"}]
      /\ \A v \in Views : v \in InUse(ctl) \ shared => prot'[v] # "rw"
      /\ \A v \in Views : prot'[v] = "private" <=> prot[v] = "private"
      /\ prot'[Control] = prot[Control]
  <2>1. InUse(ctl) \subseteq Blocks
    BY DEF InUse
  <2>2. QED
    BY <1>2, <1>3, <2>1, ControlApart DEF Protected
<1>5. MemoryTypes'
  <2>1. snap' = [heap |-> snap'.heap, data |-> snap'.data, except |-> snap'.except,
                 valid |-> snap'.valid]
    BY <1>15, <1>16
  <2>2. QED
    BY <1>1, <1>4, <1>14, <1>16, <2>1, Zenon DEF MemoryTypes
<1>6. Coherent'
    BY <1>1, <1>4, <1>14, ControlApart DEF Coherent
<1>7. /\ type \in {"rdb", "socket"}
      /\ type = "socket" => child.pc = "suspended" /\ forked
      /\ type # "socket" => child.pc \in {"none", "exited"}
      /\ child = [pc |-> child.pc, blocks |-> child.blocks, data |-> child.data,
                  complete |-> child.complete]
    BY <1>14 DEF StatusInv, StatusTypes, EventsOwn, Beginning
<1>8. child'.pc = (IF type = "socket" THEN "started" ELSE child.pc) /\ child'.pc # "mapped"
    BY <1>7, <1>14
<1>9. CopiedPhase /\ ~BeforeCopy'
    BY <1>7, <1>14 DEF CopiedPhase, BeforeCopy
<1>10. CopiedPhase' <=> type = "rdb"
    BY <1>7, <1>14 DEF CopiedPhase
<1>11. Phases'
    BY <1>1, <1>7, <1>9, <1>10, <1>14, <1>16 DEF Phases, MemoryTypes, EndPcs
<1>12. Frozen'
  <2>1. CASE ~snap.valid
    BY <1>16, <2>1 DEF Frozen
  <2>2. CASE snap.valid
    <3>1. /\ prot[Control] # "rw"
          /\ file[Control].data = snap.data /\ InUse(file[Control]) = DOMAIN snap.heap
          /\ \A i \in DOMAIN snap.heap :
            /\ i \in Blocks /\ ctl.h.state[i] # "UNMAPPED"
            /\ i \notin snap.except => file[i] = snap.heap[i]
          /\ DOMAIN snap.heap = InUse(ctl)
        BY <1>1, <1>9, <1>14, <2>2 DEF Frozen
    <3>2. \A i \in DOMAIN snap'.heap :
            /\ i \in Blocks /\ ctl'.h.state[i] # "UNMAPPED"
            /\ i \notin snap'.except => file'[i] = snap'.heap[i] /\ prot'[i] # "rw"
        BY <1>4, <1>14, <1>16, <3>1, ControlApart
    <3>3. mpc' # "protect"
        BY <1>14
    <3>4. /\ prot'[Control] # "rw"
          /\ file'[Control].data = snap'.data /\ InUse(file'[Control]) = DOMAIN snap'.heap
        BY <1>4, <1>14, <1>16, <3>1
    <3>5. QED
        BY <1>8, <3>2, <3>3, <3>4, Zenon DEF Frozen, InUse
  <2>3. QED
    BY <2>1, <2>2
<1>13. QED
    BY <1>5, <1>6, <1>11, <1>12 DEF MemoryInv

LEMMA CreateMemory ==
    ASSUME MemoryInv, StatusInv, CreateChildProcess
    PROVE  MemoryInv'
<1>1. MemoryTypes /\ Coherent /\ Phases /\ Frozen
    BY DEF MemoryInv
<1>2. /\ mpc = "create" /\ mpc' = IF type = "socket" THEN "copy" ELSE "begun"
      /\ forked' = TRUE
      /\ child'.pc = IF type = "socket" THEN "suspended" ELSE "started"
      /\ UNCHANGED <<ctl, heap, prot, file, snap, behind, spoiled, type, status>>
    BY DEF CreateChildProcess, MainGoto, Created, memory, history, NoChild
<1>3. type \in {"rdb", "socket"}
    BY <1>2 DEF StatusInv, StatusTypes, Beginning
<1>4. MemoryTypes' /\ Coherent'
    BY <1>1, <1>2, Zenon DEF MemoryTypes, Coherent
<1>5. /\ CopiedPhase <=> type = "rdb"
      /\ BeforeCopy <=> type = "socket"
      /\ ~CopiedPhase'
      /\ BeforeCopy' <=> type = "socket"
    BY <1>2, <1>3 DEF CopiedPhase, BeforeCopy
<1>6. Phases'
    BY <1>1, <1>2, <1>3, <1>5 DEF Phases, Rejoined, EndPcs
<1>7. Frozen'
    BY <1>1, <1>2, <1>3, <1>5 DEF Frozen, InUse
<1>8. QED
    BY <1>4, <1>6, <1>7 DEF MemoryInv

LEMMA BeginFailsMemory ==
    ASSUME MemoryInv, StatusInv, BeginFails
    PROVE  MemoryInv'
<1>1. MemoryTypes /\ Coherent /\ Phases /\ Frozen
    BY DEF MemoryInv
<1>2. /\ DOMAIN heap = Blocks /\ DOMAIN file = Views /\ prot \in [Views -> {"rw", "writecopy", "private"}]
      /\ ctl = [h |-> ctl.h, data |-> ctl.data]
    BY <1>1 DEF MemoryTypes
<1>3. /\ mpc' = "begun"
      /\ child' = IF child.pc = "suspended" THEN [child EXCEPT !.pc = "exited"] ELSE child
      /\ spoiled' = (spoiled \/ (mpc = "create" /\ type = "rdb"))
      /\ UNCHANGED <<heap, snap, behind, type, forked, status>>
    BY DEF BeginFails
<1>4. child'.pc \in {"started", "mapped"} => child' = child
    BY <1>3 DEF StatusInv, StatusTypes
<1>5. CASE mpc = "copy" /\ CopyData /\ prot' = Touch(prot, Control)
  <2>1. /\ ctl' = [ctl EXCEPT !.data = forks]
        /\ file' = IF prot[Control] = "rw" THEN [file EXCEPT ![Control] = ctl'] ELSE file
        /\ prot' = IF prot[Control] = "rw" THEN prot ELSE [prot EXCEPT ![Control] = "private"]
    BY <1>5 DEF CopyData, Touch
  <2>2. ctl' = [h |-> ctl.h, data |-> forks] /\ ctl'.h = ctl.h /\ ctl'.data = forks
    BY <1>2, <2>1
  <2>3. /\ prot' \in [Views -> {"rw", "writecopy", "private"}]
        /\ \A v \in Blocks : prot'[v] = prot[v]
        /\ prot'[Control] = IF prot[Control] = "rw" THEN "rw" ELSE "private"
        /\ DOMAIN file' = Views /\ file' = [v \in Views |-> file'[v]]
        /\ file'[Control] = IF prot[Control] = "rw" THEN ctl' ELSE file[Control]
        /\ \A v \in Blocks : file'[v] = file[v]
    BY <1>1, <1>2, <2>1, ControlApart DEF MemoryTypes
  <2>4. spoiled' = spoiled
    BY <1>1, <1>3, <1>5 DEF MemoryTypes
  <2>5. MemoryTypes'
    BY <1>1, <1>3, <2>2, <2>3, <2>4 DEF MemoryTypes
  <2>6. Coherent'
    BY <1>1, <1>3, <2>3 DEF Coherent
  <2>7. ~CopiedPhase /\ BeforeCopy /\ ~CopiedPhase' /\ ~BeforeCopy'
    BY <1>3, <1>5 DEF CopiedPhase, BeforeCopy
  <2>8. Phases'
    BY <1>1, <1>3, <1>5, <2>3, <2>4, <2>7 DEF Phases, Rejoined, EndPcs
  <2>9. Frozen'
    BY <1>1, <1>3, <1>4, <1>5, <2>2, <2>3, <2>7 DEF Frozen, InUse
  <2>10. QED
    BY <2>5, <2>6, <2>8, <2>9 DEF MemoryInv
<1>6. CASE mpc = "create" /\ UNCHANGED <<ctl, prot, file>>
  <2>1. type \in {"rdb", "socket"}
    BY <1>6 DEF StatusInv, StatusTypes, Beginning
  <2>2. /\ spoiled' \in BOOLEAN /\ (type = "rdb" => spoiled') /\ (type = "socket" => spoiled' = spoiled)
    BY <1>1, <1>3, <1>6 DEF MemoryTypes
  <2>3. MemoryTypes' /\ Coherent'
    BY <1>1, <1>3, <1>6, <2>2, Zenon DEF MemoryTypes, Coherent
  <2>4. ~CopiedPhase' /\ ~BeforeCopy' /\ (BeforeCopy <=> type = "socket")
    BY <1>3, <1>6, <2>1 DEF CopiedPhase, BeforeCopy
  <2>5. Phases'
    BY <1>1, <1>3, <1>6, <2>1, <2>2, <2>4 DEF Phases, Rejoined, EndPcs
  <2>6. Frozen'
    BY <1>1, <1>3, <1>4, <1>6, <2>4 DEF Frozen, InUse
  <2>7. QED
    BY <2>3, <2>5, <2>6 DEF MemoryInv
<1>7. QED
    BY <1>5, <1>6 DEF BeginFails

LEMMA BeginMemory ==
    ASSUME MemoryInv, StatusInv, BeginForkOperation
    PROVE  MemoryInv'
<1>1. MemoryTypes /\ Coherent /\ Phases /\ Frozen
    BY DEF MemoryInv
<1>2. /\ mpc = "quiet" /\ type' \in {"rdb", "socket"}
      /\ mpc' = IF type' = "socket" THEN "create" ELSE "copy"
      /\ UNCHANGED <<ctl, heap, prot, file, snap, behind, spoiled, child, forked>>
    BY DEF BeginForkOperation, MainGoto, memory, process, history
<1>3. MemoryTypes' /\ Coherent'
    BY <1>1, <1>2, Zenon DEF MemoryTypes, Coherent
<1>4. BeforeCopy /\ ~CopiedPhase /\ BeforeCopy' /\ ~CopiedPhase'
    BY <1>2 DEF BeforeCopy, CopiedPhase
<1>5. Phases'
    BY <1>1, <1>2, <1>4 DEF Phases, Rejoined, EndPcs
<1>6. Frozen'
    BY <1>1, <1>2, <1>4 DEF Frozen, InUse
<1>7. QED
    BY <1>3, <1>5, <1>6 DEF MemoryInv

LEMMA ChildMemory ==
    ASSUME MemoryInv, StatusInv, ChildMaps \/ ChildDone \/ ChildFails \/ ChildExits
    PROVE  MemoryInv'
<1>1. MemoryTypes /\ Coherent /\ Phases /\ Frozen
    BY DEF MemoryInv
<1>2. UNCHANGED <<mpc, ctl, heap, prot, file, snap, behind, spoiled, type, forked, status>>
    BY DEF ChildMaps, ChildDone, ChildFails, ChildExits, threadVars, memory, history
<1>3. \/ child.pc = "started" /\ child'.pc = "mapped" /\ child'.data = file[Control].data
         /\ child'.blocks = InUse(file[Control])
      \/ child'.pc \in {"done", "exited"}
    BY DEF ChildMaps, ChildDone, ChildFails, ChildExits, StatusInv, StatusTypes
<1>4. MemoryTypes' /\ Coherent'
    BY <1>1, <1>2, Zenon DEF MemoryTypes, Coherent
<1>5. (CopiedPhase <=> CopiedPhase') /\ (BeforeCopy <=> BeforeCopy')
    BY <1>2 DEF CopiedPhase, BeforeCopy
<1>6. Phases'
    BY <1>1, <1>2, <1>5 DEF Phases, Rejoined, EndPcs, Apart
<1>7. Frozen'
    BY <1>1, <1>2, <1>3, <1>5 DEF Frozen, InUse
<1>8. QED
    BY <1>4, <1>6, <1>7 DEF MemoryInv

LEMMA StatusMemory ==
    ASSUME MemoryInv, StatusInv, GetForkOperationStatus \/ Status
    PROVE  MemoryInv'
<1>1. MemoryTypes /\ Coherent /\ Phases /\ Frozen
    BY DEF MemoryInv
<1>2. /\ UNCHANGED <<ctl, heap, prot, file, snap, behind, spoiled, type, child>>
      /\ mpc \in {"run", "status", "process"} /\ mpc' \in {"run", "status", "process"}
    BY DEF GetForkOperationStatus, Status, StatusFailed, StatusProcess, StatusReturns, memory, process,
           history
<1>3. forked \/ status \in {"COMPLETE", "FAILED"} => forked' \/ status' \in {"COMPLETE", "FAILED"}
  <2> USE DEF StatusInv, HandleClosed, StatusTypes
  <2>1. CASE GetForkOperationStatus
    BY <2>1 DEF GetForkOperationStatus, StatusReturns, process
  <2>2. CASE StatusFailed
    BY <2>2 DEF StatusFailed, StatusReturns, process
  <2>3. CASE StatusProcess
    BY <2>3 DEF StatusProcess, StatusReturns
  <2>4. QED
    BY <2>1, <2>2, <2>3 DEF Status
<1>4. MemoryTypes' /\ Coherent'
    BY <1>1, <1>2, Zenon DEF MemoryTypes, Coherent
<1>5. ~CopiedPhase /\ ~CopiedPhase' /\ ~BeforeCopy /\ ~BeforeCopy'
    BY <1>2 DEF CopiedPhase, BeforeCopy
<1>6. Phases'
    BY <1>1, <1>2, <1>3, <1>5 DEF Phases, Rejoined, EndPcs
<1>7. Frozen'
    BY <1>1, <1>2, <1>5 DEF Frozen, InUse
<1>8. QED
    BY <1>4, <1>6, <1>7 DEF MemoryInv

LEMMA EndMemory ==
    ASSUME MemoryInv, EndForkOperation \/ AbortForkOperation
    PROVE  MemoryInv'
<1>1. MemoryTypes /\ Coherent
    BY DEF MemoryInv
<1>2. /\ snap' = [heap |-> <<>>, data |-> 0, except |-> {}, valid |-> FALSE]
      /\ mpc' = "rejoin" /\ UNCHANGED <<ctl, heap, prot, file, behind, spoiled>>
    BY DEF EndForkOperation, AbortForkOperation, End, MainGoto, NoSnapshot, memory
<1>3. MemoryTypes' /\ Coherent'
    BY <1>1, <1>2 DEF MemoryTypes, Coherent
<1>4. Phases' /\ Frozen'
    BY <1>2 DEF Phases, Frozen, CopiedPhase, BeforeCopy, EndPcs
<1>5. QED
    BY <1>3, <1>4 DEF MemoryInv

LEMMA ApartFirst == ASSUME Apart # {} PROVE Min(Apart) \in Apart /\ Min(Apart) \in Blocks
<1>1. Apart \subseteq Blocks /\ Blocks \subseteq Nat
    BY BlocksAssumption DEF Apart, InUse, Blocks
<1>2. QED
    BY <1>1, MinimumExists

LEMMA RejoinMemory ==
    ASSUME MemoryInv, RejoinCOWPages
    PROVE  MemoryInv'
<1>1. MemoryTypes /\ Coherent /\ Phases /\ ~snap.valid
    BY DEF MemoryInv, Phases, EndPcs, RejoinCOWPages, CopyBack, Remap, RejoinControl, MainGoto
<1>2. /\ DOMAIN heap = Blocks /\ DOMAIN file = Views /\ prot \in [Views -> {"rw", "writecopy", "private"}]
    BY <1>1 DEF MemoryTypes
<1>3. UNCHANGED <<ctl, snap>> /\ mpc' \in {"run", "rejoin", "remap"}
    BY DEF RejoinCOWPages, CopyBack, Remap, RejoinControl, MainGoto, history
<1>4. Frozen'
    BY <1>1, <1>3 DEF Frozen
<1>5. CASE CopyBack
  <2>1. PICK v : v = Min(Apart)
    OBVIOUS
  <2>2. v \in Blocks
    BY <1>5, <2>1, ApartFirst DEF CopyBack
  <2>3. /\ file' = [file EXCEPT ![v] = heap[v]] /\ Apart # {}
        /\ mpc' = "remap" /\ UNCHANGED <<heap, prot, behind, spoiled>>
    BY <1>5, <2>1 DEF CopyBack, MainGoto, history
  <2>4. MemoryTypes' /\ Coherent'
    BY <1>1, <1>2, <1>3, <2>2, <2>3, ControlApart DEF MemoryTypes, Coherent
  <2>5. Phases'
    BY <1>1, <1>3, <2>3 DEF Phases, CopiedPhase, BeforeCopy, EndPcs, Apart, InUse
  <2>6. QED
    BY <1>4, <2>4, <2>5 DEF MemoryInv
<1>6. CASE Remap
  <2>1. PICK v : v = Min(Apart)
    OBVIOUS
  <2>2. v \in Blocks
    BY <1>1, <1>6, <2>1, ApartFirst DEF Remap, MainGoto, Phases
  <2>3. /\ heap' = [heap EXCEPT ![v] = file[v]] /\ prot' = [prot EXCEPT ![v] = "rw"]
        /\ mpc' = "rejoin" /\ UNCHANGED <<file, behind, spoiled>>
    BY <1>6, <2>1 DEF Remap, MainGoto, history
  <2>4. MemoryTypes' /\ Coherent'
    BY <1>1, <1>2, <1>3, <2>2, <2>3, ControlApart DEF MemoryTypes, Coherent
  <2>5. Phases'
    BY <1>1, <1>3, <2>3 DEF Phases, CopiedPhase, BeforeCopy, EndPcs
  <2>6. QED
    BY <1>4, <2>4, <2>5 DEF MemoryInv
<1>7. CASE RejoinControl
  <2>1. /\ file' = [file EXCEPT ![Control] = ctl] /\ prot' = [prot EXCEPT ![Control] = "rw"]
        /\ behind' = {i \in Blocks : prot[i] # "rw"} /\ spoiled' = FALSE
        /\ mpc' = "run" /\ UNCHANGED heap
    BY <1>7 DEF RejoinControl, MainGoto
  <2>2. MemoryTypes' /\ Coherent'
    BY <1>1, <1>2, <1>3, <2>1, ControlApart DEF MemoryTypes, Coherent
  <2>3. Rejoined'
    BY <1>2, <2>1, ControlApart DEF Rejoined
  <2>4. Phases'
    BY <1>1, <1>3, <2>1, <2>3 DEF Phases, CopiedPhase, BeforeCopy, EndPcs
  <2>5. QED
    BY <1>4, <2>2, <2>4 DEF MemoryInv
<1>8. QED
    BY <1>5, <1>6, <1>7 DEF RejoinCOWPages

LEMMA InitMemoryInv == Init => MemoryInv
<1> SUFFICES ASSUME Init PROVE MemoryInv
    OBVIOUS
<1>1. /\ ctl = [h |-> AllocHeapBlock(HeapInit, 1), data |-> 0]
      /\ heap = [i \in Blocks |-> IF i = 0 THEN 1 ELSE 0] /\ prot = [v \in Views |-> "rw"]
      /\ file = [v \in Views |-> IF v = Control THEN ctl ELSE heap[v]]
      /\ behind = {} /\ spoiled = FALSE /\ mpc = "run"
      /\ snap = [heap |-> <<>>, data |-> 0, except |-> {}, valid |-> FALSE]
    BY DEF Init, ThreadInit, NoSnapshot
<1>2. MemoryTypes
  <2>1. PICK at : at = AllocStart(HeapInit, 1)
    BY Zenon
  <2>2. /\ AllocHeapBlock(HeapInit, 1).state \in [Blocks -> BlockState]
        /\ AllocHeapBlock(HeapInit, 1) =
             [state |-> AllocHeapBlock(HeapInit, 1).state,
              numMappedBlocks |-> AllocHeapBlock(HeapInit, 1).numMappedBlocks,
              blockSearchStart |-> AllocHeapBlock(HeapInit, 1).blockSearchStart]
        /\ AllocHeapBlock(HeapInit, 1).blockSearchStart = IF at = 0 THEN at + 1 ELSE 0
    BY <2>1 DEF AllocHeapBlock, HeapInit, BlockState
  <2>3. AllocHeapBlock(HeapInit, 1).blockSearchStart \in Nat
    BY <2>2
  <2>4. ctl.h = AllocHeapBlock(HeapInit, 1) /\ ctl = [h |-> ctl.h, data |-> ctl.data]
    BY <1>1
  <2>5. /\ ctl.h = [state |-> ctl.h.state, numMappedBlocks |-> ctl.h.numMappedBlocks,
                   blockSearchStart |-> ctl.h.blockSearchStart]
        /\ ctl.h.state \in [Blocks -> BlockState] /\ ctl.h.blockSearchStart \in Nat
    BY <2>2, <2>3, <2>4, Zenon
  <2>6. /\ prot \in [Views -> {"rw", "writecopy", "private"}]
        /\ DOMAIN heap = Blocks /\ heap = [i \in Blocks |-> heap[i]]
        /\ file = [v \in Views |-> file[v]]
        /\ behind \subseteq Blocks /\ spoiled \in BOOLEAN /\ snap.valid \in BOOLEAN
        /\ snap = [heap |-> snap.heap, data |-> snap.data, except |-> snap.except,
                   valid |-> snap.valid]
    <3>1. prot \in [Views -> {"rw", "writecopy", "private"}]
        BY <1>1
    <3>2. DOMAIN heap = Blocks /\ heap = [i \in Blocks |-> heap[i]]
        BY <1>1
    <3>3. file = [v \in Views |-> file[v]]
        BY <1>1
    <3>4. /\ behind \subseteq Blocks /\ spoiled \in BOOLEAN /\ snap.valid \in BOOLEAN
          /\ snap = [heap |-> snap.heap, data |-> snap.data, except |-> snap.except,
                     valid |-> snap.valid]
        BY <1>1
    <3>5. QED
        BY <3>1, <3>2, <3>3, <3>4, Zenon
  <2>7. QED
    BY <2>4, <2>5, <2>6, Zenon DEF MemoryTypes
<1>3. Coherent
    BY <1>1, ControlApart DEF Coherent
<1>4. Phases
    BY <1>1, ControlApart DEF Phases, Rejoined, CopiedPhase, BeforeCopy, EndPcs
<1>5. Frozen
    BY <1>1 DEF Frozen
<1>6. QED
    BY <1>2, <1>3, <1>4, <1>5 DEF MemoryInv

LEMMA NextMemoryInv == MemoryInv /\ ThreadInv /\ StatusInv /\ [Next]_vars => MemoryInv'
<1> SUFFICES ASSUME MemoryInv, ThreadInv, StatusInv, [Next]_vars PROVE MemoryInv'
    OBVIOUS
<1>1. CASE ThreadSteps /\ UNCHANGED Others
  <2>1. UNCHANGED <<memoryVars, type, child, forked, status>>
    BY <1>1 DEF Others, memory, process, history, memoryVars
  <2>2. QED
    BY <1>1, <2>1, MemoryThread
<1>2. ASSUME NEW w \in Workers, WorkerStore(w) PROVE MemoryInv'
  <2>1. mpc \notin QuietPcs /\ mpc' = mpc
    BY <1>2 DEF WorkerStore, Work, Goto, ThreadInv, Suspended
  <2>2. UNCHANGED <<ctl, snap, behind, spoiled, type, child, forked, status>>
    BY <1>2 DEF WorkerStore, process, history
  <2>3. CASE InUse(ctl) = {}
    <3>1. UNCHANGED <<memoryVars, type, child, forked, status>>
        BY <1>2, <2>2, <2>3 DEF WorkerStore, memoryVars
    <3>2. QED
        BY <2>1, <3>1, MemoryThread
  <2>4. CASE InUse(ctl) # {}
    <3>1. PICK i \in InUse(ctl) : WriteBlock(i)
        BY <1>2, <2>4 DEF WorkerStore
    <3>2. i \in Blocks
        BY DEF InUse
    <3>3. QED
        BY <2>1, <2>2, <3>1, <3>2, StoreMemory
  <2>5. QED
    BY <2>3, <2>4
<1>3. CASE Store
  <2>1. PICK i \in InUse(ctl) : WriteBlock(i)
    BY <1>3 DEF Store
  <2>2. i \in Blocks
    BY DEF InUse
  <2>3. /\ mpc \notin QuietPcs /\ mpc' = mpc
        /\ UNCHANGED <<ctl, snap, behind, spoiled, type, child, forked, status>>
    BY <1>3 DEF Store, QuietPcs, threadVars, process, history
  <2>4. QED
    BY <2>1, <2>2, <2>3, StoreMemory
<1>4. CASE UNCHANGED vars
  <2>1. mpc' = mpc /\ UNCHANGED <<memoryVars, type, child, forked, status>>
    BY <1>4 DEF vars, threadVars, memory, process, history, memoryVars
  <2>2. QED
    BY <2>1, MemoryThread
<1>5. \/ Room /\ Submit /\ UNCHANGED Others
      \/ Threading /\ UNCHANGED Others
      \/ MayBegin /\ RequestSuspension /\ UNCHANGED Others
      \/ MainSteps /\ UNCHANGED Others
      \/ \E w \in Workers : WorkerSteps(w) /\ UNCHANGED Others
      => ThreadSteps /\ UNCHANGED Others
    BY Zenon DEF ThreadSteps
<1>6. CASE Begin
    BY <1>6, CopyMemory, ProtectMemory, CreateMemory, BeginFailsMemory, Zenon DEF Begin
<1>7. QED
    BY <1>1, <1>2, <1>3, <1>4, <1>5, <1>6, AllocMemory, ReleaseMemory, BeginMemory, ChildMemory,
       StatusMemory, EndMemory, RejoinMemory, Zenon DEF Next

(* The parent's views, the file mappings and the snapshot are related as   *)
(* MemoryInv says, whatever is written, allocated and released meanwhile.  *)
THEOREM MemoryInvariance == Spec => []MemoryInv
<1>1. QED
    BY InitMemoryInv, NextMemoryInv, ThreadInvariance, StatusInvariance, PTL DEF Spec

(* The child reads the control block and every block in use as the parent  *)
(* had them when the operation began, for any number of blocks, workers,   *)
(* operations and failures, but for the three known exceptions.            *)
THEOREM ChildHasSnapshot == Spec => []ChildReadsSnapshot
<1>1. MemoryInv => ChildReadsSnapshot
    BY DEF MemoryInv, Frozen, ChildReadsSnapshot
<1>2. QED
    BY <1>1, MemoryInvariance, PTL
=============================================================================
