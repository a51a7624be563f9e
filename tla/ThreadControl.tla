---------------------------- MODULE ThreadControl ----------------------------
(* The threads of Win32_Interop: pthread_create, pthread_join and the         *)
(* condition variable of Win32_PThread.c, and the safe mode of                *)
(* Win32_ThreadControl.c, by which the main thread gets every worker off the  *)
(* heap.  The worker function is the application's: it takes jobs from a      *)
(* queue, waits for them in safe mode, and touches the heap outside it.       *)
EXTENDS Integers, Sequences, FiniteSets

CONSTANTS MaxWorkers,   \* bound: threads created
          MaxJobs       \* bound: jobs submitted

ASSUME ThreadsAssumption == MaxWorkers \in Nat /\ MaxJobs \in Nat

Workers == 1 .. MaxWorkers   \* numbered as they are created

VARIABLES pc,        \* where each worker is
          mpc,       \* where the main thread is
          numThreads,\* g_NumWorkerThreads
          numSafe,   \* g_NumWorkerThreadsInSafeMode
          requested, \* g_SuspensionRequested
          resume,    \* the event g_hResumeFromSuspension is set
          mutex,     \* the main thread holds the mutex of the job queue
          waiters, sema,  \* of the condition variable
          jobs,      \* jobs in the queue
          submitted, \* jobs submitted so far
          late       \* history: the last suspension completed before a new thread was counted
control == <<numThreads, numSafe, requested, resume>>
cond == <<mutex, waiters, sema, jobs, submitted>>
threadVars == <<pc, mpc, control, cond, late>>

Goto(w, from, to) == pc[w] = from /\ pc' = [pc EXCEPT ![w] = to]
MainGoto(from, to) == mpc = from /\ mpc' = to

ThreadInit ==
  /\ pc = [w \in Workers |-> "none"] /\ mpc = "run"
  /\ numThreads = 0 /\ numSafe = 0 /\ requested = FALSE /\ resume = TRUE
  /\ mutex = FALSE /\ waiters = 0 /\ sema = 0 /\ jobs = <<>> /\ submitted = 0 /\ late = FALSE

-----------------------------------------------------------------------------
(* The main thread. *)
pthread_create(w) ==
  /\ mpc = "run" /\ \A v \in 1 .. w - 1 : pc[v] # "none"
  /\ Goto(w, "none", "created")
  /\ UNCHANGED <<mpc, control, cond, late>>
win32_pthread_join(w) ==
  /\ mpc = "run" /\ Goto(w, "ended", "joined")
  /\ UNCHANGED <<mpc, control, cond, late>>

(* A job is queued and signalled with the mutex held. *)
Submit ==
  /\ MainGoto("run", "signal") /\ submitted < MaxJobs
  /\ mutex' = TRUE /\ submitted' = submitted + 1
  /\ \E kind \in {"write", "quit"} : jobs' = Append(jobs, kind)
  /\ UNCHANGED <<pc, control, waiters, sema, late>>
(* A bug: the last waiter is not counted. *)
CondSignalNotLast ==
  /\ MainGoto("signal", IF waiters > 1 THEN "release" ELSE "unlock")
  /\ UNCHANGED <<pc, control, cond, late>>
(* pthread_cond_signal looks at waiters and releases the semaphore later. *)
pthread_cond_signal ==
  /\ MainGoto("signal", IF waiters > 0 THEN "release" ELSE "unlock")
  /\ UNCHANGED <<pc, control, cond, late>>
CondRelease ==
  /\ MainGoto("release", "unlock") /\ sema' = sema + 1
  /\ UNCHANGED <<pc, control, mutex, waiters, jobs, submitted, late>>
Unlock ==
  /\ MainGoto("unlock", "run") /\ mutex' = FALSE
  /\ UNCHANGED <<pc, control, waiters, sema, jobs, submitted, late>>

(* RequestSuspension resets the event, then raises the flag. *)
RequestSuspension ==
  /\ MainGoto("run", "request") /\ ~requested /\ resume' = FALSE
  /\ UNCHANGED <<pc, numThreads, numSafe, requested, cond, late>>
RaiseFlag ==
  /\ MainGoto("request", "poll") /\ requested' = TRUE
  /\ UNCHANGED <<pc, numThreads, numSafe, resume, cond, late>>
SuspensionCompleted ==
  /\ MainGoto("poll", "quiet") /\ numSafe = numThreads
  /\ late' = (\E w \in Workers : pc[w] = "created")
  /\ UNCHANGED <<pc, control, cond>>
(* ResumeFromSuspension asserts that the suspension is still complete. *)
ResumeFromSuspension ==
  /\ MainGoto("begun", IF requested /\ numSafe = numThreads THEN "resume" ELSE "aborted")
  /\ requested' = IF mpc' = "aborted" THEN requested ELSE FALSE
  /\ UNCHANGED <<pc, numThreads, numSafe, resume, cond, late>>
SetResume ==
  /\ MainGoto("resume", "run") /\ resume' = TRUE
  /\ UNCHANGED <<pc, numThreads, numSafe, requested, cond, late>>

-----------------------------------------------------------------------------
(* A worker.  Everything inside g_ThreadControlMutex is one step. *)
win32_proxy_threadproc(w) ==
  /\ \/ Goto(w, "created", "enter") /\ numThreads' = numThreads + 1
     \/ Goto(w, "leaving", "ended") /\ numThreads' = numThreads - 1
  /\ UNCHANGED <<mpc, numSafe, requested, resume, cond, late>>
WorkerThread_EnterSafeMode(w) ==
  /\ Goto(w, "enter", "lock") /\ numSafe' = numSafe + 1
  /\ UNCHANGED <<mpc, numThreads, requested, resume, cond, late>>
(* The worker holds the mutex from the lock to the end of this step. *)
TakeJob(w) ==
  /\ ~mutex /\ jobs # <<>> /\ jobs' = Tail(jobs)
  /\ Goto(w, "lock", IF Head(jobs) = "quit" THEN "exitquit" ELSE "exit")
  /\ UNCHANGED <<mpc, control, mutex, waiters, sema, submitted, late>>
(* pthread_cond_wait: it is counted before the mutex is left, sleeps on the  *)
(* semaphore, is discounted and takes the mutex again.                       *)
pthread_cond_wait(w) ==
  /\ ~mutex /\ jobs = <<>> /\ Goto(w, "lock", "asleep") /\ waiters' = waiters + 1
  /\ UNCHANGED <<mpc, control, mutex, sema, jobs, submitted, late>>
CondWoken(w) ==
  /\ Goto(w, "asleep", "woken") /\ sema > 0 /\ sema' = sema - 1
  /\ UNCHANGED <<mpc, control, mutex, waiters, jobs, submitted, late>>
CondLeft(w) ==
  /\ Goto(w, "woken", "lock") /\ waiters' = waiters - 1
  /\ UNCHANGED <<mpc, control, mutex, sema, jobs, submitted, late>>
(* A bug: the flag is not looked at. *)
ExitSafeModeAnyway(w) ==
  /\ \/ Goto(w, "exit", "work")
     \/ Goto(w, "exitquit", "leaving")
  /\ numSafe' = numSafe - 1
  /\ UNCHANGED <<mpc, numThreads, requested, resume, cond, late>>
(* Wait for the event while a suspension is requested, then look again. *)
WorkerThread_ExitSafeMode(w) ==
  /\ \/ requested /\ Goto(w, "exit", "waitexit") /\ UNCHANGED numSafe
     \/ requested /\ Goto(w, "exitquit", "waitquit") /\ UNCHANGED numSafe
     \/ resume /\ Goto(w, "waitexit", "exit") /\ UNCHANGED numSafe
     \/ resume /\ Goto(w, "waitquit", "exitquit") /\ UNCHANGED numSafe
     \/ ~requested /\ Goto(w, "exit", "work") /\ numSafe' = numSafe - 1
     \/ ~requested /\ Goto(w, "exitquit", "leaving") /\ numSafe' = numSafe - 1
  /\ UNCHANGED <<mpc, numThreads, requested, resume, cond, late>>
(* The job is done; what it does to the heap is the composition's. *)
Work(w) ==
  /\ Goto(w, "work", "enter")
  /\ UNCHANGED <<mpc, control, cond, late>>

Threading == \E w \in Workers : pthread_create(w) \/ win32_pthread_join(w)
MainSteps ==
  \/ pthread_cond_signal \/ CondRelease \/ Unlock
  \/ RaiseFlag \/ SuspensionCompleted \/ ResumeFromSuspension \/ SetResume
WorkerSteps(w) ==
  \/ win32_proxy_threadproc(w) \/ WorkerThread_EnterSafeMode(w) \/ TakeJob(w) \/ pthread_cond_wait(w)
  \/ CondWoken(w) \/ CondLeft(w) \/ WorkerThread_ExitSafeMode(w)

-----------------------------------------------------------------------------
OnHeap(w) == pc[w] \in {"enter", "work", "leaving"}
(* "Safe mode means the threads are not touching the heap"                   *)
(* (Win32_ThreadControl.c:29): from the moment SuspensionCompleted holds     *)
(* until the flag is taken back no worker is outside safe mode, so the       *)
(* assertion of ResumeFromSuspension holds, however workers wake up, take    *)
(* jobs, end and are created.  The one gap: a thread that was created and    *)
(* has not reached IncrementWorkerThreadCount is not waited for.             *)
HeapQuiet ==
  ~late => /\ mpc # "aborted"
           /\ mpc \in {"quiet", "copy", "protect", "create", "begun"} => \A w \in Workers : ~OnHeap(w)

(* No wake-up is lost between the look at waiters, the semaphore and the     *)
(* mutex, or behind a suspension: a queue that a worker is left to empty is  *)
(* emptied (pthread_cond_wait, pthread_cond_signal).                         *)
JobsTaken == []<>(jobs = <<>> \/ mpc = "aborted" \/ \A w \in Workers : pc[w] \in {"none", "exitquit", "waitquit", "leaving", "ended", "joined"})
===============================================================================
