-------------------------------- MODULE QFork --------------------------------
(* The fork of Win32_QFork.cpp: a child process maps the control block and    *)
(* the heap blocks of its parent copy-on-write and saves what it reads, while *)
(* the parent, which has write-copy protected its own views, goes on writing. *)
(* The heap's blocks are those of QForkHeap, one at a time; the workers of    *)
(* ThreadControl write to them too.  The application's main thread suspends   *)
(* the workers, begins the operation, resumes them, and ends the operation    *)
(* once it has a status.                                                      *)
EXTENDS QForkHeap, ThreadControl

CONSTANTS MaxForks,     \* bound: operations begun
          MaxFaults,    \* bound: failing calls and processes
          MaxEvents     \* bound: jobs, faults, and writes, allocations and releases of heap blocks

VARIABLES ctl,      \* the parent's view of QForkControl: the heap and the data for the child
          heap,     \* what the parent reads in each block
          prot,     \* page protection of the parent's views: "rw", "writecopy", or "private" once copied
          file,     \* the file mappings behind them, which the child maps
          child,    \* the child process
          forked,   \* g_hForkedProcess is set
          events,   \* operationComplete, operationFailed: those that are set
          type,     \* the operation begun last
          snap,     \* history: what the parent read when it began
          behind,   \* history: blocks the last EndForkOperation has not rejoined
          spoiled,  \* history: BeginForkOperation failed and nobody has ended the operation
          status,   \* what GetForkOperationStatus returned last
          forks, writes, faults
memory == <<ctl, heap, prot, file>>
process == <<child, forked, events>>
history == <<snap, behind, spoiled>>
bounds == <<forks, writes, faults>>
vars == <<threadVars, memory, process, type, history, status, bounds>>

Control == -1   \* the view of QForkControl, beside those of the blocks
Views == Blocks \cup {Control}
NoChild == [pc |-> "none", blocks |-> {}, data |-> 0, complete |-> FALSE]
NoSnapshot == [heap |-> <<>>, data |-> 0, except |-> {}, valid |-> FALSE]
InUse(c) == {i \in Blocks : c.h.state[i] = "MAPPED_IN_USE"}
Room == submitted + faults + writes < MaxEvents
Fails == faults < MaxFaults /\ Room /\ faults' = faults + 1

(* External: a write to a protected page makes a private copy of it. *)
Touch(p, v) == IF p[v] = "rw" THEN p ELSE [p EXCEPT ![v] = "private"]
WriteBlock(i) ==
  /\ heap' = [heap EXCEPT ![i] = @ + 1]
  /\ file' = IF prot[i] = "rw" THEN [file EXCEPT ![i] = heap[i] + 1] ELSE file
  /\ prot' = Touch(prot, i)
(* External: PAGE_WRITECOPY on a page that is private leaves it private. *)
Protected(p, views) == [v \in Views |-> IF v \in views /\ p[v] = "rw" THEN "writecopy" ELSE p[v]]

-----------------------------------------------------------------------------
(* The parent uses its heap. *)
Write == Room /\ writes' = writes + 1
Store ==
  /\ mpc = "run" /\ Write
  /\ \E i \in InUse(ctl) : WriteBlock(i)
  /\ UNCHANGED <<threadVars, ctl, process, type, history, status, forks, faults>>
WorkerStore(w) ==
  /\ Work(w)
  /\ IF InUse(ctl) = {} THEN UNCHANGED <<heap, prot, file>> ELSE \E i \in InUse(ctl) : WriteBlock(i)
  /\ UNCHANGED <<ctl, process, type, history, status, bounds>>
(* A block mapped anew is zero and shared; one that was free is zeroed.  The *)
(* list of blocks is written too.                                            *)
Alloc ==
  /\ mpc = "run" /\ Write /\ Fits(ctl.h, 1) # {}
  /\ LET i   == AllocStart(ctl.h, 1)
         new == [ctl EXCEPT !.h = AllocHeapBlock(@, 1)]
         p   == IF ctl.h.state[i] = "UNMAPPED" THEN [prot EXCEPT ![i] = "rw"] ELSE Touch(prot, i)
     IN  /\ ctl' = new /\ heap' = [heap EXCEPT ![i] = 0] /\ prot' = Touch(p, Control)
         /\ file' = [v \in Views |-> CASE v = i /\ p[i] = "rw" -> 0
                                       [] v = Control /\ prot[Control] = "rw" -> new
                                       [] OTHER -> file[v]]
  /\ UNCHANGED <<threadVars, process, type, history, status, forks, faults>>
Release ==
  /\ mpc = "run" /\ Write
  /\ \E i \in InUse(ctl) :
       /\ CanFree(ctl.h, i, 1)
       /\ ctl' = [ctl EXCEPT !.h = FreeHeapBlock(@, i, 1)]
  /\ file' = IF prot[Control] = "rw" THEN [file EXCEPT ![Control] = ctl'] ELSE file
  /\ prot' = Touch(prot, Control)
  /\ UNCHANGED <<threadVars, heap, process, type, history, status, forks, faults>>

-----------------------------------------------------------------------------
(* BeginForkOperation, with the workers suspended. *)
Copied == IF type = "socket" THEN "begun" ELSE "create"
Created == IF type = "socket" THEN "copy" ELSE "begun"
BeginForkOperation ==
  /\ \E t \in {"rdb", "socket"} : type' = t /\ MainGoto("quiet", IF t = "socket" THEN "create" ELSE "copy")
  /\ forks' = forks + 1 /\ status' = "none"
  /\ UNCHANGED <<pc, control, cond, late, memory, process, history, writes, faults>>

(* CopyForkOperationData: the data of this operation is copied to the        *)
(* control block, which is then protected; then the blocks in use are.       *)
CopyData ==
  /\ ctl' = [ctl EXCEPT !.data = forks]
  /\ file' = IF prot[Control] = "rw" THEN [file EXCEPT ![Control] = ctl'] ELSE file
CopyForkOperationData ==
  /\ MainGoto("copy", "protect") /\ CopyData
  /\ prot' = Protected(Touch(prot, Control), {Control})
  /\ snap' = [heap |-> [i \in InUse(ctl) |-> heap[i]], data |-> forks, except |-> behind, valid |-> ~spoiled]
  /\ UNCHANGED <<pc, control, cond, late, heap, process, type, behind, spoiled, status, bounds>>
(* A bug: the blocks in use stay shared with the child. *)
ProtectNothing ==
  /\ MainGoto("protect", Copied)
  /\ child' = IF type = "socket" THEN [child EXCEPT !.pc = "started"] ELSE child
  /\ UNCHANGED <<pc, control, cond, late, memory, forked, events, type, history, status, bounds>>
(* Nobody looks at the result of VirtualProtect: a block for which it fails  *)
(* stays shared.  A child that was created suspended now runs.               *)
ProtectHeap ==
  /\ MainGoto("protect", Copied)
  /\ \E shared \in SUBSET InUse(ctl) :
       /\ IF shared = {} THEN UNCHANGED faults ELSE Fails
       /\ prot' = Protected(prot, InUse(ctl) \ shared)
       /\ snap' = [snap EXCEPT !.except = @ \cup shared]
  /\ child' = IF type = "socket" THEN [child EXCEPT !.pc = "started"] ELSE child
  /\ UNCHANGED <<pc, control, cond, late, ctl, heap, file, forked, events, type, behind, spoiled, status,
                 forks, writes>>
CreateChildProcess ==
  /\ MainGoto("create", Created)
  /\ events' = {} /\ forked' = TRUE
  /\ child' = [NoChild EXCEPT !.pc = IF type = "socket" THEN "suspended" ELSE "started"]
  /\ UNCHANGED <<pc, control, cond, late, memory, type, history, status, bounds>>
(* VirtualProtect or CreateProcess throws; a child that exists is            *)
(* terminated, its handle kept.  What is protected stays so.                 *)
BeginFails ==
  /\ Fails /\ mpc' = "begun"
  /\ \/ mpc = "copy" /\ CopyData /\ prot' = Touch(prot, Control) /\ UNCHANGED events
     \/ mpc = "create" /\ events' = {} /\ UNCHANGED <<ctl, prot, file>>
  /\ child' = IF child.pc = "suspended" THEN [child EXCEPT !.pc = "exited"] ELSE child
  /\ spoiled' = (spoiled \/ (mpc = "create" /\ type = "rdb"))
  /\ UNCHANGED <<pc, control, cond, late, heap, forked, type, snap, behind, status, forks, writes>>

-----------------------------------------------------------------------------
(* QForkChildInit: the control block is mapped, then the blocks it lists as  *)
(* in use; the operation reads them and the parent is told.                  *)
ChildMaps ==
  /\ child.pc = "started"
  /\ child' = [child EXCEPT !.pc = "mapped", !.blocks = InUse(file[Control]), !.data = file[Control].data]
  /\ UNCHANGED <<threadVars, memory, forked, events, type, history, status, bounds>>
ChildDone ==
  /\ child.pc = "mapped"
  /\ child' = [child EXCEPT !.pc = "done", !.complete = TRUE] /\ events' = events \cup {"complete"}
  /\ UNCHANGED <<threadVars, memory, forked, type, history, status, bounds>>
(* An exception is reported once the events have been duplicated. *)
ChildFails ==
  /\ child.pc \in {"started", "mapped"} /\ Fails
  /\ child' = [child EXCEPT !.pc = "done"] /\ events' \in {events, events \cup {"failed"}}
  /\ UNCHANGED <<threadVars, memory, forked, type, history, status, forks, writes>>
ChildExits ==
  /\ child.pc = "done" /\ child' = [child EXCEPT !.pc = "exited"]
  /\ UNCHANGED <<threadVars, memory, forked, events, type, history, status, bounds>>

-----------------------------------------------------------------------------
(* GetForkOperationStatus: two events, then the process. *)
StatusReturns(s) == status' = s /\ mpc' = "run"
GetForkOperationStatus ==
  /\ mpc = "run" /\ type # "none"
  /\ IF "complete" \in events THEN StatusReturns("COMPLETE") ELSE mpc' = "status" /\ UNCHANGED status
  /\ UNCHANGED <<pc, control, cond, late, memory, process, type, history, bounds>>
StatusFailed ==
  /\ mpc = "status"
  /\ IF "failed" \in events THEN StatusReturns("FAILED") ELSE mpc' = "process" /\ UNCHANGED status
  /\ UNCHANGED <<pc, control, cond, late, memory, process, type, history, bounds>>
StatusProcess ==
  /\ mpc = "process"
  /\ StatusReturns(IF ~forked THEN "UNSTARTED" ELSE IF child.pc = "exited" THEN "FAILED" ELSE "INPROGRESS")
  /\ forked' = (status' = "INPROGRESS")
  /\ events' = IF status' = "FAILED" THEN events \cup {"failed"} ELSE events
  /\ UNCHANGED <<pc, control, cond, late, memory, child, type, history, bounds>>

(* A bug: the events of the operation stay set. *)
EndKeepsEvents ==
  /\ MainGoto("run", "rejoin") /\ status' = "none"
  /\ child' = NoChild /\ forked' = FALSE /\ UNCHANGED events
  /\ type' = "none" /\ snap' = NoSnapshot
(* EndForkOperation: the child is waited for, and killed when it takes too   *)
(* long; the events are reset.                                               *)
End ==
  /\ MainGoto("run", "rejoin") /\ status' = "none"
  /\ child' = NoChild /\ forked' = FALSE /\ events' = {}
  /\ type' = "none" /\ snap' = NoSnapshot
EndForkOperation ==
  /\ status \in {"COMPLETE", "FAILED"} /\ End
  /\ UNCHANGED <<pc, control, cond, late, memory, behind, spoiled, bounds>>
AbortForkOperation ==
  /\ type # "none" /\ End
  /\ UNCHANGED <<pc, control, cond, late, memory, behind, spoiled, bounds>>

(* RejoinCOWPages, block by block while the workers run: private pages are   *)
(* copied to the mapping, then the view is unmapped and mapped again, and    *)
(* what a worker wrote in between is lost.  (For a block that is shared both *)
(* change nothing.  A worker that touches the hole ends the process.)        *)
Apart == {i \in InUse(ctl) : prot[i] # "rw"}
CopyBack ==
  /\ MainGoto("rejoin", "remap") /\ Apart # {}
  /\ file' = [file EXCEPT ![Min(Apart)] = heap[Min(Apart)]]
  /\ UNCHANGED <<pc, control, cond, late, ctl, heap, prot, process, type, history, status, bounds>>
Remap ==
  /\ MainGoto("remap", "rejoin")
  /\ heap' = [heap EXCEPT ![Min(Apart)] = file[Min(Apart)]]
  /\ prot' = [prot EXCEPT ![Min(Apart)] = "rw"]
  /\ UNCHANGED <<pc, control, cond, late, ctl, file, process, type, history, status, bounds>>
(* The control block comes last; nobody else writes to it. *)
RejoinControl ==
  /\ MainGoto("rejoin", "run") /\ Apart = {}
  /\ file' = [file EXCEPT ![Control] = ctl] /\ prot' = [prot EXCEPT ![Control] = "rw"]
  /\ behind' = {i \in Blocks : prot[i] # "rw"} /\ spoiled' = FALSE
  /\ UNCHANGED <<pc, control, cond, late, ctl, heap, process, type, snap, status, bounds>>
RejoinCOWPages == CopyBack \/ Remap \/ RejoinControl

-----------------------------------------------------------------------------
Init ==
  /\ ThreadInit
  /\ ctl = [h |-> AllocHeapBlock(HeapInit, 1), data |-> 0]   \* the application has its first block
  /\ heap = [i \in Blocks |-> IF i = 0 THEN 1 ELSE 0] /\ prot = [v \in Views |-> "rw"]
  /\ file = [v \in Views |-> IF v = Control THEN ctl ELSE heap[v]]
  /\ child = NoChild /\ forked = FALSE /\ events = {} /\ type = "none"
  /\ snap = NoSnapshot
  /\ behind = {} /\ spoiled = FALSE /\ status = "none"
  /\ forks = 0 /\ writes = 0 /\ faults = 0
(* One operation at a time; one that could not begin needs no end. *)
MayBegin == forks < MaxForks /\ (type = "none" \/ (~forked /\ status \in {"none", "UNSTARTED"}))
Others == <<memory, process, type, history, status, bounds>>
Begin == CopyForkOperationData \/ ProtectHeap \/ CreateChildProcess \/ BeginFails
Status == StatusFailed \/ StatusProcess
Next ==
  \/ Room /\ Submit /\ UNCHANGED Others
  \/ Threading /\ UNCHANGED Others
  \/ MayBegin /\ RequestSuspension /\ UNCHANGED Others
  \/ MainSteps /\ UNCHANGED Others
  \/ \E w \in Workers : WorkerSteps(w) /\ UNCHANGED Others
  \/ \E w \in Workers : WorkerStore(w)
  \/ Store \/ Alloc \/ Release \/ BeginForkOperation \/ Begin
  \/ ChildMaps \/ ChildDone \/ ChildFails \/ ChildExits
  \/ GetForkOperationStatus \/ Status \/ EndForkOperation \/ AbortForkOperation \/ RejoinCOWPages
Spec == Init /\ [][Next]_vars
(* A call that was begun goes on and workers run; nothing makes the          *)
(* application call anything but the end of a suspension, or a child go on.  *)
Fairness ==
  /\ WF_vars((MainSteps /\ UNCHANGED Others) \/ BeginForkOperation \/ Begin \/ Status \/ RejoinCOWPages)
  /\ \A w \in Workers : WF_vars((WorkerSteps(w) /\ UNCHANGED Others) \/ WorkerStore(w))
FairSpec == Spec /\ Fairness

-----------------------------------------------------------------------------
(* The child of an operation reads the control block and every block in use  *)
(* as the parent had them when it began (CopyForkOperationData), although    *)
(* the parent and its workers write, allocate and release all the while, and *)
(* over any number of operations (EndForkOperation rejoins what has become   *)
(* private).  Three exceptions are known: a block that was free when the     *)
(* operation before ended is not rejoined; a block for which VirtualProtect  *)
(* failed stays shared; and after a BeginForkOperation that failed nothing   *)
(* is rejoined, unless the application ends the operation.                   *)
ChildReadsSnapshot ==
  snap.valid /\ child.pc \in {"started", "mapped"} =>
    /\ snap.data = IF child.pc = "started" THEN file[Control].data ELSE child.data
    /\ DOMAIN snap.heap = IF child.pc = "started" THEN InUse(file[Control]) ELSE child.blocks
    /\ \A i \in DOMAIN snap.heap \ snap.except : file[i] = snap.heap[i]

(* The status is about this operation's child, whatever the one before left  *)
(* behind: osCOMPLETE only when it has said so, osFAILED only when it has    *)
(* stopped, osUNSTARTED only when there is none.  (A child that completes    *)
(* and exits between the look at the events and the look at the process is   *)
(* reported as failed.)                                                      *)
StatusTruthful ==
  /\ status = "COMPLETE" => child.complete
  /\ status = "FAILED" => child.pc \in {"done", "exited"}
  /\ status = "UNSTARTED" => child.pc \in {"none", "exited"}
===============================================================================
