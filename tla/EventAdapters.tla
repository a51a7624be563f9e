--------------------------- MODULE EventAdapters ---------------------------
(***************************************************************************)
(* The event-loop adapters of hiredis: the twelve of include/hiredis/       *)
(* adapters and the older libev, libevent and libuv adapters of             *)
(* src/adapters (src/adapters/ae.h is part of RedisAsync).  An adapter      *)
(* installs hooks in the asynchronous context.  The context calls them to   *)
(* start and stop waiting for the socket, to set its timer and to be        *)
(* released; the loop calls the adapter, which calls the context's          *)
(* handlers, and a handler may release the context before it returns.       *)
(*                                                                          *)
(* One record holds what the adapters keep in their containers and what     *)
(* the loop keeps for them; each adapter uses the fields its struct has.    *)
(*   freed     how often the container was given to free                    *)
(*   flags     reading and writing, or the mask of events                   *)
(*   context   the pointer to the context is not NULL                       *)
(*   entered   ENTERED of libevent and libsdevent, in_tick of poll          *)
(*   deleted   DELETED, deleted                                             *)
(*   timer     the container has a timer (pointer, data or timer_active)    *)
(*   handle    the container's handle is registered (handle.data, poll_fd)  *)
(*   io, clock what the loop waits for: directions, and the timer           *)
(*   closing   handles uv_close was called on                               *)
(***************************************************************************)
EXTENDS Integers, FiniteSets, Sequences

CONSTANT Kinds          \* the adapters of the instance

Unattached ==
    [freed |-> 0, flags |-> {}, context |-> FALSE, entered |-> FALSE,
     deleted |-> FALSE, timer |-> FALSE, handle |-> FALSE,
     io |-> {}, clock |-> FALSE, closing |-> {}]

Put(S, add, d) == IF add THEN S \cup {d} ELSE S \ {d}

Free(a) == [a EXCEPT !.freed = @ + 1]

\* What attaching leaves: the container, whether the hooks are installed in
\* the context, and whether ev.data points to the container.
Attached(a) == [a |-> [a EXCEPT !.context = TRUE], hooks |-> TRUE, data |-> TRUE]

\* The steps of an adapter's callback.  Call hands the context to the handler
\* of direction d, Guarded does unless the context is known to be gone, Check
\* ends the callback of a container that was released meanwhile.
Call(d) == [op |-> "call", on |-> d]
Guarded(d) == [op |-> "guarded", on |-> d]
Check(d) == [op |-> "check", on |-> d]
Deadline == [op |-> "deadline", on |-> "t"]
Enter == [op |-> "enter", on |-> "any"]
Leave == [op |-> "leave", on |-> "any"]
Settle == [op |-> "settle", on |-> "any"]

Only(E, steps) == SelectSeq(steps, LAMBDA s : s.on \in E \cup {"any"})

Each(E) == Only(E, <<Call("r"), Call("w"), Call("t")>>)

----------------------------------------------------------------------------
(* Adapters that keep a flag for each direction and register each direction *)
(* by itself: ae, libev and the module API.                                 *)

Flagged(a, add, d) ==
    IF (d \in a.flags) = add THEN a
    ELSE [a EXCEPT !.flags = Put(@, add, d), !.io = Put(@, add, d)]

AeEvent(E) == Each(E)
AeUpdate(a, add, d) == Flagged(a, add, d)
AeCleanup(a) == Free(AeUpdate(AeUpdate(a, FALSE, "r"), FALSE, "w"))
AeAttach(ok) == Attached(Unattached)

LibevEvent(E) == Each(E)
LibevUpdate(a, add, d) == Flagged(a, add, d)
LibevStopTimer(a) == [a EXCEPT !.clock = FALSE]
LibevCleanup(a) ==
    Free(LibevStopTimer(LibevUpdate(LibevUpdate(a, FALSE, "r"), FALSE, "w")))
LibevTimeout == <<Call("t")>>
\* ev_timer_again stops a timer whose repeat is zero.
LibevSetTimeout(a, set) == [a EXCEPT !.clock = set]
LibevAttach(ok) == Attached(Unattached)

Libev0Event(E) == Each(E)
Libev0Update(a, add, d) == Flagged(a, add, d)
Libev0Cleanup(a) == Free(Libev0Update(Libev0Update(a, FALSE, "r"), FALSE, "w"))
Libev0Attach(ok) == Attached(Unattached)

ModuleEvent(E) == Each(E)
ModuleUpdate(a, add, d) == Flagged(a, add, d)
ModuleStopTimer(a) == [a EXCEPT !.clock = @ /\ ~a.timer, !.timer = FALSE]
ModuleCleanup(a) ==
    Free(ModuleStopTimer(ModuleUpdate(ModuleUpdate(a, FALSE, "r"), FALSE, "w")))
ModuleTimeout(a) == [a EXCEPT !.timer = FALSE]
ModuleSetTimeout(a, set) ==
    [ModuleStopTimer(a) EXCEPT !.timer = TRUE, !.clock = TRUE]
ModuleAttach(ok) == Attached(Unattached)

----------------------------------------------------------------------------
(* Adapters that tell the loop each time.                                   *)

Tell(a, add, d) == [a EXCEPT !.io = Put(@, add, d)]

\* Both handlers are installed when the adapter is attached.
IvykisEvent(E) == Each(E)
IvykisUpdate(a, add, d) == Tell(a, add, d)
IvykisCleanup(a) == Free([a EXCEPT !.io = {}])
IvykisAttach(ok) == Attached([Unattached EXCEPT !.io = {"r", "w"}])

\* When the socket or the source cannot be created the container is freed
\* and the context keeps the hooks and the pointer to it.
freeRedisRunLoop(a) == Free([a EXCEPT !.io = {}])
MacOSUpdate(a, add, d) == Tell(a, add, d)
MacOSCleanup(a) == freeRedisRunLoop(a)
MacOSAsyncCallback(E) == Each(E)
MacOSAttach(ok) ==
    Attached(IF ok THEN [Unattached EXCEPT !.io = {"r", "w"}]
                   ELSE freeRedisRunLoop(Unattached))

\* The events of the older libevent adapter are not persistent.
Libevent0Event(E) == Each(E)
Libevent0Update(a, add, d) == Tell(a, add, d)
Libevent0Cleanup(a) == Free([a EXCEPT !.io = {}])
Libevent0Attach(ok) == Attached(Unattached)

\* The GSource is released by its owner, not by the hook.
GlibUpdate(a, add, d) == Tell(a, add, d)
GlibCleanup(a) == [a EXCEPT !.io = {}, !.handle = FALSE]
GlibCheck(E) == E \cap {"r", "w"} # {}
GlibDispatch(E) == Only(E, <<Call("w"), Call("r")>>)
GlibFinalize(a) == Free([a EXCEPT !.handle = FALSE])
GlibNew(ok) == Attached([Unattached EXCEPT !.handle = TRUE])

\* The context handed to both handlers is read once, from the loop's io.
LibhvHandleEvents(E) == Only(E, <<Call("r"), Call("w")>>)
LibhvUpdate(a, add, d) == Tell(a, add, d)
LibhvCleanup(a) ==
    Free([a EXCEPT !.clock = @ /\ ~a.timer, !.io = {}, !.context = FALSE])
LibhvTimeout == <<Call("t")>>
LibhvSetTimeout(a, set) ==
    IF set THEN [a EXCEPT !.timer = TRUE, !.clock = TRUE]
    ELSE [a EXCEPT !.timer = FALSE, !.clock = @ /\ ~a.timer]
LibhvAttach(ok) ==
    IF ok THEN Attached(Unattached)
    ELSE [a |-> Free(Unattached), hooks |-> FALSE, data |-> FALSE]

----------------------------------------------------------------------------
(* libevent: one event for both directions and the timeout, assigned anew   *)
(* at every change; a container released inside its own callback is freed   *)
(* when the callback ends.                                                  *)

LibeventDestroy(a) == Free(a)

LibeventHandler(E) ==
    Only(E, <<Enter, Guarded("t"), Check("t"), Guarded("r"), Check("r"),
              Guarded("w"), Check("w"), Leave>>)

\* event_del, event_assign and event_add: the loop waits for the flags, and
\* for the timeout when the container has one.
LibeventAssign(a) == [a EXCEPT !.io = a.flags, !.clock = a.timer]

LibeventUpdate(a, add, d) ==
    IF (d \in a.flags) = add THEN a
    ELSE LibeventAssign([a EXCEPT !.flags = Put(@, add, d)])

\* Mutant: the container is freed at once, also inside its own callback.
LibeventCleanupAtOnce(a) ==
    LibeventDestroy([a EXCEPT !.io = {}, !.clock = FALSE])

LibeventCleanup(a) ==
    LET b == [a EXCEPT !.io = {}, !.clock = FALSE]
    IN  IF a.entered THEN [b EXCEPT !.deleted = TRUE] ELSE LibeventDestroy(b)

\* Mutant: the directions the container waited for are not added again.
LibeventSetTimeoutForgets(a, set) ==
    LibeventAssign([a EXCEPT !.flags = {}, !.timer = set])

\* The flags are taken off and handed to Update, which adds them again.
LibeventSetTimeout(a, set) == LibeventAssign([a EXCEPT !.timer = set])

LibeventAttach(ok) == Attached(Unattached)

----------------------------------------------------------------------------
(* sd-event: one source for both directions, dropped when neither is        *)
(* wanted, and one for the timer.                                           *)

LibsdeventDestroy(a) == Free([a EXCEPT !.io = {}, !.clock = FALSE, !.timer = FALSE])
LibsdeventTimeoutHandler == <<Call("t")>>
LibsdeventHandler(E) ==
    Only(E, <<Enter, Guarded("r"), Check("r"), Guarded("w"), Check("w"), Leave>>)
LibsdeventUpdate(a, add, d) ==
    IF add /\ d \in a.flags THEN a
    ELSE LET f == Put(a.flags, add, d) IN [a EXCEPT !.flags = f, !.io = f]
LibsdeventCleanup(a) ==
    IF a.entered THEN [a EXCEPT !.deleted = TRUE] ELSE LibsdeventDestroy(a)
LibsdeventSetTimeout(a, set) == [a EXCEPT !.timer = TRUE, !.clock = TRUE]
LibsdeventAttach(ok) == Attached(Unattached)

----------------------------------------------------------------------------
(* libuv: the container is freed when the loop has closed its handles.      *)

LibuvPoll(E) == Only(E, <<Guarded("r"), Guarded("w")>>)
LibuvUpdate(a, add, d) ==
    IF add /\ d \in a.flags THEN a
    ELSE LET f == Put(a.flags, add, d) IN [a EXCEPT !.flags = f, !.io = f]
on_timer_close(a) ==
    LET b == [a EXCEPT !.timer = FALSE, !.closing = @ \ {"timer"}]
    IN  IF a.handle THEN b ELSE Free(b)

\* Mutant: the handle's callback always leaves the container to the timer's.
OnHandleCloseWaits(a) ==
    [a EXCEPT !.handle = FALSE, !.closing = @ \ {"handle"}]

on_handle_close(a) ==
    LET b == [a EXCEPT !.handle = FALSE, !.closing = @ \ {"handle"}]
    IN  IF a.timer THEN b ELSE Free(b)
LibuvTimeout == <<Call("t")>>
\* uv_timer_init may refuse the first timer.
LibuvSetTimeout(a, set) ==
    IF a.timer \/ set THEN [a EXCEPT !.timer = TRUE, !.clock = TRUE] ELSE a
LibuvCleanup(a) ==
    [a EXCEPT !.context = FALSE, !.io = {}, !.clock = FALSE,
              !.closing = {"handle"} \cup (IF a.timer THEN {"timer"} ELSE {})]
\* The hooks are installed before the handle is initialised.
LibuvAttach(ok) ==
    IF ok THEN Attached([Unattached EXCEPT !.handle = TRUE])
    ELSE [a |-> Unattached, hooks |-> TRUE, data |-> FALSE]

Libuv0Poll(E) == Only(E, <<Call("r"), Call("w")>>)
Libuv0Update(a, add, d) ==
    LET f == Put(a.flags, add, d) IN [a EXCEPT !.flags = f, !.io = f]
on_close(a) == Free([a EXCEPT !.closing = {}])
Libuv0Cleanup(a) == [a EXCEPT !.io = {}, !.closing = {"handle"}]
Libuv0Attach(ok) ==
    IF ok THEN Attached([Unattached EXCEPT !.handle = TRUE])
    ELSE [a |-> Unattached, hooks |-> TRUE, data |-> FALSE]

----------------------------------------------------------------------------
(* poll: no loop; the application calls redisPollTick.                      *)

PollTick(E) ==
    Only(E, <<Enter, Call("r"), Guarded("w"), Deadline, Settle>>)
PollUpdate(a, add, d) ==
    [a EXCEPT !.flags = Put(@, add, d), !.io = Put(@, add, d)]
\* The flags and the deadline go with the container.
PollFree(a) == Free([a EXCEPT !.io = {}, !.clock = FALSE])
PollCleanup(a) == IF a.entered THEN [a EXCEPT !.deleted = TRUE] ELSE PollFree(a)
PollScheduleTimer(a, set) == [a EXCEPT !.clock = TRUE]
PollAttach(ok) == Attached(Unattached)

----------------------------------------------------------------------------
(* Qt: the adapter is an object of the application; a notifier for each     *)
(* direction.                                                               *)

QtUpdate(a, add, d) == Flagged(a, add, d)
QtCleanup(a) == QtUpdate(QtUpdate(a, FALSE, "r"), FALSE, "w")
QtSlots(E) == Each(E)
\* Deleting the object ends its connections to the notifiers.
QtDestructor(a) == Free([a EXCEPT !.io = {}])
QtSetContext(ok) == Attached(Unattached)

----------------------------------------------------------------------------
(* The hooks as the context reaches them, by kind of adapter.               *)

Attaching(k, ok) ==
    CASE k = "ae" -> AeAttach(ok)               [] k = "libev" -> LibevAttach(ok)
      [] k = "libev0" -> Libev0Attach(ok)       [] k = "redismodule" -> ModuleAttach(ok)
      [] k = "ivykis" -> IvykisAttach(ok)       [] k = "macosx" -> MacOSAttach(ok)
      [] k = "libevent0" -> Libevent0Attach(ok) [] k = "glib" -> GlibNew(ok)
      [] k = "libhv" -> LibhvAttach(ok)         [] k = "libevent" -> LibeventAttach(ok)
      [] k = "libsdevent" -> LibsdeventAttach(ok) [] k = "libuv" -> LibuvAttach(ok)
      [] k = "libuv0" -> Libuv0Attach(ok)       [] k = "poll" -> PollAttach(ok)
      [] k = "qt" -> QtSetContext(ok)

Update(k, a, add, d) ==
    CASE k = "ae" -> AeUpdate(a, add, d)        [] k = "libev" -> LibevUpdate(a, add, d)
      [] k = "libev0" -> Libev0Update(a, add, d)
      [] k = "redismodule" -> ModuleUpdate(a, add, d)
      [] k = "ivykis" -> IvykisUpdate(a, add, d) [] k = "macosx" -> MacOSUpdate(a, add, d)
      [] k = "libevent0" -> Libevent0Update(a, add, d)
      [] k = "glib" -> GlibUpdate(a, add, d)    [] k = "libhv" -> LibhvUpdate(a, add, d)
      [] k = "libevent" -> LibeventUpdate(a, add, d)
      [] k = "libsdevent" -> LibsdeventUpdate(a, add, d)
      [] k = "libuv" -> LibuvUpdate(a, add, d)  [] k = "libuv0" -> Libuv0Update(a, add, d)
      [] k = "poll" -> PollUpdate(a, add, d)    [] k = "qt" -> QtUpdate(a, add, d)

Cleanup(k, a) ==
    CASE k = "ae" -> AeCleanup(a)               [] k = "libev" -> LibevCleanup(a)
      [] k = "libev0" -> Libev0Cleanup(a)       [] k = "redismodule" -> ModuleCleanup(a)
      [] k = "ivykis" -> IvykisCleanup(a)       [] k = "macosx" -> MacOSCleanup(a)
      [] k = "libevent0" -> Libevent0Cleanup(a) [] k = "glib" -> GlibCleanup(a)
      [] k = "libhv" -> LibhvCleanup(a)         [] k = "libevent" -> LibeventCleanup(a)
      [] k = "libsdevent" -> LibsdeventCleanup(a) [] k = "libuv" -> LibuvCleanup(a)
      [] k = "libuv0" -> Libuv0Cleanup(a)       [] k = "poll" -> PollCleanup(a)
      [] k = "qt" -> QtCleanup(a)

HasTimer == {"libev", "libevent", "libhv", "libsdevent", "libuv", "poll", "redismodule"}
\* Those whose timer is an object of the loop that fires once.
OneShot == {"libhv", "redismodule"}

SetTimeout(k, a, set) ==
    CASE k = "libev" -> LibevSetTimeout(a, set) [] k = "libevent" -> LibeventSetTimeout(a, set)
      [] k = "libhv" -> LibhvSetTimeout(a, set) [] k = "libsdevent" -> LibsdeventSetTimeout(a, set)
      [] k = "libuv" -> LibuvSetTimeout(a, set) [] k = "poll" -> PollScheduleTimer(a, set)
      [] k = "redismodule" -> ModuleSetTimeout(a, set)

Callback(k, E) ==
    CASE k = "libevent" -> LibeventHandler(E)   [] k = "poll" -> PollTick(E)
      [] k = "libev" /\ "t" \in E -> LibevTimeout
      [] k = "libhv" /\ "t" \in E -> LibhvTimeout
      [] k = "libsdevent" /\ "t" \in E -> LibsdeventTimeoutHandler
      [] k = "libuv" /\ "t" \in E -> LibuvTimeout
      [] k = "libev" /\ "t" \notin E -> LibevEvent(E)
      [] k = "libhv" /\ "t" \notin E -> LibhvHandleEvents(E)
      [] k = "libsdevent" /\ "t" \notin E -> LibsdeventHandler(E)
      [] k = "libuv" /\ "t" \notin E -> LibuvPoll(E)
      [] k = "redismodule" -> ModuleEvent(E)    [] k = "ae" -> AeEvent(E)
      [] k = "libev0" -> Libev0Event(E)         [] k = "libuv0" -> Libuv0Poll(E)
      [] k = "libevent0" -> Libevent0Event(E)   [] k = "ivykis" -> IvykisEvent(E)
      [] k = "macosx" -> MacOSAsyncCallback(E)  [] k = "glib" -> GlibDispatch(E)
      [] k = "qt" -> QtSlots(E)

\* External: the events a loop hands over in one call.
Batches(k, a) ==
    LET due == IF a.clock THEN {"t"} ELSE {}
    IN  IF k = "libevent" THEN SUBSET (a.io \cup due)
        ELSE IF k = "poll" THEN IF a.io = {} THEN {} ELSE SUBSET (a.io \cup due)
        ELSE IF k = "glib" THEN {E \in SUBSET a.io : GlibCheck(E)}
        ELSE IF k \in {"libhv", "libsdevent", "libuv", "libuv0"} THEN SUBSET a.io \cup {due}
        ELSE {{d} : d \in a.io \cup due}

\* External: what the loop no longer waits for once it has delivered.
Delivered(k, a, E) ==
    [a EXCEPT
        !.io = CASE k = "libevent0" -> @ \ E
                 [] k = "macosx" -> @ \ (E \cap {"w"})
                 [] OTHER -> @,
        !.clock = @ /\ ("t" \in E => k \in {"libev", "libevent", "poll"}),
        !.timer = IF k = "redismodule" /\ "t" \in E THEN ModuleTimeout(a).timer ELSE @]

============================================================================
