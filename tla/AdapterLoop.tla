---------------------------- MODULE AdapterLoop ----------------------------
(***************************************************************************)
(* One asynchronous context, one adapter and its loop.  The context is used *)
(* as async.c uses it: its handlers schedule the reads and writes they need *)
(* before they return, a command schedules a write, and the context may be  *)
(* released between two deliveries or inside a handler, where a disconnect  *)
(* or redisAsyncFree takes effect at the end of the handler.                *)
(***************************************************************************)
EXTENDS EventAdapters

VARIABLES
    kind,       \* the adapter in use
    ctx,        \* the context: alive, ev's hooks installed, ev.data not NULL
    attached,   \* "no", "yes" or "failed"
    a,          \* the container and the loop's registrations
    steps,      \* the rest of the adapter's callback
    inside,     \* the handler of the context that is running, or "no"
    batch,      \* the events of the last delivery
    wanted,     \* what the context last asked for, per direction
    misuse      \* "no", or what was used that is not there: the program's
                \* behaviour is undefined from here on

vars == <<kind, ctx, attached, a, steps, inside, batch, wanted, misuse>>

Init ==
    /\ kind \in Kinds
    /\ ctx = [alive |-> TRUE, hooks |-> FALSE, data |-> FALSE]
    /\ attached = "no"
    /\ a = Unattached
    /\ steps = <<>>
    /\ inside = "no"
    /\ batch = {}
    /\ wanted = {}
    /\ misuse = "no"

Idle == steps = <<>> /\ inside = "no"

\* Where the context's code, or a callback of the application, can run.
Running == misuse = "no" /\ ctx.alive /\ (Idle \/ inside # "no")

Attach(ok) ==
    LET n == Attaching(kind, ok)
    IN  /\ Running /\ attached = "no"
        /\ ok \/ kind \in {"macosx", "libhv", "libuv", "libuv0"}
        /\ attached' = IF ok THEN "yes" ELSE "failed"
        /\ a' = n.a
        /\ wanted' = n.a.io
        /\ ctx' = [ctx EXCEPT !.hooks = n.hooks, !.data = n.data]
        /\ UNCHANGED <<kind, steps, inside, batch, misuse>>

\* A hook is called when it is installed, with ev.data; every adapter reads
\* its container first.
HookedWith(b, w, stale) ==
    /\ wanted' = IF ctx.hooks THEN w ELSE wanted
    /\ misuse' = IF ~ctx.hooks THEN "no"
                 ELSE IF ~ctx.data THEN "null"
                 ELSE IF a.freed > 0 THEN "container"
                 ELSE IF stale THEN "timer" ELSE "no"
    /\ a' = IF ctx.hooks /\ ctx.data /\ a.freed = 0 THEN b ELSE a
Hooked(b, w) == HookedWith(b, w, FALSE)

\* The loop frees a timer that fires once when its callback has returned; the
\* container still counts it as its own.
StaleTimer ==
    /\ kind \in OneShot /\ a.timer /\ ~a.clock
    /\ "t" \in batch => Idle

\* __redisAsyncCommand: the command is in the buffer, a write is needed.
Command ==
    /\ Running
    /\ Hooked(Update(kind, a, TRUE, "w"), wanted \cup {"w"})
    /\ UNCHANGED <<kind, ctx, attached, steps, inside, batch>>

Timer(set) ==
    /\ Running
    /\ kind \in HasTimer
    /\ HookedWith(SetTimeout(kind, a, set), wanted, StaleTimer)
    /\ UNCHANGED <<kind, ctx, attached, steps, inside, batch>>

\* __redisAsyncFree: the cleanup hook, then the context.
FreeContext ==
    /\ Running
    /\ HookedWith(Cleanup(kind, a), wanted, StaleTimer)
    /\ ctx' = [ctx EXCEPT !.alive = FALSE]
    /\ inside' = "no"
    /\ UNCHANGED <<kind, attached, steps, batch>>

\* redisAsyncHandleRead asks for reads again, by the hook that the adapters of
\* src/adapters do not install; redisAsyncHandleWrite asks for writes until
\* the buffer is empty, and for reads.  Both may have run callbacks meanwhile.
HandlerReturns(more) ==
    /\ Running /\ inside # "no"
    /\ inside' = "no"
    /\ CASE inside = "r" /\ kind \notin {"libev0", "libevent0", "libuv0"} ->
               /\ more
               /\ Hooked(Update(kind, a, TRUE, "r"), wanted \cup {"r"})
         [] inside = "w" ->
               Hooked(Update(kind, Update(kind, a, more, "w"), TRUE, "r"),
                      Put(wanted, more, "w") \cup {"r"})
         [] OTHER -> more /\ UNCHANGED <<a, wanted, misuse>>
    /\ UNCHANGED <<kind, ctx, attached, steps, batch>>

----------------------------------------------------------------------------
\* The loop calls the adapter; redisPollTick takes the context itself.
Deliver(E) ==
    /\ misuse = "no" /\ Idle
    /\ E \in Batches(kind, a) \ (IF kind = "poll" THEN {} ELSE {{}})
    /\ kind = "poll" => ctx.alive
    /\ batch' = E
    /\ steps' = Callback(kind, E)
    /\ a' = Delivered(kind, a, E)
    /\ UNCHANGED <<kind, ctx, attached, inside, wanted, misuse>>

\* The adapter calls the handler of direction d.
Handler(d) ==
    IF ctx.alive THEN inside' = d /\ UNCHANGED misuse
                 ELSE misuse' = "context" /\ UNCHANGED inside

Step ==
    /\ misuse = "no" /\ inside = "no" /\ steps # <<>>
    /\ LET s == Head(steps)
           touches == s.op # "call"
           gone == a.deleted \/ ~a.context
       IN  IF touches /\ a.freed > 0
           THEN misuse' = "container" /\ UNCHANGED <<a, steps, inside>>
           ELSE
           CASE s.op = "call" \/ (s.op = "guarded" /\ ~gone) ->
                    Handler(s.on) /\ steps' = Tail(steps) /\ UNCHANGED a
             [] s.op = "deadline" /\ ~gone ->
                    /\ Handler(s.on)
                    /\ a' = [a EXCEPT !.clock = FALSE]
                    /\ steps' = Tail(steps)
             [] s.op = "check" /\ a.deleted ->
                    /\ a' = IF kind = "libevent" THEN LibeventDestroy(a)
                                                 ELSE LibsdeventDestroy(a)
                    /\ steps' = <<>>
                    /\ UNCHANGED <<inside, misuse>>
             [] OTHER ->
                    /\ a' = CASE s.op = "enter" -> [a EXCEPT !.entered = TRUE]
                              [] s.op = "leave" -> [a EXCEPT !.entered = FALSE]
                              [] s.op = "settle" ->
                                    IF a.deleted THEN PollFree(a)
                                                 ELSE [a EXCEPT !.entered = FALSE]
                              [] OTHER -> a
                    /\ steps' = Tail(steps)
                    /\ UNCHANGED <<inside, misuse>>
    /\ UNCHANGED <<kind, ctx, attached, batch, wanted>>

\* The loop runs the callback of a handle that uv_close was called on.
Closed(h) ==
    /\ misuse = "no" /\ Idle
    /\ h \in a.closing
    /\ a' = CASE kind = "libuv0" -> on_close(a)
              [] h = "timer" -> on_timer_close(a)
              [] OTHER -> on_handle_close(a)
    /\ UNCHANGED <<kind, ctx, attached, steps, inside, batch, wanted, misuse>>

\* The owner releases its GSource, after the context, or its Qt adapter, which
\* clears ev.data of the context it was given.
OwnerReleases ==
    /\ misuse = "no" /\ Idle
    /\ attached = "yes" /\ a.freed = 0
    /\ \/ /\ kind = "glib" /\ ~ctx.alive
          /\ a' = GlibFinalize(a)
          /\ UNCHANGED <<ctx, misuse>>
       \/ /\ kind = "qt"
          /\ a' = QtDestructor(a)
          /\ misuse' = IF ctx.alive THEN "no" ELSE "context"
          /\ ctx' = [ctx EXCEPT !.data = FALSE]
    /\ UNCHANGED <<kind, attached, steps, inside, batch, wanted>>

Next ==
    \/ \E ok \in BOOLEAN : Attach(ok)
    \/ Command
    \/ \E set \in BOOLEAN : Timer(set)
    \/ FreeContext
    \/ \E more \in BOOLEAN : HandlerReturns(more)
    \/ \E E \in SUBSET {"r", "w", "t"} : Deliver(E)
    \/ Step
    \/ \E h \in {"handle", "timer"} : Closed(h)
    \/ OwnerReleases

Spec == Init /\ [][Next]_vars

----------------------------------------------------------------------------
(* Between two deliveries the loop waits for exactly the directions the     *)
(* context asked for, whatever the adapter caches: the flags of the         *)
(* adapters that keep them, set anew by a timeout in libevent, by the hooks *)
(* called inside a callback, and after the loop has dropped an event of     *)
(* its own.  The older libevent adapter loses the read it has delivered:    *)
(* its events are not persistent and redisAsyncHandleRead asks for reads    *)
(* by forceAddRead, which it does not install.                              *)
WatchesAgree ==
    attached = "yes" /\ ctx.alive /\ ctx.data /\ Idle /\ misuse = "no" =>
        IF kind = "libevent0" THEN a.io \cup {"r"} = wanted \cup {"r"} /\ a.io \subseteq wanted
                              ELSE a.io = wanted

(* A handler gets a released context only from the second call of one       *)
(* delivery, and only in glib (dispatch), libhv and the older libuv         *)
(* adapter, which do not look again after the first handler; and the Qt     *)
(* destructor writes to a context that was released before it.              *)
ContextUses ==
    misuse = "context" =>
        \/ kind \in {"glib", "libhv", "libuv0"} /\ {"r", "w"} \subseteq batch
        \/ kind = "qt" /\ a.freed = 1

(* A container is freed at most once and never touched afterwards, however  *)
(* the release of the context falls into a callback or between the close    *)
(* callbacks of its handles; the exceptions are the macOS adapter that      *)
(* could not be attached, whose container stays in ev.data, and the NULL    *)
(* the hooks get after a failed libuv attach or a deleted Qt adapter.  Of   *)
(* the adapters whose timers fire once, the module API forgets a timer that *)
(* has fired; libhv keeps the pointer and hands it to the loop once more.   *)
ContainerUses ==
    /\ misuse = "container" => kind = "macosx" /\ attached = "failed"
    /\ misuse = "null" => \/ kind \in {"libuv", "libuv0"} /\ attached = "failed"
                          \/ kind = "qt" /\ a.freed = 1
    /\ misuse = "timer" => kind = "libhv"
    /\ a.freed <= 1

(* Both: nothing that was released is used but in the ways listed.          *)
UsesKnown == ContextUses /\ ContainerUses

(* Once the context is released and the loop has run what was left, an      *)
(* attached container is freed, unless its owner is the application; and    *)
(* the loop never waits on behalf of a freed container.                     *)
Released ==
    /\ attached = "yes" /\ ~ctx.alive /\ Idle /\ a.closing = {}
           /\ kind \notin {"glib", "qt"} /\ misuse = "no" => a.freed = 1
    /\ a.freed > 0 => a.io = {} /\ ~a.clock
============================================================================
