# A TLA+ model of SocketsCPP

SocketsCPP is a Windows socket server with its test client, a logger with
background threads, and a pool of Redis connections that are found through
sentinels. It brings its own copy of hiredis, with the event-loop adapters, and
of `Win32_Interop`, the layer under the Windows port of Redis: file descriptors
and completion ports, threads, the allocator, and the emulation of `fork`.

This directory holds the specifications of this code, the TLC configurations that
check them, and TLAPS proofs about eight of its parts, from the queue and the
connection pool to the asynchronous context and the descriptor layer. `PROJECT.json` maps every
definition to the source lines it models, and lists the hazards of the code with
the properties aimed at each.

**What runs at this commit.** `_tmain` of the server calls `hiredisConnection()`
and returns (`SocketServerApp.cpp:134-135`); the server behind it, and with it
the logger, is compiled but not reached, no code creates a `CRedisPool`, and much
of `Win32_Interop` has its callers in the Redis server, which is not in this
repository. The models describe each part as written, for the uses its
interface allows; where a use is left out, "Abstractions" or "Not modelled" says so.

## Inventory

| Component | State | Operations | Interacts with | What is hard |
|---|---|---|---|---|
| `Queue<T>` (`Queue.h`, `mutex.h`) | linked list, size, semaphore, critical section | `Add`, `Wait` | logger, server | unlocking before posting, exceptions inside the lock, a semaphore at its limit |
| `CRedisPool` (`Redis.cpp:379-509`) | `std::queue`, semaphore, mutex | `Get`, `Add`, `Fill`, `Empty`, `FraudANI` | `CRedis`, callers' threads | exclusive use without a lock, swallowed exceptions, `Empty` reading without the lock |
| `CRedis`, `CSentinel` (`Redis.cpp:1-377`) | a hiredis context | `Connect`, `Authenticate`, `Command`, `FraudANI`, `GetConnectionInformation` | pool, hiredis, servers | mutual recursion that replaces the context underway, timeouts, leaks |
| `CLogging` (`Logging.cpp`, `Logging.h`, `ATMutex.cpp`) | queue, buffer, byte counts, archive name, settings, the files | `Log`, `LogNT`, two monitor threads, rotation, constructor, destructor | every other component logs | a clock and a size looked at outside the mutex, failing file operations, stop and restart |
| Server (`SocketServerApp.cpp`) | accepted sockets, `connectedClients`, queue | accept loop, `HandleClient`, `m_HiloQueueMensajes` | client, queue, logger | TCP cutting messages, order of start-up, clients that disappear |
| Client (`SocketClientApp.cpp`) | one socket | send and receive loop | server | errors it ignores |
| hiredis reader (`hiredis.c:50-671`) | buffer, position, task stack, the tree under construction | feed, get reply | both contexts | input that ends anywhere, nesting at its limit, failing allocations |
| hiredis context (`hiredis.c`, `net.c`) | socket, output buffer, error, reader | connect, append, get reply, commands | `CRedis`, server | partial writes and reads, timeouts, descriptors on error paths |
| hiredis asynchronous (`async.c`, `dict.c`) | callback lists, subscription tables, flags | connect, command, disconnect, free, the handlers of the loop | adapters, server | callbacks that free the context that calls them, replies matched by position |
| Adapters (`adapters/*.h`, two generations) | one container each, registrations with the loop | add, delete, cleanup, timeout, events | asynchronous context, sixteen loops | a container released inside its own callback |
| Descriptors (`Win32_FDAPI.cpp`, `win32_rfdmap.cpp`, `win32_wsiocp.c`) | maps between sockets, C-runtime descriptors and descriptors; socket states; overlapped operations | POSIX calls, completion-port calls | hiredis, fork emulation, the loop | numbers recycled while operations are outstanding, close in several steps |
| Threads (`Win32_PThread.c`, `Win32_ThreadControl.c`) | counters of workers, safe mode, condition variable | create, join, wait, signal, suspend, resume | fork emulation | lost wake-ups, workers on the heap during a suspension |
| Fork emulation (`Win32_QFork.cpp`) | block map, control block, events, child process | begin, status, end, abort, heap blocks | allocator, threads | copy-on-write over several operations, status races, failing steps |
| Allocator (`Win32_dlmalloc.c`) | chunks, bins, segments | malloc, free, realloc, memalign, independent allocation, trim | heap of the fork emulation | boundary tags at the limits, calls made of several lock sections |

## Modules

| Module | Models | State and actions |
|---|---|---|
| `FifoChannel` | nothing in the code: what a queue promises | `Put`, `Get` on a sequence |
| `Queue`, `QueueProofs` | `Queue.h`, `mutex.h` | a program counter per thread; heap, `head`, `tail`, `m_nSize`, the semaphore's count, owner and depth of the critical section. `Add` is AddLock, AddLink (or AddThrow), AddUnlock, AddPost; `Wait` is WaitSemaphore, WaitLock, WaitTake, WaitUnlock |
| `RedisPool`, `RedisPoolProofs` | `CRedisPool`, `CSemaphore`, `CMutex` | workers that borrow an object for a call, a manager that calls `Fill` and `Empty` |
| `RedisConnection`, `RedisConnectionProofs` | `CRedis`, `CSentinel` | the call stack of one object, its contexts and replies; each hiredis call has every outcome the code tells apart |
| `Logging`, `LoggingProofs`, `MCLogging` | `CLogging` with `_QUEUE`, `CATMutex` | the two monitor threads and the destructor step by step, any callers of `Log`, the clock, the temporary file and the archives |
| `ClientServer`, `ClientServerProofs`, `MCClientServer` | server and client | main thread, handler per connection, consumer thread, clients, and TCP as a stream that `recv` cuts anywhere |
| `RedisReader` | `redisReader` | operators on the reader as a record: one per item type and step of the task stack |
| `RedisContext`, `MCRedisContext` | `redisContext`, `net.c`, the formatting functions | one action per API call, per step of a connect and of `redisGetReply`; a server that decodes and answers |
| `Dict` | `dict.c` | operators on a table of slots, each the set of the entries in its chain |
| `RedisAsync`, `RedisAsyncProofs`, `MCRedisAsync` | `async.c` with `src/adapters/ae.h` | handlers, callbacks and the free of a context step by step, so that a callback can do anything in between |
| `EventAdapters` | the other fifteen adapters | operators on one record: attach, update, cleanup, timeout, and the list of calls a delivery makes |
| `AdapterLoop`, `MCAdapterLoop` | adapter, context and loop together | deliver, one call of a handler, release, close callbacks |
| `RfdMap` | `win32_rfdmap.cpp` | operators on the tables |
| `FdApi`, `FdApiProofs`, `MCFdApi` | `Win32_FDAPI.cpp`, `win32_wsiocp.c` | every function that changes or resolves a descriptor, in the steps other threads can see; Windows, which recycles handles at once, and the completions |
| `QForkHeap` | `AllocHeapBlock`, `FreeHeapBlock` | operators on the block map |
| `Dlmalloc`, `MCDlmalloc` | `Win32_dlmalloc.c` | the allocator's functions as operators on `malloc_state`, one action per lock section |
| `ThreadControl` | `Win32_PThread.c`, `Win32_ThreadControl.c` | main thread and workers, condition variable, safe mode |
| `QFork`, `QForkProofs` | `Win32_QFork.cpp` with the two modules above | parent views and their protection, the mappings behind them, the child, events and status |

How they rest on each other:

- `Logging` and `ClientServer` use the queue as an atomic channel;
  `QueueProofs!Refinement` is the theorem that allows it.
- `RedisConnection` follows one object; `RedisPoolProofs!NoLockNeeded` is the
  theorem that allows that. In `RedisPool` the use of an object is one step for
  the same reason. What `RedisConnection` takes from hiredis (a NULL reply means
  an error in the context, the error stays) is `NullMeansError` of `RedisContext`.
- `RedisAsync` handles whole messages; that formatting and parsing are right
  however they are cut is checked in `RedisContext`.
- `AdapterLoop` composes each adapter with what `async.c` may do to it;
  `RedisAsync` composes `async.c` with `Dict` and the ae adapter.
- `Dlmalloc` and `QFork` both stand on `QForkHeap`; `HeapAccounted` shows what the
  loops of `Win32_QFork.cpp` assume, that the mapped blocks come first.
- `QFork` extends `ThreadControl`: the suspension is what makes the copy of the
  control block and the heap consistent.

### Abstractions

- **Queue.** One step is a lock, unlock or semaphore call or the work between
  two of them. `list`, `added` and `taken` are history: the invariants compare
  them with what the pointers say. The critical section is recursive, so a
  producer whose `new` threw inside it can still enter it again.
- **RedisPool.** `Empty` reads `empty()` without the lock; while another thread
  is inside `push` or `pop` the answer is arbitrary (`EmptySeen`).
- **Logging.** A line is a number and a size; time is counted in hours, and only
  the order of sizes matters. `m_szOutBuffer` is a sequence of lines plus `nul`,
  whether its first byte is NUL, because the code decides by that byte whether
  there is something to write. `DateCheck` is the steps it has outside the mutex: read the
  clock into `nowTime`, compare the day, compare the hour, look at the size, reset
  the counter. A `SYSTEMTIME` is read as a whole (its tearing is left out), and the clock
  only advances. A stop ends in a restart that counts the bytes of the file found,
  or fails to (`uncounted`, and `missed` for the size check that this postpones).
  When `new` throws inside `Queue::Add` the thread keeps the queue's critical
  section (`queueLock`). The five error levels only decide whether a call
  of `Log` happens at all. An archive's name is the pair of hour and counter;
  `m_szLogFile` keeps the name built at the last rotation, as in the code. The
  INI settings are read and written without the mutex, as in the code. A line
  that is empty (`LogNT("")`) is not modelled; it writes nothing. `SetFilePointer`
  succeeds.
- **RedisConnection.** Contexts are numbered as they are allocated and never
  reused, so a dangling pointer shows. A sentinel's own context lives within one
  step, unless it is the one that leaks.
- **ClientServer.** Bytes are counted. A client takes the answer whole or any part
  of it (`torn`) and goes on to its next message in both cases. The NUL that `HandleClient` writes behind
  a full buffer is outside the buffer; the model says when that can happen and
  not what the byte overwrites. An exception of `QueueAdd` ends the process and is
  left out.
- **RedisReader, RedisContext.** Bytes are characters of a small alphabet. Lengths
  and numbers have at most two digits, and the conversions of a format are `%s`,
  `%b`, `%d`, `%%` and one that is invalid. `r.mem` counts the allocations that
  still succeed, so a failure can hit any of them. The socket options fail or
  do nothing that a property sees.
- **RedisAsync.** Commands, replies and messages are whole; a partial read is a
  flag. `redisAsyncCommand` takes a subscription or an unsubscription at any time, as the
  code does, of a key subscribed to or not. Each names one key:
  several channels in one command, and an `UNSUBSCRIBE` without a channel, are left
  out. `redisGetReply` may fail in the middle of the replies (`GetReplyFails`).
  Allocations succeed.
- **EventAdapters.** The loops are external: a loop delivers any of the events a
  container is registered for, alone or together. What the adapters keep in
  fields of different names is one record. The timers of libhv and of the Redis
  module API fire once and are then gone from the loop (`OneShot`), whatever the
  container's field still points to.
- **FdApi.** An object is the history value a descriptor was opened for. A lookup
  and the Windows call after it are two steps; the completion-port functions run in
  the loop's thread and are one step each. `Early` names the states whose `ConnectEx`
  may return TRUE at once: the code then sets no mark, and the completion still
  comes. That Windows does so is not known when a state is opened; the constant
  chooses it ahead, and the proofs hold for every choice.
- **Dlmalloc.** Sizes are in words of eight bytes, and a chunk's contents are its
  owner. A bin is the sequence of the chunks of one size: the trees of the code
  become a map from sizes to the chains that hang off their nodes, and the walk
  through a tree the choice of the smallest size that fits. Reading the head of
  a chunk that is not there is an error of evaluation, so it cannot pass unnoticed.
- **ThreadControl, QFork.** What runs inside one critical section is one step. A
  block's contents are a number that every write increases. `EndForkOperation` goes
  block by block (copy back, unmap and map again) with the workers running, and the
  protection of the heap may fail for any block. The worker function,
  the order in which the application suspends, begins, resumes and ends, and the
  copy-on-write of Windows are external. `osRDB` and `osAOF` take the same path.

## Runs

| Run | Question | Instance | Distinct states |
|---|---|---|---|
| `queue` | are list, lock, semaphore and order right, is it the channel, is every item taken | 2 producers, 2 consumers, 3 items, 1 exception, a semaphore that saturates at 2 | 177,643 |
| `pool` | exclusive use, nothing lost, permits balance, does every call return | 2 workers, 2 objects, `Fill(1)` as often as it is called, 2 exceptions, 1 call of `Empty` | 12,432 |
| `connection` | contexts, replies and commands through the recursion | 3 calls, 2 sentinels, 4 failures, 1 deleted object | 31,714 |
| `logging` | order, conservation, bounds, archives | 3 lines, 2 hour changes, the second a day change, size limit 2, two INI files, 1 exception | 2,917,294 |
| `logging_faults` | the same with failing files, stops and restarts; is every line written | 2 lines, headers, an hour change, size limit 2, 1 exception, 2 failures, 1 stop | 828,239 |
| `server` | order of the stream, start-up, full buffer, does the server catch up | 2 clients with 2 and 1 messages of length 2, buffer 3, answers taken in parts, 1 reset or kill | 2,624,060 |
| `context` | are commands and replies intact however they are cut, does a failure show, are sockets owned | 1 reused context of 2, 2 commands, 2 addresses, nesting limit 3, 1 failure at any point | 97,648 |
| `async` | the right callback, an orderly end, an armed loop, the subscriptions | 3 commands of five kinds, 2 interchangeable channels that share a slot, 1 pattern, 1 message, 2 commands where one is a monitor | 12,542,935 |
| `adapters` | waits, uses after release, containers freed | all 15 adapters, any deliveries | 1,394 |
| `descriptors` | does a descriptor mean its object, is a handle lost, do the counters match | 2 threads, 3 handles, 3 objects, 1 send per socket, a connect that may finish at once | 1,590,645 |
| `dlmalloc` | consistency, ownership, accounting | 2 threads, 5 calls, 3 usable blocks, requests small, large and directly mapped | 495,958 |
| `fork` | quiet heap, the child's snapshot, the status, jobs | 2 operations, 2 workers, 2 usable blocks, 1 failure of any kind | 1,849,903 |

What they show, with the exceptions that the properties name:

- **queue, pool.** The queue keeps its list, its permits and its order in every
  interleaving and is the atomic channel; no wake-up is lost unless `new` threw or
  the semaphore refused a post. A pooled connection belongs to one thread.
- **connection.** No freed context is used and no command goes out on a broken
  connection or twice. The contexts leaked are those of sentinels that refuse and
  of objects that are deleted.
- **logging, logging_faults.** Lines reach the disk once and in order; the file
  passes its limit by what both threads have in hand and what a restart could not
  count, and no more; the buffer grows only after a failed open. Every line is
  written as long as no file operation failed, nothing stopped the process and the
  queue's critical section is free.
- **server.** Every byte received is queued and shown in order per client. The
  NUL behind a full buffer needs a message cut in two before it, or a client that
  took a part of an answer for the whole. That second way takes three messages of
  one client, one more than the run has; the theorem covers any number.
- **context.** What the formats mean is what the server decodes, and what it
  answers is what the caller gets, or an error that stays.
- **async.** When a context has been freed every callback has run, with its own
  reply or NULL, unless the context monitors, an assertion failed, or a command
  crossed a reply about subscriptions (`crossed`): the end of the last
  subscription, an unsubscription of the same key still on its way, or an
  unsubscription of a key not subscribed to; see below.
- **adapters.** The paths on which a released object is used are the ones listed
  below, and there are no others.
- **descriptors, dlmalloc, fork.** Numbers and blocks are recycled without
  confusion; the losses are the listed ones.

### Where the code does not do what it says, or what a caller would expect

Each of these is behaviour of the models; the properties carry it as an explicit
exception, so that a further one would show.

Application:

- `Authenticate` computes whether the password was accepted (`Redis.cpp:295-297`)
  and returns `true` whatever it was (`:303`): the branch of `Connect` that drops
  the connection (`:198-202`) is never taken, and after a refusal commands go out
  unauthenticated. `SendsOnHealthy` therefore claims authentication only while
  nothing has failed. `l_commandtext` in it is `static` (`:284`): threads that
  connect at the same time write the same buffer, with the same password.
- After one failed `CreateFile` the first byte of the log buffer is NUL while
  `m_dwTotalWriteBytes` is not 0; no later call of `WriteLogFileMsg` writes
  anything again, and the buffer only grows.
- `DateCheck` runs outside `m_LogMutex` and `StartLogFile` does not ask again: both
  monitor threads can decide to rotate before either has, and the second rotation
  archives a file that is not due. And a thread can hold a `nowTime` (`Logging.cpp:333`)
  while the other rotates: `m_LastSystemTime` is then later, the comparison finds a new
  date a second time, `m_dwFileCounter` goes back to 0, and the next archive of
  the hour gets a name already in use. An archive can be replaced by a later one of
  the same name after such an overlap or with such a stale `nowTime`
  (`ReplacesOnlyOnOverlap`: the only ways without a restart and with a fixed limit),
  after a restart within the hour (the counter starts at 1 again), or when the limit
  is switched off during a rotation.
- `GetCurrentLogFileSize` (`Logging.cpp:638-653`) says nothing when it cannot open the file
  of the run before: `m_dwTotalBytesWritten` stays 0, and the file may pass its limit
  by what was in it.
- `~CLogging` kills the threads where they stand: queued lines are lost, and if
  one of them held `m_LogMutex` the destructor waits for ever.
- `WriteLogFileMsg` flushes above 1024 bytes; its comment says 10k.
- `connectedClients` is never decremented or read, and `MAX_CLIENTS` is never
  read: the accept loop has no limit. `SocketServerApp.cpp:114` reads `reply->type`
  of a reply that may be NULL.
- If `new` throws in `Queue::Add` the critical section stays entered: `Log` writes its
  line in the catch block and returns, and from then on no other thread puts a line
  into the queue or takes one out. `EveryLineWritten` claims nothing from there on.

hiredis:

- The result of `redisContextInit` is used unchecked (`hiredis.c:1069,1124`), and
  so is `sdsempty()` for the emptied output buffer (`:1234`).
  `redisContextPreConnectTcp` returns an error without setting `err` when the
  address cannot be parsed (`net.c:298`).
- A disconnect waits for the output buffer only (`async.c:452`): the README says
  that all replies are read first (`Hiredis/src/README.md:302-305`), and so does the
  assertion of `async.c:370`, which fails when a command is written, the
  application disconnects, and the first read brings only a part of the answer.
  The state `aborted` stands for a failed assertion, or for a connect callback
  that frees or disconnects its context.
- The reply that ends the last subscription takes `REDIS_SUBSCRIBED` away at once
  (`async.c:430-431`), although commands sent meanwhile are still unanswered. Their
  callbacks wait in `sub.invalid`, but their replies are now matched against
  `replies`: after subscribe, unsubscribe, get, written together, the reply to the
  get fails the assertion of `async.c:493`, or, when another command was issued in
  between, goes to that one's callback. The comment at `async.c:467-468` has regular
  callbacks get their reply before messages arrive, which is so only for commands
  issued before the subscription. `RightCallback` and `SubscriptionsKept` leave out
  contexts in which it has happened (the history variable `crossed`).
- `redisAsyncCommand` only asks for `REDIS_SUBSCRIBED` before an unsubscription
  (`async.c:699`) and for nothing before a subscription. The reply to an
  `UNSUBSCRIBE` of a key without an entry finds no callback, and `redisProcessCallbacks`
  runs the one it found for the reply before. A `SUBSCRIBE` of a key whose
  unsubscription is still on its way replaces the callback in the dictionary, and
  the reply to the unsubscription then deletes the new one (`async.c:425`). Both set
  `crossed` when the command is issued.
- Under `MONITOR` a read that completes no line pushes back the callback found
  last, whoever it belongs to (`async.c:459`); `RightCallback` leaves out contexts
  that monitor. A connect callback that frees the context is not noticed (`:539`).
  `dictReplace` keeps the old key and drops the new one it was given.
- glib, libhv and the older libuv adapter call the second handler of a delivery on
  a context the first one released; Qt does so after its adapter is destroyed. A
  failed attach leaves a freed container in `ev.data` (macOS) or NULL under
  installed hooks (libuv). `events->timer` of libhv still points to a timer that has
  fired and is freed (`libhv.h:83`), and is given to `htimer_reset` or `htimer_del`
  afterwards (`UsesKnown` lists it). The older libevent adapter does not wait for reads
  again after the first: its events are not persistent and it has no
  `forceAddRead`. ivykis and macOS wait for both directions from the attach on.

Win32_Interop:

- `WSIOCP_SocketConnect` sets `CONNECT_PENDING` only when `ConnectEx` returns FALSE
  (`win32_wsiocp.c:409,473`). When it returns TRUE its completion comes all the same: the
  socket's state counts one operation less than is under way and can be freed before
  it. `PendingMatches` excepts the states this can happen to.
- `ACCEPT_PENDING` is not counted by `WSIOCP_CloseSocketState`; an accepted socket
  is lost when an accept fails half-way (`win32_wsiocp.c:208,240`); a socket whose
  `addSocket` returns INVALID_FD is not closed (`Win32_FDAPI.cpp:489`); `FDAPI_pipe`
  returns 0 with `pfds[1] = -1` when the descriptors run out (`:477`).
- `ialloc` switches directly mapped chunks off by the shared `mflags` without a
  lock around its `malloc` (`Win32_dlmalloc.c:5059-5061`), and its assertion that
  the chunk is not mapped can fail when two threads are in it; the run lets it
  run alone (`IallocAlone`), so nothing is shown about `ialloc` with other threads in it. The last block of the heap is never handed out, and
  the result of `CreateBlockMap` is not looked at (`Win32_QFork.cpp:970`).
- A block that is free when `EndForkOperation` runs keeps its private pages and is
  not copied back; once it is in use again, the next child reads old contents.
  The result of `VirtualProtect` on the heap is not looked at (`Win32_QFork.cpp:591`): a
  block it fails for stays shared, and the child reads what is written to it later.
  After a `BeginForkOperation` that failed the views stay write-copy unless the
  application ends the operation. `ChildReadsSnapshot` excepts just these three.
- `EndForkOperation` copies a block back and maps it again while the workers run: what
  a worker writes in between is lost, for the parent and the next child alike.
- A child that completes and exits between the look at `operationComplete` and the
  look at the process is reported as failed; one whose save returned an error
  still sets `operationComplete`. A thread that was created and is not yet counted
  is not waited for by `SuspensionCompleted` (`late` in `HeapQuiet`).

### Bounds

Every bound is a constant with a comment (`MaxAdds`, `MaxFaults`, `MaxWork`, ...)
and appears in a guard. They are chosen so that the cases the properties are about
happen: a semaphore that saturates, a pool with fewer objects than workers, a
file limit reached by one line or two, a move given up after `maxRetries` failures, a
recursion of `Connect` three deep, a buffer longer than a message but shorter than
two; a reply nested as deep as the stack and one deeper, an argument that holds
CR LF, a write cut inside a header; a hash table that grows with two keys in one
chain; a descriptor closed with a send outstanding and its number given out
again; a chunk split, coalesced on both sides, moved and mapped directly; a second
fork after writes, a release and an allocation during the first. Each property also has a
mutant in `PROJECT.json`, a plausible slip in the code under which the same run
finds the property violated. `MonitorWithin`
lets a context that monitors take fewer commands: `RightCallback` and
`SubscriptionsKept` claim nothing about it, and the two other properties see
a monitor first and a monitor second.
The bounds that stand for the code's own constants
(`SemMax`, `FlushAbove`, `maxRetries`, `CheckEvery`, `HeaderLines`, `HoursPerDay`,
`BufLen`, `StackSize`, `Consumed`, `InitialSize`, `INT_MAX`, `Granularity` and the
thresholds of the allocator) are only compared with, so small values in the same
order are enough.

Deadlock is checked in no run, because each of these systems may really stop: the
calls are used up, the peers are gone, or the code waits for ever as described (a
critical section left entered by an exception, a mutex whose owner was killed). That
nobody waits for ever otherwise is what the liveness properties say.

### Fairness

- `Queue`, `Logging`, `ClientServer`: weak fairness of each thread of the program,
  which the scheduler gives. Nothing is assumed of the clients, of the clock or of
  who wins a lock. `EverythingTaken` excepts behaviours in which `new` has thrown or
  the semaphore has refused a post, and `EveryLineWritten` those with a failed file
  operation, a stop or a queue left locked, because the code does not recover from
  them.
- `RedisPool`: also strong fairness of waiting for the semaphore and the mutex.
  Windows queues the waiters of these kernel objects and releases them in turn;
  without that a worker could be overtaken for ever by the others. `Fill` is called
  (it is the application's start-up).
- `QFork`: weak fairness of the main thread inside a call and of each worker.
  Nothing is assumed of the child, or of the application's next call, except that
  it resumes the workers it has suspended.
- The other modules have no fairness; their properties are invariants.

## Proofs

Eight modules hold theorems; `tlapm` checks each of them for all values of the
constants. Every invariant a run checks about the application (`Queue`,
`RedisPool`, `RedisConnection`, `Logging`, `ClientServer`), about the fork
emulation (`QFork` with `ThreadControl`) and about the asynchronous context
(`RedisAsync` with `Dict`) is the statement of a theorem, and so are the promises of
the descriptor layer (`FdApi` with `RfdMap`) that a descriptor means its object and
that a completion finds the block it was issued on.

| Module | For any | Theorems and the properties they state |
|---|---|---|
| `QueueProofs` | finite set of threads, addresses, limits | `ListCorrect` (`WellFormed`), `SemaphoreCounts` (`Accounting`), `Refinement` (`ImplementsChannel`), `TypeCorrect`, `WaitIsSafe`, `FirstInFirstOut` |
| `RedisPoolProofs` | workers, objects, limits | `NoLockNeeded` (`Exclusive`), `NoObjectLost` (`Conserved`), `PermitsBalance` (`PermitsBalanced`), `TypeCorrect` |
| `RedisConnectionProofs` | number of sentinels, calls, failures, deleted objects | `SendingSafe` (`SendsOnHealthy`), `NothingElseLeaks` (`Reclaimed`), `ScriptSentOnce` (`SentOnce`) |
| `LoggingProofs` | sizes with a largest one, INI files, limits; number of lines, hours, failures, restarts | `KeepsLines` (`LinesKept`), `NamesAreNew` (`ReplacesOnlyOnOverlap`), `StaysBounded` (`Bounded`), `FaultsSurvived` (`SurvivesFaults`) |
| `ClientServerProofs` | finite set of clients, lengths of a message and of the buffer, numbers of messages and faults | `ServerSound` (`Sound`), `BufferFullOnlyAfterCut` (`FullOnlyAfterCut`) |
| `QForkProofs` | number of workers, blocks, jobs, operations, failures | `NobodyOnHeap` (`HeapQuiet`), `StatusIsTrue` (`StatusTruthful`), `ChildHasSnapshot` (`ChildReadsSnapshot`) |
| `RedisAsyncProofs` | keys, hash function and size of the tables, commands and messages | `OwnCallbacks` (`RightCallback`), `DictionariesAgree` (`SubscriptionsKept`), `NothingForgotten` (`Scheduled`), `EndToldOnce` (`DisconnectTold`), `StoryHolds` |
| `FdApiProofs` | threads, handles, number of CRT descriptors, states and objects, `INT_MAX` | `DescriptorsDenote` (`Denotes`), `CompletionsFind` (`PendingMatches`), `TablesAgree`, `OperationsMatch` |

The bounds on failures, messages and operations in the models (`MaxFaults`,
`MaxMsgs`, ...) are natural numbers that the proofs do not fix, so they only bound
TLC. Each inductive invariant was an invariant of a TLC run before it was proved.

**Queue.** The assumptions are `QueueAssumption`. The inductive invariant is the
conjunction of the type invariant and the invariants the run checks, because they
need each other: that `head` is allocated when `Wait` dereferences it follows from
`Accounting` (a consumer that holds a permit has an entry in the list), keeping
`Accounting` needs `LockInv` (nobody else moves between take and unlock), and
keeping `ListShape` needs both. Counting is by lemmas on the cardinality of the
set of threads at a place: moving one thread changes a count by one. From the
invariant follow `TypeCorrect`, `ListCorrect` (all of `WellFormed`),
`SemaphoreCounts`, `WaitIsSafe` and `FirstInFirstOut`; `Refinement` shows that
AddLink is the channel's `Put`, WaitTake its `Get`, and every other step leaves
the channel as it is.

**RedisPool.** The assumptions are `PoolAssumption`. The inductive invariant adds
to the checked properties where the mutex is held, which object a thread holds at
which place, and that the object in hand between `front` and `pop` is still the
first of the queue: that is what makes it sound to hand it out once. `NoLockNeeded`
is the comment "No lock needed. We are now in a synchronized pool"
(`Redis.cpp:325`) as a theorem; it holds with exceptions and with `Empty` running
at the same time. `NoObjectLost` and `PermitsBalance` follow from the same
invariant.

**RedisConnection.** The assumptions are `RedisConnectionAssumption` (`Null` is
neither a context nor a type of reply). The invariant is about the call stack, whose
depth is not bounded: each active call was made by the one below it (`CallStack`),
and what is known depends on the innermost call and, while nothing has failed, on
the depth (`At`). `Places` is what the code relies on without saying so: `Connect`
looks for a master only when there is no context, and it returns true to `Command`
only with a healthy one. `Unfailing` is needed for the authentication part of
`SendsOnHealthy`: without a failure the recursion of `Command` into `Authenticate`
goes one level deep, and a context that is not authenticated is met only there.

**Logging.** The assumptions are `LoggingAssumption`. The invariant has a part for
each promise, because each needs what the others do not: `LinesInv` says in which
one place each line is (queue, hand, buffer, temporary file, archive, or lost in a
listed way) and that the line numbers ascend along that path; `NamesInv` that the
archives come before the next name in the order of hour and counter, with the
intermediate states of a rotation spelled out, unless a thread has decided during the
other's rotation or with a `nowTime` from before it; `BufferInv` how the count of bytes,
the first byte and the buffer agree, up to a `CreateFile` that failed; `MoveInv`
that a move given up has used up its retries in failures; `SizeInv` what the
temporary file will hold once the buffer is written, with the bytes a start could
not count set apart. `SizeInv` and not `Bounded`
is inductive: the file grows in `WriteLogFileMsg` by a buffer that was accepted
several steps earlier. The bytes of a file are a recursive function over its lines.
That it adds up over a longer file, and that a file whose bytes are zero is empty,
is induction over data; it is done by hand over sets of numbers
(`NatSetInduction`: a set that holds 0 and every successor holds all of `Nat`, from
the least number theorem of the library), which needs no operator parameter.

**ClientServer.** The assumptions are `ClientServerAssumption`. The pieces shown, in
hand and queued are one sequence (`Pipe`) that only `QueueAdd` changes, by an
append; `Streaming` says that the pieces of each client in it join up to where the
handler is. `FullOnlyAfterCut` rests on `Lockstep`: as long as every `recv` of the
handler has returned whole messages and every `recv` of the client whole answers, at
most one message is on its way, so a buffer longer than
a message cannot be filled. `Startup` gives the use of `pLogger`, and `Counted` the
count of clients.

**QFork.** The assumptions are `ThreadsAssumption` and `BlocksAssumption`. Three
invariants, each resting on the one before. `ThreadInv`: the two counters are the
cardinalities of the sets of workers they stand for, so that the comparison in
`SuspensionCompleted` means that everybody counted is in safe mode; nobody leaves it
while the flag is up. `StatusInv`: the events and the handle are those of this
operation's child. `MemoryInv`: a parent's page that is not private shows the
mapping's content (`Coherent`); between operations nothing is protected unless a
failure left it so or an end is under way (`Phases`); and from the copy to the end of the child the
mappings of the snapshot's blocks do not change (`Frozen`), because every one of
them is protected before a worker runs again, or is recorded as a block whose
protection failed. That is where `ThreadInv` is used:
without it a worker could write between the copy and the protection.

**RedisAsync.** The invariant says, for each place of the one thread, what the loop
is armed for and who asked for the end. `Armed`: the adapter's `reading` flag agrees
with the loop except between a read event, which is consumed by its delivery, and
the `ForceAddRead` at the end of the read, or on the way to the end of the context.
`Waiting`: output has its write event, and a connected context reads from its first
write on; a handler returns to the loop only with both true. `Asked` and `Ended`: the
way to the end is entered with one of the two flags set, so a callback that runs
while the lists are emptied can add nothing to them, and the status is REDIS_OK only
if the application asked. What the dictionaries hold does not matter for this
part; lemmas (`RegisteredLike`, `SubscribeLike`) say that finding and recording a
callback leaves the rest of the context alone.

Which callback gets which reply is the second invariant, `SInv`, under the
assumptions `DictAssumption` and `KeysAssumption`. It tells the story of a command
on its way: the commands not yet answered are the last ones issued, in order
(`Commands`); the replies to come are numbered without a gap up to the last command
answered, a message with the number of the reply before it (`Chain`); and each is
about a key that is known, the reply to an unsubscription being the last about its
key (`Replies`). `Match` then says that the callbacks in `replies` and
`sub.invalid` are exactly those of the commands without an answer, in order, so that
the first of them is the owner of the next regular reply. That is what the code
relies on when it matches replies by position. `Called` and `Iterated` follow each
callback to its last call, through a free that runs callbacks while the lists are
emptied. `Dictionaries` says that every entry is in the slot of its key and that the
two tables hold the subscriptions; a chain is a set of entries, so no induction over
a list is needed. A monitor, or `crossed` (the end of the last
subscription with commands behind it, or a subscription or unsubscription that meets
an unsubscription on its way or names a key not subscribed to), ends the story, and
the properties say so.

**FdApi.** The assumptions are `FdAssumption` and `RfdAssumption`. The inductive
invariant `IInv` has a part for each place where a number can be mistaken for
another one. `MapGood`: the descriptors of sockets, of C-runtime descriptors and of
the free list are disjoint and below the next number, and the free list names each
once. `Opened` and `CrtTables`: what the tables name is open in Windows and named
once, and the tables of the C runtime are inverse to each other. `HandlesHeld` and
`CrtHeld`: a handle or C-runtime descriptor that a thread holds between two steps of
a call is open, in no table, and held by no other thread; that is why Windows cannot
hand out its value while the map still knows it. `Closings`: the entry of a
descriptor that is being closed is marked and belongs to the closing thread.
`StatesOwned`: a state block and its descriptor point to each other, and a block that
waits for its last completion belongs to a marked entry. `Waits`: an accepted socket
is in one list or one operation, and its descriptor has not been handed out. With
`Tables` and `Calling`, which are `Denotes` in terms of the tables, they are kept by
each action. The completion-port functions change the map, Windows and the blocks
several times in one step; the lemmas about them (`GetsGood`, `ReadyIs`, `ShutGood`,
`RefusedGood`, `UnderWayGood`, ...) follow the worlds they pass through, and each of
these worlds is good (`Good`).

`PendingMatches` needs a second invariant, `PInv`, over the same steps. `Ops`: the
count of sends and the read and connect marks of a block are those of the operations
under way on it, at most one read and one connect each (for a state in `Early` only the
sends), and an operation's key is -1
or the descriptor of its block. `Ports` gives the key when an operation is issued: a
socket on the port is there under its own descriptor, and one that Windows has closed
or not yet named (`Starting`) is on no port, so a recycled value starts without a
key. `Closed`: a closed descriptor that is not free is with its thread, or its block
is marked and still counts an operation, which is why freeing the block with the last
completion frees it exactly once. `QuietWaits`: an accepted socket that waits to be
taken is attached and has nothing under way, which is what `WSIOCP_Accept` relies on when
it attaches the next of the list and hands it out.

Only model-checked, and why:

- Liveness (`EverythingTaken`, `CallsReturn`, `EveryLineWritten`, `ServerCatchesUp`,
  `JobsTaken`): fairness is out of the prover's reach.
- `RedisReader`, `RedisContext` and `Dlmalloc`: their parsers, encoders and trees are
  RECURSIVE operators, with which the prover cannot work.
- `AdapterLoop`: its state space is finite without any bound of ours, and the run
  explores all of it for all fifteen adapters; a proof would repeat that.
- `NothingElseLost` of `FdApi`: not proved yet (see the plan).

## Not modelled

- `sds.c`: sequential byte manipulation; strings are sequences here.
- The build of the logger without `_QUEUE` (the Release configuration does not
  define it), where callers of `Log` rotate and write themselves.
- `ServerMain.cpp`, which is not in the build; `DeserializeMessage` and the result
  of `SerializeMessage`, which neither program uses. `hiredisConnection()` is a
  straight sequence of calls to the context that `RedisContext` models.
- The mspace half of `Win32_dlmalloc.c`, which repeats the functions modelled on
  another state, its statistics and `mallopt`; the jemalloc variant of the heap
  blocks.
- Service control, console output, command line, time, event log and stack traces
  of `Win32_Interop`: pure I/O or conversions, called by nothing here.
- Allocation failures in `async.c` and in the adapters, which the code mostly does
  not check.

## Plan

1. Done: the application (`Queue` with its abstract channel, `RedisPool`,
   `RedisConnection`, `Logging`, `ClientServer`), hiredis (`RedisReader`,
   `RedisContext`, `Dict`, `RedisAsync`, `EventAdapters`, `AdapterLoop`) and
   `Win32_Interop` (`RfdMap`, `FdApi`, `QForkHeap`, `Dlmalloc`, `ThreadControl`,
   `QFork`); proofs for `Queue`, `RedisPool`, `RedisConnection`, `Logging`,
   `ClientServer`, `QFork` with `ThreadControl`, `RedisAsync` with `Dict`, and
   `Denotes` and `PendingMatches` of `FdApi` with `RfdMap`.
2. A proof still to come: `NothingElseLost` of `FdApi`, from `IInv` and an invariant
   that says for each open object which table, call, `FILE`, operation or list of the
   accepted holds it.
3. `Logging` without `_QUEUE`.
