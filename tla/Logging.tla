------------------------------ MODULE Logging ------------------------------
(***************************************************************************)
(* CLogging of Logging.h and Logging.cpp in its queued build (_QUEUE):     *)
(* callers of Log put a message in m_LogQueue, QueueMonitorThread moves    *)
(* messages to m_szOutBuffer and from there to the temporary log file,     *)
(* DateMonitorThread flushes the buffer, reloads the INI file and looks at *)
(* the clock, and either thread archives the file when the hour, the day   *)
(* or the size says so.                                                    *)
(*                                                                         *)
(* m_LogQueue is an atomic first-in first-out channel (QueueProofs shows   *)
(* that Queue.h implements one) until an exception leaves its critical     *)
(* section entered: queueLock.  m_LogMutex is a CATMutex, a semaphore with *)
(* a maximum count of one.  Time is counted in hours and does not go back; *)
(* sizes are in units of which only the order matters.                     *)
(***************************************************************************)
EXTENDS Integers, Sequences, FiniteSets, SequencesExt

CONSTANTS
    Sizes,          \* sizes of a line, its "\r\n" included (1..4*1024+1 bytes)
    FlushAbove,     \* a fuller buffer is written at once (1024 bytes)
    Inis,           \* contents of the INI file: records of IniType
    HoursPerDay,    \* 24
    maxRetries,     \* of StartLogFile, 10
    CheckEvery,     \* DateMonitorThread checks the date every 6th round
    HeaderLines,    \* lines WriteLogFileHeader logs, 3
    MaxMsgs,        \* bound: lines logged in a behaviour
    MaxHours,       \* bound: the last hour of a behaviour
    MaxThrows,      \* bound: how often `new' throws in QueueAdd
    MaxIoFails,     \* bound: failed calls that open, write, size or move a file
    MaxStops        \* bound: how often the process stops

IniType == [max : Nat, break : BOOLEAN, header : BOOLEAN]

ASSUME LoggingAssumption ==
    /\ Sizes \subseteq Nat \ {0} /\ \E max \in Sizes : \A size \in Sizes : size <= max
    /\ Inis \subseteq IniType
    /\ {FlushAbove, maxRetries, HeaderLines, MaxMsgs, MaxHours, MaxThrows,
        MaxIoFails, MaxStops} \subseteq Nat
    /\ HoursPerDay \in Nat \ {0} /\ CheckEvery \in Nat \ {0}

Queue == "QueueMonitorThread"
Date == "DateMonitorThread"
Main == "~CLogging"
Threads == {Queue, Date, Main}

VARIABLES
    m_LogQueue, m_szOutBuffer, m_dwTotalWriteBytes,
    nul,            \* *m_szOutBuffer = 0: the buffer's first byte is NUL
    m_dwTotalBytesWritten, m_dwFileCounter, m_LastSystemTime,
    m_szLogFile,    \* <<hour, counter>>: the name the next archive gets
    ini,            \* the settings of the last LoadLogErrorLevels
    mutex,          \* the thread inside m_LogMutex, or "free"
    queueLock,      \* the thread left inside m_LogQueue's section, or "free"
    pc,             \* where each thread is
    str,            \* the line QueueMonitorThread has in hand, or none
    nowTime,        \* of each thread's DateCheck
    nCount,         \* of DateMonitorThread
    left,           \* header lines or retries a thread has left
    temp, exists,   \* the temporary log file: its lines; is there one
    archive,        \* the archived files: lines by name
    now,            \* the clock, in hours
    next,           \* history: number of the next line logged
    written,        \* history: numbers of the lines written, in order
    direct,         \* history: lines written by Log's catch block
    gone,           \* history: lines lost to a crash, a stop, a failed write
    overwritten,    \* history: lines whose archive was replaced
    uncounted,      \* history: bytes of temp m_dwTotalBytesWritten leaves out
    missed,         \* history: bytes in temp when its size was not to be had
    overlap,        \* history: a thread decided to rotate while the other did,
                    \* or by a time read before the other's rotation
    badOpens,       \* history: CreateFile failures
    ioFails, throws, stops

bufVars  == <<m_szOutBuffer, m_dwTotalWriteBytes, nul>>
rotVars  == <<m_dwFileCounter, m_LastSystemTime, m_szLogFile>>
fileVars == <<temp, exists, archive, written, overwritten, uncounted, missed>>
bounds   == <<ioFails, badOpens, throws, stops>>
vars == <<m_LogQueue, bufVars, m_dwTotalBytesWritten, rotVars, ini, mutex,
          queueLock, pc, str, nowTime, nCount, left, fileVars, now, next,
          direct, gone, overlap, bounds>>

Lines == [id : Nat, size : Sizes]

Bytes(lines) ==
    LET upTo[n \in 0..Len(lines)] == IF n = 0 THEN 0 ELSE upTo[n - 1] + lines[n].size
    IN  upTo[Len(lines)]

Ids(lines) == {lines[i].id : i \in DOMAIN lines}

Goto(t, from, to) == pc[t] = from /\ pc' = [pc EXCEPT ![t] = to]

(* Mutant: m_dwFileCounter where the code has ++m_dwFileCounter.           *)
BuildLogFileNameNoCount(hour, counter, max) ==
    /\ m_LastSystemTime' = hour
    /\ m_dwFileCounter' = counter
    /\ m_szLogFile' = <<hour, IF max > 0 THEN counter ELSE 0>>

(* BuildLogFileName: the hour of the last date check and, when there is a  *)
(* size limit, the number of the file.                                     *)
BuildLogFileName(hour, counter, max) ==
    /\ m_LastSystemTime' = hour
    /\ m_dwFileCounter' = IF max > 0 THEN counter + 1 ELSE counter
    /\ m_szLogFile' = <<hour, IF max > 0 THEN counter + 1 ELSE 0>>

Fail == ioFails < MaxIoFails /\ ioFails' = ioFails + 1

(* The constructor up to WriteLogFileHeader is the initial state; there is *)
(* no log file yet and GetCurrentLogFileSize makes one, if it can.         *)
Init ==
    /\ ini \in Inis
    /\ m_LogQueue = <<>>
    /\ m_szOutBuffer = <<>> /\ m_dwTotalWriteBytes = 0 /\ nul = TRUE
    /\ m_dwTotalBytesWritten = 0
    /\ m_LastSystemTime = 0
    /\ m_dwFileCounter = IF ini.max > 0 THEN 1 ELSE 0
    /\ m_szLogFile = <<0, m_dwFileCounter>>
    /\ mutex = "free" /\ queueLock = "free"
    /\ pc = [t \in Threads |-> IF t = Main THEN "header" ELSE "none"]
    /\ str = <<>> /\ nCount = -1 /\ nowTime = [t \in Threads |-> 0]
    /\ left = [t \in Threads |-> HeaderLines]
    /\ temp = <<>> /\ exists \in BOOLEAN /\ archive = [name \in {} |-> <<>>]
    /\ uncounted = 0 /\ missed = 0
    /\ now = 0 /\ next = 1
    /\ written = <<>> /\ direct = {} /\ gone = {} /\ overwritten = {}
    /\ overlap = FALSE
    /\ ioFails \in {n \in 0..1 : n <= MaxIoFails} /\ (~exists => ioFails = 1)
    /\ badOpens = 0 /\ throws = 0 /\ stops = 0

Tick ==
    /\ now < MaxHours
    /\ now' = now + 1
    /\ UNCHANGED <<m_LogQueue, bufVars, m_dwTotalBytesWritten, rotVars, ini,
                   mutex, queueLock, pc, str, nowTime, nCount, left,
                   fileVars, next, direct, gone, overlap, bounds>>

-----------------------------------------------------------------------------
(* WriteLogFileMsg, the whole of it inside m_LogMutex: copy the line, if   *)
(* there is one, behind m_dwTotalWriteBytes; then write the buffer out if  *)
(* its first byte is not NUL and it is full or bWriteNow says so.          *)

(* Mutant: CREATE_ALWAYS instead of OPEN_ALWAYS.                           *)
AppendToFileTruncating(lines) ==
    /\ temp' = lines
    /\ written' = written \o [i \in DOMAIN lines |-> lines[i].id]
    /\ exists' = TRUE
    /\ m_dwTotalBytesWritten' = m_dwTotalBytesWritten + Bytes(lines)
    /\ UNCHANGED <<archive, overwritten, uncounted, missed>>

AppendToFile(lines) ==
    /\ temp' = temp \o lines
    /\ written' = written \o [i \in DOMAIN lines |-> lines[i].id]
    /\ exists' = TRUE
    /\ m_dwTotalBytesWritten' = m_dwTotalBytesWritten + Bytes(lines)
    /\ UNCHANGED <<archive, overwritten, uncounted, missed>>

EmptyBuffer == m_szOutBuffer' = <<>> /\ m_dwTotalWriteBytes' = 0 /\ nul' = TRUE

(* CreateFile and WriteFile succeed.                                       *)
WriteAll(buf) ==
    /\ AppendToFile(buf)
    /\ EmptyBuffer
    /\ UNCHANGED <<gone, ioFails, badOpens>>

(* WriteFile writes less than it was given; nobody looks at dwWritten.     *)
WritePart(buf) ==
    /\ Fail
    /\ \E n \in 0..(Len(buf) - 1) :
        /\ AppendToFile(SubSeq(buf, 1, n))
        /\ gone' = gone \cup Ids(SubSeq(buf, n + 1, Len(buf)))
    /\ EmptyBuffer
    /\ UNCHANGED badOpens

(* CreateFile fails: the first byte is cleared, m_dwTotalWriteBytes is not.*)
WriteNone(buf, bytes) ==
    /\ Fail
    /\ badOpens' = badOpens + 1
    /\ m_szOutBuffer' = buf /\ m_dwTotalWriteBytes' = bytes /\ nul' = TRUE
    /\ UNCHANGED <<m_dwTotalBytesWritten, fileVars, gone>>

WriteLogFileMsg(msg, bWriteNow) ==
    LET buf    == m_szOutBuffer \o msg
        bytes  == m_dwTotalWriteBytes + Bytes(msg)
        isNul  == nul /\ (msg = <<>> \/ m_dwTotalWriteBytes > 0)
        flush  == ~isNul /\ (bWriteNow \/ bytes > FlushAbove)
    IN  /\ mutex = "free"
        /\ \/ flush /\ WriteAll(buf)
           \/ flush /\ WritePart(buf)
           \/ flush /\ WriteNone(buf, bytes)
           \/ /\ ~flush
              /\ m_szOutBuffer' = buf /\ m_dwTotalWriteBytes' = bytes
              /\ nul' = isNul
              /\ UNCHANGED <<m_dwTotalBytesWritten, fileVars, gone, ioFails,
                             badOpens>>

-----------------------------------------------------------------------------
(* Log and LogNT, from any thread.                                         *)

(* QueueAdd by thread t, which needs the critical section of the queue.    *)
Enqueue(t) ==
    /\ next <= MaxMsgs
    /\ queueLock \in {"free", t}
    /\ \E size \in Sizes :
        m_LogQueue' = Append(m_LogQueue, [id |-> next, size |-> size])
    /\ next' = next + 1
    /\ UNCHANGED queueLock

(* QueueAdd throws, in `new std::string' or, inside the critical section   *)
(* that nobody leaves then, in Queue::Add; the catch block writes the line *)
(* itself, past whatever is in the queue.                                  *)
Throws(t) ==
    /\ next <= MaxMsgs
    /\ throws < MaxThrows
    /\ throws' = throws + 1
    /\ \/ UNCHANGED queueLock
       \/ queueLock \in {"free", t} /\ queueLock' = t
    /\ \E size \in Sizes : WriteLogFileMsg(<<[id |-> next, size |-> size]>>, FALSE)
    /\ next' = next + 1
    /\ direct' = direct \cup {next}
    /\ UNCHANGED <<m_LogQueue, rotVars, ini, mutex, pc, str, nowTime, nCount, now,
                   overlap, stops>>

(* A call whose level is off returns at once; this is one that logs.  Main *)
(* stands for the application's threads, too.                              *)
Log ==
    /\ pc[Main] = "running"
    /\ Enqueue(Main)
    /\ UNCHANGED <<bufVars, m_dwTotalBytesWritten, rotVars, ini, mutex, pc, str,
                   nowTime, nCount, left, fileVars, now, direct, gone, overlap,
                   bounds>>

LogThrows ==
    /\ pc[Main] = "running"
    /\ Throws(Main)
    /\ UNCHANGED left

-----------------------------------------------------------------------------
(* Rotation: LogFileDateCheck, shared by the two threads.  DateCheck reads *)
(* the clock, compares it with m_LastSystemTime, first the day and then the*)
(* hour, looks at the size and resets m_dwFileCounter, all outside the     *)
(* mutex; StartLogFile takes it.                                           *)

Day(hour) == hour \div HoursPerDay
Hour(hour) == hour % HoursPerDay

(* Mutant: > instead of >=.                                                *)
TooBigAbove == ini.max > 0 /\ m_dwTotalBytesWritten > ini.max

TooBig == ini.max > 0 /\ m_dwTotalBytesWritten >= ini.max

(* Where LogFileDateCheck returns to.                                      *)
AfterCheck(t) == IF t = Queue THEN "write" ELSE "sleep"

(* The other thread is between DateCheck and the end of StartLogFile.      *)
OtherRotating(t) == \E u \in Threads \ {t} : pc[u] \in {"reset", "start", "move"}

(* m_LastSystemTime is later than the nowTime it is compared with: the     *)
(* other thread has rotated since nowTime was read.                        *)
Stale(t) == nowTime[t] < m_LastSystemTime

Forget(t) == nowTime' = [nowTime EXCEPT ![t] = 0]

(* DateCheck: GetLocalTime(&nowTime).                                      *)
ReadClock(t) ==
    /\ Goto(t, "check", "day")
    /\ nowTime' = [nowTime EXCEPT ![t] = now]
    /\ UNCHANGED <<m_LogQueue, bufVars, m_dwTotalBytesWritten, rotVars, ini,
                   mutex, queueLock, str, nCount, left, fileVars, now, next,
                   direct, gone, overlap, bounds>>

(* Then bNewLogFile of the date and, if it stays false, of the hour.       *)
NewDate(t, differs, else) ==
    /\ \/ differs /\ pc' = [pc EXCEPT ![t] = "reset"] /\ Forget(t)
          /\ overlap' = (overlap \/ OtherRotating(t) \/ Stale(t))
       \/ ~differs /\ pc' = [pc EXCEPT ![t] = else] /\ UNCHANGED overlap
          /\ IF else = "size" THEN Forget(t) ELSE UNCHANGED nowTime
    /\ UNCHANGED <<m_LogQueue, bufVars, m_dwTotalBytesWritten, rotVars, ini,
                   mutex, queueLock, str, nCount, left, fileVars, now, next,
                   direct, gone, bounds>>

CompareDay(t) ==
    /\ pc[t] = "day"
    /\ NewDate(t, Day(m_LastSystemTime) # Day(nowTime[t]), "hour")

CompareHour(t) ==
    /\ pc[t] = "hour"
    /\ NewDate(t, ini.break /\ Hour(m_LastSystemTime) # Hour(nowTime[t]), "size")

CheckSize(t) ==
    /\ \/ /\ TooBig /\ Goto(t, "size", "start")
          /\ overlap' = (overlap \/ OtherRotating(t))
       \/ ~TooBig /\ Goto(t, "size", AfterCheck(t)) /\ UNCHANGED overlap
    /\ UNCHANGED <<m_LogQueue, bufVars, m_dwTotalBytesWritten, rotVars, ini,
                   mutex, queueLock, str, nowTime, nCount, left, fileVars, now,
                   next, direct, gone, bounds>>

ResetCounter(t) ==
    /\ Goto(t, "reset", "start")
    /\ m_dwFileCounter' = 0
    /\ UNCHANGED <<m_LogQueue, bufVars, m_dwTotalBytesWritten,
                   m_LastSystemTime, m_szLogFile, ini, mutex, queueLock, str,
                   nowTime, nCount, left, fileVars, now, next, direct, gone,
                   overlap, bounds>>

(* StartLogFile: Lock, GetLocalTime(&m_LastSystemTime).                    *)
StartLogFile(t) ==
    /\ Goto(t, "start", "move")
    /\ mutex = "free"
    /\ mutex' = t
    /\ m_LastSystemTime' = now
    /\ left' = [left EXCEPT ![t] = maxRetries]
    /\ UNCHANGED <<m_LogQueue, bufVars, m_dwTotalBytesWritten,
                   m_dwFileCounter, m_szLogFile, ini, queueLock, str,
                   nowTime, nCount, fileVars, now, next, direct, gone,
                   overlap, bounds>>

(* The rest of StartLogFile once the file is moved or given up, and the    *)
(* header that follows it.                                                 *)
NewLogFile(t) ==
    /\ m_dwTotalBytesWritten' = 0
    /\ BuildLogFileName(m_LastSystemTime, m_dwFileCounter, ini.max)
    /\ mutex' = "free"
    /\ pc' = [pc EXCEPT ![t] = IF t = Main THEN "down" ELSE "header"]
    /\ left' = [left EXCEPT ![t] = HeaderLines]

Move(t) ==
    /\ pc[t] = "move" /\ left[t] > 0
    /\ exists
    /\ archive' = [name \in DOMAIN archive \cup {m_szLogFile} |->
                    IF name = m_szLogFile THEN temp ELSE archive[name]]
    /\ overwritten' = overwritten \cup
        (IF m_szLogFile \in DOMAIN archive THEN Ids(archive[m_szLogFile]) ELSE {})
    /\ temp' = <<>> /\ exists' = FALSE
    /\ uncounted' = 0 /\ missed' = 0
    /\ NewLogFile(t)
    /\ UNCHANGED <<m_LogQueue, bufVars, ini, queueLock, str, nowTime, nCount,
                   written, now, next, direct, gone, overlap, bounds>>

(* MoveFileEx fails, always when there is no file: sleep and try again.    *)
MoveFails(t) ==
    /\ pc[t] = "move" /\ left[t] > 0
    /\ IF exists THEN Fail ELSE UNCHANGED ioFails
    /\ left' = [left EXCEPT ![t] = @ - 1]
    /\ UNCHANGED <<m_LogQueue, bufVars, m_dwTotalBytesWritten, rotVars, ini,
                   mutex, queueLock, pc, str, nowTime, nCount, fileVars, now,
                   next, direct, gone, overlap, badOpens, throws, stops>>

MoveGivesUp(t) ==
    /\ pc[t] = "move" /\ left[t] = 0
    /\ NewLogFile(t)
    /\ UNCHANGED <<m_LogQueue, bufVars, ini, queueLock, str, nowTime, nCount,
                   fileVars, now, next, direct, gone, overlap, bounds>>

(* WriteLogFileHeader: lines go through the queue like any others.         *)
Header(t) ==
    /\ pc[t] = "header" /\ ini.header /\ left[t] > 0
    /\ Enqueue(t)
    /\ left' = [left EXCEPT ![t] = @ - 1]
    /\ UNCHANGED <<bufVars, m_dwTotalBytesWritten, rotVars, ini, mutex, pc, str,
                   nowTime, nCount, fileVars, now, direct, gone, overlap, bounds>>

HeaderThrows(t) ==
    /\ pc[t] = "header" /\ ini.header /\ left[t] > 0
    /\ Throws(t)
    /\ left' = [left EXCEPT ![t] = @ - 1]

HeaderDone(t) ==
    /\ pc[t] = "header"
    /\ ~ini.header \/ left[t] = 0 \/ next > MaxMsgs
    /\ \/ t # Main /\ Goto(t, "header", AfterCheck(t))
       \/ /\ t = Main   \* the constructor starts the two threads
          /\ pc' = [u \in Threads |-> CASE u = Queue -> "wait" [] u = Date -> "sleep"
                                        [] u = Main -> "running"]
    /\ UNCHANGED <<m_LogQueue, bufVars, m_dwTotalBytesWritten, rotVars, ini,
                   mutex, queueLock, str, nowTime, nCount, left, fileVars,
                   now, next, direct, gone, overlap, bounds>>

Rotate(t) ==
    \/ ReadClock(t) \/ CompareDay(t) \/ CompareHour(t) \/ CheckSize(t)
    \/ ResetCounter(t) \/ StartLogFile(t)
    \/ Move(t) \/ MoveFails(t) \/ MoveGivesUp(t)
    \/ Header(t) \/ HeaderThrows(t) \/ HeaderDone(t)

-----------------------------------------------------------------------------
(* QueueMonitorThread: QueueWait; LogFileDateCheck; WriteLogFileMsg.       *)

(* Mutant: the newest message is taken first.                              *)
QueueWaitNewest ==
    /\ Goto(Queue, "wait", "check")
    /\ m_LogQueue # <<>>
    /\ queueLock \in {"free", Queue}
    /\ str' = <<Last(m_LogQueue)>>
    /\ m_LogQueue' = Front(m_LogQueue)
    /\ UNCHANGED <<bufVars, m_dwTotalBytesWritten, rotVars, ini, mutex,
                   queueLock, nowTime, nCount, left, fileVars, now, next,
                   direct, gone, overlap, bounds>>

QueueWait ==
    /\ Goto(Queue, "wait", "check")
    /\ m_LogQueue # <<>>
    /\ queueLock \in {"free", Queue}
    /\ str' = <<Head(m_LogQueue)>>
    /\ m_LogQueue' = Tail(m_LogQueue)
    /\ UNCHANGED <<bufVars, m_dwTotalBytesWritten, rotVars, ini, mutex,
                   queueLock, nowTime, nCount, left, fileVars, now, next,
                   direct, gone, overlap, bounds>>

QueueWrite ==
    /\ Goto(Queue, "write", "wait")
    /\ WriteLogFileMsg(str, FALSE)
    /\ str' = <<>>
    /\ UNCHANGED <<m_LogQueue, rotVars, ini, mutex, queueLock, nowTime,
                   nCount, left, now, next, direct, overlap, throws, stops>>

-----------------------------------------------------------------------------
(* DateMonitorThread: Sleep; LoadLogErrorLevels; WriteLogFileMsg("", true);*)
(* every sixth round LogFileDateCheck.                                     *)

LoadLogErrorLevels ==
    /\ Goto(Date, "sleep", "flush")
    /\ ini' \in Inis
    /\ UNCHANGED <<m_LogQueue, bufVars, m_dwTotalBytesWritten, rotVars,
                   mutex, queueLock, str, nowTime, nCount, left, fileVars,
                   now, next, direct, gone, overlap, bounds>>

(* Mutant: bWriteNow left at its default.                                  *)
DateFlushNotNow ==
    /\ LET count == (nCount + 1) % CheckEvery IN
        /\ Goto(Date, "flush", IF count = 0 THEN "check" ELSE "sleep")
        /\ nCount' = count
    /\ WriteLogFileMsg(<<>>, FALSE)
    /\ UNCHANGED <<m_LogQueue, rotVars, ini, mutex, queueLock, str, nowTime,
                   left, now, next, direct, overlap, throws, stops>>

DateFlush ==
    /\ LET count == (nCount + 1) % CheckEvery IN
        /\ Goto(Date, "flush", IF count = 0 THEN "check" ELSE "sleep")
        /\ nCount' = count
    /\ WriteLogFileMsg(<<>>, TRUE)
    /\ UNCHANGED <<m_LogQueue, rotVars, ini, mutex, queueLock, str, nowTime,
                   left, now, next, direct, overlap, throws, stops>>

-----------------------------------------------------------------------------
(* The end of the process and its next start.                              *)

Lost == Ids(m_LogQueue) \cup Ids(str)

(* ~CLogging: TerminateThread stops the two threads wherever they are; a   *)
(* mutex one of them holds stays locked.  Nobody empties the queue.        *)
Terminate ==
    /\ pc[Main] = "running"
    /\ stops < MaxStops
    /\ stops' = stops + 1
    /\ pc' = [t \in Threads |-> IF t = Main THEN "final" ELSE "none"]
    /\ nowTime' = [t \in Threads |-> 0]
    /\ gone' = gone \cup Lost
    /\ m_LogQueue' = <<>> /\ str' = <<>>
    /\ UNCHANGED <<bufVars, m_dwTotalBytesWritten, rotVars, ini, mutex,
                   queueLock, nCount, left, fileVars, now, next, direct,
                   overlap, ioFails, badOpens, throws>>

(* Then WriteLogFileMsg("", true), and StartLogFile(Main).                 *)
FinalFlush ==
    /\ Goto(Main, "final", "start")
    /\ WriteLogFileMsg(<<>>, TRUE)
    /\ UNCHANGED <<m_LogQueue, rotVars, ini, mutex, queueLock, str, nowTime,
                   nCount, left, now, next, direct, overlap, throws, stops>>

(* The process is killed; what it holds in memory is lost.                 *)
Crash ==
    /\ pc[Main] # "down"
    /\ stops < MaxStops
    /\ stops' = stops + 1
    /\ pc' = [t \in Threads |-> IF t = Main THEN "down" ELSE "none"]
    /\ nowTime' = [t \in Threads |-> 0]
    /\ gone' = gone \cup Lost
    /\ m_LogQueue' = <<>> /\ str' = <<>>
    /\ UNCHANGED <<bufVars, m_dwTotalBytesWritten, rotVars, ini, mutex,
                   queueLock, nCount, left, fileVars, now, next, direct,
                   overlap, ioFails, badOpens, throws>>

(* GetCurrentLogFileSize: CreateFile makes the file when there is none;    *)
(* when it or GetFileSize fails, m_dwTotalBytesWritten stays 0.            *)
GetCurrentLogFileSize ==
    \/ /\ exists' = TRUE
       /\ m_dwTotalBytesWritten' = Bytes(temp) /\ uncounted' = 0
       /\ UNCHANGED <<missed, ioFails>>
    \/ /\ Fail
       /\ exists' \in {exists, TRUE}
       /\ m_dwTotalBytesWritten' = 0
       /\ uncounted' = Bytes(temp) /\ missed' = Bytes(temp)

(* The constructor again.                                                  *)
Restart ==
    /\ pc[Main] = "down"
    /\ pc' = [pc EXCEPT ![Main] = "header"]
    /\ ini' \in Inis
    /\ gone' = gone \cup Ids(m_szOutBuffer)
    /\ EmptyBuffer
    /\ BuildLogFileName(now, 0, ini'.max)
    /\ GetCurrentLogFileSize
    /\ mutex' = "free" /\ queueLock' = "free"
    /\ nCount' = -1
    /\ left' = [t \in Threads |-> HeaderLines]
    /\ UNCHANGED <<m_LogQueue, str, nowTime, temp, archive, written, overwritten,
                   now, next, direct, overlap, badOpens, throws, stops>>

-----------------------------------------------------------------------------
QueueThread == QueueWait \/ QueueWrite \/ Rotate(Queue)
DateThread  == LoadLogErrorLevels \/ DateFlush \/ Rotate(Date)
MainThread  == FinalFlush \/ Rotate(Main)

Next ==
    \/ Tick \/ Log \/ LogThrows
    \/ QueueThread \/ DateThread \/ MainThread
    \/ Terminate \/ Crash \/ Restart

Spec == Init /\ [][Next]_vars

(* Every thread runs; nothing makes a caller log or the process stop.      *)
Fairness == WF_vars(QueueThread) /\ WF_vars(DateThread) /\ WF_vars(MainThread)

FairSpec == Spec /\ Fairness

-----------------------------------------------------------------------------
(* The variables have their types; only a thread in the middle of          *)
(* StartLogFile is inside m_LogMutex across steps.                         *)
TypeOK ==
    /\ {m_LogQueue, m_szOutBuffer, temp, str} \subseteq Seq(Lines)
    /\ Len(str) <= 1
    /\ {m_dwTotalWriteBytes, m_dwTotalBytesWritten, m_dwFileCounter, now,
        m_LastSystemTime, next, uncounted, missed, ioFails, badOpens, throws,
        stops} \subseteq Nat
    /\ m_szLogFile \in Nat \X Nat
    /\ ini \in Inis
    /\ {mutex, queueLock} \subseteq Threads \cup {"free"}
    /\ DOMAIN pc = Threads
    /\ \A t \in Threads : pc[t] = "move" => mutex = t
    /\ nCount \in -1..(CheckEvery - 1)
    /\ {left, nowTime} \subseteq [Threads -> Nat]
    /\ \A name \in DOMAIN archive : archive[name] \in Seq(Lines)
    /\ written \in Seq(Nat)
    /\ {nul, exists, overlap} \subseteq BOOLEAN
    /\ direct \cup gone \cup overwritten \subseteq 1..(next - 1)

(* Lines reach the disk in the order in which they entered the queue, over *)
(* flushes by either thread, rotations, failed writes and restarts; only a *)
(* line of Log's catch block may overtake.                                 *)
WrittenInOrder ==
    \A i, j \in DOMAIN written :
        i < j /\ {written[i], written[j]} \cap direct = {} => written[i] < written[j]

Once(lines) == \A i, j \in DOMAIN lines : lines[i].id = lines[j].id => i = j
Archived == UNION {Ids(archive[name]) : name \in DOMAIN archive}

(* A line logged is in one place: the queue, QueueMonitorThread's hand, the*)
(* buffer, the temporary file or one archive; or it is known to be lost to *)
(* a stop, a short write or an archive that was replaced; and it is there  *)
(* once.  So no interleaving of the two threads loses or doubles a line.   *)
InOnePlace ==
    /\ LET places == <<Ids(m_LogQueue), Ids(str), Ids(m_szOutBuffer), Ids(temp),
                       Archived, gone, overwritten>>
       IN  /\ UNION {places[i] : i \in 1..7} = 1..(next - 1)
           /\ \A i, j \in 1..7 : i < j => places[i] \cap places[j] = {}
    /\ \A m, n \in DOMAIN archive : m # n => Ids(archive[m]) \cap Ids(archive[n]) = {}
    /\ Once(m_LogQueue) /\ Once(str) /\ Once(m_szOutBuffer) /\ Once(temp)
    /\ \A name \in DOMAIN archive : Once(archive[name])

(* As long as the log file could always be opened, m_szOutBuffer never     *)
(* holds more than FlushAbove bytes between calls of WriteLogFileMsg (so a *)
(* line of 4*1024 more fits in its 15*1024), and its first byte says       *)
(* whether it is empty.                                                    *)
BufferBounded ==
    badOpens = 0 => /\ m_dwTotalWriteBytes = Bytes(m_szOutBuffer)
                    /\ m_dwTotalWriteBytes <= FlushAbove
                    /\ nul <=> m_szOutBuffer = <<>>

(* Until a MoveFileEx failed maxRetries times, m_dwTotalBytesWritten is the*)
(* size of the temporary file, over short writes, rotations and restarts,  *)
(* but for what was in the file when GetCurrentLogFileSize last failed.    *)
(* (StartLogFile sets it to 0 whether or not it could move the file.)      *)
SizeTracked ==
    ioFails < maxRetries /\ pc[Main] # "down" =>
        m_dwTotalBytesWritten + uncounted = Bytes(temp)

LimitFixed == \A i, j \in Inis : i.max > 0 /\ i.max = j.max

(* With a limit in the INI file the temporary file exceeds it by less than *)
(* a buffer and a line, although QueueMonitorThread checks the size before *)
(* it writes and DateMonitorThread writes without checking; a line of Log's*)
(* catch block, which is not checked either, adds its size, and so do the  *)
(* bytes a start found and could not count.                                *)
FileSizeBounded ==
    LimitFixed /\ ioFails < maxRetries =>
        Bytes(temp) <
            ini.max + missed + FlushAbove + (1 + throws) * Max(Sizes)

(* An archive is replaced by MOVEFILE_REPLACE_EXISTING only after a restart*)
(* or once a thread decided to rotate while the other was rotating, or by a*)
(* nowTime from before the other's rotation: otherwise the hour and        *)
(* m_dwFileCounter never name the same file twice.                         *)
ReplacesOnlyOnOverlap ==
    LimitFixed /\ stops = 0 /\ ~overlap => overwritten = {}

(* The lines reach the disk in order, and each is in one place.            *)
LinesKept == WrittenInOrder /\ InOnePlace

(* The buffer, the count of the file's bytes and the file keep to their    *)
(* limits.                                                                 *)
Bounded == TypeOK /\ BufferBounded /\ SizeTracked /\ FileSizeBounded

(* Both, over failing file operations, kills and restarts.                 *)
SurvivesFaults == LinesKept /\ Bounded

(* With the buffer flushed every round, and as long as no file operation   *)
(* failed, the process was not stopped and no exception left the queue's   *)
(* critical section entered, every line logged is eventually written to the*)
(* log file (the callers stop after MaxMsgs lines, so the threads catch up *)
(* again and again).                                                       *)
EveryLineWritten ==
    []<>(ioFails = 0 /\ stops = 0 /\ queueLock = "free" =>
            1..(next - 1) \subseteq Range(written))
=============================================================================
