-------------------------------- MODULE FdApi --------------------------------
(* The descriptor layer of Win32_Interop: the FDAPI functions of             *)
(* Win32_FDAPI.cpp over the map of win32_rfdmap.cpp, and the completion-port *)
(* sockets of win32_wsiocp.c.  Windows hands out the sockets and the CRT     *)
(* descriptors and reuses their values at once.                              *)
(*                                                                           *)
(* A descriptor is used by one thread at a time, and only the event-loop     *)
(* thread Loop touches sockets that have a completion-port state: that is    *)
(* how the callers share them.  Threads meet in the map, so every entry of   *)
(* its critical section and every call to Windows is a step, except in the   *)
(* WSIOCP functions, which run in one thread.                                *)
EXTENDS RfdMap, FiniteSets, FiniteSetsExt, SequencesExt

CONSTANTS Handles,      \* the values of SOCKET
          MaxCrt,       \* the CRT descriptors are 0 .. MaxCrt
          Threads, Loop,
          NStates,      \* bound on the socket states alive
          Early,        \* the states whose ConnectEx may finish at once
          MaxSockets,   \* bound on the sockets opened
          MaxOpens,     \* bound on all objects, after which only accepts open one
          MaxSends      \* bound on the sends under way on a socket

ASSUME FdAssumption == MaxCrt \in Nat /\ MaxCrt > 2 /\ NStates \in Nat /\ Loop \in Threads /\ INVALID_SOCKET \notin Handles

VARIABLES m,        \* the tables of RFDMap
          sock,     \* Windows: the object behind a socket handle, 0 if closed
          crt,      \* Windows: the object behind a CRT descriptor, 0 if closed
          streams,  \* the CRT descriptors of open FILEs
          port,     \* Windows: the completion key of a socket, -1 if not attached
          st,       \* the iocpSockState blocks, NoState if free
          io,       \* Windows: the overlapped operations not yet completed
          th,       \* where each thread is
          table,    \* history: the object each descriptor was handed out for
          sockets, files, \* history: the objects opened so far
          lost      \* history: objects leaked in one of the ways the code does
vars == <<m, sock, crt, streams, port, st, io, th, table, sockets, files, lost>>

NoState == [fd |-> -1]
Idle == [pc |-> "idle", rfd |-> -1, h |-> INVALID_SOCKET, c |-> <<>>]

(* The objects: sockets are numbered 1, 2, ..., files 101, 102, ...; the      *)
(* three standard ones are open at the start.                                *)
File(i) == 100 + i
Init ==
  /\ m = RFDMapInit
  /\ sock = [h \in Handles |-> 0] /\ port = [h \in Handles |-> -1]
  /\ crt = [c \in 0 .. MaxCrt |-> IF c <= 2 THEN File(c + 1) ELSE 0]
  /\ streams = {} /\ st = [n \in 1 .. NStates |-> NoState] /\ io = {}
  /\ th = [t \in Threads |-> Idle]
  /\ table = [r \in 3 .. 5 |-> File(r - 2)] /\ sockets = 0 /\ files = 3 /\ lost = {}

-----------------------------------------------------------------------------
Busy(r) == \E t \in Threads : th[t].rfd = r
StateAt(r) == IF r \in DOMAIN m.RFDToSocketInfo THEN m.RFDToSocketInfo[r].state ELSE 0
(* The descriptors thread t may pass to a call. *)
Usable(t) == {r \in DOMAIN table : ~Busy(r) /\ (t = Loop \/ StateAt(r) = 0)}
At(t, pc) == th[t].pc = pc
Start(t, pc, r, h, c) == At(t, "idle") /\ th' = [th EXCEPT ![t] = [pc |-> pc, rfd |-> r, h |-> h, c |-> c]]
Go(t, pc) == th' = [th EXCEPT ![t].pc = pc]
Return(t) == th' = [th EXCEPT ![t] = Idle]

Room(n) == sockets + files - 3 + n <= MaxOpens

(* FDAPI_socket: Windows opens a socket, then the map names it.  When the    *)
(* map has no name left, the socket stays open and nobody can close it.      *)
NewSocket(t) ==
  \E h \in Handles :
     /\ sock[h] = 0 /\ sockets < MaxSockets /\ Room(1)
     /\ sock' = [sock EXCEPT ![h] = sockets + 1] /\ sockets' = sockets + 1
     /\ Start(t, "addSocket", -1, h, <<>>)
     /\ UNCHANGED <<m, crt, streams, port, st, io, table, files, lost>>
FDAPI_socket(t) == NewSocket(t)
FDAPI_WSASocket(t) == NewSocket(t)
FDAPI_accept(t) == (\E r \in Usable(t) : lookupSocket(m, r) # INVALID_SOCKET) /\ NewSocket(t)
AddSocket(t) ==
  LET h == th[t].h  r == AddedSocket(m, h) IN
  /\ At(t, "addSocket")
  /\ m' = addSocket(m, h)
  /\ table' = IF r = INVALID_FD THEN table ELSE Put(table, r, sock[h])
  /\ lost' = IF NextRFD(m) = INVALID_FD THEN lost \cup {sock[h]} ELSE lost
  /\ Return(t)
  /\ UNCHANGED <<sock, crt, streams, port, st, io, sockets, files>>

(* The CRT gives its lowest free descriptors: one for open, two for pipe. *)
FreeCrt == {c \in 0 .. MaxCrt : crt[c] = 0}
NewCrt(t, n) ==
  \E q \in [1 .. n -> FreeCrt] :
     /\ \A i, j \in 1 .. n : i < j => q[i] < q[j]
     /\ \A i \in 1 .. n, d \in FreeCrt \ Range(q) : q[i] < d
     /\ Room(n) /\ files' = files + n
     /\ crt' = [c \in 0 .. MaxCrt |-> IF c \in Range(q) THEN File(files + CHOOSE i \in 1 .. n : q[i] = c) ELSE crt[c]]
     /\ Start(t, "addCrtFD", -1, INVALID_SOCKET, q)
     /\ UNCHANGED <<m, sock, streams, port, st, io, table, sockets, lost>>
FDAPI_open(t) == NewCrt(t, 1)
FDAPI_open_osfhandle(t) == NewCrt(t, 1)
FDAPI_pipe(t) == NewCrt(t, 2)
AddCrtFD(t) ==
  LET c == Head(th[t].c)  r == AddedCrtFD(m, c) IN
  /\ At(t, "addCrtFD")
  /\ m' = addCrtFD(m, c)
  /\ table' = IF r = INVALID_FD THEN table ELSE Put(table, r, crt[c])
  /\ lost' = IF r = INVALID_FD THEN lost \cup {crt[c]} ELSE lost
  /\ th' = [th EXCEPT ![t] = IF Len(th[t].c) = 1 THEN Idle ELSE [th[t] EXCEPT !.c = Tail(th[t].c)]]
  /\ UNCHANGED <<sock, crt, streams, port, st, io, sockets, files>>

(* A FILE has a CRT descriptor that the map learns of only from fileno. *)
fopen(t) ==
  /\ At(t, "idle") /\ Room(1) /\ FreeCrt # {}
  /\ LET c == Min(FreeCrt) IN
     /\ crt' = [crt EXCEPT ![c] = File(files + 1)] /\ streams' = streams \cup {c}
  /\ files' = files + 1
  /\ UNCHANGED <<m, sock, port, st, io, th, table, sockets, lost>>
FDAPI_fileno(t) ==
  /\ At(t, "idle")
  /\ \E c \in streams :
        /\ m' = addCrtFD(m, c)
        /\ table' = IF AddedCrtFD(m, c) = INVALID_FD THEN table ELSE Put(table, AddedCrtFD(m, c), crt[c])
  /\ UNCHANGED <<sock, crt, streams, port, st, io, th, sockets, files, lost>>
FDAPI_fclose(t) ==
  \E c \in streams :
     /\ c \in DOMAIN m.CrtFDToRFD => ~Busy(m.CrtFDToRFD[c])
     /\ m' = removeCrtFD(m, c) /\ streams' = streams \ {c}
     /\ table' = IF c \in DOMAIN m.CrtFDToRFD THEN Erase(table, m.CrtFDToRFD[c]) ELSE table
     /\ Start(t, "crt_close", -1, INVALID_SOCKET, <<c>>)
     /\ UNCHANGED <<sock, crt, port, st, io, sockets, files, lost>>

-----------------------------------------------------------------------------
(* A bug: a pending send is overlooked. *)
ClosableWithSends(s) == s.masks \cap {"READ_QUEUED", "CONNECT_PENDING"} = {}

(* WSIOCP_CloseSocketState: the block is freed unless a read, a connect or a *)
(* send is under way; a pending accept does not count.                       *)
Closable(s) == s.wreqs = 0 /\ s.masks \cap {"READ_QUEUED", "CONNECT_PENDING"} = {}
Marked(s) == [s EXCEPT !.masks = (@ \ {"SOCKET_ATTACHED"}) \cup {"CLOSE_PENDING"}]
WSIOCP_CloseSocketState(states, n) == [states EXCEPT ![n] = IF Closable(@) THEN NoState ELSE Marked(@)]

(* What a descriptor means now, through the map and Windows. *)
Means(r) == IF lookupSocket(m, r) # INVALID_SOCKET THEN sock[lookupSocket(m, r)]
            ELSE IF lookupCrtFD(m, r) # INVALID_FD THEN crt[lookupCrtFD(m, r)] ELSE 0

(* FDAPI_close on a socket: the entry is marked, the state closed and the    *)
(* RFD recycled, the socket forgotten, and only then closed, so that Windows *)
(* cannot hand out its value while the map still knows it.  Sockets accepted *)
(* and not yet taken go with the state that lists them.                      *)
FDAPI_close(t) ==
  \E r \in Usable(t) :
     /\ r \in DOMAIN m.RFDToSocketInfo /\ lookupSocket(m, r) # INVALID_SOCKET
     /\ m' = [m EXCEPT !.RFDToSocketInfo[r].socket = INVALID_SOCKET]
     /\ table' = Erase(table, r)
     /\ Start(t, "closeState", r, lookupSocket(m, r), <<>>)
     /\ UNCHANGED <<sock, crt, streams, port, st, io, sockets, files, lost>>
CloseState(t) ==
  LET r == th[t].rfd  n == StateAt(r) IN
  /\ At(t, "closeState")
  /\ st' = IF n = 0 THEN st ELSE WSIOCP_CloseSocketState(st, n)
  /\ m' = IF n = 0 \/ Closable(st[n]) THEN removeRFDToSocketInfo(m, r) ELSE m
  /\ lost' = lost \cup IF n # 0 /\ Closable(st[n]) THEN {Means(a) : a \in Range(st[n].reqs)} ELSE {}
  /\ th' = [th EXCEPT ![t].pc = "removeSocket", ![t].rfd = -1]
  /\ UNCHANGED <<sock, crt, streams, port, io, table, sockets, files>>
(* A bug: the socket is closed before the map forgets it. *)
RemoveSocketLate(t) ==
  \/ /\ At(t, "removeSocket")
     /\ sock' = [sock EXCEPT ![th[t].h] = 0] /\ port' = [port EXCEPT ![th[t].h] = -1]
     /\ Go(t, "forget") /\ UNCHANGED <<m, crt, streams, st, io, table, sockets, files, lost>>
  \/ /\ At(t, "forget")
     /\ m' = removeSocketToRFD(m, th[t].h) /\ Return(t)
     /\ UNCHANGED <<sock, crt, streams, port, st, io, table, sockets, files, lost>>
RemoveSocket(t) ==
  /\ At(t, "removeSocket")
  /\ m' = removeSocketToRFD(m, th[t].h)
  /\ Go(t, "closesocket")
  /\ UNCHANGED <<sock, crt, streams, port, st, io, table, sockets, files, lost>>
(* closesocket cancels what is under way: it completes as aborted. *)
CloseSocket(t) ==
  /\ At(t, "closesocket")
  /\ sock' = [sock EXCEPT ![th[t].h] = 0] /\ port' = [port EXCEPT ![th[t].h] = -1]
  /\ Return(t)
  /\ UNCHANGED <<m, crt, streams, st, io, table, sockets, files, lost>>
(* FDAPI_CloseDuplicatedSocket, for sockets without a state. *)
FDAPI_CloseDuplicatedSocket(t) ==
  \E r \in Usable(t) :
     /\ lookupSocket(m, r) # INVALID_SOCKET /\ StateAt(r) = 0
     /\ m' = removeRFDToSocketInfo(m, r) /\ table' = Erase(table, r)
     /\ Start(t, "removeSocket", -1, lookupSocket(m, r), <<>>)
     /\ UNCHANGED <<sock, crt, streams, port, st, io, sockets, files, lost>>

(* FDAPI_close on a CRT descriptor; nobody closes the standard ones. *)
CloseCrtFD(t) ==
  \E r \in Usable(t) :
     LET c == lookupCrtFD(m, r) IN
     /\ r \notin DOMAIN m.RFDToSocketInfo /\ c > LAST_RESERVED_RFD_INDEX /\ c \notin streams
     /\ m' = removeCrtFD(m, c) /\ table' = Erase(table, r)
     /\ Start(t, "crt_close", -1, INVALID_SOCKET, <<c>>)
     /\ UNCHANGED <<sock, crt, streams, port, st, io, sockets, files, lost>>
CrtClose(t) ==
  /\ At(t, "crt_close")
  /\ crt' = [crt EXCEPT ![Head(th[t].c)] = 0]
  /\ Return(t)
  /\ UNCHANGED <<m, sock, streams, port, st, io, table, sockets, files, lost>>

-----------------------------------------------------------------------------
(* The calls that only use a descriptor.  Each looks its number up in one or *)
(* both tables and passes what it found to Windows; a number that is in no   *)
(* table gives the result named here, which is not always an error.          *)
Bad(result) == [h |-> INVALID_SOCKET, c |-> <<>>, result |-> result]
OnSocket(r, bad) == IF lookupSocket(m, r) # INVALID_SOCKET
                    THEN [h |-> lookupSocket(m, r), c |-> <<>>, result |-> 0] ELSE bad
OnCrt(r, bad) == IF lookupCrtFD(m, r) # INVALID_FD
                 THEN [h |-> INVALID_SOCKET, c |-> <<lookupCrtFD(m, r)>>, result |-> 0] ELSE bad
FDAPI_WSAGetOverlappedResult(r) == OnSocket(r, Bad(-1))
FDAPI_WSADuplicateSocket(r) == OnSocket(r, Bad(-1))
FDAPI_WSAIoctl(r) == OnSocket(r, Bad(-1))
FDAPI_setsockopt(r) == OnSocket(r, Bad(-1))
FDAPI_getsockopt(r) == OnSocket(r, Bad(-1))
FDAPI_connect(r) == OnSocket(r, Bad(-1))
FDAPI_listen(r) == OnSocket(r, Bad(-1))
FDAPI_bind(r) == OnSocket(r, Bad(0))
FDAPI_getpeername(r) == OnSocket(r, Bad(-1))
FDAPI_getsockname(r) == OnSocket(r, Bad(-1))
FDAPI_fcntl(r) == OnSocket(r, Bad(-1))
FDAPI_poll(r) == OnSocket(r, Bad(0))
FDAPI_select(r) == OnSocket(r, Bad(-1))
FDAPI_read(r) == OnSocket(r, OnCrt(r, Bad(0)))
FDAPI_write(r) == OnSocket(r, OnCrt(r, Bad(0)))
FDAPI_fsync(r) == OnCrt(r, Bad(0))
FDAPI_fstat64(r) == OnCrt(r, Bad(-1))
FDAPI_ftruncate(r) == OnCrt(r, Bad(-1))
FDAPI_isatty(r) == OnCrt(r, Bad(-1))
FDAPI_lseek64(r) == OnCrt(r, Bad(-1))
FDAPI_get_osfhandle(r) == OnCrt(r, Bad(-1))
FDAPI_PipeSetNonBlock(r) == OnCrt(r, Bad(-1))
IsSocket(r) == r \in DOMAIN m.RFDToSocketInfo
Calls(r) ==
  IF IsSocket(r)
  THEN {FDAPI_WSAGetOverlappedResult(r), FDAPI_WSADuplicateSocket(r), FDAPI_WSAIoctl(r), FDAPI_setsockopt(r),
        FDAPI_getsockopt(r), FDAPI_connect(r), FDAPI_listen(r), FDAPI_bind(r), FDAPI_getpeername(r),
        FDAPI_getsockname(r), FDAPI_fcntl(r), FDAPI_poll(r), FDAPI_select(r), FDAPI_read(r), FDAPI_write(r)}
  ELSE {FDAPI_fsync(r), FDAPI_fstat64(r), FDAPI_ftruncate(r), FDAPI_isatty(r), FDAPI_lseek64(r),
        FDAPI_get_osfhandle(r), FDAPI_PipeSetNonBlock(r), FDAPI_read(r), FDAPI_write(r)}
(* The lookup leaves the critical section before Windows is called. *)
Call(t) ==
  \E r \in Usable(t) \ (3 .. 5) : \E x \in Calls(r) :
     /\ x.h # INVALID_SOCKET \/ x.c # <<>>
     /\ Start(t, "windows", r, x.h, x.c)
     /\ UNCHANGED <<m, sock, crt, streams, port, st, io, table, sockets, files, lost>>
CallReturns(t) ==
  /\ At(t, "windows") /\ Return(t)
  /\ UNCHANGED <<m, sock, crt, streams, port, st, io, table, sockets, files, lost>>

-----------------------------------------------------------------------------
(* The completion-port functions work on the world w, the variables they     *)
(* change as a record.                                                       *)
World == [m |-> m, sock |-> sock, port |-> port, st |-> st, io |-> io, sockets |-> sockets, lost |-> lost]
Become(w) == /\ m' = w.m /\ sock' = w.sock /\ port' = w.port /\ st' = w.st /\ io' = w.io
             /\ sockets' = w.sockets /\ lost' = w.lost /\ UNCHANGED <<crt, streams, files>>
FDAPI_GetSocketStatePtr(w, r) == w.m.RFDToSocketInfo[r].state
StateIn(w, r) == FDAPI_GetSocketStatePtr(w, r)
HandleIn(w, r) == lookupSocket(w.m, r)
FreeStates(w) == {n \in 1 .. NStates : w.st[n] = NoState}
SetMasks(w, r, masks) == [w EXCEPT !.st[StateIn(w, r)].masks = masks]
MasksIn(w, r) == w.st[StateIn(w, r)].masks

(* WSIOCP_GetSocketState: the state is created at its first use. *)
WSIOCP_GetSocketState(w, r) ==
  IF StateIn(w, r) # 0 THEN w
  ELSE LET n == Min(FreeStates(w)) IN
       [w EXCEPT !.m.RFDToSocketInfo[r].state = n,
                 !.st[n] = [fd |-> r, masks |-> {}, reqs |-> <<>>, wreqs |-> 0]]

(* WSIOCP_SocketAttach: a socket joins a completion port once, with its RFD  *)
(* as the key.                                                               *)
FDAPI_SocketAttachIOCP(w, r) == w.port[HandleIn(w, r)] = -1
WSIOCP_SocketAttach(w, r) ==
  [w EXCEPT !.port[HandleIn(w, r)] = r,
            !.st[StateIn(w, r)].masks = {"SOCKET_ATTACHED"}, !.st[StateIn(w, r)].wreqs = 0]

(* An overlapped call on r: it completes with the key of the socket. *)
Issue(w, r, kind, acc) ==
  LET Op(i) == [key |-> w.port[HandleIn(w, r)], st |-> StateIn(w, r), kind |-> kind, acc |-> acc, i |-> i]
      i == CHOOSE i \in 0 .. Cardinality(w.io) : Op(i) \notin w.io
  IN  [w EXCEPT !.io = @ \cup {Op(i)}]
FDAPI_AcceptEx(w, l, acc) == Issue(w, l, "accept", acc)
FDAPI_ConnectEx(w, r) == Issue(w, r, "connect", -1)
FDAPI_WSARecv(w, r) == Issue(w, r, "read", -1)
FDAPI_WSASend(w, r) == Issue(w, r, "send", -1)

(* FDAPI_close as the loop thread runs it inside QueueAccept. *)
CloseInside(w, r) ==
  LET h == HandleIn(w, r)  n == StateIn(w, r)
      closed == [w EXCEPT !.m.RFDToSocketInfo[r].socket = INVALID_SOCKET,
                          !.st = WSIOCP_CloseSocketState(w.st, n), !.sock[h] = 0, !.port[h] = -1]
      tables == IF Closable(w.st[n]) THEN removeRFDToSocketInfo(closed.m, r) ELSE closed.m
  IN  [closed EXCEPT !.m = removeSocketToRFD(tables, h)]

(* WSIOCP_QueueAccept: a socket for the next client, handed to AcceptEx.     *)
(* The pairs are the outcome and the result: no descriptor, an AcceptEx that *)
(* fails, an accept under way.                                               *)
AcceptOn(w, l, h) ==
  LET made == [w EXCEPT !.sock[h] = w.sockets + 1, !.sockets = @ + 1, !.m = addSocket(w.m, h)]
      acc  == AddedSocket(w.m, h)
      ready == SetMasks(WSIOCP_GetSocketState(made, acc), acc, {"SOCKET_ATTACHED"})
      empty == SetMasks(SetMasks(ready, l, MasksIn(ready, l) \ {"ACCEPT_PENDING"}), acc, {})
  IN  IF acc = INVALID_FD THEN {<<[made EXCEPT !.lost = @ \cup {w.sockets + 1}], FALSE>>}
      ELSE {<<CloseInside(empty, acc), FALSE>>,
            <<SetMasks(FDAPI_AcceptEx(ready, l, acc), l, MasksIn(ready, l) \cup {"ACCEPT_PENDING"}), TRUE>>}
WSIOCP_QueueAccept(w0, l) ==
  LET w == WSIOCP_GetSocketState(w0, l) IN UNION {AcceptOn(w, l, h) : h \in {h \in Handles : w.sock[h] = 0}}

InLoop(r) == At(Loop, "idle") /\ r \in Usable(Loop) /\ IsSocket(r) /\ FreeStates(World) # {}
(* Callers listen and connect on a socket they have just made. *)
NewlyMade(r) == StateAt(r) # 0 => st[StateAt(r)].masks = {}
RoomToAccept == sockets < MaxSockets /\ Cardinality(FreeStates(World)) >= 2

(* WSIOCP_Listen: attach, listen, queue the first accept.  It fails where    *)
(* the attach does, where listen does, and where no accept can be queued.    *)
WSIOCP_Listen ==
  \E r \in DOMAIN table :
     /\ InLoop(r) /\ RoomToAccept /\ NewlyMade(r)
     /\ LET w == WSIOCP_GetSocketState(World, r)
            up == WSIOCP_SocketAttach(w, r)
            ears == SetMasks(up, r, MasksIn(up, r) \cup {"LISTEN_SOCK"})
        IN  \E done \in {w} \cup IF FDAPI_SocketAttachIOCP(w, r) THEN {ears} \cup {x[1] : x \in WSIOCP_QueueAccept(ears, r)} ELSE {} :
               Become(done)
     /\ UNCHANGED <<th, table>>

(* WSIOCP_Accept: the accepted socket is given to the caller after it is     *)
(* attached and another accept is queued.  When Windows refuses its context  *)
(* or no accept can be queued, the caller gets an error and the socket is    *)
(* lost; a failed attach goes unnoticed.                                     *)
WSIOCP_Accept ==
  \E r \in DOMAIN table :
     /\ InLoop(r) /\ RoomToAccept
     /\ StateAt(r) # 0 /\ st[StateAt(r)].reqs # <<>>
     /\ LET acc == Head(st[StateAt(r)].reqs)
            obj == sock[lookupSocket(m, acc)]
            w == [World EXCEPT !.st[StateAt(r)].reqs = Tail(@)]
            bad == [w EXCEPT !.lost = @ \cup {obj}]
            attached == WSIOCP_SocketAttach(w, acc)
        IN  \/ Become(bad) /\ UNCHANGED table
            \/ \E a \in {attached, w} : \E x \in WSIOCP_QueueAccept(a, r) :
                  IF x[2] THEN Become(x[1]) /\ table' = Put(table, acc, obj)
                          ELSE Become([x[1] EXCEPT !.lost = @ \cup {obj}]) /\ UNCHANGED table
     /\ UNCHANGED th

(* WSIOCP_QueueNextRead, called after a read: an overlapped read of length   *)
(* zero tells when there is more.                                            *)
WSIOCP_QueueNextRead ==
  \E r \in DOMAIN table :
     /\ InLoop(r)
     /\ LET w == WSIOCP_GetSocketState(World, r)  masks == MasksIn(w, r) IN
        /\ masks \cap {"READ_QUEUED", "CONNECT_PENDING", "LISTEN_SOCK"} = {}
        /\ \E done \in {w} \cup IF "SOCKET_ATTACHED" \in masks
                               THEN {SetMasks(FDAPI_WSARecv(w, r), r, masks \cup {"READ_QUEUED"})} ELSE {} :
              Become(done)
     /\ UNCHANGED <<th, table>>

(* WSIOCP_SocketSend: overlapped on an attached socket, else a plain write. *)
WSIOCP_SocketSend ==
  \E r \in DOMAIN table :
     /\ InLoop(r)
     /\ LET w == WSIOCP_GetSocketState(World, r)  n == StateIn(w, r)  async == FDAPI_WSASend(w, r) IN
        /\ w.st[n].wreqs < MaxSends /\ "LISTEN_SOCK" \notin MasksIn(w, r)
        /\ \E done \in {w} \cup IF "SOCKET_ATTACHED" \in MasksIn(w, r) THEN {[async EXCEPT !.st[n].wreqs = @ + 1]} ELSE {} :
              Become(done)
     /\ UNCHANGED <<th, table>>

(* WSIOCP_SocketConnect: attach and ConnectEx.  When Windows leaves it       *)
(* pending the state is marked; when it finishes at once nothing is marked,  *)
(* and its completion still comes.                                           *)
ConnectOverlapped ==
  \E r \in DOMAIN table :
     /\ InLoop(r) /\ NewlyMade(r)
     /\ LET w == WSIOCP_GetSocketState(World, r)
            up == WSIOCP_SocketAttach(w, r)
            issued == FDAPI_ConnectEx(up, r)
            pending == SetMasks(issued, r, MasksIn(up, r) \cup {"CONNECT_PENDING"})
        IN  \/ Become(w)
            \/ /\ FDAPI_SocketAttachIOCP(w, r)
               /\ Become(up) \/ Become(pending) \/ (StateIn(up, r) \in Early /\ Become(issued))
     /\ UNCHANGED <<th, table>>

WSIOCP_SocketConnect == ConnectOverlapped
WSIOCP_SocketConnectBind == ConnectOverlapped

(* The event loop takes a completion off the port.  The key is an RFD: what  *)
(* the map says of it now decides what the completion is applied to.  Reads  *)
(* and connects share ov_read: only the marks of the state tell them apart.  *)
Orphaned(o) == IF o.kind = "accept" THEN {sock[lookupSocket(m, o.acc)]} ELSE {}
Settled(s, o) ==
  IF o.kind = "send" THEN [s EXCEPT !.wreqs = @ - 1]
  ELSE [s EXCEPT !.masks = @ \ {IF "CONNECT_PENDING" \in @ THEN "CONNECT_PENDING" ELSE "READ_QUEUED"}]
Queued(s, acc) == [s EXCEPT !.reqs = <<acc>> \o @, !.masks = @ \ {"ACCEPT_PENDING"}]
FDAPI_ClearSocketInfo(tables, r) ==
  IF tables.RFDToSocketInfo[r].socket = INVALID_SOCKET THEN removeRFDToSocketInfo(tables, r) ELSE tables
Complete(o) ==
  LET r == o.key  n == StateAt(r)  s == st[n]  mine == o.kind # "accept" /\ o.st = n  after == Settled(s, o) IN
  /\ At(Loop, "idle") /\ o \in io /\ r # -1 /\ io' = io \ {o}
  /\ IF n = 0 THEN lost' = lost \cup Orphaned(o) /\ UNCHANGED <<m, st>>
     ELSE IF o.kind = "accept" /\ "LISTEN_SOCK" \in s.masks /\ "CLOSE_PENDING" \notin s.masks
     THEN /\ st' = [st EXCEPT ![n] = Queued(s, o.acc)]
          /\ UNCHANGED <<m, lost>>
     ELSE IF mine /\ "CLOSE_PENDING" \in s.masks /\ Closable(after)
     THEN /\ st' = WSIOCP_CloseSocketState([st EXCEPT ![n] = after], n)
          /\ m' = FDAPI_ClearSocketInfo(m, r) /\ UNCHANGED lost
     ELSE /\ st' = IF mine THEN [st EXCEPT ![n] = after] ELSE st
          /\ lost' = lost \cup Orphaned(o) /\ UNCHANGED m
  /\ UNCHANGED <<sock, crt, streams, port, th, table, sockets, files>>
Completion == \E o \in io : Complete(o)

-----------------------------------------------------------------------------
Sockets(t) ==
  \/ FDAPI_socket(t) \/ FDAPI_WSASocket(t) \/ FDAPI_accept(t) \/ AddSocket(t)
  \/ FDAPI_close(t) \/ CloseState(t) \/ RemoveSocket(t) \/ CloseSocket(t)
  \/ FDAPI_CloseDuplicatedSocket(t)
Files(t) ==
  \/ FDAPI_open(t) \/ FDAPI_open_osfhandle(t) \/ FDAPI_pipe(t) \/ AddCrtFD(t)
  \/ fopen(t) \/ FDAPI_fileno(t) \/ FDAPI_fclose(t) \/ CloseCrtFD(t) \/ CrtClose(t)
(* The loop thread keeps to the sockets. *)
Worker(t) == t # Loop /\ (Files(t) \/ Call(t) \/ CallReturns(t))
WSIOCP == WSIOCP_Listen \/ WSIOCP_Accept \/ WSIOCP_QueueNextRead \/ WSIOCP_SocketSend
          \/ WSIOCP_SocketConnect \/ WSIOCP_SocketConnectBind
Next == (\E t \in Threads : Sockets(t) \/ Worker(t)) \/ WSIOCP \/ Completion
Spec == Init /\ [][Next]_vars

-----------------------------------------------------------------------------
(* A descriptor handed out and not closed means the object it was opened     *)
(* for, however its number, the socket value or the CRT descriptor were      *)
(* reused before; and a call that has looked its descriptor up still finds   *)
(* that object when it reaches Windows.                                      *)
Denotes ==
  /\ \A r \in DOMAIN table : Means(r) = table[r]
  /\ \A t \in Threads : At(t, "windows") =>
        table[th[t].rfd] = IF th[t].c = <<>> THEN sock[th[t].h] ELSE crt[Head(th[t].c)]

Held ==
  {table[r] : r \in DOMAIN table} \cup lost
  \cup UNION {{sock[th[t].h]} : t \in {t \in Threads : th[t].h # INVALID_SOCKET}}
  \cup UNION {{crt[c] : c \in Range(th[t].c)} : t \in Threads}
  \cup {crt[c] : c \in streams}
  \cup {Means(o.acc) : o \in {o \in io : o.kind = "accept"}}
  \cup UNION {{Means(a) : a \in Range(st[n].reqs)} : n \in {n \in 1 .. NStates : st[n] # NoState}}

(* Every socket and file that is open can still be closed by someone: a      *)
(* descriptor of the callers means it, a call is opening or closing it, a    *)
(* FILE owns it or an accept holds it.  The only others are the ones lost    *)
(* when the descriptors run out, an accept fails half-way or the listener is *)
(* closed before its clients are taken.                                      *)
NothingElseLost ==
  /\ \A h \in Handles : sock[h] # 0 => sock[h] \in Held
  /\ \A c \in 0 .. MaxCrt : crt[c] # 0 => crt[c] \in Held

On(n, kind) == {o \in io : o.st = n /\ o.kind = kind}

(* The operations the marks and counts of a state account for. *)
Counted(o) == o.kind = "send" \/ (o.kind # "accept" /\ o.st \notin Early)

(* A socket state lives as long as an operation can complete on it: the     *)
(* marks and counts of a state are those of the operations under way, and a  *)
(* completion finds under its key the state it was issued on, never the      *)
(* state of a socket that got the number later.  A descriptor that is closed *)
(* but not free yet always has a completion to come that will free it, or    *)
(* one that never comes because its socket did not join the port.  Two kinds *)
(* of operation escape CloseSocketState: a pending accept, and the reads and *)
(* connects of a state whose ConnectEx finished at once, which sets no mark  *)
(* though its completion comes.                                              *)
PendingMatches ==
  /\ \A n \in 1 .. NStates : st[n] # NoState =>
        /\ StateAt(st[n].fd) = n
        /\ st[n].wreqs = Cardinality(On(n, "send"))
        /\ n \notin Early => /\ "READ_QUEUED" \in st[n].masks <=> On(n, "read") # {}
                            /\ "CONNECT_PENDING" \in st[n].masks <=> On(n, "connect") # {}
  /\ \A o \in io : Counted(o) => st[o.st] # NoState /\ (o.key # -1 => StateAt(o.key) = o.st)
  /\ \A r \in DOMAIN m.RFDToSocketInfo :
        lookupSocket(m, r) = INVALID_SOCKET /\ ~Busy(r) =>
           StateAt(r) \in Early \/ \E o \in io : o.st = StateAt(r) /\ o.kind # "accept"
=============================================================================
