------------------------------- MODULE RfdMap -------------------------------
(* RFDMap of win32_rfdmap.cpp: the tables between Windows sockets, CRT file  *)
(* descriptors and Redis file descriptors (RFDs).  Every operation runs      *)
(* inside the critical section of the map, so each is one operator on the    *)
(* record m of the tables.                                                   *)
EXTENDS Integers, Sequences, Functions

CONSTANTS INT_MAX,         \* next_available_rfd stops here
          INVALID_SOCKET   \* no handle

ASSUME RfdAssumption == INT_MAX \in Nat /\ INT_MAX > 5

INVALID_FD == -1
LAST_RESERVED_RFD_INDEX == 2
EmptyMap == [x \in {} |-> 0]
Put(f, x, v) == [y \in DOMAIN f \cup {x} |-> IF y = x THEN v ELSE f[y]]
Erase(f, x) == Restrict(f, DOMAIN f \ {x})

-----------------------------------------------------------------------------
(* getNextRFDAvailable: the oldest recycled RFD, else a new one. *)
NextRFD(m) == IF m.pool # <<>> THEN Head(m.pool) ELSE IF m.next < INT_MAX THEN m.next ELSE INVALID_FD
getNextRFDAvailable(m) ==
  IF m.pool # <<>> THEN [m EXCEPT !.pool = Tail(@)]
  ELSE IF m.next < INT_MAX THEN [m EXCEPT !.next = @ + 1] ELSE m

(* addSocket: INVALID_FD when the socket is already known. *)
AddedSocket(m, s) == IF s \in DOMAIN m.SocketToRFD THEN INVALID_FD ELSE NextRFD(m)
addSocket(m, s) ==
  IF AddedSocket(m, s) = INVALID_FD THEN m
  ELSE [getNextRFDAvailable(m) EXCEPT
          !.SocketToRFD = Put(@, s, NextRFD(m)),
          !.RFDToSocketInfo = Put(@, NextRFD(m), [socket |-> s, state |-> 0])]

removeSocketToRFD(m, s) == [m EXCEPT !.SocketToRFD = Erase(@, s)]
removeRFDToSocketInfo(m, rfd) == [m EXCEPT !.RFDToSocketInfo = Erase(@, rfd), !.pool = Append(@, rfd)]

(* addCrtFD: the RFD already given when the CRT descriptor is known. *)
AddedCrtFD(m, c) == IF c \in DOMAIN m.CrtFDToRFD THEN m.CrtFDToRFD[c] ELSE NextRFD(m)
addCrtFD(m, c) ==
  IF c \in DOMAIN m.CrtFDToRFD \/ NextRFD(m) = INVALID_FD THEN m
  ELSE [getNextRFDAvailable(m) EXCEPT !.CrtFDToRFD = Put(@, c, NextRFD(m)),
                                      !.RFDToCrtFD = Put(@, NextRFD(m), c)]

(* A bug: the CRT descriptor stays in its table. *)
RemoveCrtFDOneWay(m, c) ==
  IF c > LAST_RESERVED_RFD_INDEX /\ c \in DOMAIN m.CrtFDToRFD
  THEN [m EXCEPT !.pool = Append(@, m.CrtFDToRFD[c]), !.RFDToCrtFD = Erase(@, m.CrtFDToRFD[c])]
  ELSE m

(* removeCrtFD: stdin, stdout and stderr are never removed. *)
removeCrtFD(m, c) ==
  IF c > LAST_RESERVED_RFD_INDEX /\ c \in DOMAIN m.CrtFDToRFD
  THEN [m EXCEPT !.pool = Append(@, m.CrtFDToRFD[c]), !.RFDToCrtFD = Erase(@, m.CrtFDToRFD[c]),
                 !.CrtFDToRFD = Erase(@, c)]
  ELSE m

lookupSocket(m, rfd) == IF rfd \in DOMAIN m.RFDToSocketInfo THEN m.RFDToSocketInfo[rfd].socket ELSE INVALID_SOCKET
lookupCrtFD(m, rfd) == IF rfd \in DOMAIN m.RFDToCrtFD THEN m.RFDToCrtFD[rfd]
                       ELSE IF rfd \in 0 .. LAST_RESERVED_RFD_INDEX THEN rfd ELSE INVALID_FD

(* The constructor: the three standard descriptors are added like any other, *)
(* and so get the RFDs 3, 4 and 5.                                           *)
RFDMapInit ==
  LET empty == [SocketToRFD |-> EmptyMap, CrtFDToRFD |-> EmptyMap, RFDToSocketInfo |-> EmptyMap,
                RFDToCrtFD |-> EmptyMap, pool |-> <<>>, next |-> LAST_RESERVED_RFD_INDEX + 1]
  IN  addCrtFD(addCrtFD(addCrtFD(empty, 0), 1), 2)
=============================================================================
