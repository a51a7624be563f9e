----------------------------- MODULE FdApiProofs -----------------------------
(* Proofs about the descriptor layer.  The invariant IInv says how the      *)
(* tables of the map, the handles and CRT descriptors of Windows, the state  *)
(* blocks, the operations under way and the calls of the threads fit         *)
(* together.  Every action has a lemma (<action>Types) that it keeps IInv;   *)
(* the lemmas before them say what each operator of the map and each         *)
(* completion-port function does to the parts of IInv it can disturb.        *)
(* A second invariant, PInv, says what the marks and counts of a block have  *)
(* to do with the operations under way; its lemmas are <action>Pending.      *)
EXTENDS FdApi, FiniteSetTheorems, SequenceTheorems, NaturalsInduction, WellFoundedInduction, TLAPS

-----------------------------------------------------------------------------
(* The parts of the invariant.  Each is an operator on the tables M, the     *)
(* sockets sk, the CRT descriptors ct, the state blocks s, the operations q, *)
(* the descriptors handed out tb and the threads H that it is about.         *)
Infos == [socket : Handles \cup {INVALID_SOCKET}, state : 0 .. NStates]
Masks == {"SOCKET_ATTACHED", "LISTEN_SOCK", "ACCEPT_PENDING", "READ_QUEUED", "CONNECT_PENDING", "CLOSE_PENDING"}
Blocks == [fd : Nat, masks : SUBSET Masks, reqs : Seq(Nat), wreqs : Int]
Operations == [key : Int, st : 1 .. NStates, kind : {"accept", "connect", "read", "send"}, acc : Int, i : Nat]
Places == {"idle", "addSocket", "addCrtFD", "crt_close", "closeState", "removeSocket", "closesocket", "windows"}
IsPlace(p) ==
  /\ p = [pc |-> p.pc, rfd |-> p.rfd, h |-> p.h, c |-> p.c]
  /\ p.pc \in Places /\ p.rfd \in Int /\ p.h \in Handles \cup {INVALID_SOCKET} /\ p.c \in Seq(Int)

IsMap(M) == M = [SocketToRFD |-> M.SocketToRFD, CrtFDToRFD |-> M.CrtFDToRFD, RFDToSocketInfo |-> M.RFDToSocketInfo,
                 RFDToCrtFD |-> M.RFDToCrtFD, pool |-> M.pool, next |-> M.next]
Names(M) == 3 .. M.next - 1
MapTypes(M) ==
  /\ IsMap(M) /\ M.next \in Nat /\ M.next >= 3
  /\ M.pool \in Seq(Nat) /\ \A i \in DOMAIN M.pool : M.pool[i] \in Names(M)
  /\ \A r \in DOMAIN M.RFDToSocketInfo : r \in Names(M) /\ M.RFDToSocketInfo[r] \in Infos
  /\ \A r \in DOMAIN M.RFDToCrtFD : r \in Names(M)
Disjoint(M) ==
  /\ \A r \in DOMAIN M.RFDToSocketInfo : r \notin DOMAIN M.RFDToCrtFD
  /\ \A i \in DOMAIN M.pool : M.pool[i] \notin DOMAIN M.RFDToSocketInfo /\ M.pool[i] \notin DOMAIN M.RFDToCrtFD
  /\ \A i, j \in DOMAIN M.pool : M.pool[i] = M.pool[j] => i = j

Socket(M, r) == M.RFDToSocketInfo[r].socket
State(M, r) == M.RFDToSocketInfo[r].state
Valid(M, r) == r \in DOMAIN M.RFDToSocketInfo /\ Socket(M, r) # INVALID_SOCKET
Holding(p) == p.pc \in {"addSocket", "closeState", "removeSocket", "closesocket"}
Owned(p) == IF p.pc \in {"addCrtFD", "crt_close"} THEN {p.c[i] : i \in DOMAIN p.c} ELSE {}

(* Sockets the map knows are open and known once. *)
Opened(M, sk) ==
  /\ \A r \in DOMAIN M.RFDToSocketInfo : Valid(M, r) => sk[Socket(M, r)] # 0
  /\ \A r, q \in DOMAIN M.RFDToSocketInfo : Valid(M, r) /\ Socket(M, r) = Socket(M, q) => r = q
CrtTables(M, ct) ==
  /\ \A c \in 0 .. 2 : c \in DOMAIN M.CrtFDToRFD
  /\ \A c \in DOMAIN M.CrtFDToRFD :
        /\ c \in 0 .. MaxCrt /\ ct[c] # 0
        /\ M.CrtFDToRFD[c] \in DOMAIN M.RFDToCrtFD /\ M.RFDToCrtFD[M.CrtFDToRFD[c]] = c
  /\ \A r \in DOMAIN M.RFDToCrtFD :
        M.RFDToCrtFD[r] \in DOMAIN M.CrtFDToRFD /\ M.CrtFDToRFD[M.RFDToCrtFD[r]] = r
HandlesHeld(M, sk, H) ==
  \A t \in Threads : Holding(H[t]) =>
     /\ H[t].h \in Handles /\ sk[H[t].h] # 0
     /\ \A r \in DOMAIN M.RFDToSocketInfo : Socket(M, r) # H[t].h
     /\ \A u \in Threads : u # t /\ Holding(H[u]) => H[u].h # H[t].h
CrtHeld(M, ct, str, H) ==
  /\ \A c \in str : c \in 0 .. MaxCrt /\ c > 2 /\ ct[c] # 0
  /\ \A t \in Threads : \A c \in Owned(H[t]) :
        /\ c \in 0 .. MaxCrt /\ ct[c] # 0 /\ c \notin DOMAIN M.CrtFDToRFD /\ c \notin str
        /\ \A u \in Threads : u # t => c \notin Owned(H[u])
  /\ \A t \in Threads : H[t].pc \in {"addCrtFD", "crt_close"} =>
        H[t].c # <<>> /\ \A i, j \in DOMAIN H[t].c : H[t].c[i] = H[t].c[j] => i = j
StatesOwned(M, s) ==
  /\ \A r \in DOMAIN M.RFDToSocketInfo : State(M, r) # 0 =>
        /\ s[State(M, r)] \in Blocks /\ s[State(M, r)].fd = r
        /\ "CLOSE_PENDING" \in s[State(M, r)].masks => Socket(M, r) = INVALID_SOCKET
  /\ \A n \in 1 .. NStates : s[n] # NoState =>
        s[n] \in Blocks /\ s[n].fd \in DOMAIN M.RFDToSocketInfo /\ State(M, s[n].fd) = n
Closings(M, H) ==
  \A t \in Threads : H[t].pc = "closeState" =>
     /\ H[t].rfd \in DOMAIN M.RFDToSocketInfo /\ Socket(M, H[t].rfd) = INVALID_SOCKET
     /\ t # Loop => State(M, H[t].rfd) = 0
     /\ \A u \in Threads : u # t /\ H[u].pc = "closeState" => H[u].rfd # H[t].rfd
Accepts(q) == {o \in q : o.kind = "accept"}
Listed(s, n) == IF s[n] = NoState THEN <<>> ELSE s[n].reqs
Waits(M, s, q, tb) ==
  /\ \A o \in Accepts(q) : Valid(M, o.acc) /\ o.acc \notin DOMAIN tb
  /\ \A o, p \in Accepts(q) : o.acc = p.acc => o = p
  /\ \A n \in 1 .. NStates : \A i \in DOMAIN Listed(s, n) :
        /\ Valid(M, Listed(s, n)[i]) /\ Listed(s, n)[i] \notin DOMAIN tb
        /\ \A o \in Accepts(q) : o.acc # Listed(s, n)[i]
        /\ \A k \in 1 .. NStates : \A j \in DOMAIN Listed(s, k) : Listed(s, k)[j] = Listed(s, n)[i] => n = k /\ i = j
Tables(M, sk, ct, tb) ==
  \A r \in DOMAIN tb :
     \/ Valid(M, r) /\ tb[r] = sk[Socket(M, r)]
     \/ r \in DOMAIN M.RFDToCrtFD /\ tb[r] = ct[M.RFDToCrtFD[r]]
Calling(M, tb, H) ==
  \A t \in Threads : H[t].pc = "windows" =>
     /\ H[t].rfd \in DOMAIN tb
     /\ \/ H[t].c = <<>> /\ Valid(M, H[t].rfd) /\ H[t].h = Socket(M, H[t].rfd)
        \/ H[t].rfd \in DOMAIN M.RFDToCrtFD /\ H[t].c = <<M.RFDToCrtFD[H[t].rfd]>>

WorldTypes(sk, pt, s, q, n) ==
  /\ sk \in [Handles -> Nat] /\ pt \in [Handles -> Int] /\ n \in Nat
  /\ s \in [1 .. NStates -> Blocks \cup {NoState}]
  /\ q \subseteq Operations /\ IsFiniteSet(q)
ThreadTypes(H) ==
  /\ H = [t \in Threads |-> H[t]]
  /\ \A t \in Threads : IsPlace(H[t])

Types == WorldTypes(sock, port, st, io, sockets) /\ ThreadTypes(th)
         /\ crt \in [0 .. MaxCrt -> Nat] /\ files \in Nat
MapGood(M) == MapTypes(M) /\ Disjoint(M)
IInv ==
  /\ Types /\ MapGood(m)
  /\ Opened(m, sock) /\ CrtTables(m, crt)
  /\ HandlesHeld(m, sock, th) /\ CrtHeld(m, crt, streams, th)
  /\ Closings(m, th) /\ Calling(m, table, th)
  /\ StatesOwned(m, st) /\ Waits(m, st, io, table) /\ Tables(m, sock, crt, table)

-----------------------------------------------------------------------------
(* The operators of the map. *)
LEMMA PutIs ==
    ASSUME NEW f, NEW x, NEW v
    PROVE  /\ DOMAIN Put(f, x, v) = DOMAIN f \cup {x} /\ Put(f, x, v)[x] = v
           /\ \A y \in DOMAIN f : y # x => Put(f, x, v)[y] = f[y]
  BY DEF Put

LEMMA EraseIs ==
    ASSUME NEW f, NEW x
    PROVE  /\ DOMAIN Erase(f, x) = DOMAIN f \ {x}
           /\ \A y \in DOMAIN f : y # x => Erase(f, x)[y] = f[y]
  BY DEF Erase, Restrict

LEMMA Appended ==
    ASSUME NEW S, NEW s \in Seq(S), NEW x \in S
    PROVE  /\ Append(s, x) \in Seq(S) /\ DOMAIN Append(s, x) = 1 .. Len(s) + 1 /\ DOMAIN s = 1 .. Len(s) /\ Len(s) \in Nat
           /\ Append(s, x)[Len(s) + 1] = x /\ \A i \in DOMAIN s : Append(s, x)[i] = s[i]
  OBVIOUS

LEMMA Tailed ==
    ASSUME NEW S, NEW s \in Seq(S), s # <<>>
    PROVE  /\ Tail(s) \in Seq(S) /\ DOMAIN Tail(s) = 1 .. Len(s) - 1 /\ DOMAIN s = 1 .. Len(s) /\ Len(s) \in Nat \ {0}
           /\ Head(s) = s[1] /\ Head(s) \in S /\ \A i \in 1 .. Len(s) - 1 : Tail(s)[i] = s[i + 1]
  OBVIOUS

LEMMA MinIn ==
    ASSUME NEW S, S \subseteq Nat, S # {}
    PROVE  Min(S) \in S
<1> DEFINE Less == {ss \in Nat \X Nat : ss[1] < ss[2]}
<1>1. IsWellFoundedOn(Less, Nat)
    BY NatLessThanWellFounded DEF OpToRel
<1>2. \E x \in S : \A y \in S : ~(<<y, x>> \in Less)
  <2> HIDE DEF Less
  <2> QED
    BY <1>1, WFMin, Zenon
<1>3. PICK x \in S : \A y \in S : ~(<<y, x>> \in Less)
    BY <1>2
<1>4. \A y \in S : x <= y
  <2>1. SUFFICES ASSUME NEW y \in S, y < x PROVE FALSE
      OBVIOUS
  <2>2. <<y, x>> \in Nat \X Nat /\ <<y, x>>[1] = y /\ <<y, x>>[2] = x
      OBVIOUS
  <2>3. <<y, x>> \in Less
      BY <2>1, <2>2
  <2>4. QED
      BY <1>3, <2>3
<1>5. QED
    BY <1>3, <1>4, Zenon DEF Min

(* A table with its parts. *)
LEMMA TakesName ==
    ASSUME NEW M, MapTypes(M), Disjoint(M), NextRFD(M) # INVALID_FD
    PROVE  LET G == getNextRFDAvailable(M)  r == NextRFD(M) IN
           /\ MapTypes(G) /\ Disjoint(G)
           /\ G.SocketToRFD = M.SocketToRFD /\ G.RFDToSocketInfo = M.RFDToSocketInfo
           /\ G.CrtFDToRFD = M.CrtFDToRFD /\ G.RFDToCrtFD = M.RFDToCrtFD
           /\ r \in Names(G) /\ r \notin DOMAIN M.RFDToSocketInfo /\ r \notin DOMAIN M.RFDToCrtFD
           /\ \A i \in DOMAIN G.pool : G.pool[i] # r
<1>1. PICK G : G = getNextRFDAvailable(M)
    BY Zenon
<1>2. PICK r : r = NextRFD(M)
    BY Zenon
<1>3. CASE M.pool # <<>>
  <2>1. G = [M EXCEPT !.pool = Tail(@)] /\ r = Head(M.pool)
    BY <1>1, <1>2, <1>3 DEF getNextRFDAvailable, NextRFD
  <2>2. /\ G.SocketToRFD = M.SocketToRFD /\ G.RFDToSocketInfo = M.RFDToSocketInfo
        /\ G.CrtFDToRFD = M.CrtFDToRFD /\ G.RFDToCrtFD = M.RFDToCrtFD /\ G.next = M.next /\ G.pool = Tail(M.pool)
        /\ IsMap(G)
    BY <2>1 DEF MapTypes, IsMap
  <2>3. M.pool \in Seq(Nat) /\ \A i \in DOMAIN M.pool : M.pool[i] \in Names(M)
    BY DEF MapTypes
  <2>4. /\ G.pool \in Seq(Nat) /\ DOMAIN G.pool = 1 .. Len(M.pool) - 1 /\ DOMAIN M.pool = 1 .. Len(M.pool)
        /\ Len(M.pool) \in Nat \ {0} /\ r = M.pool[1] /\ \A i \in 1 .. Len(M.pool) - 1 : G.pool[i] = M.pool[i + 1]
    BY <1>3, <2>1, <2>2, <2>3, Tailed
  <2>5. /\ 1 \in DOMAIN M.pool
        /\ \A i \in DOMAIN G.pool : i \in Nat /\ i + 1 \in DOMAIN M.pool /\ G.pool[i] = M.pool[i + 1] /\ i + 1 # 1
    <3>1. PICK k \in Nat \ {0} : k = Len(M.pool)
      BY <2>4
    <3>2. 1 \in 1 .. k /\ \A i \in 1 .. k - 1 : i \in Nat /\ i + 1 \in 1 .. k /\ i + 1 # 1
      BY <3>1
    <3>3. DOMAIN G.pool = 1 .. k - 1 /\ DOMAIN M.pool = 1 .. k /\ \A i \in 1 .. k - 1 : G.pool[i] = M.pool[i + 1]
      BY <2>4, <3>1, Zenon
    <3>4. QED
      BY <3>2, <3>3, Zenon
  <2>6. Names(G) = Names(M)
    BY <2>2 DEF Names
  <2>7. MapTypes(G)
    BY <2>2, <2>3, <2>4, <2>5, <2>6 DEF MapTypes
  <2>8. /\ \A i \in DOMAIN M.pool : M.pool[i] \notin DOMAIN M.RFDToSocketInfo /\ M.pool[i] \notin DOMAIN M.RFDToCrtFD
        /\ \A i, j \in DOMAIN M.pool : M.pool[i] = M.pool[j] => i = j
    BY DEF Disjoint
  <2>9. Disjoint(G)
    <3>1. \A i, j \in DOMAIN G.pool : G.pool[i] = G.pool[j] => i = j
      <4>1. \A i, j \in DOMAIN G.pool : G.pool[i] = G.pool[j] => i + 1 = j + 1
        BY <2>5, <2>8
      <4>2. \A i, j \in Nat : i + 1 = j + 1 => i = j
        OBVIOUS
      <4>3. QED
        BY <2>5, <4>1, <4>2, Zenon
    <3>2. QED
      BY <2>2, <2>5, <2>8, <3>1 DEF Disjoint
  <2>10. QED
    BY <1>1, <1>2, <2>2, <2>3, <2>4, <2>5, <2>6, <2>7, <2>8, <2>9
<1>4. CASE M.pool = <<>>
  <2>1. G = [M EXCEPT !.next = @ + 1] /\ r = M.next
    BY <1>1, <1>2, <1>4 DEF getNextRFDAvailable, NextRFD
  <2>2. /\ G.SocketToRFD = M.SocketToRFD /\ G.RFDToSocketInfo = M.RFDToSocketInfo
        /\ G.CrtFDToRFD = M.CrtFDToRFD /\ G.RFDToCrtFD = M.RFDToCrtFD /\ G.next = M.next + 1 /\ G.pool = <<>>
        /\ IsMap(G)
    BY <1>4, <2>1 DEF MapTypes, IsMap
  <2>3. /\ M.next \in Nat /\ M.next >= 3 /\ (\A x \in Names(M) : x \in Names(G)) /\ r \in Names(G) /\ r \notin Names(M)
    BY <2>1, <2>2 DEF MapTypes, Names
  <2>4. MapTypes(G)
    BY <2>2, <2>3 DEF MapTypes
  <2>5. Disjoint(G) /\ \A i \in DOMAIN G.pool : G.pool[i] # r
    BY <2>2 DEF Disjoint
  <2>6. r \notin DOMAIN M.RFDToSocketInfo /\ r \notin DOMAIN M.RFDToCrtFD
    BY <2>3 DEF MapTypes
  <2>7. QED
    BY <1>1, <1>2, <2>2, <2>3, <2>4, <2>5, <2>6
<1>5. QED
    BY <1>3, <1>4

SameCrts(M, G) == G.CrtFDToRFD = M.CrtFDToRFD /\ G.RFDToCrtFD = M.RFDToCrtFD
SameInfos(M, G) == G.RFDToSocketInfo = M.RFDToSocketInfo
GainsInfo(M, G, r, v) ==
  /\ DOMAIN G.RFDToSocketInfo = DOMAIN M.RFDToSocketInfo \cup {r} /\ r \notin DOMAIN M.RFDToSocketInfo
  /\ r \notin DOMAIN M.RFDToCrtFD
  /\ G.RFDToSocketInfo[r] = v
  /\ \A q \in DOMAIN M.RFDToSocketInfo : G.RFDToSocketInfo[q] = M.RFDToSocketInfo[q]
LosesInfo(M, G, r) ==
  /\ DOMAIN G.RFDToSocketInfo = DOMAIN M.RFDToSocketInfo \ {r}
  /\ \A q \in DOMAIN M.RFDToSocketInfo : q # r => G.RFDToSocketInfo[q] = M.RFDToSocketInfo[q]
SetsInfo(M, G, r, v) ==
  /\ DOMAIN G.RFDToSocketInfo = DOMAIN M.RFDToSocketInfo /\ G.RFDToSocketInfo[r] = v
  /\ \A q \in DOMAIN M.RFDToSocketInfo : q # r => G.RFDToSocketInfo[q] = M.RFDToSocketInfo[q]
GainsCrt(M, G, c, r) ==
  /\ DOMAIN G.CrtFDToRFD = DOMAIN M.CrtFDToRFD \cup {c} /\ DOMAIN G.RFDToCrtFD = DOMAIN M.RFDToCrtFD \cup {r}
  /\ c \notin DOMAIN M.CrtFDToRFD /\ r \notin DOMAIN M.RFDToCrtFD /\ r \notin DOMAIN M.RFDToSocketInfo
  /\ G.CrtFDToRFD[c] = r /\ G.RFDToCrtFD[r] = c
  /\ \A d \in DOMAIN M.CrtFDToRFD : G.CrtFDToRFD[d] = M.CrtFDToRFD[d]
  /\ \A q \in DOMAIN M.RFDToCrtFD : G.RFDToCrtFD[q] = M.RFDToCrtFD[q]
LosesCrt(M, G, c) ==
  /\ DOMAIN G.CrtFDToRFD = DOMAIN M.CrtFDToRFD \ {c} /\ DOMAIN G.RFDToCrtFD = DOMAIN M.RFDToCrtFD \ {M.CrtFDToRFD[c]}
  /\ \A d \in DOMAIN M.CrtFDToRFD : d # c => G.CrtFDToRFD[d] = M.CrtFDToRFD[d]
  /\ \A q \in DOMAIN M.RFDToCrtFD : q # M.CrtFDToRFD[c] => G.RFDToCrtFD[q] = M.RFDToCrtFD[q]

LEMMA SocketAdded ==
    ASSUME NEW M, MapGood(M), NEW h \in Handles, AddedSocket(M, h) # INVALID_FD
    PROVE  LET G == addSocket(M, h)  r == AddedSocket(M, h) IN
           /\ MapGood(G) /\ SameCrts(M, G) /\ GainsInfo(M, G, r, [socket |-> h, state |-> 0])
           /\ DOMAIN G.SocketToRFD = DOMAIN M.SocketToRFD \cup {h} /\ h \notin DOMAIN M.SocketToRFD
           /\ r = NextRFD(M) /\ r \in Nat
<1>1. PICK G : G = addSocket(M, h)
    BY Zenon
<1>2. PICK r : r = NextRFD(M)
    BY Zenon
<1>3. PICK F : F = getNextRFDAvailable(M)
    BY Zenon
<1>4. r = AddedSocket(M, h) /\ h \notin DOMAIN M.SocketToRFD /\ r # INVALID_FD
    BY <1>2 DEF AddedSocket
<1>5. G = [F EXCEPT !.SocketToRFD = Put(@, h, r), !.RFDToSocketInfo = Put(@, r, [socket |-> h, state |-> 0])]
    BY <1>1, <1>2, <1>3, <1>4 DEF addSocket, AddedSocket
<1>6. /\ MapTypes(F) /\ Disjoint(F) /\ F.SocketToRFD = M.SocketToRFD /\ F.RFDToSocketInfo = M.RFDToSocketInfo
      /\ F.CrtFDToRFD = M.CrtFDToRFD /\ F.RFDToCrtFD = M.RFDToCrtFD
      /\ r \in Names(F) /\ r \notin DOMAIN M.RFDToSocketInfo /\ r \notin DOMAIN M.RFDToCrtFD
      /\ \A i \in DOMAIN F.pool : F.pool[i] # r
    BY <1>2, <1>3, <1>4, TakesName DEF MapGood
<1>7. PICK v : v = [socket |-> h, state |-> 0]
    BY Zenon
<1>8. v \in Infos
    BY <1>7, FdAssumption DEF Infos
<1>9. PICK I : I = Put(M.RFDToSocketInfo, r, v)
    BY Zenon
<1>10. PICK S : S = Put(M.SocketToRFD, h, r)
    BY Zenon
<1>11. /\ G.SocketToRFD = S /\ G.RFDToSocketInfo = I /\ G.CrtFDToRFD = M.CrtFDToRFD /\ G.RFDToCrtFD = M.RFDToCrtFD
       /\ G.pool = F.pool /\ G.next = F.next /\ IsMap(G)
    BY <1>5, <1>6, <1>7, <1>9, <1>10 DEF MapTypes, IsMap
<1>12. /\ DOMAIN I = DOMAIN M.RFDToSocketInfo \cup {r} /\ I[r] = v
       /\ \A q \in DOMAIN M.RFDToSocketInfo : I[q] = M.RFDToSocketInfo[q]
    BY <1>6, <1>9 DEF Put
<1>13. DOMAIN S = DOMAIN M.SocketToRFD \cup {h}
    BY <1>10, PutIs, Zenon
<1>14. Names(G) = Names(F)
    BY <1>11 DEF Names
<1>15. MapTypes(G)
    BY <1>6, <1>8, <1>11, <1>12, <1>14 DEF MapTypes
<1>16. Disjoint(G)
    BY <1>6, <1>11, <1>12 DEF Disjoint
<1>17. r \in Nat
    BY <1>6 DEF Names, MapTypes
<1>18. SameCrts(M, G) /\ GainsInfo(M, G, r, v)
    BY <1>6, <1>11, <1>12 DEF SameCrts, GainsInfo
<1>19. QED
    BY <1>1, <1>2, <1>4, <1>7, <1>11, <1>13, <1>15, <1>16, <1>17, <1>18 DEF MapGood

LEMMA SocketNotAdded ==
    ASSUME NEW M, NEW h, AddedSocket(M, h) = INVALID_FD
    PROVE  addSocket(M, h) = M
  BY DEF addSocket

LEMMA CrtAdded ==
    ASSUME NEW M, MapGood(M), NEW c, c \notin DOMAIN M.CrtFDToRFD, AddedCrtFD(M, c) # INVALID_FD
    PROVE  LET G == addCrtFD(M, c)  r == AddedCrtFD(M, c) IN
           /\ MapGood(G) /\ SameInfos(M, G) /\ GainsCrt(M, G, c, r) /\ G.SocketToRFD = M.SocketToRFD
           /\ r = NextRFD(M) /\ r \in Nat
<1>1. PICK G : G = addCrtFD(M, c)
    BY Zenon
<1>2. PICK r : r = NextRFD(M)
    BY Zenon
<1>3. PICK F : F = getNextRFDAvailable(M)
    BY Zenon
<1>4. r = AddedCrtFD(M, c) /\ r # INVALID_FD
    BY <1>2 DEF AddedCrtFD
<1>5. G = [F EXCEPT !.CrtFDToRFD = Put(@, c, r), !.RFDToCrtFD = Put(@, r, c)]
    BY <1>1, <1>2, <1>3, <1>4 DEF addCrtFD, AddedCrtFD
<1>6. /\ MapTypes(F) /\ Disjoint(F) /\ F.SocketToRFD = M.SocketToRFD /\ F.RFDToSocketInfo = M.RFDToSocketInfo
      /\ F.CrtFDToRFD = M.CrtFDToRFD /\ F.RFDToCrtFD = M.RFDToCrtFD
      /\ r \in Names(F) /\ r \notin DOMAIN M.RFDToSocketInfo /\ r \notin DOMAIN M.RFDToCrtFD
      /\ \A i \in DOMAIN F.pool : F.pool[i] # r
    BY <1>2, <1>3, <1>4, TakesName DEF MapGood
<1>7. PICK C : C = Put(M.CrtFDToRFD, c, r)
    BY Zenon
<1>8. PICK R : R = Put(M.RFDToCrtFD, r, c)
    BY Zenon
<1>9. /\ G.SocketToRFD = M.SocketToRFD /\ G.RFDToSocketInfo = M.RFDToSocketInfo /\ G.CrtFDToRFD = C /\ G.RFDToCrtFD = R
      /\ G.pool = F.pool /\ G.next = F.next /\ IsMap(G)
    BY <1>5, <1>6, <1>7, <1>8 DEF MapTypes, IsMap
<1>10. /\ DOMAIN C = DOMAIN M.CrtFDToRFD \cup {c} /\ C[c] = r
       /\ \A q \in DOMAIN M.CrtFDToRFD : C[q] = M.CrtFDToRFD[q]
    BY <1>7 DEF Put
<1>11. /\ DOMAIN R = DOMAIN M.RFDToCrtFD \cup {r} /\ R[r] = c
       /\ \A q \in DOMAIN M.RFDToCrtFD : R[q] = M.RFDToCrtFD[q]
    BY <1>6, <1>8 DEF Put
<1>12. Names(G) = Names(F)
    BY <1>9 DEF Names
<1>13. MapTypes(G)
    BY <1>6, <1>9, <1>11, <1>12 DEF MapTypes
<1>14. Disjoint(G)
    BY <1>6, <1>9, <1>11 DEF Disjoint
<1>15. r \in Nat
    BY <1>6 DEF Names, MapTypes
<1>16. SameInfos(M, G) /\ GainsCrt(M, G, c, r)
    BY <1>6, <1>9, <1>10, <1>11 DEF SameInfos, GainsCrt
<1>17. QED
    BY <1>1, <1>2, <1>4, <1>9, <1>13, <1>14, <1>15, <1>16 DEF MapGood

LEMMA CrtNotAdded ==
    ASSUME NEW M, NEW c, AddedCrtFD(M, c) = INVALID_FD \/ c \in DOMAIN M.CrtFDToRFD
    PROVE  addCrtFD(M, c) = M
  BY DEF addCrtFD, AddedCrtFD

LEMMA InfoRemoved ==
    ASSUME NEW M, MapGood(M), NEW r \in DOMAIN M.RFDToSocketInfo
    PROVE  LET G == removeRFDToSocketInfo(M, r) IN
           MapGood(G) /\ SameCrts(M, G) /\ LosesInfo(M, G, r) /\ G.SocketToRFD = M.SocketToRFD
<1>1. PICK G : G = removeRFDToSocketInfo(M, r)
    BY Zenon
<1>2. PICK I : I = Erase(M.RFDToSocketInfo, r)
    BY Zenon
<1>3. /\ MapTypes(M) /\ Disjoint(M) /\ M.pool \in Seq(Nat) /\ r \in Nat /\ r \in Names(M)
    BY DEF MapGood, MapTypes, Names
<1>4. /\ G.SocketToRFD = M.SocketToRFD /\ G.RFDToSocketInfo = I /\ G.CrtFDToRFD = M.CrtFDToRFD /\ G.RFDToCrtFD = M.RFDToCrtFD
      /\ G.pool = Append(M.pool, r) /\ G.next = M.next /\ IsMap(G)
    BY <1>1, <1>2, <1>3 DEF MapTypes, IsMap, removeRFDToSocketInfo
<1>5. /\ DOMAIN I = DOMAIN M.RFDToSocketInfo \ {r}
      /\ \A q \in DOMAIN M.RFDToSocketInfo : q # r => I[q] = M.RFDToSocketInfo[q]
    BY <1>2, EraseIs, Zenon
<1>6. PICK k \in Nat : k = Len(M.pool)
    BY <1>3
<1>7. /\ G.pool \in Seq(Nat) /\ DOMAIN G.pool = 1 .. k + 1 /\ DOMAIN M.pool = 1 .. k
      /\ G.pool[k + 1] = r /\ \A i \in DOMAIN M.pool : G.pool[i] = M.pool[i]
    BY <1>3, <1>4, <1>6, Appended
<1>8. \A i \in DOMAIN G.pool : i \in DOMAIN M.pool \/ i = k + 1
    BY <1>6, <1>7
<1>9. Names(G) = Names(M)
    BY <1>4 DEF Names
<1>10. /\ M.next \in Nat /\ M.next >= 3 /\ (\A i \in DOMAIN M.pool : M.pool[i] \in Names(M))
       /\ (\A q \in DOMAIN M.RFDToSocketInfo : q \in Names(M) /\ M.RFDToSocketInfo[q] \in Infos)
       /\ \A q \in DOMAIN M.RFDToCrtFD : q \in Names(M)
    BY <1>3 DEF MapTypes
<1>11. \A i \in DOMAIN G.pool : G.pool[i] \in Names(M)
    BY <1>3, <1>7, <1>8, <1>10
<1>12. MapTypes(G)
    BY <1>4, <1>5, <1>7, <1>9, <1>10, <1>11 DEF MapTypes
<1>13. /\ \A q \in DOMAIN M.RFDToSocketInfo : q \notin DOMAIN M.RFDToCrtFD
       /\ \A i \in DOMAIN M.pool : M.pool[i] \notin DOMAIN M.RFDToSocketInfo /\ M.pool[i] \notin DOMAIN M.RFDToCrtFD
       /\ \A i, j \in DOMAIN M.pool : M.pool[i] = M.pool[j] => i = j
    BY <1>3 DEF Disjoint
<1>14. \A i \in DOMAIN M.pool : M.pool[i] # r
    BY <1>13
<1>15. \A i, j \in DOMAIN G.pool : G.pool[i] = G.pool[j] => i = j
    BY <1>7, <1>8, <1>13, <1>14
<1>16. \A i \in DOMAIN G.pool : G.pool[i] \notin DOMAIN I /\ G.pool[i] \notin DOMAIN M.RFDToCrtFD
    BY <1>5, <1>7, <1>8, <1>13
<1>17. Disjoint(G)
    BY <1>4, <1>5, <1>13, <1>15, <1>16 DEF Disjoint
<1>18. SameCrts(M, G) /\ LosesInfo(M, G, r)
    BY <1>4, <1>5 DEF SameCrts, LosesInfo
<1>19. QED
    BY <1>1, <1>4, <1>12, <1>17, <1>18 DEF MapGood

LEMMA CrtRemoved ==
    ASSUME NEW M, MapGood(M), NEW c \in DOMAIN M.CrtFDToRFD, c > 2,
           M.CrtFDToRFD[c] \in DOMAIN M.RFDToCrtFD
    PROVE  LET G == removeCrtFD(M, c) IN
           MapGood(G) /\ SameInfos(M, G) /\ LosesCrt(M, G, c) /\ G.SocketToRFD = M.SocketToRFD
<1>1. PICK G : G = removeCrtFD(M, c)
    BY Zenon
<1>2. PICK r : r = M.CrtFDToRFD[c]
    BY Zenon
<1>3. PICK C : C = Erase(M.CrtFDToRFD, c)
    BY Zenon
<1>4. PICK R : R = Erase(M.RFDToCrtFD, r)
    BY Zenon
<1>5. /\ MapTypes(M) /\ Disjoint(M) /\ M.pool \in Seq(Nat) /\ r \in Nat /\ r \in Names(M) /\ r \in DOMAIN M.RFDToCrtFD
    BY <1>2 DEF MapGood, MapTypes, Names
<1>6. G = [M EXCEPT !.pool = Append(@, r), !.RFDToCrtFD = R, !.CrtFDToRFD = C]
    BY <1>1, <1>2, <1>3, <1>4, <1>5 DEF removeCrtFD, LAST_RESERVED_RFD_INDEX, MapTypes, IsMap
<1>7. /\ G.SocketToRFD = M.SocketToRFD /\ G.RFDToSocketInfo = M.RFDToSocketInfo /\ G.CrtFDToRFD = C /\ G.RFDToCrtFD = R
      /\ G.pool = Append(M.pool, r) /\ G.next = M.next /\ IsMap(G)
    BY <1>5, <1>6 DEF MapTypes, IsMap
<1>8. /\ DOMAIN C = DOMAIN M.CrtFDToRFD \ {c} /\ DOMAIN R = DOMAIN M.RFDToCrtFD \ {r}
      /\ \A d \in DOMAIN M.CrtFDToRFD : d # c => C[d] = M.CrtFDToRFD[d]
      /\ \A q \in DOMAIN M.RFDToCrtFD : q # r => R[q] = M.RFDToCrtFD[q]
    BY <1>3, <1>4, EraseIs, Zenon
<1>9. PICK k \in Nat : k = Len(M.pool)
    BY <1>5
<1>10. /\ G.pool \in Seq(Nat) /\ DOMAIN G.pool = 1 .. k + 1 /\ DOMAIN M.pool = 1 .. k
       /\ G.pool[k + 1] = r /\ \A i \in DOMAIN M.pool : G.pool[i] = M.pool[i]
    BY <1>5, <1>7, <1>9, Appended
<1>11. \A i \in DOMAIN G.pool : i \in DOMAIN M.pool \/ i = k + 1
    BY <1>9, <1>10
<1>12. Names(G) = Names(M)
    BY <1>7 DEF Names
<1>13. /\ M.next \in Nat /\ M.next >= 3 /\ (\A i \in DOMAIN M.pool : M.pool[i] \in Names(M))
       /\ (\A q \in DOMAIN M.RFDToSocketInfo : q \in Names(M) /\ M.RFDToSocketInfo[q] \in Infos)
       /\ \A q \in DOMAIN M.RFDToCrtFD : q \in Names(M)
    BY <1>5 DEF MapTypes
<1>14. \A i \in DOMAIN G.pool : G.pool[i] \in Names(M)
    BY <1>5, <1>10, <1>11, <1>13
<1>15. MapTypes(G)
    BY <1>7, <1>8, <1>10, <1>12, <1>13, <1>14 DEF MapTypes
<1>16. /\ \A q \in DOMAIN M.RFDToSocketInfo : q \notin DOMAIN M.RFDToCrtFD
       /\ \A i \in DOMAIN M.pool : M.pool[i] \notin DOMAIN M.RFDToSocketInfo /\ M.pool[i] \notin DOMAIN M.RFDToCrtFD
       /\ \A i, j \in DOMAIN M.pool : M.pool[i] = M.pool[j] => i = j
    BY <1>5 DEF Disjoint
<1>17. \A i \in DOMAIN M.pool : M.pool[i] # r
    BY <1>5, <1>16
<1>18. \A i, j \in DOMAIN G.pool : G.pool[i] = G.pool[j] => i = j
    BY <1>10, <1>11, <1>16, <1>17
<1>19. \A i \in DOMAIN G.pool : G.pool[i] \notin DOMAIN R /\ G.pool[i] \notin DOMAIN M.RFDToSocketInfo
    BY <1>5, <1>8, <1>10, <1>11, <1>16
<1>20. Disjoint(G)
    BY <1>7, <1>8, <1>16, <1>18, <1>19 DEF Disjoint
<1>21. SameInfos(M, G) /\ LosesCrt(M, G, c)
    BY <1>2, <1>7, <1>8 DEF SameInfos, LosesCrt
<1>22. QED
    BY <1>1, <1>7, <1>15, <1>20, <1>21 DEF MapGood

LEMMA InfoSet ==
    ASSUME NEW M, MapGood(M), NEW r \in DOMAIN M.RFDToSocketInfo, NEW v \in Infos
    PROVE  LET G == [M EXCEPT !.RFDToSocketInfo = [@ EXCEPT ![r] = v]] IN
           MapGood(G) /\ SameCrts(M, G) /\ SetsInfo(M, G, r, v) /\ G.SocketToRFD = M.SocketToRFD
<1>1. PICK G : G = [M EXCEPT !.RFDToSocketInfo = [@ EXCEPT ![r] = v]]
    BY Zenon
<1>2. PICK I : I = [M.RFDToSocketInfo EXCEPT ![r] = v]
    BY Zenon
<1>3. /\ G.SocketToRFD = M.SocketToRFD /\ G.RFDToSocketInfo = I /\ G.CrtFDToRFD = M.CrtFDToRFD /\ G.RFDToCrtFD = M.RFDToCrtFD
      /\ G.pool = M.pool /\ G.next = M.next /\ IsMap(G)
    BY <1>1, <1>2 DEF MapGood, MapTypes, IsMap
<1>4. /\ DOMAIN I = DOMAIN M.RFDToSocketInfo /\ I[r] = v
      /\ \A q \in DOMAIN M.RFDToSocketInfo : q # r => I[q] = M.RFDToSocketInfo[q]
    BY <1>2
<1>5. Names(G) = Names(M)
    BY <1>3 DEF Names
<1>6. MapTypes(G)
    BY <1>3, <1>4, <1>5 DEF MapGood, MapTypes
<1>7. Disjoint(G)
    BY <1>3, <1>4 DEF MapGood, Disjoint
<1>8. SameCrts(M, G) /\ SetsInfo(M, G, r, v)
    BY <1>3, <1>4 DEF SameCrts, SetsInfo
<1>9. QED
    BY <1>1, <1>3, <1>6, <1>7, <1>8 DEF MapGood

LEMMA Forgotten ==
    ASSUME NEW M, MapGood(M), NEW h
    PROVE  LET G == removeSocketToRFD(M, h) IN
           MapGood(G) /\ SameCrts(M, G) /\ SameInfos(M, G) /\ DOMAIN G.SocketToRFD = DOMAIN M.SocketToRFD \ {h}
<1>1. PICK G : G = removeSocketToRFD(M, h)
    BY Zenon
<1>2. PICK S : S = Erase(M.SocketToRFD, h)
    BY Zenon
<1>3. /\ G.SocketToRFD = S /\ G.RFDToSocketInfo = M.RFDToSocketInfo /\ G.CrtFDToRFD = M.CrtFDToRFD /\ G.RFDToCrtFD = M.RFDToCrtFD
      /\ G.pool = M.pool /\ G.next = M.next /\ IsMap(G)
    BY <1>1, <1>2 DEF MapGood, MapTypes, IsMap, removeSocketToRFD
<1>4. Names(G) = Names(M)
    BY <1>3 DEF Names
<1>5. MapTypes(G)
    BY <1>3, <1>4 DEF MapGood, MapTypes
<1>6. Disjoint(G)
    BY <1>3 DEF MapGood, Disjoint
<1>7. DOMAIN S = DOMAIN M.SocketToRFD \ {h}
    BY <1>2, EraseIs, Zenon
<1>8. QED
    BY <1>1, <1>3, <1>5, <1>6, <1>7 DEF MapGood, SameCrts, SameInfos

-----------------------------------------------------------------------------
(* A thread moves to place p, the others stay where they are. *)
Moves(H, G, t, p) == /\ G[t] = p /\ \A u \in Threads : u # t => G[u] = H[u]
                     /\ ThreadTypes(G)

LEMMA MoveIs ==
    ASSUME NEW H, ThreadTypes(H), NEW t \in Threads, NEW p, IsPlace(p), NEW G, G = [H EXCEPT ![t] = p]
    PROVE  Moves(H, G, t, p)
<1>1. DOMAIN H = Threads /\ \A u \in Threads : IsPlace(H[u])
    BY DEF ThreadTypes
<1>2. G[t] = p /\ (\A u \in Threads : u # t => G[u] = H[u]) /\ G = [u \in Threads |-> G[u]]
    BY <1>1
<1>3. \A u \in Threads : IsPlace(G[u])
    BY <1>1, <1>2, Zenon
<1>4. QED
    BY <1>2, <1>3, Zenon DEF Moves, ThreadTypes

LEMMA PlaceMade ==
    ASSUME NEW pc \in Places, NEW rfd \in Int, NEW h \in Handles \cup {INVALID_SOCKET}, NEW c \in Seq(Int),
           NEW p, p = [pc |-> pc, rfd |-> rfd, h |-> h, c |-> c]
    PROVE  IsPlace(p) /\ p.pc = pc /\ p.rfd = rfd /\ p.h = h /\ p.c = c
<1>1. p.pc = pc /\ p.rfd = rfd /\ p.h = h /\ p.c = c
    OBVIOUS
<1>2. QED
    BY <1>1, Zenon DEF IsPlace

LEMMA IdleIs == IsPlace(Idle) /\ Idle.pc = "idle" /\ Idle.rfd = -1
<1>1. Idle.pc = "idle" /\ Idle.rfd = -1 /\ Idle.h = INVALID_SOCKET /\ Idle.c = <<>>
      /\ Idle = [pc |-> Idle.pc, rfd |-> Idle.rfd, h |-> Idle.h, c |-> Idle.c]
    BY DEF Idle
<1>2. "idle" \in Places /\ -1 \in Int /\ INVALID_SOCKET \in Handles \cup {INVALID_SOCKET} /\ <<>> \in Seq(Int)
    BY DEF Places
<1>3. QED
    BY <1>1, <1>2 DEF IsPlace

Starts(H, G, t, pc, rfd, h, c) ==
  \E p : /\ IsPlace(p) /\ p.pc = pc /\ p.rfd = rfd /\ p.h = h /\ p.c = c
         /\ Moves(H, G, t, p) /\ H[t].pc = "idle"

LEMMA Started ==
    ASSUME ThreadTypes(th), NEW t \in Threads, NEW pc, NEW rfd, NEW h, NEW c, Start(t, pc, rfd, h, c),
           pc \in Places, rfd \in Int, h \in Handles \cup {INVALID_SOCKET}, c \in Seq(Int)
    PROVE  Starts(th, th', t, pc, rfd, h, c)
<1>1. PICK p : p = [pc |-> pc, rfd |-> rfd, h |-> h, c |-> c]
    BY Zenon
<1>2. th' = [th EXCEPT ![t] = p] /\ th[t].pc = "idle"
    BY <1>1, Zenon DEF Start, At
<1>3. IsPlace(p) /\ p.pc = pc /\ p.rfd = rfd /\ p.h = h /\ p.c = c
    BY <1>1, PlaceMade
<1>4. Moves(th, th', t, p)
    BY <1>2, <1>3, MoveIs, Zenon
<1>5. QED
    BY <1>2, <1>3, <1>4, Zenon DEF Starts

LEMMA Returned ==
    ASSUME ThreadTypes(th), NEW t \in Threads, Return(t)
    PROVE  Moves(th, th', t, Idle) /\ Idle.pc = "idle"
  BY MoveIs, IdleIs, Zenon DEF Return

LEMMA Went ==
    ASSUME ThreadTypes(th), NEW t \in Threads, NEW pc \in Places, Go(t, pc)
    PROVE  \E p : IsPlace(p) /\ p.pc = pc /\ p.rfd = th[t].rfd /\ p.h = th[t].h /\ p.c = th[t].c /\ Moves(th, th', t, p)
<1>1. IsPlace(th[t]) /\ th = [u \in Threads |-> th[u]]
    BY Zenon DEF ThreadTypes
<1>2. PICK o : o = th[t]
    BY Zenon
<1>3. PICK p : p = [o EXCEPT !.pc = pc]
    BY Zenon
<1>4. th' = [th EXCEPT ![t] = p]
    BY <1>2, <1>3 DEF Go
<1>5. p.pc = pc /\ p.rfd = o.rfd /\ p.h = o.h /\ p.c = o.c /\ p = [pc |-> p.pc, rfd |-> p.rfd, h |-> p.h, c |-> p.c]
    BY <1>1, <1>2, <1>3 DEF IsPlace
<1>6. IsPlace(p)
    BY <1>1, <1>2, <1>5, Zenon DEF IsPlace
<1>7. QED
    BY <1>2, <1>4, <1>5, <1>6, MoveIs, Zenon

(* What a move leaves of the claims of the threads. *)
LEMMA HandlesMove ==
    ASSUME NEW M, NEW sk, NEW H, NEW G, NEW t \in Threads, NEW p, Moves(H, G, t, p), HandlesHeld(M, sk, H),
           Holding(p) => Holding(H[t]) /\ p.h = H[t].h
    PROVE  HandlesHeld(M, sk, G)
  BY DEF HandlesHeld, Moves

LEMMA CrtMoves ==
    ASSUME NEW M, NEW ct, NEW str, NEW H, NEW G, NEW t \in Threads, NEW p, Moves(H, G, t, p), CrtHeld(M, ct, str, H),
           p.pc \notin {"addCrtFD", "crt_close"}
    PROVE  CrtHeld(M, ct, str, G)
<1>1. Owned(G[t]) = {} /\ G[t].pc \notin {"addCrtFD", "crt_close"} /\ \A u \in Threads : u # t => G[u] = H[u]
    BY Zenon DEF Moves, Owned
<1>2. QED
    BY <1>1 DEF CrtHeld

LEMMA ClosingsMove ==
    ASSUME NEW M, NEW H, NEW G, NEW t \in Threads, NEW p, Moves(H, G, t, p), Closings(M, H), p.pc # "closeState"
    PROVE  Closings(M, G)
  BY DEF Closings, Moves

LEMMA CallingMoves ==
    ASSUME NEW M, NEW tb, NEW H, NEW G, NEW t \in Threads, NEW p, Moves(H, G, t, p), Calling(M, tb, H), p.pc # "windows"
    PROVE  Calling(M, tb, G)
  BY DEF Calling, Moves

-----------------------------------------------------------------------------
(* The steps of the threads. *)

(* The sockets the map knows keep their objects. *)
Agree(M, sk, sl) == \A r \in DOMAIN M.RFDToSocketInfo : Valid(M, r) => sl[Socket(M, r)] = sk[Socket(M, r)]

LEMMA Agreeing ==
    ASSUME NEW M, NEW sk, NEW sl, NEW ct, NEW tb, Agree(M, sk, sl), Opened(M, sk), Tables(M, sk, ct, tb)
    PROVE  Opened(M, sl) /\ Tables(M, sl, ct, tb)
  BY DEF Agree, Opened, Tables, Valid

(* What descriptor r means is kept; and r alone may change its meaning. *)
Keep(M, G, r) ==
  /\ Valid(M, r) => Valid(G, r) /\ Socket(G, r) = Socket(M, r)
  /\ r \in DOMAIN M.RFDToCrtFD => r \in DOMAIN G.RFDToCrtFD /\ G.RFDToCrtFD[r] = M.RFDToCrtFD[r]
KeepAll(M, G) == \A r : Keep(M, G, r)
KeepBut(M, G, r) == \A q : q # r => Keep(M, G, q)

LEMMA GainsKeeps ==
    ASSUME NEW M, NEW G, NEW r, NEW v, GainsInfo(M, G, r, v), SameCrts(M, G)
    PROVE  KeepAll(M, G)
  BY DEF GainsInfo, SameCrts, KeepAll, Keep, Valid, Socket

LEMMA GainsCrtKeeps ==
    ASSUME NEW M, NEW G, NEW r, NEW c, GainsCrt(M, G, c, r), SameInfos(M, G)
    PROVE  KeepAll(M, G)
  BY DEF GainsCrt, SameInfos, KeepAll, Keep, Valid, Socket

LEMMA SameKeeps ==
    ASSUME NEW M, NEW G, SameCrts(M, G), SameInfos(M, G)
    PROVE  KeepAll(M, G)
  BY DEF SameCrts, SameInfos, KeepAll, Keep, Valid, Socket

LEMMA SetsKeeps ==
    ASSUME NEW M, NEW G, NEW r, NEW v, SetsInfo(M, G, r, v), SameCrts(M, G)
    PROVE  KeepBut(M, G, r)
  BY DEF SetsInfo, SameCrts, KeepBut, Keep, Valid, Socket

LEMMA LosesKeeps ==
    ASSUME NEW M, NEW G, NEW r, LosesInfo(M, G, r), SameCrts(M, G)
    PROVE  KeepBut(M, G, r)
  BY DEF LosesInfo, SameCrts, KeepBut, Keep, Valid, Socket

LEMMA LosesCrtKeeps ==
    ASSUME NEW M, NEW G, NEW c, LosesCrt(M, G, c), SameInfos(M, G)
    PROVE  KeepBut(M, G, M.CrtFDToRFD[c])
  BY DEF LosesCrt, SameInfos, KeepBut, Keep, Valid, Socket

LEMMA AllKept ==
    ASSUME NEW M, NEW G, KeepAll(M, G), NEW sk, NEW ct, NEW s, NEW q, NEW tb, NEW H
    PROVE  /\ Tables(M, sk, ct, tb) => Tables(G, sk, ct, tb)
           /\ Calling(M, tb, H) => Calling(G, tb, H)
           /\ Waits(M, s, q, tb) => Waits(G, s, q, tb)
<1>1. \A r : Keep(M, G, r)
    BY DEF KeepAll
<1>2. \A r : Valid(M, r) => Valid(G, r) /\ Socket(G, r) = Socket(M, r)
    BY <1>1 DEF Keep
<1>3. Tables(M, sk, ct, tb) => Tables(G, sk, ct, tb)
    BY <1>1 DEF Tables, Keep
<1>4. Calling(M, tb, H) => Calling(G, tb, H)
    BY <1>1 DEF Calling, Keep
<1>5. Waits(M, s, q, tb) => Waits(G, s, q, tb)
    BY <1>2, Zenon DEF Waits
<1>6. QED
    BY <1>3, <1>4, <1>5

Less(tb, tl, r) == DOMAIN tl = DOMAIN tb \ {r} /\ \A x \in DOMAIN tb : x # r => tl[x] = tb[x]
Unused(H, r) == \A t \in Threads : H[t].rfd # r

LEMMA RestKept ==
    ASSUME NEW M, NEW G, NEW r, KeepBut(M, G, r), NEW sk, NEW ct, NEW s, NEW q, NEW tb, NEW tl, NEW H, Less(tb, tl, r)
    PROVE  /\ Tables(M, sk, ct, tb) => Tables(G, sk, ct, tl)
           /\ Calling(M, tb, H) /\ Unused(H, r) => Calling(G, tl, H)
           /\ (r \in DOMAIN tb \/ ~Valid(M, r)) /\ Waits(M, s, q, tb) => Waits(G, s, q, tl)
<1>1. \A x : x # r => Keep(M, G, x)
    BY DEF KeepBut
<1>2. \A x : x # r /\ Valid(M, x) => Valid(G, x) /\ Socket(G, x) = Socket(M, x)
    BY <1>1 DEF Keep
<1>3. \A x \in DOMAIN tl : x \in DOMAIN tb /\ x # r /\ tl[x] = tb[x]
    BY DEF Less
<1>4. Tables(M, sk, ct, tb) => Tables(G, sk, ct, tl)
    BY <1>1, <1>3 DEF Tables, Keep
<1>5. Calling(M, tb, H) /\ Unused(H, r) => Calling(G, tl, H)
  <2>1. \A x \in DOMAIN tb : x # r => x \in DOMAIN tl
      BY DEF Less
  <2>2. QED
      BY <1>1, <2>1 DEF Calling, Keep, Unused
<1>6. (r \in DOMAIN tb \/ ~Valid(M, r)) /\ Waits(M, s, q, tb) => Waits(G, s, q, tl)
  <2>1. SUFFICES ASSUME r \in DOMAIN tb \/ ~Valid(M, r), Waits(M, s, q, tb) PROVE Waits(G, s, q, tl)
      OBVIOUS
  <2>2. \A o \in Accepts(q) : Valid(G, o.acc) /\ o.acc \notin DOMAIN tl
      BY <1>2, <1>3, <2>1 DEF Waits
  <2>3. ASSUME NEW n \in 1 .. NStates, NEW i \in DOMAIN Listed(s, n)
        PROVE  Valid(G, Listed(s, n)[i]) /\ Listed(s, n)[i] \notin DOMAIN tl
      BY <1>2, <1>3, <2>1, <2>3 DEF Waits
  <2>4. QED
      BY <2>1, <2>2, <2>3, Zenon DEF Waits
<1>7. QED
    BY <1>4, <1>5, <1>6

LEMMA ErasedIsLess ==
    ASSUME NEW tb, NEW r
    PROVE  Less(tb, Erase(tb, r), r)
  BY DEF Less, Erase, Restrict

(* A descriptor is handed out. *)
LEMMA HandedOut ==
    ASSUME NEW M, NEW sk, NEW ct, NEW s, NEW q, NEW tb, NEW H, NEW r, NEW v,
           Tables(M, sk, ct, tb), Calling(M, tb, H), Waits(M, s, q, tb),
           (Valid(M, r) /\ v = sk[Socket(M, r)]) \/ (r \in DOMAIN M.RFDToCrtFD /\ v = ct[M.RFDToCrtFD[r]]),
           \A o \in Accepts(q) : o.acc # r,
           \A n \in 1 .. NStates : \A i \in DOMAIN Listed(s, n) : Listed(s, n)[i] # r
    PROVE  /\ Tables(M, sk, ct, Put(tb, r, v)) /\ Calling(M, Put(tb, r, v), H) /\ Waits(M, s, q, Put(tb, r, v))
<1>1. PICK tl : tl = Put(tb, r, v)
    BY Zenon
<1>2. DOMAIN tl = DOMAIN tb \cup {r} /\ tl[r] = v /\ \A x \in DOMAIN tb : x # r => tl[x] = tb[x]
    BY <1>1 DEF Put
<1>3. Tables(M, sk, ct, tl)
    BY <1>2 DEF Tables
<1>4. Calling(M, tl, H)
    BY <1>2 DEF Calling
<1>5. Waits(M, s, q, tl)
    BY <1>2, Zenon DEF Waits
<1>6. QED
    BY <1>1, <1>3, <1>4, <1>5, Zenon

LEMMA SameCrtParts ==
    ASSUME NEW M, NEW G, SameCrts(M, G), NEW ct, NEW str, NEW H
    PROVE  /\ CrtTables(M, ct) => CrtTables(G, ct)
           /\ CrtHeld(M, ct, str, H) => CrtHeld(G, ct, str, H)
  BY DEF SameCrts, CrtTables, CrtHeld

LEMMA SameInfoParts ==
    ASSUME NEW M, NEW G, SameInfos(M, G), NEW sk, NEW H, NEW s
    PROVE  /\ Opened(M, sk) => Opened(G, sk)
           /\ HandlesHeld(M, sk, H) => HandlesHeld(G, sk, H)
           /\ StatesOwned(M, s) => StatesOwned(G, s)
           /\ Closings(M, H) => Closings(G, H)
  BY DEF SameInfos, Opened, HandlesHeld, StatesOwned, Closings, Valid, Socket, State

LEMMA GainsParts ==
    ASSUME NEW M, NEW G, NEW r, NEW h, h # INVALID_SOCKET, GainsInfo(M, G, r, [socket |-> h, state |-> 0]),
           NEW sk, NEW H, NEW s, \A x \in DOMAIN M.RFDToSocketInfo : Socket(M, x) # h
    PROVE  /\ Valid(G, r) /\ Socket(G, r) = h /\ State(G, r) = 0
           /\ Opened(M, sk) /\ sk[h] # 0 => Opened(G, sk)
           /\ HandlesHeld(M, sk, H) /\ (\A t \in Threads : Holding(H[t]) => H[t].h # h) => HandlesHeld(G, sk, H)
           /\ StatesOwned(M, s) => StatesOwned(G, s)
           /\ Closings(M, H) => Closings(G, H)
<1>1. /\ DOMAIN G.RFDToSocketInfo = DOMAIN M.RFDToSocketInfo \cup {r} /\ r \notin DOMAIN M.RFDToSocketInfo
      /\ Socket(G, r) = h /\ State(G, r) = 0 /\ Valid(G, r)
      /\ \A x \in DOMAIN M.RFDToSocketInfo : Socket(G, x) = Socket(M, x) /\ State(G, x) = State(M, x) /\ (Valid(G, x) <=> Valid(M, x))
    BY DEF GainsInfo, Socket, State, Valid
<1>2. Opened(M, sk) /\ sk[h] # 0 => Opened(G, sk)
    BY <1>1 DEF Opened
<1>3. HandlesHeld(M, sk, H) /\ (\A t \in Threads : Holding(H[t]) => H[t].h # h) => HandlesHeld(G, sk, H)
    BY <1>1 DEF HandlesHeld
<1>4. StatesOwned(M, s) => StatesOwned(G, s)
    BY <1>1 DEF StatesOwned
<1>5. Closings(M, H) => Closings(G, H)
    BY <1>1 DEF Closings
<1>6. QED
    BY <1>1, <1>2, <1>3, <1>4, <1>5

(* The entry of r is marked as closed. *)
LEMMA MarkedParts ==
    ASSUME NEW M, NEW G, NEW r \in DOMAIN M.RFDToSocketInfo,
           SetsInfo(M, G, r, [socket |-> INVALID_SOCKET, state |-> State(M, r)]),
           NEW sk, NEW H, NEW s
    PROVE  /\ Socket(G, r) = INVALID_SOCKET /\ State(G, r) = State(M, r)
           /\ Opened(M, sk) /\ Valid(M, r) => Opened(G, sk) /\ \A x \in DOMAIN G.RFDToSocketInfo : Socket(G, x) # Socket(M, r)
           /\ HandlesHeld(M, sk, H) => HandlesHeld(G, sk, H)
           /\ StatesOwned(M, s) => StatesOwned(G, s)
           /\ Closings(M, H) => Closings(G, H)
<1>1. /\ DOMAIN G.RFDToSocketInfo = DOMAIN M.RFDToSocketInfo
      /\ Socket(G, r) = INVALID_SOCKET /\ State(G, r) = State(M, r) /\ ~Valid(G, r)
      /\ \A x \in DOMAIN M.RFDToSocketInfo : x # r => Socket(G, x) = Socket(M, x) /\ State(G, x) = State(M, x) /\ (Valid(G, x) <=> Valid(M, x))
    BY DEF SetsInfo, Socket, State, Valid
<1>2. Opened(M, sk) /\ Valid(M, r) => Opened(G, sk) /\ \A x \in DOMAIN G.RFDToSocketInfo : Socket(G, x) # Socket(M, r)
    BY <1>1 DEF Opened, Valid
<1>3. HandlesHeld(M, sk, H) => HandlesHeld(G, sk, H)
    BY <1>1, FdAssumption DEF HandlesHeld
<1>4. StatesOwned(M, s) => StatesOwned(G, s)
    BY <1>1 DEF StatesOwned
<1>5. Closings(M, H) => Closings(G, H)
    BY <1>1 DEF Closings
<1>6. QED
    BY <1>1, <1>2, <1>3, <1>4, <1>5

(* The entry of r is removed. *)
LEMMA RemovedParts ==
    ASSUME NEW M, NEW G, NEW r, LosesInfo(M, G, r), NEW sk, NEW H, NEW s
    PROVE  /\ Opened(M, sk) => Opened(G, sk)
           /\ HandlesHeld(M, sk, H) => HandlesHeld(G, sk, H)
           /\ StatesOwned(M, s) /\ r \in DOMAIN M.RFDToSocketInfo /\ State(M, r) = 0 => StatesOwned(G, s)
           /\ Closings(M, H) /\ (\A t \in Threads : H[t].pc = "closeState" => H[t].rfd # r) => Closings(G, H)
<1>1. /\ DOMAIN G.RFDToSocketInfo = DOMAIN M.RFDToSocketInfo \ {r}
      /\ \A x \in DOMAIN M.RFDToSocketInfo : x # r => Socket(G, x) = Socket(M, x) /\ State(G, x) = State(M, x) /\ (Valid(G, x) <=> Valid(M, x))
    BY DEF LosesInfo, Socket, State, Valid
<1>2. Opened(M, sk) => Opened(G, sk)
    BY <1>1 DEF Opened
<1>3. HandlesHeld(M, sk, H) => HandlesHeld(G, sk, H)
    BY <1>1 DEF HandlesHeld
<1>4. StatesOwned(M, s) /\ r \in DOMAIN M.RFDToSocketInfo /\ State(M, r) = 0 => StatesOwned(G, s)
  <2>1. SUFFICES ASSUME StatesOwned(M, s), r \in DOMAIN M.RFDToSocketInfo, State(M, r) = 0 PROVE StatesOwned(G, s)
      OBVIOUS
  <2>2. \A n \in 1 .. NStates : n # 0
      OBVIOUS
  <2>3. \A n \in 1 .. NStates : s[n] # NoState => s[n].fd # r
      BY <2>1, <2>2 DEF StatesOwned
  <2>4. QED
      BY <1>1, <2>1, <2>3 DEF StatesOwned
<1>5. Closings(M, H) /\ (\A t \in Threads : H[t].pc = "closeState" => H[t].rfd # r) => Closings(G, H)
    BY <1>1 DEF Closings
<1>6. QED
    BY <1>2, <1>3, <1>4, <1>5

(* A thread takes handle h. *)
LEMMA HandleTaken ==
    ASSUME NEW M, NEW sk, NEW H, NEW G, NEW t \in Threads, NEW p, Moves(H, G, t, p), HandlesHeld(M, sk, H),
           p.h \in Handles, sk[p.h] # 0, \A r \in DOMAIN M.RFDToSocketInfo : Socket(M, r) # p.h,
           \A u \in Threads : u # t /\ Holding(H[u]) => H[u].h # p.h
    PROVE  HandlesHeld(M, sk, G)
  BY DEF HandlesHeld, Moves

LEMMA UsableIs ==
    ASSUME NEW t, NEW r \in Usable(t)
    PROVE  r \in DOMAIN table /\ Unused(th, r) /\ (t = Loop \/ StateAt(r) = 0)
  BY DEF Usable, Busy, Unused

LEMMA LookedUp ==
    ASSUME NEW r, lookupSocket(m, r) # INVALID_SOCKET
    PROVE  Valid(m, r) /\ lookupSocket(m, r) = Socket(m, r)
  BY DEF lookupSocket, Valid, Socket

(* The state blocks. *)
BlockTables == [1 .. NStates -> Blocks \cup {NoState}]

LEMMA BlockIs ==
    ASSUME NEW b \in Blocks
    PROVE  /\ b # NoState /\ b.fd \in Nat /\ b.masks \subseteq Masks /\ b.reqs \in Seq(Nat) /\ b.wreqs \in Int
           /\ b = [fd |-> b.fd, masks |-> b.masks, reqs |-> b.reqs, wreqs |-> b.wreqs]
<1>1. b.fd \in Nat /\ NoState.fd = -1
    BY DEF Blocks, NoState
<1>2. QED
    BY <1>1 DEF Blocks

LEMMA BlockMade ==
    ASSUME NEW fd \in Nat, NEW masks \in SUBSET Masks, NEW reqs \in Seq(Nat), NEW wreqs \in Int
    PROVE  [fd |-> fd, masks |-> masks, reqs |-> reqs, wreqs |-> wreqs] \in Blocks
  BY DEF Blocks

LEMMA StateIs ==
    ASSUME NEW M, MapGood(M), NEW r \in DOMAIN M.RFDToSocketInfo
    PROVE  /\ r \in Nat /\ State(M, r) \in 0 .. NStates /\ Socket(M, r) \in Handles \cup {INVALID_SOCKET}
           /\ State(M, r) # 0 => State(M, r) \in 1 .. NStates
           /\ M.RFDToSocketInfo[r] = [socket |-> Socket(M, r), state |-> State(M, r)]
<1>1. M.RFDToSocketInfo[r] \in Infos /\ r \in Nat
    BY DEF MapGood, MapTypes, Names
<1>2. PICK v : v = M.RFDToSocketInfo[r]
    BY Zenon
<1>3. v \in Infos /\ v.socket = Socket(M, r) /\ v.state = State(M, r)
    BY <1>1, <1>2 DEF Socket, State
<1>4. v.state \in 0 .. NStates /\ v.socket \in Handles \cup {INVALID_SOCKET} /\ v = [socket |-> v.socket, state |-> v.state]
    BY <1>3 DEF Infos
<1>5. v.state # 0 => v.state \in 1 .. NStates
    BY <1>4, FdAssumption
<1>6. QED
    BY <1>1, <1>2, <1>3, <1>4, <1>5

(* Block n is freed, and the entry of its descriptor removed. *)
LEMMA FreedParts ==
    ASSUME NEW M, NEW G, NEW r \in DOMAIN M.RFDToSocketInfo, LosesInfo(M, G, r), NEW s \in BlockTables, StatesOwned(M, s),
           NEW n \in 1 .. NStates, n = State(M, r), NEW z, z = [s EXCEPT ![n] = NoState]
    PROVE  StatesOwned(G, z) /\ z \in BlockTables
<1>1. /\ DOMAIN G.RFDToSocketInfo = DOMAIN M.RFDToSocketInfo \ {r}
      /\ \A x \in DOMAIN M.RFDToSocketInfo : x # r => Socket(G, x) = Socket(M, x) /\ State(G, x) = State(M, x)
    BY DEF LosesInfo, Socket, State
<1>2. z \in BlockTables /\ z[n] = NoState /\ \A k \in 1 .. NStates : k # n => z[k] = s[k]
    BY DEF BlockTables
<1>3. n # 0
    OBVIOUS
<1>4. s[n].fd = r
    BY <1>3 DEF StatesOwned
<1>5. ASSUME NEW x \in DOMAIN G.RFDToSocketInfo, State(G, x) # 0
      PROVE  /\ z[State(G, x)] \in Blocks /\ z[State(G, x)].fd = x
             /\ "CLOSE_PENDING" \in z[State(G, x)].masks => Socket(G, x) = INVALID_SOCKET
  <2>1. PICK k : k = State(M, x)
      BY Zenon
  <2>2. x \in DOMAIN M.RFDToSocketInfo /\ x # r /\ State(G, x) = k /\ Socket(G, x) = Socket(M, x) /\ k # 0
      BY <1>1, <1>5, <2>1
  <2>3. s[k] \in Blocks /\ s[k].fd = x /\ ("CLOSE_PENDING" \in s[k].masks => Socket(M, x) = INVALID_SOCKET)
      BY <2>1, <2>2 DEF StatesOwned
  <2>4. k # n
      BY <1>4, <2>2, <2>3
  <2>5. z[k] = s[k]
      BY <1>4, <2>4, <2>3
  <2>6. QED
      BY <2>2, <2>3, <2>5
<1>6. ASSUME NEW k \in 1 .. NStates, z[k] # NoState
      PROVE  z[k] \in Blocks /\ z[k].fd \in DOMAIN G.RFDToSocketInfo /\ State(G, z[k].fd) = k
  <2>1. k # n /\ z[k] = s[k]
      BY <1>2, <1>6
  <2>2. s[k] \in Blocks /\ s[k].fd \in DOMAIN M.RFDToSocketInfo /\ State(M, s[k].fd) = k
      BY <1>6, <2>1 DEF StatesOwned
  <2>3. s[k].fd # r
      BY <2>1, <2>2
  <2>4. QED
      BY <1>1, <2>1, <2>2, <2>3
<1>7. QED
    BY <1>2, <1>5, <1>6, Zenon DEF StatesOwned

LEMMA FewerListed ==
    ASSUME NEW M, NEW s, NEW z, NEW q, NEW tb, Waits(M, s, q, tb),
           \A n \in 1 .. NStates : Listed(z, n) = Listed(s, n) \/ Listed(z, n) = <<>>
    PROVE  Waits(M, z, q, tb)
<1>1. \A n \in 1 .. NStates : \A i \in DOMAIN Listed(z, n) : i \in DOMAIN Listed(s, n) /\ Listed(z, n)[i] = Listed(s, n)[i]
  <2>1. ASSUME NEW n \in 1 .. NStates, NEW i \in DOMAIN Listed(z, n)
        PROVE  i \in DOMAIN Listed(s, n) /\ Listed(z, n)[i] = Listed(s, n)[i]
    <3>1. DOMAIN <<>> = {}
        OBVIOUS
    <3>2. Listed(z, n) # <<>>
        BY <2>1, <3>1, Zenon
    <3>3. QED
        BY <2>1, <3>2, Zenon
  <2>2. QED
      BY <2>1
<1>2. ASSUME NEW n \in 1 .. NStates, NEW i \in DOMAIN Listed(z, n)
      PROVE  /\ Valid(M, Listed(z, n)[i]) /\ Listed(z, n)[i] \notin DOMAIN tb
             /\ \A o \in Accepts(q) : o.acc # Listed(z, n)[i]
  <2>1. PICK a : a = Listed(z, n)[i]
      BY Zenon
  <2>2. i \in DOMAIN Listed(s, n) /\ a = Listed(s, n)[i]
      BY <1>1, <2>1, Zenon
  <2>3. QED
      BY <2>1, <2>2, Zenon DEF Waits
<1>3. ASSUME NEW n \in 1 .. NStates, NEW i \in DOMAIN Listed(z, n), NEW k \in 1 .. NStates, NEW j \in DOMAIN Listed(z, k),
             Listed(z, k)[j] = Listed(z, n)[i]
      PROVE  n = k /\ i = j
  <2>1. i \in DOMAIN Listed(s, n) /\ j \in DOMAIN Listed(s, k) /\ Listed(s, k)[j] = Listed(s, n)[i]
      BY <1>1, <1>3, Zenon
  <2>2. QED
      BY <2>1, Zenon DEF Waits
<1>4. QED
    BY <1>2, <1>3, Zenon DEF Waits

(* Blocks change without a change of their descriptors and lists. *)
Retouched(M, s, z) ==
  /\ z = [k \in 1 .. NStates |-> z[k]]
  /\ \A k \in 1 .. NStates :
        /\ s[k] = NoState => z[k] = NoState
        /\ s[k] # NoState => /\ z[k] \in Blocks /\ z[k].fd = s[k].fd /\ z[k].reqs = s[k].reqs
                             /\ "CLOSE_PENDING" \in z[k].masks => "CLOSE_PENDING" \in s[k].masks \/ ~Valid(M, s[k].fd)

LEMMA RetouchedParts ==
    ASSUME NEW M, MapGood(M), NEW s \in BlockTables, NEW z, StatesOwned(M, s), Retouched(M, s, z)
    PROVE  /\ StatesOwned(M, z) /\ z \in BlockTables
           /\ \A n \in 1 .. NStates : Listed(z, n) = Listed(s, n)
<1>1. ASSUME NEW k \in 1 .. NStates PROVE z[k] \in Blocks \cup {NoState} /\ Listed(z, k) = Listed(s, k)
  <2>1. CASE s[k] = NoState
      BY <2>1 DEF Retouched, Listed
  <2>2. CASE s[k] # NoState
    <3>1. z[k] \in Blocks /\ z[k].reqs = s[k].reqs
        BY <2>2 DEF Retouched
    <3>2. z[k] # NoState
        BY <3>1, BlockIs
    <3>3. QED
        BY <2>2, <3>1, <3>2 DEF Listed
  <2>3. QED
      BY <2>1, <2>2
<1>2. z \in BlockTables
    BY <1>1 DEF BlockTables, Retouched
<1>3. ASSUME NEW x \in DOMAIN M.RFDToSocketInfo, State(M, x) # 0
      PROVE  /\ z[State(M, x)] \in Blocks /\ z[State(M, x)].fd = x
             /\ "CLOSE_PENDING" \in z[State(M, x)].masks => Socket(M, x) = INVALID_SOCKET
  <2>1. PICK k : k = State(M, x)
      BY Zenon
  <2>2. k \in 1 .. NStates
      BY <1>3, <2>1, StateIs
  <2>3. s[k] \in Blocks /\ s[k].fd = x /\ ("CLOSE_PENDING" \in s[k].masks => Socket(M, x) = INVALID_SOCKET)
      BY <1>3, <2>1 DEF StatesOwned
  <2>4. s[k] # NoState
      BY <2>3, BlockIs
  <2>5. z[k] \in Blocks /\ z[k].fd = x /\ ("CLOSE_PENDING" \in z[k].masks => "CLOSE_PENDING" \in s[k].masks \/ ~Valid(M, x))
      BY <2>2, <2>3, <2>4 DEF Retouched
  <2>6. QED
      BY <2>1, <2>3, <2>5 DEF Valid
<1>4. ASSUME NEW k \in 1 .. NStates, z[k] # NoState
      PROVE  z[k] \in Blocks /\ z[k].fd \in DOMAIN M.RFDToSocketInfo /\ State(M, z[k].fd) = k
  <2>1. s[k] # NoState
      BY <1>4 DEF Retouched
  <2>2. QED
      BY <2>1 DEF Retouched, StatesOwned
<1>5. QED
    BY <1>1, <1>2, <1>3, <1>4, Zenon DEF StatesOwned

LEMMA NewSocketTypes ==
    ASSUME IInv, NEW t \in Threads, NewSocket(t)
    PROVE  IInv'
<1>1. PICK h \in Handles :
         /\ sock[h] = 0 /\ sock' = [sock EXCEPT ![h] = sockets + 1] /\ sockets' = sockets + 1
         /\ Start(t, "addSocket", -1, h, <<>>)
         /\ UNCHANGED <<m, crt, streams, port, st, io, table, files, lost>>
    BY Zenon DEF NewSocket
<1>2. /\ Types /\ MapGood(m) /\ Opened(m, sock) /\ CrtTables(m, crt) /\ HandlesHeld(m, sock, th)
      /\ CrtHeld(m, crt, streams, th) /\ Closings(m, th) /\ Calling(m, table, th)
      /\ StatesOwned(m, st) /\ Waits(m, st, io, table) /\ Tables(m, sock, crt, table)
    BY Zenon DEF IInv
<1>3. /\ m' = m /\ crt' = crt /\ streams' = streams /\ port' = port /\ st' = st /\ io' = io /\ table' = table /\ files' = files
    BY <1>1
<1>4. WorldTypes(sock, port, st, io, sockets) /\ ThreadTypes(th) /\ crt \in [0 .. MaxCrt -> Nat] /\ files \in Nat
    BY <1>2, Zenon DEF Types
<1>5. sock \in [Handles -> Nat] /\ sockets \in Nat
    BY <1>4, Zenon DEF WorldTypes
<1>6. sock' \in [Handles -> Nat] /\ sockets' \in Nat /\ sock'[h] # 0 /\ \A g \in Handles : g # h => sock'[g] = sock[g]
    BY <1>1, <1>5
<1>7. PICK p : IsPlace(p) /\ p.pc = "addSocket" /\ p.rfd = -1 /\ p.h = h /\ p.c = <<>> /\ Moves(th, th', t, p) /\ th[t].pc = "idle"
  <2>1. "addSocket" \in Places /\ -1 \in Int /\ h \in Handles \cup {INVALID_SOCKET} /\ <<>> \in Seq(Int)
      BY DEF Places
  <2>2. Starts(th, th', t, "addSocket", -1, h, <<>>)
      BY <1>1, <1>4, <2>1, Started, Zenon
  <2>3. QED
      BY <2>2, Zenon DEF Starts
<1>8. h # INVALID_SOCKET
    BY FdAssumption
<1>9. \A r \in DOMAIN m.RFDToSocketInfo : Socket(m, r) # h
    BY <1>1, <1>2, <1>8 DEF Opened, Valid
<1>10. Agree(m, sock, sock')
  <2>1. \A r \in DOMAIN m.RFDToSocketInfo : Valid(m, r) => Socket(m, r) \in Handles
      BY <1>2 DEF MapGood, MapTypes, Infos, Valid, Socket
  <2>2. QED
      BY <1>6, <1>9, <2>1 DEF Agree
<1>11. Opened(m, sock') /\ Tables(m, sock', crt, table)
    BY <1>2, <1>10, Agreeing, Zenon
<1>12. Types'
    BY <1>3, <1>4, <1>6, <1>7, Zenon DEF Types, WorldTypes, Moves
<1>13. HandlesHeld(m, sock', th')
    BY <1>1, <1>2, <1>6, <1>7, <1>9 DEF HandlesHeld, Moves, Holding
<1>14. CrtHeld(m, crt, streams, th') /\ Closings(m, th') /\ Calling(m, table, th')
  <2>1. p.pc \notin {"addCrtFD", "crt_close"} /\ p.pc # "closeState" /\ p.pc # "windows"
      BY <1>7
  <2>2. QED
      BY <1>2, <1>7, <2>1, CrtMoves, ClosingsMove, CallingMoves, Zenon
<1>15. QED
    BY <1>2, <1>3, <1>11, <1>12, <1>13, <1>14, Zenon DEF IInv

(* A thread becomes idle, and nothing else about the threads changes. *)
LEMMA Idles ==
    ASSUME NEW M, NEW sk, NEW ct, NEW str, NEW tb, NEW H, NEW G, NEW t \in Threads, Moves(H, G, t, Idle),
           HandlesHeld(M, sk, H), CrtHeld(M, ct, str, H), Closings(M, H), Calling(M, tb, H)
    PROVE  HandlesHeld(M, sk, G) /\ CrtHeld(M, ct, str, G) /\ Closings(M, G) /\ Calling(M, tb, G)
<1>1. Idle.pc \notin {"addCrtFD", "crt_close"} /\ Idle.pc # "closeState" /\ Idle.pc # "windows" /\ ~Holding(Idle)
    BY IdleIs DEF Holding
<1>2. QED
    BY <1>1, HandlesMove, CrtMoves, ClosingsMove, CallingMoves, Zenon

LEMMA AddSocketTypes ==
    ASSUME IInv, NEW t \in Threads, AddSocket(t)
    PROVE  IInv'
<1>1. PICK h : h = th[t].h
    BY Zenon
<1>2. PICK r : r = AddedSocket(m, h)
    BY Zenon
<1>3. /\ th[t].pc = "addSocket" /\ m' = addSocket(m, h) /\ table' = (IF r = INVALID_FD THEN table ELSE Put(table, r, sock[h]))
      /\ Return(t)
      /\ UNCHANGED <<sock, crt, streams, port, st, io, sockets, files>>
    BY <1>1, <1>2, Zenon DEF AddSocket, At
<1>4. /\ Types /\ MapGood(m) /\ Opened(m, sock) /\ CrtTables(m, crt) /\ HandlesHeld(m, sock, th)
      /\ CrtHeld(m, crt, streams, th) /\ Closings(m, th) /\ Calling(m, table, th)
      /\ StatesOwned(m, st) /\ Waits(m, st, io, table) /\ Tables(m, sock, crt, table)
    BY Zenon DEF IInv
<1>5. /\ sock' = sock /\ crt' = crt /\ streams' = streams /\ port' = port /\ st' = st /\ io' = io /\ files' = files /\ sockets' = sockets
    BY <1>3
<1>6. ThreadTypes(th) /\ Moves(th, th', t, Idle)
    BY <1>3, <1>4, Returned, Zenon DEF Types
<1>7. Types'
    BY <1>4, <1>5, <1>6, Zenon DEF Types, WorldTypes, Moves
<1>8. /\ HandlesHeld(m, sock, th') /\ CrtHeld(m, crt, streams, th') /\ Closings(m, th') /\ Calling(m, table, th')
    BY <1>4, <1>6, Idles, Zenon
<1>9. CASE r = INVALID_FD
  <2>1. m' = m /\ table' = table
      BY <1>2, <1>3, <1>9, SocketNotAdded, Zenon
  <2>2. QED
      BY <1>4, <1>5, <1>7, <1>8, <2>1, Zenon DEF IInv
<1>10. CASE r # INVALID_FD
  <2>1. Holding(th[t])
      BY <1>3 DEF Holding
  <2>2. /\ h \in Handles /\ sock[h] # 0 /\ (\A x \in DOMAIN m.RFDToSocketInfo : Socket(m, x) # h)
        /\ \A u \in Threads : u # t /\ Holding(th[u]) => th[u].h # h
      BY <1>1, <1>4, <2>1, Zenon DEF HandlesHeld
  <2>3. h # INVALID_SOCKET
      BY <2>2, FdAssumption
  <2>4. /\ MapGood(m') /\ SameCrts(m, m') /\ GainsInfo(m, m', r, [socket |-> h, state |-> 0])
      BY <1>2, <1>3, <1>4, <1>10, <2>2, SocketAdded, Zenon
  <2>5. \A u \in Threads : Holding(th'[u]) => th'[u].h # h
    <3>1. ~Holding(Idle)
        BY IdleIs DEF Holding
    <3>2. QED
        BY <1>6, <2>2, <3>1, Zenon DEF Moves
  <2>6. /\ Valid(m', r) /\ Socket(m', r) = h /\ Opened(m', sock) /\ HandlesHeld(m', sock, th')
        /\ StatesOwned(m', st) /\ Closings(m', th')
    <3>1. /\ Valid(m', r) /\ Socket(m', r) = h
          /\ Opened(m, sock) /\ sock[h] # 0 => Opened(m', sock)
          /\ HandlesHeld(m, sock, th') /\ (\A u \in Threads : Holding(th'[u]) => th'[u].h # h) => HandlesHeld(m', sock, th')
          /\ StatesOwned(m, st) => StatesOwned(m', st)
          /\ Closings(m, th') => Closings(m', th')
        BY <2>2, <2>3, <2>4, GainsParts
    <3>2. QED
        BY <1>4, <1>8, <2>2, <2>5, <3>1, Zenon
  <2>7. CrtTables(m', crt) /\ CrtHeld(m', crt, streams, th')
      BY <1>4, <1>8, <2>4, SameCrtParts, Zenon
  <2>8. KeepAll(m, m')
      BY <2>4, GainsKeeps, Zenon
  <2>9. Tables(m', sock, crt, table) /\ Calling(m', table, th') /\ Waits(m', st, io, table)
      BY <1>4, <1>8, <2>8, AllKept, Zenon
  <2>10. /\ \A o \in Accepts(io) : o.acc # r
         /\ \A n \in 1 .. NStates : \A i \in DOMAIN Listed(st, n) : Listed(st, n)[i] # r
    <3>1. ~Valid(m, r)
        BY <2>4 DEF GainsInfo, Valid
    <3>2. Waits(m, st, io, table)
        BY <1>4
    <3>3. /\ \A o \in Accepts(io) : Valid(m, o.acc)
          /\ \A n \in 1 .. NStates : \A i \in DOMAIN Listed(st, n) : Valid(m, Listed(st, n)[i])
        BY <3>2, Zenon DEF Waits
    <3>4. QED
        BY <3>1, <3>3, Zenon
  <2>11. table' = Put(table, r, sock[h])
      BY <1>3, <1>10, Zenon
  <2>12. Tables(m', sock, crt, table') /\ Calling(m', table', th') /\ Waits(m', st, io, table')
      BY <2>6, <2>9, <2>10, <2>11, HandedOut, Zenon
  <2>13. QED
      BY <1>5, <1>7, <2>4, <2>6, <2>7, <2>12, Zenon DEF IInv
<1>11. QED
    BY <1>9, <1>10

LEMMA FDAPI_closeTypes ==
    ASSUME IInv, NEW t \in Threads, FDAPI_close(t)
    PROVE  IInv'
<1>1. PICK r \in Usable(t) :
         /\ r \in DOMAIN m.RFDToSocketInfo /\ lookupSocket(m, r) # INVALID_SOCKET
         /\ m' = [m EXCEPT !.RFDToSocketInfo[r].socket = INVALID_SOCKET]
         /\ table' = Erase(table, r)
         /\ Start(t, "closeState", r, lookupSocket(m, r), <<>>)
         /\ UNCHANGED <<sock, crt, streams, port, st, io, sockets, files, lost>>
    BY Zenon DEF FDAPI_close
<1>2. /\ Types /\ MapGood(m) /\ Opened(m, sock) /\ CrtTables(m, crt) /\ HandlesHeld(m, sock, th)
      /\ CrtHeld(m, crt, streams, th) /\ Closings(m, th) /\ Calling(m, table, th)
      /\ StatesOwned(m, st) /\ Waits(m, st, io, table) /\ Tables(m, sock, crt, table)
    BY Zenon DEF IInv
<1>3. /\ sock' = sock /\ crt' = crt /\ streams' = streams /\ port' = port /\ st' = st /\ io' = io /\ files' = files /\ sockets' = sockets
    BY <1>1
<1>4. r \in DOMAIN table /\ Unused(th, r) /\ (t = Loop \/ StateAt(r) = 0)
    BY UsableIs, Zenon
<1>5. PICK h : h = Socket(m, r)
    BY Zenon
<1>6. Valid(m, r) /\ lookupSocket(m, r) = h
    BY <1>1, <1>5, LookedUp, Zenon
<1>7. PICK n : n = State(m, r)
    BY Zenon
<1>8. m.RFDToSocketInfo[r] \in Infos /\ h \in Handles /\ r \in Nat /\ n \in 0 .. NStates
    BY <1>1, <1>2, <1>5, <1>6, <1>7 DEF MapGood, MapTypes, Names, Infos, Valid, Socket, State
<1>9. PICK v : v = [socket |-> INVALID_SOCKET, state |-> n]
    BY Zenon
<1>10. v \in Infos
    BY <1>8, <1>9 DEF Infos
<1>11. [m.RFDToSocketInfo[r] EXCEPT !.socket = INVALID_SOCKET] = v
    BY <1>7, <1>8, <1>9 DEF Infos, State
<1>12. m' = [m EXCEPT !.RFDToSocketInfo = [@ EXCEPT ![r] = v]]
    BY <1>1, <1>11
<1>13. MapGood(m') /\ SameCrts(m, m') /\ SetsInfo(m, m', r, v)
    BY <1>1, <1>2, <1>10, <1>12, InfoSet
<1>14. PICK p : IsPlace(p) /\ p.pc = "closeState" /\ p.rfd = r /\ p.h = h /\ p.c = <<>> /\ Moves(th, th', t, p) /\ th[t].pc = "idle"
  <2>1. "closeState" \in Places /\ r \in Int /\ h \in Handles \cup {INVALID_SOCKET} /\ <<>> \in Seq(Int)
      BY <1>8 DEF Places
  <2>2. Start(t, "closeState", r, h, <<>>) /\ ThreadTypes(th)
      BY <1>1, <1>2, <1>6, Zenon DEF Types
  <2>3. Starts(th, th', t, "closeState", r, h, <<>>)
      BY <2>1, <2>2, Started, Zenon
  <2>4. QED
      BY <2>3, Zenon DEF Starts
<1>15. Types'
    BY <1>2, <1>3, <1>14, Zenon DEF Types, WorldTypes, Moves
<1>16. /\ Socket(m', r) = INVALID_SOCKET /\ State(m', r) = n
       /\ Opened(m, sock) /\ Valid(m, r) => Opened(m', sock) /\ \A x \in DOMAIN m'.RFDToSocketInfo : Socket(m', x) # Socket(m, r)
       /\ HandlesHeld(m, sock, th) => HandlesHeld(m', sock, th)
       /\ StatesOwned(m, st) => StatesOwned(m', st)
       /\ Closings(m, th) => Closings(m', th)
  <2>1. SetsInfo(m, m', r, [socket |-> INVALID_SOCKET, state |-> State(m, r)])
      BY <1>7, <1>9, <1>13
  <2>2. PICK G : G = m'
      BY Zenon
  <2>3. /\ Socket(G, r) = INVALID_SOCKET /\ State(G, r) = State(m, r)
        /\ Opened(m, sock) /\ Valid(m, r) => Opened(G, sock) /\ \A x \in DOMAIN G.RFDToSocketInfo : Socket(G, x) # Socket(m, r)
        /\ HandlesHeld(m, sock, th) => HandlesHeld(G, sock, th)
        /\ StatesOwned(m, st) => StatesOwned(G, st)
        /\ Closings(m, th) => Closings(G, th)
    <3>1. SetsInfo(m, G, r, [socket |-> INVALID_SOCKET, state |-> State(m, r)]) /\ r \in DOMAIN m.RFDToSocketInfo
        BY <1>1, <2>1, <2>2
    <3>2. QED
        BY <3>1, MarkedParts
  <2>4. QED
      BY <1>7, <2>2, <2>3, Zenon
<1>17. HandlesHeld(m', sock, th')
  <2>1. sock[h] # 0 /\ \A u \in Threads : u # t /\ Holding(th[u]) => th[u].h # h
      BY <1>1, <1>2, <1>5, <1>6 DEF Opened, HandlesHeld
  <2>2. \A x \in DOMAIN m'.RFDToSocketInfo : Socket(m', x) # p.h
      BY <1>2, <1>5, <1>6, <1>14, <1>16, Zenon
  <2>3. p.h \in Handles /\ sock[p.h] # 0 /\ \A u \in Threads : u # t /\ Holding(th[u]) => th[u].h # p.h
      BY <1>8, <1>14, <2>1, Zenon
  <2>4. HandlesHeld(m', sock, th)
      BY <1>2, <1>16, Zenon
  <2>5. QED
      BY <1>14, <2>2, <2>3, <2>4, HandleTaken
<1>18. Closings(m', th')
  <2>1. r \in DOMAIN m'.RFDToSocketInfo
      BY <1>1, <1>13 DEF SetsInfo
  <2>2. t # Loop => State(m', r) = 0
      BY <1>1, <1>4, <1>7, <1>16 DEF StateAt, State
  <2>3. \A u \in Threads : th[u].rfd # r
      BY <1>4 DEF Unused
  <2>4. th'[t].pc = "closeState" /\ th'[t].rfd = r /\ \A u \in Threads : u # t => th'[u] = th[u]
      BY <1>14, Zenon DEF Moves
  <2>5. Closings(m', th)
      BY <1>2, <1>16, Zenon
  <2>6. QED
      BY <1>16, <2>1, <2>2, <2>3, <2>4, <2>5 DEF Closings
<1>19. CrtTables(m', crt) /\ CrtHeld(m', crt, streams, th')
  <2>1. p.pc \notin {"addCrtFD", "crt_close"}
      BY <1>14
  <2>2. CrtHeld(m, crt, streams, th')
      BY <1>2, <1>14, <2>1, CrtMoves, Zenon
  <2>3. QED
      BY <1>2, <1>13, <2>2, SameCrtParts, Zenon
<1>20. KeepBut(m, m', r) /\ Less(table, table', r)
    BY <1>1, <1>13, SetsKeeps, ErasedIsLess, Zenon
<1>21. Tables(m', sock, crt, table') /\ Calling(m', table', th) /\ Waits(m', st, io, table')
    BY <1>2, <1>4, <1>20, RestKept, Zenon
<1>22. Calling(m', table', th')
  <2>1. p.pc # "windows"
      BY <1>14
  <2>2. QED
      BY <1>14, <1>21, <2>1, CallingMoves, Zenon
<1>23. Opened(m', sock) /\ StatesOwned(m', st)
    BY <1>2, <1>6, <1>16, Zenon
<1>24. QED
    BY <1>3, <1>13, <1>15, <1>17, <1>18, <1>19, <1>21, <1>22, <1>23, Zenon DEF IInv

LEMMA CloseStateTypes ==
    ASSUME IInv, NEW t \in Threads, CloseState(t)
    PROVE  IInv'
<1>1. PICK r : r = th[t].rfd
    BY Zenon
<1>2. PICK n : n = StateAt(r)
    BY Zenon
<1>3. /\ th[t].pc = "closeState"
      /\ st' = (IF n = 0 THEN st ELSE WSIOCP_CloseSocketState(st, n))
      /\ m' = (IF n = 0 \/ Closable(st[n]) THEN removeRFDToSocketInfo(m, r) ELSE m)
      /\ th' = [th EXCEPT ![t].pc = "removeSocket", ![t].rfd = -1]
      /\ UNCHANGED <<sock, crt, streams, port, io, table, sockets, files>>
    BY <1>1, <1>2, Zenon DEF CloseState, At
<1>4. /\ Types /\ MapGood(m) /\ Opened(m, sock) /\ CrtTables(m, crt) /\ HandlesHeld(m, sock, th)
      /\ CrtHeld(m, crt, streams, th) /\ Closings(m, th) /\ Calling(m, table, th)
      /\ StatesOwned(m, st) /\ Waits(m, st, io, table) /\ Tables(m, sock, crt, table)
    BY Zenon DEF IInv
<1>5. /\ sock' = sock /\ crt' = crt /\ streams' = streams /\ port' = port /\ io' = io /\ files' = files /\ sockets' = sockets
      /\ table' = table
    BY <1>3
<1>6. ThreadTypes(th) /\ WorldTypes(sock, port, st, io, sockets) /\ st \in BlockTables
    BY <1>4, Zenon DEF Types, WorldTypes, BlockTables
<1>7. PICK p : IsPlace(p) /\ p.pc = "removeSocket" /\ p.rfd = -1 /\ p.h = th[t].h /\ Moves(th, th', t, p)
  <2>1. PICK o : o = th[t]
      BY Zenon
  <2>2. IsPlace(o) /\ th = [u \in Threads |-> th[u]]
      BY <1>6, <2>1, Zenon DEF ThreadTypes
  <2>3. PICK p : p = [o EXCEPT !.pc = "removeSocket", !.rfd = -1]
      BY Zenon
  <2>4. th' = [th EXCEPT ![t] = p]
      BY <1>3, <2>1, <2>2, <2>3
  <2>5. p.pc = "removeSocket" /\ p.rfd = -1 /\ p.h = o.h /\ p.c = o.c /\ p = [pc |-> p.pc, rfd |-> p.rfd, h |-> p.h, c |-> p.c]
      BY <2>2, <2>3 DEF IsPlace
  <2>6. p.pc \in Places /\ p.rfd \in Int /\ o.h \in Handles \cup {INVALID_SOCKET} /\ o.c \in Seq(Int)
      BY <2>2, <2>5 DEF IsPlace, Places
  <2>7. IsPlace(p)
      BY <2>5, <2>6, Zenon DEF IsPlace
  <2>8. QED
      BY <1>6, <2>1, <2>4, <2>5, <2>7, MoveIs, Zenon
<1>8. /\ r \in DOMAIN m.RFDToSocketInfo /\ Socket(m, r) = INVALID_SOCKET /\ ~Valid(m, r)
      /\ \A u \in Threads : u # t /\ th[u].pc = "closeState" => th[u].rfd # r
    BY <1>1, <1>3, <1>4 DEF Closings, Valid
<1>9. n = State(m, r) /\ (n # 0 => n \in 1 .. NStates)
    BY <1>2, <1>4, <1>8, StateIs DEF StateAt, State
<1>10. /\ HandlesHeld(m, sock, th') /\ CrtHeld(m, crt, streams, th') /\ Closings(m, th') /\ Calling(m, table, th')
  <2>1. p.pc \notin {"addCrtFD", "crt_close"} /\ p.pc # "closeState" /\ p.pc # "windows" /\ Holding(th[t])
      BY <1>3, <1>7 DEF Holding
  <2>2. QED
      BY <1>4, <1>7, <2>1, HandlesMove, CrtMoves, ClosingsMove, CallingMoves, Zenon
<1>11. \A u \in Threads : th'[u].pc = "closeState" => th'[u].rfd # r
    BY <1>7, <1>8 DEF Moves
<1>12. PICK G : G = m'
    BY Zenon
<1>13. PICK z : z = st'
    BY Zenon
<1>14. (n = 0 \/ Closable(st[n])) => MapGood(G) /\ SameCrts(m, G) /\ LosesInfo(m, G, r)
    BY <1>3, <1>4, <1>8, <1>12, InfoRemoved
<1>15. LosesInfo(m, G, r) /\ SameCrts(m, G) => KeepAll(m, G)
  <2>1. r \notin DOMAIN m.RFDToCrtFD
      BY <1>4, <1>8 DEF MapGood, Disjoint
  <2>2. ~Valid(m, r)
      BY <1>8
  <2>3. QED
      BY <2>1, <2>2, LosesKeeps DEF KeepAll, KeepBut, Keep
<1>16. ASSUME LosesInfo(m, G, r), SameCrts(m, G), MapGood(G), StatesOwned(G, z), z \in BlockTables,
              \A k \in 1 .. NStates : Listed(z, k) = Listed(st, k) \/ Listed(z, k) = <<>>
       PROVE  IInv'
  <2>1. Opened(G, sock) /\ HandlesHeld(G, sock, th') /\ Closings(G, th')
    <3>1. /\ Opened(m, sock) => Opened(G, sock)
          /\ HandlesHeld(m, sock, th') => HandlesHeld(G, sock, th')
          /\ Closings(m, th') /\ (\A u \in Threads : th'[u].pc = "closeState" => th'[u].rfd # r) => Closings(G, th')
        BY <1>16, RemovedParts
    <3>2. QED
        BY <1>4, <1>10, <1>11, <3>1, Zenon
  <2>2. CrtTables(G, crt) /\ CrtHeld(G, crt, streams, th')
      BY <1>4, <1>10, <1>16, SameCrtParts, Zenon
  <2>3. Tables(G, sock, crt, table) /\ Calling(G, table, th') /\ Waits(G, st, io, table)
      BY <1>4, <1>10, <1>15, <1>16, AllKept, Zenon
  <2>4. Waits(G, z, io, table)
      BY <1>16, <2>3, FewerListed, Zenon
  <2>5. Types'
      BY <1>4, <1>5, <1>6, <1>7, <1>13, <1>16, Zenon DEF Types, WorldTypes, Moves, BlockTables
  <2>6. QED
      BY <1>5, <1>12, <1>13, <1>16, <2>1, <2>2, <2>3, <2>4, <2>5, Zenon DEF IInv
<1>17. CASE n = 0
  <2>1. z = st
      BY <1>3, <1>13, <1>17
  <2>2. LosesInfo(m, G, r) /\ SameCrts(m, G) /\ MapGood(G)
      BY <1>14, <1>17
  <2>3. StatesOwned(G, st)
      BY <1>4, <1>8, <1>9, <1>17, <2>2, RemovedParts
  <2>4. QED
      BY <1>6, <1>16, <2>1, <2>2, <2>3, Zenon
<1>18. CASE n # 0 /\ Closable(st[n])
  <2>1. z = [st EXCEPT ![n] = NoState]
      BY <1>3, <1>13, <1>18 DEF WSIOCP_CloseSocketState
  <2>2. LosesInfo(m, G, r) /\ SameCrts(m, G) /\ MapGood(G)
      BY <1>14, <1>18
  <2>3. StatesOwned(G, z) /\ z \in BlockTables
      BY <1>4, <1>6, <1>8, <1>9, <1>18, <2>1, <2>2, FreedParts
  <2>4. \A k \in 1 .. NStates : Listed(z, k) = Listed(st, k) \/ Listed(z, k) = <<>>
      BY <1>6, <1>9, <1>18, <2>1 DEF Listed, BlockTables
  <2>5. QED
      BY <1>16, <2>2, <2>3, <2>4, Zenon
<1>19. CASE n # 0 /\ ~Closable(st[n])
  <2>1. G = m
      BY <1>3, <1>12, <1>19
  <2>2. PICK b : b = st[n]
      BY Zenon
  <2>3. b \in Blocks /\ b.fd = r
      BY <1>4, <1>8, <1>9, <1>19, <2>2 DEF StatesOwned
  <2>4. PICK d : d = Marked(b)
      BY Zenon
  <2>5. z = [st EXCEPT ![n] = d]
      BY <1>3, <1>13, <1>19, <2>2, <2>4 DEF WSIOCP_CloseSocketState
  <2>6. d \in Blocks /\ d.fd = b.fd /\ d.reqs = b.reqs
      BY <2>3, <2>4 DEF Blocks, Masks, Marked
  <2>7. z = [k \in 1 .. NStates |-> z[k]] /\ z[n] = d /\ \A k \in 1 .. NStates : k # n => z[k] = st[k]
      BY <1>6, <1>9, <1>19, <2>5 DEF BlockTables
  <2>8. Retouched(m, st, z)
    <3>1. \A k \in 1 .. NStates : st[k] # NoState => st[k] \in Blocks
        BY <1>4 DEF StatesOwned
    <3>2. b # NoState
        BY <2>3, BlockIs
    <3>3. QED
        BY <1>8, <2>2, <2>3, <2>6, <2>7, <3>1, <3>2 DEF Retouched
  <2>9. StatesOwned(m, z) /\ z \in BlockTables /\ \A k \in 1 .. NStates : Listed(z, k) = Listed(st, k)
    <3>1. MapGood(m) /\ st \in BlockTables /\ StatesOwned(m, st) /\ Retouched(m, st, z)
        BY <1>4, <1>6, <2>8
    <3>2. QED
        BY <3>1, RetouchedParts
  <2>10. Waits(m, z, io, table)
      BY <1>4, <2>9, FewerListed, Zenon
  <2>11. Types'
      BY <1>4, <1>5, <1>6, <1>7, <1>13, <2>9, Zenon DEF Types, WorldTypes, Moves, BlockTables
  <2>12. QED
      BY <1>4, <1>5, <1>10, <1>12, <1>13, <2>1, <2>9, <2>10, <2>11, Zenon DEF IInv
<1>20. QED
    BY <1>17, <1>18, <1>19

LEMMA RemoveSocketTypes ==
    ASSUME IInv, NEW t \in Threads, RemoveSocket(t)
    PROVE  IInv'
<1>1. /\ th[t].pc = "removeSocket" /\ m' = removeSocketToRFD(m, th[t].h) /\ Go(t, "closesocket")
      /\ UNCHANGED <<sock, crt, streams, port, st, io, table, sockets, files, lost>>
    BY Zenon DEF RemoveSocket, At
<1>2. /\ Types /\ MapGood(m) /\ Opened(m, sock) /\ CrtTables(m, crt) /\ HandlesHeld(m, sock, th)
      /\ CrtHeld(m, crt, streams, th) /\ Closings(m, th) /\ Calling(m, table, th)
      /\ StatesOwned(m, st) /\ Waits(m, st, io, table) /\ Tables(m, sock, crt, table)
    BY Zenon DEF IInv
<1>3. /\ sock' = sock /\ crt' = crt /\ streams' = streams /\ port' = port /\ st' = st /\ io' = io /\ files' = files /\ sockets' = sockets
      /\ table' = table
    BY <1>1
<1>4. MapGood(m') /\ SameCrts(m, m') /\ SameInfos(m, m')
    BY <1>1, <1>2, Forgotten
<1>5. PICK p : IsPlace(p) /\ p.pc = "closesocket" /\ p.h = th[t].h /\ Moves(th, th', t, p)
  <2>1. "closesocket" \in Places /\ ThreadTypes(th)
      BY <1>2, Zenon DEF Places, Types
  <2>2. QED
      BY <1>1, <2>1, Went, Zenon
<1>6. Types'
    BY <1>2, <1>3, <1>5, Zenon DEF Types, WorldTypes, Moves
<1>7. HandlesHeld(m, sock, th') /\ CrtHeld(m, crt, streams, th') /\ Closings(m, th') /\ Calling(m, table, th')
  <2>1. p.pc \notin {"addCrtFD", "crt_close"} /\ p.pc # "closeState" /\ p.pc # "windows" /\ Holding(th[t])
      BY <1>1, <1>5 DEF Holding
  <2>2. QED
      BY <1>2, <1>5, <2>1, HandlesMove, CrtMoves, ClosingsMove, CallingMoves, Zenon
<1>8. KeepAll(m, m')
    BY <1>4, SameKeeps, Zenon
<1>9. /\ CrtTables(m', crt) /\ CrtHeld(m', crt, streams, th')
      /\ Tables(m', sock, crt, table) /\ Calling(m', table, th') /\ Waits(m', st, io, table)
      /\ Opened(m', sock) /\ HandlesHeld(m', sock, th') /\ StatesOwned(m', st) /\ Closings(m', th')
    BY <1>2, <1>4, <1>7, <1>8, SameCrtParts, SameInfoParts, AllKept, Zenon
<1>10. QED
    BY <1>3, <1>4, <1>6, <1>9, Zenon DEF IInv

LEMMA CloseSocketTypes ==
    ASSUME IInv, NEW t \in Threads, CloseSocket(t)
    PROVE  IInv'
<1>1. PICK h : h = th[t].h
    BY Zenon
<1>2. /\ th[t].pc = "closesocket" /\ sock' = [sock EXCEPT ![h] = 0] /\ port' = [port EXCEPT ![h] = -1] /\ Return(t)
      /\ UNCHANGED <<m, crt, streams, st, io, table, sockets, files, lost>>
    BY <1>1, Zenon DEF CloseSocket, At
<1>3. /\ Types /\ MapGood(m) /\ Opened(m, sock) /\ CrtTables(m, crt) /\ HandlesHeld(m, sock, th)
      /\ CrtHeld(m, crt, streams, th) /\ Closings(m, th) /\ Calling(m, table, th)
      /\ StatesOwned(m, st) /\ Waits(m, st, io, table) /\ Tables(m, sock, crt, table)
    BY Zenon DEF IInv
<1>4. /\ m' = m /\ crt' = crt /\ streams' = streams /\ st' = st /\ io' = io /\ files' = files /\ sockets' = sockets
      /\ table' = table
    BY <1>2
<1>5. WorldTypes(sock, port, st, io, sockets) /\ ThreadTypes(th) /\ crt \in [0 .. MaxCrt -> Nat] /\ files \in Nat
    BY <1>3, Zenon DEF Types
<1>6. Holding(th[t])
    BY <1>2 DEF Holding
<1>7. /\ h \in Handles /\ (\A r \in DOMAIN m.RFDToSocketInfo : Socket(m, r) # h)
      /\ \A u \in Threads : u # t /\ Holding(th[u]) => th[u].h # h
    BY <1>1, <1>3, <1>6, Zenon DEF HandlesHeld
<1>8. sock \in [Handles -> Nat] /\ port \in [Handles -> Int]
    BY <1>5, Zenon DEF WorldTypes
<1>9. sock' \in [Handles -> Nat] /\ port' \in [Handles -> Int] /\ \A g \in Handles : g # h => sock'[g] = sock[g]
  <2>1. sock' \in [Handles -> Nat] /\ \A g \in Handles : g # h => sock'[g] = sock[g]
      BY <1>2, <1>8
  <2>2. port' \in [Handles -> Int]
    <3>1. PICK k : k = -1 /\ k \in Int
        OBVIOUS
    <3>2. port' = [port EXCEPT ![h] = k]
        BY <1>2, <3>1
    <3>3. QED
        BY <1>8, <3>1, <3>2
  <2>3. QED
      BY <2>1, <2>2
<1>10. Moves(th, th', t, Idle)
    BY <1>2, <1>5, Returned, Zenon
<1>11. Types'
    BY <1>4, <1>5, <1>9, <1>10, Zenon DEF Types, WorldTypes, Moves
<1>12. /\ HandlesHeld(m, sock, th') /\ CrtHeld(m, crt, streams, th') /\ Closings(m, th') /\ Calling(m, table, th')
    BY <1>3, <1>10, Idles, Zenon
<1>13. Agree(m, sock, sock')
  <2>1. \A r \in DOMAIN m.RFDToSocketInfo : Valid(m, r) => Socket(m, r) \in Handles
      BY <1>3 DEF MapGood, MapTypes, Infos, Valid, Socket
  <2>2. QED
      BY <1>7, <1>9, <2>1 DEF Agree
<1>14. Opened(m, sock') /\ Tables(m, sock', crt, table)
    BY <1>3, <1>13, Agreeing, Zenon
<1>15. HandlesHeld(m, sock', th')
  <2>1. \A u \in Threads : Holding(th'[u]) => u # t /\ th'[u] = th[u]
    <3>1. ~Holding(Idle)
        BY IdleIs DEF Holding
    <3>2. QED
        BY <1>10, <3>1 DEF Moves
  <2>2. QED
      BY <1>7, <1>9, <1>12, <2>1 DEF HandlesHeld
<1>16. QED
    BY <1>3, <1>4, <1>11, <1>12, <1>14, <1>15, Zenon DEF IInv

LEMMA FDAPI_CloseDuplicatedSocketTypes ==
    ASSUME IInv, NEW t \in Threads, FDAPI_CloseDuplicatedSocket(t)
    PROVE  IInv'
<1>1. PICK r \in Usable(t) :
         /\ lookupSocket(m, r) # INVALID_SOCKET /\ StateAt(r) = 0
         /\ m' = removeRFDToSocketInfo(m, r) /\ table' = Erase(table, r)
         /\ Start(t, "removeSocket", -1, lookupSocket(m, r), <<>>)
         /\ UNCHANGED <<sock, crt, streams, port, st, io, sockets, files, lost>>
    BY Zenon DEF FDAPI_CloseDuplicatedSocket
<1>2. /\ Types /\ MapGood(m) /\ Opened(m, sock) /\ CrtTables(m, crt) /\ HandlesHeld(m, sock, th)
      /\ CrtHeld(m, crt, streams, th) /\ Closings(m, th) /\ Calling(m, table, th)
      /\ StatesOwned(m, st) /\ Waits(m, st, io, table) /\ Tables(m, sock, crt, table)
    BY Zenon DEF IInv
<1>3. /\ sock' = sock /\ crt' = crt /\ streams' = streams /\ port' = port /\ st' = st /\ io' = io /\ files' = files /\ sockets' = sockets
    BY <1>1
<1>4. r \in DOMAIN table /\ Unused(th, r)
    BY UsableIs, Zenon
<1>5. PICK h : h = Socket(m, r)
    BY Zenon
<1>6. Valid(m, r) /\ lookupSocket(m, r) = h /\ r \in DOMAIN m.RFDToSocketInfo
    BY <1>1, <1>5, LookedUp, Zenon DEF Valid
<1>7. h \in Handles /\ State(m, r) = 0
  <2>1. h \in Handles \cup {INVALID_SOCKET} /\ h # INVALID_SOCKET
      BY <1>2, <1>5, <1>6, StateIs DEF Valid
  <2>2. QED
      BY <1>1, <1>6, <2>1 DEF StateAt, State
<1>8. MapGood(m') /\ SameCrts(m, m') /\ LosesInfo(m, m', r)
    BY <1>1, <1>2, <1>6, InfoRemoved
<1>9. PICK p : IsPlace(p) /\ p.pc = "removeSocket" /\ p.rfd = -1 /\ p.h = h /\ Moves(th, th', t, p) /\ th[t].pc = "idle"
  <2>1. "removeSocket" \in Places /\ -1 \in Int /\ h \in Handles \cup {INVALID_SOCKET} /\ <<>> \in Seq(Int)
      BY <1>7 DEF Places
  <2>2. Start(t, "removeSocket", -1, h, <<>>) /\ ThreadTypes(th)
      BY <1>1, <1>2, <1>6, Zenon DEF Types
  <2>3. Starts(th, th', t, "removeSocket", -1, h, <<>>)
      BY <2>1, <2>2, Started, Zenon
  <2>4. QED
      BY <2>3, Zenon DEF Starts
<1>10. Types'
    BY <1>2, <1>3, <1>9, Zenon DEF Types, WorldTypes, Moves
<1>11. Opened(m', sock) /\ HandlesHeld(m', sock, th) /\ StatesOwned(m', st) /\ Closings(m', th)
  <2>1. \A u \in Threads : th[u].pc = "closeState" => th[u].rfd # r
      BY <1>4 DEF Unused
  <2>2. PICK G : G = m'
      BY Zenon
  <2>3. /\ Opened(m, sock) => Opened(G, sock)
        /\ HandlesHeld(m, sock, th) => HandlesHeld(G, sock, th)
        /\ StatesOwned(m, st) /\ r \in DOMAIN m.RFDToSocketInfo /\ State(m, r) = 0 => StatesOwned(G, st)
        /\ Closings(m, th) /\ (\A u \in Threads : th[u].pc = "closeState" => th[u].rfd # r) => Closings(G, th)
      BY <1>8, <2>2, RemovedParts
  <2>4. QED
      BY <1>2, <1>6, <1>7, <2>1, <2>2, <2>3, Zenon
<1>12. HandlesHeld(m', sock, th')
  <2>1. sock[h] # 0 /\ \A u \in Threads : u # t /\ Holding(th[u]) => th[u].h # h
      BY <1>2, <1>5, <1>6 DEF Opened, HandlesHeld
  <2>2. \A x \in DOMAIN m'.RFDToSocketInfo : Socket(m', x) # h
    <3>1. \A x \in DOMAIN m'.RFDToSocketInfo : x \in DOMAIN m.RFDToSocketInfo /\ x # r /\ Socket(m', x) = Socket(m, x)
        BY <1>8 DEF LosesInfo, Socket
    <3>2. \A x \in DOMAIN m.RFDToSocketInfo : x # r => Socket(m, x) # h
        BY <1>2, <1>5, <1>6 DEF Opened, Valid
    <3>3. QED
        BY <3>1, <3>2, Zenon
  <2>3. /\ p.h \in Handles /\ sock[p.h] # 0 /\ (\A x \in DOMAIN m'.RFDToSocketInfo : Socket(m', x) # p.h)
        /\ \A u \in Threads : u # t /\ Holding(th[u]) => th[u].h # p.h
      BY <1>7, <1>9, <2>1, <2>2, Zenon
  <2>4. QED
      BY <1>9, <1>11, <2>3, HandleTaken
<1>13. p.pc \notin {"addCrtFD", "crt_close"} /\ p.pc # "closeState" /\ p.pc # "windows"
    BY <1>9
<1>14. Closings(m', th') /\ CrtHeld(m, crt, streams, th')
    BY <1>2, <1>9, <1>11, <1>13, ClosingsMove, CrtMoves, Zenon
<1>15. CrtTables(m', crt) /\ CrtHeld(m', crt, streams, th')
    BY <1>2, <1>8, <1>14, SameCrtParts, Zenon
<1>16. KeepBut(m, m', r) /\ Less(table, table', r)
    BY <1>1, <1>8, LosesKeeps, ErasedIsLess, Zenon
<1>17. Tables(m', sock, crt, table') /\ Calling(m', table', th) /\ Waits(m', st, io, table')
    BY <1>2, <1>4, <1>16, RestKept, Zenon
<1>18. Calling(m', table', th')
    BY <1>9, <1>13, <1>17, CallingMoves, Zenon
<1>19. QED
    BY <1>3, <1>8, <1>10, <1>11, <1>12, <1>14, <1>15, <1>17, <1>18, Zenon DEF IInv

(* A descriptor handed out is in one of the two tables. *)
LEMMA CallsAre ==
    ASSUME MapGood(m), CrtTables(m, crt), Tables(m, sock, crt, table), NEW r \in DOMAIN table, NEW x \in Calls(r)
    PROVE  \/ x.h = Socket(m, r) /\ x.c = <<>> /\ Valid(m, r)
           \/ x.h = INVALID_SOCKET /\ r \in DOMAIN m.RFDToCrtFD /\ x.c = <<m.RFDToCrtFD[r]>> /\ m.RFDToCrtFD[r] \in Int
<1>1. Valid(m, r) \/ r \in DOMAIN m.RFDToCrtFD
    BY DEF Tables
<1>2. r \in DOMAIN m.RFDToSocketInfo => r \notin DOMAIN m.RFDToCrtFD
    BY DEF MapGood, Disjoint
<1>3. CASE Valid(m, r)
  <2>1. r \in DOMAIN m.RFDToSocketInfo /\ lookupSocket(m, r) = Socket(m, r) /\ lookupSocket(m, r) # INVALID_SOCKET
      BY <1>3 DEF lookupSocket, Valid, Socket
  <2>2. PICK y : y = [h |-> Socket(m, r), c |-> <<>>, result |-> 0]
      BY Zenon
  <2>3. \A bad : OnSocket(r, bad) = y
      BY <2>1, <2>2 DEF OnSocket
  <2>4. IsSocket(r)
      BY <2>1 DEF IsSocket
  <2>5. x = y
      BY <2>3, <2>4, Zenon DEF Calls, FDAPI_WSAGetOverlappedResult, FDAPI_WSADuplicateSocket, FDAPI_WSAIoctl, FDAPI_setsockopt,
        FDAPI_getsockopt, FDAPI_connect, FDAPI_listen, FDAPI_bind, FDAPI_getpeername,
        FDAPI_getsockname, FDAPI_fcntl, FDAPI_poll, FDAPI_select, FDAPI_read, FDAPI_write
  <2>6. QED
      BY <1>3, <2>2, <2>5
<1>4. CASE r \in DOMAIN m.RFDToCrtFD
  <2>1. r \notin DOMAIN m.RFDToSocketInfo /\ lookupSocket(m, r) = INVALID_SOCKET
      BY <1>2, <1>4 DEF lookupSocket
  <2>2. m.RFDToCrtFD[r] \in 0 .. MaxCrt
      BY <1>4 DEF CrtTables
  <2>3. lookupCrtFD(m, r) = m.RFDToCrtFD[r] /\ lookupCrtFD(m, r) # INVALID_FD /\ m.RFDToCrtFD[r] \in Int
      BY <1>4, <2>2, FdAssumption DEF lookupCrtFD, INVALID_FD
  <2>4. PICK y : y = [h |-> INVALID_SOCKET, c |-> <<m.RFDToCrtFD[r]>>, result |-> 0]
      BY Zenon
  <2>5. \A bad : OnCrt(r, bad) = y
      BY <2>3, <2>4 DEF OnCrt
  <2>6. \A bad : OnSocket(r, bad) = bad
      BY <2>1 DEF OnSocket
  <2>7. ~IsSocket(r)
      BY <2>1 DEF IsSocket
  <2>8. x = y
      BY <2>5, <2>6, <2>7, Zenon DEF Calls, FDAPI_fsync, FDAPI_fstat64, FDAPI_ftruncate, FDAPI_isatty, FDAPI_lseek64,
        FDAPI_get_osfhandle, FDAPI_PipeSetNonBlock, FDAPI_read, FDAPI_write
  <2>9. QED
      BY <1>4, <2>3, <2>4, <2>8
<1>5. QED
    BY <1>1, <1>3, <1>4

LEMMA CallTypes ==
    ASSUME IInv, NEW t \in Threads, Call(t)
    PROVE  IInv'
<1>1. PICK r \in Usable(t) : \E x \in Calls(r) :
         /\ Start(t, "windows", r, x.h, x.c)
         /\ UNCHANGED <<m, sock, crt, streams, port, st, io, table, sockets, files, lost>>
    BY Zenon DEF Call
<1>2. PICK x \in Calls(r) :
         /\ Start(t, "windows", r, x.h, x.c)
         /\ UNCHANGED <<m, sock, crt, streams, port, st, io, table, sockets, files, lost>>
    BY <1>1, Zenon
<1>3. /\ Types /\ MapGood(m) /\ Opened(m, sock) /\ CrtTables(m, crt) /\ HandlesHeld(m, sock, th)
      /\ CrtHeld(m, crt, streams, th) /\ Closings(m, th) /\ Calling(m, table, th)
      /\ StatesOwned(m, st) /\ Waits(m, st, io, table) /\ Tables(m, sock, crt, table)
    BY Zenon DEF IInv
<1>4. /\ m' = m /\ sock' = sock /\ crt' = crt /\ streams' = streams /\ port' = port /\ st' = st /\ io' = io /\ files' = files
      /\ sockets' = sockets /\ table' = table
    BY <1>2
<1>5. r \in DOMAIN table
    BY UsableIs, Zenon
<1>6. \/ x.h = Socket(m, r) /\ x.c = <<>> /\ Valid(m, r)
      \/ x.h = INVALID_SOCKET /\ r \in DOMAIN m.RFDToCrtFD /\ x.c = <<m.RFDToCrtFD[r]>> /\ m.RFDToCrtFD[r] \in Int
    BY <1>3, <1>5, CallsAre
<1>7. r \in Int /\ x.h \in Handles \cup {INVALID_SOCKET} /\ x.c \in Seq(Int)
  <2>1. CASE Valid(m, r)
    <3>1. r \in DOMAIN m.RFDToSocketInfo /\ r \notin DOMAIN m.RFDToCrtFD
        BY <1>3, <2>1 DEF Valid, MapGood, Disjoint
    <3>2. Socket(m, r) \in Handles \cup {INVALID_SOCKET} /\ r \in Nat
        BY <1>3, <3>1, StateIs
    <3>3. x.h = Socket(m, r) /\ x.c = <<>>
        BY <1>6, <3>1, Zenon
    <3>4. <<>> \in Seq(Int) /\ r \in Int
        BY <3>2
    <3>5. QED
        BY <3>2, <3>3, <3>4, Zenon
  <2>2. CASE r \in DOMAIN m.RFDToCrtFD
    <3>1. r \in Nat
        BY <1>3, <2>2 DEF MapGood, MapTypes, Names
    <3>2. QED
      <4>1. x.h = INVALID_SOCKET => x.h \in Handles \cup {INVALID_SOCKET}
          OBVIOUS
      <4>2. ~Valid(m, r)
          BY <1>3, <2>2 DEF MapGood, Disjoint, Valid
      <4>3. x.h = INVALID_SOCKET /\ x.c = <<m.RFDToCrtFD[r]>> /\ m.RFDToCrtFD[r] \in Int
          BY <1>6, <4>2, Zenon
      <4>4. PICK k \in Int : k = m.RFDToCrtFD[r]
          BY <4>3, Zenon
      <4>5. <<k>> \in Seq(Int) /\ r \in Int
          BY <3>1, <4>4
      <4>6. QED
          BY <4>1, <4>3, <4>4, <4>5, Zenon
  <2>3. QED
      BY <1>6, <2>1, <2>2
<1>8. PICK p : IsPlace(p) /\ p.pc = "windows" /\ p.rfd = r /\ p.h = x.h /\ p.c = x.c /\ Moves(th, th', t, p)
  <2>1. "windows" \in Places /\ ThreadTypes(th)
      BY <1>3, Zenon DEF Places, Types
  <2>2. Starts(th, th', t, "windows", r, x.h, x.c)
      BY <1>2, <1>7, <2>1, Started, Zenon
  <2>3. QED
      BY <2>2, Zenon DEF Starts
<1>9. Types'
    BY <1>3, <1>4, <1>8, Zenon DEF Types, WorldTypes, Moves
<1>10. HandlesHeld(m, sock, th') /\ CrtHeld(m, crt, streams, th') /\ Closings(m, th')
  <2>1. p.pc \notin {"addCrtFD", "crt_close"} /\ p.pc # "closeState" /\ ~Holding(p)
      BY <1>8 DEF Holding
  <2>2. QED
      BY <1>3, <1>8, <2>1, HandlesMove, CrtMoves, ClosingsMove, Zenon
<1>11. Calling(m, table, th')
  <2>1. th'[t] = p /\ \A u \in Threads : u # t => th'[u] = th[u]
      BY <1>8, Zenon DEF Moves
  <2>2. \/ p.c = <<>> /\ Valid(m, p.rfd) /\ p.h = Socket(m, p.rfd)
        \/ p.rfd \in DOMAIN m.RFDToCrtFD /\ p.c = <<m.RFDToCrtFD[p.rfd]>>
      BY <1>6, <1>8, Zenon
  <2>3. QED
      BY <1>3, <1>5, <1>8, <2>1, <2>2, Zenon DEF Calling
<1>12. QED
    BY <1>3, <1>4, <1>9, <1>10, <1>11, Zenon DEF IInv

(* A thread that neither holds a socket nor uses a descriptor. *)
LEMMA FilesMove ==
    ASSUME NEW M, NEW sk, NEW tb, NEW H, NEW G, NEW t \in Threads, NEW p, Moves(H, G, t, p),
           p.pc \in {"addCrtFD", "crt_close", "idle"}, HandlesHeld(M, sk, H), Closings(M, H), Calling(M, tb, H)
    PROVE  HandlesHeld(M, sk, G) /\ Closings(M, G) /\ Calling(M, tb, G)
<1>1. p.pc # "closeState" /\ p.pc # "windows" /\ ~Holding(p)
    BY DEF Holding
<1>2. QED
    BY <1>1, HandlesMove, ClosingsMove, CallingMoves, Zenon

(* The CRT descriptors the map knows keep their objects. *)
AgreeCrt(M, ct, cu) == \A c \in DOMAIN M.CrtFDToRFD : cu[c] = ct[c]

LEMMA AgreeingCrt ==
    ASSUME NEW M, NEW sk, NEW ct, NEW cu, NEW tb, AgreeCrt(M, ct, cu), CrtTables(M, ct)
    PROVE  CrtTables(M, cu) /\ (Tables(M, sk, ct, tb) => Tables(M, sk, cu, tb))
<1>1. CrtTables(M, cu)
    BY DEF AgreeCrt, CrtTables
<1>2. \A r \in DOMAIN M.RFDToCrtFD : cu[M.RFDToCrtFD[r]] = ct[M.RFDToCrtFD[r]]
    BY DEF AgreeCrt, CrtTables
<1>3. Tables(M, sk, ct, tb) => Tables(M, sk, cu, tb)
    BY <1>2 DEF Tables
<1>4. QED
    BY <1>1, <1>3

LEMMA CrtAddedParts ==
    ASSUME NEW M, NEW G, NEW ct, NEW c \in 0 .. MaxCrt, ct[c] # 0, NEW r, GainsCrt(M, G, c, r), CrtTables(M, ct)
    PROVE  /\ CrtTables(G, ct) /\ r \in DOMAIN G.RFDToCrtFD /\ G.RFDToCrtFD[r] = c
           /\ \A str, H : CrtHeld(M, ct, str, H) /\ (\A t \in Threads : c \notin Owned(H[t])) => CrtHeld(G, ct, str, H)
<1>1. CrtTables(G, ct) /\ r \in DOMAIN G.RFDToCrtFD /\ G.RFDToCrtFD[r] = c
    BY DEF GainsCrt, CrtTables
<1>2. ASSUME NEW str, NEW H, CrtHeld(M, ct, str, H), \A t \in Threads : c \notin Owned(H[t])
      PROVE  CrtHeld(G, ct, str, H)
    BY <1>2 DEF CrtHeld, GainsCrt
<1>3. QED
    BY <1>1, <1>2, Zenon

LEMMA CrtRemovedParts ==
    ASSUME NEW M, NEW G, NEW ct, NEW c \in DOMAIN M.CrtFDToRFD, c > 2, LosesCrt(M, G, c), CrtTables(M, ct)
    PROVE  /\ CrtTables(G, ct) /\ c \notin DOMAIN G.CrtFDToRFD
           /\ \A str, H : CrtHeld(M, ct, str, H) => CrtHeld(G, ct, str, H)
<1>1. CrtTables(G, ct) /\ c \notin DOMAIN G.CrtFDToRFD
  <2>1. \A d \in 0 .. 2 : d # c
      OBVIOUS
  <2>2. QED
      BY <2>1 DEF LosesCrt, CrtTables
<1>2. ASSUME NEW str, NEW H, CrtHeld(M, ct, str, H)
      PROVE  CrtHeld(G, ct, str, H)
    BY <1>2 DEF CrtHeld, LosesCrt
<1>3. QED
    BY <1>1, <1>2, Zenon

(* A thread takes the descriptor c to close it. *)
LEMMA CrtTaken ==
    ASSUME NEW M, NEW ct, NEW str, NEW H, NEW G, NEW t \in Threads, NEW p, Moves(H, G, t, p), CrtHeld(M, ct, str, H),
           NEW c \in 0 .. MaxCrt, p.pc = "crt_close", p.c = <<c>>,
           ct[c] # 0, c \notin DOMAIN M.CrtFDToRFD, c \notin str, \A u \in Threads : c \notin Owned(H[u])
    PROVE  CrtHeld(M, ct, str, G)
<1>1. Owned(p) = {c} /\ p.c # <<>> /\ \A i, j \in DOMAIN p.c : i = j
  <2>1. DOMAIN p.c = {1} /\ p.c[1] = c
      OBVIOUS
  <2>2. QED
      BY <2>1 DEF Owned
<1>2. G[t] = p /\ \A u \in Threads : u # t => G[u] = H[u]
    BY DEF Moves
<1>3. \A d \in str : d \in 0 .. MaxCrt /\ d > 2 /\ ct[d] # 0
    BY Zenon DEF CrtHeld
<1>4. ASSUME NEW u \in Threads, NEW d \in Owned(G[u])
      PROVE  /\ d \in 0 .. MaxCrt /\ ct[d] # 0 /\ d \notin DOMAIN M.CrtFDToRFD /\ d \notin str
             /\ \A v \in Threads : v # u => d \notin Owned(G[v])
  <2>1. CASE u = t
    <3>1. d = c
        BY <1>1, <1>2, <2>1
    <3>2. QED
        BY <1>2, <2>1, <3>1
  <2>2. CASE u # t
    <3>1. d \in Owned(H[u])
        BY <1>2, <2>2
    <3>2. /\ d \in 0 .. MaxCrt /\ ct[d] # 0 /\ d \notin DOMAIN M.CrtFDToRFD /\ d \notin str
          /\ \A v \in Threads : v # u => d \notin Owned(H[v])
        BY <3>1, Zenon DEF CrtHeld
    <3>3. d # c
        BY <3>1
    <3>4. QED
        BY <1>1, <1>2, <3>2, <3>3
  <2>3. QED
      BY <2>1, <2>2
<1>5. ASSUME NEW u \in Threads, G[u].pc \in {"addCrtFD", "crt_close"}
      PROVE  G[u].c # <<>> /\ \A i, j \in DOMAIN G[u].c : G[u].c[i] = G[u].c[j] => i = j
    BY <1>1, <1>2, <1>5, Zenon DEF CrtHeld
<1>6. QED
    BY <1>3, <1>4, <1>5, Zenon DEF CrtHeld

LEMMA CallReturnsTypes ==
    ASSUME IInv, NEW t \in Threads, CallReturns(t)
    PROVE  IInv'
<1>1. /\ Types /\ MapGood(m) /\ Opened(m, sock) /\ CrtTables(m, crt) /\ HandlesHeld(m, sock, th)
      /\ CrtHeld(m, crt, streams, th) /\ Closings(m, th) /\ Calling(m, table, th)
      /\ StatesOwned(m, st) /\ Waits(m, st, io, table) /\ Tables(m, sock, crt, table)
    BY Zenon DEF IInv
<1>2. /\ m' = m /\ sock' = sock /\ crt' = crt /\ streams' = streams /\ port' = port /\ st' = st /\ io' = io /\ files' = files
      /\ sockets' = sockets /\ table' = table
    BY DEF CallReturns
<1>3. ThreadTypes(th) /\ Return(t)
    BY <1>1, Zenon DEF Types, CallReturns
<1>4. Moves(th, th', t, Idle)
    BY <1>3, Returned, Zenon
<1>5. Types'
    BY <1>1, <1>2, <1>4, Zenon DEF Types, WorldTypes, Moves
<1>6. HandlesHeld(m, sock, th') /\ CrtHeld(m, crt, streams, th') /\ Closings(m, th') /\ Calling(m, table, th')
    BY <1>1, <1>4, Idles, Zenon
<1>7. QED
    BY <1>1, <1>2, <1>5, <1>6, Zenon DEF IInv

LEMMA NewCrtTypes ==
    ASSUME IInv, NEW t \in Threads, NEW n \in 1 .. 2, NewCrt(t, n)
    PROVE  IInv'
<1>1. PICK q \in [1 .. n -> FreeCrt] :
         /\ \A i, j \in 1 .. n : i < j => q[i] < q[j]
         /\ files' = files + n
         /\ crt' = [c \in 0 .. MaxCrt |-> IF c \in Range(q) THEN File(files + CHOOSE i \in 1 .. n : q[i] = c) ELSE crt[c]]
         /\ Start(t, "addCrtFD", -1, INVALID_SOCKET, q)
         /\ UNCHANGED <<m, sock, streams, port, st, io, table, sockets, lost>>
    BY Zenon DEF NewCrt
<1>2. /\ Types /\ MapGood(m) /\ Opened(m, sock) /\ CrtTables(m, crt) /\ HandlesHeld(m, sock, th)
      /\ CrtHeld(m, crt, streams, th) /\ Closings(m, th) /\ Calling(m, table, th)
      /\ StatesOwned(m, st) /\ Waits(m, st, io, table) /\ Tables(m, sock, crt, table)
    BY Zenon DEF IInv
<1>3. /\ m' = m /\ sock' = sock /\ streams' = streams /\ port' = port /\ st' = st /\ io' = io /\ sockets' = sockets /\ table' = table
    BY <1>1
<1>4. WorldTypes(sock, port, st, io, sockets) /\ ThreadTypes(th) /\ crt \in [0 .. MaxCrt -> Nat] /\ files \in Nat
    BY <1>2, Zenon DEF Types
<1>5. /\ DOMAIN q = 1 .. n /\ \A i \in 1 .. n : q[i] \in 0 .. MaxCrt /\ crt[q[i]] = 0
    BY <1>1 DEF FreeCrt
<1>6. \A i, j \in 1 .. n : q[i] = q[j] => i = j
  <2>1. \A i, j \in 1 .. n : i # j => i < j \/ j < i
      OBVIOUS
  <2>2. \A i \in 1 .. n : q[i] \in Int
      BY <1>5
  <2>3. QED
      BY <1>1, <2>1, <2>2
<1>7. Range(q) = {q[i] : i \in 1 .. n}
    BY <1>5 DEF Range
<1>8. /\ crt' \in [0 .. MaxCrt -> Nat] /\ files' \in Nat
      /\ (\A c \in Range(q) : crt'[c] # 0) /\ \A c \in 0 .. MaxCrt : c \notin Range(q) => crt'[c] = crt[c]
  <2>1. /\ \A c \in 0 .. MaxCrt : c \in Range(q) => crt'[c] = File(files + CHOOSE i \in 1 .. n : q[i] = c)
        /\ \A c \in 0 .. MaxCrt : c \notin Range(q) => crt'[c] = crt[c]
      BY <1>1
  <2>2. ASSUME NEW c \in 0 .. MaxCrt, c \in Range(q) PROVE crt'[c] \in Nat \ {0}
    <3>1. PICK k : k = CHOOSE i \in 1 .. n : q[i] = c
        BY Zenon
    <3>2. \E i \in 1 .. n : q[i] = c
        BY <1>7, <2>2
    <3>3. k \in 1 .. n
        BY <3>1, <3>2, Zenon
    <3>4. File(files + k) \in Nat \ {0}
        BY <1>4, <3>3 DEF File
    <3>5. crt'[c] = File(files + k)
        BY <2>1, <2>2, <3>1
    <3>6. QED
        BY <3>4, <3>5
  <2>3. \A c \in 0 .. MaxCrt : (c \in Range(q) => crt'[c] \in Nat \ {0}) /\ (c \notin Range(q) => crt'[c] = crt[c])
      BY <2>1, <2>2, Zenon
  <2>4. crt' = [c \in 0 .. MaxCrt |-> crt'[c]]
      BY <1>1
  <2>5. files' \in Nat
      BY <1>1, <1>4
  <2>6. \A c \in Range(q) : c \in 0 .. MaxCrt
      BY <1>5, <1>7
  <2>7. crt' \in [0 .. MaxCrt -> Nat]
    <3>1. \A c \in 0 .. MaxCrt : crt'[c] \in Nat
        BY <1>4, <2>3
    <3>2. QED
        BY <2>4, <3>1
  <2>8. QED
      BY <2>3, <2>5, <2>6, <2>7
<1>9. PICK p : IsPlace(p) /\ p.pc = "addCrtFD" /\ p.rfd = -1 /\ p.c = q /\ Moves(th, th', t, p)
  <2>1. "addCrtFD" \in Places /\ -1 \in Int /\ INVALID_SOCKET \in Handles \cup {INVALID_SOCKET}
      BY DEF Places
  <2>2. q \in Seq(Int)
    <3>1. n \in Nat /\ \A i \in 1 .. n : q[i] \in Int
        BY <1>5
    <3>2. q \in [1 .. n -> Int]
        BY <1>1, <3>1
    <3>3. QED
        BY <3>1, <3>2, SeqDef
  <2>3. Starts(th, th', t, "addCrtFD", -1, INVALID_SOCKET, q)
      BY <1>1, <1>4, <2>1, <2>2, Started, Zenon
  <2>4. QED
      BY <2>3, Zenon DEF Starts
<1>10. Types'
    BY <1>3, <1>4, <1>8, <1>9, Zenon DEF Types, WorldTypes, Moves
<1>11. HandlesHeld(m, sock, th') /\ Closings(m, th') /\ Calling(m, table, th')
  <2>1. p.pc \in {"addCrtFD", "crt_close", "idle"}
      BY <1>9
  <2>2. QED
      BY <1>2, <1>9, <2>1, FilesMove, Zenon
<1>12. \A c \in Range(q) : c \in 0 .. MaxCrt /\ crt[c] = 0
    BY <1>5, <1>7
<1>13. CrtTables(m, crt') /\ Tables(m, sock, crt', table)
  <2>1. \A c \in DOMAIN m.CrtFDToRFD : c \in 0 .. MaxCrt /\ c \notin Range(q)
      BY <1>2, <1>12 DEF CrtTables
  <2>2. AgreeCrt(m, crt, crt')
      BY <1>8, <2>1 DEF AgreeCrt
  <2>3. QED
      BY <1>2, <2>2, AgreeingCrt, Zenon
<1>14. CrtHeld(m, crt', streams, th')
  <2>1. th'[t] = p /\ \A u \in Threads : u # t => th'[u] = th[u]
      BY <1>9, Zenon DEF Moves
  <2>2. Owned(p) = Range(q)
      BY <1>5, <1>7, <1>9 DEF Owned
  <2>3. \A c \in streams : c \in 0 .. MaxCrt /\ c > 2 /\ crt[c] # 0 /\ c \notin Range(q)
      BY <1>2, <1>12 DEF CrtHeld
  <2>4. \A u \in Threads : \A c \in Owned(th[u]) : c \notin Range(q)
      BY <1>2, <1>12 DEF CrtHeld
  <2>5. \A c \in streams : c \in 0 .. MaxCrt /\ c > 2 /\ crt'[c] # 0
      BY <1>8, <2>3
  <2>6. ASSUME NEW u \in Threads, NEW c \in Owned(th'[u])
        PROVE  /\ c \in 0 .. MaxCrt /\ crt'[c] # 0 /\ c \notin DOMAIN m.CrtFDToRFD /\ c \notin streams
               /\ \A v \in Threads : v # u => c \notin Owned(th'[v])
    <3>1. CASE u = t
      <4>1. c \in Range(q)
          BY <2>1, <2>2, <3>1, Zenon
      <4>2. c \notin DOMAIN m.CrtFDToRFD /\ c \notin streams
          BY <1>2, <1>12, <2>3, <4>1 DEF CrtTables
      <4>3. QED
          BY <1>8, <1>12, <2>1, <2>4, <3>1, <4>1, <4>2
    <3>2. CASE u # t
      <4>1. c \in Owned(th[u])
          BY <2>1, <3>2
      <4>2. /\ c \in 0 .. MaxCrt /\ crt[c] # 0 /\ c \notin DOMAIN m.CrtFDToRFD /\ c \notin streams
            /\ \A v \in Threads : v # u => c \notin Owned(th[v])
          BY <1>2, <4>1, Zenon DEF CrtHeld
      <4>3. c \notin Range(q)
          BY <2>4, <4>1
      <4>4. crt'[c] # 0
          BY <1>8, <4>2, <4>3
      <4>5. \A v \in Threads : v # u => c \notin Owned(th'[v])
          BY <2>1, <2>2, <4>2, <4>3, Zenon
      <4>6. QED
          BY <4>2, <4>4, <4>5, Zenon
    <3>3. QED
        BY <3>1, <3>2
  <2>7. ASSUME NEW u \in Threads, th'[u].pc \in {"addCrtFD", "crt_close"}
        PROVE  th'[u].c # <<>> /\ \A i, j \in DOMAIN th'[u].c : th'[u].c[i] = th'[u].c[j] => i = j
    <3>1. q # <<>>
      <4>1. 1 \in DOMAIN q /\ DOMAIN <<>> = {}
          BY <1>5
      <4>2. QED
          BY <4>1, Zenon
    <3>2. p.c # <<>> /\ \A i, j \in DOMAIN p.c : p.c[i] = p.c[j] => i = j
        BY <1>5, <1>6, <1>9, <3>1, Zenon
    <3>3. QED
        BY <1>2, <2>1, <2>7, <3>2, Zenon DEF CrtHeld
  <2>8. QED
      BY <2>5, <2>6, <2>7, Zenon DEF CrtHeld
<1>15. QED
    BY <1>2, <1>3, <1>10, <1>11, <1>13, <1>14, Zenon DEF IInv

LEMMA AddCrtFDTypes ==
    ASSUME IInv, NEW t \in Threads, AddCrtFD(t)
    PROVE  IInv'
<1>1. PICK o : o = th[t]
    BY Zenon
<1>2. PICK c : c = Head(o.c)
    BY Zenon
<1>3. PICK r : r = AddedCrtFD(m, c)
    BY Zenon
<1>4. /\ o.pc = "addCrtFD" /\ m' = addCrtFD(m, c) /\ table' = (IF r = INVALID_FD THEN table ELSE Put(table, r, crt[c]))
      /\ th' = [th EXCEPT ![t] = IF Len(o.c) = 1 THEN Idle ELSE [o EXCEPT !.c = Tail(o.c)]]
      /\ UNCHANGED <<sock, crt, streams, port, st, io, sockets, files>>
    BY <1>1, <1>2, <1>3, Zenon DEF AddCrtFD, At
<1>5. /\ Types /\ MapGood(m) /\ Opened(m, sock) /\ CrtTables(m, crt) /\ HandlesHeld(m, sock, th)
      /\ CrtHeld(m, crt, streams, th) /\ Closings(m, th) /\ Calling(m, table, th)
      /\ StatesOwned(m, st) /\ Waits(m, st, io, table) /\ Tables(m, sock, crt, table)
    BY Zenon DEF IInv
<1>6. /\ sock' = sock /\ crt' = crt /\ streams' = streams /\ port' = port /\ st' = st /\ io' = io /\ sockets' = sockets
      /\ files' = files
    BY <1>4
<1>7. ThreadTypes(th) /\ IsPlace(o)
    BY <1>1, <1>5, Zenon DEF Types, ThreadTypes
<1>8. o.c \in Seq(Int) /\ o.c # <<>> /\ \A i, j \in DOMAIN o.c : o.c[i] = o.c[j] => i = j
  <2>1. o.pc \in {"addCrtFD", "crt_close"}
      BY <1>4
  <2>2. QED
      BY <1>1, <1>5, <1>7, <2>1, Zenon DEF CrtHeld, IsPlace
<1>9. /\ Len(o.c) \in Nat \ {0} /\ DOMAIN o.c = 1 .. Len(o.c) /\ c = o.c[1] /\ Tail(o.c) \in Seq(Int)
      /\ DOMAIN Tail(o.c) = 1 .. Len(o.c) - 1 /\ \A i \in 1 .. Len(o.c) - 1 : Tail(o.c)[i] = o.c[i + 1]
    BY <1>2, <1>8, Tailed
<1>10. PICK k \in Nat \ {0} : k = Len(o.c)
    BY <1>9
<1>11. 1 \in DOMAIN o.c
    BY <1>9, <1>10
<1>12. c \in Owned(o)
    BY <1>4, <1>9, <1>11 DEF Owned
<1>13. /\ c \in 0 .. MaxCrt /\ crt[c] # 0 /\ c \notin DOMAIN m.CrtFDToRFD /\ c \notin streams
       /\ \A u \in Threads : u # t => c \notin Owned(th[u])
    BY <1>1, <1>5, <1>12, Zenon DEF CrtHeld
(* The thread keeps the descriptors that are left. *)
<1>14. PICK p : /\ IsPlace(p) /\ p.pc \in {"addCrtFD", "crt_close", "idle"} /\ Moves(th, th', t, p)
                /\ \A d \in Owned(p) : d \in Owned(o) /\ d # c
                /\ p.pc \in {"addCrtFD", "crt_close"} => p.c # <<>> /\ \A i, j \in DOMAIN p.c : p.c[i] = p.c[j] => i = j
  <2>1. CASE k = 1
    <3>1. th' = [th EXCEPT ![t] = Idle]
        BY <1>4, <1>10, <2>1
    <3>2. Moves(th, th', t, Idle)
        BY <1>7, <3>1, IdleIs, MoveIs, Zenon
    <3>3. Owned(Idle) = {} /\ Idle.pc \notin {"addCrtFD", "crt_close"} /\ Idle.pc \in {"addCrtFD", "crt_close", "idle"}
        BY IdleIs DEF Owned
    <3>4. QED
        BY <3>2, <3>3, IdleIs, Zenon
  <2>2. CASE k # 1
    <3>1. PICK e : e = Tail(o.c)
        BY Zenon
    <3>2. PICK p : p = [o EXCEPT !.c = e]
        BY Zenon
    <3>3. th' = [th EXCEPT ![t] = p]
        BY <1>4, <1>10, <2>2, <3>1, <3>2
    <3>4. e \in Seq(Int) /\ DOMAIN e = 1 .. k - 1 /\ DOMAIN o.c = 1 .. k /\ \A i \in 1 .. k - 1 : e[i] = o.c[i + 1]
        BY <1>9, <1>10, <3>1
    <3>5. p.pc = o.pc /\ p.rfd = o.rfd /\ p.h = o.h /\ p.c = e /\ p = [pc |-> p.pc, rfd |-> p.rfd, h |-> p.h, c |-> p.c]
        BY <1>7, <3>2 DEF IsPlace
    <3>6. IsPlace(p)
        BY <1>7, <3>4, <3>5, Zenon DEF IsPlace
    <3>7. \A i \in 1 .. k - 1 : i \in Nat /\ i + 1 \in 1 .. k /\ i + 1 # 1
        BY <1>10
    <3>8. \A i \in DOMAIN e : i + 1 \in DOMAIN o.c /\ e[i] = o.c[i + 1] /\ e[i] # c
      <4>1. \A i \in DOMAIN e : i + 1 \in DOMAIN o.c /\ e[i] = o.c[i + 1] /\ i + 1 # 1
          BY <3>4, <3>7, Zenon
      <4>2. \A i \in DOMAIN o.c : i # 1 => o.c[i] # c
          BY <1>8, <1>9, <1>11, Zenon
      <4>3. QED
          BY <4>1, <4>2, Zenon
    <3>9. Owned(p) = {e[i] : i \in DOMAIN e} /\ Owned(o) = {o.c[i] : i \in DOMAIN o.c}
        BY <1>4, <3>5 DEF Owned
    <3>10. \A d \in Owned(p) : d \in Owned(o) /\ d # c
        BY <3>8, <3>9
    <3>11. e # <<>>
      <4>1. k \in Nat /\ k > 1
          BY <2>2
      <4>2. 1 \in 1 .. k - 1
          BY <4>1
      <4>3. DOMAIN <<>> = {}
          OBVIOUS
      <4>4. QED
          BY <3>4, <4>2, <4>3, Zenon
    <3>12. \A i, j \in DOMAIN e : e[i] = e[j] => i = j
      <4>1. \A i, j \in DOMAIN e : e[i] = e[j] => i + 1 = j + 1
          BY <1>8, <3>8
      <4>2. \A i, j \in Nat : i + 1 = j + 1 => i = j
          OBVIOUS
      <4>3. \A i \in DOMAIN e : i \in Nat
          BY <3>4, <3>7
      <4>4. QED
          BY <4>1, <4>2, <4>3, Zenon
    <3>13. Moves(th, th', t, p)
        BY <1>7, <3>3, <3>6, MoveIs, Zenon
    <3>14. p.pc \in {"addCrtFD", "crt_close", "idle"}
        BY <1>4, <3>5
    <3>15. QED
        BY <3>5, <3>6, <3>10, <3>11, <3>12, <3>13, <3>14, Zenon
  <2>3. QED
      BY <2>1, <2>2
<1>15. Types'
    BY <1>5, <1>6, <1>14, Zenon DEF Types, WorldTypes, Moves
<1>16. HandlesHeld(m, sock, th') /\ Closings(m, th') /\ Calling(m, table, th')
    BY <1>5, <1>14, FilesMove, Zenon
<1>17. CrtHeld(m, crt, streams, th') /\ \A u \in Threads : c \notin Owned(th'[u])
  <2>1. th'[t] = p /\ \A u \in Threads : u # t => th'[u] = th[u]
      BY <1>14, Zenon DEF Moves
  <2>2. \A u \in Threads : \A d \in Owned(th'[u]) : d \in Owned(th[u]) /\ d # c
      BY <1>1, <1>13, <1>14, <2>1, Zenon
  <2>3. ASSUME NEW u \in Threads, NEW d \in Owned(th'[u])
        PROVE  /\ d \in 0 .. MaxCrt /\ crt[d] # 0 /\ d \notin DOMAIN m.CrtFDToRFD /\ d \notin streams
               /\ \A v \in Threads : v # u => d \notin Owned(th'[v])
    <3>1. /\ d \in 0 .. MaxCrt /\ crt[d] # 0 /\ d \notin DOMAIN m.CrtFDToRFD /\ d \notin streams
          /\ \A v \in Threads : v # u => d \notin Owned(th[v])
        BY <1>5, <2>2, Zenon DEF CrtHeld
    <3>2. QED
        BY <2>2, <3>1, Zenon
  <2>4. ASSUME NEW u \in Threads, th'[u].pc \in {"addCrtFD", "crt_close"}
        PROVE  th'[u].c # <<>> /\ \A i, j \in DOMAIN th'[u].c : th'[u].c[i] = th'[u].c[j] => i = j
      BY <1>5, <1>14, <2>1, <2>4, Zenon DEF CrtHeld
  <2>5. \A d \in streams : d \in 0 .. MaxCrt /\ d > 2 /\ crt[d] # 0
      BY <1>5, Zenon DEF CrtHeld
  <2>6. QED
      BY <2>2, <2>3, <2>4, <2>5, Zenon DEF CrtHeld
<1>18. CASE r = INVALID_FD
  <2>1. m' = m /\ table' = table
      BY <1>3, <1>4, <1>18, CrtNotAdded, Zenon
  <2>2. QED
      BY <1>5, <1>6, <1>15, <1>16, <1>17, <2>1, Zenon DEF IInv
<1>19. CASE r # INVALID_FD
  <2>1. PICK G : G = m'
      BY Zenon
  <2>2. MapGood(G) /\ SameInfos(m, G) /\ GainsCrt(m, G, c, r)
      BY <1>3, <1>4, <1>5, <1>13, <1>19, <2>1, CrtAdded, Zenon
  <2>3. /\ CrtTables(G, crt) /\ r \in DOMAIN G.RFDToCrtFD /\ G.RFDToCrtFD[r] = c
        /\ \A str, H : CrtHeld(m, crt, str, H) /\ (\A u \in Threads : c \notin Owned(H[u])) => CrtHeld(G, crt, str, H)
      BY <1>5, <1>13, <2>2, CrtAddedParts
  <2>4. CrtHeld(G, crt, streams, th')
      BY <1>17, <2>3, Zenon
  <2>5. KeepAll(m, G)
      BY <2>2, GainsCrtKeeps, Zenon
  <2>6. Tables(G, sock, crt, table) /\ Calling(G, table, th') /\ Waits(G, st, io, table)
      BY <1>5, <1>16, <2>5, AllKept, Zenon
  <2>7. Opened(G, sock) /\ HandlesHeld(G, sock, th') /\ StatesOwned(G, st) /\ Closings(G, th')
      BY <1>5, <1>16, <2>2, SameInfoParts, Zenon
  <2>8. /\ \A x \in Accepts(io) : x.acc # r
        /\ \A n \in 1 .. NStates : \A i \in DOMAIN Listed(st, n) : Listed(st, n)[i] # r
    <3>1. ~Valid(m, r)
        BY <2>2 DEF GainsCrt, Valid
    <3>2. /\ \A x \in Accepts(io) : Valid(m, x.acc)
          /\ \A n \in 1 .. NStates : \A i \in DOMAIN Listed(st, n) : Valid(m, Listed(st, n)[i])
        BY <1>5, Zenon DEF Waits
    <3>3. QED
        BY <3>1, <3>2
  <2>9. table' = Put(table, r, crt[c])
      BY <1>4, <1>19, Zenon
  <2>10. crt[c] = crt[G.RFDToCrtFD[r]]
      BY <2>3
  <2>11. Tables(G, sock, crt, table') /\ Calling(G, table', th') /\ Waits(G, st, io, table')
      BY <2>3, <2>6, <2>8, <2>9, <2>10, HandedOut, Zenon
  <2>12. QED
      BY <1>6, <1>15, <2>1, <2>2, <2>3, <2>4, <2>7, <2>11, Zenon DEF IInv
<1>20. QED
    BY <1>18, <1>19

LEMMA fopenTypes ==
    ASSUME IInv, NEW t \in Threads, fopen(t)
    PROVE  IInv'
<1>1. PICK c : c = Min(FreeCrt)
    BY Zenon
<1>2. /\ FreeCrt # {} /\ crt' = [crt EXCEPT ![c] = File(files + 1)] /\ streams' = streams \cup {c} /\ files' = files + 1
      /\ UNCHANGED <<m, sock, port, st, io, th, table, sockets, lost>>
    BY <1>1 DEF fopen
<1>3. /\ Types /\ MapGood(m) /\ Opened(m, sock) /\ CrtTables(m, crt) /\ HandlesHeld(m, sock, th)
      /\ CrtHeld(m, crt, streams, th) /\ Closings(m, th) /\ Calling(m, table, th)
      /\ StatesOwned(m, st) /\ Waits(m, st, io, table) /\ Tables(m, sock, crt, table)
    BY Zenon DEF IInv
<1>4. /\ m' = m /\ sock' = sock /\ port' = port /\ st' = st /\ io' = io /\ sockets' = sockets /\ table' = table /\ th' = th
    BY <1>2
<1>5. WorldTypes(sock, port, st, io, sockets) /\ ThreadTypes(th) /\ crt \in [0 .. MaxCrt -> Nat] /\ files \in Nat
    BY <1>3, Zenon DEF Types
<1>6. c \in 0 .. MaxCrt /\ crt[c] = 0
  <2>1. FreeCrt \subseteq Nat
      BY DEF FreeCrt
  <2>2. c \in FreeCrt
      BY <1>1, <1>2, <2>1, MinIn, Zenon
  <2>3. QED
      BY <2>2 DEF FreeCrt
<1>7. c \notin DOMAIN m.CrtFDToRFD /\ c > 2
  <2>1. c \notin DOMAIN m.CrtFDToRFD /\ c \notin 0 .. 2
      BY <1>3, <1>6, Zenon DEF CrtTables
  <2>2. QED
      BY <1>6, <2>1
<1>8. crt' \in [0 .. MaxCrt -> Nat] /\ files' \in Nat /\ crt'[c] # 0 /\ \A d \in 0 .. MaxCrt : d # c => crt'[d] = crt[d]
  <2>1. files' \in Nat /\ File(files + 1) \in Nat \ {0}
      BY <1>2, <1>5 DEF File
  <2>2. QED
      BY <1>2, <1>5, <1>6, <2>1
<1>9. Types'
    BY <1>4, <1>5, <1>8, Zenon DEF Types
<1>10. CrtTables(m, crt') /\ Tables(m, sock, crt', table)
  <2>1. \A d \in DOMAIN m.CrtFDToRFD : d \in 0 .. MaxCrt /\ d # c
      BY <1>3, <1>7, Zenon DEF CrtTables
  <2>2. AgreeCrt(m, crt, crt')
      BY <1>8, <2>1, Zenon DEF AgreeCrt
  <2>3. QED
      BY <1>3, <2>2, AgreeingCrt, Zenon
<1>11. CrtHeld(m, crt', streams', th)
  <2>1. \A u \in Threads : \A d \in Owned(th[u]) : d \in 0 .. MaxCrt /\ d # c
      BY <1>3, <1>6, Zenon DEF CrtHeld
  <2>2. \A d \in streams' : d \in 0 .. MaxCrt /\ d > 2 /\ crt'[d] # 0
    <3>1. \A d \in streams : d \in 0 .. MaxCrt /\ d > 2 /\ crt[d] # 0 /\ d # c
        BY <1>3, <1>6, Zenon DEF CrtHeld
    <3>2. QED
        BY <1>2, <1>6, <1>7, <1>8, <3>1
  <2>3. \A u \in Threads : \A d \in Owned(th[u]) : crt'[d] # 0 /\ d \notin streams'
    <3>1. \A u \in Threads : \A d \in Owned(th[u]) : crt[d] # 0 /\ d \notin streams
        BY <1>3, Zenon DEF CrtHeld
    <3>2. QED
        BY <1>2, <1>8, <2>1, <3>1
  <2>4. QED
      BY <1>3, <2>2, <2>3, Zenon DEF CrtHeld
<1>12. QED
    BY <1>3, <1>4, <1>9, <1>10, <1>11, Zenon DEF IInv

LEMMA FDAPI_filenoTypes ==
    ASSUME IInv, NEW t \in Threads, FDAPI_fileno(t)
    PROVE  IInv'
<1>1. PICK c \in streams :
        /\ m' = addCrtFD(m, c)
        /\ table' = IF AddedCrtFD(m, c) = INVALID_FD THEN table ELSE Put(table, AddedCrtFD(m, c), crt[c])
    BY Zenon DEF FDAPI_fileno
<1>2. PICK r : r = AddedCrtFD(m, c)
    BY Zenon
<1>3. /\ Types /\ MapGood(m) /\ Opened(m, sock) /\ CrtTables(m, crt) /\ HandlesHeld(m, sock, th)
      /\ CrtHeld(m, crt, streams, th) /\ Closings(m, th) /\ Calling(m, table, th)
      /\ StatesOwned(m, st) /\ Waits(m, st, io, table) /\ Tables(m, sock, crt, table)
    BY Zenon DEF IInv
<1>4. /\ sock' = sock /\ crt' = crt /\ streams' = streams /\ port' = port /\ st' = st /\ io' = io /\ sockets' = sockets
      /\ files' = files /\ th' = th
    BY DEF FDAPI_fileno
<1>5. Types'
    BY <1>3, <1>4, Zenon DEF Types
<1>6. c \in 0 .. MaxCrt /\ crt[c] # 0 /\ \A u \in Threads : c \notin Owned(th[u])
    BY <1>3, Zenon DEF CrtHeld
<1>7. PICK G : G = m'
    BY Zenon
<1>8. CASE r = INVALID_FD
  <2>1. G = m /\ table' = table
      BY <1>1, <1>2, <1>7, <1>8, CrtNotAdded, Zenon
  <2>2. QED
      BY <1>3, <1>4, <1>5, <1>7, <2>1, Zenon DEF IInv
<1>9. CASE r # INVALID_FD
  <2>1. table' = Put(table, r, crt[c])
      BY <1>1, <1>2, <1>9, Zenon
  <2>2. /\ MapGood(G) /\ CrtTables(G, crt) /\ CrtHeld(G, crt, streams, th) /\ KeepAll(m, G)
        /\ Opened(G, sock) /\ HandlesHeld(G, sock, th) /\ StatesOwned(G, st) /\ Closings(G, th)
        /\ r \in DOMAIN G.RFDToCrtFD /\ G.RFDToCrtFD[r] = c /\ ~Valid(m, r)
    <3>1. CASE c \in DOMAIN m.CrtFDToRFD
      <4>1. G = m /\ r = m.CrtFDToRFD[c]
          BY <1>1, <1>2, <1>7, <3>1, CrtNotAdded DEF AddedCrtFD
      <4>2. r \in DOMAIN m.RFDToCrtFD /\ m.RFDToCrtFD[r] = c
          BY <1>3, <3>1, <4>1, Zenon DEF CrtTables
      <4>3. ~Valid(m, r)
          BY <1>3, <4>2, Zenon DEF MapGood, Disjoint, Valid
      <4>4. KeepAll(m, m)
          BY DEF KeepAll, Keep
      <4>5. QED
          BY <1>3, <4>1, <4>2, <4>3, <4>4, Zenon
    <3>2. CASE c \notin DOMAIN m.CrtFDToRFD
      <4>1. MapGood(G) /\ SameInfos(m, G) /\ GainsCrt(m, G, c, r)
          BY <1>1, <1>2, <1>3, <1>7, <1>9, <3>2, CrtAdded, Zenon
      <4>2. /\ CrtTables(G, crt) /\ r \in DOMAIN G.RFDToCrtFD /\ G.RFDToCrtFD[r] = c
            /\ \A str, H : CrtHeld(m, crt, str, H) /\ (\A u \in Threads : c \notin Owned(H[u])) => CrtHeld(G, crt, str, H)
          BY <1>3, <1>6, <4>1, CrtAddedParts
      <4>3. CrtHeld(G, crt, streams, th)
          BY <1>3, <1>6, <4>2, Zenon
      <4>4. KeepAll(m, G)
          BY <4>1, GainsCrtKeeps, Zenon
      <4>5. Opened(G, sock) /\ HandlesHeld(G, sock, th) /\ StatesOwned(G, st) /\ Closings(G, th)
          BY <1>3, <4>1, SameInfoParts, Zenon
      <4>6. ~Valid(m, r)
          BY <4>1 DEF GainsCrt, Valid
      <4>7. QED
          BY <4>1, <4>2, <4>3, <4>4, <4>5, <4>6
    <3>3. QED
        BY <3>1, <3>2
  <2>3. Tables(G, sock, crt, table) /\ Calling(G, table, th) /\ Waits(G, st, io, table)
      BY <1>3, <2>2, AllKept, Zenon
  <2>4. /\ \A x \in Accepts(io) : x.acc # r
        /\ \A n \in 1 .. NStates : \A i \in DOMAIN Listed(st, n) : Listed(st, n)[i] # r
    <3>1. /\ \A x \in Accepts(io) : Valid(m, x.acc)
          /\ \A n \in 1 .. NStates : \A i \in DOMAIN Listed(st, n) : Valid(m, Listed(st, n)[i])
        BY <1>3, Zenon DEF Waits
    <3>2. QED
        BY <2>2, <3>1
  <2>5. crt[c] = crt[G.RFDToCrtFD[r]]
      BY <2>2
  <2>6. Tables(G, sock, crt, table') /\ Calling(G, table', th) /\ Waits(G, st, io, table')
      BY <2>1, <2>2, <2>3, <2>4, <2>5, HandedOut, Zenon
  <2>7. QED
      BY <1>4, <1>5, <1>7, <2>2, <2>6, Zenon DEF IInv
<1>10. QED
    BY <1>8, <1>9

(* Descriptor c is closed: the map forgets it and thread t takes it. *)
LEMMA CrtForgotten ==
    ASSUME IInv, NEW t \in Threads, NEW c \in 0 .. MaxCrt, c > 2, crt[c] # 0, \A u \in Threads : c \notin Owned(th[u]),
           m' = removeCrtFD(m, c), streams' = streams \ {c}, Start(t, "crt_close", -1, INVALID_SOCKET, <<c>>),
           table' = IF c \in DOMAIN m.CrtFDToRFD THEN Erase(table, m.CrtFDToRFD[c]) ELSE table,
           c \in DOMAIN m.CrtFDToRFD => Unused(th, m.CrtFDToRFD[c]),
           UNCHANGED <<sock, crt, port, st, io, sockets, files>>
    PROVE  IInv'
<1>1. /\ Types /\ MapGood(m) /\ Opened(m, sock) /\ CrtTables(m, crt) /\ HandlesHeld(m, sock, th)
      /\ CrtHeld(m, crt, streams, th) /\ Closings(m, th) /\ Calling(m, table, th)
      /\ StatesOwned(m, st) /\ Waits(m, st, io, table) /\ Tables(m, sock, crt, table)
    BY Zenon DEF IInv
<1>2. sock' = sock /\ crt' = crt /\ port' = port /\ st' = st /\ io' = io /\ sockets' = sockets /\ files' = files
    OBVIOUS
<1>3. PICK p : IsPlace(p) /\ p.pc = "crt_close" /\ p.c = <<c>> /\ Moves(th, th', t, p)
  <2>1. "crt_close" \in Places /\ -1 \in Int /\ INVALID_SOCKET \in Handles \cup {INVALID_SOCKET} /\ <<c>> \in Seq(Int)
      BY DEF Places
  <2>2. ThreadTypes(th)
      BY <1>1, Zenon DEF Types
  <2>3. Starts(th, th', t, "crt_close", -1, INVALID_SOCKET, <<c>>)
      BY <2>1, <2>2, Started, Zenon
  <2>4. QED
      BY <2>3, Zenon DEF Starts
<1>4. Types'
    BY <1>1, <1>2, <1>3, Zenon DEF Types, WorldTypes, Moves
<1>5. PICK G : G = m'
    BY Zenon
<1>6. /\ MapGood(G) /\ SameInfos(m, G) /\ CrtTables(G, crt) /\ c \notin DOMAIN G.CrtFDToRFD
      /\ CrtHeld(G, crt, streams, th) /\ Tables(G, sock, crt, table') /\ Calling(G, table', th) /\ Waits(G, st, io, table')
  <2>1. CASE c \in DOMAIN m.CrtFDToRFD
    <3>1. PICK r : r = m.CrtFDToRFD[c]
        BY Zenon
    <3>2. r \in DOMAIN m.RFDToCrtFD /\ ~Valid(m, r)
        BY <1>1, <2>1, <3>1, Zenon DEF CrtTables, MapGood, Disjoint, Valid
    <3>3. MapGood(G) /\ SameInfos(m, G) /\ LosesCrt(m, G, c)
        BY <1>1, <1>5, <2>1, <3>1, <3>2, CrtRemoved
    <3>4. /\ CrtTables(G, crt) /\ c \notin DOMAIN G.CrtFDToRFD
          /\ \A str, H : CrtHeld(m, crt, str, H) => CrtHeld(G, crt, str, H)
        BY <1>1, <2>1, <3>3, CrtRemovedParts
    <3>5. KeepBut(m, G, r) /\ Less(table, table', r)
        BY <2>1, <3>1, <3>3, LosesCrtKeeps, ErasedIsLess, Zenon
    <3>6. Unused(th, r)
        BY <2>1, <3>1
    <3>7. Tables(G, sock, crt, table') /\ Calling(G, table', th) /\ Waits(G, st, io, table')
      <4>1. /\ Tables(m, sock, crt, table) => Tables(G, sock, crt, table')
            /\ Calling(m, table, th) /\ Unused(th, r) => Calling(G, table', th)
            /\ (r \in DOMAIN table \/ ~Valid(m, r)) /\ Waits(m, st, io, table) => Waits(G, st, io, table')
          BY <3>5, RestKept
      <4>2. QED
          BY <1>1, <3>2, <3>6, <4>1, Zenon
    <3>8. QED
        BY <1>1, <3>3, <3>4, <3>7, Zenon
  <2>2. CASE c \notin DOMAIN m.CrtFDToRFD
    <3>1. G = m /\ table' = table
        BY <1>5, <2>2 DEF removeCrtFD
    <3>2. SameInfos(m, m)
        BY DEF SameInfos
    <3>3. QED
        BY <1>1, <2>2, <3>1, <3>2, Zenon
  <2>3. QED
      BY <2>1, <2>2
<1>7. Opened(G, sock) /\ HandlesHeld(G, sock, th) /\ StatesOwned(G, st) /\ Closings(G, th)
    BY <1>1, <1>6, SameInfoParts, Zenon
<1>8. HandlesHeld(G, sock, th') /\ Closings(G, th') /\ Calling(G, table', th')
  <2>1. p.pc \in {"addCrtFD", "crt_close", "idle"}
      BY <1>3
  <2>2. QED
      BY <1>3, <1>6, <1>7, <2>1, FilesMove, Zenon
<1>9. CrtHeld(G, crt, streams', th)
  <2>1. \A d \in streams' : d \in streams
      OBVIOUS
  <2>2. QED
      BY <1>6, <2>1, Zenon DEF CrtHeld
<1>10. CrtHeld(G, crt, streams', th')
  <2>1. c \notin streams'
      OBVIOUS
  <2>2. QED
      BY <1>3, <1>6, <1>9, <2>1, CrtTaken
<1>11. QED
    BY <1>2, <1>4, <1>5, <1>6, <1>7, <1>8, <1>10, Zenon DEF IInv

LEMMA FDAPI_fcloseTypes ==
    ASSUME IInv, NEW t \in Threads, FDAPI_fclose(t)
    PROVE  IInv'
<1>1. PICK c \in streams :
     /\ c \in DOMAIN m.CrtFDToRFD => ~Busy(m.CrtFDToRFD[c])
     /\ m' = removeCrtFD(m, c) /\ streams' = streams \ {c}
     /\ table' = IF c \in DOMAIN m.CrtFDToRFD THEN Erase(table, m.CrtFDToRFD[c]) ELSE table
     /\ Start(t, "crt_close", -1, INVALID_SOCKET, <<c>>)
     /\ UNCHANGED <<sock, crt, port, st, io, sockets, files, lost>>
    BY Zenon DEF FDAPI_fclose
<1>2. c \in 0 .. MaxCrt /\ c > 2 /\ crt[c] # 0 /\ \A u \in Threads : c \notin Owned(th[u])
    BY Zenon DEF IInv, CrtHeld
<1>3. c \in DOMAIN m.CrtFDToRFD => Unused(th, m.CrtFDToRFD[c])
    BY <1>1 DEF Busy, Unused
<1>4. UNCHANGED <<sock, crt, port, st, io, sockets, files>>
    BY <1>1
<1>5. QED
    BY <1>1, <1>2, <1>3, <1>4, CrtForgotten

LEMMA CloseCrtFDTypes ==
    ASSUME IInv, NEW t \in Threads, CloseCrtFD(t)
    PROVE  IInv'
<1>1. PICK r \in Usable(t) :
     LET c == lookupCrtFD(m, r) IN
     /\ r \notin DOMAIN m.RFDToSocketInfo /\ c > LAST_RESERVED_RFD_INDEX /\ c \notin streams
     /\ m' = removeCrtFD(m, c) /\ table' = Erase(table, r)
     /\ Start(t, "crt_close", -1, INVALID_SOCKET, <<c>>)
     /\ UNCHANGED <<sock, crt, streams, port, st, io, sockets, files, lost>>
    BY Zenon DEF CloseCrtFD
<1>2. PICK c : c = lookupCrtFD(m, r)
    BY Zenon
<1>3. /\ r \notin DOMAIN m.RFDToSocketInfo /\ c > 2 /\ c \notin streams
      /\ m' = removeCrtFD(m, c) /\ table' = Erase(table, r)
      /\ Start(t, "crt_close", -1, INVALID_SOCKET, <<c>>)
      /\ UNCHANGED <<sock, crt, streams, port, st, io, sockets, files, lost>>
    BY <1>1, <1>2, Zenon DEF LAST_RESERVED_RFD_INDEX
<1>4. r \in DOMAIN table /\ Unused(th, r)
    BY UsableIs, Zenon
<1>5. CrtTables(m, crt) /\ CrtHeld(m, crt, streams, th) /\ Tables(m, sock, crt, table)
    BY Zenon DEF IInv
<1>6. r \in DOMAIN m.RFDToCrtFD
    BY <1>3, <1>4, <1>5 DEF Tables, Valid
<1>7. c = m.RFDToCrtFD[r] /\ c \in DOMAIN m.CrtFDToRFD /\ m.CrtFDToRFD[c] = r
    BY <1>2, <1>5, <1>6 DEF lookupCrtFD, CrtTables
<1>8. c \in 0 .. MaxCrt /\ crt[c] # 0 /\ \A u \in Threads : c \notin Owned(th[u])
    BY <1>5, <1>7, Zenon DEF CrtTables, CrtHeld
<1>9. streams' = streams \ {c} /\ UNCHANGED <<sock, crt, port, st, io, sockets, files>>
    BY <1>3
<1>10. table' = IF c \in DOMAIN m.CrtFDToRFD THEN Erase(table, m.CrtFDToRFD[c]) ELSE table
    BY <1>3, <1>7
<1>11. c \in DOMAIN m.CrtFDToRFD => Unused(th, m.CrtFDToRFD[c])
    BY <1>4, <1>7
<1>12. QED
    BY <1>3, <1>8, <1>9, <1>10, <1>11, CrtForgotten

LEMMA CrtCloseTypes ==
    ASSUME IInv, NEW t \in Threads, CrtClose(t)
    PROVE  IInv'
<1>1. PICK c : c = Head(th[t].c)
    BY Zenon
<1>2. th[t].pc = "crt_close" /\ crt' = [crt EXCEPT ![c] = 0] /\ Return(t)
      /\ UNCHANGED <<m, sock, streams, port, st, io, table, sockets, files, lost>>
    BY <1>1, Zenon DEF CrtClose, At
<1>3. /\ Types /\ MapGood(m) /\ Opened(m, sock) /\ CrtTables(m, crt) /\ HandlesHeld(m, sock, th)
      /\ CrtHeld(m, crt, streams, th) /\ Closings(m, th) /\ Calling(m, table, th)
      /\ StatesOwned(m, st) /\ Waits(m, st, io, table) /\ Tables(m, sock, crt, table)
    BY Zenon DEF IInv
<1>4. /\ m' = m /\ sock' = sock /\ streams' = streams /\ port' = port /\ st' = st /\ io' = io /\ sockets' = sockets /\ table' = table
      /\ files' = files
    BY <1>2
<1>5. WorldTypes(sock, port, st, io, sockets) /\ ThreadTypes(th) /\ crt \in [0 .. MaxCrt -> Nat] /\ files \in Nat
    BY <1>3, Zenon DEF Types
<1>6. c \in Owned(th[t])
  <2>1. PICK q : q = th[t].c
      BY Zenon
  <2>2. q \in Seq(Int) /\ q # <<>>
    <3>1. IsPlace(th[t])
        BY <1>5, Zenon DEF ThreadTypes
    <3>2. th[t].pc \in {"addCrtFD", "crt_close"}
        BY <1>2
    <3>3. QED
        BY <1>3, <2>1, <3>1, <3>2, Zenon DEF CrtHeld, IsPlace
  <2>3. 1 \in DOMAIN q /\ c = q[1]
      BY <1>1, <2>1, <2>2
  <2>4. QED
      BY <1>2, <2>1, <2>3 DEF Owned
<1>7. /\ c \in 0 .. MaxCrt /\ c \notin DOMAIN m.CrtFDToRFD /\ c \notin streams
      /\ \A u \in Threads : u # t => c \notin Owned(th[u])
    BY <1>3, <1>6, Zenon DEF CrtHeld
<1>8. crt' \in [0 .. MaxCrt -> Nat] /\ \A d \in 0 .. MaxCrt : d # c => crt'[d] = crt[d]
    BY <1>2, <1>5
<1>9. Moves(th, th', t, Idle)
    BY <1>2, <1>5, Returned, Zenon
<1>10. Types'
    BY <1>4, <1>5, <1>8, <1>9, Zenon DEF Types, WorldTypes, Moves
<1>11. CrtTables(m, crt') /\ Tables(m, sock, crt', table)
  <2>1. \A d \in DOMAIN m.CrtFDToRFD : d \in 0 .. MaxCrt /\ d # c
      BY <1>3, <1>7, Zenon DEF CrtTables
  <2>2. AgreeCrt(m, crt, crt')
      BY <1>8, <2>1, Zenon DEF AgreeCrt
  <2>3. QED
      BY <1>3, <2>2, AgreeingCrt, Zenon
<1>12. /\ HandlesHeld(m, sock, th') /\ CrtHeld(m, crt, streams, th') /\ Closings(m, th') /\ Calling(m, table, th')
    BY <1>3, <1>9, Idles, Zenon
<1>13. CrtHeld(m, crt', streams, th')
  <2>1. \A u \in Threads : c \notin Owned(th'[u])
    <3>1. Owned(Idle) = {}
        BY IdleIs DEF Owned
    <3>2. QED
        BY <1>7, <1>9, <3>1, Zenon DEF Moves
  <2>2. \A d \in streams : d \in 0 .. MaxCrt /\ d > 2 /\ crt'[d] # 0
    <3>1. \A d \in streams : d \in 0 .. MaxCrt /\ d > 2 /\ crt[d] # 0 /\ d # c
        BY <1>7, <1>12, Zenon DEF CrtHeld
    <3>2. QED
        BY <1>8, <3>1, Zenon
  <2>3. \A u \in Threads : \A d \in Owned(th'[u]) : crt'[d] # 0
    <3>1. \A u \in Threads : \A d \in Owned(th'[u]) : d \in 0 .. MaxCrt /\ crt[d] # 0 /\ d # c
        BY <1>12, <2>1, Zenon DEF CrtHeld
    <3>2. QED
        BY <1>8, <3>1, Zenon
  <2>4. QED
      BY <1>12, <2>2, <2>3, Zenon DEF CrtHeld
<1>14. QED
    BY <1>3, <1>4, <1>10, <1>11, <1>12, <1>13, Zenon DEF IInv

-----------------------------------------------------------------------------
(* The steps of the event loop: the worlds they pass through. *)
IsWorld(w) ==
  /\ w = [m |-> w.m, sock |-> w.sock, port |-> w.port, st |-> w.st, io |-> w.io, sockets |-> w.sockets, lost |-> w.lost]
  /\ WorldTypes(w.sock, w.port, w.st, w.io, w.sockets)
Good(w, tb) ==
  /\ IsWorld(w) /\ MapGood(w.m)
  /\ Opened(w.m, w.sock) /\ CrtTables(w.m, crt)
  /\ HandlesHeld(w.m, w.sock, th) /\ CrtHeld(w.m, crt, streams, th)
  /\ Closings(w.m, th) /\ Calling(w.m, tb, th)
  /\ StatesOwned(w.m, w.st) /\ Waits(w.m, w.st, w.io, tb) /\ Tables(w.m, w.sock, crt, tb)

LEMMA WorldIs ==
  /\ World.m = m /\ World.sock = sock /\ World.port = port /\ World.st = st /\ World.io = io /\ World.sockets = sockets /\ World.lost = lost
  /\ World = [m |-> World.m, sock |-> World.sock, port |-> World.port, st |-> World.st, io |-> World.io,
              sockets |-> World.sockets, lost |-> World.lost]
  BY DEF World

LEMMA WorldGood ==
    ASSUME IInv
    PROVE  Good(World, table)
<1>1. PICK w : w = World
    BY Zenon
<1>2. /\ w.m = m /\ w.sock = sock /\ w.port = port /\ w.st = st /\ w.io = io /\ w.sockets = sockets /\ w.lost = lost
      /\ w = [m |-> w.m, sock |-> w.sock, port |-> w.port, st |-> w.st, io |-> w.io, sockets |-> w.sockets, lost |-> w.lost]
    BY <1>1, WorldIs, Zenon
<1>3. Good(w, table)
    BY <1>2, Zenon DEF IInv, Types, Good, IsWorld
<1>4. QED
    BY <1>1, <1>3, Zenon

LEMMA GoodBecomes ==
    ASSUME IInv, NEW w, NEW tb, Good(w, tb), Become(w), table' = tb, th' = th
    PROVE  IInv'
<1>1. /\ m' = w.m /\ sock' = w.sock /\ port' = w.port /\ st' = w.st /\ io' = w.io /\ sockets' = w.sockets
      /\ crt' = crt /\ streams' = streams /\ files' = files
    BY DEF Become
<1>2. ThreadTypes(th) /\ crt \in [0 .. MaxCrt -> Nat] /\ files \in Nat
    BY Zenon DEF IInv, Types
<1>3. QED
    BY <1>1, <1>2, Zenon DEF IInv, Types, Good, IsWorld

(* The socket state of r is there, or has just been made. *)
NewBlock(r) == [fd |-> r, masks |-> {}, reqs |-> <<>>, wreqs |-> 0]
Makes(w, v, r, n) ==
  /\ State(w.m, r) = 0 /\ w.st[n] = NoState
  /\ SetsInfo(w.m, v.m, r, [socket |-> Socket(w.m, r), state |-> n]) /\ SameCrts(w.m, v.m)
  /\ v.m.SocketToRFD = w.m.SocketToRFD /\ MapGood(v.m)
  /\ v.st = [w.st EXCEPT ![n] = NewBlock(r)]
Aside(w, v) == v.sock = w.sock /\ v.port = w.port /\ v.io = w.io /\ v.sockets = w.sockets /\ v.lost = w.lost
Gets(w, v, r) ==
  \/ State(w.m, r) # 0 /\ v = w
  \/ \E n \in 1 .. NStates : Makes(w, v, r, n) /\ Aside(w, v) /\ IsWorld(v)

LEMMA NewBlockIs ==
    ASSUME NEW r \in Nat
    PROVE  /\ NewBlock(r) \in Blocks /\ NewBlock(r).fd = r /\ NewBlock(r).masks = {} /\ NewBlock(r).reqs = <<>> /\ NewBlock(r).wreqs = 0
  BY DEF NewBlock, Blocks

LEMMA GetsIs ==
    ASSUME NEW w, NEW tb, Good(w, tb), NEW r \in DOMAIN w.m.RFDToSocketInfo, State(w.m, r) # 0 \/ FreeStates(w) # {},
           NEW v, v = WSIOCP_GetSocketState(w, r)
    PROVE  Gets(w, v, r)
<1>1. StateIn(w, r) = State(w.m, r)
    BY DEF StateIn, FDAPI_GetSocketStatePtr, State
<1>2. CASE State(w.m, r) # 0
    BY <1>1, <1>2 DEF WSIOCP_GetSocketState, Gets
<1>3. CASE State(w.m, r) = 0
  <2>1. PICK n : n = Min(FreeStates(w))
      BY Zenon
  <2>2. n \in 1 .. NStates /\ w.st[n] = NoState
    <3>1. FreeStates(w) \subseteq Nat /\ FreeStates(w) # {}
        BY <1>3 DEF FreeStates
    <3>2. n \in FreeStates(w)
        BY <2>1, <3>1, MinIn, Zenon
    <3>3. QED
        BY <3>2 DEF FreeStates
  <2>3. PICK b : b = NewBlock(r)
      BY Zenon
  <2>4. v = [w EXCEPT !.m.RFDToSocketInfo[r].state = n, !.st[n] = b]
      BY <1>1, <1>3, <2>1, <2>3 DEF WSIOCP_GetSocketState, NewBlock
  <2>5. /\ IsWorld(w) /\ MapGood(w.m) /\ WorldTypes(w.sock, w.port, w.st, w.io, w.sockets)
        /\ w = [m |-> w.m, sock |-> w.sock, port |-> w.port, st |-> w.st, io |-> w.io, sockets |-> w.sockets, lost |-> w.lost]
      BY Zenon DEF Good, IsWorld
  <2>6. r \in Nat /\ w.m.RFDToSocketInfo[r] = [socket |-> Socket(w.m, r), state |-> State(w.m, r)]
        /\ Socket(w.m, r) \in Handles \cup {INVALID_SOCKET}
      BY <2>5, StateIs
  <2>7. PICK e : e = [socket |-> Socket(w.m, r), state |-> n]
      BY Zenon
  <2>8. e \in Infos /\ [w.m.RFDToSocketInfo[r] EXCEPT !.state = n] = e
    <3>1. n \in 0 .. NStates
        BY <2>2
    <3>2. QED
        BY <2>6, <2>7, <3>1 DEF Infos
  <2>9. PICK G : G = [w.m EXCEPT !.RFDToSocketInfo = [w.m.RFDToSocketInfo EXCEPT ![r] = e]]
      BY Zenon
  <2>10. /\ v.m = G /\ v.st = [w.st EXCEPT ![n] = b] /\ v.sock = w.sock /\ v.port = w.port /\ v.io = w.io /\ v.sockets = w.sockets
         /\ v.lost = w.lost
         /\ v = [m |-> v.m, sock |-> v.sock, port |-> v.port, st |-> v.st, io |-> v.io, sockets |-> v.sockets, lost |-> v.lost]
      BY <2>4, <2>5, <2>8, <2>9
  <2>11. MapGood(G) /\ SameCrts(w.m, G) /\ SetsInfo(w.m, G, r, e) /\ G.SocketToRFD = w.m.SocketToRFD
      BY <2>5, <2>8, <2>9, InfoSet
  <2>12. v.st \in [1 .. NStates -> Blocks \cup {NoState}]
    <3>1. b \in Blocks /\ w.st \in [1 .. NStates -> Blocks \cup {NoState}]
        BY <2>3, <2>5, <2>6, NewBlockIs DEF WorldTypes
    <3>2. QED
        BY <2>2, <2>10, <3>1
  <2>13. IsWorld(v)
      BY <2>5, <2>10, <2>12, Zenon DEF IsWorld, WorldTypes
  <2>14. QED
      BY <1>3, <2>2, <2>3, <2>7, <2>10, <2>11, <2>13, Zenon DEF Gets, Makes, Aside
<1>4. QED
    BY <1>2, <1>3

LEMMA GetsGood ==
    ASSUME NEW w, NEW tb, Good(w, tb), NEW r, Valid(w.m, r), NEW v, Gets(w, v, r)
    PROVE  /\ Good(v, tb) /\ Valid(v.m, r) /\ State(v.m, r) \in 1 .. NStates /\ v.st[State(v.m, r)] \in Blocks
           /\ KeepAll(w.m, v.m) /\ Aside(w, v) /\ \A k \in 1 .. NStates : Listed(v.st, k) = Listed(w.st, k)
<1>1. /\ IsWorld(w) /\ MapGood(w.m) /\ Opened(w.m, w.sock) /\ CrtTables(w.m, crt)
      /\ HandlesHeld(w.m, w.sock, th) /\ CrtHeld(w.m, crt, streams, th)
      /\ Closings(w.m, th) /\ Calling(w.m, tb, th)
      /\ StatesOwned(w.m, w.st) /\ Waits(w.m, w.st, w.io, tb) /\ Tables(w.m, w.sock, crt, tb)
    BY Zenon DEF Good
<1>2. r \in DOMAIN w.m.RFDToSocketInfo
    BY DEF Valid
<1>3. CASE State(w.m, r) # 0 /\ v = w
  <2>1. State(w.m, r) \in 1 .. NStates
      BY <1>1, <1>2, <1>3, StateIs
  <2>2. w.st[State(w.m, r)] \in Blocks
      BY <1>1, <1>2, <1>3, Zenon DEF StatesOwned
  <2>3. KeepAll(w.m, w.m)
      BY DEF KeepAll, Keep
  <2>4. QED
      BY <1>3, <2>1, <2>2, <2>3 DEF Aside
<1>4. ASSUME NEW n \in 1 .. NStates, Makes(w, v, r, n), Aside(w, v), IsWorld(v)
      PROVE  /\ Good(v, tb) /\ Valid(v.m, r) /\ State(v.m, r) \in 1 .. NStates /\ v.st[State(v.m, r)] \in Blocks
             /\ KeepAll(w.m, v.m) /\ Aside(w, v) /\ \A k \in 1 .. NStates : Listed(v.st, k) = Listed(w.st, k)
  <2>1. PICK G : G = v.m
      BY Zenon
  <2>2. PICK M : M = w.m
      BY Zenon
  <2>3. PICK b : b = NewBlock(r)
      BY Zenon
  <2>4. PICK e : e = [socket |-> Socket(M, r), state |-> n]
      BY Zenon
  <2>5. /\ State(M, r) = 0 /\ w.st[n] = NoState /\ SetsInfo(M, G, r, e) /\ SameCrts(M, G) /\ MapGood(G)
        /\ v.st = [w.st EXCEPT ![n] = b]
      BY <1>4, <2>1, <2>2, <2>3, <2>4, Zenon DEF Makes
  <2>6. /\ DOMAIN G.RFDToSocketInfo = DOMAIN M.RFDToSocketInfo /\ Socket(G, r) = Socket(M, r) /\ State(G, r) = n
        /\ \A x \in DOMAIN M.RFDToSocketInfo : Socket(G, x) = Socket(M, x) /\ (Valid(G, x) <=> Valid(M, x)) /\ (x # r => State(G, x) = State(M, x))
      BY <2>4, <2>5 DEF SetsInfo, Socket, State, Valid
  <2>7. w.st \in BlockTables
      BY <1>1, Zenon DEF IsWorld, WorldTypes, BlockTables
  <2>8. r \in Nat
      BY <1>1, <1>2, StateIs
  <2>9. b \in Blocks /\ b.fd = r /\ b.reqs = <<>> /\ b.masks = {}
      BY <2>3, <2>8, NewBlockIs
  <2>10. PICK z : z = v.st
      BY Zenon
  <2>11. z[n] = b /\ \A k \in 1 .. NStates : k # n => z[k] = w.st[k]
      BY <2>5, <2>7, <2>10 DEF BlockTables
  <2>12. KeepAll(M, G)
    <3>1. \A x : Valid(M, x) => Valid(G, x) /\ Socket(G, x) = Socket(M, x)
        BY <2>6 DEF Valid
    <3>2. QED
        BY <2>5, <3>1 DEF KeepAll, Keep, SameCrts
  <2>13. \A k \in 1 .. NStates : Listed(z, k) = Listed(w.st, k)
    <3>1. b # NoState
        BY <2>9, BlockIs
    <3>2. QED
        BY <2>5, <2>9, <2>11, <3>1 DEF Listed
  <2>14. StatesOwned(G, z)
    <3>1. ASSUME NEW x \in DOMAIN G.RFDToSocketInfo, State(G, x) # 0
          PROVE  /\ z[State(G, x)] \in Blocks /\ z[State(G, x)].fd = x
                 /\ "CLOSE_PENDING" \in z[State(G, x)].masks => Socket(G, x) = INVALID_SOCKET
      <4>1. CASE x = r
          BY <2>6, <2>9, <2>11, <4>1
      <4>2. CASE x # r
        <5>1. PICK k : k = State(M, x)
            BY Zenon
        <5>2. x \in DOMAIN M.RFDToSocketInfo /\ k # 0 /\ State(G, x) = k /\ Socket(G, x) = Socket(M, x)
            BY <2>6, <3>1, <4>2, <5>1
        <5>3. k \in 1 .. NStates
            BY <1>1, <2>2, <5>1, <5>2, StateIs
        <5>4. w.st[k] \in Blocks /\ w.st[k].fd = x /\ ("CLOSE_PENDING" \in w.st[k].masks => Socket(M, x) = INVALID_SOCKET)
            BY <1>1, <2>2, <5>1, <5>2 DEF StatesOwned
        <5>5. k # n
            BY <2>5, <5>4, BlockIs
        <5>6. QED
            BY <2>11, <5>2, <5>3, <5>4, <5>5
      <4>3. QED
          BY <4>1, <4>2
    <3>2. ASSUME NEW k \in 1 .. NStates, z[k] # NoState
          PROVE  z[k] \in Blocks /\ z[k].fd \in DOMAIN G.RFDToSocketInfo /\ State(G, z[k].fd) = k
      <4>1. CASE k = n
          BY <1>2, <2>2, <2>6, <2>9, <2>11, <4>1
      <4>2. CASE k # n
        <5>1. z[k] = w.st[k]
            BY <2>11, <4>2
        <5>2. w.st[k] \in Blocks /\ w.st[k].fd \in DOMAIN M.RFDToSocketInfo /\ State(M, w.st[k].fd) = k
            BY <1>1, <2>2, <3>2, <5>1 DEF StatesOwned
        <5>3. k # 0
            OBVIOUS
        <5>4. w.st[k].fd # r
            BY <2>5, <5>2, <5>3
        <5>5. QED
            BY <2>6, <5>1, <5>2, <5>4
      <4>3. QED
          BY <4>1, <4>2
    <3>3. QED
        BY <3>1, <3>2, Zenon DEF StatesOwned
  <2>15. Opened(G, w.sock) /\ HandlesHeld(G, w.sock, th) /\ Closings(G, th)
    <3>1. Opened(M, w.sock) /\ HandlesHeld(M, w.sock, th) /\ Closings(M, th)
        BY <1>1, <2>2
    <3>2. Opened(G, w.sock)
        BY <2>6, <3>1 DEF Opened
    <3>3. HandlesHeld(G, w.sock, th)
        BY <2>6, <3>1 DEF HandlesHeld
    <3>4. Closings(G, th)
      <4>1. Socket(M, r) # INVALID_SOCKET
          BY <2>2 DEF Valid
      <4>2. QED
          BY <2>6, <3>1, <4>1 DEF Closings
    <3>5. QED
        BY <3>2, <3>3, <3>4
  <2>16. CrtTables(G, crt) /\ CrtHeld(G, crt, streams, th)
      BY <1>1, <2>2, <2>5, SameCrtParts, Zenon
  <2>17. Tables(G, w.sock, crt, tb) /\ Calling(G, tb, th) /\ Waits(G, w.st, w.io, tb)
      BY <1>1, <2>2, <2>12, AllKept, Zenon
  <2>18. Waits(G, z, w.io, tb)
      BY <2>13, <2>17, FewerListed, Zenon
  <2>19. Good(v, tb)
      BY <1>4, <2>1, <2>5, <2>10, <2>14, <2>15, <2>16, <2>17, <2>18, Zenon DEF Good, Aside
  <2>20. Valid(G, r)
      BY <1>2, <2>2, <2>6
  <2>21. QED
      BY <1>4, <2>1, <2>2, <2>6, <2>9, <2>10, <2>11, <2>12, <2>13, <2>19, <2>20
<1>5. QED
    BY <1>3, <1>4 DEF Gets

(* Block n becomes b and the completion keys become p. *)
Sets(w, v, n, b, p) ==
  /\ v.m = w.m /\ v.sock = w.sock /\ v.io = w.io /\ v.sockets = w.sockets /\ v.lost = w.lost
  /\ v.port = p /\ v.st = [w.st EXCEPT ![n] = b] /\ IsWorld(v)
SameBut(b, c) == b \in Blocks /\ c \in Blocks /\ b.fd = c.fd /\ b.reqs = c.reqs

LEMMA SetsGood ==
    ASSUME NEW w, NEW tb, Good(w, tb), NEW n \in 1 .. NStates, NEW b, SameBut(b, w.st[n]),
           "CLOSE_PENDING" \in b.masks => "CLOSE_PENDING" \in w.st[n].masks, NEW v, NEW p, Sets(w, v, n, b, p)
    PROVE  Good(v, tb) /\ \A k \in 1 .. NStates : Listed(v.st, k) = Listed(w.st, k)
<1>1. /\ IsWorld(w) /\ MapGood(w.m) /\ Opened(w.m, w.sock) /\ CrtTables(w.m, crt)
      /\ HandlesHeld(w.m, w.sock, th) /\ CrtHeld(w.m, crt, streams, th)
      /\ Closings(w.m, th) /\ Calling(w.m, tb, th)
      /\ StatesOwned(w.m, w.st) /\ Waits(w.m, w.st, w.io, tb) /\ Tables(w.m, w.sock, crt, tb)
    BY Zenon DEF Good
<1>2. w.st \in BlockTables
    BY <1>1, Zenon DEF IsWorld, WorldTypes, BlockTables
<1>3. PICK z : z = v.st
    BY Zenon
<1>4. z = [w.st EXCEPT ![n] = b] /\ v.m = w.m /\ v.sock = w.sock /\ v.io = w.io /\ IsWorld(v)
    BY <1>3, Zenon DEF Sets
<1>5. Retouched(w.m, w.st, z)
  <2>1. z = [k \in 1 .. NStates |-> z[k]] /\ z[n] = b /\ \A k \in 1 .. NStates : k # n => z[k] = w.st[k]
      BY <1>2, <1>4 DEF BlockTables
  <2>2. \A k \in 1 .. NStates : w.st[k] # NoState => w.st[k] \in Blocks
      BY <1>1, Zenon DEF StatesOwned
  <2>3. b \in Blocks /\ b.fd = w.st[n].fd /\ b.reqs = w.st[n].reqs /\ w.st[n] # NoState
      BY BlockIs DEF SameBut
  <2>4. QED
      BY <2>1, <2>2, <2>3 DEF Retouched
<1>6. StatesOwned(w.m, z) /\ \A k \in 1 .. NStates : Listed(z, k) = Listed(w.st, k)
    BY <1>1, <1>2, <1>5, RetouchedParts
<1>7. Waits(w.m, z, w.io, tb)
    BY <1>1, <1>6, FewerListed, Zenon
<1>8. Good(v, tb)
    BY <1>1, <1>3, <1>4, <1>6, <1>7, Zenon DEF Good
<1>9. QED
    BY <1>3, <1>6, <1>8, Zenon

LEMMA SetMasksIs ==
    ASSUME NEW w, IsWorld(w), NEW r, NEW n \in 1 .. NStates, n = State(w.m, r), w.st[n] \in Blocks, NEW masks \in SUBSET Masks,
           NEW v, v = SetMasks(w, r, masks), NEW b, b = [w.st[n] EXCEPT !.masks = masks]
    PROVE  /\ Sets(w, v, n, b, w.port) /\ SameBut(b, w.st[n]) /\ b.masks = masks /\ b.wreqs = w.st[n].wreqs
<1>1. StateIn(w, r) = n
    BY DEF StateIn, FDAPI_GetSocketStatePtr, State
<1>2. SameBut(b, w.st[n]) /\ b.masks = masks /\ b.wreqs = w.st[n].wreqs
    BY DEF SameBut, Blocks
<1>3. /\ w = [m |-> w.m, sock |-> w.sock, port |-> w.port, st |-> w.st, io |-> w.io, sockets |-> w.sockets, lost |-> w.lost]
      /\ WorldTypes(w.sock, w.port, w.st, w.io, w.sockets)
    BY Zenon DEF IsWorld
<1>4. v = [w EXCEPT !.st = [w.st EXCEPT ![n] = b]]
    BY <1>1, <1>3 DEF SetMasks
<1>5. /\ v.m = w.m /\ v.sock = w.sock /\ v.io = w.io /\ v.sockets = w.sockets /\ v.lost = w.lost
      /\ v.port = w.port /\ v.st = [w.st EXCEPT ![n] = b]
      /\ v = [m |-> v.m, sock |-> v.sock, port |-> v.port, st |-> v.st, io |-> v.io, sockets |-> v.sockets, lost |-> v.lost]
    BY <1>3, <1>4
<1>6. v.st \in [1 .. NStates -> Blocks \cup {NoState}]
    BY <1>2, <1>3, <1>5 DEF WorldTypes, SameBut
<1>7. IsWorld(v)
    BY <1>3, <1>5, <1>6, Zenon DEF IsWorld, WorldTypes
<1>8. QED
    BY <1>2, <1>5, <1>7, Zenon DEF Sets

Attached == {"SOCKET_ATTACHED"}
LEMMA AttachedBlock ==
    ASSUME NEW c \in Blocks, NEW b, b = [c EXCEPT !.masks = Attached, !.wreqs = 0]
    PROVE  SameBut(b, c) /\ b.masks = Attached /\ b.wreqs = 0
<1>1. PICK a \in SUBSET Masks : a = Attached
    BY DEF Attached, Masks
<1>2. c = [fd |-> c.fd, masks |-> c.masks, reqs |-> c.reqs, wreqs |-> c.wreqs] /\ c.fd \in Nat /\ c.reqs \in Seq(Nat)
    BY BlockIs
<1>3. b = [c EXCEPT !.masks = a, !.wreqs = 0]
    BY <1>1
<1>4. b.fd = c.fd /\ b.reqs = c.reqs /\ b.masks = a /\ b.wreqs = 0 /\ b = [fd |-> c.fd, masks |-> a, reqs |-> c.reqs, wreqs |-> 0]
    BY <1>2, <1>3
<1>5. 0 \in Int
    OBVIOUS
<1>6. b \in Blocks
  <2>1. [fd |-> c.fd, masks |-> a, reqs |-> c.reqs, wreqs |-> 0] \in Blocks
      BY <1>2, <1>5, BlockMade
  <2>2. QED
      BY <1>4, <2>1, Zenon
<1>7. QED
    BY <1>1, <1>4, <1>6 DEF SameBut

LEMMA AttachedIs ==
    ASSUME NEW w, IsWorld(w), NEW r, Valid(w.m, r), MapGood(w.m), NEW n \in 1 .. NStates, n = State(w.m, r), w.st[n] \in Blocks,
           NEW v, v = WSIOCP_SocketAttach(w, r), NEW b, b = [w.st[n] EXCEPT !.masks = Attached, !.wreqs = 0],
           NEW l, l = [w.port EXCEPT ![Socket(w.m, r)] = r]
    PROVE  /\ Sets(w, v, n, b, l) /\ SameBut(b, w.st[n]) /\ b.masks = Attached /\ b.wreqs = 0
<1>1. StateIn(w, r) = n
    BY DEF StateIn, FDAPI_GetSocketStatePtr, State
<1>2. PICK h : h = Socket(w.m, r)
    BY Zenon
<1>3. HandleIn(w, r) = h /\ h \in Handles /\ r \in Nat
  <2>1. r \in DOMAIN w.m.RFDToSocketInfo /\ h # INVALID_SOCKET
      BY <1>2 DEF Valid
  <2>2. QED
      BY <1>2, <2>1, StateIs DEF HandleIn, lookupSocket, Socket
<1>4. SameBut(b, w.st[n]) /\ b.masks = Attached /\ b.wreqs = 0
    BY AttachedBlock, Zenon
<1>5. /\ w = [m |-> w.m, sock |-> w.sock, port |-> w.port, st |-> w.st, io |-> w.io, sockets |-> w.sockets, lost |-> w.lost]
      /\ WorldTypes(w.sock, w.port, w.st, w.io, w.sockets)
    BY Zenon DEF IsWorld
<1>6. w.st \in [1 .. NStates -> Blocks \cup {NoState}] /\ w.port \in [Handles -> Int]
    BY <1>5, Zenon DEF WorldTypes
<1>7. PICK p : p = [w.port EXCEPT ![h] = r]
    BY Zenon
<1>8. v = [[w EXCEPT !.port = p] EXCEPT !.st = [w.st EXCEPT ![n] = b]]
  <2>1. PICK d : d = [w.st[n] EXCEPT !.masks = Attached]
      BY Zenon
  <2>2. b = [d EXCEPT !.wreqs = 0]
      BY <2>1 DEF Blocks
  <2>3. PICK y : y = [w.st EXCEPT ![n] = d]
      BY Zenon
  <2>4. y[n] = d /\ [w.st EXCEPT ![n] = b] = [y EXCEPT ![n] = b]
      BY <1>6, <2>3
  <2>5. v = [[[w EXCEPT !.port = p] EXCEPT !.st = y] EXCEPT !.st = [y EXCEPT ![n] = [d EXCEPT !.wreqs = 0]]]
      BY <1>1, <1>3, <1>5, <1>7, <2>1, <2>3, <2>4 DEF WSIOCP_SocketAttach, Attached
  <2>6. QED
      BY <1>5, <2>2, <2>4, <2>5
<1>9. /\ v.m = w.m /\ v.sock = w.sock /\ v.io = w.io /\ v.sockets = w.sockets /\ v.lost = w.lost
      /\ v.port = p /\ v.st = [w.st EXCEPT ![n] = b]
      /\ v = [m |-> v.m, sock |-> v.sock, port |-> v.port, st |-> v.st, io |-> v.io, sockets |-> v.sockets, lost |-> v.lost]
    BY <1>5, <1>8
<1>10. v.st \in [1 .. NStates -> Blocks \cup {NoState}]
    BY <1>4, <1>6, <1>9 DEF SameBut
<1>11. v.port \in [Handles -> Int]
    BY <1>3, <1>6, <1>7, <1>9
<1>12. IsWorld(v)
    BY <1>5, <1>9, <1>10, <1>11, Zenon DEF IsWorld, WorldTypes
<1>13. QED
    BY <1>2, <1>4, <1>7, <1>9, <1>12, Zenon DEF Sets

(* An operation is issued: it is not yet under way. *)
Issues(w, v, o) ==
  /\ v.m = w.m /\ v.sock = w.sock /\ v.st = w.st /\ v.port = w.port /\ v.sockets = w.sockets /\ v.lost = w.lost
  /\ v.io = w.io \cup {o} /\ o \notin w.io /\ IsWorld(v)
IsOp(o, key, n, kind, acc) == o.key = key /\ o.st = n /\ o.kind = kind /\ o.acc = acc

LEMMA IssueIs ==
    ASSUME NEW w, IsWorld(w), MapGood(w.m), NEW r, Valid(w.m, r), NEW n \in 1 .. NStates, n = State(w.m, r),
           NEW kind \in {"accept", "connect", "read", "send"}, NEW acc \in Int, NEW v, v = Issue(w, r, kind, acc)
    PROVE  \E o : Issues(w, v, o) /\ IsOp(o, w.port[Socket(w.m, r)], n, kind, acc)
<1>1. PICK key : key = w.port[Socket(w.m, r)]
    BY Zenon
<1>2. StateIn(w, r) = n /\ w.port[HandleIn(w, r)] = key /\ key \in Int
  <2>1. r \in DOMAIN w.m.RFDToSocketInfo /\ Socket(w.m, r) \in Handles
    <3>1. r \in DOMAIN w.m.RFDToSocketInfo /\ Socket(w.m, r) # INVALID_SOCKET
        BY DEF Valid
    <3>2. QED
        BY <3>1, StateIs
  <2>2. HandleIn(w, r) = Socket(w.m, r)
      BY <2>1 DEF HandleIn, lookupSocket, Socket
  <2>3. w.port \in [Handles -> Int]
      BY Zenon DEF IsWorld, WorldTypes
  <2>4. StateIn(w, r) = n
      BY DEF StateIn, FDAPI_GetSocketStatePtr, State
  <2>5. QED
      BY <1>1, <2>1, <2>2, <2>3, <2>4
<1> DEFINE Op(i) == [key |-> key, st |-> n, kind |-> kind, acc |-> acc, i |-> i]
<1>3. PICK q : q = w.io
    BY Zenon
<1>4. q \subseteq Operations /\ IsFiniteSet(q)
    BY <1>3, Zenon DEF IsWorld, WorldTypes
<1>5. PICK k \in Nat : k = Cardinality(q)
    BY <1>4, FS_CardinalityType
<1>6. \E i \in 0 .. k : Op(i) \notin q
  <2>1. SUFFICES ASSUME \A i \in 0 .. k : Op(i) \in q PROVE FALSE
      BY Zenon
  <2>2. PICK f : f = [i \in 0 .. k |-> Op(i)]
      BY Zenon
  <2>3. f \in [0 .. k -> q] /\ \A i \in 0 .. k : f[i] = Op(i)
      BY <2>1, <2>2
  <2>4. IsFiniteSet(0 .. k) /\ Cardinality(q) < Cardinality(0 .. k)
    <3>1. 0 \in Int /\ k \in Int
        OBVIOUS
    <3>2. IsFiniteSet(0 .. k) /\ Cardinality(0 .. k) = IF 0 > k THEN 0 ELSE k - 0 + 1
        BY <3>1, FS_Interval, Zenon
    <3>3. QED
        BY <1>5, <3>2
  <2>5. \E x, y \in 0 .. k : x # y /\ f[x] = f[y]
      BY <1>4, <2>3, <2>4, FS_PigeonHole
  <2>6. \A x, y : Op(x) = Op(y) => x = y
      OBVIOUS
  <2>7. QED
      BY <2>3, <2>5, <2>6
<1>7. PICK i : i = CHOOSE j \in 0 .. k : Op(j) \notin q
    BY Zenon
<1>8. i \in 0 .. k /\ Op(i) \notin q
    BY <1>6, <1>7, Zenon
<1>9. PICK o : o = Op(i)
    BY Zenon
<1>10. /\ w = [m |-> w.m, sock |-> w.sock, port |-> w.port, st |-> w.st, io |-> w.io, sockets |-> w.sockets, lost |-> w.lost]
       /\ WorldTypes(w.sock, w.port, w.st, w.io, w.sockets)
    BY Zenon DEF IsWorld
<1>11. v = [w EXCEPT !.io = q \cup {o}]
    BY <1>2, <1>3, <1>5, <1>7, <1>9, <1>10 DEF Issue
<1>12. /\ v.m = w.m /\ v.sock = w.sock /\ v.st = w.st /\ v.sockets = w.sockets /\ v.lost = w.lost
       /\ v.port = w.port /\ v.io = q \cup {o}
       /\ v = [m |-> v.m, sock |-> v.sock, port |-> v.port, st |-> v.st, io |-> v.io, sockets |-> v.sockets, lost |-> v.lost]
    BY <1>10, <1>11
<1>13. o \in Operations /\ o.key = key /\ o.st = n /\ o.kind = kind /\ o.acc = acc
  <2>1. i \in Nat
      BY <1>8
  <2>2. QED
      BY <1>2, <1>9, <2>1 DEF Operations
<1>14. IsFiniteSet(q \cup {o})
    BY <1>4, FS_AddElement
<1>15. v.io \subseteq Operations /\ IsFiniteSet(v.io)
    BY <1>4, <1>12, <1>13, <1>14
<1>16. IsWorld(v)
    BY <1>10, <1>12, <1>15, Zenon DEF IsWorld, WorldTypes
<1>17. o \notin w.io
    BY <1>3, <1>8, <1>9
<1>18. QED
    BY <1>1, <1>3, <1>12, <1>13, <1>16, <1>17 DEF Issues, IsOp

(* Descriptor r waits nowhere. *)
Free(w, tb, r) ==
  /\ r \notin DOMAIN tb /\ \A o \in Accepts(w.io) : o.acc # r
  /\ \A n \in 1 .. NStates : \A i \in DOMAIN Listed(w.st, n) : Listed(w.st, n)[i] # r

LEMMA IssueGood ==
    ASSUME NEW w, NEW tb, Good(w, tb), NEW v, NEW o, Issues(w, v, o),
           o.kind = "accept" => Valid(w.m, o.acc) /\ Free(w, tb, o.acc)
    PROVE  Good(v, tb)
<1>1. /\ IsWorld(w) /\ MapGood(w.m) /\ Opened(w.m, w.sock) /\ CrtTables(w.m, crt)
      /\ HandlesHeld(w.m, w.sock, th) /\ CrtHeld(w.m, crt, streams, th)
      /\ Closings(w.m, th) /\ Calling(w.m, tb, th)
      /\ StatesOwned(w.m, w.st) /\ Waits(w.m, w.st, w.io, tb) /\ Tables(w.m, w.sock, crt, tb)
    BY Zenon DEF Good
<1>2. /\ v.m = w.m /\ v.sock = w.sock /\ v.st = w.st /\ v.io = w.io \cup {o} /\ IsWorld(v)
    BY Zenon DEF Issues
<1>3. Waits(w.m, w.st, w.io \cup {o}, tb)
  <2>1. PICK q : q = w.io \cup {o}
      BY Zenon
  <2>2. \A x \in Accepts(q) : x \in Accepts(w.io) \/ (x = o /\ o.kind = "accept")
      BY <2>1 DEF Accepts
  <2>3. \A x \in Accepts(q) : Valid(w.m, x.acc) /\ x.acc \notin DOMAIN tb
      BY <1>1, <2>2 DEF Waits, Free
  <2>4. \A x, y \in Accepts(q) : x.acc = y.acc => x = y
      BY <1>1, <2>2 DEF Waits, Free
  <2>5. ASSUME NEW n \in 1 .. NStates, NEW i \in DOMAIN Listed(w.st, n), NEW x \in Accepts(q)
        PROVE  x.acc # Listed(w.st, n)[i]
    <3>1. \A y \in Accepts(w.io) : y.acc # Listed(w.st, n)[i]
        BY <1>1, Zenon DEF Waits
    <3>2. o.kind = "accept" => o.acc # Listed(w.st, n)[i]
        BY Zenon DEF Free
    <3>3. QED
        BY <2>2, <3>1, <3>2, Zenon
  <2>6. QED
      BY <1>1, <2>1, <2>3, <2>4, <2>5, Zenon DEF Waits
<1>4. QED
    BY <1>1, <1>2, <1>3, Zenon DEF Good

(* A socket is opened on a free handle and the map may name it. *)
Opens(w, v, h) == v = [w EXCEPT !.sock[h] = w.sockets + 1, !.sockets = @ + 1, !.m = addSocket(w.m, h)]
LEMMA OpenedGood ==
    ASSUME NEW w, NEW tb, Good(w, tb), NEW h \in Handles, w.sock[h] = 0, NEW a, a = AddedSocket(w.m, h),
           NEW v, Opens(w, v, h)
    PROVE  /\ Good(v, tb) /\ KeepAll(w.m, v.m) /\ Agree(w.m, w.sock, v.sock) /\ v.io = w.io /\ v.st = w.st /\ v.port = w.port
           /\ v.sock[h] = w.sockets + 1
           /\ \A x \in DOMAIN w.m.RFDToSocketInfo : State(v.m, x) = State(w.m, x)
           /\ a # INVALID_FD => /\ a \in Nat /\ Valid(v.m, a) /\ Socket(v.m, a) = h /\ State(v.m, a) = 0
                                /\ ~Valid(w.m, a) /\ Free(v, tb, a)
<1>1. /\ IsWorld(w) /\ MapGood(w.m) /\ Opened(w.m, w.sock) /\ CrtTables(w.m, crt)
      /\ HandlesHeld(w.m, w.sock, th) /\ CrtHeld(w.m, crt, streams, th)
      /\ Closings(w.m, th) /\ Calling(w.m, tb, th)
      /\ StatesOwned(w.m, w.st) /\ Waits(w.m, w.st, w.io, tb) /\ Tables(w.m, w.sock, crt, tb)
    BY Zenon DEF Good
<1>2. /\ w = [m |-> w.m, sock |-> w.sock, port |-> w.port, st |-> w.st, io |-> w.io, sockets |-> w.sockets, lost |-> w.lost]
      /\ WorldTypes(w.sock, w.port, w.st, w.io, w.sockets)
    BY <1>1, Zenon DEF IsWorld
<1>3. PICK M : M = w.m
    BY Zenon
<1>4. PICK G : G = addSocket(M, h)
    BY Zenon
<1>5. PICK k : k = w.sockets + 1
    BY Zenon
<1>6. w.sockets \in Nat /\ w.sock \in [Handles -> Nat]
    BY <1>2, Zenon DEF WorldTypes
<1>7. k \in Nat /\ k # 0
    BY <1>5, <1>6
<1>8. PICK sl : sl = [w.sock EXCEPT ![h] = k]
    BY Zenon
<1>9. sl \in [Handles -> Nat] /\ sl[h] = k /\ \A y \in Handles : y # h => sl[y] = w.sock[y]
    BY <1>6, <1>7, <1>8
<1>10. /\ v.m = G /\ v.sock = sl /\ v.port = w.port /\ v.st = w.st /\ v.io = w.io /\ v.sockets = k /\ v.lost = w.lost
       /\ v = [m |-> v.m, sock |-> v.sock, port |-> v.port, st |-> v.st, io |-> v.io, sockets |-> v.sockets, lost |-> v.lost]
    BY <1>2, <1>3, <1>4, <1>5, <1>8 DEF Opens
<1>11. IsWorld(v)
    BY <1>2, <1>7, <1>9, <1>10, Zenon DEF IsWorld, WorldTypes
<1>12. h # INVALID_SOCKET
    BY FdAssumption
<1>13. \A x \in DOMAIN M.RFDToSocketInfo : Socket(M, x) # h
  <2>1. \A x \in DOMAIN M.RFDToSocketInfo : Valid(M, x) => w.sock[Socket(M, x)] # 0
      BY <1>1, <1>3, Zenon DEF Opened
  <2>2. QED
      BY <1>12, <2>1 DEF Valid
<1>14. \A t \in Threads : Holding(th[t]) => th[t].h # h /\ th[t].h \in Handles
    BY <1>1, Zenon DEF HandlesHeld
<1>15. Agree(M, w.sock, sl)
  <2>1. \A x \in DOMAIN M.RFDToSocketInfo : Valid(M, x) => Socket(M, x) \in Handles
      BY <1>1, <1>3, StateIs DEF Valid
  <2>2. QED
      BY <1>9, <1>13, <2>1, Zenon DEF Agree
<1>16. Opened(M, sl) /\ Tables(M, sl, crt, tb)
    BY <1>1, <1>3, <1>15, Agreeing, Zenon
<1>17. HandlesHeld(M, sl, th)
    BY <1>1, <1>3, <1>9, <1>14, Zenon DEF HandlesHeld
<1>18. CASE a = INVALID_FD
  <2>1. G = M
      BY <1>3, <1>4, <1>18, SocketNotAdded, Zenon
  <2>2. KeepAll(M, M)
      BY DEF KeepAll, Keep
  <2>3. Good(v, tb)
      BY <1>1, <1>3, <1>10, <1>11, <1>16, <1>17, <2>1, Zenon DEF Good
  <2>4. QED
      BY <1>3, <1>5, <1>9, <1>10, <1>15, <1>18, <2>1, <2>2, <2>3, Zenon
<1>19. CASE a # INVALID_FD
  <2>1. /\ MapGood(G) /\ SameCrts(M, G) /\ GainsInfo(M, G, a, [socket |-> h, state |-> 0]) /\ a \in Nat
      BY <1>1, <1>3, <1>4, <1>19, SocketAdded
  <2>2. /\ Valid(G, a) /\ Socket(G, a) = h /\ State(G, a) = 0
        /\ Opened(G, sl) /\ HandlesHeld(G, sl, th) /\ StatesOwned(G, w.st) /\ Closings(G, th)
    <3>1. /\ Valid(G, a) /\ Socket(G, a) = h /\ State(G, a) = 0
          /\ Opened(M, sl) /\ sl[h] # 0 => Opened(G, sl)
          /\ HandlesHeld(M, sl, th) /\ (\A t \in Threads : Holding(th[t]) => th[t].h # h) => HandlesHeld(G, sl, th)
          /\ StatesOwned(M, w.st) => StatesOwned(G, w.st)
          /\ Closings(M, th) => Closings(G, th)
        BY <1>12, <1>13, <2>1, GainsParts
    <3>2. QED
        BY <1>1, <1>3, <1>7, <1>9, <1>14, <1>16, <1>17, <3>1, Zenon
  <2>3. CrtTables(G, crt) /\ CrtHeld(G, crt, streams, th)
      BY <1>1, <1>3, <2>1, SameCrtParts, Zenon
  <2>4. KeepAll(M, G)
      BY <2>1, GainsKeeps, Zenon
  <2>5. Tables(G, sl, crt, tb) /\ Calling(G, tb, th) /\ Waits(G, w.st, w.io, tb)
      BY <1>1, <1>3, <1>16, <2>4, AllKept, Zenon
  <2>6. Good(v, tb)
      BY <1>10, <1>11, <2>1, <2>2, <2>3, <2>5, Zenon DEF Good
  <2>7. ~Valid(M, a) /\ a \notin DOMAIN M.RFDToCrtFD
      BY <2>1 DEF GainsInfo, Valid
  <2>8. Free(v, tb, a)
    <3>1. a \notin DOMAIN tb
        BY <1>1, <1>3, <2>7, Zenon DEF Tables
    <3>2. PICK s : s = w.st
        BY Zenon
    <3>3. PICK q : q = w.io
        BY Zenon
    <3>4. Waits(M, s, q, tb) /\ v.st = s /\ v.io = q
        BY <1>1, <1>3, <1>10, <3>2, <3>3, Zenon
    <3>5. /\ \A o \in Accepts(q) : o.acc # a
          /\ \A n \in 1 .. NStates : \A i \in DOMAIN Listed(s, n) : Listed(s, n)[i] # a
      <4>1. /\ \A o \in Accepts(q) : Valid(M, o.acc)
            /\ \A n \in 1 .. NStates : \A i \in DOMAIN Listed(s, n) : Valid(M, Listed(s, n)[i])
          BY <3>4, Zenon DEF Waits
      <4>2. ~Valid(M, a)
          BY <2>7
      <4>3. QED
          BY <4>1, <4>2, Zenon
    <3>6. QED
        BY <3>1, <3>4, <3>5, Zenon DEF Free
  <2>9. \A x \in DOMAIN M.RFDToSocketInfo : State(G, x) = State(M, x)
      BY <2>1 DEF GainsInfo, State
  <2>10. QED
      BY <1>3, <1>5, <1>9, <1>10, <1>15, <2>1, <2>2, <2>4, <2>6, <2>7, <2>8, <2>9, Zenon
<1>20. QED
    BY <1>18, <1>19

(* What the close inside QueueAccept does to the tables. *)
LEMMA ClosedTables ==
    ASSUME NEW M, MapGood(M), NEW r, Valid(M, r), NEW h,
           NEW v, v = [socket |-> INVALID_SOCKET, state |-> State(M, r)],
           NEW G, G = removeSocketToRFD(removeRFDToSocketInfo([M EXCEPT !.RFDToSocketInfo = [M.RFDToSocketInfo EXCEPT ![r] = v]], r), h)
    PROVE  MapGood(G) /\ SameCrts(M, G) /\ LosesInfo(M, G, r) /\ DOMAIN G.SocketToRFD = DOMAIN M.SocketToRFD \ {h}
<1>1. PICK A : A = [M EXCEPT !.RFDToSocketInfo = [M.RFDToSocketInfo EXCEPT ![r] = v]]
    BY Zenon
<1>2. PICK B : B = removeRFDToSocketInfo(A, r)
    BY Zenon
<1>3. r \in DOMAIN M.RFDToSocketInfo
    BY DEF Valid
<1>4. v \in Infos
  <2>1. State(M, r) \in 0 .. NStates
      BY <1>3, StateIs
  <2>2. QED
      BY <2>1 DEF Infos
<1>5. MapGood(A) /\ SameCrts(M, A) /\ SetsInfo(M, A, r, v) /\ A.SocketToRFD = M.SocketToRFD
    BY <1>1, <1>3, <1>4, InfoSet
<1>6. r \in DOMAIN A.RFDToSocketInfo
    BY <1>3, <1>5 DEF SetsInfo
<1>7. MapGood(B) /\ SameCrts(A, B) /\ LosesInfo(A, B, r) /\ B.SocketToRFD = A.SocketToRFD
    BY <1>2, <1>5, <1>6, InfoRemoved
<1>8. MapGood(G) /\ SameCrts(B, G) /\ SameInfos(B, G) /\ DOMAIN G.SocketToRFD = DOMAIN B.SocketToRFD \ {h}
    BY <1>1, <1>2, <1>7, Forgotten
<1>9. SameCrts(M, G)
    BY <1>5, <1>7, <1>8 DEF SameCrts
<1>10. LosesInfo(M, G, r)
    BY <1>5, <1>7, <1>8 DEF LosesInfo, SetsInfo, SameInfos
<1>11. QED
    BY <1>5, <1>7, <1>8, <1>9, <1>10

(* The socket of r is closed, its block n freed and its descriptor recycled. *)
Shuts(w, v, r, n, h) ==
  /\ v.sock = [w.sock EXCEPT ![h] = 0] /\ v.port = [w.port EXCEPT ![h] = -1] /\ v.st = [w.st EXCEPT ![n] = NoState]
  /\ v.io = w.io /\ v.sockets = w.sockets /\ v.lost = w.lost
  /\ MapGood(v.m) /\ SameCrts(w.m, v.m) /\ LosesInfo(w.m, v.m, r) /\ DOMAIN v.m.SocketToRFD = DOMAIN w.m.SocketToRFD \ {h}
  /\ IsWorld(v)

LEMMA CloseInsideIs ==
    ASSUME NEW w, IsWorld(w), MapGood(w.m), NEW r, Valid(w.m, r), NEW n \in 1 .. NStates, n = State(w.m, r), Closable(w.st[n]),
           NEW v, v = CloseInside(w, r)
    PROVE  Shuts(w, v, r, n, Socket(w.m, r))
<1>1. PICK M : M = w.m
    BY Zenon
<1>2. PICK h : h = Socket(M, r)
    BY Zenon
<1>3. StateIn(w, r) = n /\ HandleIn(w, r) = h /\ h \in Handles /\ r \in DOMAIN M.RFDToSocketInfo
  <2>1. r \in DOMAIN M.RFDToSocketInfo /\ h # INVALID_SOCKET
      BY <1>1, <1>2 DEF Valid
  <2>2. QED
      BY <1>1, <1>2, <2>1, StateIs DEF HandleIn, lookupSocket, Socket, StateIn, FDAPI_GetSocketStatePtr, State
<1>4. /\ w = [m |-> w.m, sock |-> w.sock, port |-> w.port, st |-> w.st, io |-> w.io, sockets |-> w.sockets, lost |-> w.lost]
      /\ WorldTypes(w.sock, w.port, w.st, w.io, w.sockets)
    BY Zenon DEF IsWorld
<1>5. w.sock \in [Handles -> Nat] /\ w.port \in [Handles -> Int] /\ w.st \in [1 .. NStates -> Blocks \cup {NoState}]
    BY <1>4, Zenon DEF WorldTypes
<1>6. PICK e : e = [socket |-> INVALID_SOCKET, state |-> n]
    BY Zenon
<1>7. M.RFDToSocketInfo[r] = [socket |-> h, state |-> n]
    BY <1>1, <1>2, <1>3, StateIs
<1>8. PICK A : A = [M EXCEPT !.RFDToSocketInfo = [M.RFDToSocketInfo EXCEPT ![r] = e]]
    BY Zenon
<1>9. PICK sl : sl = [w.sock EXCEPT ![h] = 0]
    BY Zenon
<1>10. PICK pl : pl = [w.port EXCEPT ![h] = -1]
    BY Zenon
<1>11. PICK z : z = [w.st EXCEPT ![n] = NoState]
    BY Zenon
<1>12. z = WSIOCP_CloseSocketState(w.st, n)
    BY <1>5, <1>11 DEF WSIOCP_CloseSocketState
<1>13. PICK y : y = [w EXCEPT !.m.RFDToSocketInfo[r].socket = INVALID_SOCKET,
                             !.st = WSIOCP_CloseSocketState(w.st, n), !.sock[h] = 0, !.port[h] = -1]
    BY Zenon
<1>14. y.m = A /\ y.st = z /\ y.sock = sl /\ y.port = pl /\ y.io = w.io /\ y.sockets = w.sockets /\ y.lost = w.lost
       /\ y = [m |-> y.m, sock |-> y.sock, port |-> y.port, st |-> y.st, io |-> y.io, sockets |-> y.sockets, lost |-> y.lost]
  <2>1. [M.RFDToSocketInfo[r] EXCEPT !.socket = INVALID_SOCKET] = e
      BY <1>6, <1>7
  <2>2. QED
      BY <1>1, <1>4, <1>8, <1>9, <1>10, <1>12, <1>13, <2>1
<1>15. PICK G : G = removeSocketToRFD(removeRFDToSocketInfo(A, r), h)
    BY Zenon
<1>16. v = [y EXCEPT !.m = G]
    BY <1>3, <1>13, <1>14, <1>15 DEF CloseInside
<1>17. /\ v.m = G /\ v.st = z /\ v.sock = sl /\ v.port = pl /\ v.io = w.io /\ v.sockets = w.sockets /\ v.lost = w.lost
       /\ v = [m |-> v.m, sock |-> v.sock, port |-> v.port, st |-> v.st, io |-> v.io, sockets |-> v.sockets, lost |-> v.lost]
    BY <1>14, <1>16
<1>18. MapGood(G) /\ SameCrts(M, G) /\ LosesInfo(M, G, r) /\ DOMAIN G.SocketToRFD = DOMAIN M.SocketToRFD \ {h}
    BY <1>1, <1>6, <1>8, <1>15, ClosedTables
<1>19. sl \in [Handles -> Nat] /\ pl \in [Handles -> Int] /\ z \in [1 .. NStates -> Blocks \cup {NoState}]
    BY <1>3, <1>5, <1>9, <1>10, <1>11
<1>20. IsWorld(v)
    BY <1>4, <1>17, <1>19, Zenon DEF IsWorld, WorldTypes
<1>21. QED
    BY <1>1, <1>2, <1>9, <1>10, <1>11, <1>17, <1>18, <1>20, Zenon DEF Shuts

LeavesRest(w, v, r) ==
  /\ KeepBut(w.m, v.m, r) /\ v.io = w.io
  /\ \A x : Valid(w.m, x) /\ x # r => v.sock[Socket(w.m, x)] = w.sock[Socket(w.m, x)]
  /\ \A k \in 1 .. NStates : Listed(v.st, k) = Listed(w.st, k) \/ Listed(v.st, k) = <<>>
LEMMA ShutGood ==
    ASSUME NEW w, NEW tb, Good(w, tb), NEW r, Valid(w.m, r), NEW n \in 1 .. NStates, n = State(w.m, r), Free(w, tb, r),
           NEW h, h = Socket(w.m, r), NEW v, Shuts(w, v, r, n, h)
    PROVE  Good(v, tb) /\ LeavesRest(w, v, r)
<1>1. /\ IsWorld(w) /\ MapGood(w.m) /\ Opened(w.m, w.sock) /\ CrtTables(w.m, crt)
      /\ HandlesHeld(w.m, w.sock, th) /\ CrtHeld(w.m, crt, streams, th)
      /\ Closings(w.m, th) /\ Calling(w.m, tb, th)
      /\ StatesOwned(w.m, w.st) /\ Waits(w.m, w.st, w.io, tb) /\ Tables(w.m, w.sock, crt, tb)
    BY Zenon DEF Good
<1>2. PICK M : M = w.m
    BY Zenon
<1>3. PICK G : G = v.m
    BY Zenon
<1>4. PICK z : z = v.st
    BY Zenon
<1>5. PICK sl : sl = v.sock
    BY Zenon
<1>6. /\ sl = [w.sock EXCEPT ![h] = 0] /\ z = [w.st EXCEPT ![n] = NoState] /\ v.io = w.io
      /\ MapGood(G) /\ SameCrts(M, G) /\ LosesInfo(M, G, r) /\ IsWorld(v)
    BY <1>2, <1>3, <1>4, <1>5, Zenon DEF Shuts
<1>7. w.st \in BlockTables /\ w.sock \in [Handles -> Nat]
    BY <1>1, Zenon DEF IsWorld, WorldTypes, BlockTables
<1>8. r \in DOMAIN M.RFDToSocketInfo /\ h \in Handles
  <2>1. r \in DOMAIN M.RFDToSocketInfo /\ h # INVALID_SOCKET
      BY <1>2 DEF Valid
  <2>2. QED
      BY <1>1, <1>2, <2>1, StateIs
<1>9. KeepBut(M, G, r)
    BY <1>6, LosesKeeps, Zenon
<1>10. /\ \A x : Valid(M, x) /\ x # r => Socket(M, x) # h /\ sl[Socket(M, x)] = w.sock[Socket(M, x)]
  <2>1. \A x, q \in DOMAIN M.RFDToSocketInfo : Valid(M, x) /\ Socket(M, x) = Socket(M, q) => x = q
      BY <1>1, <1>2, Zenon DEF Opened
  <2>2. ASSUME NEW x, Valid(M, x), x # r PROVE Socket(M, x) # h
      BY <1>2, <1>8, <2>1, <2>2 DEF Valid
  <2>3. QED
      BY <1>6, <1>7, <1>8, <2>2
<1>11. \A k \in 1 .. NStates : Listed(z, k) = Listed(w.st, k) \/ Listed(z, k) = <<>>
    BY <1>6, <1>7 DEF Listed, BlockTables
<1>12. StatesOwned(G, z)
    BY <1>1, <1>2, <1>6, <1>7, <1>8, FreedParts
<1>13. Opened(G, sl)
  <2>1. Opened(G, w.sock)
      BY <1>1, <1>2, <1>6, RemovedParts
  <2>2. \A x \in DOMAIN G.RFDToSocketInfo : Valid(G, x) => Valid(M, x) /\ x # r /\ Socket(G, x) = Socket(M, x)
      BY <1>6 DEF LosesInfo, Valid, Socket
  <2>3. QED
      BY <1>10, <2>1, <2>2 DEF Opened
<1>14. HandlesHeld(G, sl, th)
  <2>1. HandlesHeld(G, w.sock, th)
      BY <1>1, <1>2, <1>6, RemovedParts
  <2>2. \A t \in Threads : Holding(th[t]) => th[t].h # h
      BY <1>1, <1>2, <1>8, Zenon DEF HandlesHeld
  <2>3. QED
      BY <1>6, <1>7, <1>8, <2>1, <2>2 DEF HandlesHeld
<1>15. Closings(G, th)
  <2>1. \A t \in Threads : th[t].pc = "closeState" => th[t].rfd # r
      BY <1>1, <1>2 DEF Closings, Valid
  <2>2. QED
      BY <1>1, <1>2, <1>6, <2>1, RemovedParts
<1>16. CrtTables(G, crt) /\ CrtHeld(G, crt, streams, th)
    BY <1>1, <1>2, <1>6, SameCrtParts, Zenon
<1>17. r \notin DOMAIN tb
    BY Zenon DEF Free
<1>18. \A x : x # r => Keep(M, G, x)
    BY <1>9 DEF KeepBut
<1>19. Calling(G, tb, th)
  <2>1. Calling(M, tb, th)
      BY <1>1, <1>2
  <2>2. QED
      BY <1>17, <1>18, <2>1 DEF Calling, Keep
<1>20. Tables(G, sl, crt, tb)
  <2>1. Tables(M, w.sock, crt, tb)
      BY <1>1, <1>2
  <2>2. QED
      BY <1>10, <1>17, <1>18, <2>1 DEF Tables, Keep
<1>21. Waits(G, z, w.io, tb)
  <2>1. Waits(M, w.st, w.io, tb)
      BY <1>1, <1>2
  <2>2. Waits(M, z, w.io, tb)
      BY <1>11, <2>1, FewerListed, Zenon
  <2>3. \A x : x # r /\ Valid(M, x) => Valid(G, x)
      BY <1>18 DEF Keep
  <2>4. \A o \in Accepts(w.io) : o.acc # r
      BY Zenon DEF Free
  <2>5. \A k \in 1 .. NStates : \A i \in DOMAIN Listed(z, k) : Listed(z, k)[i] # r
    <3>1. \A k \in 1 .. NStates : \A i \in DOMAIN Listed(w.st, k) : Listed(w.st, k)[i] # r
        BY Zenon DEF Free
    <3>2. DOMAIN <<>> = {}
        OBVIOUS
    <3>3. QED
        BY <1>11, <3>1, <3>2
  <2>6. QED
      BY <2>2, <2>3, <2>4, <2>5, Zenon DEF Waits
<1>22. Good(v, tb)
    BY <1>3, <1>4, <1>5, <1>6, <1>12, <1>13, <1>14, <1>15, <1>16, <1>19, <1>20, <1>21, Zenon DEF Good
<1>23. QED
    BY <1>2, <1>3, <1>4, <1>5, <1>6, <1>9, <1>10, <1>11, <1>22 DEF LeavesRest

(* The marks of r become masks, and nothing else changes. *)
Masked(w, v, n, masks) ==
  /\ v.m = w.m /\ v.sock = w.sock /\ v.port = w.port /\ v.io = w.io /\ v.sockets = w.sockets /\ v.lost = w.lost
  /\ v.st[n] \in Blocks /\ v.st[n].masks = masks /\ v.st[n].wreqs = w.st[n].wreqs
  /\ \A k \in 1 .. NStates : k # n => v.st[k] = w.st[k]
  /\ \A k \in 1 .. NStates : Listed(v.st, k) = Listed(w.st, k)

LEMMA MasksGood ==
    ASSUME NEW w, NEW tb, Good(w, tb), NEW r, Valid(w.m, r), NEW n \in 1 .. NStates, n = State(w.m, r), NEW masks \in SUBSET Masks,
           "CLOSE_PENDING" \in masks => "CLOSE_PENDING" \in w.st[n].masks, NEW v, v = SetMasks(w, r, masks)
    PROVE  Good(v, tb) /\ Masked(w, v, n, masks)
<1>1. IsWorld(w) /\ MapGood(w.m) /\ StatesOwned(w.m, w.st)
    BY Zenon DEF Good
<1>2. w.st[n] \in Blocks
  <2>1. r \in DOMAIN w.m.RFDToSocketInfo /\ n # 0
      BY DEF Valid
  <2>2. QED
      BY <1>1, <2>1, Zenon DEF StatesOwned
<1>3. PICK b : b = [w.st[n] EXCEPT !.masks = masks]
    BY Zenon
<1>4. Sets(w, v, n, b, w.port) /\ SameBut(b, w.st[n]) /\ b.masks = masks /\ b.wreqs = w.st[n].wreqs
    BY <1>1, <1>2, <1>3, SetMasksIs
<1>5. Good(v, tb) /\ \A k \in 1 .. NStates : Listed(v.st, k) = Listed(w.st, k)
    BY <1>4, SetsGood
<1>6. w.st \in BlockTables
    BY <1>1, Zenon DEF IsWorld, WorldTypes, BlockTables
<1>7. v.st[n] = b /\ \A k \in 1 .. NStates : k # n => v.st[k] = w.st[k]
    BY <1>4, <1>6 DEF Sets, BlockTables
<1>8. QED
    BY <1>4, <1>5, <1>7 DEF Masked, Sets, SameBut

(* The descriptors of w stay what they are in v, and nothing of theirs waits anew. *)
Follows(w, v) ==
  /\ \A x : Valid(w.m, x) => Valid(v.m, x) /\ Socket(v.m, x) = Socket(w.m, x) /\ v.sock[Socket(w.m, x)] = w.sock[Socket(w.m, x)]
  /\ \A k \in 1 .. NStates : Listed(v.st, k) = Listed(w.st, k) \/ Listed(v.st, k) = <<>>
  /\ \A o \in Accepts(v.io) : o \in Accepts(w.io) \/ ~Valid(w.m, o.acc)

LEMMA SimilarFollows ==
    ASSUME NEW w, NEW v, KeepAll(w.m, v.m), v.sock = w.sock, v.io = w.io,
           \A k \in 1 .. NStates : Listed(v.st, k) = Listed(w.st, k)
    PROVE  Follows(w, v)
  BY DEF Follows, KeepAll, Keep

LEMMA FollowsOn ==
    ASSUME NEW w, NEW v, NEW u, Follows(w, v), Follows(v, u)
    PROVE  Follows(w, u)
<1>1. \A x : Valid(w.m, x) => Valid(u.m, x) /\ Socket(u.m, x) = Socket(w.m, x) /\ u.sock[Socket(w.m, x)] = w.sock[Socket(w.m, x)]
    BY DEF Follows
<1>2. \A k \in 1 .. NStates : Listed(u.st, k) = Listed(w.st, k) \/ Listed(u.st, k) = <<>>
    BY DEF Follows
<1>3. \A o \in Accepts(u.io) : o \in Accepts(w.io) \/ ~Valid(w.m, o.acc)
    BY Zenon DEF Follows
<1>4. QED
    BY <1>1, <1>2, <1>3, Zenon DEF Follows

LEMMA FreeFollows ==
    ASSUME NEW w, NEW v, NEW tb, NEW r, Free(w, tb, r), v.io = w.io,
           \A k \in 1 .. NStates : Listed(v.st, k) = Listed(w.st, k)
    PROVE  Free(v, tb, r)
<1>1. \A n \in 1 .. NStates : \A i \in DOMAIN Listed(v.st, n) : Listed(v.st, n)[i] # r
    BY Zenon DEF Free
<1>2. QED
    BY <1>1, Zenon DEF Free

LEMMA LostGood ==
    ASSUME NEW w, NEW tb, Good(w, tb), NEW L, NEW v, v = [w EXCEPT !.lost = L]
    PROVE  /\ Good(v, tb) /\ v.m = w.m /\ v.sock = w.sock /\ v.port = w.port /\ v.st = w.st /\ v.io = w.io
           /\ v.sockets = w.sockets /\ v.lost = L
<1>1. /\ w = [m |-> w.m, sock |-> w.sock, port |-> w.port, st |-> w.st, io |-> w.io, sockets |-> w.sockets, lost |-> w.lost]
      /\ WorldTypes(w.sock, w.port, w.st, w.io, w.sockets)
    BY Zenon DEF IsWorld, Good
<1>2. /\ v.m = w.m /\ v.sock = w.sock /\ v.port = w.port /\ v.st = w.st /\ v.io = w.io /\ v.sockets = w.sockets /\ v.lost = L
      /\ v = [m |-> v.m, sock |-> v.sock, port |-> v.port, st |-> v.st, io |-> v.io, sockets |-> v.sockets, lost |-> v.lost]
    BY <1>1
<1>3. Good(v, tb)
    BY <1>1, <1>2, Zenon DEF Good, IsWorld
<1>4. QED
    BY <1>2, <1>3

LEMMA OtherStates ==
    ASSUME NEW w, NEW v, NEW r, Gets(w, v, r)
    PROVE  /\ \A x \in DOMAIN w.m.RFDToSocketInfo : x # r => State(v.m, x) = State(w.m, x)
           /\ State(w.m, r) # 0 => v = w
  BY DEF Gets, Makes, SetsInfo, State

LEMMA NewState ==
    ASSUME NEW w, NEW v, NEW r, Gets(w, v, r), State(w.m, r) = 0, w.st \in BlockTables
    PROVE  v.st[State(v.m, r)] = NewBlock(r)
<1>1. PICK n \in 1 .. NStates : Makes(w, v, r, n)
    BY DEF Gets
<1>2. PICK e : e = [socket |-> Socket(w.m, r), state |-> n]
    BY Zenon
<1>3. SetsInfo(w.m, v.m, r, e) /\ v.st = [w.st EXCEPT ![n] = NewBlock(r)]
    BY <1>1, <1>2, Zenon DEF Makes
<1>4. State(v.m, r) = n
    BY <1>2, <1>3 DEF SetsInfo, State
<1>5. QED
    BY <1>3, <1>4 DEF BlockTables

(* A socket for the next client is opened, and its state made: it is ready. *)
Ready(w, v, tb, l, a) ==
  /\ Good(v, tb) /\ Follows(w, v) /\ a \in Nat /\ ~Valid(w.m, a) /\ Valid(v.m, a) /\ Valid(v.m, l) /\ Free(v, tb, a) /\ a # l
  /\ State(v.m, l) = State(w.m, l) /\ State(v.m, a) \in 1 .. NStates /\ State(v.m, a) # State(v.m, l)
  /\ v.st[State(v.m, a)].wreqs = 0

Readies(u, v, a) == v = SetMasks(WSIOCP_GetSocketState(u, a), a, {"SOCKET_ATTACHED"})

LEMMA GoodOwns ==
    ASSUME NEW w, NEW tb, Good(w, tb), NEW r, Valid(w.m, r), State(w.m, r) # 0
    PROVE  /\ State(w.m, r) \in 1 .. NStates /\ w.st[State(w.m, r)] \in Blocks /\ w.st[State(w.m, r)].fd = r
           /\ w.st[State(w.m, r)].masks \subseteq Masks /\ r \in Nat
           /\ "CLOSE_PENDING" \notin w.st[State(w.m, r)].masks
<1>1. MapGood(w.m) /\ StatesOwned(w.m, w.st)
    BY Zenon DEF Good
<1>2. r \in DOMAIN w.m.RFDToSocketInfo
    BY DEF Valid
<1>3. /\ w.st[State(w.m, r)] \in Blocks /\ w.st[State(w.m, r)].fd = r
      /\ "CLOSE_PENDING" \in w.st[State(w.m, r)].masks => Socket(w.m, r) = INVALID_SOCKET
    BY <1>1, <1>2 DEF StatesOwned
<1>4. State(w.m, r) \in 1 .. NStates /\ r \in Nat
    BY <1>1, <1>2, StateIs
<1>5. w.st[State(w.m, r)].masks \subseteq Masks
    BY <1>3, BlockIs
<1>6. QED
    BY <1>3, <1>4, <1>5 DEF Valid

LEMMA ReadyIs ==
    ASSUME NEW w, NEW tb, Good(w, tb), NEW l, Valid(w.m, l), State(w.m, l) # 0, FreeStates(w) # {},
           NEW h \in Handles, w.sock[h] = 0, NEW a, a = AddedSocket(w.m, h), a # INVALID_FD,
           NEW u, Opens(w, u, h), NEW v, Readies(u, v, a)
    PROVE  Ready(w, v, tb, l, a)
<1>1. /\ Good(u, tb) /\ KeepAll(w.m, u.m) /\ Agree(w.m, w.sock, u.sock) /\ u.io = w.io /\ u.st = w.st
      /\ \A x \in DOMAIN w.m.RFDToSocketInfo : State(u.m, x) = State(w.m, x)
      /\ a \in Nat /\ Valid(u.m, a) /\ State(u.m, a) = 0 /\ ~Valid(w.m, a) /\ Free(u, tb, a)
  <2>1. /\ Good(u, tb) /\ KeepAll(w.m, u.m) /\ Agree(w.m, w.sock, u.sock) /\ u.io = w.io /\ u.st = w.st /\ u.port = w.port
        /\ u.sock[h] = w.sockets + 1
        /\ \A x \in DOMAIN w.m.RFDToSocketInfo : State(u.m, x) = State(w.m, x)
        /\ a # INVALID_FD => /\ a \in Nat /\ Valid(u.m, a) /\ Socket(u.m, a) = h /\ State(u.m, a) = 0
                             /\ ~Valid(w.m, a) /\ Free(u, tb, a)
      BY OpenedGood
  <2>2. QED
      BY <2>1
<1>2. PICK y : y = WSIOCP_GetSocketState(u, a)
    BY Zenon
<1>3. Gets(u, y, a)
  <2>1. FreeStates(u) # {}
      BY <1>1 DEF FreeStates
  <2>2. a \in DOMAIN u.m.RFDToSocketInfo
      BY <1>1 DEF Valid
  <2>3. QED
      BY <1>1, <1>2, <2>1, <2>2, GetsIs
<1>4. /\ Good(y, tb) /\ Valid(y.m, a) /\ State(y.m, a) \in 1 .. NStates /\ KeepAll(u.m, y.m) /\ Aside(u, y)
      /\ \A k \in 1 .. NStates : Listed(y.st, k) = Listed(u.st, k)
  <2>1. Good(u, tb) /\ Valid(u.m, a) /\ Gets(u, y, a)
      BY <1>1, <1>3
  <2>2. QED
      BY <2>1, GetsGood
<1>5. PICK n \in 1 .. NStates : n = State(y.m, a)
    BY <1>4
<1>6. y.st[n] = NewBlock(a)
  <2>1. u.st \in BlockTables
      BY <1>1, Zenon DEF Good, IsWorld, WorldTypes, BlockTables
  <2>2. Gets(u, y, a) /\ State(u.m, a) = 0
      BY <1>1, <1>3
  <2>3. QED
      BY <1>5, <2>1, <2>2, NewState, Zenon
<1>7. PICK masks \in SUBSET Masks : masks = {"SOCKET_ATTACHED"}
    BY DEF Masks
<1>8. Good(v, tb) /\ Masked(y, v, n, masks)
  <2>1. "CLOSE_PENDING" \notin masks /\ v = SetMasks(y, a, masks)
      BY <1>2, <1>7 DEF Readies
  <2>2. QED
      BY <1>4, <1>5, <2>1, MasksGood
<1>9. a # l /\ l \in DOMAIN w.m.RFDToSocketInfo /\ Valid(u.m, l) /\ Valid(y.m, l)
    BY <1>1, <1>4 DEF KeepAll, Keep, Valid
<1>10. v.m = y.m /\ v.sock = y.sock /\ v.io = y.io /\ v.st[n].wreqs = y.st[n].wreqs /\ \A k \in 1 .. NStates : Listed(v.st, k) = Listed(y.st, k)
    BY <1>8, Zenon DEF Masked
<1>11. State(v.m, l) = State(w.m, l)
  <2>1. State(y.m, l) = State(u.m, l)
    <3>1. \A x \in DOMAIN u.m.RFDToSocketInfo : x # a => State(y.m, x) = State(u.m, x)
        BY <1>3, OtherStates
    <3>2. QED
        BY <1>9, <3>1 DEF Valid
  <2>2. QED
      BY <1>1, <1>9, <1>10, <2>1
<1>12. y.st[n].wreqs = 0
    BY <1>1, <1>6, NewBlockIs
<1>13. n # State(y.m, l)
  <2>1. State(y.m, l) # 0
      BY <1>10, <1>11
  <2>2. y.st[State(y.m, l)].fd = l
      BY <1>4, <1>9, <2>1, GoodOwns
  <2>3. y.st[n].fd = a
      BY <1>1, <1>6, NewBlockIs
  <2>4. QED
      BY <1>9, <2>2, <2>3
<1>14. Follows(w, v)
  <2>1. Follows(w, u)
      BY <1>1 DEF Follows, KeepAll, Keep, Agree, Valid
  <2>2. Follows(u, v)
    <3>1. v.sock = u.sock /\ v.io = u.io /\ KeepAll(u.m, v.m) /\ \A k \in 1 .. NStates : Listed(v.st, k) = Listed(u.st, k)
        BY <1>4, <1>10, Zenon DEF Aside
    <3>2. QED
        BY <3>1, SimilarFollows
  <2>3. QED
      BY <2>1, <2>2, FollowsOn, Zenon
<1>15. Free(v, tb, a)
  <2>1. v.io = u.io /\ \A k \in 1 .. NStates : Listed(v.st, k) = Listed(u.st, k)
      BY <1>4, <1>10, Zenon DEF Aside
  <2>2. Free(u, tb, a)
      BY <1>1
  <2>3. QED
      BY <2>1, <2>2, FreeFollows
<1>16. QED
    BY <1>1, <1>4, <1>5, <1>8, <1>9, <1>10, <1>11, <1>12, <1>13, <1>14, <1>15 DEF Ready

(* The three ways an accept is queued or not. *)
NoName(w, u, x) == x[1] = [u EXCEPT !.lost = @ \cup {w.sockets + 1}] /\ x[2] = FALSE
Refused(v, l, a, x) ==
  x[1] = CloseInside(SetMasks(SetMasks(v, l, MasksIn(v, l) \ {"ACCEPT_PENDING"}), a, {}), a) /\ x[2] = FALSE
UnderWay(v, l, a, x) ==
  x[1] = SetMasks(FDAPI_AcceptEx(v, l, a), l, MasksIn(v, l) \cup {"ACCEPT_PENDING"}) /\ x[2] = TRUE

LEMMA PairIs ==
    ASSUME NEW e, NEW b
    PROVE  <<e, b>>[1] = e /\ <<e, b>>[2] = b
  OBVIOUS

LEMMA AcceptOnIs ==
    ASSUME NEW w, NEW l, NEW h, NEW x \in AcceptOn(w, l, h), NEW a, a = AddedSocket(w.m, h), NEW u, Opens(w, u, h)
    PROVE  \/ a = INVALID_FD /\ NoName(w, u, x)
           \/ a # INVALID_FD /\ \E v : Readies(u, v, a) /\ (Refused(v, l, a, x) \/ UnderWay(v, l, a, x))
<1>1. PICK v : v = SetMasks(WSIOCP_GetSocketState(u, a), a, {"SOCKET_ATTACHED"})
    BY Zenon
<1>2. u = [w EXCEPT !.sock[h] = w.sockets + 1, !.sockets = @ + 1, !.m = addSocket(w.m, h)]
    BY Zenon DEF Opens
<1>3. PICK e : e = CloseInside(SetMasks(SetMasks(v, l, MasksIn(v, l) \ {"ACCEPT_PENDING"}), a, {}), a)
    BY Zenon
<1>4. PICK g : g = SetMasks(FDAPI_AcceptEx(v, l, a), l, MasksIn(v, l) \cup {"ACCEPT_PENDING"})
    BY Zenon
<1>5. x \in IF a = INVALID_FD THEN {<<[u EXCEPT !.lost = @ \cup {w.sockets + 1}], FALSE>>} ELSE {<<e, FALSE>>, <<g, TRUE>>}
    BY <1>1, <1>2, <1>3, <1>4, Zenon DEF AcceptOn
<1>6. CASE a = INVALID_FD
  <2>1. x = <<[u EXCEPT !.lost = @ \cup {w.sockets + 1}], FALSE>>
      BY <1>5, <1>6
  <2>2. QED
      BY <1>6, <2>1 DEF NoName
<1>7. CASE a # INVALID_FD
  <2>1. x = <<e, FALSE>> \/ x = <<g, TRUE>>
      BY <1>5, <1>7
  <2>2. /\ <<e, FALSE>>[1] = e /\ <<e, FALSE>>[2] = FALSE
        /\ <<g, TRUE>>[1] = g /\ <<g, TRUE>>[2] = TRUE
      BY PairIs, Zenon
  <2>3. Refused(v, l, a, x) \/ UnderWay(v, l, a, x)
    <3>1. CASE x = <<e, FALSE>>
        BY <1>3, <2>2, <3>1, Zenon DEF Refused
    <3>2. CASE x = <<g, TRUE>>
        BY <1>4, <2>2, <3>2, Zenon DEF UnderWay
    <3>3. QED
        BY <2>1, <3>1, <3>2
  <2>4. QED
      BY <1>1, <1>7, <2>3 DEF Readies
<1>8. QED
    BY <1>6, <1>7

LEMMA MasksInIs ==
    ASSUME NEW w, NEW r
    PROVE  MasksIn(w, r) = w.st[State(w.m, r)].masks /\ StateIn(w, r) = State(w.m, r)
  BY DEF MasksIn, StateIn, FDAPI_GetSocketStatePtr, State

LEMMA RefusedGood ==
    ASSUME NEW w, NEW v, NEW tb, NEW l, NEW a, Ready(w, v, tb, l, a), State(w.m, l) # 0, NEW x, Refused(v, l, a, x)
    PROVE  Good(x[1], tb) /\ Follows(w, x[1])
<1>1. /\ Good(v, tb) /\ Follows(w, v) /\ a \in Nat /\ ~Valid(w.m, a) /\ Valid(v.m, a) /\ Valid(v.m, l) /\ Free(v, tb, a)
      /\ a # l /\ State(v.m, l) = State(w.m, l) /\ State(v.m, a) \in 1 .. NStates /\ State(v.m, a) # State(v.m, l)
      /\ v.st[State(v.m, a)].wreqs = 0
    BY DEF Ready
<1>2. PICK k : k = State(v.m, l)
    BY Zenon
<1>3. k \in 1 .. NStates /\ v.st[k].masks \subseteq Masks /\ "CLOSE_PENDING" \notin v.st[k].masks
    BY <1>1, <1>2, GoodOwns
<1>4. PICK n \in 1 .. NStates : n = State(v.m, a)
    BY <1>1
<1>5. PICK d : d = v.st[k].masks \ {"ACCEPT_PENDING"}
    BY Zenon
<1>6. d \in SUBSET Masks /\ "CLOSE_PENDING" \notin d
    BY <1>3, <1>5
<1>7. PICK y : y = SetMasks(v, l, d)
    BY Zenon
<1>8. Good(y, tb) /\ Masked(v, y, k, d)
    BY <1>1, <1>2, <1>3, <1>6, <1>7, MasksGood
<1>9. y.m = v.m /\ y.sock = v.sock /\ y.io = v.io /\ (\A i \in 1 .. NStates : Listed(y.st, i) = Listed(v.st, i)) /\ y.st[n] = v.st[n]
    BY <1>1, <1>2, <1>4, <1>8, Zenon DEF Masked
<1>10. PICK none \in SUBSET Masks : none = {}
    BY Zenon
<1>11. PICK z : z = SetMasks(y, a, none)
    BY Zenon
<1>12. Good(z, tb) /\ Masked(y, z, n, none)
  <2>1. Valid(y.m, a) /\ n = State(y.m, a) /\ "CLOSE_PENDING" \notin none
      BY <1>1, <1>4, <1>9, <1>10
  <2>2. QED
      BY <1>8, <1>11, <2>1, MasksGood
<1>13. /\ z.m = v.m /\ z.sock = v.sock /\ z.io = v.io /\ (\A i \in 1 .. NStates : Listed(z.st, i) = Listed(v.st, i))
       /\ z.st[n].masks = {} /\ z.st[n].wreqs = 0
  <2>1. /\ z.m = y.m /\ z.sock = y.sock /\ z.io = y.io /\ (\A i \in 1 .. NStates : Listed(z.st, i) = Listed(y.st, i))
        /\ z.st[n].masks = none /\ z.st[n].wreqs = y.st[n].wreqs
      BY <1>12, Zenon DEF Masked
  <2>2. QED
      BY <1>1, <1>4, <1>9, <1>10, <2>1, Zenon
<1>14. Closable(z.st[n])
    BY <1>13 DEF Closable
<1>15. x[1] = CloseInside(z, a)
    BY <1>2, <1>5, <1>7, <1>10, <1>11, MasksInIs DEF Refused
<1>16. PICK u : u = x[1]
    BY Zenon
<1>17. Valid(z.m, a) /\ n = State(z.m, a)
    BY <1>1, <1>4, <1>13
<1>18. IsWorld(z) /\ MapGood(z.m)
    BY <1>12, Zenon DEF Good
<1>19. PICK h : h = Socket(z.m, a)
    BY Zenon
<1>20. Shuts(z, u, a, n, h)
    BY <1>14, <1>15, <1>16, <1>17, <1>18, <1>19, CloseInsideIs
<1>21. Free(z, tb, a)
  <2>1. z.io = v.io /\ (\A i \in 1 .. NStates : Listed(z.st, i) = Listed(v.st, i)) /\ Free(v, tb, a)
      BY <1>1, <1>13
  <2>2. QED
      BY <2>1, FreeFollows
<1>22. /\ Good(u, tb) /\ KeepBut(z.m, u.m, a) /\ u.io = z.io
       /\ \A i : Valid(z.m, i) /\ i # a => u.sock[Socket(z.m, i)] = z.sock[Socket(z.m, i)]
       /\ \A i \in 1 .. NStates : Listed(u.st, i) = Listed(z.st, i) \/ Listed(u.st, i) = <<>>
  <2>1. Good(z, tb) /\ Valid(z.m, a) /\ n = State(z.m, a) /\ Free(z, tb, a)
      BY <1>12, <1>17, <1>21
  <2>2. Good(u, tb) /\ LeavesRest(z, u, a)
      BY <1>19, <1>20, <2>1, ShutGood, Zenon
  <2>3. QED
      BY <2>2, Zenon DEF LeavesRest
<1>23. Follows(w, z)
  <2>1. Follows(v, z)
    <3>1. KeepAll(v.m, z.m)
        BY <1>13 DEF KeepAll, Keep
    <3>2. QED
        BY <1>13, <3>1, SimilarFollows
  <2>2. QED
      BY <1>1, <2>1, FollowsOn, Zenon
<1>24. Follows(w, u)
  <2>1. ASSUME NEW i, Valid(w.m, i)
        PROVE  Valid(u.m, i) /\ Socket(u.m, i) = Socket(w.m, i) /\ u.sock[Socket(w.m, i)] = w.sock[Socket(w.m, i)]
    <3>1. i # a
        BY <1>1, <2>1
    <3>2. Valid(z.m, i) /\ Socket(z.m, i) = Socket(w.m, i) /\ z.sock[Socket(w.m, i)] = w.sock[Socket(w.m, i)]
        BY <1>23, <2>1 DEF Follows
    <3>3. Keep(z.m, u.m, i)
        BY <1>22, <3>1, Zenon DEF KeepBut
    <3>4. Valid(u.m, i) /\ Socket(u.m, i) = Socket(z.m, i)
        BY <3>2, <3>3, Zenon DEF Keep
    <3>5. QED
        BY <1>22, <3>1, <3>2, <3>4
  <2>2. \A i \in 1 .. NStates : Listed(u.st, i) = Listed(w.st, i) \/ Listed(u.st, i) = <<>>
      BY <1>22, <1>23 DEF Follows
  <2>3. \A o \in Accepts(u.io) : o \in Accepts(w.io) \/ ~Valid(w.m, o.acc)
      BY <1>22, <1>23 DEF Follows
  <2>4. QED
      BY <2>1, <2>2, <2>3, Zenon DEF Follows
<1>25. QED
    BY <1>16, <1>22, <1>24

LEMMA UnderWayGood ==
    ASSUME NEW w, NEW v, NEW tb, NEW l, NEW a, Ready(w, v, tb, l, a), State(w.m, l) # 0, NEW x, UnderWay(v, l, a, x)
    PROVE  Good(x[1], tb) /\ Follows(w, x[1])
<1>1. /\ Good(v, tb) /\ Follows(w, v) /\ a \in Nat /\ ~Valid(w.m, a) /\ Valid(v.m, a) /\ Valid(v.m, l) /\ Free(v, tb, a)
      /\ State(v.m, l) = State(w.m, l)
    BY DEF Ready
<1>2. PICK k : k = State(v.m, l)
    BY Zenon
<1>3. k \in 1 .. NStates /\ v.st[k].masks \subseteq Masks /\ "CLOSE_PENDING" \notin v.st[k].masks
    BY <1>1, <1>2, GoodOwns
<1>4. PICK d : d = v.st[k].masks \cup {"ACCEPT_PENDING"}
    BY Zenon
<1>5. d \in SUBSET Masks /\ "CLOSE_PENDING" \notin d
    BY <1>3, <1>4 DEF Masks
<1>6. PICK y : y = FDAPI_AcceptEx(v, l, a)
    BY Zenon
<1>7. PICK o : Issues(v, y, o) /\ o.kind = "accept" /\ o.acc = a
  <2>1. IsWorld(v) /\ MapGood(v.m)
      BY <1>1, Zenon DEF Good
  <2>2. a \in Int /\ y = Issue(v, l, "accept", a)
      BY <1>1, <1>6 DEF FDAPI_AcceptEx
  <2>3. \E o : Issues(v, y, o) /\ IsOp(o, v.port[Socket(v.m, l)], k, "accept", a)
      BY <1>1, <1>2, <1>3, <2>1, <2>2, IssueIs
  <2>4. QED
      BY <2>3, Zenon DEF IsOp
<1>8. Good(y, tb)
  <2>1. o.kind = "accept" => Valid(v.m, o.acc) /\ Free(v, tb, o.acc)
      BY <1>1, <1>7
  <2>2. QED
      BY <1>1, <1>7, <2>1, IssueGood
<1>9. y.m = v.m /\ y.sock = v.sock /\ y.st = v.st /\ y.io = v.io \cup {o}
    BY <1>7 DEF Issues
<1>10. PICK u : u = x[1]
    BY Zenon
<1>11. u = SetMasks(y, l, d)
    BY <1>2, <1>4, <1>6, <1>10, MasksInIs DEF UnderWay
<1>12. Good(u, tb) /\ Masked(y, u, k, d)
  <2>1. Valid(y.m, l) /\ k = State(y.m, l)
      BY <1>1, <1>2, <1>9
  <2>2. QED
      BY <1>3, <1>5, <1>8, <1>11, <2>1, MasksGood
<1>13. u.m = v.m /\ u.sock = v.sock /\ u.io = v.io \cup {o} /\ \A i \in 1 .. NStates : Listed(u.st, i) = Listed(v.st, i)
    BY <1>9, <1>12, Zenon DEF Masked
<1>14. Follows(w, u)
  <2>1. /\ \A i : Valid(w.m, i) => Valid(u.m, i) /\ Socket(u.m, i) = Socket(w.m, i) /\ u.sock[Socket(w.m, i)] = w.sock[Socket(w.m, i)]
        /\ \A i \in 1 .. NStates : Listed(u.st, i) = Listed(w.st, i) \/ Listed(u.st, i) = <<>>
      BY <1>1, <1>13 DEF Follows
  <2>2. ASSUME NEW p \in Accepts(u.io) PROVE p \in Accepts(w.io) \/ ~Valid(w.m, p.acc)
    <3>1. CASE p = o
        BY <1>1, <1>7, <3>1
    <3>2. CASE p # o
      <4>1. p \in Accepts(v.io)
          BY <1>13, <3>2 DEF Accepts
      <4>2. QED
          BY <1>1, <4>1 DEF Follows
    <3>3. QED
        BY <3>1, <3>2
  <2>3. QED
      BY <2>1, <2>2, Zenon DEF Follows
<1>15. QED
    BY <1>10, <1>12, <1>14

LEMMA AcceptOnGood ==
    ASSUME NEW w, NEW tb, Good(w, tb), NEW l, Valid(w.m, l), State(w.m, l) # 0, FreeStates(w) # {},
           NEW h \in Handles, w.sock[h] = 0, NEW x \in AcceptOn(w, l, h)
    PROVE  Good(x[1], tb) /\ Follows(w, x[1])
<1>1. PICK a : a = AddedSocket(w.m, h)
    BY Zenon
<1>2. PICK u : Opens(w, u, h)
    BY Zenon DEF Opens
<1>3. CASE a = INVALID_FD /\ NoName(w, u, x)
  <2>1. Good(u, tb) /\ KeepAll(w.m, u.m) /\ Agree(w.m, w.sock, u.sock) /\ u.io = w.io /\ u.st = w.st
      BY <1>1, <1>2, OpenedGood
  <2>2. PICK v : v = x[1]
      BY Zenon
  <2>3. PICK L : L = u.lost \cup {w.sockets + 1}
      BY Zenon
  <2>4. v = [u EXCEPT !.lost = L]
      BY <1>3, <2>2, <2>3 DEF NoName
  <2>5. Good(v, tb) /\ v.m = u.m /\ v.sock = u.sock /\ v.io = u.io /\ v.st = u.st
      BY <2>1, <2>4, LostGood
  <2>6. Follows(w, v)
      BY <2>1, <2>5 DEF Follows, KeepAll, Keep, Agree, Valid
  <2>7. QED
      BY <2>2, <2>5, <2>6
<1>4. CASE a # INVALID_FD /\ \E v : Readies(u, v, a) /\ (Refused(v, l, a, x) \/ UnderWay(v, l, a, x))
  <2>1. PICK v : Readies(u, v, a) /\ (Refused(v, l, a, x) \/ UnderWay(v, l, a, x))
      BY <1>4, Zenon
  <2>2. Ready(w, v, tb, l, a)
      BY <1>1, <1>2, <1>4, <2>1, ReadyIs
  <2>3. QED
      BY <2>1, <2>2, RefusedGood, UnderWayGood, Zenon
<1>5. QED
    BY <1>1, <1>2, <1>3, <1>4, AcceptOnIs

LEMMA QueueAcceptGood ==
    ASSUME NEW w, NEW tb, Good(w, tb), NEW l, Valid(w.m, l), State(w.m, l) # 0, FreeStates(w) # {},
           NEW x \in WSIOCP_QueueAccept(w, l)
    PROVE  Good(x[1], tb) /\ Follows(w, x[1])
<1>1. WSIOCP_GetSocketState(w, l) = w
    BY MasksInIs DEF WSIOCP_GetSocketState
<1>2. \E h \in Handles : w.sock[h] = 0 /\ x \in AcceptOn(w, l, h)
    BY <1>1 DEF WSIOCP_QueueAccept
<1>3. QED
    BY <1>2, AcceptOnGood

LEMMA FreeSame ==
    ASSUME NEW w, NEW v, NEW n \in 1 .. NStates, w.st[n] \in Blocks, v.st[n] \in Blocks,
           \A k \in 1 .. NStates : k # n => v.st[k] = w.st[k]
    PROVE  FreeStates(v) = FreeStates(w)
<1>1. w.st[n] # NoState /\ v.st[n] # NoState
    BY BlockIs
<1>2. QED
    BY <1>1 DEF FreeStates

(* Socket r joins the completion port; a socket without a state keeps having none. *)
Joined(w, v) ==
  /\ v.m = w.m /\ v.sock = w.sock /\ v.io = w.io /\ v.sockets = w.sockets /\ v.lost = w.lost
  /\ FreeStates(v) = FreeStates(w) /\ \A k \in 1 .. NStates : Listed(v.st, k) = Listed(w.st, k)

JoinsAlone(w, v, r) ==
  /\ v.m = w.m /\ v.sock = w.sock /\ v.st = w.st /\ v.io = w.io /\ v.sockets = w.sockets /\ v.lost = w.lost
  /\ v.port = [w.port EXCEPT ![Socket(w.m, r)] = r] /\ IsWorld(v)
LEMMA AttachedStateless ==
    ASSUME NEW w, IsWorld(w), MapGood(w.m), NEW r, Valid(w.m, r), State(w.m, r) = 0, NEW v, v = WSIOCP_SocketAttach(w, r)
    PROVE  JoinsAlone(w, v, r)
<1>1. StateIn(w, r) = 0
    BY MasksInIs
<1>2. PICK h : h = Socket(w.m, r)
    BY Zenon
<1>3. HandleIn(w, r) = h /\ h \in Handles /\ r \in Nat
  <2>1. r \in DOMAIN w.m.RFDToSocketInfo /\ h # INVALID_SOCKET
      BY <1>2 DEF Valid
  <2>2. QED
      BY <1>2, <2>1, StateIs DEF HandleIn, lookupSocket, Socket
<1>4. /\ w = [m |-> w.m, sock |-> w.sock, port |-> w.port, st |-> w.st, io |-> w.io, sockets |-> w.sockets, lost |-> w.lost]
      /\ WorldTypes(w.sock, w.port, w.st, w.io, w.sockets)
    BY Zenon DEF IsWorld
<1>5. w.st \in [1 .. NStates -> Blocks \cup {NoState}] /\ w.port \in [Handles -> Int] /\ 0 \notin 1 .. NStates
    BY <1>4 DEF WorldTypes
<1>6. PICK p : p = [w.port EXCEPT ![h] = r]
    BY Zenon
<1>7. PICK s : s = w.st
    BY Zenon
<1>8. \A f, e : f = [s EXCEPT ![0] = e] => f = s
  <2>1. SUFFICES ASSUME NEW f, NEW e, f = [s EXCEPT ![0] = e] PROVE f = s
      OBVIOUS
  <2>2. s \in [1 .. NStates -> Blocks \cup {NoState}] /\ 0 \notin DOMAIN s
      BY <1>5, <1>7
  <2>3. QED
      BY <2>1, <2>2
<1>9. PICK f : f = [s EXCEPT ![0] = [s[0] EXCEPT !.masks = {"SOCKET_ATTACHED"}]]
    BY Zenon
<1>10. f = s
    BY <1>8, <1>9, Zenon
<1>11. PICK g : g = [f EXCEPT ![0] = [f[0] EXCEPT !.wreqs = 0]]
    BY Zenon
<1>12. g = s
    BY <1>8, <1>10, <1>11, Zenon
<1>13. v = [[[w EXCEPT !.port = p] EXCEPT !.st = f] EXCEPT !.st = g]
    BY <1>1, <1>3, <1>4, <1>6, <1>7, <1>9, <1>11 DEF WSIOCP_SocketAttach
<1>14. /\ v.m = w.m /\ v.sock = w.sock /\ v.st = w.st /\ v.io = w.io /\ v.sockets = w.sockets /\ v.lost = w.lost /\ v.port = p
       /\ v = [m |-> v.m, sock |-> v.sock, port |-> v.port, st |-> v.st, io |-> v.io, sockets |-> v.sockets, lost |-> v.lost]
    BY <1>4, <1>7, <1>12, <1>13
<1>15. p \in [Handles -> Int]
    BY <1>3, <1>5, <1>6
<1>16. IsWorld(v)
    BY <1>4, <1>14, <1>15, Zenon DEF IsWorld, WorldTypes
<1>17. QED
    BY <1>2, <1>6, <1>14, <1>16, Zenon DEF JoinsAlone

LEMMA AttachGood ==
    ASSUME NEW w, NEW tb, Good(w, tb), NEW r, Valid(w.m, r), NEW v, v = WSIOCP_SocketAttach(w, r)
    PROVE  /\ Good(v, tb) /\ Joined(w, v)
           /\ State(w.m, r) # 0 => v.st[State(w.m, r)].masks = Attached /\ v.st[State(w.m, r)].wreqs = 0
<1>1. /\ IsWorld(w) /\ MapGood(w.m) /\ Opened(w.m, w.sock) /\ CrtTables(w.m, crt)
      /\ HandlesHeld(w.m, w.sock, th) /\ CrtHeld(w.m, crt, streams, th)
      /\ Closings(w.m, th) /\ Calling(w.m, tb, th)
      /\ StatesOwned(w.m, w.st) /\ Waits(w.m, w.st, w.io, tb) /\ Tables(w.m, w.sock, crt, tb)
    BY Zenon DEF Good
<1>2. CASE State(w.m, r) = 0
  <2>1. /\ v.m = w.m /\ v.sock = w.sock /\ v.st = w.st /\ v.io = w.io /\ v.sockets = w.sockets /\ v.lost = w.lost /\ IsWorld(v)
    <3>1. IsWorld(w) /\ MapGood(w.m)
        BY <1>1
    <3>2. JoinsAlone(w, v, r)
        BY <1>2, <3>1, AttachedStateless, Zenon
    <3>3. QED
        BY <3>2, Zenon DEF JoinsAlone
  <2>2. Good(v, tb)
      BY <1>1, <2>1, Zenon DEF Good
  <2>3. Joined(w, v)
      BY <2>1, Zenon DEF Joined, FreeStates
  <2>4. QED
      BY <1>2, <2>2, <2>3
<1>3. CASE State(w.m, r) # 0
  <2>1. PICK n : n = State(w.m, r)
      BY Zenon
  <2>2. n \in 1 .. NStates /\ w.st[n] \in Blocks
      BY <1>3, <2>1, GoodOwns
  <2>3. PICK b : b = [w.st[n] EXCEPT !.masks = Attached, !.wreqs = 0]
      BY Zenon
  <2>4. PICK p : p = [w.port EXCEPT ![Socket(w.m, r)] = r]
      BY Zenon
  <2>5. Sets(w, v, n, b, p) /\ SameBut(b, w.st[n]) /\ b.masks = Attached /\ b.wreqs = 0
    <3>1. IsWorld(w) /\ MapGood(w.m)
        BY <1>1
    <3>2. QED
        BY <2>1, <2>2, <2>3, <2>4, <3>1, AttachedIs, ZenonT(60)
  <2>6. "CLOSE_PENDING" \notin b.masks
      BY <2>5 DEF Attached
  <2>7. Good(v, tb) /\ \A k \in 1 .. NStates : Listed(v.st, k) = Listed(w.st, k)
      BY <2>2, <2>5, <2>6, SetsGood
  <2>8. w.st \in BlockTables
      BY <1>1, Zenon DEF IsWorld, WorldTypes, BlockTables
  <2>9. v.st[n] = b /\ \A k \in 1 .. NStates : k # n => v.st[k] = w.st[k]
      BY <2>2, <2>5, <2>8 DEF Sets, BlockTables
  <2>10. FreeStates(v) = FreeStates(w)
      BY <2>2, <2>5, <2>9, FreeSame DEF SameBut
  <2>11. QED
      BY <2>1, <2>5, <2>7, <2>9, <2>10 DEF Joined, Sets
<1>4. QED
    BY <1>2, <1>3

LEMMA LoopUses ==
    ASSUME IInv, NEW r \in DOMAIN table, InLoop(r)
    PROVE  Good(World, table) /\ Valid(World.m, r) /\ FreeStates(World) # {} /\ State(World.m, r) = StateAt(r)
<1>1. r \in DOMAIN m.RFDToSocketInfo /\ FreeStates(World) # {} /\ World.m = m
    BY WorldIs DEF InLoop, IsSocket
<1>2. Tables(m, sock, crt, table) /\ Disjoint(m)
    BY Zenon DEF IInv, MapGood
<1>3. Valid(m, r)
    BY <1>1, <1>2 DEF Tables, Disjoint
<1>4. QED
    BY <1>1, <1>3, WorldGood DEF StateAt, State

(* The loop thread looks at a socket and its state is there. *)
LEMMA LoopGets ==
    ASSUME IInv, NEW r \in DOMAIN table, InLoop(r), NEW w, w = WSIOCP_GetSocketState(World, r)
    PROVE  /\ Gets(World, w, r) /\ Good(w, table) /\ Valid(w.m, r) /\ State(w.m, r) # 0
           /\ \E n \in 1 .. NStates : n = State(w.m, r) /\ w.st[n] \in Blocks /\ w.st[n].masks \subseteq Masks
                                     /\ "CLOSE_PENDING" \notin w.st[n].masks
<1>1. Good(World, table) /\ Valid(World.m, r) /\ FreeStates(World) # {}
    BY LoopUses
<1>2. r \in DOMAIN World.m.RFDToSocketInfo
    BY <1>1 DEF Valid
<1>3. Gets(World, w, r)
    BY <1>1, <1>2, GetsIs
<1>4. Good(w, table) /\ Valid(w.m, r) /\ State(w.m, r) \in 1 .. NStates
    BY <1>1, <1>3, GetsGood
<1>5. State(w.m, r) # 0
    BY <1>4
<1>6. /\ w.st[State(w.m, r)] \in Blocks /\ w.st[State(w.m, r)].masks \subseteq Masks
      /\ "CLOSE_PENDING" \notin w.st[State(w.m, r)].masks
    BY <1>4, <1>5, GoodOwns
<1>7. QED
    BY <1>3, <1>4, <1>5, <1>6

LEMMA SecondFree ==
    ASSUME Cardinality(FreeStates(World)) >= 2, NEW r, NEW w, Gets(World, w, r), st \in BlockTables
    PROVE  FreeStates(w) # {}
<1>1. PICK F : F = FreeStates(World)
    BY Zenon
<1>2. World.st = st
    BY WorldIs
<1>3. F # {}
    BY <1>1, FS_EmptySet
<1>4. CASE w = World
    BY <1>1, <1>3, <1>4
<1>5. CASE \E n \in 1 .. NStates : w.st = [World.st EXCEPT ![n] = NewBlock(r)]
  <2>1. PICK n \in 1 .. NStates : w.st = [World.st EXCEPT ![n] = NewBlock(r)]
      BY <1>5
  <2>2. \E k \in F : k # n
    <3>1. SUFFICES ASSUME \A k \in F : k = n PROVE FALSE
        OBVIOUS
    <3>2. F = {n}
        BY <1>3, <3>1
    <3>3. Cardinality({n}) = 1
        BY FS_Singleton
    <3>4. QED
        BY <1>1, <3>2, <3>3
  <2>3. PICK k \in F : k # n
      BY <2>2
  <2>4. k \in 1 .. NStates /\ st[k] = NoState
      BY <1>1, <1>2 DEF FreeStates
  <2>5. w.st[k] = NoState
      BY <1>2, <2>1, <2>3, <2>4 DEF BlockTables
  <2>6. QED
      BY <2>4, <2>5 DEF FreeStates
<1>6. QED
  <2>1. w = World \/ \E n \in 1 .. NStates : Makes(World, w, r, n)
      BY Zenon DEF Gets
  <2>2. QED
      BY <1>4, <1>5, <2>1, Zenon DEF Makes

LEMMA WSIOCP_ListenTypes ==
    ASSUME IInv, WSIOCP_Listen
    PROVE  IInv'
<1>1. PICK r \in DOMAIN table :
        /\ InLoop(r) /\ RoomToAccept
        /\ LET w == WSIOCP_GetSocketState(World, r)
               up == WSIOCP_SocketAttach(w, r)
               ears == SetMasks(up, r, MasksIn(up, r) \cup {"LISTEN_SOCK"})
           IN  \E done \in {w} \cup IF FDAPI_SocketAttachIOCP(w, r) THEN {ears} \cup {x[1] : x \in WSIOCP_QueueAccept(ears, r)} ELSE {} :
                  Become(done)
    BY Zenon DEF WSIOCP_Listen
<1>2. UNCHANGED <<th, table>>
    BY Zenon DEF WSIOCP_Listen
<1>3. PICK w : w = WSIOCP_GetSocketState(World, r)
    BY Zenon
<1>4. PICK up : up = WSIOCP_SocketAttach(w, r)
    BY Zenon
<1>5. PICK ears : ears = SetMasks(up, r, MasksIn(up, r) \cup {"LISTEN_SOCK"})
    BY Zenon
<1>6. \E done \in {w} \cup IF FDAPI_SocketAttachIOCP(w, r) THEN {ears} \cup {x[1] : x \in WSIOCP_QueueAccept(ears, r)} ELSE {} :
         Become(done)
    BY <1>1, <1>3, <1>4, <1>5, Zenon
<1>7. PICK done : Become(done) /\ (done = w \/ done = ears \/ \E x \in WSIOCP_QueueAccept(ears, r) : done = x[1])
    BY <1>6, Zenon
<1>8. Gets(World, w, r) /\ Good(w, table) /\ Valid(w.m, r) /\ State(w.m, r) # 0
    BY <1>1, <1>3, LoopGets
<1>9. FreeStates(w) # {}
  <2>1. Cardinality(FreeStates(World)) >= 2
      BY <1>1, Zenon DEF RoomToAccept
  <2>2. st \in BlockTables
      BY Zenon DEF IInv, Types, WorldTypes, BlockTables
  <2>3. QED
      BY <1>8, <2>1, <2>2, SecondFree, Zenon
<1>10. /\ Good(up, table) /\ Joined(w, up) /\ up.st[State(w.m, r)].masks = Attached
  <2>1. /\ Good(up, table) /\ Joined(w, up)
        /\ State(w.m, r) # 0 => up.st[State(w.m, r)].masks = Attached /\ up.st[State(w.m, r)].wreqs = 0
      BY <1>4, <1>8, AttachGood
  <2>2. QED
      BY <1>8, <2>1
<1>11. up.m = w.m /\ FreeStates(up) = FreeStates(w) /\ Valid(up.m, r)
    BY <1>8, <1>10 DEF Joined
<1>12. PICK n : n = State(up.m, r)
    BY Zenon
<1>13. n \in 1 .. NStates /\ up.st[n] \in Blocks /\ up.st[n].masks = Attached
    BY <1>8, <1>10, <1>11, <1>12, GoodOwns
<1>14. PICK d : d = Attached \cup {"LISTEN_SOCK"}
    BY Zenon
<1>15. d \in SUBSET Masks /\ "CLOSE_PENDING" \notin d
    BY <1>14 DEF Attached, Masks
<1>16. ears = SetMasks(up, r, d)
    BY <1>5, <1>12, <1>13, <1>14, MasksInIs
<1>17. Good(ears, table) /\ Masked(up, ears, n, d)
    BY <1>10, <1>11, <1>12, <1>13, <1>15, <1>16, MasksGood
<1>18. Valid(ears.m, r) /\ State(ears.m, r) # 0 /\ FreeStates(ears) # {}
  <2>1. ears.m = up.m /\ ears.st[n] \in Blocks /\ \A k \in 1 .. NStates : k # n => ears.st[k] = up.st[k]
      BY <1>17, Zenon DEF Masked
  <2>2. FreeStates(ears) = FreeStates(up)
      BY <1>13, <2>1, FreeSame
  <2>3. QED
      BY <1>8, <1>9, <1>11, <2>1, <2>2
<1>19. Good(done, table)
  <2>1. ASSUME NEW x \in WSIOCP_QueueAccept(ears, r) PROVE Good(x[1], table)
      BY <1>17, <1>18, <2>1, QueueAcceptGood
  <2>2. QED
      BY <1>7, <1>8, <1>17, <2>1, Zenon
<1>20. QED
    BY <1>2, <1>7, <1>19, GoodBecomes

LEMMA WSIOCP_QueueNextReadTypes ==
    ASSUME IInv, WSIOCP_QueueNextRead
    PROVE  IInv'
<1>1. PICK r \in DOMAIN table :
        /\ InLoop(r)
        /\ LET w == WSIOCP_GetSocketState(World, r)  masks == MasksIn(w, r) IN
           /\ masks \cap {"READ_QUEUED", "CONNECT_PENDING", "LISTEN_SOCK"} = {}
           /\ \E done \in {w} \cup IF "SOCKET_ATTACHED" \in masks
                                  THEN {SetMasks(FDAPI_WSARecv(w, r), r, masks \cup {"READ_QUEUED"})} ELSE {} :
                 Become(done)
    BY Zenon DEF WSIOCP_QueueNextRead
<1>2. UNCHANGED <<th, table>>
    BY Zenon DEF WSIOCP_QueueNextRead
<1>3. PICK w : w = WSIOCP_GetSocketState(World, r)
    BY Zenon
<1>4. PICK y : y = FDAPI_WSARecv(w, r)
    BY Zenon
<1>5. PICK masks : masks = MasksIn(w, r)
    BY Zenon
<1>6. PICK done : Become(done) /\ (done = w \/ done = SetMasks(y, r, masks \cup {"READ_QUEUED"}))
  <2>1. \E done \in {w} \cup IF "SOCKET_ATTACHED" \in masks THEN {SetMasks(y, r, masks \cup {"READ_QUEUED"})} ELSE {} : Become(done)
      BY <1>1, <1>3, <1>4, <1>5, Zenon
  <2>2. QED
      BY <2>1, Zenon
<1>7. Gets(World, w, r) /\ Good(w, table) /\ Valid(w.m, r) /\ State(w.m, r) # 0
    BY <1>1, <1>3, LoopGets
<1>8. PICK n : n = State(w.m, r)
    BY Zenon
<1>9. n \in 1 .. NStates /\ masks = w.st[n].masks /\ masks \subseteq Masks /\ "CLOSE_PENDING" \notin masks
    BY <1>5, <1>7, <1>8, GoodOwns, MasksInIs
<1>10. PICK o : Issues(w, y, o) /\ o.kind = "read"
  <2>1. IsWorld(w) /\ MapGood(w.m)
      BY <1>7, Zenon DEF Good
  <2>2. -1 \in Int /\ y = Issue(w, r, "read", -1)
      BY <1>4 DEF FDAPI_WSARecv
  <2>3. \E o : Issues(w, y, o) /\ IsOp(o, w.port[Socket(w.m, r)], n, "read", -1)
      BY <1>7, <1>8, <1>9, <2>1, <2>2, IssueIs
  <2>4. QED
      BY <2>3, Zenon DEF IsOp
<1>11. Good(y, table)
  <2>1. o.kind = "accept" => Valid(w.m, o.acc) /\ Free(w, table, o.acc)
      BY <1>10
  <2>2. QED
      BY <1>7, <1>10, <2>1, IssueGood
<1>12. y.m = w.m /\ y.st = w.st
    BY <1>10 DEF Issues
<1>13. PICK d : d = masks \cup {"READ_QUEUED"}
    BY Zenon
<1>14. d \in SUBSET Masks /\ "CLOSE_PENDING" \notin d
    BY <1>9, <1>13 DEF Masks
<1>15. \A v : v = SetMasks(y, r, d) => Good(v, table)
  <2>1. Valid(y.m, r) /\ n = State(y.m, r)
      BY <1>7, <1>8, <1>12
  <2>2. QED
      BY <1>9, <1>11, <1>14, <2>1, MasksGood
<1>16. Good(done, table)
    BY <1>6, <1>7, <1>13, <1>15, Zenon
<1>17. QED
    BY <1>2, <1>6, <1>16, GoodBecomes

LEMMA ConnectOverlappedTypes ==
    ASSUME IInv, ConnectOverlapped
    PROVE  IInv'
<1>1. PICK r \in DOMAIN table :
        /\ InLoop(r)
        /\ LET w == WSIOCP_GetSocketState(World, r)
               up == WSIOCP_SocketAttach(w, r)
               issued == FDAPI_ConnectEx(up, r)
               pending == SetMasks(issued, r, MasksIn(up, r) \cup {"CONNECT_PENDING"})
           IN  \/ Become(w)
               \/ /\ FDAPI_SocketAttachIOCP(w, r)
                  /\ Become(up) \/ Become(pending) \/ (StateIn(up, r) \in Early /\ Become(issued))
    BY Zenon DEF ConnectOverlapped
<1>2. UNCHANGED <<th, table>>
    BY Zenon DEF ConnectOverlapped
<1>3. PICK w : w = WSIOCP_GetSocketState(World, r)
    BY Zenon
<1>4. PICK up : up = WSIOCP_SocketAttach(w, r)
    BY Zenon
<1>5. PICK y : y = FDAPI_ConnectEx(up, r)
    BY Zenon
<1>6. PICK masks : masks = MasksIn(up, r)
    BY Zenon
<1>7. PICK done : /\ Become(done)
                  /\ \/ done = w \/ done = up \/ done = SetMasks(y, r, masks \cup {"CONNECT_PENDING"})
                     \/ done = y /\ StateIn(up, r) \in Early
    BY <1>1, <1>3, <1>4, <1>5, <1>6, Zenon
<1>8. Gets(World, w, r) /\ Good(w, table) /\ Valid(w.m, r) /\ State(w.m, r) # 0
    BY <1>1, <1>3, LoopGets
<1>9. Good(up, table) /\ Joined(w, up)
    BY <1>4, <1>8, AttachGood
<1>10. up.m = w.m /\ Valid(up.m, r)
    BY <1>8, <1>9 DEF Joined
<1>11. PICK n : n = State(up.m, r)
    BY Zenon
<1>12. n \in 1 .. NStates /\ masks = up.st[n].masks /\ masks \subseteq Masks /\ "CLOSE_PENDING" \notin masks
    BY <1>6, <1>8, <1>9, <1>10, <1>11, GoodOwns, MasksInIs
<1>13. PICK o : Issues(up, y, o) /\ o.kind = "connect"
  <2>1. IsWorld(up) /\ MapGood(up.m)
      BY <1>9, Zenon DEF Good
  <2>2. -1 \in Int /\ y = Issue(up, r, "connect", -1)
      BY <1>5 DEF FDAPI_ConnectEx
  <2>3. \E o : Issues(up, y, o) /\ IsOp(o, up.port[Socket(up.m, r)], n, "connect", -1)
      BY <1>10, <1>11, <1>12, <2>1, <2>2, IssueIs
  <2>4. QED
      BY <2>3, Zenon DEF IsOp
<1>14. Good(y, table)
  <2>1. o.kind = "accept" => Valid(up.m, o.acc) /\ Free(up, table, o.acc)
      BY <1>13
  <2>2. QED
      BY <1>9, <1>13, <2>1, IssueGood
<1>15. y.m = up.m /\ y.st = up.st
    BY <1>13 DEF Issues
<1>16. PICK d : d = masks \cup {"CONNECT_PENDING"}
    BY Zenon
<1>17. d \in SUBSET Masks /\ "CLOSE_PENDING" \notin d
    BY <1>12, <1>16 DEF Masks
<1>18. \A v : v = SetMasks(y, r, d) => Good(v, table)
  <2>1. Valid(y.m, r) /\ n = State(y.m, r)
      BY <1>10, <1>11, <1>15
  <2>2. QED
      BY <1>12, <1>14, <1>17, <2>1, MasksGood
<1>19. Good(done, table)
    BY <1>7, <1>8, <1>9, <1>14, <1>16, <1>18, Zenon
<1>20. QED
    BY <1>2, <1>7, <1>19, GoodBecomes

LEMMA CountedBlock ==
    ASSUME NEW c \in Blocks, NEW b, b = [c EXCEPT !.wreqs = @ + 1]
    PROVE  SameBut(b, c) /\ b.masks = c.masks /\ b.wreqs = c.wreqs + 1
  BY DEF Blocks, SameBut

LEMMA CountedIs ==
    ASSUME NEW w, IsWorld(w), NEW n \in 1 .. NStates, NEW b, b = [w.st[n] EXCEPT !.wreqs = @ + 1], b \in Blocks,
           NEW v, v = [w EXCEPT !.st[n].wreqs = @ + 1]
    PROVE  Sets(w, v, n, b, w.port)
<1>1. /\ w = [m |-> w.m, sock |-> w.sock, port |-> w.port, st |-> w.st, io |-> w.io, sockets |-> w.sockets, lost |-> w.lost]
      /\ WorldTypes(w.sock, w.port, w.st, w.io, w.sockets)
    BY Zenon DEF IsWorld
<1>2. PICK z : z = [w.st EXCEPT ![n] = b]
    BY Zenon
<1>3. /\ v.m = w.m /\ v.sock = w.sock /\ v.io = w.io /\ v.sockets = w.sockets /\ v.lost = w.lost
      /\ v.port = w.port /\ v.st = z
      /\ v = [m |-> v.m, sock |-> v.sock, port |-> v.port, st |-> v.st, io |-> v.io, sockets |-> v.sockets, lost |-> v.lost]
    BY <1>1, <1>2
<1>4. z \in [1 .. NStates -> Blocks \cup {NoState}]
    BY <1>1, <1>2 DEF WorldTypes
<1>5. IsWorld(v)
    BY <1>1, <1>3, <1>4, Zenon DEF IsWorld, WorldTypes
<1>6. QED
    BY <1>2, <1>3, <1>5, Zenon DEF Sets

LEMMA WSIOCP_SocketSendTypes ==
    ASSUME IInv, WSIOCP_SocketSend
    PROVE  IInv'
<1>1. PICK r \in DOMAIN table :
        /\ InLoop(r)
        /\ LET w == WSIOCP_GetSocketState(World, r)  n == StateIn(w, r)  async == FDAPI_WSASend(w, r) IN
           /\ w.st[n].wreqs < MaxSends /\ "LISTEN_SOCK" \notin MasksIn(w, r)
           /\ \E done \in {w} \cup IF "SOCKET_ATTACHED" \in MasksIn(w, r) THEN {[async EXCEPT !.st[n].wreqs = @ + 1]} ELSE {} :
                 Become(done)
    BY Zenon DEF WSIOCP_SocketSend
<1>2. UNCHANGED <<th, table>>
    BY Zenon DEF WSIOCP_SocketSend
<1>3. PICK w : w = WSIOCP_GetSocketState(World, r)
    BY Zenon
<1>4. PICK y : y = FDAPI_WSASend(w, r)
    BY Zenon
<1>5. PICK n : n = StateIn(w, r)
    BY Zenon
<1>6. PICK z : z = [y EXCEPT !.st[n].wreqs = @ + 1]
    BY Zenon
<1>7. PICK done : Become(done) /\ (done = w \/ done = z)
  <2>1. \E done \in {w} \cup IF "SOCKET_ATTACHED" \in MasksIn(w, r) THEN {z} ELSE {} : Become(done)
      BY <1>1, <1>3, <1>4, <1>5, <1>6, Zenon
  <2>2. QED
      BY <2>1, Zenon
<1>8. Gets(World, w, r) /\ Good(w, table) /\ Valid(w.m, r) /\ State(w.m, r) # 0
    BY <1>1, <1>3, LoopGets
<1>9. n = State(w.m, r) /\ n \in 1 .. NStates /\ w.st[n] \in Blocks
  <2>1. n = State(w.m, r)
      BY <1>5, MasksInIs
  <2>2. State(w.m, r) \in 1 .. NStates /\ w.st[State(w.m, r)] \in Blocks
      BY <1>8, GoodOwns
  <2>3. QED
      BY <2>1, <2>2
<1>10. PICK o : Issues(w, y, o) /\ o.kind = "send"
  <2>1. IsWorld(w) /\ MapGood(w.m)
      BY <1>8, Zenon DEF Good
  <2>2. -1 \in Int /\ y = Issue(w, r, "send", -1)
      BY <1>4 DEF FDAPI_WSASend
  <2>3. \E o : Issues(w, y, o) /\ IsOp(o, w.port[Socket(w.m, r)], n, "send", -1)
      BY <1>8, <1>9, <2>1, <2>2, IssueIs
  <2>4. QED
      BY <2>3, Zenon DEF IsOp
<1>11. Good(y, table)
  <2>1. o.kind = "accept" => Valid(w.m, o.acc) /\ Free(w, table, o.acc)
      BY <1>10
  <2>2. QED
      BY <1>8, <1>10, <2>1, IssueGood
<1>12. y.st[n] = w.st[n]
    BY <1>10 DEF Issues
<1>13. PICK b : b = [y.st[n] EXCEPT !.wreqs = @ + 1]
    BY Zenon
<1>14. SameBut(b, y.st[n]) /\ b.masks = y.st[n].masks /\ b \in Blocks
    BY <1>9, <1>12, <1>13, CountedBlock DEF SameBut
<1>15. Sets(y, z, n, b, y.port)
  <2>1. IsWorld(y)
      BY <1>11, Zenon DEF Good
  <2>2. QED
      BY <1>6, <1>9, <1>13, <1>14, <2>1, CountedIs
<1>16. Good(z, table)
    BY <1>9, <1>11, <1>14, <1>15, SetsGood
<1>17. Good(done, table)
    BY <1>7, <1>8, <1>16, Zenon
<1>18. QED
    BY <1>2, <1>7, <1>17, GoodBecomes

(* Block n becomes b, whatever it lists. *)
Replaces(s, z, n, b) == z[n] = b /\ \A k \in 1 .. NStates : k # n => z[k] = s[k]
LEMMA BlockSet ==
    ASSUME NEW M, NEW s \in BlockTables, StatesOwned(M, s), NEW n \in 1 .. NStates, s[n] # NoState,
           NEW b \in Blocks, b.fd = s[n].fd, "CLOSE_PENDING" \in b.masks => "CLOSE_PENDING" \in s[n].masks,
           NEW z, z = [s EXCEPT ![n] = b]
    PROVE  StatesOwned(M, z) /\ z \in BlockTables /\ Replaces(s, z, n, b)
<1>1. z \in BlockTables /\ z[n] = b /\ \A k \in 1 .. NStates : k # n => z[k] = s[k]
    BY DEF BlockTables
<1>2. ASSUME NEW x \in DOMAIN M.RFDToSocketInfo, State(M, x) # 0
      PROVE  /\ z[State(M, x)] \in Blocks /\ z[State(M, x)].fd = x
             /\ "CLOSE_PENDING" \in z[State(M, x)].masks => Socket(M, x) = INVALID_SOCKET
  <2>1. PICK k : k = State(M, x)
      BY Zenon
  <2>2. s[k] \in Blocks /\ s[k].fd = x /\ ("CLOSE_PENDING" \in s[k].masks => Socket(M, x) = INVALID_SOCKET)
      BY <1>2, <2>1 DEF StatesOwned
  <2>3. CASE k = n
      BY <1>1, <2>1, <2>2, <2>3
  <2>4. CASE k # n
      BY <2>1, <2>2, <2>4 DEF BlockTables
  <2>5. QED
      BY <2>3, <2>4
<1>3. ASSUME NEW k \in 1 .. NStates, z[k] # NoState
      PROVE  z[k] \in Blocks /\ z[k].fd \in DOMAIN M.RFDToSocketInfo /\ State(M, z[k].fd) = k
  <2>1. s[k] # NoState
      BY <1>1, <1>3
  <2>2. s[k] \in Blocks /\ s[k].fd \in DOMAIN M.RFDToSocketInfo /\ State(M, s[k].fd) = k
      BY <2>1 DEF StatesOwned
  <2>3. CASE k = n
      BY <1>1, <2>2, <2>3
  <2>4. CASE k # n
      BY <1>1, <2>2, <2>4
  <2>5. QED
      BY <2>3, <2>4
<1>4. QED
    BY <1>1, <1>2, <1>3, Zenon DEF StatesOwned, Replaces

(* The first of the accepted descriptors a state lists is taken. *)
TakenFrom(s, z, n) ==
  /\ \A k \in 1 .. NStates : k # n => Listed(z, k) = Listed(s, k)
  /\ Listed(s, n) \in Seq(Nat) /\ Listed(s, n) # <<>> /\ Listed(z, n) = Tail(Listed(s, n))

LEMMA ListTaken ==
    ASSUME NEW M, NEW s, NEW z, NEW q, NEW tb, Waits(M, s, q, tb), NEW n \in 1 .. NStates, TakenFrom(s, z, n),
           NEW a, a = Head(Listed(s, n))
    PROVE  /\ Waits(M, z, q, tb) /\ Valid(M, a) /\ a \in Nat /\ a \notin DOMAIN tb /\ \A o \in Accepts(q) : o.acc # a
           /\ \A k \in 1 .. NStates : \A i \in DOMAIN Listed(z, k) : Listed(z, k)[i] # a
<1>1. PICK l \in Seq(Nat) : l = Listed(s, n)
    BY DEF TakenFrom
<1>2. PICK len \in Nat \ {0} : len = Len(l)
    BY <1>1, Tailed DEF TakenFrom
<1>3. /\ DOMAIN l = 1 .. len /\ a = l[1] /\ a \in Nat /\ DOMAIN Listed(z, n) = 1 .. len - 1
      /\ \A i \in 1 .. len - 1 : Listed(z, n)[i] = l[i + 1]
    BY <1>1, <1>2, Tailed DEF TakenFrom
<1>4. 1 \in 1 .. len /\ \A i \in 1 .. len - 1 : i + 1 \in 1 .. len /\ i + 1 # 1 /\ i \in Nat
    BY <1>2
<1> DEFINE P(k, i) == IF k = n THEN i + 1 ELSE i
<1>5. \A k \in 1 .. NStates : \A i \in DOMAIN Listed(z, k) : P(k, i) \in DOMAIN Listed(s, k) /\ Listed(z, k)[i] = Listed(s, k)[P(k, i)]
  <2>1. ASSUME NEW k \in 1 .. NStates, NEW i \in DOMAIN Listed(z, k)
        PROVE  P(k, i) \in DOMAIN Listed(s, k) /\ Listed(z, k)[i] = Listed(s, k)[P(k, i)]
    <3>1. CASE k = n
        BY <1>1, <1>3, <1>4, <2>1, <3>1
    <3>2. CASE k # n
        BY <2>1, <3>2, Zenon DEF TakenFrom
    <3>3. QED
        BY <3>1, <3>2
  <2>2. QED
      BY <2>1, Zenon
<1>6. \A k \in 1 .. NStates : \A i \in DOMAIN Listed(z, k) : ~(k = n /\ P(k, i) = 1)
    BY <1>3, <1>4
<1>7. \A k \in 1 .. NStates : \A i, j \in DOMAIN Listed(z, k) : P(k, i) = P(k, j) => i = j
  <2>1. \A i, j \in Nat : i + 1 = j + 1 => i = j
      OBVIOUS
  <2>2. QED
      BY <1>3, <1>4, <2>1
<1>8. 1 \in DOMAIN Listed(s, n) /\ Listed(s, n)[1] = a
    BY <1>1, <1>3, <1>4
<1> HIDE DEF P
<1>9. Valid(M, a) /\ a \notin DOMAIN tb /\ \A o \in Accepts(q) : o.acc # a
  <2>1. \A i \in DOMAIN Listed(s, n) : /\ Valid(M, Listed(s, n)[i]) /\ Listed(s, n)[i] \notin DOMAIN tb
                                       /\ \A o \in Accepts(q) : o.acc # Listed(s, n)[i]
      BY Zenon DEF Waits
  <2>2. QED
      BY <1>8, <2>1
<1>10. \A n1 \in 1 .. NStates : \A i \in DOMAIN Listed(s, n1) : \A k \in 1 .. NStates : \A j \in DOMAIN Listed(s, k) :
          Listed(s, k)[j] = Listed(s, n1)[i] => n1 = k /\ i = j
    BY Zenon DEF Waits
<1>11. \A k \in 1 .. NStates : \A i \in DOMAIN Listed(z, k) : Listed(z, k)[i] # a
  <2>1. SUFFICES ASSUME NEW k \in 1 .. NStates, NEW i \in DOMAIN Listed(z, k), Listed(z, k)[i] = a PROVE FALSE
      BY Zenon
  <2>2. P(k, i) \in DOMAIN Listed(s, k) /\ Listed(s, k)[P(k, i)] = a
      BY <1>5, <2>1, Zenon
  <2>3. k = n /\ P(k, i) = 1
    <3>1. Listed(s, k)[P(k, i)] = Listed(s, n)[1]
        BY <1>8, <2>2, Zenon
    <3>2. n = k /\ 1 = P(k, i)
        BY <1>8, <1>10, <2>2, <3>1, Zenon
    <3>3. QED
        BY <3>2, Zenon
  <2>4. QED
      BY <1>6, <2>3, Zenon
<1>12. ASSUME NEW k \in 1 .. NStates, NEW i \in DOMAIN Listed(z, k)
       PROVE  /\ Valid(M, Listed(z, k)[i]) /\ Listed(z, k)[i] \notin DOMAIN tb
              /\ \A o \in Accepts(q) : o.acc # Listed(z, k)[i]
  <2>1. P(k, i) \in DOMAIN Listed(s, k) /\ Listed(z, k)[i] = Listed(s, k)[P(k, i)]
      BY <1>5, <1>12, Zenon
  <2>2. QED
      BY <2>1, Zenon DEF Waits
<1>13. ASSUME NEW k \in 1 .. NStates, NEW i \in DOMAIN Listed(z, k), NEW e \in 1 .. NStates, NEW j \in DOMAIN Listed(z, e),
              Listed(z, e)[j] = Listed(z, k)[i]
       PROVE  k = e /\ i = j
  <2>1. P(k, i) \in DOMAIN Listed(s, k) /\ P(e, j) \in DOMAIN Listed(s, e) /\ Listed(s, e)[P(e, j)] = Listed(s, k)[P(k, i)]
      BY <1>5, <1>13, Zenon
  <2>2. k = e /\ P(k, i) = P(e, j)
      BY <1>10, <2>1, Zenon
  <2>3. QED
      BY <1>7, <1>13, <2>2, Zenon
<1>14. Waits(M, z, q, tb)
  <2>1. /\ \A o \in Accepts(q) : Valid(M, o.acc) /\ o.acc \notin DOMAIN tb
        /\ \A o, p \in Accepts(q) : o.acc = p.acc => o = p
      BY Zenon DEF Waits
  <2>2. QED
      BY <1>12, <1>13, <2>1, Zenon DEF Waits
<1>15. QED
    BY <1>3, <1>9, <1>11, <1>14

(* The event loop takes an accepted descriptor from the list of n. *)
Takes(w, n) == [w EXCEPT !.st[n].reqs = Tail(@)]

LEMMA TailedBlock ==
    ASSUME NEW c \in Blocks, c.reqs # <<>>, NEW b, b = [c EXCEPT !.reqs = Tail(@)]
    PROVE  b \in Blocks /\ b.fd = c.fd /\ b.masks = c.masks /\ b.reqs = Tail(c.reqs) /\ b.wreqs = c.wreqs
<1>1. c.fd \in Nat /\ c.masks \subseteq Masks /\ c.reqs \in Seq(Nat) /\ c.wreqs \in Int
      /\ c = [fd |-> c.fd, masks |-> c.masks, reqs |-> c.reqs, wreqs |-> c.wreqs]
    BY BlockIs
<1>2. PICK s : s = Tail(c.reqs)
    BY Zenon
<1>3. s \in Seq(Nat)
    BY <1>1, <1>2
<1>4. b = [fd |-> c.fd, masks |-> c.masks, reqs |-> s, wreqs |-> c.wreqs]
    BY <1>1, <1>2
<1>5. b \in Blocks
  <2>1. c.masks \in SUBSET Masks
      BY <1>1
  <2>2. [fd |-> c.fd, masks |-> c.masks, reqs |-> s, wreqs |-> c.wreqs] \in Blocks
      BY <1>1, <1>3, <2>1, BlockMade, Zenon
  <2>3. QED
      BY <1>4, <2>2, Zenon
<1>6. QED
    BY <1>2, <1>4, <1>5

LEMMA TakesGood ==
    ASSUME NEW w, NEW tb, Good(w, tb), NEW n \in 1 .. NStates, w.st[n] \in Blocks, w.st[n].reqs # <<>>,
           NEW v, v = Takes(w, n), NEW a, a = Head(w.st[n].reqs)
    PROVE  /\ Good(v, tb) /\ Valid(v.m, a) /\ Free(v, tb, a) /\ a \in Nat
           /\ v.m = w.m /\ v.sock = w.sock /\ v.io = w.io /\ v.lost = w.lost /\ FreeStates(v) = FreeStates(w)
<1>1. /\ IsWorld(w) /\ MapGood(w.m) /\ Opened(w.m, w.sock) /\ CrtTables(w.m, crt)
      /\ HandlesHeld(w.m, w.sock, th) /\ CrtHeld(w.m, crt, streams, th)
      /\ Closings(w.m, th) /\ Calling(w.m, tb, th)
      /\ StatesOwned(w.m, w.st) /\ Waits(w.m, w.st, w.io, tb) /\ Tables(w.m, w.sock, crt, tb)
    BY Zenon DEF Good
<1>2. /\ w = [m |-> w.m, sock |-> w.sock, port |-> w.port, st |-> w.st, io |-> w.io, sockets |-> w.sockets, lost |-> w.lost]
      /\ WorldTypes(w.sock, w.port, w.st, w.io, w.sockets)
    BY <1>1, Zenon DEF IsWorld
<1>3. PICK s : s = w.st
    BY Zenon
<1>4. s \in BlockTables
    BY <1>2, <1>3 DEF WorldTypes, BlockTables
<1>5. PICK c : c = s[n]
    BY Zenon
<1>6. c \in Blocks /\ c.reqs # <<>> /\ a = Head(c.reqs)
    BY <1>3, <1>5
<1>7. PICK b : b = [c EXCEPT !.reqs = Tail(@)]
    BY Zenon
<1>8. b \in Blocks /\ b.fd = c.fd /\ b.masks = c.masks /\ b.reqs = Tail(c.reqs)
    BY <1>6, <1>7, TailedBlock
<1>9. PICK z : z = [s EXCEPT ![n] = b]
    BY Zenon
<1>10. /\ v.m = w.m /\ v.sock = w.sock /\ v.port = w.port /\ v.st = z /\ v.io = w.io /\ v.sockets = w.sockets /\ v.lost = w.lost
       /\ v = [m |-> v.m, sock |-> v.sock, port |-> v.port, st |-> v.st, io |-> v.io, sockets |-> v.sockets, lost |-> v.lost]
    BY <1>2, <1>3, <1>5, <1>7, <1>9 DEF Takes
<1>11. c # NoState /\ b # NoState
    BY <1>6, <1>8, BlockIs
<1>12. StatesOwned(w.m, z) /\ z \in BlockTables /\ z[n] = b /\ \A k \in 1 .. NStates : k # n => z[k] = s[k]
  <2>1. StatesOwned(w.m, s) /\ s[n] # NoState /\ b.fd = s[n].fd /\ ("CLOSE_PENDING" \in b.masks => "CLOSE_PENDING" \in s[n].masks)
      BY <1>1, <1>3, <1>5, <1>8, <1>11
  <2>2. StatesOwned(w.m, z) /\ z \in BlockTables /\ Replaces(s, z, n, b)
      BY <1>4, <1>8, <1>9, <2>1, BlockSet, Zenon
  <2>3. QED
      BY <2>2, Zenon DEF Replaces
<1>13. TakenFrom(s, z, n) /\ a = Head(Listed(s, n))
  <2>1. Listed(s, n) = c.reqs /\ Listed(z, n) = b.reqs
      BY <1>5, <1>11, <1>12 DEF Listed
  <2>2. \A k \in 1 .. NStates : k # n => Listed(z, k) = Listed(s, k)
      BY <1>12 DEF Listed
  <2>3. c.reqs \in Seq(Nat)
      BY <1>6, BlockIs
  <2>4. QED
      BY <1>6, <1>8, <2>1, <2>2, <2>3 DEF TakenFrom
<1>14. /\ Waits(w.m, z, w.io, tb) /\ Valid(w.m, a) /\ a \in Nat /\ a \notin DOMAIN tb /\ \A o \in Accepts(w.io) : o.acc # a
       /\ \A k \in 1 .. NStates : \A i \in DOMAIN Listed(z, k) : Listed(z, k)[i] # a
  <2>1. Waits(w.m, s, w.io, tb)
      BY <1>1, <1>3
  <2>2. QED
      BY <1>13, <2>1, ListTaken
<1>15. IsWorld(v)
    BY <1>2, <1>10, <1>12, Zenon DEF IsWorld, WorldTypes, BlockTables
<1>16. Good(v, tb)
    BY <1>1, <1>10, <1>12, <1>14, <1>15, Zenon DEF Good
<1>17. Free(v, tb, a)
    BY <1>10, <1>14, Zenon DEF Free
<1>18. FreeStates(v) = FreeStates(w)
    BY <1>3, <1>5, <1>6, <1>8, <1>10, <1>12, FreeSame
<1>19. QED
    BY <1>10, <1>14, <1>16, <1>17, <1>18

LEMMA WSIOCP_AcceptTypes ==
    ASSUME IInv, WSIOCP_Accept
    PROVE  IInv'
<1>1. PICK r \in DOMAIN table :
        /\ InLoop(r) /\ RoomToAccept
        /\ StateAt(r) # 0 /\ st[StateAt(r)].reqs # <<>>
        /\ LET acc == Head(st[StateAt(r)].reqs)
               obj == sock[lookupSocket(m, acc)]
               w == [World EXCEPT !.st[StateAt(r)].reqs = Tail(@)]
               bad == [w EXCEPT !.lost = @ \cup {obj}]
               attached == WSIOCP_SocketAttach(w, acc)
           IN  \/ Become(bad) /\ UNCHANGED table
               \/ \E a \in {attached, w} : \E x \in WSIOCP_QueueAccept(a, r) :
                     IF x[2] THEN Become(x[1]) /\ table' = Put(table, acc, obj)
                             ELSE Become([x[1] EXCEPT !.lost = @ \cup {obj}]) /\ UNCHANGED table
    BY Zenon DEF WSIOCP_Accept
<1>2. th' = th
    BY DEF WSIOCP_Accept
<1>3. PICK n : n = StateAt(r)
    BY Zenon
<1>4. PICK acc : acc = Head(st[n].reqs)
    BY Zenon
<1>5. PICK obj : obj = sock[lookupSocket(m, acc)]
    BY Zenon
<1>6. PICK w : w = Takes(World, n)
    BY Zenon
<1>7. PICK attached : attached = WSIOCP_SocketAttach(w, acc)
    BY Zenon
<1>8. \/ Become([w EXCEPT !.lost = @ \cup {obj}]) /\ UNCHANGED table
      \/ \E a \in {attached, w} : \E x \in WSIOCP_QueueAccept(a, r) :
            IF x[2] THEN Become(x[1]) /\ table' = Put(table, acc, obj)
                    ELSE Become([x[1] EXCEPT !.lost = @ \cup {obj}]) /\ UNCHANGED table
    BY <1>1, <1>3, <1>4, <1>5, <1>6, <1>7, Zenon DEF Takes
<1>9. Good(World, table) /\ Valid(World.m, r) /\ FreeStates(World) # {} /\ n = State(World.m, r) /\ n # 0
    BY <1>1, <1>3, LoopUses
<1>10. n \in 1 .. NStates /\ World.st[n] \in Blocks
    BY <1>9, GoodOwns
<1>11. World.st = st /\ World.m = m /\ World.sock = sock
    BY WorldIs
<1>12. /\ Good(w, table) /\ Valid(w.m, acc) /\ Free(w, table, acc) /\ acc \in Nat
       /\ w.m = World.m /\ w.sock = World.sock /\ w.io = World.io /\ FreeStates(w) = FreeStates(World)
  <2>1. World.st[n].reqs # <<>> /\ acc = Head(World.st[n].reqs)
      BY <1>1, <1>3, <1>4, <1>11
  <2>2. QED
      BY <1>6, <1>9, <1>10, <2>1, TakesGood
<1>13. obj = w.sock[Socket(w.m, acc)]
    BY <1>5, <1>11, <1>12 DEF lookupSocket, Socket, Valid
<1>14. CASE Become([w EXCEPT !.lost = @ \cup {obj}]) /\ UNCHANGED table
  <2>1. PICK v : v = [w EXCEPT !.lost = w.lost \cup {obj}]
      BY Zenon
  <2>2. PICK L : L = w.lost \cup {obj}
      BY Zenon
  <2>3. v = [w EXCEPT !.lost = L]
      BY <2>1, <2>2
  <2>4. Good(v, table)
      BY <1>12, <2>3, LostGood
  <2>5. Become(v)
      BY <1>14, <2>1
  <2>6. QED
      BY <1>2, <1>14, <2>4, <2>5, GoodBecomes
<1>15. ASSUME NEW a \in {attached, w}, NEW x \in WSIOCP_QueueAccept(a, r),
              IF x[2] THEN Become(x[1]) /\ table' = Put(table, acc, obj)
                      ELSE Become([x[1] EXCEPT !.lost = @ \cup {obj}]) /\ UNCHANGED table
       PROVE  IInv'
  <2>1. Good(attached, table) /\ Joined(w, attached)
      BY <1>7, <1>12, AttachGood
  <2>2. Joined(w, w)
      BY DEF Joined
  <2>3. Good(a, table) /\ Joined(w, a)
      BY <1>12, <1>15, <2>1, <2>2
  <2>4. a.m = w.m /\ a.sock = w.sock /\ a.io = w.io /\ FreeStates(a) = FreeStates(w) /\ \A k \in 1 .. NStates : Listed(a.st, k) = Listed(w.st, k)
      BY <2>3, Zenon DEF Joined
  <2>5. Valid(a.m, r) /\ State(a.m, r) # 0 /\ FreeStates(a) # {} /\ Valid(a.m, acc) /\ obj = a.sock[Socket(a.m, acc)]
      BY <1>9, <1>12, <1>13, <2>4
  <2>6. PICK u : u = x[1]
      BY Zenon
  <2>7. Good(u, table) /\ Follows(a, u)
      BY <1>15, <2>3, <2>5, <2>6, QueueAcceptGood
  <2>8. CASE Become(u) /\ table' = Put(table, acc, obj)
    <3>1. Free(a, table, acc)
      <4>1. Free(w, table, acc) /\ a.io = w.io /\ \A k \in 1 .. NStates : Listed(a.st, k) = Listed(w.st, k)
          BY <1>12, <2>4
      <4>2. QED
          BY <4>1, FreeFollows
    <3>2. Valid(u.m, acc) /\ obj = u.sock[Socket(u.m, acc)]
        BY <2>5, <2>7 DEF Follows
    <3>3. \A o \in Accepts(u.io) : o.acc # acc
        BY <2>5, <2>7, <3>1 DEF Follows, Free
    <3>4. \A k \in 1 .. NStates : \A i \in DOMAIN Listed(u.st, k) : Listed(u.st, k)[i] # acc
      <4>1. \A k \in 1 .. NStates : \A i \in DOMAIN Listed(a.st, k) : Listed(a.st, k)[i] # acc
          BY <3>1, Zenon DEF Free
      <4>2. DOMAIN <<>> = {}
          OBVIOUS
      <4>3. \A k \in 1 .. NStates : Listed(u.st, k) = Listed(a.st, k) \/ Listed(u.st, k) = <<>>
          BY <2>7, Zenon DEF Follows
      <4>4. QED
          BY <4>1, <4>2, <4>3
    <3>5. PICK tl : tl = Put(table, acc, obj)
        BY Zenon
    <3>6. Tables(u.m, u.sock, crt, tl) /\ Calling(u.m, tl, th) /\ Waits(u.m, u.st, u.io, tl)
      <4>1. Tables(u.m, u.sock, crt, table) /\ Calling(u.m, table, th) /\ Waits(u.m, u.st, u.io, table)
          BY <2>7, Zenon DEF Good
      <4>2. QED
          BY <3>2, <3>3, <3>4, <3>5, <4>1, HandedOut, Zenon
    <3>7. Good(u, tl)
        BY <2>7, <3>6, Zenon DEF Good
    <3>8. table' = tl
        BY <2>8, <3>5
    <3>9. QED
        BY <1>2, <2>8, <3>7, <3>8, GoodBecomes
  <2>9. CASE Become([u EXCEPT !.lost = @ \cup {obj}]) /\ UNCHANGED table
    <3>1. PICK v : v = [u EXCEPT !.lost = u.lost \cup {obj}]
        BY Zenon
    <3>2. PICK L : L = u.lost \cup {obj}
        BY Zenon
    <3>3. v = [u EXCEPT !.lost = L]
        BY <3>1, <3>2
    <3>4. Good(v, table)
        BY <2>7, <3>3, LostGood
    <3>5. Become(v)
        BY <2>9, <3>1
    <3>6. QED
        BY <1>2, <2>9, <3>4, <3>5, GoodBecomes
  <2>10. QED
      BY <1>15, <2>6, <2>8, <2>9, Zenon
<1>16. QED
    BY <1>8, <1>14, <1>15, Zenon

-----------------------------------------------------------------------------
(* A completion. *)
LEMMA SettledBlock ==
    ASSUME NEW s \in Blocks, NEW o, NEW b, b = Settled(s, o)
    PROVE  SameBut(b, s) /\ b.masks \subseteq s.masks
<1>1. CASE o.kind = "send"
  <2>1. b = [s EXCEPT !.wreqs = @ - 1]
      BY <1>1 DEF Settled
  <2>2. QED
      BY <2>1 DEF Blocks, SameBut
<1>2. CASE o.kind # "send"
  <2>1. PICK d : d = s.masks \ {IF "CONNECT_PENDING" \in s.masks THEN "CONNECT_PENDING" ELSE "READ_QUEUED"}
      BY Zenon
  <2>2. b = [s EXCEPT !.masks = d]
      BY <1>2, <2>1 DEF Settled
  <2>3. d \subseteq s.masks
      BY <2>1
  <2>4. QED
      BY <2>2, <2>3 DEF Blocks, SameBut
<1>3. QED
    BY <1>1, <1>2

LEMMA QueuedBlock ==
    ASSUME NEW c \in Blocks, NEW a \in Nat, NEW b, b = Queued(c, a)
    PROVE  b \in Blocks /\ b.fd = c.fd /\ b.masks \subseteq c.masks /\ b.reqs = <<a>> \o c.reqs /\ b.wreqs = c.wreqs
<1>1. c.fd \in Nat /\ c.masks \subseteq Masks /\ c.reqs \in Seq(Nat) /\ c.wreqs \in Int
      /\ c = [fd |-> c.fd, masks |-> c.masks, reqs |-> c.reqs, wreqs |-> c.wreqs]
    BY BlockIs
<1>2. PICK s : s = <<a>> \o c.reqs
    BY Zenon
<1>3. s \in Seq(Nat)
    BY <1>1, <1>2
<1>4. PICK d : d = c.masks \ {"ACCEPT_PENDING"}
    BY Zenon
<1>5. d \in SUBSET Masks /\ d \subseteq c.masks
    BY <1>1, <1>4
<1>6. b = [fd |-> c.fd, masks |-> d, reqs |-> s, wreqs |-> c.wreqs]
    BY <1>1, <1>2, <1>4 DEF Queued
<1>7. b \in Blocks
  <2>1. [fd |-> c.fd, masks |-> d, reqs |-> s, wreqs |-> c.wreqs] \in Blocks
      BY <1>1, <1>3, <1>5, BlockMade, Zenon
  <2>2. QED
      BY <1>6, <2>1, Zenon
<1>8. QED
    BY <1>2, <1>5, <1>6, <1>7

LEMMA Prepended ==
    ASSUME NEW l \in Seq(Nat), NEW a \in Nat, NEW k, k = <<a>> \o l, NEW len, len = Len(l)
    PROVE  /\ len \in Nat /\ DOMAIN l = 1 .. len /\ DOMAIN k = 1 .. len + 1 /\ k[1] = a
           /\ \A i \in 2 .. len + 1 : i - 1 \in 1 .. len /\ k[i] = l[i - 1]
  OBVIOUS

(* An accepted descriptor joins the list of block n when its operation completes. *)
AddedTo(s, z, n, a) ==
  /\ \A k \in 1 .. NStates : k # n => Listed(z, k) = Listed(s, k)
  /\ Listed(s, n) \in Seq(Nat) /\ a \in Nat /\ Listed(z, n) = <<a>> \o Listed(s, n)

LEMMA ListGrown ==
    ASSUME NEW M, NEW s, NEW z, NEW q, NEW tb, Waits(M, s, q, tb), NEW n \in 1 .. NStates, NEW o \in Accepts(q), AddedTo(s, z, n, o.acc)
    PROVE  Waits(M, z, q \ {o}, tb)
<1>1. PICK a \in Nat : a = o.acc
    BY DEF AddedTo
<1>2. PICK l \in Seq(Nat) : l = Listed(s, n)
    BY DEF AddedTo
<1>3. PICK len \in Nat : len = Len(l)
    BY <1>2
<1>4. /\ DOMAIN l = 1 .. len /\ DOMAIN Listed(z, n) = 1 .. len + 1 /\ Listed(z, n)[1] = a
      /\ \A i \in 2 .. len + 1 : i - 1 \in 1 .. len /\ Listed(z, n)[i] = l[i - 1]
  <2>1. PICK k : k = <<a>> \o l
      BY Zenon
  <2>2. Listed(z, n) = k
      BY <1>1, <1>2, <2>1, Zenon DEF AddedTo
  <2>3. /\ DOMAIN l = 1 .. len /\ DOMAIN k = 1 .. len + 1 /\ k[1] = a
        /\ \A i \in 2 .. len + 1 : i - 1 \in 1 .. len /\ k[i] = l[i - 1]
      BY <1>3, <2>1, Prepended
  <2>4. QED
      BY <2>2, <2>3, Zenon
<1> DEFINE P(k, i) == IF k = n THEN i - 1 ELSE i
           New(k, i) == k = n /\ i = 1
<1>5. \A k \in 1 .. NStates : \A i \in DOMAIN Listed(z, k) :
         ~New(k, i) => P(k, i) \in DOMAIN Listed(s, k) /\ Listed(z, k)[i] = Listed(s, k)[P(k, i)]
  <2>1. ASSUME NEW k \in 1 .. NStates, NEW i \in DOMAIN Listed(z, k), ~New(k, i)
        PROVE  P(k, i) \in DOMAIN Listed(s, k) /\ Listed(z, k)[i] = Listed(s, k)[P(k, i)]
    <3>1. CASE k = n
      <4>1. i \in 2 .. len + 1
          BY <1>4, <2>1, <3>1
      <4>2. QED
          BY <1>2, <1>4, <3>1, <4>1
    <3>2. CASE k # n
        BY <2>1, <3>2, Zenon DEF AddedTo
    <3>3. QED
        BY <3>1, <3>2
  <2>2. QED
      BY <2>1, Zenon
<1>6. \A k \in 1 .. NStates : \A i, j \in DOMAIN Listed(z, k) : P(k, i) = P(k, j) => i = j
  <2>1. \A i, j \in 1 .. len + 1 : i - 1 = j - 1 => i = j
      OBVIOUS
  <2>2. QED
      BY <1>4, <2>1
<1>7. \A k \in 1 .. NStates : \A i \in DOMAIN Listed(z, k) : New(k, i) => Listed(z, k)[i] = a
    BY <1>4
<1>8. \A k, e : \A i, j : New(k, i) /\ New(e, j) => k = e /\ i = j
    OBVIOUS
<1> HIDE DEF P, New
<1>9. PICK r : r = q \ {o}
    BY Zenon
<1>10. \A x \in Accepts(r) : x \in Accepts(q) /\ x.acc # a
  <2>1. \A x \in Accepts(r) : x \in Accepts(q) /\ x # o
      BY <1>9 DEF Accepts
  <2>2. \A x, y \in Accepts(q) : x.acc = y.acc => x = y
      BY Zenon DEF Waits
  <2>3. QED
      BY <1>1, <2>1, <2>2
<1>11. Valid(M, a) /\ a \notin DOMAIN tb
    BY <1>1, Zenon DEF Waits
<1>12. /\ \A x \in Accepts(r) : Valid(M, x.acc) /\ x.acc \notin DOMAIN tb
       /\ \A x, y \in Accepts(r) : x.acc = y.acc => x = y
    BY <1>10, Zenon DEF Waits
<1>13. \A k \in 1 .. NStates : \A i \in DOMAIN Listed(s, k) :
          /\ Valid(M, Listed(s, k)[i]) /\ Listed(s, k)[i] \notin DOMAIN tb /\ Listed(s, k)[i] # a
          /\ \A x \in Accepts(r) : x.acc # Listed(s, k)[i]
  <2>1. ASSUME NEW k \in 1 .. NStates, NEW i \in DOMAIN Listed(s, k)
        PROVE  /\ Valid(M, Listed(s, k)[i]) /\ Listed(s, k)[i] \notin DOMAIN tb
               /\ \A x \in Accepts(q) : x.acc # Listed(s, k)[i]
      BY <2>1, Zenon DEF Waits
  <2>2. QED
      BY <1>1, <1>10, <2>1, Zenon
<1>14. \A k \in 1 .. NStates : \A i \in DOMAIN Listed(s, k) : \A e \in 1 .. NStates : \A j \in DOMAIN Listed(s, e) :
          Listed(s, e)[j] = Listed(s, k)[i] => k = e /\ i = j
    BY Zenon DEF Waits
<1>15. ASSUME NEW k \in 1 .. NStates, NEW i \in DOMAIN Listed(z, k)
       PROVE  /\ Valid(M, Listed(z, k)[i]) /\ Listed(z, k)[i] \notin DOMAIN tb
              /\ \A x \in Accepts(r) : x.acc # Listed(z, k)[i]
  <2>1. CASE New(k, i)
    <3>1. Listed(z, k)[i] = a
        BY <1>7, <1>15, <2>1, Zenon
    <3>2. QED
        BY <1>10, <1>11, <3>1
  <2>2. CASE ~New(k, i)
    <3>1. P(k, i) \in DOMAIN Listed(s, k) /\ Listed(z, k)[i] = Listed(s, k)[P(k, i)]
        BY <1>5, <1>15, <2>2, Zenon
    <3>2. QED
        BY <1>13, <3>1
  <2>3. QED
      BY <2>1, <2>2
<1>16. ASSUME NEW k \in 1 .. NStates, NEW i \in DOMAIN Listed(z, k), NEW e \in 1 .. NStates, NEW j \in DOMAIN Listed(z, e),
              Listed(z, e)[j] = Listed(z, k)[i]
       PROVE  k = e /\ i = j
  <2>1. CASE New(k, i) /\ New(e, j)
      BY <1>8, <2>1, Zenon
  <2>2. CASE ~New(k, i) /\ ~New(e, j)
    <3>1. P(k, i) \in DOMAIN Listed(s, k) /\ P(e, j) \in DOMAIN Listed(s, e) /\ Listed(s, e)[P(e, j)] = Listed(s, k)[P(k, i)]
        BY <1>5, <1>16, <2>2, Zenon
    <3>2. k = e /\ P(k, i) = P(e, j)
        BY <1>14, <3>1, Zenon
    <3>3. QED
        BY <1>6, <1>16, <3>2, Zenon
  <2>3. CASE New(k, i) /\ ~New(e, j)
    <3>1. Listed(z, k)[i] = a /\ P(e, j) \in DOMAIN Listed(s, e) /\ Listed(z, e)[j] = Listed(s, e)[P(e, j)]
        BY <1>5, <1>7, <1>16, <2>3, Zenon
    <3>2. QED
        BY <1>13, <1>16, <3>1, Zenon
  <2>4. CASE ~New(k, i) /\ New(e, j)
    <3>1. Listed(z, e)[j] = a /\ P(k, i) \in DOMAIN Listed(s, k) /\ Listed(z, k)[i] = Listed(s, k)[P(k, i)]
        BY <1>5, <1>7, <1>16, <2>4, Zenon
    <3>2. QED
        BY <1>13, <1>16, <3>1, Zenon
  <2>5. QED
      BY <2>1, <2>2, <2>3, <2>4
<1>17. QED
    BY <1>9, <1>12, <1>15, <1>16, Zenon DEF Waits

LEMMA FewerOperations ==
    ASSUME NEW M, NEW s, NEW q, NEW r, NEW tb, Waits(M, s, q, tb), r \subseteq q
    PROVE  Waits(M, s, r, tb)
<1>1. \A x \in Accepts(r) : x \in Accepts(q)
    BY DEF Accepts
<1>2. /\ \A x \in Accepts(r) : Valid(M, x.acc) /\ x.acc \notin DOMAIN tb
      /\ \A x, y \in Accepts(r) : x.acc = y.acc => x = y
    BY <1>1, Zenon DEF Waits
<1>3. ASSUME NEW n \in 1 .. NStates, NEW i \in DOMAIN Listed(s, n)
      PROVE  /\ Valid(M, Listed(s, n)[i]) /\ Listed(s, n)[i] \notin DOMAIN tb
             /\ \A o \in Accepts(r) : o.acc # Listed(s, n)[i]
             /\ \A k \in 1 .. NStates : \A j \in DOMAIN Listed(s, k) : Listed(s, k)[j] = Listed(s, n)[i] => n = k /\ i = j
    BY <1>1, <1>3, Zenon DEF Waits
<1>4. QED
    BY <1>2, <1>3, Zenon DEF Waits

LEMMA CompleteTypes ==
    ASSUME IInv, NEW o, Complete(o)
    PROVE  IInv'
<1>1. PICK r : r = o.key
    BY Zenon
<1>2. PICK n : n = StateAt(r)
    BY Zenon
<1>3. PICK s : s = st[n]
    BY Zenon
<1>4. PICK after : after = Settled(s, o)
    BY Zenon
<1>5. /\ th[Loop].pc = "idle" /\ o \in io /\ io' = io \ {o}
      /\ IF n = 0 THEN lost' = lost \cup Orphaned(o) /\ UNCHANGED <<m, st>>
         ELSE IF o.kind = "accept" /\ "LISTEN_SOCK" \in s.masks /\ "CLOSE_PENDING" \notin s.masks
         THEN /\ st' = [st EXCEPT ![n] = Queued(s, o.acc)]
              /\ UNCHANGED <<m, lost>>
         ELSE IF (o.kind # "accept" /\ o.st = n) /\ "CLOSE_PENDING" \in s.masks /\ Closable(after)
         THEN /\ st' = WSIOCP_CloseSocketState([st EXCEPT ![n] = after], n)
              /\ m' = FDAPI_ClearSocketInfo(m, r) /\ UNCHANGED lost
         ELSE /\ st' = IF o.kind # "accept" /\ o.st = n THEN [st EXCEPT ![n] = after] ELSE st
              /\ lost' = lost \cup Orphaned(o) /\ UNCHANGED m
      /\ UNCHANGED <<sock, crt, streams, port, th, table, sockets, files>>
    BY <1>1, <1>2, <1>3, <1>4, Zenon DEF Complete, At
<1>6. /\ Types /\ MapGood(m) /\ Opened(m, sock) /\ CrtTables(m, crt) /\ HandlesHeld(m, sock, th)
      /\ CrtHeld(m, crt, streams, th) /\ Closings(m, th) /\ Calling(m, table, th)
      /\ StatesOwned(m, st) /\ Waits(m, st, io, table) /\ Tables(m, sock, crt, table)
    BY Zenon DEF IInv
<1>7. /\ sock' = sock /\ crt' = crt /\ streams' = streams /\ port' = port /\ files' = files /\ sockets' = sockets
      /\ table' = table /\ th' = th
    BY <1>5
<1>8. WorldTypes(sock, port, st, io, sockets) /\ st \in BlockTables /\ io \subseteq Operations /\ IsFiniteSet(io)
    BY <1>6, Zenon DEF Types, WorldTypes, BlockTables
<1>9. PICK G : G = m'
    BY Zenon
<1>10. PICK z : z = st'
    BY Zenon
<1>11. PICK q : q = io \ {o}
    BY Zenon
<1>12. q \subseteq io /\ q \subseteq Operations /\ IsFiniteSet(q) /\ io' = q
    BY <1>5, <1>8, <1>11, FS_Subset
<1>13. ASSUME MapGood(G), Opened(G, sock), CrtTables(G, crt), HandlesHeld(G, sock, th), CrtHeld(G, crt, streams, th), Closings(G, th),
              Calling(G, table, th), StatesOwned(G, z), Waits(G, z, q, table), Tables(G, sock, crt, table), z \in BlockTables
       PROVE  IInv'
  <2>1. WorldTypes(sock, port, z, q, sockets)
      BY <1>8, <1>12, <1>13, Zenon DEF WorldTypes, BlockTables
  <2>2. Types'
      BY <1>6, <1>7, <1>10, <1>12, <2>1, Zenon DEF Types
  <2>3. QED
      BY <1>7, <1>9, <1>10, <1>12, <1>13, <2>2, Zenon DEF IInv
<1>14. ASSUME G = m, StatesOwned(m, z), Waits(m, z, q, table), z \in BlockTables PROVE IInv'
    BY <1>6, <1>13, <1>14, Zenon
<1>15. Waits(m, st, q, table)
    BY <1>6, <1>12, FewerOperations, Zenon
<1>16. CASE n = 0
  <2>1. G = m /\ z = st
      BY <1>5, <1>9, <1>10, <1>16
  <2>2. QED
      BY <1>6, <1>8, <1>14, <1>15, <2>1, Zenon
<1>17. ASSUME n # 0
       PROVE  /\ n \in 1 .. NStates /\ r \in DOMAIN m.RFDToSocketInfo /\ n = State(m, r) /\ s \in Blocks /\ s # NoState
              /\ "CLOSE_PENDING" \in s.masks => Socket(m, r) = INVALID_SOCKET
  <2>1. r \in DOMAIN m.RFDToSocketInfo /\ n = State(m, r)
      BY <1>2, <1>17 DEF StateAt, State
  <2>2. n \in 1 .. NStates
      BY <1>6, <1>17, <2>1, StateIs
  <2>3. s \in Blocks /\ ("CLOSE_PENDING" \in s.masks => Socket(m, r) = INVALID_SOCKET)
      BY <1>3, <1>6, <1>17, <2>1 DEF StatesOwned
  <2>4. s # NoState
      BY <2>3, BlockIs
  <2>5. QED
      BY <2>1, <2>2, <2>3, <2>4
<1>18. CASE n # 0 /\ o.kind = "accept" /\ "LISTEN_SOCK" \in s.masks /\ "CLOSE_PENDING" \notin s.masks
  <2>1. G = m /\ z = [st EXCEPT ![n] = Queued(s, o.acc)]
      BY <1>5, <1>9, <1>10, <1>18
  <2>2. o \in Accepts(io)
      BY <1>5, <1>18 DEF Accepts
  <2>3. o.acc \in Nat
    <3>1. Valid(m, o.acc)
        BY <1>6, <2>2, Zenon DEF Waits
    <3>2. QED
        BY <1>6, <3>1, StateIs DEF Valid
  <2>4. PICK b : b = Queued(s, o.acc)
      BY Zenon
  <2>5. n \in 1 .. NStates /\ s \in Blocks /\ s # NoState
      BY <1>17, <1>18
  <2>6. b \in Blocks /\ b.fd = s.fd /\ b.masks \subseteq s.masks /\ b.reqs = <<o.acc>> \o s.reqs
      BY <2>3, <2>4, <2>5, QueuedBlock
  <2>7. StatesOwned(m, z) /\ z \in BlockTables /\ Replaces(st, z, n, b)
    <3>1. st[n] # NoState /\ b.fd = st[n].fd /\ ("CLOSE_PENDING" \in b.masks => "CLOSE_PENDING" \in st[n].masks)
        BY <1>3, <2>5, <2>6
    <3>2. z = [st EXCEPT ![n] = b]
        BY <2>1, <2>4
    <3>3. QED
        BY <1>6, <1>8, <2>5, <2>6, <3>1, <3>2, BlockSet, Zenon
  <2>8. AddedTo(st, z, n, o.acc)
    <3>1. b # NoState
        BY <2>6, BlockIs
    <3>2. z[n] = b /\ \A k \in 1 .. NStates : k # n => z[k] = st[k]
        BY <2>7, Zenon DEF Replaces
    <3>3. Listed(st, n) = s.reqs /\ Listed(z, n) = b.reqs
        BY <1>3, <2>5, <3>1, <3>2 DEF Listed
    <3>4. \A k \in 1 .. NStates : k # n => Listed(z, k) = Listed(st, k)
        BY <3>2 DEF Listed
    <3>5. s.reqs \in Seq(Nat)
        BY <2>5, BlockIs
    <3>6. QED
        BY <2>3, <2>6, <3>3, <3>4, <3>5 DEF AddedTo
  <2>9. Waits(m, z, q, table)
      BY <1>6, <1>11, <2>2, <2>5, <2>8, ListGrown, Zenon
  <2>10. QED
      BY <1>14, <2>1, <2>7, <2>9, Zenon
<1>19. CASE n # 0 /\ (o.kind # "accept" /\ o.st = n) /\ "CLOSE_PENDING" \in s.masks /\ Closable(after)
  <2>1. z = WSIOCP_CloseSocketState([st EXCEPT ![n] = after], n) /\ G = FDAPI_ClearSocketInfo(m, r)
      BY <1>5, <1>9, <1>10, <1>19, Zenon
  <2>2. n \in 1 .. NStates /\ r \in DOMAIN m.RFDToSocketInfo /\ n = State(m, r) /\ Socket(m, r) = INVALID_SOCKET
      BY <1>17, <1>19
  <2>3. z = [st EXCEPT ![n] = NoState]
    <3>1. PICK y : y = [st EXCEPT ![n] = after]
        BY Zenon
    <3>2. y[n] = after
        BY <1>8, <2>2, <3>1 DEF BlockTables
    <3>3. z = [y EXCEPT ![n] = NoState]
        BY <1>19, <2>1, <3>1, <3>2 DEF WSIOCP_CloseSocketState
    <3>4. QED
        BY <3>1, <3>3
  <2>4. G = removeRFDToSocketInfo(m, r)
      BY <2>1, <2>2 DEF FDAPI_ClearSocketInfo, Socket
  <2>5. MapGood(G) /\ SameCrts(m, G) /\ LosesInfo(m, G, r)
      BY <1>6, <2>2, <2>4, InfoRemoved
  <2>6. StatesOwned(G, z) /\ z \in BlockTables
      BY <1>6, <1>8, <2>2, <2>3, <2>5, FreedParts
  <2>7. \A t \in Threads : th[t].pc = "closeState" => th[t].rfd # r
    <3>1. \A t \in Threads : th[t].pc = "closeState" /\ t # Loop => State(m, th[t].rfd) = 0
        BY <1>6, Zenon DEF Closings
    <3>2. QED
        BY <1>5, <1>19, <2>2, <3>1
  <2>8. Opened(G, sock) /\ HandlesHeld(G, sock, th) /\ Closings(G, th)
    <3>1. /\ Opened(m, sock) => Opened(G, sock)
          /\ HandlesHeld(m, sock, th) => HandlesHeld(G, sock, th)
          /\ Closings(m, th) /\ (\A t \in Threads : th[t].pc = "closeState" => th[t].rfd # r) => Closings(G, th)
        BY <2>5, RemovedParts
    <3>2. QED
        BY <1>6, <2>7, <3>1, Zenon
  <2>9. CrtTables(G, crt) /\ CrtHeld(G, crt, streams, th)
      BY <1>6, <2>5, SameCrtParts, Zenon
  <2>10. KeepAll(m, G)
    <3>1. r \notin DOMAIN m.RFDToCrtFD
        BY <1>6, <2>2 DEF MapGood, Disjoint
    <3>2. ~Valid(m, r)
        BY <2>2 DEF Valid
    <3>3. QED
        BY <2>5, <3>1, <3>2, LosesKeeps DEF KeepAll, KeepBut, Keep
  <2>11. Tables(G, sock, crt, table) /\ Calling(G, table, th) /\ Waits(G, st, q, table)
      BY <1>6, <1>15, <2>10, AllKept, Zenon
  <2>12. Waits(G, z, q, table)
    <3>1. \A k \in 1 .. NStates : Listed(z, k) = Listed(st, k) \/ Listed(z, k) = <<>>
        BY <1>8, <2>2, <2>3 DEF Listed, BlockTables
    <3>2. QED
        BY <2>11, <3>1, FewerListed, Zenon
  <2>13. QED
      BY <1>13, <2>5, <2>6, <2>8, <2>9, <2>11, <2>12, Zenon
<1>20. CASE /\ n # 0 /\ ~(o.kind = "accept" /\ "LISTEN_SOCK" \in s.masks /\ "CLOSE_PENDING" \notin s.masks)
            /\ ~((o.kind # "accept" /\ o.st = n) /\ "CLOSE_PENDING" \in s.masks /\ Closable(after))
  <2>1. G = m /\ z = IF o.kind # "accept" /\ o.st = n THEN [st EXCEPT ![n] = after] ELSE st
      BY <1>5, <1>9, <1>10, <1>20, Zenon
  <2>2. CASE z = st
      BY <1>6, <1>8, <1>14, <1>15, <2>1, <2>2, Zenon
  <2>3. CASE z = [st EXCEPT ![n] = after]
    <3>1. n \in 1 .. NStates /\ s \in Blocks /\ s # NoState
        BY <1>17, <1>20
    <3>2. SameBut(after, s) /\ after.masks \subseteq s.masks
        BY <1>4, <3>1, SettledBlock
    <3>3. after \in Blocks /\ after.fd = s.fd /\ after.reqs = s.reqs
        BY <3>2 DEF SameBut
    <3>4. StatesOwned(m, z) /\ z \in BlockTables /\ Replaces(st, z, n, after)
      <4>1. st[n] # NoState /\ after.fd = st[n].fd /\ ("CLOSE_PENDING" \in after.masks => "CLOSE_PENDING" \in st[n].masks)
          BY <1>3, <3>1, <3>2, <3>3
      <4>2. QED
          BY <1>6, <1>8, <2>3, <3>1, <3>3, <4>1, BlockSet, Zenon
    <3>5. \A k \in 1 .. NStates : Listed(z, k) = Listed(st, k) \/ Listed(z, k) = <<>>
      <4>1. after # NoState
          BY <3>3, BlockIs
      <4>2. QED
          BY <1>3, <3>1, <3>3, <3>4, <4>1 DEF Listed, Replaces
    <3>6. Waits(m, z, q, table)
        BY <1>15, <3>5, FewerListed, Zenon
    <3>7. QED
        BY <1>14, <2>1, <3>4, <3>6, Zenon
  <2>4. QED
      BY <2>1, <2>2, <2>3, Zenon
<1>21. QED
    BY <1>16, <1>18, <1>19, <1>20, Zenon

-----------------------------------------------------------------------------
(* The start: the three standard descriptors are in the tables. *)
LEMMA StandardAdded ==
    ASSUME NEW M, IsMap(M), M.pool = <<>>, NEW r \in Nat, M.next = r, r < INT_MAX, NEW c, c \notin DOMAIN M.CrtFDToRFD
    PROVE  LET G == addCrtFD(M, c) IN
           /\ IsMap(G) /\ G.pool = <<>> /\ G.next = r + 1
           /\ G.SocketToRFD = M.SocketToRFD /\ G.RFDToSocketInfo = M.RFDToSocketInfo
           /\ G.CrtFDToRFD = Put(M.CrtFDToRFD, c, r) /\ G.RFDToCrtFD = Put(M.RFDToCrtFD, r, c)
<1>1. NextRFD(M) = r /\ r # INVALID_FD
    BY DEF NextRFD, INVALID_FD
<1>2. PICK F : F = getNextRFDAvailable(M)
    BY Zenon
<1>3. F = [M EXCEPT !.next = @ + 1]
    BY <1>2, RfdAssumption DEF getNextRFDAvailable
<1>4. addCrtFD(M, c) = [F EXCEPT !.CrtFDToRFD = Put(@, c, r), !.RFDToCrtFD = Put(@, r, c)]
    BY <1>1, <1>2 DEF addCrtFD
<1>5. PICK C : C = Put(M.CrtFDToRFD, c, r)
    BY Zenon
<1>6. PICK R : R = Put(M.RFDToCrtFD, r, c)
    BY Zenon
<1>7. QED
    BY <1>3, <1>4, <1>5, <1>6 DEF IsMap

LEMMA RFDMapInitIs ==
    ASSUME NEW M, M = RFDMapInit
    PROVE  /\ IsMap(M) /\ M.pool = <<>> /\ M.next = 6 /\ DOMAIN M.RFDToSocketInfo = {} /\ DOMAIN M.SocketToRFD = {}
           /\ DOMAIN M.CrtFDToRFD = {0, 1, 2} /\ DOMAIN M.RFDToCrtFD = {3, 4, 5}
           /\ M.CrtFDToRFD[0] = 3 /\ M.CrtFDToRFD[1] = 4 /\ M.CrtFDToRFD[2] = 5
           /\ M.RFDToCrtFD[3] = 0 /\ M.RFDToCrtFD[4] = 1 /\ M.RFDToCrtFD[5] = 2
<1>1. PICK E : E = [SocketToRFD |-> EmptyMap, CrtFDToRFD |-> EmptyMap, RFDToSocketInfo |-> EmptyMap,
                    RFDToCrtFD |-> EmptyMap, pool |-> <<>>, next |-> 3]
    BY Zenon
<1>2. PICK A : A = addCrtFD(E, 0)
    BY Zenon
<1>3. PICK B : B = addCrtFD(A, 1)
    BY Zenon
<1>4. E = [SocketToRFD |-> EmptyMap, CrtFDToRFD |-> EmptyMap, RFDToSocketInfo |-> EmptyMap,
           RFDToCrtFD |-> EmptyMap, pool |-> <<>>, next |-> LAST_RESERVED_RFD_INDEX + 1]
    BY <1>1 DEF LAST_RESERVED_RFD_INDEX
<1>5. M = addCrtFD(B, 2)
    BY <1>2, <1>3, <1>4, Zenon DEF RFDMapInit
<1>6. /\ IsMap(E) /\ E.pool = <<>> /\ E.next = 3 /\ E.SocketToRFD = EmptyMap /\ E.RFDToSocketInfo = EmptyMap
      /\ E.CrtFDToRFD = EmptyMap /\ E.RFDToCrtFD = EmptyMap
    BY <1>1 DEF IsMap
<1>7. DOMAIN EmptyMap = {}
    BY DEF EmptyMap
<1>8. 3 < INT_MAX /\ 4 < INT_MAX /\ 5 < INT_MAX
    BY RfdAssumption
<1>9. /\ IsMap(A) /\ A.pool = <<>> /\ A.next = 4 /\ A.SocketToRFD = EmptyMap /\ A.RFDToSocketInfo = EmptyMap
      /\ A.CrtFDToRFD = Put(EmptyMap, 0, 3) /\ A.RFDToCrtFD = Put(EmptyMap, 3, 0)
  <2>1. 3 \in Nat /\ 0 \notin DOMAIN E.CrtFDToRFD /\ 3 + 1 = 4
    BY <1>6, <1>7
  <2>2. QED
    BY <1>2, <1>6, <1>8, <2>1, StandardAdded
<1>10. /\ DOMAIN A.CrtFDToRFD = {0} /\ DOMAIN A.RFDToCrtFD = {3} /\ A.CrtFDToRFD[0] = 3 /\ A.RFDToCrtFD[3] = 0
    BY <1>7, <1>9 DEF Put
<1>11. /\ IsMap(B) /\ B.pool = <<>> /\ B.next = 5 /\ B.SocketToRFD = EmptyMap /\ B.RFDToSocketInfo = EmptyMap
       /\ B.CrtFDToRFD = Put(A.CrtFDToRFD, 1, 4) /\ B.RFDToCrtFD = Put(A.RFDToCrtFD, 4, 1)
  <2>1. 4 \in Nat /\ 1 \notin DOMAIN A.CrtFDToRFD /\ 4 + 1 = 5
    BY <1>10
  <2>2. QED
    BY <1>3, <1>8, <1>9, <2>1, StandardAdded
<1>12. /\ DOMAIN B.CrtFDToRFD = {0, 1} /\ DOMAIN B.RFDToCrtFD = {3, 4} /\ B.CrtFDToRFD[0] = 3 /\ B.RFDToCrtFD[3] = 0
       /\ B.CrtFDToRFD[1] = 4 /\ B.RFDToCrtFD[4] = 1

  <2>2. DOMAIN B.CrtFDToRFD = {0, 1} /\ B.CrtFDToRFD[1] = 4 /\ B.CrtFDToRFD[0] = A.CrtFDToRFD[0]
    BY <1>10, <1>11 DEF Put
  <2>4. DOMAIN B.RFDToCrtFD = {3, 4} /\ B.RFDToCrtFD[4] = 1 /\ B.RFDToCrtFD[3] = A.RFDToCrtFD[3]
    BY <1>10, <1>11 DEF Put
  <2>5. QED
    BY <1>10, <2>2, <2>4
<1>13. /\ IsMap(M) /\ M.pool = <<>> /\ M.next = 6 /\ M.SocketToRFD = EmptyMap /\ M.RFDToSocketInfo = EmptyMap
       /\ M.CrtFDToRFD = Put(B.CrtFDToRFD, 2, 5) /\ M.RFDToCrtFD = Put(B.RFDToCrtFD, 5, 2)
  <2>1. 5 \in Nat /\ 2 \notin DOMAIN B.CrtFDToRFD /\ 5 + 1 = 6
    BY <1>12
  <2>2. QED
    BY <1>5, <1>8, <1>11, <2>1, StandardAdded
<1>14. QED
  <2>1. /\ DOMAIN M.CrtFDToRFD = {0, 1, 2} /\ M.CrtFDToRFD[2] = 5
        /\ M.CrtFDToRFD[0] = B.CrtFDToRFD[0] /\ M.CrtFDToRFD[1] = B.CrtFDToRFD[1]
    BY <1>12, <1>13 DEF Put
  <2>2. /\ DOMAIN M.RFDToCrtFD = {3, 4, 5} /\ M.RFDToCrtFD[5] = 2
        /\ M.RFDToCrtFD[3] = B.RFDToCrtFD[3] /\ M.RFDToCrtFD[4] = B.RFDToCrtFD[4]
    BY <1>12, <1>13 DEF Put
  <2>3. QED
    BY <1>7, <1>12, <1>13, <2>1, <2>2

LEMMA InitTypes ==
    Init => IInv
<1> SUFFICES ASSUME Init PROVE IInv
    OBVIOUS
<1>1. /\ m = RFDMapInit /\ sock = [h \in Handles |-> 0] /\ port = [h \in Handles |-> -1]
      /\ crt = [c \in 0 .. MaxCrt |-> IF c <= 2 THEN File(c + 1) ELSE 0]
      /\ streams = {} /\ st = [n \in 1 .. NStates |-> NoState] /\ io = {}
      /\ th = [t \in Threads |-> Idle]
      /\ table = [r \in 3 .. 5 |-> File(r - 2)] /\ sockets = 0 /\ files = 3
    BY DEF Init
<1>2. /\ IsMap(m) /\ m.pool = <<>> /\ m.next = 6 /\ DOMAIN m.RFDToSocketInfo = {}
      /\ DOMAIN m.CrtFDToRFD = {0, 1, 2} /\ DOMAIN m.RFDToCrtFD = {3, 4, 5}
      /\ m.CrtFDToRFD[0] = 3 /\ m.CrtFDToRFD[1] = 4 /\ m.CrtFDToRFD[2] = 5
      /\ m.RFDToCrtFD[3] = 0 /\ m.RFDToCrtFD[4] = 1 /\ m.RFDToCrtFD[5] = 2
    BY <1>1, RFDMapInitIs, Zenon
<1>3. MaxCrt \in Nat /\ MaxCrt > 2 /\ NStates \in Nat
    BY FdAssumption
<1>4. /\ 0 \in 0 .. MaxCrt /\ 1 \in 0 .. MaxCrt /\ 2 \in 0 .. MaxCrt
      /\ crt[0] = 101 /\ crt[1] = 102 /\ crt[2] = 103
    BY <1>1, <1>3 DEF File
<1>5. \A t \in Threads : th[t] = Idle
    BY <1>1
<1>6. Idle.pc = "idle" /\ IsPlace(Idle) /\ Owned(Idle) = {} /\ ~Holding(Idle)
    BY DEF Idle, IsPlace, Places, Owned, Holding
<1>7. ThreadTypes(th)
    BY <1>1, <1>5, <1>6 DEF ThreadTypes
<1>8. WorldTypes(sock, port, st, io, sockets)
  <2>1. IsFiniteSet(io)
    BY <1>1, FS_EmptySet
  <2>2. QED
    BY <1>1, <2>1 DEF WorldTypes
<1>9. Types
    BY <1>1, <1>3, <1>7, <1>8 DEF Types, File
<1>10. MapGood(m)
  <2>1. DOMAIN m.pool = {} /\ m.pool \in Seq(Nat)
    BY <1>2
  <2>2. \A r \in DOMAIN m.RFDToCrtFD : r \in Names(m)
    BY <1>2 DEF Names
  <2>3. MapTypes(m)
    BY <1>2, <2>1, <2>2 DEF MapTypes
  <2>4. Disjoint(m)
    BY <1>2, <2>1 DEF Disjoint
  <2>5. QED
    BY <2>3, <2>4 DEF MapGood
<1>11. Opened(m, sock)
    BY <1>2 DEF Opened
<1>12. CrtTables(m, crt)
  <2>1. \A c \in 0 .. 2 : c \in {0, 1, 2}
    OBVIOUS
  <2>2. /\ \A c \in DOMAIN m.CrtFDToRFD :
             /\ c \in 0 .. MaxCrt /\ crt[c] # 0
             /\ m.CrtFDToRFD[c] \in DOMAIN m.RFDToCrtFD /\ m.RFDToCrtFD[m.CrtFDToRFD[c]] = c
        /\ \A r \in DOMAIN m.RFDToCrtFD :
             m.RFDToCrtFD[r] \in DOMAIN m.CrtFDToRFD /\ m.CrtFDToRFD[m.RFDToCrtFD[r]] = r
    BY <1>2, <1>4
  <2>3. QED
    BY <1>2, <2>1, <2>2 DEF CrtTables
<1>13. HandlesHeld(m, sock, th)
    BY <1>5, <1>6 DEF HandlesHeld
<1>14. CrtHeld(m, crt, streams, th)
    BY <1>1, <1>5, <1>6 DEF CrtHeld
<1>15. Closings(m, th) /\ Calling(m, table, th)
    BY <1>5, <1>6 DEF Closings, Calling
<1>16. \A n \in 1 .. NStates : st[n] = NoState
    BY <1>1
<1>17. StatesOwned(m, st)
    BY <1>2, <1>16 DEF StatesOwned
<1>18. Waits(m, st, io, table)
  <2>1. Accepts(io) = {}
    BY <1>1 DEF Accepts
  <2>2. \A n \in 1 .. NStates : DOMAIN Listed(st, n) = {}
    BY <1>16 DEF Listed
  <2>3. QED
    BY <2>1, <2>2 DEF Waits
<1>19. Tables(m, sock, crt, table)
  <2>1. DOMAIN table = 3 .. 5 /\ table[3] = 101 /\ table[4] = 102 /\ table[5] = 103
    BY <1>1 DEF File
  <2>2. \A r \in 3 .. 5 : r = 3 \/ r = 4 \/ r = 5
    OBVIOUS
  <2>3. QED
    BY <1>2, <1>4, <2>1, <2>2 DEF Tables
<1>20. QED
    BY <1>9, <1>10, <1>11, <1>12, <1>13, <1>14, <1>15, <1>17, <1>18, <1>19, Zenon DEF IInv

LEMMA StutterTypes ==
    ASSUME IInv, UNCHANGED vars
    PROVE  IInv'
<1>1. /\ m' = m /\ sock' = sock /\ crt' = crt /\ streams' = streams /\ port' = port /\ st' = st /\ io' = io /\ th' = th
      /\ table' = table /\ sockets' = sockets /\ files' = files
    BY DEF vars
<1>2. Types'
    BY <1>1 DEF IInv, Types
<1>3. QED
    BY <1>1, <1>2 DEF IInv

LEMMA NextTypes ==
    ASSUME IInv, Next
    PROVE  IInv'
<1>1. ASSUME NEW t \in Threads, Sockets(t) PROVE IInv'
  <2>1. CASE FDAPI_socket(t) \/ FDAPI_WSASocket(t) \/ FDAPI_accept(t)
    <3>1. NewSocket(t)
      BY <2>1, Zenon DEF FDAPI_socket, FDAPI_WSASocket, FDAPI_accept
    <3>2. QED
      BY <3>1, NewSocketTypes, Zenon
  <2>2. CASE AddSocket(t)
    BY <2>2, AddSocketTypes, Zenon
  <2>3. CASE FDAPI_close(t)
    BY <2>3, FDAPI_closeTypes, Zenon
  <2>4. CASE CloseState(t)
    BY <2>4, CloseStateTypes, Zenon
  <2>5. CASE RemoveSocket(t)
    BY <2>5, RemoveSocketTypes, Zenon
  <2>6. CASE CloseSocket(t)
    BY <2>6, CloseSocketTypes, Zenon
  <2>7. CASE FDAPI_CloseDuplicatedSocket(t)
    BY <2>7, FDAPI_CloseDuplicatedSocketTypes, Zenon
  <2>8. QED
    BY <1>1, <2>1, <2>2, <2>3, <2>4, <2>5, <2>6, <2>7, Zenon DEF Sockets
<1>2. ASSUME NEW t \in Threads, Files(t) PROVE IInv'
  <2>1. CASE FDAPI_open(t) \/ FDAPI_open_osfhandle(t) \/ FDAPI_pipe(t)
    <3>1. PICK n \in 1 .. 2 : NewCrt(t, n)
      BY <2>1 DEF FDAPI_open, FDAPI_open_osfhandle, FDAPI_pipe
    <3>2. QED
      BY <3>1, NewCrtTypes, Zenon
  <2>2. CASE AddCrtFD(t)
    BY <2>2, AddCrtFDTypes, Zenon
  <2>3. CASE fopen(t)
    BY <2>3, fopenTypes, Zenon
  <2>4. CASE FDAPI_fileno(t)
    BY <2>4, FDAPI_filenoTypes, Zenon
  <2>5. CASE FDAPI_fclose(t)
    BY <2>5, FDAPI_fcloseTypes, Zenon
  <2>6. CASE CloseCrtFD(t)
    BY <2>6, CloseCrtFDTypes, Zenon
  <2>7. CASE CrtClose(t)
    BY <2>7, CrtCloseTypes, Zenon
  <2>8. QED
    BY <1>2, <2>1, <2>2, <2>3, <2>4, <2>5, <2>6, <2>7, Zenon DEF Files
<1>3. ASSUME NEW t \in Threads, Call(t) \/ CallReturns(t) PROVE IInv'
    BY <1>3, CallTypes, CallReturnsTypes, Zenon
<1>4. ASSUME WSIOCP PROVE IInv'
  <2>1. CASE WSIOCP_Listen
    BY <2>1, WSIOCP_ListenTypes, Zenon
  <2>2. CASE WSIOCP_Accept
    BY <2>2, WSIOCP_AcceptTypes, Zenon
  <2>3. CASE WSIOCP_QueueNextRead
    BY <2>3, WSIOCP_QueueNextReadTypes, Zenon
  <2>4. CASE WSIOCP_SocketSend
    BY <2>4, WSIOCP_SocketSendTypes, Zenon
  <2>5. CASE WSIOCP_SocketConnect \/ WSIOCP_SocketConnectBind
    BY <2>5, ConnectOverlappedTypes, Zenon DEF WSIOCP_SocketConnect, WSIOCP_SocketConnectBind
  <2>6. QED
    BY <1>4, <2>1, <2>2, <2>3, <2>4, <2>5, Zenon DEF WSIOCP
<1>5. ASSUME Completion PROVE IInv'
    BY <1>5, CompleteTypes, Zenon DEF Completion
<1>6. QED
    BY <1>1, <1>2, <1>3, <1>4, <1>5, Zenon DEF Next, Worker

-----------------------------------------------------------------------------
(* The tables of the map agree with each other and with Windows at every     *)
(* step: an RFD is free, a socket or a CRT descriptor and only one of them,  *)
(* every socket the map knows is open and known once, a handle or a CRT      *)
(* descriptor between two steps of a call belongs to one thread and is in no *)
(* table, a state block belongs to the descriptor that points to it, and an  *)
(* accepted socket waits in one place.                                       *)
THEOREM TablesAgree == Spec => []IInv
<1>1. IInv /\ [Next]_vars => IInv'
    BY NextTypes, StutterTypes, Zenon
<1>2. QED
    BY <1>1, InitTypes, PTL DEF Spec

LEMMA DenotesHolds ==
    ASSUME IInv
    PROVE  Denotes
<1>1. MapGood(m) /\ Tables(m, sock, crt, table) /\ Calling(m, table, th)
    BY Zenon DEF IInv
<1>2. Disjoint(m) /\ MapTypes(m)
    BY <1>1, Zenon DEF MapGood
<1>3. \A r : Valid(m, r) => lookupSocket(m, r) = Socket(m, r) /\ lookupSocket(m, r) # INVALID_SOCKET
    BY DEF Valid, lookupSocket, Socket
<1>4. \A r \in DOMAIN m.RFDToCrtFD : lookupSocket(m, r) = INVALID_SOCKET /\ lookupCrtFD(m, r) = m.RFDToCrtFD[r]
    BY <1>2, Zenon DEF Disjoint, lookupSocket, lookupCrtFD
<1>5. \A r \in DOMAIN m.RFDToCrtFD : m.RFDToCrtFD[r] \in 0 .. MaxCrt
    BY DEF IInv, CrtTables
<1>6. \A r \in DOMAIN m.RFDToCrtFD : lookupCrtFD(m, r) # INVALID_FD
    BY <1>4, <1>5 DEF INVALID_FD
<1>7. \A r : Valid(m, r) => Means(r) = sock[Socket(m, r)]
    BY <1>3, Zenon DEF Means
<1>8. \A r \in DOMAIN m.RFDToCrtFD : Means(r) = crt[m.RFDToCrtFD[r]]
    BY <1>4, <1>6, Zenon DEF Means
<1>9. \A r \in DOMAIN table : Means(r) = table[r]
    BY <1>1, <1>7, <1>8, Zenon DEF Tables
<1>10. ASSUME NEW t \in Threads, At(t, "windows")
       PROVE  table[th[t].rfd] = IF th[t].c = <<>> THEN sock[th[t].h] ELSE crt[Head(th[t].c)]
  <2>1. PICK r : r = th[t].rfd
    BY Zenon
  <2>2. /\ r \in DOMAIN table
        /\ \/ th[t].c = <<>> /\ Valid(m, r) /\ th[t].h = Socket(m, r)
           \/ r \in DOMAIN m.RFDToCrtFD /\ th[t].c = <<m.RFDToCrtFD[r]>>
    BY <1>1, <1>10, <2>1, Zenon DEF Calling, At
  <2>3. table[r] = Means(r)
    BY <1>9, <2>2
  <2>4. CASE th[t].c = <<>> /\ Valid(m, r) /\ th[t].h = Socket(m, r)
    BY <1>7, <2>1, <2>3, <2>4, Zenon
  <2>5. CASE r \in DOMAIN m.RFDToCrtFD /\ th[t].c = <<m.RFDToCrtFD[r]>>
    <3>1. PICK c : c = m.RFDToCrtFD[r]
      BY Zenon
    <3>2. <<c>> # <<>> /\ Head(<<c>>) = c
      OBVIOUS
    <3>3. th[t].c # <<>> /\ Head(th[t].c) = c
      BY <2>5, <3>1, <3>2, Zenon
    <3>4. QED
      BY <1>8, <2>1, <2>3, <2>5, <3>1, <3>3, Zenon
  <2>6. QED
    BY <2>2, <2>4, <2>5, Zenon
<1>11. QED
    BY <1>9, <1>10, Zenon DEF Denotes

(* A descriptor handed out and not closed means the object it was opened for,*)
(* through every reuse of its number, of the socket value and of the CRT     *)
(* descriptor, and a call that has looked it up and left the critical        *)
(* section still finds that object: for any number of threads, handles,      *)
(* descriptors and completion-port states.                                   *)
THEOREM DescriptorsDenote == Spec => []Denotes
<1>1. QED
    BY TablesAgree, DenotesHolds, PTL

-----------------------------------------------------------------------------
(* The operations under way: the second invariant. *)
OnBlock(q, n, kind) == {o \in q : o.st = n /\ o.kind = kind}
(* The marks and the count of block b, the n-th, are those of the operations. *)
Marks(b, q, n) ==
  /\ "READ_QUEUED" \in b.masks <=> OnBlock(q, n, "read") # {}
  /\ "CONNECT_PENDING" \in b.masks <=> OnBlock(q, n, "connect") # {}
  /\ ~("READ_QUEUED" \in b.masks /\ "CONNECT_PENDING" \in b.masks)
Fits(b, q, n) ==
  /\ b.wreqs = Cardinality(OnBlock(q, n, "send"))
  /\ n \notin Early => Marks(b, q, n)
  /\ b.masks \cap {"SOCKET_ATTACHED", "CLOSE_PENDING"} = {} => b.wreqs = 0
Counts(s, q) == \A n \in 1 .. NStates : s[n] # NoState => Fits(s[n], q, n)
Single(q) == \A o, p \in q : o.st = p.st /\ o.st \notin Early /\ o.kind = p.kind /\ o.kind \in {"read", "connect"} => o = p
(* A counted operation has a block, and its key is the block's descriptor. *)
Keyed(s, o) == s[o.st] # NoState /\ (o.key = -1 \/ o.key = s[o.st].fd)
Keys(s, q) == \A o \in q : Counted(o) => Keyed(s, o)
Ops(s, q) == Counts(s, q) /\ Single(q) /\ Keys(s, q)
(* A socket that has joined the port has its descriptor as the key. *)
Ports(M, sk, pt) ==
  /\ \A h \in Handles : sk[h] = 0 => pt[h] = -1
  /\ \A r \in DOMAIN M.RFDToSocketInfo : Valid(M, r) => pt[Socket(M, r)] = -1 \/ pt[Socket(M, r)] = r
Starting(pt, H) == \A t \in Threads : H[t].pc = "addSocket" => pt[H[t].h] = -1
(* A closed descriptor is with its thread or waits for the last completion. *)
Lingers(b) == "CLOSE_PENDING" \in b.masks /\ ~Closable(b)
Closed(M, s, H) ==
  \A r \in DOMAIN M.RFDToSocketInfo : Socket(M, r) = INVALID_SOCKET =>
     \/ \E t \in Threads : H[t].pc = "closeState" /\ H[t].rfd = r
     \/ State(M, r) # 0 /\ Lingers(s[State(M, r)])
(* An accepted socket that waits to be taken is attached and nothing else. *)
Awaits(s, q, a) ==
  \/ \E o \in Accepts(q) : o.acc = a
  \/ \E n \in 1 .. NStates : \E i \in DOMAIN Listed(s, n) : Listed(s, n)[i] = a
Resting(b) == b.masks = {"SOCKET_ATTACHED"} /\ b.wreqs = 0
Quiet(M, s, a) == State(M, a) # 0 /\ Resting(s[State(M, a)])
QuietWaits(M, s, q) == \A a : Awaits(s, q, a) => Quiet(M, s, a)
PInv ==
  /\ Ops(st, io) /\ Ports(m, sock, port) /\ Starting(port, th)
  /\ Closed(m, st, th) /\ QuietWaits(m, st, io)

(* What the operations say of a block. *)
NoOps(q, n) == \A o \in q : Counted(o) => o.st # n

LEMMA OperationIs ==
    ASSUME NEW o \in Operations
    PROVE  /\ o.kind \in {"accept", "connect", "read", "send"} /\ o.st \in 1 .. NStates /\ o.key \in Int /\ o.acc \in Int
  BY DEF Operations

LEMMA NoneUnderWay ==
    ASSUME NEW b, NEW q, q \subseteq Operations, IsFiniteSet(q), NEW n, Fits(b, q, n), b.wreqs = 0,
           "READ_QUEUED" \notin b.masks, "CONNECT_PENDING" \notin b.masks
    PROVE  NoOps(q, n)
<1>1. Cardinality(OnBlock(q, n, "send")) = 0 /\ (n \notin Early => OnBlock(q, n, "read") = {} /\ OnBlock(q, n, "connect") = {})
    BY DEF Fits, Marks
<1>2. IsFiniteSet(OnBlock(q, n, "send"))
  <2>1. OnBlock(q, n, "send") \subseteq q
      BY DEF OnBlock
  <2>2. QED
      BY <2>1, FS_Subset, Zenon
<1>3. OnBlock(q, n, "send") = {}
    BY <1>1, <1>2, FS_EmptySet, Zenon
<1>4. ASSUME NEW o \in q, Counted(o), o.st = n PROVE FALSE
  <2>1. o.kind = "send" \/ (n \notin Early /\ (o.kind = "read" \/ o.kind = "connect"))
      BY <1>4, OperationIs DEF Counted
  <2>2. o \in OnBlock(q, n, "send") \/ (n \notin Early /\ (o \in OnBlock(q, n, "read") \/ o \in OnBlock(q, n, "connect")))
      BY <1>4, <2>1, Zenon DEF OnBlock
  <2>3. QED
      BY <1>1, <1>3, <2>2
<1>5. QED
    BY <1>4 DEF NoOps

LEMMA NoneCounted ==
    ASSUME NEW b, NEW q, NEW n, NoOps(q, n), b.wreqs = 0, "READ_QUEUED" \notin b.masks, "CONNECT_PENDING" \notin b.masks
    PROVE  Fits(b, q, n)
<1>1. OnBlock(q, n, "send") = {} /\ (n \notin Early => OnBlock(q, n, "read") = {} /\ OnBlock(q, n, "connect") = {})
    BY DEF NoOps, OnBlock, Counted
<1>2. Cardinality(OnBlock(q, n, "send")) = 0
    BY <1>1, FS_EmptySet
<1>3. QED
    BY <1>1, <1>2 DEF Fits, Marks

LEMMA FreeHasNone ==
    ASSUME NEW s, NEW q, Keys(s, q), NEW n, s[n] = NoState
    PROVE  NoOps(q, n)
  BY DEF Keys, Keyed, NoOps

LEMMA Remarked ==
    ASSUME NEW b, NEW c, NEW q, NEW n, Fits(c, q, n), b.wreqs = c.wreqs,
           "READ_QUEUED" \in b.masks <=> "READ_QUEUED" \in c.masks, "CONNECT_PENDING" \in b.masks <=> "CONNECT_PENDING" \in c.masks,
           b.masks \cap {"SOCKET_ATTACHED", "CLOSE_PENDING"} = {} => c.masks \cap {"SOCKET_ATTACHED", "CLOSE_PENDING"} = {} \/ b.wreqs = 0
    PROVE  Fits(b, q, n)
  BY DEF Fits, Marks

(* Block n and its operations change, the others do not. *)
Elsewhere(q, p, n) == \A o : o.kind # "accept" /\ o.st # n => (o \in p <=> o \in q)
LEMMA OneBlock ==
    ASSUME NEW s, NEW z, NEW q, NEW p, Ops(s, q), NEW n \in 1 .. NStates, \A k \in 1 .. NStates : k # n => z[k] = s[k],
           Elsewhere(q, p, n), p \subseteq Operations, z[n] # NoState => Fits(z[n], p, n), Single(p),
           \A o \in p : Counted(o) /\ o.st = n => Keyed(z, o)
    PROVE  Ops(z, p)
<1>1. ASSUME NEW k \in 1 .. NStates, z[k] # NoState PROVE Fits(z[k], p, k)
  <2>1. CASE k = n
      BY <1>1, <2>1
  <2>2. CASE k # n
    <3>1. z[k] = s[k] /\ Fits(s[k], q, k)
        BY <1>1, <2>2, Zenon DEF Ops, Counts
    <3>2. /\ OnBlock(p, k, "send") = OnBlock(q, k, "send") /\ OnBlock(p, k, "read") = OnBlock(q, k, "read")
          /\ OnBlock(p, k, "connect") = OnBlock(q, k, "connect")
        BY <2>2 DEF Elsewhere, OnBlock
    <3>3. QED
        BY <3>1, <3>2, Zenon DEF Fits, Marks
  <2>3. QED
      BY <2>1, <2>2
<1>2. ASSUME NEW o \in p, Counted(o) PROVE Keyed(z, o)
  <2>1. CASE o.st = n
      BY <1>2, <2>1, Zenon
  <2>2. CASE o.st # n
    <3>1. o \in q /\ o.st \in 1 .. NStates
        BY <1>2, <2>2, OperationIs DEF Elsewhere, Counted
    <3>2. Keyed(s, o) /\ z[o.st] = s[o.st]
        BY <1>2, <2>2, <3>1, Zenon DEF Ops, Keys
    <3>3. QED
        BY <3>2, Zenon DEF Keyed
  <2>3. QED
      BY <2>1, <2>2
<1>3. QED
    BY <1>1, <1>2, Zenon DEF Ops, Counts, Keys

LEMMA SameElsewhere == \A q, n : Elsewhere(q, q, n)
  BY DEF Elsewhere

(* The parts that follow when the tables, the blocks or the threads change. *)
LEMMA AwaitsIs ==
    ASSUME NEW M, NEW s, NEW q, NEW tb, Waits(M, s, q, tb), NEW a, Awaits(s, q, a)
    PROVE  Valid(M, a) /\ a \notin DOMAIN tb
  BY DEF Waits, Awaits

(* A descriptor is as it was, and so is its block. *)
SameState(M, G, s, z, r) ==
  /\ Socket(G, r) = Socket(M, r) /\ State(G, r) = State(M, r)
  /\ State(M, r) # 0 => z[State(M, r)] = s[State(M, r)]

LEMMA PortsKept ==
    ASSUME NEW M, NEW G, NEW sk, NEW pt, Ports(M, sk, pt),
           \A r : Valid(G, r) => Valid(M, r) /\ Socket(G, r) = Socket(M, r)
    PROVE  Ports(G, sk, pt)
  BY DEF Ports, Valid

LEMMA ClosedKept ==
    ASSUME NEW M, NEW G, NEW s, NEW z, NEW H, Closed(M, s, H),
           \A r \in DOMAIN G.RFDToSocketInfo : Socket(G, r) = INVALID_SOCKET =>
              r \in DOMAIN M.RFDToSocketInfo /\ SameState(M, G, s, z, r)
    PROVE  Closed(G, z, H)
<1>1. ASSUME NEW r \in DOMAIN G.RFDToSocketInfo, Socket(G, r) = INVALID_SOCKET
      PROVE  \/ \E t \in Threads : H[t].pc = "closeState" /\ H[t].rfd = r
             \/ State(G, r) # 0 /\ Lingers(z[State(G, r)])
  <2>1. r \in DOMAIN M.RFDToSocketInfo /\ SameState(M, G, s, z, r)
      BY <1>1
  <2>2. Socket(M, r) = INVALID_SOCKET /\ State(G, r) = State(M, r) /\ (State(M, r) # 0 => z[State(M, r)] = s[State(M, r)])
      BY <1>1, <2>1, Zenon DEF SameState
  <2>3. \/ \E t \in Threads : H[t].pc = "closeState" /\ H[t].rfd = r
        \/ State(M, r) # 0 /\ Lingers(s[State(M, r)])
      BY <2>1, <2>2, Zenon DEF Closed
  <2>4. QED
      BY <2>2, <2>3, Zenon
<1>2. QED
    BY <1>1, Zenon DEF Closed

LEMMA QuietKept ==
    ASSUME NEW M, NEW G, NEW s, NEW z, NEW q, NEW p, QuietWaits(M, s, q),
           \A a : Awaits(z, p, a) => Quiet(G, z, a) \/ (Awaits(s, q, a) /\ (State(M, a) # 0 => SameState(M, G, s, z, a)))
    PROVE  QuietWaits(G, z, p)
<1>1. ASSUME NEW a, Awaits(z, p, a), ~Quiet(G, z, a) PROVE FALSE
  <2>1. Awaits(s, q, a) /\ Quiet(M, s, a)
      BY <1>1, Zenon DEF QuietWaits
  <2>2. State(M, a) # 0 /\ Resting(s[State(M, a)])
      BY <2>1 DEF Quiet
  <2>3. State(G, a) = State(M, a) /\ z[State(M, a)] = s[State(M, a)]
      BY <1>1, <2>2, Zenon DEF SameState
  <2>4. QED
      BY <1>1, <2>2, <2>3, Zenon DEF Quiet
<1>2. QED
    BY <1>1, Zenon DEF QuietWaits

(* The threads that have opened a socket, and those that close one, stay. *)
Starters(H, G) == \A u \in Threads : G[u].pc = "addSocket" => G[u] = H[u]
Closers(H, G) == \A u \in Threads : H[u].pc = "closeState" => G[u] = H[u]
Steady(H, G) == Starters(H, G) /\ Closers(H, G)

LEMMA StartingStays ==
    ASSUME NEW pt, NEW H, NEW G, Starting(pt, H), Starters(H, G)
    PROVE  Starting(pt, G)
  BY Zenon DEF Starters, Starting

LEMMA ClosedStays ==
    ASSUME NEW M, NEW s, NEW H, NEW G, Closed(M, s, H), Closers(H, G)
    PROVE  Closed(M, s, G)
<1>1. ASSUME NEW r \in DOMAIN M.RFDToSocketInfo, Socket(M, r) = INVALID_SOCKET,
             NEW u \in Threads, H[u].pc = "closeState", H[u].rfd = r
      PROVE  G[u].pc = "closeState" /\ G[u].rfd = r
    BY <1>1 DEF Closers
<1>2. QED
    BY <1>1, Zenon DEF Closed

LEMMA SteadyIs ==
    ASSUME NEW H, ThreadTypes(H), NEW t \in Threads, NEW p, NEW G, G = [H EXCEPT ![t] = p],
           H[t].pc # "closeState", p.pc # "addSocket"
    PROVE  Steady(H, G)
<1>1. H = [u \in Threads |-> H[u]]
    BY DEF ThreadTypes
<1>2. G[t] = p /\ \A u \in Threads : u # t => G[u] = H[u]
    BY <1>1
<1>3. QED
    BY <1>2, Zenon DEF Steady, Starters, Closers

LEMMA StartSteady ==
    ASSUME ThreadTypes(th), NEW t \in Threads, NEW pc, NEW r, NEW h, NEW c, Start(t, pc, r, h, c), pc # "addSocket"
    PROVE  Steady(th, th')
<1>1. PICK p : p = [pc |-> pc, rfd |-> r, h |-> h, c |-> c]
    BY Zenon
<1>2. th' = [th EXCEPT ![t] = p] /\ th[t].pc # "closeState" /\ p.pc # "addSocket"
    BY <1>1 DEF Start, At
<1>3. QED
    BY <1>2, SteadyIs, Zenon

LEMMA ReturnSteady ==
    ASSUME ThreadTypes(th), NEW t \in Threads, Return(t), th[t].pc # "closeState"
    PROVE  Steady(th, th')
<1>1. th' = [th EXCEPT ![t] = Idle] /\ Idle.pc # "addSocket"
    BY IdleIs DEF Return
<1>2. QED
    BY <1>1, SteadyIs, Zenon

LEMMA SameAgain ==
    ASSUME NEW M, NEW G, SameInfos(M, G), NEW s, NEW r
    PROVE  SameState(M, G, s, s, r) /\ (Valid(G, r) <=> Valid(M, r)) /\ (r \in DOMAIN G.RFDToSocketInfo <=> r \in DOMAIN M.RFDToSocketInfo)
  BY DEF SameInfos, SameState, Socket, State, Valid

(* Tables in which one descriptor alone changes. *)
OneInfo(M, G, r) == LosesInfo(M, G, r) \/ (\E v : SetsInfo(M, G, r, v)) \/ (\E v : GainsInfo(M, G, r, v))
LEMMA SameApart ==
    ASSUME NEW M, NEW G, NEW r, OneInfo(M, G, r),
           NEW s, NEW z, NEW x, x # r, x \in DOMAIN M.RFDToSocketInfo, State(M, x) # 0 => z[State(M, x)] = s[State(M, x)]
    PROVE  SameState(M, G, s, z, x) /\ x \in DOMAIN G.RFDToSocketInfo
<1>1. CASE LosesInfo(M, G, r)
    BY <1>1 DEF LosesInfo, SameState, Socket, State
<1>2. CASE \E v : SetsInfo(M, G, r, v)
    BY <1>2 DEF SetsInfo, SameState, Socket, State
<1>3. CASE \E v : GainsInfo(M, G, r, v)
    BY <1>3 DEF GainsInfo, SameState, Socket, State
<1>4. QED
    BY <1>1, <1>2, <1>3 DEF OneInfo

LEMMA SameApartNow ==
    ASSUME NEW M, NEW G, NEW r, OneInfo(M, G, r), NEW s
    PROVE  \A x \in DOMAIN M.RFDToSocketInfo : x # r => SameState(M, G, s, s, x) /\ x \in DOMAIN G.RFDToSocketInfo
  BY SameApart

LEMMA OthersOwn ==
    ASSUME NEW M, NEW s, StatesOwned(M, s), NEW r \in DOMAIN M.RFDToSocketInfo, NEW x \in DOMAIN M.RFDToSocketInfo,
           x # r, State(M, r) # 0
    PROVE  State(M, x) # State(M, r)
  BY DEF StatesOwned

(* The threads stay steady and the socket tables stay. *)
LEMMA PendingMoves ==
    ASSUME PInv, Steady(th, th'), SameInfos(m, m'), UNCHANGED <<sock, port, st, io>>
    PROVE  PInv'
<1>1. sock' = sock /\ port' = port /\ st' = st /\ io' = io
    OBVIOUS
<1>2. \A r : SameState(m, m', st, st, r) /\ (Valid(m', r) <=> Valid(m, r)) /\ (r \in DOMAIN m'.RFDToSocketInfo <=> r \in DOMAIN m.RFDToSocketInfo)
    BY SameAgain, Zenon
<1>3. Ports(m', sock, port)
  <2>1. \A r : Valid(m', r) => Valid(m, r) /\ Socket(m', r) = Socket(m, r)
      BY <1>2, Zenon DEF SameState
  <2>2. QED
      BY <2>1, PortsKept, Zenon DEF PInv
<1>4. Closed(m, st, th') /\ Starting(port, th')
    BY StartingStays, ClosedStays, Zenon DEF PInv, Steady
<1>5. Closed(m', st, th')
    BY <1>2, <1>4, ClosedKept, Zenon
<1>6. QuietWaits(m', st, io)
    BY <1>2, QuietKept, Zenon DEF PInv
<1>7. QED
    BY <1>1, <1>3, <1>4, <1>5, <1>6, Zenon DEF PInv

(* The operations of a block that is being closed. *)
LEMMA ClosingBlock ==
    ASSUME NEW s, NEW q, Ops(s, q), q \subseteq Operations, IsFiniteSet(q), NEW n \in 1 .. NStates, s[n] # NoState, Closable(s[n]),
           NEW z, z[n] = NoState, \A k \in 1 .. NStates : k # n => z[k] = s[k]
    PROVE  Ops(z, q)
<1>1. Fits(s[n], q, n) /\ Single(q)
    BY Zenon DEF Ops, Counts
<1>2. NoOps(q, n)
  <2>1. s[n].wreqs = 0 /\ "READ_QUEUED" \notin s[n].masks /\ "CONNECT_PENDING" \notin s[n].masks
      BY DEF Closable
  <2>2. QED
      BY <1>1, <2>1, NoneUnderWay
<1>3. \A o \in q : Counted(o) /\ o.st = n => Keyed(z, o)
    BY <1>2, Zenon DEF NoOps
<1>4. Elsewhere(q, q, n)
    BY SameElsewhere, Zenon
<1>5. z[n] # NoState => Fits(z[n], q, n)
    OBVIOUS
<1>6. QED
    BY <1>1, <1>3, <1>4, <1>5, OneBlock, SMTT(40)

LEMMA MarkedBlock ==
    ASSUME NEW b \in Blocks, NEW d, d = Marked(b)
    PROVE  /\ d.fd = b.fd /\ d.wreqs = b.wreqs /\ d.reqs = b.reqs /\ "CLOSE_PENDING" \in d.masks
           /\ ("READ_QUEUED" \in d.masks <=> "READ_QUEUED" \in b.masks) /\ ("CONNECT_PENDING" \in d.masks <=> "CONNECT_PENDING" \in b.masks)
           /\ Closable(d) <=> Closable(b)
  BY DEF Marked, Blocks, Closable

(* One block is marked anew: its operations and their keys stay. *)
LEMMA MarkedOps ==
    ASSUME NEW s, NEW q, Ops(s, q), q \subseteq Operations, NEW n \in 1 .. NStates, s[n] # NoState,
           NEW z, z[n] # NoState, z[n].fd = s[n].fd, Fits(z[n], q, n), \A k \in 1 .. NStates : k # n => z[k] = s[k]
    PROVE  Ops(z, q)
<1>1. Single(q) /\ Elsewhere(q, q, n)
    BY SameElsewhere, Zenon DEF Ops
<1>2. \A o \in q : Counted(o) /\ o.st = n => Keyed(z, o)
    BY DEF Ops, Keys, Keyed
<1>3. QED
    BY <1>1, <1>2, OneBlock, SMTT(40)

LEMMA NewSocketPending ==
    ASSUME IInv, PInv, NEW t \in Threads, NewSocket(t)
    PROVE  PInv'
<1>1. PICK h \in Handles :
         /\ sock[h] = 0 /\ sock' = [sock EXCEPT ![h] = sockets + 1]
         /\ Start(t, "addSocket", -1, h, <<>>)
         /\ UNCHANGED <<m, crt, streams, port, st, io, table, files, lost>>
    BY Zenon DEF NewSocket
<1>2. m' = m /\ port' = port /\ st' = st /\ io' = io
    BY <1>1
<1>3. sock \in [Handles -> Nat] /\ sockets \in Nat /\ ThreadTypes(th)
    BY Zenon DEF IInv, Types, WorldTypes
<1>4. \A g \in Handles : sock'[g] = 0 => sock[g] = 0
    BY <1>1, <1>3
<1>5. Ports(m, sock', port)
    BY <1>4 DEF PInv, Ports
<1>6. PICK p : p = [pc |-> "addSocket", rfd |-> -1, h |-> h, c |-> <<>>]
    BY Zenon
<1>7. p.pc = "addSocket" /\ p.h = h /\ th' = [th EXCEPT ![t] = p] /\ th[t].pc = "idle"
    BY <1>1, <1>6 DEF Start, At
<1>8. th'[t] = p /\ \A u \in Threads : u # t => th'[u] = th[u]
    BY <1>3, <1>7 DEF ThreadTypes
<1>9. port[h] = -1
    BY <1>1 DEF PInv, Ports
<1>10. Starting(port, th')
    BY <1>7, <1>8, <1>9 DEF PInv, Starting
<1>11. Closed(m, st, th')
  <2>1. Closers(th, th')
      BY <1>7, <1>8 DEF Closers
  <2>2. QED
      BY <2>1, ClosedStays, Zenon DEF PInv
<1>12. QED
    BY <1>2, <1>5, <1>10, <1>11, Zenon DEF PInv

LEMMA AddSocketPending ==
    ASSUME IInv, PInv, NEW t \in Threads, AddSocket(t)
    PROVE  PInv'
<1>1. PICK h : h = th[t].h
    BY Zenon
<1>2. PICK r : r = AddedSocket(m, h)
    BY Zenon
<1>3. th[t].pc = "addSocket" /\ m' = addSocket(m, h) /\ Return(t) /\ UNCHANGED <<sock, port, st, io>>
    BY <1>1, <1>2, Zenon DEF AddSocket, At
<1>4. sock' = sock /\ port' = port /\ st' = st /\ io' = io
    BY <1>3
<1>5. ThreadTypes(th) /\ MapGood(m) /\ HandlesHeld(m, sock, th) /\ Waits(m, st, io, table)
    BY Zenon DEF IInv, Types
<1>6. th[t].pc # "closeState"
    BY <1>3
<1>7. Steady(th, th')
    BY <1>3, <1>5, <1>6, ReturnSteady, Zenon
<1>8. CASE r = INVALID_FD
  <2>1. m' = m
      BY <1>2, <1>3, <1>8, SocketNotAdded, Zenon
  <2>2. SameInfos(m, m')
      BY <2>1 DEF SameInfos
  <2>3. QED
      BY <1>4, <1>7, <2>2, PendingMoves, Zenon
<1>9. CASE r # INVALID_FD
  <2>1. h \in Handles
      BY <1>1, <1>3, <1>5 DEF HandlesHeld, Holding
  <2>2. GainsInfo(m, m', r, [socket |-> h, state |-> 0])
      BY <1>2, <1>3, <1>5, <1>9, <2>1, SocketAdded, Zenon
  <2>3. port[h] = -1
      BY <1>1, <1>3 DEF PInv, Starting
  <2>4. h # INVALID_SOCKET
      BY <2>1, FdAssumption
  <2>5. Socket(m', r) = h
      BY <2>2 DEF GainsInfo, Socket
  <2>6. \A x \in DOMAIN m'.RFDToSocketInfo : x # r => x \in DOMAIN m.RFDToSocketInfo /\ SameState(m, m', st, st, x)
    <3>1. \A x \in DOMAIN m'.RFDToSocketInfo : x # r => x \in DOMAIN m.RFDToSocketInfo
        BY <2>2 DEF GainsInfo
    <3>2. OneInfo(m, m', r)
        BY <2>2, Zenon DEF OneInfo
    <3>3. QED
        BY <3>1, <3>2, SameApartNow
  <2>7. Ports(m', sock, port)
    <3>1. ASSUME NEW x \in DOMAIN m'.RFDToSocketInfo, Valid(m', x) PROVE port[Socket(m', x)] = -1 \/ port[Socket(m', x)] = x
      <4>1. CASE x = r
          BY <2>3, <2>5, <4>1
      <4>2. CASE x # r
        <5>1. x \in DOMAIN m.RFDToSocketInfo /\ Socket(m', x) = Socket(m, x)
            BY <2>6, <3>1, <4>2, Zenon DEF SameState
        <5>2. Valid(m, x)
            BY <3>1, <5>1, Zenon DEF Valid
        <5>3. QED
            BY <5>1, <5>2, Zenon DEF PInv, Ports
      <4>3. QED
          BY <4>1, <4>2
    <3>2. \A g \in Handles : sock[g] = 0 => port[g] = -1
        BY Zenon DEF PInv, Ports
    <3>3. QED
        BY <3>1, <3>2, Zenon DEF Ports
  <2>8. Closed(m, st, th') /\ Starting(port, th')
      BY <1>7, StartingStays, ClosedStays, Zenon DEF PInv, Steady
  <2>9. Closed(m', st, th')
      BY <2>4, <2>5, <2>6, <2>8, ClosedKept, Zenon
  <2>10. QuietWaits(m', st, io)
    <3>1. \A a : Awaits(st, io, a) => a \in DOMAIN m.RFDToSocketInfo /\ a # r
      <4>1. r \notin DOMAIN m.RFDToSocketInfo
          BY <2>2 DEF GainsInfo
      <4>2. QED
          BY <1>5, <4>1, AwaitsIs, Zenon DEF Valid
    <3>2. OneInfo(m, m', r)
        BY <2>2, Zenon DEF OneInfo
    <3>3. \A a : Awaits(st, io, a) => SameState(m, m', st, st, a)
        BY <3>1, <3>2, SameApartNow
    <3>4. QED
        BY <3>3, QuietKept, Zenon DEF PInv
  <2>11. Ops(st, io)
      BY Zenon DEF PInv
  <2>12. QED
      BY <1>4, <2>7, <2>8, <2>9, <2>10, <2>11, Zenon DEF PInv
<1>10. QED
    BY <1>8, <1>9

LEMMA FDAPI_closePending ==
    ASSUME IInv, PInv, NEW t \in Threads, FDAPI_close(t)
    PROVE  PInv'
<1>1. PICK r \in Usable(t) :
         /\ r \in DOMAIN m.RFDToSocketInfo /\ lookupSocket(m, r) # INVALID_SOCKET
         /\ m' = [m EXCEPT !.RFDToSocketInfo[r].socket = INVALID_SOCKET]
         /\ Start(t, "closeState", r, lookupSocket(m, r), <<>>)
         /\ UNCHANGED <<sock, crt, streams, port, st, io, sockets, files, lost>>
    BY Zenon DEF FDAPI_close
<1>2. sock' = sock /\ port' = port /\ st' = st /\ io' = io
    BY <1>1
<1>3. ThreadTypes(th) /\ MapGood(m) /\ Waits(m, st, io, table)
    BY Zenon DEF IInv, Types
<1>4. PICK v : v = [m.RFDToSocketInfo[r] EXCEPT !.socket = INVALID_SOCKET]
    BY Zenon
<1>5. v \in Infos /\ v.socket = INVALID_SOCKET /\ v.state = State(m, r)
  <2>1. m.RFDToSocketInfo[r] \in Infos
      BY <1>1, <1>3 DEF MapGood, MapTypes
  <2>2. QED
      BY <1>4, <2>1 DEF Infos, State
<1>6. m' = [m EXCEPT !.RFDToSocketInfo = [@ EXCEPT ![r] = v]]
    BY <1>1, <1>4
<1>7. SetsInfo(m, m', r, v)
    BY <1>1, <1>3, <1>5, <1>6, InfoSet
<1>8. th[t].pc = "idle" /\ Steady(th, th') /\ th'[t].pc = "closeState" /\ th'[t].rfd = r
  <2>1. Steady(th, th')
    <3>1. "closeState" # "addSocket"
        OBVIOUS
    <3>2. QED
        BY <1>1, <1>3, <3>1, StartSteady, Zenon
  <2>2. th[t].pc = "idle" /\ th' = [th EXCEPT ![t] = [pc |-> "closeState", rfd |-> r, h |-> lookupSocket(m, r), c |-> <<>>]]
      BY <1>1, Zenon DEF Start, At
  <2>3. th'[t].pc = "closeState" /\ th'[t].rfd = r
      BY <1>3, <2>2 DEF ThreadTypes
  <2>4. QED
      BY <2>1, <2>2, <2>3
<1>9. Socket(m', r) = INVALID_SOCKET /\ State(m', r) = State(m, r)
    BY <1>5, <1>7 DEF SetsInfo, Socket, State
<1>10. \A x \in DOMAIN m'.RFDToSocketInfo : x \in DOMAIN m.RFDToSocketInfo /\ (x # r => SameState(m, m', st, st, x))
  <2>1. DOMAIN m'.RFDToSocketInfo = DOMAIN m.RFDToSocketInfo
      BY <1>7 DEF SetsInfo
  <2>2. OneInfo(m, m', r)
      BY <1>7, Zenon DEF OneInfo
  <2>3. QED
      BY <2>1, <2>2, SameApartNow
<1>11. Ports(m', sock, port)
  <2>1. ASSUME NEW x, Valid(m', x) PROVE Valid(m, x) /\ Socket(m', x) = Socket(m, x)
    <3>1. x \in DOMAIN m'.RFDToSocketInfo /\ x # r
        BY <1>9, <2>1, Zenon DEF Valid
    <3>2. x \in DOMAIN m.RFDToSocketInfo /\ Socket(m', x) = Socket(m, x)
        BY <1>10, <3>1, Zenon DEF SameState
    <3>3. QED
        BY <2>1, <3>2, Zenon DEF Valid
  <2>2. QED
      BY <2>1, PortsKept, Zenon DEF PInv
<1>12. Starting(port, th') /\ Closed(m, st, th')
    BY <1>8, StartingStays, ClosedStays, Zenon DEF PInv, Steady
<1>13. Closed(m', st, th')
  <2>1. ASSUME NEW x \in DOMAIN m'.RFDToSocketInfo, Socket(m', x) = INVALID_SOCKET
        PROVE  \/ \E u \in Threads : th'[u].pc = "closeState" /\ th'[u].rfd = x
               \/ State(m', x) # 0 /\ Lingers(st[State(m', x)])
    <3>1. CASE x = r
        BY <1>8, <3>1, Zenon
    <3>2. CASE x # r
      <4>1. x \in DOMAIN m.RFDToSocketInfo /\ Socket(m, x) = INVALID_SOCKET /\ State(m', x) = State(m, x)
          BY <1>10, <2>1, <3>2, Zenon DEF SameState
      <4>2. QED
          BY <1>12, <4>1, Zenon DEF Closed
    <3>3. QED
        BY <3>1, <3>2
  <2>2. QED
      BY <2>1, Zenon DEF Closed
<1>14. QuietWaits(m', st, io)
  <2>1. ASSUME NEW a, Awaits(st, io, a) PROVE SameState(m, m', st, st, a)
    <3>1. CASE a = r
      <4>1. r \in DOMAIN table
          BY UsableIs, Zenon
      <4>2. QED
          BY <1>3, <2>1, <3>1, <4>1, AwaitsIs, Zenon
    <3>2. CASE a # r
      <4>1. a \in DOMAIN m'.RFDToSocketInfo
          BY <1>3, <1>7, <2>1, AwaitsIs, Zenon DEF Valid, SetsInfo
      <4>2. QED
          BY <1>10, <3>2, <4>1, Zenon
    <3>3. QED
        BY <3>1, <3>2
  <2>2. QED
      BY <2>1, QuietKept, Zenon DEF PInv
<1>15. Ops(st, io)
    BY Zenon DEF PInv
<1>16. QED
    BY <1>2, <1>11, <1>12, <1>13, <1>14, <1>15, Zenon DEF PInv

(* One descriptor leaves the tables: nobody waits for it. *)
LEMMA LosesPending ==
    ASSUME NEW M, NEW G, NEW r, LosesInfo(M, G, r), r \in DOMAIN M.RFDToSocketInfo, NEW s, NEW z, NEW q, NEW tb, NEW H, NEW K,
           Waits(M, s, q, tb), Closed(M, s, H), QuietWaits(M, s, q), \A a : Awaits(z, q, a) => Awaits(s, q, a) /\ a # r,
           \A x \in DOMAIN M.RFDToSocketInfo : x # r /\ State(M, x) # 0 => z[State(M, x)] = s[State(M, x)],
           \A u \in Threads : H[u].pc = "closeState" /\ H[u].rfd # r => K[u] = H[u]
    PROVE  Closed(G, z, K) /\ QuietWaits(G, z, q)
<1>1. OneInfo(M, G, r)
    BY Zenon DEF OneInfo
<1>2. ASSUME NEW x \in DOMAIN M.RFDToSocketInfo, x # r
      PROVE  SameState(M, G, s, z, x) /\ x \in DOMAIN G.RFDToSocketInfo
  <2>1. State(M, x) # 0 => z[State(M, x)] = s[State(M, x)]
      BY <1>2
  <2>2. QED
      BY <1>1, <1>2, <2>1, SameApart
<1>3. ASSUME NEW x \in DOMAIN G.RFDToSocketInfo, Socket(G, x) = INVALID_SOCKET
      PROVE  \/ \E u \in Threads : K[u].pc = "closeState" /\ K[u].rfd = x
             \/ State(G, x) # 0 /\ Lingers(z[State(G, x)])
  <2>1. x \in DOMAIN M.RFDToSocketInfo /\ x # r
      BY DEF LosesInfo
  <2>2. Socket(M, x) = INVALID_SOCKET /\ State(G, x) = State(M, x) /\ (State(M, x) # 0 => z[State(M, x)] = s[State(M, x)])
      BY <1>2, <1>3, <2>1, Zenon DEF SameState
  <2>3. \/ \E u \in Threads : H[u].pc = "closeState" /\ H[u].rfd = x
        \/ State(M, x) # 0 /\ Lingers(s[State(M, x)])
      BY <2>1, <2>2, Zenon DEF Closed
  <2>4. ASSUME NEW u \in Threads, H[u].pc = "closeState", H[u].rfd = x PROVE K[u] = H[u]
      BY <2>1, <2>4
  <2>5. QED
      BY <2>2, <2>3, <2>4, Zenon
<1>4. \A a : Awaits(z, q, a) => Awaits(s, q, a) /\ SameState(M, G, s, z, a)
  <2>1. ASSUME NEW a, Awaits(z, q, a) PROVE Awaits(s, q, a) /\ SameState(M, G, s, z, a)
    <3>1. Awaits(s, q, a) /\ a # r
        BY <2>1, Zenon
    <3>2. a \in DOMAIN M.RFDToSocketInfo
        BY <3>1, AwaitsIs, Zenon DEF Valid
    <3>3. QED
        BY <1>2, <3>1, <3>2, Zenon
  <2>2. QED
      BY <2>1, Zenon
<1>5. QED
    BY <1>3, <1>4, QuietKept, Zenon DEF Closed

LEMMA LosesPorts ==
    ASSUME NEW M, NEW G, NEW r, LosesInfo(M, G, r), NEW sk, NEW pt, Ports(M, sk, pt)
    PROVE  Ports(G, sk, pt)
<1>1. \A x : Valid(G, x) => Valid(M, x) /\ Socket(G, x) = Socket(M, x)
    BY DEF LosesInfo, Valid, Socket
<1>2. QED
    BY <1>1, PortsKept, Zenon

LEMMA CloseStatePending ==
    ASSUME IInv, PInv, NEW t \in Threads, CloseState(t)
    PROVE  PInv'
<1>1. PICK r : r = th[t].rfd
    BY Zenon
<1>2. PICK n : n = StateAt(r)
    BY Zenon
<1>3. /\ th[t].pc = "closeState"
      /\ st' = (IF n = 0 THEN st ELSE WSIOCP_CloseSocketState(st, n))
      /\ m' = (IF n = 0 \/ Closable(st[n]) THEN removeRFDToSocketInfo(m, r) ELSE m)
      /\ th' = [th EXCEPT ![t].pc = "removeSocket", ![t].rfd = -1]
      /\ UNCHANGED <<sock, crt, streams, port, io, table, sockets, files>>
    BY <1>1, <1>2, Zenon DEF CloseState, At
<1>4. ThreadTypes(th) /\ MapGood(m) /\ Waits(m, st, io, table) /\ Closings(m, th) /\ StatesOwned(m, st)
      /\ WorldTypes(sock, port, st, io, sockets)
    BY Zenon DEF IInv, Types
<1>5. sock' = sock /\ port' = port /\ io' = io
    BY <1>3
<1>6. st \in BlockTables /\ io \subseteq Operations /\ IsFiniteSet(io)
    BY <1>4, Zenon DEF WorldTypes, BlockTables
<1>7. /\ r \in DOMAIN m.RFDToSocketInfo /\ Socket(m, r) = INVALID_SOCKET /\ ~Valid(m, r)
      /\ \A u \in Threads : u # t /\ th[u].pc = "closeState" => th[u].rfd # r
    BY <1>1, <1>3, <1>4 DEF Closings, Valid
<1>8. n = State(m, r) /\ (n # 0 => n \in 1 .. NStates)
    BY <1>2, <1>4, <1>7, StateIs DEF StateAt, State
<1>9. th'[t].pc = "removeSocket" /\ \A u \in Threads : u # t => th'[u] = th[u]
  <2>1. th = [u \in Threads |-> th[u]] /\ IsPlace(th[t])
      BY <1>4, Zenon DEF ThreadTypes
  <2>2. PICK o : o = th[t]
      BY Zenon
  <2>3. PICK p : p = [o EXCEPT !.pc = "removeSocket", !.rfd = -1]
      BY Zenon
  <2>4. p.pc = "removeSocket"
      BY <2>1, <2>2, <2>3 DEF IsPlace
  <2>5. th' = [th EXCEPT ![t] = p]
      BY <1>3, <2>1, <2>2, <2>3
  <2>6. QED
      BY <2>1, <2>4, <2>5
<1>10. Starting(port, th')
  <2>1. Starters(th, th')
      BY <1>9 DEF Starters
  <2>2. QED
      BY <2>1, StartingStays, Zenon DEF PInv
<1>11. \A u \in Threads : th[u].pc = "closeState" /\ th[u].rfd # r => th'[u] = th[u]
    BY <1>1, <1>9
<1>12. \A a : Awaits(st, io, a) => a # r
    BY <1>4, <1>7, AwaitsIs, Zenon
<1>13. Ops(st, io) /\ Ports(m, sock, port) /\ Closed(m, st, th) /\ QuietWaits(m, st, io)
    BY Zenon DEF PInv
<1>14. PICK G : G = m'
    BY Zenon
<1>15. PICK z : z = st'
    BY Zenon
<1>16. (n = 0 \/ Closable(st[n])) => LosesInfo(m, G, r)
    BY <1>3, <1>4, <1>7, <1>14, InfoRemoved
<1>17. \A x \in DOMAIN m.RFDToSocketInfo : x # r /\ n # 0 => State(m, x) # n
    BY <1>4, <1>7, <1>8, OthersOwn
<1>18. n # 0 => \A k \in 1 .. NStates : k # n => z[k] = st[k]
    BY <1>3, <1>6, <1>8, <1>15 DEF WSIOCP_CloseSocketState, BlockTables
<1>19. \A x \in DOMAIN m.RFDToSocketInfo : x # r /\ State(m, x) # 0 => z[State(m, x)] = st[State(m, x)]
  <2>1. CASE n = 0
      BY <1>3, <1>15, <2>1
  <2>2. CASE n # 0
    <3>1. \A x \in DOMAIN m.RFDToSocketInfo : State(m, x) # 0 => State(m, x) \in 1 .. NStates
        BY <1>4, StateIs
    <3>2. QED
        BY <1>17, <1>18, <2>2, <3>1
  <2>3. QED
      BY <2>1, <2>2
<1>20. ASSUME LosesInfo(m, G, r), \A a : Awaits(z, io, a) => Awaits(st, io, a), Ops(z, io)
       PROVE  PInv'
  <2>1. \A a : Awaits(z, io, a) => Awaits(st, io, a) /\ a # r
      BY <1>12, <1>20, Zenon
  <2>2. PICK K : K = th'
      BY Zenon
  <2>3. \A u \in Threads : th[u].pc = "closeState" /\ th[u].rfd # r => K[u] = th[u]
      BY <1>11, <2>2
  <2>4. Closed(G, z, K) /\ QuietWaits(G, z, io)
    <3>1. /\ LosesInfo(m, G, r) /\ r \in DOMAIN m.RFDToSocketInfo /\ Waits(m, st, io, table) /\ Closed(m, st, th) /\ QuietWaits(m, st, io)
        BY <1>4, <1>7, <1>13, <1>20, Zenon
    <3>2. QED
        BY <1>19, <2>1, <2>3, <3>1, LosesPending, SMTT(40)
  <2>5. Ports(G, sock, port)
      BY <1>13, <1>20, LosesPorts, Zenon
  <2>6. QED
      BY <1>5, <1>10, <1>14, <1>15, <1>20, <2>2, <2>4, <2>5, Zenon DEF PInv
<1>21. CASE n = 0
  <2>1. z = st
      BY <1>3, <1>15, <1>21
  <2>2. QED
      BY <1>13, <1>16, <1>20, <1>21, <2>1, Zenon
<1>22. CASE n # 0 /\ Closable(st[n])
  <2>1. z[n] = NoState
      BY <1>3, <1>6, <1>8, <1>15, <1>22 DEF WSIOCP_CloseSocketState, BlockTables
  <2>2. st[n] # NoState
      BY <1>4, <1>7, <1>8, <1>22, BlockIs DEF StatesOwned
  <2>3. Ops(z, io)
      BY <1>6, <1>8, <1>13, <1>18, <1>22, <2>1, <2>2, ClosingBlock
  <2>4. \A a : Awaits(z, io, a) => Awaits(st, io, a)
    <3>1. \A k \in 1 .. NStates : Listed(z, k) = Listed(st, k) \/ Listed(z, k) = <<>>
        BY <1>18, <1>22, <2>1 DEF Listed
    <3>2. QED
        BY <3>1 DEF Awaits
  <2>5. QED
      BY <1>16, <1>20, <1>22, <2>3, <2>4, Zenon
<1>23. CASE n # 0 /\ ~Closable(st[n])
  <2>1. G = m
      BY <1>3, <1>14, <1>23
  <2>2. PICK b : b = st[n]
      BY Zenon
  <2>3. b \in Blocks /\ b.fd = r
      BY <1>4, <1>7, <1>8, <1>23, <2>2 DEF StatesOwned
  <2>4. PICK d : d = Marked(b)
      BY Zenon
  <2>5. z[n] = d
      BY <1>3, <1>6, <1>8, <1>15, <1>23, <2>2, <2>4 DEF WSIOCP_CloseSocketState, BlockTables
  <2>6. /\ d.fd = b.fd /\ d.wreqs = b.wreqs /\ d.reqs = b.reqs /\ "CLOSE_PENDING" \in d.masks
        /\ ("READ_QUEUED" \in d.masks <=> "READ_QUEUED" \in b.masks) /\ ("CONNECT_PENDING" \in d.masks <=> "CONNECT_PENDING" \in b.masks)
        /\ Closable(d) <=> Closable(b)
      BY <2>3, <2>4, MarkedBlock
  <2>7. b # NoState /\ d # NoState
    <3>1. b # NoState
        BY <2>3, BlockIs
    <3>2. d \in Blocks
        BY <2>3, <2>4 DEF Blocks, Masks, Marked
    <3>3. QED
        BY <3>1, <3>2, BlockIs
  <2>8. Fits(d, io, n)
    <3>1. Fits(b, io, n)
        BY <1>8, <1>13, <1>23, <2>2, <2>7, Zenon DEF Ops, Counts
    <3>2. d.masks \cap {"SOCKET_ATTACHED", "CLOSE_PENDING"} # {}
        BY <2>6
    <3>3. QED
        BY <2>6, <3>1, <3>2, Remarked
  <2>9. Ops(z, io)
      BY <1>6, <1>8, <1>13, <1>18, <1>23, <2>2, <2>5, <2>6, <2>7, <2>8, MarkedOps
  <2>10. \A a : Awaits(z, io, a) => Awaits(st, io, a)
    <3>1. \A k \in 1 .. NStates : Listed(z, k) = Listed(st, k)
        BY <1>18, <1>23, <2>2, <2>5, <2>6, <2>7 DEF Listed
    <3>2. QED
        BY <3>1 DEF Awaits
  <2>11. Lingers(d)
      BY <1>23, <2>2, <2>6 DEF Lingers
  <2>12. Closed(m, z, th')
    <3>1. ASSUME NEW x \in DOMAIN m.RFDToSocketInfo, Socket(m, x) = INVALID_SOCKET
          PROVE  \/ \E u \in Threads : th'[u].pc = "closeState" /\ th'[u].rfd = x
                 \/ State(m, x) # 0 /\ Lingers(z[State(m, x)])
      <4>1. CASE x = r
          BY <1>8, <1>23, <2>5, <2>11, <4>1
      <4>2. CASE x # r
        <5>1. \/ \E u \in Threads : th[u].pc = "closeState" /\ th[u].rfd = x
              \/ State(m, x) # 0 /\ Lingers(st[State(m, x)])
            BY <1>13, <3>1, Zenon DEF Closed
        <5>2. \A u \in Threads : th[u].pc = "closeState" /\ th[u].rfd = x => th'[u] = th[u]
            BY <1>11, <4>2
        <5>3. State(m, x) # 0 => z[State(m, x)] = st[State(m, x)]
            BY <1>19, <4>2, Zenon
        <5>4. QED
            BY <5>1, <5>2, <5>3, Zenon
      <4>3. QED
          BY <4>1, <4>2
    <3>2. QED
        BY <3>1, Zenon DEF Closed
  <2>13. QuietWaits(m, z, io)
    <3>1. ASSUME NEW a, Awaits(z, io, a) PROVE Awaits(st, io, a) /\ SameState(m, m, st, z, a)
      <4>1. Awaits(st, io, a) /\ a # r /\ a \in DOMAIN m.RFDToSocketInfo
          BY <1>4, <1>12, <2>10, <3>1, AwaitsIs, Zenon DEF Valid
      <4>2. QED
          BY <1>19, <4>1, Zenon DEF SameState
    <3>2. QED
        BY <1>13, <3>1, QuietKept, Zenon
  <2>14. QED
      BY <1>5, <1>10, <1>13, <1>14, <1>15, <2>1, <2>9, <2>12, <2>13, Zenon DEF PInv
<1>24. QED
    BY <1>21, <1>22, <1>23

LEMMA RemoveSocketPending ==
    ASSUME IInv, PInv, NEW t \in Threads, RemoveSocket(t)
    PROVE  PInv'
<1>1. th[t].pc = "removeSocket" /\ m' = removeSocketToRFD(m, th[t].h) /\ Go(t, "closesocket")
      /\ UNCHANGED <<sock, crt, streams, port, st, io, table, sockets, files, lost>>
    BY Zenon DEF RemoveSocket, At
<1>2. ThreadTypes(th) /\ MapGood(m)
    BY Zenon DEF IInv, Types
<1>3. PICK p : p.pc = "closesocket" /\ Moves(th, th', t, p)
  <2>1. "closesocket" \in Places
      BY DEF Places
  <2>2. QED
      BY <1>1, <1>2, <2>1, Went, Zenon
<1>4. Steady(th, th')
    BY <1>1, <1>3 DEF Moves, Steady, Starters, Closers
<1>5. SameInfos(m, m')
    BY <1>1, <1>2, Forgotten
<1>6. UNCHANGED <<sock, port, st, io>>
    BY <1>1
<1>7. QED
    BY <1>4, <1>5, <1>6, PendingMoves, Zenon

LEMMA CloseSocketPending ==
    ASSUME IInv, PInv, NEW t \in Threads, CloseSocket(t)
    PROVE  PInv'
<1>1. PICK h : h = th[t].h
    BY Zenon
<1>2. /\ th[t].pc = "closesocket" /\ sock' = [sock EXCEPT ![h] = 0] /\ port' = [port EXCEPT ![h] = -1] /\ Return(t)
      /\ UNCHANGED <<m, crt, streams, st, io, table, sockets, files, lost>>
    BY <1>1, Zenon DEF CloseSocket, At
<1>3. m' = m /\ st' = st /\ io' = io
    BY <1>2
<1>4. ThreadTypes(th) /\ MapGood(m) /\ HandlesHeld(m, sock, th) /\ sock \in [Handles -> Nat] /\ port \in [Handles -> Int]
    BY Zenon DEF IInv, Types, WorldTypes
<1>5. h \in Handles /\ (\A r \in DOMAIN m.RFDToSocketInfo : Socket(m, r) # h) /\ (\A u \in Threads : u # t /\ Holding(th[u]) => th[u].h # h)
  <2>1. Holding(th[t])
      BY <1>2 DEF Holding
  <2>2. QED
      BY <1>1, <1>4, <2>1, Zenon DEF HandlesHeld
<1>6. PICK k : k = -1
    BY Zenon
<1>7. /\ sock'[h] = 0 /\ port'[h] = -1
      /\ \A g \in Handles : g # h => sock'[g] = sock[g] /\ port'[g] = port[g]
  <2>1. sock'[h] = 0 /\ \A g \in Handles : g # h => sock'[g] = sock[g]
      BY <1>2, <1>4, <1>5
  <2>2. port' = [port EXCEPT ![h] = k]
      BY <1>2, <1>6
  <2>3. port'[h] = k /\ \A g \in Handles : g # h => port'[g] = port[g]
      BY <1>4, <1>5, <2>2
  <2>4. QED
      BY <1>6, <2>1, <2>3
<1>8. Steady(th, th')
  <2>1. th[t].pc # "closeState"
      BY <1>2
  <2>2. QED
      BY <1>2, <1>4, <2>1, ReturnSteady, Zenon
<1>9. Ops(st, io) /\ Ports(m, sock, port) /\ Starting(port, th) /\ Closed(m, st, th) /\ QuietWaits(m, st, io)
    BY Zenon DEF PInv
<1>10. Ports(m, sock', port')
  <2>1. \A g \in Handles : sock'[g] = 0 => port'[g] = -1
      BY <1>7, <1>9 DEF Ports
  <2>2. \A r \in DOMAIN m.RFDToSocketInfo : Valid(m, r) => Socket(m, r) \in Handles /\ Socket(m, r) # h
      BY <1>4, <1>5, StateIs DEF Valid
  <2>3. \A r \in DOMAIN m.RFDToSocketInfo : Valid(m, r) => port'[Socket(m, r)] = port[Socket(m, r)]
      BY <1>7, <2>2, Zenon
  <2>4. QED
      BY <1>9, <2>1, <2>3 DEF Ports
<1>11. Closed(m, st, th') /\ Starting(port, th')
    BY <1>8, <1>9, StartingStays, ClosedStays, Zenon DEF Steady
<1>12. Starting(port', th')
  <2>1. ASSUME NEW u \in Threads, th'[u].pc = "addSocket" PROVE port'[th'[u].h] = -1
    <3>1. th'[u] = th[u]
        BY <1>8, <2>1 DEF Steady, Starters
    <3>2. th[u].h \in Handles /\ port[th[u].h] = -1
        BY <1>4, <1>9, <2>1, <3>1 DEF HandlesHeld, Holding, Starting
    <3>3. QED
        BY <1>7, <3>1, <3>2
  <2>2. QED
      BY <2>1, Zenon DEF Starting
<1>13. QED
    BY <1>3, <1>9, <1>10, <1>11, <1>12, Zenon DEF PInv

LEMMA FDAPI_CloseDuplicatedSocketPending ==
    ASSUME IInv, PInv, NEW t \in Threads, FDAPI_CloseDuplicatedSocket(t)
    PROVE  PInv'
<1>1. PICK r \in Usable(t) :
         /\ lookupSocket(m, r) # INVALID_SOCKET
         /\ m' = removeRFDToSocketInfo(m, r)
         /\ Start(t, "removeSocket", -1, lookupSocket(m, r), <<>>)
         /\ UNCHANGED <<sock, crt, streams, port, st, io, sockets, files, lost>>
    BY Zenon DEF FDAPI_CloseDuplicatedSocket
<1>2. sock' = sock /\ port' = port /\ st' = st /\ io' = io
    BY <1>1
<1>3. ThreadTypes(th) /\ MapGood(m) /\ Waits(m, st, io, table)
    BY Zenon DEF IInv, Types
<1>4. r \in DOMAIN table /\ Unused(th, r) /\ r \in DOMAIN m.RFDToSocketInfo
    BY <1>1, UsableIs, LookedUp, Zenon DEF Valid
<1>5. LosesInfo(m, m', r)
    BY <1>1, <1>3, <1>4, InfoRemoved
<1>6. Steady(th, th')
  <2>1. "removeSocket" # "addSocket"
      OBVIOUS
  <2>2. QED
      BY <1>1, <1>3, <2>1, StartSteady, Zenon
<1>7. Ops(st, io) /\ Ports(m, sock, port) /\ Starting(port, th) /\ Closed(m, st, th) /\ QuietWaits(m, st, io)
    BY Zenon DEF PInv
<1>8. PICK G : G = m'
    BY Zenon
<1>9. PICK K : K = th'
    BY Zenon
<1>10. Closed(G, st, K) /\ QuietWaits(G, st, io)
  <2>1. /\ LosesInfo(m, G, r) /\ r \in DOMAIN m.RFDToSocketInfo /\ Waits(m, st, io, table) /\ Closed(m, st, th) /\ QuietWaits(m, st, io)
      BY <1>3, <1>4, <1>5, <1>7, <1>8, Zenon
  <2>2. \A a : Awaits(st, io, a) => Awaits(st, io, a) /\ a # r
      BY <1>3, <1>4, AwaitsIs, Zenon
  <2>3. \A u \in Threads : th[u].pc = "closeState" /\ th[u].rfd # r => K[u] = th[u]
      BY <1>6, <1>9 DEF Steady, Closers
  <2>4. QED
      BY <2>1, <2>2, <2>3, LosesPending, SMTT(40)
<1>11. Ports(G, sock, port) /\ Starting(port, K)
    BY <1>5, <1>6, <1>7, <1>8, <1>9, LosesPorts, StartingStays, Zenon DEF Steady
<1>12. QED
    BY <1>2, <1>7, <1>8, <1>9, <1>10, <1>11, Zenon DEF PInv

(* The calls that leave the sockets alone. *)
LEMMA CrtTablesOnly ==
    ASSUME IInv, NEW c
    PROVE  SameInfos(m, addCrtFD(m, c)) /\ SameInfos(m, removeCrtFD(m, c))
<1>1. MapGood(m) /\ CrtTables(m, crt)
    BY Zenon DEF IInv
<1>2. SameInfos(m, addCrtFD(m, c))
  <2>1. CASE AddedCrtFD(m, c) = INVALID_FD \/ c \in DOMAIN m.CrtFDToRFD
      BY <2>1, CrtNotAdded DEF SameInfos
  <2>2. CASE AddedCrtFD(m, c) # INVALID_FD /\ c \notin DOMAIN m.CrtFDToRFD
      BY <1>1, <2>2, CrtAdded
  <2>3. QED
      BY <2>1, <2>2
<1>3. SameInfos(m, removeCrtFD(m, c))
  <2>1. CASE c > 2 /\ c \in DOMAIN m.CrtFDToRFD
    <3>1. m.CrtFDToRFD[c] \in DOMAIN m.RFDToCrtFD
        BY <1>1, <2>1 DEF CrtTables
    <3>2. QED
        BY <1>1, <2>1, <3>1, CrtRemoved
  <2>2. CASE ~(c > 2 /\ c \in DOMAIN m.CrtFDToRFD)
      BY <2>2 DEF SameInfos, removeCrtFD, LAST_RESERVED_RFD_INDEX
  <2>3. QED
      BY <2>1, <2>2
<1>4. QED
    BY <1>2, <1>3

LEMMA FilesPending ==
    ASSUME IInv, PInv, NEW t \in Threads, Files(t) \/ Call(t) \/ CallReturns(t)
    PROVE  PInv'
<1>1. ThreadTypes(th)
    BY Zenon DEF IInv, Types
<1>2. SameInfos(m, m)
    BY DEF SameInfos
<1>3. "addCrtFD" # "addSocket" /\ "crt_close" # "addSocket" /\ "windows" # "addSocket"
    OBVIOUS
<1>4. ASSUME NEW n, NewCrt(t, n) PROVE PInv'
  <2>1. (\E q : Start(t, "addCrtFD", -1, INVALID_SOCKET, q)) /\ UNCHANGED <<m, sock, port, st, io>>
      BY <1>4, Zenon DEF NewCrt
  <2>2. QED
      BY <1>1, <1>2, <1>3, <2>1, StartSteady, PendingMoves, Zenon
<1>5. CASE AddCrtFD(t)
  <2>1. PICK c : th[t].pc = "addCrtFD" /\ m' = addCrtFD(m, c) /\ UNCHANGED <<sock, port, st, io>>
      BY <1>5, Zenon DEF AddCrtFD, At
  <2>2. PICK p : /\ th' = [th EXCEPT ![t] = p]
                 /\ p = IF Len(th[t].c) = 1 THEN Idle ELSE [th[t] EXCEPT !.c = Tail(th[t].c)]
      BY <1>5, Zenon DEF AddCrtFD
  <2>3. p.pc # "addSocket" /\ th[t].pc # "closeState"
    <3>1. IsPlace(th[t])
        BY <1>1, Zenon DEF ThreadTypes
    <3>2. [th[t] EXCEPT !.c = Tail(th[t].c)].pc = "addCrtFD"
        BY <2>1, <3>1 DEF IsPlace
    <3>3. QED
        BY <2>1, <2>2, <3>2, IdleIs
  <2>4. Steady(th, th')
      BY <1>1, <2>2, <2>3, SteadyIs, Zenon
  <2>5. SameInfos(m, m')
      BY <2>1, CrtTablesOnly, Zenon
  <2>6. QED
      BY <2>1, <2>4, <2>5, PendingMoves, Zenon
<1>6. CASE fopen(t) \/ FDAPI_fileno(t)
  <2>1. th' = th /\ UNCHANGED <<sock, port, st, io>> /\ (m' = m \/ \E c : m' = addCrtFD(m, c))
      BY <1>6 DEF fopen, FDAPI_fileno
  <2>2. Steady(th, th')
      BY <2>1 DEF Steady, Starters, Closers
  <2>3. SameInfos(m, m')
      BY <1>2, <2>1, CrtTablesOnly, Zenon
  <2>4. QED
      BY <2>1, <2>2, <2>3, PendingMoves, Zenon
<1>7. CASE FDAPI_fclose(t) \/ CloseCrtFD(t)
  <2>1. PICK c : m' = removeCrtFD(m, c) /\ Start(t, "crt_close", -1, INVALID_SOCKET, <<c>>) /\ UNCHANGED <<sock, port, st, io>>
      BY <1>7, Zenon DEF FDAPI_fclose, CloseCrtFD
  <2>2. Steady(th, th')
      BY <1>1, <1>3, <2>1, StartSteady, Zenon
  <2>3. SameInfos(m, m')
      BY <2>1, CrtTablesOnly, Zenon
  <2>4. QED
      BY <2>1, <2>2, <2>3, PendingMoves, Zenon
<1>8. CASE CrtClose(t) \/ CallReturns(t)
  <2>1. (th[t].pc = "crt_close" \/ th[t].pc = "windows") /\ Return(t) /\ UNCHANGED <<m, sock, port, st, io>>
      BY <1>8, Zenon DEF CrtClose, CallReturns, At
  <2>2. th[t].pc # "closeState"
      BY <2>1
  <2>3. Steady(th, th')
      BY <1>1, <2>1, <2>2, ReturnSteady, Zenon
  <2>4. m' = m /\ UNCHANGED <<sock, port, st, io>>
      BY <2>1
  <2>5. QED
      BY <1>2, <2>3, <2>4, PendingMoves, Zenon
<1>9. CASE Call(t)
  <2>1. (\E r, h, c : Start(t, "windows", r, h, c)) /\ UNCHANGED <<m, sock, port, st, io>>
      BY <1>9, Zenon DEF Call
  <2>2. Steady(th, th')
      BY <1>1, <1>3, <2>1, StartSteady, Zenon
  <2>3. m' = m /\ UNCHANGED <<sock, port, st, io>>
      BY <2>1
  <2>4. QED
      BY <1>2, <2>2, <2>3, PendingMoves, Zenon
<1>10. QED
    BY <1>4, <1>5, <1>6, <1>7, <1>8, <1>9, Zenon DEF Files, FDAPI_open, FDAPI_open_osfhandle, FDAPI_pipe

-----------------------------------------------------------------------------
(* The worlds of the completion-port functions. *)
PGood(w) ==
  /\ Ops(w.st, w.io) /\ Ports(w.m, w.sock, w.port) /\ Starting(w.port, th)
  /\ Closed(w.m, w.st, th) /\ QuietWaits(w.m, w.st, w.io)

LEMMA WorldPending ==
    ASSUME PInv
    PROVE  PGood(World)
  BY WorldIs, Zenon DEF PInv, PGood

LEMMA PendingBecomes ==
    ASSUME NEW w, PGood(w), Become(w), th' = th
    PROVE  PInv'
<1>1. m' = w.m /\ sock' = w.sock /\ port' = w.port /\ st' = w.st /\ io' = w.io
    BY Zenon DEF Become
<1>2. QED
    BY <1>1, Zenon DEF PGood, PInv

LEMMA AwaitsSame ==
    ASSUME NEW s, NEW z, NEW q, NEW p, Accepts(p) = Accepts(q), \A k \in 1 .. NStates : Listed(z, k) = Listed(s, k)
    PROVE  \A a : Awaits(z, p, a) <=> Awaits(s, q, a)
  BY DEF Awaits

LEMMA FreeIs ==
    ASSUME NEW w, NEW tb, NEW r, Free(w, tb, r)
    PROVE  ~Awaits(w.st, w.io, r)
  BY Zenon DEF Free, Awaits

LEMMA HandedOutIs ==
    ASSUME NEW w, NEW tb, Good(w, tb), NEW r \in DOMAIN tb
    PROVE  ~Awaits(w.st, w.io, r)
  BY AwaitsIs, Zenon DEF Good

(* Only the block of r changes, and perhaps the port of r. *)
OnlyBlock(w, v, n) == v.m = w.m /\ v.sock = w.sock /\ \A k \in 1 .. NStates : k # n => v.st[k] = w.st[k]
PortOf(w, v, r) == v.port = w.port \/ v.port = [w.port EXCEPT ![Socket(w.m, r)] = r]
Calm(w, v, r) == \A a : Awaits(v.st, v.io, a) => a # r /\ (Awaits(w.st, w.io, a) \/ Quiet(v.m, v.st, a))

LEMMA PortJoins ==
    ASSUME NEW w, NEW tb, Good(w, tb), Ports(w.m, w.sock, w.port), Starting(w.port, th), NEW r, Valid(w.m, r),
           NEW l, l = w.port \/ l = [w.port EXCEPT ![Socket(w.m, r)] = r]
    PROVE  Ports(w.m, w.sock, l) /\ Starting(l, th)
<1>1. CASE l = w.port
    BY <1>1
<1>2. CASE l = [w.port EXCEPT ![Socket(w.m, r)] = r]
  <2>1. PICK h : h = Socket(w.m, r)
      BY Zenon
  <2>2. w.port \in [Handles -> Int] /\ MapGood(w.m) /\ Opened(w.m, w.sock) /\ HandlesHeld(w.m, w.sock, th)
      BY Zenon DEF Good, IsWorld, WorldTypes
  <2>3. h \in Handles /\ r \in DOMAIN w.m.RFDToSocketInfo
      BY <2>1, <2>2, StateIs DEF Valid
  <2>4. l[h] = r /\ \A g \in Handles : g # h => l[g] = w.port[g]
      BY <1>2, <2>1, <2>2, <2>3
  <2>5. w.sock[h] # 0
      BY <2>1, <2>2, <2>3 DEF Opened
  <2>6. \A g \in Handles : w.sock[g] = 0 => l[g] = -1
      BY <2>4, <2>5 DEF Ports
  <2>7. ASSUME NEW x \in DOMAIN w.m.RFDToSocketInfo, Valid(w.m, x) PROVE l[Socket(w.m, x)] = -1 \/ l[Socket(w.m, x)] = x
    <3>1. CASE x = r
        BY <2>1, <2>4, <3>1
    <3>2. CASE x # r
      <4>1. Socket(w.m, x) \in Handles
          BY <2>2, <2>7, StateIs DEF Valid
      <4>2. Socket(w.m, x) # h
          BY <2>1, <2>2, <2>3, <2>7, <3>2 DEF Opened
      <4>3. w.port[Socket(w.m, x)] = -1 \/ w.port[Socket(w.m, x)] = x
          BY <2>7, Zenon DEF Ports
      <4>4. QED
          BY <2>4, <4>1, <4>2, <4>3
    <3>3. QED
        BY <3>1, <3>2
  <2>8. ASSUME NEW t \in Threads, th[t].pc = "addSocket" PROVE l[th[t].h] = -1
    <3>1. th[t].h \in Handles /\ h # th[t].h
        BY <2>1, <2>2, <2>3, <2>8 DEF HandlesHeld, Holding
    <3>2. w.port[th[t].h] = -1
        BY <2>8 DEF Starting
    <3>3. QED
        BY <2>4, <3>1, <3>2
  <2>9. QED
      BY <2>6, <2>7, <2>8, Zenon DEF Ports, Starting
<1>3. QED
    BY <1>1, <1>2

LEMMA TouchPending ==
    ASSUME NEW w, NEW tb, Good(w, tb), PGood(w), NEW r, Valid(w.m, r), NEW n \in 1 .. NStates, n = State(w.m, r),
           NEW v, OnlyBlock(w, v, n), PortOf(w, v, r), Calm(w, v, r), Ops(v.st, v.io)
    PROVE  PGood(v)
<1>1. /\ MapGood(w.m) /\ StatesOwned(w.m, w.st) /\ Waits(w.m, w.st, w.io, tb)
      /\ Ports(w.m, w.sock, w.port) /\ Starting(w.port, th) /\ Closed(w.m, w.st, th) /\ QuietWaits(w.m, w.st, w.io)
    BY Zenon DEF Good, PGood
<1>2. v.m = w.m /\ v.sock = w.sock
    BY Zenon DEF OnlyBlock
<1>3. Ports(v.m, v.sock, v.port) /\ Starting(v.port, th)
  <2>1. v.port = w.port \/ v.port = [w.port EXCEPT ![Socket(w.m, r)] = r]
      BY Zenon DEF PortOf
  <2>2. Ports(w.m, w.sock, v.port) /\ Starting(v.port, th)
      BY <1>1, <2>1, PortJoins, Zenon
  <2>3. QED
      BY <1>2, <2>2
<1>4. ASSUME NEW x \in DOMAIN w.m.RFDToSocketInfo, x # r PROVE SameState(w.m, v.m, w.st, v.st, x)
  <2>1. State(w.m, x) # 0 => State(w.m, x) \in 1 .. NStates /\ State(w.m, x) # n
    <3>1. r \in DOMAIN w.m.RFDToSocketInfo /\ State(w.m, r) # 0
        BY DEF Valid
    <3>2. QED
        BY <1>1, <1>4, <3>1, StateIs, OthersOwn
  <2>2. State(w.m, x) # 0 => v.st[State(w.m, x)] = w.st[State(w.m, x)]
      BY <2>1, Zenon DEF OnlyBlock
  <2>3. QED
      BY <1>2, <2>2 DEF SameState
<1>5. Closed(v.m, v.st, th)
  <2>1. \A x \in DOMAIN v.m.RFDToSocketInfo : Socket(v.m, x) = INVALID_SOCKET =>
           x \in DOMAIN w.m.RFDToSocketInfo /\ SameState(w.m, v.m, w.st, v.st, x)
      BY <1>2, <1>4 DEF Valid
  <2>2. QED
      BY <1>1, <2>1, ClosedKept, Zenon
<1>6. QuietWaits(v.m, v.st, v.io)
  <2>1. ASSUME NEW a, Awaits(v.st, v.io, a)
        PROVE  Quiet(v.m, v.st, a) \/ (Awaits(w.st, w.io, a) /\ (State(w.m, a) # 0 => SameState(w.m, v.m, w.st, v.st, a)))
    <3>1. a # r /\ (Awaits(w.st, w.io, a) \/ Quiet(v.m, v.st, a))
        BY <2>1, Zenon DEF Calm
    <3>2. Awaits(w.st, w.io, a) => a \in DOMAIN w.m.RFDToSocketInfo
        BY <1>1, AwaitsIs, Zenon DEF Valid
    <3>3. QED
        BY <1>4, <3>1, <3>2, Zenon
  <2>2. QED
      BY <1>1, <2>1, QuietKept, Zenon
<1>7. QED
    BY <1>3, <1>5, <1>6, Zenon DEF PGood

LEMMA GetsPending ==
    ASSUME NEW w, NEW tb, Good(w, tb), PGood(w), NEW r, Valid(w.m, r), NEW v, Gets(w, v, r)
    PROVE  PGood(v)
<1>1. CASE v = w
    BY <1>1
<1>2. CASE \E n \in 1 .. NStates : Makes(w, v, r, n) /\ Aside(w, v) /\ IsWorld(v)
  <2>1. PICK n \in 1 .. NStates : Makes(w, v, r, n) /\ Aside(w, v) /\ IsWorld(v)
      BY <1>2, Zenon
  <2>2. /\ MapGood(w.m) /\ StatesOwned(w.m, w.st) /\ Waits(w.m, w.st, w.io, tb) /\ w.st \in BlockTables /\ w.io \subseteq Operations
        /\ Ops(w.st, w.io) /\ Ports(w.m, w.sock, w.port) /\ Starting(w.port, th) /\ Closed(w.m, w.st, th) /\ QuietWaits(w.m, w.st, w.io)
      BY Zenon DEF Good, PGood, IsWorld, WorldTypes, BlockTables
  <2>3. /\ State(w.m, r) = 0 /\ w.st[n] = NoState /\ v.st = [w.st EXCEPT ![n] = NewBlock(r)]
        /\ SetsInfo(w.m, v.m, r, [socket |-> Socket(w.m, r), state |-> n])
        /\ v.sock = w.sock /\ v.port = w.port /\ v.io = w.io
      BY <2>1, Zenon DEF Makes, Aside
  <2>4. v.st[n] = NewBlock(r) /\ \A k \in 1 .. NStates : k # n => v.st[k] = w.st[k]
      BY <2>2, <2>3 DEF BlockTables
  <2>5. r \in Nat /\ r \in DOMAIN w.m.RFDToSocketInfo
      BY <2>2, StateIs DEF Valid
  <2>6. Ops(v.st, v.io)
    <3>1. NoOps(w.io, n)
        BY <2>2, <2>3, FreeHasNone DEF Ops
    <3>2. Fits(NewBlock(r), w.io, n)
      <4>1. NewBlock(r).wreqs = 0 /\ "READ_QUEUED" \notin NewBlock(r).masks /\ "CONNECT_PENDING" \notin NewBlock(r).masks
          BY <2>5, NewBlockIs
      <4>2. QED
          BY <3>1, <4>1, NoneCounted, Zenon
    <3>3. \A o \in w.io : Counted(o) /\ o.st = n => Keyed(v.st, o)
        BY <3>1, Zenon DEF NoOps
    <3>4. Elsewhere(w.io, w.io, n) /\ Single(w.io)
        BY <2>2, SameElsewhere, Zenon DEF Ops
    <3>5. v.st[n] # NoState => Fits(v.st[n], w.io, n)
        BY <2>4, <3>2
    <3>6. Ops(v.st, w.io)
        BY <2>2, <2>4, <3>3, <3>4, <3>5, OneBlock, SMTT(40)
    <3>7. QED
        BY <2>3, <3>6
  <2>7. ASSUME NEW x \in DOMAIN w.m.RFDToSocketInfo, x # r PROVE SameState(w.m, v.m, w.st, v.st, x)
    <3>1. State(w.m, x) # 0 => State(w.m, x) \in 1 .. NStates /\ State(w.m, x) # n
      <4>1. State(w.m, x) # 0 => w.st[State(w.m, x)] \in Blocks
          BY <2>2, Zenon DEF StatesOwned
      <4>2. State(w.m, x) # 0 => w.st[State(w.m, x)] # NoState
          BY <4>1, BlockIs
      <4>3. QED
          BY <2>2, <2>3, <4>2, StateIs
    <3>2. State(w.m, x) # 0 => v.st[State(w.m, x)] = w.st[State(w.m, x)]
        BY <2>4, <3>1, Zenon
    <3>3. OneInfo(w.m, v.m, r)
        BY <2>3, Zenon DEF OneInfo
    <3>4. QED
        BY <2>7, <3>2, <3>3, SameApart
  <2>8. DOMAIN v.m.RFDToSocketInfo = DOMAIN w.m.RFDToSocketInfo /\ Socket(v.m, r) = Socket(w.m, r)
      BY <2>3 DEF SetsInfo, Socket
  <2>9. Closed(v.m, v.st, th)
    <3>1. ASSUME NEW x \in DOMAIN v.m.RFDToSocketInfo, Socket(v.m, x) = INVALID_SOCKET
          PROVE  x \in DOMAIN w.m.RFDToSocketInfo /\ SameState(w.m, v.m, w.st, v.st, x)
      <4>1. x # r
          BY <2>8, <3>1, Zenon DEF Valid
      <4>2. QED
          BY <2>7, <2>8, <3>1, <4>1
    <3>2. QED
        BY <2>2, <3>1, ClosedKept, Zenon
  <2>10. Ports(v.m, v.sock, v.port)
    <3>1. ASSUME NEW x, Valid(v.m, x) PROVE Valid(w.m, x) /\ Socket(v.m, x) = Socket(w.m, x)
      <4>1. x \in DOMAIN w.m.RFDToSocketInfo
          BY <2>8, <3>1 DEF Valid
      <4>2. Socket(v.m, x) = Socket(w.m, x)
          BY <2>7, <2>8, <4>1, Zenon DEF SameState
      <4>3. QED
          BY <3>1, <4>1, <4>2, Zenon DEF Valid
    <3>2. Ports(v.m, w.sock, w.port)
        BY <2>2, <3>1, PortsKept, Zenon
    <3>3. QED
        BY <2>3, <3>2
  <2>11. QuietWaits(v.m, v.st, v.io)
    <3>1. \A k \in 1 .. NStates : Listed(v.st, k) = Listed(w.st, k)
      <4>1. Listed(v.st, n) = Listed(w.st, n)
          BY <2>3, <2>4, <2>5, NewBlockIs, BlockIs DEF Listed
      <4>2. QED
          BY <2>4, <4>1 DEF Listed
    <3>2. \A a : Awaits(v.st, v.io, a) <=> Awaits(w.st, w.io, a)
        BY <2>3, <3>1, AwaitsSame
    <3>3. ASSUME NEW a, Awaits(v.st, v.io, a) PROVE Awaits(w.st, w.io, a) /\ SameState(w.m, v.m, w.st, v.st, a)
      <4>1. Awaits(w.st, w.io, a)
          BY <3>2, <3>3, Zenon
      <4>2. a \in DOMAIN w.m.RFDToSocketInfo /\ State(w.m, a) # 0
          BY <2>2, <4>1, AwaitsIs, Zenon DEF Valid, QuietWaits, Quiet
      <4>3. QED
          BY <2>3, <2>7, <4>1, <4>2, Zenon
    <3>4. QED
        BY <2>2, <3>3, QuietKept, Zenon
  <2>12. Starting(v.port, th)
      BY <2>2, <2>3
  <2>13. QED
      BY <2>6, <2>9, <2>10, <2>11, <2>12, Zenon DEF PGood
<1>3. QED
    BY <1>1, <1>2, Zenon DEF Gets

(* The block of r becomes b, which its operations fit. *)
LEMMA BlockPending ==
    ASSUME NEW w, NEW tb, Good(w, tb), PGood(w), NEW r, Valid(w.m, r), ~Awaits(w.st, w.io, r),
           NEW n \in 1 .. NStates, n = State(w.m, r), NEW b, SameBut(b, w.st[n]), Fits(b, w.io, n),
           NEW v, NEW l, Sets(w, v, n, b, l), l = w.port \/ l = [w.port EXCEPT ![Socket(w.m, r)] = r]
    PROVE  PGood(v) /\ \A a : Awaits(v.st, v.io, a) <=> Awaits(w.st, w.io, a)
<1>1. w.st \in BlockTables /\ w.io \subseteq Operations /\ Ops(w.st, w.io)
    BY Zenon DEF Good, IsWorld, WorldTypes, BlockTables, PGood
<1>2. v.m = w.m /\ v.sock = w.sock /\ v.io = w.io /\ v.port = l /\ v.st = [w.st EXCEPT ![n] = b]
    BY Zenon DEF Sets
<1>3. v.st[n] = b /\ \A k \in 1 .. NStates : k # n => v.st[k] = w.st[k]
    BY <1>1, <1>2 DEF BlockTables
<1>4. b \in Blocks /\ w.st[n] \in Blocks /\ b.fd = w.st[n].fd /\ b.reqs = w.st[n].reqs
    BY Zenon DEF SameBut
<1>5. b # NoState /\ w.st[n] # NoState
    BY <1>4, BlockIs
<1>6. \A k \in 1 .. NStates : Listed(v.st, k) = Listed(w.st, k)
    BY <1>3, <1>4, <1>5 DEF Listed
<1>7. \A a : Awaits(v.st, v.io, a) <=> Awaits(w.st, w.io, a)
    BY <1>2, <1>6, AwaitsSame
<1>8. Calm(w, v, r)
    BY <1>7, Zenon DEF Calm
<1>9. OnlyBlock(w, v, n) /\ PortOf(w, v, r)
    BY <1>2, <1>3, Zenon DEF OnlyBlock, PortOf
<1>10. Ops(v.st, w.io)
    BY <1>1, <1>3, <1>4, <1>5, MarkedOps
<1>11. Ops(v.st, v.io)
    BY <1>2, <1>10
<1>12. PGood(v)
    BY <1>8, <1>9, <1>11, TouchPending, Zenon
<1>13. QED
    BY <1>7, <1>12

LEMMA BlockFits ==
    ASSUME NEW w, NEW tb, Good(w, tb), PGood(w), NEW r, Valid(w.m, r), State(w.m, r) # 0
    PROVE  Fits(w.st[State(w.m, r)], w.io, State(w.m, r))
<1>1. State(w.m, r) \in 1 .. NStates /\ w.st[State(w.m, r)] # NoState
    BY GoodOwns, BlockIs
<1>2. QED
    BY <1>1, Zenon DEF PGood, Ops, Counts

(* The masks of r change, but not what they say of its operations. *)
Tells(b, d, k) ==
  /\ "READ_QUEUED" \in d <=> "READ_QUEUED" \in b.masks
  /\ "CONNECT_PENDING" \in d <=> "CONNECT_PENDING" \in b.masks
  /\ d \cap {"SOCKET_ATTACHED", "CLOSE_PENDING"} = {} => b.masks \cap {"SOCKET_ATTACHED", "CLOSE_PENDING"} = {} \/ k = 0
LEMMA MasksPending ==
    ASSUME NEW w, NEW tb, Good(w, tb), PGood(w), NEW r, Valid(w.m, r), ~Awaits(w.st, w.io, r),
           NEW n \in 1 .. NStates, n = State(w.m, r), NEW masks \in SUBSET Masks,
           Tells(w.st[n], masks, w.st[n].wreqs), NEW v, v = SetMasks(w, r, masks)
    PROVE  PGood(v) /\ \A a : Awaits(v.st, v.io, a) <=> Awaits(w.st, w.io, a)
<1>1. IsWorld(w) /\ MapGood(w.m) /\ w.st[n] \in Blocks
  <2>1. State(w.m, r) # 0
      OBVIOUS
  <2>2. w.st[n] \in Blocks
      BY <2>1, GoodOwns
  <2>3. QED
      BY <2>2, Zenon DEF Good
<1>2. PICK b : b = [w.st[n] EXCEPT !.masks = masks]
    BY Zenon
<1>3. Sets(w, v, n, b, w.port) /\ SameBut(b, w.st[n]) /\ b.masks = masks /\ b.wreqs = w.st[n].wreqs
    BY <1>1, <1>2, SetMasksIs
<1>4. Fits(w.st[n], w.io, n)
    BY BlockFits
<1>5. Fits(b, w.io, n)
    BY <1>3, <1>4, Remarked DEF Tells
<1>6. QED
    BY <1>3, <1>5, BlockPending, Zenon

(* A socket that is new, or that waited to be taken, is attached. *)
LEMMA AttachPending ==
    ASSUME NEW w, NEW tb, Good(w, tb), PGood(w), NEW r, Valid(w.m, r), ~Awaits(w.st, w.io, r), State(w.m, r) # 0,
           w.st[State(w.m, r)].masks = {} \/ Resting(w.st[State(w.m, r)]), NEW v, v = WSIOCP_SocketAttach(w, r)
    PROVE  PGood(v)
<1>1. PICK n : n = State(w.m, r)
    BY Zenon
<1>2. IsWorld(w) /\ MapGood(w.m) /\ n \in 1 .. NStates /\ w.st[n] \in Blocks
    BY <1>1, GoodOwns DEF Good
<1>3. PICK b : b = [w.st[n] EXCEPT !.masks = Attached, !.wreqs = 0]
    BY Zenon
<1>4. PICK l : l = [w.port EXCEPT ![Socket(w.m, r)] = r]
    BY Zenon
<1>5. Sets(w, v, n, b, l) /\ SameBut(b, w.st[n]) /\ b.masks = Attached /\ b.wreqs = 0
    BY <1>1, <1>2, <1>3, <1>4, AttachedIs, ZenonT(60)
<1>6. Fits(w.st[n], w.io, n)
    BY <1>1, BlockFits
<1>7. w.st[n].wreqs = 0 /\ "READ_QUEUED" \notin w.st[n].masks /\ "CONNECT_PENDING" \notin w.st[n].masks
    BY <1>1, <1>6 DEF Fits, Resting
<1>8. Fits(b, w.io, n)
    BY <1>5, <1>6, <1>7, Remarked DEF Attached
<1>9. ~Awaits(w.st, w.io, r) /\ (l = w.port \/ l = [w.port EXCEPT ![Socket(w.m, r)] = r])
    BY <1>4
<1>10. QED
    BY <1>1, <1>2, <1>5, <1>8, <1>9, BlockPending, ZenonT(60)

(* The counted operations under way are the same. *)
LEMMA CountedOps ==
    ASSUME NEW s, NEW q, q \subseteq Operations, Ops(s, q), NEW p, p \subseteq Operations,
           \A o : Counted(o) => (o \in p <=> o \in q)
    PROVE  Ops(s, p)
<1>1. \A n : /\ OnBlock(p, n, "send") = OnBlock(q, n, "send")
             /\ n \notin Early => /\ OnBlock(p, n, "read") = OnBlock(q, n, "read")
                                 /\ OnBlock(p, n, "connect") = OnBlock(q, n, "connect")
    BY DEF OnBlock, Counted
<1>2. Counts(s, p)
    BY <1>1, Zenon DEF Ops, Counts, Fits, Marks
<1>3. Single(p)
    BY DEF Ops, Single, Counted
<1>4. Keys(s, p)
    BY Zenon DEF Ops, Keys
<1>5. QED
    BY <1>2, <1>3, <1>4, Zenon DEF Ops

LEMMA AcceptOps ==
    ASSUME NEW s, NEW q, q \subseteq Operations, Ops(s, q), NEW p, p \subseteq Operations,
           \A o : o.kind # "accept" => (o \in p <=> o \in q)
    PROVE  Ops(s, p)
<1>1. \A o : Counted(o) => (o \in p <=> o \in q)
    BY DEF Counted
<1>2. QED
    BY <1>1, CountedOps, Zenon

(* An operation starts on a block: the block counts it or marks it. *)
Adds(c, b, kind) ==
  /\ "SOCKET_ATTACHED" \in b.masks
  /\ b.wreqs = c.wreqs + (IF kind = "send" THEN 1 ELSE 0)
  /\ "READ_QUEUED" \in b.masks <=> "READ_QUEUED" \in c.masks \/ kind = "read"
  /\ "CONNECT_PENDING" \in b.masks <=> "CONNECT_PENDING" \in c.masks \/ kind = "connect"
  /\ kind # "send" => "READ_QUEUED" \notin c.masks /\ "CONNECT_PENDING" \notin c.masks
LEMMA AddedFits ==
    ASSUME NEW q, IsFiniteSet(q), NEW n, NEW o, o \notin q, o.st = n, o.kind \in {"connect", "read", "send"},
           NEW c, NEW b, Fits(c, q, n), Adds(c, b, o.kind)
    PROVE  Fits(b, q \cup {o}, n)
<1>1. IsFiniteSet(OnBlock(q, n, "send"))
  <2>1. OnBlock(q, n, "send") \subseteq q
      BY DEF OnBlock
  <2>2. QED
      BY <2>1, FS_Subset, Zenon
<1>2. \A k : OnBlock(q \cup {o}, n, k) = IF o.kind = k THEN OnBlock(q, n, k) \cup {o} ELSE OnBlock(q, n, k)
    BY DEF OnBlock
<1>3. CASE o.kind = "send"
  <2>1. o \notin OnBlock(q, n, "send")
      BY DEF OnBlock
  <2>2. Cardinality(OnBlock(q, n, "send") \cup {o}) = Cardinality(OnBlock(q, n, "send")) + 1
      BY <1>1, <2>1, FS_AddElement
  <2>3. OnBlock(q \cup {o}, n, "send") = OnBlock(q, n, "send") \cup {o} /\ OnBlock(q \cup {o}, n, "read") = OnBlock(q, n, "read")
        /\ OnBlock(q \cup {o}, n, "connect") = OnBlock(q, n, "connect")
      BY <1>2, <1>3
  <2>4. QED
      BY <1>3, <2>2, <2>3 DEF Fits, Marks, Adds
<1>4. CASE o.kind # "send"
  <2>1. OnBlock(q \cup {o}, n, "send") = OnBlock(q, n, "send")
      BY <1>2, <1>4
  <2>2. Cardinality(OnBlock(q, n, "send")) \in Nat
      BY <1>1, FS_CardinalityType
  <2>3. b.wreqs = Cardinality(OnBlock(q \cup {o}, n, "send"))
      BY <1>4, <2>1, <2>2 DEF Fits, Adds
  <2>4. n \notin Early => ("READ_QUEUED" \in b.masks <=> OnBlock(q \cup {o}, n, "read") # {})
      BY <1>2 DEF Fits, Marks, Adds
  <2>5. n \notin Early => ("CONNECT_PENDING" \in b.masks <=> OnBlock(q \cup {o}, n, "connect") # {})
      BY <1>2 DEF Fits, Marks, Adds
  <2>6. b.masks \cap {"SOCKET_ATTACHED", "CLOSE_PENDING"} # {}
      BY DEF Adds
  <2>7. ~("READ_QUEUED" \in b.masks /\ "CONNECT_PENDING" \in b.masks)
      BY <1>4 DEF Adds
  <2>8. QED
      BY <2>3, <2>4, <2>5, <2>6, <2>7, Zenon DEF Fits, Marks
<1>5. QED
    BY <1>3, <1>4

LEMMA AddedSingle ==
    ASSUME NEW q, Single(q), NEW n, NEW o, o.st = n, NEW c, NEW b, Fits(c, q, n), Adds(c, b, o.kind)
    PROVE  Single(q \cup {o})
<1>1. ASSUME NEW x \in q, x.st = o.st, x.st \notin Early, x.kind = o.kind, x.kind \in {"read", "connect"} PROVE FALSE
  <2>1. x \in OnBlock(q, n, x.kind)
      BY <1>1 DEF OnBlock
  <2>2. QED
      BY <1>1, <2>1 DEF Fits, Marks, Adds
<1>2. QED
    BY <1>1 DEF Single

(* World v has one operation more, on block n of r, and block b for n. *)
Begins(w, v, n, o, b) ==
  /\ v.m = w.m /\ v.sock = w.sock /\ v.port = w.port /\ v.st = [w.st EXCEPT ![n] = b]
  /\ v.io = w.io \cup {o} /\ o \notin w.io /\ IsWorld(v)
LEMMA IssuedPending ==
    ASSUME NEW w, NEW tb, Good(w, tb), PGood(w), NEW r, Valid(w.m, r), ~Awaits(w.st, w.io, r),
           NEW n \in 1 .. NStates, n = State(w.m, r), NEW b, SameBut(b, w.st[n]), NEW v, NEW o, Begins(w, v, n, o, b),
           o.kind \in {"connect", "read", "send"}, IsOp(o, w.port[Socket(w.m, r)], n, o.kind, -1), Adds(w.st[n], b, o.kind)
    PROVE  PGood(v)
<1>1. w.st \in BlockTables /\ IsFiniteSet(w.io) /\ Ops(w.st, w.io) /\ Ports(w.m, w.sock, w.port)
    BY Zenon DEF Good, IsWorld, WorldTypes, BlockTables, PGood
<1>2. v.m = w.m /\ v.sock = w.sock /\ v.port = w.port /\ v.st = [w.st EXCEPT ![n] = b] /\ v.io = w.io \cup {o} /\ o \notin w.io
      /\ v.io \subseteq Operations
    BY Zenon DEF Begins, IsWorld, WorldTypes
<1>3. v.st[n] = b /\ \A k \in 1 .. NStates : k # n => v.st[k] = w.st[k]
    BY <1>1, <1>2 DEF BlockTables
<1>4. b \in Blocks /\ w.st[n] \in Blocks /\ b.fd = w.st[n].fd /\ b.reqs = w.st[n].reqs
    BY Zenon DEF SameBut
<1>5. b # NoState /\ w.st[n] # NoState
    BY <1>4, BlockIs
<1>6. \A k \in 1 .. NStates : Listed(v.st, k) = Listed(w.st, k)
    BY <1>3, <1>4, <1>5 DEF Listed
<1>7. Accepts(v.io) = Accepts(w.io)
    BY <1>2 DEF Accepts
<1>8. Calm(w, v, r)
  <2>1. \A a : Awaits(v.st, v.io, a) <=> Awaits(w.st, w.io, a)
      BY <1>6, <1>7, AwaitsSame
  <2>2. QED
      BY <2>1, Zenon DEF Calm
<1>9. OnlyBlock(w, v, n) /\ PortOf(w, v, r)
    BY <1>2, <1>3, Zenon DEF OnlyBlock, PortOf
<1>10. o.st = n /\ o.key = w.port[Socket(w.m, r)]
    BY Zenon DEF IsOp
<1>11. Fits(w.st[n], w.io, n)
    BY <1>1, <1>5, Zenon DEF Ops, Counts
<1>12. Fits(b, v.io, n)
  <2>1. Fits(b, w.io \cup {o}, n)
      BY <1>1, <1>2, <1>10, <1>11, AddedFits
  <2>2. QED
      BY <1>2, <2>1
<1>13. Single(v.io)
  <2>1. Single(w.io)
      BY <1>1, Zenon DEF Ops
  <2>2. Single(w.io \cup {o})
      BY <1>10, <1>11, <2>1, AddedSingle, Zenon
  <2>3. QED
      BY <1>2, <2>2
<1>14. Keyed(v.st, o)
  <2>1. w.st[n].fd = r
    <3>1. State(w.m, r) # 0
        OBVIOUS
    <3>2. QED
        BY <3>1, GoodOwns
  <2>2. o.key = -1 \/ o.key = r
      BY <1>1, <1>10 DEF Ports, Valid
  <2>3. QED
      BY <1>3, <1>4, <1>5, <1>10, <2>1, <2>2 DEF Keyed
<1>15. ASSUME NEW x \in v.io, Counted(x), x.st = n PROVE Keyed(v.st, x)
  <2>1. CASE x = o
      BY <1>14, <2>1
  <2>2. CASE x # o
    <3>1. x \in w.io
        BY <1>2, <1>15, <2>2
    <3>2. Keyed(w.st, x)
        BY <1>1, <1>15, <3>1, Zenon DEF Ops, Keys
    <3>3. QED
        BY <1>3, <1>4, <1>5, <1>15, <3>2 DEF Keyed
  <2>3. QED
      BY <2>1, <2>2
<1>16. Elsewhere(w.io, v.io, n)
    BY <1>2, <1>10 DEF Elsewhere
<1>17. Ops(v.st, v.io)
  <2>1. Ops(w.st, w.io) /\ v.io \subseteq Operations /\ Single(v.io) /\ Elsewhere(w.io, v.io, n)
      BY <1>1, <1>2, <1>13, <1>16, Zenon
  <2>2. \A x \in v.io : Counted(x) /\ x.st = n => Keyed(v.st, x)
      BY <1>15, Zenon
  <2>3. v.st[n] # NoState => Fits(v.st[n], v.io, n)
      BY <1>3, <1>12
  <2>4. QED
      BY <1>3, <2>1, <2>2, <2>3, OneBlock, SMTT(40)
<1>18. QED
    BY <1>8, <1>9, <1>17, TouchPending, Zenon

(* A connect finishes at once on r: its completion comes, nothing is marked. *)
LEMMA EarlyIssued ==
    ASSUME NEW w, NEW tb, Good(w, tb), PGood(w), NEW r, Valid(w.m, r), ~Awaits(w.st, w.io, r), State(w.m, r) # 0,
           NEW v, NEW o, Issues(w, v, o), o.kind # "accept", ~Counted(o)
    PROVE  PGood(v)
<1>1. v.m = w.m /\ v.sock = w.sock /\ v.st = w.st /\ v.port = w.port /\ v.io = w.io \cup {o}
    BY Zenon DEF Issues
<1>2. Ops(v.st, v.io)
  <2>1. Ops(w.st, w.io) /\ w.io \subseteq Operations /\ v.io \subseteq Operations
      BY Zenon DEF PGood, Good, Issues, IsWorld, WorldTypes
  <2>2. \A x : Counted(x) => (x \in v.io <=> x \in w.io)
      BY <1>1
  <2>3. Ops(w.st, v.io)
      BY <2>1, <2>2, CountedOps, Zenon
  <2>4. QED
      BY <1>1, <2>3
<1>3. Accepts(v.io) = Accepts(w.io)
    BY <1>1 DEF Accepts
<1>4. Calm(w, v, r)
  <2>1. \A a : Awaits(v.st, v.io, a) <=> Awaits(w.st, w.io, a)
      BY <1>1, <1>3, AwaitsSame
  <2>2. QED
      BY <2>1, Zenon DEF Calm
<1>5. PICK n : n = State(w.m, r)
    BY Zenon
<1>6. n \in 1 .. NStates /\ OnlyBlock(w, v, n) /\ PortOf(w, v, r)
  <2>1. n \in 1 .. NStates
      BY <1>5, GoodOwns
  <2>2. QED
      BY <1>1, <2>1, Zenon DEF OnlyBlock, PortOf
<1>7. QED
    BY <1>2, <1>4, <1>5, <1>6, TouchPending, Zenon

(* An accept starts on l, for a socket that is attached and nothing else. *)
LEMMA AcceptIssued ==
    ASSUME NEW w, NEW tb, Good(w, tb), PGood(w), NEW l, Valid(w.m, l), ~Awaits(w.st, w.io, l), State(w.m, l) # 0,
           NEW v, NEW o, Issues(w, v, o), o.kind = "accept", o.acc # l, Quiet(w.m, w.st, o.acc)
    PROVE  PGood(v) /\ ~Awaits(v.st, v.io, l)
<1>1. v.m = w.m /\ v.sock = w.sock /\ v.st = w.st /\ v.port = w.port /\ v.io = w.io \cup {o}
    BY Zenon DEF Issues
<1>2. Ops(v.st, v.io)
  <2>1. Ops(w.st, w.io) /\ w.io \subseteq Operations /\ v.io \subseteq Operations
      BY Zenon DEF PGood, Good, Issues, IsWorld, WorldTypes
  <2>2. \A x : x.kind # "accept" => (x \in v.io <=> x \in w.io)
      BY <1>1
  <2>3. Ops(w.st, v.io)
      BY <2>1, <2>2, AcceptOps, Zenon
  <2>4. QED
      BY <1>1, <2>3
<1>3. \A a : Awaits(v.st, v.io, a) => Awaits(w.st, w.io, a) \/ a = o.acc
    BY <1>1 DEF Awaits, Accepts
<1>4. Calm(w, v, l)
  <2>1. Quiet(v.m, v.st, o.acc)
      BY <1>1
  <2>2. QED
      BY <1>3, <2>1 DEF Calm
<1>5. PICK n : n = State(w.m, l)
    BY Zenon
<1>6. n \in 1 .. NStates /\ OnlyBlock(w, v, n) /\ PortOf(w, v, l)
  <2>1. n \in 1 .. NStates
      BY <1>5, GoodOwns
  <2>2. QED
      BY <1>1, <2>1, Zenon DEF OnlyBlock, PortOf
<1>7. PGood(v)
    BY <1>2, <1>4, <1>5, <1>6, TouchPending, Zenon
<1>8. QED
    BY <1>4, <1>7, Zenon DEF Calm

(* A socket is opened, and the map names it if it can. *)
LEMMA OpenedPending ==
    ASSUME NEW w, NEW tb, Good(w, tb), PGood(w), NEW h \in Handles, w.sock[h] = 0, NEW v, Opens(w, v, h)
    PROVE  PGood(v)
<1>1. /\ IsWorld(w) /\ MapGood(w.m) /\ StatesOwned(w.m, w.st) /\ Waits(w.m, w.st, w.io, tb)
      /\ Ops(w.st, w.io) /\ Ports(w.m, w.sock, w.port) /\ Starting(w.port, th) /\ Closed(w.m, w.st, th) /\ QuietWaits(w.m, w.st, w.io)
    BY Zenon DEF Good, PGood
<1>2. PICK a : a = AddedSocket(w.m, h)
    BY Zenon
<1>3. PICK G : G = v.m
    BY Zenon
<1>4. v.io = w.io /\ v.st = w.st /\ v.port = w.port
    BY <1>2, OpenedGood
<1>5. PICK k : k = w.sockets + 1
    BY Zenon
<1>6. G = addSocket(w.m, h) /\ v.sock = [w.sock EXCEPT ![h] = k]
  <2>1. w = [m |-> w.m, sock |-> w.sock, port |-> w.port, st |-> w.st, io |-> w.io, sockets |-> w.sockets, lost |-> w.lost]
      BY <1>1, Zenon DEF IsWorld
  <2>2. QED
      BY <1>3, <1>5, <2>1 DEF Opens
<1>7. \A g \in Handles : v.sock[g] = 0 => w.port[g] = -1
  <2>1. w.sock \in [Handles -> Nat] /\ w.sockets \in Nat
      BY <1>1, Zenon DEF IsWorld, WorldTypes
  <2>2. \A g \in Handles : v.sock[g] = 0 => w.sock[g] = 0
      BY <1>5, <1>6, <2>1
  <2>3. QED
      BY <1>1, <2>2, Zenon DEF Ports
<1>8. ASSUME Ports(G, w.sock, w.port), Closed(G, w.st, th), QuietWaits(G, w.st, w.io) PROVE PGood(v)
  <2>1. Ports(G, v.sock, w.port)
      BY <1>7, <1>8, Zenon DEF Ports
  <2>2. QED
      BY <1>1, <1>3, <1>4, <1>8, <2>1, Zenon DEF PGood
<1>9. CASE a = INVALID_FD
  <2>1. G = w.m
      BY <1>2, <1>6, <1>9, SocketNotAdded, Zenon
  <2>2. QED
      BY <1>1, <1>8, <2>1, Zenon
<1>10. CASE a # INVALID_FD
  <2>1. GainsInfo(w.m, G, a, [socket |-> h, state |-> 0])
      BY <1>1, <1>2, <1>6, <1>10, SocketAdded
  <2>2. Socket(G, a) = h /\ h # INVALID_SOCKET /\ w.port[h] = -1 /\ a \notin DOMAIN w.m.RFDToSocketInfo
      BY <1>1, <2>1, FdAssumption DEF GainsInfo, Socket, Ports
  <2>3. OneInfo(w.m, G, a)
      BY <2>1, Zenon DEF OneInfo
  <2>4. \A x \in DOMAIN G.RFDToSocketInfo : x # a => x \in DOMAIN w.m.RFDToSocketInfo /\ SameState(w.m, G, w.st, w.st, x)
    <3>1. \A x \in DOMAIN G.RFDToSocketInfo : x # a => x \in DOMAIN w.m.RFDToSocketInfo
        BY <2>1 DEF GainsInfo
    <3>2. QED
        BY <2>3, <3>1, SameApartNow
  <2>5. Ports(G, w.sock, w.port)
    <3>1. ASSUME NEW x \in DOMAIN G.RFDToSocketInfo, Valid(G, x) PROVE w.port[Socket(G, x)] = -1 \/ w.port[Socket(G, x)] = x
      <4>1. CASE x = a
          BY <2>2, <4>1
      <4>2. CASE x # a
        <5>1. x \in DOMAIN w.m.RFDToSocketInfo /\ Socket(G, x) = Socket(w.m, x)
            BY <2>4, <3>1, <4>2, Zenon DEF SameState
        <5>2. Valid(w.m, x)
            BY <3>1, <5>1, Zenon DEF Valid
        <5>3. QED
            BY <1>1, <5>1, <5>2, Zenon DEF Ports
      <4>3. QED
          BY <4>1, <4>2
    <3>2. QED
        BY <1>1, <3>1, Zenon DEF Ports
  <2>6. Closed(G, w.st, th)
    <3>1. \A x \in DOMAIN G.RFDToSocketInfo : Socket(G, x) = INVALID_SOCKET =>
             x \in DOMAIN w.m.RFDToSocketInfo /\ SameState(w.m, G, w.st, w.st, x)
        BY <2>2, <2>4
    <3>2. QED
        BY <1>1, <3>1, ClosedKept, Zenon
  <2>7. QuietWaits(G, w.st, w.io)
    <3>1. \A x : Awaits(w.st, w.io, x) => x \in DOMAIN w.m.RFDToSocketInfo /\ x # a
        BY <1>1, <2>2, AwaitsIs, Zenon DEF Valid
    <3>2. \A x : Awaits(w.st, w.io, x) => SameState(w.m, G, w.st, w.st, x)
        BY <2>3, <3>1, SameApartNow
    <3>3. QED
        BY <1>1, <3>2, QuietKept, Zenon
  <2>8. QED
      BY <1>8, <2>5, <2>6, <2>7, Zenon
<1>11. QED
    BY <1>9, <1>10

(* The socket for the next client gets a block that is attached. *)
LEMMA ReadyPending ==
    ASSUME NEW w, NEW tb, Good(w, tb), PGood(w), FreeStates(w) # {},
           NEW h \in Handles, w.sock[h] = 0, NEW a, a = AddedSocket(w.m, h), a # INVALID_FD,
           NEW u, Opens(w, u, h), NEW v, Readies(u, v, a)
    PROVE  PGood(v) /\ Quiet(v.m, v.st, a) /\ \A x : Awaits(v.st, v.io, x) <=> Awaits(w.st, w.io, x)
<1>1. /\ Good(u, tb) /\ u.io = w.io /\ u.st = w.st /\ Valid(u.m, a) /\ State(u.m, a) = 0 /\ Free(u, tb, a) /\ a \in Nat
  <2>1. /\ Good(u, tb) /\ KeepAll(w.m, u.m) /\ Agree(w.m, w.sock, u.sock) /\ u.io = w.io /\ u.st = w.st /\ u.port = w.port
        /\ u.sock[h] = w.sockets + 1
        /\ \A x \in DOMAIN w.m.RFDToSocketInfo : State(u.m, x) = State(w.m, x)
        /\ a # INVALID_FD => /\ a \in Nat /\ Valid(u.m, a) /\ Socket(u.m, a) = h /\ State(u.m, a) = 0
                             /\ ~Valid(w.m, a) /\ Free(u, tb, a)
      BY OpenedGood
  <2>2. QED
      BY <2>1
<1>2. PGood(u)
    BY OpenedPending, Zenon
<1>3. PICK y : y = WSIOCP_GetSocketState(u, a)
    BY Zenon
<1>4. Gets(u, y, a)
  <2>1. FreeStates(u) # {}
      BY <1>1 DEF FreeStates
  <2>2. a \in DOMAIN u.m.RFDToSocketInfo
      BY <1>1 DEF Valid
  <2>3. QED
      BY <1>1, <1>3, <2>1, <2>2, GetsIs
<1>5. PGood(y)
    BY <1>1, <1>2, <1>4, GetsPending, Zenon
<1>6. /\ Good(y, tb) /\ Valid(y.m, a) /\ State(y.m, a) \in 1 .. NStates /\ Aside(u, y)
      /\ \A k \in 1 .. NStates : Listed(y.st, k) = Listed(u.st, k)
  <2>1. Good(u, tb) /\ Valid(u.m, a) /\ Gets(u, y, a)
      BY <1>1, <1>4
  <2>2. QED
      BY <2>1, GetsGood
<1>7. PICK n \in 1 .. NStates : n = State(y.m, a)
    BY <1>6
<1>8. y.st[n] = NewBlock(a)
  <2>1. u.st \in BlockTables
      BY <1>1, Zenon DEF Good, IsWorld, WorldTypes, BlockTables
  <2>2. Gets(u, y, a) /\ State(u.m, a) = 0
      BY <1>1, <1>4
  <2>3. QED
      BY <1>7, <2>1, <2>2, NewState, Zenon
<1>9. y.st[n].masks = {} /\ y.st[n].wreqs = 0
    BY <1>1, <1>8, NewBlockIs
<1>10. y.io = u.io
    BY <1>6, Zenon DEF Aside
<1>11. ~Awaits(y.st, y.io, a)
  <2>1. Free(y, tb, a)
      BY <1>1, <1>6, <1>10, FreeFollows
  <2>2. QED
      BY <2>1, FreeIs, Zenon
<1>12. PICK masks \in SUBSET Masks : masks = {"SOCKET_ATTACHED"}
    BY DEF Masks
<1>13. v = SetMasks(y, a, masks)
    BY <1>3, <1>12 DEF Readies
<1>14. Tells(y.st[n], masks, y.st[n].wreqs)
    BY <1>9, <1>12 DEF Tells
<1>15. PGood(v) /\ \A x : Awaits(v.st, v.io, x) <=> Awaits(y.st, y.io, x)
    BY <1>5, <1>6, <1>7, <1>11, <1>13, <1>14, MasksPending, ZenonT(60)
<1>16. \A x : Awaits(y.st, y.io, x) <=> Awaits(u.st, u.io, x)
  <2>1. Accepts(y.io) = Accepts(u.io)
      BY <1>10
  <2>2. QED
      BY <1>6, <2>1, AwaitsSame
<1>17. Quiet(v.m, v.st, a)
  <2>1. "CLOSE_PENDING" \notin masks
      BY <1>12
  <2>2. Good(v, tb) /\ Masked(y, v, n, masks)
      BY <1>6, <1>7, <1>13, <2>1, MasksGood
  <2>3. v.m = y.m /\ v.st[n].masks = masks /\ v.st[n].wreqs = y.st[n].wreqs
      BY <2>2, Zenon DEF Masked
  <2>4. QED
      BY <1>7, <1>9, <1>12, <2>3 DEF Quiet, Resting
<1>18. QED
    BY <1>1, <1>15, <1>16, <1>17

(* A socket that is free and has nothing under way is closed. *)
LEMMA ShutPending ==
    ASSUME NEW w, NEW tb, Good(w, tb), PGood(w), NEW r, Valid(w.m, r), NEW n \in 1 .. NStates, n = State(w.m, r), Free(w, tb, r),
           Closable(w.st[n]), NEW h, h = Socket(w.m, r), NEW v, Shuts(w, v, r, n, h)
    PROVE  PGood(v)
<1>1. /\ MapGood(w.m) /\ Opened(w.m, w.sock) /\ HandlesHeld(w.m, w.sock, th) /\ StatesOwned(w.m, w.st) /\ Waits(w.m, w.st, w.io, tb)
      /\ WorldTypes(w.sock, w.port, w.st, w.io, w.sockets)
      /\ Ops(w.st, w.io) /\ Ports(w.m, w.sock, w.port) /\ Starting(w.port, th) /\ Closed(w.m, w.st, th) /\ QuietWaits(w.m, w.st, w.io)
    BY Zenon DEF Good, IsWorld, PGood
<1>2. PICK G : G = v.m
    BY Zenon
<1>3. PICK z : z = v.st
    BY Zenon
<1>4. PICK k : k = -1
    BY Zenon
<1>5. /\ v.sock = [w.sock EXCEPT ![h] = 0] /\ v.port = [w.port EXCEPT ![h] = k] /\ z = [w.st EXCEPT ![n] = NoState]
      /\ v.io = w.io /\ LosesInfo(w.m, G, r)
    BY <1>2, <1>3, <1>4, Zenon DEF Shuts
<1>6. /\ w.st \in BlockTables /\ w.sock \in [Handles -> Nat] /\ w.port \in [Handles -> Int]
      /\ w.io \subseteq Operations /\ IsFiniteSet(w.io)
    BY <1>1, Zenon DEF WorldTypes, BlockTables
<1>7. z[n] = NoState /\ \A i \in 1 .. NStates : i # n => z[i] = w.st[i]
    BY <1>5, <1>6 DEF BlockTables
<1>8. r \in DOMAIN w.m.RFDToSocketInfo /\ h \in Handles
  <2>1. r \in DOMAIN w.m.RFDToSocketInfo /\ h # INVALID_SOCKET
      BY DEF Valid
  <2>2. QED
      BY <1>1, <2>1, StateIs
<1>9. /\ v.sock[h] = 0 /\ v.port[h] = k /\ \A g \in Handles : g # h => v.sock[g] = w.sock[g] /\ v.port[g] = w.port[g]
    BY <1>5, <1>6, <1>8
<1>10. Ops(z, w.io)
  <2>1. w.st[n] # NoState
      BY <1>1, <1>8, BlockIs DEF StatesOwned
  <2>2. QED
      BY <1>1, <1>6, <1>7, <2>1, ClosingBlock
<1>11. Ports(G, v.sock, v.port)
  <2>1. \A g \in Handles : v.sock[g] = 0 => v.port[g] = -1
      BY <1>1, <1>4, <1>9 DEF Ports
  <2>2. ASSUME NEW x \in DOMAIN G.RFDToSocketInfo, Valid(G, x) PROVE v.port[Socket(G, x)] = -1 \/ v.port[Socket(G, x)] = x
    <3>1. x \in DOMAIN w.m.RFDToSocketInfo /\ x # r /\ Socket(G, x) = Socket(w.m, x)
        BY <1>5, <2>2 DEF LosesInfo, Socket
    <3>2. Valid(w.m, x)
        BY <2>2, <3>1, Zenon DEF Valid
    <3>3. Socket(w.m, x) # h
        BY <1>1, <1>8, <3>1, <3>2 DEF Opened
    <3>4. Socket(w.m, x) \in Handles
        BY <1>1, <3>1, <3>2, StateIs DEF Valid
    <3>5. w.port[Socket(w.m, x)] = -1 \/ w.port[Socket(w.m, x)] = x
        BY <1>1, <3>1, <3>2, Zenon DEF Ports
    <3>6. QED
        BY <1>9, <3>1, <3>3, <3>4, <3>5
  <2>3. QED
      BY <2>1, <2>2, Zenon DEF Ports
<1>12. Starting(v.port, th)
  <2>1. ASSUME NEW t \in Threads, th[t].pc = "addSocket" PROVE v.port[th[t].h] = -1
    <3>1. th[t].h \in Handles /\ th[t].h # h
        BY <1>1, <1>8, <2>1 DEF HandlesHeld, Holding
    <3>2. w.port[th[t].h] = -1
        BY <1>1, <2>1 DEF Starting
    <3>3. QED
        BY <1>9, <3>1, <3>2
  <2>2. QED
      BY <2>1, Zenon DEF Starting
<1>13. Closed(G, z, th) /\ QuietWaits(G, z, w.io)
  <2>1. \A a : Awaits(z, w.io, a) => Awaits(w.st, w.io, a) /\ a # r
    <3>1. \A i \in 1 .. NStates : Listed(z, i) = Listed(w.st, i) \/ Listed(z, i) = <<>>
        BY <1>7 DEF Listed
    <3>2. \A a : Awaits(z, w.io, a) => Awaits(w.st, w.io, a)
        BY <3>1 DEF Awaits
    <3>3. ~Awaits(w.st, w.io, r)
        BY FreeIs, Zenon
    <3>4. QED
        BY <3>2, <3>3, Zenon
  <2>2. \A x \in DOMAIN w.m.RFDToSocketInfo : x # r /\ State(w.m, x) # 0 => z[State(w.m, x)] = w.st[State(w.m, x)]
    <3>1. \A x \in DOMAIN w.m.RFDToSocketInfo : x # r => State(w.m, x) # n
        BY <1>1, <1>8, OthersOwn
    <3>2. \A x \in DOMAIN w.m.RFDToSocketInfo : State(w.m, x) # 0 => State(w.m, x) \in 1 .. NStates
        BY <1>1, StateIs
    <3>3. QED
        BY <1>7, <3>1, <3>2
  <2>3. /\ LosesInfo(w.m, G, r) /\ r \in DOMAIN w.m.RFDToSocketInfo /\ Waits(w.m, w.st, w.io, tb)
        /\ Closed(w.m, w.st, th) /\ QuietWaits(w.m, w.st, w.io)
      BY <1>1, <1>5, <1>8, Zenon
  <2>4. QED
      BY <2>1, <2>2, <2>3, LosesPending, SMTT(40)
<1>14. QED
    BY <1>2, <1>3, <1>5, <1>10, <1>11, <1>12, <1>13, Zenon DEF PGood

LEMMA UnmarkedTells ==
    ASSUME NEW b, NEW d, d = b.masks \ {"ACCEPT_PENDING"} \/ d = b.masks \cup {"ACCEPT_PENDING"}
    PROVE  Tells(b, d, b.wreqs)
  BY DEF Tells

LEMMA RefusedPending ==
    ASSUME NEW w, NEW v, NEW tb, NEW l, NEW a, Ready(w, v, tb, l, a), State(w.m, l) # 0,
           PGood(v), Quiet(v.m, v.st, a), ~Awaits(v.st, v.io, l), NEW x, Refused(v, l, a, x)
    PROVE  PGood(x[1])
<1>1. /\ Good(v, tb) /\ a \in Nat /\ Valid(v.m, a) /\ Valid(v.m, l) /\ Free(v, tb, a)
      /\ State(v.m, l) = State(w.m, l) /\ State(v.m, a) \in 1 .. NStates /\ State(v.m, a) # State(v.m, l)
    BY DEF Ready
<1>2. PICK k : k = State(v.m, l)
    BY Zenon
<1>3. k \in 1 .. NStates /\ v.st[k].masks \subseteq Masks /\ "CLOSE_PENDING" \notin v.st[k].masks
    BY <1>1, <1>2, GoodOwns
<1>4. PICK n \in 1 .. NStates : n = State(v.m, a)
    BY <1>1
<1>5. PICK d : d = v.st[k].masks \ {"ACCEPT_PENDING"}
    BY Zenon
<1>6. d \in SUBSET Masks /\ "CLOSE_PENDING" \notin d
    BY <1>3, <1>5
<1>7. PICK y : y = SetMasks(v, l, d)
    BY Zenon
<1>8. Good(y, tb) /\ Masked(v, y, k, d)
    BY <1>1, <1>2, <1>3, <1>6, <1>7, MasksGood
<1>9. Tells(v.st[k], d, v.st[k].wreqs)
    BY <1>5, UnmarkedTells
<1>10. PGood(y) /\ \A i : Awaits(y.st, y.io, i) <=> Awaits(v.st, v.io, i)
    BY <1>1, <1>2, <1>3, <1>6, <1>7, <1>9, MasksPending, Zenon
<1>11. y.m = v.m /\ y.st[n] = v.st[n]
    BY <1>1, <1>2, <1>4, <1>8, Zenon DEF Masked
<1>12. y.st[n].masks = {"SOCKET_ATTACHED"} /\ y.st[n].wreqs = 0
    BY <1>4, <1>11 DEF Quiet, Resting
<1>13. ~Awaits(y.st, y.io, a)
    BY <1>1, <1>10, FreeIs
<1>14. PICK none \in SUBSET Masks : none = {}
    BY Zenon
<1>15. PICK z : z = SetMasks(y, a, none)
    BY Zenon
<1>16. Tells(y.st[n], none, y.st[n].wreqs)
    BY <1>12, <1>14 DEF Tells
<1>17. Valid(y.m, a) /\ n = State(y.m, a)
    BY <1>1, <1>4, <1>11
<1>18. PGood(z) /\ \A i : Awaits(z.st, z.io, i) <=> Awaits(y.st, y.io, i)
    BY <1>8, <1>10, <1>13, <1>14, <1>15, <1>16, <1>17, MasksPending, Zenon
<1>19. Good(z, tb) /\ Masked(y, z, n, none)
  <2>1. "CLOSE_PENDING" \notin none
      BY <1>14
  <2>2. QED
      BY <1>8, <1>15, <1>17, <2>1, MasksGood
<1>20. z.m = y.m /\ z.io = y.io /\ (\A i \in 1 .. NStates : Listed(z.st, i) = Listed(y.st, i)) /\ z.st[n].masks = none /\ z.st[n].wreqs = y.st[n].wreqs
    BY <1>19, Zenon DEF Masked
<1>21. Closable(z.st[n])
    BY <1>12, <1>14, <1>20 DEF Closable
<1>22. Valid(z.m, a) /\ n = State(z.m, a)
    BY <1>17, <1>20
<1>23. PICK u : u = x[1]
    BY Zenon
<1>24. u = CloseInside(z, a)
    BY <1>2, <1>5, <1>7, <1>14, <1>15, <1>23, MasksInIs DEF Refused
<1>25. IsWorld(z) /\ MapGood(z.m)
    BY <1>19, Zenon DEF Good
<1>26. PICK h : h = Socket(z.m, a)
    BY Zenon
<1>27. Shuts(z, u, a, n, h)
    BY <1>21, <1>22, <1>24, <1>25, <1>26, CloseInsideIs
<1>28. Free(z, tb, a)
  <2>1. y.io = v.io /\ \A i \in 1 .. NStates : Listed(y.st, i) = Listed(v.st, i)
      BY <1>8, Zenon DEF Masked
  <2>2. Free(y, tb, a)
      BY <1>1, <2>1, FreeFollows
  <2>3. QED
      BY <1>20, <2>2, FreeFollows
<1>29. PGood(u)
    BY <1>18, <1>19, <1>21, <1>22, <1>26, <1>27, <1>28, ShutPending, Zenon
<1>30. QED
    BY <1>23, <1>29

LEMMA UnderWayPending ==
    ASSUME NEW w, NEW v, NEW tb, NEW l, NEW a, Ready(w, v, tb, l, a), State(w.m, l) # 0,
           PGood(v), Quiet(v.m, v.st, a), ~Awaits(v.st, v.io, l), NEW x, UnderWay(v, l, a, x)
    PROVE  PGood(x[1])
<1>1. /\ Good(v, tb) /\ a \in Nat /\ Valid(v.m, a) /\ Valid(v.m, l) /\ Free(v, tb, a) /\ a # l
      /\ State(v.m, l) = State(w.m, l)
    BY DEF Ready
<1>2. PICK k : k = State(v.m, l)
    BY Zenon
<1>3. k \in 1 .. NStates /\ v.st[k].masks \subseteq Masks
    BY <1>1, <1>2, GoodOwns
<1>4. PICK d : d = v.st[k].masks \cup {"ACCEPT_PENDING"}
    BY Zenon
<1>5. d \in SUBSET Masks
    BY <1>3, <1>4 DEF Masks
<1>6. PICK y : y = FDAPI_AcceptEx(v, l, a)
    BY Zenon
<1>7. PICK o : Issues(v, y, o) /\ o.kind = "accept" /\ o.acc = a
  <2>1. IsWorld(v) /\ MapGood(v.m)
      BY <1>1, Zenon DEF Good
  <2>2. a \in Int /\ y = Issue(v, l, "accept", a)
      BY <1>1, <1>6 DEF FDAPI_AcceptEx
  <2>3. \E o : Issues(v, y, o) /\ IsOp(o, v.port[Socket(v.m, l)], k, "accept", a)
      BY <1>1, <1>2, <1>3, <2>1, <2>2, IssueIs
  <2>4. QED
      BY <2>3, Zenon DEF IsOp
<1>8. Good(y, tb)
  <2>1. o.kind = "accept" => Valid(v.m, o.acc) /\ Free(v, tb, o.acc)
      BY <1>1, <1>7
  <2>2. QED
      BY <1>1, <1>7, <2>1, IssueGood
<1>9. PGood(y) /\ ~Awaits(y.st, y.io, l)
  <2>1. State(v.m, l) # 0 /\ o.acc # l /\ Quiet(v.m, v.st, o.acc)
      BY <1>1, <1>7
  <2>2. QED
      BY <1>1, <1>7, <2>1, AcceptIssued, Zenon
<1>10. y.m = v.m /\ y.st = v.st
    BY <1>7 DEF Issues
<1>11. PICK u : u = x[1]
    BY Zenon
<1>12. u = SetMasks(y, l, d)
    BY <1>2, <1>4, <1>6, <1>11, MasksInIs DEF UnderWay
<1>13. Valid(y.m, l) /\ k = State(y.m, l) /\ Tells(y.st[k], d, y.st[k].wreqs)
    BY <1>1, <1>2, <1>4, <1>10, UnmarkedTells
<1>14. PGood(u)
    BY <1>3, <1>5, <1>8, <1>9, <1>12, <1>13, MasksPending, Zenon
<1>15. QED
    BY <1>11, <1>14

LEMMA LostPending ==
    ASSUME NEW w, NEW tb, Good(w, tb), PGood(w), NEW L, NEW v, v = [w EXCEPT !.lost = L]
    PROVE  PGood(v)
<1>1. v.m = w.m /\ v.sock = w.sock /\ v.port = w.port /\ v.st = w.st /\ v.io = w.io
    BY LostGood
<1>2. QED
    BY <1>1, Zenon DEF PGood

LEMMA AcceptOnPending ==
    ASSUME NEW w, NEW tb, Good(w, tb), PGood(w), NEW l, Valid(w.m, l), State(w.m, l) # 0, FreeStates(w) # {},
           ~Awaits(w.st, w.io, l), NEW h \in Handles, w.sock[h] = 0, NEW x \in AcceptOn(w, l, h)
    PROVE  PGood(x[1])
<1>1. PICK a : a = AddedSocket(w.m, h)
    BY Zenon
<1>2. PICK u : Opens(w, u, h)
    BY Zenon DEF Opens
<1>3. CASE a = INVALID_FD /\ NoName(w, u, x)
  <2>1. PGood(u)
      BY <1>2, OpenedPending, Zenon
  <2>2. Good(u, tb)
      BY <1>1, <1>2, OpenedGood
  <2>3. PICK L : L = u.lost \cup {w.sockets + 1}
      BY Zenon
  <2>4. PICK v : v = x[1]
      BY Zenon
  <2>5. v = [u EXCEPT !.lost = L]
      BY <1>3, <2>3, <2>4 DEF NoName
  <2>6. PGood(v)
      BY <2>1, <2>2, <2>5, LostPending, Zenon
  <2>7. QED
      BY <2>4, <2>6
<1>4. CASE a # INVALID_FD /\ \E v : Readies(u, v, a) /\ (Refused(v, l, a, x) \/ UnderWay(v, l, a, x))
  <2>1. PICK v : Readies(u, v, a) /\ (Refused(v, l, a, x) \/ UnderWay(v, l, a, x))
      BY <1>4, Zenon
  <2>2. Ready(w, v, tb, l, a)
      BY <1>1, <1>2, <1>4, <2>1, ReadyIs
  <2>3. PGood(v) /\ Quiet(v.m, v.st, a) /\ \A i : Awaits(v.st, v.io, i) <=> Awaits(w.st, w.io, i)
      BY <1>1, <1>2, <1>4, <2>1, ReadyPending, Zenon
  <2>4. ~Awaits(v.st, v.io, l)
      BY <2>3
  <2>5. QED
      BY <2>1, <2>2, <2>3, <2>4, RefusedPending, UnderWayPending, Zenon
<1>5. QED
    BY <1>1, <1>2, <1>3, <1>4, AcceptOnIs

LEMMA QueueAcceptPending ==
    ASSUME NEW w, NEW tb, Good(w, tb), PGood(w), NEW l, Valid(w.m, l), State(w.m, l) # 0, FreeStates(w) # {},
           ~Awaits(w.st, w.io, l), NEW x \in WSIOCP_QueueAccept(w, l)
    PROVE  PGood(x[1])
<1>1. WSIOCP_GetSocketState(w, l) = w
    BY MasksInIs DEF WSIOCP_GetSocketState
<1>2. PICK h \in Handles : w.sock[h] = 0 /\ x \in AcceptOn(w, l, h)
    BY <1>1 DEF WSIOCP_QueueAccept
<1>3. QED
    BY <1>2, AcceptOnPending, Zenon

(* The steps of the event loop. *)
LEMMA LoopPending ==
    ASSUME IInv, PInv, NEW r \in DOMAIN table, InLoop(r), NEW w, w = WSIOCP_GetSocketState(World, r)
    PROVE  PGood(w) /\ ~Awaits(w.st, w.io, r) /\ (NewlyMade(r) => w.st[State(w.m, r)].masks = {})
<1>1. Good(World, table) /\ Valid(World.m, r) /\ State(World.m, r) = StateAt(r)
    BY LoopUses
<1>2. Gets(World, w, r) /\ Good(w, table)
    BY LoopGets
<1>3. PGood(World)
    BY WorldPending
<1>4. PGood(w)
    BY <1>1, <1>2, <1>3, GetsPending, Zenon
<1>5. ~Awaits(w.st, w.io, r)
    BY <1>2, HandedOutIs, Zenon
<1>6. ASSUME NewlyMade(r) PROVE w.st[State(w.m, r)].masks = {}
  <2>1. CASE StateAt(r) # 0
    <3>1. w = World
        BY <1>1, <1>2, <2>1, OtherStates
    <3>2. QED
        BY <1>1, <1>6, <2>1, <3>1, WorldIs DEF NewlyMade
  <2>2. CASE StateAt(r) = 0
    <3>1. World.st \in BlockTables
        BY <1>1, Zenon DEF Good, IsWorld, WorldTypes, BlockTables
    <3>2. w.st[State(w.m, r)] = NewBlock(r)
        BY <1>1, <1>2, <2>2, <3>1, NewState, Zenon
    <3>3. QED
        BY <3>2 DEF NewBlock
  <2>3. QED
      BY <2>1, <2>2
<1>7. QED
    BY <1>4, <1>5, <1>6

LEMMA WSIOCP_ListenPending ==
    ASSUME IInv, PInv, WSIOCP_Listen
    PROVE  PInv'
<1>1. PICK r \in DOMAIN table :
        /\ InLoop(r) /\ RoomToAccept /\ NewlyMade(r)
        /\ LET w == WSIOCP_GetSocketState(World, r)
               up == WSIOCP_SocketAttach(w, r)
               ears == SetMasks(up, r, MasksIn(up, r) \cup {"LISTEN_SOCK"})
           IN  \E done \in {w} \cup IF FDAPI_SocketAttachIOCP(w, r) THEN {ears} \cup {x[1] : x \in WSIOCP_QueueAccept(ears, r)} ELSE {} :
                  Become(done)
    BY Zenon DEF WSIOCP_Listen
<1>2. th' = th
    BY DEF WSIOCP_Listen
<1>3. PICK w : w = WSIOCP_GetSocketState(World, r)
    BY Zenon
<1>4. PICK up : up = WSIOCP_SocketAttach(w, r)
    BY Zenon
<1>5. PICK ears : ears = SetMasks(up, r, MasksIn(up, r) \cup {"LISTEN_SOCK"})
    BY Zenon
<1>6. \E done \in {w} \cup IF FDAPI_SocketAttachIOCP(w, r) THEN {ears} \cup {x[1] : x \in WSIOCP_QueueAccept(ears, r)} ELSE {} :
         Become(done)
    BY <1>1, <1>3, <1>4, <1>5, Zenon
<1>7. PICK done : Become(done) /\ (done = w \/ done = ears \/ \E x \in WSIOCP_QueueAccept(ears, r) : done = x[1])
    BY <1>6, Zenon
<1>8. Gets(World, w, r) /\ Good(w, table) /\ Valid(w.m, r) /\ State(w.m, r) # 0
    BY <1>1, <1>3, LoopGets
<1>9. PGood(w) /\ ~Awaits(w.st, w.io, r) /\ w.st[State(w.m, r)].masks = {}
  <2>1. PGood(w) /\ ~Awaits(w.st, w.io, r) /\ (NewlyMade(r) => w.st[State(w.m, r)].masks = {})
      BY <1>1, <1>3, LoopPending
  <2>2. QED
      BY <1>1, <2>1
<1>10. FreeStates(w) # {}
  <2>1. Cardinality(FreeStates(World)) >= 2
      BY <1>1, Zenon DEF RoomToAccept
  <2>2. st \in BlockTables
      BY Zenon DEF IInv, Types, WorldTypes, BlockTables
  <2>3. QED
      BY <1>8, <2>1, <2>2, SecondFree, Zenon
<1>11. /\ Good(up, table) /\ Joined(w, up) /\ up.st[State(w.m, r)].masks = Attached
  <2>1. /\ Good(up, table) /\ Joined(w, up)
        /\ State(w.m, r) # 0 => up.st[State(w.m, r)].masks = Attached /\ up.st[State(w.m, r)].wreqs = 0
      BY <1>4, <1>8, AttachGood
  <2>2. QED
      BY <1>8, <2>1
<1>12. PGood(up)
    BY <1>4, <1>8, <1>9, AttachPending, Zenon
<1>13. up.m = w.m /\ FreeStates(up) = FreeStates(w) /\ Valid(up.m, r) /\ ~Awaits(up.st, up.io, r)
    BY <1>8, <1>11, HandedOutIs DEF Joined
<1>14. PICK n : n = State(up.m, r)
    BY Zenon
<1>15. n \in 1 .. NStates /\ up.st[n] \in Blocks /\ up.st[n].masks = Attached
    BY <1>8, <1>11, <1>13, <1>14, GoodOwns
<1>16. PICK d : d = Attached \cup {"LISTEN_SOCK"}
    BY Zenon
<1>17. d \in SUBSET Masks /\ "CLOSE_PENDING" \notin d
    BY <1>16 DEF Attached, Masks
<1>18. ears = SetMasks(up, r, d)
    BY <1>5, <1>14, <1>15, <1>16, MasksInIs
<1>19. Good(ears, table) /\ Masked(up, ears, n, d)
    BY <1>11, <1>13, <1>14, <1>15, <1>17, <1>18, MasksGood
<1>20. Tells(up.st[n], d, up.st[n].wreqs)
    BY <1>15, <1>16 DEF Tells, Attached
<1>21. PGood(ears)
    BY <1>11, <1>12, <1>13, <1>14, <1>15, <1>17, <1>18, <1>20, MasksPending, Zenon
<1>22. Valid(ears.m, r) /\ State(ears.m, r) # 0 /\ FreeStates(ears) # {} /\ ~Awaits(ears.st, ears.io, r)
  <2>1. ears.m = up.m /\ ears.st[n] \in Blocks /\ \A k \in 1 .. NStates : k # n => ears.st[k] = up.st[k]
      BY <1>19, Zenon DEF Masked
  <2>2. FreeStates(ears) = FreeStates(up)
      BY <1>15, <2>1, FreeSame
  <2>3. ~Awaits(ears.st, ears.io, r)
      BY <1>19, HandedOutIs, Zenon
  <2>4. QED
      BY <1>8, <1>10, <1>13, <2>1, <2>2, <2>3
<1>23. PGood(done)
  <2>1. ASSUME NEW x \in WSIOCP_QueueAccept(ears, r) PROVE PGood(x[1])
      BY <1>19, <1>21, <1>22, <2>1, QueueAcceptPending, Zenon
  <2>2. QED
      BY <1>7, <1>9, <1>21, <2>1, Zenon
<1>24. QED
    BY <1>2, <1>7, <1>23, PendingBecomes

LEMMA WSIOCP_QueueNextReadPending ==
    ASSUME IInv, PInv, WSIOCP_QueueNextRead
    PROVE  PInv'
<1>1. PICK r \in DOMAIN table :
        /\ InLoop(r)
        /\ LET w == WSIOCP_GetSocketState(World, r)  masks == MasksIn(w, r) IN
           /\ masks \cap {"READ_QUEUED", "CONNECT_PENDING", "LISTEN_SOCK"} = {}
           /\ \E done \in {w} \cup IF "SOCKET_ATTACHED" \in masks
                                  THEN {SetMasks(FDAPI_WSARecv(w, r), r, masks \cup {"READ_QUEUED"})} ELSE {} :
                 Become(done)
    BY Zenon DEF WSIOCP_QueueNextRead
<1>2. th' = th
    BY DEF WSIOCP_QueueNextRead
<1>3. PICK w : w = WSIOCP_GetSocketState(World, r)
    BY Zenon
<1>4. PICK y : y = FDAPI_WSARecv(w, r)
    BY Zenon
<1>5. PICK masks : masks = MasksIn(w, r)
    BY Zenon
<1>6. masks \cap {"READ_QUEUED", "CONNECT_PENDING", "LISTEN_SOCK"} = {}
    BY <1>1, <1>3, <1>5
<1>7. PICK done : Become(done) /\ (done = w \/ ("SOCKET_ATTACHED" \in masks /\ done = SetMasks(y, r, masks \cup {"READ_QUEUED"})))
  <2>1. \E done \in {w} \cup IF "SOCKET_ATTACHED" \in masks THEN {SetMasks(y, r, masks \cup {"READ_QUEUED"})} ELSE {} : Become(done)
      BY <1>1, <1>3, <1>4, <1>5, Zenon
  <2>2. QED
      BY <2>1, Zenon
<1>8. Good(w, table) /\ Valid(w.m, r) /\ State(w.m, r) # 0
    BY <1>1, <1>3, LoopGets
<1>9. PGood(w) /\ ~Awaits(w.st, w.io, r)
    BY <1>1, <1>3, LoopPending
<1>10. CASE done = w
    BY <1>2, <1>7, <1>9, <1>10, PendingBecomes
<1>11. CASE "SOCKET_ATTACHED" \in masks /\ done = SetMasks(y, r, masks \cup {"READ_QUEUED"})
  <2>1. PICK n : n = State(w.m, r)
      BY Zenon
  <2>2. n \in 1 .. NStates /\ w.st[n] \in Blocks /\ masks = w.st[n].masks /\ masks \subseteq Masks
      BY <1>5, <1>8, <2>1, GoodOwns, MasksInIs
  <2>3. PICK o : Issues(w, y, o) /\ IsOp(o, w.port[Socket(w.m, r)], n, "read", -1)
    <3>1. IsWorld(w) /\ MapGood(w.m)
        BY <1>8, Zenon DEF Good
    <3>2. -1 \in Int /\ y = Issue(w, r, "read", -1)
        BY <1>4 DEF FDAPI_WSARecv
    <3>3. QED
        BY <1>8, <2>1, <2>2, <3>1, <3>2, IssueIs
  <2>4. /\ y.m = w.m /\ y.sock = w.sock /\ y.st = w.st /\ y.port = w.port
        /\ y.io = w.io \cup {o} /\ o \notin w.io /\ IsWorld(y)
      BY <2>3, Zenon DEF Issues
  <2>5. PICK d : d = masks \cup {"READ_QUEUED"}
      BY Zenon
  <2>6. d \in SUBSET Masks
      BY <2>2, <2>5 DEF Masks
  <2>7. PICK b : b = [y.st[n] EXCEPT !.masks = d]
      BY Zenon
  <2>8. Sets(y, done, n, b, y.port) /\ SameBut(b, y.st[n]) /\ b.masks = d /\ b.wreqs = y.st[n].wreqs
    <3>1. n = State(y.m, r) /\ y.st[n] \in Blocks /\ done = SetMasks(y, r, d)
        BY <1>11, <2>1, <2>2, <2>4, <2>5
    <3>2. QED
        BY <2>2, <2>4, <2>6, <2>7, <3>1, SetMasksIs
  <2>9. Begins(w, done, n, o, b)
      BY <2>4, <2>8, Zenon DEF Begins, Sets
  <2>10. o.kind = "read"
      BY <2>3, Zenon DEF IsOp
  <2>11. Adds(w.st[n], b, "read")
    <3>1. w.st[n].wreqs \in Int
        BY <2>2, BlockIs
    <3>2. QED
        BY <1>6, <1>11, <2>2, <2>4, <2>5, <2>8, <3>1 DEF Adds
  <2>12. SameBut(b, w.st[n]) /\ IsOp(o, w.port[Socket(w.m, r)], n, o.kind, -1) /\ Adds(w.st[n], b, o.kind) /\ o.kind \in {"connect", "read", "send"}
      BY <2>3, <2>4, <2>8, <2>10, <2>11
  <2>13. PGood(done)
      BY <1>8, <1>9, <2>1, <2>2, <2>9, <2>12, IssuedPending, Zenon
  <2>14. QED
      BY <1>2, <1>7, <2>13, PendingBecomes
<1>12. QED
    BY <1>7, <1>10, <1>11

LEMMA ConnectOverlappedPending ==
    ASSUME IInv, PInv, ConnectOverlapped
    PROVE  PInv'
<1>1. PICK r \in DOMAIN table :
        /\ InLoop(r) /\ NewlyMade(r)
        /\ LET w == WSIOCP_GetSocketState(World, r)
               up == WSIOCP_SocketAttach(w, r)
               issued == FDAPI_ConnectEx(up, r)
               pending == SetMasks(issued, r, MasksIn(up, r) \cup {"CONNECT_PENDING"})
           IN  \/ Become(w)
               \/ /\ FDAPI_SocketAttachIOCP(w, r)
                  /\ Become(up) \/ Become(pending) \/ (StateIn(up, r) \in Early /\ Become(issued))
    BY Zenon DEF ConnectOverlapped
<1>2. th' = th
    BY DEF ConnectOverlapped
<1>3. PICK w : w = WSIOCP_GetSocketState(World, r)
    BY Zenon
<1>4. PICK up : up = WSIOCP_SocketAttach(w, r)
    BY Zenon
<1>5. PICK y : y = FDAPI_ConnectEx(up, r)
    BY Zenon
<1>6. PICK masks : masks = MasksIn(up, r)
    BY Zenon
<1>7. PICK done : /\ Become(done)
                  /\ \/ done = w \/ done = up \/ done = SetMasks(y, r, masks \cup {"CONNECT_PENDING"})
                     \/ done = y /\ StateIn(up, r) \in Early
    BY <1>1, <1>3, <1>4, <1>5, <1>6, Zenon
<1>8. Good(w, table) /\ Valid(w.m, r) /\ State(w.m, r) # 0
    BY <1>1, <1>3, LoopGets
<1>9. PGood(w) /\ ~Awaits(w.st, w.io, r) /\ w.st[State(w.m, r)].masks = {}
  <2>1. PGood(w) /\ ~Awaits(w.st, w.io, r) /\ (NewlyMade(r) => w.st[State(w.m, r)].masks = {})
      BY <1>1, <1>3, LoopPending
  <2>2. QED
      BY <1>1, <2>1
<1>10. /\ Good(up, table) /\ Joined(w, up) /\ up.st[State(w.m, r)].masks = Attached
  <2>1. /\ Good(up, table) /\ Joined(w, up)
        /\ State(w.m, r) # 0 => up.st[State(w.m, r)].masks = Attached /\ up.st[State(w.m, r)].wreqs = 0
      BY <1>4, <1>8, AttachGood
  <2>2. QED
      BY <1>8, <2>1
<1>11. PGood(up)
    BY <1>4, <1>8, <1>9, AttachPending, Zenon
<1>12. up.m = w.m /\ Valid(up.m, r) /\ ~Awaits(up.st, up.io, r)
    BY <1>8, <1>10, HandedOutIs DEF Joined
<1>13. CASE done = w \/ done = up
    BY <1>2, <1>7, <1>9, <1>11, <1>13, PendingBecomes, Zenon
<1>14. CASE done = SetMasks(y, r, masks \cup {"CONNECT_PENDING"})
  <2>1. PICK n : n = State(up.m, r)
      BY Zenon
  <2>2. n \in 1 .. NStates /\ up.st[n] \in Blocks /\ masks = Attached /\ up.st[n].masks = Attached
      BY <1>6, <1>8, <1>10, <1>12, <2>1, GoodOwns, MasksInIs
  <2>3. PICK o : Issues(up, y, o) /\ IsOp(o, up.port[Socket(up.m, r)], n, "connect", -1)
    <3>1. IsWorld(up) /\ MapGood(up.m)
        BY <1>10, Zenon DEF Good
    <3>2. -1 \in Int /\ y = Issue(up, r, "connect", -1)
        BY <1>5 DEF FDAPI_ConnectEx
    <3>3. QED
        BY <1>12, <2>1, <2>2, <3>1, <3>2, IssueIs
  <2>4. /\ y.m = up.m /\ y.sock = up.sock /\ y.st = up.st /\ y.port = up.port
        /\ y.io = up.io \cup {o} /\ o \notin up.io /\ IsWorld(y)
      BY <2>3, Zenon DEF Issues
  <2>5. PICK d : d = masks \cup {"CONNECT_PENDING"}
      BY Zenon
  <2>6. d \in SUBSET Masks
      BY <2>2, <2>5 DEF Masks, Attached
  <2>7. PICK b : b = [y.st[n] EXCEPT !.masks = d]
      BY Zenon
  <2>8. Sets(y, done, n, b, y.port) /\ SameBut(b, y.st[n]) /\ b.masks = d /\ b.wreqs = y.st[n].wreqs
    <3>1. n = State(y.m, r) /\ y.st[n] \in Blocks /\ done = SetMasks(y, r, d)
        BY <1>14, <2>1, <2>2, <2>4, <2>5
    <3>2. QED
        BY <2>2, <2>4, <2>6, <2>7, <3>1, SetMasksIs
  <2>9. Begins(up, done, n, o, b)
      BY <2>4, <2>8, Zenon DEF Begins, Sets
  <2>10. o.kind = "connect"
      BY <2>3, Zenon DEF IsOp
  <2>11. Adds(up.st[n], b, "connect")
    <3>1. up.st[n].wreqs \in Int
        BY <2>2, BlockIs
    <3>2. QED
        BY <2>2, <2>4, <2>5, <2>8, <3>1 DEF Adds, Attached
  <2>12. SameBut(b, up.st[n]) /\ IsOp(o, up.port[Socket(up.m, r)], n, o.kind, -1) /\ Adds(up.st[n], b, o.kind) /\ o.kind \in {"connect", "read", "send"}
      BY <2>3, <2>4, <2>8, <2>10, <2>11
  <2>13. PGood(done)
      BY <1>10, <1>11, <1>12, <2>1, <2>2, <2>9, <2>12, IssuedPending, Zenon
  <2>14. QED
      BY <1>2, <1>7, <2>13, PendingBecomes
<1>15. CASE done = y /\ StateIn(up, r) \in Early
  <2>1. PICK n : n = State(up.m, r)
      BY Zenon
  <2>2. n \in 1 .. NStates /\ n \in Early
      BY <1>8, <1>10, <1>12, <1>15, <2>1, GoodOwns DEF StateIn, FDAPI_GetSocketStatePtr, State
  <2>3. PICK o : Issues(up, y, o) /\ IsOp(o, up.port[Socket(up.m, r)], n, "connect", -1)
    <3>1. IsWorld(up) /\ MapGood(up.m)
        BY <1>10, Zenon DEF Good
    <3>2. -1 \in Int /\ y = Issue(up, r, "connect", -1)
        BY <1>5 DEF FDAPI_ConnectEx
    <3>3. QED
        BY <1>12, <2>1, <2>2, <3>1, <3>2, IssueIs
  <2>4. o.kind # "accept" /\ ~Counted(o)
      BY <2>2, <2>3 DEF IsOp, Counted
  <2>5. PGood(done)
      BY <1>8, <1>10, <1>11, <1>12, <1>15, <2>3, <2>4, EarlyIssued, Zenon
  <2>6. QED
      BY <1>2, <1>7, <2>5, PendingBecomes
<1>16. QED
    BY <1>7, <1>13, <1>14, <1>15

LEMMA WSIOCP_SocketSendPending ==
    ASSUME IInv, PInv, WSIOCP_SocketSend
    PROVE  PInv'
<1>1. PICK r \in DOMAIN table :
        /\ InLoop(r)
        /\ LET w == WSIOCP_GetSocketState(World, r)  n == StateIn(w, r)  async == FDAPI_WSASend(w, r) IN
           /\ w.st[n].wreqs < MaxSends /\ "LISTEN_SOCK" \notin MasksIn(w, r)
           /\ \E done \in {w} \cup IF "SOCKET_ATTACHED" \in MasksIn(w, r) THEN {[async EXCEPT !.st[n].wreqs = @ + 1]} ELSE {} :
                 Become(done)
    BY Zenon DEF WSIOCP_SocketSend
<1>2. th' = th
    BY DEF WSIOCP_SocketSend
<1>3. PICK w : w = WSIOCP_GetSocketState(World, r)
    BY Zenon
<1>4. PICK y : y = FDAPI_WSASend(w, r)
    BY Zenon
<1>5. PICK n : n = StateIn(w, r)
    BY Zenon
<1>6. PICK z : z = [y EXCEPT !.st[n].wreqs = @ + 1]
    BY Zenon
<1>7. PICK done : Become(done) /\ (done = w \/ ("SOCKET_ATTACHED" \in MasksIn(w, r) /\ done = z))
  <2>1. \E done \in {w} \cup IF "SOCKET_ATTACHED" \in MasksIn(w, r) THEN {z} ELSE {} : Become(done)
      BY <1>1, <1>3, <1>4, <1>5, <1>6, Zenon
  <2>2. QED
      BY <2>1, Zenon
<1>8. Good(w, table) /\ Valid(w.m, r) /\ State(w.m, r) # 0
    BY <1>1, <1>3, LoopGets
<1>9. PGood(w) /\ ~Awaits(w.st, w.io, r)
    BY <1>1, <1>3, LoopPending
<1>10. CASE done = w
    BY <1>2, <1>7, <1>9, <1>10, PendingBecomes
<1>11. CASE "SOCKET_ATTACHED" \in MasksIn(w, r) /\ done = z
  <2>1. n = State(w.m, r)
      BY <1>5, MasksInIs
  <2>2. n \in 1 .. NStates /\ w.st[n] \in Blocks /\ "SOCKET_ATTACHED" \in w.st[n].masks
      BY <1>8, <1>11, <2>1, GoodOwns, MasksInIs
  <2>3. PICK o : Issues(w, y, o) /\ IsOp(o, w.port[Socket(w.m, r)], n, "send", -1)
    <3>1. IsWorld(w) /\ MapGood(w.m)
        BY <1>8, Zenon DEF Good
    <3>2. -1 \in Int /\ y = Issue(w, r, "send", -1)
        BY <1>4 DEF FDAPI_WSASend
    <3>3. QED
        BY <1>8, <2>1, <2>2, <3>1, <3>2, IssueIs
  <2>4. /\ y.m = w.m /\ y.sock = w.sock /\ y.st = w.st /\ y.port = w.port
        /\ y.io = w.io \cup {o} /\ o \notin w.io /\ IsWorld(y)
      BY <2>3, Zenon DEF Issues
  <2>5. PICK b : b = [y.st[n] EXCEPT !.wreqs = @ + 1]
      BY Zenon
  <2>6. SameBut(b, y.st[n]) /\ b.masks = y.st[n].masks /\ b.wreqs = y.st[n].wreqs + 1 /\ b \in Blocks
      BY <2>2, <2>4, <2>5, CountedBlock DEF SameBut
  <2>7. Sets(y, z, n, b, y.port)
      BY <1>6, <2>2, <2>4, <2>5, <2>6, CountedIs
  <2>8. Begins(w, z, n, o, b)
      BY <2>4, <2>7, Zenon DEF Begins, Sets
  <2>9. o.kind = "send"
      BY <2>3, Zenon DEF IsOp
  <2>10. Adds(w.st[n], b, "send")
      BY <2>2, <2>4, <2>6 DEF Adds
  <2>11. SameBut(b, w.st[n]) /\ IsOp(o, w.port[Socket(w.m, r)], n, o.kind, -1) /\ Adds(w.st[n], b, o.kind) /\ o.kind \in {"connect", "read", "send"}
      BY <2>3, <2>4, <2>6, <2>9, <2>10
  <2>12. PGood(z)
      BY <1>8, <1>9, <2>1, <2>2, <2>8, <2>11, IssuedPending, Zenon
  <2>13. QED
      BY <1>2, <1>7, <1>11, <2>12, PendingBecomes
<1>12. QED
    BY <1>7, <1>10, <1>11

LEMMA TakesPending ==
    ASSUME NEW w, NEW tb, Good(w, tb), PGood(w), NEW r \in DOMAIN tb, Valid(w.m, r), NEW n \in 1 .. NStates, n = State(w.m, r),
           w.st[n] \in Blocks, w.st[n].reqs # <<>>, NEW v, v = Takes(w, n), NEW a, a = Head(w.st[n].reqs)
    PROVE  PGood(v) /\ Quiet(v.m, v.st, a)
<1>1. Good(v, tb)
    BY TakesGood
<1>2. IsWorld(w) /\ Ops(w.st, w.io) /\ QuietWaits(w.m, w.st, w.io)
    BY Zenon DEF Good, PGood
<1>3. /\ w = [m |-> w.m, sock |-> w.sock, port |-> w.port, st |-> w.st, io |-> w.io, sockets |-> w.sockets, lost |-> w.lost]
      /\ WorldTypes(w.sock, w.port, w.st, w.io, w.sockets)
    BY <1>2, Zenon DEF IsWorld
<1>4. w.st \in BlockTables /\ w.io \subseteq Operations
    BY <1>3 DEF WorldTypes, BlockTables
<1>5. PICK c : c = w.st[n]
    BY Zenon
<1>6. c \in Blocks /\ c.reqs # <<>> /\ a = Head(c.reqs) /\ c # NoState
    BY <1>5, BlockIs
<1>7. PICK b : b = [c EXCEPT !.reqs = Tail(@)]
    BY Zenon
<1>8. b \in Blocks /\ b.fd = c.fd /\ b.masks = c.masks /\ b.reqs = Tail(c.reqs) /\ b.wreqs = c.wreqs
    BY <1>6, <1>7, TailedBlock
<1>9. b # NoState
    BY <1>8, BlockIs
<1>10. PICK z : z = [w.st EXCEPT ![n] = b]
    BY Zenon
<1>11. v.m = w.m /\ v.sock = w.sock /\ v.port = w.port /\ v.st = z /\ v.io = w.io
    BY <1>3, <1>5, <1>7, <1>10 DEF Takes
<1>12. z[n] = b /\ \A k \in 1 .. NStates : k # n => z[k] = w.st[k]
    BY <1>4, <1>10 DEF BlockTables
<1>13. Ops(v.st, v.io)
  <2>1. Fits(c, w.io, n)
      BY <1>2, <1>5, <1>6, Zenon DEF Ops, Counts
  <2>2. Fits(b, w.io, n)
      BY <1>8, <2>1, Remarked, Zenon
  <2>3. w.st[n] # NoState /\ z[n] # NoState /\ z[n].fd = w.st[n].fd /\ Fits(z[n], w.io, n)
      BY <1>5, <1>6, <1>8, <1>9, <1>12, <2>2
  <2>4. Ops(z, w.io)
      BY <1>2, <1>4, <1>12, <2>3, MarkedOps
  <2>5. QED
      BY <1>11, <2>4
<1>14. c.reqs \in Seq(Nat) /\ Listed(w.st, n) = c.reqs /\ Listed(z, n) = b.reqs
  <2>1. c.reqs \in Seq(Nat)
      BY <1>6, BlockIs
  <2>2. QED
      BY <1>5, <1>6, <1>9, <1>12, <2>1 DEF Listed
<1>15. /\ DOMAIN b.reqs = 1 .. Len(c.reqs) - 1 /\ DOMAIN c.reqs = 1 .. Len(c.reqs) /\ Len(c.reqs) \in Nat \ {0}
       /\ a = c.reqs[1] /\ \A i \in 1 .. Len(c.reqs) - 1 : b.reqs[i] = c.reqs[i + 1]
    BY <1>6, <1>8, <1>14, Tailed
<1>16. ASSUME NEW x, Awaits(v.st, v.io, x) PROVE Awaits(w.st, w.io, x)
  <2>1. CASE \E o \in Accepts(v.io) : o.acc = x
      BY <1>11, <2>1 DEF Awaits
  <2>2. CASE \E k \in 1 .. NStates : \E i \in DOMAIN Listed(v.st, k) : Listed(v.st, k)[i] = x
    <3>1. PICK k \in 1 .. NStates : \E i \in DOMAIN Listed(z, k) : Listed(z, k)[i] = x
        BY <1>11, <2>2
    <3>2. CASE k = n
      <4>1. PICK i \in 1 .. Len(c.reqs) - 1 : b.reqs[i] = x
          BY <1>14, <1>15, <3>1, <3>2
      <4>2. i + 1 \in DOMAIN c.reqs /\ c.reqs[i + 1] = x
          BY <1>15, <4>1
      <4>3. QED
          BY <1>14, <4>2 DEF Awaits
    <3>3. CASE k # n
      <4>1. Listed(z, k) = Listed(w.st, k)
          BY <1>12, <3>3 DEF Listed
      <4>2. QED
          BY <3>1, <4>1 DEF Awaits
    <3>4. QED
        BY <3>2, <3>3
  <2>3. QED
      BY <1>16, <2>1, <2>2 DEF Awaits
<1>17. Calm(w, v, r)
  <2>1. ~Awaits(v.st, v.io, r)
      BY <1>1, HandedOutIs, Zenon
  <2>2. \A x : Awaits(v.st, v.io, x) => Awaits(w.st, w.io, x)
      BY <1>16, Zenon
  <2>3. QED
      BY <2>1, <2>2 DEF Calm
<1>18. OnlyBlock(w, v, n) /\ PortOf(w, v, r)
    BY <1>11, <1>12, Zenon DEF OnlyBlock, PortOf
<1>19. PGood(v)
    BY <1>13, <1>17, <1>18, TouchPending, Zenon
<1>20. Quiet(v.m, v.st, a)
  <2>1. Awaits(w.st, w.io, a)
    <3>1. 1 \in DOMAIN Listed(w.st, n) /\ Listed(w.st, n)[1] = a
        BY <1>14, <1>15
    <3>2. QED
        BY <3>1, Zenon DEF Awaits
  <2>2. PICK k : k = State(w.m, a)
      BY Zenon
  <2>3. k # 0 /\ Resting(w.st[k])
      BY <1>2, <2>1, <2>2, Zenon DEF QuietWaits, Quiet
  <2>4. Valid(v.m, a)
      BY TakesGood
  <2>5. k \in 1 .. NStates
      BY <1>1, <1>11, <2>2, <2>3, <2>4, GoodOwns
  <2>6. Resting(z[k])
    <3>1. CASE k = n
        BY <1>5, <1>8, <1>12, <2>3, <3>1 DEF Resting
    <3>2. CASE k # n
        BY <1>12, <2>3, <2>5, <3>2
    <3>3. QED
        BY <3>1, <3>2
  <2>7. QED
      BY <1>11, <2>2, <2>3, <2>6 DEF Quiet
<1>21. QED
    BY <1>19, <1>20

LEMMA WSIOCP_AcceptPending ==
    ASSUME IInv, PInv, WSIOCP_Accept
    PROVE  PInv'
<1>1. PICK r \in DOMAIN table :
        /\ InLoop(r) /\ RoomToAccept
        /\ StateAt(r) # 0 /\ st[StateAt(r)].reqs # <<>>
        /\ LET acc == Head(st[StateAt(r)].reqs)
               obj == sock[lookupSocket(m, acc)]
               w == [World EXCEPT !.st[StateAt(r)].reqs = Tail(@)]
               bad == [w EXCEPT !.lost = @ \cup {obj}]
               attached == WSIOCP_SocketAttach(w, acc)
           IN  \/ Become(bad) /\ UNCHANGED table
               \/ \E a \in {attached, w} : \E x \in WSIOCP_QueueAccept(a, r) :
                     IF x[2] THEN Become(x[1]) /\ table' = Put(table, acc, obj)
                             ELSE Become([x[1] EXCEPT !.lost = @ \cup {obj}]) /\ UNCHANGED table
    BY Zenon DEF WSIOCP_Accept
<1>2. th' = th
    BY DEF WSIOCP_Accept
<1>3. PICK n : n = StateAt(r)
    BY Zenon
<1>4. PICK acc : acc = Head(st[n].reqs)
    BY Zenon
<1>5. PICK obj : obj = sock[lookupSocket(m, acc)]
    BY Zenon
<1>6. PICK w : w = Takes(World, n)
    BY Zenon
<1>7. PICK attached : attached = WSIOCP_SocketAttach(w, acc)
    BY Zenon
<1>8. \/ Become([w EXCEPT !.lost = @ \cup {obj}]) /\ UNCHANGED table
      \/ \E a \in {attached, w} : \E x \in WSIOCP_QueueAccept(a, r) :
            IF x[2] THEN Become(x[1]) /\ table' = Put(table, acc, obj)
                    ELSE Become([x[1] EXCEPT !.lost = @ \cup {obj}]) /\ UNCHANGED table
    BY <1>1, <1>3, <1>4, <1>5, <1>6, <1>7, Zenon DEF Takes
<1>9. Good(World, table) /\ Valid(World.m, r) /\ FreeStates(World) # {} /\ n = State(World.m, r) /\ n # 0
    BY <1>1, <1>3, LoopUses
<1>10. n \in 1 .. NStates /\ World.st[n] \in Blocks
    BY <1>9, GoodOwns
<1>11. World.st[n].reqs # <<>> /\ acc = Head(World.st[n].reqs)
    BY <1>1, <1>3, <1>4, WorldIs
<1>12. /\ Good(w, table) /\ Valid(w.m, acc) /\ Free(w, table, acc)
       /\ w.m = World.m /\ FreeStates(w) = FreeStates(World)
    BY <1>6, <1>9, <1>10, <1>11, TakesGood
<1>13. PGood(World)
    BY WorldPending
<1>14. PGood(w) /\ Quiet(w.m, w.st, acc)
    BY <1>6, <1>9, <1>10, <1>11, <1>13, TakesPending, Zenon
<1>15. PGood(attached)
  <2>1. ~Awaits(w.st, w.io, acc)
      BY <1>12, FreeIs, Zenon
  <2>2. State(w.m, acc) # 0 /\ Resting(w.st[State(w.m, acc)])
      BY <1>14, Zenon DEF Quiet
  <2>3. QED
      BY <1>7, <1>12, <1>14, <2>1, <2>2, AttachPending, Zenon
<1>16. \A v, y : Good(v, table) /\ PGood(v) /\ y = [v EXCEPT !.lost = @ \cup {obj}] => PGood(y)
  <2>1. SUFFICES ASSUME NEW v, NEW y, Good(v, table), PGood(v), y = [v EXCEPT !.lost = @ \cup {obj}] PROVE PGood(y)
      BY Zenon
  <2>2. PICK L : L = v.lost \cup {obj}
      BY Zenon
  <2>3. y = [v EXCEPT !.lost = L]
      BY <2>1, <2>2
  <2>4. QED
      BY <2>1, <2>3, LostPending, Zenon
<1>17. CASE Become([w EXCEPT !.lost = @ \cup {obj}]) /\ UNCHANGED table
  <2>1. PICK y : y = [w EXCEPT !.lost = @ \cup {obj}]
      BY Zenon
  <2>2. PGood(y) /\ Become(y)
      BY <1>12, <1>14, <1>16, <1>17, <2>1, Zenon
  <2>3. QED
      BY <1>2, <2>2, PendingBecomes
<1>18. ASSUME NEW a \in {attached, w}, NEW x \in WSIOCP_QueueAccept(a, r),
              IF x[2] THEN Become(x[1]) /\ table' = Put(table, acc, obj)
                      ELSE Become([x[1] EXCEPT !.lost = @ \cup {obj}]) /\ UNCHANGED table
       PROVE  PInv'
  <2>1. Good(attached, table) /\ Joined(w, attached)
      BY <1>7, <1>12, AttachGood
  <2>2. Joined(w, w)
      BY DEF Joined
  <2>3. Good(a, table) /\ Joined(w, a) /\ PGood(a)
      BY <1>12, <1>14, <1>15, <1>18, <2>1, <2>2
  <2>4. Valid(a.m, r) /\ State(a.m, r) # 0 /\ FreeStates(a) # {}
      BY <1>9, <1>12, <2>3 DEF Joined
  <2>5. ~Awaits(a.st, a.io, r)
      BY <2>3, HandedOutIs, Zenon
  <2>6. PICK u : u = x[1]
      BY Zenon
  <2>7. Good(u, table) /\ Follows(a, u)
      BY <1>18, <2>3, <2>4, <2>6, QueueAcceptGood
  <2>8. PGood(u)
      BY <1>18, <2>3, <2>4, <2>5, <2>6, QueueAcceptPending, Zenon
  <2>9. CASE Become(u)
      BY <1>2, <2>8, <2>9, PendingBecomes
  <2>10. CASE Become([u EXCEPT !.lost = @ \cup {obj}])
    <3>1. PICK y : y = [u EXCEPT !.lost = @ \cup {obj}]
        BY Zenon
    <3>2. PGood(y) /\ Become(y)
        BY <1>16, <2>7, <2>8, <2>10, <3>1, Zenon
    <3>3. QED
        BY <1>2, <3>2, PendingBecomes
  <2>11. QED
      BY <1>18, <2>6, <2>9, <2>10, Zenon
<1>19. QED
    BY <1>8, <1>17, <1>18, Zenon

-----------------------------------------------------------------------------
(* A completion leaves the block and the operations that remain in step. *)
LEMMA SettledIs ==
    ASSUME NEW c \in Blocks, NEW o, o.kind \in {"connect", "read", "send"}, NEW b, b = Settled(c, o)
    PROVE  /\ b.wreqs = (IF o.kind = "send" THEN c.wreqs - 1 ELSE c.wreqs)
           /\ "READ_QUEUED" \in b.masks <=> "READ_QUEUED" \in c.masks /\ (o.kind = "send" \/ "CONNECT_PENDING" \in c.masks)
           /\ "CONNECT_PENDING" \in b.masks <=> "CONNECT_PENDING" \in c.masks /\ o.kind = "send"
           /\ \A e : e # "READ_QUEUED" /\ e # "CONNECT_PENDING" => (e \in b.masks <=> e \in c.masks)
<1>1. CASE o.kind = "send"
  <2>1. b = [c EXCEPT !.wreqs = @ - 1]
      BY <1>1 DEF Settled
  <2>2. b.wreqs = c.wreqs - 1 /\ b.masks = c.masks
      BY <2>1 DEF Blocks
  <2>3. QED
      BY <1>1, <2>2
<1>2. CASE o.kind # "send"
  <2>1. PICK d : d = c.masks \ {IF "CONNECT_PENDING" \in c.masks THEN "CONNECT_PENDING" ELSE "READ_QUEUED"}
      BY Zenon
  <2>2. b = [c EXCEPT !.masks = d]
      BY <1>2, <2>1 DEF Settled
  <2>3. b.wreqs = c.wreqs /\ b.masks = d
      BY <2>2 DEF Blocks
  <2>4. QED
      BY <1>2, <2>1, <2>3
<1>3. QED
    BY <1>1, <1>2

LEMMA SettledFits ==
    ASSUME NEW q, IsFiniteSet(q), Single(q), NEW n, NEW o \in q, o.st = n, o.kind \in {"connect", "read", "send"},
           NEW c \in Blocks, Fits(c, q, n), NEW b, b = Settled(c, o)
    PROVE  Fits(b, q \ {o}, n)
<1>1. /\ b.wreqs = (IF o.kind = "send" THEN c.wreqs - 1 ELSE c.wreqs)
      /\ "READ_QUEUED" \in b.masks <=> "READ_QUEUED" \in c.masks /\ (o.kind = "send" \/ "CONNECT_PENDING" \in c.masks)
      /\ "CONNECT_PENDING" \in b.masks <=> "CONNECT_PENDING" \in c.masks /\ o.kind = "send"
      /\ "CLOSE_PENDING" \in b.masks <=> "CLOSE_PENDING" \in c.masks
      /\ "SOCKET_ATTACHED" \in b.masks <=> "SOCKET_ATTACHED" \in c.masks
    BY SettledIs
<1>2. PICK p : p = q \ {o}
    BY Zenon
<1>3. PICK S : S = OnBlock(q, n, "send")
    BY Zenon
<1>4. IsFiniteSet(S) /\ (o.kind = "send" <=> o \in S)
  <2>1. S \subseteq q
      BY <1>3 DEF OnBlock
  <2>2. QED
      BY <1>3, <2>1, FS_Subset DEF OnBlock
<1>5. OnBlock(p, n, "send") = S \ {o}
    BY <1>2, <1>3 DEF OnBlock
<1>6. b.wreqs = Cardinality(OnBlock(p, n, "send")) /\ (o.kind = "send" => c.wreqs # 0)
  <2>1. c.wreqs = Cardinality(S) /\ Cardinality(S) \in Nat
      BY <1>3, <1>4, FS_CardinalityType DEF Fits
  <2>2. CASE o.kind = "send"
    <3>1. Cardinality(S \ {o}) = Cardinality(S) - 1
        BY <1>4, <2>2, FS_RemoveElement
    <3>2. S # {}
        BY <1>4, <2>2
    <3>3. Cardinality(S) # 0
        BY <1>4, <3>2, FS_EmptySet
    <3>4. QED
        BY <1>1, <1>5, <2>1, <2>2, <3>1, <3>3
  <2>3. CASE o.kind # "send"
    <3>1. S \ {o} = S
        BY <1>4, <2>3
    <3>2. QED
        BY <1>1, <1>5, <2>1, <2>3, <3>1
  <2>4. QED
      BY <2>2, <2>3
<1>7. ASSUME n \notin Early PROVE Marks(b, p, n)
  <2>1. /\ "READ_QUEUED" \in c.masks <=> OnBlock(q, n, "read") # {}
        /\ "CONNECT_PENDING" \in c.masks <=> OnBlock(q, n, "connect") # {}
        /\ ~("READ_QUEUED" \in c.masks /\ "CONNECT_PENDING" \in c.masks)
      BY <1>7, Zenon DEF Fits, Marks
  <2>2. \A k : OnBlock(p, n, k) = OnBlock(q, n, k) \ {o} /\ (o.kind # k => OnBlock(p, n, k) = OnBlock(q, n, k))
      BY <1>2 DEF OnBlock
  <2>3. o.kind # "send" => OnBlock(p, n, o.kind) = {} /\ OnBlock(q, n, o.kind) # {}
    <3>1. o.kind # "send" => \A x \in q : x.st = n /\ x.kind = o.kind => x = o
        BY <1>7 DEF Single
    <3>2. QED
        BY <1>2, <3>1 DEF OnBlock
  <2>4. CASE o.kind = "send"
      BY <1>1, <2>1, <2>2, <2>4, Zenon DEF Marks
  <2>5. CASE o.kind = "read"
    <3>1. OnBlock(p, n, "connect") = OnBlock(q, n, "connect") /\ OnBlock(p, n, "read") = {} /\ OnBlock(q, n, "read") # {}
        BY <2>2, <2>3, <2>5
    <3>2. QED
        BY <1>1, <2>1, <2>5, <3>1 DEF Marks
  <2>6. CASE o.kind = "connect"
    <3>1. OnBlock(p, n, "read") = OnBlock(q, n, "read") /\ OnBlock(p, n, "connect") = {} /\ OnBlock(q, n, "connect") # {}
        BY <2>2, <2>3, <2>6
    <3>2. QED
        BY <1>1, <2>1, <2>6, <3>1 DEF Marks
  <2>7. QED
      BY <2>4, <2>5, <2>6
<1>9. b.masks \cap {"SOCKET_ATTACHED", "CLOSE_PENDING"} = {} => b.wreqs = 0
  <2>1. SUFFICES ASSUME b.masks \cap {"SOCKET_ATTACHED", "CLOSE_PENDING"} = {} PROVE b.wreqs = 0
      OBVIOUS
  <2>2. c.masks \cap {"SOCKET_ATTACHED", "CLOSE_PENDING"} = {}
      BY <1>1, <2>1
  <2>3. c.wreqs = 0
      BY <2>2 DEF Fits
  <2>4. QED
      BY <1>1, <1>6, <2>3
<1>10. QED
    BY <1>2, <1>6, <1>7, <1>9, Zenon DEF Fits

(* A counted operation completes on the block it was issued on. *)
LEMMA OwnBlock ==
    ASSUME IInv, PInv, NEW o \in io, Counted(o), o.key # -1
    PROVE  /\ StateAt(o.key) = o.st /\ o.key \in DOMAIN m.RFDToSocketInfo /\ o.st \in 1 .. NStates /\ st[o.st] \in Blocks
           /\ Fits(st[o.st], io, o.st)
<1>1. StatesOwned(m, st) /\ io \subseteq Operations
    BY Zenon DEF IInv, Types, WorldTypes
<1>2. Ops(st, io)
    BY Zenon DEF PInv
<1>3. o.st \in 1 .. NStates
    BY <1>1, OperationIs
<1>4. st[o.st] # NoState /\ o.key = st[o.st].fd
    BY <1>2, Zenon DEF Ops, Keys, Keyed
<1>5. st[o.st] \in Blocks /\ o.key \in DOMAIN m.RFDToSocketInfo /\ State(m, o.key) = o.st
    BY <1>1, <1>3, <1>4 DEF StatesOwned
<1>6. Fits(st[o.st], io, o.st)
    BY <1>2, <1>3, <1>4, Zenon DEF Ops, Counts
<1>7. QED
    BY <1>3, <1>5, <1>6 DEF StateAt, State

(* A block with a counted operation is not one that waits to be taken. *)
LEMMA QuietHasNone ==
    ASSUME NEW s, NEW q, Ops(s, q), q \subseteq Operations, IsFiniteSet(q), NEW o \in q, Counted(o)
    PROVE  ~Resting(s[o.st])
<1>1. SUFFICES ASSUME Resting(s[o.st]) PROVE FALSE
    OBVIOUS
<1>2. PICK n : n = o.st
    BY Zenon
<1>3. n \in 1 .. NStates
    BY <1>2, OperationIs
<1>4. s[n] # NoState
    BY <1>2, Zenon DEF Ops, Keys, Keyed
<1>5. Fits(s[n], q, n)
    BY <1>3, <1>4, Zenon DEF Ops, Counts
<1>6. s[n].wreqs = 0 /\ "READ_QUEUED" \notin s[n].masks /\ "CONNECT_PENDING" \notin s[n].masks
    BY <1>1, <1>2 DEF Resting
<1>7. NoOps(q, n)
    BY <1>5, <1>6, NoneUnderWay, Zenon
<1>8. QED
    BY <1>2, <1>7 DEF NoOps

LEMMA NotAccepting ==
    ASSUME NEW x, NEW y, x = y \ {"ACCEPT_PENDING"}
    PROVE  /\ "READ_QUEUED" \in x <=> "READ_QUEUED" \in y
           /\ "CONNECT_PENDING" \in x <=> "CONNECT_PENDING" \in y
           /\ x \cap {"SOCKET_ATTACHED", "CLOSE_PENDING"} = {} => y \cap {"SOCKET_ATTACHED", "CLOSE_PENDING"} = {}
<1>1. \A e : e # "ACCEPT_PENDING" => (e \in x <=> e \in y)
    OBVIOUS
<1>2. QED
    BY <1>1

(* An accept is done: its socket waits in the list of block n, or is dropped. *)
LEMMA AcceptedPending ==
    ASSUME NEW M, NEW s \in BlockTables, NEW q, NEW o \in Accepts(q), NEW tb, NEW H, MapGood(M), StatesOwned(M, s),
           q \subseteq Operations, Waits(M, s, q, tb), Ops(s, q), Closed(M, s, H), QuietWaits(M, s, q), Closings(M, H), H[Loop].pc = "idle",
           NEW n \in 1 .. NStates, s[n] \in Blocks, "LISTEN_SOCK" \in s[n].masks, "CLOSE_PENDING" \notin s[n].masks,
           o.acc \in Nat, NEW z, z = [s EXCEPT ![n] = Queued(s[n], o.acc)]
    PROVE  Ops(z, q \ {o}) /\ Closed(M, z, H) /\ QuietWaits(M, z, q \ {o})
<1>1. PICK c : c = s[n]
    BY Zenon
<1>2. PICK b : b = Queued(c, o.acc)
    BY Zenon
<1>3. b \in Blocks /\ b.fd = c.fd /\ b.reqs = <<o.acc>> \o c.reqs /\ b.wreqs = c.wreqs /\ c # NoState /\ b # NoState
  <2>1. c \in Blocks
      BY <1>1
  <2>2. b \in Blocks /\ b.fd = c.fd /\ b.masks \subseteq c.masks /\ b.reqs = <<o.acc>> \o c.reqs /\ b.wreqs = c.wreqs
      BY <1>2, <2>1, QueuedBlock
  <2>3. c # NoState /\ b # NoState
      BY <2>1, <2>2, BlockIs
  <2>4. QED
      BY <2>2, <2>3
<1>4. b.masks = c.masks \ {"ACCEPT_PENDING"}
    BY <1>1, <1>2 DEF Queued, Blocks
<1>5. z[n] = b /\ \A k \in 1 .. NStates : k # n => z[k] = s[k]
    BY <1>1, <1>2 DEF BlockTables
<1>6. PICK p : p = q \ {o}
    BY Zenon
<1>7. o \in q /\ o.kind = "accept"
    BY DEF Accepts
<1>8. Ops(z, p)
  <2>1. Fits(c, q, n)
      BY <1>1, <1>3, Zenon DEF Ops, Counts
  <2>2. /\ "READ_QUEUED" \in b.masks <=> "READ_QUEUED" \in c.masks
        /\ "CONNECT_PENDING" \in b.masks <=> "CONNECT_PENDING" \in c.masks
        /\ b.masks \cap {"SOCKET_ATTACHED", "CLOSE_PENDING"} = {} => c.masks \cap {"SOCKET_ATTACHED", "CLOSE_PENDING"} = {}
      BY <1>4, NotAccepting, Zenon
  <2>3. Fits(b, q, n)
      BY <1>3, <2>1, <2>2, Remarked
  <2>4. z[n] # NoState /\ z[n].fd = s[n].fd /\ Fits(z[n], q, n) /\ s[n] # NoState
      BY <1>1, <1>3, <1>5, <2>3
  <2>5. Ops(z, q)
      BY <1>5, <2>4, MarkedOps, ZenonT(60)
  <2>6. \A x : x.kind # "accept" => (x \in p <=> x \in q)
      BY <1>6, <1>7
  <2>7. p \subseteq Operations
      BY <1>6
  <2>8. QED
      BY <2>5, <2>6, <2>7, AcceptOps, Zenon
<1>9. Closed(M, z, H)
  <2>1. SUFFICES ASSUME NEW r \in DOMAIN M.RFDToSocketInfo, Socket(M, r) = INVALID_SOCKET, State(M, r) # 0, Lingers(s[State(M, r)])
                 PROVE  Lingers(z[State(M, r)])
      BY DEF Closed
  <2>2. State(M, r) \in 1 .. NStates
      BY <2>1, StateIs
  <2>3. State(M, r) # n
      BY <2>1 DEF Lingers
  <2>4. QED
      BY <1>5, <2>1, <2>2, <2>3
<1>10. c.reqs \in Seq(Nat) /\ Listed(s, n) = c.reqs /\ Listed(z, n) = b.reqs
  <2>1. c.reqs \in Seq(Nat)
      BY <1>1, BlockIs
  <2>2. QED
      BY <1>1, <1>3, <1>5, <2>1 DEF Listed
<1>11. PICK len : len = Len(c.reqs)
    BY Zenon
<1>12. /\ len \in Nat /\ DOMAIN c.reqs = 1 .. len /\ DOMAIN b.reqs = 1 .. len + 1 /\ b.reqs[1] = o.acc
       /\ \A i \in 2 .. len + 1 : i - 1 \in 1 .. len /\ b.reqs[i] = c.reqs[i - 1]
    BY <1>3, <1>10, <1>11, Prepended
<1>13. ASSUME NEW a, Awaits(z, p, a) PROVE Awaits(s, q, a)
  <2>1. CASE \E x \in Accepts(p) : x.acc = a
      BY <1>6, <2>1 DEF Awaits, Accepts
  <2>2. CASE \E k \in 1 .. NStates : \E i \in DOMAIN Listed(z, k) : Listed(z, k)[i] = a
    <3>1. PICK k \in 1 .. NStates : \E i \in DOMAIN Listed(z, k) : Listed(z, k)[i] = a
        BY <2>2
    <3>2. CASE k = n
      <4>1. PICK i \in 1 .. len + 1 : b.reqs[i] = a
          BY <1>10, <1>12, <3>1, <3>2
      <4>2. CASE i = 1
          BY <1>12, <4>1, <4>2 DEF Awaits
      <4>3. CASE i # 1
        <5>1. i - 1 \in DOMAIN c.reqs /\ c.reqs[i - 1] = a
            BY <1>12, <4>1, <4>3
        <5>2. QED
            BY <1>10, <5>1 DEF Awaits
      <4>4. QED
          BY <4>2, <4>3
    <3>3. CASE k # n
      <4>1. Listed(z, k) = Listed(s, k)
          BY <1>5, <3>3 DEF Listed
      <4>2. QED
          BY <3>1, <4>1 DEF Awaits
    <3>4. QED
        BY <3>2, <3>3
  <2>3. QED
      BY <1>13, <2>1, <2>2 DEF Awaits
<1>14. QuietWaits(M, z, p)
  <2>1. SUFFICES ASSUME NEW a, Awaits(z, p, a) PROVE Quiet(M, z, a)
      BY DEF QuietWaits
  <2>2. Awaits(s, q, a)
      BY <1>13, <2>1, Zenon
  <2>3. State(M, a) # 0 /\ Resting(s[State(M, a)])
      BY <2>2, Zenon DEF QuietWaits, Quiet
  <2>4. State(M, a) \in 1 .. NStates
    <3>1. Valid(M, a)
        BY <2>2, AwaitsIs, Zenon
    <3>2. QED
        BY <2>3, <3>1, StateIs DEF Valid
  <2>5. State(M, a) # n
      BY <2>3 DEF Resting
  <2>6. z[State(M, a)] = s[State(M, a)]
      BY <1>5, <2>4, <2>5, Zenon
  <2>7. QED
      BY <2>3, <2>6 DEF Quiet
<1>15. QED
    BY <1>6, <1>8, <1>9, <1>14

LEMMA FewerAwaited ==
    ASSUME NEW M, NEW s, NEW z, NEW q, NEW p, QuietWaits(M, s, q), p \subseteq q,
           \A k \in 1 .. NStates : Listed(z, k) = Listed(s, k) \/ Listed(z, k) = <<>>
    PROVE  (\A a : Awaits(z, p, a) => Awaits(s, q, a)) /\ QuietWaits(M, s, p)
<1>1. Accepts(p) \subseteq Accepts(q) /\ DOMAIN <<>> = {}
    BY DEF Accepts
<1>2. ASSUME NEW a, Awaits(z, p, a) PROVE Awaits(s, q, a)
  <2>1. CASE \E x \in Accepts(p) : x.acc = a
      BY <1>1, <2>1 DEF Awaits
  <2>2. CASE \E k \in 1 .. NStates : \E i \in DOMAIN Listed(z, k) : Listed(z, k)[i] = a
      BY <1>1, <2>2 DEF Awaits
  <2>3. QED
      BY <1>2, <2>1, <2>2 DEF Awaits
<1>3. ASSUME NEW a, Awaits(s, p, a) PROVE Awaits(s, q, a)
    BY <1>1, <1>3 DEF Awaits
<1>4. QED
    BY <1>2, <1>3, Zenon DEF QuietWaits

(* OneBlock and LosesPending with their hypotheses named. *)
Apart(s, z, n) == \A k \in 1 .. NStates : k # n => z[k] = s[k]
KeyedOn(z, p, n) == \A o \in p : Counted(o) /\ o.st = n => Keyed(z, o)
FitsOn(z, p, n) == z[n] # NoState => Fits(z[n], p, n)
LEMMA BlockChanges ==
    ASSUME NEW s, NEW z, NEW q, NEW p, Ops(s, q), NEW n \in 1 .. NStates, Apart(s, z, n),
           Elsewhere(q, p, n), p \subseteq Operations, FitsOn(z, p, n), Single(p), KeyedOn(z, p, n)
    PROVE  Ops(z, p)
<1>1. \A k \in 1 .. NStates : k # n => z[k] = s[k]
    BY Zenon DEF Apart
<1>2. z[n] # NoState => Fits(z[n], p, n)
    BY Zenon DEF FitsOn
<1>3. \A o \in p : Counted(o) /\ o.st = n => Keyed(z, o)
    BY Zenon DEF KeyedOn
<1>4. QED
    BY <1>1, <1>2, <1>3, OneBlock, SMTT(40)

FewerWait(s, z, q, r) == \A a : Awaits(z, q, a) => Awaits(s, q, a) /\ a # r
OthersStay(M, s, z, r) == \A x \in DOMAIN M.RFDToSocketInfo : x # r /\ State(M, x) # 0 => z[State(M, x)] = s[State(M, x)]
LEMMA BlockGoes ==
    ASSUME NEW M, NEW G, NEW r, LosesInfo(M, G, r), r \in DOMAIN M.RFDToSocketInfo, NEW s, NEW z, NEW q, NEW tb, NEW H,
           Waits(M, s, q, tb), Closed(M, s, H), QuietWaits(M, s, q), FewerWait(s, z, q, r), OthersStay(M, s, z, r)
    PROVE  Closed(G, z, H) /\ QuietWaits(G, z, q)
<1>1. \A a : Awaits(z, q, a) => Awaits(s, q, a) /\ a # r
    BY Zenon DEF FewerWait
<1>2. \A x \in DOMAIN M.RFDToSocketInfo : x # r /\ State(M, x) # 0 => z[State(M, x)] = s[State(M, x)]
    BY Zenon DEF OthersStay
<1>3. \A u \in Threads : H[u].pc = "closeState" /\ H[u].rfd # r => H[u] = H[u]
    OBVIOUS
<1>4. QED
    BY <1>1, <1>2, <1>3, LosesPending, SMTT(40)

(* The last operation of a closed block is done: block and descriptor go. *)
LEMMA LastPending ==
    ASSUME NEW M, NEW G, NEW s \in BlockTables, NEW q, NEW o \in q, NEW tb, NEW H, MapGood(M), StatesOwned(M, s),
           q \subseteq Operations, IsFiniteSet(q), Waits(M, s, q, tb), Ops(s, q), Closed(M, s, H), QuietWaits(M, s, q),
           o.kind # "accept", NEW n, n = o.st, s[n] \in Blocks, Fits(s[n], q, n), Closable(Settled(s[n], o)),
           NEW r \in DOMAIN M.RFDToSocketInfo, n = State(M, r), n # 0, Socket(M, r) = INVALID_SOCKET, LosesInfo(M, G, r),
           NEW z, z = [s EXCEPT ![n] = NoState]
    PROVE  Ops(z, q \ {o}) /\ Closed(G, z, H) /\ QuietWaits(G, z, q \ {o})
<1>1. PICK p : p = q \ {o}
    BY Zenon
<1>2. p \subseteq q /\ p \subseteq Operations /\ IsFiniteSet(p)
    BY <1>1, FS_Subset
<1>3. o.kind \in {"connect", "read", "send"} /\ n \in 1 .. NStates
    BY OperationIs
<1>4. PICK b : b = Settled(s[n], o)
    BY Zenon
<1>5. Single(q)
    BY Zenon DEF Ops
<1>6. Fits(b, p, n)
    BY <1>1, <1>3, <1>4, <1>5, SettledFits, Zenon
<1>7. NoOps(p, n)
  <2>1. b.wreqs = 0 /\ "READ_QUEUED" \notin b.masks /\ "CONNECT_PENDING" \notin b.masks
      BY <1>4 DEF Closable
  <2>2. QED
      BY <1>2, <1>6, <2>1, NoneUnderWay, Zenon
<1>8. z[n] = NoState /\ \A k \in 1 .. NStates : k # n => z[k] = s[k]
    BY <1>3 DEF BlockTables
<1>9. Ops(z, p)
  <2>1. Elsewhere(q, p, n)
      BY <1>1 DEF Elsewhere
  <2>2. Single(p)
      BY <1>2, <1>5 DEF Single
  <2>3. \A x \in p : Counted(x) /\ x.st = n => Keyed(z, x)
      BY <1>7, Zenon DEF NoOps
  <2>4. Apart(s, z, n) /\ FitsOn(z, p, n) /\ KeyedOn(z, p, n)
      BY <1>8, <2>3, Zenon DEF Apart, FitsOn, KeyedOn
  <2>5. QED
      BY <1>2, <1>3, <2>1, <2>2, <2>4, BlockChanges, Zenon
<1>10. \A k \in 1 .. NStates : Listed(z, k) = Listed(s, k) \/ Listed(z, k) = <<>>
    BY <1>8 DEF Listed
<1>11. Waits(M, s, p, tb)
    BY <1>2, FewerOperations, Zenon
<1>12. QuietWaits(M, s, p)
    BY <1>2, <1>10, FewerAwaited, Zenon
<1>13. \A a : Awaits(z, p, a) => Awaits(s, p, a) /\ a # r
  <2>1. p \subseteq p
      OBVIOUS
  <2>2. \A a : Awaits(z, p, a) => Awaits(s, p, a)
      BY <1>10, <1>12, <2>1, FewerAwaited, Zenon
  <2>3. \A a : Awaits(s, p, a) => Valid(M, a)
      BY <1>11, AwaitsIs, Zenon
  <2>4. QED
      BY <2>2, <2>3 DEF Valid
<1>14. \A x \in DOMAIN M.RFDToSocketInfo : x # r /\ State(M, x) # 0 => z[State(M, x)] = s[State(M, x)]
  <2>1. ASSUME NEW x \in DOMAIN M.RFDToSocketInfo, x # r, State(M, x) # 0 PROVE z[State(M, x)] = s[State(M, x)]
    <3>1. State(M, x) # n
        BY <2>1, OthersOwn
    <3>2. State(M, x) \in 1 .. NStates
        BY <2>1, StateIs
    <3>3. QED
        BY <1>8, <3>1, <3>2, Zenon
  <2>2. QED
      BY <2>1
<1>15. FewerWait(s, z, p, r) /\ OthersStay(M, s, z, r)
    BY <1>13, <1>14, Zenon DEF FewerWait, OthersStay
<1>16. Closed(G, z, H) /\ QuietWaits(G, z, p)
    BY <1>11, <1>12, <1>15, BlockGoes, Zenon
<1>17. QED
    BY <1>1, <1>9, <1>16

(* An operation is done, and the block has others or is still in use. *)
LEMMA SettledPending ==
    ASSUME NEW M, NEW s \in BlockTables, NEW q, NEW o \in q, NEW tb, NEW H, MapGood(M), StatesOwned(M, s),
           q \subseteq Operations, IsFiniteSet(q), Waits(M, s, q, tb), Ops(s, q), Closed(M, s, H), QuietWaits(M, s, q),
           o.kind # "accept", NEW n, n = o.st, s[n] \in Blocks, Fits(s[n], q, n), NEW b, b = Settled(s[n], o),
           "CLOSE_PENDING" \in s[n].masks => ~Closable(b), NEW z, z = [s EXCEPT ![n] = b]
    PROVE  Ops(z, q \ {o}) /\ Closed(M, z, H) /\ QuietWaits(M, z, q \ {o})
<1>1. PICK p : p = q \ {o}
    BY Zenon
<1>2. p \subseteq q /\ p \subseteq Operations
    BY <1>1
<1>3. o.kind \in {"connect", "read", "send"} /\ n \in 1 .. NStates
    BY OperationIs
<1>4. Single(q) /\ Keys(s, q)
    BY Zenon DEF Ops
<1>5. Fits(b, p, n)
    BY <1>1, <1>3, <1>4, SettledFits, Zenon
<1>6. SameBut(b, s[n])
    BY SettledBlock
<1>7. b.fd = s[n].fd /\ b.reqs = s[n].reqs /\ b # NoState /\ s[n] # NoState
    BY <1>6, BlockIs DEF SameBut
<1>8. z[n] = b /\ \A k \in 1 .. NStates : k # n => z[k] = s[k]
    BY <1>3 DEF BlockTables
<1>9. Ops(z, p)
  <2>1. Elsewhere(q, p, n)
      BY <1>1 DEF Elsewhere
  <2>2. Single(p)
      BY <1>2, <1>4 DEF Single
  <2>3. \A x \in p : Counted(x) /\ x.st = n => Keyed(z, x)
      BY <1>2, <1>4, <1>7, <1>8 DEF Keys, Keyed
  <2>4. z[n] # NoState => Fits(z[n], p, n)
      BY <1>5, <1>8
  <2>5. Apart(s, z, n) /\ FitsOn(z, p, n) /\ KeyedOn(z, p, n)
      BY <1>8, <2>3, <2>4, Zenon DEF Apart, FitsOn, KeyedOn
  <2>6. QED
      BY <1>2, <1>3, <2>1, <2>2, <2>5, BlockChanges, Zenon
<1>10. \A k \in 1 .. NStates : Listed(z, k) = Listed(s, k)
    BY <1>7, <1>8 DEF Listed
<1>11. Closed(M, z, H)
  <2>1. SUFFICES ASSUME NEW r \in DOMAIN M.RFDToSocketInfo, Socket(M, r) = INVALID_SOCKET, State(M, r) # 0, Lingers(s[State(M, r)])
                 PROVE  Lingers(z[State(M, r)])
      BY DEF Closed
  <2>2. State(M, r) \in 1 .. NStates
      BY <2>1, StateIs
  <2>3. CASE State(M, r) = n
    <3>1. "CLOSE_PENDING" \in s[n].masks
        BY <2>1, <2>3 DEF Lingers
    <3>2. "CLOSE_PENDING" \in b.masks
        BY <1>3, <3>1, SettledIs
    <3>3. QED
        BY <1>8, <2>3, <3>1, <3>2 DEF Lingers
  <2>4. CASE State(M, r) # n
      BY <1>8, <2>1, <2>2, <2>4
  <2>5. QED
      BY <2>3, <2>4
<1>12. QuietWaits(M, z, p)
  <2>1. SUFFICES ASSUME NEW a, Awaits(z, p, a) PROVE Quiet(M, z, a)
      BY DEF QuietWaits
  <2>2. Awaits(s, q, a)
      BY <1>2, <1>10, <2>1, FewerAwaited, Zenon
  <2>3. State(M, a) # 0 /\ Resting(s[State(M, a)])
      BY <2>2, Zenon DEF QuietWaits, Quiet
  <2>4. State(M, a) \in 1 .. NStates
    <3>1. Valid(M, a)
        BY <2>2, AwaitsIs, Zenon
    <3>2. QED
        BY <2>3, <3>1, StateIs DEF Valid
  <2>5. CASE State(M, a) = n
    <3>1. ~Counted(o)
        BY <2>3, <2>5, QuietHasNone, Zenon
    <3>2. s[n].masks = {"SOCKET_ATTACHED"} /\ s[n].wreqs = 0
        BY <2>3, <2>5 DEF Resting
    <3>3. b.wreqs = 0 /\ \A e : e \in b.masks <=> e \in s[n].masks
        BY <1>3, <3>1, <3>2, SettledIs DEF Counted
    <3>4. b.masks = {"SOCKET_ATTACHED"}
        BY <3>2, <3>3
    <3>5. QED
        BY <1>8, <2>3, <2>5, <3>3, <3>4 DEF Quiet, Resting
  <2>6. CASE State(M, a) # n
    <3>1. z[State(M, a)] = s[State(M, a)]
        BY <1>8, <2>4, <2>6, Zenon
    <3>2. QED
        BY <2>3, <3>1 DEF Quiet
  <2>7. QED
      BY <2>5, <2>6
<1>13. QED
    BY <1>1, <1>9, <1>11, <1>12

LEMMA CompletePending ==
    ASSUME IInv, PInv, NEW o, Complete(o)
    PROVE  PInv'
<1>1. PICK r : r = o.key
    BY Zenon
<1>2. PICK n : n = StateAt(r)
    BY Zenon
<1>3. PICK s : s = st[n]
    BY Zenon
<1>4. PICK after : after = Settled(s, o)
    BY Zenon
<1>5. /\ th[Loop].pc = "idle" /\ o \in io /\ r # -1 /\ io' = io \ {o}
      /\ IF n = 0 THEN lost' = lost \cup Orphaned(o) /\ UNCHANGED <<m, st>>
         ELSE IF o.kind = "accept" /\ "LISTEN_SOCK" \in s.masks /\ "CLOSE_PENDING" \notin s.masks
         THEN /\ st' = [st EXCEPT ![n] = Queued(s, o.acc)]
              /\ UNCHANGED <<m, lost>>
         ELSE IF (o.kind # "accept" /\ o.st = n) /\ "CLOSE_PENDING" \in s.masks /\ Closable(after)
         THEN /\ st' = WSIOCP_CloseSocketState([st EXCEPT ![n] = after], n)
              /\ m' = FDAPI_ClearSocketInfo(m, r) /\ UNCHANGED lost
         ELSE /\ st' = IF o.kind # "accept" /\ o.st = n THEN [st EXCEPT ![n] = after] ELSE st
              /\ lost' = lost \cup Orphaned(o) /\ UNCHANGED m
      /\ UNCHANGED <<sock, crt, streams, port, th, table, sockets, files>>
    BY <1>1, <1>2, <1>3, <1>4, Zenon DEF Complete, At
<1>6. Types /\ MapGood(m) /\ Closings(m, th) /\ StatesOwned(m, st) /\ Waits(m, st, io, table)
    BY Zenon DEF IInv
<1>7. sock' = sock /\ port' = port /\ th' = th
    BY <1>5
<1>8. st \in BlockTables /\ io \subseteq Operations /\ IsFiniteSet(io)
    BY <1>6, Zenon DEF Types, WorldTypes, BlockTables
<1>9. Ops(st, io) /\ Ports(m, sock, port) /\ Starting(port, th) /\ Closed(m, st, th) /\ QuietWaits(m, st, io)
    BY Zenon DEF PInv
<1>10. PICK G : G = m'
    BY Zenon
<1>11. PICK z : z = st'
    BY Zenon
<1>12. PICK q : q = io \ {o}
    BY Zenon
<1>13. ASSUME Ops(z, q), Ports(G, sock, port), Closed(G, z, th), QuietWaits(G, z, q) PROVE PInv'
  <2>1. io' = q
      BY <1>5, <1>12
  <2>2. QED
      BY <1>7, <1>9, <1>10, <1>11, <1>13, <2>1, Zenon DEF PInv
<1>14. CASE o.kind = "accept"
  <2>1. CASE n # 0 /\ "LISTEN_SOCK" \in s.masks /\ "CLOSE_PENDING" \notin s.masks
    <3>1. G = m /\ z = [st EXCEPT ![n] = Queued(st[n], o.acc)]
        BY <1>3, <1>5, <1>10, <1>11, <1>14, <2>1
    <3>2. r \in DOMAIN m.RFDToSocketInfo /\ n = State(m, r)
        BY <1>2, <2>1 DEF StateAt, State
    <3>3. n \in 1 .. NStates /\ st[n] \in Blocks
      <4>1. n \in 1 .. NStates
          BY <1>6, <2>1, <3>2, StateIs
      <4>2. QED
          BY <1>6, <2>1, <3>2, <4>1 DEF StatesOwned
    <3>4. o \in Accepts(io)
        BY <1>5, <1>14 DEF Accepts
    <3>5. o.acc \in Nat
      <4>1. Valid(m, o.acc)
          BY <1>6, <3>4, Zenon DEF Waits
      <4>2. QED
          BY <1>6, <4>1, StateIs DEF Valid
    <3>6. "LISTEN_SOCK" \in st[n].masks /\ "CLOSE_PENDING" \notin st[n].masks
        BY <1>3, <2>1
    <3>7. Ops(z, io \ {o}) /\ Closed(m, z, th) /\ QuietWaits(m, z, io \ {o})
        BY <1>5, <1>6, <1>8, <1>9, <3>1, <3>3, <3>4, <3>5, <3>6, AcceptedPending, Zenon
    <3>8. QED
        BY <1>9, <1>12, <1>13, <3>1, <3>7, Zenon
  <2>2. CASE ~(n # 0 /\ "LISTEN_SOCK" \in s.masks /\ "CLOSE_PENDING" \notin s.masks)
    <3>1. G = m /\ z = st
        BY <1>5, <1>10, <1>11, <1>14, <2>2
    <3>2. \A x : x.kind # "accept" => (x \in q <=> x \in io)
        BY <1>12, <1>14
    <3>3. Ops(st, q)
      <4>1. q \subseteq Operations
          BY <1>8, <1>12
      <4>2. QED
          BY <1>8, <1>9, <3>2, <4>1, AcceptOps, Zenon
    <3>4. QuietWaits(m, st, q)
      <4>1. q \subseteq io
          BY <1>12
      <4>2. \A k \in 1 .. NStates : Listed(st, k) = Listed(st, k) \/ Listed(st, k) = <<>>
          OBVIOUS
      <4>3. QED
          BY <1>9, <4>1, <4>2, FewerAwaited, Zenon
    <3>5. QED
        BY <1>9, <1>13, <3>1, <3>3, <3>4, Zenon
  <2>3. QED
      BY <2>1, <2>2
<1>15. CASE o.kind # "accept" /\ n # 0 /\ n = o.st
  <2>1. n = o.st /\ r \in DOMAIN m.RFDToSocketInfo /\ n \in 1 .. NStates /\ s \in Blocks /\ Fits(s, io, n)
    <3>1. r \in DOMAIN m.RFDToSocketInfo /\ n = State(m, r)
        BY <1>2, <1>15 DEF StateAt, State
    <3>2. n \in 1 .. NStates
        BY <1>6, <1>15, <3>1, StateIs
    <3>3. st[n] \in Blocks
        BY <1>6, <1>15, <3>1, <3>2 DEF StatesOwned
    <3>4. st[n] # NoState
        BY <3>3, BlockIs
    <3>5. Fits(st[n], io, n)
        BY <1>9, <3>2, <3>4, Zenon DEF Ops, Counts
    <3>6. QED
        BY <1>3, <1>15, <3>1, <3>2, <3>3, <3>5
  <2>2. n = State(m, r) /\ n # 0
      BY <1>2, <2>1 DEF StateAt, State
  <2>3. st[n] \in Blocks /\ Fits(st[n], io, n) /\ after = Settled(st[n], o)
      BY <1>3, <1>4, <2>1, Zenon
  <2>4. CASE "CLOSE_PENDING" \in s.masks /\ Closable(after)
    <3>1. z = WSIOCP_CloseSocketState([st EXCEPT ![n] = after], n) /\ G = FDAPI_ClearSocketInfo(m, r)
        BY <1>5, <1>10, <1>11, <1>15, <2>1, <2>2, <2>4, Zenon
    <3>2. z = [st EXCEPT ![n] = NoState]
      <4>1. PICK y : y = [st EXCEPT ![n] = after]
          BY Zenon
      <4>2. y[n] = after
          BY <1>8, <2>1, <4>1 DEF BlockTables
      <4>3. z = [y EXCEPT ![n] = NoState]
          BY <2>4, <3>1, <4>1, <4>2 DEF WSIOCP_CloseSocketState
      <4>4. QED
          BY <4>1, <4>3
    <3>3. Socket(m, r) = INVALID_SOCKET
        BY <1>3, <1>6, <2>1, <2>2, <2>4 DEF StatesOwned
    <3>4. LosesInfo(m, G, r)
      <4>1. G = removeRFDToSocketInfo(m, r)
          BY <3>1, <3>3 DEF FDAPI_ClearSocketInfo, Socket
      <4>2. QED
          BY <1>6, <2>1, <4>1, InfoRemoved
    <3>5. Closable(Settled(st[n], o))
        BY <2>3, <2>4
    <3>6. Ops(z, io \ {o}) /\ Closed(G, z, th) /\ QuietWaits(G, z, io \ {o})
        BY <1>5, <1>6, <1>8, <1>9, <1>15, <2>1, <2>2, <2>3, <3>2, <3>3, <3>4, <3>5, LastPending, Zenon
    <3>7. Ports(G, sock, port)
        BY <1>9, <3>4, LosesPorts, Zenon
    <3>8. QED
        BY <1>12, <1>13, <3>6, <3>7, Zenon
  <2>5. CASE ~("CLOSE_PENDING" \in s.masks /\ Closable(after))
    <3>1. G = m /\ z = [st EXCEPT ![n] = after]
        BY <1>5, <1>10, <1>11, <1>15, <2>1, <2>2, <2>5, Zenon
    <3>2. "CLOSE_PENDING" \in st[n].masks => ~Closable(after)
        BY <1>3, <2>5
    <3>3. Ops(z, io \ {o}) /\ Closed(m, z, th) /\ QuietWaits(m, z, io \ {o})
        BY <1>5, <1>6, <1>8, <1>9, <1>15, <2>1, <2>3, <3>1, <3>2, SettledPending, Zenon
    <3>4. QED
        BY <1>9, <1>12, <1>13, <3>1, <3>3, Zenon
  <2>6. QED
      BY <2>4, <2>5
<1>16. CASE o.kind # "accept" /\ ~(n # 0 /\ n = o.st)
  <2>1. G = m /\ z = st
      BY <1>5, <1>10, <1>11, <1>16
  <2>2. ~Counted(o)
    <3>1. ASSUME Counted(o) PROVE FALSE
      <4>1. StateAt(o.key) = o.st /\ o.st \in 1 .. NStates
          BY <1>1, <1>5, <3>1, OwnBlock
      <4>2. QED
          BY <1>1, <1>2, <1>16, <4>1
    <3>2. QED
        BY <3>1
  <2>3. Ops(st, q)
    <3>1. q \subseteq Operations /\ \A x : Counted(x) => (x \in q <=> x \in io)
        BY <1>8, <1>12, <2>2
    <3>2. QED
        BY <1>8, <1>9, <3>1, CountedOps, Zenon
  <2>4. QuietWaits(m, st, q)
    <3>1. q \subseteq io
        BY <1>12
    <3>2. \A k \in 1 .. NStates : Listed(st, k) = Listed(st, k) \/ Listed(st, k) = <<>>
        OBVIOUS
    <3>3. QED
        BY <1>9, <3>1, <3>2, FewerAwaited, Zenon
  <2>5. QED
      BY <1>9, <1>13, <2>1, <2>3, <2>4, Zenon
<1>17. QED
    BY <1>14, <1>15, <1>16

LEMMA InitPending ==
    Init => PInv
<1> SUFFICES ASSUME Init PROVE PInv
    OBVIOUS
<1>1. /\ m = RFDMapInit /\ sock = [h \in Handles |-> 0] /\ port = [h \in Handles |-> -1]
      /\ st = [n \in 1 .. NStates |-> NoState] /\ io = {} /\ th = [t \in Threads |-> Idle]
    BY DEF Init
<1>2. DOMAIN m.RFDToSocketInfo = {}
    BY <1>1, RFDMapInitIs, Zenon
<1>3. Ops(st, io)
    BY <1>1 DEF Ops, Counts, Single, Keys
<1>4. Ports(m, sock, port) /\ Closed(m, st, th)
    BY <1>1, <1>2 DEF Ports, Closed
<1>5. Starting(port, th)
    BY <1>1 DEF Starting, Idle
<1>6. QuietWaits(m, st, io)
  <2>1. \A n \in 1 .. NStates : Listed(st, n) = <<>>
      BY <1>1 DEF Listed
  <2>2. DOMAIN <<>> = {}
      OBVIOUS
  <2>3. \A a : ~Awaits(st, io, a)
      BY <1>1, <2>1, <2>2 DEF Awaits, Accepts
  <2>4. QED
      BY <2>3, Zenon DEF QuietWaits
<1>7. QED
    BY <1>3, <1>4, <1>5, <1>6, Zenon DEF PInv

LEMMA StutterPending ==
    ASSUME PInv, UNCHANGED vars
    PROVE  PInv'
<1>1. m' = m /\ sock' = sock /\ port' = port /\ st' = st /\ io' = io /\ th' = th
    BY DEF vars
<1>2. QED
    BY <1>1 DEF PInv

LEMMA NextPending ==
    ASSUME IInv, PInv, Next
    PROVE  PInv'
<1>1. ASSUME NEW t \in Threads, Sockets(t) PROVE PInv'
  <2>1. CASE FDAPI_socket(t) \/ FDAPI_WSASocket(t) \/ FDAPI_accept(t)
    <3>1. NewSocket(t)
      BY <2>1, Zenon DEF FDAPI_socket, FDAPI_WSASocket, FDAPI_accept
    <3>2. QED
      BY <3>1, NewSocketPending, Zenon
  <2>2. CASE AddSocket(t)
    BY <2>2, AddSocketPending, Zenon
  <2>3. CASE FDAPI_close(t)
    BY <2>3, FDAPI_closePending, Zenon
  <2>4. CASE CloseState(t)
    BY <2>4, CloseStatePending, Zenon
  <2>5. CASE RemoveSocket(t)
    BY <2>5, RemoveSocketPending, Zenon
  <2>6. CASE CloseSocket(t)
    BY <2>6, CloseSocketPending, Zenon
  <2>7. CASE FDAPI_CloseDuplicatedSocket(t)
    BY <2>7, FDAPI_CloseDuplicatedSocketPending, Zenon
  <2>8. QED
    BY <1>1, <2>1, <2>2, <2>3, <2>4, <2>5, <2>6, <2>7, Zenon DEF Sockets
<1>2. ASSUME NEW t \in Threads, Worker(t) PROVE PInv'
    BY <1>2, FilesPending, Zenon DEF Worker
<1>3. ASSUME WSIOCP PROVE PInv'
  <2>1. CASE WSIOCP_Listen
    BY <2>1, WSIOCP_ListenPending, Zenon
  <2>2. CASE WSIOCP_Accept
    BY <2>2, WSIOCP_AcceptPending, Zenon
  <2>3. CASE WSIOCP_QueueNextRead
    BY <2>3, WSIOCP_QueueNextReadPending, Zenon
  <2>4. CASE WSIOCP_SocketSend
    BY <2>4, WSIOCP_SocketSendPending, Zenon
  <2>5. CASE WSIOCP_SocketConnect \/ WSIOCP_SocketConnectBind
    BY <2>5, ConnectOverlappedPending, Zenon DEF WSIOCP_SocketConnect, WSIOCP_SocketConnectBind
  <2>6. QED
    BY <1>3, <2>1, <2>2, <2>3, <2>4, <2>5, Zenon DEF WSIOCP
<1>4. ASSUME Completion PROVE PInv'
    BY <1>4, CompletePending, Zenon DEF Completion
<1>5. QED
    BY <1>1, <1>2, <1>3, <1>4, Zenon DEF Next

-----------------------------------------------------------------------------
(* The marks and counts of a state block are those of the operations under   *)
(* way on it, a socket on the port has its descriptor as the key, a closed   *)
(* descriptor has the thread that closes it or an operation that will end,   *)
(* and an accepted socket that waits to be taken has none: at every step of  *)
(* FDAPI_close, of the WSIOCP_ calls and of the completions.                 *)
THEOREM OperationsMatch == Spec => [](IInv /\ PInv)
<1>1. Init => IInv /\ PInv
    BY InitTypes, InitPending, Zenon
<1>2. (IInv /\ PInv) /\ [Next]_vars => (IInv /\ PInv)'
    BY NextTypes, StutterTypes, NextPending, StutterPending, Zenon
<1>3. QED
    BY <1>1, <1>2, PTL DEF Spec

LEMMA PendingHolds ==
    ASSUME IInv, PInv
    PROVE  PendingMatches
<1>1. StatesOwned(m, st) /\ io \subseteq Operations /\ IsFiniteSet(io) /\ MapGood(m)
    BY Zenon DEF IInv, Types, WorldTypes
<1>2. Ops(st, io) /\ Closed(m, st, th)
    BY Zenon DEF PInv
<1>3. \A n, kind : On(n, kind) = OnBlock(io, n, kind)
    BY DEF On, OnBlock
<1>4. ASSUME NEW n \in 1 .. NStates, st[n] # NoState
      PROVE  /\ StateAt(st[n].fd) = n
             /\ st[n].wreqs = Cardinality(On(n, "send"))
             /\ n \notin Early => /\ "READ_QUEUED" \in st[n].masks <=> On(n, "read") # {}
                                 /\ "CONNECT_PENDING" \in st[n].masks <=> On(n, "connect") # {}
  <2>1. Fits(st[n], io, n)
      BY <1>2, <1>4, Zenon DEF Ops, Counts
  <2>2. StateAt(st[n].fd) = n
      BY <1>1, <1>4 DEF StatesOwned, StateAt, State
  <2>3. QED
      BY <1>3, <2>1, <2>2, Zenon DEF Fits, Marks
<1>5. ASSUME NEW o \in io, Counted(o)
      PROVE  st[o.st] # NoState /\ (o.key # -1 => StateAt(o.key) = o.st)
  <2>1. st[o.st] # NoState
      BY <1>2, <1>5, Zenon DEF Ops, Keys, Keyed
  <2>2. QED
      BY <1>5, <2>1, OwnBlock, Zenon
<1>6. ASSUME NEW r \in DOMAIN m.RFDToSocketInfo, lookupSocket(m, r) = INVALID_SOCKET, ~Busy(r), StateAt(r) \notin Early
      PROVE  \E o \in io : o.st = StateAt(r) /\ o.kind # "accept"
  <2>1. Socket(m, r) = INVALID_SOCKET
      BY <1>6 DEF lookupSocket, Socket
  <2>2. PICK n : n = State(m, r)
      BY Zenon
  <2>3. n # 0 /\ Lingers(st[n])
      BY <1>2, <1>6, <2>1, <2>2, Zenon DEF Closed, Busy
  <2>4. n \in 1 .. NStates
      BY <1>1, <2>2, <2>3, StateIs
  <2>5. st[n] # NoState
      BY <1>1, <2>2, <2>3, BlockIs DEF StatesOwned
  <2>6. Fits(st[n], io, n) /\ Marks(st[n], io, n)
    <3>1. n \notin Early
        BY <1>6, <2>2 DEF StateAt, State
    <3>2. QED
        BY <1>2, <2>4, <2>5, <3>1, Zenon DEF Ops, Counts, Fits
  <2>7. PICK kind \in {"connect", "read", "send"} : OnBlock(io, n, kind) # {}
    <3>1. CASE st[n].wreqs # 0
      <4>1. Cardinality(OnBlock(io, n, "send")) # 0
          BY <2>6, <3>1 DEF Fits
      <4>2. OnBlock(io, n, "send") # {}
          BY <4>1, FS_EmptySet
      <4>3. QED
          BY <4>2
    <3>2. CASE "READ_QUEUED" \in st[n].masks
      <4>1. OnBlock(io, n, "read") # {}
          BY <2>6, <3>2, Zenon DEF Marks
      <4>2. QED
          BY <4>1
    <3>3. CASE "CONNECT_PENDING" \in st[n].masks
      <4>1. OnBlock(io, n, "connect") # {}
          BY <2>6, <3>3, Zenon DEF Marks
      <4>2. QED
          BY <4>1
    <3>4. QED
        BY <2>3, <3>1, <3>2, <3>3 DEF Lingers, Closable
  <2>8. StateAt(r) = n
      BY <1>6, <2>2, Zenon DEF StateAt, State
  <2>9. QED
      BY <2>7, <2>8 DEF OnBlock
<1>7. QED
    BY <1>4, <1>5, <1>6, Zenon DEF PendingMatches

(* A completion finds under its key the state block it was issued on, never  *)
(* the block of a socket that got the number later; a block lives as long as *)
(* an operation other than an accept is under way on it; and a descriptor    *)
(* closed but not free has such an operation: for any number of threads,     *)
(* handles, descriptors, blocks and operations under way, and whatever the   *)
(* blocks whose ConnectEx finishes at once.                                  *)
THEOREM CompletionsFind == Spec => []PendingMatches
<1>1. IInv /\ PInv => PendingMatches
    BY PendingHolds, Zenon
<1>2. QED
    BY <1>1, OperationsMatch, PTL
=============================================================================
