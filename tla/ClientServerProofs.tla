------------------------- MODULE ClientServerProofs -------------------------
(***************************************************************************)
(* Proofs about ClientServer, for any finite set of clients, any lengths   *)
(* of a message and of the buffer, and any number of messages and faults.  *)
(*                                                                         *)
(* Neither property is inductive.  The streams rest on the pipe (shown, in *)
(* hand, queued), which only QueueAdd changes, and by an append; the use of*)
(* pLogger rests on the order of start-up; and a full buffer rests on the  *)
(* lockstep of a client and its handler, which lasts until the first       *)
(* message or answer is cut or the connection ends.                        *)
(***************************************************************************)
EXTENDS ClientServer, SequenceTheorems, FiniteSetTheorems, TLAPS

-----------------------------------------------------------------------------
(* The inductive invariant, in parts.                                      *)

Types ==
    /\ main \in {"thread", "logger", "accept"} /\ pLogger \in BOOLEAN
    /\ client \in [Clients -> {"new", "send", "recv", "exited"}]
    /\ handler \in [Clients -> {"none", "recv", "add", "reply", "closed"}]
    /\ link \in [Clients -> {"none", "up", "reset"}]
    /\ {sent, taken, answers, seen} \subseteq [Clients -> Nat]
    /\ consumer \in {"none", "wait", "show"}
    /\ {m_LogQueue, str, shown} \subseteq Seq(Pieces)
    /\ buffer \in [Clients -> Seq(Pieces)] /\ torn \subseteq Clients

(* Nothing is received, and nothing reaches the queue, before there is a   *)
(* logger; only the thread that shows a piece has one in hand.             *)
Startup ==
    /\ pLogger <=> main = "accept"
    /\ ~pLogger => /\ m_LogQueue = <<>> /\ consumer # "show"
                   /\ \A c \in Clients : handler[c] = "none"
    /\ consumer # "show" => str = <<>>

Accepted == {c \in Clients : handler[c] # "none"}

Counted == connectedClients = Cardinality(Accepted)

(* How far the pieces of a client that were put in the queue go.           *)
Handed(c) == IF handler[c] = "add" THEN buffer[c][1].from ELSE taken[c]

(* A handler holds a piece exactly between recv and QueueAdd, and owes an  *)
(* answer from recv to the answer.                                         *)
Handling(c) ==
    /\ seen[c] <= answers[c] /\ answers[c] <= taken[c] /\ taken[c] <= sent[c]
    /\ handler[c] \in {"add", "reply"} => answers[c] < taken[c]
    /\ handler[c] = "add" => /\ Handed(c) \in Nat /\ Handed(c) < taken[c]
                             /\ buffer[c] = <<Piece(c, Handed(c), taken[c])>>
    /\ handler[c] # "add" => buffer[c] = <<>>

(* The pieces in the pipe join up.                                         *)
Streaming(c) == Joined(Pipe, c, Handed(c))

(* None of these pieces of the client ends inside a message.               *)
Uncut(pieces, c) == \A i \in Of(pieces, c) : pieces[i].to % MsgLen = 0

(* Both recvs have returned whole messages so far and the connection lives.*)
InStep(c) ==
    /\ Uncut(Pipe, c)
    /\ handler[c] = "add" => taken[c] % MsgLen = 0
    /\ handler[c] # "closed" /\ link[c] # "reset" /\ c \notin torn

(* Then one message at most is on its way, and a client that is about to   *)
(* send has the answer to all it sent.                                     *)
Lockstep(c) ==
    /\ sent[c] % MsgLen = 0
    /\ client[c] = "new" => link[c] = "none"
    /\ InStep(c) =>
        /\ client[c] \in {"new", "send"} =>
            /\ sent[c] = taken[c] /\ seen[c] = answers[c]
            /\ handler[c] \in {"none", "recv"}
        /\ client[c] = "recv" =>
            \/ sent[c] = taken[c] /\ seen[c] = answers[c] /\ handler[c] \in {"add", "reply"}
            \/ sent[c] = taken[c] /\ seen[c] + 1 = answers[c] /\ handler[c] = "recv"
            \/ sent[c] = taken[c] + MsgLen /\ seen[c] = answers[c]
               /\ handler[c] \in {"none", "recv"}
        /\ client[c] = "exited" =>
            sent[c] = taken[c] \/ sent[c] = taken[c] + MsgLen

(* A full buffer came after a cut message.                                 *)
Cutting(c) ==
    MsgLen < BufLen /\ c \notin torn =>
        /\ FullAfterCut(Pipe, c)
        /\ handler[c] = "add" /\ taken[c] - Handed(c) = BufLen => ~Uncut(Pipe, c)

IInv ==
    /\ Types /\ Startup /\ Counted
    /\ \A c \in Clients : Handling(c) /\ Streaming(c) /\ Lockstep(c) /\ Cutting(c)

-----------------------------------------------------------------------------
(* Lengths of messages: what divides a sum.                                *)

LEMMA Division ==
    ASSUME NEW m \in Nat \ {0}, NEW a \in Nat
    PROVE  a = m * (a \div m) + (a % m) /\ a % m \in 0..(m - 1) /\ a \div m \in Int
  BY SMT

LEMMA SameRemainder ==
    ASSUME NEW m \in Nat \ {0}, NEW k \in Int, NEW j \in Int,
           NEW q \in 0..(m - 1), NEW r \in 0..(m - 1), m * k + q = m * j + r
    PROVE  q = r
  BY SMT

(* A whole message more keeps the length a multiple, a part of one does    *)
(* not.                                                                    *)
LEMMA WholeMessages ==
    ASSUME NEW m \in Nat \ {0}, NEW a \in Nat, a % m = 0
    PROVE  /\ (a + m) % m = 0
           /\ \A n \in 1..(m - 1) : (a + n) % m # 0
  <1>1. a = m * (a \div m) /\ a \div m \in Int
    BY Division
  <1>2. (a + m) % m = 0
    <2>1. a + m = m * ((a + m) \div m) + ((a + m) % m) /\ (a + m) % m \in 0..(m - 1)
          /\ (a + m) \div m \in Int
      <3> a + m \in Nat
        OBVIOUS
      <3> QED
        BY Division
    <2>2. a + m = m * (a \div m + 1) + 0 /\ a \div m + 1 \in Int /\ 0 \in 0..(m - 1)
      BY <1>1
    <2> QED
      BY <2>1, <2>2, SameRemainder
  <1>3. ASSUME NEW n \in 1..(m - 1)
        PROVE  (a + n) % m # 0
    <2>1. a + n = m * ((a + n) \div m) + ((a + n) % m) /\ (a + n) % m \in 0..(m - 1)
          /\ (a + n) \div m \in Int
      <3> a + n \in Nat
        OBVIOUS
      <3> QED
        BY Division
    <2>2. a + n = m * (a \div m) + n /\ n \in 0..(m - 1)
      BY <1>1
    <2>3. (a + n) % m = n
      BY <1>1, <2>1, <2>2, SameRemainder
    <2> QED
      BY <2>3
  <1> QED
    BY <1>2, <1>3

LEMMA WholeLess ==
    ASSUME NEW m \in Nat \ {0}, NEW a \in Nat, (a + m) % m = 0
    PROVE  a % m = 0
  <1>1. a + m \in Nat
    OBVIOUS
  <1>2. a + m = m * ((a + m) \div m) + 0 /\ (a + m) \div m \in Int
    BY <1>1, Division
  <1>3. a = m * (a \div m) + (a % m) /\ a % m \in 0..(m - 1) /\ a \div m \in Int
    BY Division
  <1>4. a + m = m * (a \div m + 1) + (a % m) /\ a \div m + 1 \in Int
    BY <1>3
  <1> QED
    <2>1. 0 \in 0..(m - 1)
      OBVIOUS
    <2> QED
      BY <1>2, <1>3, <1>4, <2>1, SameRemainder

-----------------------------------------------------------------------------
(* Sequences of pieces: what one more piece at the end does.               *)

LEMMA OneMore ==
    ASSUME NEW S, NEW s \in Seq(S), NEW x \in S
    PROVE  /\ s \o <<x>> \in Seq(S)
           /\ DOMAIN s = 1..Len(s) /\ Len(s) \in Nat
           /\ DOMAIN (s \o <<x>>) = 1..(Len(s) + 1)
           /\ \A i \in 1..Len(s) : (s \o <<x>>)[i] = s[i]
           /\ (s \o <<x>>)[Len(s) + 1] = x
  <1>1. s \o <<x>> = Append(s, x)
    BY AppendIsConcat
  <1> QED
    BY <1>1, AppendProperties, LenProperties

(* The places of a client's pieces after one more piece p.                 *)
LEMMA OfOneMore ==
    ASSUME NEW s \in Seq(Pieces), NEW p \in Pieces, NEW c \in Clients
    PROVE  /\ p.client = c => Of(s \o <<p>>, c) = Of(s, c) \cup {Len(s) + 1}
           /\ p.client # c => Of(s \o <<p>>, c) = Of(s, c)
           /\ Of(s, c) \subseteq 1..Len(s)
           /\ \A i \in Of(s, c) : (s \o <<p>>)[i] = s[i]
           /\ (s \o <<p>>)[Len(s) + 1] = p
           /\ Len(s) \in Nat
           /\ \A i \in Of(s, c) : s[i] \in Pieces
  <1>1. PICK n \in Nat, t \in Seq(Pieces) : n = Len(s) /\ t = s \o <<p>>
    BY OneMore
  <1>2. /\ DOMAIN s = 1..n /\ DOMAIN t = 1..(n + 1)
        /\ \A i \in 1..n : t[i] = s[i]
        /\ t[n + 1] = p
        /\ \A i \in 1..n : s[i] \in Pieces
    BY <1>1, OneMore, ElementOfSeq
  <1>3. 1..(n + 1) = 1..n \cup {n + 1} /\ n + 1 \notin 1..n
    BY SMT
  <1>4. /\ p.client = c => Of(t, c) = Of(s, c) \cup {n + 1}
        /\ p.client # c => Of(t, c) = Of(s, c)
        /\ Of(s, c) \subseteq 1..n
        /\ \A i \in Of(s, c) : t[i] = s[i]
        /\ \A i \in Of(s, c) : s[i] \in Pieces
    BY ONLY <1>2, <1>3, Zenon DEF Of
  <1> QED
    BY <1>1, <1>2, <1>4

LEMMA JoinedOneMore ==
    ASSUME NEW s \in Seq(Pieces), NEW c \in Clients, NEW d \in Clients,
           NEW a \in Nat, NEW b \in Nat, NEW upto \in Nat, a < b,
           Joined(s, d, upto), c = d => upto = a
    PROVE  Joined(s \o <<Piece(c, a, b)>>, d, IF c = d THEN b ELSE upto)
  <1>0. Piece(c, a, b) \in Pieces
    BY DEF Pieces, Piece
  <1>1. PICK n \in Nat, p \in Pieces, t \in Seq(Pieces) :
            n = Len(s) /\ p = Piece(c, a, b) /\ t = s \o <<p>>
    BY <1>0, OneMore
  <1>2. p.client = c /\ p.from = a /\ p.to = b
    BY <1>1 DEF Piece
  <1>3. /\ p.client = d => Of(t, d) = Of(s, d) \cup {n + 1}
        /\ p.client # d => Of(t, d) = Of(s, d)
        /\ Of(s, d) \subseteq 1..n
        /\ \A i \in Of(s, d) : t[i] = s[i]
        /\ t[n + 1] = p
        /\ \A i \in Of(s, d) : s[i] \in Pieces
    BY <1>1, OfOneMore
  <1>4. CASE c # d
    BY <1>1, <1>2, <1>3, <1>4, Zenon DEF Joined
  <1>5. CASE c = d
    <2>1. \A i \in Of(s, d) : /\ s[i].from \in Nat /\ s[i].to \in Nat /\ i \in 1..n
                              /\ t[i].from = s[i].from /\ t[i].to = s[i].to
                              /\ s[i].from < s[i].to /\ s[i].to <= a
      BY <1>3, <1>5 DEF Joined, Pieces
    <2>2. t[n + 1].from = a /\ t[n + 1].to = b /\ Of(t, d) = Of(s, d) \cup {n + 1}
      BY <1>2, <1>3, <1>5
    <2>3. \A i, j \in Of(s, d) : i < j => s[i].to <= s[j].from
      BY DEF Joined
    <2>4. \A x \in 1..a : \E i \in Of(s, d) : s[i].from < x /\ x <= s[i].to
      BY <1>5 DEF Joined
    <2>5. \A i \in Of(t, d) : t[i].from < t[i].to /\ t[i].to <= b
      BY <2>1, <2>2
    <2>6. \A i, j \in Of(t, d) : i < j => t[i].to <= t[j].from
      BY <2>1, <2>2, <2>3
    <2>7. ASSUME NEW x \in 1..b
          PROVE  \E i \in Of(t, d) : t[i].from < x /\ x <= t[i].to
      <3>1. CASE x \in 1..a
        BY <2>1, <2>2, <2>4, <3>1
      <3>2. CASE x \notin 1..a
        BY <2>2, <3>2
      <3> QED
        BY <3>1, <3>2
    <2> QED
      BY <1>1, <1>5, <2>5, <2>6, <2>7 DEF Joined
  <1> QED
    BY <1>4, <1>5

LEMMA UncutOneMore ==
    ASSUME NEW s \in Seq(Pieces), NEW c \in Clients, NEW d \in Clients,
           NEW a \in Nat, NEW b \in Nat
    PROVE  Uncut(s \o <<Piece(c, a, b)>>, d) <=>
               Uncut(s, d) /\ (c = d => b % MsgLen = 0)
  <1>0. Piece(c, a, b) \in Pieces
    BY DEF Pieces, Piece
  <1>1. PICK n \in Nat, p \in Pieces, t \in Seq(Pieces) :
            n = Len(s) /\ p = Piece(c, a, b) /\ t = s \o <<p>>
    BY <1>0, OneMore
  <1>2. p.client = c /\ p.to = b
    BY <1>1 DEF Piece
  <1>3. /\ p.client = d => Of(t, d) = Of(s, d) \cup {n + 1}
        /\ p.client # d => Of(t, d) = Of(s, d)
        /\ \A i \in Of(s, d) : t[i] = s[i]
        /\ t[n + 1] = p
    BY <1>1, OfOneMore
  <1> QED
    BY <1>1, <1>2, <1>3 DEF Uncut

LEMMA FullOneMore ==
    ASSUME NEW s \in Seq(Pieces), NEW c \in Clients, NEW d \in Clients,
           NEW a \in Nat, NEW b \in Nat, FullAfterCut(s, d),
           c = d /\ b - a = BufLen => ~Uncut(s, d)
    PROVE  FullAfterCut(s \o <<Piece(c, a, b)>>, d)
  <1>0. Piece(c, a, b) \in Pieces
    BY DEF Pieces, Piece
  <1>1. PICK n \in Nat, p \in Pieces, t \in Seq(Pieces) :
            n = Len(s) /\ p = Piece(c, a, b) /\ t = s \o <<p>>
    BY <1>0, OneMore
  <1>2. p.client = c /\ p.to = b /\ p.from = a
    BY <1>1 DEF Piece
  <1>3. /\ p.client = d => Of(t, d) = Of(s, d) \cup {n + 1}
        /\ p.client # d => Of(t, d) = Of(s, d)
        /\ Of(s, d) \subseteq 1..n
        /\ \A i \in Of(s, d) : t[i] = s[i]
        /\ t[n + 1] = p
    BY <1>1, OfOneMore
  <1>4. ASSUME NEW i \in Of(t, d), t[i].to - t[i].from = BufLen
        PROVE  \E j \in Of(t, d) : j < i /\ t[j].to % MsgLen # 0
    <2>1. CASE i \in Of(s, d)
      BY <1>3, <1>4, <2>1 DEF FullAfterCut
    <2>2. CASE i \notin Of(s, d)
      <3>1. i = n + 1 /\ c = d /\ b - a = BufLen
        BY <1>2, <1>3, <1>4, <2>2
      <3>2. PICK j \in Of(s, d) : s[j].to % MsgLen # 0
        BY <3>1 DEF Uncut
      <3>3. j < n + 1
        BY <1>3
      <3> QED
        BY <1>2, <1>3, <3>1, <3>2, <3>3
    <2> QED
      BY <2>1, <2>2
  <1> QED
    BY <1>1, <1>4 DEF FullAfterCut

-----------------------------------------------------------------------------
LEMMA InitIInv == Init => IInv
  <1> SUFFICES ASSUME Init
               PROVE  IInv
    OBVIOUS
  <1> USE ClientServerAssumption
  <1>1. Types
    <2>1. <<>> \in Seq(Pieces)
      BY EmptySeq
    <2>2. buffer \in [Clients -> Seq(Pieces)]
      BY <2>1, Zenon DEF Init
    <2>3. {m_LogQueue, str, shown} \subseteq Seq(Pieces)
      BY <2>1 DEF Init
    <2>4. {sent, taken, answers, seen} \subseteq [Clients -> Nat]
      BY DEF Init
    <2>5. /\ main \in {"thread", "logger", "accept"} /\ pLogger \in BOOLEAN
          /\ client \in [Clients -> {"new", "send", "recv", "exited"}]
          /\ handler \in [Clients -> {"none", "recv", "add", "reply", "closed"}]
          /\ link \in [Clients -> {"none", "up", "reset"}]
          /\ consumer \in {"none", "wait", "show"} /\ torn \subseteq Clients
      BY DEF Init
    <2> QED
      BY <2>2, <2>3, <2>4, <2>5, Zenon DEF Types
  <1>2. Startup
    BY DEF Init, Startup
  <1>3. Counted
    <2>1. Accepted = {}
      BY DEF Init, Accepted
    <2> QED
      BY <2>1, FS_EmptySet DEF Init, Counted
  <1>4. Pipe = <<>>
    BY ConcatEmptySeq, EmptySeq DEF Init, Pipe
  <1>5. \A c \in Clients : Of(Pipe, c) = {}
    <2>1. DOMAIN <<>> = {}
      BY LenProperties, EmptySeq
    <2> QED
      BY <1>4, <2>1, Zenon DEF Of
  <1>6. ASSUME NEW c \in Clients
        PROVE  Handling(c) /\ Streaming(c) /\ Lockstep(c) /\ Cutting(c)
    <2>1. Handling(c) /\ Handed(c) = 0
      BY DEF Init, Handling, Handed
    <2>2. Streaming(c)
      BY <1>5, <2>1 DEF Streaming, Joined
    <2>3. Lockstep(c)
      BY DEF Init, Lockstep
    <2>4. Cutting(c)
      BY <1>5 DEF Init, Cutting, FullAfterCut
    <2> QED
      BY <2>1, <2>2, <2>3, <2>4
  <1> QED
    BY <1>1, <1>2, <1>3, <1>6 DEF IInv

(* Only QueueAdd changes the pipe, and it puts the handler's piece at its  *)
(* end.                                                                    *)
LEMMA PipeType ==
    ASSUME Types
    PROVE  Pipe \in Seq(Pieces) /\ Pipe = shown \o (str \o m_LogQueue)
  BY ConcatProperties, ConcatAssociative DEF Types, Pipe

LEMMA PipeQuiet ==
    ASSUME UNCHANGED <<shown, str, m_LogQueue>>
    PROVE  Pipe' = Pipe
  BY DEF Pipe

LEMMA Regroup ==
    ASSUME NEW S, NEW s \in Seq(S), NEW t \in Seq(S), NEW u \in Seq(S)
    PROVE  s \o (t \o u) = (s \o t) \o u
  OBVIOUS

LEMMA ShiftHead ==
    ASSUME NEW S, NEW s \in Seq(S), NEW t \in Seq(S), t # <<>>
    PROVE  (s \o <<Head(t)>>) \o Tail(t) = s \o t
  OBVIOUS

LEMMA PipeAdd ==
    ASSUME IInv, NEW c \in Clients, QueueAdd(c)
    PROVE  Pipe' = Pipe \o <<Piece(c, Handed(c), taken[c])>>
  <1>1. /\ shown' = shown /\ str' = str /\ m_LogQueue' = m_LogQueue \o buffer[c]
        /\ buffer[c] = <<Piece(c, Handed(c), taken[c])>>
    BY DEF QueueAdd, conVars, IInv, Handling
  <1>2. shown \in Seq(Pieces) /\ str \in Seq(Pieces) /\ m_LogQueue \in Seq(Pieces)
        /\ buffer[c] \in Seq(Pieces)
    BY DEF IInv, Types
  <1>3. shown \o str \in Seq(Pieces)
    BY <1>2, ConcatProperties
  <1>4. (shown \o str) \o (m_LogQueue \o buffer[c]) = ((shown \o str) \o m_LogQueue) \o buffer[c]
    <2>1. \A s, t, u \in Seq(Pieces) : s \o (t \o u) = (s \o t) \o u
      BY Regroup
    <2> QED
      BY <1>2, <1>3, <2>1, Zenon
  <1> QED
    BY <1>1, <1>4, Zenon DEF Pipe

LEMMA PipeWait ==
    ASSUME IInv, QueueWait
    PROVE  Pipe' = Pipe /\ Head(m_LogQueue) \in Pieces /\ Tail(m_LogQueue) \in Seq(Pieces)
  <1>1. shown \in Seq(Pieces) /\ m_LogQueue \in Seq(Pieces) /\ m_LogQueue # <<>> /\ str = <<>>
    BY DEF IInv, Types, Startup, QueueWait
  <1>2. Head(m_LogQueue) \in Pieces /\ Tail(m_LogQueue) \in Seq(Pieces)
        /\ <<Head(m_LogQueue)>> \in Seq(Pieces)
    BY <1>1, HeadTailProperties
  <1>4. (shown \o <<Head(m_LogQueue)>>) \o Tail(m_LogQueue) = shown \o m_LogQueue
    BY <1>1, ShiftHead
  <1>5. shown \o <<>> = shown
    BY <1>1, ConcatEmptySeq
  <1> QED
    BY <1>1, <1>2, <1>4, <1>5 DEF Pipe, QueueWait

LEMMA PipeShow ==
    ASSUME IInv, Show
    PROVE  Pipe' = Pipe /\ shown \o str \in Seq(Pieces)
  <1>1. shown \o str \in Seq(Pieces)
    BY ConcatProperties DEF IInv, Types
  <1>2. (shown \o str) \o <<>> = shown \o str
    BY <1>1, ConcatEmptySeq
  <1> QED
    BY <1>1, <1>2 DEF Pipe, Show

-----------------------------------------------------------------------------
(* Types over each step.                                                   *)

LEMMA TypesStep == IInv /\ [Next]_vars => Types'
  <1> SUFFICES ASSUME IInv, [Next]_vars
               PROVE  Types'
    OBVIOUS
  <1> USE ClientServerAssumption
  <1>0. Types /\ Startup
    BY DEF IInv
  <1>1. CASE CreateQueueThread
    BY <1>0, <1>1 DEF CreateQueueThread, Types, cliVars, hanVars
  <1>2. CASE NewLogging
    BY <1>0, <1>2 DEF NewLogging, Types, cliVars, hanVars, conVars
  <1>3. CASE QueueWait
    <2>1. str' \in Seq(Pieces) /\ m_LogQueue' \in Seq(Pieces) /\ shown' = shown
          /\ consumer' = "show"
      BY <1>3, PipeWait DEF QueueWait
    <2> QED
      BY <1>0, <1>3, <2>1 DEF QueueWait, Types, srvVars, cliVars, hanVars
  <1>4. CASE Show
    <2>1. shown' \in Seq(Pieces) /\ str' \in Seq(Pieces) /\ m_LogQueue' = m_LogQueue
          /\ consumer' = "wait"
      BY <1>4, PipeShow, EmptySeq DEF Show
    <2> QED
      BY <1>0, <1>4, <2>1 DEF Show, Types, srvVars, cliVars, hanVars
  <1>5. ASSUME NEW c \in Clients, Accept(c)
        PROVE  Types'
    BY <1>0, <1>5 DEF Accept, Types, Fault, srvVars, cliVars, hanVars, conVars
  <1>6. ASSUME NEW c \in Clients, Recv(c)
        PROVE  Types'
    <2>1. PICK n \in 1..BufLen :
            /\ buffer' = [buffer EXCEPT ![c] = <<Piece(c, taken[c], taken[c] + n)>>]
            /\ taken' = [taken EXCEPT ![c] = @ + n]
      BY <1>6 DEF Recv
    <2>2. taken[c] \in Nat /\ taken[c] + n \in Nat
      BY <1>0 DEF Types
    <2>3. <<Piece(c, taken[c], taken[c] + n)>> \in Seq(Pieces)
      BY <2>2 DEF Piece, Pieces
    <2>4. buffer' \in [Clients -> Seq(Pieces)] /\ taken' \in [Clients -> Nat]
      BY <1>0, <2>1, <2>2, <2>3 DEF Types
    <2> QED
      BY <1>0, <1>6, <2>4, SMTT(30) DEF Recv, Types, srvVars, cliVars, conVars
  <1>7. ASSUME NEW c \in Clients, RecvEnds(c)
        PROVE  Types'
    BY <1>0, <1>7 DEF RecvEnds, Types, Fault, srvVars, cliVars, hanVars, conVars
  <1>8. ASSUME NEW c \in Clients, QueueAdd(c)
        PROVE  Types'
    <2>1. m_LogQueue' \in Seq(Pieces)
      BY <1>0, <1>8, ConcatProperties DEF QueueAdd, Types
    <2>2. <<>> \in Seq(Pieces)
      BY EmptySeq
    <2>3. buffer' \in [Clients -> Seq(Pieces)]
      BY <1>0, <1>8, <2>2 DEF QueueAdd, Types
    <2> QED
      BY <1>0, <1>8, <2>1, <2>3 DEF QueueAdd, Types, srvVars, cliVars, conVars
  <1>9. ASSUME NEW c \in Clients, Reply(c)
        PROVE  Types'
    BY <1>0, <1>9, SMTT(30) DEF Reply, Types, Fault, srvVars, cliVars, hanVars, conVars
  <1>10. ASSUME NEW c \in Clients, ReplyFails(c)
        PROVE  Types'
    BY <1>0, <1>10 DEF ReplyFails, Types, Fault, srvVars, cliVars, hanVars, conVars
  <1>11. ASSUME NEW c \in Clients, Connect(c)
        PROVE  Types'
    BY <1>0, <1>11 DEF Connect, Types, Fault, srvVars, cliVars, hanVars, conVars
  <1>12. ASSUME NEW c \in Clients, ConnectFails(c)
        PROVE  Types'
    BY <1>0, <1>12 DEF ConnectFails, Types, Fault, srvVars, cliVars, hanVars, conVars
  <1>13. ASSUME NEW c \in Clients, ClientSend(c)
        PROVE  Types'
    BY <1>0, <1>13, SMTT(30) DEF ClientSend, Types, Fault, srvVars, cliVars, hanVars, conVars
  <1>14. ASSUME NEW c \in Clients, ClientSendFails(c)
        PROVE  Types'
    BY <1>0, <1>14 DEF ClientSendFails, Types, Fault, srvVars, cliVars, hanVars, conVars
  <1>15. ASSUME NEW c \in Clients, ClientRecv(c)
        PROVE  Types'
    BY <1>0, <1>15 DEF ClientRecv, Types, Fault, srvVars, cliVars, hanVars, conVars
  <1>16. ASSUME NEW c \in Clients, ClientRecvEnds(c)
        PROVE  Types'
    BY <1>0, <1>16 DEF ClientRecvEnds, Types, Fault, srvVars, cliVars, hanVars, conVars
  <1>17. ASSUME NEW c \in Clients, Killed(c)
        PROVE  Types'
    BY <1>0, <1>17 DEF Killed, Types, Fault, srvVars, cliVars, hanVars, conVars
  <1>18. ASSUME NEW c \in Clients, Reset(c)
        PROVE  Types'
    BY <1>0, <1>18 DEF Reset, Types, Fault, srvVars, cliVars, hanVars, conVars
  <1>19. CASE UNCHANGED vars
    BY <1>0, <1>19 DEF vars, Types, srvVars, cliVars, hanVars, conVars
  <1> QED
    BY <1>1, <1>2, <1>3, <1>4, <1>5, <1>6, <1>7, <1>8, <1>9, <1>10, <1>11, <1>12, <1>13, <1>14, <1>15, <1>16, <1>17, <1>18, <1>19
    DEF Next, Main, Consumer, HandleClient, Client

(* Start-up and the count of connections.                                  *)

LEMMA StartupStep == IInv /\ [Next]_vars => Startup'
  <1> SUFFICES ASSUME IInv, [Next]_vars
               PROVE  Startup'
    OBVIOUS
  <1>0. Types /\ Startup
    BY DEF IInv
  <1>1. CASE CreateQueueThread
    BY <1>0, <1>1 DEF CreateQueueThread, Types, Startup, cliVars, hanVars
  <1>2. CASE NewLogging
    BY <1>0, <1>2 DEF NewLogging, Types, Startup, cliVars, hanVars, conVars
  <1>3. CASE QueueWait
    BY <1>0, <1>3 DEF QueueWait, Types, Startup, srvVars, cliVars, hanVars
  <1>4. CASE Show
    BY <1>0, <1>4 DEF Show, Types, Startup, srvVars, cliVars, hanVars
  <1>5. ASSUME NEW c \in Clients, Accept(c)
        PROVE  Startup'
    BY <1>0, <1>5 DEF Accept, Types, Startup, Fault, srvVars, cliVars, hanVars, conVars
  <1>6. ASSUME NEW c \in Clients, Recv(c)
        PROVE  Startup'
    BY <1>0, <1>6 DEF Recv, Types, Startup, Fault, srvVars, cliVars, hanVars, conVars
  <1>7. ASSUME NEW c \in Clients, RecvEnds(c)
        PROVE  Startup'
    BY <1>0, <1>7 DEF RecvEnds, Types, Startup, Fault, srvVars, cliVars, hanVars, conVars
  <1>8. ASSUME NEW c \in Clients, QueueAdd(c)
        PROVE  Startup'
    BY <1>0, <1>8 DEF QueueAdd, Types, Startup, Fault, srvVars, cliVars, hanVars, conVars
  <1>9. ASSUME NEW c \in Clients, Reply(c)
        PROVE  Startup'
    BY <1>0, <1>9 DEF Reply, Types, Startup, Fault, srvVars, cliVars, hanVars, conVars
  <1>10. ASSUME NEW c \in Clients, ReplyFails(c)
        PROVE  Startup'
    BY <1>0, <1>10 DEF ReplyFails, Types, Startup, Fault, srvVars, cliVars, hanVars, conVars
  <1>11. ASSUME NEW c \in Clients, Connect(c)
        PROVE  Startup'
    BY <1>0, <1>11 DEF Connect, Types, Startup, Fault, srvVars, cliVars, hanVars, conVars
  <1>12. ASSUME NEW c \in Clients, ConnectFails(c)
        PROVE  Startup'
    BY <1>0, <1>12 DEF ConnectFails, Types, Startup, Fault, srvVars, cliVars, hanVars, conVars
  <1>13. ASSUME NEW c \in Clients, ClientSend(c)
        PROVE  Startup'
    BY <1>0, <1>13 DEF ClientSend, Types, Startup, Fault, srvVars, cliVars, hanVars, conVars
  <1>14. ASSUME NEW c \in Clients, ClientSendFails(c)
        PROVE  Startup'
    BY <1>0, <1>14 DEF ClientSendFails, Types, Startup, Fault, srvVars, cliVars, hanVars, conVars
  <1>15. ASSUME NEW c \in Clients, ClientRecv(c)
        PROVE  Startup'
    BY <1>0, <1>15 DEF ClientRecv, Types, Startup, Fault, srvVars, cliVars, hanVars, conVars
  <1>16. ASSUME NEW c \in Clients, ClientRecvEnds(c)
        PROVE  Startup'
    BY <1>0, <1>16 DEF ClientRecvEnds, Types, Startup, Fault, srvVars, cliVars, hanVars, conVars
  <1>17. ASSUME NEW c \in Clients, Killed(c)
        PROVE  Startup'
    BY <1>0, <1>17 DEF Killed, Types, Startup, Fault, srvVars, cliVars, hanVars, conVars
  <1>18. ASSUME NEW c \in Clients, Reset(c)
        PROVE  Startup'
    BY <1>0, <1>18 DEF Reset, Types, Startup, Fault, srvVars, cliVars, hanVars, conVars
  <1>19. CASE UNCHANGED vars
    BY <1>0, <1>19 DEF vars, Startup, srvVars, cliVars, hanVars, conVars
  <1> QED
    BY <1>1, <1>2, <1>3, <1>4, <1>5, <1>6, <1>7, <1>8, <1>9, <1>10, <1>11, <1>12, <1>13, <1>14, <1>15, <1>16, <1>17, <1>18, <1>19
    DEF Next, Main, Consumer, HandleClient, Client

LEMMA CountedStep == IInv /\ [Next]_vars => Counted'
  <1> SUFFICES ASSUME IInv, [Next]_vars
               PROVE  Counted'
    OBVIOUS
  <1> USE ClientServerAssumption
  <1>0. Types /\ Startup /\ Counted
    BY DEF IInv
  <1>1. CASE \E c \in Clients : Accept(c)
    <2>1. PICK c \in Clients : Accept(c)
      BY <1>1
    <2>2. Accepted' = Accepted \cup {c} /\ c \notin Accepted
      BY <1>0, <2>1 DEF Accept, Accepted, Types
    <2>3. IsFiniteSet(Accepted)
      BY FS_Subset DEF Accepted
    <2>4. Cardinality(Accepted') = Cardinality(Accepted) + 1
      BY <2>2, <2>3, FS_AddElement
    <2> QED
      BY <1>0, <2>1, <2>4 DEF Accept, Counted
  <1>2. CASE ~\E c \in Clients : Accept(c)
    <2>1. Accepted' = Accepted /\ connectedClients' = connectedClients
      BY <1>0, <1>2, SMTT(30) DEF Accepted, Types, Next, Main, Consumer, HandleClient, Client,
         CreateQueueThread, NewLogging, QueueWait, Show, Recv, RecvEnds, QueueAdd, Reply,
         ReplyFails, Connect, ConnectFails, ClientSend, ClientSendFails, ClientRecv,
         ClientRecvEnds, Killed, Reset, vars, srvVars, cliVars, hanVars, conVars
    <2> QED
      BY <1>0, <2>1, Zenon DEF Counted
  <1> QED
    BY <1>1, <1>2

-----------------------------------------------------------------------------
(* What belongs to a client and its handler, and what a step leaves alone. *)

Locals(c) == <<client[c], handler[c], link[c], sent[c], taken[c], answers[c],
               seen[c], buffer[c]>>

PerClient(c) == Handling(c) /\ Streaming(c) /\ Lockstep(c) /\ Cutting(c)

LEMMA Frame ==
    ASSUME NEW c \in Clients, Locals(c)' = Locals(c), c \in torn' <=> c \in torn,
           Pipe' = Pipe, PerClient(c)
    PROVE  PerClient(c)'
  <1>1. /\ client'[c] = client[c] /\ handler'[c] = handler[c] /\ link'[c] = link[c]
        /\ sent'[c] = sent[c] /\ taken'[c] = taken[c] /\ answers'[c] = answers[c]
        /\ seen'[c] = seen[c] /\ buffer'[c] = buffer[c]
    BY Zenon DEF Locals
  <1>2. Handed(c)' = Handed(c)
    BY <1>1, Zenon DEF Handed
  <1>3. Handling(c)'
    BY <1>1, <1>2 DEF PerClient, Handling
  <1>4. Streaming(c)'
    BY <1>2, Zenon DEF PerClient, Streaming
  <1>5. Uncut(Pipe, c)' <=> Uncut(Pipe, c)
    BY Zenon
  <1>6. Lockstep(c)'
    BY <1>1, <1>5 DEF PerClient, Lockstep, InStep
  <1>7. Cutting(c)'
    BY <1>1, <1>2, <1>5 DEF PerClient, Cutting
  <1> QED
    BY <1>3, <1>4, <1>6, <1>7 DEF PerClient

(* The steps of other clients.                                             *)
ActionOf(c) ==
    Accept(c) \/ HandleClient(c) \/ Client(c) \/ Killed(c) \/ Reset(c)

LEMMA Others ==
    ASSUME Types, NEW c \in Clients, NEW d \in Clients \ {c}, ActionOf(c)
    PROVE  Locals(d)' = Locals(d) /\ (d \in torn' <=> d \in torn)
  <1>1. CASE Accept(c)
    BY <1>1 DEF Accept, Types, Locals, Fault, srvVars, cliVars, hanVars, conVars
  <1>2. CASE Recv(c)
    BY <1>2 DEF Recv, Types, Locals, Fault, srvVars, cliVars, hanVars, conVars
  <1>3. CASE RecvEnds(c)
    BY <1>3 DEF RecvEnds, Types, Locals, Fault, srvVars, cliVars, hanVars, conVars
  <1>4. CASE QueueAdd(c)
    BY <1>4 DEF QueueAdd, Types, Locals, Fault, srvVars, cliVars, hanVars, conVars
  <1>5. CASE Reply(c)
    BY <1>5 DEF Reply, Types, Locals, Fault, srvVars, cliVars, hanVars, conVars
  <1>6. CASE ReplyFails(c)
    BY <1>6 DEF ReplyFails, Types, Locals, Fault, srvVars, cliVars, hanVars, conVars
  <1>7. CASE Connect(c)
    BY <1>7 DEF Connect, Types, Locals, Fault, srvVars, cliVars, hanVars, conVars
  <1>8. CASE ConnectFails(c)
    BY <1>8 DEF ConnectFails, Types, Locals, Fault, srvVars, cliVars, hanVars, conVars
  <1>9. CASE ClientSend(c)
    BY <1>9 DEF ClientSend, Types, Locals, Fault, srvVars, cliVars, hanVars, conVars
  <1>10. CASE ClientSendFails(c)
    BY <1>10 DEF ClientSendFails, Types, Locals, Fault, srvVars, cliVars, hanVars, conVars
  <1>11. CASE ClientRecv(c)
    BY <1>11 DEF ClientRecv, Types, Locals, Fault, srvVars, cliVars, hanVars, conVars
  <1>12. CASE ClientRecvEnds(c)
    BY <1>12 DEF ClientRecvEnds, Types, Locals, Fault, srvVars, cliVars, hanVars, conVars
  <1>13. CASE Killed(c)
    BY <1>13 DEF Killed, Types, Locals, Fault, srvVars, cliVars, hanVars, conVars
  <1>14. CASE Reset(c)
    BY <1>14 DEF Reset, Types, Locals, Fault, srvVars, cliVars, hanVars, conVars
  <1> QED
    BY <1>1, <1>2, <1>3, <1>4, <1>5, <1>6, <1>7, <1>8, <1>9, <1>10, <1>11, <1>12, <1>13, <1>14
    DEF ActionOf, HandleClient, Client

LEMMA OthersQuiet ==
    ASSUME Types, NEW c \in Clients, ActionOf(c), ~QueueAdd(c)
    PROVE  Pipe' = Pipe
  <1>1. UNCHANGED <<shown, str, m_LogQueue>>
    <2>1. CASE Accept(c)
      BY <2>1 DEF Accept, Fault, srvVars, cliVars, hanVars, conVars
    <2>2. CASE Recv(c)
      BY <2>2 DEF Recv, Fault, srvVars, cliVars, hanVars, conVars
    <2>3. CASE RecvEnds(c)
      BY <2>3 DEF RecvEnds, Fault, srvVars, cliVars, hanVars, conVars
    <2>4. CASE Reply(c)
      BY <2>4 DEF Reply, Fault, srvVars, cliVars, hanVars, conVars
    <2>5. CASE ReplyFails(c)
      BY <2>5 DEF ReplyFails, Fault, srvVars, cliVars, hanVars, conVars
    <2>6. CASE Connect(c)
      BY <2>6 DEF Connect, Fault, srvVars, cliVars, hanVars, conVars
    <2>7. CASE ConnectFails(c)
      BY <2>7 DEF ConnectFails, Fault, srvVars, cliVars, hanVars, conVars
    <2>8. CASE ClientSend(c)
      BY <2>8 DEF ClientSend, Fault, srvVars, cliVars, hanVars, conVars
    <2>9. CASE ClientSendFails(c)
      BY <2>9 DEF ClientSendFails, Fault, srvVars, cliVars, hanVars, conVars
    <2>10. CASE ClientRecv(c)
      BY <2>10 DEF ClientRecv, Fault, srvVars, cliVars, hanVars, conVars
    <2>11. CASE ClientRecvEnds(c)
      BY <2>11 DEF ClientRecvEnds, Fault, srvVars, cliVars, hanVars, conVars
    <2>12. CASE Killed(c)
      BY <2>12 DEF Killed, Fault, srvVars, cliVars, hanVars, conVars
    <2>13. CASE Reset(c)
      BY <2>13 DEF Reset, Fault, srvVars, cliVars, hanVars, conVars
    <2> QED
      BY <2>1, <2>2, <2>3, <2>4, <2>5, <2>6, <2>7, <2>8, <2>9, <2>10, <2>11, <2>12, <2>13
      DEF ActionOf, HandleClient, Client
  <1> QED
    BY <1>1, PipeQuiet

-----------------------------------------------------------------------------
(* The steps of a client and of its handler.                               *)

(* The values that belong to c, as numbers.                                *)
LEMMA Numbers ==
    ASSUME Types, NEW c \in Clients
    PROVE  /\ sent[c] \in Nat /\ taken[c] \in Nat /\ answers[c] \in Nat /\ seen[c] \in Nat
           /\ MsgLen \in Nat \ {0} /\ BufLen \in Nat \ {0}
  BY ClientServerAssumption DEF Types

(* Steps that neither receive nor put in the queue: what is handed on stays*)
(* the same, so only Handling and Lockstep can be disturbed.               *)
LEMMA Bystanding ==
    ASSUME IInv, NEW c \in Clients, Pipe' = Pipe, buffer'[c] = buffer[c],
           taken'[c] = taken[c], handler'[c] = "add" <=> handler[c] = "add",
           torn \subseteq torn'
    PROVE  /\ Handed(c)' = Handed(c) /\ Streaming(c)' /\ Cutting(c)'
           /\ Uncut(Pipe, c)' <=> Uncut(Pipe, c)
  <1>1. Handed(c)' = Handed(c)
    BY Zenon DEF Handed
  <1>2. Uncut(Pipe, c)' <=> Uncut(Pipe, c)
    BY Zenon
  <1>3. Streaming(c) /\ Cutting(c)
    BY DEF IInv
  <1>4. Streaming(c)'
    BY <1>1, <1>3, Zenon DEF Streaming
  <1>5. Cutting(c)'
    BY <1>1, <1>2, <1>3 DEF Cutting
  <1> QED
    BY <1>1, <1>2, <1>4, <1>5

LEMMA AcceptStep ==
    ASSUME IInv, NEW c \in Clients, Accept(c)
    PROVE  PerClient(c)'
  <1>1. Types /\ Handling(c) /\ Lockstep(c)
    BY DEF IInv
  <1>2. Pipe' = Pipe
    BY PipeQuiet DEF Accept, Fault, srvVars, cliVars, hanVars, conVars
  <1>3. buffer'[c] = buffer[c] /\ taken'[c] = taken[c]
        /\ (handler'[c] = "add" <=> handler[c] = "add") /\ torn \subseteq torn'
    BY <1>1 DEF Accept, Types, Fault, srvVars, cliVars, hanVars, conVars
  <1>4. /\ Handed(c)' = Handed(c) /\ Streaming(c)' /\ Cutting(c)'
        /\ Uncut(Pipe, c)' <=> Uncut(Pipe, c)
    BY <1>2, <1>3, Bystanding
  <1>5. Handling(c)'
    BY <1>1, <1>3, <1>4, Numbers
    DEF Handling, Types, Accept, Fault, srvVars, cliVars, hanVars, conVars
  <1>7. Lockstep(c)'
    BY <1>1, <1>3, <1>4, Numbers
    DEF Lockstep, InStep, Types, Accept, Fault, srvVars, cliVars, hanVars, conVars
  <1> QED
    BY <1>4, <1>5, <1>7 DEF PerClient

LEMMA RecvEndsStep ==
    ASSUME IInv, NEW c \in Clients, RecvEnds(c)
    PROVE  PerClient(c)'
  <1>1. Types /\ Handling(c) /\ Lockstep(c)
    BY DEF IInv
  <1>2. Pipe' = Pipe
    BY PipeQuiet DEF RecvEnds, Fault, srvVars, cliVars, hanVars, conVars
  <1>3. buffer'[c] = buffer[c] /\ taken'[c] = taken[c]
        /\ (handler'[c] = "add" <=> handler[c] = "add") /\ torn \subseteq torn'
    BY <1>1 DEF RecvEnds, Types, Fault, srvVars, cliVars, hanVars, conVars
  <1>4. /\ Handed(c)' = Handed(c) /\ Streaming(c)' /\ Cutting(c)'
        /\ Uncut(Pipe, c)' <=> Uncut(Pipe, c)
    BY <1>2, <1>3, Bystanding
  <1>5. Handling(c)'
    BY <1>1, <1>3, <1>4, Numbers
    DEF Handling, Types, RecvEnds, Fault, srvVars, cliVars, hanVars, conVars
  <1>7. Lockstep(c)'
    BY <1>1, <1>3, <1>4, Numbers
    DEF Lockstep, InStep, Types, RecvEnds, Fault, srvVars, cliVars, hanVars, conVars
  <1> QED
    BY <1>4, <1>5, <1>7 DEF PerClient

LEMMA ReplyStep ==
    ASSUME IInv, NEW c \in Clients, Reply(c)
    PROVE  PerClient(c)'
  <1>1. Types /\ Handling(c) /\ Lockstep(c)
    BY DEF IInv
  <1>2. Pipe' = Pipe
    BY PipeQuiet DEF Reply, Fault, srvVars, cliVars, hanVars, conVars
  <1>3. buffer'[c] = buffer[c] /\ taken'[c] = taken[c]
        /\ (handler'[c] = "add" <=> handler[c] = "add") /\ torn \subseteq torn'
    BY <1>1 DEF Reply, Types, Fault, srvVars, cliVars, hanVars, conVars
  <1>4. /\ Handed(c)' = Handed(c) /\ Streaming(c)' /\ Cutting(c)'
        /\ Uncut(Pipe, c)' <=> Uncut(Pipe, c)
    BY <1>2, <1>3, Bystanding
  <1>5. Handling(c)'
    BY <1>1, <1>3, <1>4, Numbers
    DEF Handling, Types, Reply, Fault, srvVars, cliVars, hanVars, conVars
  <1>7. Lockstep(c)'
    BY <1>1, <1>3, <1>4, Numbers
    DEF Lockstep, InStep, Types, Reply, Fault, srvVars, cliVars, hanVars, conVars
  <1> QED
    BY <1>4, <1>5, <1>7 DEF PerClient

LEMMA ReplyFailsStep ==
    ASSUME IInv, NEW c \in Clients, ReplyFails(c)
    PROVE  PerClient(c)'
  <1>1. Types /\ Handling(c) /\ Lockstep(c)
    BY DEF IInv
  <1>2. Pipe' = Pipe
    BY PipeQuiet DEF ReplyFails, Fault, srvVars, cliVars, hanVars, conVars
  <1>3. buffer'[c] = buffer[c] /\ taken'[c] = taken[c]
        /\ (handler'[c] = "add" <=> handler[c] = "add") /\ torn \subseteq torn'
    BY <1>1 DEF ReplyFails, Types, Fault, srvVars, cliVars, hanVars, conVars
  <1>4. /\ Handed(c)' = Handed(c) /\ Streaming(c)' /\ Cutting(c)'
        /\ Uncut(Pipe, c)' <=> Uncut(Pipe, c)
    BY <1>2, <1>3, Bystanding
  <1>5. Handling(c)'
    BY <1>1, <1>3, <1>4, Numbers
    DEF Handling, Types, ReplyFails, Fault, srvVars, cliVars, hanVars, conVars
  <1>7. Lockstep(c)'
    BY <1>1, <1>3, <1>4, Numbers
    DEF Lockstep, InStep, Types, ReplyFails, Fault, srvVars, cliVars, hanVars, conVars
  <1> QED
    BY <1>4, <1>5, <1>7 DEF PerClient

LEMMA ConnectStep ==
    ASSUME IInv, NEW c \in Clients, Connect(c)
    PROVE  PerClient(c)'
  <1>1. Types /\ Handling(c) /\ Lockstep(c)
    BY DEF IInv
  <1>2. Pipe' = Pipe
    BY PipeQuiet DEF Connect, Fault, srvVars, cliVars, hanVars, conVars
  <1>3. buffer'[c] = buffer[c] /\ taken'[c] = taken[c]
        /\ (handler'[c] = "add" <=> handler[c] = "add") /\ torn \subseteq torn'
    BY <1>1 DEF Connect, Types, Fault, srvVars, cliVars, hanVars, conVars
  <1>4. /\ Handed(c)' = Handed(c) /\ Streaming(c)' /\ Cutting(c)'
        /\ Uncut(Pipe, c)' <=> Uncut(Pipe, c)
    BY <1>2, <1>3, Bystanding
  <1>5. Handling(c)'
    BY <1>1, <1>3, <1>4, Numbers
    DEF Handling, Types, Connect, Fault, srvVars, cliVars, hanVars, conVars
  <1>7. Lockstep(c)'
    BY <1>1, <1>3, <1>4, Numbers
    DEF Lockstep, InStep, Types, Connect, Fault, srvVars, cliVars, hanVars, conVars
  <1> QED
    BY <1>4, <1>5, <1>7 DEF PerClient

LEMMA ConnectFailsStep ==
    ASSUME IInv, NEW c \in Clients, ConnectFails(c)
    PROVE  PerClient(c)'
  <1>1. Types /\ Handling(c) /\ Lockstep(c)
    BY DEF IInv
  <1>2. Pipe' = Pipe
    BY PipeQuiet DEF ConnectFails, Fault, srvVars, cliVars, hanVars, conVars
  <1>3. buffer'[c] = buffer[c] /\ taken'[c] = taken[c]
        /\ (handler'[c] = "add" <=> handler[c] = "add") /\ torn \subseteq torn'
    BY <1>1 DEF ConnectFails, Types, Fault, srvVars, cliVars, hanVars, conVars
  <1>4. /\ Handed(c)' = Handed(c) /\ Streaming(c)' /\ Cutting(c)'
        /\ Uncut(Pipe, c)' <=> Uncut(Pipe, c)
    BY <1>2, <1>3, Bystanding
  <1>5. Handling(c)'
    BY <1>1, <1>3, <1>4, Numbers
    DEF Handling, Types, ConnectFails, Fault, srvVars, cliVars, hanVars, conVars
  <1>7. Lockstep(c)'
    BY <1>1, <1>3, <1>4, Numbers
    DEF Lockstep, InStep, Types, ConnectFails, Fault, srvVars, cliVars, hanVars, conVars
  <1> QED
    BY <1>4, <1>5, <1>7 DEF PerClient

LEMMA ClientSendStep ==
    ASSUME IInv, NEW c \in Clients, ClientSend(c)
    PROVE  PerClient(c)'
  <1>1. Types /\ Handling(c) /\ Lockstep(c)
    BY DEF IInv
  <1>2. Pipe' = Pipe
    BY PipeQuiet DEF ClientSend, Fault, srvVars, cliVars, hanVars, conVars
  <1>3. buffer'[c] = buffer[c] /\ taken'[c] = taken[c]
        /\ (handler'[c] = "add" <=> handler[c] = "add") /\ torn \subseteq torn'
    BY <1>1 DEF ClientSend, Types, Fault, srvVars, cliVars, hanVars, conVars
  <1>4. /\ Handed(c)' = Handed(c) /\ Streaming(c)' /\ Cutting(c)'
        /\ Uncut(Pipe, c)' <=> Uncut(Pipe, c)
    BY <1>2, <1>3, Bystanding
  <1>5. Handling(c)'
    BY <1>1, <1>3, <1>4, Numbers
    DEF Handling, Types, ClientSend, Fault, srvVars, cliVars, hanVars, conVars
  <1>6. sent'[c] = sent[c] + MsgLen /\ sent'[c] % MsgLen = 0
    BY <1>1, Numbers, WholeMessages DEF ClientSend, Types, Lockstep
  <1>7. Lockstep(c)'
    BY <1>1, <1>3, <1>4, <1>6, Numbers
    DEF Lockstep, InStep, Types, ClientSend, srvVars, hanVars
  <1> QED
    BY <1>4, <1>5, <1>7 DEF PerClient

LEMMA ClientSendFailsStep ==
    ASSUME IInv, NEW c \in Clients, ClientSendFails(c)
    PROVE  PerClient(c)'
  <1>1. Types /\ Handling(c) /\ Lockstep(c)
    BY DEF IInv
  <1>2. Pipe' = Pipe
    BY PipeQuiet DEF ClientSendFails, Fault, srvVars, cliVars, hanVars, conVars
  <1>3. buffer'[c] = buffer[c] /\ taken'[c] = taken[c]
        /\ (handler'[c] = "add" <=> handler[c] = "add") /\ torn \subseteq torn'
    BY <1>1 DEF ClientSendFails, Types, Fault, srvVars, cliVars, hanVars, conVars
  <1>4. /\ Handed(c)' = Handed(c) /\ Streaming(c)' /\ Cutting(c)'
        /\ Uncut(Pipe, c)' <=> Uncut(Pipe, c)
    BY <1>2, <1>3, Bystanding
  <1>5. Handling(c)'
    BY <1>1, <1>3, <1>4, Numbers
    DEF Handling, Types, ClientSendFails, Fault, srvVars, cliVars, hanVars, conVars
  <1>7. Lockstep(c)'
    BY <1>1, <1>3, <1>4, Numbers
    DEF Lockstep, InStep, Types, ClientSendFails, Fault, srvVars, cliVars, hanVars, conVars
  <1> QED
    BY <1>4, <1>5, <1>7 DEF PerClient

LEMMA ClientRecvStep ==
    ASSUME IInv, NEW c \in Clients, ClientRecv(c)
    PROVE  PerClient(c)'
  <1>1. Types /\ Handling(c) /\ Lockstep(c)
    BY DEF IInv
  <1>2. Pipe' = Pipe
    BY PipeQuiet DEF ClientRecv, Fault, srvVars, cliVars, hanVars, conVars
  <1>3. buffer'[c] = buffer[c] /\ taken'[c] = taken[c]
        /\ (handler'[c] = "add" <=> handler[c] = "add") /\ torn \subseteq torn'
    BY <1>1 DEF ClientRecv, Types, Fault, srvVars, cliVars, hanVars, conVars
  <1>4. /\ Handed(c)' = Handed(c) /\ Streaming(c)' /\ Cutting(c)'
        /\ Uncut(Pipe, c)' <=> Uncut(Pipe, c)
    BY <1>2, <1>3, Bystanding
  <1>5. Handling(c)'
    BY <1>1, <1>3, <1>4, Numbers
    DEF Handling, Types, ClientRecv, Fault, srvVars, cliVars, hanVars, conVars
  <1>7. Lockstep(c)'
    BY <1>1, <1>3, <1>4, Numbers
    DEF Lockstep, InStep, Types, ClientRecv, Fault, srvVars, cliVars, hanVars, conVars
  <1> QED
    BY <1>4, <1>5, <1>7 DEF PerClient

LEMMA ClientRecvEndsStep ==
    ASSUME IInv, NEW c \in Clients, ClientRecvEnds(c)
    PROVE  PerClient(c)'
  <1>1. Types /\ Handling(c) /\ Lockstep(c)
    BY DEF IInv
  <1>2. Pipe' = Pipe
    BY PipeQuiet DEF ClientRecvEnds, Fault, srvVars, cliVars, hanVars, conVars
  <1>3. buffer'[c] = buffer[c] /\ taken'[c] = taken[c]
        /\ (handler'[c] = "add" <=> handler[c] = "add") /\ torn \subseteq torn'
    BY <1>1 DEF ClientRecvEnds, Types, Fault, srvVars, cliVars, hanVars, conVars
  <1>4. /\ Handed(c)' = Handed(c) /\ Streaming(c)' /\ Cutting(c)'
        /\ Uncut(Pipe, c)' <=> Uncut(Pipe, c)
    BY <1>2, <1>3, Bystanding
  <1>5. Handling(c)'
    BY <1>1, <1>3, <1>4, Numbers
    DEF Handling, Types, ClientRecvEnds, Fault, srvVars, cliVars, hanVars, conVars
  <1>7. Lockstep(c)'
    BY <1>1, <1>3, <1>4, Numbers
    DEF Lockstep, InStep, Types, ClientRecvEnds, Fault, srvVars, cliVars, hanVars, conVars
  <1> QED
    BY <1>4, <1>5, <1>7 DEF PerClient

LEMMA KilledStep ==
    ASSUME IInv, NEW c \in Clients, Killed(c)
    PROVE  PerClient(c)'
  <1>1. Types /\ Handling(c) /\ Lockstep(c)
    BY DEF IInv
  <1>2. Pipe' = Pipe
    BY PipeQuiet DEF Killed, Fault, srvVars, cliVars, hanVars, conVars
  <1>3. buffer'[c] = buffer[c] /\ taken'[c] = taken[c]
        /\ (handler'[c] = "add" <=> handler[c] = "add") /\ torn \subseteq torn'
    BY <1>1 DEF Killed, Types, Fault, srvVars, cliVars, hanVars, conVars
  <1>4. /\ Handed(c)' = Handed(c) /\ Streaming(c)' /\ Cutting(c)'
        /\ Uncut(Pipe, c)' <=> Uncut(Pipe, c)
    BY <1>2, <1>3, Bystanding
  <1>5. Handling(c)'
    BY <1>1, <1>3, <1>4, Numbers
    DEF Handling, Types, Killed, Fault, srvVars, cliVars, hanVars, conVars
  <1>7. Lockstep(c)'
    BY <1>1, <1>3, <1>4, Numbers
    DEF Lockstep, InStep, Types, Killed, Fault, srvVars, cliVars, hanVars, conVars
  <1> QED
    BY <1>4, <1>5, <1>7 DEF PerClient

LEMMA ResetStep ==
    ASSUME IInv, NEW c \in Clients, Reset(c)
    PROVE  PerClient(c)'
  <1>1. Types /\ Handling(c) /\ Lockstep(c)
    BY DEF IInv
  <1>2. Pipe' = Pipe
    BY PipeQuiet DEF Reset, Fault, srvVars, cliVars, hanVars, conVars
  <1>3. buffer'[c] = buffer[c] /\ taken'[c] = taken[c]
        /\ (handler'[c] = "add" <=> handler[c] = "add") /\ torn \subseteq torn'
    BY <1>1 DEF Reset, Types, Fault, srvVars, cliVars, hanVars, conVars
  <1>4. /\ Handed(c)' = Handed(c) /\ Streaming(c)' /\ Cutting(c)'
        /\ Uncut(Pipe, c)' <=> Uncut(Pipe, c)
    BY <1>2, <1>3, Bystanding
  <1>5. Handling(c)'
    BY <1>1, <1>3, <1>4, Numbers
    DEF Handling, Types, Reset, Fault, srvVars, cliVars, hanVars, conVars
  <1>7. Lockstep(c)'
    BY <1>1, <1>3, <1>4, Numbers
    DEF Lockstep, InStep, Types, Reset, Fault, srvVars, cliVars, hanVars, conVars
  <1> QED
    BY <1>4, <1>5, <1>7 DEF PerClient

(* Recv takes up to a buffer of what is on its way.  In lockstep that is   *)
(* one message at most, so that the buffer is not full, and the step stays *)
(* in lockstep only if it takes the whole message.                         *)
LEMMA RecvStep ==
    ASSUME IInv, NEW c \in Clients, Recv(c)
    PROVE  PerClient(c)'
  <1>1. Types /\ Handling(c) /\ Lockstep(c) /\ Streaming(c) /\ Cutting(c)
    BY DEF IInv
  <1>2. Pipe' = Pipe
    BY PipeQuiet DEF Recv, conVars
  <1>3. PICK n \in 1..BufLen :
            /\ taken[c] + n <= sent[c]
            /\ buffer' = [buffer EXCEPT ![c] = <<Piece(c, taken[c], taken[c] + n)>>]
            /\ taken' = [taken EXCEPT ![c] = @ + n]
    BY DEF Recv
  <1>4. /\ buffer'[c] = <<Piece(c, taken[c], taken[c] + n)>> /\ taken'[c] = taken[c] + n
        /\ handler[c] = "recv" /\ handler'[c] = "add"
        /\ client'[c] = client[c] /\ link'[c] = link[c] /\ sent'[c] = sent[c]
        /\ answers'[c] = answers[c] /\ seen'[c] = seen[c] /\ torn' = torn
    BY <1>1, <1>3 DEF Recv, Types, cliVars
  <1>5. n \in Nat /\ n > 0 /\ n <= BufLen
    BY <1>3, Numbers, <1>1
  <1>6. Handed(c) = taken[c] /\ Handed(c)' = taken[c]
    BY <1>4 DEF Handed, Piece
  <1>7. Handling(c)'
    BY <1>1, <1>3, <1>4, <1>5, <1>6, Numbers DEF Handling
  <1>8. Streaming(c)'
    BY <1>1, <1>2, <1>6, Zenon DEF Streaming
  <1>9. Uncut(Pipe, c)' <=> Uncut(Pipe, c)
    BY <1>2, Zenon
  <1>10. Lockstep(c)'
    <2>1. CASE ~InStep(c)'
      BY <1>1, <1>4, <2>1 DEF Lockstep
    <2>2. CASE InStep(c)'
      <3>1. InStep(c) /\ (taken[c] + n) % MsgLen = 0
        BY <1>4, <1>9, <2>2 DEF InStep
      <3>2. sent[c] = taken[c] + MsgLen /\ client[c] \in {"recv", "exited"}
            /\ (client[c] = "recv" => seen[c] = answers[c])
        BY <1>1, <1>3, <1>4, <1>5, <3>1, Numbers, SMTT(30) DEF Lockstep, Types
      <3>3. taken[c] % MsgLen = 0
        <4>1. PICK t \in Nat, m \in Nat \ {0} : t = taken[c] /\ m = MsgLen
          BY <1>1, Numbers
        <4>2. (t + m) % m = 0
          BY <1>1, <3>2, <4>1 DEF Lockstep
        <4> QED
          BY <4>1, <4>2, WholeLess
      <3>4. n = MsgLen
        <4>1. n <= MsgLen
          BY <1>1, <1>3, <1>5, <3>2, Numbers
        <4>2. ~(n \in 1..(MsgLen - 1))
          BY <1>1, <3>1, <3>3, Numbers, WholeMessages
        <4> QED
          BY <1>1, <1>5, <4>1, <4>2, Numbers
      <3> QED
        BY <1>1, <1>4, <3>2, <3>4, Numbers DEF Lockstep
    <2> QED
      BY <2>1, <2>2
  <1>11. Cutting(c)'
    <2>1. FullAfterCut(Pipe, c)' <=> FullAfterCut(Pipe, c)
      BY <1>2, Zenon
    <2>2. ASSUME MsgLen < BufLen, n = BufLen, Uncut(Pipe, c), c \notin torn
          PROVE  FALSE
      <3>1. InStep(c)
        BY <1>4, <2>2 DEF InStep, Recv
      <3>2. sent[c] = taken[c] \/ sent[c] = taken[c] + MsgLen
        BY <1>1, <3>1 DEF Lockstep, Types
      <3> QED
        BY <1>1, <1>3, <2>2, <3>2, Numbers
    <2>3. taken'[c] - Handed(c)' = n
      BY <1>1, <1>4, <1>5, <1>6, Numbers
    <2> QED
      BY <1>1, <1>4, <1>9, <2>1, <2>2, <2>3 DEF Cutting
  <1> QED
    BY <1>7, <1>8, <1>10, <1>11 DEF PerClient

(* QueueAdd puts the piece of c behind all others.                         *)
LEMMA QueueAddStep ==
    ASSUME IInv, NEW c \in Clients, QueueAdd(c)
    PROVE  PerClient(c)'
  <1>1. Types /\ Handling(c) /\ Lockstep(c) /\ Streaming(c) /\ Cutting(c)
    BY DEF IInv
  <1>2. Pipe' = Pipe \o <<Piece(c, Handed(c), taken[c])>> /\ Pipe \in Seq(Pieces)
    BY <1>1, PipeAdd, PipeType
  <1>3. /\ buffer'[c] = <<>> /\ taken'[c] = taken[c]
        /\ handler[c] = "add" /\ handler'[c] = "reply"
        /\ client'[c] = client[c] /\ link'[c] = link[c] /\ sent'[c] = sent[c]
        /\ answers'[c] = answers[c] /\ seen'[c] = seen[c] /\ torn' = torn
    BY <1>1 DEF QueueAdd, Types, cliVars
  <1>4. Handed(c) \in Nat /\ Handed(c) < taken[c] /\ Handed(c)' = taken[c] /\ taken[c] \in Nat
    BY <1>1, <1>3, Numbers DEF Handling, Handed
  <1>5. Handling(c)'
    BY <1>1, <1>3 DEF Handling
  <1>6. Streaming(c)'
    <2>1. Joined(Pipe', c, taken[c])
      BY <1>1, <1>2, <1>4, JoinedOneMore DEF Streaming
    <2> QED
      BY <1>4, <2>1, Zenon DEF Streaming
  <1>7. Uncut(Pipe', c) <=> Uncut(Pipe, c) /\ taken[c] % MsgLen = 0
    BY <1>2, <1>4, UncutOneMore
  <1>8. Lockstep(c)'
    <2>1. InStep(c)' => InStep(c)
      BY <1>3, <1>7 DEF InStep
    <2> QED
      BY <1>1, <1>3, <2>1 DEF Lockstep
  <1>9. Cutting(c)'
    <2>1. MsgLen < BufLen /\ c \notin torn => FullAfterCut(Pipe', c)
      BY <1>1, <1>2, <1>3, <1>4, FullOneMore DEF Cutting
    <2> QED
      BY <1>3, <2>1 DEF Cutting
  <1> QED
    BY <1>5, <1>6, <1>8, <1>9 DEF PerClient

(* For the other clients nothing has changed.                              *)
LEMMA QueueAddOthers ==
    ASSUME IInv, NEW c \in Clients, NEW d \in Clients \ {c}, QueueAdd(c)
    PROVE  PerClient(d)'
  <1>1. Types /\ Handling(c) /\ Handling(d) /\ Lockstep(d) /\ Streaming(d) /\ Cutting(d)
    BY DEF IInv
  <1>2. Pipe' = Pipe \o <<Piece(c, Handed(c), taken[c])>> /\ Pipe \in Seq(Pieces)
    BY <1>1, PipeAdd, PipeType
  <1>3. Locals(d)' = Locals(d) /\ (d \in torn' <=> d \in torn)
    BY <1>1, Others DEF ActionOf, HandleClient
  <1>4. /\ client'[d] = client[d] /\ handler'[d] = handler[d] /\ link'[d] = link[d]
        /\ sent'[d] = sent[d] /\ taken'[d] = taken[d] /\ answers'[d] = answers[d]
        /\ seen'[d] = seen[d] /\ buffer'[d] = buffer[d] /\ (d \in torn' <=> d \in torn)
    BY <1>3, Zenon DEF Locals
  <1>5. Handed(d)' = Handed(d)
    BY <1>4, Zenon DEF Handed
  <1>6. Handed(c) \in Nat /\ taken[c] \in Nat /\ Handed(c) < taken[c] /\ Handed(d) \in Nat
    BY <1>1, Numbers DEF Handling, Handed, QueueAdd
  <1>7. Handling(d)'
    BY <1>1, <1>4, <1>5 DEF Handling
  <1>8. Streaming(d)'
    <2>1. Joined(Pipe', d, Handed(d))
      BY <1>1, <1>2, <1>6, JoinedOneMore DEF Streaming
    <2> QED
      BY <1>5, <2>1, Zenon DEF Streaming
  <1>9. Uncut(Pipe', d) <=> Uncut(Pipe, d)
    BY <1>2, <1>6, UncutOneMore
  <1>10. Lockstep(d)'
    BY <1>1, <1>4, <1>9 DEF Lockstep, InStep
  <1>11. Cutting(d)'
    <2>1. MsgLen < BufLen /\ d \notin torn => FullAfterCut(Pipe', d)
      BY <1>1, <1>2, <1>6, FullOneMore DEF Cutting
    <2> QED
      BY <1>1, <1>4, <1>5, <1>9, <2>1 DEF Cutting
  <1> QED
    BY <1>7, <1>8, <1>10, <1>11 DEF PerClient

-----------------------------------------------------------------------------
LEMMA NextIInv == IInv /\ [Next]_vars => IInv'
  <1> SUFFICES ASSUME IInv, [Next]_vars
               PROVE  IInv'
    OBVIOUS
  <1>1. Types' /\ Startup' /\ Counted'
    BY TypesStep, StartupStep, CountedStep
  <1>2. ASSUME NEW d \in Clients
        PROVE  PerClient(d)'
    <2>1. Types /\ PerClient(d)
      BY DEF IInv, PerClient
    <2>2. ASSUME NEW c \in Clients, ActionOf(c)
          PROVE  PerClient(d)'
      <3>1. CASE d = c
        BY <2>2, <3>1, AcceptStep, RecvStep, RecvEndsStep, QueueAddStep, ReplyStep,
           ReplyFailsStep, ConnectStep, ConnectFailsStep, ClientSendStep,
           ClientSendFailsStep, ClientRecvStep, ClientRecvEndsStep, KilledStep, ResetStep
        DEF ActionOf, HandleClient, Client
      <3>2. CASE d # c /\ QueueAdd(c)
        BY <3>2, QueueAddOthers
      <3>3. CASE d # c /\ ~QueueAdd(c)
        <4>1. Locals(d)' = Locals(d) /\ (d \in torn' <=> d \in torn) /\ Pipe' = Pipe
          BY <2>1, <2>2, <3>3, Others, OthersQuiet
        <4> QED
          BY <2>1, <4>1, Frame
      <3> QED
        BY <3>1, <3>2, <3>3
    <2>3. CASE CreateQueueThread \/ NewLogging \/ QueueWait \/ Show \/ UNCHANGED vars
      <3>1. Locals(d)' = Locals(d) /\ (d \in torn' <=> d \in torn)
        BY <2>3 DEF Locals, CreateQueueThread, NewLogging, QueueWait, Show, vars,
           srvVars, cliVars, hanVars, conVars
      <3>2. Pipe' = Pipe
        BY <2>3, PipeWait, PipeShow, PipeQuiet
        DEF CreateQueueThread, NewLogging, vars, conVars
      <3> QED
        BY <2>1, <3>1, <3>2, Frame
    <2> QED
      BY <2>2, <2>3 DEF Next, Main, Consumer, ActionOf
  <1> QED
    BY <1>1, <1>2 DEF IInv, PerClient

(* The inductive invariant holds in every reachable state.                 *)
THEOREM Invariance == Spec => []IInv
  BY InitIInv, NextIInv, PTL DEF Spec

(* What the handlers received from each client is shown once, in order and *)
(* without gaps; pLogger is set whenever m_HiloQueueMensajes uses it; and  *)
(* connectedClients counts no more than the clients there are.             *)
THEOREM ServerSound == Spec => []Sound
  <1>1. IInv => Sound
    <2> SUFFICES ASSUME IInv
                 PROVE  Sound
      OBVIOUS
    <2>1. Types /\ Startup /\ Counted
      BY DEF IInv
    <2>2. connectedClients \in 0..Cardinality(Clients)
      <3>1. /\ IsFiniteSet(Accepted) /\ IsFiniteSet(Clients)
            /\ Cardinality(Accepted) <= Cardinality(Clients)
        BY ClientServerAssumption, FS_Subset DEF Accepted
      <3>2. Cardinality(Accepted) \in Nat /\ Cardinality(Clients) \in Nat
        BY <3>1, FS_CardinalityType
      <3> QED
        BY <2>1, <3>1, <3>2 DEF Counted
    <2>3. \A c \in Clients : taken[c] \in 0..sent[c] /\ answers[c] \in 0..taken[c]
                             /\ seen[c] \in 0..answers[c]
      BY <2>1, Numbers DEF IInv, Handling
    <2>4. {m_LogQueue, str, shown} \cup {buffer[c] : c \in Clients} \subseteq Seq(Pieces)
      BY <2>1 DEF Types
    <2>5. TypeOK
      BY <2>1, <2>2, <2>3, <2>4 DEF TypeOK, Types
    <2>6. LoggerReady
      BY <2>1 DEF LoggerReady, Startup
    <2>7. ASSUME NEW c \in Clients
          PROVE  Joined(Received(c), c, taken[c])
      <3>1. Handling(c) /\ Joined(Pipe, c, Handed(c)) /\ Pipe \in Seq(Pieces)
        BY <2>1, PipeType DEF IInv, Streaming
      <3>2. CASE handler[c] = "add"
        <4>1. Handed(c) \in Nat /\ taken[c] \in Nat /\ Handed(c) < taken[c]
              /\ Received(c) = Pipe \o <<Piece(c, Handed(c), taken[c])>>
          BY <2>1, <3>1, <3>2, Numbers DEF Handling, Received
        <4> QED
          BY <3>1, <4>1, JoinedOneMore
      <3>3. CASE handler[c] # "add"
        <4>1. Handed(c) = taken[c] /\ Received(c) = Pipe
          BY <3>1, <3>3, ConcatEmptySeq DEF Handling, Handed, Received
        <4> QED
          BY <3>1, <4>1, Zenon
      <3> QED
        BY <3>2, <3>3
    <2> QED
      BY <2>5, <2>6, <2>7 DEF Sound, StreamInOrder
  <1> QED
    BY <1>1, Invariance, PTL

(* If a message is shorter than the buffer, recv fills the whole buffer    *)
(* only for a client one of whose messages it has cut before, or which has *)
(* itself taken a part of an answer for the whole.                         *)
THEOREM BufferFullOnlyAfterCut == Spec => []FullOnlyAfterCut
  <1>1. IInv => FullOnlyAfterCut
    <2> SUFFICES ASSUME IInv, MsgLen < BufLen, NEW c \in Clients \ torn
                 PROVE  FullAfterCut(Received(c), c)
      BY DEF FullOnlyAfterCut
    <2>1. Types /\ Handling(c) /\ Cutting(c) /\ Pipe \in Seq(Pieces)
      BY PipeType DEF IInv
    <2>2. CASE handler[c] = "add"
      <3>1. Handed(c) \in Nat /\ taken[c] \in Nat
            /\ Received(c) = Pipe \o <<Piece(c, Handed(c), taken[c])>>
        BY <2>1, <2>2, Numbers DEF Handling, Received
      <3> QED
        BY <2>1, <2>2, <3>1, FullOneMore DEF Cutting
    <2>3. CASE handler[c] # "add"
      <3>1. Received(c) = Pipe
        BY <2>1, <2>3, ConcatEmptySeq DEF Handling, Received
      <3> QED
        BY <2>1, <3>1 DEF Cutting
    <2> QED
      BY <2>2, <2>3
  <1> QED
    BY <1>1, Invariance, PTL
=============================================================================
