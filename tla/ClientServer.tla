---------------------------- MODULE ClientServer ----------------------------
(***************************************************************************)
(* The socket server (SocketServerApp.cpp from the initialisation of       *)
(* Winsock on, SocketServerApp.h) and its clients (SocketClientApp.cpp):   *)
(* an accept loop, a detached HandleClient thread per connection, one      *)
(* thread that takes what the handlers put in m_LogQueue, and client       *)
(* processes that send a message and wait for an answer, over and over.    *)
(*                                                                         *)
(* TCP and Winsock are external: a reliable stream of bytes that recv may  *)
(* cut anywhere, until it is closed or reset.  Bytes are counted, as only  *)
(* their order matters.  m_LogQueue is an atomic first-in first-out        *)
(* channel (QueueProofs).                                                  *)
(***************************************************************************)
EXTENDS Integers, Sequences, FiniteSets, SequencesExt

CONSTANTS
    Clients,        \* the client processes
    MsgLen,         \* length of a client's message
    BufLen,         \* sizeof(buffer) in HandleClient, 1024
    MaxMsgs,        \* bound: messages each client sends
    MaxFaults       \* bound: connections reset and clients killed

ASSUME ClientServerAssumption ==
    /\ {MsgLen, BufLen} \subseteq Nat \ {0}
    /\ MaxMsgs \in [Clients -> Nat] /\ MaxFaults \in Nat
    /\ IsFiniteSet(Clients)

VARIABLES
    main,           \* the main thread: "thread", "logger", "accept"
    pLogger,        \* is the global pointer set
    connectedClients,
    client,         \* "new", "send", "recv", "exited"
    handler,        \* "none", "recv", "add", "reply", "closed"
    link,           \* the connection: "none", "up", "reset"
    sent, taken,    \* bytes the client sent, the handler received
    answers, seen,  \* answers the handler sent, the client received whole
    torn,           \* history: clients whose recv has ended inside an answer
    buffer,         \* the bytes in the handler's buffer: a piece or none
    m_LogQueue,
    consumer,       \* m_HiloQueueMensajes: "none", "wait", "show"
    str,            \* the piece m_HiloQueueMensajes has, or none
    shown,          \* history: pieces written to the console, in order
    faults

srvVars == <<main, pLogger, connectedClients>>
cliVars == <<client, sent, seen, torn>>
hanVars == <<handler, taken, answers, buffer>>
conVars == <<consumer, str, shown>>
vars == <<srvVars, cliVars, hanVars, link, m_LogQueue, conVars, faults>>

Piece(c, from, to) == [client |-> c, from |-> from, to |-> to]

Fault == faults < MaxFaults /\ faults' = faults + 1

(* socket, bind and listen have succeeded: clients can connect.            *)
Init ==
    /\ main = "thread" /\ pLogger = FALSE /\ connectedClients = 0
    /\ client = [c \in Clients |-> "new"]
    /\ handler = [c \in Clients |-> "none"]
    /\ link = [c \in Clients |-> "none"]
    /\ sent = [c \in Clients |-> 0] /\ taken = [c \in Clients |-> 0]
    /\ answers = [c \in Clients |-> 0] /\ seen = [c \in Clients |-> 0]
    /\ torn = {} /\ buffer = [c \in Clients |-> <<>>]
    /\ m_LogQueue = <<>>
    /\ consumer = "none" /\ str = <<>> /\ shown = <<>>
    /\ faults = 0

-----------------------------------------------------------------------------
(* The main thread.                                                        *)

CreateQueueThread ==
    /\ main = "thread"
    /\ main' = "logger"
    /\ consumer' = "wait"
    /\ UNCHANGED <<pLogger, connectedClients, cliVars, hanVars, link, m_LogQueue,
                   str, shown, faults>>

NewLogging ==
    /\ main = "logger"
    /\ main' = "accept"
    /\ pLogger' = TRUE
    /\ UNCHANGED <<connectedClients, cliVars, hanVars, link, m_LogQueue, conVars,
                   faults>>

(* accept, the counter, and the thread for HandleClient.  (A failing       *)
(* accept is tried again and changes nothing.)                             *)
Accept(c) ==
    /\ main = "accept"
    /\ link[c] # "none" /\ handler[c] = "none"
    /\ connectedClients' = connectedClients + 1
    /\ handler' = [handler EXCEPT ![c] = "recv"]
    /\ UNCHANGED <<main, pLogger, cliVars, taken, answers, buffer, link,
                   m_LogQueue, conVars, faults>>

-----------------------------------------------------------------------------
(* HandleClient.                                                           *)

(* recv returns the next bytes, as many as have come and fit.  When they   *)
(* fill the buffer, the NUL behind them is written outside of it; what that*)
(* byte belongs to is not modelled.                                        *)
Recv(c) ==
    /\ handler[c] = "recv" /\ link[c] = "up"
    /\ \E n \in 1..BufLen :
        /\ taken[c] + n <= sent[c]
        /\ buffer' = [buffer EXCEPT ![c] = <<Piece(c, taken[c], taken[c] + n)>>]
        /\ taken' = [taken EXCEPT ![c] = @ + n]
    /\ handler' = [handler EXCEPT ![c] = "add"]
    /\ UNCHANGED <<srvVars, cliVars, answers, link, m_LogQueue, conVars, faults>>

(* recv returns an error, or 0 when the client is gone and all is read.    *)
RecvEnds(c) ==
    /\ handler[c] = "recv"
    /\ link[c] = "reset" \/ (client[c] = "exited" /\ taken[c] = sent[c])
    /\ handler' = [handler EXCEPT ![c] = "closed"]
    /\ UNCHANGED <<srvVars, cliVars, taken, answers, buffer, link, m_LogQueue,
                   conVars, faults>>

(* Mutant: the piece is answered but never put in the queue.               *)
QueueAddForgotten(c) ==
    /\ handler[c] = "add"
    /\ handler' = [handler EXCEPT ![c] = "reply"]
    /\ buffer' = [buffer EXCEPT ![c] = <<>>]
    /\ UNCHANGED <<srvVars, cliVars, taken, answers, link, m_LogQueue, conVars,
                   faults>>

QueueAdd(c) ==
    /\ handler[c] = "add"
    /\ handler' = [handler EXCEPT ![c] = "reply"]
    /\ m_LogQueue' = m_LogQueue \o buffer[c]
    /\ buffer' = [buffer EXCEPT ![c] = <<>>]
    /\ UNCHANGED <<srvVars, cliVars, taken, answers, link, conVars, faults>>

(* One answer for what one recv returned.                                  *)
Reply(c) ==
    /\ handler[c] = "reply" /\ link[c] = "up"
    /\ answers' = [answers EXCEPT ![c] = @ + 1]
    /\ handler' = [handler EXCEPT ![c] = "recv"]
    /\ UNCHANGED <<srvVars, cliVars, taken, buffer, link, m_LogQueue, conVars,
                   faults>>

ReplyFails(c) ==
    /\ handler[c] = "reply"
    /\ link[c] = "reset" \/ client[c] = "exited"
    /\ handler' = [handler EXCEPT ![c] = "closed"]
    /\ UNCHANGED <<srvVars, cliVars, taken, answers, buffer, link, m_LogQueue,
                   conVars, faults>>

HandleClient(c) ==
    Recv(c) \/ RecvEnds(c) \/ QueueAdd(c) \/ Reply(c) \/ ReplyFails(c)

-----------------------------------------------------------------------------
(* m_HiloQueueMensajes.                                                    *)

(* Mutant: the newest piece is taken first.                                *)
QueueWaitNewest ==
    /\ consumer = "wait" /\ m_LogQueue # <<>>
    /\ consumer' = "show"
    /\ str' = <<Last(m_LogQueue)>>
    /\ m_LogQueue' = Front(m_LogQueue)
    /\ UNCHANGED <<srvVars, cliVars, hanVars, link, shown, faults>>

QueueWait ==
    /\ consumer = "wait" /\ m_LogQueue # <<>>
    /\ consumer' = "show"
    /\ str' = <<Head(m_LogQueue)>>
    /\ m_LogQueue' = Tail(m_LogQueue)
    /\ UNCHANGED <<srvVars, cliVars, hanVars, link, shown, faults>>

(* Print the piece and log through pLogger; the string is never deleted.   *)
Show ==
    /\ consumer = "show"
    /\ consumer' = "wait"
    /\ shown' = shown \o str
    /\ str' = <<>>
    /\ UNCHANGED <<srvVars, cliVars, hanVars, link, m_LogQueue, faults>>

-----------------------------------------------------------------------------
(* The client program.                                                     *)

Connect(c) ==
    /\ client[c] = "new"
    /\ client' = [client EXCEPT ![c] = "send"]
    /\ link' = [link EXCEPT ![c] = "up"]
    /\ UNCHANGED <<srvVars, sent, seen, torn, hanVars, m_LogQueue, conVars, faults>>

(* Any of its initial calls fails: the client returns -1.                  *)
ConnectFails(c) ==
    /\ client[c] = "new"
    /\ Fault
    /\ client' = [client EXCEPT ![c] = "exited"]
    /\ UNCHANGED <<srvVars, sent, seen, torn, hanVars, link, m_LogQueue, conVars>>

(* send may still succeed after the server has closed the connection.      *)
ClientSend(c) ==
    /\ client[c] = "send" /\ link[c] = "up"
    /\ sent[c] < MsgLen * MaxMsgs[c]
    /\ sent' = [sent EXCEPT ![c] = @ + MsgLen]
    /\ client' = [client EXCEPT ![c] = "recv"]
    /\ UNCHANGED <<srvVars, seen, torn, hanVars, link, m_LogQueue, conVars, faults>>

ClientSendFails(c) ==
    /\ client[c] = "send"
    /\ link[c] = "reset" \/ handler[c] = "closed"
    /\ client' = [client EXCEPT ![c] = "exited"]
    /\ UNCHANGED <<srvVars, sent, seen, torn, hanVars, link, m_LogQueue, conVars,
                   faults>>

(* Mutant: the client does not wait for the answer.                        *)
ClientRecvAtOnce(c) ==
    /\ client[c] = "recv" /\ link[c] = "up"
    /\ client' = [client EXCEPT ![c] = "send"]
    /\ UNCHANGED <<srvVars, sent, seen, torn, hanVars, link, m_LogQueue, conVars,
                   faults>>

(* recv returns any bytes of the answers that have come: up to the end of  *)
(* one, or with a part of the next one or that part alone.  Whatever it is,*)
(* the client sends its next message.                                      *)
ClientRecv(c) ==
    /\ client[c] = "recv" /\ link[c] = "up"
    /\ \E n \in seen[c]..answers[c] :
        /\ seen' = [seen EXCEPT ![c] = n]
        /\ \/ n > seen[c] /\ UNCHANGED torn
           \/ n < answers[c] /\ torn' = torn \cup {c}
    /\ client' = [client EXCEPT ![c] = "send"]
    /\ UNCHANGED <<srvVars, sent, hanVars, link, m_LogQueue, conVars, faults>>

(* recv returns an error or 0: the client says so and goes on.             *)
ClientRecvEnds(c) ==
    /\ client[c] = "recv"
    /\ link[c] = "reset" \/ (handler[c] = "closed" /\ seen[c] = answers[c])
    /\ client' = [client EXCEPT ![c] = "send"]
    /\ UNCHANGED <<srvVars, sent, seen, torn, hanVars, link, m_LogQueue, conVars,
                   faults>>

(* The client's process is killed.                                         *)
Killed(c) ==
    /\ client[c] \in {"send", "recv"}
    /\ Fault
    /\ client' = [client EXCEPT ![c] = "exited"]
    /\ UNCHANGED <<srvVars, sent, seen, torn, hanVars, link, m_LogQueue, conVars>>

(* The connection is reset; what was on its way is lost.                   *)
Reset(c) ==
    /\ link[c] = "up"
    /\ Fault
    /\ link' = [link EXCEPT ![c] = "reset"]
    /\ UNCHANGED <<srvVars, cliVars, hanVars, m_LogQueue, conVars>>

Client(c) ==
    \/ Connect(c) \/ ConnectFails(c) \/ ClientSend(c) \/ ClientSendFails(c)
    \/ ClientRecv(c) \/ ClientRecvEnds(c)

Main == CreateQueueThread \/ NewLogging \/ \E c \in Clients : Accept(c)
Consumer == QueueWait \/ Show

Next ==
    \/ Main \/ Consumer
    \/ \E c \in Clients : HandleClient(c) \/ Client(c) \/ Killed(c) \/ Reset(c)

Spec == Init /\ [][Next]_vars

(* The server's threads run; nothing is asked of the clients.              *)
Fairness ==
    /\ WF_vars(Main) /\ WF_vars(Consumer)
    /\ \A c \in Clients : WF_vars(HandleClient(c))

FairSpec == Spec /\ Fairness

-----------------------------------------------------------------------------
Pieces == [client : Clients, from : Nat, to : Nat]

(* The variables have their types, no handler has taken or answered what   *)
(* was not sent, and an answer is for a recv.                              *)
TypeOK ==
    /\ main \in {"thread", "logger", "accept"} /\ pLogger \in BOOLEAN
    /\ connectedClients \in 0..Cardinality(Clients)
    /\ client \in [Clients -> {"new", "send", "recv", "exited"}]
    /\ handler \in [Clients -> {"none", "recv", "add", "reply", "closed"}]
    /\ link \in [Clients -> {"none", "up", "reset"}] /\ torn \subseteq Clients
    /\ consumer \in {"none", "wait", "show"}
    /\ {m_LogQueue, str, shown} \cup {buffer[c] : c \in Clients} \subseteq Seq(Pieces)
    /\ \A c \in Clients : taken[c] \in 0..sent[c] /\ answers[c] \in 0..taken[c]
                          /\ seen[c] \in 0..answers[c]

(* When m_HiloQueueMensajes uses pLogger it is set, although the thread is *)
(* started before the logger is made: nothing is in the queue before the   *)
(* accept loop runs.                                                       *)
LoggerReady == consumer = "show" => pLogger

(* What the handlers put in the queue, in order of place in the program:   *)
(* shown, in hand, queued; and with it what the handler of c has in buffer.*)
Pipe == shown \o str \o m_LogQueue
Received(c) == Pipe \o buffer[c]

(* The places of a client's pieces.                                        *)
Of(pieces, c) == {i \in DOMAIN pieces : pieces[i].client = c}

(* The pieces of a client are in the order in which it sent them, none     *)
(* comes twice, and together they are the first `upto' bytes it sent.      *)
Joined(pieces, c, upto) ==
    /\ \A i \in Of(pieces, c) : pieces[i].from < pieces[i].to /\ pieces[i].to <= upto
    /\ \A i, j \in Of(pieces, c) : i < j => pieces[i].to <= pieces[j].from
    /\ \A n \in 1..upto :
        \E i \in Of(pieces, c) : pieces[i].from < n /\ n <= pieces[i].to

(* What the handlers put in the queue is shown once, in the order in which *)
(* each client sent it, with nothing left out: a client's pieces, shown,   *)
(* in hand, queued or in the handler's buffer, join up to what was taken.  *)
StreamInOrder == \A c \in Clients : Joined(Received(c), c, taken[c])

(* Each piece that fills the buffer has a piece of the same client before  *)
(* it that ends inside a message.                                          *)
FullAfterCut(pieces, c) ==
    \A i \in Of(pieces, c) : pieces[i].to - pieces[i].from = BufLen =>
        \E j \in Of(pieces, c) : j < i /\ pieces[j].to % MsgLen # 0

(* recv fills the whole buffer, and buffer[bytesReceived] = 0 is written   *)
(* behind it, only after a recv has returned a message cut in two, at the  *)
(* server, or an answer cut in two, at the client (if a message is shorter *)
(* than the buffer): until then the client waits for the whole answer to   *)
(* each message before it sends the next.                                  *)
FullOnlyAfterCut ==
    MsgLen < BufLen => \A c \in Clients \ torn : FullAfterCut(Received(c), c)

(* The types, the order of start-up and the streams.                       *)
Sound == TypeOK /\ LoggerReady /\ StreamInOrder

Shown(c) ==
    {n \in 1..taken[c] : \E i \in DOMAIN shown :
        shown[i].client = c /\ shown[i].from < n /\ n <= shown[i].to}

(* Every byte a handler has received is eventually shown, and the handler  *)
(* of a client that is gone ends and closes the socket (each client stops  *)
(* after MaxMsgs messages, so the server catches up again and again).      *)
ServerCatchesUp ==
    []<>(\A c \in Clients :
            /\ Shown(c) = 1..taken[c]
            /\ client[c] = "exited" /\ link[c] # "none" => handler[c] = "closed")
=============================================================================
