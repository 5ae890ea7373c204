------------------------------ MODULE TcpLinks ------------------------------
(***************************************************************************)
(* The TCP links of application/network: the server the PC connects to     *)
(* (tcp_server.c) and the client of the control centre (tcp_client.c).     *)
(*                                                                         *)
(* Each link has a listener task, which makes and ends its connection, and *)
(* a sender task, which takes messages from its task queue; they share the *)
(* descriptor and the status without a lock.  All tasks use the socket     *)
(* table of lwIP, which gives the lowest free descriptor, and the blocks   *)
(* of one partition of the pool.  An FTP session is another user of both.  *)
(*                                                                         *)
(* The listeners (priorities 14 and 12) are preempted by the senders (13   *)
(* and 11) and by each other's; the tasks that post messages run above all *)
(* of them, so that Post is one step.                                      *)
(***************************************************************************)
EXTENDS Integers, FiniteSets

CONSTANTS
  Socket,      \* 0 .. MEMP_NUM_NETCONN - 1
  OtherMax,    \* sockets an FTP session uses
  Blocks,      \* blocks of the partition
  QueueMax,    \* the message limit of a sender's queue
  MaxDrops     \* bound: how often the Ethernet link goes down

ASSUME TcpConstants ==
  /\ Socket \subseteq Nat /\ IsFiniteSet(Socket)
  /\ {OtherMax, Blocks, QueueMax, MaxDrops} \subseteq Nat

Link == {"server", "client"}
NoFd == -1

VARIABLES
  up,        \* what Network_GetLinkStatus returns
  sock,      \* what each descriptor stands for
  listenFd,  \* listen_fd of the server
  fd,        \* peer_fd of the server, fd of the client
  status,    \* TRUE: Status_Connected
  alive,     \* the remote end has not closed the connection
  lpc,       \* where each listener task is
  spc,       \* where each sender task is
  queue,     \* messages in each sender's task queue
  pool,      \* free blocks
  lost,      \* history: blocks whose post failed
  raced,     \* history: the listener has closed the socket of a connection
             \* that the sender has found connected
  drops

connection == <<listenFd, fd, status, alive, lpc>>
message == <<spc, queue, pool, lost>>
vars == <<up, sock, connection, message, raced, drops>>

FreeSockets == {d \in Socket : sock[d] = "free"}
Lowest == CHOOSE d \in FreeSockets : \A e \in FreeSockets : d <= e
Close(d) == IF d \in Socket THEN [sock EXCEPT ![d] = "free"] ELSE sock

\* The local port belongs to a socket that has been bound to it.
PortInUse == \E d \in Socket : sock[d] = "bound"

Init ==
  /\ up = TRUE
  /\ sock = [d \in Socket |-> "free"]
  /\ listenFd = 0
  /\ fd = [server |-> 0, client |-> 0]
  /\ status = [l \in Link |-> FALSE]
  /\ alive = [l \in Link |-> FALSE]
  /\ lpc = [l \in Link |-> "open"]
  /\ spc = [l \in Link |-> "pend"]
  /\ queue = [l \in Link |-> 0]
  /\ pool = Blocks /\ lost = 0
  /\ raced = [l \in Link |-> FALSE]
  /\ drops = 0

Goto(l, place) == lpc' = [lpc EXCEPT ![l] = place]

(***************************************************************************)
(* The world: the cable, the remote ends, an FTP session.                  *)
(***************************************************************************)
LinkDown ==
  /\ up /\ drops < MaxDrops
  /\ up' = FALSE
  /\ drops' = drops + 1
  /\ UNCHANGED <<sock, connection, message, raced>>

LinkUp ==
  /\ ~up
  /\ up' = TRUE
  /\ UNCHANGED <<sock, connection, message, raced, drops>>

HangUp(l) ==
  /\ alive[l]
  /\ alive' = [alive EXCEPT ![l] = FALSE]
  /\ UNCHANGED <<up, sock, listenFd, fd, status, lpc, message, raced, drops>>

OtherOpen ==
  /\ Cardinality({d \in Socket : sock[d] = "other"}) < OtherMax
  /\ FreeSockets # {}
  /\ sock' = [sock EXCEPT ![Lowest] = "other"]
  /\ UNCHANGED <<up, connection, message, raced, drops>>

OtherClose ==
  \E d \in Socket :
    /\ sock[d] = "other"
    /\ sock' = Close(d)
    /\ UNCHANGED <<up, connection, message, raced, drops>>

(***************************************************************************)
(* tcp_server_listener: socket, bind and listen, accept.  With the link    *)
(* down or no socket left it delays and tries again.                       *)
(***************************************************************************)
ServerSocket ==
  /\ lpc["server"] = "open"
  /\ up /\ FreeSockets # {}
  /\ sock' = [sock EXCEPT ![Lowest] = "listen"]
  /\ listenFd' = Lowest
  /\ Goto("server", "bind")
  /\ UNCHANGED <<up, fd, status, alive, message, raced, drops>>

\* lwIP is built with SO_REUSE = 0: the port must be free.
ServerBind ==
  /\ lpc["server"] = "bind"
  /\ IF PortInUse
       THEN Goto("server", "open") /\ UNCHANGED sock
       ELSE Goto("server", "check") /\ sock' = [sock EXCEPT ![listenFd] = "bound"]
  /\ UNCHANGED <<up, listenFd, fd, status, alive, message, raced, drops>>

ServerCheck ==
  /\ lpc["server"] = "check"
  /\ Goto("server", IF up THEN "accept" ELSE "open")
  /\ UNCHANGED <<up, sock, listenFd, fd, status, alive, message, raced, drops>>

\* accept returns when a client has connected; without a socket for it the
\* connection is dropped.
ServerAccept ==
  /\ lpc["server"] = "accept"
  /\ up
  /\ IF FreeSockets = {}
       THEN /\ fd' = [fd EXCEPT !["server"] = NoFd]
            /\ Goto("server", "check")
            /\ UNCHANGED <<sock, alive>>
       ELSE /\ fd' = [fd EXCEPT !["server"] = Lowest]
            /\ sock' = [sock EXCEPT ![Lowest] = "server"]
            /\ alive' = [alive EXCEPT !["server"] = TRUE]
            /\ Goto("server", "made")
  /\ UNCHANGED <<up, listenFd, status, message, raced, drops>>

(***************************************************************************)
(* tcp_client_open_connection: socket; connect, which may fail.            *)
(***************************************************************************)
ClientSocket ==
  /\ lpc["client"] = "open"
  /\ up /\ FreeSockets # {}
  /\ sock' = [sock EXCEPT ![Lowest] = "client"]
  /\ fd' = [fd EXCEPT !["client"] = Lowest]
  /\ Goto("client", "connect")
  /\ UNCHANGED <<up, listenFd, status, alive, message, raced, drops>>

ClientConnect ==
  /\ lpc["client"] = "connect"
  /\ up
  /\ alive' = [alive EXCEPT !["client"] = TRUE]
  /\ Goto("client", "made")
  /\ UNCHANGED <<up, sock, listenFd, fd, status, message, raced, drops>>

\* Mutant of ClientRefused: the socket of a failed attempt is kept.
ClientRefusedKeeps ==
  /\ lpc["client"] = "connect"
  /\ fd' = [fd EXCEPT !["client"] = NoFd]
  /\ Goto("client", "open")
  /\ UNCHANGED <<up, sock, listenFd, status, alive, message, raced, drops>>

ClientRefused ==
  /\ lpc["client"] = "connect"
  /\ sock' = Close(fd["client"])
  /\ fd' = [fd EXCEPT !["client"] = NoFd]
  /\ Goto("client", "open")
  /\ UNCHANGED <<up, listenFd, status, alive, message, raced, drops>>

(***************************************************************************)
(* What both listeners do with a connection: status, the receive loop,     *)
(* close, status again.                                                    *)
(***************************************************************************)
Connected(l) ==
  /\ lpc[l] = "made"
  /\ status' = [status EXCEPT ![l] = TRUE]
  /\ Goto(l, "recv")
  /\ UNCHANGED <<up, sock, listenFd, fd, alive, message, raced, drops>>

\* recv has returned 0 or an error, or the link is down.
Disconnected(l) ==
  /\ lpc[l] = "recv"
  /\ ~up \/ ~alive[l]
  /\ Goto(l, "close")
  /\ UNCHANGED <<up, sock, listenFd, fd, status, alive, message, raced, drops>>

\* Mutant of CloseSocket: the loop ends without close.
CloseSocketForgets(l) ==
  /\ lpc[l] = "close"
  /\ alive' = [alive EXCEPT ![l] = FALSE]
  /\ Goto(l, "closed")
  /\ UNCHANGED <<up, sock, listenFd, fd, status, message, raced, drops>>

CloseSocket(l) ==
  /\ lpc[l] = "close"
  /\ sock' = Close(fd[l])
  /\ raced' = [raced EXCEPT ![l] = @ \/ spc[l] = "send"]
  /\ alive' = [alive EXCEPT ![l] = FALSE]
  /\ Goto(l, "closed")
  /\ UNCHANGED <<up, listenFd, fd, status, message, drops>>

\* Mutant of EndConnection: the status is left as it is.
EndConnectionKeeps(l) ==
  /\ lpc[l] = "closed"
  /\ fd' = IF l = "client" THEN [fd EXCEPT ![l] = NoFd] ELSE fd
  /\ Goto(l, IF l = "client" THEN "open" ELSE "check")
  /\ UNCHANGED <<up, sock, listenFd, status, alive, message, raced, drops>>

\* The server keeps its stale descriptor until the next accept.
EndConnection(l) ==
  /\ lpc[l] = "closed"
  /\ fd' = IF l = "client" THEN [fd EXCEPT ![l] = NoFd] ELSE fd
  /\ status' = [status EXCEPT ![l] = FALSE]
  /\ Goto(l, IF l = "client" THEN "open" ELSE "check")
  /\ UNCHANGED <<up, sock, listenFd, alive, message, raced, drops>>

\* Mutant of QueueFull: one message more than the queue takes.
QueueFullLate(l) == queue[l] > QueueMax
QueueFull(l) == queue[l] >= QueueMax

(***************************************************************************)
(* send_nonblocking, called by any task: a failed post keeps its block.    *)
(***************************************************************************)
Post(l) ==
  /\ status[l] /\ pool > 0
  /\ pool' = pool - 1
  /\ IF QueueFull(l)
       THEN lost' = lost + 1 /\ UNCHANGED queue
       ELSE queue' = [queue EXCEPT ![l] = @ + 1] /\ UNCHANGED lost
  /\ UNCHANGED <<up, sock, connection, spc, raced, drops>>

(***************************************************************************)
(* The sender tasks: take a message and test the status; wait for the      *)
(* socket and send; free the block.                                        *)
(***************************************************************************)
SendTest(l) ==
  /\ spc[l] = "pend" /\ queue[l] > 0
  /\ queue' = [queue EXCEPT ![l] = @ - 1]
  /\ spc' = [spc EXCEPT ![l] = IF status[l] THEN "send" ELSE "free"]
  /\ raced' = [raced EXCEPT ![l] = lpc[l] = "closed"]
  /\ UNCHANGED <<up, sock, connection, pool, lost, drops>>

Send(l) ==
  /\ spc[l] = "send"
  /\ spc' = [spc EXCEPT ![l] = "free"]
  /\ UNCHANGED <<up, sock, connection, queue, pool, lost, raced, drops>>

\* Mutant of SendFree: the block is freed only when there is another message.
SendFreeLate(l) ==
  /\ spc[l] = "free"
  /\ spc' = [spc EXCEPT ![l] = "pend"]
  /\ pool' = IF queue[l] > 0 THEN pool + 1 ELSE pool
  /\ UNCHANGED <<up, sock, connection, queue, lost, raced, drops>>

SendFree(l) ==
  /\ spc[l] = "free"
  /\ spc' = [spc EXCEPT ![l] = "pend"]
  /\ pool' = pool + 1
  /\ UNCHANGED <<up, sock, connection, queue, lost, raced, drops>>

Listener(l) ==
  \/ l = "server" /\ (ServerSocket \/ ServerBind \/ ServerCheck \/ ServerAccept)
  \/ l = "client" /\ (ClientSocket \/ ClientConnect \/ ClientRefused)
  \/ Connected(l) \/ Disconnected(l) \/ CloseSocket(l) \/ EndConnection(l)

Sender(l) == SendTest(l) \/ Send(l) \/ SendFree(l)

Next ==
  \/ LinkDown \/ LinkUp \/ OtherOpen \/ OtherClose
  \/ \E l \in Link : HangUp(l) \/ Post(l) \/ Listener(l) \/ Sender(l)

Spec == Init /\ [][Next]_vars

\* The cable is put back, the remote ends answer in the end, and the listeners
\* run.
FairSpec ==
  /\ Spec
  /\ WF_vars(LinkUp)
  /\ \A l \in Link : WF_vars(Listener(l))
  /\ SF_vars(ClientConnect)

-----------------------------------------------------------------------------
(***************************************************************************)
(* The type of the variables.                                              *)
(***************************************************************************)
TypeOK ==
  /\ up \in BOOLEAN
  /\ sock \in [Socket -> {"free", "listen", "bound", "server", "client", "other"}]
  /\ listenFd \in Socket \cup {0}
  /\ fd \in [Link -> Socket \cup {0, NoFd}]
  /\ status \in [Link -> BOOLEAN] /\ alive \in [Link -> BOOLEAN]
  /\ lpc \in [Link -> {"open", "bind", "check", "accept", "connect", "made",
                       "recv", "close", "closed"}]
  /\ spc \in [Link -> {"pend", "send", "free"}]
  /\ queue \in [Link -> 0 .. QueueMax]
  /\ pool \in 0 .. Blocks /\ lost \in 0 .. Blocks
  /\ raced \in [Link -> BOOLEAN]
  /\ drops \in 0 .. MaxDrops

(***************************************************************************)
(* Descriptors are reused at once, so each close must be of a socket the   *)
(* task still owns: as long as a listener has a connection its descriptor  *)
(* is that connection and no other socket is; afterwards none is.  The     *)
(* listening socket is in place while the server accepts.                  *)
(***************************************************************************)
Holding(l) == lpc[l] \in {"connect", "made", "recv", "close"}
Serving == lpc["server"] \in {"check", "accept", "made", "recv", "close", "closed"}

SocketsOwned ==
  /\ \A l \in Link : {d \in Socket : sock[d] = l} = IF Holding(l) THEN {fd[l]} ELSE {}
  /\ Serving => {d \in Socket : sock[d] = "bound"} = {listenFd}

(***************************************************************************)
(* send_blocking tests the status and then uses the descriptor.  It writes *)
(* to its own connection, unless the listener has closed the socket since  *)
(* the test, or had closed it and not yet changed the status.              *)
(***************************************************************************)
SentToPeer ==
  \A l \in Link : spc[l] = "send" /\ ~raced[l] => fd[l] \in Socket /\ sock[fd[l]] = l

(***************************************************************************)
(* A block that send_nonblocking takes comes back to the pool, whether the *)
(* message is sent, finds the link closed, or fails; only one whose post   *)
(* has failed does not (tcp_server.c:173, tcp_client.c:125).               *)
(***************************************************************************)
InHand(l) == queue[l] + (IF spc[l] = "pend" THEN 0 ELSE 1)
BlocksAccounted == pool + InHand("server") + InHand("client") + lost = Blocks

(***************************************************************************)
(* Both links come back after a disconnection or a loss of the Ethernet    *)
(* link, again and again, as long as the server has not abandoned a        *)
(* listening socket.                                                       *)
(***************************************************************************)
Abandoned ==
  {d \in Socket : sock[d] \in {"listen", "bound"}
                   /\ ~(d = listenFd /\ lpc["server"] # "open")}

ReconnectsUnlessLeaked == \A l \in Link : []<>(status[l] \/ Abandoned # {})
=============================================================================
