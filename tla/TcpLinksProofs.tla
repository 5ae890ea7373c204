--------------------------- MODULE TcpLinksProofs ---------------------------
(***************************************************************************)
(* Proofs about TcpLinks, for every socket table, every number of blocks   *)
(* and every length of the queues.                                         *)
(***************************************************************************)
EXTENDS TcpLinks, WellFoundedInduction, TLAPS

-----------------------------------------------------------------------------
(***************************************************************************)
(* The stack hands out a free descriptor.                                  *)
(***************************************************************************)

\* alloc_socket finds a free entry if there is one.
LEMMA LowestIsFree ==
  ASSUME FreeSockets # {}
  PROVE  Lowest \in Socket /\ sock[Lowest] = "free"
<1> DEFINE Less == OpToRel(<, Nat)
<1>1. FreeSockets \subseteq Nat
  BY TcpConstants DEF FreeSockets
<1>2. IsWellFoundedOn(Less, Nat)
  BY NatLessThanWellFounded
<1>3. PICK d \in FreeSockets : \A e \in FreeSockets : ~(<<e, d>> \in Less)
  <2> HIDE DEF Less
  <2>. QED  BY <1>1, <1>2, WFMin
<1>4. ASSUME NEW e \in FreeSockets
      PROVE  d <= e
  <2>1. d \in Nat /\ e \in Nat
    BY <1>1
  <2>2. e < d => <<e, d>> \in Less
    BY <2>1 DEF OpToRel
  <2>3. ~(<<e, d>> \in Less)
    BY <1>3 DEF OpToRel
  <2> HIDE DEF Less
  <2>. QED  BY <2>1, <2>2, <2>3
<1>5. Lowest \in FreeSockets
  BY <1>3, <1>4 DEF Lowest
<1>. QED  BY <1>5 DEF FreeSockets


\* The bounds are numbers.
LEMMA BoundsAreNumbers ==
  QueueMax \in Nat /\ Blocks \in Nat /\ MaxDrops \in Nat /\ Socket \subseteq Nat
BY TcpConstants

-----------------------------------------------------------------------------
(***************************************************************************)
(* The inductive invariant.  SocketsOwned is stated per descriptor         *)
(* (Owned, Bound); it needs the states a listener cannot be in (Places),   *)
(* the fresh socket of a server about to bind (Fresh), and, for the sender *)
(* between test and send, that the status is set in a connection only      *)
(* (StatusHolds) and that a close is remembered (Tested).                  *)
(***************************************************************************)
Places == lpc["client"] \notin {"bind", "check", "accept"} /\ lpc["server"] # "connect"

Owned ==
  \A l \in Link :
    /\ Holding(l) => fd[l] \in Socket
    /\ \A d \in Socket : sock[d] = l <=> Holding(l) /\ d = fd[l]

Bound ==
  Serving => /\ listenFd \in Socket
             /\ \A d \in Socket : sock[d] = "bound" <=> d = listenFd

Fresh == lpc["server"] = "bind" => listenFd \in Socket /\ sock[listenFd] = "listen"

StatusHolds == \A l \in Link : status[l] => lpc[l] \in {"recv", "close", "closed"}

Tested == \A l \in Link : spc[l] = "send" /\ ~raced[l] => lpc[l] \in {"recv", "close"}

TcpInv == /\ TypeOK /\ BlocksAccounted
          /\ Places /\ Owned /\ Bound /\ Fresh /\ StatusHolds /\ Tested

\* In the initial state no socket is used and every block is free.
LEMMA TcpInvInit == Init => TcpInv
<1> SUFFICES ASSUME Init PROVE TcpInv
  OBVIOUS
<1> USE TcpConstants DEF Init, Link
<1>1. TypeOK
  BY DEF TypeOK
<1>2. BlocksAccounted
  BY DEF BlocksAccounted, InHand
<1>3. Places /\ Owned /\ Bound /\ Fresh /\ StatusHolds /\ Tested
  BY DEF Places, Owned, Bound, Fresh, StatusHolds, Tested, Holding, Serving
<1>. QED  BY <1>1, <1>2, <1>3 DEF TcpInv

\* The cable, the remote ends and an FTP session.
LEMMA WorldKeepsInv ==
  ASSUME TcpInv,
         LinkDown \/ LinkUp \/ OtherOpen \/ OtherClose \/ \E l \in Link : HangUp(l)
  PROVE  TcpInv'
<1> USE BoundsAreNumbers DEF Link, TcpInv, connection, message
<1>1. CASE LinkDown
  <2>0. drops' \in 0 .. MaxDrops
    BY <1>1 DEF LinkDown, TypeOK
  <2>1. TypeOK'
    BY <1>1, <2>0 DEF LinkDown, TypeOK
  <2>3. BlocksAccounted'
    BY <1>1 DEF LinkDown, BlocksAccounted, InHand
  <2>2. (Places /\ Owned /\ Bound /\ Fresh /\ StatusHolds /\ Tested)'
    BY <1>1 DEF LinkDown, Places, Owned, Bound, Fresh, StatusHolds, Tested, Holding, Serving
  <2>. QED  BY <2>1, <2>2, <2>3
<1>2. CASE LinkUp
  BY <1>2 DEF LinkUp, TypeOK, BlocksAccounted, InHand, Places, Owned, Bound, Fresh, StatusHolds, Tested, Holding, Serving
<1>3. CASE OtherOpen
  <2>1. Lowest \in Socket /\ sock[Lowest] = "free"
    BY <1>3, LowestIsFree DEF OtherOpen
  <2>2. sock' = [sock EXCEPT ![Lowest] = "other"]
    BY <1>3 DEF OtherOpen
  <2>3. TypeOK' /\ BlocksAccounted'
    BY <1>3, <2>1, <2>2 DEF OtherOpen, TypeOK, BlocksAccounted, InHand
  <2>4. (Places /\ Owned /\ Bound /\ Fresh /\ StatusHolds /\ Tested)'
    BY <1>3, <2>1, <2>2 DEF OtherOpen, TypeOK, Places, Owned, Bound, Fresh, StatusHolds, Tested, Holding, Serving
  <2>. QED  BY <2>3, <2>4
<1>4. CASE OtherClose
  <2>1. PICK d \in Socket : sock[d] = "other" /\ sock' = [sock EXCEPT ![d] = "free"]
    BY <1>4 DEF OtherClose, Close
  <2>2. UNCHANGED <<up, connection, message, raced, drops>>
    BY <1>4 DEF OtherClose
  <2>3. TypeOK' /\ BlocksAccounted'
    BY <2>1, <2>2 DEF TypeOK, BlocksAccounted, InHand
  <2>4. (Places /\ Owned /\ Bound /\ Fresh /\ StatusHolds /\ Tested)'
    BY <2>1, <2>2 DEF TypeOK, Places, Owned, Bound, Fresh, StatusHolds, Tested, Holding, Serving
  <2>. QED  BY <2>3, <2>4
<1>5. CASE \E l \in Link : HangUp(l)
  BY <1>5 DEF HangUp, TypeOK, BlocksAccounted, InHand, Places, Owned, Bound, Fresh, StatusHolds, Tested, Holding, Serving
<1>. QED  BY <1>1, <1>2, <1>3, <1>4, <1>5

\* The tasks that make the server's connection.
LEMMA ServerKeepsInv ==
  ASSUME TcpInv, ServerSocket \/ ServerBind \/ ServerCheck \/ ServerAccept
  PROVE  TcpInv'
<1> USE BoundsAreNumbers DEF Link, TcpInv, connection, message, NoFd, Goto
<1>1. CASE ServerSocket
  <2>1. Lowest \in Socket /\ sock[Lowest] = "free"
    BY <1>1, LowestIsFree DEF ServerSocket
  <2>2. TypeOK'
    BY <1>1, <2>1 DEF ServerSocket, TypeOK
  <2>3. BlocksAccounted'
    BY <1>1 DEF ServerSocket, BlocksAccounted, InHand
  <2>4. (Places /\ Owned /\ Bound)'
    BY <1>1, <2>1 DEF ServerSocket, TypeOK, Places, Owned, Bound, Fresh, Holding, Serving
  <2>5. (Fresh /\ StatusHolds /\ Tested)'
    BY <1>1, <2>1 DEF ServerSocket, TypeOK, Places, Owned, Fresh, StatusHolds, Tested, Holding
  <2>. QED  BY <2>2, <2>3, <2>4, <2>5
<1>2. CASE ServerBind
  <2>2. TypeOK'
    BY <1>2 DEF ServerBind, TypeOK, PortInUse
  <2>3. BlocksAccounted'
    BY <1>2 DEF ServerBind, BlocksAccounted, InHand
  <2>4. (Places /\ Owned /\ Bound)'
    BY <1>2 DEF ServerBind, TypeOK, Places, Owned, Bound, Fresh, Holding, Serving, PortInUse
  <2>5. (Fresh /\ StatusHolds /\ Tested)'
    BY <1>2 DEF ServerBind, TypeOK, Places, Owned, Fresh, StatusHolds, Tested, Holding, PortInUse
  <2>. QED  BY <2>2, <2>3, <2>4, <2>5
<1>3. CASE ServerCheck
  <2>2. TypeOK'
    BY <1>3 DEF ServerCheck, TypeOK
  <2>3. BlocksAccounted'
    BY <1>3 DEF ServerCheck, BlocksAccounted, InHand
  <2>4. (Places /\ Owned /\ Bound)'
    BY <1>3 DEF ServerCheck, TypeOK, Places, Owned, Bound, Fresh, Holding, Serving
  <2>5. (Fresh /\ StatusHolds /\ Tested)'
    BY <1>3 DEF ServerCheck, TypeOK, Places, Owned, Fresh, StatusHolds, Tested, Holding
  <2>. QED  BY <2>2, <2>3, <2>4, <2>5
<1>4. CASE ServerAccept
  <2>1. CASE FreeSockets = {}
    <3>2. TypeOK'
      BY <1>4, <2>1 DEF ServerAccept, TypeOK
    <3>3. BlocksAccounted'
      BY <1>4 DEF ServerAccept, BlocksAccounted, InHand
    <3>4. (Places /\ Owned /\ Bound)'
      BY <1>4, <2>1 DEF ServerAccept, TypeOK, Places, Owned, Bound, Holding, Serving
    <3>5. (Fresh /\ StatusHolds /\ Tested)'
      BY <1>4, <2>1 DEF ServerAccept, TypeOK, Fresh, StatusHolds, Tested
    <3>. QED  BY <3>2, <3>3, <3>4, <3>5
  <2>2. CASE FreeSockets # {}
    <3>1. Lowest \in Socket /\ sock[Lowest] = "free"
      BY <2>2, LowestIsFree
    <3>2. /\ fd' = [fd EXCEPT !["server"] = Lowest]
          /\ sock' = [sock EXCEPT ![Lowest] = "server"]
          /\ alive' = [alive EXCEPT !["server"] = TRUE]
          /\ lpc["server"] = "accept"
          /\ lpc' = [lpc EXCEPT !["server"] = "made"]
          /\ UNCHANGED <<up, listenFd, status, message, raced, drops>>
      BY <1>4, <2>2 DEF ServerAccept
    <3>3. TypeOK' /\ BlocksAccounted'
      BY <3>1, <3>2 DEF TypeOK, BlocksAccounted, InHand
    <3>4. (Places /\ Owned /\ Bound)'
      BY <3>1, <3>2 DEF TypeOK, Places, Owned, Bound, Holding, Serving
    <3>5. (Fresh /\ StatusHolds /\ Tested)'
      BY <3>1, <3>2 DEF TypeOK, Fresh, StatusHolds, Tested
    <3>. QED  BY <3>3, <3>4, <3>5
  <2>. QED  BY <2>1, <2>2
<1>. QED  BY <1>1, <1>2, <1>3, <1>4

\* The steps that make the client's connection.
LEMMA ClientKeepsInv ==
  ASSUME TcpInv, ClientSocket \/ ClientConnect \/ ClientRefused
  PROVE  TcpInv'
<1> USE BoundsAreNumbers DEF Link, TcpInv, connection, message, NoFd, Goto
<1>1. CASE ClientSocket
  <2>1. Lowest \in Socket /\ sock[Lowest] = "free"
    BY <1>1, LowestIsFree DEF ClientSocket
  <2>2. TypeOK'
    BY <1>1, <2>1 DEF ClientSocket, TypeOK
  <2>3. BlocksAccounted'
    BY <1>1 DEF ClientSocket, BlocksAccounted, InHand
  <2>4. (Places /\ Owned /\ Bound)'
    BY <1>1, <2>1 DEF ClientSocket, TypeOK, Places, Owned, Bound, Fresh, Holding, Serving
  <2>5. (Fresh /\ StatusHolds /\ Tested)'
    BY <1>1, <2>1 DEF ClientSocket, TypeOK, Places, Owned, Fresh, StatusHolds, Tested, Holding
  <2>. QED  BY <2>2, <2>3, <2>4, <2>5
<1>2. CASE ClientConnect
  <2>2. TypeOK'
    BY <1>2 DEF ClientConnect, TypeOK
  <2>3. BlocksAccounted'
    BY <1>2 DEF ClientConnect, BlocksAccounted, InHand
  <2>4. (Places /\ Owned /\ Bound)'
    BY <1>2 DEF ClientConnect, TypeOK, Places, Owned, Bound, Fresh, Holding, Serving
  <2>5. (Fresh /\ StatusHolds /\ Tested)'
    BY <1>2 DEF ClientConnect, TypeOK, Places, Owned, Fresh, StatusHolds, Tested, Holding
  <2>. QED  BY <2>2, <2>3, <2>4, <2>5
<1>3. CASE ClientRefused
  <2>2. TypeOK'
    BY <1>3 DEF ClientRefused, TypeOK, Close
  <2>3. BlocksAccounted'
    BY <1>3 DEF ClientRefused, BlocksAccounted, InHand
  <2>4. (Places /\ Owned /\ Bound)'
    BY <1>3 DEF ClientRefused, TypeOK, Places, Owned, Bound, Fresh, Holding, Serving, Close
  <2>5. (Fresh /\ StatusHolds /\ Tested)'
    BY <1>3 DEF ClientRefused, TypeOK, Places, Owned, Fresh, StatusHolds, Tested, Holding, Close
  <2>. QED  BY <2>2, <2>3, <2>4, <2>5
<1>. QED  BY <1>1, <1>2, <1>3

\* What both listeners do with a connection.
LEMMA ConnectionKeepsInv ==
  ASSUME TcpInv, NEW l \in Link,
         Connected(l) \/ Disconnected(l) \/ CloseSocket(l) \/ EndConnection(l)
  PROVE  TcpInv'
<1> USE BoundsAreNumbers DEF Link, TcpInv, connection, message, NoFd, Goto
<1>1. CASE Connected(l)
  <2>2. TypeOK'
    BY <1>1 DEF Connected, TypeOK
  <2>3. BlocksAccounted'
    BY <1>1 DEF Connected, BlocksAccounted, InHand
  <2>4. (Places /\ Owned /\ Bound)'
    BY <1>1 DEF Connected, TypeOK, Places, Owned, Bound, Fresh, Holding, Serving
  <2>5. (Fresh /\ StatusHolds /\ Tested)'
    BY <1>1 DEF Connected, TypeOK, Places, Owned, Fresh, StatusHolds, Tested, Holding
  <2>. QED  BY <2>2, <2>3, <2>4, <2>5
<1>2. CASE Disconnected(l)
  <2>2. TypeOK'
    BY <1>2 DEF Disconnected, TypeOK
  <2>3. BlocksAccounted'
    BY <1>2 DEF Disconnected, BlocksAccounted, InHand
  <2>4. (Places /\ Owned /\ Bound)'
    BY <1>2 DEF Disconnected, TypeOK, Places, Owned, Bound, Fresh, Holding, Serving
  <2>5. (Fresh /\ StatusHolds /\ Tested)'
    BY <1>2 DEF Disconnected, TypeOK, Places, Owned, Fresh, StatusHolds, Tested, Holding
  <2>. QED  BY <2>2, <2>3, <2>4, <2>5
<1>3. CASE CloseSocket(l)
  <2>2. TypeOK'
    BY <1>3 DEF CloseSocket, TypeOK, Close
  <2>3. BlocksAccounted'
    BY <1>3 DEF CloseSocket, BlocksAccounted, InHand
  <2>4. (Places /\ Owned /\ Bound)'
    BY <1>3 DEF CloseSocket, TypeOK, Places, Owned, Bound, Fresh, Holding, Serving, Close
  <2>5. (Fresh /\ StatusHolds /\ Tested)'
    BY <1>3 DEF CloseSocket, TypeOK, Places, Owned, Fresh, StatusHolds, Tested, Holding, Close
  <2>. QED  BY <2>2, <2>3, <2>4, <2>5
<1>4. CASE EndConnection(l)
  <2>2. TypeOK'
    BY <1>4 DEF EndConnection, TypeOK
  <2>3. BlocksAccounted'
    BY <1>4 DEF EndConnection, BlocksAccounted, InHand
  <2>4. (Places /\ Owned /\ Bound)'
    BY <1>4 DEF EndConnection, TypeOK, Places, Owned, Bound, Fresh, Holding, Serving
  <2>5. (Fresh /\ StatusHolds /\ Tested)'
    BY <1>4 DEF EndConnection, TypeOK, Places, Owned, Fresh, StatusHolds, Tested, Holding
  <2>. QED  BY <2>2, <2>3, <2>4, <2>5
<1>. QED  BY <1>1, <1>2, <1>3, <1>4

\* The tasks that post messages and those that send them.
LEMMA MessagesKeepInv ==
  ASSUME TcpInv, NEW l \in Link, Post(l) \/ Sender(l)
  PROVE  TcpInv'
<1> USE BoundsAreNumbers DEF Link, TcpInv, connection, message, NoFd, Goto
<1>1. CASE Post(l)
  <2>1. TypeOK' /\ BlocksAccounted'
    BY <1>1 DEF Post, TypeOK, BlocksAccounted, InHand, QueueFull
  <2>2. (Places /\ Owned /\ Bound)'
    BY <1>1 DEF Post, Places, Owned, Bound, Holding, Serving
  <2>3. (Fresh /\ StatusHolds /\ Tested)'
    BY <1>1 DEF Post, TypeOK, Fresh, StatusHolds, Tested
  <2>. QED  BY <2>1, <2>2, <2>3
<1>2. CASE SendTest(l)
  <2>1. TypeOK' /\ BlocksAccounted'
    BY <1>2 DEF SendTest, TypeOK, BlocksAccounted, InHand
  <2>2. (Places /\ Owned /\ Bound)'
    BY <1>2 DEF SendTest, Places, Owned, Bound, Holding, Serving
  <2>3. (Fresh /\ StatusHolds /\ Tested)'
    BY <1>2 DEF SendTest, TypeOK, Fresh, StatusHolds, Tested
  <2>. QED  BY <2>1, <2>2, <2>3
<1>3. CASE Send(l)
  <2>1. TypeOK' /\ BlocksAccounted'
    BY <1>3 DEF Send, TypeOK, BlocksAccounted, InHand
  <2>2. (Places /\ Owned /\ Bound)'
    BY <1>3 DEF Send, Places, Owned, Bound, Holding, Serving
  <2>3. (Fresh /\ StatusHolds /\ Tested)'
    BY <1>3 DEF Send, TypeOK, Fresh, StatusHolds, Tested
  <2>. QED  BY <2>1, <2>2, <2>3
<1>4. CASE SendFree(l)
  <2>1. TypeOK' /\ BlocksAccounted'
    BY <1>4 DEF SendFree, TypeOK, BlocksAccounted, InHand
  <2>2. (Places /\ Owned /\ Bound)'
    BY <1>4 DEF SendFree, Places, Owned, Bound, Holding, Serving
  <2>3. (Fresh /\ StatusHolds /\ Tested)'
    BY <1>4 DEF SendFree, TypeOK, Fresh, StatusHolds, Tested
  <2>. QED  BY <2>1, <2>2, <2>3
<1>. QED  BY <1>1, <1>2, <1>3, <1>4 DEF Sender

-----------------------------------------------------------------------------
(***************************************************************************)
(* The theorems.                                                           *)
(***************************************************************************)

\* Every step of the system preserves the invariant.
LEMMA TcpInvStep == TcpInv /\ [Next]_vars => TcpInv'
<1> SUFFICES ASSUME TcpInv, [Next]_vars PROVE TcpInv'
  OBVIOUS
<1>1. CASE UNCHANGED vars
  <2>1. TypeOK' /\ BlocksAccounted'
    BY <1>1 DEF TcpInv, vars, connection, message, TypeOK, BlocksAccounted, InHand
  <2>2. (Places /\ Owned /\ Bound /\ Fresh /\ StatusHolds /\ Tested)'
    BY <1>1 DEF TcpInv, vars, connection, message, Places, Owned, Bound, Fresh,
                StatusHolds, Tested, Holding, Serving
  <2>. QED  BY <2>1, <2>2 DEF TcpInv
<1>2. CASE LinkDown \/ LinkUp \/ OtherOpen \/ OtherClose
  BY <1>2, WorldKeepsInv
<1>3. ASSUME NEW l \in Link, HangUp(l) \/ Post(l) \/ Listener(l) \/ Sender(l)
      PROVE  TcpInv'
  <2>1. CASE HangUp(l)
    BY <2>1, WorldKeepsInv
  <2>2. CASE Post(l) \/ Sender(l)
    BY <2>2, MessagesKeepInv
  <2>3. CASE Listener(l)
    BY <2>3, ServerKeepsInv, ClientKeepsInv, ConnectionKeepsInv DEF Listener
  <2>. QED  BY <1>3, <2>1, <2>2, <2>3
<1>. QED  BY <1>1, <1>2, <1>3 DEF Next

\* The invariant implies the properties the run checks.
LEMMA TcpInvImplies == TcpInv => TypeOK /\ BlocksAccounted /\ SocketsOwned /\ SentToPeer
<1> SUFFICES ASSUME TcpInv PROVE SocketsOwned /\ SentToPeer
  BY DEF TcpInv
<1>1. ASSUME NEW l \in Link
      PROVE  {d \in Socket : sock[d] = l} = IF Holding(l) THEN {fd[l]} ELSE {}
  BY DEF TcpInv, Owned
<1>2. Serving => {d \in Socket : sock[d] = "bound"} = {listenFd}
  BY DEF TcpInv, Bound
<1>3. ASSUME NEW l \in Link, spc[l] = "send", ~raced[l]
      PROVE  fd[l] \in Socket /\ sock[fd[l]] = l
  BY <1>3 DEF TcpInv, Owned, Tested, Holding
<1>. QED  BY <1>1, <1>2, <1>3 DEF SocketsOwned, SentToPeer

\* The invariant holds in every reachable state.
LEMMA TcpInvHolds == Spec => []TcpInv
BY TcpInvInit, TcpInvStep, PTL DEF Spec

\* Every variable keeps its type: no descriptor outside the socket table, no
\* queue above its limit, no block more than the pool has.
THEOREM LinksTypeCorrect == Spec => []TypeOK
BY TcpInvHolds, TcpInvImplies, PTL

\* A listener that has a connection owns its socket and no other, one that has
\* none owns none, and the listening socket is in place while the server
\* accepts: no close hits a socket that has been given to someone else.
THEOREM ListenersOwnTheirSockets == Spec => []SocketsOwned
BY TcpInvHolds, TcpInvImplies, PTL

\* A sender that has found the link connected writes to its own connection,
\* unless the listener has closed it in between or not yet changed the status.
THEOREM SendersWriteToTheirPeer == Spec => []SentToPeer
BY TcpInvHolds, TcpInvImplies, PTL

\* No block of the pool is lost but by a failed post.
THEOREM NoBlockLostOtherwise == Spec => []BlocksAccounted
BY TcpInvHolds, TcpInvImplies, PTL
=============================================================================
