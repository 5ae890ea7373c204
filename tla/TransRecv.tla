----------------------------- MODULE TransRecv ------------------------------
(***************************************************************************)
(* The receiving half of the serial protocol of application/serialcomm:    *)
(* ProcessRecvData and OnRecvFrame of layer 2 (TransL2S.c) over the bytes  *)
(* that layer 1's interrupt puts in the FIFO, and the answer layer 3       *)
(* (Tranceiver.c) queues, for all the ports of the logger.                 *)
(*                                                                         *)
(* The ports have a task each (PC: priority 7, UI: 10) and share one       *)
(* variable: the length of the data still to come, u16DLen, is a static    *)
(* local of ProcessRecvData.                                               *)
(*                                                                         *)
(* Data frames of a port are numbered from 1 in the order in which its     *)
(* peer first sends them; 0 is a command frame, which has no data.  A      *)
(* frame on the line is a preamble, the rest of its header, its data.  The *)
(* checksums are modelled by what they tell apart: a header is right if    *)
(* its bytes are those of one frame, data if they are the frame's.         *)
(*                                                                         *)
(* The peer is external: it sends a data frame until its ACK has come or   *)
(* it gives up, one at a time, as Trans does with one frame outstanding.   *)
(***************************************************************************)
EXTENDS Integers, Sequences

CONSTANTS
  Port,
  LastFrame,   \* of each port: how many data frames its peer has
  DataLen,     \* of each frame number: its dlen
  Hdr,         \* SFRM_HDR_SIZE
  MaxDLen,     \* SFRM_MAX_DLEN
  FifoSize,    \* the bytes the layer-1 FIFO holds
  SeqMod,      \* 2^8: sequence numbers are of type uint8_t
  Patient,     \* ports whose peer sends again only after the receiver has run,
               \* and as long as it takes
  MaxTries,    \* bound: transmissions of a frame by the other peers
  MaxCmds,     \* bound: command frames of each peer
  MaxAnswers,  \* bound: ACKs on their way when a patient peer sends
  MaxFaults    \* bound: bytes and ACKs lost on the line, restarts of the logger

ASSUME RecvConstants ==
  /\ LastFrame \in [Port -> Nat] /\ Patient \subseteq Port
  /\ MaxDLen \in Nat
  /\ \A n \in DOMAIN DataLen : DataLen[n] \in 1 .. MaxDLen
  /\ \A p \in Port : 1 .. LastFrame[p] \subseteq DOMAIN DataLen
  /\ Hdr \in Nat /\ Hdr > 1
  /\ FifoSize \in Nat /\ 2 * Hdr + MaxDLen <= FifoSize + 1
  /\ SeqMod \in Nat \ {0}
  /\ MaxCmds \in [Port -> Nat]
  /\ {MaxAnswers, MaxTries, MaxFaults} \subseteq Nat

VARIABLES
  line,      \* the bytes of the frame on the line that have not arrived
  fifo,      \* sRecvFIFO
  recvCount, \* u16RecvCount: 0, or the bytes of the frame received so far
  hdr,       \* the frame whose header is in frmRecv
  data,      \* the data part of frmRecv, stale bytes included
  dlen,      \* u16DLen, shared
  pc,        \* where a task is: at the loop, after the assignment of u16DLen,
             \* in OnRecvFrame
  seqRemote, \* u8SeqRemote
  answers,   \* the sequence numbers of the ACKs on their way to the peer, in order
  current,   \* the frame the peer is sending
  tries,     \* how often it has sent it
  cmds,      \* command frames the peer has sent
  acked,     \* history: frames the peer has an ACK for
  delivered, \* history: frames handed to the application
  last,      \* history: the last of them since the logger started
  again,     \* history: a frame was not newer than the last one delivered
  faults,
  booted     \* history: the logger has started again

peer == <<current, tries, cmds, acked>>
receiver == <<recvCount, hdr, data, pc>>
app == <<delivered, last, again>>
vars == <<line, fifo, receiver, dlen, seqRemote, answers, peer, app, faults, booted>>

Preamble == [frame |-> 0, at |-> 1]
Byte(n, i) == [frame |-> n, at |-> i]
Len0(n) == IF n = 0 THEN 0 ELSE DataLen[n]
Bytes(n) == [i \in 1 .. Hdr + Len0(n) |-> IF i = 1 THEN Preamble ELSE Byte(n, i)]
Seq0(n) == (n - 1) % SeqMod
Frame(p) == 1 .. LastFrame[p]

\* A byte of no frame: noise, or a buffer never written.
Junk == [frame |-> 0, at |-> 0]

Init ==
  /\ line = [p \in Port |-> <<>>]
  /\ fifo = [p \in Port |-> <<>>]
  /\ recvCount = [p \in Port |-> 0]
  /\ hdr = [p \in Port |-> 0]
  /\ data = [p \in Port |-> [i \in 1 .. MaxDLen |-> Junk]]
  /\ dlen = 0
  /\ pc = [p \in Port |-> "loop"]
  /\ seqRemote = [p \in Port |-> SeqMod - 1]
  /\ answers = [p \in Port |-> <<>>]
  /\ current = [p \in Port |-> 1]
  /\ tries = [p \in Port |-> 0]
  /\ cmds = [p \in Port |-> 0]
  /\ acked = [p \in Port |-> {}]
  /\ delivered = [p \in Port |-> {}]
  /\ last = [p \in Port |-> 0]
  /\ again = FALSE
  /\ faults = 0 /\ booted = FALSE

\* The task of p waits for bytes.
Waiting(p) ==
  /\ pc[p] = "loop"
  /\ IF recvCount[p] = 0 THEN Len(fifo[p]) < Hdr ELSE fifo[p] = <<>>

(***************************************************************************)
(* The peer and the line.                                                  *)
(***************************************************************************)
PeerSend(p) ==
  /\ line[p] = <<>>
  /\ current[p] \in Frame(p)
  /\ IF p \in Patient
       THEN Waiting(p) /\ Len(answers[p]) < MaxAnswers /\ UNCHANGED tries
       ELSE tries[p] < MaxTries /\ tries' = [tries EXCEPT ![p] = @ + 1]
  /\ line' = [line EXCEPT ![p] = Bytes(current[p])]
  /\ UNCHANGED <<fifo, receiver, dlen, seqRemote, answers, current, cmds, acked,
                 app, faults, booted>>

PeerGiveUp(p) ==
  /\ p \notin Patient
  /\ tries[p] = MaxTries /\ current[p] \in Frame(p)
  /\ current' = [current EXCEPT ![p] = @ + 1]
  /\ tries' = [tries EXCEPT ![p] = 0]
  /\ UNCHANGED <<line, fifo, receiver, dlen, seqRemote, answers, cmds, acked,
                 app, faults, booted>>

\* The ACK of a frame that the logger has sent (see Trans).
PeerSendCmd(p) ==
  /\ line[p] = <<>>
  /\ cmds[p] < MaxCmds[p]
  /\ line' = [line EXCEPT ![p] = Bytes(0)]
  /\ cmds' = [cmds EXCEPT ![p] = @ + 1]
  /\ UNCHANGED <<fifo, receiver, dlen, seqRemote, answers, current, tries, acked,
                 app, faults, booted>>

PeerAck(p) ==
  /\ answers[p] # <<>>
  /\ answers' = [answers EXCEPT ![p] = Tail(@)]
  /\ IF current[p] \in Frame(p) /\ Seq0(current[p]) = Head(answers[p])
       THEN /\ acked' = [acked EXCEPT ![p] = @ \cup {current[p]}]
            /\ current' = [current EXCEPT ![p] = @ + 1]
            /\ tries' = [tries EXCEPT ![p] = 0]
       ELSE UNCHANGED <<acked, current, tries>>
  /\ UNCHANGED <<line, fifo, receiver, dlen, seqRemote, cmds, app, faults, booted>>

LoseAck(p) ==
  /\ answers[p] # <<>>
  /\ faults < MaxFaults
  /\ faults' = faults + 1
  /\ answers' = [answers EXCEPT ![p] = Tail(@)]
  /\ UNCHANGED <<line, fifo, receiver, dlen, seqRemote, peer, app, booted>>

\* Layer 1's receive interrupt: a byte that finds the FIFO full is dropped.
Put(p, b) ==
  fifo' = IF Len(fifo[p]) < FifoSize THEN [fifo EXCEPT ![p] = Append(@, b)] ELSE fifo

Arrive(p) ==
  /\ line[p] # <<>>
  /\ line' = [line EXCEPT ![p] = Tail(@)]
  /\ Put(p, Head(line[p]))
  /\ UNCHANGED <<receiver, dlen, seqRemote, answers, peer, app, faults, booted>>

\* The byte is lost on the line, or arrives as another one.
Garble(p) ==
  /\ line[p] # <<>>
  /\ faults < MaxFaults
  /\ faults' = faults + 1
  /\ line' = [line EXCEPT ![p] = Tail(@)]
  /\ Put(p, Junk) \/ UNCHANGED fifo
  /\ UNCHANGED <<receiver, dlen, seqRemote, answers, peer, app, booted>>

(***************************************************************************)
(* ProcessRecvData, one round of its loop per action.                      *)
(***************************************************************************)
Seeking(p) == pc[p] = "loop" /\ recvCount[p] = 0 /\ Len(fifo[p]) >= Hdr

Consume(p, n) == fifo' = [fifo EXCEPT ![p] = SubSeq(@, n + 1, Len(@))]

RightHeader(p) ==
  \A i \in 2 .. Hdr : fifo[p][i] = Byte(fifo[p][2].frame, i)

\* Not a preamble; or a preamble with a wrong header behind it, which is
\* rewound, so that only the preamble is consumed.
Seek(p) ==
  /\ Seeking(p)
  /\ Head(fifo[p]) # Preamble \/ ~RightHeader(p)
  /\ Consume(p, 1)
  /\ UNCHANGED <<line, receiver, dlen, seqRemote, answers, peer, app, faults, booted>>

Header(p) ==
  /\ Seeking(p)
  /\ Head(fifo[p]) = Preamble /\ RightHeader(p)
  /\ Consume(p, Hdr)
  /\ hdr' = [hdr EXCEPT ![p] = fifo[p][2].frame]
  /\ dlen' = Len0(fifo[p][2].frame)
  /\ pc' = [pc EXCEPT ![p] = "length"]
  /\ UNCHANGED <<line, recvCount, data, seqRemote, answers, peer, app, faults, booted>>

\* u16DLen is read back: the task of the other port may have written it.
TestLength(p) ==
  /\ pc[p] = "length"
  /\ IF dlen # 0
       THEN /\ recvCount' = [recvCount EXCEPT ![p] = Hdr]
            /\ pc' = [pc EXCEPT ![p] = "loop"]
       ELSE /\ pc' = [pc EXCEPT ![p] = "frame"]
            /\ UNCHANGED recvCount
  /\ UNCHANGED <<line, fifo, hdr, data, dlen, seqRemote, answers, peer, app, faults, booted>>

\* Mutant of MoreAfter: one byte too many is awaited.
MoreAfterLate(k) == k <= dlen
MoreAfter(k) == k < dlen

\* Mutant of Ended: u16RecvCount is not reset.
EndedKeeps(p) == recvCount' = recvCount
Ended(p) == recvCount' = [recvCount EXCEPT ![p] = 0]

RecvByte(p) ==
  /\ pc[p] = "loop" /\ recvCount[p] # 0 /\ fifo[p] # <<>>
  /\ LET k == recvCount[p] - Hdr + 1
     IN  /\ data' = IF k <= MaxDLen THEN [data EXCEPT ![p][k] = Head(fifo[p])] ELSE data
         /\ IF MoreAfter(k)
              THEN /\ recvCount' = [recvCount EXCEPT ![p] = @ + 1]
                   /\ UNCHANGED pc
              ELSE /\ Ended(p)
                   /\ pc' = [pc EXCEPT ![p] = "frame"]
  /\ Consume(p, 1)
  /\ UNCHANGED <<line, hdr, dlen, seqRemote, answers, peer, app, faults, booted>>

(***************************************************************************)
(* OnRecvFrame.  The NACK that may be queued for wrong data carries the    *)
(* number of the last frame accepted, which tells the peer nothing: it is  *)
(* left out.                                                               *)
(***************************************************************************)
RightData(p) ==
  \A i \in 1 .. Len0(hdr[p]) : data[p][i] = Byte(hdr[p], Hdr + i)

\* Mutant of WrongFrame: a frame with wrong data is acknowledged.
WrongFrameAcks(p) ==
  /\ pc[p] = "frame" /\ ~RightData(p)
  /\ pc' = [pc EXCEPT ![p] = "loop"]
  /\ fifo' = [fifo EXCEPT ![p] = <<>>]
  /\ answers' = [answers EXCEPT ![p] = Append(@, Seq0(hdr[p]))]
  /\ UNCHANGED <<line, recvCount, hdr, data, dlen, seqRemote, peer, app, faults, booted>>

\* Wrong data: all that has arrived meanwhile is thrown away.
WrongFrame(p) ==
  /\ pc[p] = "frame" /\ ~RightData(p)
  /\ pc' = [pc EXCEPT ![p] = "loop"]
  /\ fifo' = [fifo EXCEPT ![p] = <<>>]
  /\ UNCHANGED <<line, recvCount, hdr, data, dlen, seqRemote, answers, peer, app,
                 faults, booted>>

CmdFrame(p) ==
  /\ pc[p] = "frame" /\ hdr[p] = 0
  /\ pc' = [pc EXCEPT ![p] = "loop"]
  /\ UNCHANGED <<line, fifo, recvCount, hdr, data, dlen, seqRemote, answers, peer,
                 app, faults, booted>>

\* Mutant of Repeated: bCheckSeqNum is off.
RepeatedNever(p, n) == FALSE
Repeated(p, n) == Seq0(n) = seqRemote[p]

\* The frame goes to the application unless it is a repetition, and is
\* acknowledged in both cases.  The buffer goes with it: the next one is junk.
DataFrame(p) ==
  /\ pc[p] = "frame" /\ hdr[p] # 0 /\ RightData(p)
  /\ pc' = [pc EXCEPT ![p] = "loop"]
  /\ LET n == hdr[p]
     IN  /\ IF ~Repeated(p, n)
              THEN /\ seqRemote' = [seqRemote EXCEPT ![p] = Seq0(n)]
                   /\ delivered' = [delivered EXCEPT ![p] = @ \cup {n}]
                   /\ last' = [last EXCEPT ![p] = n]
                   /\ again' = (again \/ n <= last[p])
                   /\ data' = [data EXCEPT ![p] = [i \in 1 .. MaxDLen |-> Junk]]
              ELSE UNCHANGED <<seqRemote, app, data>>
         /\ answers' = [answers EXCEPT ![p] = Append(@, Seq0(n))]
  /\ UNCHANGED <<line, fifo, recvCount, hdr, dlen, peer, faults, booted>>

Boot ==
  /\ faults < MaxFaults
  /\ faults' = faults + 1
  /\ booted' = TRUE
  /\ fifo' = [p \in Port |-> <<>>]
  /\ recvCount' = [p \in Port |-> 0]
  /\ hdr' = [p \in Port |-> 0]
  /\ data' = [p \in Port |-> [i \in 1 .. MaxDLen |-> Junk]]
  /\ dlen' = 0
  /\ pc' = [p \in Port |-> "loop"]
  /\ seqRemote' = [p \in Port |-> SeqMod - 1]
  /\ last' = [p \in Port |-> 0]
  /\ UNCHANGED <<line, answers, peer, delivered, again>>

RecvTask(p) ==
  \/ Seek(p) \/ Header(p) \/ TestLength(p) \/ RecvByte(p)
  \/ WrongFrame(p) \/ CmdFrame(p) \/ DataFrame(p)

Next ==
  \/ \E p \in Port :
       \/ PeerSend(p) \/ PeerGiveUp(p) \/ PeerSendCmd(p)
       \/ PeerAck(p) \/ LoseAck(p) \/ Arrive(p) \/ Garble(p)
       \/ RecvTask(p)
  \/ Boot

Spec == Init /\ [][Next]_vars

\* The receive tasks run: their semaphore is posted every 10 ms.  What is on
\* the line of a patient peer arrives; it reads its ACKs and sends again.
FairSpec ==
  /\ Spec
  /\ \A p \in Port : WF_vars(RecvTask(p))
  /\ \A p \in Patient :
       WF_vars(Arrive(p)) /\ WF_vars(PeerAck(p)) /\ WF_vars(PeerSend(p))

-----------------------------------------------------------------------------
(***************************************************************************)
(* The type of the variables.                                              *)
(***************************************************************************)
AnyByte ==
  {Preamble, Junk} \cup
  UNION {{Byte(n, i) : i \in 2 .. Hdr + Len0(n)} : n \in {0} \cup DOMAIN DataLen}

TypeOK ==
  /\ line \in [Port -> Seq(AnyByte)]
  /\ fifo \in [Port -> Seq(AnyByte)]
  /\ \A p \in Port : Len(fifo[p]) <= FifoSize
  /\ recvCount \in [Port -> {0} \cup Hdr .. Hdr + MaxDLen - 1]
  /\ hdr \in [Port -> {0} \cup DOMAIN DataLen]
  /\ data \in [Port -> [1 .. MaxDLen -> AnyByte]]
  /\ dlen \in 0 .. MaxDLen
  /\ pc \in [Port -> {"loop", "length", "frame"}]
  /\ seqRemote \in [Port -> 0 .. SeqMod - 1]
  /\ answers \in [Port -> Seq(0 .. SeqMod - 1)]
  /\ \A p \in Port :
       /\ current[p] \in 1 .. LastFrame[p] + 1
       /\ acked[p] \subseteq Frame(p)
       /\ delivered[p] \subseteq Frame(p)
       /\ last[p] \in {0} \cup Frame(p)
  /\ tries \in [Port -> 0 .. MaxTries]
  /\ \A p \in Port : cmds[p] \in 0 .. MaxCmds[p]
  /\ again \in BOOLEAN
  /\ faults \in 0 .. MaxFaults /\ booted \in BOOLEAN

(***************************************************************************)
(* OnRecvFrame compares the sequence number with that of the last frame    *)
(* accepted: between two starts of the logger the application gets the     *)
(* frames of a peer that awaits each ACK in their order and none of them   *)
(* twice, whatever is lost, cut short or swallowed.                        *)
(***************************************************************************)
DeliveredInOrder == ~again

(***************************************************************************)
(* A frame the peer has an ACK for has been handed to the application.     *)
(* The exception is the code's: u8SeqRemote starts as 0xFF, so that a      *)
(* frame of that number is acknowledged and dropped if it is the first     *)
(* that comes after a start.                                               *)
(***************************************************************************)
DroppedAtStart(n) == booted /\ Seq0(n) = SeqMod - 1

AckMeansDelivered ==
  \A p \in Port : \A n \in acked[p] : n \in delivered[p] \/ DroppedAtStart(n)

(***************************************************************************)
(* The receiver has no timeout between bytes: a frame cut short leaves it  *)
(* waiting for data, and u16DLen may be that of the other port.  It finds  *)
(* its way back all the same: once the line loses nothing more, every      *)
(* frame that a patient peer sends reaches the application.                *)
(***************************************************************************)
Resynchronises ==
  <>(\A p \in Patient : \A n \in Frame(p) : n \in delivered[p] \/ DroppedAtStart(n))
=============================================================================
