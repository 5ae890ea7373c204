------------------------------- MODULE Trans --------------------------------
(***************************************************************************)
(* The sending half of the serial protocol of application/serialcomm: the  *)
(* queues and retransmissions of layer 3 (Tranceiver.c), the send state    *)
(* machine of layer 2 (TransL2S.c) and the transmitter of layer 1          *)
(* (TransL1V1.c), for one port (PC or UI).                                 *)
(*                                                                         *)
(* Four actors share a port.  Any task may call Trans_Send.  The port's    *)
(* communication task runs Trans_Task whenever its semaphore is posted:    *)
(* receive one frame, then send.  The transmit interrupt ends a            *)
(* transmission.  The kernel's timer task runs the callbacks of the update *)
(* timer and of the L1 timeout timer.  Its priority (16) is below the      *)
(* communication task's (7, 10): it runs while that task pends, waits for  *)
(* the kernel's timer mutex, or blocks in the application's callback.  The *)
(* kernel calls each callback with the scheduler locked                    *)
(* (os_tmr.c:1011-1029): no task runs in the middle of one, and the        *)
(* transmit interrupt that does has the effect it has before or after it.  *)
(*                                                                         *)
(* A frame is the buffer (SMem) that carries it from Trans_Send, which     *)
(* allocates it, to the one Mem_Free that should end it.  Its u8SeqLocal   *)
(* number names it: fewer than 256 are outstanding.                        *)
(***************************************************************************)
EXTENDS Integers, Sequences

CONSTANTS
  Frame,       \* the data frames the application hands to Trans_Send
  AckReq,      \* those sent with the ACK-request bit
  Cmd,         \* buffers for command frames (ACK, NACK)
  None,
  MaxNumSend,  \* TRANS_MAX_NUM_SEND
  TimeOutTick, \* TRANS_TIMEOUT_TICK
  NumSendMod,  \* 2^8: u8NumSend is a uint8_t
  MaxInbox,    \* bound: frames of the peer waiting to be received
  Nacks,       \* TRUE: the peer may answer NACK
  L1Timeout    \* TRUE: the L1 timeout timer may expire

ASSUME FrameAssumption ==
  AckReq \subseteq Frame /\ Frame \cap Cmd = {} /\ None \notin Frame \cup Cmd
ASSUME LimitAssumption ==
  /\ MaxNumSend \in Nat \ {0} /\ TimeOutTick \in Nat \ {0}
  /\ NumSendMod \in Nat /\ MaxNumSend < NumSendMod
  /\ MaxInbox \in Nat /\ Nacks \in BOOLEAN /\ L1Timeout \in BOOLEAN

Buffer == Frame \cup Cmd

VARIABLES
  dataQ, cmdQ, sentQ,  \* qSendingData, qSendingCMD, qSentQueue
  numSend,             \* u8NumSend of each buffer
  timeOut,             \* i16TimeOut of each buffer
  mem,                 \* sMemSend: the frame layer 2 is sending, or sent last
  bSending, bL1Sending, bWaitingL1Send,   \* the flags of layer 2
  l1Busy,              \* bSending of layer 1, and the driver's isTxBusy
  wire,                \* the frame the transmitter is reading
  update,              \* bUpdateWaitingACKFrameState
  l1Timer,             \* the L1 timeout timer is running
  pc,                  \* where the communication task is in Trans_Task
  inbox,               \* frames from the peer, received and not processed
  free,                \* buffers not yet allocated, or freed
  refreed,             \* history: a buffer has been freed twice
  tried,               \* history: frames handed to Trans_Send
  acked,               \* history: frames an ACK of the peer has removed
  sends,               \* history: transmissions of each frame, up to MaxNumSend + 1
  expired              \* history: buffers the L1 timeout has taken from layer 2

queues == <<dataQ, cmdQ, sentQ>>
frames == <<numSend, timeOut>>
flags == <<bSending, bL1Sending, bWaitingL1Send>>
l1 == <<l1Busy, wire>>
memory == <<free, refreed>>
vars == <<dataQ, cmdQ, sentQ, numSend, timeOut, mem, bSending, bL1Sending,
          bWaitingL1Send, l1Busy, wire, update, l1Timer, pc, inbox,
          free, refreed, tried, acked, sends, expired>>

Elems(s) == {s[i] : i \in DOMAIN s}
Without(s, S) ==
  LET kept[i \in 0 .. Len(s)] ==
        IF i = 0 THEN <<>>
        ELSE IF s[i] \in S THEN kept[i - 1] ELSE Append(kept[i - 1], s[i])
  IN  kept[Len(s)]
FirstIn(S) == CHOOSE i \in S : \A j \in S : i <= j

\* Mem_Free: the allocator does not notice a second free of a buffer.
MemFree(S) ==
  /\ free' = free \cup S
  /\ refreed' = (refreed \/ S \cap free # {})

Init ==
  /\ dataQ = <<>> /\ cmdQ = <<>> /\ sentQ = <<>>
  /\ numSend = [b \in Buffer |-> 0]
  /\ timeOut = [b \in Buffer |-> 0]
  /\ mem = None
  /\ bSending = FALSE /\ bL1Sending = FALSE /\ bWaitingL1Send = FALSE
  /\ l1Busy = FALSE /\ wire = None
  /\ update = FALSE /\ l1Timer = FALSE
  /\ pc = "pend"
  /\ inbox = <<>>
  /\ free = Buffer /\ refreed = FALSE
  /\ tried = {} /\ acked = {}
  /\ sends = [f \in Frame |-> 0]
  /\ expired = {}

(***************************************************************************)
(* Trans_send: a buffer is allocated and queued.  Without memory it only   *)
(* returns FALSE.                                                          *)
(***************************************************************************)
Submit(f) ==
  /\ f \notin tried
  /\ tried' = tried \cup {f}
  /\ free' = free \ {f}
  /\ numSend' = [numSend EXCEPT ![f] = MaxNumSend]
  /\ timeOut' = [timeOut EXCEPT ![f] = TimeOutTick]
  /\ dataQ' = Append(dataQ, f)
  /\ UNCHANGED <<cmdQ, sentQ, mem, flags, l1, update, l1Timer, pc, inbox,
                 refreed, acked, sends, expired>>

(***************************************************************************)
(* The peer (external): it answers a frame that asked for an ACK, or sends *)
(* a frame of its own that asks for one.  A NACK names the last frame the  *)
(* peer accepted (Trans_send stamps u8SeqRemote), whichever that is.       *)
(***************************************************************************)
PeerData ==
  /\ Len(inbox) < MaxInbox
  /\ inbox' = Append(inbox, [type |-> "data"])
  /\ UNCHANGED <<queues, frames, mem, flags, l1, update, l1Timer, pc,
                 memory, tried, acked, sends, expired>>

PeerNack(f) ==
  /\ Nacks
  /\ Len(inbox) < MaxInbox
  /\ f \in AckReq /\ sends[f] > 0
  /\ inbox' = Append(inbox, [type |-> "nack", seq |-> f])
  /\ UNCHANGED <<queues, frames, mem, flags, l1, update, l1Timer, pc,
                 memory, tried, acked, sends, expired>>

\* Mutant of TxDone: layer 2 is not told.
TxDoneSilent(answered) ==
  /\ wire # None
  /\ wire' = None
  /\ l1Busy' = FALSE
  /\ UNCHANGED <<queues, frames, mem, flags, update, l1Timer, pc, inbox,
                 memory, tried, acked, sends, expired>>

(***************************************************************************)
(* The transmit interrupt, last byte of a frame: TransL1_TX_Interrupt_     *)
(* Handle and Clb_L1SendDone.  The frame reaches the peer or is lost; the  *)
(* peer's ACK comes back or not.                                           *)
(***************************************************************************)
TxDone(answered) ==
  /\ wire # None
  /\ answered => wire \in AckReq /\ Len(inbox) < MaxInbox
  /\ wire' = None
  /\ l1Busy' = FALSE
  /\ bL1Sending' = FALSE
  /\ l1Timer' = FALSE
  /\ inbox' = IF answered THEN Append(inbox, [type |-> "ack", seq |-> wire]) ELSE inbox
  /\ UNCHANGED <<queues, frames, mem, bSending, bWaitingL1Send, update, pc,
                 memory, tried, acked, sends, expired>>

(***************************************************************************)
(* Trans_RecvTask: at most one frame is processed per call.                *)
(***************************************************************************)
RecvNothing ==
  /\ pc = "pend"
  /\ pc' = "update"
  /\ UNCHANGED <<queues, frames, mem, flags, l1, update, l1Timer, inbox,
                 memory, tried, acked, sends, expired>>

Receive(type) ==
  /\ pc = "pend"
  /\ inbox # <<>> /\ Head(inbox).type = type
  /\ inbox' = Tail(inbox)
  /\ pc' = "update"

RecvAck ==
  /\ Receive("ack")
  /\ LET f == Head(inbox).seq
     IN  IF f \in Elems(sentQ)
           THEN /\ sentQ' = Without(sentQ, {f})
                /\ MemFree({f})
                /\ acked' = acked \cup {f}
           ELSE UNCHANGED <<sentQ, memory, acked>>
  /\ UNCHANGED <<dataQ, cmdQ, frames, mem, flags, l1, update, l1Timer,
                 tried, sends, expired>>

\* Mutant of RecvNack: the frame is read from the sent queue, not removed.
RecvNackReads ==
  /\ Receive("nack")
  /\ LET f == Head(inbox).seq
     IN  IF f \in Elems(sentQ)
           THEN /\ dataQ' = Append(dataQ, f)
                /\ timeOut' = [timeOut EXCEPT ![f] = TimeOutTick]
           ELSE UNCHANGED <<dataQ, timeOut>>
  /\ UNCHANGED <<sentQ, cmdQ, numSend, mem, flags, l1, update, l1Timer,
                 memory, tried, acked, sends, expired>>

RecvNack ==
  /\ Receive("nack")
  /\ LET f == Head(inbox).seq
     IN  IF f \in Elems(sentQ)
           THEN /\ sentQ' = Without(sentQ, {f})
                /\ dataQ' = Append(dataQ, f)
                /\ timeOut' = [timeOut EXCEPT ![f] = TimeOutTick]
           ELSE UNCHANGED <<sentQ, dataQ, timeOut>>
  /\ UNCHANGED <<cmdQ, numSend, mem, flags, l1, update, l1Timer, memory,
                 tried, acked, sends, expired>>

\* A data frame of the peer: its ACK is queued, if there is a buffer for it.
RecvData ==
  /\ Receive("data")
  /\ \/ /\ Cmd \cap free = {}
        /\ UNCHANGED <<cmdQ, numSend, timeOut, free>>
     \/ \E c \in Cmd \cap free :
          /\ free' = free \ {c}
          /\ cmdQ' = Append(cmdQ, c)
          /\ numSend' = [numSend EXCEPT ![c] = MaxNumSend]
          /\ timeOut' = [timeOut EXCEPT ![c] = TimeOutTick]
  /\ UNCHANGED <<dataQ, sentQ, mem, flags, l1, update, l1Timer, refreed,
                 tried, acked, sends, expired>>

(***************************************************************************)
(* Trans_CheckTimeOutOfSendedFrame.  The walk ends at the first frame that *)
(* it queues again: Queue_Push has set the pNext it would follow to NULL.  *)
(***************************************************************************)
Again(i) == timeOut[sentQ[i]] = 1 /\ numSend[sentQ[i]] > 0
\* Mutant of GivenUp: one transmission too early.
GivenUpEarly(i) == timeOut[sentQ[i]] = 1 /\ numSend[sentQ[i]] <= 1

GivenUp(i) == timeOut[sentQ[i]] = 1 /\ numSend[sentQ[i]] = 0

Walked == LET again == {i \in DOMAIN sentQ : Again(i)}
          IN  IF again = {} THEN DOMAIN sentQ ELSE 1 .. FirstIn(again)

UpdateWaiting ==
  /\ pc = "update"
  /\ pc' = "pick"
  /\ update' = FALSE
  /\ IF update
       THEN LET again == {sentQ[i] : i \in {j \in Walked : Again(j)}}
                dead  == {sentQ[i] : i \in {j \in Walked : GivenUp(j)}}
                left  == {sentQ[i] : i \in Walked}
            IN  /\ timeOut' = [b \in Buffer |->
                                 IF b \in again THEN TimeOutTick
                                 ELSE IF b \in left THEN timeOut[b] - 1
                                 ELSE timeOut[b]]
                /\ sentQ' = Without(sentQ, again \cup dead)
                /\ dataQ' = dataQ \o Without(sentQ, Buffer \ again)
                /\ MemFree(dead)
       ELSE UNCHANGED <<timeOut, sentQ, dataQ, memory>>
  /\ UNCHANGED <<cmdQ, numSend, mem, flags, l1, l1Timer, inbox,
                 tried, acked, sends, expired>>

(***************************************************************************)
(* Trans_SendTask and TransL2S_Send: command frames first.                 *)
(***************************************************************************)
\* Mutants of Take: the transmission is not counted; the count does not wrap.
TakeUncounted(b) ==
  /\ mem' = b
  /\ bSending' = TRUE /\ bL1Sending' = FALSE /\ bWaitingL1Send' = FALSE
  /\ UNCHANGED numSend

TakeSigned(b) ==
  /\ numSend' = [numSend EXCEPT ![b] = @ - 1]
  /\ mem' = b
  /\ bSending' = TRUE /\ bL1Sending' = FALSE /\ bWaitingL1Send' = FALSE

Take(b) ==
  /\ numSend' = [numSend EXCEPT ![b] = (@ - 1) % NumSendMod]
  /\ mem' = b
  /\ bSending' = TRUE
  /\ bL1Sending' = FALSE
  /\ bWaitingL1Send' = FALSE

Pick ==
  /\ pc = "pick"
  /\ pc' = "run"
  /\ \/ /\ ~bSending /\ cmdQ # <<>>
        /\ Take(Head(cmdQ))
        /\ cmdQ' = Tail(cmdQ)
        /\ UNCHANGED dataQ
     \/ /\ ~bSending /\ cmdQ = <<>> /\ dataQ # <<>>
        /\ Take(Head(dataQ))
        /\ dataQ' = Tail(dataQ)
        /\ UNCHANGED cmdQ
     \/ /\ bSending \/ (cmdQ = <<>> /\ dataQ = <<>>)
        /\ UNCHANGED <<dataQ, cmdQ, numSend, mem, flags>>
  /\ UNCHANGED <<sentQ, timeOut, l1, update, l1Timer, inbox, memory,
                 tried, acked, sends, expired>>

(***************************************************************************)
(* TransL2S_SendTask and RunSendFrame.                                     *)
(***************************************************************************)
RunIdle ==
  /\ pc = "run"
  /\ \/ ~bSending
     \/ bWaitingL1Send /\ bL1Sending
     \/ ~bWaitingL1Send /\ l1Busy
  /\ pc' = "pend"
  /\ UNCHANGED <<queues, frames, mem, flags, l1, update, l1Timer, inbox,
                 memory, tried, acked, sends, expired>>

\* TransL1_Send hands the buffer to the transmitter.  (Its failure return is
\* not reachable: layer 1's bSending covers the driver's isTxBusy.)
RunStart ==
  /\ pc = "run"
  /\ bSending /\ ~bWaitingL1Send /\ ~l1Busy
  /\ pc' = "timer"
  /\ bL1Sending' = TRUE /\ bWaitingL1Send' = TRUE
  /\ l1Busy' = TRUE /\ wire' = mem
  /\ sends' = IF mem \in Frame /\ sends[mem] <= MaxNumSend
                THEN [sends EXCEPT ![mem] = @ + 1] ELSE sends
  /\ UNCHANGED <<queues, frames, mem, bSending, update, l1Timer, inbox,
                 memory, tried, acked, expired>>

\* The L1 timeout timer is started after the transmission.
RunTimer ==
  /\ pc = "timer"
  /\ pc' = "pend"
  /\ l1Timer' = TRUE
  /\ UNCHANGED <<queues, frames, mem, flags, l1, update, inbox, memory,
                 tried, acked, sends, expired>>

\* Mutant of RunDone: it does not wait for layer 1.
RunDoneEarly ==
  /\ pc = "run"
  /\ bSending /\ bWaitingL1Send
  /\ pc' = "sent"
  /\ bSending' = FALSE /\ bWaitingL1Send' = FALSE
  /\ UNCHANGED <<queues, frames, mem, bL1Sending, l1, update, l1Timer,
                 inbox, memory, tried, acked, sends, expired>>

\* Layer 1 has finished: the flags are cleared, the application is called ...
RunDone ==
  /\ pc = "run"
  /\ bSending /\ bWaitingL1Send /\ ~bL1Sending
  /\ pc' = "sent"
  /\ bSending' = FALSE /\ bWaitingL1Send' = FALSE
  /\ UNCHANGED <<queues, frames, mem, bL1Sending, l1, update, l1Timer,
                 inbox, memory, tried, acked, sends, expired>>

\* ... and Clb_L2SendDone keeps a frame that awaits its ACK or frees it.
SendDone ==
  /\ pc = "sent"
  /\ pc' = "pend"
  /\ IF mem \in AckReq
       THEN sentQ' = Append(sentQ, mem) /\ UNCHANGED memory
       ELSE MemFree({mem}) /\ UNCHANGED sentQ
  /\ UNCHANGED <<dataQ, cmdQ, frames, mem, flags, l1, update, l1Timer,
                 inbox, tried, acked, sends, expired>>

(***************************************************************************)
(* The timer task: one callback after the other, Clb_UpdateTimer and       *)
(* Clb_L1TimeOutTimer.                                                     *)
(***************************************************************************)
TimerMayRun == pc \in {"pend", "timer", "sent"}

UpdateTick ==
  /\ TimerMayRun
  /\ ~update
  /\ update' = TRUE
  /\ UNCHANGED <<queues, frames, mem, flags, l1, l1Timer, pc, inbox,
                 memory, tried, acked, sends, expired>>

\* The frame layer 1 has not finished is taken from layer 2 and its buffer
\* freed: by TRANSL2_EVT_ERROR, which Clb_L2Error handles, or, for a command
\* frame, directly.  The transmitter is not told.
Expire ==
  /\ L1Timeout
  /\ TimerMayRun
  /\ l1Timer
  /\ l1Timer' = FALSE
  /\ IF bL1Sending
       THEN /\ bSending' = FALSE /\ bL1Sending' = FALSE /\ bWaitingL1Send' = FALSE
            /\ MemFree({mem})
            /\ expired' = expired \cup {mem}
       ELSE UNCHANGED <<flags, memory, expired>>
  /\ UNCHANGED <<queues, frames, mem, l1, update, pc, inbox, tried, acked, sends>>

CommTask ==
  \/ RecvNothing \/ RecvAck \/ RecvNack \/ RecvData
  \/ UpdateWaiting \/ Pick
  \/ RunIdle \/ RunStart \/ RunTimer \/ RunDone \/ SendDone

TimerTask == UpdateTick \/ Expire

Next ==
  \/ \E f \in Frame : Submit(f) \/ PeerNack(f)
  \/ PeerData
  \/ \E answered \in BOOLEAN : TxDone(answered)
  \/ CommTask
  \/ TimerTask

Spec == Init /\ [][Next]_vars

\* Each actor goes on with what it has begun: the transmitter ends a frame it
\* has started, and the timer task, which has the processor whenever the
\* communication task pends, calls Clb_UpdateTimer at every tick.  The semaphore
\* that Clb_UpdateTimer posts keeps the communication task running.  Nothing is
\* assumed of the peer, of the application, or of the L1 timeout.
FairSpec ==
  /\ Spec
  /\ WF_vars(CommTask)
  /\ SF_vars(UpdateTick)
  /\ WF_vars(\E answered \in BOOLEAN : TxDone(answered))

-----------------------------------------------------------------------------
(***************************************************************************)
(* The type of the variables.                                              *)
(***************************************************************************)
Message == [type : {"data"}] \cup [type : {"ack", "nack"}, seq : Frame]

TypeOK ==
  /\ dataQ \in Seq(Frame) /\ cmdQ \in Seq(Cmd) /\ sentQ \in Seq(AckReq)
  /\ numSend \in [Buffer -> 0 .. NumSendMod - 1]
  /\ timeOut \in [Buffer -> 0 .. TimeOutTick]
  /\ mem \in Buffer \cup {None}
  /\ {bSending, bL1Sending, bWaitingL1Send, l1Busy, update, l1Timer, refreed}
       \subseteq BOOLEAN
  /\ wire \in Buffer \cup {None}
  /\ pc \in {"pend", "update", "pick", "run", "timer", "sent"}
  /\ inbox \in Seq(Message) /\ Len(inbox) <= MaxInbox
  /\ free \in SUBSET Buffer
  /\ tried \in SUBSET Frame /\ acked \in SUBSET Frame
  /\ sends \in [Frame -> 0 .. MaxNumSend + 1]
  /\ expired \in SUBSET Buffer

(***************************************************************************)
(* Buffers have one owner: each is free, or in one queue, once, or in the  *)
(* hands of layer 2.  No buffer is freed twice and none is lost, whatever  *)
(* order ACKs, NACKs and both kinds of timeouts come in.                   *)
(***************************************************************************)
Sending == IF bSending \/ pc = "sent" THEN <<mem>> ELSE <<>>
Owned == dataQ \o cmdQ \o sentQ \o Sending

OneOwner ==
  /\ ~refreed
  /\ \A i, j \in DOMAIN Owned : Owned[i] = Owned[j] => i = j
  /\ \A b \in Buffer : b \in free <=> b \notin Elems(Owned)

(***************************************************************************)
(* The transmitter reads the buffer from its interrupt while the tasks go  *)
(* on: a buffer it reads is still the frame layer 2 is sending, neither    *)
(* freed nor queued again, unless the L1 timeout has taken it from layer 2 *)
(* under the transmitter.                                                  *)
(***************************************************************************)
WireOwned ==
  wire # None => wire \in expired \/ (bSending /\ wire = mem /\ wire \notin free)

(***************************************************************************)
(* Trans_CheckTimeOutOfSendedFrame and TransL2S_Send count together: a     *)
(* frame is transmitted TRANS_MAX_NUM_SEND times at most ...               *)
(***************************************************************************)
SendsBounded == \A f \in Frame : sends[f] <= MaxNumSend

(***************************************************************************)
(* ... and a frame that asks for an ACK is given up without one only after *)
(* that many transmissions; one that does not is transmitted once.  Only   *)
(* the L1 timeout takes a frame away before.                               *)
(***************************************************************************)
GivenUpLast ==
  \A f \in (tried \cap free) \ expired :
    IF f \in AckReq THEN f \in acked \/ sends[f] >= MaxNumSend ELSE sends[f] = 1

(***************************************************************************)
(* Every frame handed to Trans_Send is eventually confirmed or given up    *)
(* and its buffer freed, even if the peer never answers and the L1 timeout *)
(* strikes at any time.                                                    *)
(***************************************************************************)
SentOrGivenUp == \A f \in Frame : (f \in tried) ~> (f \in free)
=============================================================================
