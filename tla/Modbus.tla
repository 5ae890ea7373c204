------------------------------- MODULE Modbus -------------------------------
(***************************************************************************)
(* The Modbus master (application/modbus) and App_ModbusDoRead: the nodes  *)
(* are asked in turn, and the answer to a request is whatever is in the    *)
(* receive FIFO when a fixed delay has passed.  Neither the address, the   *)
(* function nor the length of the answer is looked at, only its CRC.       *)
(*                                                                         *)
(* The code pops up to 512 bytes into the caller's data[30] (app.c:1335,   *)
(* layer1.c:232).  What a longer pop would overwrite is not modelled: data *)
(* is a sequence of any length.                                            *)
(*                                                                         *)
(* The FIFO is Fifo's; with other = TRUE it belongs to another port, whose *)
(* task uses it in every way Fifo knows.                                   *)
(***************************************************************************)
EXTENDS Fifo, Sequences

CONSTANTS
  NumNode,   \* enabled Modbus tags
  AnsLen,    \* bytes of an answer
  MaxReq     \* bound: requests

ASSUME ModbusAssumption ==
  /\ NumNode \in Nat \ {0} /\ AnsLen \in Nat \ {0} /\ MaxReq \in Nat
  /\ MaxByte >= AnsLen * MaxReq

VARIABLES
  other,    \* the FIFO is another port's
  mpc,      \* where App_ModbusDoRead is
  node,     \* the node it asks
  req,      \* history: the number of its last request
  sending,  \* bSending: the transceiver is switched to sending
  line,     \* what the slaves still have to send: bytes <<request, index>>
  origin,   \* history: the bytes that have arrived
  want,     \* bytes still to be popped
  data,     \* the answer, as popped
  status,   \* sMB.Node[].status
  value,    \* sMB.Node[].value: the request whose answer it is
  clean,    \* history: nothing was under way when the FIFO was reset
  inside,   \* history: bytes that came between the stores of that reset
  taken     \* history: the answers that have been taken for a value

link == <<sending, line>>
task == <<mpc, node, req, want, data, status, value, clean, taken>>
around == <<other, link, origin, inside>>
mbVars == <<vars, around, task>>

Node == 1 .. NumNode
Answer(r) == [i \in 1 .. AnsLen |-> <<r, i>>]
Unread == <<0, 0>>
Byte == {Unread} \cup ((1 .. MaxReq) \X (1 .. AnsLen))
Origin(b) == IF b < next THEN origin[b + 1] ELSE Unread

MbInit ==
  /\ Init
  /\ other \in BOOLEAN
  /\ mpc = "ask" /\ node = 1 /\ req = 0
  /\ sending = FALSE
  /\ line = <<>> /\ origin = <<>>
  /\ want = 0 /\ data = <<>>
  /\ status = [n \in Node |-> "none"]
  /\ value = [n \in Node |-> 0]
  /\ clean = TRUE /\ inside = 0 /\ taken = {}

(***************************************************************************)
(* The line.  What a slave sends while the transceiver sends is lost; any  *)
(* byte may be.                                                            *)
(***************************************************************************)
Arrive ==
  /\ line # <<>> /\ ~sending
  /\ Push
  /\ line' = Tail(line)
  /\ origin' = Append(origin, Head(line))
  /\ inside' = IF mpc = "send" /\ pc # "idle" THEN inside + 1 ELSE inside
  /\ UNCHANGED <<other, sending, task>>

Lose ==
  /\ line # <<>>
  /\ line' = Tail(line)
  /\ UNCHANGED <<vars, other, sending, origin, inside, task>>

\* modbus_tx_handle, the last byte: RS485_RX.  A slave answers, or does not.
TxDone ==
  /\ sending
  /\ sending' = FALSE
  /\ line' \in {line, line \o Answer(req)}
  /\ UNCHANGED <<vars, other, origin, inside, task>>

(***************************************************************************)
(* Modbus_SendAndRecv: reset, send, sleep, count, pop.                     *)
(***************************************************************************)
\* Mutant of Reset: the FIFO is used as it is.
ResetNot ==
  /\ mpc = "ask" /\ req < MaxReq
  /\ mpc' = "send"
  /\ clean' = (line = <<>> /\ ~sending)
  /\ UNCHANGED <<vars, around, node, req, want, data, status, value, taken>>

Reset ==
  /\ mpc = "ask" /\ req < MaxReq
  /\ ResetSize
  /\ mpc' = "send"
  /\ clean' = (line = <<>> /\ ~sending)
  /\ inside' = 0
  /\ UNCHANGED <<other, link, origin, node, req, want, data, status, value, taken>>

ResetRest ==
  /\ mpc = "send"
  /\ ResetHead \/ ResetTail
  /\ UNCHANGED <<around, task>>

Send ==
  /\ mpc = "send" /\ pc = "idle"
  /\ ~sending
  /\ sending' = TRUE
  /\ req' = req + 1
  /\ mpc' = "wait"
  /\ UNCHANGED <<vars, other, line, origin, inside, node, want, data, status, value, clean, taken>>

\* The next node, or the first one after a second.
AskNext(stt) ==
  /\ mpc' = "ask"
  /\ node' = (node % NumNode) + 1
  /\ status' = [status EXCEPT ![node] = stt]
  /\ want' = 0 /\ data' = <<>>

\* MB_ERR_BUSY: the request before is not out yet.
SendBusy ==
  /\ mpc = "send" /\ pc = "idle"
  /\ sending
  /\ AskNext("failed")
  /\ UNCHANGED <<vars, around, req, value, clean, taken>>

\* Mutant of WakeUp: one byte too many is asked for.
WakeUpMore ==
  /\ mpc = "wait" /\ size > 0
  /\ want' = size + 1
  /\ mpc' = "read"
  /\ UNCHANGED <<vars, around, node, req, data, status, value, clean, taken>>

\* MB_DELAY_MS has passed.
WakeUp ==
  /\ mpc = "wait" /\ size > 0
  /\ want' = size
  /\ mpc' = "read"
  /\ UNCHANGED <<vars, around, node, req, data, status, value, clean, taken>>

NoAnswer ==
  /\ mpc = "wait" /\ size = 0
  /\ AskNext("failed")
  /\ UNCHANGED <<vars, around, req, value, clean, taken>>

Pop ==
  /\ mpc = "read" /\ want > 0
  /\ PopLoad
  /\ want' = want - 1
  /\ data' = Append(data, Origin(buff[head]))
  /\ UNCHANGED <<around, mpc, node, req, status, value, clean, taken>>

PopRest ==
  /\ mpc = "read"
  /\ PopStore
  /\ UNCHANGED <<around, task>>

(***************************************************************************)
(* MBMaster_Read, the CRC, and App_ModbusDoRead with its result.  The CRC  *)
(* is right when data is one whole answer.                                 *)
(***************************************************************************)
Answers == {Answer(r) : r \in 1 .. MaxReq}
Read == mpc = "read" /\ want = 0 /\ pc = "idle"

Accept ==
  /\ Read /\ data \in Answers
  /\ AskNext("ok")
  /\ value' = [value EXCEPT ![node] = data[1][1]]
  /\ taken' = taken \cup {data[1][1]}
  /\ UNCHANGED <<vars, around, req, clean>>

Refuse ==
  /\ Read /\ Len(data) > 1 /\ data \notin Answers
  /\ AskNext("failed")
  /\ UNCHANGED <<vars, around, req, value, clean, taken>>

\* The CRC of rlen - 2 bytes, a size_t, of a single byte: the whole address
\* space is read, and the fault or the watchdog restarts the program.
Fault ==
  /\ Read /\ Len(data) = 1 /\ data \notin Answers
  /\ size' = 0 /\ head' = 0 /\ tail' = 0
  /\ enProtect' = FALSE /\ protectPtr' = 0
  /\ loaded' = 0 /\ first' = next
  /\ over' = FALSE
  /\ mpc' = "ask" /\ node' = 1
  /\ sending' = FALSE
  /\ want' = 0 /\ data' = <<>>
  /\ status' = [n \in Node |-> "none"]
  /\ value' = [n \in Node |-> 0]
  /\ UNCHANGED <<buff, pc, next, torn, other, line, origin, inside, req, clean, taken>>

Master ==
  \/ Reset \/ ResetRest
  \/ Send \/ SendBusy
  \/ WakeUp \/ NoAnswer
  \/ Pop \/ PopRest
  \/ Accept \/ Refuse \/ Fault

MbNext ==
  \/ other /\ Next /\ UNCHANGED <<around, task>>
  \/ ~other /\ (Arrive \/ Lose \/ TxDone \/ Master)

MbSpec == MbInit /\ [][MbNext]_mbVars

-----------------------------------------------------------------------------
(***************************************************************************)
(* The type of the variables; an answer never exceeds the FIFO.            *)
(***************************************************************************)
MbTypeOK ==
  /\ TypeOK
  /\ other \in BOOLEAN /\ sending \in BOOLEAN /\ clean \in BOOLEAN
  /\ mpc \in {"ask", "send", "wait", "read"}
  /\ node \in Node /\ req \in 0 .. MaxReq
  /\ inside \in Nat
  /\ line \in Seq(Byte \ {Unread}) /\ origin \in Seq(Byte \ {Unread})
  /\ data \in Seq(Byte) /\ want \in Nat /\ Len(data) + want <= MaxSize
  /\ status \in [Node -> {"none", "ok", "failed"}]
  /\ value \in [Node -> 0 .. MaxReq] /\ taken \subseteq 1 .. req

(***************************************************************************)
(* A late answer can be taken for the answer of a later request, of        *)
(* another node.  It spoils no other request than those it is still under  *)
(* way in: a request made while the line was quiet gets its own answer or  *)
(* fails, whatever the requests before have left in the FIFO.              *)
(***************************************************************************)
OwnAnswer ==
  [][Accept /\ clean => value'[node] = req]_mbVars

(***************************************************************************)
(* No answer is taken twice, however late it is and however many of its    *)
(* bytes are lost, and although the interrupt may come between the stores  *)
(* of FIFO_Reset and FIFO_Pop and upset their counters: only if as many    *)
(* bytes as an answer has came inside one FIFO_Reset would an old answer   *)
(* be read from the buffer again.                                          *)
(***************************************************************************)
TakenOnce ==
  [][Accept /\ inside < AnsLen => data[1][1] \notin taken]_mbVars
=============================================================================
