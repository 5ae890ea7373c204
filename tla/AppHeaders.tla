----------------------------- MODULE AppHeaders -----------------------------
(***************************************************************************)
(* The streaming of the tag headers to a PC (application/app.c): the       *)
(* request LOGGER_STREAM_HEADER sets pcCounter to 0 and the control code   *)
(* CTRL_SEND_HEADER; every frame then sent to a PC, of whatever kind,      *)
(* sends the next header, which will be such a frame itself.               *)
(*                                                                         *)
(* The serial link's events run in the serial task (priority 7), requests  *)
(* and frames sent alike.  The requests of the TCP link run in the         *)
(* listener (14), its frames sent in the sender (13).  Both links share    *)
(* pcCounter and the control code, without a lock.  The serial task comes  *)
(* before the two others at any point; it lets them run when it is idle,   *)
(* and while it waits for the mutex of the queue it posts a header to.     *)
(***************************************************************************)
EXTENDS Naturals

CONSTANTS
  NumTag,       \* SYSTEM_NUM_TAG
  MaxQueued,    \* frames a link takes; a post to a full queue fails
  MaxRequest,   \* requests (a bound of the model)
  Uncounted     \* marks a register that holds no count

ASSUME SizeAssumption ==
  NumTag \in Nat \ {0} /\ MaxQueued \in Nat \ {0} /\ MaxRequest \in Nat
ASSUME MarkAssumption == Uncounted \notin Nat

Link == {"serial", "net"}

VARIABLES
  pcCounter,  \* pAppObj->pcCounter
  pending,    \* CTRL_SEND_HEADER in eCtrlCode
  queued,     \* frames each link has still to send
  step,       \* where each link is in its sent-event handler
  count,      \* its register in pcCounter++
  next,       \* history: one more than the header posted last, 0 after a
              \* request
  faults,     \* history: what headers posted since the request were:
              \* "repeated" (this one or a later one was before), "skipped"
  missed,     \* history: a header was not posted, for want of memory
  raced,      \* history: the handlers of both links, or a handler and a
              \* request, have overlapped since the last request
  requests    \* how many requests there were

vars == <<pcCounter, pending, queued, step, count, next, faults, missed, raced,
          requests>>

Idle == \A l \in Link : step[l] = "idle"

Init ==
  /\ pcCounter = 0 /\ pending = FALSE
  /\ queued = [l \in Link |-> 0]
  /\ step = [l \in Link |-> "idle"]
  /\ count = [l \in Link |-> Uncounted]
  /\ next = 0 /\ faults = {} /\ missed = FALSE /\ raced = FALSE
  /\ requests = 0

\* The tasks of link l may run, those of a higher priority having none to do.
MayRun(l) == l = "net" => step["serial"] \in {"idle", "send"}

Goto(l, s) == step' = [step EXCEPT ![l] = s]

\* A frame of any other kind: a reply, a value, an ACK.
OtherFrame(l) ==
  /\ queued[l] < MaxQueued
  /\ queued' = [queued EXCEPT ![l] = @ + 1]
  /\ UNCHANGED <<pcCounter, pending, step, count, next, faults, missed, raced, requests>>

\* Mutant of Request: the stream goes on where it was.
RequestGoesOn(l) ==
  /\ requests < MaxRequest
  /\ MayRun(l) /\ step[l] = "idle"
  /\ requests' = requests + 1
  /\ pending' = TRUE
  /\ next' = 0 /\ faults' = {} /\ missed' = FALSE /\ raced' = ~Idle
  /\ UNCHANGED <<pcCounter, queued, step, count>>

(***************************************************************************)
(* App_CommRecvHandle and App_NetRecvHandle, LOGGER_STREAM_HEADER.  The    *)
(* request itself is not answered.                                         *)
(***************************************************************************)
Request(l) ==
  /\ requests < MaxRequest
  /\ MayRun(l) /\ step[l] = "idle"
  /\ requests' = requests + 1
  /\ pcCounter' = 0 /\ pending' = TRUE
  /\ next' = 0 /\ faults' = {} /\ missed' = FALSE /\ raced' = ~Idle
  /\ UNCHANGED <<queued, step, count>>

(***************************************************************************)
(* Clb_TransPC_SentEvent and Clb_NetTcpServerSentData: a frame of link l   *)
(* was sent.                                                               *)
(***************************************************************************)
FrameSent(l) ==
  /\ step[l] = "idle" /\ queued[l] > 0
  /\ queued' = [queued EXCEPT ![l] = @ - 1]
  /\ IF pending THEN Goto(l, "test") ELSE UNCHANGED step
  /\ raced' = (raced \/ (pending /\ ~Idle))
  /\ UNCHANGED <<pcCounter, pending, count, next, faults, missed, requests>>

\* Mutant of TestCounter: the test for the end is an inequality.
TestCounterUnequal(l) ==
  /\ step[l] = "test"
  /\ Goto(l, IF pcCounter # NumTag THEN "send" ELSE "clear")
  /\ UNCHANGED <<pcCounter, pending, queued, count, next, faults, missed, raced,
                 requests>>

TestCounter(l) ==
  /\ step[l] = "test"
  /\ Goto(l, IF pcCounter < NumTag THEN "send" ELSE "clear")
  /\ UNCHANGED <<pcCounter, pending, queued, count, next, faults, missed, raced,
                 requests>>

\* Without memory for the header the event passes without effect.
NoMemory(l) ==
  /\ step[l] = "send"
  /\ Goto(l, "idle")
  /\ missed' = TRUE
  /\ UNCHANGED <<pcCounter, pending, queued, count, next, faults, raced, requests>>

Fault(i) == CASE i < next -> {"repeated"}
              [] i > next -> {"skipped"}
              [] OTHER    -> {}

\* The header of tag pcCounter is copied and posted.  The result of the post
\* is ignored; it fails when the link's queue is full.
SendHeader(l) ==
  /\ step[l] = "send"
  /\ IF queued[l] < MaxQueued
       THEN /\ queued' = [queued EXCEPT ![l] = @ + 1]
            /\ next' = pcCounter + 1
            /\ faults' = faults \cup Fault(pcCounter)
            /\ UNCHANGED missed
       ELSE missed' = TRUE /\ UNCHANGED <<queued, next, faults>>
  /\ Goto(l, "mark")
  /\ UNCHANGED <<pcCounter, pending, count, raced, requests>>

\* App_SetCtrlCode, and the load of pcCounter++.
Mark(l) ==
  /\ step[l] = "mark"
  /\ pending' = TRUE
  /\ count' = [count EXCEPT ![l] = pcCounter]
  /\ Goto(l, "store")
  /\ UNCHANGED <<pcCounter, queued, next, faults, missed, raced, requests>>

Store(l) ==
  /\ step[l] = "store"
  /\ pcCounter' = count[l] + 1
  /\ count' = [count EXCEPT ![l] = Uncounted]
  /\ Goto(l, "idle")
  /\ UNCHANGED <<pending, queued, next, faults, missed, raced, requests>>

\* Mutant of ClearCode: the code stays set.
ClearCodeKeeps(l) ==
  /\ step[l] = "clear"
  /\ Goto(l, "zero")
  /\ UNCHANGED <<pcCounter, pending, queued, count, next, faults, missed, raced,
                 requests>>

\* The stream has ended.
ClearCode(l) ==
  /\ step[l] = "clear"
  /\ pending' = FALSE
  /\ Goto(l, "zero")
  /\ UNCHANGED <<pcCounter, queued, count, next, faults, missed, raced, requests>>

ZeroCounter(l) ==
  /\ step[l] = "zero"
  /\ pcCounter' = 0
  /\ Goto(l, "idle")
  /\ UNCHANGED <<pending, queued, count, next, faults, missed, raced, requests>>

Handler(l) ==
  /\ MayRun(l)
  /\ \/ FrameSent(l) \/ TestCounter(l) \/ NoMemory(l) \/ SendHeader(l)
     \/ Mark(l) \/ Store(l) \/ ClearCode(l) \/ ZeroCounter(l)

Next == \E l \in Link : OtherFrame(l) \/ Request(l) \/ Handler(l)

Spec == Init /\ [][Next]_vars

\* A link sends the frames it has queued, and its task goes on.
FairSpec == Spec /\ \A l \in Link : WF_vars(Handler(l))

-----------------------------------------------------------------------------
(***************************************************************************)
(* The type of the variables.                                              *)
(***************************************************************************)
TypeOK ==
  /\ pcCounter \in 0 .. NumTag + 2
  /\ pending \in BOOLEAN
  /\ queued \in [Link -> 0 .. MaxQueued]
  /\ step \in [Link -> {"idle", "test", "send", "mark", "store", "clear", "zero"}]
  /\ count \in [Link -> 0 .. NumTag + 1 \cup {Uncounted}]
  /\ next \in Nat /\ faults \subseteq {"repeated", "skipped"}
  /\ missed \in BOOLEAN /\ raced \in BOOLEAN
  /\ requests \in 0 .. MaxRequest

(***************************************************************************)
(* The headers follow each other without repetition, and without a gap     *)
(* when there was memory for all of them, whichever link sends each, so    *)
(* long as no two handlers overlap.                                        *)
(***************************************************************************)
InOrder ==
  ~raced => /\ "repeated" \notin faults
            /\ ~missed => "skipped" \notin faults

(***************************************************************************)
(* However the handlers overlap, the header sent is that of a tag, or of   *)
(* one of the two entries behind sTag: pcCounter is read again after its   *)
(* test, and a sum stored late takes it past the end.                      *)
(***************************************************************************)
NearTable == next <= NumTag + 2

(***************************************************************************)
(* A stream that has a frame to go on with comes to its end, unless a      *)
(* header was not posted, for want of memory.                              *)
(***************************************************************************)
StreamEnds ==
  (pending /\ \E l \in Link : queued[l] > 0) ~> (~pending \/ missed)
=============================================================================
