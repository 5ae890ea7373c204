-------------------------------- MODULE Fifo --------------------------------
(***************************************************************************)
(* The byte FIFO of library/fifo.c, as the receive paths of the logger use *)
(* it: the receive interrupt of a UART pushes, one task pops, marks a      *)
(* position, rewinds to it and resets.  The critical sections of fifo.c    *)
(* and of its callers are commented out, so that the interrupt may come    *)
(* between the load and the store of a u16Size++ or u16Size-- of the task. *)
(* The interrupt itself runs to its end.                                   *)
(*                                                                         *)
(* A byte is its number in the order of arrival; first and next are the    *)
(* numbers of the byte the task should pop next and of the next to arrive. *)
(***************************************************************************)
EXTENDS Integers

CONSTANTS
  MaxSize,   \* u16MaxSize: 30 (analog) to 512 bytes
  MaxByte,   \* bound: bytes that arrive
  Calls      \* the operations the task makes besides FIFO_Pop

ASSUME SizeAssumption == MaxSize \in Nat \ {0} /\ MaxByte \in Nat
ASSUME CallAssumption == Calls \subseteq {"rewind", "reset"}

VARIABLES
  buff, size, head, tail,   \* arrBuff, u16Size, u16Head, u16Tail
  enProtect, protectPtr,    \* bEnProtect, u16ProtectPtr
  pc, loaded,               \* the task's place in an operation, u16Size as it read it
  first, next,              \* history: byte numbers, see above
  over,                     \* history: a rewind has started on a full FIFO
  torn                      \* history: the interrupt has come inside an operation

mark == <<enProtect, protectPtr>>
vars == <<buff, size, head, tail, enProtect, protectPtr, pc, loaded,
          first, next, over, torn>>

Index == 0 .. MaxSize - 1
NoByte == MaxByte
Succ(i) == IF i + 1 >= MaxSize THEN 0 ELSE i + 1
Pred(i) == IF i = 0 THEN MaxSize - 1 ELSE i - 1

Init ==
  /\ buff = [i \in Index |-> NoByte]
  /\ size = 0 /\ head = 0 /\ tail = 0
  /\ enProtect = FALSE /\ protectPtr = 0
  /\ pc = "idle" /\ loaded = 0
  /\ first = 0 /\ next = 0
  /\ over = FALSE
  /\ torn = FALSE

(***************************************************************************)
(* FIFO_Push in the receive interrupt.  It does not look at the protection *)
(* mark; when the FIFO is full the byte is dropped and nothing changes.    *)
(***************************************************************************)
Push ==
  /\ next < MaxByte
  /\ size < MaxSize
  /\ buff' = [buff EXCEPT ![tail] = next]
  /\ tail' = Succ(tail)
  /\ size' = size + 1
  /\ next' = next + 1
  /\ torn' = (torn \/ pc # "idle")
  /\ UNCHANGED <<head, mark, pc, loaded, first, over>>

\* FIFO_Pop (of an empty FIFO it returns FALSE and changes nothing).
PopLoad ==
  /\ pc = "idle"
  /\ size # 0
  /\ head' = Succ(head)
  /\ first' = first + 1
  /\ loaded' = size
  /\ pc' = "pop"
  /\ UNCHANGED <<buff, size, tail, mark, next, over, torn>>

\* Mutant of PopStore: the size is not decremented.
PopStoreKeeps ==
  /\ pc = "pop"
  /\ pc' = "idle"
  /\ UNCHANGED <<buff, size, head, tail, mark, loaded, first, next, over, torn>>

PopStore ==
  /\ pc = "pop"
  /\ size' = loaded - 1
  /\ pc' = "idle"
  /\ UNCHANGED <<buff, head, tail, mark, loaded, first, next, over, torn>>

EnableProtect ==
  /\ pc = "idle" /\ "rewind" \in Calls
  /\ enProtect' = TRUE
  /\ protectPtr' = head
  /\ UNCHANGED <<buff, size, head, tail, pc, loaded, first, next, over, torn>>

DisableProtect ==
  /\ pc = "idle" /\ enProtect
  /\ enProtect' = FALSE
  /\ UNCHANGED <<buff, size, head, tail, protectPtr, pc, loaded, first, next, over, torn>>

(***************************************************************************)
(* FIFO_RewindHead: one byte is given back per turn of the loop, which     *)
(* ends at the mark, or where the next byte would be pushed.               *)
(***************************************************************************)
RewindLoad ==
  /\ pc \in {"idle", "rewind"}
  /\ pc = "idle" => enProtect
  /\ head # protectPtr
  /\ head' = Pred(head)
  /\ first' = first - 1
  /\ loaded' = size
  /\ over' = (over \/ size >= MaxSize)
  /\ pc' = "rewound"
  /\ UNCHANGED <<buff, size, tail, mark, next, torn>>

RewindStore ==
  /\ pc = "rewound"
  /\ size' = loaded + 1
  /\ pc' = "turn"
  /\ UNCHANGED <<buff, head, tail, mark, loaded, first, next, over, torn>>

RewindTurn ==
  /\ pc = "turn"
  /\ pc' = IF head = tail \/ head = protectPtr THEN "idle" ELSE "rewind"
  /\ UNCHANGED <<buff, size, head, tail, mark, loaded, first, next, over, torn>>

(***************************************************************************)
(* FIFO_Reset: size, head and tail are cleared one after the other.        *)
(***************************************************************************)
ResetSize ==
  /\ pc = "idle" /\ "reset" \in Calls
  /\ size' = 0
  /\ first' = next
  /\ pc' = "reset"
  /\ UNCHANGED <<buff, head, tail, mark, loaded, next, over, torn>>

ResetHead ==
  /\ pc = "reset"
  /\ head' = 0
  /\ pc' = "tail"
  /\ UNCHANGED <<buff, size, tail, mark, loaded, first, next, over, torn>>

\* Mutant of ResetTail: the tail is left where it was.
ResetTailKeeps ==
  /\ pc = "tail"
  /\ enProtect' = FALSE /\ protectPtr' = 0
  /\ pc' = "idle"
  /\ UNCHANGED <<buff, size, head, tail, loaded, first, next, over, torn>>

ResetTail ==
  /\ pc = "tail"
  /\ tail' = 0
  /\ enProtect' = FALSE /\ protectPtr' = 0
  /\ pc' = "idle"
  /\ UNCHANGED <<buff, size, head, loaded, first, next, over, torn>>

Next ==
  \/ Push
  \/ PopLoad \/ PopStore
  \/ EnableProtect \/ DisableProtect
  \/ RewindLoad \/ RewindStore \/ RewindTurn
  \/ ResetSize \/ ResetHead \/ ResetTail

Spec == Init /\ [][Next]_vars

-----------------------------------------------------------------------------
(***************************************************************************)
(* The type of the variables.  The indices never leave the buffer.         *)
(***************************************************************************)
TypeOK ==
  /\ buff \in [Index -> 0 .. NoByte]
  /\ size \in Nat /\ loaded \in Nat
  /\ head \in Index /\ tail \in Index /\ protectPtr \in Index
  /\ enProtect \in BOOLEAN /\ over \in BOOLEAN /\ torn \in BOOLEAN
  /\ pc \in {"idle", "pop", "rewind", "rewound", "turn", "reset", "tail"}
  /\ first \in 0 .. next /\ next \in 0 .. MaxByte

(***************************************************************************)
(* Between two operations the FIFO holds exactly the bytes that have       *)
(* arrived and not been popped, in their order.                            *)
(***************************************************************************)
Consistent ==
  /\ size = next - first
  /\ tail = (head + size) % MaxSize
  /\ \A i \in 0 .. size - 1 : buff[(head + i) % MaxSize] = first + i

(***************************************************************************)
(* As long as the interrupt has not come inside an operation, protecting,  *)
(* rewinding and resetting keep it so, whatever arrives between them: a    *)
(* rewind gives back what has not been overwritten.  A rewind of a FIFO    *)
(* that is full is the one exception.                                      *)
(***************************************************************************)
HoldsArrived == pc = "idle" /\ ~over /\ ~torn => Consistent

(***************************************************************************)
(* The interrupt may make the task's u16Size++ and u16Size-- lose a byte   *)
(* it pushed, but wherever it comes, and even after a rewind or a reset    *)
(* that it has upset, the FIFO never counts more bytes than have arrived   *)
(* and not been popped.                                                    *)
(***************************************************************************)
NoPhantom == pc = "idle" => size <= next - first
=============================================================================
