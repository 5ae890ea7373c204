----------------------------- MODULE RetryQueue -----------------------------
(***************************************************************************)
(* What a retry table promises its caller, as ring_file.h states it: push  *)
(* adds a record at the end, pop takes the one at the front, the table     *)
(* holds at most Capacity records, and what it holds survives a restart.   *)
(*                                                                         *)
(* A pop is settled once the header that no longer counts the record is on *)
(* the card.  A restart before that leaves the erased record at the front: *)
(* it costs the popped record nothing (it is not delivered again), and the *)
(* table one unreadable entry.  No restart costs any other record.         *)
(***************************************************************************)
EXTENDS Naturals, Sequences

CONSTANTS Record, Capacity, Bad

VARIABLES
  q,          \* the records in the table, front first
  unsettled   \* a pop has erased its record and not yet stored the header

qvars == <<q, unsettled>>

QInit == q = <<>> /\ unsettled = FALSE

QPush(r) ==
  /\ ~unsettled
  /\ Len(q) < Capacity
  /\ q' = Append(q, r)
  /\ UNCHANGED unsettled

QPop ==
  /\ ~unsettled
  /\ q # <<>>
  /\ q' = Tail(q)
  /\ unsettled' = TRUE

QSettle ==
  /\ unsettled
  /\ unsettled' = FALSE
  /\ UNCHANGED q

QRestart ==
  /\ unsettled
  /\ unsettled' = FALSE
  /\ q' = <<Bad>> \o q

QFlush ==
  /\ ~unsettled
  /\ q' = <<>>
  /\ UNCHANGED unsettled

QNext ==
  \/ \E r \in Record : QPush(r)
  \/ QPop
  \/ QSettle
  \/ QRestart
  \/ QFlush

QSpec == QInit /\ [][QNext]_qvars
=============================================================================
