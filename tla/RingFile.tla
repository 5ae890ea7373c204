------------------------------ MODULE RingFile ------------------------------
(***************************************************************************)
(* The retry table of library/common/ring_file.c: a ring of fixed-size     *)
(* records in one file on the SD card, addressed by a header that is kept  *)
(* twice, in RAM (handle->header) and at offset 0 of the file.             *)
(*                                                                         *)
(* ring_file_push_back and ring_file_pop_front reach the card in two       *)
(* writes, the record's sector (flushed when f_lseek leaves it) and the    *)
(* header's sector (flushed by f_close).  Power may be lost between them,  *)
(* and any FatFs call may fail.  Each operation is therefore two actions:  *)
(* the one that reaches the record and the one that reaches the header.    *)
(***************************************************************************)
EXTENDS Integers, Sequences

CONSTANTS
  Record,     \* the records handed to push_back (one per log file)
  MaxCount,   \* "count" of ring_file_init
  IndexMod,   \* 2^16: the counters of ring_file_header_t are uint16_t
  IOErrors,   \* TRUE: a FatFs call may fail
  PowerLoss,  \* TRUE: power may be lost at any time
  Zero,       \* a record slot as ring_file_create_new writes it
  Bad         \* an erased (0xFF), torn or never written slot: its CRC is wrong

ASSUME CountAssumption == MaxCount \in Nat \ {0}
ASSUME IndexAssumption == IndexMod \in Nat /\ MaxCount < IndexMod
ASSUME FaultAssumption == IOErrors \in BOOLEAN /\ PowerLoss \in BOOLEAN
ASSUME SlotAssumption == Zero \notin Record /\ Bad \notin Record /\ Zero # Bad

VARIABLES
  ram,      \* handle->header
  disk,     \* the header stored in the file
  slot,     \* the record slots of the file
  len,      \* number of record slots the file is long
  pc,       \* the call in progress
  data,     \* the record of the call in progress, Zero when there is none
  used,     \* history: records handed to push_back
  failed,   \* history: records whose push_back returned FALSE
  gone,     \* history: records a pop_front that returned TRUE has delivered
  wrapped   \* history: u16_buffer_push_index has overflowed

table == <<ram, disk, slot, len>>
history == <<used, failed, gone, wrapped>>
vars == <<ram, disk, slot, len, pc, data, used, failed, gone, wrapped>>

Slots == 0 .. MaxCount - 1
SlotValue == Record \cup {Zero, Bad}

Header == [max: {0, MaxCount}, count: 0 .. IndexMod - 1,
           pop: Slots, push: 0 .. IndexMod - 1]

\* The handle is a zero-initialised global until the header has been read.
ZeroHeader == [max |-> 0, count |-> 0, pop |-> 0, push |-> 0]
FreshHeader == [ZeroHeader EXCEPT !.max = MaxCount]

(***************************************************************************)
(* Arithmetic on a header.  A header with max = 0 also has record size and *)
(* buffer size 0: the full test (count + 1) * 0 > 0 never holds, every     *)
(* push goes to the first slot, and the offset test of pop_front and       *)
(* get_front always fails.                                                 *)
(***************************************************************************)
\* Mutant of Full: the test is made before the new record is counted.
FullLate(h) == h.max # 0 /\ h.count > h.max

Full(h) == h.max # 0 /\ h.count + 1 > h.max
Readable(h) == h.max # 0 /\ h.count # 0
PushSlot(h) == IF h.max = 0 THEN 0 ELSE h.push % h.max
Pushed(h) == [h EXCEPT !.push = (@ + 1) % IndexMod,
                       !.count = (@ + 1) % IndexMod]
\* Mutant of Popped: the pop index does not wrap.
PoppedNoWrap(h) == [h EXCEPT !.pop = @ + 1, !.count = @ - 1]

Popped(h) == [h EXCEPT !.pop = (@ + 1) % h.max, !.count = @ - 1]
\* Mutant of Emptied: the push index is not reset.
EmptiedPartly(h) == [h EXCEPT !.count = 0, !.pop = 0]

Emptied(h) == [h EXCEPT !.count = 0, !.pop = 0, !.push = 0]

\* The slot of the i-th record h counts, from the front, i = 0, 1, ...
At(h, i) == (h.pop + i) % h.max
Counted(h) == IF h.max = 0 THEN {} ELSE {At(h, i) : i \in 0 .. h.count - 1}

\* What successive get_front/pop_front calls would return under header h.
Window(h) ==
  IF h.max = 0 THEN <<>> ELSE [i \in 1 .. h.count |-> slot[At(h, i - 1)]]

\* An interrupted or failed write leaves the old bytes, the new ones, or a mix.
Partial(s, new) == \E v \in {slot[s], Bad, new} : slot' = [slot EXCEPT ![s] = v]

Init ==
  /\ ram = ZeroHeader
  /\ disk = ZeroHeader
  /\ slot = [s \in Slots |-> Bad]
  /\ len = 0
  /\ pc = "off"
  /\ data = Zero
  /\ used = {} /\ failed = {} /\ gone = {}
  /\ wrapped = FALSE

(***************************************************************************)
(* ring_file_init.  The file is recreated when its size is wrong; when the *)
(* size is right the header is read and used as it is.                     *)
(***************************************************************************)
InitOpen ==
  /\ pc = "off"
  /\ len = MaxCount
  /\ pc' = "idle"
  /\ ram' = disk
  /\ UNCHANGED <<disk, slot, len, data, history>>

\* f_open or the f_read of the header fails: the handle stays zero.
InitFail ==
  /\ IOErrors
  /\ pc = "off"
  /\ pc' = "idle"
  /\ UNCHANGED <<table, data, history>>

\* ring_file_create_new truncates the file (FA_CREATE_ALWAYS) ...
CreateNew ==
  /\ pc = "off"
  /\ len # MaxCount
  /\ pc' = "create"
  /\ len' = 0
  /\ UNCHANGED <<ram, disk, slot, data, history>>

\* ... writes the header and n zero records (all, unless a write fails);
\* ring_file_init then reads the header back, or fails to, and closes the file.
CreateDone(n, h) ==
  /\ pc = "create"
  /\ (n = MaxCount /\ h = FreshHeader) \/ IOErrors
  /\ pc' = "idle"
  /\ disk' = FreshHeader
  /\ ram' = h
  /\ slot' = [s \in Slots |-> IF s < n THEN Zero ELSE Bad]
  /\ len' = n
  /\ UNCHANGED <<data, history>>

(***************************************************************************)
(* ring_file_push_back.                                                    *)
(***************************************************************************)
PushFull(r) ==
  /\ pc = "idle"
  /\ r \notin used
  /\ Full(ram)
  /\ used' = used \cup {r}
  /\ failed' = failed \cup {r}
  /\ UNCHANGED <<table, pc, data, gone, wrapped>>

\* f_open, f_lseek or the f_write of the record fails: nothing is counted.
PushFail(r) ==
  /\ IOErrors
  /\ pc = "idle"
  /\ r \notin used
  /\ ~Full(ram)
  /\ Partial(PushSlot(ram), r)
  /\ used' = used \cup {r}
  /\ failed' = failed \cup {r}
  /\ UNCHANGED <<ram, disk, len, pc, data, gone, wrapped>>

\* The record is written; f_lseek(0) flushes it, or fails to.  On a full volume
\* a file that is too short cannot grow: f_write stores less and returns FR_OK.
PushRecord(r) ==
  /\ pc = "idle"
  /\ r \notin used
  /\ ~Full(ram)
  /\ \/ slot' = [slot EXCEPT ![PushSlot(ram)] = r] /\ pc' = "push"
     \/ /\ IOErrors /\ PushSlot(ram) >= len
        /\ slot' = [slot EXCEPT ![PushSlot(ram)] = Bad] /\ pc' = "push"
     \/ IOErrors /\ Partial(PushSlot(ram), r) /\ pc' = "pushfail"
  /\ data' = r
  /\ used' = used \cup {r}
  /\ UNCHANGED <<ram, disk, len, failed, gone, wrapped>>

\* Mutant of PushHeader: the header is changed in RAM only.
PushHeaderInRam(flushed, ret) ==
  /\ pc \in {"push", "pushfail"}
  /\ pc' = "idle"
  /\ ram' = Pushed(ram)
  /\ wrapped' = (wrapped \/ Pushed(ram).push = 0)
  /\ data' = Zero
  /\ UNCHANGED <<disk, slot, len, used, failed, gone>>

\* push_index++ and record_count++ in RAM, then the header is written: flushed
\* tells whether it reached the card, ret is the value returned.  After a
\* failed f_lseek the FIL is in error, so the header write fails too.  A file
\* whose new length has not been flushed may lose the record beyond its end.
PushHeader(flushed, ret) ==
  /\ pc \in {"push", "pushfail"}
  /\ (pc = "push" /\ flushed /\ ret) \/ IOErrors
  /\ pc = "pushfail" => ~flushed /\ ~ret
  /\ pc' = "idle"
  /\ ram' = Pushed(ram)
  /\ wrapped' = (wrapped \/ Pushed(ram).push = 0)
  /\ disk' = IF flushed THEN Pushed(ram) ELSE disk
  /\ len' = IF flushed /\ PushSlot(ram) >= len THEN PushSlot(ram) + 1 ELSE len
  /\ \/ slot' = slot
     \/ ~flushed /\ PushSlot(ram) >= len /\ slot' = [slot EXCEPT ![PushSlot(ram)] = Bad]
  /\ failed' = IF ret THEN failed ELSE failed \cup {data}
  /\ data' = Zero
  /\ UNCHANGED <<used, gone>>

(***************************************************************************)
(* ring_file_pop_front.                                                    *)
(***************************************************************************)
\* f_open, the f_read, the allocation of the 0xFF buffer or the f_write of it
\* fails: the header is not touched, the record may already be damaged.
PopFail ==
  /\ IOErrors
  /\ pc = "idle"
  /\ Readable(ram)
  /\ Partial(ram.pop, Bad)
  /\ UNCHANGED <<ram, disk, len, pc, data, history>>

\* Mutant of PopErase: the record is not overwritten.
PopReadOnly ==
  /\ pc = "idle"
  /\ Readable(ram)
  /\ pc' = "pop"
  /\ data' = slot[ram.pop]
  /\ UNCHANGED <<ram, disk, slot, len, history>>

\* The record is read and overwritten with 0xFF; f_lseek(0) flushes the
\* erasure, or fails to after the header in RAM has been changed.
PopErase ==
  /\ pc = "idle"
  /\ Readable(ram)
  /\ \/ slot' = [slot EXCEPT ![ram.pop] = Bad] /\ pc' = "pop"
     \/ IOErrors /\ Partial(ram.pop, Bad) /\ pc' = "popfail"
  /\ data' = slot[ram.pop]
  /\ UNCHANGED <<ram, disk, len, history>>

PopHeader(flushed, ret) ==
  /\ pc \in {"pop", "popfail"}
  /\ (pc = "pop" /\ flushed /\ ret) \/ IOErrors
  /\ pc = "popfail" => ~flushed /\ ~ret
  /\ pc' = "idle"
  /\ ram' = Popped(ram)
  /\ disk' = IF flushed THEN Popped(ram) ELSE disk
  /\ gone' = IF ret THEN gone \cup ({data} \cap Record) ELSE gone
  /\ data' = Zero
  /\ UNCHANGED <<slot, len, used, failed, wrapped>>

\* ring_file_flush: the header is cleared in RAM, then written.
Flush(flushed) ==
  /\ pc = "idle"
  /\ flushed \/ IOErrors
  /\ ram' = Emptied(ram)
  /\ disk' = IF flushed THEN Emptied(ram) ELSE disk
  /\ UNCHANGED <<slot, len, pc, data, history>>

\* Power is lost: RAM is gone, the file is what has been flushed.
LosePower ==
  /\ PowerLoss
  /\ pc # "off"
  /\ pc' = "off"
  /\ ram' = ZeroHeader
  /\ data' = Zero
  /\ UNCHANGED <<disk, slot, len, history>>

Next ==
  \/ InitOpen
  \/ InitFail
  \/ CreateNew
  \/ \E n \in 0 .. MaxCount, h \in {FreshHeader, ZeroHeader} : CreateDone(n, h)
  \/ \E r \in Record : PushFull(r) \/ PushFail(r) \/ PushRecord(r)
  \/ \E flushed, ret \in BOOLEAN : PushHeader(flushed, ret)
  \/ PopFail
  \/ PopErase
  \/ \E flushed, ret \in BOOLEAN : PopHeader(flushed, ret)
  \/ \E flushed \in BOOLEAN : Flush(flushed)
  \/ LosePower

Spec == Init /\ [][Next]_vars

-----------------------------------------------------------------------------
(***************************************************************************)
(* The type of the variables.                                              *)
(***************************************************************************)
TypeOK ==
  /\ ram \in Header
  /\ disk \in Header
  /\ slot \in [Slots -> SlotValue]
  /\ len \in 0 .. MaxCount
  /\ pc \in {"off", "create", "idle", "push", "pushfail", "pop", "popfail"}
  /\ data \in SlotValue
  /\ used \in SUBSET Record
  /\ failed \in SUBSET Record
  /\ gone \in SUBSET Record
  /\ wrapped \in BOOLEAN

(***************************************************************************)
(* The three counters of a header describe one ring: the push index is     *)
(* record_count slots past the pop index, and the count never exceeds the  *)
(* ring.  It holds of the header in RAM and of the stored one, whatever    *)
(* fails and whenever power is lost, until the 16-bit push index of        *)
(* ring_file_push_back overflows.                                          *)
(***************************************************************************)
HeaderOK(h) ==
  h.max # 0 =>
    /\ h.count <= h.max
    /\ h.push % h.max = At(h, h.count)

HeadersConsistent == ~wrapped => HeaderOK(ram) /\ HeaderOK(disk)

(***************************************************************************)
(* ring_file_push_back writes its record before it knows whether the call  *)
(* will succeed.  It never writes over a record the table still counts.    *)
(***************************************************************************)
PushSparesCounted ==
  [][used' # used /\ ~wrapped => \A s \in Counted(ram) : slot'[s] = slot[s]]_vars

(***************************************************************************)
(* ring_file_pop_front erases the record before it stores the header.  A   *)
(* record it has delivered (returning TRUE) is therefore never read again, *)
(* neither in this run nor, whatever the stored header says, after a       *)
(* restart.                                                                *)
(***************************************************************************)
InWindow(r, h) == \E i \in DOMAIN Window(h) : Window(h)[i] = r

PoppedNeverBack ==
  \A r \in gone : ~InWindow(r, ram) /\ ~InWindow(r, disk)

(***************************************************************************)
(* Without FatFs failures the file implements a retry table: the abstract  *)
(* queue is the window of the header in force, less the record a pop has   *)
(* already erased.                                                         *)
(***************************************************************************)
TableContents ==
  CASE pc = "off" -> IF len = MaxCount THEN Window(disk) ELSE <<>>
    [] pc = "pop" -> Tail(Window(ram))
    [] OTHER      -> Window(ram)

Table == INSTANCE RetryQueue WITH Capacity <- MaxCount,
                                  q <- TableContents, unsettled <- (pc = "pop")

RefinesRetryQueue == Table!QSpec

(***************************************************************************)
(* "Push new record to the end of retry table" (ring_file.c:139): a push   *)
(* that returns leaves the older records first and its own last.           *)
(***************************************************************************)
PushAddsAtEnd ==
  [][pc = "push" /\ pc' = "idle" => Window(ram)' = Append(Window(ram), data)]_vars
=============================================================================
