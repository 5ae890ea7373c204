------------------------------ MODULE FtpRetry ------------------------------
(***************************************************************************)
(* The FTP upload path of application/network/ftp_client.c: log files are  *)
(* posted by ftp_add_filename to the queue of the task ftp_client_sender,  *)
(* which uploads them one at a time and keeps the name of a file it could  *)
(* not upload in the retry table (RetryQueue, which RingFile implements).  *)
(* The messages and the sender's buffers all come from the fixed pool of   *)
(* 272-byte blocks, which other tasks use as well.                         *)
(***************************************************************************)
EXTENDS Naturals, Sequences, FiniteSets

CONSTANTS
  File,        \* the log files GenerateLogFile hands over, each once
  PoolSize,    \* OS_MEM_PARTITION_272_TOTAL_NUM_BLOCK
  QueueSize,   \* messages the task queue of the sender takes
  TableSize,   \* the ring file's record count
  PowerLoss,   \* TRUE: power may be lost at any time
  Bad          \* an unreadable record of the retry table

ASSUME SizeAssumption ==
  PoolSize \in Nat /\ QueueSize \in Nat /\ TableSize \in Nat \ {0}
ASSUME BadAssumption == Bad \notin File

VARIABLES
  q, unsettled,  \* the retry table
  mq,            \* the task queue: files posted, not yet taken
  free,          \* blocks left in the pool
  others,        \* blocks held by other tasks
  leaked,        \* blocks nobody will free
  enabled,       \* server_list[0].enable, as configured at the last start
  spc,           \* where ftp_client_sender is
  cur,           \* the files it holds a message for: none or one
  retVal,        \* its local variable: the result of the last put
  handed,        \* history: files passed to ftp_add_filename
  uploaded,      \* history: files the server has stored, whole
  dropped        \* history: files given up, which nothing refers to any more

Retry == INSTANCE RetryQueue WITH Record <- File, Capacity <- TableSize

retry == <<q, unsettled>>
pool == <<free, others, leaked>>
history == <<handed, uploaded, dropped>>
vars == <<q, unsettled, mq, free, others, leaked, enabled, spc, cur, retVal,
          handed, uploaded, dropped>>

\* retVal is not initialised: after a start it may read as either.
PutResult == {"none", "error"}

Count(f, s) == Cardinality({i \in DOMAIN s : s[i] = f})

Init ==
  /\ Retry!QInit
  /\ mq = <<>>
  /\ free = PoolSize /\ others = 0 /\ leaked = 0
  /\ enabled \in BOOLEAN
  /\ spc = "pend"
  /\ cur = {}
  /\ retVal \in PutResult
  /\ handed = {} /\ uploaded = {} /\ dropped = {}

(***************************************************************************)
(* Other tasks of the logger allocate and free blocks of the same size,    *)
(* and so do the put's own helpers.                                        *)
(***************************************************************************)
OtherAlloc ==
  /\ free > 0
  /\ free' = free - 1 /\ others' = others + 1
  /\ UNCHANGED <<retry, mq, leaked, enabled, spc, cur, retVal, history>>

OtherFree ==
  /\ others > 0
  /\ free' = free + 1 /\ others' = others - 1
  /\ UNCHANGED <<retry, mq, leaked, enabled, spc, cur, retVal, history>>

(***************************************************************************)
(* ftp_add_filename, called by the periodic task after it closed the file. *)
(* The caller ignores the result.  When the post fails the message is not  *)
(* freed.                                                                  *)
(***************************************************************************)
AddFile(f) ==
  /\ f \notin handed
  /\ handed' = handed \cup {f}
  /\ IF free > 0 /\ Len(mq) < QueueSize
       THEN /\ mq' = Append(mq, f)
            /\ free' = free - 1
            /\ UNCHANGED <<leaked, dropped>>
       ELSE /\ dropped' = dropped \cup {f}
            /\ free' = IF free > 0 THEN free - 1 ELSE free
            /\ leaked' = IF free > 0 THEN leaked + 1 ELSE leaked
            /\ UNCHANGED mq
  /\ UNCHANGED <<retry, others, enabled, spc, cur, retVal, uploaded>>

\* Mutant of Take: it waits for memory.
TakeWaits ==
  /\ spc = "pend"
  /\ mq # <<>>
  /\ free > 0
  /\ mq' = Tail(mq)
  /\ cur' = {Head(mq)}
  /\ spc' = "check" /\ free' = free - 1
  /\ UNCHANGED <<retry, others, leaked, enabled, retVal, history>>

(***************************************************************************)
(* ftp_client_sender, a message received.  Without memory for the path the *)
(* file is forgotten.                                                      *)
(***************************************************************************)
Take ==
  /\ spc = "pend"
  /\ mq # <<>>
  /\ mq' = Tail(mq)
  /\ cur' = {Head(mq)}
  /\ IF free > 0
       THEN spc' = "check" /\ free' = free - 1 /\ UNCHANGED dropped
       ELSE spc' = "done" /\ dropped' = dropped \cup cur' /\ UNCHANGED free
  /\ UNCHANGED <<retry, others, leaked, enabled, retVal, handed, uploaded>>

\* check_obj_existed, which is also FALSE when f_stat fails for another
\* reason.  With the server disabled nothing is done for an existing file.
Check(exists) ==
  /\ spc = "check"
  /\ free' = free + 1
  /\ IF exists /\ enabled
       THEN spc' = "put" /\ UNCHANGED dropped
       ELSE spc' = "done" /\ dropped' = dropped \cup cur
  /\ UNCHANGED <<retry, mq, others, leaked, enabled, cur, retVal, handed, uploaded>>

\* ftp_remote_put; stored tells whether the server has the whole file.  An
\* upload that lost its last reply is reported as an error; one cut short by a
\* read error of the card is reported as done.
Put(stored, result) ==
  /\ spc = "put"
  /\ retVal' = result
  /\ uploaded' = IF stored THEN uploaded \cup cur ELSE uploaded
  /\ dropped' = IF result = "none" THEN dropped \cup (cur \ uploaded') ELSE dropped
  /\ spc' = IF result = "none" THEN "done" ELSE "record"
  /\ UNCHANGED <<retry, mq, pool, enabled, cur, handed>>

\* The put failed: a block for the record of the retry table, if there is one.
MakeRecord ==
  /\ spc = "record"
  /\ IF free > 0
       THEN spc' = "push" /\ free' = free - 1 /\ UNCHANGED dropped
       ELSE spc' = "done" /\ dropped' = dropped \cup (cur \ uploaded) /\ UNCHANGED free
  /\ UNCHANGED <<retry, mq, others, leaked, enabled, cur, retVal, handed, uploaded>>

\* ring_file_push_back, whose result is ignored.
PushRetry(ok) ==
  /\ spc = "push"
  /\ spc' = "done"
  /\ free' = free + 1
  /\ IF ok
       THEN (\E f \in cur : Retry!QPush(f)) /\ UNCHANGED dropped
       ELSE dropped' = dropped \cup (cur \ uploaded) /\ UNCHANGED retry
  /\ UNCHANGED <<mq, others, leaked, enabled, cur, retVal, handed, uploaded>>

\* The message is freed.
Done ==
  /\ spc = "done"
  /\ spc' = "pend"
  /\ cur' = {}
  /\ free' = free + 1
  /\ UNCHANGED <<retry, mq, others, leaked, enabled, retVal, history>>

(***************************************************************************)
(* ftp_client_sender, no message for 1000 ticks: the retry table.  The     *)
(* call that would send the file again is commented out; what is tested    *)
(* is the result of the last put.                                          *)
(***************************************************************************)
RetryFront ==
  /\ spc = "pend"
  /\ mq = <<>>
  /\ q # <<>>
  /\ free > 0
  /\ free' = free - 1
  /\ spc' = "front"
  /\ UNCHANGED <<retry, mq, others, leaked, enabled, cur, retVal, history>>

\* get_front or its CRC fails, the last put failed, or pop_front does (it
\* needs a block of its own): the record stays.
RetryKeep ==
  /\ spc = "front"
  /\ free' = free + 1
  /\ spc' = "pend"
  /\ UNCHANGED <<retry, mq, others, leaked, enabled, cur, retVal, history>>

\* Mutant of RetryPop: the record is read again instead of popped.
RetryPeek ==
  /\ spc = "front"
  /\ Head(q) # Bad
  /\ retVal = "none"
  /\ free' = free + 1
  /\ spc' = "pend"
  /\ dropped' = dropped \cup ({Head(q)} \ uploaded)
  /\ UNCHANGED <<retry, mq, others, leaked, enabled, cur, retVal, handed, uploaded>>

RetryPop ==
  /\ spc = "front"
  /\ Head(q) # Bad
  /\ retVal = "none"
  /\ free > 0
  /\ free' = free - 1
  /\ Retry!QPop
  /\ spc' = "pop"
  /\ dropped' = dropped \cup ({Head(q)} \ uploaded)
  /\ UNCHANGED <<mq, others, leaked, enabled, cur, retVal, handed, uploaded>>

RetryPopped ==
  /\ spc = "pop"
  /\ Retry!QSettle
  /\ spc' = "pend"
  /\ free' = free + 2
  /\ UNCHANGED <<mq, others, leaked, enabled, cur, retVal, history>>

(***************************************************************************)
(* Power loss and restart.  Only the retry table is kept: the messages of  *)
(* the task queue were in RAM.                                             *)
(***************************************************************************)
Restart ==
  /\ PowerLoss
  /\ IF unsettled THEN Retry!QRestart ELSE UNCHANGED retry
  /\ dropped' = dropped \cup {f \in handed \ uploaded : Count(f, q) = 0}
  /\ mq' = <<>>
  /\ cur' = {}
  /\ free' = PoolSize /\ others' = 0 /\ leaked' = 0
  /\ enabled' \in BOOLEAN
  /\ spc' = "pend"
  /\ retVal' \in PutResult
  /\ UNCHANGED <<handed, uploaded>>

SenderStep ==
  \/ Take
  \/ \E exists \in BOOLEAN : Check(exists)
  \/ \E stored \in BOOLEAN, result \in PutResult : Put(stored, result)
  \/ MakeRecord
  \/ \E ok \in BOOLEAN : PushRetry(ok)
  \/ Done
  \/ RetryFront
  \/ RetryKeep
  \/ RetryPop
  \/ RetryPopped

Next ==
  \/ \E f \in File : AddFile(f)
  \/ SenderStep
  \/ OtherAlloc
  \/ OtherFree
  \/ Restart

Spec == Init /\ [][Next]_vars

\* The scheduler keeps running the sender, and every call it makes has a
\* timeout, so that it always takes its next step.
FairSpec == Spec /\ WF_vars(SenderStep)

-----------------------------------------------------------------------------
(***************************************************************************)
(* The types, and the pool: every block is free, held by another task, in  *)
(* a message that is queued or being processed, in a buffer of the sender, *)
(* or leaked by a failed post of ftp_add_filename.                         *)
(***************************************************************************)
Buffers == CASE spc \in {"check", "push", "front"} -> 1
             [] spc = "pop" -> 2
             [] OTHER -> 0

TypeOK ==
  /\ q \in Seq(File \cup {Bad}) /\ Len(q) <= TableSize
  /\ mq \in Seq(File) /\ Len(mq) <= QueueSize
  /\ cur \in SUBSET File
  /\ spc \in {"pend", "check", "put", "record", "push", "done", "front", "pop"}
  /\ retVal \in PutResult
  /\ enabled \in BOOLEAN
  /\ free \in Nat /\ others \in Nat /\ leaked \in Nat
  /\ free + others + leaked + Len(mq) + Cardinality(cur) + Buffers = PoolSize

(***************************************************************************)
(* The upload path neither loses nor duplicates a name: a file handed to   *)
(* ftp_add_filename is at the server, given up at one of the places that   *)
(* drop it, or in exactly one of the queue, the sender and the retry       *)
(* table; and the table never holds a name twice.                          *)
(***************************************************************************)
Pending(f) == Count(f, mq) + Count(f, q)
                + Cardinality((IF spc = "done" THEN {} ELSE cur) \cap {f})

OnePlace ==
  \A f \in File :
    /\ Pending(f) <= 1
    /\ f \in dropped => Pending(f) = 0
    /\ f \in handed \ (uploaded \cup dropped) => Pending(f) = 1

(***************************************************************************)
(* A message posted to the sender is taken and its file attempted,         *)
(* recorded or dropped, whatever the server answers and however short the  *)
(* pool is: no path of ftp_client_sender waits for memory.                 *)
(***************************************************************************)
PostedIsHandled ==
  \A f \in File : (Count(f, mq) > 0) ~> (Count(f, mq) = 0 /\ f \notin cur)

(***************************************************************************)
(* "Re-send file OK, pop out and delete record from retry table"           *)
(* (ftp_client.c:721): a record leaves the table only after the server has *)
(* its file.                                                               *)
(***************************************************************************)
ResentBeforePop ==
  [][spc = "front" /\ spc' = "pop" => Head(q) \in uploaded]_vars
=============================================================================
