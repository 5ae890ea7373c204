------------------------------- MODULE SQueue -------------------------------
(***************************************************************************)
(* The queues of buffers of library/queue.c (SQueue) and the buffers of    *)
(* library/mem.c (SMem): linked lists with a head, a tail and an 8-bit     *)
(* size, under a mutex each, used by several tasks.                        *)
(*                                                                         *)
(* A call takes the mutex, works on the list and gives it back.  If the    *)
(* mutex does not come within 100 ms, Queue_Remove returns NULL, and       *)
(* Queue_Append drops the buffer and gives back a mutex it does not own,   *)
(* which the kernel refuses.  Queue_Read (Queue_Peek) and Queue_GetSize    *)
(* change nothing and are left out; Queue_Flush has no caller.             *)
(*                                                                         *)
(* The caller of Queue_Append hands over a buffer it has allocated or      *)
(* removed from a queue, and no longer uses it (see Trans, OneOwner).      *)
(***************************************************************************)
EXTENDS Integers, Sequences, FiniteSets

CONSTANTS
  Task,      \* the tasks of one port and those that submit frames to it
  Queue,
  Buf,       \* the blocks of the pool: 116 (os_helper.h)
  Nil,
  SizeMod    \* 2^8: u8Size is a uint8_t

ASSUME QueueConstants ==
  /\ IsFiniteSet(Buf)
  /\ SizeMod \in Nat /\ Cardinality(Buf) < SizeMod
  /\ Nil \notin Task \cup Queue \cup Buf

VARIABLES
  pHead, pTail, u8Size, \* of each queue
  mtx,                  \* the task that has its mutex
  pNext,                \* of each buffer
  step,                 \* where a task is in its call
  at,                   \* the queue of the call
  pBuf,                 \* buf of Queue_Append, pBufCurrent of Queue_Remove
  pBufPrevious,
  match,                \* the buffers that fCriteria accepts: all without one
  pool,                 \* buffers that are not allocated
  own,                  \* the buffers each task has in hand
  missed,               \* history: buffers that Queue_Append has dropped
  contents              \* history: the buffers appended to each queue and not
                        \* removed, in order

list == <<pHead, pTail, u8Size, pNext, contents>>
call == <<step, at, pBuf, pBufPrevious, match>>
qvars == <<list, mtx, call, pool, own, missed>>

Pointer == Buf \cup {Nil}

QueueInit ==
  /\ pHead = [q \in Queue |-> Nil]
  /\ pTail = [q \in Queue |-> Nil]
  /\ u8Size = [q \in Queue |-> 0]
  /\ mtx = [q \in Queue |-> Nil]
  /\ pNext = [b \in Buf |-> Nil]
  /\ step = [t \in Task |-> "out"]
  /\ at = [t \in Task |-> Nil]
  /\ pBuf = [t \in Task |-> Nil]
  /\ pBufPrevious = [t \in Task |-> Nil]
  /\ match = [t \in Task |-> {}]
  /\ pool = Buf
  /\ own = [t \in Task |-> {}]
  /\ missed = {}
  /\ contents = [q \in Queue |-> <<>>]

(***************************************************************************)
(* Mem_Alloc and Mem_Free.  Whatever the partition writes in a free block, *)
(* Mem_Alloc clears its pNext.                                             *)
(***************************************************************************)
MemAlloc(t, b) ==
  /\ step[t] = "out" /\ b \in pool
  /\ pool' = pool \ {b}
  /\ own' = [own EXCEPT ![t] = @ \cup {b}]
  /\ pNext' = [pNext EXCEPT ![b] = Nil]
  /\ UNCHANGED <<pHead, pTail, u8Size, contents, mtx, call, missed>>

MemPut(t, b) ==
  /\ step[t] = "out" /\ b \in own[t]
  /\ own' = [own EXCEPT ![t] = @ \ {b}]
  /\ pool' = pool \cup {b}
  /\ UNCHANGED <<list, mtx, call, missed>>

(***************************************************************************)
(* Queue_Append.                                                           *)
(***************************************************************************)
\* Mutant of MayEnter: a failure to lock the mutex is not noticed.
MayEnterAlways(q) == TRUE
MayEnter(q) == mtx[q] = Nil

Append1(t, q, b) ==
  /\ step[t] = "out" /\ b \in own[t]
  /\ MayEnter(q)
  /\ mtx' = [mtx EXCEPT ![q] = t]
  /\ step' = [step EXCEPT ![t] = "link"]
  /\ at' = [at EXCEPT ![t] = q]
  /\ pBuf' = [pBuf EXCEPT ![t] = b]
  /\ UNCHANGED <<list, pBufPrevious, match, pool, own, missed>>

\* The mutex is another task's for too long.
AppendMisses(t, q, b) ==
  /\ step[t] = "out" /\ b \in own[t]
  /\ mtx[q] # Nil
  /\ own' = [own EXCEPT ![t] = @ \ {b}]
  /\ missed' = missed \cup {b}
  /\ UNCHANGED <<list, mtx, call, pool>>

AppendLink(t) ==
  /\ step[t] = "link"
  /\ IF u8Size[at[t]] = 0
       THEN pHead' = [pHead EXCEPT ![at[t]] = pBuf[t]] /\ UNCHANGED pNext
       ELSE pNext' = [pNext EXCEPT ![pTail[at[t]]] = pBuf[t]] /\ UNCHANGED pHead
  /\ step' = [step EXCEPT ![t] = "tail"]
  /\ UNCHANGED <<pTail, u8Size, contents, mtx, at, pBuf, pBufPrevious, match,
                 pool, own, missed>>

Ended(b) == pNext' = [pNext EXCEPT ![b] = Nil]

OneMore(n) == (n + 1) % SizeMod

AppendTail(t) ==
  /\ step[t] = "tail"
  /\ pTail' = [pTail EXCEPT ![at[t]] = pBuf[t]]
  /\ Ended(pBuf[t])
  /\ u8Size' = [u8Size EXCEPT ![at[t]] = OneMore(@)]
  /\ contents' = [contents EXCEPT ![at[t]] = Append(@, pBuf[t])]
  /\ own' = [own EXCEPT ![t] = @ \ {pBuf[t]}]
  /\ step' = [step EXCEPT ![t] = "unlock"]
  /\ UNCHANGED <<pHead, mtx, at, pBuf, pBufPrevious, match, pool, missed>>

(***************************************************************************)
(* Queue_Remove.  A call that does not get the mutex (queue.c:117) returns *)
(* NULL, changes nothing, and is no step of the model.                     *)
(***************************************************************************)
Remove1(t, q, fits) ==
  /\ step[t] = "out"
  /\ MayEnter(q)
  /\ mtx' = [mtx EXCEPT ![q] = t]
  /\ at' = [at EXCEPT ![t] = q]
  /\ match' = [match EXCEPT ![t] = fits]
  /\ IF u8Size[q] # 0
       THEN /\ pBuf' = [pBuf EXCEPT ![t] = pHead[q]]
            /\ pBufPrevious' = [pBufPrevious EXCEPT ![t] = pHead[q]]
            /\ step' = [step EXCEPT ![t] = "search"]
       ELSE /\ pBuf' = [pBuf EXCEPT ![t] = Nil]
            /\ step' = [step EXCEPT ![t] = "unlock"]
            /\ UNCHANGED pBufPrevious
  /\ UNCHANGED <<list, pool, own, missed>>

\* Mutant of Fits: the element behind is tested.
FitsNext(t) == pBuf[t] # Nil /\ pNext[pBuf[t]] \in match[t]
Fits(t) == pBuf[t] \in match[t]

Onward(t) == pNext[pBuf[t]]

Search(t) ==
  /\ step[t] = "search" /\ pBuf[t] # Nil /\ ~Fits(t)
  /\ pBufPrevious' = [pBufPrevious EXCEPT ![t] = pBuf[t]]
  /\ pBuf' = [pBuf EXCEPT ![t] = Onward(t)]
  /\ UNCHANGED <<list, mtx, step, at, match, pool, own, missed>>

\* ASSERT(FALSE) reports it.
NotFound(t) ==
  /\ step[t] = "search" /\ pBuf[t] = Nil
  /\ step' = [step EXCEPT ![t] = "unlock"]
  /\ UNCHANGED <<list, mtx, at, pBuf, pBufPrevious, match, pool, own, missed>>

\* Where b is in s: nowhere is behind the end.
Position(s, b) ==
  IF \E i \in 1 .. Len(s) : s[i] = b THEN CHOOSE i \in 1 .. Len(s) : s[i] = b
  ELSE Len(s) + 1
TakenOut(s, i) == SubSeq(s, 1, i - 1) \o SubSeq(s, i + 1, Len(s))

\* Mutant of TailAfter: the tail is left where it was.
TailAfterKeeps(t, head) == pTail[at[t]]
TailAfter(t, head) ==
  IF head = Nil THEN Nil
  ELSE IF pBuf[t] = pTail[at[t]] THEN pBufPrevious[t] ELSE pTail[at[t]]

Unlink(t) ==
  LET q == at[t]
      b == pBuf[t]
      head == IF b = pHead[q] THEN pNext[b] ELSE pHead[q]
  IN  /\ step[t] = "search" /\ b # Nil /\ Fits(t)
      /\ pHead' = [pHead EXCEPT ![q] = head]
      /\ pNext' = IF b = pHead[q] THEN pNext
                  ELSE [pNext EXCEPT ![pBufPrevious[t]] = pNext[b]]
      /\ pTail' = [pTail EXCEPT ![q] = TailAfter(t, head)]
      /\ u8Size' = [u8Size EXCEPT ![q] = (@ - 1) % SizeMod]
      /\ contents' = [contents EXCEPT ![q] = TakenOut(@, Position(@, b))]
      /\ own' = [own EXCEPT ![t] = @ \cup {b}]
      /\ step' = [step EXCEPT ![t] = "unlock"]
      /\ UNCHANGED <<mtx, at, pBuf, pBufPrevious, match, pool, missed>>

\* The call returns, and its parameters and locals are gone.
Unlock(t) ==
  /\ step[t] = "unlock"
  /\ mtx' = [mtx EXCEPT ![at[t]] = IF @ = t THEN Nil ELSE @]
  /\ step' = [step EXCEPT ![t] = "out"]
  /\ at' = [at EXCEPT ![t] = Nil]
  /\ pBuf' = [pBuf EXCEPT ![t] = Nil]
  /\ pBufPrevious' = [pBufPrevious EXCEPT ![t] = Nil]
  /\ match' = [match EXCEPT ![t] = {}]
  /\ UNCHANGED <<list, pool, own, missed>>

InCall(t) ==
  AppendLink(t) \/ AppendTail(t) \/ Search(t) \/ NotFound(t) \/ Unlink(t) \/ Unlock(t)

QueueNext ==
  \E t \in Task :
    \/ \E b \in Buf : MemAlloc(t, b) \/ MemPut(t, b)
    \/ \E q \in Queue :
         \/ \E b \in Buf : Append1(t, q, b) \/ AppendMisses(t, q, b)
         \/ \E fits \in SUBSET Buf : Remove1(t, q, fits)
    \/ InCall(t)

QueueSpec == QueueInit /\ [][QueueNext]_qvars

-----------------------------------------------------------------------------
(***************************************************************************)
(* The type of the variables.                                              *)
(***************************************************************************)
QueueTypeOK ==
  /\ pHead \in [Queue -> Pointer] /\ pTail \in [Queue -> Pointer]
  /\ u8Size \in [Queue -> 0 .. SizeMod - 1]
  /\ mtx \in [Queue -> Task \cup {Nil}]
  /\ pNext \in [Buf -> Pointer]
  /\ step \in [Task -> {"out", "link", "tail", "search", "unlock"}]
  /\ at \in [Task -> Queue \cup {Nil}]
  /\ pBuf \in [Task -> Pointer] /\ pBufPrevious \in [Task -> Pointer]
  /\ match \in [Task -> SUBSET Buf]
  /\ pool \subseteq Buf /\ missed \subseteq Buf
  /\ own \in [Task -> SUBSET Buf]
  /\ contents \in [Queue -> Seq(Buf)]

(***************************************************************************)
(* Between two calls the list of a queue is its contents: the head is the  *)
(* buffer appended first, each pNext leads to the one appended next, the   *)
(* tail is the last, which leads nowhere, and the size is their number.    *)
(***************************************************************************)
IsList(s, head, tail, size) ==
  /\ size = Len(s)
  /\ s = <<>> => head = Nil /\ tail = Nil
  /\ s # <<>> => head = s[1] /\ tail = s[Len(s)] /\ pNext[s[Len(s)]] = Nil
  /\ \A i \in 1 .. Len(s) - 1 : pNext[s[i]] = s[i + 1]

ListAgrees ==
  \A q \in Queue : mtx[q] = Nil => IsList(contents[q], pHead[q], pTail[q], u8Size[q])

(***************************************************************************)
(* No buffer is lost but those that Queue_Append drops when it does not    *)
(* get the mutex, and none is in two places: two queues, twice in one, or  *)
(* in a queue and in hand.                                                 *)
(***************************************************************************)
WhereIs(b) ==
  {<<"free", Nil, 0>> : x \in pool \cap {b}}
    \cup {<<"missed", Nil, 0>> : x \in missed \cap {b}}
    \cup {<<"hand", t, 0>> : t \in {u \in Task : b \in own[u]}}
    \cup UNION {{<<"queue", q, i>> : i \in {j \in 1 .. Len(contents[q]) : contents[q][j] = b}} :
                  q \in Queue}

BufferInOnePlace == \A b \in Buf : \E p \in WhereIs(b) : WhereIs(b) = {p}

(***************************************************************************)
(* The linked lists keep the buffers: what each of them holds can be       *)
(* walked in order, and every buffer is in one place only.                 *)
(***************************************************************************)
QueuesKeepBuffers == ListAgrees /\ BufferInOnePlace

(***************************************************************************)
(* A Queue_Remove that gets the mutex takes the first buffer that its      *)
(* criterion accepts, and returns NULL only if there is none, whatever     *)
(* other tasks append and remove.  One that does not get it returns NULL   *)
(* whatever the queue holds (queue.c:117).                                 *)
(***************************************************************************)
FirstFound(t, s) ==
  IF pBuf[t] = Nil
  THEN \A i \in 1 .. Len(s) : s[i] \notin match[t]
  ELSE \E i \in 1 .. Len(s) :
         /\ s[i] = pBuf[t] /\ s[i] \in match[t]
         /\ \A j \in 1 .. i - 1 : s[j] \notin match[t]

FirstMatch ==
  [][\A t \in Task :
       step[t] = "search" /\ step'[t] = "unlock" => FirstFound(t, contents[at[t]])]_qvars
=============================================================================
