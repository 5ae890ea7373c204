----------------------------- MODULE FifoProofs -----------------------------
(***************************************************************************)
(* Proofs about Fifo, for every size of the buffer, any number of bytes,   *)
(* whatever the task calls and wherever the interrupt comes; and about     *)
(* Modbus, the client of it that resets, counts and pops, for any number   *)
(* of nodes and of requests and any length of an answer; and about SQueue, *)
(* the library's other container, which shares nothing with them.          *)
(***************************************************************************)
EXTENDS Modbus, SQueue, FiniteSetTheorems, SequenceTheorems, TLAPS

(***************************************************************************)
(* The slot j places after h (before it when j is negative), and how many  *)
(* bytes a rewind would give back.                                         *)
(***************************************************************************)
Place(h, j) == IF h + j < 0 THEN h + j + MaxSize
               ELSE IF h + j >= MaxSize THEN h + j - MaxSize ELSE h + j
Marked == IF head >= protectPtr THEN head - protectPtr
          ELSE head - protectPtr + MaxSize

Resetting == pc \in {"reset", "tail"}

(***************************************************************************)
(* The count, wherever the interrupt comes: what the task is about to      *)
(* store never exceeds what has arrived and not been popped.               *)
(***************************************************************************)
CountInv ==
  /\ pc \notin {"pop", "rewound"} => size <= next - first
  /\ pc = "pop" => loaded >= 1 /\ loaded - 1 <= next - first
  /\ pc = "rewound" => loaded + 1 <= next - first
  /\ pc = "tail" => head = 0
  /\ ~Resetting => Marked <= first

(***************************************************************************)
(* The contents, as long as no rewind found the FIFO full and the          *)
(* interrupt spared the operations: the slots from the mark to the tail    *)
(* hold consecutive bytes, except those a later byte has overwritten.      *)
(***************************************************************************)
Held == CASE pc = "pop" -> size - 1 [] pc = "rewound" -> size + 1 [] OTHER -> size

Contents ==
  /\ Held = next - first /\ Held \in 0 .. MaxSize
  /\ tail = Place(head, Held)
  /\ \A j \in -Marked .. Held - 1 :
       j >= Held - MaxSize => buff[Place(head, j)] = first + j

DataInv ==
  ~over /\ ~torn =>
    /\ pc \in {"pop", "rewound"} => loaded = size
    /\ Resetting => size = 0 /\ first = next
    /\ ~Resetting => Contents

FifoInv == TypeOK /\ CountInv /\ DataInv

-----------------------------------------------------------------------------
(***************************************************************************)
(* Moving around the ring.                                                 *)
(***************************************************************************)

\* A place at most one turn away is a slot.
LEMMA PlaceType ==
  ASSUME NEW h \in Index, NEW j \in -MaxSize .. MaxSize
  PROVE  Place(h, j) \in Index
BY SizeAssumption DEF Place, Index

\* Indices stay in the buffer.
LEMMA StepType ==
  ASSUME NEW h \in Index
  PROVE  Succ(h) \in Index /\ Pred(h) \in Index
BY SizeAssumption DEF Succ, Pred, Index

\* One place further from h is as far from its successor as one place less.
LEMMA PlaceSucc ==
  ASSUME NEW h \in Index, NEW j \in -MaxSize .. MaxSize - 1
  PROVE  Place(Succ(h), j) = Place(h, j + 1)
BY SizeAssumption DEF Place, Succ, Index

\* The same of the predecessor.
LEMMA PlacePred ==
  ASSUME NEW h \in Index, NEW j \in 1 - MaxSize .. MaxSize
  PROVE  Place(Pred(h), j) = Place(h, j - 1)
BY SizeAssumption DEF Place, Pred, Index

\* The successor of a place is the next place.
LEMMA SuccPlace ==
  ASSUME NEW h \in Index, NEW j \in -MaxSize .. MaxSize - 1
  PROVE  Succ(Place(h, j)) = Place(h, j + 1)
BY SizeAssumption DEF Place, Succ, Index

\* Two places less than a turn apart are different slots.
LEMMA PlaceApart ==
  ASSUME NEW h \in Index, NEW j \in -MaxSize .. MaxSize,
         NEW k \in -MaxSize .. MaxSize, j < k, k - j < MaxSize
  PROVE  Place(h, j) # Place(h, k)
BY SizeAssumption DEF Place, Index

\* The places after h are the slots fifo.c reaches by counting.
LEMMA PlaceMod ==
  ASSUME NEW h \in Index, NEW j \in 0 .. MaxSize
  PROVE  (h + j) % MaxSize = Place(h, j)
<1>1. MaxSize \in Nat \ {0} /\ h \in 0 .. MaxSize - 1
  BY SizeAssumption DEF Index
<1>2. (h + j) % MaxSize = IF h + j < MaxSize THEN h + j ELSE h + j - MaxSize
  <2>1. CASE h + j < MaxSize
    BY <1>1, <2>1
  <2>2. CASE ~(h + j < MaxSize)
    <3>1. h + j \in MaxSize .. 2 * MaxSize - 1
      BY <1>1, <2>2
    <3>2. (h + j) % MaxSize = h + j - MaxSize
      BY <1>1, <3>1
    <3>. QED  BY <2>2, <3>2
  <2>. QED  BY <2>1, <2>2
<1>. QED  BY <1>1, <1>2 DEF Place

-----------------------------------------------------------------------------
(***************************************************************************)
(* The distance to the mark.                                               *)
(***************************************************************************)

\* The mark is less than a turn away; it is here when head is on it.
LEMMA MarkedType ==
  ASSUME TypeOK
  PROVE  Marked \in 0 .. MaxSize - 1 /\ (Marked = 0 <=> head = protectPtr)
BY SizeAssumption DEF TypeOK, Marked, Index

\* A pop moves away from the mark, or comes upon it after a full turn.
LEMMA MarkedSucc ==
  ASSUME TypeOK, head' = Succ(head), protectPtr' = protectPtr
  PROVE  Marked' = Marked + 1 \/ Marked' = 0
BY SizeAssumption DEF TypeOK, Marked, Index, Succ

\* A turn of the rewind moves towards it.
LEMMA MarkedPred ==
  ASSUME TypeOK, head # protectPtr, head' = Pred(head), protectPtr' = protectPtr
  PROVE  Marked' = Marked - 1
BY SizeAssumption DEF TypeOK, Marked, Index, Pred

-----------------------------------------------------------------------------
(***************************************************************************)
(* Types and the count.  A store of the task writes back what it loaded,   *)
(* so that a byte pushed in between is at most forgotten.                  *)
(***************************************************************************)
LEMMA CountInductive ==
  ASSUME TypeOK, CountInv, [Next]_vars
  PROVE  TypeOK' /\ CountInv'
<1>. USE SizeAssumption DEF NoByte, Resetting
<1>0. Marked \in 0 .. MaxSize - 1 /\ (Marked = 0 <=> head = protectPtr)
  BY MarkedType
<1>1. CASE Push
  <2>1. TypeOK'
    <3>1. buff' \in [Index -> 0 .. NoByte]
      BY <1>1 DEF Push, TypeOK
    <3>2. tail' \in Index
      BY <1>1, StepType DEF Push, TypeOK
    <3>. QED  BY <1>1, <3>1, <3>2 DEF Push, TypeOK, mark
  <2>2. Marked' = Marked
    BY <1>1 DEF Push, mark, Marked
  <2>. QED  BY <1>1, <2>1, <2>2 DEF Push, TypeOK, CountInv, mark
<1>2. CASE PopLoad
  <2>1. head' \in Index
    BY <1>2, StepType DEF PopLoad, TypeOK
  <2>2. first' \in 0 .. next
    BY <1>2 DEF PopLoad, TypeOK, CountInv
  <2>3. TypeOK'
    BY <1>2, <2>1, <2>2 DEF PopLoad, TypeOK, mark
  <2>4. Marked' = Marked + 1 \/ Marked' = 0
    BY <1>2, MarkedSucc DEF PopLoad, mark
  <2>. QED  BY <1>0, <1>2, <2>3, <2>4 DEF PopLoad, TypeOK, CountInv
<1>3. CASE PopStore
  <2>1. TypeOK'
    BY <1>3 DEF PopStore, TypeOK, CountInv, mark
  <2>2. Marked' = Marked
    BY <1>3 DEF PopStore, mark, Marked
  <2>. QED  BY <1>3, <2>1, <2>2 DEF PopStore, TypeOK, CountInv
<1>4. CASE EnableProtect
  <2>1. TypeOK'
    BY <1>4 DEF EnableProtect, TypeOK
  <2>2. Marked' = 0
    BY <1>4 DEF EnableProtect, TypeOK, Index, Marked
  <2>. QED  BY <1>4, <2>1, <2>2 DEF EnableProtect, TypeOK, CountInv
<1>5. CASE DisableProtect
  <2>1. TypeOK'
    BY <1>5 DEF DisableProtect, TypeOK
  <2>2. Marked' = Marked
    BY <1>5 DEF DisableProtect, Marked
  <2>. QED  BY <1>5, <2>1, <2>2 DEF DisableProtect, TypeOK, CountInv
<1>6. CASE RewindLoad
  <2>1. head' \in Index
    BY <1>6, StepType DEF RewindLoad, TypeOK
  <2>2. first - 1 \in 0 .. next
    BY <1>0, <1>6 DEF RewindLoad, TypeOK, CountInv
  <2>3. TypeOK'
    BY <1>6, <2>1, <2>2 DEF RewindLoad, TypeOK, mark
  <2>4. Marked' = Marked - 1
    BY <1>6, MarkedPred DEF RewindLoad, mark
  <2>. QED  BY <1>0, <1>6, <2>2, <2>3, <2>4 DEF RewindLoad, TypeOK, CountInv
<1>7. CASE RewindStore
  <2>1. TypeOK'
    BY <1>7 DEF RewindStore, TypeOK, mark
  <2>2. Marked' = Marked
    BY <1>7 DEF RewindStore, mark, Marked
  <2>. QED  BY <1>7, <2>1, <2>2 DEF RewindStore, TypeOK, CountInv
<1>8. CASE RewindTurn
  <2>1. TypeOK'
    BY <1>8 DEF RewindTurn, TypeOK, mark
  <2>2. Marked' = Marked
    BY <1>8 DEF RewindTurn, mark, Marked
  <2>. QED  BY <1>8, <2>1, <2>2 DEF RewindTurn, TypeOK, CountInv
<1>9. CASE ResetSize
  <2>1. TypeOK'
    BY <1>9 DEF ResetSize, TypeOK, mark
  <2>. QED  BY <1>9, <2>1 DEF ResetSize, TypeOK, CountInv
<1>10. CASE ResetHead
  <2>1. TypeOK'
    BY <1>10 DEF ResetHead, TypeOK, Index, mark
  <2>. QED  BY <1>10, <2>1 DEF ResetHead, TypeOK, CountInv
<1>11. CASE ResetTail
  <2>1. TypeOK'
    <3>1. 0 \in Index
      BY DEF Index
    <3>. QED  BY <1>11, <3>1 DEF ResetTail, TypeOK
  <2>2. Marked' = 0
    BY <1>11 DEF ResetTail, CountInv, Marked
  <2>. QED  BY <1>11, <2>1, <2>2 DEF ResetTail, TypeOK, CountInv
<1>12. CASE UNCHANGED vars
  BY <1>12 DEF vars, TypeOK, CountInv, Marked
<1>. QED  BY <1>1, <1>2, <1>3, <1>4, <1>5, <1>6, <1>7, <1>8, <1>9, <1>10, <1>11, <1>12
          DEF Next

-----------------------------------------------------------------------------
(***************************************************************************)
(* The contents.                                                           *)
(***************************************************************************)

\* The interrupt overwrites the oldest byte that was popped, and no other.
LEMMA PushContents ==
  ASSUME TypeOK, DataInv, Push, pc = "idle", ~over, ~torn
  PROVE  Contents'
<1>. USE SizeAssumption
<1>1. Contents /\ Held = size /\ Held' = size + 1 /\ size \in 0 .. MaxSize - 1
  BY DEF DataInv, Resetting, Push, Held, Contents, TypeOK
<1>2. Marked' = Marked /\ Marked \in 0 .. MaxSize - 1 /\ head' = head /\ first' = first
  BY MarkedType DEF Push, mark, Marked
<1>3. tail' = Place(head', Held')
  BY <1>1, SuccPlace DEF Push, Contents, TypeOK
<1>4. ASSUME NEW j \in -Marked' .. Held' - 1, j >= Held' - MaxSize
      PROVE  buff'[Place(head', j)] = first' + j
  <2>1. CASE j = size
    <3>1. Place(head, j) = tail /\ tail \in Index /\ first + j = next
      BY <1>1, <2>1 DEF Contents, TypeOK
    <3>. QED  BY <1>2, <3>1 DEF Push, TypeOK
  <2>2. CASE j # size
    <3>1. j \in -Marked .. Held - 1 /\ j >= Held - MaxSize
      BY <1>1, <1>2, <1>4, <2>2
    <3>2. Place(head, j) # tail /\ Place(head, j) \in Index
      <4>1. j < size /\ size - j < MaxSize /\ j \in -MaxSize .. MaxSize
            /\ size \in -MaxSize .. MaxSize
        BY <1>1, <1>2, <1>4, <2>2
      <4>2. Place(head, j) # Place(head, size)
        BY <4>1, PlaceApart DEF TypeOK
      <4>. QED  BY <1>1, <4>1, <4>2, PlaceType DEF Contents, TypeOK
    <3>3. buff[Place(head, j)] = first + j
      BY <1>1, <3>1 DEF Contents
    <3>. QED  BY <1>2, <3>2, <3>3 DEF Push, TypeOK
  <2>. QED  BY <2>1, <2>2
<1>5. Held' = next' - first' /\ Held' \in 0 .. MaxSize
  BY <1>1, <1>2 DEF Push, Contents, TypeOK
<1>. QED  BY <1>3, <1>4, <1>5 DEF Contents

\* A pop leaves the byte behind head.
LEMMA PopContents ==
  ASSUME TypeOK, CountInv, DataInv, PopLoad, ~over, ~torn
  PROVE  Contents'
<1>. USE SizeAssumption
<1>1. Contents /\ Held = size /\ Held' = size - 1 /\ size \in 1 .. MaxSize
  BY DEF DataInv, Resetting, PopLoad, Held, Contents, TypeOK
<1>2. /\ Marked' = Marked + 1 \/ Marked' = 0
      /\ Marked \in 0 .. MaxSize - 1
      /\ head' = Succ(head) /\ first' = first + 1 /\ buff' = buff
  BY MarkedType, MarkedSucc DEF PopLoad, mark
<1>3. tail' = Place(head', Held')
  BY <1>1, <1>2, PlaceSucc DEF PopLoad, Contents, TypeOK
<1>4. ASSUME NEW j \in -Marked' .. Held' - 1, j >= Held' - MaxSize
      PROVE  buff'[Place(head', j)] = first' + j
  <2>1. j + 1 \in -Marked .. Held - 1 /\ j + 1 >= Held - MaxSize
        /\ j \in -MaxSize .. MaxSize - 1
    <3>1. CASE Marked' = Marked + 1
      BY <1>1, <1>2, <1>4, <3>1
    <3>2. CASE Marked' = 0
      BY <1>1, <1>2, <1>4, <3>2
    <3>. QED  BY <1>2, <3>1, <3>2
  <2>2. Place(head', j) = Place(head, j + 1)
    BY <1>2, <2>1, PlaceSucc DEF TypeOK
  <2>3. buff[Place(head, j + 1)] = first + (j + 1)
    BY <1>1, <2>1 DEF Contents
  <2>. QED  BY <1>2, <2>1, <2>2, <2>3 DEF TypeOK
<1>5. Held' = next' - first' /\ Held' \in 0 .. MaxSize
  BY <1>1, <1>2 DEF PopLoad, Contents, TypeOK
<1>. QED  BY <1>3, <1>4, <1>5 DEF Contents

\* A rewind of a FIFO with room gives back a byte nothing has overwritten.
LEMMA RewindContents ==
  ASSUME TypeOK, CountInv, DataInv, RewindLoad, ~over', ~torn
  PROVE  Contents'
<1>. USE SizeAssumption
<1>1. Contents /\ Held = size /\ Held' = size + 1 /\ size \in 0 .. MaxSize - 1
  <2>1. ~over /\ ~(size >= MaxSize)
    BY DEF RewindLoad, TypeOK
  <2>2. Contents /\ Held = size /\ Held' = size + 1
    BY <2>1 DEF DataInv, Resetting, RewindLoad, Held
  <2>. QED  BY <2>1, <2>2 DEF TypeOK
<1>2. Marked' = Marked - 1 /\ Marked \in 0 .. MaxSize - 1 /\ Marked # 0
      /\ head' = Pred(head) /\ first' = first - 1 /\ buff' = buff
  BY MarkedType, MarkedPred DEF RewindLoad, mark
<1>3. tail' = Place(head', Held')
  BY <1>1, <1>2, PlacePred DEF RewindLoad, Contents, TypeOK
<1>4. ASSUME NEW j \in -Marked' .. Held' - 1, j >= Held' - MaxSize
      PROVE  buff'[Place(head', j)] = first' + j
  <2>1. j - 1 \in -Marked .. Held - 1 /\ j - 1 >= Held - MaxSize
        /\ j \in 1 - MaxSize .. MaxSize
    BY <1>1, <1>2, <1>4
  <2>2. Place(head', j) = Place(head, j - 1)
    BY <1>2, <2>1, PlacePred DEF TypeOK
  <2>3. buff[Place(head, j - 1)] = first + (j - 1)
    BY <1>1, <2>1 DEF Contents
  <2>. QED  BY <1>2, <2>1, <2>2, <2>3 DEF TypeOK
<1>5. Held' = next' - first' /\ Held' \in 0 .. MaxSize
  BY <1>1, <1>2 DEF RewindLoad, Contents, TypeOK
<1>. QED  BY <1>3, <1>4, <1>5 DEF Contents

\* Every step keeps the contents, or is one of the two exceptions.
LEMMA DataInductive ==
  ASSUME TypeOK, CountInv, DataInv, [Next]_vars
  PROVE  DataInv'
<1>. SUFFICES ASSUME ~over', ~torn'
              PROVE  (/\ pc \in {"pop", "rewound"} => loaded = size
                      /\ Resetting => size = 0 /\ first = next
                      /\ ~Resetting => Contents)'
  BY DEF DataInv
<1>. USE SizeAssumption
<1>1. CASE Push
  <2>1. pc = "idle" /\ pc' = "idle" /\ ~over /\ ~torn
    BY <1>1 DEF Push
  <2>2. Contents'
    BY <1>1, <2>1, PushContents
  <2>. QED  BY <2>1, <2>2 DEF Resetting
<1>2. CASE PopLoad
  <2>1. Contents'
    BY <1>2, PopContents DEF PopLoad
  <2>. QED  BY <1>2, <2>1 DEF PopLoad, Resetting
<1>3. CASE PopStore
  <2>1. Contents /\ loaded = size
    BY <1>3 DEF PopStore, DataInv, Resetting
  <2>2. Held' = Held /\ Marked' = Marked
    BY <1>3, <2>1 DEF PopStore, Held, mark, Marked
  <2>3. Contents'
    BY <1>3, <2>1, <2>2 DEF PopStore, Contents
  <2>. QED  BY <1>3, <2>3 DEF PopStore, Resetting
<1>4. CASE EnableProtect
  <2>1. Contents /\ Held' = Held
    BY <1>4 DEF EnableProtect, DataInv, Resetting, Held
  <2>2. Marked' = 0 /\ Marked \in 0 .. MaxSize - 1
    BY <1>4, MarkedType DEF EnableProtect, TypeOK, Index, Marked
  <2>3. Contents'
    BY <1>4, <2>1, <2>2 DEF EnableProtect, Contents
  <2>. QED  BY <1>4, <2>3 DEF EnableProtect, Resetting
<1>5. CASE DisableProtect
  <2>1. Contents /\ Held' = Held /\ Marked' = Marked
    BY <1>5 DEF DisableProtect, DataInv, Resetting, Held, Marked
  <2>2. Contents'
    BY <1>5, <2>1 DEF DisableProtect, Contents
  <2>. QED  BY <1>5, <2>2 DEF DisableProtect, Resetting
<1>6. CASE RewindLoad
  <2>1. Contents'
    BY <1>6, RewindContents DEF RewindLoad
  <2>. QED  BY <1>6, <2>1 DEF RewindLoad, Resetting
<1>7. CASE RewindStore
  <2>1. Contents /\ loaded = size
    BY <1>7 DEF RewindStore, DataInv, Resetting
  <2>2. Held' = Held /\ Marked' = Marked
    BY <1>7, <2>1 DEF RewindStore, Held, mark, Marked
  <2>3. Contents'
    BY <1>7, <2>1, <2>2 DEF RewindStore, Contents
  <2>. QED  BY <1>7, <2>3 DEF RewindStore, Resetting
<1>8. CASE RewindTurn
  <2>1. Contents /\ Held' = Held /\ Marked' = Marked
    BY <1>8 DEF RewindTurn, DataInv, Resetting, Held, mark, Marked
  <2>2. Contents'
    BY <1>8, <2>1 DEF RewindTurn, Contents
  <2>. QED  BY <1>8, <2>2 DEF RewindTurn, Resetting
<1>9. CASE ResetSize
  BY <1>9 DEF ResetSize, Resetting
<1>10. CASE ResetHead
  BY <1>10 DEF ResetHead, DataInv, Resetting
<1>11. CASE ResetTail
  <2>1. size = 0 /\ first = next /\ head = 0
    BY <1>11 DEF ResetTail, DataInv, Resetting, CountInv
  <2>2. Held' = 0 /\ Marked' = 0 /\ Place(head', 0) = 0
    BY <1>11, <2>1 DEF ResetTail, Held, Marked, Place
  <2>3. Contents'
    BY <1>11, <2>1, <2>2 DEF ResetTail, Contents, TypeOK
  <2>. QED  BY <1>11, <2>3 DEF ResetTail, Resetting
<1>12. CASE UNCHANGED vars
  <2>1. UNCHANGED <<Held, Marked, Contents>>
    BY <1>12 DEF vars, Held, Marked, Contents
  <2>. QED  BY <1>12, <2>1 DEF vars, DataInv, Resetting
<1>. QED  BY <1>1, <1>2, <1>3, <1>4, <1>5, <1>6, <1>7, <1>8, <1>9, <1>10, <1>11, <1>12
          DEF Next

-----------------------------------------------------------------------------
(***************************************************************************)
(* The three parts together are an invariant.                              *)
(***************************************************************************)

\* The FIFO starts empty.
LEMMA FifoStart ==
  ASSUME Init
  PROVE  FifoInv
<1>1. TypeOK
  <2>1. 0 \in Index /\ NoByte \in 0 .. NoByte /\ 0 \in 0 .. MaxByte
    BY SizeAssumption DEF Index, NoByte
  <2>2. buff \in [Index -> 0 .. NoByte]
    BY <2>1 DEF Init
  <2>3. first \in 0 .. next /\ next \in 0 .. MaxByte /\ size \in Nat /\ loaded \in Nat
    BY <2>1 DEF Init
  <2>. QED  BY <2>1, <2>2, <2>3 DEF Init, TypeOK
<1>2. Marked = 0 /\ Held = 0 /\ Place(head, 0) = 0
  BY SizeAssumption DEF Init, Marked, Held, Place
<1>3. CountInv
  BY <1>2 DEF Init, CountInv, Resetting
<1>4. Contents
  BY <1>2, SizeAssumption DEF Init, Contents
<1>. QED  BY <1>1, <1>3, <1>4 DEF Init, FifoInv, DataInv, Resetting

\* The count between operations.
LEMMA InvNoPhantom ==
  ASSUME FifoInv
  PROVE  NoPhantom
BY DEF FifoInv, CountInv, NoPhantom

\* The contents between operations, as fifo.c counts places.
LEMMA InvHolds ==
  ASSUME FifoInv
  PROVE  HoldsArrived
<1>. SUFFICES ASSUME pc = "idle", ~over, ~torn  PROVE Consistent
  BY DEF HoldsArrived
<1>1. TypeOK /\ Contents /\ Held = size /\ Marked \in 0 .. MaxSize - 1
  BY MarkedType DEF FifoInv, DataInv, Resetting, Held
<1>2. \A i \in 0 .. MaxSize : (head + i) % MaxSize = Place(head, i)
  BY <1>1, PlaceMod DEF TypeOK
<1>3. size \in 0 .. MaxSize /\ size = next - first /\ tail = Place(head, size)
  BY <1>1 DEF Contents
<1>4. ASSUME NEW i \in 0 .. size - 1
      PROVE  buff[(head + i) % MaxSize] = first + i
  <2>1. i \in -Marked .. Held - 1 /\ i >= Held - MaxSize /\ i \in 0 .. MaxSize
    BY <1>1, <1>3, SizeAssumption
  <2>. QED  BY <1>1, <1>2, <2>1 DEF Contents
<1>. QED  BY <1>2, <1>3, <1>4 DEF Consistent

\* Every step of Fifo keeps them: whatever the task calls, and the interrupt.
THEOREM FifoInvariant == Spec => []FifoInv
<1>1. Init => FifoInv
  BY FifoStart
<1>2. FifoInv /\ [Next]_vars => FifoInv'
  BY CountInductive, DataInductive DEF FifoInv
<1>. QED  BY <1>1, <1>2, PTL DEF Spec

\* The indices never leave the buffer and the byte numbers stay in order.
THEOREM FifoTypeCorrect == Spec => []TypeOK
<1>1. FifoInv => TypeOK
  BY DEF FifoInv
<1>. QED  BY <1>1, FifoInvariant, PTL

\* Wherever the receive interrupt comes, the count of the FIFO never exceeds
\* what FIFO_Push has stored and FIFO_Pop not taken.
THEOREM NeverPhantom == Spec => []NoPhantom
<1>1. FifoInv => NoPhantom
  BY InvNoPhantom
<1>. QED  BY <1>1, FifoInvariant, PTL

\* A FIFO whose operations the interrupt has spared holds what has arrived and
\* not been popped, unless FIFO_RewindHead has been called on a full one.
THEOREM AlwaysHoldsArrived == Spec => []HoldsArrived
<1>1. FifoInv => HoldsArrived
  BY InvHolds
<1>. QED  BY <1>1, FifoInvariant, PTL

-----------------------------------------------------------------------------
(***************************************************************************)
(* The Modbus master.                                                      *)
(***************************************************************************)

\* Who has the FIFO, and where its task may be in it.
Places ==
  IF other THEN mpc = "ask" /\ line = <<>> /\ ~sending
  ELSE /\ mpc \in {"ask", "wait"} => pc = "idle"
       /\ mpc = "send" => pc \in {"reset", "tail", "idle"} /\ req < MaxReq
       /\ mpc = "read" => pc \in {"idle", "pop"}
       /\ size <= MaxSize /\ (pc = "pop" => loaded <= MaxSize)
       /\ mpc # "read" => data = <<>> /\ want = 0

(***************************************************************************)
(* A byte of an answer is sent once, and after the request it answers;     *)
(* what has been popped has arrived, and the first byte of an answer that  *)
(* was taken.                                                              *)
(***************************************************************************)
Asked(bytes) == \A i \in DOMAIN bytes : bytes[i][1] \in 1 .. req
NoneOf(bytes, r) == \A i \in DOMAIN bytes : bytes[i][1] # r

OneEach ==
  /\ ~other => Len(origin) = next
  /\ Asked(line) /\ Asked(origin)
  /\ \A i, j \in DOMAIN line : i # j => line[i] # line[j]
  /\ \A i \in DOMAIN line, j \in DOMAIN origin : line[i] # origin[j]
  /\ sending => req >= 1 /\ NoneOf(line, req) /\ NoneOf(origin, req)

Came(b) == \E j \in DOMAIN origin : origin[j] = b

Arrived ==
  /\ \A i \in DOMAIN data : data[i] = Unread \/ Came(data[i])
  /\ \A r \in taken : Came(<<r, 1>>)

(***************************************************************************)
(* The first byte that the task will pop, or has popped, is one of good,   *)
(* if more than skip bytes are counted.                                    *)
(***************************************************************************)
First(good, skip) ==
  /\ mpc = "send" /\ pc # "idle" => size = skip
  /\ mpc \in {"send", "wait"} /\ pc = "idle" =>
       /\ size >= skip
       /\ IF size = skip THEN tail = head ELSE Origin(buff[head]) \in good
  /\ mpc = "read" /\ Len(data) + want > skip =>
       (IF data = <<>> THEN Origin(buff[head]) ELSE data[1]) \in good

\* The bytes of the answer to the last request, and those no answer that was
\* taken begins with.
Own == {b \in Byte : b[1] = req /\ b # Unread}
New == {b \in Byte \ {Unread} : \A r \in taken : b # <<r, 1>>}

\* A request made while the line was quiet finds its own answer, or none.
OwnFirst ==
  clean /\ mpc # "ask" =>
    /\ mpc = "send" => line = <<>> /\ ~sending /\ size = 0
    /\ mpc # "send" => \A i \in DOMAIN line : line[i] \in Own
    /\ First(Own, 0)

\* No more bytes are stale than came inside the reset.
NewFirst == mpc # "ask" => First(New, inside)

MbInv == /\ FifoInv /\ MbTypeOK /\ Places
         /\ OneEach /\ Arrived /\ OwnFirst /\ NewFirst

-----------------------------------------------------------------------------
(***************************************************************************)
(* Sequences of bytes, and answers.                                        *)
(***************************************************************************)

\* The bytes behind the first one keep their order.
LEMMA Behind ==
  ASSUME NEW S, NEW s \in Seq(S), s # <<>>
  PROVE  /\ 1 \in DOMAIN s /\ Head(s) = s[1] /\ Head(s) \in S
         /\ Tail(s) \in Seq(S)
         /\ \A i \in DOMAIN Tail(s) : i + 1 \in DOMAIN s /\ Tail(s)[i] = s[i + 1]
<1>1. /\ Head(s) \in S /\ Tail(s) \in Seq(S) /\ Len(Tail(s)) = Len(s) - 1
      /\ \A i \in 1 .. Len(Tail(s)) : Tail(s)[i] = s[i + 1]
  BY HeadTailProperties
<1>2. Len(s) \in Nat /\ Len(s) # 0 /\ DOMAIN s = 1 .. Len(s) /\ DOMAIN Tail(s) = 1 .. Len(Tail(s))
  BY <1>1, LenProperties, EmptySeq
<1>3. Head(s) = s[1]
  OBVIOUS
<1>. QED  BY <1>1, <1>2, <1>3

\* A byte is put at the end.
LEMMA PutLast ==
  ASSUME NEW S, NEW s \in Seq(S), NEW b \in S
  PROVE  /\ Append(s, b) \in Seq(S) /\ Append(s, b) # <<>>
         /\ Len(s) \in Nat /\ Len(Append(s, b)) = Len(s) + 1
         /\ DOMAIN s = 1 .. Len(s) /\ DOMAIN Append(s, b) = 1 .. Len(s) + 1
         /\ Append(s, b)[Len(s) + 1] = b
         /\ \A i \in DOMAIN s : Append(s, b)[i] = s[i]
<1>1. /\ Append(s, b) \in Seq(S) /\ Append(s, b) # <<>>
      /\ Len(Append(s, b)) = Len(s) + 1
      /\ Append(s, b)[Len(s) + 1] = b
      /\ \A i \in 1 .. Len(s) : Append(s, b)[i] = s[i]
  BY AppendProperties
<1>2. Len(s) \in Nat /\ DOMAIN s = 1 .. Len(s) /\ DOMAIN Append(s, b) = 1 .. Len(Append(s, b))
  BY <1>1, LenProperties
<1>. QED  BY <1>1, <1>2

\* An answer follows what is on the line.
LEMMA Follows ==
  ASSUME NEW S, NEW s \in Seq(S), NEW t \in Seq(S)
  PROVE  /\ s \o t \in Seq(S)
         /\ \A i \in DOMAIN (s \o t) :
              \/ i \in DOMAIN s /\ (s \o t)[i] = s[i]
              \/ /\ i \notin DOMAIN s /\ i - Len(s) \in DOMAIN t
                 /\ (s \o t)[i] = t[i - Len(s)]
<1>1. /\ s \o t \in Seq(S) /\ Len(s \o t) = Len(s) + Len(t)
      /\ \A i \in 1 .. Len(s) + Len(t) :
           (s \o t)[i] = IF i <= Len(s) THEN s[i] ELSE t[i - Len(s)]
  BY ConcatProperties
<1>2. /\ Len(s) \in Nat /\ Len(t) \in Nat /\ DOMAIN s = 1 .. Len(s) /\ DOMAIN t = 1 .. Len(t)
      /\ DOMAIN (s \o t) = 1 .. Len(s \o t)
  BY <1>1, LenProperties
<1>. QED  BY <1>1, <1>2

\* A byte of an answer is the pair of its request and its place.
LEMMA ByteType ==
  ASSUME NEW b \in Byte \ {Unread}
  PROVE  b = <<b[1], b[2]>> /\ b[1] \in 1 .. MaxReq /\ b[2] \in 1 .. AnsLen
BY DEF Byte, Unread

\* It is never what an unwritten slot holds.
LEMMA AnswerByte ==
  ASSUME NEW r \in 1 .. MaxReq, NEW i \in 1 .. AnsLen
  PROVE  <<r, i>> \in Byte \ {Unread} /\ <<r, i>>[1] = r
<1>1. <<r, i>> # <<0, 0>>
  BY ModbusAssumption
<1>. QED  BY <1>1 DEF Byte, Unread

\* An answer has AnsLen different bytes.
LEMMA AnswerType ==
  ASSUME NEW r \in 1 .. MaxReq
  PROVE  /\ Answer(r) \in Seq(Byte \ {Unread}) /\ Len(Answer(r)) = AnsLen
         /\ DOMAIN Answer(r) = 1 .. AnsLen /\ 1 \in DOMAIN Answer(r)
         /\ \A i \in DOMAIN Answer(r) : Answer(r)[i] = <<r, i>>
<1>1. Answer(r) \in [1 .. AnsLen -> Byte \ {Unread}]
  BY AnswerByte DEF Answer
<1>2. AnsLen \in Nat \ {0}
  BY ModbusAssumption
<1>3. Answer(r) \in Seq(Byte \ {Unread}) /\ Len(Answer(r)) = AnsLen
  BY <1>1, <1>2, LenProperties, SeqDef
<1>. QED  BY <1>1, <1>2, <1>3 DEF Answer

\* Reading a slot gives a byte that has arrived, or an old content.
LEMMA OriginType ==
  ASSUME MbTypeOK, OneEach, ~other, NEW b \in 0 .. NoByte
  PROVE  /\ Origin(b) \in Byte
         /\ Origin(b) = Unread \/ Came(Origin(b))
         /\ Origin(b) # Unread => b < next
         /\ b < next => b + 1 \in DOMAIN origin /\ Origin(b) = origin[b + 1]
                        /\ Origin(b) # Unread
<1>1. next \in Nat /\ Len(origin) = next /\ b \in Nat
  BY SizeAssumption DEF MbTypeOK, TypeOK, OneEach, NoByte
<1>2. DOMAIN origin = 1 .. next /\ \A j \in DOMAIN origin : origin[j] \in Byte \ {Unread}
  BY <1>1, LenProperties DEF MbTypeOK
<1>3. b < next => b + 1 \in DOMAIN origin
  BY <1>1, <1>2
<1>4. Unread \in Byte
  BY DEF Byte
<1>. QED  BY <1>2, <1>3, <1>4 DEF Origin, Came

\* An answer that is taken is whole, was asked for and has arrived.
LEMMA AnswerTaken ==
  ASSUME MbTypeOK, OneEach, Arrived, data \in Answers
  PROVE  \E r \in 1 .. req : /\ data = Answer(r) /\ Len(data) = AnsLen /\ data # <<>>
                             /\ data[1] = <<r, 1>> /\ data[1][1] = r /\ Came(<<r, 1>>)
<1>1. PICK r \in 1 .. MaxReq : data = Answer(r)
  BY DEF Answers
<1>2. /\ Len(data) = AnsLen /\ DOMAIN data = 1 .. AnsLen
      /\ 1 \in DOMAIN data /\ data[1] = <<r, 1>>
  BY <1>1, AnswerType
<1>3. 1 \in 1 .. AnsLen
  BY <1>2
<1>4. <<r, 1>> # Unread /\ <<r, 1>>[1] = r
  BY <1>3, AnswerByte
<1>5. PICK j \in DOMAIN origin : origin[j] = <<r, 1>>
  BY <1>2, <1>4 DEF Arrived, Came
<1>6. r \in 1 .. req
  BY <1>4, <1>5 DEF OneEach, Asked
<1>7. data # <<>>
  BY <1>2
<1>. QED  BY <1>1, <1>2, <1>4, <1>5, <1>6, <1>7 DEF Came

-----------------------------------------------------------------------------
(***************************************************************************)
(* The FIFO under the master: it makes Fifo's steps, and the restart.      *)
(***************************************************************************)
\* Only the restart is not a step of Fifo, and it empties the FIFO.
LEMMA MbFifoStep ==
  ASSUME FifoInv, [MbNext]_mbVars
  PROVE  FifoInv'
<1>1. ASSUME [Next]_vars  PROVE FifoInv'
  BY <1>1, CountInductive, DataInductive DEF FifoInv
<1>2. ASSUME Fault  PROVE FifoInv'
  <2>1. pc = "idle" /\ pc' = "idle" /\ buff' = buff /\ next' = next /\ torn' = torn
        /\ size' = 0 /\ head' = 0 /\ tail' = 0 /\ loaded' = 0 /\ first' = next
        /\ enProtect' = FALSE /\ protectPtr' = 0 /\ over' = FALSE
    BY <1>2 DEF Fault, Read
  <2>2. 0 \in Index /\ MaxSize \in Nat \ {0} /\ TypeOK
    BY SizeAssumption DEF Index, FifoInv
  <2>3. next \in Nat /\ next \in 0 .. next
    BY <2>2, SizeAssumption DEF TypeOK
  <2>4. TypeOK'
    BY <2>1, <2>2, <2>3 DEF TypeOK, NoByte
  <2>5. Marked' = 0 /\ Held' = 0 /\ Place(head', 0) = 0
    BY <2>1, <2>2 DEF Marked, Held, Place
  <2>6. CountInv'
    BY <2>1, <2>3, <2>5 DEF CountInv, Resetting
  <2>7. Contents'
    BY <2>1, <2>2, <2>3, <2>5 DEF Contents
  <2>8. DataInv'
    BY <2>1, <2>7 DEF DataInv, Resetting
  <2>. QED  BY <2>4, <2>6, <2>8 DEF FifoInv
<1>3. ASSUME ~Fault  PROVE [Next]_vars
  BY <1>3 DEF MbNext, Master, mbVars, Next, Arrive, Lose, TxDone, Reset, ResetRest, Send,
              SendBusy, WakeUp, NoAnswer, Pop, PopRest, Accept, Refuse
<1>. QED  BY <1>1, <1>2, <1>3

-----------------------------------------------------------------------------
(***************************************************************************)
(* Types and places.                                                       *)
(***************************************************************************)

\* The master asks its nodes in turn.
LEMMA AskNextType ==
  ASSUME MbTypeOK, NEW stt \in {"ok", "failed"}, AskNext(stt)
  PROVE  /\ mpc' = "ask" /\ node' \in Node /\ want' = 0 /\ data' = <<>>
         /\ status' \in [Node -> {"none", "ok", "failed"}]
<1>1. node % NumNode \in 0 .. NumNode - 1 /\ NumNode \in Nat \ {0}
  BY ModbusAssumption DEF MbTypeOK, Node
<1>2. node' \in Node
  BY <1>1 DEF AskNext, Node
<1>. QED  BY <1>2 DEF AskNext, MbTypeOK

\* Nothing of an answer yet.
LEMMA NoData == <<>> \in Seq(Byte) /\ Len(<<>>) = 0 /\ DOMAIN <<>> = {}
BY EmptySeq

\* A step of the master leaves its FIFO where the next one expects it.
LEMMA PlacesStep ==
  ASSUME FifoInv, MbTypeOK, Places, [MbNext]_mbVars
  PROVE  Places'
<1>. USE DEF link, task, around
<1>a. TypeOK /\ MaxSize \in Nat \ {0}
  BY SizeAssumption DEF FifoInv
<1>1. ASSUME other, Next, UNCHANGED <<around, task>>  PROVE Places'
  BY <1>1 DEF Places
<1>2. ASSUME ~other, Arrive  PROVE Places'
  <2>1. UNCHANGED <<other, sending, task, pc, loaded>> /\ size < MaxSize /\ size' = size + 1
    BY <1>2 DEF Arrive, Push
  <2>. QED  BY <1>a, <1>2, <2>1 DEF Places, TypeOK
<1>3. ASSUME ~other, UNCHANGED <<other, task, pc, loaded, size>>  PROVE Places'
  BY <1>3 DEF Places
<1>4. ASSUME ~other, Reset  PROVE Places'
  BY <1>a, <1>4 DEF Reset, ResetSize, Places
<1>5. ASSUME ~other, ResetRest  PROVE Places'
  BY <1>5 DEF ResetRest, ResetHead, ResetTail, Places
<1>6. ASSUME ~other, Send  PROVE Places'
  BY <1>6 DEF Send, vars, Places
<1>7. ASSUME ~other, UNCHANGED <<vars, around>>, pc = "idle",
             NEW stt \in {"ok", "failed"}, AskNext(stt)
      PROVE  Places'
  BY <1>7 DEF AskNext, vars, Places
<1>8. ASSUME ~other, WakeUp  PROVE Places'
  BY <1>8 DEF WakeUp, vars, Places
<1>9. ASSUME ~other, Pop  PROVE Places'
  BY <1>9 DEF Pop, PopLoad, Places
<1>10. ASSUME ~other, PopRest  PROVE Places'
  <2>1. UNCHANGED <<around, task>> /\ pc = "pop" /\ pc' = "idle" /\ size' = loaded - 1
    BY <1>10 DEF PopRest, PopStore
  <2>2. mpc = "read" /\ mpc' = "read"
    BY <1>10, <2>1 DEF PopRest
  <2>. QED  BY <1>a, <1>10, <2>1, <2>2 DEF Places, TypeOK
<1>11. ASSUME ~other, Fault  PROVE Places'
  BY <1>a, <1>11 DEF Fault, Read, Places
<1>12. ASSUME UNCHANGED mbVars  PROVE Places'
  BY <1>12 DEF mbVars, vars, Places
<1>13. ASSUME ~other, Lose \/ TxDone  PROVE Places'
  BY <1>3, <1>13 DEF Lose, TxDone, vars
<1>14. ASSUME ~other, SendBusy \/ NoAnswer \/ Accept \/ Refuse  PROVE Places'
  BY <1>7, <1>14 DEF SendBusy, NoAnswer, Accept, Refuse, Read, Places
<1>. QED
  BY <1>1, <1>2, <1>4, <1>5, <1>6, <1>8, <1>9, <1>10, <1>11, <1>12, <1>13, <1>14
  DEF MbNext, Master

\* What is popped fits in the FIFO, and what is taken was asked for.
LEMMA MbTypeStep ==
  ASSUME TypeOK', MbTypeOK, Places, OneEach, Arrived, [MbNext]_mbVars
  PROVE  MbTypeOK'
<1>. USE DEF link, task, around
<1>a. MaxSize \in Nat \ {0} /\ TypeOK /\ req \in Nat /\ MaxReq \in Nat
  BY SizeAssumption, ModbusAssumption DEF MbTypeOK
<1>1. ASSUME other, Next, UNCHANGED <<around, task>>  PROVE MbTypeOK'
  BY <1>1 DEF MbTypeOK
<1>2. ASSUME ~other, Arrive  PROVE MbTypeOK'
  <2>1. /\ Head(line) \in Byte \ {Unread} /\ Tail(line) \in Seq(Byte \ {Unread})
        /\ Append(origin, Head(line)) \in Seq(Byte \ {Unread})
    BY <1>2, Behind, PutLast DEF Arrive, MbTypeOK
  <2>2. UNCHANGED <<other, sending, task>> /\ inside' \in Nat
    BY <1>2 DEF Arrive, MbTypeOK
  <2>. QED  BY <1>2, <2>1, <2>2 DEF Arrive, MbTypeOK
<1>3. ASSUME ~other, Lose  PROVE MbTypeOK'
  <2>1. Tail(line) \in Seq(Byte \ {Unread})
    BY <1>3, Behind DEF Lose, MbTypeOK
  <2>. QED  BY <1>3, <2>1 DEF Lose, MbTypeOK
<1>4. ASSUME ~other, TxDone  PROVE MbTypeOK'
  <2>1. req \in 1 .. MaxReq
    BY <1>a, <1>4 DEF TxDone, OneEach, MbTypeOK
  <2>2. line \o Answer(req) \in Seq(Byte \ {Unread})
    BY <2>1, AnswerType, Follows DEF MbTypeOK
  <2>3. line' \in Seq(Byte \ {Unread})
    BY <1>4, <2>2 DEF TxDone, MbTypeOK
  <2>. QED  BY <1>4, <2>3 DEF TxDone, MbTypeOK
<1>5. ASSUME ~other, Reset  PROVE MbTypeOK'
  <2>1. clean' \in BOOLEAN /\ inside' \in Nat /\ mpc' = "send"
    BY <1>5 DEF Reset
  <2>. QED  BY <1>5, <2>1 DEF Reset, MbTypeOK
<1>6. ASSUME ~other, ResetRest \/ PopRest  PROVE MbTypeOK'
  BY <1>6 DEF ResetRest, PopRest, MbTypeOK
<1>7. ASSUME ~other, Send  PROVE MbTypeOK'
  <2>1. req' \in 0 .. MaxReq /\ taken' \subseteq 1 .. req'
    <3>1. req + 1 <= MaxReq
      BY <1>a, <1>7 DEF Send, Places
    <3>. QED  BY <1>a, <1>7, <3>1 DEF Send, MbTypeOK
  <2>. QED  BY <1>7, <2>1 DEF Send, MbTypeOK
<1>8. ASSUME ~other, UNCHANGED <<vars, around, req, value, clean, taken>>,
             NEW stt \in {"ok", "failed"}, AskNext(stt)
      PROVE  MbTypeOK'
  <2>1. /\ mpc' = "ask" /\ node' \in Node /\ want' = 0 /\ data' = <<>>
        /\ status' \in [Node -> {"none", "ok", "failed"}]
    BY <1>8, AskNextType
  <2>2. data' \in Seq(Byte) /\ want' \in Nat /\ Len(data') + want' <= MaxSize
    BY <1>a, <2>1, NoData
  <2>. QED  BY <1>8, <2>1, <2>2 DEF MbTypeOK
<1>9. ASSUME ~other, WakeUp  PROVE MbTypeOK'
  <2>1. data = <<>> /\ size <= MaxSize
    BY <1>9 DEF WakeUp, Places
  <2>2. want' \in Nat /\ Len(data') + want' <= MaxSize /\ data' \in Seq(Byte)
    BY <1>a, <1>9, <2>1, NoData DEF WakeUp, TypeOK
  <2>. QED  BY <1>9, <2>2 DEF WakeUp, MbTypeOK
<1>10. ASSUME ~other, Pop  PROVE MbTypeOK'
  <2>1. Origin(buff[head]) \in Byte
    BY <1>a, <1>10, OriginType DEF TypeOK
  <2>2. /\ Append(data, Origin(buff[head])) \in Seq(Byte)
        /\ Len(Append(data, Origin(buff[head]))) = Len(data) + 1 /\ Len(data) \in Nat
    BY <2>1, PutLast DEF MbTypeOK
  <2>3. want' \in Nat /\ want' = want - 1 /\ data' = Append(data, Origin(buff[head]))
    BY <1>10 DEF Pop, MbTypeOK
  <2>4. data' \in Seq(Byte) /\ Len(data') + want' <= MaxSize
    BY <1>a, <2>2, <2>3 DEF MbTypeOK
  <2>. QED  BY <1>10, <2>3, <2>4 DEF Pop, MbTypeOK
<1>11. ASSUME ~other, Accept  PROVE MbTypeOK'
  <2>1. PICK r \in 1 .. req : data[1][1] = r
    BY <1>11, AnswerTaken DEF Accept
  <2>2. /\ value' = [value EXCEPT ![node] = r] /\ taken' = taken \cup {r}
        /\ req' = req /\ req \in 0 .. MaxReq
    BY <1>11, <2>1 DEF Accept, MbTypeOK
  <2>3. value' \in [Node -> 0 .. MaxReq] /\ taken' \subseteq 1 .. req'
    BY <1>a, <2>2 DEF MbTypeOK
  <2>4. UNCHANGED <<vars, around, req, clean>> /\ AskNext("ok")
    BY <1>11 DEF Accept
  <2>5. /\ mpc' = "ask" /\ node' \in Node /\ want' = 0 /\ data' = <<>>
        /\ status' \in [Node -> {"none", "ok", "failed"}]
    BY <2>4, AskNextType
  <2>6. data' \in Seq(Byte) /\ want' \in Nat /\ Len(data') + want' <= MaxSize
    BY <1>a, <2>5, NoData
  <2>. QED  BY <2>3, <2>4, <2>5, <2>6 DEF MbTypeOK
<1>12. ASSUME ~other, Fault  PROVE MbTypeOK'
  <2>1. 1 \in Node /\ 0 \in 0 .. MaxReq
    BY <1>a, ModbusAssumption DEF Node
  <2>2. status' \in [Node -> {"none", "ok", "failed"}] /\ value' \in [Node -> 0 .. MaxReq]
    BY <1>12, <2>1 DEF Fault
  <2>3. data' \in Seq(Byte) /\ want' \in Nat /\ Len(data') + want' <= MaxSize
    BY <1>a, <1>12, NoData DEF Fault
  <2>4. UNCHANGED <<other, clean, req, inside, line, origin, taken>>
        /\ mpc' = "ask" /\ node' = 1 /\ sending' = FALSE
    BY <1>12 DEF Fault
  <2>. QED  BY <2>1, <2>2, <2>3, <2>4 DEF MbTypeOK
<1>13. ASSUME UNCHANGED mbVars  PROVE MbTypeOK'
  BY <1>13 DEF mbVars, MbTypeOK
<1>14. ASSUME ~other, SendBusy \/ NoAnswer \/ Refuse  PROVE MbTypeOK'
  BY <1>8, <1>14 DEF SendBusy, NoAnswer, Refuse
<1>. QED
  BY <1>1, <1>2, <1>3, <1>4, <1>5, <1>6, <1>7, <1>9, <1>10, <1>11, <1>12, <1>13, <1>14
  DEF MbNext, Master

-----------------------------------------------------------------------------
(***************************************************************************)
(* The bytes of the answers.                                               *)
(***************************************************************************)
\* No step sends a byte twice.
LEMMA OneEachStep ==
  ASSUME MbTypeOK, Places, OneEach, [MbNext]_mbVars
  PROVE  OneEach'
<1>. USE DEF link, task, around
<1>a. TypeOK /\ req \in Nat /\ next \in Nat /\ Len(origin) \in Nat
  BY SizeAssumption, ModbusAssumption, LenProperties DEF MbTypeOK, TypeOK
<1>1. ASSUME other, Next, UNCHANGED <<around, task>>  PROVE OneEach'
  BY <1>1 DEF OneEach, Asked, NoneOf
<1>2. ASSUME ~other, Arrive  PROVE OneEach'
  <2>1. /\ line # <<>> /\ line \in Seq(Byte \ {Unread}) /\ origin \in Seq(Byte \ {Unread})
        /\ line' = Tail(line) /\ origin' = Append(origin, Head(line))
        /\ next' = next + 1 /\ ~sending' /\ req' = req /\ other' = other
    BY <1>2 DEF Arrive, Push, MbTypeOK
  <2>2. /\ 1 \in DOMAIN line /\ Head(line) = line[1] /\ Head(line) \in Byte \ {Unread}
        /\ \A i \in DOMAIN line' : i \in Nat /\ i + 1 \in DOMAIN line /\ i + 1 # 1
                                   /\ line'[i] = line[i + 1]
    <3>1. \A i \in DOMAIN Tail(line) : i \in Nat /\ i + 1 # 1
      BY <2>1, Behind, LenProperties
    <3>. QED  BY <2>1, <3>1, Behind
  <2>3. /\ Len(origin') = Len(origin) + 1
        /\ \A j \in DOMAIN origin' :
             \/ j \in DOMAIN origin /\ origin'[j] = origin[j]
             \/ origin'[j] = line[1]
    <3>1. /\ Len(origin') = Len(origin) + 1 /\ Len(origin) \in Nat
          /\ DOMAIN origin = 1 .. Len(origin) /\ DOMAIN origin' = 1 .. Len(origin) + 1
          /\ origin'[Len(origin) + 1] = line[1]
          /\ \A j \in DOMAIN origin : origin'[j] = origin[j]
      BY <2>1, <2>2, PutLast
    <3>. QED  BY <3>1
  <2>4. \A i, j \in DOMAIN line' : i # j => line'[i] # line'[j]
    <3>1. \A i, j \in DOMAIN line' : i # j => i + 1 # j + 1
      BY <2>2
    <3>. QED  BY <2>2, <3>1 DEF OneEach
  <2>5. \A i \in DOMAIN line', j \in DOMAIN origin' : line'[i] # origin'[j]
    BY <2>2, <2>3 DEF OneEach
  <2>6. Asked(line)' /\ Asked(origin)'
    BY <2>1, <2>2, <2>3 DEF OneEach, Asked
  <2>7. Len(origin') = next'
    BY <1>2, <2>1, <2>3 DEF OneEach
  <2>. QED  BY <2>1, <2>4, <2>5, <2>6, <2>7 DEF OneEach
<1>3. ASSUME ~other, Lose  PROVE OneEach'
  <2>1. /\ line # <<>> /\ line \in Seq(Byte \ {Unread}) /\ line' = Tail(line)
        /\ UNCHANGED <<other, origin, next, req, sending>>
    BY <1>3 DEF Lose, vars, MbTypeOK
  <2>2. \A i \in DOMAIN line' : i \in Nat /\ i + 1 \in DOMAIN line /\ line'[i] = line[i + 1]
    <3>1. \A i \in DOMAIN Tail(line) : i \in Nat
      BY <2>1, Behind, LenProperties
    <3>. QED  BY <2>1, <3>1, Behind
  <2>3. \A i, j \in DOMAIN line' : i # j => line'[i] # line'[j]
    <3>1. \A i, j \in DOMAIN line' : i # j => i + 1 # j + 1
      BY <2>2
    <3>. QED  BY <2>2, <3>1 DEF OneEach
  <2>4. Asked(line)' /\ Asked(origin)' /\ (sending' => NoneOf(line, req)' /\ NoneOf(origin, req)')
    BY <2>1, <2>2 DEF OneEach, Asked, NoneOf
  <2>5. \A i \in DOMAIN line', j \in DOMAIN origin' : line'[i] # origin'[j]
    BY <2>1, <2>2 DEF OneEach
  <2>. QED  BY <2>1, <2>3, <2>4, <2>5 DEF OneEach
<1>4. ASSUME UNCHANGED <<other, line, origin, next, req>>, sending' => sending
      PROVE  OneEach'
  BY <1>4 DEF OneEach, Asked, NoneOf
<1>5. ASSUME ~other, TxDone  PROVE OneEach'
  <2>1. /\ UNCHANGED <<other, origin, next, req>> /\ sending /\ ~sending'
        /\ line' = line \/ line' = line \o Answer(req)
    BY <1>5 DEF TxDone, vars
  <2>2. CASE line' = line
    BY <1>4, <2>1, <2>2
  <2>3. CASE line' = line \o Answer(req)
    <3>1. req \in 1 .. MaxReq /\ NoneOf(line, req) /\ NoneOf(origin, req)
      BY <1>a, <2>1 DEF OneEach, MbTypeOK
    <3>2. /\ Answer(req) \in Seq(Byte \ {Unread}) /\ DOMAIN Answer(req) = 1 .. AnsLen
          /\ \A i \in 1 .. AnsLen : Answer(req)[i] = <<req, i>>
      BY <3>1, AnswerType
    <3>3. \A i \in DOMAIN line' :
            \/ i \in DOMAIN line /\ line'[i] = line[i]
            \/ i \notin DOMAIN line /\ line'[i] = <<req, i - Len(line)>>
      <4>. DEFINE a == Answer(req)
      <4>1. a \in Seq(Byte \ {Unread}) /\ line \in Seq(Byte \ {Unread}) /\ line' = line \o a
        BY <2>3, <3>2 DEF MbTypeOK
      <4>2. \A i \in DOMAIN a : a[i] = <<req, i>>
        BY <3>2
      <4>. HIDE DEF a
      <4>3. \A i \in DOMAIN (line \o a) :
              \/ i \in DOMAIN line /\ (line \o a)[i] = line[i]
              \/ /\ i \notin DOMAIN line /\ i - Len(line) \in DOMAIN a
                 /\ (line \o a)[i] = a[i - Len(line)]
        BY <4>1, Follows
      <4>. QED  BY <4>1, <4>2, <4>3
    <3>4. \A i \in DOMAIN line' : i \in Nat
      BY <2>3, <3>2, Follows, LenProperties DEF MbTypeOK
    <3>5. Len(line) \in Nat
      BY LenProperties DEF MbTypeOK
    <3>6. ASSUME NEW i \in DOMAIN line', NEW j \in DOMAIN line', i # j
          PROVE  line'[i] # line'[j]
      <4>1. CASE i \in DOMAIN line /\ j \in DOMAIN line
        BY <3>3, <3>6, <4>1 DEF OneEach
      <4>2. CASE i \in DOMAIN line /\ j \notin DOMAIN line
        BY <3>1, <3>3, <4>2 DEF NoneOf
      <4>3. CASE i \notin DOMAIN line /\ j \in DOMAIN line
        BY <3>1, <3>3, <4>3 DEF NoneOf
      <4>4. CASE i \notin DOMAIN line /\ j \notin DOMAIN line
        <5>1. i - Len(line) # j - Len(line)
          BY <3>4, <3>5, <3>6
        <5>. QED  BY <3>3, <4>4, <5>1
      <4>. QED  BY <4>1, <4>2, <4>3, <4>4
    <3>7. \A i \in DOMAIN line', j \in DOMAIN origin' : line'[i] # origin'[j]
      BY <2>1, <3>1, <3>3 DEF OneEach, NoneOf
    <3>8. Asked(line)' /\ Asked(origin)'
      BY <1>a, <2>1, <3>1, <3>3 DEF OneEach, Asked
    <3>. QED  BY <2>1, <3>6, <3>7, <3>8 DEF OneEach
  <2>. QED  BY <2>1, <2>2, <2>3
<1>6. ASSUME ~other, Send  PROVE OneEach'
  <2>1. UNCHANGED <<other, line, origin, next>> /\ req' = req + 1
    BY <1>6 DEF Send, vars
  <2>2. Asked(line)' /\ Asked(origin)' /\ NoneOf(line, req)' /\ NoneOf(origin, req)' /\ req' >= 1
    BY <1>a, <2>1 DEF OneEach, Asked, NoneOf
  <2>. QED  BY <2>1, <2>2 DEF OneEach
<1>7. ASSUME ~other, Master, ~Send  PROVE OneEach'
  <2>1. UNCHANGED <<other, line, origin, next, req>> /\ (sending' => sending)
    BY <1>7 DEF Master, Reset, ResetSize, ResetRest, ResetHead, ResetTail, SendBusy, WakeUp,
                NoAnswer, Pop, PopLoad, PopRest, PopStore, Accept, Refuse, Fault, vars
  <2>. QED  BY <1>4, <2>1
<1>8. ASSUME UNCHANGED mbVars  PROVE OneEach'
  BY <1>4, <1>8 DEF mbVars, vars
<1>. QED
  BY <1>1, <1>2, <1>3, <1>5, <1>6, <1>7, <1>8 DEF MbNext

\* No step forgets what has arrived.
LEMMA ArrivedStep ==
  ASSUME MbTypeOK, Places, OneEach, Arrived, [MbNext]_mbVars
  PROVE  Arrived'
<1>. USE DEF link, task, around
<1>1. ASSUME UNCHANGED <<origin, taken, data>>  PROVE Arrived'
  BY <1>1 DEF Arrived, Came
<1>2. ASSUME UNCHANGED <<origin, taken>>, data' = <<>>  PROVE Arrived'
  BY <1>2, NoData DEF Arrived, Came
<1>3. ASSUME Arrive  PROVE Arrived'
  <2>1. UNCHANGED <<taken, data>> /\ origin' = Append(origin, Head(line))
    BY <1>3 DEF Arrive
  <2>2. Head(line) \in Byte \ {Unread} /\ origin \in Seq(Byte \ {Unread})
    BY <1>3, Behind DEF Arrive, MbTypeOK
  <2>3. \A j \in DOMAIN origin : j \in DOMAIN origin' /\ origin'[j] = origin[j]
    <3>1. /\ Len(origin) \in Nat /\ DOMAIN origin = 1 .. Len(origin)
          /\ DOMAIN origin' = 1 .. Len(origin) + 1
          /\ \A j \in DOMAIN origin : origin'[j] = origin[j]
      BY <2>1, <2>2, PutLast
    <3>. QED  BY <3>1
  <2>. QED  BY <2>1, <2>3 DEF Arrived, Came
<1>4. ASSUME ~other, Pop  PROVE Arrived'
  <2>. DEFINE b == Origin(buff[head])
  <2>1. b \in Byte /\ (b = Unread \/ Came(b))
    BY <1>4, OriginType DEF MbTypeOK, TypeOK
  <2>2. UNCHANGED <<origin, taken>> /\ data' = Append(data, b) /\ data \in Seq(Byte)
    BY <1>4 DEF Pop, MbTypeOK
  <2>. HIDE DEF b
  <2>3. \A i \in DOMAIN data' :
          \/ i \in DOMAIN data /\ data'[i] = data[i]
          \/ data'[i] = b
    <3>1. /\ Len(data) \in Nat /\ DOMAIN data = 1 .. Len(data)
          /\ DOMAIN data' = 1 .. Len(data) + 1 /\ data'[Len(data) + 1] = b
          /\ \A j \in DOMAIN data : data'[j] = data[j]
      BY <2>1, <2>2, PutLast
    <3>. QED  BY <3>1
  <2>. QED  BY <2>1, <2>2, <2>3 DEF Arrived, Came
<1>5. ASSUME Accept  PROVE Arrived'
  <2>1. PICK r \in 1 .. req : data[1][1] = r /\ Came(<<r, 1>>)
    BY <1>5, AnswerTaken DEF Accept
  <2>2. origin' = origin /\ data' = <<>> /\ taken' = taken \cup {r}
    BY <1>5, <2>1 DEF Accept, AskNext
  <2>. QED  BY <2>1, <2>2, NoData DEF Arrived, Came
<1>6. ASSUME SendBusy \/ NoAnswer \/ Refuse \/ Fault  PROVE Arrived'
  BY <1>2, <1>6 DEF SendBusy, NoAnswer, Refuse, Fault, AskNext
<1>7. ASSUME Lose \/ TxDone \/ Reset \/ ResetRest \/ Send \/ WakeUp \/ PopRest  PROVE Arrived'
  BY <1>1, <1>7 DEF Lose, TxDone, Reset, ResetRest, Send, WakeUp, PopRest
<1>8. ASSUME UNCHANGED mbVars  PROVE Arrived'
  BY <1>1, <1>8 DEF mbVars
<1>9. ASSUME other, Next, UNCHANGED <<around, task>>  PROVE Arrived'
  BY <1>1, <1>9
<1>. QED
  BY <1>3, <1>4, <1>5, <1>6, <1>7, <1>8, <1>9 DEF MbNext, Master

-----------------------------------------------------------------------------
(***************************************************************************)
(* The byte at the head.                                                   *)
(***************************************************************************)

\* A byte that arrives is seen at the head of an empty FIFO; otherwise what is
\* seen there stays, or the byte has overwritten it.
LEMMA SeenArrive ==
  ASSUME MbTypeOK, OneEach, ~other, Arrive
  PROVE  /\ UNCHANGED <<head, pc, task>> /\ size' = size + 1
         /\ tail = head => Origin(buff[head])' = Head(line)
         /\ Origin(buff[head]) # Unread
              => Origin(buff[head])' = Origin(buff[head]) \/ Origin(buff[head])' = Head(line)
<1>. USE DEF link, task, around
<1>1. /\ UNCHANGED <<head, pc, task>> /\ size' = size + 1 /\ next' = next + 1
      /\ buff' = [buff EXCEPT ![tail] = next] /\ origin' = Append(origin, Head(line))
      /\ line # <<>>
  BY DEF Arrive, Push
<1>2. /\ next \in Nat /\ Len(origin) = next /\ buff \in [Index -> 0 .. NoByte]
      /\ head \in Index /\ tail \in Index /\ NoByte \in Nat
      /\ origin \in Seq(Byte \ {Unread}) /\ line \in Seq(Byte \ {Unread})
  BY SizeAssumption DEF MbTypeOK, TypeOK, OneEach, NoByte
<1>3. /\ DOMAIN origin = 1 .. next /\ origin'[next + 1] = Head(line)
      /\ \A j \in 1 .. next : origin'[j] = origin[j]
  BY <1>1, <1>2, Behind, PutLast
<1>4. CASE tail = head
  <2>1. buff'[head] = next
    BY <1>1, <1>2, <1>4
  <2>2. Origin(buff[head])' = Head(line)
    BY <1>1, <1>2, <1>3, <2>1 DEF Origin
  <2>. QED  BY <1>1, <2>2
<1>5. CASE tail # head
  <2>1. buff'[head] = buff[head] /\ buff[head] \in Nat
    BY <1>1, <1>2, <1>5
  <2>2. buff[head] < next => Origin(buff[head])' = Origin(buff[head])
    BY <1>1, <1>2, <1>3, <2>1 DEF Origin
  <2>3. ~(buff[head] < next) => Origin(buff[head]) = Unread
    BY DEF Origin
  <2>. QED  BY <1>1, <1>5, <2>2, <2>3
<1>. QED  BY <1>4, <1>5

\* The rest of an answer that was taken is not on the line.
LEMMA LineIsNew ==
  ASSUME MbTypeOK, OneEach, Arrived
  PROVE  \A i \in DOMAIN line : line[i] \in New
<1>1. \A i \in DOMAIN line : line[i] \in Byte \ {Unread}
  BY LenProperties DEF MbTypeOK
<1>2. \A i \in DOMAIN line, r \in taken : line[i] # <<r, 1>>
  BY DEF OneEach, Arrived, Came
<1>. QED  BY <1>1, <1>2 DEF New

\* When the FIFO's reset ends, head and tail meet.
LEMMA NewFirstStep ==
  ASSUME FifoInv, MbTypeOK, Places, OneEach, Arrived, NewFirst, [MbNext]_mbVars
  PROVE  NewFirst'
<1>. USE DEF link, task, around
<1>a. TypeOK /\ MaxSize \in Nat \ {0} /\ size \in Nat /\ inside \in Nat
      /\ want \in Nat /\ Len(data) \in Nat
  BY SizeAssumption, LenProperties DEF FifoInv, TypeOK, MbTypeOK
<1>1. ASSUME mpc' = "ask"  PROVE NewFirst'
  BY <1>1 DEF NewFirst
<1>2. ASSUME UNCHANGED <<mpc, pc, size, head, tail, buff, origin, next, inside, want, data, taken>>
      PROVE  NewFirst'
  <2>1. Origin(buff[head])' = Origin(buff[head]) /\ New' = New
    BY <1>2 DEF Origin, New
  <2>. QED  BY <1>2, <2>1 DEF NewFirst, First
<1>3. ASSUME ~other, Arrive, mpc # "ask"  PROVE NewFirst'
  <2>1. /\ UNCHANGED <<head, pc, task>> /\ size' = size + 1
        /\ tail = head => Origin(buff[head])' = Head(line)
        /\ Origin(buff[head]) # Unread
             => Origin(buff[head])' = Origin(buff[head]) \/ Origin(buff[head])' = Head(line)
    BY <1>3, SeenArrive
  <2>2. New' = New /\ Unread \notin New
    BY <2>1 DEF New
  <2>3. Head(line) \in New
    <3>1. 1 \in DOMAIN line /\ Head(line) = line[1]
      BY <1>3, Behind DEF Arrive, MbTypeOK
    <3>. QED  BY <3>1, LineIsNew
  <2>4. First(New, inside)
    BY <1>3 DEF NewFirst
  <2>5. inside' = IF mpc = "send" /\ pc # "idle" THEN inside + 1 ELSE inside
    BY <1>3 DEF Arrive
  <2>6. CASE mpc = "send" /\ pc # "idle"
    BY <1>a, <2>1, <2>4, <2>5, <2>6 DEF NewFirst, First
  <2>7. CASE mpc \in {"send", "wait"} /\ pc = "idle"
    <3>1. size' # inside' /\ size' >= inside'
      BY <1>a, <2>1, <2>4, <2>5, <2>7 DEF First
    <3>2. Origin(buff[head])' \in New
      BY <2>1, <2>2, <2>3, <2>4, <2>7 DEF First
    <3>. QED  BY <2>1, <2>2, <2>7, <3>1, <3>2 DEF NewFirst, First
  <2>8. CASE mpc = "read"
    BY <2>1, <2>2, <2>3, <2>4, <2>5, <2>8 DEF NewFirst, First
  <2>9. CASE mpc = "wait" /\ pc # "idle"
    BY <1>3, <2>9 DEF Places
  <2>. QED  BY <1>3, <2>6, <2>7, <2>8, <2>9 DEF MbTypeOK
<1>4. ASSUME ~other, Reset  PROVE NewFirst'
  BY <1>4 DEF Reset, ResetSize, NewFirst, First
<1>5. ASSUME ~other, ResetRest  PROVE NewFirst'
  <2>1. mpc = "send" /\ pc # "idle" /\ mpc' = "send" /\ UNCHANGED <<size, inside>>
        /\ (pc' = "idle" => pc = "tail" /\ tail' = 0 /\ head' = head)
    BY <1>5 DEF ResetRest, ResetHead, ResetTail
  <2>2. size = inside
    BY <2>1 DEF NewFirst, First
  <2>3. pc = "tail" => head = 0
    BY DEF FifoInv, CountInv
  <2>. QED  BY <1>a, <2>1, <2>2, <2>3 DEF NewFirst, First
<1>6. ASSUME ~other, Send  PROVE NewFirst'
  <2>1. /\ UNCHANGED <<pc, size, head, tail, buff, origin, next, inside, want, data, taken>>
        /\ mpc = "send" /\ pc = "idle" /\ mpc' = "wait"
    BY <1>6 DEF Send, vars
  <2>2. Origin(buff[head])' = Origin(buff[head]) /\ New' = New
    BY <2>1 DEF Origin, New
  <2>. QED  BY <2>1, <2>2 DEF NewFirst, First
<1>7. ASSUME ~other, WakeUp  PROVE NewFirst'
  <2>1. /\ UNCHANGED <<pc, head, buff, origin, next, inside, data, taken>>
        /\ mpc = "wait" /\ pc = "idle" /\ mpc' = "read" /\ want' = size /\ data = <<>>
    BY <1>7 DEF WakeUp, vars, Places
  <2>2. Origin(buff[head])' = Origin(buff[head]) /\ New' = New
    BY <2>1 DEF Origin, New
  <2>3. size # inside => Origin(buff[head]) \in New
    BY <2>1 DEF NewFirst, First
  <2>4. Len(data') + want' = size
    BY <1>a, <2>1, NoData
  <2>. QED  BY <1>a, <2>1, <2>2, <2>3, <2>4 DEF NewFirst, First
<1>8. ASSUME ~other, Pop  PROVE NewFirst'
  <2>. DEFINE b == Origin(buff[head])
  <2>1. /\ mpc = "read" /\ mpc' = "read" /\ UNCHANGED <<inside, taken>>
        /\ data' = Append(data, b) /\ want' = want - 1 /\ data \in Seq(Byte)
    BY <1>8 DEF Pop, MbTypeOK
  <2>2. b \in Byte
    BY <1>8, OriginType DEF MbTypeOK, TypeOK
  <2>3. First(New, inside)
    BY <2>1 DEF NewFirst
  <2>4. Len(data) + want > inside => (IF data = <<>> THEN b ELSE data[1]) \in New
    BY <2>1, <2>3 DEF First
  <2>. HIDE DEF b
  <2>5. /\ data' # <<>> /\ Len(data') + want' = Len(data) + want
        /\ data'[1] = IF data = <<>> THEN b ELSE data[1]
    <3>1. /\ data' # <<>> /\ Len(data') = Len(data) + 1
          /\ data'[Len(data) + 1] = b /\ \A i \in DOMAIN data : data'[i] = data[i]
      BY <2>1, <2>2, PutLast
    <3>2. data = <<>> => Len(data) = 0
      BY NoData
    <3>3. data # <<>> => 1 \in DOMAIN data
      BY <2>1, Behind
    <3>. QED  BY <1>a, <2>1, <3>1, <3>2, <3>3
  <2>6. New' = New
    BY <2>1 DEF New
  <2>. QED  BY <2>1, <2>4, <2>5, <2>6 DEF NewFirst, First
<1>9. ASSUME ~other, PopRest  PROVE NewFirst'
  <2>1. /\ UNCHANGED <<mpc, head, buff, origin, next, inside, want, data, taken>>
        /\ mpc = "read"
    BY <1>9 DEF PopRest, PopStore
  <2>2. Origin(buff[head])' = Origin(buff[head]) /\ New' = New
    BY <2>1 DEF Origin, New
  <2>. QED  BY <2>1, <2>2 DEF NewFirst, First
<1>10. ASSUME Lose \/ TxDone \/ UNCHANGED mbVars  PROVE NewFirst'
  BY <1>2, <1>10 DEF Lose, TxDone, mbVars, vars
<1>11. ASSUME SendBusy \/ NoAnswer \/ Accept \/ Refuse \/ Fault  PROVE NewFirst'
  BY <1>1, <1>11 DEF SendBusy, NoAnswer, Accept, Refuse, Fault, AskNext
<1>12. ASSUME other, Next, UNCHANGED <<around, task>>  PROVE NewFirst'
  BY <1>1, <1>12 DEF Places
<1>13. ASSUME Arrive, mpc = "ask"  PROVE NewFirst'
  BY <1>1, <1>13 DEF Arrive
<1>. QED
  BY <1>3, <1>4, <1>5, <1>6, <1>7, <1>8, <1>9, <1>10, <1>11, <1>12, <1>13 DEF MbNext, Master

\* While the line carries nothing but the answer to the last request, nothing
\* else comes to the head.
LEMMA OwnFirstStep ==
  ASSUME FifoInv, MbTypeOK, Places, OneEach, OwnFirst, [MbNext]_mbVars
  PROVE  OwnFirst'
<1>. USE DEF link, task, around
<1>a. TypeOK /\ MaxSize \in Nat \ {0} /\ size \in Nat /\ want \in Nat /\ Len(data) \in Nat
  BY SizeAssumption, LenProperties DEF FifoInv, TypeOK, MbTypeOK
<1>1. ASSUME mpc' = "ask"  PROVE OwnFirst'
  BY <1>1 DEF OwnFirst
<1>2. ASSUME UNCHANGED <<mpc, pc, size, head, tail, buff, origin, next, want, data, req, clean>>,
             sending' => sending, clean /\ mpc = "send" => line' = <<>>,
             clean /\ mpc \in {"wait", "read"} => \A i \in DOMAIN line' : line'[i] \in Own
      PROVE  OwnFirst'
  <2>1. Origin(buff[head])' = Origin(buff[head]) /\ Own' = Own
    BY <1>2 DEF Origin, Own
  <2>2. mpc \in {"ask", "send", "wait", "read"}
    BY DEF MbTypeOK
  <2>. QED  BY <1>2, <2>1, <2>2 DEF OwnFirst, First
<1>3. ASSUME ~other, Arrive, mpc # "ask", clean  PROVE OwnFirst'
  <2>1. /\ UNCHANGED <<head, pc, task>> /\ size' = size + 1
        /\ tail = head => Origin(buff[head])' = Head(line)
        /\ Origin(buff[head]) # Unread
             => Origin(buff[head])' = Origin(buff[head]) \/ Origin(buff[head])' = Head(line)
    BY <1>3, SeenArrive
  <2>2. Own' = Own /\ Unread \notin Own
    BY <2>1 DEF Own
  <2>3. line # <<>> /\ line' = Tail(line) /\ line \in Seq(Byte \ {Unread})
    BY <1>3 DEF Arrive, MbTypeOK
  <2>4. mpc # "send" /\ First(Own, 0) /\ \A i \in DOMAIN line : line[i] \in Own
    BY <1>3, <2>3 DEF OwnFirst
  <2>5. Head(line) \in Own /\ \A i \in DOMAIN line' : line'[i] \in Own
    BY <2>3, <2>4, Behind
  <2>6. CASE mpc = "wait"
    <3>1. pc = "idle"
      BY <1>3, <2>6 DEF Places
    <3>2. size' # 0 /\ size' >= 0
      BY <1>a, <2>1
    <3>3. Origin(buff[head])' \in Own
      BY <2>1, <2>2, <2>4, <2>5, <2>6, <3>1 DEF First
    <3>. QED  BY <2>1, <2>2, <2>5, <2>6, <3>1, <3>2, <3>3 DEF OwnFirst, First
  <2>7. CASE mpc = "read"
    BY <2>1, <2>2, <2>4, <2>5, <2>7 DEF OwnFirst, First
  <2>. QED  BY <1>3, <2>4, <2>6, <2>7 DEF MbTypeOK
<1>4. ASSUME ~other, Lose  PROVE OwnFirst'
  <2>1. line # <<>> /\ line' = Tail(line) /\ line \in Seq(Byte \ {Unread})
    BY <1>4 DEF Lose, MbTypeOK
  <2>2. (\A i \in DOMAIN line : line[i] \in Own) => \A i \in DOMAIN line' : line'[i] \in Own
    BY <2>1, Behind
  <2>3. clean /\ mpc = "send" => line' = <<>>
    BY <2>1 DEF OwnFirst
  <2>4. clean /\ mpc \in {"wait", "read"} => \A i \in DOMAIN line' : line'[i] \in Own
    BY <2>2 DEF OwnFirst
  <2>5. /\ UNCHANGED <<mpc, pc, size, head, tail, buff, origin, next, want, data, req, clean>>
        /\ sending' => sending
    BY <1>4 DEF Lose, vars
  <2>. QED  BY <1>2, <2>3, <2>4, <2>5
<1>5. ASSUME ~other, TxDone  PROVE OwnFirst'
  <2>1. /\ UNCHANGED <<mpc, pc, size, head, tail, buff, origin, next, want, data, req, clean>>
        /\ sending /\ (sending' => sending)
        /\ line' = line \/ line' = line \o Answer(req)
    BY <1>5 DEF TxDone, vars
  <2>2. ~(clean /\ mpc = "send")
    BY <2>1 DEF OwnFirst
  <2>3. ASSUME clean, mpc \in {"wait", "read"}, NEW i \in DOMAIN line'
        PROVE  line'[i] \in Own
    <3>. DEFINE a == Answer(req)
    <3>1. \A k \in DOMAIN line : line[k] \in Own
      BY <2>3 DEF OwnFirst
    <3>2. req \in 1 .. MaxReq
      BY <1>a, <2>1, ModbusAssumption DEF OneEach, MbTypeOK
    <3>3. /\ a \in Seq(Byte \ {Unread}) /\ DOMAIN a = 1 .. AnsLen
          /\ \A k \in DOMAIN a : a[k] = <<req, k>>
      BY <3>2, AnswerType
    <3>4. ASSUME NEW k \in DOMAIN a
          PROVE  a[k] \in Own
      <4>1. k \in 1 .. AnsLen /\ a[k] = <<req, k>>
        BY <3>3
      <4>2. <<req, k>> \in Byte \ {Unread} /\ <<req, k>>[1] = req
        BY <3>2, <4>1, AnswerByte
      <4>. QED  BY <4>1, <4>2 DEF Own
    <3>5. line' = line \/ line' = line \o a
      BY <2>1
    <3>6. line \in Seq(Byte \ {Unread})
      BY DEF MbTypeOK
    <3>. HIDE DEF a
    <3>7. \A k \in DOMAIN (line \o a) : (line \o a)[k] \in Own
      <4>1. \A k \in DOMAIN (line \o a) :
              \/ k \in DOMAIN line /\ (line \o a)[k] = line[k]
              \/ /\ k \notin DOMAIN line /\ k - Len(line) \in DOMAIN a
                 /\ (line \o a)[k] = a[k - Len(line)]
        BY <3>3, <3>6, Follows
      <4>. QED  BY <3>1, <3>4, <4>1
    <3>. QED  BY <2>3, <3>1, <3>5, <3>7
  <2>. QED  BY <1>2, <2>1, <2>2, <2>3
<1>6. ASSUME ~other, Reset  PROVE OwnFirst'
  BY <1>6 DEF Reset, ResetSize, OwnFirst, First
<1>7. ASSUME ~other, ResetRest  PROVE OwnFirst'
  <2>1. /\ mpc = "send" /\ pc # "idle" /\ mpc' = "send"
        /\ UNCHANGED <<size, line, sending, clean>>
        /\ pc' = "idle" => pc = "tail" /\ tail' = 0 /\ head' = head
    BY <1>7 DEF ResetRest, ResetHead, ResetTail
  <2>2. pc = "tail" => head = 0
    BY DEF FifoInv, CountInv
  <2>. QED  BY <1>a, <2>1, <2>2 DEF OwnFirst, First
<1>8. ASSUME ~other, Send  PROVE OwnFirst'
  <2>1. /\ UNCHANGED <<pc, size, head, tail, line, clean>>
        /\ mpc = "send" /\ pc = "idle" /\ mpc' = "wait"
    BY <1>8 DEF Send, vars
  <2>2. ASSUME clean  PROVE size = 0 /\ tail = head /\ line = <<>>
    BY <2>1, <2>2 DEF OwnFirst, First
  <2>. QED  BY <2>1, <2>2, NoData DEF OwnFirst, First
<1>9. ASSUME ~other, WakeUp  PROVE OwnFirst'
  <2>1. /\ UNCHANGED <<pc, head, buff, origin, next, data, req, clean, line>>
        /\ mpc = "wait" /\ pc = "idle" /\ mpc' = "read" /\ want' = size /\ data = <<>>
    BY <1>9 DEF WakeUp, vars, Places
  <2>2. Origin(buff[head])' = Origin(buff[head]) /\ Own' = Own
    BY <2>1 DEF Origin, Own
  <2>3. clean /\ size # 0 => Origin(buff[head]) \in Own
    BY <2>1 DEF OwnFirst, First
  <2>4. Len(data') + want' = size
    BY <1>a, <2>1, NoData
  <2>. QED  BY <1>a, <2>1, <2>2, <2>3, <2>4 DEF OwnFirst, First
<1>10. ASSUME ~other, Pop  PROVE OwnFirst'
  <2>. DEFINE b == Origin(buff[head])
  <2>1. /\ mpc = "read" /\ mpc' = "read" /\ UNCHANGED <<line, req, clean>>
        /\ data' = Append(data, b) /\ want' = want - 1 /\ data \in Seq(Byte)
    BY <1>10 DEF Pop, MbTypeOK
  <2>2. b \in Byte
    BY <1>10, OriginType DEF MbTypeOK, TypeOK
  <2>3. clean /\ Len(data) + want > 0 => (IF data = <<>> THEN b ELSE data[1]) \in Own
    BY <2>1 DEF OwnFirst, First
  <2>. HIDE DEF b
  <2>4. /\ data' # <<>> /\ Len(data') + want' = Len(data) + want
        /\ data'[1] = IF data = <<>> THEN b ELSE data[1]
    <3>1. /\ data' # <<>> /\ Len(data') = Len(data) + 1
          /\ data'[Len(data) + 1] = b /\ \A i \in DOMAIN data : data'[i] = data[i]
      BY <2>1, <2>2, PutLast
    <3>2. data = <<>> => Len(data) = 0
      BY NoData
    <3>3. data # <<>> => 1 \in DOMAIN data
      BY <2>1, Behind
    <3>. QED  BY <1>a, <2>1, <3>1, <3>2, <3>3
  <2>5. Own' = Own
    BY <2>1 DEF Own
  <2>. QED  BY <2>1, <2>3, <2>4, <2>5 DEF OwnFirst, First
<1>11. ASSUME ~other, PopRest  PROVE OwnFirst'
  <2>1. /\ UNCHANGED <<mpc, head, buff, origin, next, want, data, req, clean, line>>
        /\ mpc = "read"
    BY <1>11 DEF PopRest, PopStore
  <2>2. Origin(buff[head])' = Origin(buff[head]) /\ Own' = Own
    BY <2>1 DEF Origin, Own
  <2>. QED  BY <2>1, <2>2 DEF OwnFirst, First
<1>12. ASSUME UNCHANGED mbVars  PROVE OwnFirst'
  <2>1. UNCHANGED <<mpc, pc, size, head, tail, buff, origin, next, want, data, req, clean,
                    sending, line>>
    BY <1>12 DEF mbVars, vars
  <2>. QED  BY <1>2, <2>1 DEF OwnFirst
<1>13. ASSUME SendBusy \/ NoAnswer \/ Accept \/ Refuse \/ Fault  PROVE OwnFirst'
  BY <1>1, <1>13 DEF SendBusy, NoAnswer, Accept, Refuse, Fault, AskNext
<1>14. ASSUME other, Next, UNCHANGED <<around, task>>  PROVE OwnFirst'
  BY <1>1, <1>14 DEF Places
<1>15. ASSUME Arrive, mpc = "ask" \/ ~clean  PROVE OwnFirst'
  BY <1>15 DEF Arrive, OwnFirst
<1>. QED
  BY <1>3, <1>4, <1>5, <1>6, <1>7, <1>8, <1>9, <1>10, <1>11, <1>12, <1>13, <1>14, <1>15
  DEF MbNext, Master

-----------------------------------------------------------------------------
(***************************************************************************)
(* The master's invariant, and what follows from it.                       *)
(***************************************************************************)

\* At the start nothing has been asked and nothing is under way.
LEMMA MbStart ==
  ASSUME MbInit, FifoInv
  PROVE  MbInv
<1>. USE DEF MbInit
<1>1. Init /\ TypeOK
  BY DEF FifoInv
<1>2. 1 \in Node /\ 0 \in 0 .. MaxReq /\ MaxSize \in Nat \ {0}
  BY ModbusAssumption, SizeAssumption DEF Node
<1>3. <<>> \in Seq(Byte \ {Unread}) /\ Len(<<>>) = 0 /\ DOMAIN <<>> = {}
  BY EmptySeq
<1>4. status \in [Node -> {"none", "ok", "failed"}] /\ value \in [Node -> 0 .. MaxReq]
  BY <1>2
<1>5. data \in Seq(Byte) /\ want \in Nat /\ Len(data) + want <= MaxSize
  BY <1>2, NoData
<1>6. MbTypeOK
  BY <1>1, <1>2, <1>3, <1>4, <1>5 DEF MbTypeOK
<1>7. Places
  BY <1>2 DEF Places, Init
<1>8. OneEach /\ Arrived
  BY <1>3 DEF OneEach, Asked, Arrived, Init
<1>9. OwnFirst /\ NewFirst
  BY DEF OwnFirst, NewFirst
<1>. QED  BY <1>6, <1>7, <1>8, <1>9 DEF MbInv

\* Every step of the master, of the line and of another port's task keeps it.
THEOREM MbInvariant == MbSpec => []MbInv
<1>1. Init => FifoInv
  BY FifoStart
<1>2. MbInit => MbInv
  BY <1>1, MbStart DEF MbInit
<1>3. MbInv /\ [MbNext]_mbVars => MbInv'
  <2>. SUFFICES ASSUME MbInv, [MbNext]_mbVars  PROVE MbInv'
    OBVIOUS
  <2>1. FifoInv'
    BY MbFifoStep DEF MbInv
  <2>2. MbTypeOK'
    BY <2>1, MbTypeStep DEF MbInv, FifoInv
  <2>3. Places' /\ OneEach' /\ Arrived'
    BY PlacesStep, OneEachStep, ArrivedStep DEF MbInv
  <2>4. OwnFirst' /\ NewFirst'
    BY OwnFirstStep, NewFirstStep DEF MbInv
  <2>. QED  BY <2>1, <2>2, <2>3, <2>4 DEF MbInv
<1>. QED  BY <1>2, <1>3, PTL DEF MbSpec

\* Whatever the slaves send and whenever the sleep ends, MBMaster_Read never
\* takes more bytes than its FIFO holds, and every value is of a request made.
THEOREM MbTypeCorrect == MbSpec => []MbTypeOK
<1>1. MbInv => MbTypeOK
  BY DEF MbInv
<1>. QED  BY <1>1, MbInvariant, PTL

\* The master's resets, also the one that a restart is, keep the count of the
\* FIFO below what has arrived, and its contents exact between interrupts.
THEOREM MbFifoHolds == MbSpec => [](NoPhantom /\ HoldsArrived)
<1>1. FifoInv => NoPhantom /\ HoldsArrived
  BY InvHolds, InvNoPhantom
<1>2. MbInv => NoPhantom /\ HoldsArrived
  BY <1>1 DEF MbInv
<1>. QED  BY <1>2, MbInvariant, PTL

\* A request that Modbus_SendAndRecv makes on a quiet line is never answered by
\* another request's answer.
THEOREM RequestsGetTheirOwn == MbSpec => OwnAnswer
<1>1. ASSUME MbInv, Accept, clean  PROVE value'[node] = req
  <2>1. MbTypeOK /\ OneEach /\ Arrived /\ OwnFirst /\ data \in Answers /\ mpc = "read" /\ want = 0
    BY <1>1 DEF MbInv, Accept, Read
  <2>2. PICK r \in 1 .. req : /\ Len(data) = AnsLen /\ data # <<>>
                              /\ data[1] = <<r, 1>> /\ data[1][1] = r
    BY <2>1, AnswerTaken
  <2>3. Len(data) + want > 0
    BY <2>1, <2>2, ModbusAssumption
  <2>4. data[1] \in Own
    BY <1>1, <2>1, <2>2, <2>3 DEF OwnFirst, First
  <2>5. data[1][1] = req
    BY <2>4 DEF Own
  <2>. QED  BY <1>1, <2>1, <2>5 DEF Accept, MbTypeOK
<1>2. MbInv /\ [MbNext]_mbVars => [Accept /\ clean => value'[node] = req]_mbVars
  BY <1>1
<1>. QED  BY <1>2, MbInvariant, PTL DEF MbSpec, OwnAnswer

\* No answer becomes a value twice, unless as many bytes as an answer has come
\* between the stores of one FIFO_Reset.
THEOREM AnswersTakenOnce == MbSpec => TakenOnce
<1>1. ASSUME MbInv, Accept, inside < AnsLen  PROVE data[1][1] \notin taken
  <2>1. MbTypeOK /\ OneEach /\ Arrived /\ NewFirst /\ data \in Answers /\ mpc = "read" /\ want = 0
    BY <1>1 DEF MbInv, Accept, Read
  <2>2. PICK r \in 1 .. req : /\ Len(data) = AnsLen /\ data # <<>>
                              /\ data[1] = <<r, 1>> /\ data[1][1] = r
    BY <2>1, AnswerTaken
  <2>3. Len(data) + want > inside
    BY <1>1, <2>1, <2>2, ModbusAssumption DEF MbTypeOK
  <2>4. data[1] \in New
    BY <2>1, <2>2, <2>3 DEF NewFirst, First
  <2>. QED  BY <2>2, <2>4 DEF New
<1>2. MbInv /\ [MbNext]_mbVars => [Accept /\ inside < AnsLen => data[1][1] \notin taken]_mbVars
  BY <1>1
<1>. QED  BY <1>2, MbInvariant, PTL DEF MbSpec, TakenOnce
-----------------------------------------------------------------------------
(***************************************************************************)
(* SQueue: any number of tasks, queues and buffers, fewer of these than    *)
(* u8Size can count.  A task in a call has the mutex of its queue; every   *)
(* buffer is in one place; and each list is linked up to its last element, *)
(* which leads to nothing, or to the buffer that is being appended, which  *)
(* its size does not count yet.                                            *)
(***************************************************************************)
\* A task in a call has the mutex of its queue.
LockInv ==
  \A t \in Task : step[t] # "out" => at[t] \in Queue /\ mtx[at[t]] = t

\* Every buffer is free, dropped, in one hand or in one queue, once.
InQueue(b) == \E q \in Queue : \E i \in 1 .. Len(contents[q]) : contents[q][i] = b

PlaceInv ==
  /\ \A b \in Buf : b \in pool \/ b \in missed \/ (\E t \in Task : b \in own[t]) \/ InQueue(b)
  /\ \A b \in pool : b \notin missed /\ (\A t \in Task : b \notin own[t]) /\ ~InQueue(b)
  /\ \A b \in missed : (\A t \in Task : b \notin own[t]) /\ ~InQueue(b)
  /\ \A t \in Task : \A b \in own[t] : (\A u \in Task : b \in own[u] => u = t) /\ ~InQueue(b)
  /\ \A q, r \in Queue : \A i \in 1 .. Len(contents[q]), j \in 1 .. Len(contents[r]) :
       contents[q][i] = contents[r][j] => q = r /\ i = j

\* The list of q, but for where its last element leads.
Linked(q) ==
  LET s == contents[q]
  IN  /\ u8Size[q] = Len(s)
      /\ \A i \in 1 .. Len(s) - 1 : pNext[s[i]] = s[i + 1]
      /\ s # <<>> => pHead[q] = s[1] /\ pTail[q] = s[Len(s)]
      /\ s = <<>> => pTail[q] = Nil

\* Where the last element of q leads; without one, where the head does.
After(q) == IF contents[q] = <<>> THEN pHead[q] ELSE pNext[contents[q][Len(contents[q])]]

ListInv ==
  \A q \in Queue :
    /\ Linked(q)
    /\ (\A t \in Task : step[t] = "tail" => at[t] # q) => After(q) = Nil

\* The search has passed over buffers that do not fit, and stands at the next.
Searched(t) ==
  LET s == contents[at[t]]
  IN  \/ pBuf[t] = Nil /\ \A i \in 1 .. Len(s) : s[i] \notin match[t]
      \/ \E i \in 1 .. Len(s) :
           /\ pBuf[t] = s[i]
           /\ pBufPrevious[t] = s[IF i = 1 THEN 1 ELSE i - 1]
           /\ \A j \in 1 .. i - 1 : s[j] \notin match[t]

CallOK(t) ==
  /\ step[t] \in {"link", "tail"} => pBuf[t] \in own[t]
  /\ step[t] = "tail" => After(at[t]) = pBuf[t]
  /\ step[t] = "search" => Searched(t)

CallInv == \A t \in Task : CallOK(t)

QueueInv == QueueTypeOK /\ LockInv /\ PlaceInv /\ ListInv /\ CallInv

-----------------------------------------------------------------------------
\* A number below the modulus is its own remainder.
LEMMA SmallRemainder ==
  ASSUME NEW m \in Nat, NEW n \in Nat, n < m
  PROVE  n % m = n
BY SMT

\* A sequence without its element i.
LEMMA TakenOutIs ==
  ASSUME NEW S, NEW s \in Seq(S), NEW i \in 1 .. Len(s)
  PROVE  /\ TakenOut(s, i) \in Seq(S)
         /\ Len(TakenOut(s, i)) = Len(s) - 1
         /\ \A j \in 1 .. Len(s) - 1 : TakenOut(s, i)[j] = s[IF j < i THEN j ELSE j + 1]
<1> DEFINE a == SubSeq(s, 1, i - 1)
           b == SubSeq(s, i + 1, Len(s))
<1>1. Len(s) \in Nat /\ i \in Nat /\ \A j \in 1 .. Len(s) : s[j] \in S
  BY LenProperties, ElementOfSeq
<1>2. /\ a \in Seq(S) /\ Len(a) = i - 1
      /\ \A j \in 1 .. i - 1 : a[j] = s[j]
  <2>1. \A j \in 1 .. i - 1 : s[j] \in S
    BY <1>1
  <2>2. 1 <= i /\ i - 1 \in Int
    BY <1>1
  <2> QED  BY <1>1, <2>1, <2>2, SubSeqProperties
<1>3. /\ b \in Seq(S) /\ Len(b) = Len(s) - i
      /\ \A j \in 1 .. Len(s) - i : b[j] = s[j + i]
  <2>1. \A j \in i + 1 .. Len(s) : s[j] \in S
    BY <1>1
  <2>2. i <= Len(s) /\ i + 1 \in Int /\ Len(s) \in Int
    BY <1>1
  <2>3. /\ b \in Seq(S)
        /\ Len(b) = IF i + 1 <= Len(s) THEN Len(s) - (i + 1) + 1 ELSE 0
        /\ \A j \in 1 .. Len(s) - (i + 1) + 1 : b[j] = s[i + 1 + j - 1]
    BY <2>1, <2>2, SubSeqProperties
  <2> QED  BY <1>1, <2>2, <2>3
<1>4. /\ a \o b \in Seq(S) /\ Len(a \o b) = Len(a) + Len(b)
      /\ \A j \in 1 .. Len(a) + Len(b) :
           (a \o b)[j] = IF j <= Len(a) THEN a[j] ELSE b[j - Len(a)]
  BY <1>2, <1>3, ConcatProperties
<1>5. TakenOut(s, i) = a \o b
  BY DEF TakenOut
<1> HIDE DEF a, b
<1>6. ASSUME NEW j \in 1 .. Len(s) - 1
      PROVE  (a \o b)[j] = s[IF j < i THEN j ELSE j + 1]
  <2>1. CASE j < i
    <3>1. j \in 1 .. i - 1 /\ j \in 1 .. Len(a) + Len(b) /\ j <= Len(a)
      BY <1>1, <1>2, <1>3, <2>1
    <3> QED  BY <1>2, <1>4, <2>1, <3>1
  <2>2. CASE ~(j < i)
    <3>1. /\ j - Len(a) \in 1 .. Len(s) - i /\ j \in 1 .. Len(a) + Len(b)
          /\ ~(j <= Len(a)) /\ (j - Len(a)) + i = j + 1
      BY <1>1, <1>2, <1>3, <2>2
    <3> QED  BY <1>3, <1>4, <2>2, <3>1
  <2> QED  BY <2>1, <2>2
<1>7. Len(a \o b) = Len(s) - 1
  BY <1>1, <1>2, <1>3, <1>4
<1>8. TakenOut(s, i) \in Seq(S) /\ Len(TakenOut(s, i)) = Len(s) - 1
  BY <1>4, <1>5, <1>7
<1>9. \A j \in 1 .. Len(s) - 1 : TakenOut(s, i)[j] = s[IF j < i THEN j ELSE j + 1]
  BY <1>5, <1>6
<1> QED  BY <1>8, <1>9

\* A sequence with one more element.
LEMMA WithLast ==
  ASSUME NEW S, NEW s \in Seq(S), NEW e \in S
  PROVE  /\ Append(s, e) \in Seq(S) /\ Len(Append(s, e)) = Len(s) + 1
         /\ \A i \in 1 .. Len(s) : Append(s, e)[i] = s[i]
         /\ Append(s, e)[Len(s) + 1] = e
BY AppendProperties

\* What a queue holds.
LEMMA QueueHolds ==
  ASSUME QueueTypeOK, NEW q \in Queue
  PROVE  /\ contents[q] \in Seq(Buf) /\ Len(contents[q]) \in Nat
         /\ \A i \in 1 .. Len(contents[q]) : contents[q][i] \in Buf /\ contents[q][i] # Nil
         /\ (contents[q] = <<>>) <=> (Len(contents[q]) = 0)
<1>1. contents[q] \in Seq(Buf) /\ Nil \notin Buf
  BY QueueConstants DEF QueueTypeOK
<1>2. Len(contents[q]) \in Nat /\ ((contents[q] = <<>>) <=> (Len(contents[q]) = 0))
  BY <1>1, LenProperties, EmptySeq
<1> QED  BY <1>1, <1>2, ElementOfSeq

\* A queue that does not hold every buffer has room for one more in u8Size.
LEMMA RoomForOne ==
  ASSUME QueueTypeOK, PlaceInv, NEW q \in Queue, NEW b \in Buf, ~InQueue(b)
  PROVE  Len(contents[q]) + 1 < SizeMod
<1> DEFINE s == contents[q]
           n == Len(s) + 1
           f == [i \in 1 .. n |-> IF i = n THEN b ELSE s[i]]
<1>1. Len(s) \in Nat /\ \A i \in 1 .. Len(s) : s[i] \in Buf
  BY QueueHolds
<1>2. \A i, j \in 1 .. Len(s) : s[i] = s[j] => i = j
  BY DEF PlaceInv
<1>3. \A i \in 1 .. Len(s) : s[i] # b
  BY DEF InQueue
<1> HIDE DEF s
<1>4. \A i \in 1 .. n : i # n => i \in 1 .. Len(s)
  BY <1>1
<1>5. f \in [1 .. n -> Buf]
  BY <1>1, <1>4
<1>6. \A i, j \in 1 .. n : f[i] = f[j] => i = j
  BY <1>1, <1>2, <1>3, <1>4
<1> HIDE DEF f, n
<1>7. IsFiniteSet(Buf) /\ IsFiniteSet(1 .. n) /\ Cardinality(1 .. n) = n
  BY <1>1, QueueConstants, FS_Interval DEF n
<1>8. Cardinality(Buf) \in Nat /\ Cardinality(Buf) < SizeMod /\ SizeMod \in Nat
  BY <1>7, QueueConstants, FS_CardinalityType
<1>9. ~(Cardinality(Buf) < Cardinality(1 .. n))
  <2> DEFINE T == 1 .. n
  <2>1. /\ IsFiniteSet(Buf) /\ IsFiniteSet(T) /\ f \in [T -> Buf]
        /\ \A i, j \in T : f[i] = f[j] => i = j
    BY <1>5, <1>6, <1>7
  <2> HIDE DEF T
  <2>2. ASSUME Cardinality(Buf) < Cardinality(T)
        PROVE  \E x, y \in T : x # y /\ f[x] = f[y]
    BY <2>1, <2>2, FS_PigeonHole
  <2>3. ~(Cardinality(Buf) < Cardinality(T))
    BY <2>1, <2>2
  <2> QED  BY <2>3 DEF T
<1> QED  BY <1>1, <1>7, <1>8, <1>9 DEF s, n


\* Where a search that has found its buffer is.
LEMMA FoundAt ==
  ASSUME QueueInv, NEW t \in Task, step[t] = "search", pBuf[t] # Nil,
         NEW i, i = Position(contents[at[t]], pBuf[t])
  PROVE  LET s == contents[at[t]]
         IN  /\ at[t] \in Queue /\ mtx[at[t]] = t
             /\ i \in 1 .. Len(s) /\ s[i] = pBuf[t]
             /\ pBufPrevious[t] = s[IF i = 1 THEN 1 ELSE i - 1]
             /\ \A j \in 1 .. i - 1 : s[j] \notin match[t]
<1> DEFINE s == contents[at[t]]
<1>1. at[t] \in Queue /\ mtx[at[t]] = t
  BY DEF QueueInv, LockInv
<1>2. PICK k \in 1 .. Len(s) :
         /\ pBuf[t] = s[k]
         /\ pBufPrevious[t] = s[IF k = 1 THEN 1 ELSE k - 1]
         /\ \A j \in 1 .. k - 1 : s[j] \notin match[t]
  BY DEF QueueInv, CallInv, CallOK, Searched
<1>3. i \in 1 .. Len(s) /\ s[i] = pBuf[t]
  BY <1>2 DEF Position
<1>4. i = k
  BY <1>1, <1>2, <1>3 DEF QueueInv, PlaceInv
<1> QED  BY <1>1, <1>2, <1>3, <1>4

\* A call that is in a queue's list is alone in it.
LEMMA Alone ==
  ASSUME QueueInv, NEW t \in Task, NEW u \in Task, u # t,
         step[t] # "out", step[u] # "out"
  PROVE  at[t] \in Queue /\ at[u] \in Queue /\ at[u] # at[t]
BY DEF QueueInv, LockInv

\* Every step keeps the types: u8Size wraps at most.
LEMMA QueueTypeStep == QueueInv /\ [QueueNext]_qvars => QueueTypeOK'
<1> SUFFICES ASSUME QueueInv, [QueueNext]_qvars PROVE QueueTypeOK'
  OBVIOUS
<1> USE DEF Pointer
<1>0. QueueTypeOK /\ SizeMod \in Nat /\ SizeMod > 0
  <2>1. SizeMod \in Nat /\ Cardinality(Buf) < SizeMod /\ Cardinality(Buf) \in Nat
    BY QueueConstants, FS_CardinalityType
  <2> QED  BY <2>1 DEF QueueInv
<1>1. ASSUME NEW t \in Task, NEW b \in Buf, MemAlloc(t, b) PROVE QueueTypeOK'
  BY <1>0, <1>1 DEF MemAlloc, QueueTypeOK, call
<1>2. ASSUME NEW t \in Task, NEW b \in Buf, MemPut(t, b) PROVE QueueTypeOK'
  BY <1>0, <1>2 DEF MemPut, QueueTypeOK, list, call
<1>3. ASSUME NEW t \in Task, NEW q \in Queue, NEW b \in Buf, Append1(t, q, b) PROVE QueueTypeOK'
  BY <1>0, <1>3 DEF Append1, QueueTypeOK, list
<1>4. ASSUME NEW t \in Task, NEW q \in Queue, NEW b \in Buf, AppendMisses(t, q, b) PROVE QueueTypeOK'
  BY <1>0, <1>4 DEF AppendMisses, QueueTypeOK, list, call
<1>5. ASSUME NEW t \in Task, NEW q \in Queue, NEW fits \in SUBSET Buf, Remove1(t, q, fits)
      PROVE  QueueTypeOK'
  <2>1. /\ mtx' \in [Queue -> Task \cup {Nil}] /\ at' \in [Task -> Queue \cup {Nil}]
        /\ match' \in [Task -> SUBSET Buf]
    BY <1>0, <1>5 DEF Remove1, QueueTypeOK
  <2>2. /\ step' \in [Task -> {"out", "link", "tail", "search", "unlock"}]
        /\ pBuf' \in [Task -> Pointer] /\ pBufPrevious' \in [Task -> Pointer]
    <3>1. CASE u8Size[q] # 0
      <4>1. /\ pBuf' = [pBuf EXCEPT ![t] = pHead[q]]
            /\ pBufPrevious' = [pBufPrevious EXCEPT ![t] = pHead[q]]
            /\ step' = [step EXCEPT ![t] = "search"]
        BY <1>5, <3>1 DEF Remove1
      <4>2. pHead[q] \in Pointer
        BY <1>0 DEF QueueTypeOK
      <4> QED  BY <1>0, <4>1, <4>2 DEF QueueTypeOK
    <3>2. CASE u8Size[q] = 0
      <4>1. /\ pBuf' = [pBuf EXCEPT ![t] = Nil] /\ pBufPrevious' = pBufPrevious
            /\ step' = [step EXCEPT ![t] = "unlock"]
        BY <1>5, <3>2 DEF Remove1
      <4> QED  BY <1>0, <4>1 DEF QueueTypeOK
    <3> QED  BY <3>1, <3>2
  <2>3. UNCHANGED <<pHead, pTail, u8Size, pNext, contents, pool, own, missed>>
    BY <1>5 DEF Remove1, list
  <2> QED  BY <1>0, <2>1, <2>2, <2>3 DEF QueueTypeOK
<1>6. ASSUME NEW t \in Task, AppendLink(t) PROVE QueueTypeOK'
  <2>1. CASE u8Size[at[t]] = 0
    BY <1>0, <1>6, <2>1 DEF AppendLink, QueueTypeOK
  <2>2. CASE u8Size[at[t]] # 0
    BY <1>0, <1>6, <2>2 DEF AppendLink, QueueTypeOK
  <2> QED  BY <2>1, <2>2
<1>7. ASSUME NEW t \in Task, AppendTail(t) PROVE QueueTypeOK'
  <2>1. at[t] \in Queue /\ pBuf[t] \in Buf
    BY <1>0, <1>7 DEF AppendTail, QueueInv, LockInv, CallInv, CallOK, QueueTypeOK
  <2>2. Append(contents[at[t]], pBuf[t]) \in Seq(Buf)
    BY <1>0, <2>1, QueueHolds, WithLast
  <2>3. contents' \in [Queue -> Seq(Buf)]
    BY <1>0, <1>7, <2>2 DEF AppendTail, QueueTypeOK
  <2>4. OneMore(u8Size[at[t]]) \in 0 .. SizeMod - 1
    BY <1>0, <2>1 DEF OneMore, QueueTypeOK
  <2>5. u8Size' \in [Queue -> 0 .. SizeMod - 1]
    BY <1>0, <1>7, <2>4 DEF AppendTail, QueueTypeOK
  <2> QED  BY <1>0, <1>7, <2>3, <2>5 DEF AppendTail, Ended, QueueTypeOK
<1>8. ASSUME NEW t \in Task, Search(t) PROVE QueueTypeOK'
  BY <1>0, <1>8 DEF Search, Onward, QueueTypeOK, list
<1>9. ASSUME NEW t \in Task, NotFound(t) PROVE QueueTypeOK'
  BY <1>0, <1>9 DEF NotFound, QueueTypeOK, list
<1>10. ASSUME NEW t \in Task, Unlink(t) PROVE QueueTypeOK'
  <2> DEFINE i == Position(contents[at[t]], pBuf[t])
  <2>1. step[t] = "search" /\ pBuf[t] # Nil
    BY <1>10 DEF Unlink
  <2>2. at[t] \in Queue /\ i \in 1 .. Len(contents[at[t]]) /\ contents[at[t]] \in Seq(Buf)
    BY <1>0, <2>1, FoundAt, QueueHolds
  <2>3. TakenOut(contents[at[t]], i) \in Seq(Buf)
    BY <2>2, TakenOutIs
  <2>4. contents' \in [Queue -> Seq(Buf)]
    BY <1>0, <1>10, <2>3 DEF Unlink, QueueTypeOK
  <2>5. (u8Size[at[t]] - 1) % SizeMod \in 0 .. SizeMod - 1
    BY <1>0, <2>2 DEF QueueTypeOK
  <2>6. u8Size' \in [Queue -> 0 .. SizeMod - 1]
    BY <1>0, <1>10, <2>5 DEF Unlink, QueueTypeOK
  <2>7. pBuf[t] \in Buf /\ pNext[pBuf[t]] \in Pointer
    BY <1>0, <2>1 DEF QueueTypeOK
  <2>8. pHead' \in [Queue -> Pointer] /\ pNext' \in [Buf -> Pointer]
    BY <1>0, <1>10, <2>2, <2>7 DEF Unlink, QueueTypeOK
  <2>9. pTail' \in [Queue -> Pointer]
    BY <1>0, <1>10, <2>2 DEF Unlink, TailAfter, QueueTypeOK
  <2> QED  BY <1>0, <1>10, <2>4, <2>6, <2>7, <2>8, <2>9 DEF Unlink, QueueTypeOK
<1>11. ASSUME NEW t \in Task, Unlock(t) PROVE QueueTypeOK'
  BY <1>0, <1>11 DEF Unlock, QueueTypeOK, list
<1>12. CASE UNCHANGED qvars
  BY <1>0, <1>12 DEF qvars, list, call, QueueTypeOK
<1> QED
  BY <1>1, <1>2, <1>3, <1>4, <1>5, <1>6, <1>7, <1>8, <1>9, <1>10, <1>11, <1>12
     DEF QueueNext, InCall

\* A mutex is the task's that is in the call.
LEMMA LockStep == QueueInv /\ [QueueNext]_qvars => LockInv'
<1> SUFFICES ASSUME QueueInv, [QueueNext]_qvars PROVE LockInv'
  OBVIOUS
<1>0. QueueTypeOK /\ LockInv /\ Nil \notin Task \cup Queue
  BY QueueConstants DEF QueueInv
<1>1. ASSUME UNCHANGED <<mtx, at>>, \A u \in Task : step'[u] # "out" => step[u] # "out"
      PROVE  LockInv'
  BY <1>0, <1>1 DEF LockInv
<1>2. ASSUME NEW t \in Task, NEW q \in Queue, step[t] = "out", mtx[q] = Nil,
             mtx' = [mtx EXCEPT ![q] = t], at' = [at EXCEPT ![t] = q],
             \A u \in Task : u # t => step'[u] = step[u]
      PROVE  LockInv'
  BY <1>0, <1>2 DEF LockInv, QueueTypeOK
<1>3. ASSUME NEW t \in Task, NEW b \in Buf, MemAlloc(t, b) \/ MemPut(t, b) PROVE LockInv'
  BY <1>1, <1>3 DEF MemAlloc, MemPut, call
<1>4. ASSUME NEW t \in Task, NEW q \in Queue, NEW b \in Buf, Append1(t, q, b) PROVE LockInv'
  BY <1>0, <1>2, <1>4 DEF Append1, MayEnter, QueueTypeOK
<1>5. ASSUME NEW t \in Task, NEW q \in Queue, NEW b \in Buf, AppendMisses(t, q, b) PROVE LockInv'
  BY <1>1, <1>5 DEF AppendMisses, call
<1>6. ASSUME NEW t \in Task, NEW q \in Queue, NEW fits \in SUBSET Buf, Remove1(t, q, fits)
      PROVE  LockInv'
  <2>1. \A u \in Task : u # t => step'[u] = step[u]
    BY <1>0, <1>6 DEF Remove1, QueueTypeOK
  <2> QED  BY <1>2, <1>6, <2>1 DEF Remove1, MayEnter
<1>7. ASSUME NEW t \in Task, AppendLink(t) \/ AppendTail(t) \/ NotFound(t) \/ Unlink(t) \/ Search(t)
      PROVE  LockInv'
  <2>1. UNCHANGED <<mtx, at>> /\ step[t] # "out"
    BY <1>7 DEF AppendLink, AppendTail, NotFound, Unlink, Search
  <2>2. \A u \in Task : u # t => step'[u] = step[u]
    BY <1>0, <1>7 DEF AppendLink, AppendTail, NotFound, Unlink, Search, QueueTypeOK
  <2> QED  BY <1>1, <2>1, <2>2
<1>8. ASSUME NEW t \in Task, Unlock(t) PROVE LockInv'
  <2>1. step[t] # "out" /\ at[t] \in Queue
    BY <1>0, <1>8 DEF Unlock, LockInv
  <2>2. ASSUME NEW u \in Task, step'[u] # "out"
        PROVE  at'[u] \in Queue /\ mtx'[at'[u]] = u
    <3>1. u # t /\ step[u] # "out"
      BY <1>0, <1>8, <2>2 DEF Unlock, QueueTypeOK
    <3>2. at[u] \in Queue /\ mtx[at[u]] = u /\ at[u] # at[t]
      BY <1>0, <2>1, <3>1 DEF LockInv
    <3> QED  BY <1>0, <1>8, <3>1, <3>2 DEF Unlock, QueueTypeOK
  <2> QED  BY <2>2 DEF LockInv
<1>9. CASE UNCHANGED qvars
  BY <1>1, <1>9 DEF qvars, call
<1> QED
  BY <1>3, <1>4, <1>5, <1>6, <1>7, <1>8, <1>9 DEF QueueNext, InCall

\* What AppendTail does to the queue's contents.
LEMMA TailMoves ==
  ASSUME QueueInv, NEW t \in Task, AppendTail(t), NEW q, q = at[t]
  PROVE  /\ q \in Queue /\ mtx[q] = t /\ step[t] = "tail"
         /\ pBuf[t] \in Buf /\ pBuf[t] \in own[t] /\ ~InQueue(pBuf[t])
         /\ Len(contents'[q]) = Len(contents[q]) + 1
         /\ \A i \in 1 .. Len(contents[q]) : contents'[q][i] = contents[q][i]
         /\ contents'[q][Len(contents[q]) + 1] = pBuf[t]
         /\ \A r \in Queue : r # q => contents'[r] = contents[r]
<1>1. QueueTypeOK /\ step[t] = "tail"
  BY DEF AppendTail, QueueInv
<1>2. q \in Queue /\ mtx[q] = t
  BY <1>1 DEF QueueInv, LockInv
<1>3. pBuf[t] \in own[t] /\ own[t] \subseteq Buf
  BY <1>1 DEF QueueInv, CallInv, CallOK, QueueTypeOK
<1>4. ~InQueue(pBuf[t])
  BY <1>3 DEF QueueInv, PlaceInv
<1>5. contents' = [contents EXCEPT ![q] = Append(contents[q], pBuf[t])]
  BY DEF AppendTail
<1>6. contents'[q] = Append(contents[q], pBuf[t]) /\ \A r \in Queue : r # q => contents'[r] = contents[r]
  BY <1>1, <1>2, <1>5 DEF QueueTypeOK
<1>7. contents[q] \in Seq(Buf) /\ pBuf[t] \in Buf
  BY <1>1, <1>2, <1>3 DEF QueueTypeOK
<1> QED  BY <1>1, <1>2, <1>3, <1>4, <1>6, <1>7, WithLast

\* What Unlink does to the queue's contents.
LEMMA UnlinkMoves ==
  ASSUME QueueInv, NEW t \in Task, Unlink(t), NEW q, q = at[t],
         NEW i, i = Position(contents[q], pBuf[t])
  PROVE  /\ q \in Queue /\ mtx[q] = t /\ step[t] = "search"
         /\ i \in 1 .. Len(contents[q]) /\ contents[q][i] = pBuf[t]
         /\ pBufPrevious[t] = contents[q][IF i = 1 THEN 1 ELSE i - 1]
         /\ Len(contents'[q]) = Len(contents[q]) - 1
         /\ \A j \in 1 .. Len(contents[q]) - 1 :
              contents'[q][j] = contents[q][IF j < i THEN j ELSE j + 1]
         /\ \A r \in Queue : r # q => contents'[r] = contents[r]
<1>1. QueueTypeOK /\ step[t] = "search" /\ pBuf[t] # Nil
  BY DEF Unlink, QueueInv
<1>2. /\ q \in Queue /\ mtx[q] = t /\ i \in 1 .. Len(contents[q]) /\ contents[q][i] = pBuf[t]
      /\ pBufPrevious[t] = contents[q][IF i = 1 THEN 1 ELSE i - 1]
  BY <1>1, FoundAt
<1>3. contents' = [contents EXCEPT ![q] = TakenOut(contents[q], i)]
  BY DEF Unlink
<1>4. contents'[q] = TakenOut(contents[q], i) /\ \A r \in Queue : r # q => contents'[r] = contents[r]
  BY <1>1, <1>2, <1>3 DEF QueueTypeOK
<1>5. contents[q] \in Seq(Buf)
  BY <1>1, <1>2 DEF QueueTypeOK
<1>6. /\ Len(TakenOut(contents[q], i)) = Len(contents[q]) - 1
      /\ \A j \in 1 .. Len(contents[q]) - 1 :
           TakenOut(contents[q], i)[j] = contents[q][IF j < i THEN j ELSE j + 1]
  <2> DEFINE s == contents[q]
  <2>1. s \in Seq(Buf) /\ i \in 1 .. Len(s)
    BY <1>2, <1>5
  <2> HIDE DEF s
  <2>2. /\ Len(TakenOut(s, i)) = Len(s) - 1
        /\ \A j \in 1 .. Len(s) - 1 : TakenOut(s, i)[j] = s[IF j < i THEN j ELSE j + 1]
    BY <2>1, TakenOutIs
  <2> QED  BY <2>2 DEF s
<1>7. /\ Len(contents'[q]) = Len(contents[q]) - 1
      /\ \A j \in 1 .. Len(contents[q]) - 1 :
           contents'[q][j] = contents[q][IF j < i THEN j ELSE j + 1]
  BY <1>4, <1>6
<1> QED  BY <1>1, <1>2, <1>4, <1>7

\* A buffer is appended: it is in the queue, and where the others are.
LEMMA PlaceTail == ASSUME QueueInv, NEW t \in Task, AppendTail(t) PROVE PlaceInv'
<1> DEFINE q == at[t]
           e == pBuf[t]
           n == Len(contents[q]) + 1
<1>1. /\ q \in Queue /\ e \in Buf /\ e \in own[t] /\ ~InQueue(e)
      /\ Len(contents'[q]) = n /\ contents'[q][n] = e
      /\ \A i \in 1 .. Len(contents[q]) : contents'[q][i] = contents[q][i]
      /\ \A r \in Queue : r # q => contents'[r] = contents[r]
  BY TailMoves
<1>2. QueueTypeOK /\ PlaceInv /\ n \in Nat /\ n >= 1
  BY <1>1, QueueHolds DEF QueueInv
<1>3. /\ pool' = pool /\ missed' = missed
      /\ own' = [own EXCEPT ![t] = @ \ {e}]
  BY DEF AppendTail
<1>4. own'[t] = own[t] \ {e} /\ \A u \in Task : u # t => own'[u] = own[u]
  BY <1>2, <1>3 DEF QueueTypeOK
<1> HIDE DEF q, e, n
<1>5. \A i \in 1 .. Len(contents'[q]) : i = n \/ i \in 1 .. Len(contents[q])
  BY <1>1, <1>2 DEF n
<1>6. \A i \in 1 .. Len(contents[q]) : i \in 1 .. Len(contents'[q]) /\ i # n
  BY <1>1, <1>2 DEF n
<1>7. n \in 1 .. Len(contents'[q])
  BY <1>1, <1>2
<1>8. ASSUME NEW b \in Buf PROVE InQueue(b)' <=> InQueue(b) \/ b = e
  <2>1. ASSUME NEW r \in Queue, NEW i \in 1 .. Len(contents'[r]), contents'[r][i] = b
        PROVE  InQueue(b) \/ b = e
    BY <1>1, <1>5, <2>1 DEF InQueue
  <2>2. ASSUME NEW r \in Queue, NEW i \in 1 .. Len(contents[r]), contents[r][i] = b
        PROVE  InQueue(b)'
    BY <1>1, <1>6, <2>2 DEF InQueue
  <2>3. ASSUME b = e PROVE InQueue(b)'
    BY <1>1, <1>7, <2>3 DEF InQueue
  <2> QED  BY <2>1, <2>2, <2>3 DEF InQueue
<1>9. e \notin pool /\ e \notin missed /\ \A u \in Task : e \in own[u] => u = t
  BY <1>1, <1>2 DEF PlaceInv
<1>10. \A b \in Buf : b \in pool' \/ b \in missed' \/ (\E u \in Task : b \in own'[u]) \/ InQueue(b)'
  BY <1>2, <1>3, <1>4, <1>8 DEF PlaceInv
<1>11. \A b \in pool' : b \notin missed' /\ (\A u \in Task : b \notin own'[u]) /\ ~InQueue(b)'
  BY <1>2, <1>3, <1>4, <1>8, <1>9 DEF PlaceInv, QueueTypeOK
<1>12. \A b \in missed' : (\A u \in Task : b \notin own'[u]) /\ ~InQueue(b)'
  BY <1>2, <1>3, <1>4, <1>8, <1>9 DEF PlaceInv, QueueTypeOK
<1>13. \A u \in Task : \A b \in own'[u] : (\A v \in Task : b \in own'[v] => v = u) /\ ~InQueue(b)'
  <2>1. \A u \in Task : \A b \in own'[u] : b \in own[u] /\ b # e /\ b \in Buf
    BY <1>2, <1>4, <1>9 DEF QueueTypeOK
  <2> QED  BY <1>2, <1>8, <2>1 DEF PlaceInv
<1>14. ASSUME NEW r \in Queue, NEW u \in Queue,
              NEW i \in 1 .. Len(contents'[r]), NEW j \in 1 .. Len(contents'[u]),
              contents'[r][i] = contents'[u][j]
       PROVE  r = u /\ i = j
  <2>1. \/ r = q /\ i = n /\ contents'[r][i] = e
        \/ i \in 1 .. Len(contents[r]) /\ contents'[r][i] = contents[r][i]
    BY <1>1, <1>5
  <2>2. \/ u = q /\ j = n /\ contents'[u][j] = e
        \/ j \in 1 .. Len(contents[u]) /\ contents'[u][j] = contents[u][j]
    BY <1>1, <1>5
  <2>3. \A x \in Queue : \A k \in 1 .. Len(contents[x]) : contents[x][k] # e
    BY <1>1 DEF InQueue
  <2> QED  BY <1>2, <1>14, <2>1, <2>2, <2>3 DEF PlaceInv
<1> QED  BY <1>10, <1>11, <1>12, <1>13, <1>14 DEF PlaceInv

\* A buffer is removed: it is in hand, and the others are where they were.
LEMMA PlaceUnlink == ASSUME QueueInv, NEW t \in Task, Unlink(t) PROVE PlaceInv'
<1> DEFINE q == at[t]
           e == pBuf[t]
           k == Position(contents[q], pBuf[t])
           from(j) == IF j < k THEN j ELSE j + 1
<1>1. /\ q \in Queue /\ k \in 1 .. Len(contents[q]) /\ contents[q][k] = e
      /\ Len(contents'[q]) = Len(contents[q]) - 1
      /\ \A j \in 1 .. Len(contents[q]) - 1 : contents'[q][j] = contents[q][from(j)]
      /\ \A r \in Queue : r # q => contents'[r] = contents[r]
  BY UnlinkMoves
<1>2. /\ QueueTypeOK /\ PlaceInv /\ Len(contents[q]) \in Nat
      /\ \A r \in Queue : \A i \in 1 .. Len(contents[r]) : contents[r][i] \in Buf
  BY <1>1, QueueHolds DEF QueueInv
<1>3. /\ pool' = pool /\ missed' = missed
      /\ own' = [own EXCEPT ![t] = @ \cup {e}]
  BY DEF Unlink
<1>4. own'[t] = own[t] \cup {e} /\ \A u \in Task : u # t => own'[u] = own[u]
  BY <1>2, <1>3 DEF QueueTypeOK
<1> HIDE DEF q, e, k
<1>5. \A j \in 1 .. Len(contents'[q]) :
        /\ from(j) \in 1 .. Len(contents[q]) /\ from(j) # k
        /\ contents'[q][j] = contents[q][from(j)]
  BY <1>1, <1>2
<1>6. \A i, j \in 1 .. Len(contents'[q]) : from(i) = from(j) => i = j
  BY <1>1, <1>2
<1>7. ASSUME NEW i \in 1 .. Len(contents[q]), i # k
      PROVE  \E j \in 1 .. Len(contents'[q]) : contents'[q][j] = contents[q][i]
  <2>1. CASE i < k
    <3>1. i \in 1 .. Len(contents'[q]) /\ from(i) = i
      BY <1>1, <1>2, <2>1
    <3> QED  BY <1>5, <3>1
  <2>2. CASE i > k
    <3>1. i - 1 \in 1 .. Len(contents'[q]) /\ from(i - 1) = i
      BY <1>1, <1>2, <2>2
    <3> QED  BY <1>5, <3>1
  <2> QED  BY <1>1, <1>2, <1>7, <2>1, <2>2
<1> HIDE DEF from
<1>8. InQueue(e) /\ e \in Buf
  BY <1>1, <1>2 DEF InQueue
<1>9. ASSUME NEW r \in Queue, NEW i \in 1 .. Len(contents'[r])
      PROVE  /\ contents'[r][i] # e
             /\ \E j \in 1 .. Len(contents[r]) :
                  /\ contents[r][j] = contents'[r][i]
                  /\ j = IF r = q THEN from(i) ELSE i
  <2>1. CASE r = q
    <3>1. /\ from(i) \in 1 .. Len(contents[q]) /\ from(i) # k
          /\ contents'[q][i] = contents[q][from(i)]
      BY <1>5, <2>1
    <3>2. contents[q][from(i)] # contents[q][k]
      BY <1>1, <1>2, <3>1 DEF PlaceInv
    <3> QED  BY <1>1, <2>1, <3>1, <3>2
  <2>2. CASE r # q
    <3>1. contents'[r] = contents[r] /\ i \in 1 .. Len(contents[r])
      BY <1>1, <2>2
    <3>2. contents[r][i] # contents[q][k]
      BY <1>1, <1>2, <2>2, <3>1 DEF PlaceInv
    <3> QED  BY <1>1, <2>2, <3>1, <3>2
  <2> QED  BY <2>1, <2>2
<1>10. ASSUME NEW b \in Buf PROVE InQueue(b)' <=> InQueue(b) /\ b # e
  <2>1. ASSUME InQueue(b)' PROVE InQueue(b) /\ b # e
    BY <1>9, <2>1 DEF InQueue
  <2>2. ASSUME InQueue(b), b # e PROVE InQueue(b)'
    <3>0. PICK r \in Queue : \E i \in 1 .. Len(contents[r]) : contents[r][i] = b
      BY <2>2 DEF InQueue
    <3>1. PICK i \in 1 .. Len(contents[r]) : contents[r][i] = b
      BY <3>0
    <3>2. CASE r = q
      BY <1>1, <1>7, <2>2, <3>1, <3>2 DEF InQueue
    <3>3. CASE r # q
      BY <1>1, <3>1, <3>3 DEF InQueue
    <3> QED  BY <3>2, <3>3
  <2> QED  BY <2>1, <2>2
<1>11. e \notin pool /\ e \notin missed /\ \A u \in Task : e \notin own[u]
  BY <1>2, <1>8 DEF PlaceInv
<1>12. \A b \in Buf : b \in pool' \/ b \in missed' \/ (\E u \in Task : b \in own'[u]) \/ InQueue(b)'
  <2>1. ASSUME NEW b \in Buf, b = e PROVE \E u \in Task : b \in own'[u]
    BY <1>4, <2>1
  <2>2. ASSUME NEW b \in Buf, NEW u \in Task, b \in own[u] PROVE b \in own'[u]
    BY <1>4, <2>2
  <2> QED  BY <1>2, <1>3, <1>10, <2>1, <2>2 DEF PlaceInv
<1>13. \A b \in pool' : b \notin missed' /\ (\A u \in Task : b \notin own'[u]) /\ ~InQueue(b)'
  BY <1>2, <1>3, <1>4, <1>10, <1>11 DEF PlaceInv, QueueTypeOK
<1>14. \A b \in missed' : (\A u \in Task : b \notin own'[u]) /\ ~InQueue(b)'
  BY <1>2, <1>3, <1>4, <1>10, <1>11 DEF PlaceInv, QueueTypeOK
<1>15. \A u \in Task : \A b \in own'[u] : (\A v \in Task : b \in own'[v] => v = u) /\ ~InQueue(b)'
  <2>1. \A u \in Task : \A b \in own'[u] : b \in Buf /\ (b \in own[u] \/ (b = e /\ u = t))
    BY <1>2, <1>4, <1>8 DEF QueueTypeOK
  <2> QED  BY <1>2, <1>10, <1>11, <2>1 DEF PlaceInv
<1>16. ASSUME NEW r \in Queue, NEW u \in Queue,
              NEW i \in 1 .. Len(contents'[r]), NEW j \in 1 .. Len(contents'[u]),
              contents'[r][i] = contents'[u][j]
       PROVE  r = u /\ i = j
  <2>1. PICK i1 \in 1 .. Len(contents[r]) :
          contents[r][i1] = contents'[r][i] /\ i1 = IF r = q THEN from(i) ELSE i
    BY <1>9
  <2>2. PICK j1 \in 1 .. Len(contents[u]) :
          contents[u][j1] = contents'[u][j] /\ j1 = IF u = q THEN from(j) ELSE j
    BY <1>9
  <2>3. r = u /\ i1 = j1
    BY <1>2, <1>16, <2>1, <2>2 DEF PlaceInv
  <2> QED  BY <1>6, <2>1, <2>2, <2>3
<1> QED  BY <1>12, <1>13, <1>14, <1>15, <1>16 DEF PlaceInv

\* Every buffer stays in one place.
LEMMA PlaceInvStep == QueueInv /\ [QueueNext]_qvars => PlaceInv'
<1> SUFFICES ASSUME QueueInv, [QueueNext]_qvars PROVE PlaceInv'
  OBVIOUS
<1>0. QueueTypeOK /\ PlaceInv
  BY DEF QueueInv
<1>1. ASSUME contents' = contents PROVE \A b \in Buf : InQueue(b)' <=> InQueue(b)
  BY <1>1 DEF InQueue
<1>2. ASSUME UNCHANGED <<contents, pool, own, missed>> PROVE PlaceInv'
  BY <1>0, <1>2 DEF PlaceInv, InQueue
<1>3. ASSUME NEW t \in Task, NEW b \in Buf, MemAlloc(t, b) PROVE PlaceInv'
  <2>1. /\ b \in pool /\ pool' = pool \ {b} /\ missed' = missed /\ contents' = contents
        /\ own'[t] = own[t] \cup {b} /\ \A u \in Task : u # t => own'[u] = own[u]
    BY <1>0, <1>3 DEF MemAlloc, QueueTypeOK
  <2>2. \A u \in Task : b \notin own[u]
    BY <1>0, <2>1 DEF PlaceInv
  <2>3. \A u \in Task : \A x \in own'[u] : x \in Buf /\ (x \in own[u] \/ (x = b /\ u = t))
    BY <1>0, <2>1 DEF QueueTypeOK
  <2>4. \A u \in Task : \A x \in own[u] : x \in own'[u]
    BY <2>1
  <2>5. \A x \in Buf : x \in pool' \/ x \in missed' \/ (\E u \in Task : x \in own'[u]) \/ InQueue(x)'
    BY <1>0, <1>1, <2>1, <2>4 DEF PlaceInv
  <2>6. \A x \in pool' : x \notin missed' /\ (\A u \in Task : x \notin own'[u]) /\ ~InQueue(x)'
    BY <1>0, <1>1, <2>1, <2>3 DEF PlaceInv, QueueTypeOK
  <2>7. \A x \in missed' : (\A u \in Task : x \notin own'[u]) /\ ~InQueue(x)'
    BY <1>0, <1>1, <2>1, <2>3 DEF PlaceInv, QueueTypeOK
  <2>8. \A u \in Task : \A x \in own'[u] : (\A v \in Task : x \in own'[v] => v = u) /\ ~InQueue(x)'
    BY <1>0, <1>1, <2>1, <2>2, <2>3 DEF PlaceInv
  <2> QED  BY <1>0, <2>1, <2>5, <2>6, <2>7, <2>8 DEF PlaceInv
<1>4. ASSUME NEW t \in Task, NEW b \in own[t], NEW P, NEW M,
             P = pool \/ P = pool \cup {b},
             M = missed \/ M = missed \cup {b}, (P # pool) <=> (M = missed),
             pool' = P, missed' = M, own' = [own EXCEPT ![t] = @ \ {b}], contents' = contents
      PROVE  PlaceInv'
  <2>1. own'[t] = own[t] \ {b} /\ \A u \in Task : u # t => own'[u] = own[u]
    BY <1>0, <1>4 DEF QueueTypeOK
  <2>2. /\ b \in Buf /\ b \notin pool /\ b \notin missed /\ ~InQueue(b)
        /\ \A u \in Task : b \in own[u] => u = t
    BY <1>0 DEF PlaceInv, QueueTypeOK
  <2>3. \A u \in Task : \A x \in own'[u] : x \in own[u] /\ x # b /\ x \in Buf
    BY <1>0, <2>1, <2>2 DEF QueueTypeOK
  <2>4. \A u \in Task : \A x \in own[u] : x = b \/ x \in own'[u]
    BY <2>1
  <2>5. /\ \A x \in P : x \in pool \/ x = b
        /\ \A x \in M : x \in missed \/ x = b
        /\ \A x \in pool : x \in P
        /\ \A x \in missed : x \in M
        /\ b \in P \/ b \in M
        /\ ~(b \in P /\ b \in M)
    BY <1>4, <2>2
  <2>6. \A x \in Buf : x \in pool' \/ x \in missed' \/ (\E u \in Task : x \in own'[u]) \/ InQueue(x)'
    BY <1>0, <1>1, <1>4, <2>4, <2>5 DEF PlaceInv
  <2>7. \A x \in pool' : x \notin missed' /\ (\A u \in Task : x \notin own'[u]) /\ ~InQueue(x)'
    BY <1>0, <1>1, <1>4, <2>2, <2>3, <2>5 DEF PlaceInv, QueueTypeOK
  <2>8. \A x \in missed' : (\A u \in Task : x \notin own'[u]) /\ ~InQueue(x)'
    BY <1>0, <1>1, <1>4, <2>2, <2>3, <2>5 DEF PlaceInv, QueueTypeOK
  <2>9. \A u \in Task : \A x \in own'[u] : (\A v \in Task : x \in own'[v] => v = u) /\ ~InQueue(x)'
    BY <1>0, <1>1, <1>4, <2>3 DEF PlaceInv
  <2> QED  BY <1>0, <1>4, <2>6, <2>7, <2>8, <2>9 DEF PlaceInv
<1>5. ASSUME NEW t \in Task, NEW b \in Buf, MemPut(t, b) PROVE PlaceInv'
  <2>1. b \in own[t] /\ b \notin pool
    BY <1>0, <1>5 DEF MemPut, PlaceInv
  <2>2. /\ pool' = pool \cup {b} /\ missed' = missed /\ contents' = contents
        /\ own' = [own EXCEPT ![t] = @ \ {b}]
    BY <1>5 DEF MemPut, list
  <2>3. pool \cup {b} # pool
    BY <2>1
  <2> QED  BY <1>4, <2>1, <2>2, <2>3
<1>6. ASSUME NEW t \in Task, NEW q \in Queue, NEW b \in Buf, AppendMisses(t, q, b) PROVE PlaceInv'
  <2>1. b \in own[t] /\ b \notin missed
    BY <1>0, <1>6 DEF AppendMisses, PlaceInv
  <2>2. /\ pool' = pool /\ missed' = missed \cup {b} /\ contents' = contents
        /\ own' = [own EXCEPT ![t] = @ \ {b}]
    BY <1>6 DEF AppendMisses, list
  <2>3. missed \cup {b} # missed
    BY <2>1
  <2> QED  BY <1>4, <2>1, <2>2, <2>3
<1>7. ASSUME NEW t \in Task, NEW q \in Queue, NEW b \in Buf, Append1(t, q, b) PROVE PlaceInv'
  BY <1>2, <1>7 DEF Append1, list
<1>8. ASSUME NEW t \in Task, NEW q \in Queue, NEW fits \in SUBSET Buf, Remove1(t, q, fits)
      PROVE  PlaceInv'
  BY <1>2, <1>8 DEF Remove1, list
<1>9. ASSUME NEW t \in Task, AppendLink(t) \/ Search(t) \/ NotFound(t) \/ Unlock(t) PROVE PlaceInv'
  BY <1>2, <1>9 DEF AppendLink, Search, NotFound, Unlock, list
<1>10. CASE UNCHANGED qvars
  BY <1>2, <1>10 DEF qvars, list
<1> QED
  BY <1>3, <1>5, <1>6, <1>7, <1>8, <1>9, <1>10, PlaceTail, PlaceUnlink DEF QueueNext, InCall

(***************************************************************************)
(* The list of a queue that a step leaves alone.                           *)
(***************************************************************************)
ListKept(q) == contents'[q] = contents[q] /\ Linked(q)' /\ After(q)' = After(q)

LEMMA KeptIfUntouched ==
  ASSUME QueueTypeOK, ListInv, NEW q \in Queue,
         contents'[q] = contents[q], pHead'[q] = pHead[q], pTail'[q] = pTail[q],
         u8Size'[q] = u8Size[q],
         \A i \in 1 .. Len(contents[q]) : pNext'[contents[q][i]] = pNext[contents[q][i]]
  PROVE  ListKept(q)
<1> DEFINE s == contents[q]
<1>1. Len(s) \in Nat /\ (s = <<>> <=> Len(s) = 0) /\ Linked(q)
  BY QueueHolds DEF ListInv
<1>2. s # <<>> => Len(s) \in 1 .. Len(s)
  BY <1>1
<1>3. After(q)' = After(q)
  BY <1>2 DEF After
<1>4. \A i \in 1 .. Len(s) - 1 : i \in 1 .. Len(s)
  BY <1>1
<1>5. Linked(q)'
  BY <1>1, <1>4 DEF Linked
<1> QED  BY <1>3, <1>5 DEF ListKept

\* A list that one step changes is that of the task that has its mutex.
LEMMA KeptByOthers ==
  ASSUME QueueInv, NEW t \in Task, AppendLink(t) \/ AppendTail(t) \/ Unlink(t),
         NEW q \in Queue, q # at[t]
  PROVE  ListKept(q)
<1>1. QueueTypeOK /\ ListInv /\ PlaceInv /\ at[t] \in Queue
  BY DEF QueueInv, LockInv, AppendLink, AppendTail, Unlink
<1>2. /\ Len(contents[at[t]]) \in Nat
      /\ (contents[at[t]] = <<>>) <=> (Len(contents[at[t]]) = 0)
      /\ \A i \in 1 .. Len(contents[q]) : contents[q][i] \in Buf
  BY <1>1, QueueHolds
<1>3. \A j \in 1 .. Len(contents[at[t]]), i \in 1 .. Len(contents[q]) :
        contents[q][i] # contents[at[t]][j]
  BY <1>1 DEF PlaceInv
<1>4. CASE AppendLink(t)
  <2>1. contents' = contents /\ pHead'[q] = pHead[q] /\ pTail' = pTail /\ u8Size' = u8Size
    BY <1>1, <1>4 DEF AppendLink, QueueTypeOK
  <2>2. ASSUME NEW i \in 1 .. Len(contents[q])
        PROVE  pNext'[contents[q][i]] = pNext[contents[q][i]]
    <3>1. CASE u8Size[at[t]] = 0
      BY <1>4, <3>1 DEF AppendLink
    <3>2. CASE u8Size[at[t]] # 0
      <4>1. /\ pTail[at[t]] = contents[at[t]][Len(contents[at[t]])]
            /\ Len(contents[at[t]]) \in 1 .. Len(contents[at[t]])
        BY <1>1, <1>2, <3>2 DEF ListInv, Linked
      <4>2. contents[q][i] # pTail[at[t]] /\ contents[q][i] \in Buf
        BY <1>2, <1>3, <4>1
      <4>3. pNext' = [pNext EXCEPT ![pTail[at[t]]] = pBuf[t]]
        BY <1>4, <3>2 DEF AppendLink
      <4> QED  BY <1>1, <4>2, <4>3 DEF QueueTypeOK
    <3> QED  BY <3>1, <3>2
  <2> QED  BY <1>1, <2>1, <2>2, KeptIfUntouched
<1>5. CASE AppendTail(t)
  <2>1. ~InQueue(pBuf[t]) /\ contents'[q] = contents[q]
    BY <1>5, TailMoves
  <2>2. pHead' = pHead /\ pTail'[q] = pTail[q] /\ u8Size'[q] = u8Size[q]
    BY <1>1, <1>5 DEF AppendTail, QueueTypeOK
  <2>3. pNext' = [pNext EXCEPT ![pBuf[t]] = Nil]
    BY <1>5 DEF AppendTail, Ended
  <2>4. \A i \in 1 .. Len(contents[q]) : contents[q][i] # pBuf[t]
    BY <2>1 DEF InQueue
  <2>5. \A i \in 1 .. Len(contents[q]) : pNext'[contents[q][i]] = pNext[contents[q][i]]
    BY <1>1, <1>2, <2>3, <2>4 DEF QueueTypeOK
  <2> QED  BY <1>1, <2>1, <2>2, <2>5, KeptIfUntouched
<1>6. CASE Unlink(t)
  <2> DEFINE k == Position(contents[at[t]], pBuf[t])
             p == contents[at[t]][IF k = 1 THEN 1 ELSE k - 1]
  <2>1. /\ contents'[q] = contents[q] /\ k \in 1 .. Len(contents[at[t]])
        /\ pBufPrevious[t] = p
    BY <1>6, UnlinkMoves
  <2>2. (IF k = 1 THEN 1 ELSE k - 1) \in 1 .. Len(contents[at[t]])
    BY <1>2, <2>1
  <2>3. \A i \in 1 .. Len(contents[q]) : contents[q][i] # p
    BY <1>3, <2>2
  <2>4. pHead'[q] = pHead[q] /\ pTail'[q] = pTail[q] /\ u8Size'[q] = u8Size[q]
    BY <1>1, <1>6 DEF Unlink, QueueTypeOK
  <2>5. \/ pNext' = pNext
        \/ pNext' = [pNext EXCEPT ![p] = pNext[pBuf[t]]]
    BY <1>6, <2>1 DEF Unlink
  <2> HIDE DEF k, p
  <2>6. \A i \in 1 .. Len(contents[q]) : pNext'[contents[q][i]] = pNext[contents[q][i]]
    BY <1>1, <1>2, <2>3, <2>5 DEF QueueTypeOK
  <2> QED  BY <1>1, <2>1, <2>4, <2>6, KeptIfUntouched
<1> QED  BY <1>4, <1>5, <1>6

\* Every other step but an allocation leaves all lists alone, and an
\* allocation too: the buffer is in none.
LEMMA KeptByQuiet ==
  ASSUME QueueInv, NEW q \in Queue,
         UNCHANGED list \/ \E t \in Task, b \in Buf : MemAlloc(t, b)
  PROVE  ListKept(q)
<1>1. QueueTypeOK /\ ListInv /\ PlaceInv
  BY DEF QueueInv
<1>2. CASE UNCHANGED list
  BY <1>1, <1>2, KeptIfUntouched DEF list
<1>3. ASSUME NEW t \in Task, NEW b \in Buf, MemAlloc(t, b) PROVE ListKept(q)
  <2>1. UNCHANGED <<contents, pHead, pTail, u8Size>> /\ pNext' = [pNext EXCEPT ![b] = Nil]
    BY <1>3 DEF MemAlloc
  <2>2. \A i \in 1 .. Len(contents[q]) : contents[q][i] # b /\ contents[q][i] \in Buf
    BY <1>1, <1>3, QueueHolds DEF PlaceInv, InQueue, MemAlloc
  <2>3. \A i \in 1 .. Len(contents[q]) : pNext'[contents[q][i]] = pNext[contents[q][i]]
    BY <1>1, <2>1, <2>2 DEF QueueTypeOK
  <2> QED  BY <1>1, <2>1, <2>3, KeptIfUntouched
<1> QED  BY <1>2, <1>3

\* A list is linked after each step of the task that has its mutex: the new
\* buffer is reached from the last element, or from the head.
LEMMA LinkedByLink ==
  ASSUME QueueInv, NEW t \in Task, AppendLink(t), NEW q, q = at[t]
  PROVE  contents' = contents /\ Linked(q)' /\ After(q)' = pBuf[t]
<1> DEFINE s == contents[q]
<1>1. QueueTypeOK /\ ListInv /\ PlaceInv /\ q \in Queue
  BY DEF QueueInv, LockInv, AppendLink
<1>2. /\ Len(s) \in Nat /\ (s = <<>> <=> Len(s) = 0)
      /\ \A i \in 1 .. Len(s) : s[i] \in Buf
      /\ Linked(q) /\ u8Size[q] = Len(s)
  BY <1>1, QueueHolds DEF ListInv, Linked
<1>3. contents' = contents /\ pTail' = pTail /\ u8Size' = u8Size
  BY DEF AppendLink
<1>4. CASE u8Size[q] = 0
  <2>1. pHead' = [pHead EXCEPT ![q] = pBuf[t]] /\ pNext' = pNext
    BY <1>4 DEF AppendLink
  <2>2. pHead'[q] = pBuf[t]
    BY <1>1, <2>1 DEF QueueTypeOK
  <2>3. s = <<>>
    BY <1>2, <1>4
  <2> QED  BY <1>2, <1>3, <2>1, <2>2, <2>3 DEF Linked, After
<1>5. CASE u8Size[q] # 0
  <2>1. pNext' = [pNext EXCEPT ![pTail[q]] = pBuf[t]] /\ pHead' = pHead
    BY <1>5 DEF AppendLink
  <2>2. s # <<>> /\ pTail[q] = s[Len(s)] /\ Len(s) \in 1 .. Len(s)
    BY <1>2, <1>5 DEF Linked
  <2>3. pNext'[s[Len(s)]] = pBuf[t]
    BY <1>1, <1>2, <2>1, <2>2 DEF QueueTypeOK
  <2>4. ASSUME NEW i \in 1 .. Len(s) - 1 PROVE pNext'[s[i]] = s[i + 1]
    <3>1. i \in 1 .. Len(s) /\ i # Len(s)
      BY <1>2
    <3>2. s[i] # s[Len(s)]
      BY <1>1, <2>2, <3>1 DEF PlaceInv
    <3> QED  BY <1>1, <1>2, <2>1, <2>2, <3>1, <3>2 DEF QueueTypeOK, Linked
  <2> QED  BY <1>2, <1>3, <2>1, <2>2, <2>3, <2>4 DEF Linked, After
<1> QED  BY <1>3, <1>4, <1>5

\* The element appended is the last, and counted.
LEMMA LinkedByTail ==
  ASSUME QueueInv, NEW t \in Task, AppendTail(t), NEW q, q = at[t]
  PROVE  Linked(q)' /\ After(q)' = Nil
<1> DEFINE s == contents[q]
           e == pBuf[t]
           n == Len(s) + 1
<1>1. /\ q \in Queue /\ step[t] = "tail" /\ e \in Buf /\ ~InQueue(e)
      /\ Len(contents'[q]) = n /\ contents'[q][n] = e
      /\ \A i \in 1 .. Len(s) : contents'[q][i] = s[i]
  BY TailMoves
<1>2. QueueTypeOK /\ ListInv /\ PlaceInv /\ After(q) = e
  BY <1>1 DEF QueueInv, CallInv, CallOK
<1>3. /\ Len(s) \in Nat /\ (s = <<>> <=> Len(s) = 0)
      /\ \A i \in 1 .. Len(s) : s[i] \in Buf
      /\ Linked(q) /\ u8Size[q] = Len(s)
  BY <1>1, <1>2, QueueHolds DEF ListInv, Linked
<1>4. /\ pTail'[q] = e /\ pHead' = pHead /\ pNext' = [pNext EXCEPT ![e] = Nil]
      /\ u8Size'[q] = n % SizeMod
  BY <1>1, <1>2, <1>3 DEF AppendTail, Ended, OneMore, QueueTypeOK
<1>5. u8Size'[q] = n
  <2>1. n < SizeMod /\ n \in Nat /\ SizeMod \in Nat
    BY <1>1, <1>2, <1>3, RoomForOne, QueueConstants
  <2> QED  BY <1>4, <2>1, SmallRemainder
<1>6. pNext'[e] = Nil /\ \A b \in Buf : b # e => pNext'[b] = pNext[b]
  BY <1>1, <1>2, <1>4 DEF QueueTypeOK
<1>7. \A i \in 1 .. Len(s) : s[i] # e
  BY <1>1 DEF InQueue
<1> HIDE DEF s, e, n
<1>8. ASSUME NEW i \in 1 .. n - 1 PROVE pNext'[contents'[q][i]] = contents'[q][i + 1]
  <2>0. i \in 1 .. Len(s)
    BY <1>3 DEF n
  <2>1. contents'[q][i] = s[i] /\ pNext'[s[i]] = pNext[s[i]]
    BY <1>1, <1>3, <1>6, <1>7, <2>0
  <2>2. CASE i = Len(s)
    <3>1. pNext[s[i]] = e
      BY <1>2, <1>3, <2>0, <2>2 DEF After, s
    <3> QED  BY <1>1, <2>1, <2>2, <3>1 DEF n
  <2>3. CASE i # Len(s)
    <3>1. i \in 1 .. Len(s) - 1 /\ i + 1 \in 1 .. Len(s)
      BY <1>3, <2>0, <2>3
    <3>2. pNext[s[i]] = s[i + 1]
      BY <1>3, <3>1 DEF Linked, s
    <3> QED  BY <1>1, <2>1, <3>1, <3>2
  <2> QED  BY <2>2, <2>3
<1>9. pHead'[q] = contents'[q][1]
  <2>1. CASE s = <<>>
    <3>1. n = 1 /\ pHead[q] = e
      BY <1>2, <1>3, <2>1 DEF After, s, n
    <3> QED  BY <1>1, <1>4, <3>1
  <2>2. CASE s # <<>>
    <3>1. 1 \in 1 .. Len(s) /\ pHead[q] = s[1]
      BY <1>3, <2>2 DEF Linked, s
    <3> QED  BY <1>1, <1>4, <3>1
  <2> QED  BY <2>1, <2>2
<1>10. contents'[q] # <<>>
  <2>1. Len(contents'[q]) # 0
    BY <1>1, <1>3 DEF n
  <2> QED  BY <2>1
<1> QED  BY <1>1, <1>4, <1>5, <1>6, <1>8, <1>9, <1>10 DEF Linked, After

\* The neighbours of the element removed are linked, at either end and between.
LEMMA LinkedByUnlink ==
  ASSUME QueueInv, NEW t \in Task, Unlink(t), NEW q, q = at[t]
  PROVE  Linked(q)' /\ After(q)' = Nil
<1> DEFINE s == contents[q]
           n == Len(s)
           e == pBuf[t]
           k == Position(contents[q], pBuf[t])
           r == contents'[q]
<1>1. /\ q \in Queue /\ mtx[q] = t /\ step[t] = "search"
      /\ k \in 1 .. n /\ s[k] = e
      /\ pBufPrevious[t] = s[IF k = 1 THEN 1 ELSE k - 1]
      /\ Len(r) = n - 1
      /\ \A j \in 1 .. n - 1 : r[j] = s[IF j < k THEN j ELSE j + 1]
  BY UnlinkMoves
<1>2. /\ QueueTypeOK /\ Linked(q) /\ n \in Nat /\ (r = <<>> <=> n - 1 = 0)
      /\ \A i \in 1 .. n : s[i] \in Buf /\ s[i] # Nil
  <2>1. QueueTypeOK /\ Linked(q)
    BY <1>1 DEF QueueInv, ListInv
  <2>2. QueueTypeOK'
    BY QueueTypeStep DEF QueueNext, InCall
  <2>3. (contents'[q] = <<>>) <=> (Len(contents'[q]) = 0)
    BY <1>1, <2>2, EmptySeq DEF QueueTypeOK
  <2> QED  BY <1>1, <2>1, <2>3, QueueHolds
<1>3. \A i, j \in 1 .. n : s[i] = s[j] => i = j
  BY <1>1 DEF QueueInv, PlaceInv
<1>4. /\ u8Size[q] = n /\ pHead[q] = s[1] /\ pTail[q] = s[n]
      /\ \A i \in 1 .. n - 1 : pNext[s[i]] = s[i + 1]
  <2>1. s # <<>>
    BY <1>1, <1>2
  <2> QED  BY <1>2, <2>1 DEF Linked
<1>5. pNext[s[n]] = Nil
  <2>1. \A u \in Task : step[u] = "tail" => at[u] # q
    BY <1>1 DEF QueueInv, LockInv
  <2>2. After(q) = Nil /\ s # <<>>
    BY <1>1, <1>2, <2>1 DEF QueueInv, ListInv
  <2> QED  BY <2>2 DEF After
<1>6. e = pHead[q] <=> k = 1
  BY <1>1, <1>2, <1>3, <1>4
<1>7. e = pTail[q] <=> k = n
  BY <1>1, <1>2, <1>3, <1>4
<1>8. u8Size'[q] = n - 1
  <2>1. u8Size'[q] = (n - 1) % SizeMod
    BY <1>1, <1>2, <1>4 DEF Unlink, QueueTypeOK
  <2>2. n - 1 \in Nat /\ n - 1 < SizeMod /\ SizeMod \in Nat
    BY <1>1, <1>2, <1>4, QueueConstants DEF QueueTypeOK
  <2> QED  BY <2>1, <2>2, SmallRemainder
<1>9. CASE k = 1
  <2>1. /\ pNext' = pNext
        /\ pHead'[q] = pNext[e]
        /\ pTail'[q] = TailAfter(t, pNext[e])
    BY <1>1, <1>2, <1>6, <1>9 DEF Unlink, QueueTypeOK
  <2>2. CASE n = 1
    <3>1. pHead'[q] = Nil /\ pTail'[q] = Nil
      BY <1>1, <1>5, <1>9, <2>1, <2>2 DEF TailAfter
    <3>2. r = <<>>
      BY <1>2, <2>2
    <3> QED  BY <1>1, <1>8, <2>2, <3>1, <3>2 DEF Linked, After
  <2>3. CASE n > 1
    <3>1. 1 \in 1 .. n - 1 /\ 2 \in 1 .. n
      BY <1>2, <2>3
    <3>2. pNext[e] = s[2] /\ s[2] # Nil
      BY <1>1, <1>2, <1>4, <1>9, <3>1
    <3>3. pHead'[q] = s[2] /\ pTail'[q] = s[n]
      BY <1>1, <1>4, <1>7, <1>9, <2>1, <2>3, <3>2 DEF TailAfter
    <3>4. \A j \in 1 .. n - 1 : r[j] = s[j + 1]
      BY <1>1, <1>2, <1>9
    <3>5. r[1] = s[2] /\ r[n - 1] = s[n]
      BY <1>2, <2>3, <3>1, <3>4
    <3>6. \A j \in 1 .. n - 2 : pNext'[r[j]] = r[j + 1]
      BY <1>2, <1>4, <2>1, <3>4
    <3>7. r # <<>>
      <4>1. n - 1 # 0 /\ n \in Nat
        BY <1>2, <2>3
      <4> QED  BY <1>2, <4>1
    <3>8. pNext'[r[n - 1]] = Nil /\ Len(r) = n - 1 /\ Len(r) - 1 = n - 2
      BY <1>1, <1>2, <1>5, <2>1, <3>5
    <3> HIDE DEF s, n, e, k
    <3>9. Linked(q)'
      BY <1>8, <3>3, <3>5, <3>6, <3>7, <3>8 DEF Linked
    <3>10. After(q)' = Nil
      BY <3>7, <3>8 DEF After
    <3> QED  BY <3>9, <3>10
  <2> QED  BY <1>1, <1>2, <2>2, <2>3
<1>10. CASE k # 1
  <2> DEFINE p == s[k - 1]
  <2>1. k - 1 \in 1 .. n /\ n > 1 /\ k \in 2 .. n
    BY <1>1, <1>2, <1>10
  <2>2. pBufPrevious[t] = p /\ p \in Buf
    BY <1>1, <1>2, <1>10, <2>1
  <2>3. /\ pNext' = [pNext EXCEPT ![p] = pNext[e]]
        /\ pHead'[q] = s[1]
        /\ pTail'[q] = TailAfter(t, s[1])
    BY <1>1, <1>2, <1>4, <1>6, <1>10, <2>2 DEF Unlink, QueueTypeOK
  <2>4. s[1] # Nil
    BY <1>2, <2>1
  <2>5. pTail'[q] = IF k = n THEN p ELSE s[n]
    BY <1>1, <1>4, <1>7, <2>2, <2>3, <2>4 DEF TailAfter
  <2>6. pNext'[p] = pNext[e] /\ \A b \in Buf : b # p => pNext'[b] = pNext[b]
    BY <1>2, <2>2, <2>3 DEF QueueTypeOK
  <2>7. \A i \in 1 .. n : i # k - 1 => s[i] # p /\ pNext'[s[i]] = pNext[s[i]]
    BY <1>2, <1>3, <2>1, <2>6
  <2>8. r[1] = s[1] /\ r # <<>>
    <3>1. 1 \in 1 .. n - 1 /\ 1 < k
      BY <1>2, <2>1
    <3> QED  BY <1>1, <1>2, <3>1
  <2>9. r[n - 1] = IF k = n THEN p ELSE s[n]
    <3>1. n - 1 \in 1 .. n - 1
      BY <1>2, <2>1
    <3>2. CASE k = n
      <4>1. n - 1 < k /\ r[n - 1] = s[n - 1]
        BY <1>1, <1>2, <3>1, <3>2
      <4> QED  BY <3>2, <4>1
    <3>3. CASE k # n
      <4>1. ~(n - 1 < k) /\ (n - 1) + 1 = n
        BY <1>2, <2>1, <3>3
      <4> QED  BY <1>1, <3>1, <3>3, <4>1
    <3> QED  BY <3>2, <3>3
  <2>10. ASSUME NEW j \in 1 .. n - 2 PROVE pNext'[r[j]] = r[j + 1]
    <3> HIDE DEF s, n, e, k, r
    <3>0. j \in 1 .. n - 1 /\ j + 1 \in 1 .. n - 1 /\ j \in 1 .. n /\ j + 1 \in 1 .. n
      BY <1>2
    <3>1. CASE j < k - 1
      <4>0. j < k /\ j + 1 < k /\ j # k - 1
        BY <2>1, <3>0, <3>1
      <4>1. r[j] = s[j] /\ r[j + 1] = s[j + 1]
        BY <1>1, <3>0, <4>0
      <4>2. pNext'[s[j]] = pNext[s[j]]
        BY <2>7, <3>0, <4>0
      <4> QED  BY <1>4, <3>0, <4>1, <4>2
    <3>2. CASE j = k - 1
      <4>0. j < k
        BY <2>1, <3>0, <3>2
      <4>1. r[j] = p
        BY <1>1, <3>0, <3>2, <4>0
      <4>2. ~(j + 1 < k) /\ j + 1 = k
        BY <2>1, <3>0, <3>2
      <4>3. r[j + 1] = s[k + 1]
        BY <1>1, <3>0, <4>2
      <4>4. pNext[e] = s[k + 1]
        <5>1. k \in 1 .. n - 1
          BY <2>1, <3>0, <3>2
        <5> QED  BY <1>1, <1>4, <5>1
      <4> QED  BY <2>6, <4>1, <4>3, <4>4
    <3>3. CASE j > k - 1
      <4>0. ~(j < k) /\ ~(j + 1 < k) /\ j + 1 # k - 1
        BY <2>1, <3>0, <3>3
      <4>1. /\ r[j] = s[j + 1] /\ r[j + 1] = s[(j + 1) + 1]
            /\ j + 1 # k - 1 /\ j + 1 \in 1 .. n - 1
        BY <1>1, <3>0, <4>0
      <4>2. pNext'[s[j + 1]] = pNext[s[j + 1]]
        BY <2>7, <3>0, <4>1
      <4> QED  BY <1>4, <4>1, <4>2
    <3> QED  BY <2>1, <3>0, <3>1, <3>2, <3>3
  <2>11. pNext'[r[n - 1]] = Nil
    <3>1. CASE k = n
      BY <1>1, <1>5, <2>6, <2>9, <3>1
    <3>2. CASE k # n
      <4>1. n # k - 1 /\ n \in 1 .. n
        BY <1>1, <1>2, <2>1
      <4> QED  BY <1>5, <2>7, <2>9, <3>2, <4>1
    <3> QED  BY <3>1, <3>2
  <2> HIDE DEF p, s, n, e, k
  <2>12. Linked(q)'
    BY <1>1, <1>2, <1>8, <2>3, <2>5, <2>8, <2>9, <2>10 DEF Linked
  <2>13. After(q)' = Nil
    BY <1>1, <2>8, <2>11 DEF After
  <2> QED  BY <2>12, <2>13
<1> QED  BY <1>9, <1>10

\* The lists, after any step.
LEMMA ListInvStep == QueueInv /\ [QueueNext]_qvars => ListInv'
<1> SUFFICES ASSUME QueueInv, [QueueNext]_qvars PROVE ListInv'
  OBVIOUS
<1>0. QueueTypeOK /\ ListInv
  BY DEF QueueInv
<1>1. ASSUME \A q \in Queue : ListKept(q),
             \A u \in Task : step[u] = "tail" => step'[u] = "tail" /\ at'[u] = at[u]
      PROVE  ListInv'
  <2>1. ASSUME NEW q \in Queue, \A u \in Task : step'[u] = "tail" => at'[u] # q
        PROVE  After(q)' = Nil
    BY <1>0, <1>1, <2>1 DEF ListInv, ListKept
  <2> QED  BY <1>1, <2>1 DEF ListInv, ListKept
<1>2. ASSUME NEW t \in Task, NEW b \in Buf, MemAlloc(t, b) \/ MemPut(t, b) PROVE ListInv'
  <2>1. \A q \in Queue : ListKept(q)
    BY <1>2, KeptByQuiet DEF MemPut
  <2>2. UNCHANGED <<step, at>>
    BY <1>2 DEF MemAlloc, MemPut, call
  <2> QED  BY <1>1, <2>1, <2>2
<1>3. ASSUME NEW t \in Task, UNCHANGED list, step[t] # "tail",
             \A u \in Task : u # t => step'[u] = step[u] /\ at'[u] = at[u]
      PROVE  ListInv'
  BY <1>1, <1>3, KeptByQuiet
<1>4. ASSUME NEW t \in Task, NEW q \in Queue, NEW b \in Buf, Append1(t, q, b) \/ AppendMisses(t, q, b)
      PROVE  ListInv'
  <2>1. UNCHANGED list /\ step[t] # "tail"
    BY <1>4 DEF Append1, AppendMisses
  <2>2. \A u \in Task : u # t => step'[u] = step[u] /\ at'[u] = at[u]
    BY <1>0, <1>4 DEF Append1, AppendMisses, call, QueueTypeOK
  <2> QED  BY <1>3, <2>1, <2>2
<1>5. ASSUME NEW t \in Task, NEW q \in Queue, NEW fits \in SUBSET Buf, Remove1(t, q, fits)
      PROVE  ListInv'
  <2>1. UNCHANGED list /\ step[t] # "tail"
    BY <1>5 DEF Remove1
  <2>2. \A u \in Task : u # t => step'[u] = step[u] /\ at'[u] = at[u]
    BY <1>0, <1>5 DEF Remove1, QueueTypeOK
  <2> QED  BY <1>3, <2>1, <2>2
<1>6. ASSUME NEW t \in Task, Search(t) \/ NotFound(t) \/ Unlock(t) PROVE ListInv'
  <2>1. UNCHANGED list /\ step[t] # "tail"
    BY <1>6 DEF Search, NotFound, Unlock
  <2>2. \A u \in Task : u # t => step'[u] = step[u] /\ at'[u] = at[u]
    BY <1>0, <1>6 DEF Search, NotFound, Unlock, QueueTypeOK
  <2> QED  BY <1>3, <2>1, <2>2
<1>7. ASSUME NEW t \in Task, AppendLink(t) \/ AppendTail(t) \/ Unlink(t) PROVE ListInv'
  <2>1. /\ at' = at /\ step[t] # "out"
        /\ \A u \in Task : u # t => step'[u] = step[u]
    BY <1>0, <1>7 DEF AppendLink, AppendTail, Unlink, QueueTypeOK
  <2>2. ASSUME NEW q \in Queue, q # at[t]
        PROVE  /\ Linked(q)'
               /\ (\A u \in Task : step'[u] = "tail" => at'[u] # q) => After(q)' = Nil
    <3>1. ListKept(q)
      BY <1>7, <2>2, KeptByOthers
    <3>2. ASSUME \A u \in Task : step'[u] = "tail" => at'[u] # q
          PROVE  \A u \in Task : step[u] = "tail" => at[u] # q
      BY <2>1, <2>2, <3>2
    <3> QED  BY <1>0, <3>1, <3>2 DEF ListInv, ListKept
  <2>3. ASSUME NEW q \in Queue, q = at[t]
        PROVE  /\ Linked(q)'
               /\ (\A u \in Task : step'[u] = "tail" => at'[u] # q) => After(q)' = Nil
    <3>1. CASE AppendLink(t)
      <4>1. step'[t] = "tail" /\ at'[t] = q
        BY <1>0, <2>1, <2>3, <3>1 DEF AppendLink, QueueTypeOK
      <4> QED  BY <2>3, <3>1, <4>1, LinkedByLink
    <3>2. CASE AppendTail(t)
      BY <2>3, <3>2, LinkedByTail
    <3>3. CASE Unlink(t)
      BY <2>3, <3>3, LinkedByUnlink
    <3> QED  BY <1>7, <3>1, <3>2, <3>3
  <2> QED  BY <2>2, <2>3 DEF ListInv
<1>8. CASE UNCHANGED qvars
  <2>1. UNCHANGED list /\ UNCHANGED <<step, at>>
    BY <1>8 DEF qvars, call
  <2>2. \A q \in Queue : ListKept(q)
    BY <2>1, KeptByQuiet
  <2> QED  BY <1>1, <2>1, <2>2
<1> QED
  BY <1>2, <1>4, <1>5, <1>6, <1>7, <1>8 DEF QueueNext, InCall

\* A call that another task's step leaves alone.
LEMMA CallKept ==
  ASSUME QueueInv, NEW u \in Task, step'[u] = step[u],
         step[u] # "out" =>
           /\ at'[u] = at[u] /\ pBuf'[u] = pBuf[u] /\ pBufPrevious'[u] = pBufPrevious[u]
           /\ match'[u] = match[u] /\ own'[u] = own[u]
           /\ ListKept(at[u])
  PROVE  CallOK(u)'
<1>1. CallOK(u)
  BY DEF QueueInv, CallInv
<1>2. CASE step[u] = "out"
  BY <1>2 DEF CallOK
<1>3. CASE step[u] # "out"
  <2> DEFINE q == at[u]
  <2>1. contents'[q] = contents[q] /\ After(q)' = After(q)
    BY <1>3 DEF ListKept
  <2>2. step[u] = "tail" => After(at[u])' = pBuf'[u]
    <3>1. PICK r : r = at[u]
      OBVIOUS
    <3>2. After(r)' = After(r) /\ at'[u] = r
      BY <1>3, <3>1 DEF ListKept
    <3>3. After(at[u])' = After(r)'
      BY <3>2 DEF After
    <3> QED  BY <1>1, <1>3, <3>1, <3>2, <3>3 DEF CallOK
  <2>3. step[u] = "search" => Searched(u)'
    BY <1>1, <1>3, <2>1 DEF CallOK, Searched
  <2>4. step[u] \in {"link", "tail"} => pBuf'[u] \in own'[u]
    BY <1>1, <1>3 DEF CallOK
  <2> QED  BY <2>2, <2>3, <2>4 DEF CallOK
<1> QED  BY <1>2, <1>3

\* The calls, after any step.
LEMMA CallInvStep == QueueInv /\ [QueueNext]_qvars => CallInv'
<1> SUFFICES ASSUME QueueInv, [QueueNext]_qvars PROVE CallInv'
  OBVIOUS
<1>0. QueueTypeOK /\ ListInv /\ LockInv /\ CallInv /\ Nil \notin Buf
  BY QueueConstants DEF QueueInv
<1>1. ASSUME NEW t \in Task, NEW b \in Buf, MemAlloc(t, b) \/ MemPut(t, b) PROVE CallInv'
  <2> SUFFICES ASSUME NEW u \in Task PROVE CallOK(u)'
    BY DEF CallInv
  <2>1. step[t] = "out" /\ UNCHANGED call
    BY <1>1 DEF MemAlloc, MemPut
  <2>2. \A q \in Queue : ListKept(q)
    BY <1>1, KeptByQuiet DEF MemPut
  <2>3. \A v \in Task : v # t => own'[v] = own[v]
    BY <1>0, <1>1 DEF MemAlloc, MemPut, QueueTypeOK
  <2>4. step[u] # "out" => u # t /\ at[u] \in Queue
    BY <1>0, <2>1 DEF LockInv
  <2> QED  BY <2>1, <2>2, <2>3, <2>4, CallKept DEF call
<1>2. ASSUME NEW t \in Task, UNCHANGED list, CallOK(t)',
             \A u \in Task : u # t =>
               /\ step'[u] = step[u] /\ at'[u] = at[u] /\ pBuf'[u] = pBuf[u]
               /\ pBufPrevious'[u] = pBufPrevious[u] /\ match'[u] = match[u] /\ own'[u] = own[u]
      PROVE  CallInv'
  <2> SUFFICES ASSUME NEW u \in Task, u # t PROVE CallOK(u)'
    BY <1>2 DEF CallInv
  <2>1. \A q \in Queue : ListKept(q)
    BY <1>2, KeptByQuiet
  <2>2. step[u] # "out" => at[u] \in Queue
    BY <1>0 DEF LockInv
  <2> QED  BY <1>2, <2>1, <2>2, CallKept
<1>3. ASSUME NEW t \in Task, NEW q \in Queue, NEW b \in Buf, Append1(t, q, b) PROVE CallInv'
  <2>1. /\ UNCHANGED list
        /\ \A u \in Task : u # t =>
             /\ step'[u] = step[u] /\ at'[u] = at[u] /\ pBuf'[u] = pBuf[u]
             /\ pBufPrevious'[u] = pBufPrevious[u] /\ match'[u] = match[u] /\ own'[u] = own[u]
    BY <1>0, <1>3 DEF Append1, QueueTypeOK
  <2>2. step'[t] = "link" /\ pBuf'[t] \in own'[t]
    BY <1>0, <1>3 DEF Append1, QueueTypeOK
  <2>3. CallOK(t)'
    BY <2>2 DEF CallOK
  <2> QED  BY <1>2, <2>1, <2>3
<1>4. ASSUME NEW t \in Task, NEW q \in Queue, NEW b \in Buf, AppendMisses(t, q, b) PROVE CallInv'
  <2>1. /\ UNCHANGED list
        /\ \A u \in Task : u # t =>
             /\ step'[u] = step[u] /\ at'[u] = at[u] /\ pBuf'[u] = pBuf[u]
             /\ pBufPrevious'[u] = pBufPrevious[u] /\ match'[u] = match[u] /\ own'[u] = own[u]
    BY <1>0, <1>4 DEF AppendMisses, call, QueueTypeOK
  <2>2. step'[t] = "out"
    BY <1>0, <1>4 DEF AppendMisses, call
  <2>3. CallOK(t)'
    BY <2>2 DEF CallOK
  <2> QED  BY <1>2, <2>1, <2>3
<1>5. ASSUME NEW t \in Task, NEW q \in Queue, NEW fits \in SUBSET Buf, Remove1(t, q, fits)
      PROVE  CallInv'
  <2>1. UNCHANGED list /\ own' = own
    BY <1>5 DEF Remove1
  <2>2. \A u \in Task : u # t =>
          /\ step'[u] = step[u] /\ at'[u] = at[u] /\ pBuf'[u] = pBuf[u] /\ match'[u] = match[u]
    <3>1. \A u \in Task : u # t => at'[u] = at[u] /\ match'[u] = match[u]
      BY <1>0, <1>5 DEF Remove1, QueueTypeOK
    <3>2. \/ \E v : step' = [step EXCEPT ![t] = "search"] /\ pBuf' = [pBuf EXCEPT ![t] = v]
          \/ \E v : step' = [step EXCEPT ![t] = "unlock"] /\ pBuf' = [pBuf EXCEPT ![t] = v]
      BY <1>5 DEF Remove1
    <3> QED  BY <1>0, <3>1, <3>2 DEF QueueTypeOK
  <2>3. \A u \in Task : u # t => pBufPrevious'[u] = pBufPrevious[u]
    <3>1. pBufPrevious' = pBufPrevious \/ \E v : pBufPrevious' = [pBufPrevious EXCEPT ![t] = v]
      BY <1>5 DEF Remove1
    <3> QED  BY <1>0, <3>1 DEF QueueTypeOK
  <2>4. CallOK(t)'
    <3>1. CASE u8Size[q] # 0
      <4>1. /\ step'[t] = "search" /\ at'[t] = q /\ contents' = contents
            /\ pBuf'[t] = pHead[q] /\ pBufPrevious'[t] = pHead[q]
        BY <1>0, <1>5, <3>1 DEF Remove1, QueueTypeOK, list
      <4>2. /\ Len(contents[q]) \in Nat
            /\ (contents[q] = <<>>) <=> (Len(contents[q]) = 0)
            /\ Linked(q) /\ u8Size[q] = Len(contents[q])
        BY <1>0, QueueHolds DEF ListInv, Linked
      <4>3. 1 \in 1 .. Len(contents[q]) /\ pHead[q] = contents[q][1]
        BY <3>1, <4>2 DEF Linked
      <4>4. Searched(t)'
        BY <4>1, <4>3 DEF Searched
      <4> QED  BY <4>1, <4>4 DEF CallOK
    <3>2. CASE u8Size[q] = 0
      <4>1. step'[t] = "unlock"
        BY <1>0, <1>5, <3>2 DEF Remove1, QueueTypeOK
      <4> QED  BY <4>1 DEF CallOK
    <3> QED  BY <3>1, <3>2
  <2> QED  BY <1>2, <2>1, <2>2, <2>3, <2>4
<1>6. ASSUME NEW t \in Task, Search(t) PROVE CallInv'
  <2>1. /\ UNCHANGED list
        /\ \A u \in Task : u # t =>
             /\ step'[u] = step[u] /\ at'[u] = at[u] /\ pBuf'[u] = pBuf[u]
             /\ pBufPrevious'[u] = pBufPrevious[u] /\ match'[u] = match[u] /\ own'[u] = own[u]
    BY <1>0, <1>6 DEF Search, QueueTypeOK
  <2> DEFINE q == at[t]
             s == contents[at[t]]
             i == Position(contents[at[t]], pBuf[t])
  <2>2. /\ step[t] = "search" /\ pBuf[t] # Nil /\ pBuf[t] \notin match[t]
        /\ step'[t] = "search" /\ at'[t] = q /\ match'[t] = match[t] /\ contents' = contents
        /\ pBuf'[t] = pNext[pBuf[t]] /\ pBufPrevious'[t] = pBuf[t]
    BY <1>0, <1>6 DEF Search, Onward, Fits, QueueTypeOK, list
  <2>3. /\ q \in Queue /\ mtx[q] = t /\ i \in 1 .. Len(s) /\ s[i] = pBuf[t]
        /\ \A j \in 1 .. i - 1 : s[j] \notin match[t]
    BY <2>2, FoundAt
  <2>4. Len(s) \in Nat /\ (s = <<>> <=> Len(s) = 0) /\ Linked(q)
    BY <1>0, <2>3, QueueHolds DEF ListInv
  <2>5. After(q) = Nil
    <3>1. \A u \in Task : step[u] = "tail" => at[u] # q
      BY <1>0, <2>2, <2>3 DEF LockInv
    <3> QED  BY <1>0, <2>3, <3>1 DEF ListInv
  <2> HIDE DEF i
  <2>6. \A j \in 1 .. i : s[j] \notin match[t]
    BY <2>2, <2>3, <2>4
  <2>7. Searched(t)'
    <3>1. CASE i = Len(s)
      <4>1. pBuf'[t] = Nil
        BY <2>2, <2>3, <2>4, <2>5, <3>1 DEF After
      <4> QED  BY <2>2, <2>6, <3>1, <4>1 DEF Searched
    <3>2. CASE i # Len(s)
      <4>1. i \in 1 .. Len(s) - 1 /\ i + 1 \in 1 .. Len(s) /\ (i + 1) - 1 = i /\ i + 1 # 1
        BY <2>3, <2>4, <3>2
      <4>2. pBuf'[t] = s[i + 1] /\ pBufPrevious'[t] = s[IF i + 1 = 1 THEN 1 ELSE (i + 1) - 1]
        BY <2>2, <2>3, <2>4, <4>1 DEF Linked
      <4>3. \A j \in 1 .. (i + 1) - 1 : s[j] \notin match[t]
        BY <2>6, <4>1
      <4> QED  BY <2>2, <4>1, <4>2, <4>3 DEF Searched
    <3> QED  BY <3>1, <3>2
  <2>8. CallOK(t)'
    BY <2>2, <2>7 DEF CallOK
  <2> QED  BY <1>2, <2>1, <2>8
<1>7. ASSUME NEW t \in Task, NotFound(t) \/ Unlock(t) PROVE CallInv'
  <2>1. /\ UNCHANGED list
        /\ \A u \in Task : u # t =>
             /\ step'[u] = step[u] /\ at'[u] = at[u] /\ pBuf'[u] = pBuf[u]
             /\ pBufPrevious'[u] = pBufPrevious[u] /\ match'[u] = match[u] /\ own'[u] = own[u]
    BY <1>0, <1>7 DEF NotFound, Unlock, QueueTypeOK
  <2>2. step'[t] \in {"out", "unlock"}
    BY <1>0, <1>7 DEF NotFound, Unlock, QueueTypeOK
  <2>3. CallOK(t)'
    BY <2>2 DEF CallOK
  <2> QED  BY <1>2, <2>1, <2>3
<1>8. ASSUME NEW t \in Task, AppendLink(t) \/ AppendTail(t) \/ Unlink(t) PROVE CallInv'
  <2>1. ASSUME NEW u \in Task, u # t PROVE CallOK(u)'
    <3>1. /\ step'[u] = step[u] /\ at'[u] = at[u] /\ pBuf'[u] = pBuf[u]
          /\ pBufPrevious'[u] = pBufPrevious[u] /\ match'[u] = match[u] /\ own'[u] = own[u]
      BY <1>0, <1>8, <2>1 DEF AppendLink, AppendTail, Unlink, QueueTypeOK
    <3>2. step[u] # "out" => ListKept(at[u])
      <4>1. step[t] # "out"
        BY <1>8 DEF AppendLink, AppendTail, Unlink
      <4> QED  BY <1>8, <2>1, <4>1, Alone, KeptByOthers
    <3> QED  BY <3>1, <3>2, CallKept
  <2>2. CallOK(t)'
    <3>1. CASE AppendLink(t)
      <4>1. /\ step[t] = "link" /\ step'[t] = "tail" /\ at'[t] = at[t] /\ at[t] \in Queue
            /\ pBuf' = pBuf /\ own' = own
        BY <1>0, <3>1 DEF AppendLink, QueueTypeOK, LockInv
      <4>2. PICK q : q = at[t]
        OBVIOUS
      <4>3. After(q)' = pBuf[t]
        BY <3>1, <4>2, LinkedByLink
      <4>4. After(at[t])' = After(q)'
        BY <4>1, <4>2 DEF After
      <4>5. pBuf[t] \in own[t]
        BY <1>0, <4>1 DEF CallInv, CallOK
      <4> QED  BY <4>1, <4>3, <4>4, <4>5 DEF CallOK
    <3>2. CASE AppendTail(t) \/ Unlink(t)
      <4>1. step'[t] = "unlock"
        BY <1>0, <3>2 DEF AppendTail, Unlink, QueueTypeOK
      <4> QED  BY <4>1 DEF CallOK
    <3> QED  BY <1>8, <3>1, <3>2
  <2> QED  BY <2>1, <2>2 DEF CallInv
<1>9. CASE UNCHANGED qvars
  <2> SUFFICES ASSUME NEW u \in Task PROVE CallOK(u)'
    BY DEF CallInv
  <2>1. UNCHANGED list /\ UNCHANGED call /\ UNCHANGED own
    BY <1>9 DEF qvars
  <2>2. \A q \in Queue : ListKept(q)
    BY <2>1, KeptByQuiet
  <2>3. step[u] # "out" => at[u] \in Queue
    BY <1>0 DEF LockInv
  <2> QED  BY <2>1, <2>2, <2>3, CallKept DEF call
<1> QED
  BY <1>1, <1>3, <1>4, <1>5, <1>6, <1>7, <1>8, <1>9 DEF QueueNext, InCall

\* The invariant holds at the start: every list is empty.
LEMMA QueueStart == QueueInit => QueueInv
<1> SUFFICES ASSUME QueueInit PROVE QueueInv
  OBVIOUS
<1>1. SizeMod \in Nat /\ SizeMod > 0
  <2>1. SizeMod \in Nat /\ Cardinality(Buf) < SizeMod /\ Cardinality(Buf) \in Nat
    BY QueueConstants, FS_CardinalityType
  <2> QED  BY <2>1
<1>2. \A q \in Queue : contents[q] = <<>> /\ Len(contents[q]) = 0 /\ <<>> \in Seq(Buf)
  BY EmptySeq DEF QueueInit
<1>3. QueueTypeOK
  BY <1>1, <1>2 DEF QueueInit, QueueTypeOK, Pointer
<1>4. LockInv /\ CallInv
  BY DEF QueueInit, LockInv, CallInv, CallOK
<1>5. \A b \in Buf : ~InQueue(b)
  BY <1>2 DEF InQueue
<1>6. PlaceInv
  BY <1>2, <1>5 DEF QueueInit, PlaceInv
<1>7. ListInv
  BY <1>2 DEF QueueInit, ListInv, Linked, After
<1> QED  BY <1>3, <1>4, <1>6, <1>7 DEF QueueInv

\* The invariant, for any number of tasks, queues and buffers.
THEOREM QueueInvariant == QueueSpec => []QueueInv
<1>1. QueueInv /\ [QueueNext]_qvars => QueueInv'
  BY QueueTypeStep, LockStep, PlaceInvStep, ListInvStep, CallInvStep DEF QueueInv
<1> QED  BY <1>1, QueueStart, PTL DEF QueueSpec

\* The variables keep their types.
THEOREM QueueTypeCorrect == QueueSpec => []QueueTypeOK
<1>1. QueueInv => QueueTypeOK
  BY DEF QueueInv
<1> QED  BY <1>1, QueueInvariant, PTL

\* Whatever the tasks append and remove, from whichever place of a list, a queue
\* whose mutex is free is the linked list of its contents, with their number.
THEOREM QueuesAreLists == QueueSpec => []ListAgrees
<1>1. QueueInv => ListAgrees
  <2> SUFFICES ASSUME QueueInv, NEW q \in Queue, mtx[q] = Nil
               PROVE  IsList(contents[q], pHead[q], pTail[q], u8Size[q])
    BY DEF ListAgrees
  <2>1. \A t \in Task : step[t] = "tail" => at[t] # q
    BY QueueConstants DEF QueueInv, LockInv
  <2>2. Linked(q) /\ After(q) = Nil
    BY <2>1 DEF QueueInv, ListInv
  <2> QED  BY <2>2 DEF Linked, After, IsList
<1> QED  BY <1>1, QueueInvariant, PTL

\* No buffer is lost but those Queue_Append drops, and none is in two places.
THEOREM BuffersInOnePlace == QueueSpec => []BufferInOnePlace
<1>1. QueueInv => BufferInOnePlace
  <2> SUFFICES ASSUME QueueInv, NEW b \in Buf PROVE \E p \in WhereIs(b) : WhereIs(b) = {p}
    BY DEF BufferInOnePlace
  <2>0. PlaceInv
    BY DEF QueueInv
  <2>1. CASE b \in pool
    <3>1. b \notin missed /\ (\A t \in Task : b \notin own[t]) /\ ~InQueue(b)
      BY <2>0, <2>1 DEF PlaceInv
    <3>2. WhereIs(b) = {<<"free", Nil, 0>>}
      BY <2>1, <3>1 DEF WhereIs, InQueue
    <3> QED  BY <3>2
  <2>2. CASE b \in missed
    <3>1. b \notin pool /\ (\A t \in Task : b \notin own[t]) /\ ~InQueue(b)
      BY <2>0, <2>2 DEF PlaceInv
    <3>2. WhereIs(b) = {<<"missed", Nil, 0>>}
      BY <2>2, <3>1 DEF WhereIs, InQueue
    <3> QED  BY <3>2
  <2>3. ASSUME NEW t \in Task, b \in own[t] PROVE \E p \in WhereIs(b) : WhereIs(b) = {p}
    <3>1. b \notin pool /\ b \notin missed /\ (\A u \in Task : b \in own[u] => u = t) /\ ~InQueue(b)
      BY <2>0, <2>3 DEF PlaceInv
    <3>2. WhereIs(b) = {<<"hand", t, 0>>}
      BY <2>3, <3>1 DEF WhereIs, InQueue
    <3> QED  BY <3>2
  <2>4. ASSUME NEW q \in Queue, NEW i \in 1 .. Len(contents[q]), contents[q][i] = b
        PROVE  \E p \in WhereIs(b) : WhereIs(b) = {p}
    <3>1. b \notin pool /\ b \notin missed /\ \A t \in Task : b \notin own[t]
      BY <2>0, <2>4 DEF PlaceInv, InQueue
    <3>2. \A r \in Queue : \A j \in 1 .. Len(contents[r]) : contents[r][j] = b => r = q /\ j = i
      BY <2>0, <2>4 DEF PlaceInv
    <3>3. WhereIs(b) = {<<"queue", q, i>>}
      BY <2>4, <3>1, <3>2 DEF WhereIs
    <3> QED  BY <3>3
  <2> QED  BY <2>0, <2>1, <2>2, <2>3, <2>4 DEF PlaceInv, InQueue
<1> QED  BY <1>1, QueueInvariant, PTL

\* Whatever the tasks do, the linked lists keep the buffers: each list can be
\* walked in order while no call is at it, and every buffer is in one place.
THEOREM QueuesKeep == QueueSpec => []QueuesKeepBuffers
BY QueuesAreLists, BuffersInOnePlace, PTL DEF QueuesKeepBuffers

\* Queue_Remove takes the first buffer its criterion accepts, and none only if
\* there is none.
THEOREM FirstMatchIsTaken == QueueSpec => FirstMatch
<1>1. QueueInv /\ [QueueNext]_qvars =>
        [\A t \in Task : step[t] = "search" /\ step'[t] = "unlock" => FirstFound(t, contents[at[t]])]_qvars
  <2> SUFFICES ASSUME QueueInv, QueueNext, NEW t \in Task, step[t] = "search", step'[t] = "unlock"
               PROVE  FirstFound(t, contents[at[t]])
    OBVIOUS
  <2>1. QueueTypeOK
    BY DEF QueueInv
  <2>2. NotFound(t) \/ Unlink(t)
    <3>1. ASSUME NEW u \in Task, NEW b \in Buf, MemAlloc(u, b) \/ MemPut(u, b) PROVE FALSE
      BY <3>1 DEF MemAlloc, MemPut, call
    <3>2. ASSUME NEW u \in Task, NEW q \in Queue, NEW b \in Buf, Append1(u, q, b) \/ AppendMisses(u, q, b)
          PROVE  FALSE
      BY <2>1, <3>2 DEF Append1, AppendMisses, call, QueueTypeOK
    <3>3. ASSUME NEW u \in Task, NEW q \in Queue, NEW fits \in SUBSET Buf, Remove1(u, q, fits)
          PROVE  FALSE
      <4>1. step[u] = "out" /\ \E v \in {"search", "unlock"} : step' = [step EXCEPT ![u] = v]
        BY <3>3 DEF Remove1
      <4> QED  BY <2>1, <4>1 DEF QueueTypeOK
    <3>4. ASSUME NEW u \in Task, AppendLink(u) \/ AppendTail(u) \/ Search(u) \/ Unlock(u) PROVE FALSE
      BY <2>1, <3>4 DEF AppendLink, AppendTail, Search, Unlock, QueueTypeOK
    <3>5. ASSUME NEW u \in Task, NotFound(u) \/ Unlink(u) PROVE u = t
      BY <2>1, <3>5 DEF NotFound, Unlink, QueueTypeOK
    <3> QED  BY <3>1, <3>2, <3>3, <3>4, <3>5 DEF QueueNext, InCall
  <2>3. CASE NotFound(t)
    <3>1. pBuf[t] = Nil /\ Searched(t) /\ at[t] \in Queue
      BY <2>3 DEF NotFound, QueueInv, CallInv, CallOK, LockInv
    <3>2. \A i \in 1 .. Len(contents[at[t]]) : contents[at[t]][i] # Nil
      BY <2>1, <3>1, QueueHolds
    <3> QED  BY <3>1, <3>2 DEF Searched, FirstFound
  <2>4. CASE Unlink(t)
    <3>1. pBuf[t] # Nil /\ pBuf[t] \in match[t]
      BY <2>4 DEF Unlink, Fits
    <3> QED  BY <3>1, FoundAt DEF FirstFound
  <2> QED  BY <2>2, <2>3, <2>4
<1> QED  BY <1>1, QueueInvariant, PTL DEF QueueSpec, FirstMatch
=============================================================================
